--------------------------- MODULE XrpRuntimeInv ---------------------------
(* The inductive invariant behind the safety properties of XrpRuntime.     *)
(* RuntimeSafety checks it with TLC, XrpRuntimeProofs proves it.           *)
EXTENDS XrpRuntime

QueueDtor == {"qExit", "qJoin", "qSync", "qClose", "qFree"}
DestroysQueue(t) == pc[t] \in QueueDtor
DestroysEvent(t) ==
  pc[t] \in {"evDrop", "evFree"} \/ (pc[t] \in QueueDtor /\ cmd[t] # NoCmd)
Unprocessed == {"made", "queued", "running"}

LiveHeld == \A o \in Objects : mem[o] = "live" <=> ref[o] > 0

(* A client inside a call still owns what the call was given.              *)
UsesOwned(t) ==
  /\ pc[t] = "push" => qu[t] \in own[t] /\ (sync[t] => cmd[t] \in own[t])
  /\ pc[t] \in {"wait", "asleep", "unref"} => cmd[t] \in own[t] \cap Cmds
OwnsWhatItUses == \A t \in Clients : UsesOwned(t)

(* A request is in one place: with its caller, in the list of its queue,   *)
(* or with the worker.                                                     *)
Pushing(t) ==
  pc[t] = "push" =>
    /\ cmd[t] \in Cmds /\ req[cmd[t]] = "made" /\ parent[cmd[t]] = qu[t]
    /\ \A u \in Clients \ {t} : pc[u] = "push" => cmd[u] # cmd[t]
Listed(q) ==
  \A i \in 1 .. Len(items[q]) :
    /\ req[items[q][i]] = "queued" /\ parent[items[q][i]] = q
    /\ \A j \in 1 .. Len(items[q]) : i # j => items[q][i] # items[q][j]
Running(q) ==
  /\ pc[q] \in {"run", "drop"} =>
       cmd[q] \in Cmds /\ req[cmd[q]] = "running" /\ parent[cmd[q]] = q
  /\ pc[q] = "drop" => mem[cmd[q]] # "none" /\ status[cmd[q]] # "pending"
Pending(c) ==
  /\ req[c] = "none" => mem[c] = "none"
  /\ status[c] = "pending" => mem[c] # "none" /\ req[c] \in Unprocessed
PushedRequests == \A t \in Clients : Pushing(t)
QueuedRequests == \A q \in Queues : Listed(q)
RunningRequests == \A q \in Queues : Running(q)
PendingRequests == \A c \in Cmds : Pending(c)

(* One thread destroys an object, and it is where the object's memory says.*)
EventDtor(t) ==
  DestroysEvent(t) =>
    /\ cmd[t] \in Cmds
    /\ mem[cmd[t]] = IF pc[t] = "evDrop" THEN "closing" ELSE "shut"
QueueDtorOf(t) ==
  DestroysQueue(t) => mem[qu[t]] = IF pc[t] = "qFree" THEN "shut" ELSE "closing"
Exclusive(t, u) ==
  /\ DestroysEvent(t) /\ DestroysEvent(u) => cmd[u] # cmd[t]
  /\ DestroysQueue(t) /\ DestroysQueue(u) => qu[u] # qu[t]
Destruction ==
  \A t \in Threads :
    /\ EventDtor(t) /\ QueueDtorOf(t)
    /\ \A u \in Threads \ {t} : Exclusive(t, u)

(* What the worker relies on instead of a reference to its queue.          *)
WorkerUses(q) ==
  /\ pc[q] = "evDrop" => parent[cmd[q]] = q
  /\ DestroysQueue(q) => qu[q] = q
  /\ localExit[q] =>
       syncExit[q] /\ pc[q] \in {"qClose", "qFree", "evFree", "loop", "done"}
  /\ pc[q] \notin {"none", "done"} => localExit[q] \/ mem[q] \in HoldsParent
  /\ pc[q] = "none" => ~syncExit[q]
  /\ pc[q] \notin {"none", "loop"} => syncExit[q]
  /\ mem[q] = "none" => pc[q] = "none"
  /\ mem[q] # "none" /\ ~ThreadCreateMayFail => pc[q] # "none"
Workers == \A q \in Queues : WorkerUses(q)

(* How far the destruction of a queue has come.                            *)
ExitStage(q) ==
  /\ exit[q] => mem[q] \in {"closing", "shut", "freed"}
  /\ pc[q] = "done" \/ localExit[q] => exit[q]
DestroyStage(t) ==
  /\ pc[t] \in {"qJoin", "qSync", "qClose"} => exit[qu[t]]
  /\ pc[t] = "qClose" => pc[qu[t]] = "done" \/ localExit[qu[t]]
  /\ pc[t] = "qSync" => t = qu[t] \/ pc[qu[t]] = "none"
Shutdown ==
  (\A q \in Queues : ExitStage(q)) /\ (\A t \in Threads : DestroyStage(t))

(* The inductive invariant.                                                *)
IInv ==
  /\ TypeOK /\ RefExact /\ LiveHeld /\ OwnsWhatItUses
  /\ PushedRequests /\ QueuedRequests /\ RunningRequests /\ PendingRequests
  /\ Destruction /\ Workers /\ Shutdown
=============================================================================
