----------------------------- MODULE XrpEvents ------------------------------
(***************************************************************************)
(* What xrp_api.h promises of events: each is completed at most once and   *)
(* stays completed; a thread that waits for some of them returns when one  *)
(* has been completed, not before, and does return then.                   *)
(*                                                                         *)
(* XrpRuntime (xrp_wait) and XrpWaitAny (xrp_wait_any) implement it.       *)
(***************************************************************************)
CONSTANTS
  Waiters,   \* threads
  Events     \* events

VARIABLES
  done,      \* the completed events
  waiting    \* waiting[w]: the events w waits for; none if it does not wait

vars == <<done, waiting>>

Init == done = {} /\ waiting = [w \in Waiters |-> {}]

(* A call waits for at least one event; it may be completed already.       *)
Wait(w, events) ==
  /\ waiting[w] = {} /\ events # {}
  /\ waiting' = [waiting EXCEPT ![w] = events]
  /\ UNCHANGED done

Complete(e) ==
  /\ e \notin done
  /\ done' = done \cup {e}
  /\ UNCHANGED waiting

Return(w) ==
  /\ waiting[w] \cap done # {}
  /\ waiting' = [waiting EXCEPT ![w] = {}]
  /\ UNCHANGED done

Next ==
  \/ \E w \in Waiters : Return(w) \/ \E events \in SUBSET Events : Wait(w, events)
  \/ \E e \in Events : Complete(e)

Spec == Init /\ [][Next]_vars

(* Nobody is owed a completion; who has one is not kept waiting.           *)
FairSpec == Spec /\ \A w \in Waiters : WF_vars(Return(w))
=============================================================================
