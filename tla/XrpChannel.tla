----------------------------- MODULE XrpChannel -----------------------------
(* What a queue promises (xrp_api.h: "Queue is an ordered device           *)
(* communication channel"): requests reach the device one at a time, in    *)
(* the order in which they were pushed; a queue that is closed from        *)
(* outside first hands over what it holds, and one that is closed by the   *)
(* handling of one of its own requests hands over nothing more.            *)
EXTENDS Naturals, Sequences

CONSTANTS
  Requests,   \* blocks of memory that hold a struct xrp_request
  NULL

VARIABLES
  contents,   \* requests pushed and not yet handed over, oldest first
  taken,      \* the request being handled, or NULL
  mode        \* "open", "drain" or "abandon"

vars == <<contents, taken, mode>>

Members(s) == {s[i] : i \in 1 .. Len(s)}

Init == contents = <<>> /\ taken = NULL /\ mode = "open"

Push(r) ==
  /\ mode = "open"
  /\ r \notin Members(contents) /\ r # taken
  /\ contents' = Append(contents, r)
  /\ UNCHANGED <<taken, mode>>

HandOver ==
  /\ mode # "abandon" /\ taken = NULL /\ contents # <<>>
  /\ taken' = Head(contents)
  /\ contents' = Tail(contents)
  /\ UNCHANGED mode

Finish ==
  /\ taken # NULL
  /\ taken' = NULL
  /\ UNCHANGED <<contents, mode>>

Close ==
  /\ mode = "open"
  /\ mode' = "drain"
  /\ UNCHANGED <<contents, taken>>

CloseInHandler ==
  /\ mode = "open" /\ taken # NULL
  /\ mode' = "abandon"
  /\ UNCHANGED <<contents, taken>>

Next ==
  \/ \E r \in Requests : Push(r)
  \/ HandOver \/ Finish \/ Close \/ CloseInHandler

Spec == Init /\ [][Next]_vars

(* Whatever was pushed is eventually handed over and finished.             *)
FairSpec == Spec /\ WF_vars(HandOver) /\ WF_vars(Finish)
=============================================================================
