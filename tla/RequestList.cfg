SPECIFICATION FairSpec
CONSTANTS
  Producers = {p1, p2}
  Worker = w
  Requests = {r1, r2, r3}
  NULL = NULL
INVARIANT IInv
INVARIANT ListExact
INVARIANT DestroyedQuiet
PROPERTY IsLiveChannel
PROPERTY DestroyReturns
\* The queue is destroyed in the end.
CHECK_DEADLOCK FALSE
