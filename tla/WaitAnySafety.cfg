SPECIFICATION Spec
CONSTANTS
  Waiters = {w1, w2, w3}
  Events = {e1, e2}
  Arrays <- DifferentEvents
  NULL = NULL
SYMMETRY Symmetry
INVARIANT IInv
INVARIANT ListExact
INVARIANT NoDanglingLink
INVARIANT NoLostWakeup
PROPERTY ReturnsCompleted
