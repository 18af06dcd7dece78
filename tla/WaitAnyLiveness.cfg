SPECIFICATION FairSpec
CONSTANTS
  Waiters = {w1, w2}
  Events = {e1, e2}
  Arrays <- DifferentEvents
  NULL = NULL
PROPERTY IsFairEvents
