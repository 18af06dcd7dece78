---------------------------- MODULE MCXrpWaitAny ----------------------------
(* XrpWaitAny for TLC: arrays of one or two different events, and arrays   *)
(* in which one event occurs twice.                                        *)
EXTENDS XrpWaitAny, TLC

DifferentEvents ==
  {<<e>> : e \in Events} \cup {a \in Events \X Events : a[1] # a[2]}
RepeatedEvents ==
  {<<e>> : e \in Events}
    \cup {<<a[1], a[1], a[2]>> : a \in {b \in Events \X Events : b[1] # b[2]}}
Symmetry == Permutations(Waiters) \cup Permutations(Events)
=============================================================================
