-------------------------- MODULE MCXrpRequestList --------------------------
(* XrpRequestList for TLC: producers and blocks of memory are exchangeable. *)
EXTENDS XrpRequestList, TLC

Symmetry == Permutations(Producers) \cup Permutations(Requests)
=============================================================================
