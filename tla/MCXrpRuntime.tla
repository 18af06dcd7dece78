--------------------------- MODULE MCXrpRuntime ---------------------------
(* XrpRuntime for TLC: which clients may be exchanged for one another.     *)
EXTENDS XrpRuntimeInv, TLC

ClientSymmetry == Permutations(Clients) \cup Permutations(Cmds)
=============================================================================
