---------------------------- MODULE MCDspDevice ----------------------------
(* DspDevice for TLC.                                                      *)
EXTENDS DspDevice, TLC

Symmetry == Permutations(Threads) \cup Permutations(Handles)
              \cup Permutations(Fds) \cup Permutations(Buffers)
=============================================================================
