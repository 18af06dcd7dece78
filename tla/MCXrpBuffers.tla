---------------------------- MODULE MCXrpBuffers ----------------------------
(* Threads, device buffers, groups and requests are interchangeable.       *)
EXTENDS XrpBuffersInv, TLC
Symmetry == Permutations(Clients) \cup Permutations(Buffers \ HostBuffers) \cup Permutations(Cmds)
              \cup Permutations(Groups) \cup Permutations(Workers)

(* Buffers of two bytes.  Of the windows one fits, one begins behind the   *)
(* end, one is a byte too long, and the ends of the last two wrap.  The    *)
(* larger instance has a host buffer that is too small for any of them.    *)
MCSizeOf == [b \in Buffers |-> 2]
MCSmallHost == [b \in Buffers |-> IF b \in HostBuffers THEN 1 ELSE 2]
MCWindows == {<<1, 1>>, <<3, 0>>, <<1, 2>>, <<1, SizeMod - 1>>, <<SizeMod - 1, 2>>}
=============================================================================
