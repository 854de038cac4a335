----------------------------- MODULE MCBufCache ------------------------------
(* Instances of BufCache for TLC: small blocks, and one that takes the     *)
(* pages of both buffers, so that memory moves both ways.                  *)
EXTENDS BufCache

CONSTANTS b1, b2, b3

Sizes == [b \in Block |-> IF b = b1 THEN 4 ELSE 1]

Symmetry == Permutations(Proc) \cup Permutations(Buf)
            \cup Permutations(Block \ {b1}) \cup Permutations(Val)
=============================================================================
