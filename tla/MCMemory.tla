------------------------------ MODULE MCMemory -------------------------------
(***************************************************************************)
(* Instances of Memory: two overlapping calls over two rows, a deadline    *)
(* that passes and one that does not.                                      *)
(***************************************************************************)
EXTENDS Memory, TLC

Symmetry == Permutations(Memories) \cup Permutations(Calls)
              \cup Permutations(Contents)
=============================================================================
