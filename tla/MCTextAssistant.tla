-------------------------- MODULE MCTextAssistant ---------------------------
(***************************************************************************)
(* Instances of TextAssistant: calls that repeat and compete, in one       *)
(* conversation and across two.                                            *)
(***************************************************************************)
EXTENDS TextAssistant, TLC

Symmetry == Permutations(Conversations) \cup Permutations(Calls)
              \cup Permutations(Keys) \cup Permutations(Bodies)
=============================================================================
