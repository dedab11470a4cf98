---------------------------- MODULE MCTaskEngine ----------------------------
(***************************************************************************)
(* Instances of TaskEngine: calls racing for one Task, reads over several, *)
(* and reads past a deadline.  One of the two bodies has a deadline.       *)
(***************************************************************************)
EXTENDS TaskEngine, TLC

CONSTANTS plain, dated

MCExpiresAt == [b \in Bodies |-> IF b = dated THEN 1 ELSE Null]

Symmetry == Permutations(Requests) \cup Permutations(TaskIds) \cup Permutations(Keys)
=============================================================================
