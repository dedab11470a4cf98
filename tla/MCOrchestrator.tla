--------------------------- MODULE MCOrchestrator ---------------------------
(***************************************************************************)
(* Instances of Orchestrator: calls racing for a workflow with a deadline  *)
(* under all settings, and a change of the safe mode between create and    *)
(* resume.                                                                 *)
(***************************************************************************)
EXTENDS Orchestrator, TLC

CONSTANTS open, dated

MCExpiresAt == [w \in Workflows |-> IF w = dated THEN 1 ELSE Null]

Setting(mode, ai, actions) == [mode |-> mode, ai |-> ai, actions |-> actions]

Normal == Setting("NORMAL", TRUE, TRUE)

Switching == {Normal, Setting("SAFE_MODE", TRUE, TRUE)}

AllSettings == {Setting(m, a, x) : m \in SafeModes, a \in BOOLEAN, x \in BOOLEAN}

Symmetry == Permutations(Requests)
=============================================================================
