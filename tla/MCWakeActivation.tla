-------------------------- MODULE MCWakeActivation ---------------------------
(***************************************************************************)
(* Instances of WakeActivation.                                            *)
(***************************************************************************)
EXTENDS WakeActivation
=============================================================================
