--------------------------- MODULE MCVoiceSession ----------------------------
(***************************************************************************)
(* Instances of VoiceSession: three connections, two of which may meet.    *)
(***************************************************************************)
EXTENDS VoiceSession, TLC

Symmetry == Permutations(Handlers) \cup Permutations(Turns)
              \cup Permutations(Texts)
=============================================================================
