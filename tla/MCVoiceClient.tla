---------------------------- MODULE MCVoiceClient ----------------------------
(***************************************************************************)
(* Instances of VoiceClient.                                               *)
(***************************************************************************)
EXTENDS VoiceClient
=============================================================================
