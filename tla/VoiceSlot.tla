----------------------------- MODULE VoiceSlot ------------------------------
(***************************************************************************)
(* What the rest of the Android app sees of VoiceSessionController: one    *)
(* slot for a voice session.  A session is started only in an empty slot,  *)
(* the microphone is used only by a session that is not being taken down,  *)
(* and the slot is empty again only when the take-down is complete.        *)
(*                                                                         *)
(* VoiceClient implements this specification; WakeActivation is built on   *)
(* it.                                                                     *)
(***************************************************************************)
VARIABLES
  ui,    \* "Idle", "Active" or "Failed": the kind of the published uiState
  slot,  \* "empty", "running" or "cleaning": connectionJob and cleanupJob
  mic    \* does AndroidAudioInput record?

vars == <<ui, slot, mic>>

Init == ui = "Idle" /\ slot = "empty" /\ mic = FALSE

\* start: refused, and without a word, while a job is active.
Start ==
  /\ slot = "empty"
  /\ slot' = "running" /\ ui' = "Active" /\ UNCHANGED mic

UseMic ==
  /\ slot = "running" /\ ui = "Active"
  /\ mic' \in BOOLEAN /\ UNCHANGED <<ui, slot>>

\* end: with nothing to end it is over at once.
End ==
  /\ slot = "running"
  /\ slot' = "cleaning" /\ mic' = FALSE /\ UNCHANGED ui

\* fail: published at once, before the clean-up.
Fail ==
  /\ slot = "running"
  /\ slot' = "cleaning" /\ ui' = "Failed" /\ mic' = FALSE

\* The server's ENDED is still handled during the clean-up of an end.
SeeEnded ==
  /\ slot = "cleaning" /\ ui = "Active"
  /\ ui' = "Idle" /\ UNCHANGED <<slot, mic>>

CleanedUp ==
  /\ slot = "cleaning"
  /\ slot' = "empty" /\ ui' \in {"Idle", ui} \ {"Active"} /\ UNCHANGED mic

Next == Start \/ UseMic \/ End \/ Fail \/ SeeEnded \/ CleanedUp

Spec == Init /\ [][Next]_vars
=============================================================================
