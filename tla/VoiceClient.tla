----------------------------- MODULE VoiceClient ----------------------------
(***************************************************************************)
(* The Android VoiceSessionController with its AndroidAudioInput, its      *)
(* AndroidAudioOutput and its socket, talking to a server that follows     *)
(* VoiceProtocolCoordinator.                                               *)
(*                                                                         *)
(* The controller lives on the main thread; its coroutines interleave only *)
(* where they suspend, so a handler is one step.  The readers of the       *)
(* microphone and the writer of the loudspeaker are threads of their own   *)
(* that call back into it.  A handler is an operator from the controller's *)
(* state to the next one, or to the set of the possible next ones.         *)
(***************************************************************************)
EXTENDS Naturals, Sequences

CONSTANTS
  MaxAttempts,  \* min(maxAttempts, maxReconnectAttempts)
  MaxQueue,     \* MaxBufferedVoiceFrames
  MaxControl,   \* capacity of controlEvents
  Chunks,       \* audio events of one reply
  MaxStarts,    \* bound: sessions started
  MaxTurns,     \* bound: turn identifiers made
  MaxFrames     \* bound: frames recorded in one turn

ASSUME BoundsAssumption ==
  /\ {MaxAttempts, MaxStarts, MaxTurns, MaxFrames} \subseteq Nat
  /\ {MaxQueue, MaxControl, Chunks} \subseteq Nat \ {0}

VARIABLES
  c,       \* the controller, its recorder and its player
  s,       \* the coordinator of the current connection, at the server
  up,      \* events under way to the server
  down,    \* events under way to the client
  starts   \* sessions started so far

vars == <<c, s, up, down, starts>>

-----------------------------------------------------------------------------
Terminal == {"ENDED", "FAILED"}
States == {"IDLE", "CONNECTING", "LISTENING", "PROCESSING", "SPEAKING",
           "RECONNECTING"} \cup Terminal
Errors == {"NETWORK_UNAVAILABLE", "RECONNECT_EXHAUSTED", "MALFORMED_EVENT",
           "AUDIO_INPUT_FAILURE", "AUDIO_OUTPUT_FAILURE",
           "AUDIO_DEVICE_UNAVAILABLE", "SERVER_ERROR"}

\* transitions of VoiceStateMachine.  INTERRUPTING begins and ends within
\* interruptAssistant and is left out.
CanMove(m, t) ==
  \/ m = t
  \/ CASE m = "CONNECTING"   -> t \in {"LISTENING"} \cup Terminal
       [] m = "LISTENING"    -> t \in {"PROCESSING", "RECONNECTING"} \cup Terminal
       [] m = "PROCESSING"   -> t \in {"SPEAKING", "LISTENING", "RECONNECTING"} \cup Terminal
       [] m = "SPEAKING"     -> t \in {"LISTENING", "RECONNECTING"} \cup Terminal
       [] m = "RECONNECTING" -> t \in {"CONNECTING", "LISTENING"} \cup Terminal
       [] m = "IDLE"         -> t \in {"CONNECTING"} \cup Terminal
       [] OTHER              -> FALSE

\* A turn is the number of identifiers made before it; 0 is none.
Frame == [turn : Nat, seq : Nat]
NoFrame == [turn |-> 0, seq |-> 0]
Silence == [turn |-> 0, next |-> 0, final |-> FALSE]
Control == [type : {"INTERRUPT", "PLAYBACK_COMPLETED"}, turn : Nat]

\* job: where connectionJob is; cleanup: whose cleanupJob runs, and stage how
\* far it is; lastInt: lastInterruptedTurnId.  Of the threads: late, a reader
\* whose recorder was stopped has not yet noticed; held, the frame of the
\* reader that is in enqueueAudioFrame and has captureLock; stuck, a writer
\* whose player was stopped has not yet noticed.
Client ==
  [m : States, ui : {"Idle", "Active"} \cup Errors, ending : BOOLEAN,
   muted : BOOLEAN, turn : Nat, seq : Nat, lastInt : Nat,
   capture : BOOLEAN, late : BOOLEAN, held : Frame, stuck : BOOLEAN,
   out : [turn : Nat, next : Nat, final : BOOLEAN],
   frames : Seq(Frame), control : Seq(Control), attempts : Nat,
   job : {"none", "starting", "connecting", "live", "losing", "waiting"},
   cleanup : {"none", "end", "fail"}, stage : {"none", "stopping", "closing"}]

\* next: the turn whose frames are expected and the number of the next one;
\* final: the last turn whose final transcript was accepted.
Server == [open : BOOLEAN, state : States, speaking : Nat,
           next : Frame, final : Nat]

\* What is under way, either way: END_SESSION and ENDED belong to each other.
UpEvent == Control \cup [type : {"AUDIO_FRAME"}, turn : Nat, seq : Nat]
             \cup [type : {"END_SESSION"}]
DownEvent ==
  [type : {"SESSION_STATE"}, state : {"LISTENING", "SPEAKING", "ENDED"}]
    \cup [type : {"PARTIAL", "FINAL", "ASSISTANT_TEXT", "TURN_INTERRUPTED"}, turn : Nat]
    \cup [type : {"ASSISTANT_AUDIO"}, turn : Nat, seq : Nat, last : BOOLEAN]
    \cup [type : {"ERROR"}]

NewServer == [open |-> FALSE, state |-> "CONNECTING", speaking |-> 0,
              next |-> NoFrame, final |-> 0]

Init ==
  /\ c = [m |-> "IDLE", ui |-> "Idle", ending |-> FALSE, muted |-> FALSE,
          turn |-> 1, seq |-> 0, lastInt |-> 0, capture |-> FALSE,
          late |-> FALSE, held |-> NoFrame, stuck |-> FALSE, out |-> Silence, frames |-> <<>>,
          control |-> <<>>, attempts |-> 0, job |-> "none", cleanup |-> "none",
          stage |-> "none"]
  /\ s = NewServer
  /\ up = <<>> /\ down = <<>> /\ starts = 0

-----------------------------------------------------------------------------
(* The parts the handlers are made of.                                     *)

\* Bug variant: the recorder is left running.
StopInput_Not(k) == k

\* AndroidAudioInput.stop
StopInput(k) ==
  [k EXCEPT !.capture = FALSE, !.late = @ \/ k.capture]

\* AndroidAudioOutput.stopImmediate, under a writer that may be in write.
StopOutput(k) == [k EXCEPT !.out = Silence, !.stuck = @ \/ k.out.turn # 0]

StopAudio(k) == StopOutput(StopInput(k))

\* drainAudioFrames
Drain(k) == [k EXCEPT !.frames = <<>>]

\* Bug variant: what is queued is kept.
NewTurn_Keeps(k) == [k EXCEPT !.turn = @ + 1, !.seq = 0]

\* Is a reader in enqueueAudioFrame?
Locked(k) == k.held.turn # 0

\* beginNewTurn, with captureLock.
NewTurn(k) == [Drain(k) EXCEPT !.turn = @ + 1, !.seq = 0]
TurnsLeft == c.turn < MaxTurns
MayTurn == TurnsLeft /\ ~Locked(c)

\* trySend on controlEvents: dropped when the channel is full.
Post(k, type, turn) ==
  IF Len(k.control) < MaxControl
  THEN [k EXCEPT !.control = Append(@, [type |-> type, turn |-> turn])]
  ELSE k

\* fail: the first one counts.
Fail(k, error) ==
  IF k.ending THEN k
  ELSE [StopAudio(k) EXCEPT !.ending = TRUE, !.ui = error,
                            !.m = IF @ \in Terminal THEN @ ELSE "FAILED",
                            !.cleanup = "fail", !.stage = "stopping"]

Malformed(k) == Fail(k, "MALFORMED_EVENT")

\* startCapture: the device may refuse, or accept and not come to record.
StartCapture(k) ==
  IF k.muted \/ k.capture \/ k.ending THEN {k}
  ELSE {k, [k EXCEPT !.capture = TRUE], Fail(k, "AUDIO_DEVICE_UNAVAILABLE")}

\* applyServerState, and when it begins a turn.
Turns(k, e) ==
  /\ e.type = "SESSION_STATE" /\ e.state = "LISTENING"
  /\ k.m # "LISTENING" /\ CanMove(k.m, "LISTENING")

ApplyState(k, t) ==
  IF k.m = t THEN {k}
  ELSE IF ~CanMove(k.m, t) THEN {Malformed(k)}
  ELSE IF t = "LISTENING"
       THEN StartCapture(NewTurn([k EXCEPT !.m = t, !.ui = "Active"]))
       ELSE {[k EXCEPT !.m = t, !.ui = IF t = "ENDED" THEN "Idle" ELSE "Active"]}

\* AndroidAudioOutput.offer and what the controller makes of a refusal.
Offer(k, e) ==
  IF k.out.final \/ e.seq # k.out.next \/ k.out.turn \notin {0, e.turn}
  THEN Fail(k, "AUDIO_OUTPUT_FAILURE")
  ELSE [k EXCEPT !.out = [turn |-> e.turn, next |-> e.seq + 1, final |-> e.last]]

\* handleAssistantAudio
HandleAudio(k, e) ==
  LET spoken == [k EXCEPT !.m = IF @ = "PROCESSING" THEN "SPEAKING" ELSE @]
  IN IF e.turn # k.turn \/ k.m \notin {"PROCESSING", "SPEAKING"} THEN Malformed(k)
     ELSE Offer([spoken EXCEPT !.ui = "Active"], e)

\* handleServerEvent: partial transcripts and the text are only shown.
Handle(k, e) ==
  CASE e.type = "SESSION_STATE" -> ApplyState(k, e.state)
    [] e.type \in {"PARTIAL", "ASSISTANT_TEXT"} ->
         {IF e.turn = k.turn THEN k ELSE Malformed(k)}
    [] e.type = "FINAL" ->
         {IF e.turn # k.turn THEN Malformed(k)
          ELSE IF k.m = "LISTENING" THEN [k EXCEPT !.m = "PROCESSING", !.ui = "Active"]
          ELSE k}
    [] e.type = "ASSISTANT_AUDIO" -> {HandleAudio(k, e)}
    [] e.type = "TURN_INTERRUPTED" ->
         {IF e.turn = k.lastInt THEN [k EXCEPT !.lastInt = 0] ELSE Malformed(k)}
    [] e.type = "ERROR" -> {Fail(k, "SERVER_ERROR")}

-----------------------------------------------------------------------------
(* The user.                                                               *)

\* Bug variant: an earlier session may still be taken down.
MayStart_Cleaning == c.job = "none"

MayStart == c.job = "none" /\ c.cleanup = "none"

\* start does not take captureLock: a reader that is in enqueueAudioFrame since
\* an earlier session reads the turn and counts its frame before, between or
\* after the assignments, and the reset of the count may be lost.
Races ==
  IF ~Locked(c) THEN {[held |-> NoFrame, seq |-> 0]}
  ELSE {[held |-> [turn |-> t, seq |-> c.held.seq], seq |-> n] :
          t \in {c.held.turn, c.turn + 1}, n \in {0, c.held.seq + 1}}
       \cup {[held |-> [turn |-> t, seq |-> 0], seq |-> 1] :
               t \in {c.held.turn, c.turn + 1}}

\* Nor does it drain what is queued.
Start ==
  /\ starts < MaxStarts /\ TurnsLeft /\ MayStart
  /\ \E r \in Races :
       c' = [c EXCEPT !.m = "CONNECTING", !.ui = "Active", !.ending = FALSE,
                      !.turn = @ + 1, !.seq = r.seq, !.held = r.held, !.lastInt = 0,
                      !.attempts = 0, !.job = "starting"]
  /\ starts' = starts + 1
  /\ UNCHANGED <<s, up, down>>

ToggleMute ==
  /\ \/ /\ ~c.muted
        /\ c' = Drain(StopInput([c EXCEPT !.muted = TRUE]))
     \/ /\ c.muted
        /\ LET k == [c EXCEPT !.muted = FALSE]
           IN c' \in IF k.m = "LISTENING" THEN StartCapture(k) ELSE {k}
  /\ UNCHANGED <<s, up, down, starts>>

\* Bug variant: the player is left to run out.
Interrupt_KeepsPlaying ==
  /\ c.m = "SPEAKING" /\ MayTurn
  /\ c' = [NewTurn(Post(c, "INTERRUPT", c.turn))
             EXCEPT !.m = "LISTENING", !.ui = "Active", !.lastInt = c.turn]
  /\ UNCHANGED <<s, up, down, starts>>

\* interruptAssistant: a tap, speech or a loss of the audio focus.
Interrupt ==
  /\ c.m = "SPEAKING" /\ MayTurn
  /\ c' = [NewTurn(Post(StopOutput(c), "INTERRUPT", c.turn))
             EXCEPT !.m = "LISTENING", !.ui = "Active", !.lastInt = c.turn]
  /\ UNCHANGED <<s, up, down, starts>>

\* end, up to where its clean-up first waits; with no connection it does not.
End ==
  /\ ~c.ending
  /\ c' = IF c.job = "none"
          THEN [c EXCEPT !.ending = TRUE, !.m = "ENDED", !.ui = "Idle"]
          ELSE [StopAudio(c) EXCEPT !.ending = TRUE, !.cleanup = "end",
                                    !.stage = "stopping"]
  /\ up' = IF s.open THEN Append(up, [type |-> "END_SESSION"]) ELSE up
  /\ UNCHANGED <<s, down, starts>>

-----------------------------------------------------------------------------
(* connectionJob, and its children.                                        *)

StartAnswered ==
  /\ c.job = "starting" /\ ~c.ending
  /\ \/ c' = [c EXCEPT !.job = "connecting"] /\ s' = NewServer
     \/ /\ c' = [Fail(c, "NETWORK_UNAVAILABLE") EXCEPT !.job = "none"]
        /\ UNCHANGED s
  /\ UNCHANGED <<up, down, starts>>

\* The catch of connectionLoop; k is the state it starts in.
Caught(k) ==
  LET q == [Drain(StopAudio(k)) EXCEPT !.job = "none"]
  IN IF k.ending THEN q
     ELSE IF k.m = "CONNECTING" THEN Fail(q, "NETWORK_UNAVAILABLE")
     ELSE IF k.attempts >= MaxAttempts THEN Fail(q, "RECONNECT_EXHAUSTED")
     ELSE [q EXCEPT !.m = "RECONNECTING", !.attempts = @ + 1, !.ui = "Active",
                    !.job = "waiting"]

\* The socket opens and the server greets, or it does not open; a session that
\* is over at the server is refused.
Connect ==
  /\ c.job = "connecting" /\ ~c.ending
  /\ \/ /\ s.state \notin Terminal
        /\ s' = [NewServer EXCEPT !.open = TRUE, !.state = "LISTENING",
                                  !.final = s.final]
        /\ c' \in StartCapture([c EXCEPT !.job = "live"])
        /\ down' = <<[type |-> "SESSION_STATE", state |-> "LISTENING"]>>
     \/ /\ c' = Caught(c)
        /\ UNCHANGED <<s, down>>
  /\ up' = <<>>
  /\ UNCHANGED starts

\* receiveLoop: `ending' is looked at before the wait, not after it, so one
\* event that arrives during the clean-up is still handled; the loop and the
\* connection then end without their catch.
Receive ==
  /\ c.job = "live" /\ down # <<>>
  /\ Turns(c, Head(down)) => MayTurn
  /\ \E k \in Handle(c, Head(down)) :
       c' = IF c.ending THEN [k EXCEPT !.job = "none"] ELSE k
  /\ down' = Tail(down)
  /\ UNCHANGED <<s, up, starts>>

\* sendLoop: control events go first.
Send ==
  /\ c.job = "live" /\ ~c.ending /\ s.open
  /\ \/ /\ c.control # <<>>
        /\ up' = Append(up, Head(c.control))
        /\ c' = [c EXCEPT !.control = Tail(@)]
     \/ /\ c.control = <<>> /\ c.frames # <<>>
        /\ up' = Append(up, [type |-> "AUDIO_FRAME", turn |-> Head(c.frames).turn,
                             seq |-> Head(c.frames).seq])
        /\ c' = [c EXCEPT !.frames = Tail(@)]
  /\ UNCHANGED <<s, down, starts>>

\* The loops notice that the socket is gone and are joined.
Closed ==
  /\ c.job = "live" /\ ~c.ending /\ ~s.open /\ down = <<>>
  /\ c' = [c EXCEPT !.job = "losing"]
  /\ UNCHANGED <<s, up, down, starts>>

Recover ==
  /\ c.job = "losing" /\ ~c.ending
  /\ c' = Caught(c)
  /\ UNCHANGED <<s, up, down, starts>>

\* After the delay: a new credential; a failure that cannot be retried fails.
Refreshed ==
  /\ c.job = "waiting" /\ ~c.ending
  /\ \/ MayTurn /\ c' = [NewTurn(c) EXCEPT !.job = "connecting"]
     \/ c' = [Fail(c, "SERVER_ERROR") EXCEPT !.job = "none"]
  /\ UNCHANGED <<s, up, down, starts>>

-----------------------------------------------------------------------------
(* cleanupJob.                                                             *)

\* Bug variant: the connection is joined and not cancelled.
StopResources_NoCancel ==
  /\ c.stage = "stopping" /\ c.job = "none"
  /\ c' = [Drain(c) EXCEPT !.stage = "closing"]
  /\ s' = [s EXCEPT !.open = FALSE]
  /\ up' = <<>> /\ down' = <<>>
  /\ UNCHANGED starts

\* The rest of stopLocalResources: the connection is cancelled, which runs its
\* catch, and the socket closed.
StopResources ==
  /\ c.stage = "stopping"
  /\ c' = [(IF c.job \in {"none", "starting"} THEN Drain(c) ELSE Caught(c))
             EXCEPT !.job = "none", !.stage = "closing"]
  /\ s' = [s EXCEPT !.open = FALSE]
  /\ up' = <<>> /\ down' = <<>>
  /\ UNCHANGED starts

\* endVoiceSession was answered, or not: the answer is not looked at.
CleanedUp ==
  /\ c.stage = "closing"
  /\ c' = [c EXCEPT !.stage = "none", !.cleanup = "none",
                    !.m = IF @ \in Terminal THEN @ ELSE "ENDED",
                    !.ui = IF c.cleanup = "end" THEN "Idle" ELSE @]
  /\ UNCHANGED <<s, up, down, starts>>

-----------------------------------------------------------------------------
(* The threads of the microphone and of the loudspeaker.                   *)

\* enqueueAudioFrame, by a reader that may have been stopped meanwhile: it
\* takes captureLock, looks, and makes a frame.
RecordBegins ==
  /\ (c.capture \/ c.late) /\ ~Locked(c)
  /\ c.m = "LISTENING" /\ ~c.ending /\ ~c.muted /\ c.seq < MaxFrames
  /\ c' = [c EXCEPT !.held = [turn |-> c.turn, seq |-> c.seq], !.seq = @ + 1]
  /\ UNCHANGED <<s, up, down, starts>>

\* Then it sends the frame to the queue, whatever has happened since: no drain
\* but that of a new turn waits for it.
RecordEnds ==
  /\ Locked(c)
  /\ LET k == [c EXCEPT !.held = NoFrame]
     IN c' = IF Len(c.frames) < MaxQueue
             THEN [k EXCEPT !.frames = Append(@, c.held)]
             ELSE Fail(k, "AUDIO_INPUT_FAILURE")
  /\ UNCHANGED <<s, up, down, starts>>

\* read returns nothing: the device failed, or the recorder was stopped under
\* the reader, which does not look whether it was cancelled.
ReadFails ==
  /\ \/ /\ c.capture /\ (Locked(c) => c.late)
        /\ c' = Fail([c EXCEPT !.capture = FALSE], "AUDIO_INPUT_FAILURE")
     \/ /\ c.late /\ (Locked(c) => c.capture)
        /\ c' = Fail([c EXCEPT !.late = FALSE], "AUDIO_INPUT_FAILURE")
  /\ UNCHANGED <<s, up, down, starts>>

\* A stopped reader was not in read and leaves its loop.
ReaderLeaves ==
  /\ c.late /\ (Locked(c) => c.capture)
  /\ c' = [c EXCEPT !.late = FALSE]
  /\ UNCHANGED <<s, up, down, starts>>

\* The last chunk has been heard.
PlaybackCompletes ==
  /\ c.out.final
  /\ c' = Post([c EXCEPT !.out = Silence], "PLAYBACK_COMPLETED", c.out.turn)
  /\ UNCHANGED <<s, up, down, starts>>

\* write takes less than it was given: the device failed, or the player was
\* stopped under the writer.
PlaybackFails ==
  /\ \/ c.out.turn # 0 /\ c' = Fail(c, "AUDIO_OUTPUT_FAILURE")
     \/ c.stuck /\ c' = Fail([c EXCEPT !.stuck = FALSE], "AUDIO_OUTPUT_FAILURE")
  /\ UNCHANGED <<s, up, down, starts>>

\* A stopped writer was not in write.
WriterLeaves ==
  /\ c.stuck /\ c' = [c EXCEPT !.stuck = FALSE]
  /\ UNCHANGED <<s, up, down, starts>>

-----------------------------------------------------------------------------
(* The server, and the network.                                            *)

Heard(turn) ==
  <<[type |-> "FINAL", turn |-> turn], [type |-> "ASSISTANT_TEXT", turn |-> turn]>>

State(t) == <<[type |-> "SESSION_STATE", state |-> t]>>

Reply(turn) ==
  Heard(turn) \o State("SPEAKING")
  \o [i \in 1..Chunks |-> [type |-> "ASSISTANT_AUDIO", turn |-> turn,
                           seq |-> i - 1, last |-> i = Chunks]]

\* A MalformedVoiceEventError ends the connection, and says so.
Rejects ==
  /\ s' = [s EXCEPT !.open = FALSE, !.state = "RECONNECTING"]
  /\ down' = Append(down, [type |-> "ERROR"])

\* Any other error ends the connection and the session, without a word.
GivesUp ==
  /\ s' = [s EXCEPT !.open = FALSE, !.state = "FAILED"]
  /\ UNCHANGED down

Moves(t) ==
  /\ s' = [s EXCEPT !.state = t, !.speaking = 0]
  /\ down' = down \o State(t)

\* _audio: the provider may find the turn complete, and may do so again; the
\* assistant answers, replays its answer or fails.
HearFrame(e) ==
  LET expected == IF e.turn = s.next.turn THEN s.next.seq ELSE 0
      heard == [s EXCEPT !.next = [turn |-> e.turn, seq |-> e.seq + 1]]
  IN IF e.seq # expected THEN Rejects
     ELSE \/ s' = heard /\ UNCHANGED down
          \/ /\ s' = heard
             /\ down' = Append(down, [type |-> "PARTIAL", turn |-> e.turn])
          \/ /\ s.state = "LISTENING" /\ s.final < e.turn
             /\ s' = [heard EXCEPT !.state = "SPEAKING", !.speaking = e.turn,
                                   !.final = e.turn]
             /\ down' = down \o Reply(e.turn)
          \/ /\ s.final = e.turn
             /\ s' = heard
             /\ down' = down \o Heard(e.turn) \o State(s.state)
          \/ Rejects
          \/ GivesUp

Serve ==
  /\ s.open /\ up # <<>>
  /\ LET e == Head(up)
     IN CASE e.type = "AUDIO_FRAME" -> HearFrame(e)
          [] e.type = "INTERRUPT" ->
               IF e.turn # s.speaking THEN Rejects
               ELSE /\ s' = [s EXCEPT !.state = "LISTENING", !.speaking = 0]
                    /\ down' = Append(down, [type |-> "TURN_INTERRUPTED", turn |-> e.turn])
                                 \o State("LISTENING")
          [] e.type = "PLAYBACK_COMPLETED" ->
               IF e.turn # s.speaking THEN Rejects ELSE Moves("LISTENING")
          [] e.type = "END_SESSION" ->
               /\ s' = [s EXCEPT !.state = "ENDED", !.open = FALSE]
               /\ down' = down \o State("ENDED")
  /\ up' = Tail(up)
  /\ UNCHANGED <<c, starts>>

\* The connection breaks: what is under way is lost.
Break ==
  /\ s.open
  /\ s' = [s EXCEPT !.open = FALSE]
  /\ up' = <<>> /\ down' = <<>>
  /\ UNCHANGED <<c, starts>>

-----------------------------------------------------------------------------
User == Start \/ ToggleMute \/ Interrupt \/ End

Connection == StartAnswered \/ Connect \/ Receive \/ Send \/ Closed \/ Recover \/ Refreshed

Cleanup == StopResources \/ CleanedUp

Audio ==
  \/ RecordBegins \/ RecordEnds \/ ReadFails \/ ReaderLeaves
  \/ PlaybackCompletes \/ PlaybackFails \/ WriterLeaves

Next == User \/ Connection \/ Cleanup \/ Audio \/ Serve \/ Break

\* cleanupJob runs on when what it waits for has happened; a cancelled job
\* ends and an HTTP call returns or times out.
Spec == Init /\ [][Next]_vars /\ WF_vars(StopResources) /\ WF_vars(CleanedUp)

-----------------------------------------------------------------------------
(* Properties.                                                             *)

\* The shape of the controller, with its queues within their capacities, and of
\* the server it talks to.
TypeOK ==
  /\ c \in Client /\ s \in Server
  /\ up \in Seq(UpEvent) /\ down \in Seq(DownEvent)
  /\ starts \in Nat

\* The microphone is recorded only for a connected session that nobody has
\* muted, ended or lost (realtime-voice.md: "only while that session is
\* active"): through every mute, reconnection, failure and end.
MicInSession ==
  c.capture => /\ c.job \in {"live", "losing"}
               /\ ~c.ending /\ ~c.muted /\ c.m \notin Terminal

\* An interrupted turn is not heard again, whatever chunks of it are still
\* under way, queued or being written (interruptAssistant, AndroidAudioOutput;
\* realtime-voice.md: "Old audio cannot resume").
InterruptedIsSilent ==
  c.lastInt # 0 => c.out.turn # c.lastInt

\* realtime-voice.md has the end of a session close the playback.  It is not an
\* invariant: one event is still handled after ending is set, and an audio
\* frame in it plays on when everything else has stopped.
SilentAfterEnd ==
  c.job = "none" /\ c.cleanup = "none" => c.out = Silence

IsFrame(e) == e.type = "AUDIO_FRAME"
Before(e, f) == e.turn < f.turn \/ (e.turn = f.turn /\ e.seq < f.seq)

\* Has this session not yet listened, or is it over?
Unsettled == c.m \in {"CONNECTING"} \cup Terminal

\* The server may miss frames of a turn, but from the one it expects on it gets
\* them in the order they were recorded, and once a session has listened none
\* is queued for a turn that is over: through barge-in, mute, reconnection and
\* end, with a reader that may be in enqueueAudioFrame all the while
\* (beginNewTurn, drainAudioFrames, sendLoop).
HeardInOrder ==
  /\ \A i, j \in DOMAIN up :
       i < j /\ IsFrame(up[i]) /\ IsFrame(up[j]) => Before(up[i], up[j])
  /\ \A i \in DOMAIN up, j \in DOMAIN c.frames : IsFrame(up[i]) => Before(up[i], c.frames[j])
  /\ \A i, j \in DOMAIN c.frames : i < j => Before(c.frames[i], c.frames[j])
  /\ s.open => /\ \A i \in DOMAIN up : IsFrame(up[i]) => ~Before(up[i], s.next)
               /\ \A j \in DOMAIN c.frames : ~Before(c.frames[j], s.next)
  /\ ~Unsettled => \A j \in DOMAIN c.frames : c.frames[j].turn = c.turn

\* realtime-voice.md: "User end, app background, screen lock, network failure,
\* provider failure, or timeout closes microphone, playback, socket, queues, and
\* provider generation."  It is not an invariant: a reader
\* that is in enqueueAudioFrame when stopLocalResources drains queues its frame
\* after that, and the next session starts with it.
EndClosesQueues ==
  c.job = "none" /\ c.cleanup = "none" => c.frames = <<>>

\* Whatever ends a session, the clean-up comes to its end (end, fail,
\* stopLocalResources).
EndingSettles ==
  c.ending ~> (c.job = "none" /\ c.cleanup = "none")

\* The Android app sees one slot for a voice session.
Slot == INSTANCE VoiceSlot WITH
  ui <- IF c.ui \in Errors THEN "Failed" ELSE c.ui,
  slot <- IF c.cleanup # "none" THEN "cleaning"
          ELSE IF c.job # "none" THEN "running" ELSE "empty",
  mic <- c.capture

\* VoiceSessionController keeps to that slot: no session starts over another or
\* over its clean-up, and the microphone is left before the slot is.
SlotSpec == Slot!Spec

\* realtime-voice.md on barge-in: the old frames are stale and the client
\* returns to listening.  It is not an invariant: assistant audio that was under
\* way when the user interrupted finds the client LISTENING and is taken for a
\* malformed event, which ends the session.
BargeInListens == c.ui # "MALFORMED_EVENT"

-----------------------------------------------------------------------------
(* The inductive invariant.                                                *)

\* Where the jobs are, the state machine, what is shown and what records and
\* plays agree.
SoundClient(k) ==
  /\ k.cleanup = "none" <=> k.stage = "none"
  /\ k.cleanup # "none" => k.ending
  /\ k.cleanup = "fail" => k.m \in Terminal
  /\ k.stage = "closing" => k.job = "none"
  /\ k.ending /\ k.job # "none" => k.stage = "stopping"
  /\ ~k.ending => k.m \notin Terminal
  /\ k.m = "IDLE" => k.job = "none" /\ ~k.ending /\ k.ui = "Idle"
  /\ ~k.ending /\ k.job = "none" =>
       k.m = "IDLE" /\ ~k.capture /\ ~k.late /\ ~k.stuck /\ k.out.turn = 0
  /\ k.m \in {"LISTENING", "PROCESSING", "SPEAKING"} /\ ~k.ending =>
       k.job \in {"live", "losing"}
  /\ k.ui = "Active" <=> k.m \notin Terminal \cup {"IDLE"}
  /\ k.capture => /\ k.job \in {"live", "losing"}
                  /\ ~k.ending /\ ~k.muted /\ k.m \notin Terminal
  /\ k.lastInt < k.turn
  /\ k.lastInt # 0 => k.out.turn # k.lastInt
  /\ Locked(k) => k.capture \/ k.late
  /\ k.m = "CONNECTING" \/ (k.job = "none" /\ k.stage # "stopping") =>
       k.frames = <<>> \/ ~Locked(k)

\* The connection is there as long as its job or the clean-up has not closed
\* it, and only a session that is being ended hears of its end.
WireSound ==
  /\ s.open => s.state \in {"LISTENING", "SPEAKING"}
  /\ s.open \/ down # <<>> => c.job = "live" \/ c.stage = "stopping"
  /\ \A i \in DOMAIN down :
       down[i].type = "SESSION_STATE" /\ down[i].state = "ENDED" => c.ending
  /\ s.open => \A i \in DOMAIN up : up[i].type = "END_SESSION" => c.ending
  /\ c.job = "none" /\ c.stage # "stopping" => up = <<>>

NextFrame == [turn |-> c.turn, seq |-> c.seq]

\* A frame that a reader holds comes after every one that is queued or sent,
\* and so does, once a session has listened, the next frame.
FramesSound ==
  /\ \A i \in DOMAIN up : IsFrame(up[i]) => up[i].turn <= c.turn
  /\ \A j \in DOMAIN c.frames : c.frames[j].turn <= c.turn
  /\ c.held.turn <= c.turn
  /\ s.open => s.next.turn <= c.turn
  /\ Locked(c) =>
       /\ \A i \in DOMAIN up : IsFrame(up[i]) => Before(up[i], c.held)
       /\ \A j \in DOMAIN c.frames : Before(c.frames[j], c.held)
       /\ s.open => ~Before(c.held, s.next)
  /\ ~Unsettled =>
       /\ \A i \in DOMAIN up : IsFrame(up[i]) => Before(up[i], NextFrame)
       /\ \A j \in DOMAIN c.frames : c.frames[j].seq < c.seq
       /\ Locked(c) => c.held.turn = c.turn /\ c.held.seq < c.seq
       /\ s.open => ~Before(NextFrame, s.next)

IndInv == TypeOK /\ SoundClient(c) /\ WireSound /\ HeardInOrder /\ FramesSound
=============================================================================
