------------------------- MODULE AndroidVoiceProofs -------------------------
(***************************************************************************)
(* Proofs about the voice of the Android app: about VoiceClient, for every *)
(* capacity of its queues and every bound on sessions, turns, frames and   *)
(* reconnections, with the proof that it implements VoiceSlot; and about   *)
(* WakeActivation, which is built on VoiceSlot, for every bound on the     *)
(* operations that wait for the controller's mutex.                        *)
(***************************************************************************)
EXTENDS VoiceClient, WakeActivation, TLAPS

-----------------------------------------------------------------------------
(* What a step of the controller is to the rest of the app.                *)

Shown(k) == IF k.ui \in Errors THEN "Failed" ELSE k.ui
Taken(k) == IF k.cleanup # "none" THEN "cleaning"
            ELSE IF k.job # "none" THEN "running" ELSE "empty"

\* A step of the slot, or none.
Passes(k, q) ==
  \/ Shown(q) = Shown(k) /\ Taken(q) = Taken(k) /\ q.capture = k.capture
  \/ /\ Taken(k) = "empty" /\ Taken(q) = "running" /\ Shown(q) = "Active"
     /\ q.capture = k.capture
  \/ /\ Taken(k) = "running" /\ Taken(q) = "running"
     /\ Shown(k) = "Active" /\ Shown(q) = "Active"
  \/ Taken(k) = "running" /\ Taken(q) = "cleaning" /\ ~q.capture /\ Shown(q) = Shown(k)
  \/ Taken(k) = "running" /\ Taken(q) = "cleaning" /\ ~q.capture /\ Shown(q) = "Failed"
  \/ /\ Taken(k) = "cleaning" /\ Taken(q) = "cleaning" /\ q.capture = k.capture
     /\ Shown(k) = "Active" /\ Shown(q) = "Idle"
  \/ /\ Taken(k) = "cleaning" /\ Taken(q) = "empty" /\ q.capture = k.capture
     /\ Shown(q) \in {"Idle", Shown(k)} /\ Shown(q) # "Active"

\* The controller after a step: well-formed, in agreement, and moved as the
\* slot allows.
Well(k, q) == q \in Client /\ SoundClient(q) /\ Passes(k, q)

\* Has this session not yet listened, or is it over?
NotYet(k) == k.m \in {"CONNECTING"} \cup Terminal

\* A reader that was there is there.
KeepsReader(k, q) == q.held = k.held /\ (k.capture \/ k.late => q.capture \/ q.late)

\* A step that has nothing to do with frames.
SameFrames(k, q) ==
  /\ q.turn = k.turn /\ q.seq = k.seq /\ q.frames = k.frames /\ q.held = k.held
  /\ NotYet(k) => NotYet(q)

\* A session that is being shown is neither idle nor over, and a job that is
\* not being ended is one.
LEMMA ShownIs ==
  ASSUME NEW k \in Client, SoundClient(k)
  PROVE  /\ Shown(k) = "Active" <=> k.ui = "Active"
         /\ Shown(k) = "Active" <=> k.m \notin Terminal \cup {"IDLE"}
         /\ Shown(k) = "Idle" <=> k.ui = "Idle"
         /\ Shown(k) \in {"Idle", "Active", "Failed"}
         /\ ~k.ending /\ k.job # "none" =>
              k.ui = "Active" /\ k.m \notin Terminal \cup {"IDLE"} /\ Taken(k) = "running"
         /\ k.ending /\ k.job # "none" => Taken(k) = "cleaning"
  BY DEF Client, SoundClient, Shown, Taken, Errors, Terminal

\* The fields that handlers compute with, and their updates.
LEMMA Typed ==
  ASSUME NEW k \in Client
  PROVE  /\ k.m \in States /\ k.ui \in {"Idle", "Active"} \cup Errors
         /\ k.turn \in Nat /\ k.seq \in Nat /\ k.lastInt \in Nat /\ k.attempts \in Nat
         /\ k.ending \in BOOLEAN /\ k.muted \in BOOLEAN
         /\ k.capture \in BOOLEAN /\ k.late \in BOOLEAN /\ k.stuck \in BOOLEAN
         /\ k.held \in Frame /\ k.held.turn \in Nat /\ k.held.seq \in Nat
         /\ k.out \in [turn : Nat, next : Nat, final : BOOLEAN]
         /\ k.out.turn \in Nat
         /\ k.frames \in Seq(Frame) /\ k.control \in Seq(Control)
         /\ k.job \in {"none", "starting", "connecting", "live", "losing", "waiting"}
         /\ k.cleanup \in {"none", "end", "fail"}
         /\ k.stage \in {"none", "stopping", "closing"}
  BY DEF Client, Frame

\* An update of a typed value leaves the controller typed.
LEMMA Updates ==
  ASSUME NEW k \in Client
  PROVE  /\ \A v \in Seq(Frame) : [k EXCEPT !.frames = v] \in Client
         /\ \A v, w \in Nat : [k EXCEPT !.turn = v, !.seq = w] \in Client
         /\ \A v, w \in BOOLEAN : [k EXCEPT !.capture = v, !.late = w] \in Client
         /\ \A v \in BOOLEAN : [k EXCEPT !.capture = v] \in Client
         /\ \A v \in BOOLEAN : [k EXCEPT !.late = v] \in Client
         /\ \A v \in BOOLEAN : [k EXCEPT !.muted = v] \in Client
         /\ \A v \in BOOLEAN : [k EXCEPT !.stuck = v] \in Client
         /\ \A v \in Frame : [k EXCEPT !.held = v] \in Client
         /\ \A v \in [turn : Nat, next : Nat, final : BOOLEAN] :
              [k EXCEPT !.out = v] \in Client
         /\ \A v \in Seq(Control) : [k EXCEPT !.control = v] \in Client
         /\ \A v \in {"none", "starting", "connecting", "live", "losing", "waiting"} :
              [k EXCEPT !.job = v] \in Client
  <1>1. /\ \A v \in Seq(Frame) : [k EXCEPT !.frames = v] \in Client
        /\ \A v \in Seq(Control) : [k EXCEPT !.control = v] \in Client
    BY DEF Client
  <1>2. \A v, w \in Nat : [k EXCEPT !.turn = v, !.seq = w] \in Client
    BY DEF Client
  <1>3. \A v, w \in BOOLEAN : [k EXCEPT !.capture = v, !.late = w] \in Client
    BY DEF Client
  <1>4. /\ \A v \in BOOLEAN : [k EXCEPT !.capture = v] \in Client
        /\ \A v \in BOOLEAN : [k EXCEPT !.late = v] \in Client
        /\ \A v \in BOOLEAN : [k EXCEPT !.muted = v] \in Client
        /\ \A v \in BOOLEAN : [k EXCEPT !.stuck = v] \in Client
        /\ \A v \in Frame : [k EXCEPT !.held = v] \in Client
    BY DEF Client
  <1>5. \A v \in [turn : Nat, next : Nat, final : BOOLEAN] : [k EXCEPT !.out = v] \in Client
    BY DEF Client
  <1>6. \A v \in {"none", "starting", "connecting", "live", "losing", "waiting"} :
          [k EXCEPT !.job = v] \in Client
    BY DEF Client
  <1> QED
    BY <1>1, <1>2, <1>3, <1>4, <1>5, <1>6

\* AndroidAudioInput.stop and AndroidAudioOutput.stopImmediate.
LEMMA StopAudioIs ==
  ASSUME NEW k \in Client
  PROVE  /\ StopInput(k) \in Client /\ StopOutput(k) \in Client /\ StopAudio(k) \in Client
         /\ ~StopInput(k).capture /\ StopInput(k).out = k.out
         /\ ~StopAudio(k).capture /\ StopAudio(k).out.turn = 0
         /\ StopOutput(k).capture = k.capture /\ StopOutput(k).late = k.late
         /\ StopOutput(k).out.turn = 0
         /\ \A q \in {StopInput(k), StopOutput(k), StopAudio(k)} :
              /\ q.m = k.m /\ q.ui = k.ui /\ q.ending = k.ending /\ q.job = k.job
              /\ q.cleanup = k.cleanup /\ q.stage = k.stage /\ q.muted = k.muted
              /\ q.lastInt = k.lastInt /\ q.turn = k.turn /\ q.seq = k.seq
              /\ q.frames = k.frames /\ q.control = k.control
              /\ q.attempts = k.attempts /\ KeepsReader(k, q)
  <1>1. ASSUME NEW j \in Client
        PROVE  StopInput(j) \in Client /\ ~StopInput(j).capture /\ StopInput(j).out = j.out
    <2> DEFINE w == j.late \/ j.capture
    <2>1. w \in BOOLEAN
      BY Typed
    <2>2. StopInput(j) = [j EXCEPT !.capture = FALSE, !.late = w]
      BY DEF StopInput
    <2> HIDE DEF w
    <2>3. StopInput(j) \in Client
      BY <2>1, <2>2 DEF Client
    <2>4. ~StopInput(j).capture /\ StopInput(j).out = j.out
      BY <2>2 DEF Client
    <2> QED
      BY <2>3, <2>4
  <1>2. \A j \in Client : LET q == StopInput(j) IN
          /\ q.m = j.m /\ q.ui = j.ui /\ q.ending = j.ending /\ q.job = j.job
          /\ q.cleanup = j.cleanup /\ q.stage = j.stage /\ q.muted = j.muted
          /\ q.lastInt = j.lastInt /\ q.turn = j.turn /\ q.seq = j.seq
          /\ q.frames = j.frames /\ q.control = j.control
          /\ q.attempts = j.attempts /\ KeepsReader(j, q)
    BY DEF StopInput, Client, KeepsReader
  <1>3. Silence \in [turn : Nat, next : Nat, final : BOOLEAN] /\ Silence.turn = 0
    BY DEF Silence
  <1>4. \A j \in Client : /\ StopOutput(j) \in Client /\ StopOutput(j).out = Silence
                          /\ StopOutput(j).capture = j.capture
                          /\ StopOutput(j).late = j.late
    <2> TAKE j \in Client
    <2> DEFINE w == j.stuck \/ j.out.turn # 0
    <2>1. w \in BOOLEAN
      BY Typed
    <2>2. StopOutput(j) = [j EXCEPT !.out = Silence, !.stuck = w]
      BY DEF StopOutput
    <2> HIDE DEF w
    <2>3. StopOutput(j) \in Client
      BY <1>3, <2>1, <2>2, ZenonT(40) DEF Client
    <2> QED
      BY <2>2, <2>3 DEF Client
  <1>5. \A j \in Client : LET q == StopOutput(j) IN
          /\ q.m = j.m /\ q.ui = j.ui /\ q.ending = j.ending /\ q.job = j.job
          /\ q.cleanup = j.cleanup /\ q.stage = j.stage /\ q.muted = j.muted
          /\ q.lastInt = j.lastInt /\ q.turn = j.turn /\ q.seq = j.seq
          /\ q.frames = j.frames /\ q.control = j.control
          /\ q.attempts = j.attempts /\ KeepsReader(j, q)
    BY DEF StopOutput, Client, KeepsReader
  <1>6. StopInput(k) \in Client
    BY <1>1
  <1>7. StopAudio(k) = StopOutput(StopInput(k))
    BY DEF StopAudio
  <1> HIDE DEF StopAudio
  <1>8. /\ StopAudio(k) \in Client /\ ~StopAudio(k).capture
        /\ StopAudio(k).out = Silence
    BY <1>1, <1>4, <1>6, <1>7
  <1>9. LET q == StopAudio(k) IN
          /\ q.m = k.m /\ q.ui = k.ui /\ q.ending = k.ending /\ q.job = k.job
          /\ q.cleanup = k.cleanup /\ q.stage = k.stage /\ q.muted = k.muted
          /\ q.lastInt = k.lastInt /\ q.turn = k.turn /\ q.seq = k.seq
          /\ q.frames = k.frames /\ q.control = k.control
          /\ q.attempts = k.attempts /\ KeepsReader(k, q)
    BY <1>2, <1>5, <1>6, <1>7 DEF KeepsReader
  <1>10. /\ StopInput(k) \in Client /\ StopOutput(k) \in Client /\ StopAudio(k) \in Client
         /\ ~StopInput(k).capture /\ StopInput(k).out = k.out
         /\ ~StopAudio(k).capture /\ StopAudio(k).out.turn = 0
         /\ StopOutput(k).capture = k.capture /\ StopOutput(k).late = k.late
         /\ StopOutput(k).out.turn = 0
    BY <1>1, <1>3, <1>4, <1>8
  <1> QED
    BY <1>2, <1>5, <1>9, <1>10

\* fail, when it is the first one.
LEMMA FailFields ==
  ASSUME NEW k \in Client, ~k.ending, NEW error \in Errors
  PROVE  LET q == Fail(k, error)
         IN /\ q \in Client
            /\ q.ending /\ ~q.capture /\ q.out.turn = 0 /\ q.ui = error
            /\ q.m \in Terminal /\ q.cleanup = "fail" /\ q.stage = "stopping"
            /\ q.turn = k.turn /\ q.seq = k.seq /\ q.frames = k.frames
            /\ q.job = k.job /\ q.lastInt = k.lastInt /\ KeepsReader(k, q)
  <1> DEFINE p == StopAudio(k)
             t == IF p.m \in Terminal THEN p.m ELSE "FAILED"
             q == [p EXCEPT !.ending = TRUE, !.ui = error, !.m = t,
                            !.cleanup = "fail", !.stage = "stopping"]
  <1>2. /\ p \in Client /\ ~p.capture /\ p.out.turn = 0
        /\ p.turn = k.turn /\ p.seq = k.seq /\ p.frames = k.frames
        /\ p.job = k.job /\ p.lastInt = k.lastInt /\ KeepsReader(k, p)
    BY StopAudioIs
  <1>3. Fail(k, error) = q
    BY DEF Fail
  <1> HIDE DEF p
  <1>4. t \in States \cap Terminal
    BY DEF States, Terminal
  <1> HIDE DEF t
  <1>5. q \in Client
    BY <1>2, <1>4 DEF Client
  <1>6. /\ q.ending /\ q.ui = error /\ q.m = t /\ q.cleanup = "fail" /\ q.stage = "stopping"
        /\ q.capture = p.capture /\ q.out = p.out /\ q.turn = p.turn /\ q.seq = p.seq
        /\ q.frames = p.frames /\ q.job = p.job /\ q.lastInt = p.lastInt
        /\ q.held = p.held /\ q.late = p.late
    BY <1>2 DEF Client
  <1> QED
    BY <1>2, <1>3, <1>4, <1>5, <1>6 DEF KeepsReader

\* Whatever takes a session down on account of a failure leaves it well, and is
\* the slot's Fail.
LEMMA FailedIsWell ==
  ASSUME NEW k \in Client, SoundClient(k), ~k.ending, k.job # "none",
         NEW q \in Client,
         q.ending, ~q.capture, q.ui \in Errors, q.m \in Terminal,
         q.cleanup = "fail", q.stage = "stopping",
         q.out.turn = 0, q.lastInt < q.turn, Locked(q) => q.late
  PROVE  Well(k, q)
  <1>1. SoundClient(q)
    BY DEF SoundClient, Terminal, Errors, Client
  <1>2. Taken(k) = "running" /\ Taken(q) = "cleaning" /\ ~q.capture /\ Shown(q) = "Failed"
    BY ShownIs DEF Taken, Shown
  <1> QED
    BY <1>1, <1>2 DEF Well, Passes

\* fail: the first one counts; it takes the devices and begins the clean-up.
LEMMA FailIs ==
  ASSUME NEW k \in Client, SoundClient(k), k.job # "none" \/ k.ending,
         NEW error \in Errors
  PROVE  /\ Well(k, Fail(k, error)) /\ SameFrames(k, Fail(k, error))
         /\ Fail(k, error).ending /\ Fail(k, error).job = k.job
         /\ k.ending => Fail(k, error) = k
  <1>1. CASE k.ending
    BY <1>1 DEF Fail, Well, Passes, SameFrames
  <1>2. CASE ~k.ending
    <2> DEFINE q == Fail(k, error)
    <2>1. /\ q \in Client /\ q.ending /\ ~q.capture /\ q.out.turn = 0 /\ q.ui = error
          /\ q.m \in Terminal /\ q.cleanup = "fail" /\ q.stage = "stopping"
          /\ q.turn = k.turn /\ q.seq = k.seq /\ q.frames = k.frames
          /\ q.job = k.job /\ q.lastInt = k.lastInt /\ KeepsReader(k, q)
      BY <1>2, FailFields
    <2> HIDE DEF q
    <2>2. Well(k, q)
      <3>1. q.lastInt < q.turn /\ (Locked(q) => q.late)
        BY <2>1 DEF SoundClient, Locked, KeepsReader
      <3> QED
        BY <1>2, <2>1, <3>1, FailedIsWell
    <2> QED
      BY <1>2, <2>1, <2>2 DEF q, SameFrames, KeepsReader, NotYet
  <1> QED
    BY <1>1, <1>2

\* What neither moves the session nor touches the recorder is well.
Quiet(k, q) ==
  /\ q.m = k.m /\ q.ui = k.ui /\ q.ending = k.ending /\ q.job = k.job
  /\ q.cleanup = k.cleanup /\ q.stage = k.stage
  /\ q.capture = k.capture /\ q.muted = k.muted
  /\ (q.late => k.late) /\ (q.stuck => k.stuck)
  /\ q.lastInt \in {0, k.lastInt} /\ q.turn >= k.turn /\ q.out.turn \in {0, k.out.turn}
  /\ Locked(q) => /\ q.capture \/ q.late
                  /\ (Locked(k) /\ k.frames = <<>> => q.frames = <<>>)
                  /\ Locked(k) \/ (q.m # "CONNECTING" /\ q.job # "none")

\* Such a step is the slot's stutter.
LEMMA QuietIsWell ==
  ASSUME NEW k \in Client, SoundClient(k), NEW q \in Client, Quiet(k, q)
  PROVE  Well(k, q)
  <1>1. SoundClient(q)
    <2>1. /\ k.turn \in Nat /\ k.lastInt \in Nat /\ k.out.turn \in Nat
          /\ q.turn \in Nat /\ q.lastInt \in Nat /\ q.out.turn \in Nat
      BY Typed
    <2>2. q.lastInt < q.turn /\ (q.lastInt # 0 => q.out.turn # q.lastInt)
      <3>1. k.lastInt < k.turn /\ (k.lastInt # 0 => k.out.turn # k.lastInt)
        BY DEF SoundClient
      <3>2. /\ q.lastInt \in {0, k.lastInt} /\ q.turn >= k.turn
            /\ q.out.turn \in {0, k.out.turn}
        BY DEF Quiet
      <3> QED
        BY <2>1, <3>1, <3>2
    <2>3. ~q.ending /\ q.job = "none" =>
            q.m = "IDLE" /\ ~q.capture /\ ~q.late /\ ~q.stuck /\ q.out.turn = 0
      BY DEF SoundClient, Quiet
    <2>4. /\ Locked(q) => q.capture \/ q.late
          /\ q.m = "CONNECTING" \/ (q.job = "none" /\ q.stage # "stopping") =>
               q.frames = <<>> \/ ~Locked(q)
      BY DEF SoundClient, Quiet
    <2> QED
      BY <2>2, <2>3, <2>4 DEF SoundClient, Quiet
  <1>2. Shown(q) = Shown(k) /\ Taken(q) = Taken(k) /\ q.capture = k.capture
    BY DEF Shown, Taken, Quiet
  <1> QED
    BY <1>1, <1>2 DEF Well, Passes

\* beginNewTurn and drainAudioFrames.
LEMMA NewTurnIs ==
  ASSUME NEW k \in Client
  PROVE  /\ Drain(k) \in Client /\ Drain(k).frames = <<>>
         /\ NewTurn(k) \in Client /\ NewTurn(k).frames = <<>>
         /\ NewTurn(k).turn = k.turn + 1 /\ NewTurn(k).seq = 0
         /\ Drain(k).turn = k.turn /\ Drain(k).seq = k.seq
         /\ \A q \in {Drain(k), NewTurn(k)} :
              /\ q.m = k.m /\ q.ui = k.ui /\ q.ending = k.ending /\ q.job = k.job
              /\ q.cleanup = k.cleanup /\ q.stage = k.stage
              /\ q.capture = k.capture /\ q.muted = k.muted /\ q.late = k.late
              /\ q.held = k.held /\ q.stuck = k.stuck
              /\ q.lastInt = k.lastInt /\ q.out = k.out
  <1> DEFINE Same(q) ==
               /\ q.m = k.m /\ q.ui = k.ui /\ q.ending = k.ending /\ q.job = k.job
               /\ q.cleanup = k.cleanup /\ q.stage = k.stage
               /\ q.capture = k.capture /\ q.muted = k.muted /\ q.late = k.late
               /\ q.held = k.held /\ q.stuck = k.stuck
               /\ q.lastInt = k.lastInt /\ q.out = k.out
  <1>0. <<>> \in Seq(Frame)
    OBVIOUS
  <1>1. /\ Drain(k) \in Client /\ Drain(k).frames = <<>>
        /\ Drain(k).turn = k.turn /\ Drain(k).seq = k.seq
    <2>1. Drain(k) \in Client
      BY <1>0, Updates DEF Drain
    <2> QED
      BY <2>1 DEF Drain, Client
  <1>2. Same(Drain(k))
    BY DEF Drain, Client
  <1> DEFINE p == Drain(k)
  <1>3. NewTurn(k) = [p EXCEPT !.turn = p.turn + 1, !.seq = 0]
    BY DEF NewTurn
  <1>4. p \in Client /\ Same(p) /\ p.turn = k.turn /\ p.frames = <<>>
    BY <1>1, <1>2
  <1> HIDE DEF p
  <1>5. NewTurn(k) \in Client
    <2> DEFINE n == p.turn + 1
    <2>1. n \in Nat /\ 0 \in Nat
      BY <1>4, Typed
    <2>2. NewTurn(k) = [p EXCEPT !.turn = n, !.seq = 0]
      BY <1>3
    <2> HIDE DEF n
    <2>3. [p EXCEPT !.turn = n, !.seq = 0] \in Client
      BY <1>4, <2>1 DEF Client
    <2> QED
      BY <2>2, <2>3
  <1>6. /\ Same(NewTurn(k)) /\ NewTurn(k).frames = <<>>
        /\ NewTurn(k).turn = k.turn + 1 /\ NewTurn(k).seq = 0
    BY <1>3, <1>4 DEF Client
  <1> QED
    BY <1>1, <1>2, <1>5, <1>6

-----------------------------------------------------------------------------
(* What the handlers of the server's events do.                            *)

\* startCapture, by a session that is connected or being taken down.
LEMMA StartCaptureIs ==
  ASSUME NEW k \in Client, SoundClient(k), k.job \in {"live", "losing"} \/ k.ending,
         NEW q \in StartCapture(k)
  PROVE  /\ Well(k, q) /\ SameFrames(k, q) /\ q.job = k.job
         /\ k.ending => q = k
  <1>1. CASE q = k
    BY <1>1 DEF Well, Passes, SameFrames
  <1>2. CASE q # k
    <2>1. ~k.muted /\ ~k.capture /\ ~k.ending
      BY <1>2 DEF StartCapture
    <2>2. CASE q = [k EXCEPT !.capture = TRUE]
      <3>1. q \in Client
        BY <2>2 DEF Client
      <3>2. /\ q.capture /\ q.m = k.m /\ q.ui = k.ui /\ q.ending = k.ending /\ q.job = k.job
            /\ q.cleanup = k.cleanup /\ q.stage = k.stage /\ q.muted = k.muted
            /\ q.late = k.late /\ q.lastInt = k.lastInt /\ q.turn = k.turn /\ q.seq = k.seq
            /\ q.held = k.held /\ q.stuck = k.stuck
            /\ q.out = k.out /\ q.frames = k.frames
        BY <2>2 DEF Client
      <3>3. k.m \notin Terminal
        BY <2>1 DEF SoundClient
      <3>4. SoundClient(q)
        BY <2>1, <3>2, <3>3 DEF SoundClient, Locked
      <3>5. Taken(k) = "running" /\ Taken(q) = "running"
        BY <2>1, <3>2 DEF SoundClient, Taken
      <3>6. Shown(k) = "Active" /\ Shown(q) = "Active"
        BY <2>1, <3>2, ShownIs DEF Shown
      <3> QED
        BY <2>1, <3>1, <3>2, <3>4, <3>5, <3>6 DEF Well, Passes, SameFrames, NotYet
    <2>3. CASE q = Fail(k, "AUDIO_DEVICE_UNAVAILABLE")
      BY <2>1, <2>3, FailIs DEF Errors
    <2> QED
      BY <1>2, <2>1, <2>2, <2>3 DEF StartCapture
  <1> QED
    BY <1>1, <1>2

\* What a step makes of the frames that are queued, of the reader's and of the
\* next one's name.  It leaves them or forgets what is queued.
Leaves(k, q) ==
  /\ q.turn = k.turn /\ q.seq = k.seq /\ q.held = k.held
  /\ q.frames \in {k.frames, <<>>}
  /\ NotYet(k) => NotYet(q)

\* Or a turn begins, for which no reader may be there.
Begins(k, q) ==
  /\ ~Locked(k) /\ ~Locked(q)
  /\ q.turn > k.turn /\ q.frames = <<>>

\* Or a reader makes the next frame, of a session that has listened.
Makes(k, q) ==
  /\ ~Locked(k) /\ ~NotYet(k)
  /\ q.held = [turn |-> k.turn, seq |-> k.seq]
  /\ q.turn = k.turn /\ q.seq = k.seq + 1 /\ q.frames = k.frames

\* Or a reader queues its frame, if there is room.
Puts(k, q) ==
  /\ Locked(k) /\ ~Locked(q)
  /\ q.turn = k.turn /\ q.seq = k.seq
  /\ q.frames \in {k.frames, Append(k.frames, k.held)}
  /\ NotYet(k) => NotYet(q)

Queues(k, q) == Leaves(k, q) \/ Begins(k, q) \/ Makes(k, q) \/ Puts(k, q)

\* A step that has nothing to do with frames leaves them.
LEMMA SameQueues ==
  ASSUME NEW k \in Client, NEW q, SameFrames(k, q)
  PROVE  Queues(k, q)
  BY DEF SameFrames, Queues, Leaves

\* What a handler of the controller's receive loop does to it.
Handled(k, q) ==
  /\ Well(k, q) /\ Queues(k, q) /\ q.job = k.job
  /\ k.ending => q.ending

\* An event that is only shown changes nothing.
LEMMA KeptIsHandled ==
  ASSUME NEW k \in Client, SoundClient(k)
  PROVE  Handled(k, k)
  BY SameQueues DEF Handled, Well, Passes, SameFrames

\* fail, called by a handler.
LEMMA FailIsHandled ==
  ASSUME NEW k \in Client, SoundClient(k), k.job # "none", NEW error \in Errors
  PROVE  Handled(k, Fail(k, error))
  <1>1. Well(k, Fail(k, error)) /\ SameFrames(k, Fail(k, error))
    BY FailIs
  <1>2. Fail(k, error).ending /\ Fail(k, error).job = k.job
    BY FailIs
  <1> QED
    BY <1>1, <1>2, SameQueues DEF Handled

\* Another state of the session that is shown as the last one was.
LEMMA MoveIsWell ==
  ASSUME NEW k \in Client, SoundClient(k), k.job = "live",
         k.m \notin Terminal, NEW t \in {"LISTENING", "PROCESSING", "SPEAKING"}
  PROVE  LET q == [k EXCEPT !.m = t, !.ui = "Active"]
         IN /\ Well(k, q) /\ (~NotYet(k) => SameFrames(k, q))
            /\ q.turn = k.turn /\ q.held = k.held
            /\ q.job = k.job /\ q.ending = k.ending
            /\ q.out = k.out /\ q.lastInt = k.lastInt
            /\ Shown(q) = Shown(k) /\ Taken(q) = Taken(k) /\ q.capture = k.capture
  <1> DEFINE q == [k EXCEPT !.m = t, !.ui = "Active"]
  <1>1. k.ui = "Active"
    BY DEF SoundClient
  <1>2. q \in Client
    BY DEF Client, States
  <1>3. /\ q.m = t /\ q.ui = k.ui /\ q.ending = k.ending /\ q.job = k.job
        /\ q.cleanup = k.cleanup /\ q.stage = k.stage /\ q.muted = k.muted
        /\ q.capture = k.capture
        /\ q.late = k.late /\ q.lastInt = k.lastInt /\ q.turn = k.turn /\ q.seq = k.seq
        /\ q.held = k.held /\ q.stuck = k.stuck
        /\ q.out = k.out /\ q.frames = k.frames
    BY <1>1 DEF Client
  <1>4. SoundClient(q)
    BY <1>3 DEF SoundClient, Terminal, Locked
  <1>5. Shown(q) = Shown(k) /\ Taken(q) = Taken(k)
    BY <1>3 DEF Shown, Taken
  <1> QED
    BY <1>1, <1>2, <1>3, <1>4, <1>5 DEF Well, Passes, SameFrames

\* The server's ENDED, heard by a session that is being ended.
LEMMA EndedIsHandled ==
  ASSUME NEW k \in Client, SoundClient(k), k.job = "live", k.ending,
         k.m \notin Terminal, NEW q, q = [k EXCEPT !.m = "ENDED", !.ui = "Idle"]
  PROVE  Handled(k, q)
  <1>1. q \in Client
    BY DEF Client, States, Terminal
  <1>2. /\ q.m = "ENDED" /\ q.ui = "Idle" /\ q.ending = k.ending /\ q.job = k.job
        /\ q.cleanup = k.cleanup /\ q.stage = k.stage /\ q.muted = k.muted
        /\ q.capture = k.capture
        /\ q.late = k.late /\ q.lastInt = k.lastInt /\ q.turn = k.turn /\ q.seq = k.seq
        /\ q.held = k.held /\ q.stuck = k.stuck
        /\ q.out = k.out /\ q.frames = k.frames
    BY DEF Client
  <1>3. k.m # "IDLE" /\ k.ui = "Active" /\ k.cleanup = "end"
    BY Typed DEF SoundClient
  <1>4. SoundClient(q)
    BY <1>2 DEF SoundClient, Terminal, Locked
  <1>5. Taken(q) = "cleaning" /\ Taken(k) = "cleaning"
    BY <1>2, <1>3 DEF Taken
  <1>6. Shown(k) = "Active" /\ Shown(q) = "Idle"
    BY <1>2, <1>3 DEF Shown, Errors
  <1>7. Well(k, q) /\ SameFrames(k, q)
    BY <1>1, <1>2, <1>4, <1>5, <1>6 DEF Well, Passes, SameFrames, NotYet, Terminal
  <1> QED
    BY <1>2, <1>7, SameQueues DEF Handled

\* applyServerState.
LEMMA ApplyStateIsHandled ==
  ASSUME NEW k \in Client, SoundClient(k), k.job = "live",
         NEW t \in {"LISTENING", "SPEAKING", "ENDED"}, t = "ENDED" => k.ending,
         t = "LISTENING" /\ k.m # t /\ CanMove(k.m, t) => ~Locked(k),
         NEW q \in ApplyState(k, t)
  PROVE  Handled(k, q)
  <1>1. CASE k.m = t
    BY <1>1, KeptIsHandled DEF ApplyState
  <1>2. CASE k.m # t /\ ~CanMove(k.m, t)
    BY <1>2, FailIsHandled DEF ApplyState, Malformed, Errors
  <1>3. CASE k.m # t /\ CanMove(k.m, t)
    <2>1. k.m \notin Terminal
      BY <1>3, Typed DEF CanMove, Terminal
    <2>2. CASE t = "LISTENING"
      <3> DEFINE p == [k EXCEPT !.m = "LISTENING", !.ui = "Active"]
                 n == NewTurn(p)
      <3>1. q \in StartCapture(n)
        BY <1>3, <2>2 DEF ApplyState
      <3>2. /\ Well(k, p) /\ p.turn = k.turn /\ p.job = k.job /\ p.ending = k.ending
            /\ p.held = k.held
            /\ Shown(p) = Shown(k) /\ Taken(p) = Taken(k) /\ p.capture = k.capture
        BY <2>1, MoveIsWell
      <3> HIDE DEF p
      <3>2a. ~Locked(k) /\ ~Locked(p)
        BY <1>3, <2>2, <3>2 DEF Locked
      <3>3. p \in Client /\ SoundClient(p)
        BY <3>2 DEF Well
      <3>4. /\ n \in Client /\ n.frames = <<>> /\ n.turn = p.turn + 1
            /\ n.held = p.held
        BY <3>3, NewTurnIs
      <3>4a. ~Locked(n)
        BY <3>2a, <3>4 DEF Locked
      <3>5. Quiet(p, n) /\ n.job = p.job /\ n.ending = p.ending
        BY <3>3, <3>4, <3>4a, NewTurnIs, Typed DEF Quiet
      <3>6. SoundClient(n)
        BY <3>3, <3>4, <3>5, QuietIsWell DEF Well
      <3>7. Shown(n) = Shown(k) /\ Taken(n) = Taken(k) /\ n.capture = k.capture
        BY <3>2, <3>5 DEF Shown, Taken, Quiet
      <3> HIDE DEF n
      <3>8. /\ Well(n, q) /\ SameFrames(n, q) /\ q.job = n.job
            /\ n.ending => q = n
        BY <3>1, <3>2, <3>4, <3>5, <3>6, StartCaptureIs
      <3>9. Well(k, q)
        BY <3>7, <3>8 DEF Well, Passes
      <3>10. Queues(k, q)
        <4>1. q.turn > k.turn /\ q.frames = <<>> /\ q.held = n.held
          BY <3>2, <3>4, <3>8, Typed DEF SameFrames
        <4> QED
          BY <3>2a, <3>4a, <4>1 DEF Queues, Begins, Locked
      <3> QED
        BY <3>2, <3>5, <3>8, <3>9, <3>10 DEF Handled
    <2>3. CASE t = "SPEAKING"
      <3>1. q = [k EXCEPT !.m = "SPEAKING", !.ui = "Active"]
        BY <1>3, <2>3 DEF ApplyState
      <3>2. ~NotYet(k)
        BY <1>3, <2>1, <2>3 DEF CanMove, NotYet, Terminal
      <3>3. Well(k, q) /\ SameFrames(k, q) /\ q.job = k.job /\ q.ending = k.ending
        BY <2>1, <3>1, <3>2, MoveIsWell
      <3> QED
        BY <3>3, SameQueues DEF Handled
    <2>4. CASE t = "ENDED"
      <3>1. q = [k EXCEPT !.m = "ENDED", !.ui = "Idle"]
        BY <1>3, <2>4 DEF ApplyState
      <3> QED
        BY <2>1, <2>4, <3>1, EndedIsHandled
    <2> QED
      BY <2>2, <2>3, <2>4
  <1> QED
    BY <1>1, <1>2, <1>3

\* handleAssistantAudio: a chunk that is accepted is of the turn in course,
\* which is later than the interrupted one.
LEMMA HandleAudioIsHandled ==
  ASSUME NEW k \in Client, SoundClient(k), k.job = "live",
         NEW e \in [type : {"ASSISTANT_AUDIO"}, turn : Nat, seq : Nat, last : BOOLEAN]
  PROVE  Handled(k, HandleAudio(k, e))
  <1>1. CASE e.turn # k.turn \/ k.m \notin {"PROCESSING", "SPEAKING"}
    BY <1>1, FailIsHandled DEF HandleAudio, Malformed, Errors
  <1>2. CASE e.turn = k.turn /\ k.m \in {"PROCESSING", "SPEAKING"}
    <2> DEFINE p == [k EXCEPT !.m = "SPEAKING", !.ui = "Active"]
    <2>1. HandleAudio(k, e) = Offer(p, e)
      <3>1. [k EXCEPT !.m = IF @ = "PROCESSING" THEN "SPEAKING" ELSE @] =
              [k EXCEPT !.m = "SPEAKING"]
        BY <1>2 DEF Client
      <3>2. [[k EXCEPT !.m = "SPEAKING"] EXCEPT !.ui = "Active"] = p
        BY DEF Client
      <3> QED
        BY <1>2, <3>1, <3>2 DEF HandleAudio
    <2>2. k.m \notin Terminal
      BY <1>2 DEF Terminal
    <2>2a. ~NotYet(k)
      BY <1>2 DEF NotYet, Terminal
    <2>3. /\ Well(k, p) /\ SameFrames(k, p) /\ p.job = k.job /\ p.ending = k.ending
          /\ Shown(p) = Shown(k) /\ Taken(p) = Taken(k) /\ p.capture = k.capture
          /\ p.lastInt = k.lastInt
      BY <2>2, <2>2a, MoveIsWell
    <2> HIDE DEF p
    <2>4. p \in Client /\ SoundClient(p)
      BY <2>3 DEF Well
    <2>5. CASE Offer(p, e) = Fail(p, "AUDIO_OUTPUT_FAILURE")
      <3> DEFINE q == Fail(p, "AUDIO_OUTPUT_FAILURE")
      <3>1. /\ Well(p, q) /\ SameFrames(p, q) /\ q.ending /\ q.job = p.job
        BY <2>3, <2>4, FailIs DEF Errors
      <3> HIDE DEF q
      <3>2. Well(k, q)
        BY <2>3, <3>1 DEF Well, Passes
      <3>3. SameFrames(k, q)
        BY <2>3, <3>1 DEF SameFrames
      <3>4. Handled(k, q)
        BY <2>3, <3>1, <3>2, <3>3, SameQueues DEF Handled
      <3> QED
        BY <2>1, <2>5, <3>4 DEF q
    <2>6. CASE Offer(p, e) = [p EXCEPT !.out = [turn |-> e.turn, next |-> e.seq + 1,
                                                 final |-> e.last]]
      <3> DEFINE o == [turn |-> e.turn, next |-> e.seq + 1, final |-> e.last]
                 q == [p EXCEPT !.out = o]
      <3>1. o \in [turn : Nat, next : Nat, final : BOOLEAN] /\ o.turn = p.turn
        BY <1>2, <2>3 DEF SameFrames
      <3> HIDE DEF o
      <3>2. q \in Client
        BY <2>4, <3>1, Updates
      <3>3. /\ q.m = p.m /\ q.ui = p.ui /\ q.ending = p.ending /\ q.job = p.job
            /\ q.cleanup = p.cleanup /\ q.stage = p.stage /\ q.muted = p.muted
            /\ q.capture = p.capture /\ q.out = o
            /\ q.late = p.late /\ q.lastInt = p.lastInt /\ q.turn = p.turn /\ q.seq = p.seq
            /\ q.held = p.held /\ q.stuck = p.stuck
            /\ q.frames = p.frames
        BY <2>4 DEF Client
      <3> HIDE DEF q
      <3>4. p.lastInt # p.turn
        BY <2>4, Typed DEF SoundClient
      <3>5. ~(~p.ending /\ p.job = "none")
        BY <2>3
      <3>6. SoundClient(q)
        BY <2>4, <3>1, <3>3, <3>4, <3>5 DEF SoundClient, Locked
      <3>7. Shown(q) = Shown(k) /\ Taken(q) = Taken(k) /\ q.capture = k.capture
        BY <2>3, <3>3 DEF Shown, Taken
      <3>8. Well(k, q)
        BY <3>2, <3>6, <3>7 DEF Well, Passes
      <3>9. SameFrames(k, q)
        BY <2>3, <3>3 DEF SameFrames, NotYet
      <3>10. Handled(k, q)
        BY <2>3, <3>3, <3>8, <3>9, SameQueues DEF Handled
      <3> QED
        BY <2>1, <2>6, <3>10 DEF q, o
    <2> QED
      BY <2>5, <2>6 DEF Offer
  <1> QED
    BY <1>1, <1>2

\* handleServerEvent, for an event the connection can carry.
LEMMA HandleIsHandled ==
  ASSUME NEW k \in Client, SoundClient(k), k.job = "live", NEW e \in DownEvent,
         e.type = "SESSION_STATE" /\ e.state = "ENDED" => k.ending,
         Turns(k, e) => ~Locked(k),
         NEW q \in Handle(k, e)
  PROVE  Handled(k, q)
  <1>1. CASE e \in [type : {"SESSION_STATE"}, state : {"LISTENING", "SPEAKING", "ENDED"}]
    <2>1. q \in ApplyState(k, e.state) /\ e.state \in {"LISTENING", "SPEAKING", "ENDED"}
      BY <1>1 DEF Handle
    <2>2. e.state = "LISTENING" /\ k.m # e.state /\ CanMove(k.m, e.state) => ~Locked(k)
      BY <1>1 DEF Turns
    <2> QED
      BY <1>1, <2>1, <2>2, ApplyStateIsHandled
  <1>2. CASE e.type \in {"PARTIAL", "ASSISTANT_TEXT"}
    <2>1. q \in {k, Fail(k, "MALFORMED_EVENT")}
      BY <1>2 DEF Handle, Malformed
    <2> QED
      BY <2>1, KeptIsHandled, FailIsHandled DEF Errors
  <1>3. CASE e.type = "FINAL"
    <2>1. \/ q \in {k, Fail(k, "MALFORMED_EVENT")}
          \/ k.m = "LISTENING" /\ q = [k EXCEPT !.m = "PROCESSING", !.ui = "Active"]
      BY <1>3 DEF Handle, Malformed
    <2>2. CASE q \in {k, Fail(k, "MALFORMED_EVENT")}
      BY <2>2, KeptIsHandled, FailIsHandled DEF Errors
    <2>3. CASE k.m = "LISTENING" /\ q = [k EXCEPT !.m = "PROCESSING", !.ui = "Active"]
      <3>1. k.m \notin Terminal /\ ~NotYet(k)
        BY <2>3 DEF Terminal, NotYet
      <3>2. Well(k, q) /\ SameFrames(k, q) /\ q.job = k.job /\ q.ending = k.ending
        BY <2>3, <3>1, MoveIsWell
      <3> QED
        BY <3>2, SameQueues DEF Handled
    <2> QED
      BY <2>1, <2>2, <2>3
  <1>4. CASE e \in [type : {"ASSISTANT_AUDIO"}, turn : Nat, seq : Nat, last : BOOLEAN]
    <2>1. q = HandleAudio(k, e)
      BY <1>4 DEF Handle
    <2> QED
      BY <1>4, <2>1, HandleAudioIsHandled
  <1>5. CASE e.type = "TURN_INTERRUPTED"
    <2>1. q \in {[k EXCEPT !.lastInt = 0], Fail(k, "MALFORMED_EVENT")}
      BY <1>5 DEF Handle, Malformed
    <2>2. CASE q = [k EXCEPT !.lastInt = 0]
      <3>1. q \in Client
        BY <2>2 DEF Client
      <3>2. /\ q.m = k.m /\ q.ui = k.ui /\ q.ending = k.ending /\ q.job = k.job
            /\ q.cleanup = k.cleanup /\ q.stage = k.stage /\ q.muted = k.muted
            /\ q.capture = k.capture /\ q.out = k.out
            /\ q.late = k.late /\ q.lastInt = 0 /\ q.turn = k.turn /\ q.seq = k.seq
            /\ q.held = k.held /\ q.stuck = k.stuck
            /\ q.frames = k.frames
        BY <2>2 DEF Client
      <3>3. Quiet(k, q)
        BY <3>2, Typed DEF Quiet, Locked, SoundClient
      <3>4. Well(k, q) /\ SameFrames(k, q)
        BY <3>1, <3>2, <3>3, QuietIsWell DEF SameFrames, NotYet
      <3> QED
        BY <3>2, <3>4, SameQueues DEF Handled
    <2>3. CASE q = Fail(k, "MALFORMED_EVENT")
      BY <2>3, FailIsHandled DEF Errors
    <2> QED
      BY <2>1, <2>2, <2>3
  <1>6. CASE e.type = "ERROR"
    <2>1. q = Fail(k, "SERVER_ERROR")
      BY <1>6 DEF Handle
    <2> QED
      BY <2>1, FailIsHandled DEF Errors
  <1> QED
    BY <1>1, <1>2, <1>3, <1>4, <1>5, <1>6 DEF DownEvent

-----------------------------------------------------------------------------
(* What the steps of the controller do.                                    *)

\* The catch of connectionLoop: the devices and the queue are given up, and the
\* session fails, is tried again or is already being taken down.
LEMMA CaughtIs ==
  ASSUME NEW k \in Client, SoundClient(k), k.job # "none"
  PROVE  /\ Well(k, Caught(k)) /\ Caught(k).frames = <<>>
         /\ Caught(k).turn = k.turn /\ Caught(k).seq = k.seq
         /\ KeepsReader(k, Caught(k)) /\ (NotYet(k) => NotYet(Caught(k)))
         /\ k.ending => /\ Caught(k).ending /\ ~Caught(k).capture
                        /\ Caught(k).cleanup = k.cleanup /\ Caught(k).ui = k.ui
         /\ ~k.ending => Caught(k).ending \/ Caught(k).job = "waiting"
         /\ Caught(k).ending => Caught(k).stage = "stopping"
  <1> DEFINE a == StopAudio(k)
             d == Drain(a)
             q == [d EXCEPT !.job = "none"]
  <1>1. /\ a \in Client /\ ~a.capture /\ a.out.turn = 0
        /\ a.m = k.m /\ a.ui = k.ui /\ a.ending = k.ending
        /\ a.cleanup = k.cleanup /\ a.stage = k.stage /\ a.muted = k.muted
        /\ a.lastInt = k.lastInt /\ a.turn = k.turn /\ a.seq = k.seq
        /\ a.attempts = k.attempts /\ KeepsReader(k, a)
    BY StopAudioIs
  <1> HIDE DEF a
  <1>2. /\ d \in Client /\ ~d.capture /\ d.out.turn = 0
        /\ d.m = k.m /\ d.ui = k.ui /\ d.ending = k.ending
        /\ d.cleanup = k.cleanup /\ d.stage = k.stage /\ d.muted = k.muted
        /\ d.lastInt = k.lastInt /\ d.turn = k.turn /\ d.seq = k.seq
        /\ d.frames = <<>> /\ d.held = a.held /\ d.late = a.late
    BY <1>1, NewTurnIs
  <1>3. d.attempts = k.attempts
    BY <1>1 DEF Drain, Client
  <1> HIDE DEF d
  <1>4. /\ ~q.capture /\ q.out.turn = 0 /\ q.job = "none"
        /\ q.m = k.m /\ q.ui = k.ui /\ q.ending = k.ending
        /\ q.cleanup = k.cleanup /\ q.stage = k.stage /\ q.muted = k.muted
        /\ q.lastInt = k.lastInt /\ q.turn = k.turn /\ q.seq = k.seq
        /\ q.frames = <<>> /\ q.attempts = k.attempts
        /\ q.held = d.held /\ q.late = d.late
    BY <1>2, <1>3 DEF Client
  <1>4a. KeepsReader(k, q) /\ (Locked(q) => q.late)
    BY <1>1, <1>2, <1>4 DEF KeepsReader, Locked, SoundClient
  <1>5. q \in Client
    BY <1>2, Updates
  <1>6. Caught(k) = IF k.ending THEN q
                    ELSE IF k.m = "CONNECTING" THEN Fail(q, "NETWORK_UNAVAILABLE")
                    ELSE IF k.attempts >= MaxAttempts THEN Fail(q, "RECONNECT_EXHAUSTED")
                    ELSE [q EXCEPT !.m = "RECONNECTING", !.attempts = q.attempts + 1,
                                   !.ui = "Active", !.job = "waiting"]
    BY DEF Caught, a, d
  <1> HIDE DEF q
  <1>7. CASE k.ending
    <2>1. Caught(k) = q
      BY <1>6, <1>7
    <2>2. k.stage = "stopping" /\ k.cleanup # "none"
      BY <1>7 DEF SoundClient
    <2>3. SoundClient(q)
      BY <1>4, <1>4a, <1>5, <1>7, <2>2, Typed DEF SoundClient
    <2>4. Taken(k) = "cleaning" /\ Taken(q) = "cleaning" /\ Shown(k) = Shown(q)
      BY <1>4, <2>2 DEF Taken, Shown
    <2>5. ~k.capture
      BY <1>7 DEF SoundClient
    <2>6. q.capture = k.capture
      BY <1>4, <1>5, <2>5, Typed
    <2>7. Well(k, q)
      BY <1>5, <2>3, <2>4, <2>6 DEF Well, Passes
    <2> QED
      BY <1>4, <1>4a, <1>7, <2>1, <2>2, <2>7 DEF NotYet
  <1>8. ASSUME ~k.ending, NEW error \in Errors, Caught(k) = Fail(q, error)
        PROVE  /\ Well(k, Caught(k)) /\ Caught(k).frames = <<>>
               /\ Caught(k).turn = k.turn /\ Caught(k).seq = k.seq
               /\ KeepsReader(k, Caught(k)) /\ (NotYet(k) => NotYet(Caught(k)))
               /\ Caught(k).ending /\ Caught(k).stage = "stopping"
    <2> DEFINE f == Fail(q, error)
    <2>1. /\ f \in Client /\ f.ending /\ ~f.capture /\ f.out.turn = 0 /\ f.ui = error
          /\ f.m \in Terminal /\ f.cleanup = "fail" /\ f.stage = "stopping"
          /\ f.turn = q.turn /\ f.seq = q.seq /\ f.frames = q.frames
          /\ f.lastInt = q.lastInt /\ KeepsReader(q, f)
      BY <1>4, <1>5, <1>8, FailFields
    <2> HIDE DEF f
    <2>2. f.lastInt < f.turn /\ (Locked(f) => f.late)
      BY <1>4, <1>4a, <2>1 DEF SoundClient, KeepsReader, Locked
    <2>3. Well(k, f)
      BY <1>8, <2>1, <2>2, FailedIsWell
    <2>4. KeepsReader(k, f) /\ NotYet(f)
      BY <1>4a, <2>1 DEF KeepsReader, NotYet
    <2> QED
      BY <1>4, <1>8, <2>1, <2>3, <2>4 DEF f
  <1>9. CASE /\ ~k.ending /\ k.m # "CONNECTING"
             /\ Caught(k) = [q EXCEPT !.m = "RECONNECTING", !.attempts = q.attempts + 1,
                                      !.ui = "Active", !.job = "waiting"]
    <2> DEFINE n == q.attempts + 1
               r == [q EXCEPT !.m = "RECONNECTING", !.attempts = n,
                              !.ui = "Active", !.job = "waiting"]
    <2>1. n \in Nat
      BY <1>5, Typed
    <2> HIDE DEF n
    <2>2. r \in Client
      BY <1>5, <2>1 DEF Client, States
    <2>3. /\ r.m = "RECONNECTING" /\ r.ui = "Active" /\ r.job = "waiting"
          /\ r.capture = q.capture /\ r.out = q.out /\ r.ending = q.ending
          /\ r.cleanup = q.cleanup /\ r.stage = q.stage
          /\ r.lastInt = q.lastInt /\ r.turn = q.turn /\ r.seq = q.seq
          /\ r.frames = q.frames /\ r.held = q.held /\ r.late = q.late
      BY <1>5 DEF Client
    <2>4. Caught(k) = r
      BY <1>9 DEF n
    <2> HIDE DEF r
    <2>5. k.cleanup = "none" /\ k.stage = "none"
      BY <1>9 DEF SoundClient
    <2>6. SoundClient(r)
      BY <1>4, <1>4a, <1>9, <2>3, <2>5, Typed DEF SoundClient, Terminal, Locked
    <2>7. Taken(k) = "running" /\ Shown(k) = "Active"
      BY <1>9, ShownIs
    <2>8. Taken(r) = "running" /\ Shown(r) = "Active"
      BY <1>4, <2>3, <2>5 DEF Taken, Shown, Errors
    <2>9. Well(k, r)
      BY <2>2, <2>6, <2>7, <2>8 DEF Well, Passes
    <2>10. KeepsReader(k, r) /\ ~NotYet(k)
      BY <1>4, <1>4a, <1>9, <2>3 DEF KeepsReader, NotYet, SoundClient
    <2> QED
      BY <1>4, <1>9, <2>3, <2>4, <2>9, <2>10
  <1> QED
    BY <1>6, <1>7, <1>8, <1>9 DEF Errors

\* Its catch forgets what is queued.
LEMMA CaughtQueues ==
  ASSUME NEW k \in Client, SoundClient(k), k.job # "none"
  PROVE  Queues(k, Caught(k))
  BY CaughtIs DEF Queues, Leaves, KeepsReader

\* What a step makes of the frames is not changed by one that has nothing to do
\* with them.
LEMMA QueuesThen ==
  ASSUME NEW k, NEW p, NEW q, Queues(k, p), SameFrames(p, q)
  PROVE  Queues(k, q)
  <1>1. CASE Leaves(k, p)
    BY <1>1 DEF Queues, Leaves, SameFrames
  <1>2. CASE Begins(k, p)
    BY <1>2 DEF Queues, Begins, SameFrames, Locked
  <1>3. CASE Makes(k, p)
    BY <1>3 DEF Queues, Makes, SameFrames
  <1>4. CASE Puts(k, p)
    BY <1>4 DEF Queues, Puts, SameFrames, Locked
  <1> QED
    BY <1>1, <1>2, <1>3, <1>4 DEF Queues

\* A step that the wires do not notice: nothing of a connection that is there
\* is forgotten, nor that its session is being ended.
Steady(k, q) ==
  /\ Well(k, q) /\ Queues(k, q)
  /\ k.job = "live" \/ k.stage = "stopping" =>
       /\ q.job = "live" \/ q.stage = "stopping"
       /\ k.ending => q.ending
  /\ k.job # "none" => q.job # "none" \/ q.stage = "stopping"
  /\ k.stage = "stopping" => q.stage = "stopping"

\* trySend on controlEvents.
LEMMA PostIs ==
  ASSUME NEW k \in Client, NEW type \in {"INTERRUPT", "PLAYBACK_COMPLETED"}, NEW turn \in Nat
  PROVE  LET q == Post(k, type, turn)
         IN /\ q \in Client
            /\ q.m = k.m /\ q.ui = k.ui /\ q.ending = k.ending /\ q.job = k.job
            /\ q.cleanup = k.cleanup /\ q.stage = k.stage /\ q.muted = k.muted
            /\ q.capture = k.capture /\ q.late = k.late /\ q.out = k.out
            /\ q.held = k.held /\ q.stuck = k.stuck
            /\ q.lastInt = k.lastInt /\ q.turn = k.turn /\ q.seq = k.seq
            /\ q.frames = k.frames
  <1> DEFINE v == Append(k.control, [type |-> type, turn |-> turn])
  <1>1. v \in Seq(Control)
    BY Typed DEF Control
  <1>2. Post(k, type, turn) \in {k, [k EXCEPT !.control = v]}
    BY DEF Post
  <1> HIDE DEF v
  <1>3. [k EXCEPT !.control = v] \in Client
    BY <1>1, Updates
  <1>4. LET q == [k EXCEPT !.control = v] IN
          /\ q.m = k.m /\ q.ui = k.ui /\ q.ending = k.ending /\ q.job = k.job
          /\ q.cleanup = k.cleanup /\ q.stage = k.stage /\ q.muted = k.muted
          /\ q.capture = k.capture /\ q.late = k.late /\ q.out = k.out
          /\ q.held = k.held /\ q.stuck = k.stuck
          /\ q.lastInt = k.lastInt /\ q.turn = k.turn /\ q.seq = k.seq
          /\ q.frames = k.frames
    BY DEF Client
  <1> QED
    BY <1>2, <1>3, <1>4

\* start: only where no job is left.  A reader that has been in
\* enqueueAudioFrame since an earlier session finds nothing queued.
LEMMA StartIsWell ==
  ASSUME c \in Client, SoundClient(c), Start, c.held.turn <= c.turn
  PROVE  /\ Well(c, c') /\ c'.m = "CONNECTING" /\ c'.job = "starting"
         /\ c'.turn = c.turn + 1 /\ c'.frames = c.frames /\ c'.held.turn <= c'.turn
         /\ c'.frames = <<>> \/ ~Locked(c')
         /\ c.job = "none" /\ c.stage = "none"
  <1> DEFINE n == c.turn + 1
  <1>1. n \in Nat /\ n > c.turn /\ n > 0 /\ n = c.turn + 1
    BY Typed
  <1>2. PICK r \in Races :
          c' = [c EXCEPT !.m = "CONNECTING", !.ui = "Active", !.ending = FALSE,
                         !.turn = n, !.seq = r.seq, !.held = r.held, !.lastInt = 0,
                         !.attempts = 0, !.job = "starting"]
    BY DEF Start
  <1>3. c.job = "none" /\ c.cleanup = "none"
    BY DEF Start, MayStart
  <1>4. ~c.capture /\ c.stage = "none" /\ (Locked(c) => c.late /\ c.frames = <<>>)
    BY <1>3, Typed DEF SoundClient
  <1>5. /\ r.seq \in Nat /\ r.held \in Frame /\ r.held.turn <= n
        /\ r.held.turn # 0 => Locked(c)
    <2>0. /\ c.turn \in Nat /\ c.held.turn \in Nat /\ c.held.seq \in Nat
          /\ c.held.seq + 1 \in Nat /\ c.turn + 1 \in Nat
      BY Typed
    <2>1. CASE ~Locked(c)
      <3>1. r.held = NoFrame /\ r.seq = 0
        BY <1>2, <2>1 DEF Races
      <3> QED
        BY <1>1, <3>1 DEF NoFrame, Frame
    <2>2. CASE Locked(c)
      <3>1. PICK t \in {c.held.turn, c.turn + 1}, m \in {0, 1, c.held.seq, c.held.seq + 1},
                 v \in {0, c.held.seq} :
              r.held = [turn |-> t, seq |-> v] /\ r.seq = m
        BY <1>2, <2>2 DEF Races
      <3>2. t \in Nat /\ v \in Nat /\ m \in Nat /\ t <= n
        BY <1>1, <2>0, <3>1
      <3> HIDE DEF n
      <3> QED
        BY <2>2, <3>1, <3>2 DEF Frame
    <2> QED
      BY <2>1, <2>2
  <1> HIDE DEF n
  <1>6. c' \in Client
    BY <1>1, <1>2, <1>5, ZenonT(40) DEF Client, States
  <1>7. /\ c'.m = "CONNECTING" /\ c'.ui = "Active" /\ ~c'.ending /\ c'.turn = n
        /\ c'.lastInt = 0 /\ c'.job = "starting" /\ c'.capture = c.capture
        /\ c'.frames = c.frames /\ c'.held = r.held /\ c'.late = c.late
        /\ c'.cleanup = "none" /\ c'.stage = "none"
    BY <1>2, <1>3, <1>4 DEF Client
  <1>7a. Locked(c') => c'.late /\ c'.frames = <<>>
    BY <1>4, <1>5, <1>7 DEF Locked
  <1>8. SoundClient(c')
    BY <1>1, <1>4, <1>7, <1>7a DEF SoundClient, Terminal
  <1>9. Taken(c) = "empty" /\ Taken(c') = "running" /\ Shown(c') = "Active"
    BY <1>3, <1>7 DEF Taken, Shown, Errors
  <1>10. Well(c, c')
    BY <1>6, <1>7, <1>8, <1>9 DEF Well, Passes
  <1> QED
    BY <1>1, <1>3, <1>4, <1>5, <1>7, <1>7a, <1>10

\* A reader that outlasts the drain is still there.
LEMMA ToggleMuteIsSteady ==
  ASSUME c \in Client, SoundClient(c), ToggleMute
  PROVE  Steady(c, c')
  <1>1. CASE ~c.muted
    <2> DEFINE b == [c EXCEPT !.muted = TRUE]
               i == StopInput(b)
               k == Drain(i)
    <2>1. c' = k
      BY <1>1 DEF ToggleMute
    <2>2. /\ b.m = c.m /\ b.ui = c.ui /\ b.ending = c.ending /\ b.job = c.job
          /\ b.cleanup = c.cleanup /\ b.stage = c.stage /\ b.muted
          /\ b.late = c.late /\ b.out = c.out /\ b.lastInt = c.lastInt
          /\ b.held = c.held /\ b.stuck = c.stuck
          /\ b.turn = c.turn /\ b.seq = c.seq
          /\ b.capture = c.capture
      BY DEF Client
    <2>3. b \in Client
      BY DEF Client
    <2> HIDE DEF b
    <2>4. /\ i \in Client
          /\ i.m = c.m /\ i.ui = c.ui /\ i.ending = c.ending /\ i.job = c.job
          /\ i.cleanup = c.cleanup /\ i.stage = c.stage /\ i.muted /\ ~i.capture
          /\ i.out = c.out /\ i.lastInt = c.lastInt /\ i.turn = c.turn /\ i.seq = c.seq
          /\ KeepsReader(b, i)
      BY <2>2, <2>3, StopAudioIs
    <2>4a. i.stuck = c.stuck /\ (i.late => c.late \/ c.capture)
      BY <2>2, <2>3 DEF StopInput, Client
    <2> HIDE DEF i
    <2>5. /\ k \in Client /\ k.frames = <<>>
          /\ k.m = c.m /\ k.ui = c.ui /\ k.ending = c.ending /\ k.job = c.job
          /\ k.cleanup = c.cleanup /\ k.stage = c.stage /\ k.muted /\ ~k.capture
          /\ k.out = c.out /\ k.lastInt = c.lastInt /\ k.turn = c.turn /\ k.seq = c.seq
          /\ k.late = i.late /\ k.held = i.held /\ k.stuck = i.stuck
      BY <2>4, NewTurnIs
    <2> HIDE DEF k
    <2>6. KeepsReader(c, k) /\ (k.late => c.late \/ c.capture) /\ k.stuck = c.stuck
      BY <2>2, <2>4, <2>4a, <2>5 DEF KeepsReader
    <2>10. Queues(c, k)
      BY <2>5, <2>6 DEF Queues, Leaves, KeepsReader, NotYet
    <2>11. c.capture => ~c.ending /\ c.job # "none"
      BY DEF SoundClient
    <2>12. SoundClient(k)
      <3>1. /\ Locked(k) => k.late
            /\ ~k.ending /\ k.job = "none" => ~k.late /\ ~k.stuck
        BY <2>5, <2>6, <2>11 DEF SoundClient, KeepsReader, Locked
      <3> QED
        BY <2>5, <3>1, Typed DEF SoundClient
    <2>13. Shown(k) = Shown(c) /\ Taken(k) = Taken(c)
      BY <2>5 DEF Shown, Taken
    <2>14. CASE c.capture
      <3>1. Taken(c) = "running" /\ Shown(c) = "Active"
        BY <2>11, <2>14, ShownIs
      <3>2. Well(c, k)
        BY <2>5, <2>12, <2>13, <3>1 DEF Well, Passes
      <3> QED
        BY <2>1, <2>5, <2>10, <3>2 DEF Steady
    <2>15. CASE ~c.capture
      <3>1. k.capture = c.capture
        BY <2>5, <2>15, Typed
      <3>2. Well(c, k)
        BY <2>5, <2>12, <2>13, <3>1 DEF Well, Passes
      <3> QED
        BY <2>1, <2>5, <2>10, <3>2 DEF Steady
    <2> QED
      BY <2>14, <2>15
  <1>2. CASE c.muted
    <2> DEFINE b == [c EXCEPT !.muted = FALSE]
    <2>1. c' \in IF b.m = "LISTENING" THEN StartCapture(b) ELSE {b}
      BY <1>2 DEF ToggleMute
    <2>2. /\ b.m = c.m /\ b.ui = c.ui /\ b.ending = c.ending /\ b.job = c.job
          /\ b.cleanup = c.cleanup /\ b.stage = c.stage
          /\ b.late = c.late /\ b.out = c.out /\ b.lastInt = c.lastInt
          /\ b.held = c.held /\ b.stuck = c.stuck
          /\ b.turn = c.turn /\ b.seq = c.seq /\ b.frames = c.frames
          /\ b.capture = c.capture
      BY DEF Client
    <2>3. b \in Client
      BY DEF Client
    <2> HIDE DEF b
    <2>4. SoundClient(b)
      BY <1>2, <2>2 DEF SoundClient, Locked
    <2>5. Shown(b) = Shown(c) /\ Taken(b) = Taken(c)
      BY <2>2 DEF Shown, Taken
    <2>6. Well(b, c') /\ SameFrames(b, c') /\ c'.job = b.job /\ (b.ending => c' = b)
      <3>1. CASE c' = b
        BY <2>3, <2>4, <3>1 DEF Well, Passes, SameFrames
      <3>2. CASE b.m = "LISTENING" /\ c' \in StartCapture(b)
        <4>1. b.job \in {"live", "losing"} \/ b.ending
          BY <2>4, <3>2 DEF SoundClient
        <4> QED
          BY <2>3, <2>4, <3>2, <4>1, StartCaptureIs
      <3> QED
        BY <2>1, <3>1, <3>2
    <2>7. Well(c, c')
      BY <2>2, <2>5, <2>6 DEF Well, Passes
    <2>8. SameFrames(c, c') /\ c'.job = c.job /\ (c.ending => c'.ending)
      BY <2>2, <2>6 DEF SameFrames, NotYet
    <2>9. c.stage = "stopping" => c.ending /\ c'.stage = "stopping"
      BY <2>2, <2>6 DEF SoundClient
    <2> QED
      BY <2>7, <2>8, <2>9, SameQueues DEF Steady
  <1> QED
    BY <1>1, <1>2, Typed

\* The turn that is interrupted is over and its player stopped.
LEMMA InterruptIsSteady ==
  ASSUME c \in Client, SoundClient(c), Interrupt
  PROVE  Steady(c, c')
  <1> DEFINE o == StopOutput(c)
             p == Post(o, "INTERRUPT", c.turn)
             n == NewTurn(p)
             r == [n EXCEPT !.m = "LISTENING", !.ui = "Active", !.lastInt = c.turn]
  <1>1. c' = r /\ c.m = "SPEAKING" /\ ~Locked(c)
    BY DEF Interrupt, MayTurn
  <1>2. c.turn \in Nat /\ c.m \notin Terminal /\ c.ui = "Active"
    BY <1>1, Typed DEF Terminal, SoundClient
  <1>3. /\ o \in Client
        /\ o.ending = c.ending /\ o.job = c.job
        /\ o.cleanup = c.cleanup /\ o.stage = c.stage /\ o.muted = c.muted
        /\ o.capture = c.capture /\ o.late = c.late /\ o.out.turn = 0 /\ o.turn = c.turn
        /\ o.held = c.held
    BY StopAudioIs DEF KeepsReader
  <1> HIDE DEF o
  <1>4. /\ p \in Client
        /\ p.ending = c.ending /\ p.job = c.job
        /\ p.cleanup = c.cleanup /\ p.stage = c.stage /\ p.muted = c.muted
        /\ p.capture = c.capture /\ p.late = c.late /\ p.out.turn = 0 /\ p.turn = c.turn
        /\ p.held = c.held
    BY <1>2, <1>3, PostIs
  <1> HIDE DEF p
  <1>5. /\ n \in Client /\ n.frames = <<>>
        /\ n.ending = c.ending /\ n.job = c.job
        /\ n.cleanup = c.cleanup /\ n.stage = c.stage /\ n.muted = c.muted
        /\ n.capture = c.capture /\ n.late = c.late /\ n.out.turn = 0 /\ n.turn = c.turn + 1
        /\ n.held = c.held
    BY <1>4, NewTurnIs
  <1> HIDE DEF n
  <1>6. /\ r.m = "LISTENING" /\ r.ui = "Active" /\ r.lastInt = c.turn /\ r.frames = <<>>
        /\ r.ending = c.ending /\ r.job = c.job
        /\ r.cleanup = c.cleanup /\ r.stage = c.stage /\ r.muted = c.muted
        /\ r.capture = c.capture /\ r.late = c.late /\ r.out.turn = 0 /\ r.turn = c.turn + 1
        /\ r.held = c.held
    BY <1>5 DEF Client
  <1>7. r \in Client
    <2>1. "LISTENING" \in States
      BY DEF States
    <2> QED
      BY <1>2, <1>5, <2>1 DEF Client
  <1> HIDE DEF r
  <1>7a. ~Locked(r)
    BY <1>1, <1>6 DEF Locked
  <1>8. SoundClient(r)
    BY <1>1, <1>2, <1>6, <1>7a DEF SoundClient, Terminal
  <1>9. Shown(r) = Shown(c) /\ Taken(r) = Taken(c)
    BY <1>2, <1>6 DEF Shown, Taken
  <1>10. Well(c, r)
    BY <1>6, <1>7, <1>8, <1>9 DEF Well, Passes
  <1>11. Queues(c, r)
    BY <1>1, <1>2, <1>6, <1>7a DEF Queues, Begins
  <1> QED
    BY <1>1, <1>6, <1>10, <1>11 DEF Steady

\* A failure whose job is gone with it.
LEMMA FailedForGood ==
  ASSUME NEW k \in Client, SoundClient(k), ~k.ending, k.job # "none", NEW error \in Errors
  PROVE  Steady(k, [Fail(k, error) EXCEPT !.job = "none"])
  <1> DEFINE f == Fail(k, error)
             q == [f EXCEPT !.job = "none"]
  <1>1. /\ f \in Client /\ f.ending /\ ~f.capture /\ f.out.turn = 0 /\ f.ui = error
        /\ f.m \in Terminal /\ f.cleanup = "fail" /\ f.stage = "stopping"
        /\ f.turn = k.turn /\ f.seq = k.seq /\ f.frames = k.frames
        /\ f.lastInt = k.lastInt /\ KeepsReader(k, f)
    BY FailFields
  <1> HIDE DEF f
  <1>2. q \in Client
    BY <1>1, Updates
  <1>3. /\ q.ending /\ ~q.capture /\ q.out = f.out /\ q.ui \in Errors
        /\ q.m \in Terminal /\ q.cleanup = "fail" /\ q.stage = "stopping"
        /\ q.turn = k.turn /\ q.seq = k.seq /\ q.frames = k.frames
        /\ q.lastInt = k.lastInt /\ q.held = f.held /\ q.late = f.late
    BY <1>1 DEF Client
  <1> HIDE DEF q
  <1>4. q.lastInt < q.turn /\ (Locked(q) => q.late)
    BY <1>1, <1>3 DEF SoundClient, KeepsReader, Locked
  <1>5. Well(k, q)
    BY <1>1, <1>2, <1>3, <1>4, FailedIsWell
  <1>6. Queues(k, q)
    BY <1>1, <1>3, SameQueues DEF SameFrames, KeepsReader, NotYet
  <1>7. Steady(k, q)
    BY <1>3, <1>5, <1>6 DEF Steady
  <1> QED
    BY <1>7 DEF q, f

\* fail, called by a thread.
LEMMA FailIsSteady ==
  ASSUME NEW k \in Client, SoundClient(k), k.job # "none" \/ k.ending, NEW error \in Errors
  PROVE  Steady(k, Fail(k, error))
  <1> DEFINE f == Fail(k, error)
  <1>1. /\ Well(k, f) /\ SameFrames(k, f) /\ f.ending /\ f.job = k.job
        /\ k.ending => f = k
    BY FailIs
  <1>2. k.stage = "stopping" => k.ending
    BY Typed DEF SoundClient
  <1> QED
    BY <1>1, <1>2, SameQueues DEF Steady

\* The session is tried again with a turn of its own, or fails.
LEMMA RefreshedIsSteady ==
  ASSUME c \in Client, SoundClient(c), Refreshed
  PROVE  Steady(c, c')
  <1>1. c.job = "waiting" /\ ~c.ending
    BY DEF Refreshed
  <1>2. CASE c' = [Fail(c, "SERVER_ERROR") EXCEPT !.job = "none"]
    BY <1>1, <1>2, FailedForGood DEF Errors
  <1>3. CASE ~Locked(c) /\ c' = [NewTurn(c) EXCEPT !.job = "connecting"]
    <2> DEFINE n == NewTurn(c)
               r == [n EXCEPT !.job = "connecting"]
    <2>1. /\ n \in Client /\ n.frames = <<>> /\ n.turn = c.turn + 1
          /\ n.m = c.m /\ n.ui = c.ui /\ n.ending = c.ending
          /\ n.cleanup = c.cleanup /\ n.stage = c.stage /\ n.muted = c.muted
          /\ n.capture = c.capture /\ n.late = c.late /\ n.out = c.out
          /\ n.held = c.held /\ n.stuck = c.stuck
          /\ n.lastInt = c.lastInt
      BY NewTurnIs
    <2> HIDE DEF n
    <2>2. /\ r.m = c.m /\ r.ui = c.ui /\ r.ending = c.ending /\ r.job = "connecting"
          /\ r.frames = <<>> /\ r.turn = c.turn + 1
          /\ r.cleanup = c.cleanup /\ r.stage = c.stage /\ r.muted = c.muted
          /\ r.capture = c.capture /\ r.late = c.late /\ r.out = c.out
          /\ r.held = c.held /\ r.stuck = c.stuck
          /\ r.lastInt = c.lastInt
      BY <2>1 DEF Client
    <2>3. r \in Client
      BY <2>1, Updates
    <2>4. c' = r
      BY <1>3 DEF n
    <2> HIDE DEF r
    <2>4a. ~Locked(r)
      BY <1>3, <2>2 DEF Locked
    <2>5. SoundClient(r)
      BY <1>1, <2>2, <2>4a, Typed DEF SoundClient, Terminal
    <2>6. Shown(r) = Shown(c) /\ Taken(r) = Taken(c)
      BY <1>1, <2>2 DEF Shown, Taken
    <2>7. Well(c, r)
      BY <2>2, <2>3, <2>5, <2>6 DEF Well, Passes
    <2>8. Queues(c, r)
      BY <1>3, <2>2, <2>4a, Typed DEF Queues, Begins
    <2>9. c.stage # "stopping"
      BY <1>1 DEF SoundClient
    <2> QED
      BY <1>1, <2>2, <2>4, <2>7, <2>8, <2>9 DEF Steady
  <1> QED
    BY <1>2, <1>3 DEF Refreshed, MayTurn

\* connectionLoop, after a connection is lost.
LEMMA RecoverIsSteady ==
  ASSUME c \in Client, SoundClient(c), Recover
  PROVE  Steady(c, c')
  <1>1. c.job = "losing" /\ ~c.ending /\ c' = Caught(c)
    BY DEF Recover
  <1>2. Well(c, c') /\ (c'.job # "none" \/ c'.stage = "stopping")
    BY <1>1, CaughtIs
  <1>3. Queues(c, c')
    BY <1>1, CaughtQueues
  <1>4. c.stage # "stopping"
    BY <1>1 DEF SoundClient
  <1> QED
    BY <1>1, <1>2, <1>3, <1>4 DEF Steady

\* A clean-up that is done leaves nothing behind but what is shown of it.
LEMMA CleanedUpIsSteady ==
  ASSUME c \in Client, SoundClient(c), CleanedUp
  PROVE  Steady(c, c')
  <1> DEFINE t == IF c.m \in Terminal THEN c.m ELSE "ENDED"
             u == IF c.cleanup = "end" THEN "Idle" ELSE c.ui
  <1>1. /\ c.stage = "closing"
        /\ c' = [c EXCEPT !.stage = "none", !.cleanup = "none", !.m = t, !.ui = u]
    BY DEF CleanedUp
  <1>2. c.job = "none" /\ c.cleanup # "none" /\ c.ending /\ ~c.capture
    BY <1>1, Typed DEF SoundClient
  <1>3. t \in States /\ t \in Terminal
    BY DEF States, Terminal
  <1>4. /\ u \in {"Idle", "Active"} \cup Errors /\ u \in {"Idle", c.ui} /\ u # "Active"
    BY <1>2, Typed DEF SoundClient
  <1> HIDE DEF t, u
  <1>5. c' \in Client
    BY <1>1, <1>3, <1>4 DEF Client
  <1>6. /\ c'.m = t /\ c'.ui = u /\ c'.stage = "none" /\ c'.cleanup = "none"
        /\ c'.ending = c.ending /\ c'.job = c.job /\ c'.frames = c.frames
        /\ c'.turn = c.turn /\ c'.seq = c.seq
        /\ c'.capture = c.capture /\ c'.out = c.out /\ c'.lastInt = c.lastInt
        /\ c'.late = c.late /\ c'.held = c.held
    BY <1>1 DEF Client
  <1>7. SoundClient(c')
    BY <1>1, <1>2, <1>3, <1>4, <1>6 DEF SoundClient, Terminal, Locked
  <1>8. Taken(c) = "cleaning" /\ Taken(c') = "empty"
    BY <1>2, <1>6 DEF Taken
  <1>9. Shown(c') \in {"Idle", Shown(c)} /\ Shown(c') # "Active"
    BY <1>4, <1>6 DEF Shown, Errors
  <1>10. Well(c, c')
    BY <1>5, <1>6, <1>7, <1>8, <1>9 DEF Well, Passes
  <1>11. Queues(c, c')
    BY <1>3, <1>6, SameQueues DEF SameFrames, NotYet
  <1> QED
    BY <1>1, <1>2, <1>10, <1>11 DEF Steady

\* What has no part in the session: a reader that leaves, and the end of a
\* reply that has been heard.
LEMMA QuietIsSteady ==
  ASSUME NEW k \in Client, SoundClient(k), NEW q \in Client, Quiet(k, q), Queues(k, q)
  PROVE  Steady(k, q)
  BY QuietIsWell DEF Quiet, Steady

\* A thread of the devices fails, with a session that is not being taken down;
\* otherwise nothing is left to fail.
LEMMA FailAfter ==
  ASSUME NEW k \in Client, SoundClient(k), NEW p \in Client, Queues(k, p),
         p.ending = k.ending, p.lastInt = k.lastInt, p.turn = k.turn,
         Locked(p) => p.capture \/ p.late,
         k.ending => Quiet(k, p), ~k.ending => k.job # "none",
         NEW error \in Errors
  PROVE  Steady(k, Fail(p, error))
  <1>1. CASE k.ending
    <2>1. Fail(p, error) = p
      BY <1>1 DEF Fail
    <2> QED
      BY <1>1, <2>1, QuietIsSteady
  <1>2. CASE ~k.ending
    <2> DEFINE q == Fail(p, error)
    <2>1. /\ q \in Client /\ q.ending /\ ~q.capture /\ q.out.turn = 0 /\ q.ui = error
          /\ q.m \in Terminal /\ q.cleanup = "fail" /\ q.stage = "stopping"
          /\ q.turn = p.turn /\ q.seq = p.seq /\ q.frames = p.frames
          /\ q.lastInt = p.lastInt /\ KeepsReader(p, q)
      BY <1>2, FailFields
    <2> HIDE DEF q
    <2>2. q.lastInt < q.turn /\ (Locked(q) => q.late)
      BY <2>1 DEF SoundClient, KeepsReader, Locked
    <2>3. Well(k, q)
      BY <1>2, <2>1, <2>2, FailedIsWell
    <2>4. Queues(k, q)
      BY <2>1, QueuesThen DEF SameFrames, KeepsReader, NotYet
    <2>5. Steady(k, q)
      BY <2>1, <2>3, <2>4 DEF Steady
    <2> QED
      BY <2>5 DEF q
  <1> QED
    BY <1>1, <1>2

\* A reader leaves its loop.
LEMMA ReaderLeavesIsSteady ==
  ASSUME c \in Client, SoundClient(c), ReaderLeaves
  PROVE  Steady(c, c')
  <1>1. c' = [c EXCEPT !.late = FALSE] /\ (Locked(c) => c.capture)
    BY DEF ReaderLeaves
  <1>2. c' \in Client
    BY <1>1 DEF Client
  <1>3. /\ c'.m = c.m /\ c'.ui = c.ui /\ c'.ending = c.ending /\ c'.job = c.job
        /\ c'.cleanup = c.cleanup /\ c'.stage = c.stage /\ c'.muted = c.muted
        /\ c'.capture = c.capture /\ ~c'.late /\ c'.out = c.out
        /\ c'.lastInt = c.lastInt /\ c'.turn = c.turn /\ c'.seq = c.seq
        /\ c'.frames = c.frames /\ c'.held = c.held /\ c'.stuck = c.stuck
    BY <1>1 DEF Client
  <1>4. Quiet(c, c')
    <2>1. c'.turn >= c.turn
      BY <1>3, Typed
    <2>2. Locked(c') => Locked(c) /\ c'.capture
      BY <1>1, <1>3 DEF Locked
    <2> QED
      BY <1>3, <2>1, <2>2 DEF Quiet
  <1>5. Queues(c, c')
    BY <1>3, SameQueues DEF SameFrames, NotYet
  <1> QED
    BY <1>2, <1>4, <1>5, QuietIsSteady

\* onPlaybackCompleted.
LEMMA PlaybackCompletesIsSteady ==
  ASSUME c \in Client, SoundClient(c), PlaybackCompletes
  PROVE  Steady(c, c')
  <1> DEFINE o == [c EXCEPT !.out = Silence]
  <1>1. c' = Post(o, "PLAYBACK_COMPLETED", c.out.turn)
    BY DEF PlaybackCompletes
  <1>2. /\ o \in Client
        /\ o.m = c.m /\ o.ui = c.ui /\ o.ending = c.ending /\ o.job = c.job
        /\ o.cleanup = c.cleanup /\ o.stage = c.stage /\ o.muted = c.muted
        /\ o.capture = c.capture /\ o.late = c.late /\ o.out.turn = 0
        /\ o.held = c.held /\ o.stuck = c.stuck
        /\ o.lastInt = c.lastInt /\ o.turn = c.turn /\ o.seq = c.seq
        /\ o.frames = c.frames
    <2>1. Silence \in [turn : Nat, next : Nat, final : BOOLEAN] /\ Silence.turn = 0
      BY DEF Silence
    <2>2. o \in Client
      BY <2>1, Updates
    <2>3. o.out = Silence
      BY DEF Client
    <2> QED
      BY <2>1, <2>2, <2>3 DEF Client
  <1> HIDE DEF o
  <1>3. c.out.turn \in Nat
    BY Typed
  <1>4. /\ c' \in Client
        /\ c'.m = c.m /\ c'.ui = c.ui /\ c'.ending = c.ending /\ c'.job = c.job
        /\ c'.cleanup = c.cleanup /\ c'.stage = c.stage /\ c'.muted = c.muted
        /\ c'.capture = c.capture /\ c'.late = c.late /\ c'.out.turn = 0
        /\ c'.held = c.held /\ c'.stuck = c.stuck
        /\ c'.lastInt = c.lastInt /\ c'.turn = c.turn /\ c'.seq = c.seq
        /\ c'.frames = c.frames
    <2> DEFINE v == c.out.turn
               p == Post(o, "PLAYBACK_COMPLETED", v)
    <2>1. v \in Nat /\ c' = p
      BY <1>1, <1>3
    <2> HIDE DEF v
    <2>2. /\ p \in Client
          /\ p.m = o.m /\ p.ui = o.ui /\ p.ending = o.ending /\ p.job = o.job
          /\ p.cleanup = o.cleanup /\ p.stage = o.stage /\ p.muted = o.muted
          /\ p.capture = o.capture /\ p.late = o.late /\ p.out = o.out
          /\ p.held = o.held /\ p.stuck = o.stuck
          /\ p.lastInt = o.lastInt /\ p.turn = o.turn /\ p.seq = o.seq
          /\ p.frames = o.frames
      BY <1>2, <2>1, PostIs
    <2> HIDE DEF p
    <2> QED
      BY <1>2, <2>1, <2>2
  <1>5. Quiet(c, c')
    <2>1. c'.turn >= c.turn
      BY <1>4, Typed
    <2>2. c'.lastInt \in {0, c.lastInt} /\ c'.out.turn \in {0, c.out.turn}
      BY <1>4
    <2>3. Locked(c') => Locked(c) /\ (c'.capture \/ c'.late)
      BY <1>4 DEF Locked, SoundClient
    <2>4. (c'.late => c.late) /\ (c'.stuck => c.stuck)
      BY <1>4
    <2> QED
      BY <1>4, <2>1, <2>2, <2>3, <2>4 DEF Quiet
  <1>6. Queues(c, c')
    BY <1>4, SameQueues DEF SameFrames, NotYet
  <1> QED
    BY <1>4, <1>5, <1>6, QuietIsSteady

\* A writer that was stopped leaves its loop; the rest is as it was.
LEMMA UnstuckIs ==
  ASSUME NEW k \in Client, SoundClient(k)
  PROVE  LET q == [k EXCEPT !.stuck = FALSE]
         IN /\ q \in Client /\ Quiet(k, q) /\ Queues(k, q)
            /\ q.ending = k.ending /\ q.lastInt = k.lastInt /\ q.turn = k.turn
            /\ Locked(q) => q.capture \/ q.late
  <1> DEFINE q == [k EXCEPT !.stuck = FALSE]
  <1>1. q \in Client
    BY Updates
  <1>2. /\ q.m = k.m /\ q.ui = k.ui /\ q.ending = k.ending /\ q.job = k.job
        /\ q.cleanup = k.cleanup /\ q.stage = k.stage /\ q.muted = k.muted
        /\ q.capture = k.capture /\ q.late = k.late /\ q.held = k.held /\ ~q.stuck
        /\ q.out = k.out /\ q.lastInt = k.lastInt /\ q.turn = k.turn /\ q.seq = k.seq
        /\ q.frames = k.frames
    BY DEF Client
  <1> HIDE DEF q
  <1>3. Locked(q) => Locked(k) /\ (q.capture \/ q.late)
    BY <1>2 DEF Locked, SoundClient
  <1>4. Quiet(k, q)
    <2>1. q.turn >= k.turn
      BY <1>2, Typed
    <2> QED
      BY <1>2, <1>3, <2>1 DEF Quiet
  <1>5. Queues(k, q)
    BY <1>2, SameQueues DEF SameFrames, NotYet
  <1>6. /\ q \in Client /\ Quiet(k, q) /\ Queues(k, q)
        /\ q.ending = k.ending /\ q.lastInt = k.lastInt /\ q.turn = k.turn
        /\ Locked(q) => q.capture \/ q.late
    BY <1>1, <1>2, <1>3, <1>4, <1>5
  <1> QED
    BY <1>6 DEF q

\* Only a session that is there or has ended plays or has played.
LEMMA PlaybackFailsIsSteady ==
  ASSUME c \in Client, SoundClient(c), PlaybackFails
  PROVE  Steady(c, c')
  <1>1. CASE c.out.turn # 0 /\ c' = Fail(c, "AUDIO_OUTPUT_FAILURE")
    <2>1. c.job # "none" \/ c.ending
      BY <1>1 DEF SoundClient
    <2> QED
      BY <1>1, <2>1, FailIsSteady DEF Errors
  <1>2. CASE c.stuck /\ c' = Fail([c EXCEPT !.stuck = FALSE], "AUDIO_OUTPUT_FAILURE")
    <2> DEFINE k == [c EXCEPT !.stuck = FALSE]
    <2>1. /\ k \in Client /\ Quiet(c, k) /\ Queues(c, k)
          /\ k.ending = c.ending /\ k.lastInt = c.lastInt /\ k.turn = c.turn
          /\ Locked(k) => k.capture \/ k.late
      BY UnstuckIs
    <2>2. c' = Fail(k, "AUDIO_OUTPUT_FAILURE")
      BY <1>2
    <2> HIDE DEF k
    <2>3. ~c.ending => c.job # "none"
      BY <1>2 DEF SoundClient
    <2> QED
      BY <2>1, <2>2, <2>3, FailAfter DEF Errors
  <1> QED
    BY <1>1, <1>2 DEF PlaybackFails

\* A writer leaves its loop.
LEMMA WriterLeavesIsSteady ==
  ASSUME c \in Client, SoundClient(c), WriterLeaves
  PROVE  Steady(c, c')
  BY UnstuckIs, QuietIsSteady DEF WriterLeaves

\* A reader makes the next frame of a session that listens.
LEMMA RecordBeginsIsSteady ==
  ASSUME c \in Client, SoundClient(c), RecordBegins
  PROVE  Steady(c, c')
  <1> DEFINE n == c.seq + 1
             g == [turn |-> c.turn, seq |-> c.seq]
  <1>1. /\ c.m = "LISTENING" /\ ~c.ending /\ (c.capture \/ c.late) /\ ~Locked(c)
        /\ c' = [c EXCEPT !.held = g, !.seq = n]
    BY DEF RecordBegins
  <1>2. n \in Nat /\ g \in Frame
    BY Typed DEF Frame
  <1>3. c.job # "none"
    BY <1>1 DEF SoundClient
  <1>4. n = c.seq + 1 /\ g = [turn |-> c.turn, seq |-> c.seq]
    OBVIOUS
  <1> HIDE DEF n, g
  <1>5. c' \in Client
    BY <1>1, <1>2 DEF Client
  <1>6. /\ c'.m = c.m /\ c'.ui = c.ui /\ c'.ending = c.ending /\ c'.job = c.job
        /\ c'.cleanup = c.cleanup /\ c'.stage = c.stage /\ c'.muted = c.muted
        /\ c'.capture = c.capture /\ c'.late = c.late /\ c'.stuck = c.stuck
        /\ c'.out = c.out /\ c'.lastInt = c.lastInt /\ c'.turn = c.turn
        /\ c'.seq = n /\ c'.frames = c.frames /\ c'.held = g
    BY <1>1 DEF Client
  <1>7. Quiet(c, c')
    BY <1>1, <1>3, <1>6, Typed DEF Quiet
  <1>8. Queues(c, c')
    BY <1>1, <1>4, <1>6 DEF Queues, Makes, NotYet, Terminal
  <1> QED
    BY <1>5, <1>7, <1>8, QuietIsSteady

\* Its frame takes its place behind the others, or the queue is full and the
\* session, if there still is one, fails.
LEMMA RecordEndsIsSteady ==
  ASSUME c \in Client, SoundClient(c), RecordEnds
  PROVE  Steady(c, c')
  <1> DEFINE k == [c EXCEPT !.held = NoFrame]
             f == Append(c.frames, c.held)
             r == [k EXCEPT !.frames = f]
  <1>1. Locked(c) /\ (c' = r \/ c' = Fail(k, "AUDIO_INPUT_FAILURE"))
    <2>1. k.frames = c.frames
      BY DEF Client
    <2> QED
      BY <2>1 DEF RecordEnds
  <1>2. NoFrame \in Frame /\ NoFrame.turn = 0 /\ f \in Seq(Frame)
    BY Typed DEF NoFrame, Frame
  <1>2a. f = Append(c.frames, c.held)
    OBVIOUS
  <1> HIDE DEF f
  <1>3. k \in Client
    BY <1>2, Updates
  <1>4. /\ k.m = c.m /\ k.ui = c.ui /\ k.ending = c.ending /\ k.job = c.job
        /\ k.cleanup = c.cleanup /\ k.stage = c.stage /\ k.muted = c.muted
        /\ k.capture = c.capture /\ k.late = c.late /\ k.stuck = c.stuck
        /\ k.out = c.out /\ k.lastInt = c.lastInt /\ k.turn = c.turn
        /\ k.seq = c.seq /\ k.frames = c.frames /\ k.held = NoFrame
    BY DEF Client
  <1> HIDE DEF k
  <1>5. ~Locked(k)
    BY <1>2, <1>4 DEF Locked
  <1>6. CASE c' = r
    <2>1. r \in Client
      BY <1>2, <1>3, Updates
    <2>2. /\ r.m = c.m /\ r.ui = c.ui /\ r.ending = c.ending /\ r.job = c.job
          /\ r.cleanup = c.cleanup /\ r.stage = c.stage /\ r.muted = c.muted
          /\ r.capture = c.capture /\ r.late = c.late /\ r.stuck = c.stuck
          /\ r.out = c.out /\ r.lastInt = c.lastInt /\ r.turn = c.turn
          /\ r.seq = c.seq /\ r.frames = f /\ r.held = NoFrame
      BY <1>3, <1>4 DEF Client
    <2> HIDE DEF r
    <2>3. ~Locked(r)
      BY <1>2, <2>2 DEF Locked
    <2>4. Quiet(c, r)
      BY <2>2, <2>3, Typed DEF Quiet
    <2>5. Queues(c, r)
      BY <1>1, <1>2a, <2>2, <2>3 DEF Queues, Puts, NotYet
    <2> QED
      BY <1>6, <2>1, <2>4, <2>5, QuietIsSteady
  <1>7. CASE c' = Fail(k, "AUDIO_INPUT_FAILURE")
    <2>1. Quiet(c, k)
      BY <1>4, <1>5, Typed DEF Quiet
    <2>2. Queues(c, k)
      BY <1>1, <1>4, <1>5 DEF Queues, Puts, NotYet
    <2>3. ~c.ending => c.job # "none"
      BY <1>1 DEF SoundClient
    <2> QED
      BY <1>3, <1>4, <1>5, <1>7, <2>1, <2>2, <2>3, FailAfter DEF Errors
  <1> QED
    BY <1>1, <1>6, <1>7

\* The microphone fails, or was stopped under its reader; the reader that is in
\* enqueueAudioFrame is another one.
LEMMA ReadFailsIsSteady ==
  ASSUME c \in Client, SoundClient(c), ReadFails
  PROVE  Steady(c, c')
  <1> DEFINE a == [c EXCEPT !.capture = FALSE]
             b == [c EXCEPT !.late = FALSE]
  <1>1. PICK k : /\ \/ k = a /\ c.capture /\ (Locked(c) => c.late)
                    \/ k = b /\ c.late /\ (Locked(c) => c.capture)
                 /\ c' = Fail(k, "AUDIO_INPUT_FAILURE")
    BY DEF ReadFails
  <1>2. k \in Client
    <2>1. a \in Client
      BY DEF Client
    <2>2. b \in Client
      BY DEF Client
    <2> QED
      BY <1>1, <2>1, <2>2
  <1>3. /\ k.m = c.m /\ k.ui = c.ui /\ k.ending = c.ending /\ k.job = c.job
        /\ k.cleanup = c.cleanup /\ k.stage = c.stage /\ k.muted = c.muted
        /\ k.out = c.out /\ k.lastInt = c.lastInt /\ k.turn = c.turn
        /\ k.seq = c.seq /\ k.frames = c.frames /\ k.held = c.held /\ k.stuck = c.stuck
    BY <1>1 DEF Client
  <1>4. /\ Locked(k) => k.capture \/ k.late
        /\ c.ending => k.capture = c.capture /\ (k.late => c.late)
    <2>1. c.ending => ~c.capture
      BY DEF SoundClient
    <2>2. CASE k = a /\ c.capture /\ (Locked(c) => c.late)
      <3>1. k.late = c.late
        BY <2>2 DEF Client
      <3> QED
        BY <1>3, <2>1, <2>2, <3>1 DEF Locked
    <2>3. CASE k = b /\ c.late /\ (Locked(c) => c.capture)
      <3>1. k.capture = c.capture
        BY <2>3 DEF Client
      <3> QED
        BY <1>3, <2>1, <2>3, <3>1 DEF Locked
    <2> QED
      BY <1>1, <2>2, <2>3
  <1>5. c.ending => Quiet(c, k)
    <2>1. k.turn >= c.turn
      BY <1>3, Typed
    <2>2. Locked(k) => Locked(c)
      BY <1>3 DEF Locked
    <2> QED
      BY <1>3, <1>4, <2>1, <2>2 DEF Quiet
  <1>6. Queues(c, k)
    BY <1>3, SameQueues DEF SameFrames, NotYet
  <1>7. ~c.ending => c.job # "none"
    BY <1>1 DEF SoundClient
  <1> QED
    BY <1>1, <1>2, <1>3, <1>4, <1>5, <1>6, <1>7, FailAfter DEF Errors

\* The steps that also touch the wires, and what they are to the controller.
Sole(k, q) == Well(k, q) /\ Queues(k, q)

\* end: with no connection the session is over at once.
LEMMA EndIsSole ==
  ASSUME c \in Client, SoundClient(c), End
  PROVE  /\ Sole(c, c') /\ c'.ending /\ c'.job = c.job
         /\ c.job # "none" => c'.stage = "stopping"
         /\ c.stage = "none"
  <1>1. ~c.ending /\ c.cleanup = "none" /\ c.stage = "none"
    BY DEF End, SoundClient
  <1>2. CASE c.job = "none"
    <2>1. c' = [c EXCEPT !.ending = TRUE, !.m = "ENDED", !.ui = "Idle"]
      BY <1>2 DEF End
    <2>2. /\ c.m = "IDLE" /\ c.ui = "Idle" /\ ~c.capture /\ ~c.late /\ c.out.turn = 0
          /\ ~Locked(c)
      BY <1>1, <1>2 DEF SoundClient
    <2>3. c' \in Client
      BY <2>1 DEF Client, States, Terminal
    <2>4. /\ c'.m = "ENDED" /\ c'.ui = c.ui /\ c'.ending /\ c'.job = c.job
          /\ c'.cleanup = c.cleanup /\ c'.stage = c.stage /\ c'.muted = c.muted
          /\ c'.capture = c.capture /\ c'.late = c.late /\ c'.out = c.out
          /\ c'.held = c.held /\ c'.stuck = c.stuck
          /\ c'.lastInt = c.lastInt /\ c'.turn = c.turn /\ c'.seq = c.seq
          /\ c'.frames = c.frames
      BY <2>1, <2>2 DEF Client
    <2>5. SoundClient(c')
      BY <1>1, <1>2, <2>2, <2>4 DEF SoundClient, Terminal, Locked
    <2>6. Shown(c') = Shown(c) /\ Taken(c') = Taken(c)
      BY <2>4 DEF Shown, Taken
    <2>7. Well(c, c')
      BY <2>3, <2>4, <2>5, <2>6 DEF Well, Passes
    <2>8. Queues(c, c')
      BY <2>4, SameQueues DEF SameFrames, NotYet, Terminal
    <2> QED
      BY <1>1, <1>2, <2>4, <2>7, <2>8 DEF Sole
  <1>3. CASE c.job # "none"
    <2> DEFINE a == StopAudio(c)
               r == [a EXCEPT !.ending = TRUE, !.cleanup = "end", !.stage = "stopping"]
    <2>1. c' = r
      BY <1>3 DEF End
    <2>2. /\ a \in Client /\ ~a.capture /\ a.out.turn = 0
          /\ a.m = c.m /\ a.ui = c.ui /\ a.job = c.job /\ a.muted = c.muted
          /\ a.lastInt = c.lastInt /\ a.turn = c.turn /\ a.seq = c.seq
          /\ a.frames = c.frames /\ KeepsReader(c, a)
      BY StopAudioIs
    <2> HIDE DEF a
    <2>3. /\ ~r.capture /\ r.out.turn = 0 /\ r.ending /\ r.cleanup = "end"
          /\ r.stage = "stopping"
          /\ r.m = c.m /\ r.ui = c.ui /\ r.job = c.job /\ r.muted = c.muted
          /\ r.lastInt = c.lastInt /\ r.turn = c.turn /\ r.seq = c.seq
          /\ r.frames = c.frames /\ r.held = a.held /\ r.late = a.late
      BY <2>2 DEF Client
    <2>4. r \in Client
      BY <2>2 DEF Client
    <2> HIDE DEF r
    <2>4a. r.held = c.held /\ Locked(r) = Locked(c) /\ (Locked(r) => r.late)
      BY <2>2, <2>3 DEF SoundClient, KeepsReader, Locked
    <2>5. SoundClient(r)
      BY <1>1, <1>3, <2>3, <2>4a DEF SoundClient
    <2>6. Taken(c) = "running" /\ Taken(r) = "cleaning" /\ Shown(r) = Shown(c)
      BY <1>1, <1>3, <2>3 DEF Taken, Shown
    <2>7. Well(c, r)
      BY <2>3, <2>4, <2>5, <2>6 DEF Well, Passes
    <2>8. Queues(c, r)
      BY <2>3, <2>4a, SameQueues DEF SameFrames, NotYet
    <2> QED
      BY <1>1, <2>1, <2>3, <2>7, <2>8 DEF Sole
  <1> QED
    BY <1>2, <1>3

\* The connection's job goes on to its next place.
LEMMA JobMoves ==
  ASSUME NEW k \in Client, SoundClient(k), ~k.ending, k.job # "none",
         NEW j \in {"connecting", "live", "losing"},
         k.m \in {"LISTENING", "PROCESSING", "SPEAKING"} \/ k.capture =>
           j \in {"live", "losing"}
  PROVE  LET q == [k EXCEPT !.job = j]
         IN /\ Well(k, q) /\ SameFrames(k, q) /\ q.job = j /\ q.ending = k.ending
            /\ q.capture = k.capture /\ Shown(q) = Shown(k) /\ Taken(q) = Taken(k)
  <1> DEFINE q == [k EXCEPT !.job = j]
  <1>1. q \in Client
    BY DEF Client
  <1>2. /\ q.m = k.m /\ q.ui = k.ui /\ q.ending = k.ending /\ q.job = j
        /\ q.cleanup = k.cleanup /\ q.stage = k.stage /\ q.muted = k.muted
        /\ q.capture = k.capture /\ q.late = k.late /\ q.out = k.out
        /\ q.held = k.held /\ q.stuck = k.stuck
        /\ q.lastInt = k.lastInt /\ q.turn = k.turn /\ q.seq = k.seq
        /\ q.frames = k.frames
    BY DEF Client
  <1> HIDE DEF q
  <1>3. k.m # "IDLE"
    BY DEF SoundClient
  <1>4. SoundClient(q)
    BY <1>2, <1>3 DEF SoundClient, Locked
  <1>5. Shown(q) = Shown(k) /\ Taken(q) = Taken(k)
    BY <1>2 DEF Shown, Taken
  <1>6. /\ Well(k, q) /\ SameFrames(k, q) /\ q.job = j /\ q.ending = k.ending
        /\ q.capture = k.capture /\ Shown(q) = Shown(k) /\ Taken(q) = Taken(k)
    BY <1>1, <1>2, <1>4, <1>5 DEF Well, Passes, SameFrames, NotYet
  <1> QED
    BY <1>6 DEF q

\* start's session is accepted, or refused for good.
LEMMA StartAnsweredIsSole ==
  ASSUME c \in Client, SoundClient(c), StartAnswered
  PROVE  /\ Sole(c, c') /\ c.job = "starting" /\ c.stage = "none"
         /\ c'.job # "none" \/ c'.stage = "stopping"
  <1>1. c.job = "starting" /\ ~c.ending /\ c.stage = "none"
    BY DEF StartAnswered, SoundClient
  <1>2. CASE c' = [c EXCEPT !.job = "connecting"]
    <2>1. c.m \notin {"LISTENING", "PROCESSING", "SPEAKING"} /\ ~c.capture
      BY <1>1 DEF SoundClient
    <2>2. Well(c, c') /\ SameFrames(c, c') /\ c'.job = "connecting"
      BY <1>1, <1>2, <2>1, JobMoves
    <2> QED
      BY <1>1, <2>2, SameQueues DEF Sole
  <1>3. CASE c' = [Fail(c, "NETWORK_UNAVAILABLE") EXCEPT !.job = "none"]
    BY <1>1, <1>3, FailedForGood DEF Errors, Sole, Steady
  <1> QED
    BY <1>2, <1>3 DEF StartAnswered

\* The socket opens and the microphone with it, or the catch is run.
LEMMA ConnectIsSole ==
  ASSUME c \in Client, SoundClient(c), Connect
  PROVE  /\ Sole(c, c') /\ c.job = "connecting" /\ c.stage = "none"
         /\ s'.open # s.open \/ down' # down => c'.job = "live"
  <1>1. c.job = "connecting" /\ ~c.ending /\ c.stage = "none"
    BY DEF Connect, SoundClient
  <1>2. CASE c' \in StartCapture([c EXCEPT !.job = "live"])
    <2> DEFINE k == [c EXCEPT !.job = "live"]
    <2>1. /\ Well(c, k) /\ SameFrames(c, k) /\ k.job = "live"
          /\ k.capture = c.capture /\ Shown(k) = Shown(c) /\ Taken(k) = Taken(c)
      BY <1>1, JobMoves
    <2> HIDE DEF k
    <2>2. k \in Client /\ SoundClient(k)
      BY <2>1 DEF Well
    <2>3. c' \in StartCapture(k)
      BY <1>2 DEF k
    <2>4. Well(k, c') /\ SameFrames(k, c') /\ c'.job = k.job
      BY <2>1, <2>2, <2>3, StartCaptureIs
    <2>5. Well(c, c')
      BY <2>1, <2>4 DEF Well, Passes
    <2>6. SameFrames(c, c')
      BY <2>1, <2>4 DEF SameFrames
    <2> QED
      BY <1>1, <2>1, <2>4, <2>5, <2>6, SameQueues DEF Sole
  <1>3. CASE c' = Caught(c) /\ UNCHANGED <<s, down>>
    <2>1. Well(c, c')
      BY <1>1, <1>3, CaughtIs
    <2>2. Queues(c, c')
      BY <1>1, <1>3, CaughtQueues
    <2> QED
      BY <1>1, <1>3, <2>1, <2>2 DEF Sole
  <1> QED
    BY <1>2, <1>3 DEF Connect

\* The loops of a connection are joined.
LEMMA ClosedIsSole ==
  ASSUME c \in Client, SoundClient(c), Closed
  PROVE  Sole(c, c') /\ c'.job = "losing"
  <1>1. c.job = "live" /\ ~c.ending /\ c' = [c EXCEPT !.job = "losing"]
    BY DEF Closed
  <1>2. Well(c, c') /\ SameFrames(c, c') /\ c'.job = "losing"
    BY <1>1, JobMoves
  <1> QED
    BY <1>2, SameQueues DEF Sole

\* One event, and the loop is over if the session is being ended.
LEMMA ReceiveIsSole ==
  ASSUME c \in Client, SoundClient(c), Receive, down \in Seq(DownEvent),
         \A i \in DOMAIN down :
           down[i].type = "SESSION_STATE" /\ down[i].state = "ENDED" => c.ending
  PROVE  /\ Sole(c, c') /\ (c.ending => c'.ending)
         /\ c'.job = "live" \/ c'.stage = "stopping"
  <1>1. c.job = "live" /\ down # <<>> /\ (Turns(c, Head(down)) => ~Locked(c))
    BY DEF Receive, MayTurn
  <1>2. PICK k \in Handle(c, Head(down)) : c' = IF c.ending THEN [k EXCEPT !.job = "none"] ELSE k
    BY DEF Receive
  <1>3. /\ Head(down) \in DownEvent
        /\ Head(down).type = "SESSION_STATE" /\ Head(down).state = "ENDED" => c.ending
    <2>1. 1 \in DOMAIN down /\ Head(down) = down[1] /\ Head(down) \in DownEvent
      BY <1>1
    <2> QED
      BY <2>1
  <1>4. Handled(c, k)
    BY <1>1, <1>3, HandleIsHandled
  <1>5. /\ k \in Client /\ SoundClient(k) /\ Passes(c, k) /\ Queues(c, k)
        /\ k.job = "live" /\ (c.ending => k.ending)
    BY <1>1, <1>4 DEF Handled, Well
  <1>6. CASE ~c.ending
    BY <1>2, <1>5, <1>6 DEF Sole, Well
  <1>7. CASE c.ending
    <2> DEFINE r == [k EXCEPT !.job = "none"]
    <2>1. c' = r
      BY <1>2, <1>7
    <2>2. r \in Client
      BY <1>5 DEF Client
    <2>3. /\ r.m = k.m /\ r.ui = k.ui /\ r.ending = k.ending /\ r.job = "none"
          /\ r.cleanup = k.cleanup /\ r.stage = k.stage /\ r.muted = k.muted
          /\ r.capture = k.capture /\ r.late = k.late /\ r.out = k.out
          /\ r.held = k.held /\ r.stuck = k.stuck
          /\ r.lastInt = k.lastInt /\ r.turn = k.turn /\ r.seq = k.seq
          /\ r.frames = k.frames
      BY <1>5 DEF Client
    <2> HIDE DEF r
    <2>4. k.ending /\ k.stage = "stopping" /\ k.cleanup # "none" /\ ~k.capture
      BY <1>5, <1>7 DEF SoundClient
    <2>5. SoundClient(r)
      BY <1>5, <2>3, <2>4, Typed DEF SoundClient, Locked
    <2>6. Taken(r) = Taken(k) /\ Shown(r) = Shown(k)
      BY <2>3, <2>4 DEF Taken, Shown
    <2>7. Passes(c, r)
      BY <1>5, <2>3, <2>6 DEF Passes
    <2>8. Queues(c, r)
      BY <1>5, <2>3, QueuesThen DEF SameFrames, NotYet
    <2> QED
      BY <2>1, <2>2, <2>3, <2>4, <2>5, <2>7, <2>8 DEF Sole, Well
  <1> QED
    BY <1>6, <1>7

\* The connection is taken down with its session.
LEMMA StopResourcesIsSole ==
  ASSUME c \in Client, SoundClient(c), StopResources
  PROVE  Sole(c, c') /\ c'.ending
  <1>1. c.stage = "stopping" /\ c.cleanup # "none" /\ c.ending /\ ~c.capture
    BY DEF StopResources, SoundClient
  <1> DEFINE k == IF c.job \in {"none", "starting"} THEN Drain(c) ELSE Caught(c)
             r == [k EXCEPT !.job = "none", !.stage = "closing"]
  <1>2. c' = r
    BY DEF StopResources
  <1>3. /\ k \in Client /\ k.frames = <<>> /\ k.turn = c.turn /\ k.seq = c.seq
        /\ k.ending /\ ~k.capture /\ k.cleanup = c.cleanup /\ k.ui = c.ui
        /\ k.cleanup = "fail" => k.m \in Terminal
        /\ k.ui = "Active" <=> k.m \notin Terminal \cup {"IDLE"}
        /\ k.m # "IDLE"
        /\ k.lastInt < k.turn /\ (k.lastInt # 0 => k.out.turn # k.lastInt)
        /\ KeepsReader(c, k) /\ (NotYet(c) => NotYet(k))
    <2>0. c.m # "IDLE"
      BY <1>1 DEF SoundClient
    <2>1. CASE c.job \in {"none", "starting"}
      <3>1. k = Drain(c)
        BY <2>1
      <3>2. /\ k \in Client /\ k.frames = <<>> /\ k.turn = c.turn /\ k.seq = c.seq
            /\ k.m = c.m /\ k.ui = c.ui /\ k.ending = c.ending /\ k.cleanup = c.cleanup
            /\ k.capture = c.capture /\ k.lastInt = c.lastInt /\ k.out = c.out
            /\ k.held = c.held /\ k.late = c.late
        BY <3>1, NewTurnIs
      <3> HIDE DEF k
      <3>3. KeepsReader(c, k) /\ (NotYet(c) => NotYet(k))
        BY <3>2 DEF KeepsReader, NotYet
      <3> QED
        BY <1>1, <2>0, <3>2, <3>3 DEF SoundClient
    <2>2. CASE c.job \notin {"none", "starting"}
      <3>1. k = Caught(c)
        BY <2>2
      <3>2. /\ Well(c, k) /\ k.frames = <<>> /\ k.turn = c.turn /\ k.seq = c.seq
            /\ k.ending /\ ~k.capture /\ k.cleanup = c.cleanup /\ k.ui = c.ui
            /\ KeepsReader(c, k) /\ (NotYet(c) => NotYet(k))
        BY <1>1, <2>2, <3>1, CaughtIs
      <3> HIDE DEF k
      <3>3. k \in Client /\ SoundClient(k)
        BY <3>2 DEF Well
      <3>4. k.m # "IDLE"
        BY <3>2, <3>3 DEF SoundClient
      <3> QED
        BY <3>2, <3>3, <3>4 DEF SoundClient
    <2> QED
      BY <2>1, <2>2
  <1> HIDE DEF k
  <1>4. r \in Client
    BY <1>3 DEF Client
  <1>5. /\ r.frames = <<>> /\ r.turn = c.turn /\ r.seq = c.seq
        /\ r.ending /\ ~r.capture /\ r.cleanup = c.cleanup /\ r.ui = c.ui
        /\ r.m = k.m /\ r.lastInt = k.lastInt /\ r.out = k.out /\ k.turn = c.turn
        /\ r.job = "none" /\ r.stage = "closing" /\ r.held = k.held /\ r.late = k.late
    BY <1>3 DEF Client
  <1> HIDE DEF r
  <1>5a. r.held = c.held /\ (Locked(r) => r.late) /\ (NotYet(c) => NotYet(r))
    BY <1>1, <1>3, <1>5 DEF SoundClient, KeepsReader, Locked, NotYet
  <1>6. SoundClient(r)
    BY <1>1, <1>3, <1>5, <1>5a DEF SoundClient
  <1>7. Taken(r) = Taken(c) /\ Shown(r) = Shown(c)
    BY <1>1, <1>5 DEF Taken, Shown
  <1>8. r.capture = c.capture
    BY <1>1, <1>4, <1>5, Typed
  <1>9. Well(c, r)
    BY <1>4, <1>6, <1>7, <1>8 DEF Well, Passes
  <1>10. Queues(c, r)
    BY <1>5, <1>5a DEF Queues, Leaves
  <1> QED
    BY <1>2, <1>5, <1>9, <1>10 DEF Sole

\* sendLoop takes the event it sends out of its queue.
LEMMA SendIsWell ==
  ASSUME c \in Client, SoundClient(c), Send
  PROVE  /\ Well(c, c') /\ c'.turn = c.turn /\ c'.seq = c.seq
         /\ c'.held = c.held /\ c'.m = c.m
         /\ c.job = "live" /\ c'.job = "live" /\ ~c'.ending
         /\ \/ /\ c.control # <<>> /\ Head(c.control) \in Control
               /\ up' = Append(up, Head(c.control)) /\ c'.frames = c.frames
            \/ /\ c.frames # <<>> /\ c'.frames = Tail(c.frames)
               /\ up' = Append(up, [type |-> "AUDIO_FRAME", turn |-> c.frames[1].turn,
                                    seq |-> c.frames[1].seq])
  <1>1. c.job = "live" /\ ~c.ending
    BY DEF Send
  <1>2. CASE /\ c.control # <<>> /\ up' = Append(up, Head(c.control))
             /\ c' = [c EXCEPT !.control = Tail(@)]
    <2> DEFINE v == Tail(c.control)
    <2>1. v \in Seq(Control) /\ Head(c.control) \in Control
      BY <1>2, Typed
    <2>2. c' = [c EXCEPT !.control = v]
      BY <1>2
    <2> HIDE DEF v
    <2>3. c' \in Client
      BY <2>1, <2>2 DEF Client
    <2>4. /\ c'.m = c.m /\ c'.ui = c.ui /\ c'.ending = c.ending /\ c'.job = c.job
          /\ c'.cleanup = c.cleanup /\ c'.stage = c.stage /\ c'.muted = c.muted
          /\ c'.capture = c.capture /\ c'.late = c.late /\ c'.out = c.out
          /\ c'.held = c.held /\ c'.stuck = c.stuck
          /\ c'.lastInt = c.lastInt /\ c'.turn = c.turn /\ c'.seq = c.seq
          /\ c'.frames = c.frames
      BY <2>2 DEF Client
    <2>5. Quiet(c, c')
      <3>1. Locked(c') => Locked(c) /\ (c'.capture \/ c'.late)
        BY <2>4 DEF Locked, SoundClient
      <3> QED
        BY <2>4, <3>1, Typed DEF Quiet
    <2> QED
      BY <1>1, <1>2, <2>1, <2>3, <2>4, <2>5, QuietIsWell
  <1>3. CASE /\ c.frames # <<>> /\ c' = [c EXCEPT !.frames = Tail(@)]
             /\ up' = Append(up, [type |-> "AUDIO_FRAME", turn |-> Head(c.frames).turn,
                                  seq |-> Head(c.frames).seq])
    <2> DEFINE v == Tail(c.frames)
    <2>1. v \in Seq(Frame) /\ Head(c.frames) = c.frames[1]
      BY <1>3, Typed
    <2>2. c' = [c EXCEPT !.frames = v]
      BY <1>3
    <2> HIDE DEF v
    <2>3. c' \in Client
      BY <2>1, <2>2 DEF Client
    <2>4. /\ c'.m = c.m /\ c'.ui = c.ui /\ c'.ending = c.ending /\ c'.job = c.job
          /\ c'.cleanup = c.cleanup /\ c'.stage = c.stage /\ c'.muted = c.muted
          /\ c'.capture = c.capture /\ c'.late = c.late /\ c'.out = c.out
          /\ c'.held = c.held /\ c'.stuck = c.stuck
          /\ c'.lastInt = c.lastInt /\ c'.turn = c.turn /\ c'.seq = c.seq
          /\ c'.frames = v
      BY <2>2 DEF Client
    <2>5. Quiet(c, c')
      <3>1. Locked(c') => Locked(c) /\ (c'.capture \/ c'.late)
        BY <2>4 DEF Locked, SoundClient
      <3> QED
        BY <1>3, <2>4, <3>1, Typed DEF Quiet
    <2> QED
      BY <1>1, <1>3, <2>1, <2>3, <2>4, <2>5, QuietIsWell DEF v
  <1> QED
    BY <1>2, <1>3 DEF Send

-----------------------------------------------------------------------------
(* The order of the frames.                                                *)

Stamped(e) == e.turn \in Nat /\ e.seq \in Nat

\* Before is a strict order on what carries a turn and a number.
LEMMA BeforeOrders ==
  ASSUME NEW e, NEW f, NEW g, Stamped(e), Stamped(f), Stamped(g)
  PROVE  /\ Before(e, f) /\ Before(f, g) => Before(e, g)
         /\ Before(e, f) => ~Before(f, e)
         /\ Before(e, f) /\ ~Before(g, f) => Before(e, g)
         /\ ~Before(f, e) /\ ~Before(g, f) => ~Before(g, e)
  BY DEF Before, Stamped

\* Every frame there is carries a turn and a number.
LEMMA FramesAreStamped ==
  ASSUME TypeOK
  PROVE  /\ \A i \in DOMAIN up : IsFrame(up[i]) => Stamped(up[i])
         /\ \A j \in DOMAIN c.frames : Stamped(c.frames[j])
         /\ Stamped(NextFrame) /\ Stamped(s.next) /\ Stamped(c.held)
  <1>1. c \in Client /\ s \in Server /\ up \in Seq(UpEvent)
    BY DEF TypeOK
  <1>2. \A i \in DOMAIN up : IsFrame(up[i]) => Stamped(up[i])
    <2>1. \A e \in UpEvent : IsFrame(e) => Stamped(e)
      BY DEF UpEvent, Control, IsFrame, Stamped
    <2> QED
      BY <1>1, <2>1
  <1>3. \A j \in DOMAIN c.frames : Stamped(c.frames[j])
    <2>1. c.frames \in Seq(Frame)
      BY <1>1, Typed
    <2>2. \A f \in Frame : Stamped(f)
      BY DEF Frame, Stamped
    <2> QED
      BY <2>1, <2>2
  <1>4. Stamped(NextFrame)
    BY <1>1, Typed DEF NextFrame, Stamped
  <1>4a. Stamped(c.held)
    BY <1>1, Typed DEF Stamped
  <1>5. Stamped(s.next)
    BY <1>1 DEF Server, Frame, Stamped
  <1> QED
    BY <1>2, <1>3, <1>4, <1>4a, <1>5

\* The last of a longer queue, and the others.
LEMMA AppendIs ==
  ASSUME NEW S, NEW f \in Seq(S), NEW g
  PROVE  /\ DOMAIN Append(f, g) = DOMAIN f \cup {Len(f) + 1}
         /\ \A i \in DOMAIN f : Append(f, g)[i] = f[i] /\ i < Len(f) + 1
         /\ Append(f, g)[Len(f) + 1] = g
         /\ \A i, j \in DOMAIN Append(f, g) : i < j => i \in DOMAIN f
  OBVIOUS

\* What is queued after a step was queued before it, or is the reader's frame
\* and stands behind all the others.
LEMMA QueuedIs ==
  ASSUME NEW k \in Client, NEW q \in Client, Queues(k, q)
  PROVE  /\ \A j \in DOMAIN q.frames :
              \/ j \in DOMAIN k.frames /\ q.frames[j] = k.frames[j]
              \/ Locked(k) /\ q.frames[j] = k.held
         /\ \A i, j \in DOMAIN q.frames : i < j =>
              i \in DOMAIN k.frames /\ q.frames[i] = k.frames[i]
         /\ q.turn >= k.turn
  <1>1. k.turn \in Nat /\ q.turn \in Nat /\ k.frames \in Seq(Frame)
    BY Typed
  <1>2. q.turn >= k.turn
    BY <1>1 DEF Queues, Leaves, Begins, Makes, Puts
  <1>3. q.frames \in {k.frames, <<>>} \/ (Locked(k) /\ q.frames = Append(k.frames, k.held))
    BY DEF Queues, Leaves, Begins, Makes, Puts
  <1>4. CASE q.frames = k.frames
    BY <1>2, <1>4
  <1>5. CASE q.frames = <<>>
    <2>1. DOMAIN q.frames = {}
      BY <1>5
    <2> QED
      BY <1>2, <2>1
  <1>6. CASE Locked(k) /\ q.frames = Append(k.frames, k.held)
    BY <1>1, <1>2, <1>6, AppendIs
  <1> QED
    BY <1>3, <1>4, <1>5, <1>6

\* The reader's frame, if there is one, is the one it had, and then nothing was
\* added to the queue, or the one that was to come next.
LEMMA HeldIs ==
  ASSUME NEW k \in Client, NEW q \in Client, Queues(k, q), Locked(q)
  PROVE  \/ /\ q.held = k.held /\ Locked(k) /\ q.turn = k.turn
            /\ \A j \in DOMAIN q.frames : j \in DOMAIN k.frames /\ q.frames[j] = k.frames[j]
         \/ ~NotYet(k) /\ Makes(k, q)
  <1>1. CASE Leaves(k, q)
    <2>1. q.held = k.held /\ Locked(k) /\ q.turn = k.turn
      BY <1>1 DEF Leaves, Locked
    <2>2. CASE q.frames = k.frames
      BY <2>1, <2>2
    <2>3. CASE q.frames = <<>>
      <3>1. DOMAIN q.frames = {}
        BY <2>3
      <3> QED
        BY <2>1, <3>1
    <2> QED
      BY <1>1, <2>2, <2>3 DEF Leaves
  <1>2. CASE ~Leaves(k, q)
    BY <1>2 DEF Queues, Begins, Makes, Puts
  <1> QED
    BY <1>1, <1>2

\* A step of the controller that sends nothing keeps the frames in order.
LEMMA QueuesKeepsOrder ==
  ASSUME IndInv, c' \in Client, Queues(c, c'),
         \A i \in DOMAIN up' : IsFrame(up'[i]) => i \in DOMAIN up /\ up'[i] = up[i],
         s'.open => (s.open /\ s'.next = s.next) \/ s'.next = NoFrame
  PROVE  HeardInOrder' /\ FramesSound'
  <1>1. TypeOK /\ c \in Client /\ HeardInOrder /\ FramesSound
    BY DEF IndInv, TypeOK
  <1> DEFINE n == NextFrame
             m == [turn |-> c'.turn, seq |-> c'.seq]
  <1>2. NextFrame' = m /\ n = [turn |-> c.turn, seq |-> c.seq]
    BY DEF NextFrame
  <1>3. /\ \A j \in DOMAIN c'.frames :
             \/ j \in DOMAIN c.frames /\ c'.frames[j] = c.frames[j]
             \/ Locked(c) /\ c'.frames[j] = c.held
        /\ \A i, j \in DOMAIN c'.frames : i < j =>
             i \in DOMAIN c.frames /\ c'.frames[i] = c.frames[i]
        /\ c'.turn >= c.turn
    BY <1>1, QueuedIs
  <1>4. /\ \A i \in DOMAIN up : IsFrame(up[i]) => Stamped(up[i])
        /\ \A j \in DOMAIN c.frames : Stamped(c.frames[j])
        /\ Stamped(n) /\ Stamped(s.next) /\ Stamped(c.held)
    BY <1>1, FramesAreStamped
  <1>5. Stamped(m) /\ Stamped(c'.held) /\ c.turn \in Nat /\ c'.turn \in Nat
        /\ c.seq \in Nat /\ c'.seq \in Nat
    BY <1>1, Typed DEF Stamped
  <1>6. \A i \in DOMAIN up' : IsFrame(up'[i]) =>
          /\ i \in DOMAIN up /\ up'[i] = up[i] /\ IsFrame(up[i]) /\ Stamped(up[i])
          /\ up[i].turn <= c.turn
          /\ Locked(c) => Before(up[i], c.held)
          /\ ~NotYet(c) => Before(up[i], n)
    BY <1>1, <1>4 DEF FramesSound, Unsettled, NotYet
  <1>7. \A j \in DOMAIN c'.frames : Stamped(c'.frames[j]) /\ c'.frames[j].turn <= c.turn
    BY <1>1, <1>3, <1>4 DEF FramesSound
  <1>8. \A e : Stamped(e) => ~Before(e, NoFrame)
    BY DEF Before, Stamped, NoFrame
  <1> HIDE DEF n, m
  <1>9. \A i, j \in DOMAIN up' :
          i < j /\ IsFrame(up'[i]) /\ IsFrame(up'[j]) => Before(up'[i], up'[j])
    BY <1>1, <1>6 DEF HeardInOrder
  <1>10. \A i \in DOMAIN up', j \in DOMAIN c'.frames :
           IsFrame(up'[i]) => Before(up'[i], c'.frames[j])
    BY <1>1, <1>3, <1>6 DEF HeardInOrder
  <1>11. \A i, j \in DOMAIN c'.frames : i < j => Before(c'.frames[i], c'.frames[j])
    <2> TAKE i, j \in DOMAIN c'.frames
    <2> HAVE i < j
    <2>1. i \in DOMAIN c.frames /\ c'.frames[i] = c.frames[i]
      BY <1>3
    <2>2. CASE j \in DOMAIN c.frames /\ c'.frames[j] = c.frames[j]
      BY <1>1, <2>1, <2>2 DEF HeardInOrder
    <2>3. CASE Locked(c) /\ c'.frames[j] = c.held
      BY <1>1, <2>1, <2>3 DEF FramesSound
    <2> QED
      BY <1>3, <2>2, <2>3
  <1>12. s'.open =>
           /\ \A i \in DOMAIN up' : IsFrame(up'[i]) => ~Before(up'[i], s'.next)
           /\ \A j \in DOMAIN c'.frames : ~Before(c'.frames[j], s'.next)
    <2>1. CASE s.open /\ s'.next = s.next
      <3>1. \A i \in DOMAIN up' : IsFrame(up'[i]) => ~Before(up'[i], s.next)
        BY <1>1, <1>6, <2>1 DEF HeardInOrder
      <3>2. \A j \in DOMAIN c'.frames : ~Before(c'.frames[j], s.next)
        BY <1>1, <1>3, <2>1 DEF HeardInOrder, FramesSound
      <3> QED
        BY <2>1, <3>1, <3>2
    <2>2. CASE s'.next = NoFrame
      BY <1>6, <1>7, <1>8, <2>2
    <2> QED
      BY <2>1, <2>2
  <1>13. s'.open => s'.next.turn <= c'.turn
    <2>1. NoFrame.turn = 0
      BY DEF NoFrame
    <2>2. s.open => s.next.turn <= c.turn
      BY <1>1 DEF FramesSound
    <2> QED
      BY <1>3, <1>4, <1>5, <2>1, <2>2 DEF Stamped
  <1>14. ASSUME Locked(c')
         PROVE  /\ \A i \in DOMAIN up' : IsFrame(up'[i]) => Before(up'[i], c'.held)
                /\ \A j \in DOMAIN c'.frames : Before(c'.frames[j], c'.held)
                /\ s'.open => ~Before(c'.held, s'.next)
                /\ c'.held.turn <= c'.turn
    <2>1. CASE /\ c'.held = c.held /\ Locked(c) /\ c'.turn = c.turn
               /\ \A j \in DOMAIN c'.frames :
                    j \in DOMAIN c.frames /\ c'.frames[j] = c.frames[j]
      <3>1. /\ \A j \in DOMAIN c.frames : Before(c.frames[j], c.held)
            /\ s.open => ~Before(c.held, s.next)
            /\ c.held.turn <= c.turn
        BY <1>1, <2>1 DEF FramesSound
      <3>2. \A i \in DOMAIN up' : IsFrame(up'[i]) => Before(up'[i], c'.held)
        BY <1>6, <2>1
      <3> QED
        BY <1>4, <1>8, <2>1, <3>1, <3>2
    <2>2. CASE ~NotYet(c) /\ Makes(c, c')
      <3>1. c'.held = n /\ c'.frames = c.frames /\ c'.turn = c.turn /\ n.turn = c.turn
        BY <1>2, <2>2 DEF Makes
      <3>2. \A j \in DOMAIN c.frames : Before(c.frames[j], n)
        <4>1. \A j \in DOMAIN c.frames : c.frames[j].turn = c.turn /\ c.frames[j].seq < c.seq
          BY <1>1, <2>2 DEF HeardInOrder, FramesSound, Unsettled, NotYet
        <4> QED
          BY <1>2, <4>1 DEF Before
      <3>3. s.open => ~Before(n, s.next)
        BY <1>1, <2>2 DEF FramesSound, Unsettled, NotYet, n
      <3>4. \A i \in DOMAIN up' : IsFrame(up'[i]) => Before(up'[i], n)
        BY <1>6, <2>2
      <3> QED
        BY <1>4, <1>5, <1>8, <3>1, <3>2, <3>3, <3>4
    <2> QED
      BY <1>1, <1>14, <2>1, <2>2, HeldIs
  <1>15. ASSUME ~NotYet(c')
         PROVE  /\ \A i \in DOMAIN up' : IsFrame(up'[i]) => Before(up'[i], m)
                /\ \A j \in DOMAIN c'.frames :
                     c'.frames[j].turn = c'.turn /\ c'.frames[j].seq < c'.seq
                /\ Locked(c') => c'.held.turn = c'.turn /\ c'.held.seq < c'.seq
                /\ s'.open => ~Before(m, s'.next)
    <2>1. CASE Begins(c, c')
      <3>1. c'.turn > c.turn /\ c'.frames = <<>> /\ ~Locked(c')
        BY <2>1 DEF Begins
      <3>2. DOMAIN c'.frames = {}
        BY <3>1
      <3>3. \A e : Stamped(e) /\ e.turn <= c.turn => Before(e, m)
        BY <1>5, <3>1 DEF Before, Stamped, m
      <3>4. \A i \in DOMAIN up' : IsFrame(up'[i]) => Before(up'[i], m)
        BY <1>6, <3>3
      <3>5. s'.open => ~Before(m, s'.next)
        <4>1. CASE s.open /\ s'.next = s.next
          <5>1. Before(s.next, m)
            BY <1>1, <1>4, <3>3, <4>1 DEF FramesSound
          <5> QED
            BY <1>4, <1>5, <4>1, <5>1, BeforeOrders
        <4>2. CASE s'.next = NoFrame
          BY <1>5, <1>8, <4>2
        <4> QED
          BY <4>1, <4>2
      <3> QED
        BY <3>1, <3>2, <3>4, <3>5
    <2>2. CASE ~Begins(c, c')
      <3>1. ~NotYet(c) /\ c'.turn = c.turn /\ c'.seq \in {c.seq, c.seq + 1}
        BY <1>15, <2>2 DEF Queues, Leaves, Makes, Puts
      <3>2. /\ \A j \in DOMAIN c.frames : c.frames[j].turn = c.turn /\ c.frames[j].seq < c.seq
            /\ Locked(c) => c.held.turn = c.turn /\ c.held.seq < c.seq
            /\ s.open => ~Before(n, s.next)
        BY <1>1, <3>1 DEF HeardInOrder, FramesSound, Unsettled, NotYet, n
      <3>3. c.seq <= c'.seq /\ ~Before(m, n)
        BY <1>2, <1>5, <3>1 DEF Before, m
      <3>4. \A j \in DOMAIN c'.frames :
              c'.frames[j].turn = c'.turn /\ c'.frames[j].seq < c'.seq
        <4> TAKE j \in DOMAIN c'.frames
        <4>1. c'.frames[j].turn = c.turn /\ c'.frames[j].seq < c.seq
          BY <1>3, <3>2
        <4> QED
          BY <1>5, <1>7, <3>1, <3>3, <4>1 DEF Stamped
      <3>5. Locked(c') => c'.held.turn = c'.turn /\ c'.held.seq < c'.seq
        <4> SUFFICES ASSUME Locked(c')
                     PROVE  c'.held.turn = c'.turn /\ c'.held.seq < c'.seq
          OBVIOUS
        <4>1. CASE c'.held = c.held /\ Locked(c)
          BY <1>4, <1>5, <3>1, <3>2, <3>3, <4>1 DEF Stamped
        <4>2. CASE Makes(c, c')
          <5>1. c'.held.turn = c.turn /\ c'.held.seq = c.seq /\ c'.seq = c.seq + 1
            BY <4>2 DEF Makes
          <5> QED
            BY <1>5, <3>1, <5>1
        <4> QED
          BY <1>1, <4>1, <4>2, HeldIs
      <3>6. \A i \in DOMAIN up' : IsFrame(up'[i]) => Before(up'[i], m)
        BY <1>4, <1>5, <1>6, <3>1, <3>3, BeforeOrders
      <3>7. s'.open => ~Before(m, s'.next)
        BY <1>4, <1>5, <1>8, <3>2, <3>3, BeforeOrders
      <3> QED
        BY <3>4, <3>5, <3>6, <3>7
    <2> QED
      BY <2>1, <2>2
  <1>16. c'.held.turn <= c'.turn
    <2>1. CASE Locked(c')
      BY <1>14, <2>1
    <2>2. CASE ~Locked(c')
      BY <1>5, <2>2 DEF Locked
    <2> QED
      BY <2>1, <2>2
  <1>17. Unsettled' = NotYet(c')
    BY DEF Unsettled, NotYet
  <1>18. HeardInOrder'
    BY <1>9, <1>10, <1>11, <1>12, <1>15, <1>17 DEF HeardInOrder
  <1>19. /\ \A i \in DOMAIN up' : IsFrame(up'[i]) => up'[i].turn <= c'.turn
         /\ \A j \in DOMAIN c'.frames : c'.frames[j].turn <= c'.turn
    BY <1>3, <1>5, <1>6, <1>7 DEF Stamped
  <1>20. FramesSound'
    BY <1>2, <1>13, <1>14, <1>15, <1>16, <1>17, <1>19 DEF FramesSound
  <1> QED
    BY <1>18, <1>20

\* sendLoop: the frame that is sent comes before those that stay.
LEMMA SendKeepsOrder ==
  ASSUME IndInv, c' \in Client, UNCHANGED s, c'.turn = c.turn, c'.seq = c.seq,
         c'.held = c.held, c'.m = c.m,
         c.frames # <<>>, c'.frames = Tail(c.frames),
         up' = Append(up, [type |-> "AUDIO_FRAME", turn |-> c.frames[1].turn,
                           seq |-> c.frames[1].seq])
  PROVE  HeardInOrder' /\ FramesSound'
  <1>1. /\ TypeOK /\ c \in Client /\ HeardInOrder /\ FramesSound /\ up \in Seq(UpEvent)
        /\ c.frames \in Seq(Frame)
    BY Typed DEF IndInv, TypeOK
  <1> DEFINE f == c.frames[1]
             g == [type |-> "AUDIO_FRAME", turn |-> f.turn, seq |-> f.seq]
  <1>2. 1 \in DOMAIN c.frames
    BY <1>1
  <1>3. /\ DOMAIN up' = DOMAIN up \cup {Len(up) + 1}
        /\ \A i \in DOMAIN up : up'[i] = up[i] /\ i < Len(up) + 1
        /\ up'[Len(up) + 1] = g
        /\ \A i, j \in DOMAIN up' : i < j => i \in DOMAIN up
    BY <1>1, AppendIs
  <1>4. /\ \A j \in DOMAIN c'.frames :
             j + 1 \in DOMAIN c.frames /\ 1 < j + 1 /\ c'.frames[j] = c.frames[j + 1]
        /\ \A i, j \in DOMAIN c'.frames : i < j => i + 1 < j + 1
    BY <1>1
  <1>5. \A e : (Before(g, e) <=> Before(f, e)) /\ (Before(e, g) <=> Before(e, f))
    BY DEF Before
  <1>6. /\ NextFrame' = NextFrame /\ Unsettled' = Unsettled
        /\ Locked(c') = Locked(c) /\ c'.held = c.held
    BY DEF NextFrame, Unsettled, Locked
  <1>7. f.turn <= c.turn /\ (~Unsettled => f.turn = c.turn /\ f.seq < c.seq)
    BY <1>1, <1>2 DEF HeardInOrder, FramesSound
  <1>8. ~Unsettled => Before(f, NextFrame)
    BY <1>7 DEF Before, NextFrame
  <1>9. \A i, j \in DOMAIN up' :
          i < j /\ IsFrame(up'[i]) /\ IsFrame(up'[j]) => Before(up'[i], up'[j])
    <2> TAKE i, j \in DOMAIN up'
    <2> HAVE i < j /\ IsFrame(up'[i]) /\ IsFrame(up'[j])
    <2>1. i \in DOMAIN up /\ up'[i] = up[i]
      BY <1>3
    <2>2. CASE j \in DOMAIN up /\ up'[j] = up[j]
      BY <1>1, <2>1, <2>2 DEF HeardInOrder
    <2>3. CASE up'[j] = g
      BY <1>1, <1>2, <1>5, <2>1, <2>3 DEF HeardInOrder
    <2> QED
      BY <1>3, <2>2, <2>3
  <1>10. \A i \in DOMAIN up', j \in DOMAIN c'.frames :
           IsFrame(up'[i]) => Before(up'[i], c'.frames[j])
    <2> TAKE i \in DOMAIN up', j \in DOMAIN c'.frames
    <2> HAVE IsFrame(up'[i])
    <2>1. CASE i \in DOMAIN up /\ up'[i] = up[i]
      BY <1>1, <1>4, <2>1 DEF HeardInOrder
    <2>2. CASE up'[i] = g
      BY <1>1, <1>2, <1>4, <1>5, <2>2 DEF HeardInOrder
    <2> QED
      BY <1>3, <2>1, <2>2
  <1>11. \A i, j \in DOMAIN c'.frames : i < j => Before(c'.frames[i], c'.frames[j])
    BY <1>1, <1>4 DEF HeardInOrder
  <1>12. s'.open =>
           /\ \A i \in DOMAIN up' : IsFrame(up'[i]) => ~Before(up'[i], s'.next)
           /\ \A j \in DOMAIN c'.frames : ~Before(c'.frames[j], s'.next)
    BY <1>1, <1>2, <1>3, <1>4, <1>5 DEF HeardInOrder
  <1>13. /\ \A j \in DOMAIN c'.frames : c'.frames[j].turn <= c'.turn
         /\ ~Unsettled => \A j \in DOMAIN c'.frames :
              c'.frames[j].turn = c'.turn /\ c'.frames[j].seq < c'.seq
    BY <1>1, <1>4 DEF HeardInOrder, FramesSound
  <1>14. /\ \A i \in DOMAIN up' : IsFrame(up'[i]) => up'[i].turn <= c'.turn
         /\ ~Unsettled => \A i \in DOMAIN up' : IsFrame(up'[i]) => Before(up'[i], NextFrame)
    BY <1>1, <1>3, <1>5, <1>7, <1>8 DEF FramesSound
  <1>15. /\ c'.held.turn <= c'.turn
         /\ s'.open => s'.next.turn <= c'.turn
         /\ ~Unsettled => /\ Locked(c) => c'.held.turn = c'.turn /\ c'.held.seq < c'.seq
                          /\ s'.open => ~Before(NextFrame, s'.next)
    BY <1>1, <1>6 DEF FramesSound
  <1>15a. ASSUME Locked(c)
          PROVE  /\ \A i \in DOMAIN up' : IsFrame(up'[i]) => Before(up'[i], c.held)
                 /\ \A j \in DOMAIN c'.frames : Before(c'.frames[j], c.held)
                 /\ s'.open => ~Before(c.held, s'.next)
    <2>1. Before(f, c.held)
      BY <1>1, <1>2, <1>15a DEF FramesSound
    <2>2. \A i \in DOMAIN up' : IsFrame(up'[i]) => Before(up'[i], c.held)
      BY <1>1, <1>3, <1>5, <1>15a, <2>1 DEF FramesSound
    <2> QED
      BY <1>1, <1>4, <1>15a, <2>2 DEF FramesSound
  <1>16. HeardInOrder'
    BY <1>6, <1>9, <1>10, <1>11, <1>12, <1>13 DEF HeardInOrder
  <1>17. FramesSound'
    BY <1>6, <1>13, <1>14, <1>15, <1>15a DEF FramesSound
  <1> QED
    BY <1>16, <1>17

\* The server takes the first event and, if it is a frame, expects the one
\* after it at the earliest.
LEMMA ServeKeepsOrder ==
  ASSUME IndInv, UNCHANGED c, up # <<>>, up' = Tail(up),
         s'.open => /\ s.open
                    /\ \/ s'.next = s.next
                       \/ /\ IsFrame(Head(up))
                          /\ s'.next = [turn |-> Head(up).turn, seq |-> Head(up).seq + 1]
  PROVE  HeardInOrder' /\ FramesSound'
  <1>1. TypeOK /\ HeardInOrder /\ FramesSound /\ up \in Seq(UpEvent)
    BY DEF IndInv, TypeOK
  <1> DEFINE e == Head(up)
  <1>2. 1 \in DOMAIN up /\ e = up[1]
    BY <1>1
  <1>3. /\ \A i \in DOMAIN up' : i + 1 \in DOMAIN up /\ 1 < i + 1 /\ up'[i] = up[i + 1]
        /\ \A i, j \in DOMAIN up' : i < j => i + 1 < j + 1
    BY <1>1
  <1>4. NextFrame' = NextFrame /\ Unsettled' = Unsettled
    BY DEF NextFrame, Unsettled
  <1>5. /\ \A i \in DOMAIN up : IsFrame(up[i]) => Stamped(up[i])
        /\ \A j \in DOMAIN c.frames : Stamped(c.frames[j])
        /\ Stamped(NextFrame) /\ Stamped(c.held)
    BY <1>1, FramesAreStamped
  <1> HIDE DEF e
  <1>6. \A i, j \in DOMAIN up' :
          i < j /\ IsFrame(up'[i]) /\ IsFrame(up'[j]) => Before(up'[i], up'[j])
    BY <1>1, <1>3 DEF HeardInOrder
  <1>7. \A i \in DOMAIN up', j \in DOMAIN c.frames :
          IsFrame(up'[i]) => Before(up'[i], c.frames[j])
    BY <1>1, <1>3 DEF HeardInOrder
  <1>8. \A i \in DOMAIN up' : IsFrame(up'[i]) =>
          /\ up'[i].turn <= c.turn
          /\ Locked(c) => Before(up'[i], c.held)
          /\ ~Unsettled => Before(up'[i], NextFrame)
    BY <1>1, <1>3 DEF FramesSound
  <1>9. ASSUME s'.open
        PROVE  /\ \A i \in DOMAIN up' : IsFrame(up'[i]) => ~Before(up'[i], s'.next)
               /\ \A j \in DOMAIN c.frames : ~Before(c.frames[j], s'.next)
               /\ s'.next.turn <= c.turn
               /\ Locked(c) => ~Before(c.held, s'.next)
               /\ ~Unsettled => ~Before(NextFrame, s'.next)
    <2>1. CASE s'.next = s.next
      BY <1>1, <1>3, <1>9, <2>1 DEF HeardInOrder, FramesSound
    <2>2. CASE IsFrame(e) /\ s'.next = [turn |-> e.turn, seq |-> e.seq + 1]
      <3>1. Stamped(e)
        BY <1>2, <1>5, <2>2
      <3>2. \A f : Stamped(f) /\ Before(e, f) => ~Before(f, s'.next)
        BY <2>2, <3>1 DEF Before, Stamped
      <3>3. /\ \A i \in DOMAIN up' :
                 IsFrame(up'[i]) => Before(e, up'[i]) /\ Stamped(up'[i])
            /\ \A j \in DOMAIN c.frames : Before(e, c.frames[j])
            /\ e.turn <= c.turn
            /\ Locked(c) => Before(e, c.held)
            /\ ~Unsettled => Before(e, NextFrame)
        BY <1>1, <1>2, <1>3, <1>5, <2>2 DEF HeardInOrder, FramesSound
      <3>4. s'.next.turn <= c.turn
        BY <2>2, <3>3
      <3> QED
        BY <1>5, <3>2, <3>3, <3>4
    <2> QED
      BY <1>9, <2>1, <2>2 DEF e
  <1>10. HeardInOrder'
    BY <1>1, <1>4, <1>6, <1>7, <1>9 DEF HeardInOrder
  <1>11. FramesSound'
    BY <1>1, <1>4, <1>8, <1>9 DEF FramesSound
  <1> QED
    BY <1>10, <1>11

-----------------------------------------------------------------------------
(* The wires.                                                              *)

\* What a server says of a session that nobody has ended.
Unended == {e \in DownEvent : ~(e.type = "SESSION_STATE" /\ e.state = "ENDED")}

\* The same of a whole sequence of events.
LEMMA UnendedIs ==
  ASSUME NEW d \in Seq(DownEvent)
  PROVE  (\A i \in DOMAIN d : ~(d[i].type = "SESSION_STATE" /\ d[i].state = "ENDED"))
           <=> d \in Seq(Unended)
  BY DEF Unended

\* The events a server may send.
LEMMA Events ==
  ASSUME NEW turn \in Nat
  PROVE  /\ [type |-> "PARTIAL", turn |-> turn] \in Unended
         /\ [type |-> "TURN_INTERRUPTED", turn |-> turn] \in Unended
         /\ Heard(turn) \in Seq(Unended)
         /\ \A t \in {"LISTENING", "SPEAKING"} : State(t) \in Seq(Unended)
         /\ Reply(turn) \in Seq(Unended)
         /\ [type |-> "ERROR"] \in Unended
         /\ State("ENDED") \in Seq(DownEvent)
  <1>1. /\ [type |-> "PARTIAL", turn |-> turn] \in Unended
        /\ [type |-> "TURN_INTERRUPTED", turn |-> turn] \in Unended
        /\ [type |-> "FINAL", turn |-> turn] \in Unended
        /\ [type |-> "ASSISTANT_TEXT", turn |-> turn] \in Unended
        /\ [type |-> "ERROR"] \in Unended
    BY DEF Unended, DownEvent
  <1>2. /\ \A t \in {"LISTENING", "SPEAKING"} :
             [type |-> "SESSION_STATE", state |-> t] \in Unended
        /\ [type |-> "SESSION_STATE", state |-> "ENDED"] \in DownEvent
    BY DEF Unended, DownEvent
  <1>3. Heard(turn) \in Seq(Unended)
    BY <1>1 DEF Heard
  <1>4. /\ \A t \in {"LISTENING", "SPEAKING"} : State(t) \in Seq(Unended)
        /\ State("ENDED") \in Seq(DownEvent)
    BY <1>2 DEF State
  <1> DEFINE Chunk(i) == [type |-> "ASSISTANT_AUDIO", turn |-> turn,
                          seq |-> i - 1, last |-> i = Chunks]
             audio == [i \in 1..Chunks |-> Chunk(i)]
  <1>5. Chunks \in Nat
    BY BoundsAssumption
  <1>6. \A i \in 1..Chunks : Chunk(i) \in Unended
    <2> TAKE i \in 1..Chunks
    <2>1. i - 1 \in Nat /\ (i = Chunks) \in BOOLEAN
      BY <1>5
    <2>2. Chunk(i) \in [type : {"ASSISTANT_AUDIO"}, turn : Nat, seq : Nat, last : BOOLEAN]
      BY <2>1
    <2>3. Chunk(i) \in DownEvent
      BY <2>2 DEF DownEvent
    <2> QED
      BY <2>3 DEF Unended
  <1>7. audio \in Seq(Unended)
    <2> HIDE DEF Chunk
    <2> QED
      BY <1>5, <1>6
  <1>8. Reply(turn) = Heard(turn) \o State("SPEAKING") \o audio
    BY DEF Reply
  <1> HIDE DEF audio
  <1>9. Reply(turn) \in Seq(Unended)
    BY <1>3, <1>4, <1>7, <1>8
  <1> QED
    BY <1>1, <1>3, <1>4, <1>9

\* What the server may do to its own state.
LEMMA ServerUpdates ==
  ASSUME s \in Server
  PROVE  /\ [s EXCEPT !.open = FALSE] \in Server
         /\ \A t \in States : [s EXCEPT !.open = FALSE, !.state = t] \in Server
         /\ \A t \in States : [s EXCEPT !.state = t, !.open = FALSE] \in Server
         /\ \A t \in States : [s EXCEPT !.state = t, !.speaking = 0] \in Server
         /\ \A n \in Frame : [s EXCEPT !.next = n] \in Server
         /\ \A n \in Frame, m \in Nat :
              [[s EXCEPT !.next = n] EXCEPT !.state = "SPEAKING", !.speaking = m,
                                            !.final = m] \in Server
  <1>1. /\ [s EXCEPT !.open = FALSE] \in Server
        /\ \A t \in States : [s EXCEPT !.open = FALSE, !.state = t] \in Server
        /\ \A t \in States : [s EXCEPT !.state = t, !.open = FALSE] \in Server
    BY DEF Server
  <1>2. /\ \A t \in States : [s EXCEPT !.state = t, !.speaking = 0] \in Server
        /\ \A n \in Frame : [s EXCEPT !.next = n] \in Server
    BY DEF Server
  <1>3. \A r \in Server, m \in Nat :
          [r EXCEPT !.state = "SPEAKING", !.speaking = m, !.final = m] \in Server
    BY DEF Server, States
  <1> QED
    BY <1>1, <1>2, <1>3

\* _audio: the server stays itself, and says nothing of an end.
LEMMA HearFrameIs ==
  ASSUME s \in Server, s.open, s.state \in {"LISTENING", "SPEAKING"},
         NEW e, e.turn \in Nat, e.seq \in Nat, HearFrame(e),
         NEW D, Unended \subseteq D, down \in Seq(D)
  PROVE  /\ s' \in Server /\ down' \in Seq(D)
         /\ s'.open => /\ s'.state \in {"LISTENING", "SPEAKING"}
                       /\ s'.next \in {s.next, [turn |-> e.turn, seq |-> e.seq + 1]}
  <1> DEFINE n == [turn |-> e.turn, seq |-> e.seq + 1]
             h == [s EXCEPT !.next = n]
  <1>1. n \in Frame
    BY DEF Frame
  <1>1a. {"RECONNECTING", "FAILED"} \subseteq States
    BY DEF States, Terminal
  <1>2. \/ Rejects
        \/ GivesUp
        \/ s' = h /\ UNCHANGED down
        \/ s' = h /\ down' = Append(down, [type |-> "PARTIAL", turn |-> e.turn])
        \/ /\ s' = [h EXCEPT !.state = "SPEAKING", !.speaking = e.turn, !.final = e.turn]
           /\ down' = down \o Reply(e.turn)
        \/ s' = h /\ down' = down \o Heard(e.turn) \o State(s.state)
    BY DEF HearFrame
  <1> HIDE DEF n
  <1>3. h \in Server /\ h.open = s.open /\ h.state = s.state /\ h.next = n
    <2>1. h \in Server
      BY <1>1, ServerUpdates
    <2> QED
      BY <2>1 DEF Server
  <1>4. CASE Rejects
    <2>1. s' \in Server /\ ~s'.open
      <3>1. s' = [s EXCEPT !.open = FALSE, !.state = "RECONNECTING"]
        BY <1>4 DEF Rejects
      <3>2. s' \in Server
        BY <1>1a, <3>1, ServerUpdates
      <3> QED
        BY <3>1, <3>2 DEF Server
    <2>2. down' = Append(down, [type |-> "ERROR"])
      BY <1>4 DEF Rejects
    <2>3. [type |-> "ERROR"] \in D
      BY Events
    <2> QED
      BY <2>1, <2>2, <2>3
  <1>5. CASE GivesUp
    <2>1. s' = [s EXCEPT !.open = FALSE, !.state = "FAILED"] /\ down' = down
      BY <1>5 DEF GivesUp
    <2>2. s' \in Server
      BY <1>1a, <2>1, ServerUpdates
    <2>3. ~s'.open
      BY <2>1 DEF Server
    <2> QED
      BY <2>1, <2>2, <2>3
  <1>6. CASE s' = h /\ UNCHANGED down
    BY <1>3, <1>6 DEF n
  <1>7. CASE s' = h /\ down' = Append(down, [type |-> "PARTIAL", turn |-> e.turn])
    <2>1. [type |-> "PARTIAL", turn |-> e.turn] \in D
      BY Events
    <2> QED
      BY <1>3, <1>7, <2>1 DEF n
  <1>8. CASE /\ s' = [h EXCEPT !.state = "SPEAKING", !.speaking = e.turn, !.final = e.turn]
             /\ down' = down \o Reply(e.turn)
    <2>1. s' \in Server
      BY <1>1, <1>8, ServerUpdates
    <2>2. s'.state = "SPEAKING" /\ s'.next = n
      BY <1>3, <1>8 DEF Server
    <2>3. Reply(e.turn) \in Seq(Unended)
      BY Events
    <2>4. Reply(e.turn) \in Seq(D)
      BY <2>3
    <2>5. down' \in Seq(D)
      BY <1>8, <2>4
    <2> QED
      BY <2>1, <2>2, <2>5 DEF n
  <1>9. CASE s' = h /\ down' = down \o Heard(e.turn) \o State(s.state)
    <2>1. Heard(e.turn) \in Seq(Unended) /\ State(s.state) \in Seq(Unended)
      BY Events
    <2>2. Heard(e.turn) \in Seq(D) /\ State(s.state) \in Seq(D)
      BY <2>1
    <2>3. down' \in Seq(D)
      BY <1>9, <2>2
    <2> QED
      BY <1>3, <1>9, <2>3 DEF n
  <1> QED
    BY <1>2, <1>4, <1>5, <1>6, <1>7, <1>8, <1>9

-----------------------------------------------------------------------------
(* The invariant.                                                          *)

\* The parts of the invariant that a step which only moves the controller can
\* disturb.
LEMMA SteadyStep ==
  ASSUME IndInv, Steady(c, c'), UNCHANGED <<s, up, down>>, starts' \in Nat
  PROVE  IndInv'
  <1>1. UNCHANGED s /\ UNCHANGED up /\ UNCHANGED down
    OBVIOUS
  <1>2. Well(c, c') /\ Queues(c, c')
    BY DEF Steady
  <1>3. c' \in Client /\ SoundClient(c')
    BY <1>2 DEF Well
  <1>4. TypeOK'
    BY <1>1, <1>3 DEF IndInv, TypeOK
  <1>5. WireSound'
    <2>1. s.open \/ down # <<>> => /\ c'.job = "live" \/ c'.stage = "stopping"
                                   /\ c.ending => c'.ending
      BY DEF IndInv, WireSound, Steady
    <2>2. \A i \in DOMAIN down : down # <<>>
      BY DEF IndInv, TypeOK
    <2>3. /\ s.open => s.state \in {"LISTENING", "SPEAKING"}
          /\ \A i \in DOMAIN down :
               down[i].type = "SESSION_STATE" /\ down[i].state = "ENDED" => c.ending
          /\ s.open => \A i \in DOMAIN up : up[i].type = "END_SESSION" => c.ending
      BY DEF IndInv, WireSound
    <2>4. c'.job = "none" /\ c'.stage # "stopping" => up = <<>>
      BY DEF IndInv, WireSound, Steady
    <2> QED
      BY <1>1, <2>1, <2>2, <2>3, <2>4 DEF WireSound
  <1>6. HeardInOrder' /\ FramesSound'
    BY <1>1, <1>2, <1>3, QueuesKeepsOrder
  <1> QED
    BY <1>3, <1>4, <1>5, <1>6 DEF IndInv

\* start: there is no connection, nothing is under way, and what a late reader
\* left in the queue stays in order.
LEMMA StartKeeps ==
  ASSUME IndInv, Start
  PROVE  IndInv' /\ Passes(c, c')
  <1>1. /\ c \in Client /\ SoundClient(c) /\ WireSound /\ TypeOK
        /\ HeardInOrder /\ FramesSound
    BY DEF IndInv, TypeOK
  <1>2. UNCHANGED s /\ UNCHANGED up /\ UNCHANGED down /\ starts' \in Nat
    BY <1>1 DEF Start, TypeOK
  <1>3. /\ Well(c, c') /\ c'.m = "CONNECTING" /\ c'.job = "starting"
        /\ c'.turn = c.turn + 1 /\ c'.frames = c.frames /\ c'.held.turn <= c'.turn
        /\ c'.frames = <<>> \/ ~Locked(c')
        /\ c.job = "none" /\ c.stage = "none"
    BY <1>1, StartIsWell DEF FramesSound
  <1>4. c' \in Client /\ SoundClient(c') /\ Passes(c, c')
    BY <1>3 DEF Well
  <1>5. ~s.open /\ down = <<>> /\ up = <<>>
    BY <1>1, <1>3 DEF WireSound
  <1>6. DOMAIN up = {} /\ DOMAIN down = {} /\ (c'.frames = <<>> => DOMAIN c'.frames = {})
    BY <1>5
  <1>7. TypeOK'
    BY <1>1, <1>2, <1>4 DEF TypeOK
  <1>8. WireSound'
    BY <1>2, <1>3, <1>5, <1>6 DEF WireSound
  <1>9. Unsettled'
    BY <1>3 DEF Unsettled
  <1>10. HeardInOrder'
    BY <1>1, <1>2, <1>3, <1>5, <1>6, <1>9 DEF HeardInOrder
  <1>11. \A j \in DOMAIN c'.frames : c'.frames[j].turn <= c'.turn
    <2> TAKE j \in DOMAIN c'.frames
    <2>1. c.frames[j].turn <= c.turn /\ Stamped(c.frames[j])
      BY <1>1, <1>3, FramesAreStamped DEF FramesSound
    <2> QED
      BY <1>1, <1>3, <2>1, Typed DEF Stamped
  <1>12. FramesSound'
    BY <1>2, <1>3, <1>5, <1>6, <1>9, <1>11 DEF FramesSound
  <1> QED
    BY <1>4, <1>7, <1>8, <1>10, <1>12 DEF IndInv

\* end: the server is told of it only while its connection is there.
LEMMA EndKeeps ==
  ASSUME IndInv, End
  PROVE  IndInv' /\ Passes(c, c')
  <1>1. c \in Client /\ SoundClient(c) /\ up \in Seq(UpEvent) /\ WireSound
    BY DEF IndInv, TypeOK
  <1>2. UNCHANGED s /\ UNCHANGED down /\ UNCHANGED starts
    BY DEF End
  <1>3. /\ Sole(c, c') /\ c'.ending /\ c'.job = c.job
        /\ c.job # "none" => c'.stage = "stopping"
        /\ c.stage = "none"
    BY <1>1, EndIsSole
  <1>4. c' \in Client /\ SoundClient(c') /\ Queues(c, c') /\ Passes(c, c')
    BY <1>3 DEF Sole, Well
  <1>5. up' = up \/ up' = Append(up, [type |-> "END_SESSION"])
    BY DEF End
  <1>6. [type |-> "END_SESSION"] \in UpEvent
    BY DEF UpEvent
  <1>7. TypeOK'
    <2>1. up' \in Seq(UpEvent)
      BY <1>1, <1>5, <1>6
    <2> QED
      BY <1>2, <1>4, <2>1 DEF IndInv, TypeOK
  <1>8. WireSound'
    <2>1. c'.job = "none" /\ c'.stage # "stopping" => up' = <<>>
      <3>1. CASE c.job = "none"
        BY <1>1, <1>3, <3>1 DEF End, WireSound
      <3>2. CASE c.job # "none"
        BY <1>3, <3>2
      <3> QED
        BY <3>1, <3>2
    <2> QED
      BY <1>1, <1>2, <1>3, <2>1 DEF WireSound
  <1>9. \A i \in DOMAIN up' : IsFrame(up'[i]) => i \in DOMAIN up /\ up'[i] = up[i]
    <2>1. CASE up' = up
      BY <2>1
    <2>2. CASE up' = Append(up, [type |-> "END_SESSION"])
      BY <1>1, <1>6, <2>2, AppendIs DEF IsFrame
    <2> QED
      BY <1>5, <2>1, <2>2
  <1>10. HeardInOrder' /\ FramesSound'
    BY <1>2, <1>4, <1>9, QueuesKeepsOrder
  <1> QED
    BY <1>4, <1>7, <1>8, <1>10 DEF IndInv

\* A coordinator before its connection is opened.
LEMMA NewServerIs ==
  /\ NewServer \in Server /\ ~NewServer.open
  /\ NewServer.next = NoFrame
  <1>1. NewServer \in Server
    BY DEF NewServer, Server, Frame, States, NoFrame
  <1> QED
    BY <1>1 DEF NewServer

\* No connection is there before the session is accepted.
LEMMA StartAnsweredKeeps ==
  ASSUME IndInv, StartAnswered
  PROVE  IndInv' /\ Passes(c, c')
  <1>1. c \in Client /\ SoundClient(c) /\ WireSound /\ TypeOK
    BY DEF IndInv, TypeOK
  <1>2. UNCHANGED up /\ UNCHANGED down /\ UNCHANGED starts
    BY DEF StartAnswered
  <1>3. /\ Sole(c, c') /\ c.job = "starting" /\ c.stage = "none"
        /\ c'.job # "none" \/ c'.stage = "stopping"
    BY <1>1, StartAnsweredIsSole
  <1>4. c' \in Client /\ SoundClient(c') /\ Queues(c, c') /\ Passes(c, c')
    BY <1>3 DEF Sole, Well
  <1>5. ~s.open /\ down = <<>>
    BY <1>1, <1>3 DEF WireSound
  <1>6. s' \in Server /\ ~s'.open
    <2>1. s' = NewServer \/ s' = s
      BY DEF StartAnswered
    <2> QED
      BY <1>1, <1>5, <2>1, NewServerIs DEF TypeOK
  <1>7. TypeOK'
    BY <1>1, <1>2, <1>4, <1>6 DEF TypeOK
  <1>8. WireSound'
    BY <1>2, <1>3, <1>5, <1>6 DEF WireSound
  <1>9. HeardInOrder' /\ FramesSound'
    BY <1>2, <1>4, <1>6, QueuesKeepsOrder
  <1> QED
    BY <1>4, <1>7, <1>8, <1>9 DEF IndInv

\* A new connection carries nothing but its greeting.
LEMMA ConnectKeeps ==
  ASSUME IndInv, Connect
  PROVE  IndInv' /\ Passes(c, c')
  <1>1. c \in Client /\ SoundClient(c) /\ WireSound /\ TypeOK /\ s \in Server
    BY DEF IndInv, TypeOK
  <1>2. up' = <<>> /\ UNCHANGED starts
    BY DEF Connect
  <1>3. /\ Sole(c, c') /\ c.job = "connecting" /\ c.stage = "none"
        /\ s'.open # s.open \/ down' # down => c'.job = "live"
    BY <1>1, ConnectIsSole
  <1>4. c' \in Client /\ SoundClient(c') /\ Queues(c, c') /\ Passes(c, c')
    BY <1>3 DEF Sole, Well
  <1>5. ~s.open /\ down = <<>>
    BY <1>1, <1>3 DEF WireSound
  <1>6. \A i \in DOMAIN up' : FALSE
    <2>1. DOMAIN <<>> = {}
      OBVIOUS
    <2> QED
      BY <1>2, <2>1
  <1>7. \/ /\ s' = [NewServer EXCEPT !.open = TRUE, !.state = "LISTENING", !.final = s.final]
           /\ down' = <<[type |-> "SESSION_STATE", state |-> "LISTENING"]>>
        \/ UNCHANGED s /\ UNCHANGED down
    BY DEF Connect
  <1>8. CASE /\ s' = [NewServer EXCEPT !.open = TRUE, !.state = "LISTENING", !.final = s.final]
             /\ down' = <<[type |-> "SESSION_STATE", state |-> "LISTENING"]>>
    <2>1. s.final \in Nat
      BY <1>1 DEF Server
    <2>2. s' \in Server
      BY <1>8, <2>1, NewServerIs DEF Server, States
    <2>3. s'.open /\ s'.state = "LISTENING" /\ s'.next = NoFrame
      BY <1>8, NewServerIs DEF Server
    <2>4. c'.job = "live"
      BY <1>3, <1>5, <2>3
    <2>5. /\ down' \in Seq(DownEvent)
          /\ \A i \in DOMAIN down' : down'[i].state = "LISTENING"
      BY <1>8 DEF DownEvent
    <2>6. up' \in Seq(UpEvent)
      BY <1>2
    <2>7. TypeOK'
      BY <1>1, <1>2, <1>4, <2>2, <2>5, <2>6 DEF TypeOK
    <2>8. WireSound'
      BY <1>2, <1>6, <2>3, <2>4, <2>5 DEF WireSound
    <2>9. HeardInOrder' /\ FramesSound'
      BY <1>4, <1>6, <2>3, QueuesKeepsOrder
    <2> QED
      BY <1>4, <2>7, <2>8, <2>9 DEF IndInv
  <1>9. CASE UNCHANGED s /\ UNCHANGED down
    <2>1. up' \in Seq(UpEvent)
      BY <1>2
    <2>2. TypeOK'
      BY <1>1, <1>2, <1>4, <1>9, <2>1 DEF TypeOK
    <2>3. \A i \in DOMAIN down' : FALSE
      BY <1>5, <1>9
    <2>4. WireSound'
      BY <1>2, <1>5, <1>9, <2>3 DEF WireSound
    <2>5. HeardInOrder' /\ FramesSound'
      BY <1>4, <1>5, <1>6, <1>9, QueuesKeepsOrder
    <2> QED
      BY <1>4, <2>2, <2>4, <2>5 DEF IndInv
  <1> QED
    BY <1>7, <1>8, <1>9

\* One event is taken; an ENDED only by a session that is being ended.
LEMMA ReceiveKeeps ==
  ASSUME IndInv, Receive
  PROVE  IndInv' /\ Passes(c, c')
  <1>1. /\ c \in Client /\ SoundClient(c) /\ WireSound /\ TypeOK
        /\ down \in Seq(DownEvent)
    BY DEF IndInv, TypeOK
  <1>2. UNCHANGED s /\ UNCHANGED up /\ UNCHANGED starts
    BY DEF Receive
  <1>3. down # <<>> /\ down' = Tail(down)
    BY DEF Receive
  <1>4. \A i \in DOMAIN down :
          down[i].type = "SESSION_STATE" /\ down[i].state = "ENDED" => c.ending
    BY <1>1 DEF WireSound
  <1>5. /\ Sole(c, c') /\ (c.ending => c'.ending)
        /\ c'.job = "live" \/ c'.stage = "stopping"
    BY <1>1, <1>4, ReceiveIsSole
  <1>6. c' \in Client /\ SoundClient(c') /\ Queues(c, c') /\ Passes(c, c')
    BY <1>5 DEF Sole, Well
  <1>7. /\ down' \in Seq(DownEvent)
        /\ \A i \in DOMAIN down' : i + 1 \in DOMAIN down /\ down'[i] = down[i + 1]
    BY <1>1, <1>3
  <1>8. TypeOK'
    BY <1>1, <1>2, <1>6, <1>7 DEF TypeOK
  <1>9. WireSound'
    BY <1>1, <1>2, <1>4, <1>5, <1>7 DEF WireSound
  <1>10. HeardInOrder' /\ FramesSound'
    BY <1>2, <1>6, QueuesKeepsOrder
  <1> QED
    BY <1>6, <1>8, <1>9, <1>10 DEF IndInv

\* One event is sent, and it is no END_SESSION.
LEMMA SendKeeps ==
  ASSUME IndInv, Send
  PROVE  IndInv' /\ Passes(c, c')
  <1>1. c \in Client /\ SoundClient(c) /\ WireSound /\ TypeOK /\ up \in Seq(UpEvent)
    BY DEF IndInv, TypeOK
  <1>2. UNCHANGED s /\ UNCHANGED down /\ UNCHANGED starts
    BY DEF Send
  <1>3. /\ Well(c, c') /\ c'.turn = c.turn /\ c'.seq = c.seq
        /\ c'.held = c.held /\ c'.m = c.m
        /\ c.job = "live" /\ c'.job = "live" /\ ~c.ending
        /\ \/ /\ c.control # <<>> /\ Head(c.control) \in Control
              /\ up' = Append(up, Head(c.control)) /\ c'.frames = c.frames
           \/ /\ c.frames # <<>> /\ c'.frames = Tail(c.frames)
              /\ up' = Append(up, [type |-> "AUDIO_FRAME", turn |-> c.frames[1].turn,
                                   seq |-> c.frames[1].seq])
    BY <1>1, SendIsWell DEF Send
  <1>4. c' \in Client /\ SoundClient(c') /\ Passes(c, c')
    BY <1>3 DEF Well
  <1>5. PICK e : /\ up' = Append(up, e) /\ e \in UpEvent /\ e.type # "END_SESSION"
                 /\ \/ c'.frames = c.frames /\ ~IsFrame(e)
                    \/ /\ c.frames # <<>> /\ c'.frames = Tail(c.frames)
                       /\ e = [type |-> "AUDIO_FRAME", turn |-> c.frames[1].turn,
                               seq |-> c.frames[1].seq]
    <2>1. CASE /\ c.control # <<>> /\ Head(c.control) \in Control
               /\ up' = Append(up, Head(c.control)) /\ c'.frames = c.frames
      <3>1. \A e \in Control : e \in UpEvent /\ e.type # "END_SESSION" /\ ~IsFrame(e)
        BY DEF UpEvent, Control, IsFrame
      <3> QED
        BY <2>1, <3>1
    <2>2. CASE /\ c.frames # <<>> /\ c'.frames = Tail(c.frames)
               /\ up' = Append(up, [type |-> "AUDIO_FRAME", turn |-> c.frames[1].turn,
                                    seq |-> c.frames[1].seq])
      <3> DEFINE f == c.frames[1]
                 e == [type |-> "AUDIO_FRAME", turn |-> f.turn, seq |-> f.seq]
      <3>1. c.frames \in Seq(Frame)
        BY <1>1, Typed
      <3>2. f \in Frame
        BY <2>2, <3>1
      <3> HIDE DEF f
      <3>3. e \in UpEvent /\ e.type # "END_SESSION"
        BY <3>2 DEF UpEvent, Frame
      <3> QED
        BY <2>2, <3>3 DEF f
    <2> QED
      BY <1>3, <2>1, <2>2
  <1>6. /\ up' \in Seq(UpEvent)
        /\ \A i \in DOMAIN up' : (i \in DOMAIN up /\ up'[i] = up[i]) \/ up'[i] = e
    BY <1>1, <1>5, AppendIs
  <1>7. TypeOK'
    BY <1>1, <1>2, <1>4, <1>6 DEF TypeOK
  <1>8. WireSound'
    <2>1. \A i \in DOMAIN down' : ~(down'[i].type = "SESSION_STATE" /\ down'[i].state = "ENDED")
      BY <1>1, <1>2, <1>3 DEF WireSound
    <2>2. s'.open => \A i \in DOMAIN up' : up'[i].type # "END_SESSION"
      BY <1>1, <1>2, <1>3, <1>5, <1>6 DEF WireSound
    <2> QED
      BY <1>1, <1>2, <1>3, <2>1, <2>2 DEF WireSound
  <1>9. CASE c'.frames = c.frames /\ ~IsFrame(e)
    <2>1. Queues(c, c')
      BY <1>3, <1>9, <1>1, SameQueues DEF SameFrames, NotYet
    <2>2. HeardInOrder' /\ FramesSound'
      BY <1>2, <1>4, <1>6, <1>9, <2>1, QueuesKeepsOrder
    <2> QED
      BY <1>4, <1>7, <1>8, <2>2 DEF IndInv
  <1>10. CASE /\ c.frames # <<>> /\ c'.frames = Tail(c.frames)
              /\ e = [type |-> "AUDIO_FRAME", turn |-> c.frames[1].turn,
                      seq |-> c.frames[1].seq]
    <2>1. HeardInOrder' /\ FramesSound'
      BY <1>2, <1>3, <1>4, <1>5, <1>10, SendKeepsOrder
    <2> QED
      BY <1>4, <1>7, <1>8, <2>1 DEF IndInv
  <1> QED
    BY <1>5, <1>9, <1>10

\* A connection is left when it is gone and nothing is under way.
LEMMA ClosedKeeps ==
  ASSUME IndInv, Closed
  PROVE  IndInv' /\ Passes(c, c')
  <1>1. c \in Client /\ SoundClient(c) /\ WireSound /\ TypeOK
    BY DEF IndInv, TypeOK
  <1>2. /\ UNCHANGED s /\ UNCHANGED up /\ UNCHANGED down /\ UNCHANGED starts
        /\ ~s.open /\ down = <<>>
    BY DEF Closed
  <1>3. /\ c' \in Client /\ SoundClient(c') /\ Queues(c, c') /\ Passes(c, c')
        /\ c'.job = "losing"
    BY <1>1, ClosedIsSole DEF Sole, Well
  <1>4. TypeOK'
    BY <1>1, <1>2, <1>3 DEF TypeOK
  <1>5. WireSound'
    BY <1>2, <1>3 DEF WireSound
  <1>6. HeardInOrder' /\ FramesSound'
    BY <1>2, <1>3, QueuesKeepsOrder
  <1> QED
    BY <1>3, <1>4, <1>5, <1>6 DEF IndInv

\* A connection that is gone has nothing under way.
LEMMA GoneKeeps ==
  ASSUME IndInv, c' \in Client, SoundClient(c'), Queues(c, c'),
         s' = [s EXCEPT !.open = FALSE], up' = <<>>, down' = <<>>, UNCHANGED starts
  PROVE  IndInv'
  <1>1. s' \in Server /\ ~s'.open
    <2>1. s \in Server
      BY DEF IndInv, TypeOK
    <2>2. s' \in Server
      BY <2>1, ServerUpdates
    <2> QED
      BY <2>1, <2>2 DEF Server
  <1>2. up' \in Seq(UpEvent) /\ down' \in Seq(DownEvent)
    OBVIOUS
  <1>3. TypeOK'
    BY <1>1, <1>2 DEF IndInv, TypeOK
  <1>4. (\A i \in DOMAIN up' : FALSE) /\ (\A i \in DOMAIN down' : FALSE)
    <2>1. DOMAIN <<>> = {}
      OBVIOUS
    <2> QED
      BY <2>1
  <1>5. WireSound'
    BY <1>1, <1>4 DEF WireSound
  <1>6. HeardInOrder' /\ FramesSound'
    BY <1>1, <1>4, QueuesKeepsOrder
  <1> QED
    BY <1>3, <1>5, <1>6 DEF IndInv

\* stopLocalResources closes the socket.
LEMMA StopResourcesKeeps ==
  ASSUME IndInv, StopResources
  PROVE  IndInv' /\ Passes(c, c')
  <1>1. c \in Client /\ SoundClient(c)
    BY DEF IndInv, TypeOK
  <1>2. c' \in Client /\ SoundClient(c') /\ Queues(c, c') /\ Passes(c, c')
    BY <1>1, StopResourcesIsSole DEF Sole, Well
  <1>3. s' = [s EXCEPT !.open = FALSE] /\ up' = <<>> /\ down' = <<>> /\ UNCHANGED starts
    BY DEF StopResources
  <1> QED
    BY <1>2, <1>3, GoneKeeps

\* The network breaks.
LEMMA BreakKeeps ==
  ASSUME IndInv, Break
  PROVE  IndInv'
  <1>1. s' = [s EXCEPT !.open = FALSE] /\ up' = <<>> /\ down' = <<>>
        /\ UNCHANGED c /\ UNCHANGED starts
    BY DEF Break
  <1>2. c' \in Client /\ SoundClient(c') /\ Queues(c, c')
    BY <1>1, SameQueues DEF IndInv, TypeOK, SameFrames
  <1> QED
    BY <1>1, <1>2, GoneKeeps

\* What the server makes of the first event that has reached it.
LEMMA ServeIs ==
  ASSUME IndInv, Serve, NEW D, Unended \subseteq D, down \in Seq(D),
         Head(up).type = "END_SESSION" => D = DownEvent
  PROVE  /\ s' \in Server /\ down' \in Seq(D)
         /\ s'.open => /\ s'.state \in {"LISTENING", "SPEAKING"}
                       /\ \/ s'.next = s.next
                          \/ /\ IsFrame(Head(up))
                             /\ s'.next = [turn |-> Head(up).turn, seq |-> Head(up).seq + 1]
  <1> DEFINE e == Head(up)
  <1>1. s \in Server /\ up \in Seq(UpEvent) /\ s.open /\ up # <<>>
    BY DEF IndInv, TypeOK, Serve
  <1>2. e \in UpEvent
    BY <1>1
  <1>3. s.state \in {"LISTENING", "SPEAKING"}
    BY <1>1 DEF IndInv, WireSound
  <1>4. {"LISTENING", "ENDED", "RECONNECTING"} \subseteq States
    BY DEF States, Terminal
  <1>5. \A t \in {"LISTENING", "ENDED", "RECONNECTING"} :
          /\ [s EXCEPT !.open = FALSE, !.state = t].open = FALSE
          /\ [s EXCEPT !.state = t, !.open = FALSE].open = FALSE
          /\ [s EXCEPT !.state = t, !.speaking = 0].state = t
          /\ [s EXCEPT !.state = t, !.speaking = 0].next = s.next
    BY <1>1 DEF Server
  <1>6. ASSUME Rejects
        PROVE  s' \in Server /\ down' \in Seq(D) /\ ~s'.open
    <2>1. s' = [s EXCEPT !.open = FALSE, !.state = "RECONNECTING"]
      BY <1>6 DEF Rejects
    <2>2. down' = Append(down, [type |-> "ERROR"])
      BY <1>6 DEF Rejects
    <2>3. [type |-> "ERROR"] \in D
      BY Events
    <2>4. s' \in Server
      BY <1>1, <1>4, <2>1, ServerUpdates
    <2> QED
      BY <1>5, <2>1, <2>2, <2>3, <2>4
  <1>7. /\ State("LISTENING") \in Seq(D)
        /\ D = DownEvent => State("ENDED") \in Seq(D)
    <2>1. 0 \in Nat
      OBVIOUS
    <2>2. State("LISTENING") \in Seq(Unended) /\ State("ENDED") \in Seq(DownEvent)
      BY <2>1, Events
    <2>3. State("LISTENING") \in Seq(D)
      BY <2>2
    <2> QED
      BY <2>2, <2>3
  <1>8. CASE e.type = "AUDIO_FRAME"
    <2>1. e.turn \in Nat /\ e.seq \in Nat /\ IsFrame(e)
      BY <1>2, <1>8 DEF UpEvent, Control, IsFrame
    <2>2. HearFrame(e)
      BY <1>8 DEF Serve
    <2> HIDE DEF e
    <2>3. /\ s' \in Server /\ down' \in Seq(D)
          /\ s'.open => /\ s'.state \in {"LISTENING", "SPEAKING"}
                        /\ s'.next \in {s.next, [turn |-> e.turn, seq |-> e.seq + 1]}
      BY <1>1, <1>3, <2>1, <2>2, HearFrameIs
    <2> QED
      BY <2>1, <2>3 DEF e
  <1>9. CASE e.type = "INTERRUPT"
    <2>1. \/ Rejects
          \/ /\ s' = [s EXCEPT !.state = "LISTENING", !.speaking = 0]
             /\ down' = Append(down, [type |-> "TURN_INTERRUPTED", turn |-> e.turn])
                          \o State("LISTENING")
      BY <1>9 DEF Serve
    <2>2. e.turn \in Nat
      BY <1>2, <1>9 DEF UpEvent, Control
    <2> HIDE DEF e
    <2>3. CASE /\ s' = [s EXCEPT !.state = "LISTENING", !.speaking = 0]
               /\ down' = Append(down, [type |-> "TURN_INTERRUPTED", turn |-> e.turn])
                            \o State("LISTENING")
      <3>1. [type |-> "TURN_INTERRUPTED", turn |-> e.turn] \in D
        BY <2>2, Events
      <3>2. Append(down, [type |-> "TURN_INTERRUPTED", turn |-> e.turn]) \in Seq(D)
        BY <3>1
      <3>3. down' \in Seq(D)
        BY <1>7, <2>3, <3>2
      <3>4. s' \in Server
        BY <1>1, <1>4, <2>3, ServerUpdates
      <3> QED
        BY <1>5, <2>3, <3>3, <3>4
    <2> QED
      BY <1>6, <2>1, <2>3
  <1>10. CASE e.type = "PLAYBACK_COMPLETED"
    <2>1. Rejects \/ Moves("LISTENING")
      BY <1>10 DEF Serve
    <2>2. CASE Moves("LISTENING")
      <3>1. /\ s' = [s EXCEPT !.state = "LISTENING", !.speaking = 0]
            /\ down' = down \o State("LISTENING")
        BY <2>2 DEF Moves
      <3>2. down' \in Seq(D)
        BY <1>7, <3>1
      <3>3. s' \in Server
        BY <1>1, <1>4, <3>1, ServerUpdates
      <3> QED
        BY <1>5, <3>1, <3>2, <3>3
    <2> QED
      BY <1>6, <2>1, <2>2
  <1>11. CASE e.type = "END_SESSION"
    <2>1. /\ s' = [s EXCEPT !.state = "ENDED", !.open = FALSE]
          /\ down' = down \o State("ENDED")
      BY <1>11 DEF Serve
    <2>2. down' \in Seq(D)
      BY <1>7, <1>11, <2>1
    <2>3. s' \in Server
      BY <1>1, <1>4, <2>1, ServerUpdates
    <2> QED
      BY <1>5, <2>1, <2>2, <2>3
  <1> QED
    BY <1>2, <1>8, <1>9, <1>10, <1>11 DEF UpEvent, Control

\* The server never speaks of an end that the user did not ask for.
LEMMA ServeKeeps ==
  ASSUME IndInv, Serve
  PROVE  IndInv'
  <1>1. /\ c \in Client /\ SoundClient(c) /\ WireSound /\ TypeOK
        /\ down \in Seq(DownEvent) /\ up \in Seq(UpEvent)
    BY DEF IndInv, TypeOK
  <1>2. UNCHANGED c /\ UNCHANGED starts /\ up' = Tail(up) /\ s.open /\ up # <<>>
    BY DEF Serve
  <1>3. Unended \subseteq DownEvent
    BY DEF Unended
  <1>4. /\ s' \in Server /\ down' \in Seq(DownEvent)
        /\ s'.open => /\ s'.state \in {"LISTENING", "SPEAKING"}
                      /\ \/ s'.next = s.next
                         \/ /\ IsFrame(Head(up))
                            /\ s'.next = [turn |-> Head(up).turn, seq |-> Head(up).seq + 1]
    BY <1>1, <1>3, ServeIs
  <1>5. /\ up' \in Seq(UpEvent)
        /\ \A i \in DOMAIN up' : i + 1 \in DOMAIN up /\ up'[i] = up[i + 1]
    BY <1>1, <1>2
  <1>6. TypeOK'
    BY <1>1, <1>2, <1>4, <1>5 DEF TypeOK
  <1>7. ~c.ending => down' \in Seq(Unended)
    <2> SUFFICES ASSUME ~c.ending PROVE down' \in Seq(Unended)
      OBVIOUS
    <2>1. \A i \in DOMAIN down : ~(down[i].type = "SESSION_STATE" /\ down[i].state = "ENDED")
      BY <1>1 DEF WireSound
    <2>2. down \in Seq(Unended)
      BY <1>1, <2>1, UnendedIs
    <2>3. Head(up).type # "END_SESSION"
      <3>1. 1 \in DOMAIN up /\ Head(up) = up[1]
        BY <1>1, <1>2
      <3> QED
        BY <1>1, <1>2, <3>1 DEF WireSound
    <2> QED
      BY <2>2, <2>3, ServeIs
  <1>8. WireSound'
    <2>1. \A i \in DOMAIN down' :
            down'[i].type = "SESSION_STATE" /\ down'[i].state = "ENDED" => c.ending
      BY <1>4, <1>7, UnendedIs
    <2>2. c.job = "live" \/ c.stage = "stopping"
      BY <1>1, <1>2 DEF WireSound
    <2>3. \A i \in DOMAIN up' : up'[i].type = "END_SESSION" => c.ending
      BY <1>1, <1>2, <1>5 DEF WireSound
    <2> QED
      BY <1>2, <1>4, <2>1, <2>2, <2>3 DEF WireSound
  <1>9. HeardInOrder' /\ FramesSound'
    BY <1>2, <1>4, ServeKeepsOrder
  <1> QED
    BY <1>1, <1>2, <1>6, <1>8, <1>9 DEF IndInv

-----------------------------------------------------------------------------
(* The theorems.                                                           *)

\* An app that has just been started.
LEMMA InitHolds ==
  ASSUME Init
  PROVE  IndInv
  <1>1. /\ c.m = "IDLE" /\ c.ui = "Idle" /\ ~c.ending /\ c.turn = 1 /\ c.seq = 0
        /\ c.lastInt = 0 /\ ~c.capture /\ ~c.late /\ c.out.turn = 0 /\ c.frames = <<>>
        /\ c.held.turn = 0 /\ ~c.stuck
        /\ c.job = "none" /\ c.cleanup = "none" /\ c.stage = "none"
        /\ ~s.open /\ s \in Server /\ up = <<>> /\ down = <<>> /\ starts = 0
    BY NewServerIs DEF Init, Silence, NoFrame
  <1>2. /\ <<>> \in Seq(Frame) /\ <<>> \in Seq(Control) /\ NoFrame \in Frame
        /\ Silence \in [turn : Nat, next : Nat, final : BOOLEAN]
    BY DEF Silence, NoFrame, Frame
  <1>3. c \in Client
    BY <1>2 DEF Init, Client, States
  <1>4. up \in Seq(UpEvent) /\ down \in Seq(DownEvent) /\ starts \in Nat
    BY <1>1
  <1>5. TypeOK
    BY <1>1, <1>3, <1>4 DEF TypeOK
  <1>6. SoundClient(c)
    BY <1>1 DEF SoundClient, Terminal, Locked
  <1>7. /\ \A i \in DOMAIN up : FALSE
        /\ \A i \in DOMAIN down : FALSE
        /\ \A i \in DOMAIN c.frames : FALSE
    <2>1. DOMAIN <<>> = {}
      OBVIOUS
    <2> QED
      BY <1>1, <2>1
  <1>8. WireSound
    BY <1>1, <1>7 DEF WireSound
  <1>9. HeardInOrder
    BY <1>1, <1>7 DEF HeardInOrder
  <1>10. FramesSound
    BY <1>1, <1>7 DEF FramesSound, Locked
  <1> QED
    BY <1>5, <1>6, <1>8, <1>9, <1>10 DEF IndInv

\* One step per action: the invariant is kept, and the step is one of the slot
\* or none.
LEMMA NextHolds ==
  ASSUME IndInv, [Next]_vars
  PROVE  IndInv' /\ (Passes(c, c') \/ UNCHANGED c)
  <1>1. c \in Client /\ SoundClient(c) /\ starts \in Nat
    BY DEF IndInv, TypeOK
  <1>2. ASSUME Steady(c, c'), UNCHANGED <<s, up, down>>, starts' \in Nat
        PROVE  IndInv' /\ Passes(c, c')
    BY <1>2, SteadyStep DEF Steady, Well
  <1>3. CASE Start
    BY <1>3, StartKeeps
  <1>4. CASE ToggleMute
    <2>1. UNCHANGED <<s, up, down>> /\ starts' \in Nat
      BY <1>1, <1>4 DEF ToggleMute
    <2> QED
      BY <1>1, <1>2, <1>4, <2>1, ToggleMuteIsSteady
  <1>5. CASE Interrupt
    <2>1. UNCHANGED <<s, up, down>> /\ starts' \in Nat
      BY <1>1, <1>5 DEF Interrupt
    <2> QED
      BY <1>1, <1>2, <1>5, <2>1, InterruptIsSteady
  <1>6. CASE End
    BY <1>6, EndKeeps
  <1>7. CASE StartAnswered
    BY <1>7, StartAnsweredKeeps
  <1>8. CASE Connect
    BY <1>8, ConnectKeeps
  <1>9. CASE Receive
    BY <1>9, ReceiveKeeps
  <1>10. CASE Send
    BY <1>10, SendKeeps
  <1>11. CASE Closed
    BY <1>11, ClosedKeeps
  <1>12. CASE Recover
    <2>1. UNCHANGED <<s, up, down>> /\ starts' \in Nat
      BY <1>1, <1>12 DEF Recover
    <2> QED
      BY <1>1, <1>2, <1>12, <2>1, RecoverIsSteady
  <1>13. CASE Refreshed
    <2>1. UNCHANGED <<s, up, down>> /\ starts' \in Nat
      BY <1>1, <1>13 DEF Refreshed
    <2> QED
      BY <1>1, <1>2, <1>13, <2>1, RefreshedIsSteady
  <1>14. CASE StopResources
    BY <1>14, StopResourcesKeeps
  <1>15. CASE CleanedUp
    <2>1. UNCHANGED <<s, up, down>> /\ starts' \in Nat
      BY <1>1, <1>15 DEF CleanedUp
    <2> QED
      BY <1>1, <1>2, <1>15, <2>1, CleanedUpIsSteady
  <1>16. CASE RecordBegins
    <2>1. UNCHANGED <<s, up, down>> /\ starts' \in Nat
      BY <1>1, <1>16 DEF RecordBegins
    <2> QED
      BY <1>1, <1>2, <1>16, <2>1, RecordBeginsIsSteady
  <1>16a. CASE RecordEnds
    <2>1. UNCHANGED <<s, up, down>> /\ starts' \in Nat
      BY <1>1, <1>16a DEF RecordEnds
    <2> QED
      BY <1>1, <1>2, <1>16a, <2>1, RecordEndsIsSteady
  <1>17. CASE ReadFails
    <2>1. UNCHANGED <<s, up, down>> /\ starts' \in Nat
      BY <1>1, <1>17 DEF ReadFails
    <2> QED
      BY <1>1, <1>2, <1>17, <2>1, ReadFailsIsSteady
  <1>18. CASE ReaderLeaves
    <2>1. UNCHANGED <<s, up, down>> /\ starts' \in Nat
      BY <1>1, <1>18 DEF ReaderLeaves
    <2> QED
      BY <1>1, <1>2, <1>18, <2>1, ReaderLeavesIsSteady
  <1>19. CASE PlaybackCompletes
    <2>1. UNCHANGED <<s, up, down>> /\ starts' \in Nat
      BY <1>1, <1>19 DEF PlaybackCompletes
    <2> QED
      BY <1>1, <1>2, <1>19, <2>1, PlaybackCompletesIsSteady
  <1>20. CASE PlaybackFails
    <2>1. UNCHANGED <<s, up, down>> /\ starts' \in Nat
      BY <1>1, <1>20 DEF PlaybackFails
    <2> QED
      BY <1>1, <1>2, <1>20, <2>1, PlaybackFailsIsSteady
  <1>20a. CASE WriterLeaves
    <2>1. UNCHANGED <<s, up, down>> /\ starts' \in Nat
      BY <1>1, <1>20a DEF WriterLeaves
    <2> QED
      BY <1>1, <1>2, <1>20a, <2>1, WriterLeavesIsSteady
  <1>21. CASE Serve
    BY <1>21, ServeKeeps DEF Serve
  <1>22. CASE Break
    BY <1>22, BreakKeeps DEF Break
  <1>23. CASE UNCHANGED vars
    BY <1>23 DEF vars, IndInv, TypeOK, WireSound, HeardInOrder, FramesSound, NextFrame,
       Unsettled
  <1> QED
    BY <1>3, <1>4, <1>5, <1>6, <1>7, <1>8, <1>9, <1>10, <1>11, <1>12, <1>13, <1>14,
       <1>15, <1>16, <1>16a, <1>17, <1>18, <1>19, <1>20, <1>20a, <1>21, <1>22, <1>23
       DEF Next, User, Connection, Cleanup, Audio

\* The invariant of the controller, its threads and its wires.
THEOREM Inductive == Spec => []IndInv
  BY InitHolds, NextHolds, PTL DEF Spec

\* The controller, the server and what is under way keep their shapes.
THEOREM TypeCorrect == Spec => []TypeOK
  <1>1. IndInv => TypeOK
    BY DEF IndInv
  <1> QED
    BY <1>1, Inductive, PTL

\* The microphone is recorded only for a connected session that nobody has
\* muted, ended or lost, whatever the reader threads, the socket and the
\* clean-up do meanwhile (startCapture, stopLocalResources).
THEOREM MicStaysInSession == Spec => []MicInSession
  <1>1. IndInv => MicInSession
    BY DEF IndInv, SoundClient, MicInSession
  <1> QED
    BY <1>1, Inductive, PTL

\* An interrupted turn is not heard again (interruptAssistant,
\* handleAssistantAudio).
THEOREM InterruptedStaysSilent == Spec => []InterruptedIsSilent
  <1>1. IndInv => InterruptedIsSilent
    BY DEF IndInv, SoundClient, InterruptedIsSilent
  <1> QED
    BY <1>1, Inductive, PTL

\* The server hears the frames of a turn in the order they were recorded, and
\* once a session has listened none of a turn that is over is queued, with a
\* reader that may be in enqueueAudioFrame through the drains of a mute, of a
\* lost connection and of an end, and through the next start (enqueueAudioFrame,
\* beginNewTurn, sendLoop).
THEOREM HeardStaysInOrder == Spec => []HeardInOrder
  <1>1. IndInv => HeardInOrder
    BY DEF IndInv
  <1> QED
    BY <1>1, Inductive, PTL

\* VoiceSessionController implements the slot the rest of the app relies on: no
\* session starts over another or over its clean-up, and the microphone is left
\* before the slot is (start, end, fail, stopLocalResources).
THEOREM KeepsTheSlot == Spec => SlotSpec
  <1>1. Init => Slot!Init
    BY DEF Init, Slot!Init, Errors
  <1>2. IndInv /\ [Next]_vars => [Slot!Next]_(Slot!vars)
    <2> SUFFICES ASSUME IndInv, [Next]_vars
                 PROVE  [Slot!Next]_(Slot!vars)
      OBVIOUS
    <2>1. Passes(c, c') \/ UNCHANGED c
      BY NextHolds
    <2>2. c' \in Client /\ c'.capture \in BOOLEAN
      BY NextHolds, Typed DEF IndInv, TypeOK
    <2>3. CASE UNCHANGED c
      BY <2>3 DEF Slot!vars
    <2>4. CASE Passes(c, c')
      BY <2>2, <2>4 DEF Passes, Shown, Taken, Slot!vars, Slot!Next, Slot!Start, Slot!UseMic,
         Slot!End, Slot!Fail, Slot!SeeEnded, Slot!CleanedUp
    <2> QED
      BY <2>1, <2>3, <2>4
  <1> QED
    BY <1>1, <1>2, Inductive, PTL DEF Spec, SlotSpec, Slot!Spec

-----------------------------------------------------------------------------
(* The wake word: WakeActivation. *)

USE DEF Engines

-----------------------------------------------------------------------------
(* The queue at the mutex.                                                 *)

\* The operation at the head of the queue leaves it.
LEMMA Tails ==
  ASSUME NEW q \in Seq(Operations), q # <<>>
  PROVE  /\ Head(q) \in Operations
         /\ Has(q, Head(q))
         /\ Tail(q) \in Seq(Operations)
         /\ \A op \in Operations : Has(Tail(q), op) => Has(q, op)
         /\ \A op \in Operations : Has(q, op) /\ op # Head(q) => Has(Tail(q), op)
         /\ OneEnable(q) => OneEnable(Tail(q))
         /\ OneEnable(q) /\ Head(q) = "enable" => ~Has(Tail(q), "enable")
         /\ Followed(q) => Followed(Tail(q))
         /\ Followed(q) /\ Head(q) \in {"resume", "voiceEnded"} =>
              Has(Tail(q), "hostStopped")
  <1> DEFINE t == Tail(q)
  <1>1. /\ Head(q) = q[1] /\ 1 \in DOMAIN q /\ Len(q) \in Nat \ {0}
        /\ t \in Seq(Operations)
        /\ DOMAIN q = 1 .. Len(q)
        /\ DOMAIN t = 1 .. Len(q) - 1
        /\ \A i \in DOMAIN t : t[i] = q[i + 1]
        /\ \A i \in DOMAIN q : q[i] \in Operations
    OBVIOUS
  <1>2. \A i \in DOMAIN t : i + 1 \in DOMAIN q /\ i + 1 # 1
    BY <1>1
  <1>3. \A i \in DOMAIN q : i # 1 => i - 1 \in DOMAIN t /\ t[i - 1] = q[i]
    BY <1>1
  <1> HIDE DEF t
  <1>4. \A op \in Operations : Has(t, op) => Has(q, op)
    BY <1>1, <1>2 DEF Has
  <1>5. \A op \in Operations : Has(q, op) /\ op # Head(q) => Has(t, op)
    BY <1>1, <1>3 DEF Has
  <1>6. Has(q, Head(q)) /\ Head(q) \in Operations
    BY <1>1 DEF Has
  <1>7. OneEnable(q) => OneEnable(t)
    BY <1>1, <1>2 DEF OneEnable
  <1>8. OneEnable(q) /\ Head(q) = "enable" => ~Has(t, "enable")
    BY <1>1, <1>2 DEF OneEnable, Has
  <1>9. Followed(q) => Followed(t)
    <2> SUFFICES ASSUME Followed(q), NEW i \in DOMAIN t, t[i] \in {"resume", "voiceEnded"}
                 PROVE  \E j \in DOMAIN t : i < j /\ t[j] = "hostStopped"
      BY DEF Followed
    <2>1. i + 1 \in DOMAIN q /\ q[i + 1] \in {"resume", "voiceEnded"}
      BY <1>1, <1>2
    <2>2. PICK j \in DOMAIN q : i + 1 < j /\ q[j] = "hostStopped"
      BY <2>1 DEF Followed
    <2>3. j - 1 \in DOMAIN t /\ i < j - 1 /\ t[j - 1] = "hostStopped"
      BY <1>1, <1>3, <2>2
    <2> QED
      BY <2>3
  <1>10. Followed(q) /\ Head(q) \in {"resume", "voiceEnded"} => Has(t, "hostStopped")
    <2> SUFFICES ASSUME Followed(q), q[1] \in {"resume", "voiceEnded"}
                 PROVE  Has(t, "hostStopped")
      BY <1>1
    <2>1. PICK j \in DOMAIN q : 1 < j /\ q[j] = "hostStopped"
      BY <1>1 DEF Followed
    <2> QED
      BY <1>1, <1>3, <2>1 DEF Has
  <1> QED
    BY <1>1, <1>4, <1>5, <1>6, <1>7, <1>8, <1>9, <1>10 DEF t

\* One more operation waits.
LEMMA Appends ==
  ASSUME NEW q \in Seq(Operations), NEW x \in Operations
  PROVE  LET a == Append(q, x) IN
         /\ a \in Seq(Operations) /\ a # <<>>
         /\ \A op \in Operations : Has(a, op) <=> Has(q, op) \/ op = x
         /\ OneEnable(q) /\ (x # "enable" \/ ~Has(q, "enable")) => OneEnable(a)
         /\ Followed(q) /\ x \notin {"resume", "voiceEnded"} => Followed(a)
         /\ x = "hostStopped" => Followed(a)
         /\ q # <<>> => Head(a) = Head(q)
  <1> DEFINE a == Append(q, x)
  <1>0. /\ a \in Seq(Operations)
        /\ DOMAIN q = 1 .. Len(q) /\ Len(q) \in Nat
        /\ Len(a) = Len(q) + 1 /\ DOMAIN a = 1 .. Len(q) + 1
        /\ \A i \in DOMAIN q : a[i] = q[i]
        /\ a[Len(q) + 1] = x
    OBVIOUS
  <1>a. a # <<>> /\ Head(a) = a[1]
    BY <1>0
  <1>b. q # <<>> => 1 \in DOMAIN q /\ Head(q) = q[1]
    OBVIOUS
  <1>1. /\ a \in Seq(Operations) /\ a # <<>>
        /\ DOMAIN q = 1 .. Len(q) /\ Len(q) \in Nat
        /\ DOMAIN a = 1 .. Len(q) + 1
        /\ \A i \in DOMAIN q : a[i] = q[i]
        /\ a[Len(q) + 1] = x
        /\ q # <<>> => Head(a) = Head(q)
    BY <1>0, <1>a, <1>b
  <1>2. \A i \in DOMAIN a : i \in DOMAIN q \/ i = Len(q) + 1
    BY <1>1
  <1>3. \A i \in DOMAIN q : i \in DOMAIN a /\ i < Len(q) + 1
    BY <1>1
  <1>4. Len(q) + 1 \in DOMAIN a
    BY <1>1
  <1> HIDE DEF a
  <1>5. \A op \in Operations : Has(a, op) <=> Has(q, op) \/ op = x
    BY <1>1, <1>2, <1>3, <1>4 DEF Has
  <1>6. OneEnable(q) /\ (x # "enable" \/ ~Has(q, "enable")) => OneEnable(a)
    BY <1>1, <1>2 DEF OneEnable, Has
  <1>7. Followed(q) /\ x \notin {"resume", "voiceEnded"} => Followed(a)
    BY <1>1, <1>2, <1>3 DEF Followed
  <1>8. x = "hostStopped" => Followed(a)
    BY <1>1, <1>2, <1>3, <1>4 DEF Followed
  <1> QED
    BY <1>1, <1>5, <1>6, <1>7, <1>8 DEF a

\* The service is destroyed: its enable no longer waits, everything else does.
LEMMA Cancels ==
  ASSUME NEW q \in Seq(Operations), OneEnable(q)
  PROVE  /\ Cancelled(q) \in Seq(Operations)
         /\ ~Has(Cancelled(q), "enable")
         /\ \A op \in Operations : Has(Cancelled(q), op) => Has(q, op)
         /\ \A op \in Operations : Has(q, op) /\ op # "enable" => Has(Cancelled(q), op)
         /\ OneEnable(Cancelled(q))
         /\ q # <<>> /\ Head(q) # "enable" =>
              Cancelled(q) # <<>> /\ Head(Cancelled(q)) = Head(q)
  <1>1. CASE ~Has(q, "enable")
    BY <1>1 DEF Cancelled
  <1>2. CASE Has(q, "enable")
    <2> DEFINE k == CHOOSE i \in DOMAIN q : q[i] = "enable"
               rest == [i \in 1 .. Len(q) - 1 |-> IF i < k THEN q[i] ELSE q[i + 1]]
    <2>1. k \in DOMAIN q /\ q[k] = "enable"
      BY <1>2 DEF Has
    <2>2. Cancelled(q) = rest
      BY <1>2 DEF Cancelled
    <2>3. DOMAIN q = 1 .. Len(q) /\ Len(q) \in Nat /\ Len(q) - 1 \in Nat
      BY <2>1
    <2> HIDE DEF k
    <2>4. \A i \in 1 .. Len(q) - 1 :
            \/ i \in DOMAIN q /\ i # k /\ rest[i] = q[i]
            \/ i + 1 \in DOMAIN q /\ i + 1 # k /\ rest[i] = q[i + 1]
      BY <2>1, <2>3
    <2>5. rest \in Seq(Operations) /\ DOMAIN rest = 1 .. Len(q) - 1
      <3>1. \A i \in 1 .. Len(q) - 1 : rest[i] \in Operations
        BY <2>4
      <3>2. rest \in [1 .. Len(q) - 1 -> Operations]
        BY <3>1
      <3> QED
        BY <2>3, <3>2
    <2>6. \A i \in DOMAIN q : i # k =>
            \E j \in DOMAIN rest : rest[j] = q[i]
      <3> SUFFICES ASSUME NEW i \in DOMAIN q, i # k
                   PROVE  \E j \in DOMAIN rest : rest[j] = q[i]
        OBVIOUS
      <3>1. CASE i < k
        <4>1. i \in DOMAIN rest /\ rest[i] = q[i]
          BY <2>1, <2>3, <2>5, <3>1
        <4> QED
          BY <4>1
      <3>2. CASE i > k
        <4>1. i - 1 \in DOMAIN rest /\ rest[i - 1] = q[i]
          BY <2>1, <2>3, <2>5, <3>2
        <4> QED
          BY <4>1
      <3> QED
        BY <2>1, <2>3, <3>1, <3>2
    <2>7. q # <<>> /\ Head(q) # "enable" => rest # <<>> /\ Head(rest) = Head(q)
      <3> SUFFICES ASSUME Head(q) # "enable"
                   PROVE  rest # <<>> /\ Head(rest) = Head(q)
        OBVIOUS
      <3>1. k # 1 /\ 1 \in DOMAIN q /\ Head(q) = q[1]
        BY <2>1, <2>3
      <3>2. 1 \in DOMAIN rest /\ rest[1] = q[1]
        BY <2>1, <2>3, <2>5, <3>1
      <3>3. Len(rest) = Len(q) - 1 /\ Len(rest) > 0
        BY <2>3, <2>5, <3>2
      <3> HIDE DEF rest
      <3>4. rest # <<>> /\ Head(rest) = rest[1]
        BY <2>5, <3>3
      <3> QED
        BY <3>1, <3>2, <3>4
    <2> HIDE DEF rest
    <2>8. ~Has(rest, "enable")
      BY <2>1, <2>4, <2>5 DEF Has, OneEnable
    <2>9. \A op \in Operations : Has(rest, op) => Has(q, op)
      BY <2>4, <2>5 DEF Has
    <2>10. \A op \in Operations : Has(q, op) /\ op # "enable" => Has(rest, op)
      BY <2>1, <2>6 DEF Has
    <2>11. OneEnable(rest)
      BY <2>8 DEF OneEnable, Has
    <2> QED
      BY <2>2, <2>5, <2>7, <2>8, <2>9, <2>10, <2>11
  <1> QED
    BY <1>1, <1>2

\* What the collector of uiState makes of the queue.
LEMMA Observes ==
  ASSUME NEW u, NEW q \in Seq(Operations), seen \in BOOLEAN,
         Observe(u, q)
  PROVE  /\ queue' \in Seq(Operations) /\ seen' \in BOOLEAN
         /\ \A op \in Operations : Has(q, op) => Has(queue', op)
         /\ \A op \in Operations : Has(queue', op) =>
              Has(q, op) \/ (op = "voiceEnded" /\ service = "active")
         /\ OneEnable(q) => OneEnable(queue')
         /\ service = "active" \/ Followed(q) => service = "active" \/ Followed(queue')
         /\ ~Has(queue', "voiceEnded") => seen' = Active(u)
         /\ seen /\ ~Active(u) /\ service = "active" /\ enabled => Has(queue', "voiceEnded")
  <1> USE DEF Operations
  <1>1. CASE Has(q, "voiceEnded")
    BY <1>1 DEF Observe
  <1>2. CASE ~Has(q, "voiceEnded") /\ seen /\ ~Active(u) /\ service = "active" /\ enabled
    <2>1. queue' = Append(q, "voiceEnded") /\ seen' = FALSE /\ "voiceEnded" \in Operations
      BY <1>2 DEF Observe, Active
    <2> HIDE DEF Operations
    <2>2. /\ queue' \in Seq(Operations)
          /\ \A op \in Operations : Has(queue', op) <=> Has(q, op) \/ op = "voiceEnded"
          /\ OneEnable(q) => OneEnable(queue')
      BY <2>1, Appends
    <2> QED
      BY <1>2, <2>1, <2>2
  <1>3. CASE ~Has(q, "voiceEnded") /\ ~(seen /\ ~Active(u) /\ service = "active" /\ enabled)
    BY <1>3 DEF Observe, Active
  <1> QED
    BY <1>1, <1>2, <1>3

\* An operation leaves the head of the queue, and u is the uiState the
\* collector then sees; q has the suspension that a stopped recorder may ask
\* for.
LEMMA Returns ==
  ASSUME WakeTypeOK, QueueSound, queue # <<>>, NEW u, NEW q,
         \/ q = Tail(queue)
         \/ q = Ask(Tail(queue), "suspend") /\ service = "active",
         Observe(u, q), UNCHANGED <<service, asked>>
  PROVE  /\ queue' \in Seq(Operations) /\ seen' \in BOOLEAN
         /\ QueueSound'
         /\ \A op \in Operations : op # Head(queue) /\ Has(queue, op) => Has(queue', op)
         /\ ~Has(queue', "voiceEnded") => seen' = Active(u)
         /\ seen /\ ~Active(u) /\ service = "active" /\ enabled => Has(queue', "voiceEnded")
  <1> DEFINE t == Tail(queue)
  <1>1. /\ queue \in Seq(Operations) /\ seen \in BOOLEAN
        /\ "suspend" \in Operations /\ "enable" \in Operations
        /\ "resume" \in Operations /\ "voiceEnded" \in Operations
    BY DEF WakeTypeOK, Operations
  <1>2. /\ t \in Seq(Operations)
        /\ \A op \in Operations : Has(t, op) => Has(queue, op)
        /\ \A op \in Operations : Has(queue, op) /\ op # Head(queue) => Has(t, op)
        /\ OneEnable(t)
        /\ service = "active" \/ Followed(t)
    BY <1>1, Tails DEF QueueSound
  <1> HIDE DEF t
  <1>3. q = t \/ (service = "active" /\ q = Append(t, "suspend"))
    BY DEF t, Ask
  <1>4. /\ q \in Seq(Operations)
        /\ \A op \in Operations : Has(q, op) => Has(queue, op) \/ op = "suspend"
        /\ \A op \in Operations : Has(queue, op) /\ op # Head(queue) => Has(q, op)
        /\ OneEnable(q)
        /\ service = "active" \/ Followed(q)
    <2>1. CASE q = t
      BY <1>2, <2>1
    <2>2. CASE service = "active" /\ q = Append(t, "suspend")
      BY <1>1, <1>2, <2>2, Appends
    <2> QED
      BY <1>3, <2>1, <2>2
  <1>5. /\ queue' \in Seq(Operations) /\ seen' \in BOOLEAN
        /\ \A op \in Operations : Has(q, op) => Has(queue', op)
        /\ \A op \in Operations : Has(queue', op) =>
             Has(q, op) \/ (op = "voiceEnded" /\ service = "active")
        /\ OneEnable(queue')
        /\ service = "active" \/ Followed(queue')
        /\ ~Has(queue', "voiceEnded") => seen' = Active(u)
        /\ seen /\ ~Active(u) /\ service = "active" /\ enabled => Has(queue', "voiceEnded")
    BY <1>1, <1>4, Observes
  <1>6. QueueSound'
    BY <1>1, <1>4, <1>5 DEF QueueSound, Waits
  <1> QED
    BY <1>4, <1>5, <1>6

\* The same when the recorder is stopped with it.
LEMMA Stops ==
  ASSUME WakeTypeOK, QueueSound, queue # <<>>, StopEngine, UNCHANGED <<service, asked>>
  PROVE  /\ engine' = "off" /\ phase' = "none"
         /\ queue' \in Seq(Operations) /\ seen' \in BOOLEAN
         /\ QueueSound'
         /\ \A op \in Operations : op # Head(queue) /\ Has(queue, op) => Has(queue', op)
         /\ ~Has(queue', "voiceEnded") => seen' = Active(ui)
         /\ seen /\ ~Active(ui) /\ service = "active" /\ enabled => Has(queue', "voiceEnded")
  <1>1. PICK q \in {Tail(queue)} \cup
               (IF engine = "on" /\ service = "active" THEN {Ask(Tail(queue), "suspend")} ELSE {}) :
          Observe(ui, q)
    BY DEF StopEngine
  <1>2. \/ q = Tail(queue)
        \/ q = Ask(Tail(queue), "suspend") /\ service = "active"
    BY <1>1
  <1>3. engine' = "off" /\ phase' = "none"
    BY DEF StopEngine
  <1> QED
    BY <1>1, <1>2, <1>3, Returns

-----------------------------------------------------------------------------
(* The steps of the controller.                                            *)

\* enable: from a resting state, and to LISTENING only with the recorder on.
LEMMA EnableKeeps ==
  ASSUME WakeInv, EnableBegins \/ EnableDecides \/ EnableStarts
  PROVE  WakeInv'
  <1> USE DEF WakeInv
  <1>0. queue # <<>> /\ Head(queue) = "enable" /\ service = "active" /\ asked
    <2>1. queue # <<>> /\ Head(queue) = "enable"
      BY DEF EnableBegins, EnableDecides, EnableStarts, Doing
    <2>2. Has(queue, "enable")
      BY <2>1, Tails DEF WakeTypeOK
    <2> QED
      BY <2>1, <2>2 DEF QueueSound, Waits, WakeTypeOK
  <1>1. ASSUME Observe(ui, Tail(queue)), UNCHANGED <<service, asked>>
        PROVE  /\ queue' \in Seq(Operations) /\ seen' \in BOOLEAN
               /\ QueueSound'
               /\ \A op \in Operations : op # Head(queue) /\ Has(queue, op) => Has(queue', op)
               /\ ~Has(queue', "voiceEnded") => seen' = Active(ui)
    BY <1>0, <1>1, Returns
  <1>2. CASE EnableBegins
    <2>1. CASE wake \in Resting
      <3>1. /\ wake' = "ENABLING" /\ phase' = "policy" /\ phase = "none"
            /\ conv' = TRUE
            /\ UNCHANGED <<queue, seen, voiceVars, engine, pending, prefs, stopping, service,
                           asked, world, refused>>
        BY <1>2, <2>1 DEF EnableBegins, Goes, Doing
      <3> QED
        BY <1>0, <3>1, <2>1 DEF WakeTypeOK, QueueSound, MutexHeld, EngineSound, WatchSound, Waits,
             Cut, Doing, Active, WakeWordStates, Phases, Resting, Operations, voiceVars, prefs, host
    <2>2. CASE wake \notin Resting
      <3>1. /\ stopping' = (stopping \/ wake # "LISTENING")
            /\ phase' = "none" /\ Observe(ui, Tail(queue)) /\ phase = "none"
            /\ UNCHANGED <<wake, conv, voiceVars, engine, pending, prefs, service, asked,
                           world, refused>>
        BY <1>2, <2>2 DEF EnableBegins, Return, Doing
      <3> QED
        BY <1>0, <1>1, <3>1 DEF WakeTypeOK, MutexHeld, EngineSound, WatchSound, Waits,
             Cut, Doing, Active, WakeWordStates, Phases, Resting, Operations, voiceVars, prefs, host
    <2> QED
      BY <2>1, <2>2
  <1>3. CASE EnableDecides
    <2>1. /\ phase = "policy"
          /\ UNCHANGED <<voiceVars, engine, pending, conv, prefs, service, asked, world, refused>>
      BY <1>3 DEF EnableDecides, Doing
    <2>2. CASE WakeAllowed /\ world.profile
      <3>1. phase' = "engine" /\ UNCHANGED <<queue, seen, wake, stopping>>
        BY <1>3, <2>2 DEF EnableDecides, Goes
      <3> QED
        BY <1>0, <2>1, <2>2, <3>1 DEF WakeAllowed, WakeTypeOK, QueueSound, MutexHeld, EngineSound, WatchSound, Waits,
             Cut, Doing, Active, WakeWordStates, Phases, Resting, Operations, voiceVars, prefs, host
    <2>3. CASE ~(WakeAllowed /\ world.profile)
      <3>1. /\ wake' \in {"ERROR", "SUSPENDED"} /\ stopping' = TRUE
            /\ phase' = "none" /\ Observe(ui, Tail(queue))
        BY <1>3, <2>3 DEF EnableDecides, Return
      <3> QED
        BY <1>0, <1>1, <2>1, <3>1 DEF WakeTypeOK, MutexHeld, EngineSound, WatchSound, Waits,
             Cut, Doing, Active, WakeWordStates, Phases, Resting, Operations, voiceVars, prefs, host
    <2> QED
      BY <2>2, <2>3
  <1>4. CASE EnableStarts
    <2>1. /\ phase = "engine" /\ phase' = "none" /\ Observe(ui, Tail(queue))
          /\ UNCHANGED <<voiceVars, conv, prefs, service, asked, world, refused>>
      BY <1>4 DEF EnableStarts, Doing, Return
    <2>2. \/ engine' \in {"on", "dead"} /\ wake' = "LISTENING" /\ UNCHANGED <<pending, stopping>>
          \/ engine' = "off" /\ wake' = "ERROR" /\ pending' = FALSE /\ stopping' = TRUE
      BY <1>4 DEF EnableStarts
    <2>t. wake' \in WakeWordStates /\ phase' \in Phases
      BY <2>1, <2>2 DEF WakeWordStates, Phases
    <2>u. engine' \in Engines /\ pending' \in BOOLEAN /\ stopping' \in BOOLEAN
      BY <2>1, <2>2 DEF WakeTypeOK
    <2>v. queue' \in Seq(Operations) /\ seen' \in BOOLEAN
      BY <1>1, <2>1
    <2>a. WakeTypeOK'
      BY <2>1, <2>t, <2>u, <2>v DEF WakeTypeOK, voiceVars, prefs
    <2>b. MutexHeld'
      BY <1>0, <1>1, <2>1, <2>2 DEF MutexHeld
    <2>c. EngineSound'
      BY <1>0, <1>1, <2>1, <2>2 DEF WakeTypeOK, EngineSound, Waits, Cut, Resting, Operations, prefs, host
    <2>d. WatchSound'
      BY <1>0, <1>1, <2>1, <2>2 DEF WakeTypeOK, WatchSound, Waits, Cut, Doing, Active, Resting, Operations,
           voiceVars, prefs, host
    <2> QED
      BY <1>0, <1>1, <2>1, <2>2, <2>a, <2>b, <2>c, <2>d DEF host
  <1> QED
    BY <1>2, <1>3, <1>4

\* disable, onHostStopped and suspendForPolicy stop the recorder, then say
\* so.
LEMMA StopKeeps ==
  ASSUME WakeInv, Disable \/ HostStopped \/ Suspend
  PROVE  WakeInv'
  <1> USE DEF WakeInv
  <1>1. /\ queue # <<>> /\ phase = "none" /\ StopEngine
        /\ UNCHANGED <<voiceVars, prefs, host, world, refused>>
    BY DEF Disable, HostStopped, Suspend, Doing
  <1>2. /\ engine' = "off" /\ phase' = "none"
        /\ queue' \in Seq(Operations) /\ seen' \in BOOLEAN
        /\ QueueSound'
        /\ \A op \in Operations : op # Head(queue) /\ Has(queue, op) => Has(queue', op)
        /\ ~Has(queue', "voiceEnded") => seen' = Active(ui)
    BY <1>1, Stops DEF host
  <1>3. /\ pending' \in BOOLEAN /\ conv' \in BOOLEAN
        /\ wake' \in Resting
    BY DEF Disable, HostStopped, Suspend, WakeTypeOK, Resting
  <1>t. engine' \in Engines /\ wake' \in WakeWordStates /\ phase' \in Phases
    BY <1>1, <1>2, <1>3 DEF WakeWordStates, Phases, Resting
  <1>a. WakeTypeOK'
    BY <1>1, <1>2, <1>3, <1>t DEF WakeTypeOK, voiceVars, prefs, host
  <1>b. MutexHeld'
    BY <1>1, <1>2, <1>3 DEF MutexHeld
  <1>c. EngineSound'
    BY <1>1, <1>2, <1>3 DEF WakeTypeOK, EngineSound, Waits, Cut, Resting, Operations, prefs, host
  <1>d. WatchSound'
    BY <1>1, <1>2, <1>3 DEF WakeTypeOK, WatchSound, Waits, Cut, Doing, Active, Resting, Operations,
         voiceVars, prefs, host
  <1> QED
    BY <1>1, <1>2, <1>3, <1>a, <1>b, <1>c, <1>d DEF host

\* resume and onVoiceSessionEnded start the recorder again.
LEMMA ResumeKeeps ==
  ASSUME WakeInv, ResumeBegins \/ ResumeDecides \/ ResumeStarts
  PROVE  WakeInv'
  <1> USE DEF WakeInv
  <1>0. /\ queue # <<>> /\ Head(queue) \in {"resume", "voiceEnded"} /\ asked
        /\ service = "active" \/ Has(queue, "hostStopped")
    <2>1. queue # <<>> /\ Head(queue) \in {"resume", "voiceEnded"}
      BY DEF ResumeBegins, ResumeDecides, ResumeStarts, Doing
    <2>2. /\ Has(queue, Head(queue))
          /\ \A op \in Operations : Has(Tail(queue), op) => Has(queue, op)
          /\ Followed(queue) => Has(Tail(queue), "hostStopped")
      BY <2>1, Tails DEF WakeTypeOK
    <2> QED
      BY <2>1, <2>2 DEF QueueSound, Waits, WakeTypeOK, Operations
  <1>1. ASSUME Observe(ui, Tail(queue)), UNCHANGED <<service, asked>>
        PROVE  /\ queue' \in Seq(Operations) /\ seen' \in BOOLEAN
               /\ QueueSound'
               /\ \A op \in Operations : op # Head(queue) /\ Has(queue, op) => Has(queue', op)
               /\ ~Has(queue', "voiceEnded") => seen' = Active(ui)
    BY <1>0, <1>1, Returns
  <1>2. CASE ResumeBegins
    <2>1. /\ phase = "none"
          /\ UNCHANGED <<voiceVars, wake, engine, pending, conv, prefs, host, world, refused>>
      BY <1>2 DEF ResumeBegins, Doing
    <2>2. CASE \/ Head(queue) = "resume" /\ wake = "SUSPENDED" /\ conv
               \/ Head(queue) = "voiceEnded" /\ wake = "ACTIVATING"
      <3>1. phase' = "policy" /\ UNCHANGED <<queue, seen>>
        BY <1>2, <2>2 DEF ResumeBegins, Goes
      <3> QED
        BY <1>0, <2>1, <2>2, <3>1 DEF WakeTypeOK, QueueSound, MutexHeld, EngineSound, WatchSound, Waits,
             Cut, Doing, Active, WakeWordStates, Phases, Resting, Operations, voiceVars, prefs, host
    <2>3. CASE ~(\/ Head(queue) = "resume" /\ wake = "SUSPENDED" /\ conv
                 \/ Head(queue) = "voiceEnded" /\ wake = "ACTIVATING")
      <3>1. phase' = "none" /\ Observe(ui, Tail(queue))
        BY <1>2, <2>3 DEF ResumeBegins, Return
      <3> QED
        BY <1>0, <1>1, <2>1, <2>3, <3>1 DEF WakeTypeOK, MutexHeld, EngineSound, WatchSound, Waits,
             Cut, Doing, Active, WakeWordStates, Phases, Resting, Operations, voiceVars, prefs, host
    <2> QED
      BY <2>2, <2>3
  <1>3. CASE ResumeDecides
    <2>1. /\ phase = "policy"
          /\ UNCHANGED <<voiceVars, engine, pending, conv, prefs, host, world, refused>>
      BY <1>3 DEF ResumeDecides, Doing
    <2>2. CASE WakeAllowed /\ world.profile
      <3>1. phase' = "engine" /\ UNCHANGED <<queue, seen, wake>>
        BY <1>3, <2>2 DEF ResumeDecides, Goes
      <3> QED
        BY <1>0, <2>1, <2>2, <3>1 DEF WakeAllowed, WakeTypeOK, QueueSound, MutexHeld, EngineSound, WatchSound, Waits,
             Cut, Doing, Active, WakeWordStates, Phases, Resting, Operations, voiceVars, prefs, host
    <2>3. CASE ~(WakeAllowed /\ world.profile)
      <3>1. wake' = "SUSPENDED" /\ phase' = "none" /\ Observe(ui, Tail(queue))
        BY <1>3, <2>3 DEF ResumeDecides, Return
      <3> QED
        BY <1>0, <1>1, <2>1, <3>1 DEF WakeTypeOK, MutexHeld, EngineSound, WatchSound, Waits,
             Cut, Doing, Active, WakeWordStates, Phases, Resting, Operations, voiceVars, prefs, host
    <2> QED
      BY <2>2, <2>3
  <1>4. CASE ResumeStarts
    <2>1. /\ phase = "engine" /\ phase' = "none" /\ Observe(ui, Tail(queue))
          /\ UNCHANGED <<voiceVars, pending, conv, prefs, host, world, refused>>
      BY <1>4 DEF ResumeStarts, Doing, Return
    <2>2. \/ engine' \in {"on", "dead"} /\ wake' = "LISTENING"
          \/ engine' = "off" /\ wake' = "ERROR"
      BY <1>4 DEF ResumeStarts
    <2>t. wake' \in WakeWordStates /\ phase' \in Phases
      BY <2>1, <2>2 DEF WakeWordStates, Phases
    <2>u. engine' \in Engines /\ pending' \in BOOLEAN /\ stopping' \in BOOLEAN
      BY <2>1, <2>2 DEF WakeTypeOK, host
    <2>v. queue' \in Seq(Operations) /\ seen' \in BOOLEAN
      BY <1>1, <2>1 DEF host
    <2>a. WakeTypeOK'
      BY <2>1, <2>t, <2>u, <2>v DEF WakeTypeOK, voiceVars, prefs, host
    <2>b. MutexHeld'
      BY <1>0, <1>1, <2>1, <2>2 DEF MutexHeld
    <2>c. EngineSound'
      BY <1>0, <1>1, <2>1, <2>2 DEF WakeTypeOK, EngineSound, Waits, Cut, Resting, Operations, prefs, host
    <2>d. WatchSound'
      BY <1>0, <1>1, <2>1, <2>2 DEF WakeTypeOK, WatchSound, Waits, Cut, Doing, Active, Resting, Operations,
           voiceVars, prefs, host
    <2> QED
      BY <1>0, <1>1, <2>1, <2>2, <2>a, <2>b, <2>c, <2>d DEF host
  <1> QED
    BY <1>2, <1>3, <1>4

\* activateManual leaves the detector as it is, or suspends it.
LEMMA ManualKeeps ==
  ASSUME WakeInv, ManualBegins \/ ManualDecides
  PROVE  WakeInv'
  <1> USE DEF WakeInv
  <1>0. queue # <<>> /\ Head(queue) = "manual"
    BY DEF ManualBegins, ManualDecides, Doing
  <1>1. ASSUME Observe(ui, Tail(queue)), UNCHANGED <<service, asked>>
        PROVE  /\ queue' \in Seq(Operations) /\ seen' \in BOOLEAN
               /\ QueueSound'
               /\ \A op \in Operations : op # Head(queue) /\ Has(queue, op) => Has(queue', op)
               /\ ~Has(queue', "voiceEnded") => seen' = Active(ui)
    BY <1>0, <1>1, Returns
  <1>s. ASSUME StopEngine, UNCHANGED <<service, asked>>
        PROVE  /\ engine' = "off" /\ phase' = "none"
               /\ queue' \in Seq(Operations) /\ seen' \in BOOLEAN
               /\ QueueSound'
               /\ \A op \in Operations : op # Head(queue) /\ Has(queue, op) => Has(queue', op)
               /\ ~Has(queue', "voiceEnded") => seen' = Active(ui)
    BY <1>0, <1>s, Stops
  <1>2. CASE ManualBegins
    <2>1. /\ phase = "none" /\ phase' = "policy" /\ UNCHANGED <<queue, seen>>
          /\ UNCHANGED <<voiceVars, wake, engine, pending, conv, prefs, host, world, refused>>
      BY <1>2 DEF ManualBegins, Goes, Doing
    <2>t. engine' \in Engines /\ wake' \in WakeWordStates /\ phase' \in Phases
      BY <1>0, <2>1 DEF WakeTypeOK, WakeWordStates, Phases, Resting
    <2>a. WakeTypeOK'
      BY <1>0, <2>1, <2>t DEF WakeTypeOK, voiceVars, prefs, host
    <2>q. QueueSound'
      BY <1>0, <2>1 DEF QueueSound, Waits, host
    <2>b. MutexHeld'
      BY <1>0, <2>1 DEF MutexHeld
    <2>c. EngineSound'
      BY <1>0, <2>1 DEF WakeTypeOK, MutexHeld, EngineSound, Waits, Cut, Resting, Operations, prefs, host
    <2>d. WatchSound'
      BY <1>0, <2>1 DEF WakeTypeOK, MutexHeld, EngineSound, WatchSound, Waits, Cut, Doing, Active, Resting,
           Operations, voiceVars, prefs, host
    <2> QED
      BY <1>0, <2>1, <2>a, <2>b, <2>c, <2>d, <2>q DEF host
  <1>3. CASE ManualDecides
    <2>1. /\ phase = "policy"
          /\ UNCHANGED <<voiceVars, pending, conv, enabled, host, world, refused>>
          /\ UNCHANGED <<service, asked>>
      BY <1>3 DEF ManualDecides, Doing, host
    <2>2. CASE ~ManualAllowed
      <3>1. /\ wake' = IF wake \in Resting THEN wake ELSE "SUSPENDED"
            /\ StopEngine /\ UNCHANGED recent
        BY <1>3, <2>2 DEF ManualDecides
      <3>2. wake' \in Resting
        BY <3>1 DEF Resting
      <3>t. engine' \in Engines /\ wake' \in WakeWordStates /\ phase' \in Phases
        BY <1>0, <1>s, <2>1, <3>1, <3>2 DEF WakeTypeOK, WakeWordStates, Phases, Resting
      <3>a. WakeTypeOK'
        BY <1>0, <1>s, <2>1, <3>1, <3>2, <3>t DEF WakeTypeOK, voiceVars, prefs, host
      <3>b. MutexHeld'
        BY <1>0, <1>s, <2>1, <3>1, <3>2 DEF MutexHeld
      <3>c. EngineSound'
        BY <1>0, <1>s, <2>1, <3>1, <3>2 DEF WakeTypeOK, MutexHeld, EngineSound, Waits, Cut, Resting, Operations, prefs, host
      <3>d. WatchSound'
        BY <1>0, <1>s, <2>1, <3>1, <3>2 DEF WakeTypeOK, MutexHeld, EngineSound, WatchSound, Waits, Cut, Doing, Active, Resting,
             Operations, voiceVars, prefs, host
      <3> QED
        BY <1>0, <1>s, <2>1, <3>1, <3>2, <3>a, <3>b, <3>c, <3>d DEF host
    <2>3. CASE ManualAllowed /\ Active(ui)
      <3>1. phase' = "none" /\ Observe(ui, Tail(queue)) /\ UNCHANGED <<wake, engine, recent>>
        BY <1>3, <2>3 DEF ManualDecides, Return
      <3>t. engine' \in Engines /\ wake' \in WakeWordStates /\ phase' \in Phases
        BY <1>0, <1>1, <2>1, <3>1 DEF WakeTypeOK, WakeWordStates, Phases, Resting
      <3>a. WakeTypeOK'
        BY <1>0, <1>1, <2>1, <3>1, <3>t DEF WakeTypeOK, voiceVars, prefs, host
      <3>b. MutexHeld'
        BY <1>0, <1>1, <2>1, <3>1 DEF MutexHeld
      <3>c. EngineSound'
        BY <1>0, <1>1, <2>1, <3>1 DEF WakeTypeOK, MutexHeld, EngineSound, Waits, Cut, Resting, Operations, prefs, host
      <3>d. WatchSound'
        BY <1>0, <1>1, <2>1, <3>1 DEF WakeTypeOK, MutexHeld, EngineSound, WatchSound, Waits, Cut, Doing, Active, Resting,
             Operations, voiceVars, prefs, host
      <3> QED
        BY <1>0, <1>1, <2>1, <3>1, <3>a, <3>b, <3>c, <3>d DEF host
    <2>4. CASE ManualAllowed /\ ~Active(ui)
      <3>1. recent' = TRUE /\ phase' = "handoff" /\ UNCHANGED <<queue, seen, wake, engine>>
        BY <1>3, <2>4 DEF ManualDecides, Goes
      <3>t. engine' \in Engines /\ wake' \in WakeWordStates /\ phase' \in Phases
        BY <1>0, <2>1, <3>1 DEF WakeTypeOK, WakeWordStates, Phases, Resting
      <3>a. WakeTypeOK'
        BY <1>0, <2>1, <3>1, <3>t DEF WakeTypeOK, voiceVars, prefs, host
      <3>q. QueueSound'
        BY <1>0, <2>1, <3>1 DEF QueueSound, Waits, host
      <3>b. MutexHeld'
        BY <1>0, <2>1, <3>1 DEF MutexHeld
      <3>c. EngineSound'
        BY <1>0, <2>1, <3>1 DEF WakeTypeOK, MutexHeld, EngineSound, Waits, Cut, Resting, Operations, prefs, host
      <3>d. WatchSound'
        BY <1>0, <2>1, <3>1 DEF WakeTypeOK, MutexHeld, EngineSound, WatchSound, Waits, Cut, Doing, Active, Resting,
             Operations, voiceVars, prefs, host
      <3> QED
        BY <1>0, <2>1, <3>1, <3>a, <3>b, <3>c, <3>d, <3>q DEF host
    <2> QED
      BY <2>2, <2>3, <2>4
  <1> QED
    BY <1>2, <1>3

\* handleWakeEvent: the recorder stops before the hand-over.
LEMMA EventKeeps ==
  ASSUME WakeInv, EventBegins \/ EventDecides
  PROVE  WakeInv'
  <1> USE DEF WakeInv
  <1>0. queue # <<>> /\ Head(queue) = "event"
    BY DEF EventBegins, EventDecides, Doing
  <1>1. ASSUME Observe(ui, Tail(queue)), UNCHANGED <<service, asked>>
        PROVE  /\ queue' \in Seq(Operations) /\ seen' \in BOOLEAN
               /\ QueueSound'
               /\ \A op \in Operations : op # Head(queue) /\ Has(queue, op) => Has(queue', op)
               /\ ~Has(queue', "voiceEnded") => seen' = Active(ui)
    BY <1>0, <1>1, Returns
  <1>s. ASSUME StopEngine, UNCHANGED <<service, asked>>
        PROVE  /\ engine' = "off" /\ phase' = "none"
               /\ queue' \in Seq(Operations) /\ seen' \in BOOLEAN
               /\ QueueSound'
               /\ \A op \in Operations : op # Head(queue) /\ Has(queue, op) => Has(queue', op)
               /\ ~Has(queue', "voiceEnded") => seen' = Active(ui)
    BY <1>0, <1>s, Stops
  <1>2. CASE EventBegins
    <2>1. /\ phase = "none"
          /\ UNCHANGED <<voiceVars, engine, conv, prefs, host, world, refused>>
      BY <1>2 DEF EventBegins, Doing
    <2>2. CASE /\ wake = "LISTENING" /\ wake' = "DETECTED" /\ phase' = "policy"
               /\ UNCHANGED <<queue, seen, pending>>
      <3>t. engine' \in Engines /\ wake' \in WakeWordStates /\ phase' \in Phases
        BY <1>0, <2>1, <2>2 DEF WakeTypeOK, WakeWordStates, Phases, Resting
      <3>a. WakeTypeOK'
        BY <1>0, <2>1, <2>2, <3>t DEF WakeTypeOK, voiceVars, prefs, host
      <3>q. QueueSound'
        BY <1>0, <2>1, <2>2 DEF QueueSound, Waits, host
      <3>b. MutexHeld'
        BY <1>0, <2>1, <2>2 DEF MutexHeld
      <3>c. EngineSound'
        BY <1>0, <2>1, <2>2 DEF WakeTypeOK, MutexHeld, EngineSound, Waits, Cut, Resting, Operations, prefs, host
      <3>d. WatchSound'
        BY <1>0, <2>1, <2>2 DEF WakeTypeOK, MutexHeld, EngineSound, WatchSound, Waits, Cut, Doing, Active, Resting,
             Operations, voiceVars, prefs, host
      <3> QED
        BY <1>0, <2>1, <2>2, <3>a, <3>b, <3>c, <3>d, <3>q DEF host
    <2>3. CASE phase' = "none" /\ Observe(ui, Tail(queue)) /\ pending' = FALSE /\ UNCHANGED wake
      <3>t. wake' \in WakeWordStates /\ phase' \in Phases
        BY <2>1, <2>3 DEF WakeTypeOK, Phases
      <3>u. pending' \in BOOLEAN
        BY <2>3
      <3>v. queue' \in Seq(Operations) /\ seen' \in BOOLEAN
        BY <1>1, <2>1, <2>3 DEF host
      <3>a. WakeTypeOK'
        BY <2>1, <3>t, <3>u, <3>v DEF WakeTypeOK, voiceVars, prefs, host
      <3>b. MutexHeld'
        BY <1>0, <1>1, <2>1, <2>3 DEF MutexHeld
      <3>c. EngineSound'
        BY <1>0, <1>1, <2>1, <2>3 DEF WakeTypeOK, MutexHeld, EngineSound, Waits, Cut, Resting, Operations, prefs, host
      <3>d. WatchSound'
        BY <1>0, <1>1, <2>1, <2>3 DEF WakeTypeOK, MutexHeld, EngineSound, WatchSound, Waits, Cut, Doing, Active, Resting,
             Operations, voiceVars, prefs, host
      <3> QED
        BY <1>0, <1>1, <2>1, <2>3, <3>a, <3>b, <3>c, <3>d DEF host
    <2> QED
      BY <1>2, <2>2, <2>3 DEF EventBegins, Goes, Return
  <1>3. CASE EventDecides
    <2>1. /\ phase = "policy" /\ wake = "DETECTED"
          /\ UNCHANGED <<voiceVars, conv, enabled, host, world, refused>>
          /\ UNCHANGED <<service, asked>>
      BY <1>0, <1>3 DEF EventDecides, Doing, MutexHeld, host
    <2>2. CASE /\ wake' = "LISTENING" /\ pending' = FALSE
               /\ phase' = "none" /\ Observe(ui, Tail(queue)) /\ UNCHANGED <<engine, recent>>
      <3>1. pending' \in BOOLEAN /\ recent' \in BOOLEAN /\ enabled' \in BOOLEAN
        BY <2>1, <2>2 DEF WakeTypeOK
      <3>t. engine' \in Engines /\ wake' \in WakeWordStates /\ phase' \in Phases
        BY <1>0, <1>1, <2>1, <2>2, <3>1 DEF WakeTypeOK, WakeWordStates, Phases, Resting
      <3>a. WakeTypeOK'
        BY <1>0, <1>1, <2>1, <2>2, <3>1, <3>t DEF WakeTypeOK, voiceVars, prefs, host
      <3>b. MutexHeld'
        BY <1>0, <1>1, <2>1, <2>2, <3>1 DEF MutexHeld
      <3>c. EngineSound'
        BY <1>0, <1>1, <2>1, <2>2, <3>1 DEF WakeTypeOK, MutexHeld, EngineSound, Waits, Cut, Resting, Operations, prefs, host
      <3>d. WatchSound'
        BY <1>0, <1>1, <2>1, <2>2, <3>1 DEF WakeTypeOK, MutexHeld, EngineSound, WatchSound, Waits, Cut, Doing, Active, Resting,
             Operations, voiceVars, prefs, host
      <3> QED
        BY <1>0, <1>1, <2>1, <2>2, <3>1, <3>a, <3>b, <3>c, <3>d DEF host
    <2>3. CASE /\ wake' = "SUSPENDED" /\ pending' = FALSE
               /\ StopEngine /\ UNCHANGED recent
      <3>1. pending' \in BOOLEAN /\ recent' \in BOOLEAN /\ enabled' \in BOOLEAN
        BY <2>1, <2>3 DEF WakeTypeOK
      <3>t. engine' \in Engines /\ wake' \in WakeWordStates /\ phase' \in Phases
        BY <1>0, <1>s, <2>1, <2>3, <3>1 DEF WakeTypeOK, WakeWordStates, Phases, Resting
      <3>a. WakeTypeOK'
        BY <1>0, <1>s, <2>1, <2>3, <3>1, <3>t DEF WakeTypeOK, voiceVars, prefs, host
      <3>b. MutexHeld'
        BY <1>0, <1>s, <2>1, <2>3, <3>1 DEF MutexHeld
      <3>c. EngineSound'
        BY <1>0, <1>s, <2>1, <2>3, <3>1 DEF WakeTypeOK, MutexHeld, EngineSound, Waits, Cut, Resting, Operations, prefs, host
      <3>d. WatchSound'
        BY <1>0, <1>s, <2>1, <2>3, <3>1 DEF WakeTypeOK, MutexHeld, EngineSound, WatchSound, Waits, Cut, Doing, Active, Resting,
             Operations, voiceVars, prefs, host
      <3> QED
        BY <1>0, <1>s, <2>1, <2>3, <3>1, <3>a, <3>b, <3>c, <3>d DEF host
    <2>4. CASE /\ WakeAllowed /\ Active(ui)
               /\ wake' = "ACTIVATING" /\ pending' = FALSE
               /\ StopEngine /\ UNCHANGED recent
      <3>1. /\ enabled /\ pending' \in BOOLEAN /\ recent' \in BOOLEAN
            /\ enabled' \in BOOLEAN
        BY <2>1, <2>4 DEF WakeAllowed, WakeTypeOK
      <3>t. engine' \in Engines /\ wake' \in WakeWordStates /\ phase' \in Phases
        BY <1>0, <1>s, <2>1, <2>4, <3>1 DEF WakeTypeOK, WakeWordStates, Phases, Resting
      <3>a. WakeTypeOK'
        BY <1>0, <1>s, <2>1, <2>4, <3>1, <3>t DEF WakeTypeOK, voiceVars, prefs, host
      <3>b. MutexHeld'
        BY <1>0, <1>s, <2>1, <2>4, <3>1 DEF MutexHeld
      <3>c. EngineSound'
        BY <1>0, <1>s, <2>1, <2>4, <3>1 DEF WakeTypeOK, MutexHeld, EngineSound, Waits, Cut, Resting, Operations, prefs, host
      <3>d. WatchSound'
        BY <1>0, <1>s, <2>1, <2>4, <3>1 DEF WakeTypeOK, MutexHeld, EngineSound, WatchSound, Waits, Cut, Doing, Active, Resting,
             Operations, voiceVars, prefs, host
      <3> QED
        BY <1>0, <1>s, <2>1, <2>4, <3>1, <3>a, <3>b, <3>c, <3>d DEF host
    <2>5. CASE /\ WakeAllowed
               /\ wake' = "ACTIVATING" /\ engine' = "off" /\ recent' = TRUE
               /\ phase' = "handoff" /\ UNCHANGED <<seen, pending>>
               /\ queue' \in {queue} \cup
                    IF engine = "on" /\ service = "active" THEN {Ask(queue, "suspend")} ELSE {}
      <3>1. enabled
        BY <2>5 DEF WakeAllowed
      <3>2. queue' = queue \/ (queue' = Append(queue, "suspend") /\ service = "active")
        BY <2>5 DEF Ask
      <3>3. "suspend" \in Operations /\ "enable" \in Operations
        BY DEF Operations
      <3>4. /\ queue' \in Seq(Operations) /\ queue' # <<>> /\ Head(queue') = "event"
            /\ OneEnable(queue') /\ (service = "active" \/ Followed(queue'))
            /\ \A op \in Operations : Has(queue, op) => Has(queue', op)
            /\ \A op \in Operations : Has(queue', op) => Has(queue, op) \/ op = "suspend"
        <4>1. queue \in Seq(Operations) /\ OneEnable(queue)
              /\ (service = "active" \/ Followed(queue))
          BY DEF WakeTypeOK, QueueSound
        <4>2. CASE queue' = queue
          BY <1>0, <4>1, <4>2
        <4>3. CASE queue' = Append(queue, "suspend") /\ service = "active"
          BY <1>0, <3>3, <4>1, <4>3, Appends
        <4> QED
          BY <3>2, <4>2, <4>3
      <3>5. QueueSound'
        BY <2>1, <3>4 DEF QueueSound, Waits, host, Operations
      <3>t. engine' \in Engines /\ wake' \in WakeWordStates /\ phase' \in Phases
        BY <1>0, <2>1, <2>5, <3>1, <3>4, <3>5 DEF WakeTypeOK, WakeWordStates, Phases, Resting
      <3>a. WakeTypeOK'
        BY <1>0, <2>1, <2>5, <3>1, <3>4, <3>5, <3>t DEF WakeTypeOK, voiceVars, prefs, host
      <3>b. MutexHeld'
        BY <1>0, <2>1, <2>5, <3>1, <3>4, <3>5 DEF MutexHeld
      <3>c. EngineSound'
        BY <1>0, <2>1, <2>5, <3>1, <3>4, <3>5 DEF WakeTypeOK, MutexHeld, EngineSound, Waits, Cut, Resting, Operations, prefs, host
      <3>d. WatchSound'
        BY <1>0, <2>1, <2>5, <3>1, <3>4, <3>5 DEF WakeTypeOK, MutexHeld, EngineSound, WatchSound, Waits, Cut, Doing, Active, Resting,
             Operations, voiceVars, prefs, host
      <3> QED
        BY <1>0, <2>1, <2>5, <3>1, <3>4, <3>5, <3>a, <3>b, <3>c, <3>d DEF host
    <2> QED
      BY <1>3, <2>2, <2>3, <2>4, <2>5 DEF EventDecides, Return
  <1> QED
    BY <1>2, <1>3

\* The hand-over to the voice session, which may refuse it.
LEMMA HandOffKeeps ==
  ASSUME WakeInv, HandOff
  PROVE  WakeInv'
  <1> USE DEF WakeInv
  <1>0. /\ queue # <<>> /\ Head(queue) \in {"manual", "event"} /\ phase = "handoff"
        /\ phase' = "none" /\ pending' \in BOOLEAN
        /\ UNCHANGED <<engine, conv, prefs, host, world>>
    BY DEF HandOff, Doing, WakeTypeOK
  <1>1. Head(queue) = "event" => wake = "ACTIVATING"
    BY <1>0 DEF MutexHeld
  <1>2. \E u : Observe(u, Tail(queue)) /\ u = ui'
    BY DEF HandOff, Voice!Start, voiceVars
  <1>3. /\ queue' \in Seq(Operations) /\ seen' \in BOOLEAN
        /\ QueueSound'
        /\ \A op \in Operations : op # Head(queue) /\ Has(queue, op) => Has(queue', op)
        /\ ~Has(queue', "voiceEnded") => seen' = Active(ui')
    BY <1>0, <1>2, Returns DEF host
  <1>4. CASE /\ slot' = "running" /\ ui' = "Active" /\ UNCHANGED mic
             /\ refused' = FALSE /\ UNCHANGED wake
    <2>t. engine' \in Engines /\ wake' \in WakeWordStates /\ phase' \in Phases
      BY <1>0, <1>1, <1>3, <1>4 DEF WakeTypeOK, WakeWordStates, Phases, Resting
    <2>a. WakeTypeOK'
      BY <1>0, <1>1, <1>3, <1>4, <2>t DEF WakeTypeOK, voiceVars, prefs, host
    <2>b. MutexHeld'
      BY <1>0, <1>1, <1>3, <1>4 DEF MutexHeld
    <2>c. EngineSound'
      BY <1>0, <1>1, <1>3, <1>4 DEF WakeTypeOK, MutexHeld, EngineSound, Waits, Cut, Resting, Operations, prefs, host
    <2>d. WatchSound'
      BY <1>0, <1>1, <1>3, <1>4 DEF WakeTypeOK, MutexHeld, EngineSound, WatchSound, Waits, Cut, Doing, Active, Resting,
           Operations, voiceVars, prefs, host
    <2> QED
      BY <1>0, <1>1, <1>3, <1>4, <2>a, <2>b, <2>c, <2>d DEF host
  <1>5. CASE /\ refused' \in BOOLEAN /\ wake' \in {wake, "SUSPENDED"}
             /\ Head(queue) = "event" /\ wake' = "ACTIVATING" => Active(ui) \/ refused'
             /\ Head(queue) # "event" => refused' = refused /\ wake' = wake
             /\ UNCHANGED voiceVars
    <2>t. engine' \in Engines /\ wake' \in WakeWordStates /\ phase' \in Phases
      BY <1>0, <1>1, <1>3, <1>5 DEF WakeTypeOK, WakeWordStates, Phases, Resting
    <2>a. WakeTypeOK'
      BY <1>0, <1>1, <1>3, <1>5, <2>t DEF WakeTypeOK, voiceVars, prefs, host
    <2>b. MutexHeld'
      BY <1>0, <1>1, <1>3, <1>5 DEF MutexHeld
    <2>c. EngineSound'
      BY <1>0, <1>1, <1>3, <1>5 DEF WakeTypeOK, MutexHeld, EngineSound, Waits, Cut, Resting, Operations, prefs, host
    <2>d. WatchSound'
      BY <1>0, <1>1, <1>3, <1>5 DEF WakeTypeOK, MutexHeld, EngineSound, WatchSound, Waits, Cut, Doing, Active, Resting,
           Operations, voiceVars, prefs, host
    <2> QED
      BY <1>0, <1>1, <1>3, <1>5, <2>a, <2>b, <2>c, <2>d DEF host
  <1>6. \/ /\ slot' = "running" /\ ui' = "Active" /\ UNCHANGED mic
           /\ refused' = FALSE /\ UNCHANGED wake
        \/ /\ wake' = IF Head(queue) = "event" THEN "SUSPENDED" ELSE wake
           /\ refused' = (refused /\ Head(queue) # "event")
           /\ UNCHANGED voiceVars
        \/ /\ wake' = IF Head(queue) = "event" /\ ui = "Failed" THEN "SUSPENDED" ELSE wake
           /\ refused' = IF Head(queue) = "event" THEN ui = "Idle" ELSE refused
           /\ UNCHANGED voiceVars
    BY DEF HandOff, Voice!Start
  <1> QED
    BY <1>1, <1>4, <1>5, <1>6 DEF WakeTypeOK, Active

-----------------------------------------------------------------------------
(* The steps of the rest.                                                  *)

\* One operation more waits, or none.
LEMMA Grows ==
  ASSUME WakeTypeOK, QueueSound, NEW x \in Operations, x # "enable" \/ ~Waits("enable"),
         \/ queue' = queue
         \/ /\ queue' = Append(queue, x)
            /\ x \in {"resume", "voiceEnded"} => service = "active"
  PROVE  /\ queue' \in Seq(Operations) /\ OneEnable(queue')
         /\ service = "active" \/ Followed(queue')
         /\ \A op \in Operations : Has(queue, op) => Has(queue', op)
         /\ \A op \in Operations : Has(queue', op) => Has(queue, op) \/ (op = x /\ queue' # queue)
         /\ queue # <<>> => queue' # <<>> /\ Head(queue') = Head(queue)
  <1>1. /\ queue \in Seq(Operations) /\ OneEnable(queue)
        /\ service = "active" \/ Followed(queue)
    BY DEF WakeTypeOK, QueueSound
  <1>2. CASE queue' = queue
    BY <1>1, <1>2
  <1>3. CASE /\ queue' = Append(queue, x)
             /\ x \in {"resume", "voiceEnded"} => service = "active"
    <2>1. Append(queue, x) # queue
      BY <1>1
    <2>2. /\ queue' \in Seq(Operations) /\ queue' # <<>>
          /\ \A op \in Operations : Has(queue', op) <=> Has(queue, op) \/ op = x
          /\ OneEnable(queue')
          /\ Followed(queue) /\ x \notin {"resume", "voiceEnded"} => Followed(queue')
          /\ queue # <<>> => Head(queue') = Head(queue)
      BY <1>1, <1>3, Appends DEF Waits
    <2> QED
      BY <1>1, <1>3, <2>1, <2>2
  <1> QED
    BY <1>2, <1>3

\* The engine hears the wake word.
LEMMA DetectKeeps ==
  ASSUME WakeInv, Detect
  PROVE  WakeInv'
  <1> USE DEF WakeInv
  <1>0. {"event", "suspend", "enable", "disable", "manual", "resume", "hostStopped",
         "voiceEnded"} \subseteq Operations
    BY DEF Operations
  <1>1. /\ engine = "on" /\ pending' = TRUE /\ queue' = Append(queue, "event")
        /\ UNCHANGED <<voiceVars, wake, engine, conv, phase, seen, prefs, host, world, refused>>
    BY DEF Detect, WakeTypeOK, Waits
  <1>2. /\ queue' \in Seq(Operations) /\ OneEnable(queue')
        /\ service = "active" \/ Followed(queue')
        /\ \A op \in Operations : Has(queue, op) => Has(queue', op)
        /\ \A op \in Operations : Has(queue', op) =>
             Has(queue, op) \/ (op = "event" /\ queue' # queue)
        /\ queue # <<>> => queue' # <<>> /\ Head(queue') = Head(queue)
    BY <1>0, <1>1, Grows DEF Waits
  <1>3. queue' = Append(queue, "event") => Has(queue', "event")
    BY <1>0, Appends DEF WakeTypeOK
  <1>a. WakeTypeOK'
    BY <1>0, <1>1, <1>2, <1>3 DEF WakeTypeOK, World, voiceVars, prefs, host
  <1>q. QueueSound'
    BY <1>0, <1>1, <1>2, <1>3 DEF QueueSound, Waits, host
  <1>b. MutexHeld'
    BY <1>0, <1>1, <1>2, <1>3 DEF MutexHeld
  <1>c. EngineSound'
    BY <1>0, <1>1, <1>2, <1>3 DEF WakeTypeOK, EngineSound, Waits, Cut, prefs, host
  <1>d. WatchSound'
    BY <1>0, <1>1, <1>2, <1>3 DEF WakeTypeOK, WatchSound, EngineSound, MutexHeld, Waits, Cut, Doing, Active, voiceVars, prefs, host
  <1> QED
    BY <1>a, <1>b, <1>c, <1>d, <1>q

\* The engine loses the microphone: a suspension waits, or nobody is told.
LEMMA MicrophoneLostKeeps ==
  ASSUME WakeInv, MicrophoneLost
  PROVE  WakeInv'
  <1> USE DEF WakeInv
  <1>0. {"event", "suspend", "enable", "disable", "manual", "resume", "hostStopped",
         "voiceEnded"} \subseteq Operations
    BY DEF Operations
  <1>1. /\ engine = "on"
        /\ \/ engine' = "off" /\ service = "active" /\ queue' = Append(queue, "suspend")
           \/ engine' = "off" /\ service # "active" /\ queue' = queue
           \/ engine' = "dead" /\ queue' = queue
        /\ UNCHANGED <<voiceVars, wake, pending, conv, phase, seen, prefs, host, world, refused>>
    BY DEF MicrophoneLost, WakeTypeOK, Waits
  <1>2. /\ queue' \in Seq(Operations) /\ OneEnable(queue')
        /\ service = "active" \/ Followed(queue')
        /\ \A op \in Operations : Has(queue, op) => Has(queue', op)
        /\ \A op \in Operations : Has(queue', op) =>
             Has(queue, op) \/ (op = "suspend" /\ queue' # queue)
        /\ queue # <<>> => queue' # <<>> /\ Head(queue') = Head(queue)
    BY <1>0, <1>1, Grows DEF Waits
  <1>3. queue' = Append(queue, "suspend") => Has(queue', "suspend")
    BY <1>0, Appends DEF WakeTypeOK
  <1>4. engine' \in Engines
    BY <1>1
  <1>a. WakeTypeOK'
    BY <1>1, <1>2, <1>4 DEF WakeTypeOK, voiceVars, prefs, host
  <1>q. QueueSound'
    BY <1>0, <1>1, <1>2, <1>3 DEF QueueSound, Waits, host
  <1>b. MutexHeld'
    BY <1>0, <1>1, <1>2, <1>3 DEF MutexHeld
  <1>c. EngineSound'
    BY <1>0, <1>1, <1>2, <1>3 DEF WakeTypeOK, EngineSound, Waits, Cut, prefs, host
  <1>d. WatchSound'
    BY <1>0, <1>1, <1>2, <1>3 DEF WakeTypeOK, WatchSound, EngineSound, MutexHeld, Waits, Cut, Doing, Active, voiceVars, prefs, host
  <1> QED
    BY <1>a, <1>b, <1>c, <1>d, <1>q

\* onStartCommand: an enable waits, or the service stops itself.
LEMMA ServiceStartsKeeps ==
  ASSUME WakeInv, ServiceStarts
  PROVE  WakeInv'
  <1> USE DEF WakeInv
  <1>0. {"event", "suspend", "enable", "disable", "manual", "resume", "hostStopped",
         "voiceEnded"} \subseteq Operations
    BY DEF Operations
  <1>1. /\ service # "none" /\ ~Has(queue, "enable")
        /\ \/ stopping' = TRUE /\ service' = service /\ queue' = queue
           \/ /\ stopping' = stopping /\ service' = "active"
              /\ queue' = Append(queue, "enable")
           \/ stopping' = TRUE /\ service' = "active" /\ queue' = queue
        /\ UNCHANGED <<voiceVars, wake, engine, pending, conv, phase, seen, prefs, asked, world, refused>>
    BY DEF ServiceStarts, WakeTypeOK, Waits
  <1>2. /\ queue' \in Seq(Operations) /\ OneEnable(queue')
        /\ service = "active" \/ Followed(queue')
        /\ \A op \in Operations : Has(queue, op) => Has(queue', op)
        /\ \A op \in Operations : Has(queue', op) =>
             Has(queue, op) \/ (op = "enable" /\ queue' # queue)
        /\ queue # <<>> => queue' # <<>> /\ Head(queue') = Head(queue)
    BY <1>0, <1>1, Grows DEF Waits
  <1>3. queue' = Append(queue, "enable") => Has(queue', "enable")
    BY <1>0, Appends DEF WakeTypeOK
  <1>4. service' \in {"none", "asked", "active"} /\ stopping' \in BOOLEAN
    BY <1>1 DEF WakeTypeOK
  <1>a. WakeTypeOK'
    BY <1>1, <1>2, <1>4 DEF WakeTypeOK, voiceVars, prefs
  <1>q. QueueSound'
    BY <1>0, <1>1, <1>2, <1>3 DEF QueueSound, Waits, host
  <1>b. MutexHeld'
    BY <1>0, <1>1, <1>2, <1>3 DEF MutexHeld
  <1>c. EngineSound'
    BY <1>0, <1>1, <1>2, <1>3 DEF WakeTypeOK, EngineSound, Waits, Cut, prefs, host
  <1>d. WatchSound'
    BY <1>0, <1>1, <1>2, <1>3 DEF WakeTypeOK, WatchSound, EngineSound, MutexHeld, Waits, Cut, Doing, Active, voiceVars, prefs, host
  <1> QED
    BY <1>a, <1>b, <1>c, <1>d, <1>q

\* The user opts out: a disable waits.
LEMMA DisableFromUiKeeps ==
  ASSUME WakeInv, DisableFromUi
  PROVE  WakeInv'
  <1> USE DEF WakeInv
  <1>0. {"event", "suspend", "enable", "disable", "manual", "resume", "hostStopped",
         "voiceEnded"} \subseteq Operations
    BY DEF Operations
  <1>1. /\ enabled /\ enabled' = FALSE /\ recent' = FALSE
        /\ queue' = Append(queue, "disable")
        /\ \/ service = "asked" /\ service' = "none"
           \/ service # "asked" /\ service' = service
        /\ stopping' \in BOOLEAN
        /\ UNCHANGED <<voiceVars, wake, engine, pending, conv, phase, seen, asked, world, refused>>
    BY DEF DisableFromUi, WakeTypeOK, Waits
  <1>2. /\ queue' \in Seq(Operations) /\ OneEnable(queue')
        /\ service = "active" \/ Followed(queue')
        /\ \A op \in Operations : Has(queue, op) => Has(queue', op)
        /\ \A op \in Operations : Has(queue', op) =>
             Has(queue, op) \/ (op = "disable" /\ queue' # queue)
        /\ queue # <<>> => queue' # <<>> /\ Head(queue') = Head(queue)
    BY <1>0, <1>1, Grows DEF Waits
  <1>3. queue' = Append(queue, "disable") => Has(queue', "disable")
    BY <1>0, Appends DEF WakeTypeOK
  <1>4. /\ service' \in {"none", "asked", "active"}
        /\ enabled' \in BOOLEAN /\ recent' \in BOOLEAN
    BY <1>1 DEF WakeTypeOK
  <1>a. WakeTypeOK'
    BY <1>1, <1>2, <1>4 DEF WakeTypeOK, voiceVars
  <1>q. QueueSound'
    BY <1>0, <1>1, <1>2, <1>3 DEF QueueSound, Waits, host
  <1>b. MutexHeld'
    BY <1>0, <1>1, <1>2, <1>3 DEF MutexHeld
  <1>c. EngineSound'
    BY <1>0, <1>1, <1>2, <1>3 DEF WakeTypeOK, EngineSound, Waits, Cut, prefs, host
  <1>d. WatchSound'
    BY <1>0, <1>1, <1>2, <1>3 DEF WakeTypeOK, WatchSound, EngineSound, MutexHeld, Waits, Cut, Doing, Active, voiceVars, prefs, host
  <1> QED
    BY <1>a, <1>b, <1>c, <1>d, <1>q

\* The button that starts a conversation.
LEMMA ActivateManualKeeps ==
  ASSUME WakeInv, ActivateManual
  PROVE  WakeInv'
  <1> USE DEF WakeInv
  <1>0. {"event", "suspend", "enable", "disable", "manual", "resume", "hostStopped",
         "voiceEnded"} \subseteq Operations
    BY DEF Operations
  <1>1. /\ queue' = Append(queue, "manual")
        /\ UNCHANGED <<voiceVars, wake, engine, pending, conv, phase, seen, prefs, host, world, refused>>
    BY DEF ActivateManual, WakeTypeOK, Waits
  <1>2. /\ queue' \in Seq(Operations) /\ OneEnable(queue')
        /\ service = "active" \/ Followed(queue')
        /\ \A op \in Operations : Has(queue, op) => Has(queue', op)
        /\ \A op \in Operations : Has(queue', op) =>
             Has(queue, op) \/ (op = "manual" /\ queue' # queue)
        /\ queue # <<>> => queue' # <<>> /\ Head(queue') = Head(queue)
    BY <1>0, <1>1, Grows DEF Waits
  <1>3. queue' = Append(queue, "manual") => Has(queue', "manual")
    BY <1>0, Appends DEF WakeTypeOK
  <1>a. WakeTypeOK'
    BY <1>0, <1>1, <1>2, <1>3 DEF WakeTypeOK, World, voiceVars, prefs, host
  <1>q. QueueSound'
    BY <1>0, <1>1, <1>2, <1>3 DEF QueueSound, Waits, host
  <1>b. MutexHeld'
    BY <1>0, <1>1, <1>2, <1>3 DEF MutexHeld
  <1>c. EngineSound'
    BY <1>0, <1>1, <1>2, <1>3 DEF WakeTypeOK, EngineSound, Waits, Cut, prefs, host
  <1>d. WatchSound'
    BY <1>0, <1>1, <1>2, <1>3 DEF WakeTypeOK, WatchSound, EngineSound, MutexHeld, Waits, Cut, Doing, Active, voiceVars, prefs, host
  <1> QED
    BY <1>a, <1>b, <1>c, <1>d, <1>q

\* A restriction is announced.
LEMMA RestrictionKeeps ==
  ASSUME WakeInv, Restriction
  PROVE  WakeInv'
  <1> USE DEF WakeInv
  <1>0. {"event", "suspend", "enable", "disable", "manual", "resume", "hostStopped",
         "voiceEnded"} \subseteq Operations
    BY DEF Operations
  <1>1. /\ world' \in World
        /\ \/ service = "active" /\ queue' = Append(queue, "suspend")
           \/ queue' = queue
        /\ UNCHANGED <<voiceVars, wake, engine, pending, conv, phase, seen, prefs, host, refused>>
    BY DEF Restriction, WakeTypeOK, World
  <1>2. /\ queue' \in Seq(Operations) /\ OneEnable(queue')
        /\ service = "active" \/ Followed(queue')
        /\ \A op \in Operations : Has(queue, op) => Has(queue', op)
        /\ \A op \in Operations : Has(queue', op) =>
             Has(queue, op) \/ (op = "suspend" /\ queue' # queue)
        /\ queue # <<>> => queue' # <<>> /\ Head(queue') = Head(queue)
    BY <1>0, <1>1, Grows DEF Waits
  <1>3. queue' = Append(queue, "suspend") => Has(queue', "suspend")
    BY <1>0, Appends DEF WakeTypeOK
  <1>a. WakeTypeOK'
    BY <1>0, <1>1, <1>2, <1>3 DEF WakeTypeOK, World, voiceVars, prefs, host
  <1>q. QueueSound'
    BY <1>0, <1>1, <1>2, <1>3 DEF QueueSound, Waits, host
  <1>b. MutexHeld'
    BY <1>0, <1>1, <1>2, <1>3 DEF MutexHeld
  <1>c. EngineSound'
    BY <1>0, <1>1, <1>2, <1>3 DEF WakeTypeOK, EngineSound, Waits, Cut, prefs, host
  <1>d. WatchSound'
    BY <1>0, <1>1, <1>2, <1>3 DEF WakeTypeOK, WatchSound, EngineSound, MutexHeld, Waits, Cut, Doing, Active, voiceVars, prefs, host
  <1> QED
    BY <1>a, <1>b, <1>c, <1>d, <1>q

\* The end of a restriction is announced.
LEMMA LiftedKeeps ==
  ASSUME WakeInv, Lifted
  PROVE  WakeInv'
  <1> USE DEF WakeInv
  <1>0. {"event", "suspend", "enable", "disable", "manual", "resume", "hostStopped",
         "voiceEnded"} \subseteq Operations
    BY DEF Operations
  <1>1. /\ world' \in World
        /\ service = "active" /\ queue' = Append(queue, "resume")
        /\ UNCHANGED <<voiceVars, wake, engine, pending, conv, phase, seen, prefs, host, refused>>
    BY DEF Lifted, WakeTypeOK, World
  <1>2. /\ queue' \in Seq(Operations) /\ OneEnable(queue')
        /\ service = "active" \/ Followed(queue')
        /\ \A op \in Operations : Has(queue, op) => Has(queue', op)
        /\ \A op \in Operations : Has(queue', op) =>
             Has(queue, op) \/ (op = "resume" /\ queue' # queue)
        /\ queue # <<>> => queue' # <<>> /\ Head(queue') = Head(queue)
    BY <1>0, <1>1, Grows DEF Waits
  <1>3. queue' = Append(queue, "resume") => Has(queue', "resume")
    BY <1>0, Appends DEF WakeTypeOK
  <1>a. WakeTypeOK'
    BY <1>0, <1>1, <1>2, <1>3 DEF WakeTypeOK, World, voiceVars, prefs, host
  <1>q. QueueSound'
    BY <1>0, <1>1, <1>2, <1>3 DEF QueueSound, Waits, host
  <1>b. MutexHeld'
    BY <1>0, <1>1, <1>2, <1>3 DEF MutexHeld
  <1>c. EngineSound'
    BY <1>0, <1>1, <1>2, <1>3 DEF WakeTypeOK, EngineSound, Waits, Cut, prefs, host
  <1>d. WatchSound'
    BY <1>0, <1>1, <1>2, <1>3 DEF WakeTypeOK, WatchSound, EngineSound, MutexHeld, Waits, Cut, Doing, Active, voiceVars, prefs, host
  <1> QED
    BY <1>a, <1>b, <1>c, <1>d, <1>q

\* What leaves the queue alone.
LEMMA QuietKeeps ==
  ASSUME WakeInv, EnableFromVisibleUi \/ Reconnect \/ RefractoryPasses \/ UNCHANGED wakeVars
  PROVE  WakeInv'
  <1> USE DEF WakeInv
  <1>1. CASE EnableFromVisibleUi
    <2>1. /\ enabled' = TRUE /\ asked' = TRUE
          /\ \/ service = "none" /\ service' = "asked"
             \/ service # "none" /\ service' = service
          /\ UNCHANGED <<voiceVars, wake, engine, pending, conv, queue, phase, seen, recent,
                         stopping, world, refused>>
      BY <1>1 DEF EnableFromVisibleUi, control
    <2>a. WakeTypeOK'
      BY <2>1 DEF WakeTypeOK, World, voiceVars, prefs, host
    <2>q. QueueSound'
      BY <2>1 DEF QueueSound, Waits, host
    <2>b. MutexHeld'
      BY <2>1 DEF MutexHeld
    <2>c. EngineSound'
      BY <2>1 DEF WakeTypeOK, EngineSound, Waits, Cut, prefs, host
    <2>d. WatchSound'
      BY <2>1 DEF WakeTypeOK, WatchSound, EngineSound, MutexHeld, Waits, Cut, Doing, Active, voiceVars, prefs, host
    <2> QED
      BY <2>a, <2>b, <2>c, <2>d, <2>q
  <1>2. CASE Reconnect \/ RefractoryPasses \/ UNCHANGED wakeVars
    <2>1. /\ world' \in World /\ recent' \in BOOLEAN
          /\ UNCHANGED <<voiceVars, wake, engine, pending, conv, queue, phase, seen, enabled,
                         service, stopping, asked, refused>>
      BY <1>2 DEF Reconnect, RefractoryPasses, wakeVars, control, prefs, host, voiceVars, WakeTypeOK, World
    <2>a. WakeTypeOK'
      BY <2>1 DEF WakeTypeOK, World, voiceVars, prefs, host
    <2>q. QueueSound'
      BY <2>1 DEF QueueSound, Waits, host
    <2>b. MutexHeld'
      BY <2>1 DEF MutexHeld
    <2>c. EngineSound'
      BY <2>1 DEF WakeTypeOK, EngineSound, Waits, Cut, prefs, host
    <2>d. WatchSound'
      BY <2>1 DEF WakeTypeOK, WatchSound, EngineSound, MutexHeld, Waits, Cut, Doing, Active, voiceVars, prefs, host
    <2> QED
      BY <2>a, <2>b, <2>c, <2>d, <2>q
  <1> QED
    BY <1>1, <1>2

\* onDestroy: the enable is cancelled, and onHostStopped waits.
LEMMA ServiceDestroyedKeeps ==
  ASSUME WakeInv, ServiceDestroyed
  PROVE  WakeInv'
  <1> USE DEF WakeInv
  <1>0. {"event", "suspend", "enable", "disable", "manual", "resume", "hostStopped",
         "voiceEnded"} \subseteq Operations
    BY DEF Operations
  <1> DEFINE rest == Cancelled(queue)
  <1>1. /\ rest \in Seq(Operations)
        /\ ~Has(rest, "enable")
        /\ \A op \in Operations : Has(rest, op) => Has(queue, op)
        /\ \A op \in Operations : Has(queue, op) /\ op # "enable" => Has(rest, op)
        /\ OneEnable(rest)
        /\ queue # <<>> /\ Head(queue) # "enable" => rest # <<>> /\ Head(rest) = Head(queue)
    BY Cancels DEF WakeTypeOK, QueueSound
  <1>2. queue' = Append(rest, "hostStopped")
    BY DEF ServiceDestroyed
  <1> HIDE DEF rest
  <1>3. /\ queue' \in Seq(Operations) /\ queue' # <<>>
        /\ \A op \in Operations : Has(queue', op) <=> Has(rest, op) \/ op = "hostStopped"
        /\ OneEnable(queue') /\ Followed(queue')
        /\ rest # <<>> => Head(queue') = Head(rest)
    BY <1>0, <1>1, <1>2, Appends
  <1>4. /\ stopping' = FALSE /\ service' = "none"
        /\ UNCHANGED <<voiceVars, engine, pending, conv, seen, prefs, asked, world, refused>>
        /\ \/ /\ queue # <<>> /\ Head(queue) = "enable" /\ phase' = "none"
              /\ \/ phase = "engine" /\ wake' = "ERROR"
                 \/ phase # "engine" /\ wake' = wake
           \/ ~(queue # <<>> /\ Head(queue) = "enable") /\ UNCHANGED <<wake, phase>>
    BY DEF ServiceDestroyed
  <1>5. wake' \in WakeWordStates /\ phase' \in Phases
    BY <1>4 DEF WakeTypeOK, WakeWordStates, Phases
  <1>6. wake' = wake \/ wake = "ENABLING"
    BY <1>4 DEF MutexHeld
  <1>7. phase' = "none" \/ (phase' = phase /\ wake' = wake /\ Head(queue) # "enable")
    BY <1>4 DEF MutexHeld
  <1>8. stopping' \in BOOLEAN /\ service' \in {"none", "asked", "active"}
    BY <1>4
  <1>a. WakeTypeOK'
    <2>1. UNCHANGED <<voiceVars, engine, pending, conv, seen, prefs, asked, world, refused>>
      BY <1>4
    <2> QED
      BY <1>3, <1>5, <1>8, <2>1 DEF WakeTypeOK, voiceVars, prefs
  <1>q. QueueSound'
    BY <1>0, <1>1, <1>3, <1>4 DEF QueueSound, Waits
  <1>b. MutexHeld'
    BY <1>1, <1>3, <1>4, <1>7 DEF MutexHeld
  <1>c. EngineSound'
    BY <1>0, <1>1, <1>3, <1>4, <1>6, <1>7 DEF WakeTypeOK, EngineSound, Waits, Cut, prefs
  <1>d. WatchSound'
    BY <1>0, <1>1, <1>3, <1>4 DEF WakeTypeOK, WatchSound, Waits, Cut, Active, voiceVars, prefs
  <1> QED
    BY <1>a, <1>b, <1>c, <1>d, <1>q

\* The voice session moves, and the collector of uiState sees it or waits.
LEMMA VoiceGoesOnKeeps ==
  ASSUME WakeInv, VoiceGoesOn
  PROVE  WakeInv'
  <1> USE DEF WakeInv
  <1>0. {"event", "suspend", "enable", "disable", "manual", "resume", "hostStopped",
         "voiceEnded"} \subseteq Operations
    BY DEF Operations
  <1>1. /\ ui' \in {"Idle", "Active", "Failed"}
        /\ slot' \in {"empty", "running", "cleaning"} /\ mic' \in BOOLEAN
    BY DEF VoiceGoesOn, Voice!UseMic, Voice!End, Voice!Fail, Voice!SeeEnded, Voice!CleanedUp, WakeTypeOK
  <1>2. UNCHANGED <<wake, engine, pending, conv, phase, prefs, host, world, refused>>
    BY DEF VoiceGoesOn
  <1>3. \E u : Observe(u, queue) /\ u = ui'
    BY DEF VoiceGoesOn
  <1>4. /\ queue' \in Seq(Operations) /\ seen' \in BOOLEAN
        /\ \A op \in Operations : Has(queue, op) => Has(queue', op)
        /\ \A op \in Operations : Has(queue', op) =>
             Has(queue, op) \/ (op = "voiceEnded" /\ service = "active")
        /\ OneEnable(queue) => OneEnable(queue')
        /\ service = "active" \/ Followed(queue) => service = "active" \/ Followed(queue')
        /\ ~Has(queue', "voiceEnded") => seen' = Active(ui')
        /\ seen /\ ~Active(ui') /\ service = "active" /\ enabled => Has(queue', "voiceEnded")
    BY <1>3, Observes DEF WakeTypeOK
  <1>5. queue # <<>> => queue' # <<>> /\ Head(queue') = Head(queue)
    <2>1. queue' = queue \/ queue' = Append(queue, "voiceEnded")
      BY DEF VoiceGoesOn, Observe
    <2> QED
      BY <1>0, <2>1, Appends DEF WakeTypeOK
  <1>a. WakeTypeOK'
    BY <1>0, <1>1, <1>2, <1>4, <1>5 DEF WakeTypeOK, World, voiceVars, prefs, host
  <1>q. QueueSound'
    BY <1>0, <1>1, <1>2, <1>4, <1>5 DEF QueueSound, Waits, host
  <1>b. MutexHeld'
    BY <1>0, <1>1, <1>2, <1>4, <1>5 DEF MutexHeld
  <1>c. EngineSound'
    BY <1>0, <1>1, <1>2, <1>4, <1>5 DEF WakeTypeOK, EngineSound, Waits, Cut, prefs, host
  <1>d. WatchSound'
    BY <1>0, <1>1, <1>2, <1>4, <1>5 DEF WakeTypeOK, WatchSound, EngineSound, MutexHeld, Waits, Cut, Doing, Active, voiceVars, prefs, host
  <1> QED
    BY <1>a, <1>b, <1>c, <1>d, <1>q

\* A new process holds nothing but the preferences.
LEMMA StartOver ==
  ASSUME /\ ui' = "Idle" /\ slot' = "empty" /\ mic' = FALSE
         /\ wake' = "DISABLED" /\ engine' = "off" /\ pending' = FALSE /\ conv' = FALSE
         /\ queue' = <<>> /\ phase' = "none" /\ seen' = FALSE
         /\ service' = "none" /\ stopping' = FALSE /\ asked' = FALSE /\ refused' = FALSE,
         enabled' \in BOOLEAN /\ recent' \in BOOLEAN /\ world' \in World
  PROVE  WakeInv'
  <1>1. \A op : ~Has(queue', op)
    BY DEF Has
  <1>a. /\ engine' \in Engines /\ pending' \in BOOLEAN /\ conv' \in BOOLEAN
        /\ seen' \in BOOLEAN /\ stopping' \in BOOLEAN /\ asked' \in BOOLEAN
        /\ refused' \in BOOLEAN /\ mic' \in BOOLEAN
    OBVIOUS
  <1>b. queue' \in Seq(Operations)
    OBVIOUS
  <1>2. WakeTypeOK'
    BY <1>a, <1>b DEF WakeTypeOK, WakeWordStates, Phases
  <1>3. OneEnable(queue') /\ Followed(queue')
    BY DEF OneEnable, Followed
  <1>4. QueueSound'
    BY <1>1, <1>3 DEF QueueSound, Waits
  <1>5. MutexHeld' /\ EngineSound'
    BY DEF MutexHeld, EngineSound
  <1>6. WatchSound'
    BY DEF WatchSound, Active
  <1> QED
    BY <1>2, <1>4, <1>5, <1>6 DEF WakeInv

\* The process dies and is created again.
LEMMA RestartKeeps ==
  ASSUME WakeInv, Restart
  PROVE  WakeInv'
  BY StartOver DEF Restart, WakeInv, WakeTypeOK, prefs

\* The initial state.
LEMMA Starts ==
  ASSUME WakeInit
  PROVE  WakeInv
  <1>1. \A op : ~Has(queue, op)
    BY DEF WakeInit, Has
  <1>a. /\ engine \in Engines /\ pending \in BOOLEAN /\ conv \in BOOLEAN
        /\ seen \in BOOLEAN /\ stopping \in BOOLEAN /\ asked \in BOOLEAN
        /\ refused \in BOOLEAN /\ mic \in BOOLEAN
        /\ enabled \in BOOLEAN /\ recent \in BOOLEAN
    BY DEF WakeInit, Voice!Init
  <1>b. queue \in Seq(Operations) /\ world \in World
    BY DEF WakeInit
  <1>2. WakeTypeOK
    BY <1>a, <1>b DEF WakeInit, Voice!Init, WakeTypeOK, WakeWordStates, Phases
  <1>3. OneEnable(queue) /\ Followed(queue)
    BY DEF WakeInit, OneEnable, Followed
  <1>4. QueueSound
    BY <1>1, <1>3 DEF WakeInit, QueueSound, Waits
  <1>5. MutexHeld /\ EngineSound
    BY DEF WakeInit, MutexHeld, EngineSound
  <1>6. WatchSound
    BY DEF WakeInit, Voice!Init, WatchSound, Active
  <1> QED
    BY <1>2, <1>4, <1>5, <1>6 DEF WakeInv

-----------------------------------------------------------------------------
(* The theorems.                                                           *)

\* Whatever operation holds the mutex and whatever happens around it, the
\* queue, the operation under way, the recorder and the collector of uiState
\* stay in step: WakeInv is inductive.
THEOREM WakeInductive == WakeSpec => []WakeInv
  <1>1. WakeInit => WakeInv
    BY Starts
  <1>2. WakeInv /\ [WakeNext]_wakeVars => WakeInv'
    <2> SUFFICES ASSUME WakeInv, [WakeNext]_wakeVars
                 PROVE  WakeInv'
      OBVIOUS
    <2>1. CASE EnableBegins \/ EnableDecides \/ EnableStarts
      BY <2>1, EnableKeeps
    <2>2. CASE Disable \/ HostStopped \/ Suspend
      BY <2>2, StopKeeps
    <2>3. CASE ResumeBegins \/ ResumeDecides \/ ResumeStarts
      BY <2>3, ResumeKeeps
    <2>4. CASE ManualBegins \/ ManualDecides
      BY <2>4, ManualKeeps
    <2>5. CASE EventBegins \/ EventDecides
      BY <2>5, EventKeeps
    <2>6. CASE HandOff
      BY <2>6, HandOffKeeps
    <2>7. CASE Detect
      BY <2>7, DetectKeeps
    <2>8. CASE MicrophoneLost
      BY <2>8, MicrophoneLostKeeps
    <2>9. CASE EnableFromVisibleUi \/ Reconnect \/ RefractoryPasses \/ UNCHANGED wakeVars
      BY <2>9, QuietKeeps
    <2>10. CASE ServiceStarts
      BY <2>10, ServiceStartsKeeps
    <2>11. CASE DisableFromUi
      BY <2>11, DisableFromUiKeeps
    <2>12. CASE ServiceDestroyed
      BY <2>12, ServiceDestroyedKeeps
    <2>13. CASE ActivateManual
      BY <2>13, ActivateManualKeeps
    <2>14. CASE Restriction
      BY <2>14, RestrictionKeeps
    <2>15. CASE Lifted
      BY <2>15, LiftedKeeps
    <2>16. CASE VoiceGoesOn
      BY <2>16, VoiceGoesOnKeeps
    <2>17. CASE Restart
      BY <2>17, RestartKeeps
    <2> QED
      BY <2>1, <2>2, <2>3, <2>4, <2>5, <2>6, <2>7, <2>8, <2>9, <2>10, <2>11, <2>12, <2>13,
         <2>14, <2>15, <2>16, <2>17 DEF WakeNext, Controller, Outside
  <1> QED
    BY <1>1, <1>2, PTL DEF WakeSpec

\* The controller, its queue at the mutex and the voice slot keep their shape.
THEOREM WakeTypeCorrect == WakeSpec => []WakeTypeOK
  <1>1. WakeInv => WakeTypeOK
    BY DEF WakeInv
  <1> QED
    BY <1>1, WakeInductive, PTL

\* The recorder runs only while the controller says that it listens, and with
\* nothing under way the controller says so only over a recorder that neither
\* it nor an ERROR it could see has stopped: through refusals, cancelled
\* starts, a lost microphone and hand-overs, for any number of waiting
\* operations.
THEOREM ShownStaysTrue == WakeSpec => []ShownIsTrue
  <1>1. WakeInv => ShownIsTrue
    BY DEF WakeInv, EngineSound, ShownIsTrue, Cut, Has
  <1> QED
    BY <1>1, WakeInductive, PTL

\* Nothing is recorded but for a user who has opted in on a visible screen and
\* under the foreground service, or with the end of either at the mutex
\* (WakeWordManager.disable, onServiceDestroyed).
THEOREM CaptureStaysOwned == WakeSpec => []CaptureIsOwned
  <1>1. WakeInv => CaptureIsOwned
    BY DEF WakeInv, EngineSound, CaptureIsOwned
  <1> QED
    BY <1>1, WakeInductive, PTL

\* With nothing under way the controller does not wait for the end of a
\* session that is over (onVoiceSessionEnded), unless the start of that
\* session was refused and taken for one.
THEOREM NeverStranded == WakeSpec => []NotStranded
  <1>1. WakeInv => NotStranded
    BY DEF WakeInv, WatchSound, NotStranded, Cut, Has, Doing, Waits
  <1> QED
    BY <1>1, WakeInductive, PTL

\* WakeWordStateMachine.transition never throws InvalidWakeStateTransition:
\* what an operation has read of the state still holds when it goes on, for it
\* has had the mutex since, and the cancelled enable is put back to a state
\* that the table allows.
THEOREM MovesStayLegal == WakeSpec => MovesAreLegal
  <1> DEFINE Legal == \/ wake' = wake
                      \/ wake' \in Transitions(wake)
                      \/ "READY" \in Transitions(wake) /\ wake' \in Transitions("READY")
  <1>1. WakeInv /\ [WakeNext]_wakeVars => [Legal]_wakeVars
    <2> SUFFICES ASSUME WakeInv, WakeNext
                 PROVE  Legal
      OBVIOUS
    <2> USE DEF Transitions, Doing, WakeInv, WakeTypeOK, WakeWordStates, MutexHeld, Resting
    <2>1. CASE EnableBegins \/ EnableDecides \/ EnableStarts
      BY <2>1 DEF EnableBegins, EnableDecides, EnableStarts
    <2>2. CASE Disable \/ HostStopped \/ Suspend
      BY <2>2 DEF Disable, HostStopped, Suspend
    <2>3. CASE ResumeBegins \/ ResumeDecides \/ ResumeStarts
      BY <2>3 DEF ResumeBegins, ResumeDecides, ResumeStarts
    <2>4. CASE ManualBegins \/ ManualDecides
      BY <2>4 DEF ManualBegins, ManualDecides
    <2>5. CASE EventBegins \/ EventDecides
      BY <2>5 DEF EventBegins, EventDecides
    <2>6. CASE HandOff
      BY <2>6 DEF HandOff
    <2>7. CASE ServiceDestroyed
      BY <2>7 DEF ServiceDestroyed
    <2>8. CASE Restart
      BY <2>8 DEF Restart
    <2>9. CASE \/ Detect \/ MicrophoneLost \/ EnableFromVisibleUi \/ ServiceStarts
               \/ DisableFromUi \/ ActivateManual \/ Restriction \/ Lifted \/ Reconnect
               \/ RefractoryPasses \/ VoiceGoesOn
      BY <2>9 DEF Detect, MicrophoneLost, EnableFromVisibleUi, ServiceStarts, DisableFromUi,
                  ActivateManual, Restriction, Lifted, Reconnect, RefractoryPasses, VoiceGoesOn
    <2> QED
      BY <2>1, <2>2, <2>3, <2>4, <2>5, <2>6, <2>7, <2>8, <2>9 DEF WakeNext, Controller, Outside
  <1> QED
    BY <1>1, WakeInductive, PTL DEF WakeSpec, MovesAreLegal
=============================================================================
