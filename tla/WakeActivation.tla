--------------------------- MODULE WakeActivation ---------------------------
(***************************************************************************)
(* The wake word on Android: WakeWordManager, the WakeActivationController *)
(* of the shared code, AndroidWakeWordEngine and the foreground service,   *)
(* in front of the voice slot that VoiceSessionController offers.          *)
(*                                                                         *)
(* The controller's operations hold one fair mutex, so they run one after  *)
(* the other in the order in which they asked; `queue' holds the one under *)
(* way and the ones that wait.  Each lets the main thread go while it      *)
(* reads the policy, starts the recorder or saves: `phase' says where the  *)
(* one under way is.  The world (user, screen, power, network, the voice   *)
(* session) goes on between those points.                                  *)
(***************************************************************************)
EXTENDS Naturals, Sequences

CONSTANTS
  MaxWaiting  \* bound: operations that wait for the mutex

ASSUME MutexAssumption == MaxWaiting \in Nat

VARIABLES
  ui, slot, mic,  \* the voice session: see VoiceSlot
  wake,     \* the state of WakeWordStateMachine
  engine,   \* AndroidWakeWordEngine: see Engines
  pending,  \* detectionPending
  conv,     \* has the controller a conversationId?
  queue,    \* operations of the controller: Head holds the mutex
  phase,    \* where that one is
  seen,     \* lastVoiceActive of the manager
  enabled,  \* the preference of the user, durable
  recent,   \* is the last accepted activation within refractoryMillis? durable
  service,  \* "none", "asked" or "active": the foreground service
  stopping, \* its onDestroy is due
  world,    \* what currentPolicy and the gateway look at
  asked,    \* history: enabled from a visible screen since the process began
  refused   \* history: the last wake met a session being taken down

voiceVars == <<ui, slot, mic>>
prefs == <<enabled, recent>>
host == <<service, stopping, asked>>
control == <<queue, phase, seen>>
wakeVars == <<voiceVars, wake, engine, pending, conv, control, prefs, host, world, refused>>

Voice == INSTANCE VoiceSlot

-----------------------------------------------------------------------------
Operations == {"enable", "disable", "hostStopped", "suspend", "resume",
               "manual", "event", "voiceEnded"}
WakeWordStates == {"DISABLED", "ENABLING", "LISTENING", "DETECTED", "ACTIVATING",
                   "SUSPENDED", "ERROR"}

\* The table of WakeWordStateMachine.  Every state may be left for DISABLED;
\* READY is only passed through, on the way to LISTENING.
Transitions(s) ==
  (CASE s = "DISABLED" -> {"ENABLING"}
     [] s = "ENABLING" -> {"READY", "SUSPENDED", "ERROR"}
     [] s = "READY" -> {"LISTENING", "SUSPENDED", "ERROR"}
     [] s = "LISTENING" -> {"DETECTED", "SUSPENDED", "ERROR"}
     [] s = "DETECTED" -> {"ACTIVATING", "LISTENING", "SUSPENDED", "ERROR"}
     [] s = "ACTIVATING" -> {"LISTENING", "SUSPENDED", "ERROR"}
     [] s = "SUSPENDED" -> {"ENABLING", "READY", "ERROR"}
     [] s = "ERROR" -> {"ENABLING"}) \cup {"DISABLED"}

\* Recording, not recording, or "dead": the recorder never ran or has ended and
\* nobody has been told.
Engines == {"on", "off", "dead"}

Resting == {"DISABLED", "SUSPENDED", "ERROR"}
Phases == {"none", "policy", "engine", "handoff"}

\* allowed: permission, login, registered device and unlocked screen;
\* power: neither power saver nor heat; profile: a local detector is there.
World == [allowed : BOOLEAN, power : BOOLEAN, online : BOOLEAN, profile : BOOLEAN]

Active(u) == u = "Active"
Doing(op, where) == queue # <<>> /\ Head(queue) = op /\ phase = where
Has(q, op) == \E i \in DOMAIN q : q[i] = op
Waits(op) == Has(queue, op)

\* An enable, of which at most one waits, is cancelled.
Cancelled(q) ==
  IF ~Has(q, "enable") THEN q
  ELSE LET k == CHOOSE i \in DOMAIN q : q[i] = "enable"
       IN  [i \in 1 .. Len(q) - 1 |-> IF i < k THEN q[i] ELSE q[i + 1]]

WakeInit ==
  /\ Voice!Init
  /\ wake = "DISABLED" /\ engine = "off" /\ pending = FALSE /\ conv = FALSE
  /\ queue = <<>> /\ phase = "none" /\ seen = FALSE
  /\ enabled = FALSE /\ recent = FALSE
  /\ service = "none" /\ stopping = FALSE /\ asked = FALSE
  /\ refused = FALSE
  /\ world \in {w \in World : w.allowed /\ w.power /\ w.online}

-----------------------------------------------------------------------------
(* The queue at the mutex.                                                 *)

Ask(q, op) == IF Len(q) < MaxWaiting THEN Append(q, op) ELSE q

\* Bug variant: a failed session is not taken for an ended one.
Observe_Idle(u, q) ==
  IF Has(q, "voiceEnded") THEN seen' = seen /\ queue' = q
  ELSE /\ seen' = Active(u)
       /\ queue' = IF seen /\ u = "Idle" /\ service = "active" /\ enabled
                   THEN Append(q, "voiceEnded") ELSE q

\* The collector of uiState, which is itself one of those that wait: while it
\* waits it does not see what the flow goes through.
Observe(u, q) ==
  IF Has(q, "voiceEnded") THEN seen' = seen /\ queue' = q
  ELSE /\ seen' = Active(u)
       /\ queue' = IF seen /\ ~Active(u) /\ service = "active" /\ enabled
                   THEN Append(q, "voiceEnded") ELSE q

\* The operation under way returns and the next one gets the mutex.
Return ==
  /\ phase' = "none"
  /\ Observe(ui, Tail(queue))

\* The same for one that leaves the voice session active.
Goes(next) == phase' = next /\ UNCHANGED <<queue, seen>>

\* Stopping the recorder under its reader can look like a failure of the
\* microphone to the collector of the engine's state, which asks for a
\* suspension.
StopEngine ==
  /\ engine' = "off"
  /\ phase' = "none"
  /\ \E q \in {Tail(queue)} \cup
               (IF engine = "on" /\ service = "active" THEN {Ask(Tail(queue), "suspend")} ELSE {}) :
       Observe(ui, q)

-----------------------------------------------------------------------------
(* WakeActivationController.                                               *)

\* policyRejection of what currentPolicy finds, for the wake word and for the
\* button.
WakeAllowed == enabled /\ world.allowed /\ world.power
ManualAllowed == world.allowed

\* enable: from a resting state only.
EnableBegins ==
  /\ Doing("enable", "none")
  /\ \/ /\ wake \in Resting
        /\ wake' = "ENABLING" /\ conv' = TRUE
        /\ Goes("policy") /\ UNCHANGED stopping
     \/ /\ wake \notin Resting
        /\ stopping' = (stopping \/ wake # "LISTENING")
        /\ Return /\ UNCHANGED <<wake, conv>>
  /\ UNCHANGED <<voiceVars, engine, pending, prefs, service, asked, world, refused>>

\* Refused: the service stops itself.
EnableDecides ==
  /\ Doing("enable", "policy")
  /\ \/ /\ WakeAllowed /\ world.profile
        /\ Goes("engine") /\ UNCHANGED <<wake, stopping>>
     \/ /\ ~(WakeAllowed /\ world.profile)
        /\ wake' = IF WakeAllowed THEN "ERROR" ELSE "SUSPENDED"
        /\ stopping' = TRUE
        /\ Return
  /\ UNCHANGED <<voiceVars, engine, pending, conv, prefs, service, asked, world, refused>>

\* engine.start, which throws when the microphone cannot be had.  It returns
\* before its coroutine starts the recorder: one that does not come to record
\* leaves the loop, and that is all.
EnableStarts ==
  /\ Doing("enable", "engine")
  /\ \/ /\ engine' \in {"on", "dead"} /\ wake' = "LISTENING"
        /\ UNCHANGED <<pending, stopping>>
     \/ /\ engine' = "off" /\ wake' = "ERROR" /\ pending' = FALSE
        /\ stopping' = TRUE
  /\ Return
  /\ UNCHANGED <<voiceVars, conv, prefs, service, asked, world, refused>>

Disable ==
  /\ Doing("disable", "none")
  /\ wake' = "DISABLED" /\ conv' = FALSE /\ pending' = FALSE
  /\ StopEngine
  /\ UNCHANGED <<voiceVars, prefs, host, world, refused>>

HostStopped ==
  /\ Doing("hostStopped", "none")
  /\ wake' = IF wake \in {"DISABLED", "ERROR"} THEN wake ELSE "SUSPENDED"
  /\ pending' = FALSE
  /\ StopEngine
  /\ UNCHANGED <<voiceVars, conv, prefs, host, world, refused>>

\* Bug variant: the state is not told.
Suspend_Silently ==
  /\ Doing("suspend", "none")
  /\ StopEngine
  /\ UNCHANGED <<voiceVars, wake, pending, conv, prefs, host, world, refused>>

\* suspendForPolicy
Suspend ==
  /\ Doing("suspend", "none")
  /\ wake' = IF wake \in Resting THEN wake ELSE "SUSPENDED"
  /\ StopEngine
  /\ UNCHANGED <<voiceVars, pending, conv, prefs, host, world, refused>>

\* resume and onVoiceSessionEnded.
ResumeBegins ==
  /\ Doing("resume", "none") \/ Doing("voiceEnded", "none")
  /\ IF \/ Head(queue) = "resume" /\ wake = "SUSPENDED" /\ conv
        \/ Head(queue) = "voiceEnded" /\ wake = "ACTIVATING"
     THEN Goes("policy") ELSE Return
  /\ UNCHANGED <<voiceVars, wake, engine, pending, conv, prefs, host, world, refused>>

ResumeDecides ==
  /\ Doing("resume", "policy") \/ Doing("voiceEnded", "policy")
  /\ \/ WakeAllowed /\ world.profile /\ Goes("engine") /\ UNCHANGED wake
     \/ ~(WakeAllowed /\ world.profile) /\ Return /\ wake' = "SUSPENDED"
  /\ UNCHANGED <<voiceVars, engine, pending, conv, prefs, host, world, refused>>

\* engine.resume is engine.start.
ResumeStarts ==
  /\ Doing("resume", "engine") \/ Doing("voiceEnded", "engine")
  /\ \/ engine' \in {"on", "dead"} /\ wake' = "LISTENING"
     \/ engine' = "off" /\ wake' = "ERROR"
  /\ Return
  /\ UNCHANGED <<voiceVars, pending, conv, prefs, host, world, refused>>

\* activateManual
ManualBegins ==
  /\ Doing("manual", "none")
  /\ Goes("policy")
  /\ UNCHANGED <<voiceVars, wake, engine, pending, conv, prefs, host, world, refused>>

\* Bug variant: waits, with the mutex, for the session to end.
ManualDecides_Waits ==
  /\ Doing("manual", "policy")
  /\ \/ /\ ~ManualAllowed
        /\ wake' = IF wake \in Resting THEN wake ELSE "SUSPENDED"
        /\ StopEngine /\ UNCHANGED recent
     \/ /\ ManualAllowed /\ ~Active(ui)
        /\ recent' = TRUE
        /\ Goes("handoff") /\ UNCHANGED <<wake, engine>>
  /\ UNCHANGED <<voiceVars, pending, conv, enabled, host, world, refused>>

\* A refusal suspends the detector.  A session keeps the focus.  A start does
\* not touch the detector.
ManualDecides ==
  /\ Doing("manual", "policy")
  /\ \/ /\ ~ManualAllowed
        /\ wake' = IF wake \in Resting THEN wake ELSE "SUSPENDED"
        /\ StopEngine /\ UNCHANGED recent
     \/ /\ ManualAllowed /\ Active(ui)
        /\ Return /\ UNCHANGED <<wake, engine, recent>>
     \/ /\ ManualAllowed /\ ~Active(ui)
        /\ recent' = TRUE
        /\ Goes("handoff") /\ UNCHANGED <<wake, engine>>
  /\ UNCHANGED <<voiceVars, pending, conv, enabled, host, world, refused>>

\* handleWakeEvent: an old event changes nothing.
EventBegins ==
  /\ Doing("event", "none")
  /\ \/ wake = "LISTENING" /\ wake' = "DETECTED" /\ Goes("policy") /\ UNCHANGED pending
     \/ Return /\ pending' = FALSE /\ UNCHANGED wake
  /\ UNCHANGED <<voiceVars, engine, conv, prefs, host, world, refused>>

\* Not opted in or too soon: on with listening.  Not allowed: suspended.  A
\* session that is there keeps the focus.
EventDecides ==
  /\ Doing("event", "policy")
  /\ \/ /\ ~enabled \/ (WakeAllowed /\ ~Active(ui) /\ recent)
        /\ wake' = "LISTENING" /\ pending' = FALSE
        /\ Return /\ UNCHANGED <<engine, recent>>
     \/ /\ enabled /\ ~WakeAllowed
        /\ wake' = "SUSPENDED" /\ pending' = FALSE
        /\ StopEngine /\ UNCHANGED recent
     \/ /\ WakeAllowed /\ Active(ui)
        /\ wake' = "ACTIVATING" /\ pending' = FALSE
        /\ StopEngine /\ UNCHANGED recent
     \/ /\ WakeAllowed /\ ~Active(ui) /\ ~recent
        /\ wake' = "ACTIVATING" /\ engine' = "off" /\ recent' = TRUE
        /\ phase' = "handoff" /\ UNCHANGED <<seen, pending>>
        /\ queue' \in {queue} \cup
             IF engine = "on" /\ service = "active" THEN {Ask(queue, "suspend")} ELSE {}
  /\ UNCHANGED <<voiceVars, conv, enabled, host, world, refused>>

\* The activation is saved, and is handed over: VoiceActivationGateway.activate.
\* It refuses without the network or without the permission, one of the things
\* `allowed' stands for.  A start that the session refuses counts as one unless
\* the session shows Failed.
HandOff ==
  /\ Doing("manual", "handoff") \/ Doing("event", "handoff")
  /\ phase' = "none"
  /\ \/ /\ world.online /\ Voice!Start
        /\ Observe(ui', Tail(queue)) /\ refused' = FALSE /\ UNCHANGED wake
     \/ /\ ~(world.online /\ world.allowed)
        /\ wake' = IF Head(queue) = "event" THEN "SUSPENDED" ELSE wake
        /\ refused' = (refused /\ Head(queue) # "event")
        /\ Observe(ui, Tail(queue)) /\ UNCHANGED voiceVars
     \/ /\ world.online /\ slot # "empty"
        /\ wake' = IF Head(queue) = "event" /\ ui = "Failed" THEN "SUSPENDED" ELSE wake
        /\ refused' = IF Head(queue) = "event" THEN ui = "Idle" ELSE refused
        /\ Observe(ui, Tail(queue)) /\ UNCHANGED voiceVars
  /\ pending' = (pending /\ Head(queue) # "event")
  /\ UNCHANGED <<engine, conv, prefs, host, world>>

Controller ==
  \/ EnableBegins \/ EnableDecides \/ EnableStarts
  \/ Disable \/ HostStopped \/ Suspend
  \/ ResumeBegins \/ ResumeDecides \/ ResumeStarts
  \/ ManualBegins \/ ManualDecides
  \/ EventBegins \/ EventDecides
  \/ HandOff

-----------------------------------------------------------------------------
(* AndroidWakeWordEngine.                                                  *)

Detect ==
  /\ engine = "on" /\ ~pending /\ Len(queue) < MaxWaiting
  /\ pending' = TRUE /\ queue' = Append(queue, "event")
  /\ UNCHANGED <<voiceVars, wake, engine, conv, phase, seen, prefs, host, world, refused>>

\* A read fails: ERROR, which the collector of the engine's state answers with
\* a suspension.  It sees only the last of several values: the callback of a
\* detection, at its end, says LISTENING again over an ERROR it overtakes.
MicrophoneLost ==
  /\ engine = "on" /\ Len(queue) < MaxWaiting
  /\ \/ /\ engine' = "off"
        /\ queue' = IF service = "active" THEN Append(queue, "suspend") ELSE queue
     \/ /\ queue # <<>> /\ Head(queue) = "event"
        /\ engine' = "dead" /\ UNCHANGED queue
  /\ UNCHANGED <<voiceVars, wake, pending, conv, phase, seen, prefs, host, world, refused>>

-----------------------------------------------------------------------------
(* The user, the service and the device.                                   *)

EnableFromVisibleUi ==
  /\ enabled' = TRUE /\ asked' = TRUE
  /\ service' = IF service = "none" THEN "asked" ELSE service
  /\ UNCHANGED <<voiceVars, wake, engine, pending, conv, control, recent, stopping, world, refused>>

\* onStartCommand and beginForegroundListening; without the permission or a
\* conversation the service stops itself.
ServiceStarts ==
  /\ service # "none" /\ ~stopping /\ ~Waits("enable") /\ Len(queue) < MaxWaiting
  /\ \/ ~world.allowed /\ stopping' = TRUE /\ UNCHANGED <<service, queue>>
     \/ enabled /\ service' = "active" /\ queue' = Append(queue, "enable")
        /\ UNCHANGED stopping
     \/ ~enabled /\ service' = "active" /\ stopping' = TRUE /\ UNCHANGED queue
  /\ UNCHANGED <<voiceVars, wake, engine, pending, conv, phase, seen, prefs, asked, world, refused>>

\* Bug variant: only the preference is changed.
DisableFromUi_PreferenceOnly ==
  /\ enabled
  /\ enabled' = FALSE /\ recent' = FALSE
  /\ stopping' = (stopping \/ service = "active")
  /\ service' = IF service = "asked" THEN "none" ELSE service
  /\ UNCHANGED <<voiceVars, wake, engine, pending, conv, control, asked, world, refused>>

\* WakeWordManager.disable
DisableFromUi ==
  /\ enabled /\ Len(queue) < MaxWaiting
  /\ enabled' = FALSE /\ recent' = FALSE
  /\ queue' = Append(queue, "disable")
  /\ service' = IF service = "asked" THEN "none" ELSE service
  /\ stopping' = (stopping \/ service = "active")
  /\ UNCHANGED <<voiceVars, wake, engine, pending, conv, phase, seen, asked, world, refused>>

\* onDestroy: onServiceDestroyed, then the scope in which enable runs is
\* cancelled.  A cancelled enable leaves the state as it is while it reads the
\* policy, and sees a failure of the engine when it is starting it.
ServiceDestroyed ==
  /\ stopping /\ Len(queue) < MaxWaiting
  /\ stopping' = FALSE /\ service' = "none"
  /\ IF queue # <<>> /\ Head(queue) = "enable"
     THEN /\ wake' = IF phase = "engine" THEN "ERROR" ELSE wake
          /\ phase' = "none"
     ELSE UNCHANGED <<wake, phase>>
  /\ queue' = Append(Cancelled(queue), "hostStopped")
  /\ UNCHANGED <<voiceVars, engine, pending, conv, seen, prefs, asked, world, refused>>

\* The button that starts a conversation.
ActivateManual ==
  /\ Len(queue) < MaxWaiting /\ ~Waits("manual")
  /\ queue' = Append(queue, "manual")
  /\ UNCHANGED <<voiceVars, wake, engine, pending, conv, phase, seen, prefs, host, world, refused>>

\* Screen, permission, power and heat: a restriction is announced while the
\* service lives, and so is its end; a lost login is not.
Restriction ==
  /\ \E w \in {[world EXCEPT !.allowed = FALSE], [world EXCEPT !.power = FALSE]} :
       w # world /\ world' = w
  /\ \/ service = "active" /\ Len(queue) < MaxWaiting /\ queue' = Append(queue, "suspend")
     \/ UNCHANGED queue
  /\ UNCHANGED <<voiceVars, wake, engine, pending, conv, phase, seen, prefs, host, refused>>

\* resumeAfterPolicyChange is also called when nothing had been restricted.
Lifted ==
  /\ world' \in {world, [world EXCEPT !.allowed = TRUE], [world EXCEPT !.power = TRUE]}
  /\ service = "active" /\ enabled /\ Len(queue) < MaxWaiting /\ ~Waits("resume")
  /\ queue' = Append(queue, "resume")
  /\ UNCHANGED <<voiceVars, wake, engine, pending, conv, phase, seen, prefs, host, refused>>

Reconnect ==
  /\ world' = [world EXCEPT !.online = ~@]
  /\ UNCHANGED <<voiceVars, wake, engine, pending, conv, control, prefs, host, refused>>

RefractoryPasses ==
  /\ recent /\ recent' = FALSE
  /\ UNCHANGED <<voiceVars, wake, engine, pending, conv, control, enabled, host, world, refused>>

\* The voice session goes its own way.
VoiceGoesOn ==
  /\ Voice!UseMic \/ Voice!End \/ Voice!Fail \/ Voice!SeeEnded \/ Voice!CleanedUp
  /\ Len(queue) < MaxWaiting
  /\ Observe(ui', queue)
  /\ UNCHANGED <<wake, engine, pending, conv, phase, prefs, host, world, refused>>

\* The process dies and is created again: only the preferences are left.
Restart ==
  /\ ui' = "Idle" /\ slot' = "empty" /\ mic' = FALSE
  /\ wake' = "DISABLED" /\ engine' = "off" /\ pending' = FALSE /\ conv' = FALSE
  /\ queue' = <<>> /\ phase' = "none" /\ seen' = FALSE
  /\ service' = "none" /\ stopping' = FALSE /\ asked' = FALSE
  /\ refused' = FALSE
  /\ UNCHANGED <<prefs, world>>

Outside ==
  \/ EnableFromVisibleUi \/ ServiceStarts \/ DisableFromUi \/ ServiceDestroyed
  \/ ActivateManual \/ Restriction \/ Lifted \/ Reconnect \/ RefractoryPasses
  \/ VoiceGoesOn \/ Restart

WakeNext == Controller \/ Detect \/ MicrophoneLost \/ Outside

\* An operation that has the mutex goes on: the policy, the recorder and the
\* storage answer.
WakeSpec == WakeInit /\ [][WakeNext]_wakeVars /\ WF_wakeVars(Controller)

-----------------------------------------------------------------------------
(* Properties.                                                             *)

\* The shape of the controller, its queue at the mutex and its surroundings.
WakeTypeOK ==
  /\ wake \in WakeWordStates /\ phase \in Phases
  /\ engine \in Engines /\ pending \in BOOLEAN /\ conv \in BOOLEAN
  /\ queue \in Seq(Operations) /\ seen \in BOOLEAN
  /\ enabled \in BOOLEAN /\ recent \in BOOLEAN
  /\ service \in {"none", "asked", "active"} /\ stopping \in BOOLEAN
  /\ world \in World /\ asked \in BOOLEAN /\ refused \in BOOLEAN
  /\ ui \in {"Idle", "Active", "Failed"}
  /\ slot \in {"empty", "running", "cleaning"} /\ mic \in BOOLEAN

\* The detector records only while the controller says that it listens, and
\* when nothing is under way the controller says LISTENING only over a detector
\* that neither it nor an ERROR it could see has stopped: through every
\* refusal, cancelled start, lost microphone and hand-over.
ShownIsTrue ==
  /\ engine = "on" => wake \in {"LISTENING", "DETECTED"}
  /\ queue = <<>> /\ wake = "LISTENING" => engine # "off"

\* docs/security/wake-word.md: "microphone loss, detector failure, or permission
\* revocation explicitly suspend/stop capture".  When nothing is under way, who
\* is told that the detector listens is listened to.  It is not an invariant: a
\* recorder that does not come to record, or whose ERROR the callback of a
\* detection overwrites, leaves LISTENING on the screen and nobody is told.
ListensWhenShown == queue = <<>> /\ wake = "LISTENING" => engine = "on"

\* The detector records only for a user who has opted in, under the visible
\* service, or the end of either waits for its turn (WakeWordManager.disable,
\* onServiceDestroyed); and never of itself in a new process (wake-word.md: "it
\* does not silently restart capture").
CaptureIsOwned ==
  engine = "on" => /\ enabled \/ Waits("disable")
                   /\ service = "active" \/ Waits("hostStopped")
                   /\ asked

\* However busy the controller is, opting out silences the detector.
OptOutDeafens == ~enabled ~> (engine # "on" \/ enabled)

\* The controller does not wait for the end of a session that is over, which
\* would leave the detector deaf: however the end of the session meets the
\* operations at the mutex (onVoiceSessionEnded, the collector of uiState).
\* Only a start that was refused and taken for one can leave it so.
NotStranded ==
  wake = "ACTIVATING" /\ queue = <<>> /\ ~refused => Active(ui)

\* wake-word.md: "If a Phase 9 session already exists, the detector is
\* suspended and the existing session keeps focus."  It is not an invariant:
\* activateManual leaves the detector recording beside the session it starts.
OneEar == ~(engine = "on" /\ mic)

-----------------------------------------------------------------------------
(* The inductive invariant.                                                *)

\* An operation waits that ends the listening.
Cut(q) == Has(q, "suspend") \/ Has(q, "hostStopped") \/ Has(q, "disable")

\* After every operation that can start the recorder again, the end of the
\* service waits for its turn.
Followed(q) ==
  \A i \in DOMAIN q : q[i] \in {"resume", "voiceEnded"} =>
    \E j \in DOMAIN q : i < j /\ q[j] = "hostStopped"

OneEnable(q) ==
  \A i, j \in DOMAIN q : q[i] = "enable" /\ q[j] = "enable" => i = j

\* At most one enable waits, and only under the service.
QueueSound ==
  /\ OneEnable(queue)
  /\ Waits("enable") => service = "active"
  /\ service = "active" \/ Followed(queue)
  /\ service # "none" \/ Waits("resume") \/ Waits("voiceEnded") => asked

\* The state an operation has read, or made, is still the state when it goes
\* on: it has had the mutex since.
MutexHeld ==
  phase # "none" =>
    /\ queue # <<>>
    /\ \/ Head(queue) = "enable" /\ phase \in {"policy", "engine"} /\ wake = "ENABLING"
       \/ Head(queue) = "resume" /\ phase \in {"policy", "engine"} /\ wake = "SUSPENDED"
       \/ Head(queue) = "voiceEnded" /\ phase \in {"policy", "engine"} /\ wake = "ACTIVATING"
       \/ Head(queue) = "manual" /\ phase \in {"policy", "handoff"}
       \/ Head(queue) = "event" /\ phase = "policy" /\ wake = "DETECTED"
       \/ Head(queue) = "event" /\ phase = "handoff" /\ wake = "ACTIVATING"

\* The recorder runs, or is about to, or is thought to, for somebody; when it
\* is known to have stopped, the controller is about to say so.
EngineSound ==
  /\ engine # "off" => wake \in {"LISTENING", "DETECTED"} /\ asked
  /\ engine # "off" \/ phase = "engine" => enabled \/ Waits("disable")
  /\ engine # "off" => service = "active" \/ Waits("hostStopped")
  /\ wake \in {"LISTENING", "DETECTED"} /\ engine = "off" => Cut(queue)

\* The collector of uiState knows the last state, or waits; a controller that
\* waits for the end of a session will be told.
WatchSound ==
  /\ ~Waits("voiceEnded") => seen = Active(ui)
  /\ wake = "ACTIVATING" =>
       Cut(queue) \/ Waits("voiceEnded") \/ (service = "active" /\ enabled)
  /\ wake = "ACTIVATING" /\ ~refused /\ ~Doing("event", "handoff") =>
       Cut(queue) \/ Waits("voiceEnded") \/ Active(ui)

WakeInv == WakeTypeOK /\ QueueSound /\ MutexHeld /\ EngineSound /\ WatchSound

\* No step of the controller, the service or a new process asks the state
\* machine for a move that its table refuses: InvalidWakeStateTransition is
\* never thrown, however operations, cancellation and restarts interleave.
MovesAreLegal ==
  [][\/ wake' = wake
     \/ wake' \in Transitions(wake)
     \/ "READY" \in Transitions(wake) /\ wake' \in Transitions("READY")]_wakeVars
=============================================================================
