# Verification of the personal assistant

TLA+ models of the personal assistant in this repository (a FastAPI backend, a web
client, an Android client), checked with TLC on small instances and proved with
TLAPS for all of them: every safety property of the runs that hold is a theorem. `PROJECT.json` lists the components, the
runs, the mutants that show what each property can detect, the source lines every
definition stands for, the disagreements found, the hazards and the theorems.

## The system

The backend owns everything that decides: identity, permissions, confirmations,
Tasks, orchestration, memory, conversations. Each HTTP request is one SQLAlchemy
session with one transaction (`core/database.py`), read committed on PostgreSQL, that
is committed when the request is closed, after the response has gone out, or rolled
back on an error. No thread, timer or queue runs in the background: deadlines are
noticed by the next call that reads the row. What makes it hard is calls that overlap:
two devices, an owner and a worker, a client that times out and sends again.

| Component | State | Operations | Talks to | What must hold |
| --- | --- | --- | --- | --- |
| Task Engine (`tasks/`) | tasks, attempts, events | create, reads that expire, cancel, claim, complete, fail, reevaluate | permissions (decision), workers | one claim, no lost change, idempotent create, legal transitions |
| Permissions (`permissions/`) | permissions, confirmations | grant, reads that expire, revoke, approve, reject, authorize | every service that acts | ALLOW rests on consent, consent is used once, revocation holds |
| Orchestrator (`orchestrator/`) | workflows, steps, plan, envelope | create, resume, cancel, reads that expire | Task Engine, permissions, AI Router, policy flags | steps are a legal path, ready iff envelope, cancel takes the Task |
| Text Assistant (`text_assistant/`) | conversations, messages | create conversation, submit | Memory, AI Router, Orchestrator, research | one pair per key, numbering in order, replies see the history |
| Android delivery (`mobile/androidApp`) | Room queue, WorkManager work, connectivity | enqueue, deliver, retry, cancel, recover, synchronize, sign in and out | Text Assistant over HTTP | acknowledged means stored, terminal is final, everything settles |
| Memory (`memory/`) | records, revisions, events | create, reads that expire, update, archive, delete | permissions | revisions and events are the true history, one active record per content, nothing deleted is kept |
| Voice (`voice/`) | sessions with a connection lease, credentials, turns | start, refresh, connect, turn, interrupt, playback, disconnect, end | Text Assistant, clients over a WebSocket | one connection acts, a turn is answered once, nothing after the end |
| Identity (`identity/`, `auth/`) | users, devices, installations | register, revoke | all | a revoked device gets nothing |
| AI Router (`ai_router/`) | catalog, decisions, usage rows | route, invoke with fallbacks, evaluate | providers, every service that needs a model | no label reaches a model not approved for it, no silent degradation, attempts are bounded and recorded |
| Research (`research/`) | none of its own | search, fetch, cite | permissions | citations come from what was fetched |
| Web client (`apps/web`) | session, conversation view | sign in, refresh, send | backend | an ended session stays ended |
| Android voice (`voice/`) | state machine, frame and control queues, recorder, player, socket | start, mute, interrupt, end, reconnect, events | backend voice, wake word | the microphone belongs to the session, an interrupted reply is silent, the end settles |
| Android wake word (`wake/`, shared `WakeContracts`) | detector state, operations at a mutex, preference, foreground service | enable, disable, suspend, resume, detect, activate | voice controller, policy, Android | capture follows the opt-in and its visible host, the state shown is true |

Hard behaviours, all listed with their lines under `hazards`: statements of two calls
interleave between read and write; a copy decides and is stale when it is written;
several rows are written by one call; a COMMIT fails after its answer; requests are
lost, late and sent again; a process ends between two steps; a worker is stopped by
the system; queues are counted and then filled; a callback of a device or a frame of a
connection arrives after the session it belongs to.

## Modules

| Module | Models | State and actions |
| --- | --- | --- |
| `TaskStateMachine` | `tasks/state_machine.py` | statuses, transition table, state of a new Task: pure operators |
| `TaskLifecycle` | what the Task Engine promises | one variable, status and version per Task; appear, or change along the table |
| `TaskEngine` | `tasks/service.py` | rows, attempts, events; per call in flight the updates it is about to write; Begin (read and decide), Commit (conditional UPDATEs), Conflict or Rollback |
| `Authority` | `permissions/engine.py`, `risk.py`, `service.py` | permissions, confirmations, switches; Begin, check of the confirmation, unconditional writes at Commit |
| `Orchestrator` | `orchestrator/service.py` and `state_machine.py` | workflow, steps, plan, envelope and the linked Task, which other parties move too |
| `TextAssistant` | `text_assistant/service.py` | conversations, stored pairs; a call goes through its statements one by one, holding the row lock from the reservation and the key from the insert |
| `OfflineDelivery` | the Android queue, composed with `TextAssistant` | rows, work, binding, network; the server is `INSTANCE TextAssistant` with the operations as keys and one call per attempt |
| `Memory` | `memory/service.py` | rows, revisions, events; per call the row it has read; the expiry a read runs into, then the conditional write |
| `VoiceSession` | `voice/service.py`, `api.py`, `protocol.py` | one session row with its lease and lock, turns and message pairs, one handler per connection; what the deadlines and the typing user do are actions of the environment |
| `VoiceSlot` | what the Android app is promised about a voice session | one slot, empty, running or cleaning, and the microphone |
| `VoiceClient` | `VoiceSessionController`, its audio devices and transport, against the protocol of one server connection | controller record, server record, the two directions of the socket, threads of the devices that may outlast their recorder or player (`late`, `stuck`); a frame is recorded in two steps, the check in `enqueueAudioFrame` and the `trySend` (`RecordBegins`, `RecordEnds`, `held` between them), and only `beginNewTurn` waits for the lock; refines `VoiceSlot` |
| `WakeActivation` | `WakeContracts`, `WakeWordManager`, engine, service | detector state, queue at the mutex and phase of the operation under way; the engine is on, off, or dead, when its recorder never ran or ended and no ERROR was seen; the voice session is `INSTANCE VoiceSlot`, so it is right beside any controller that keeps it |
| `AIRouter` | `ai_router/policy.py`, `service.py`, `evaluation.py` | the decision as operators over a catalog; one invocation, attempt by attempt; evaluation of a candidate |
| `MC...` | | constants and symmetry sets for TLC |
| `TaskEngineProofs`, `AuthorityProofs`, `TextAssistantProofs`, `MemoryProofs`, `VoiceSessionProofs`, `OfflineDeliveryProofs` | | theorems about the module of that name |
| `OrchestrationProofs` | | theorems about `Orchestrator` and `AIRouter` |
| `AndroidVoiceProofs` | | theorems about `VoiceClient` and `WakeActivation` |

Three ways of writing occur in the backend and the modules keep them apart. Voice
sessions are read with a row lock that is kept to the COMMIT. Tasks, workflows,
memories and conversations are changed by UPDATEs that repeat the state or version
that was read and fail when no row matches. Permissions and confirmations are changed
by what the ORM flushes: the changed columns by primary key, without condition.
`TaskEngine`, `Memory` and `Orchestrator` read in one step and write in another; `Authority` also
reads the confirmation in a step of its own; `TextAssistant` has one step per
statement, since what submit promises depends on their order.

Data is reduced to what the properties tell apart: a payload or message is a value
with equality, a scope is a set of operations and ids, time is a counter that only
matters against deadlines. Sets called `told` are history: what callers were answered.

## Runs

Every passing run has a mutant per property: a named variant in the module, marked as
a bug variant, with which TLC finds the property violated. `TypeOK` of each module says
what its variables range over, and `IndInv` why its properties hold; both are proved,
and each can be added to the module's configuration. The runs spend their time on the
other properties.

| Run | Instance | Shows |
| --- | --- | --- |
| `TaskRace` | 3 calls, 2 Tasks, 1 key, versions to 4 | claims, cancels, creates, attempts and history under races; refinement of `TaskLifecycle` |
| `ConfirmationSpent` | 2 calls, 1 permission, policies NEVER, ONCE and HIGH_RISK_ONLY, 1 confirmation, a device, a financial capability | once a use of a confirmation was answered nobody else is allowed by it |
| `AuthorityRace` | 2 calls, 2 permissions that replace each other, 1 confirmation, 2 scopes | ALLOW rests on consent to that proposal under that permission, and revocations hold |
| `WorkflowRace` | 2 calls, 1 workflow with a deadline, all policy settings | path of steps, envelope, cancel and claim, with Tasks moved by others and the safe mode changing |
| `SubmitRace` | 3 calls, 2 conversations, 2 keys, 2 messages, COMMITs that fail after the answer | idempotency, numbering, history; a failed COMMIT leaves no trace but the answer to its own caller, a message sent again skips a number at most |
| `Delivery` | 1 message, 2 attempts, fairness | acknowledgements, final states that are not sent again, through all events; no message stays on its way for ever |
| `MemoryRace` | 2 calls, 2 rows, 2 contents, a class with deduplication and one without, versions to 2, a deadline | revisions and events are the history of the row, deletion leaves no text, no twins, nothing comes back |
| `VoiceRace` | 3 connections, 2 turns, 2 texts, 1 reconnection, 2 credentials, 1 typed message | the lease, turns answered once, coordinator and row agree on speaking, final states |
| `VoiceCall` | 2 sessions, 5 turn ids, 2 frames per turn, 2 chunks per reply, 1 reconnection | microphone, barge-in, order of frames, clean-up; refinement of `VoiceSlot` |
| `WakeRace` | 3 operations at the mutex | opt-in, host, state shown, restart, a recorder that dies with or without a word, end of a session met by other operations |
| `RouterChain` | 7 models of 3 providers, 504 requests, every health, 2 spendings, 3 attempts | sensitivity, two copies of the gates, fallback order, attempts and usage |

One run ends in a violation: `ConfirmationReplay` shows that one approved confirmation
authorizes twice when two calls overlap, which `docs/api/permissions.md` rules out. What
does hold is `SpentIsRefused`: nobody else is allowed once a use was answered.

### Known disagreements

Sentences of the documentation, or names of tests, that the code does not keep. Each is
a definition of its module, marked as no invariant; adding it as an `INVARIANT`
(`RepeatChangesNothing` as a `PROPERTY`) to the configuration named makes TLC show how.

| Definition | Configuration | The code | The sentence |
| --- | --- | --- | --- |
| `ReadReturnsTask` | `TaskRace` | `tasks/service.py:477`: past the deadline of a RUNNING Task reads, and whole lists, raise | `docs/api/tasks.md:7` "return an owned Task with attempts and events." |
| `RejectedNeverAuthorizes` | `AuthorityRace` | `permissions/service.py:229`: approve and reject overlap, both are answered, the last write stands (it holds there with one request) | `test_confirmation_gate.py:62` `test_rejected_and_expired_confirmations_cannot_authorize` |
| `DeniedNeverClaimable` | `WorkflowRace` | `orchestrator/service.py:501`: a resume moves the Task to QUEUED, then SAFE_MODE denies the workflow and commits | `docs/architecture/orchestrator.md:55` "blocks actionable readiness." |
| `ConflictMeansNotStored` | `SubmitRace` | `text_assistant/service.py:184`: the first call commits between the look-up of the key and the read of the version | `docs/architecture/offline-system.md:74` "checks idempotency before conversation version and returns the stored authoritative response." |
| `RepeatChangesNothing` | `SubmitRace` | `text_assistant/service.py:228`: a message found stored only when it is inserted is answered from the stored pair, and `database.py:86` commits its reservation: a version without a message. `SequencesOrdered` says that nothing else skips a number | `docs/api/text-assistant.md:10` "submits an idempotent message with an expected conversation version." |
| `CancelledNotStored` | `Delivery` | `ConversationRepository.kt:578`: rows that were claimed and sent can be cancelled | `docs/architecture/offline-system.md:56` "Cancelled before a worker claimed it" |
| `AnsweredIsActive` | `MemoryRace` | `memory/service.py:700`: a row found ARCHIVED or DELETED by the refresh after a missed expiry is answered | `docs/api/memory.md:16` "returns only an active owned record." |
| `BargeInListens` | `VoiceCall` | `VoiceSessionController.kt:274`: audio under way when the user interrupts is a MALFORMED_EVENT and ends the session | `docs/architecture/realtime-voice.md:71` "increments the playback generation so old frames are stale, sends one provider interrupt, and returns to listening" |
| `SilentAfterEnd` | `VoiceCall` | `VoiceSessionController.kt:198`: the event received as the session ends is still handled, and its audio plays on | `docs/architecture/realtime-voice.md:73` "closes microphone, playback, socket, queues, and provider generation." |
| `EndClosesQueues` | `VoiceCall` | `VoiceSessionController.kt:400`: the drain takes no `captureLock` and the reader is not joined; one past the check of line 355 queues its frame after it, and `start` does not drain, so the next session begins with that frame and may send it before it listens. `HeardInOrder` says that none is left once it has listened | the same sentence |
| `ListensWhenShown` | `WakeRace` | `AndroidWakeWordEngine.kt:103`: a recorder that does not come to record leaves the loop without ERROR, and lines 120-124 can put LISTENING over the ERROR of line 129 before it is collected: LISTENING is shown over nothing and nobody is told. `ShownIsTrue` says that there is no other way | `docs/security/wake-word.md:24` "microphone loss, detector failure, or permission revocation explicitly suspend/stop capture." |
| `OneEar` | `WakeRace` | `WakeContracts.kt:319`: a manual activation leaves the detector recording beside the session | `docs/architecture/wake-word.md:47` "the detector is suspended and the existing session keeps focus." |

Two more weaknesses are in the models and named as exceptions rather than runs. The
COMMIT of a request comes after its answer: when it fails, the client holds an
ACKNOWLEDGED message that is nowhere (phase `lost`, allowed for in `OncePerKey` and
`AckedIsStored`). And `enqueueMessage` counts the queue in one statement and inserts in
another, so that two sends at once exceed its cap (`EnterQueue`, `Enqueue`).
`EnvelopeMatchesWorkflow` leaves out the denied workflows `DeniedNeverClaimable` is about.
`NotStranded` leaves out an activation that met a session being cleaned up: the voice
controller ignores the start, `WakeWordManager.kt:55` takes it for one, and the detector
waits until a later session ends or it is disabled.

### Bounds

- `MaxTime` 1: a deadline is ahead or has passed; no code compares two deadlines.
- `MaxVersion` 4 in `TaskRace`: longer than the longest path a Task takes from its
  creation to a terminal state through a claim, with one reevaluation.
- Two or three calls: the races in this code are between a read and one conflicting
  write; the third call gives the loser's look at the winner a chance to be outrun.
- `Confs`, `MaxPerms`: primary keys available; two let a permission be replaced.
- One workflow in `WorkflowRace`: workflows share no row, so that calls on different
  ones do not meet; before its deadline it behaves like one without.
- Two conversations: keys span conversations, locks do not. Three calls: two pairs in
  one conversation and one that competes with both.
- `MaxAttempts` 2 for 5: the first attempt, and one that is also the last. Two messages
  with two attempts each are out of reach; that messages compete for a version is in
  `SubmitRace`.
- `MaxActive` 1 for 100: the cap is met.
- `MaxVersion` 2 in `MemoryRace`: a row that was changed once and can be changed no
  more except to be deleted; a second content change meets the same guards.
- `MaxTurns` 5 in `VoiceCall`: a controller makes an identifier when it is built, and
  for each start, reconnection, interruption and return to LISTENING; five let both
  sessions listen, or the first one reconnect or be interrupted and the second start.
  `MaxQueue` 1 for the frames a controller buffers: the queue is met full. `MaxControl`
  2 for 8. The second session is what a late callback of the first can disturb.
- `MaxReconnects` 1 for 3, `MaxAttempts` 1: one reconnection and the refusal of another.
- Three connections in `VoiceRace`: the one that has the lease, the one that takes it
  over and the one that finds the reconnections used up.
- `MaxWaiting` 3 in `WakeRace`: one operation under way, two that overtake its decision.
- `RouterChain`: the catalog has equivalent, stronger, weaker, unapproved, local and
  evaluation-only models, and requests at, below and above every limit.
- `expected_version` up to one beyond the current: larger ones fail like that one.

Deadlock is checked except where the instance runs out: every call of submit and every
connection is made once, memories end deleted, sessions and invocations end.

### Fairness

The backend modules assume none: nothing in it runs unless called, so they
state safety only. `VoiceClient` has the clean-up coroutine go on, whose call to the
server is bounded by the HTTP time-out (`Network.kt:51`), and nothing else;
`WakeActivation` has the operation that holds the mutex go on. `OfflineDelivery` states fairness for what Android and the client do by
themselves: WorkManager starts work whose constraints are met and starts it again
after it was stopped (strong, since the network comes and goes), a call that waits
ends by its HTTP timeout, a coroutine that is about to insert goes on, the clock
reaches the next attempt, the collector of the connectivity state is resumed, and not
every probe of a link fails. The user, the server, the link and the end of the process
are not fair. That the network returns and that the process is started again are
premises of `Settles` itself: the second is needed, because a run that WorkManager
stops leaves its row SYNCING and only recovery at the start of a process resets it.

## Proofs

All ten components that have a run have proofs. For each it is proved, for every value
of the constants, that its `IndInv` is inductive (`Inductive`), and from it
`TypeCorrect` and the properties of its runs. Two modules of proofs each extend two
components, so the definitions and theorems of `AIRouter` and `WakeActivation` that the
other component has too are named for theirs: `RouterSpec` and `RouterTypeOK`,
`WakeSpec` and `WakeTypeOK`, and `RouterInv` and `WakeInv` for what is `IndInv`
elsewhere (`RouterInductive`, `WakeTypeCorrect`).

| Module | Theorem: property |
| --- | --- |
| `TaskEngine` | `CreateIsIdempotent`: IdempotentCreate; `ClaimIsExclusive`: AtMostOneClaim; `CancelIsFinal`: CancelledNeverRuns; `AttemptsAgree`: AttemptAgrees; `HistoryIsComplete`: HistoryComplete; `RefinesLifecycle`: ImplementsLifecycle |
| `Authority` | `EveryAllowRestsOnConsent`: AllowRestsOnConsent; `RevocationAlwaysHolds`: RevocationHolds; `SpentAlwaysRefused`: SpentIsRefused |
| `Orchestrator` | `StepsStayAPath`: StepsAreAPath; `EnvelopeStaysMatched`: EnvelopeMatchesWorkflow; `CancelAlwaysTakesTask`: CancelTakesTask |
| `TextAssistant` | `StoredOncePerKey`: OncePerKey; `SequencesStayOrdered`: SequencesOrdered; `RepliesAlwaysSeeHistory`: RepliesSeeHistory |
| `Memory` | `HistoryStaysTrue`: HistoryIsTrue; `DeletedStaysScrubbed`: DeletedIsScrubbed; `TwinsNeverMeet`: NoActiveTwins; `ExpiredNeverAnswered`: ExpiredIsNotAnswered; `RowsMoveOneWay`: NeverComesBack |
| `VoiceSession` | `TurnsAnsweredOnce`: AnsweredOnce; `SpeakingStaysAgreed`: SpeakingAgrees; `EndedStaysEnded`: TerminalIsFinal; `LeasePassesOnlyQuiet`: LeasePasses |
| `WakeActivation` | `ShownStaysTrue`: ShownIsTrue; `CaptureStaysOwned`: CaptureIsOwned; `NeverStranded`: NotStranded; `MovesStayLegal`: MovesAreLegal |
| `OfflineDelivery` | `AcknowledgedIsStored`: AckedIsStored; `SettledIsFinal`: TerminalIsFinal; `ServerImplementsTextAssistant`: the calls of the queue are calls of `TextAssistant` |
| `AIRouter` | `LeaksNothing`: NothingLeaks; `TheGatesAgree`: GatesAgree; `Escalates`: NeverDegrades; `StoryIsTold`: AttemptsTellTheStory |
| `VoiceClient` | `MicStaysInSession`: MicInSession; `InterruptedStaysSilent`: InterruptedIsSilent; `HeardStaysInOrder`: HeardInOrder; `KeepsTheSlot`: SlotSpec |

So the bounds on calls, rows, keys, versions, connections, waiting operations, turns
and frames that the runs need are no part of what is proved: a bound in a guard only
takes behaviours away, and the theorems hold for every value of it. `MovesAreLegal` (no operation asks
`WakeWordStateMachine` for a move that its table refuses, which would throw) is stated
for the theorem; TLC confirms it in the configuration `WakeRace`.

### Assumptions

They are the named ASSUMEs of the modules, which TLC evaluates on the instances. Bounds
are numbers, deadlines are numbers or `Null`, and `Null`, `Keep` and `Scrubbed` are no
values of the columns they stand in (in `Memory` also not a class or a status). A
capability has a risk from 0 to 5 and Boolean marks, as its columns do; grants and
proposals name known capabilities, and the action of a proposal is among the operations
of its scope, as `AuthorizationRequest` validates (`permissions/schemas.py:145`). The catalog, the budget and the requests of
`AIRouter` are what the validators of `ai_router/schemas.py` and `catalog.py` accept:
labels and tiers of the enumerations, prices and limits that are numbers, identifiers
used once, and approvals each of which rests on the one below it. Nothing is assumed of
the health and cost snapshots, nor of which providers have an adapter.

### The inductive invariants

None of the properties is inductive: what is written was decided several steps earlier,
on rows that others have changed since. Each `IndInv` says what a call in flight may
still rely on.

- `TaskEngine`. `CallsSound`: a call holds at most one update per Task, each along the
  transition table; only complete leads to COMPLETED, only fail from RUNNING to FAILED;
  what a create will insert is a legal first state. Without it a Commit could write
  anything. `RowsSound`: rows that do not exist are blank and keys are unique.
  `HistoryComplete` and `AttemptAgrees` tie version, events and attempt to the status a
  Commit is conditional on. `AnswersHold`: what was told is what the rows say. The
  refinement uses that every committed update starts from the status and version the
  row has at that moment.
- `Authority`. The writes have no condition, so nothing a call has read is known to be
  so when it writes, except what no call ever takes back: rows stay and keep their
  grant, permission and proposal, an approval that was answered stays answered.
  `SoundCall` is stated in those terms only, and that is why a race can lose a REVOKED
  to an EXPIRED but not make an ALLOW without consent. `UseInv` adds that a
  confirmation that has been used is marked, and that a call allowed by one is about to
  mark it. That the call has found it unmarked cannot be kept while others run, so
  `SpentIsRefused` holds and `ConfirmationSingleUse` does not.
- `Orchestrator`. `Fresh`: what a call has read is the row as long as the version is
  the same, which is what the conditional UPDATE checks. `Consistent`: where the path
  of the call ends, what it seals and what it does to the Task agree. Lemmas on paths
  (one step appended, create's path joined to the plan's) give `StepsAreAPath`.
- `TextAssistant`. From the UPDATE on a call has the conversation and from the INSERT
  on its key to itself (`Exclusive`), so that version, sequence and history it has read
  are still the conversation's at its COMMIT (`SoundCall`); versions may pass without a
  pair, and `SequencesOrdered` accounts for their numbers; `LogSound` makes keys
  unique in the log, from which the cardinality in `OncePerKey` follows.
- `Memory`. `CopyOf`: the copy a call holds is the row if the version is unchanged.
  `SoundRow` ties a row to its revisions, events and history, and its key to its
  content: that is what makes the unique index keep twins apart. A create that met a
  duplicate knows class and key of it.
- `VoiceSession`. `RowSound`: the row is locked only for a turn, by the connection with
  the lease. `SoundHandler`: a connection at work on a turn finds it open, and only one
  connection sends the reply of a turn, which is stored and unheard.
- `WakeActivation`. `MutexHeld`: the state an operation has read is still the state
  when it goes on. `QueueSound`: at most one enable waits, under the service, and after
  everything that can start the recorder without the service `onHostStopped` waits.
  `EngineSound`: a recorder that runs for nobody, or is known to have stopped by itself,
  has an operation waiting that will put it right; one that is dead unknown to anybody
  is treated like one that runs. `WatchSound`: the collector of uiState
  knows the last state or waits, so that the end of a session is not missed.
- `VoiceClient`. `SoundClient` says where `connectionJob` and `cleanupJob` can be for
  each state of the session and each thing shown of it: without it `fail` could be
  called by a thread of a session that nobody cleans up, or an empty slot could still
  play. `WireSound`: nothing is under way unless the connection's job or its clean-up
  is there, and an ENDED only for a session that is being ended; else an ENDED could
  make a session that still runs look idle. `FramesSound` gives the frame a reader
  holds, and once a session has listened the next one, a name after all that are queued
  or sent and none before the one the server expects; that is what `HeardInOrder` needs
  of a frame that is appended. Until it has listened the session may have a frame of an
  earlier one queued or held, but not both: `SoundClient` says so, because no reader can
  begin a frame before the session listens. The lemmas give each
  handler's effect on the controller once (`Well`: typed, sound and a step of the slot;
  `Queues`: the four things it may do to the frames), and the wires are added per
  action. The same lemmas give the refinement: `Passes` is [Slot!Next]_Slot!vars read
  off the controller's fields.

- `OfflineDelivery`. Its server is a `TextAssistant`, so the invariant of that module is
  a part of its own, and the theorems of `TextAssistantProofs` are cited for it through
  an INSTANCE: each step of the queue is a step of the server or leaves it alone
  (`ServerImplementsTextAssistant`), with an `expected_version` the server has given
  out, and so one between 1 and the current version. To it `SoundRow` adds what the queue relies on:
  a call carries the key of its row, an answer is not taken back, and an ACKNOWLEDGED
  row has had an "ok" for one of its attempts. The lemmas `Advancing`, `Replying` and `Replaying`
  say what a caller may rely on while its call goes on; `AckedIsStored` follows from
  "ok" being said only with the pair stored or in the caller's own transaction.
- `AIRouter`. `SoundDecision`: the chain holds models that passed every filter, each
  once, none before one of a lesser class or quality, and a denial is for the budget or
  leaves no model. `SoundRows`: the attempts go down that chain. `SoundCalls`: whatever
  was asked passed the check of the highest label. The rest is about operators, for
  catalogs of any size. `SortedOrders`: Python's `sorted` is modelled by the place of a
  member, the number of members before it, so that no induction over the set is
  needed: places are below the cardinality and differ, because keys differ and their
  order is total, and an injection between finite sets of one size is onto.
  `ChainOrders`: selected, equivalents and others keep class and quality in order.
  `HighestStandsForAll`: `SensitivityRoutingPolicy.allows` looks at one label and asks
  for one approval; that this is enough for all the labels rests on the validator of
  `ProviderDefinition`, which makes each approval imply the one below it.

Every `IndInv` was checked by TLC on the run of its module before it was proved. There
is a lemma per action, or per group of actions that do the same, split into the parts
of `IndInv`; `Inductive` puts them together and each property follows from `IndInv`, or
from `IndInv` and one step, with PTL.

### Only model-checked

- `Settles`, `EndingSettles`, `OptOutDeafens`: liveness, for which the prover has
  neither fairness nor ENABLED.
- What the prover is not asked: that the bounds of a run let the interesting cases
  happen. The runs and the mutants show that.

No module uses RECURSIVE operators.

## Not modelled

- What a reply says, how intents, sensitivity and task profiles are told from text,
  prompts, provider calls, web fetches: text and I/O.
- Audit records, metrics and logs: written with the change they describe and never
  read to decide.
- Audio, transcription, wake word detection and what a provider answers: every outcome
  the code tells apart is an input. Between threads of
  the Android client: what one writes another sees at once (the fields of the controller
  are not volatile); a `fail` called by a device's thread and a handler of the main
  thread are one step each; so is the completion of a played turn, from the look at the
  generation to `onComplete`; at most one stopped reader and one stopped writer have not
  noticed it. A preference written
  with `apply` is not lost.
- The permissions of memory calls (allowed, see `Authority`), search in memories and
  what a context pack selects; benchmark results, usage listings and the default
  catalog of the AI Router.
- The web client, and device registration: they are next in the plan.
- The screen's cache of conversations and messages on Android, migrations, row-level
  security, configuration and wiring.
- In `TaskEngine`, `Authority` and `Orchestrator` the answer and the COMMIT are one
  step; `TextAssistant` takes them apart.
- What WorkManager, Room and the network do is modelled from how the client uses them
  and marked external. Recovery is one step with the restart: its first statement is
  queued while `AppContainer` is built, before a worker can be created.
  `synchronizeEligible` is one step, although a change of connectivity may cancel it
  halfway; the next ONLINE starts it again.

## Plan

1. Done: `TaskEngine`, `Authority`, `Orchestrator`, `TextAssistant`, `Memory`,
   `VoiceSession`, `WakeActivation` and `VoiceClient` over `VoiceSlot`,
   `OfflineDelivery` over `TextAssistant`, and `AIRouter`, each with runs and proofs.
2. `Identity`: installation binding, device registration and revocation, the session
   rules of `auth/`; composed with `Authority` for what a revoked device can still do.
3. The web session and conversation controllers against late answers.
4. `TaskEngine` with `Authority`: the decision records and confirmations a lost create
   leaves behind, and a reevaluate that uses a confirmation twice.
