----------------------------- MODULE TaskEngine -----------------------------
(***************************************************************************)
(* The Task Engine, backend/app/tasks/service.py, for one owner.           *)
(*                                                                         *)
(* Every call runs in one database transaction (core/database.py), read    *)
(* committed: it first reads rows into its session and decides from those  *)
(* copies; it then writes with conditional updates that the database tests *)
(* against the rows of that later moment, and commits.  A call is          *)
(* therefore two steps here, a Begin and a Commit, and whatever other      *)
(* calls do may fall between them.  A call in flight can always be rolled  *)
(* back instead: a conditional update that matches no row raises, and so   *)
(* does a lost connection or a failed audit write.                         *)
(*                                                                         *)
(* A call that ends before it writes anything leaves every row alone and   *)
(* is no step of its own, unless what it answered is something a property  *)
(* is about: told records those answers.                                   *)
(***************************************************************************)
EXTENDS Naturals, Sequences, FiniteSets, TaskStateMachine

CONSTANTS
  Requests,    \* the calls that can be in flight at the same time
  TaskIds,     \* the primary keys tasks.id
  Keys,        \* idempotency keys of the owner
  Bodies,      \* request bodies, up to their fingerprint
  ExpiresAt,   \* the expires_at of each body, or Null
  Null,        \* no value
  MaxTime,     \* bound on the clock
  MaxVersion   \* bound on tasks.version

ASSUME NullAssumption == Null \notin Keys \cup Bodies \cup Nat
ASSUME ExpiresAtAssumption == ExpiresAt \in [Bodies -> Nat \cup {Null}]
ASSUME BoundsAssumption == MaxTime \in Nat /\ MaxVersion \in Nat

VARIABLES
  task,      \* the rows of tasks: [TaskIds -> Row]
  attempt,   \* status of the row of task_attempts, or "NONE"
  events,    \* to_state of the rows of task_events, oldest first
  session,   \* what each call in flight is about to write
  now,       \* utc_now()
  told       \* what callers have been told (history)

vars == <<task, attempt, events, session, now, told>>

-----------------------------------------------------------------------------
\* Rows and calls in flight.

Row == [status : TaskStatus \cup {"NONE"}, version : Nat,
        key : Keys \cup {Null}, body : Bodies \cup {Null}]

NoTask == [status |-> "NONE", version |-> 0, key |-> Null, body |-> Null]

\* A conditional UPDATE: WHERE id, status = from, version; SET status = to.
Update == [id : TaskIds, from : TaskStatus, version : Nat, to : TaskStatus]

Operations == {"create", "read", "cancel", "claim", "complete", "fail",
               "reevaluate"}

Session == [op : Operations \cup {"idle"}, updates : SUBSET Update,
            key : Keys \cup {Null}, body : Bodies \cup {Null},
            initial : CreatedStates \cup {"NONE"}]

UpdateCall(op, updates) == [op |-> op, updates |-> updates, key |-> Null,
                            body |-> Null, initial |-> "NONE"]

CreateCall(k, b, i) == [op |-> "create", updates |-> {}, key |-> k, body |-> b,
                        initial |-> i]

Idle == UpdateCall("idle", {})

\* Answers to creates, Tasks reported cancelled, Tasks a read was refused for,
\* and how many workers were given each Task.
Told == [created : SUBSET [key : Keys, body : Bodies, id : TaskIds],
         cancelled : SUBSET TaskIds, refused : SUBSET TaskIds,
         claims : [TaskIds -> Nat]]

Exists(t) == task[t].status # "NONE"

Existing == {t \in TaskIds : Exists(t)}

\* UNIQUE(user_id, idempotency_key) and _idempotent_existing look here.
WithKey(k) == {t \in TaskIds : Exists(t) /\ task[t].key = k}

\* at_or_after(now, expires_at)
Due(body) == ExpiresAt[body] # Null /\ now >= ExpiresAt[body]

\* The condition of _expire_if_due.
ExpiryDue(t) ==
  Exists(t) /\ ~IsTerminal(task[t].status) /\ Due(task[t].body)

\* Bug variant: only terminal states are protected.
CanMove_NotTerminal(t, target) == ~IsTerminal(task[t].status)

\* TaskStateMachine.evaluate of the copy the call has read.
CanMove(t, target) == target \in AllowedTransitions(task[t].status)

\* The update _transition sends for the copy of t the call has read.
Move(t, version, target) ==
  [id |-> t, from |-> task[t].status, version |-> version, to |-> target]

\* _expire_if_due passes the version it has just read.
Expire(t) == Move(t, task[t].version, "EXPIRED")

Send(r, op, updates) ==
  session' = [session EXCEPT ![r] = UpdateCall(op, updates)]

Finish(r) == session' = [session EXCEPT ![r] = Idle]

\* A call can start only where its write stays within the bound on versions.
Ready(r, t) ==
  /\ session[r].op = "idle"
  /\ Exists(t)
  /\ task[t].version < MaxVersion

-----------------------------------------------------------------------------
Init ==
  /\ task = [t \in TaskIds |-> NoTask]
  /\ attempt = [t \in TaskIds |-> "NONE"]
  /\ events = [t \in TaskIds |-> <<>>]
  /\ session = [r \in Requests |-> Idle]
  /\ now = 0
  /\ told = [created |-> {}, cancelled |-> {}, refused |-> {},
             claims |-> [t \in TaskIds |-> 0]]

Tick ==
  /\ now < MaxTime
  /\ now' = now + 1
  /\ UNCHANGED <<task, attempt, events, session, told>>

-----------------------------------------------------------------------------
\* create

Answer(k, b, t) == [key |-> k, body |-> b, id |-> t]

\* Bug variant: the fingerprint is not compared.
ReplayCreate_AnyBody(r, k, b) ==
  /\ session[r].op = "idle"
  /\ \E t \in WithKey(k) :
       told' = [told EXCEPT !.created = @ \cup {Answer(k, b, t)}]
  /\ UNCHANGED <<task, attempt, events, session, now>>

\* The key is known: the same body is answered with the Task it made, another
\* body is a conflict.
ReplayCreate(r, k, b) ==
  /\ session[r].op = "idle"
  /\ \E t \in WithKey(k) :
       /\ task[t].body = b
       /\ told' = [told EXCEPT !.created = @ \cup {Answer(k, b, t)}]
  /\ UNCHANGED <<task, attempt, events, session, now>>

\* The key is new to this call: the deadline has not passed, and the decision
\* of the Permissions Engine is no hard denial.
BeginCreate(r, k, b) ==
  /\ session[r].op = "idle"
  /\ WithKey(k) = {}
  /\ ~Due(b)
  /\ \E decision \in CreatingDecisions :
       session' = [session EXCEPT ![r] =
         CreateCall(k, b, InitialState(decision))]
  /\ UNCHANGED <<task, attempt, events, now, told>>

\* The INSERT finds the key free.
CommitCreate(r) ==
  /\ session[r].op = "create"
  /\ WithKey(session[r].key) = {}
  /\ \E t \in TaskIds \ Existing :
       /\ task' = [task EXCEPT ![t] =
            [status |-> session[r].initial, version |-> 1,
             key |-> session[r].key, body |-> session[r].body]]
       /\ events' = [events EXCEPT ![t] = Append(@, session[r].initial)]
       /\ told' = [told EXCEPT !.created =
            @ \cup {Answer(session[r].key, session[r].body, t)}]
  /\ Finish(r)
  /\ UNCHANGED <<attempt, now>>

\* The INSERT violates the unique constraint: the savepoint is undone and the
\* row that won is looked up again.
LoseCreate(r) ==
  /\ session[r].op = "create"
  /\ \E t \in WithKey(session[r].key) :
       told' = IF task[t].body = session[r].body
               THEN [told EXCEPT !.created =
                       @ \cup {Answer(session[r].key, session[r].body, t)}]
               ELSE told
  /\ Finish(r)
  /\ UNCHANGED <<task, attempt, events, now>>

-----------------------------------------------------------------------------
\* The calls on an existing Task.  Each first runs _expire_if_due on the copy
\* it has read, except complete and fail.

\* get_owned and list_owned: every Task read that is due is expired; the read
\* raises if one of them is RUNNING, since RUNNING may not become EXPIRED.
BeginRead(r, ts) ==
  LET due == {t \in ts : ExpiryDue(t)}
  IN  /\ ts # {}
      /\ \A t \in ts : Ready(r, t)
      /\ due # {}
      /\ \/ /\ \A t \in due : CanMove(t, "EXPIRED")
            /\ Send(r, "read", {Expire(t) : t \in due})
            /\ UNCHANGED told
         \/ /\ \E t \in due : ~CanMove(t, "EXPIRED")
            /\ told' = [told EXCEPT !.refused = @ \cup ts]
            /\ UNCHANGED session
      /\ UNCHANGED <<task, attempt, events, now>>

\* cancel, claim_task and reevaluate expire a due Task instead of doing what
\* they were called for.
BeginExpiring(r, op, t) ==
  /\ Ready(r, t)
  /\ ExpiryDue(t)
  /\ CanMove(t, "EXPIRED")
  /\ Send(r, op, {Expire(t)})
  /\ UNCHANGED <<task, attempt, events, now, told>>

BeginMove(r, op, t, version, target) ==
  /\ Ready(r, t)
  /\ CanMove(t, target)
  /\ Send(r, op, {Move(t, version, target)})
  /\ UNCHANGED <<task, attempt, events, now, told>>

\* A Task that is already CANCELLED is returned as it is.
CancelAgain(r, t) ==
  /\ session[r].op = "idle"
  /\ task[t].status = "CANCELLED"
  /\ told' = [told EXCEPT !.cancelled = @ \cup {t}]
  /\ UNCHANGED <<task, attempt, events, session, now>>

BeginCancel(r, t, version) ==
  /\ ~ExpiryDue(t)
  /\ BeginMove(r, "cancel", t, version, "CANCELLED")

BeginClaim(r, t, version) ==
  /\ ~ExpiryDue(t)
  /\ task[t].status = "QUEUED"
  /\ BeginMove(r, "claim", t, version, "RUNNING")

\* complete_task and fail_task, guarded by _running_task.
BeginSettle(r, op, t, version) ==
  /\ task[t].status = "RUNNING"
  /\ BeginMove(r, op, t, version,
               IF op = "complete" THEN "COMPLETED" ELSE "FAILED")

\* reevaluate: the decision of the moment moves a waiting Task, a hard denial
\* fails it, and nothing is written when the status would stay the same.
BeginReevaluate(r, t, version) ==
  /\ ~ExpiryDue(t)
  /\ task[t].status \in {"WAITING_PERMISSION", "WAITING_CONFIRMATION"}
  /\ \E target \in (CreatedStates \cup {"FAILED"}) \ {task[t].status} :
       BeginMove(r, "reevaluate", t, version, target)

-----------------------------------------------------------------------------
\* The conditional updates, then what the call still writes, then COMMIT.

\* Bug variant: the WHERE clause names no status and no version.
Matches_NotTerminal(u) == ~IsTerminal(task[u.id].status)

Matches(u) == task[u.id].status = u.from /\ task[u.id].version = u.version

\* The Task an update of r moves to the given status.
Moves(r, t, target) ==
  \E u \in session[r].updates : u.id = t /\ u.to = target

UpdateOf(r, t) == CHOOSE u \in session[r].updates : u.id = t

Touched(r) == {u.id : u \in session[r].updates}

\* claim_task inserts the attempt (unique per Task and number); complete_task
\* and fail_task look for the RUNNING one and raise when there is none.
AttemptReady(r, t) ==
  CASE Moves(r, t, "RUNNING") -> attempt[t] = "NONE"
    [] session[r].op \in {"complete", "fail"} -> attempt[t] = "RUNNING"
    [] OTHER -> TRUE

\* Bug variant: fail_task leaves its attempt RUNNING.
NewAttempt_FailForgets(r, t) ==
  CASE Moves(r, t, "RUNNING") -> "RUNNING"
    [] session[r].op = "complete" -> "COMPLETED"
    [] OTHER -> attempt[t]

NewAttempt(r, t) ==
  CASE Moves(r, t, "RUNNING") -> "RUNNING"
    [] session[r].op = "complete" -> "COMPLETED"
    [] session[r].op = "fail" -> "FAILED"
    [] OTHER -> attempt[t]

\* Bug variant: the version is not advanced.
Moved_SameVersion(row, u) == [status |-> u.to, version |-> u.version,
                              key |-> row.key, body |-> row.body]

\* SET status, version = expected_version + 1
Moved(row, u) == [status |-> u.to, version |-> u.version + 1, key |-> row.key,
                  body |-> row.body]

\* Bug variant: rows are written by primary key, whatever they hold.
WritesLand_Blind(r) == Touched(r) \subseteq Existing

\* Every conditional update has matched its row, and every attempt is in place.
WritesLand(r) ==
  /\ \A u \in session[r].updates : Matches(u)
  /\ \A t \in Touched(r) : AttemptReady(r, t)

CommitUpdates(r) ==
  /\ session[r].op \notin {"idle", "create"}
  /\ WritesLand(r)
  /\ task' = [t \in TaskIds |->
       IF t \in Touched(r) THEN Moved(task[t], UpdateOf(r, t)) ELSE task[t]]
  /\ events' = [t \in TaskIds |->
       IF t \in Touched(r) THEN Append(events[t], UpdateOf(r, t).to)
                           ELSE events[t]]
  /\ attempt' = [t \in TaskIds |->
       IF t \in Touched(r) THEN NewAttempt(r, t) ELSE attempt[t]]
  /\ told' = [created |-> told.created, refused |-> told.refused,
       cancelled |-> told.cancelled \cup
         {t \in Touched(r) : Moves(r, t, "CANCELLED")},
       claims |-> [t \in TaskIds |->
         IF Moves(r, t, "RUNNING") THEN told.claims[t] + 1 ELSE told.claims[t]]]
  /\ Finish(r)
  /\ UNCHANGED now

\* A conditional update matched no row (TaskConcurrentModificationError), or
\* the transaction was lost: nothing of it remains.
Rollback(r) ==
  /\ session[r].op # "idle"
  /\ Finish(r)
  /\ UNCHANGED <<task, attempt, events, now, told>>

-----------------------------------------------------------------------------
Begin(r) ==
  \/ \E k \in Keys, b \in Bodies : ReplayCreate(r, k, b) \/ BeginCreate(r, k, b)
  \/ \E ts \in SUBSET TaskIds : BeginRead(r, ts)
  \/ \E t \in TaskIds :
       \/ CancelAgain(r, t)
       \/ \E op \in {"cancel", "claim", "reevaluate"} : BeginExpiring(r, op, t)
       \/ \E version \in 1..MaxVersion :
            \/ BeginCancel(r, t, version)
            \/ BeginClaim(r, t, version)
            \/ \E op \in {"complete", "fail"} : BeginSettle(r, op, t, version)
            \/ BeginReevaluate(r, t, version)

End(r) == CommitCreate(r) \/ LoseCreate(r) \/ CommitUpdates(r) \/ Rollback(r)

Next == Tick \/ \E r \in Requests : Begin(r) \/ End(r)

Spec == Init /\ [][Next]_vars

-----------------------------------------------------------------------------
\* Properties.

\* The variables keep the shapes the tables and the calls in flight have.
TypeOK ==
  /\ task \in [TaskIds -> Row]
  /\ attempt \in [TaskIds -> {"NONE", "RUNNING", "COMPLETED", "FAILED"}]
  /\ events \in [TaskIds -> Seq(TaskStatus)]
  /\ session \in [Requests -> Session]
  /\ now \in Nat
  /\ told \in Told

\* TaskService.create: however many creates race with one idempotency key,
\* every caller that was answered got the same Task, made from the body that
\* caller sent.
IdempotentCreate ==
  \A a \in told.created :
    /\ task[a.id].key = a.key /\ task[a.id].body = a.body
    /\ \A c \in told.created : c.key = a.key => c = a

\* claim_task: of all workers that race for a Task, with whatever versions
\* they have seen, at most one is ever given it.
AtMostOneClaim == \A t \in TaskIds : told.claims[t] <= 1

\* cancel against claim_task: once an owner has been told that the Task is
\* cancelled, no worker has it or will have it.
CancelledNeverRuns == \A t \in told.cancelled : told.claims[t] = 0

\* TaskAttempt and Task are two rows written by one call: a Task is RUNNING
\* exactly while its attempt is, and ends as its attempt ended.  A FAILED Task
\* without an attempt was failed by reevaluate.
AttemptAgrees ==
  \A t \in TaskIds :
    /\ task[t].status = "RUNNING" <=> attempt[t] = "RUNNING"
    /\ task[t].status = "COMPLETED" <=> attempt[t] = "COMPLETED"
    /\ attempt[t] = "FAILED" => task[t].status = "FAILED"

\* _transition: no change of a Task is lost and none goes unrecorded.  The
\* version counts the events, and the last event is where the Task is.
HistoryComplete ==
  \A t \in TaskIds :
    /\ Len(events[t]) = task[t].version
    /\ Exists(t) => events[t][Len(events[t])] = task[t].status

\* Calls in flight, whatever the order of their commits, move a Task only as
\* the state machine allows: the engine implements TaskLifecycle.
Life == [t \in TaskIds |-> [status |-> task[t].status, version |-> task[t].version]]

Lifecycle == INSTANCE TaskLifecycle WITH life <- Life

ImplementsLifecycle == Lifecycle!Spec

\* docs/api/tasks.md: GET of an owned Task returns it, and so does the list.
\* It is not an invariant: _expire_if_due raises instead for a RUNNING Task
\* whose deadline has passed.
ReadReturnsTask == told.refused = {}

-----------------------------------------------------------------------------
\* The inductive invariant behind TaskEngineProofs.

\* What a call in flight is about to write: one update per Task, along the
\* state machine; RUNNING is left only by complete and fail, each its own way.
SoundUpdates(s) ==
  /\ \A u, v \in s.updates : u.id = v.id => u = v
  /\ \A u \in s.updates :
       /\ u.to \in AllowedTransitions(u.from)
       /\ s.op = "complete" <=> u.to = "COMPLETED"
       /\ s.op = "fail" <=> (u.from = "RUNNING" /\ u.to = "FAILED")

SoundCreate(s) ==
  s.op = "create" => s.key \in Keys /\ s.body \in Bodies /\ s.initial \in CreatedStates

CallsSound == \A r \in Requests : SoundUpdates(session[r]) /\ SoundCreate(session[r])

\* A row that does not exist is blank, and keys are unique.
RowsSound ==
  /\ \A t \in TaskIds : ~Exists(t) => task[t] = NoTask
  /\ \A t, u \in Existing : task[t].key = task[u].key => t = u

\* What callers were told is what the rows say.
AnswersHold ==
  /\ \A a \in told.created : Exists(a.id) /\ task[a.id].key = a.key
                             /\ task[a.id].body = a.body
  /\ \A t \in told.cancelled : task[t].status = "CANCELLED"
  /\ \A t \in TaskIds : told.claims[t] = IF attempt[t] = "NONE" THEN 0 ELSE 1

IndInv ==
  /\ TypeOK
  /\ CallsSound
  /\ RowsSound
  /\ HistoryComplete
  /\ AttemptAgrees
  /\ AnswersHold
=============================================================================
