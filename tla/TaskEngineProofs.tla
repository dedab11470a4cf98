-------------------------- MODULE TaskEngineProofs --------------------------
(***************************************************************************)
(* Proofs about TaskEngine, for every set of requests, Tasks, keys and     *)
(* bodies and every bound.  IndInv is inductive; it implies the safety     *)
(* invariants and carries the refinement of TaskLifecycle.                 *)
(***************************************************************************)
EXTENDS TaskEngine, SequenceTheorems, TLAPS

-----------------------------------------------------------------------------
\* The state machine.

\* Every decision that creates a Task puts it in one of three states.
LEMMA CreatedStatesAre ==
  CreatedStates = {"QUEUED", "WAITING_CONFIRMATION", "WAITING_PERMISSION"}
BY DEF CreatedStates, CreatingDecisions, InitialState

\* _ALLOWED_TRANSITIONS leads from a status to a status, and only from one
\* that is not terminal.
LEMMA AllowedFromTo ==
  ASSUME NEW from, NEW to \in AllowedTransitions(from)
  PROVE  /\ from \in TaskStatus /\ to \in TaskStatus
         /\ ~IsTerminal(from)
         /\ to # "NONE" /\ from # "NONE"
BY DEF AllowedTransitions, TaskStatus, IsTerminal, TerminalTaskStates

\* The facts about single transitions the invariant rests on: RUNNING comes
\* from QUEUED and ends as COMPLETED or FAILED, COMPLETED comes from RUNNING.
LEMMA RunningEdges ==
  ASSUME NEW from, NEW to \in AllowedTransitions(from)
  PROVE  /\ to = "RUNNING" => from = "QUEUED"
         /\ to = "COMPLETED" => from = "RUNNING"
         /\ from = "RUNNING" => to \in {"COMPLETED", "FAILED"}
BY DEF AllowedTransitions

-----------------------------------------------------------------------------
\* Steps.

\* Empty tables and no call in flight.
LEMMA InitInv == Init => IndInv
<1> SUFFICES ASSUME Init PROVE IndInv
  OBVIOUS
<1>1. TypeOK
  <2>1. NoTask \in Row
    BY DEF NoTask, Row
  <2>2. Idle \in Session
    BY DEF Idle, UpdateCall, Session
  <2>3. \A t \in TaskIds : <<>> \in Seq(TaskStatus)
    OBVIOUS
  <2> QED BY <2>1, <2>2, <2>3 DEF Init, TypeOK, Told
<1>2. CallsSound
  BY DEF Init, CallsSound, SoundUpdates, SoundCreate, Idle, UpdateCall
<1>3. RowsSound
  BY DEF Init, RowsSound, NoTask, Exists, Existing
<1>4. HistoryComplete
  BY DEF Init, HistoryComplete, NoTask, Exists
<1>5. AttemptAgrees
  BY DEF Init, AttemptAgrees, NoTask
<1>6. AnswersHold
  BY DEF Init, AnswersHold
<1> QED BY <1>1, <1>2, <1>3, <1>4, <1>5, <1>6 DEF IndInv

\* A step that leaves the rows alone keeps what is said of them, if the calls
\* in flight stay sound and the answers true.
LEMMA RowsKept ==
  ASSUME IndInv, UNCHANGED <<task, attempt, events>>,
         session' \in [Requests -> Session], CallsSound', now' \in Nat,
         told' \in Told, AnswersHold'
  PROVE  IndInv'
<1>1. TypeOK'
  BY DEF IndInv, TypeOK
<1>2. RowsSound'
  BY DEF IndInv, RowsSound, Existing, Exists
<1>3. HistoryComplete'
  BY DEF IndInv, HistoryComplete, Exists
<1>4. AttemptAgrees'
  BY DEF IndInv, AttemptAgrees
<1> QED BY <1>1, <1>2, <1>3, <1>4 DEF IndInv

\* A step that changes neither rows nor answers only has to keep the calls sound.
LEMMA RowsAlone ==
  ASSUME IndInv, UNCHANGED <<task, attempt, events>>,
         session' \in [Requests -> Session], CallsSound', now' \in Nat,
         UNCHANGED told
  PROVE  IndInv'
<1>1. told' \in Told
  BY DEF IndInv, TypeOK
<1>2. AnswersHold'
  BY DEF IndInv, AnswersHold, Exists
<1> QED BY <1>1, <1>2, RowsKept

\* The session of one call is replaced by a sound one.
LEMMA OneCall ==
  ASSUME IndInv, NEW r \in Requests, NEW s \in Session,
         session' = [session EXCEPT ![r] = s],
         SoundUpdates(s), SoundCreate(s)
  PROVE  session' \in [Requests -> Session] /\ CallsSound'
<1>1. session \in [Requests -> Session]
  BY DEF IndInv, TypeOK
<1>2. \A q \in Requests : session'[q] = IF q = r THEN s ELSE session[q]
  BY <1>1
<1>3. \A q \in Requests : SoundUpdates(session'[q]) /\ SoundCreate(session'[q])
  BY <1>2 DEF IndInv, CallsSound
<1> QED BY <1>1, <1>3 DEF CallsSound

\* A call ends: Idle is sound.
LEMMA FinishSound ==
  ASSUME IndInv, NEW r \in Requests, Finish(r)
  PROVE  session' \in [Requests -> Session] /\ CallsSound'
<1>1. Idle \in Session /\ SoundUpdates(Idle) /\ SoundCreate(Idle)
  BY DEF Idle, UpdateCall, Session, SoundUpdates, SoundCreate
<1> QED BY <1>1, OneCall DEF Finish

\* A call sends at most one update per Task.
LEMMA SendSound ==
  ASSUME IndInv, NEW r \in Requests, NEW op \in Operations \ {"create"},
         NEW us \in SUBSET Update, Send(r, op, us),
         \A u, v \in us : u.id = v.id => u = v,
         \A u \in us : /\ u.to \in AllowedTransitions(u.from)
                       /\ op = "complete" <=> u.to = "COMPLETED"
                       /\ op = "fail" <=> (u.from = "RUNNING" /\ u.to = "FAILED")
  PROVE  session' \in [Requests -> Session] /\ CallsSound'
<1> DEFINE s == UpdateCall(op, us)
<1>1. s \in Session
  BY DEF UpdateCall, Session
<1>2. s.op = op /\ s.updates = us
  BY DEF UpdateCall
<1>3. SoundUpdates(s) /\ SoundCreate(s)
  BY <1>2 DEF SoundUpdates, SoundCreate
<1> HIDE DEF s
<1>4. session' = [session EXCEPT ![r] = s]
  BY DEF Send, s
<1> QED BY <1>1, <1>3, <1>4, OneCall

\* The update a call prepares for a Task that may move to the target.
LEMMA MoveIsUpdate ==
  ASSUME IndInv, NEW t \in TaskIds, NEW version \in Nat, NEW target,
         CanMove(t, target)
  PROVE  /\ Move(t, version, target) \in Update
         /\ Move(t, version, target).id = t
         /\ Move(t, version, target).to = target
         /\ Move(t, version, target).from = task[t].status
         /\ target \in AllowedTransitions(task[t].status)
<1>1. /\ task[t].status \in TaskStatus /\ target \in TaskStatus
      /\ target \in AllowedTransitions(task[t].status)
  BY AllowedFromTo DEF CanMove
<1> QED BY <1>1 DEF Move, Update

-----------------------------------------------------------------------------
\* The first step of each call.

\* create has read that its key is free and keeps what it will insert.
LEMMA BeginCreateInv ==
  ASSUME IndInv, NEW r \in Requests, NEW k \in Keys, NEW b \in Bodies,
         BeginCreate(r, k, b)
  PROVE  IndInv'
<1>1. PICK decision \in CreatingDecisions :
        session' = [session EXCEPT ![r] =
          CreateCall(k, b, InitialState(decision))]
  BY DEF BeginCreate
<1> DEFINE i == InitialState(decision)
           s == CreateCall(k, b, i)
<1>2. i \in CreatedStates
  BY DEF CreatedStates
<1>3. session' = [session EXCEPT ![r] = s]
  BY <1>1
<1> HIDE DEF i
<1>4. s \in Session /\ SoundUpdates(s) /\ SoundCreate(s)
  BY <1>2 DEF CreateCall, Session, Operations, SoundUpdates, SoundCreate
<1> HIDE DEF s
<1>5. session' \in [Requests -> Session] /\ CallsSound'
  BY <1>3, <1>4, OneCall
<1>6. now' \in Nat /\ UNCHANGED <<task, attempt, events>> /\ UNCHANGED told
  BY DEF BeginCreate, IndInv, TypeOK
<1> QED BY <1>5, <1>6, RowsAlone

\* cancel, claim_task, complete_task, fail_task and reevaluate prepare one update.
LEMMA BeginMoveInv ==
  ASSUME IndInv, NEW r \in Requests, NEW op \in Operations \ {"create"},
         NEW t \in TaskIds, NEW version \in Nat, NEW target,
         BeginMove(r, op, t, version, target),
         op = "complete" <=> target = "COMPLETED",
         op = "fail" <=> (task[t].status = "RUNNING" /\ target = "FAILED")
  PROVE  IndInv'
<1> DEFINE u == Move(t, version, target)
<1>1. /\ u \in Update /\ u.to = target /\ u.from = task[t].status
      /\ target \in AllowedTransitions(task[t].status)
  BY MoveIsUpdate DEF BeginMove
<1>2. Send(r, op, {u})
  BY DEF BeginMove
<1> HIDE DEF u
<1>3. session' \in [Requests -> Session] /\ CallsSound'
  BY <1>1, <1>2, SendSound
<1>4. now' \in Nat /\ UNCHANGED <<task, attempt, events>> /\ UNCHANGED told
  BY DEF BeginMove, IndInv, TypeOK
<1> QED BY <1>3, <1>4, RowsAlone

\* Expiring any set of Tasks that may expire.
LEMMA SendExpiries ==
  ASSUME IndInv, NEW r \in Requests, NEW op \in {"read", "cancel", "claim", "reevaluate"},
         NEW ts \in SUBSET TaskIds, \A t \in ts : CanMove(t, "EXPIRED"),
         Send(r, op, {Expire(t) : t \in ts})
  PROVE  session' \in [Requests -> Session] /\ CallsSound'
<1> DEFINE us == {Expire(t) : t \in ts}
<1>1. \A t \in ts : /\ Expire(t) \in Update
                    /\ Expire(t).id = t /\ Expire(t).to = "EXPIRED"
                    /\ Expire(t).from = task[t].status
                    /\ "EXPIRED" \in AllowedTransitions(task[t].status)
  <2> SUFFICES ASSUME NEW t \in ts
               PROVE  /\ Expire(t) \in Update
                      /\ Expire(t).id = t /\ Expire(t).to = "EXPIRED"
                      /\ Expire(t).from = task[t].status
                      /\ "EXPIRED" \in AllowedTransitions(task[t].status)
    OBVIOUS
  <2>1. task[t].version \in Nat
    BY DEF IndInv, TypeOK, Row
  <2> QED BY <2>1, MoveIsUpdate DEF Expire
<1>2. us \in SUBSET Update
  BY <1>1
<1>3. \A u, v \in us : u.id = v.id => u = v
  BY <1>1
<1>4. \A u \in us : u.to \in AllowedTransitions(u.from) /\ u.to = "EXPIRED"
  BY <1>1
<1>5. op \in Operations \ {"create"} /\ op # "complete" /\ op # "fail"
  BY DEF Operations
<1> HIDE DEF us
<1>6. Send(r, op, us)
  BY DEF us
<1> QED BY <1>2, <1>3, <1>4, <1>5, <1>6, SendSound

\* _expire_if_due prepares the update to EXPIRED of one Task.
LEMMA BeginExpiringInv ==
  ASSUME IndInv, NEW r \in Requests, NEW op \in {"cancel", "claim", "reevaluate"},
         NEW t \in TaskIds, BeginExpiring(r, op, t)
  PROVE  IndInv'
<1>1. Send(r, op, {Expire(x) : x \in {t}})
  <2>1. {Expire(t)} = {Expire(x) : x \in {t}}
    OBVIOUS
  <2>2. Send(r, op, {Expire(t)})
    BY DEF BeginExpiring
  <2> QED BY <2>1, <2>2, Zenon
<1>2. session' \in [Requests -> Session] /\ CallsSound'
  <2>1. {t} \in SUBSET TaskIds /\ \A x \in {t} : CanMove(x, "EXPIRED")
    BY DEF BeginExpiring
  <2> QED BY <1>1, <2>1, SendExpiries
<1>3. now' \in Nat /\ UNCHANGED <<task, attempt, events>> /\ UNCHANGED told
  BY DEF BeginExpiring, IndInv, TypeOK
<1> QED BY <1>2, <1>3, RowsAlone

-----------------------------------------------------------------------------
\* Steps that only add an answer.

\* One more caller is answered with a Task that has its key and body.
LEMMA AnswerTrue ==
  ASSUME IndInv, NEW t \in TaskIds, NEW k \in Keys, NEW b \in Bodies,
         Exists(t), task[t].key = k, task[t].body = b,
         UNCHANGED <<task, attempt>>,
         told' = [told EXCEPT !.created = @ \cup {Answer(k, b, t)}]
  PROVE  told' \in Told /\ AnswersHold'
<1>1. told \in Told
  BY DEF IndInv, TypeOK
<1>2. /\ told'.created = told.created \cup {Answer(k, b, t)}
      /\ told'.cancelled = told.cancelled /\ told'.claims = told.claims
  BY <1>1 DEF Told
<1>3. Answer(k, b, t) \in [key : Keys, body : Bodies, id : TaskIds]
  BY DEF Answer
<1>4. told' \in Told
  BY <1>1, <1>3 DEF Told
<1>5. \A a \in told'.created : /\ task[a.id].status # "NONE"
                               /\ task[a.id].key = a.key /\ task[a.id].body = a.body
  <2> SUFFICES ASSUME NEW a \in told'.created
               PROVE  /\ task[a.id].status # "NONE"
                      /\ task[a.id].key = a.key /\ task[a.id].body = a.body
    OBVIOUS
  <2>1. CASE a \in told.created
    BY <2>1 DEF IndInv, AnswersHold, Exists
  <2>2. CASE a = Answer(k, b, t)
    BY <2>2 DEF Answer, Exists
  <2> QED BY <1>2, <2>1, <2>2
<1> QED BY <1>2, <1>4, <1>5 DEF IndInv, AnswersHold, Exists

\* create answers a known key with the Task it made.
LEMMA ReplayCreateInv ==
  ASSUME IndInv, NEW r \in Requests, NEW k \in Keys, NEW b \in Bodies,
         ReplayCreate(r, k, b)
  PROVE  IndInv'
<1>1. PICK t \in WithKey(k) :
        /\ task[t].body = b
        /\ told' = [told EXCEPT !.created = @ \cup {Answer(k, b, t)}]
  BY DEF ReplayCreate
<1>2. t \in TaskIds /\ Exists(t) /\ task[t].key = k
  BY DEF WithKey
<1>3. UNCHANGED <<task, attempt, events, session, now>>
  BY DEF ReplayCreate
<1>4. told' \in Told /\ AnswersHold'
  BY <1>1, <1>2, <1>3, AnswerTrue
<1>5. session' \in [Requests -> Session] /\ CallsSound' /\ now' \in Nat
  BY <1>3 DEF IndInv, TypeOK, CallsSound
<1> QED BY <1>3, <1>4, <1>5, RowsKept

\* create loses the INSERT and answers with the row that won.
LEMMA LoseCreateInv ==
  ASSUME IndInv, NEW r \in Requests, LoseCreate(r)
  PROVE  IndInv'
<1> DEFINE k == session[r].key
           b == session[r].body
<1>1. PICK t \in WithKey(k) :
        told' = IF task[t].body = b
                THEN [told EXCEPT !.created = @ \cup {Answer(k, b, t)}]
                ELSE told
  BY DEF LoseCreate
<1>2. t \in TaskIds /\ Exists(t) /\ task[t].key = k
  BY DEF WithKey
<1>3. UNCHANGED <<task, attempt, events, now>>
  BY DEF LoseCreate
<1>4. session' \in [Requests -> Session] /\ CallsSound' /\ now' \in Nat
  BY <1>3, FinishSound DEF LoseCreate, IndInv, TypeOK
<1>5. CASE task[t].body = b
  <2>1. k \in Keys /\ b \in Bodies
    BY DEF LoseCreate, IndInv, CallsSound, SoundCreate
  <2>2. told' \in Told /\ AnswersHold'
    BY <1>1, <1>2, <1>3, <1>5, <2>1, AnswerTrue
  <2> QED BY <1>3, <1>4, <2>2, RowsKept
<1>6. CASE task[t].body # b
  BY <1>1, <1>3, <1>4, <1>6, RowsAlone
<1> QED BY <1>5, <1>6

\* cancel reports a Task that is already CANCELLED.
LEMMA CancelAgainInv ==
  ASSUME IndInv, NEW r \in Requests, NEW t \in TaskIds, CancelAgain(r, t)
  PROVE  IndInv'
<1>1. told \in Told /\ told' = [told EXCEPT !.cancelled = @ \cup {t}]
  BY DEF CancelAgain, IndInv, TypeOK
<1>2. /\ told' \in Told /\ told'.cancelled = told.cancelled \cup {t}
      /\ told'.created = told.created /\ told'.claims = told.claims
  BY <1>1 DEF Told
<1>3. AnswersHold'
  BY <1>2 DEF CancelAgain, IndInv, AnswersHold, Exists
<1>4. session' \in [Requests -> Session] /\ CallsSound' /\ now' \in Nat
  BY DEF CancelAgain, IndInv, TypeOK, CallsSound
<1> QED BY <1>2, <1>3, <1>4, RowsKept DEF CancelAgain

\* get_owned and list_owned prepare the expiry of what is due, or refuse.
LEMMA BeginReadInv ==
  ASSUME IndInv, NEW r \in Requests, NEW ts \in SUBSET TaskIds, BeginRead(r, ts)
  PROVE  IndInv'
<1> DEFINE due == {t \in ts : ExpiryDue(t)}
<1>1. UNCHANGED <<task, attempt, events, now>> /\ now' \in Nat
  BY DEF BeginRead, IndInv, TypeOK
<1>2. CASE /\ \A t \in due : CanMove(t, "EXPIRED")
           /\ Send(r, "read", {Expire(t) : t \in due})
           /\ UNCHANGED told
  <2>1. due \in SUBSET TaskIds
    OBVIOUS
  <2> HIDE DEF due
  <2>2. session' \in [Requests -> Session] /\ CallsSound'
    BY <1>2, <2>1, SendExpiries
  <2> QED BY <1>1, <1>2, <2>2, RowsAlone
<1>3. CASE /\ told' = [told EXCEPT !.refused = @ \cup ts]
           /\ UNCHANGED session
  <2>1. told \in Told
    BY DEF IndInv, TypeOK
  <2>2. /\ told' \in Told /\ told'.cancelled = told.cancelled
        /\ told'.created = told.created /\ told'.claims = told.claims
    BY <1>3, <2>1 DEF Told
  <2>3. AnswersHold'
    BY <1>1, <2>2 DEF IndInv, AnswersHold, Exists
  <2>4. session' \in [Requests -> Session] /\ CallsSound'
    BY <1>3 DEF IndInv, TypeOK, CallsSound
  <2> QED BY <1>1, <2>2, <2>3, <2>4, RowsKept
<1> QED BY <1>2, <1>3 DEF BeginRead

-----------------------------------------------------------------------------
\* Commits.

\* The INSERT of create adds a row with a key of its own, its first event and
\* its answer.
LEMMA CommitCreateInv ==
  ASSUME IndInv, NEW r \in Requests, CommitCreate(r)
  PROVE  IndInv'
<1> DEFINE k == session[r].key
           b == session[r].body
           i == session[r].initial
<1>1. PICK t \in TaskIds \ Existing :
        /\ task' = [task EXCEPT ![t] =
                      [status |-> i, version |-> 1, key |-> k, body |-> b]]
        /\ events' = [events EXCEPT ![t] = Append(@, i)]
        /\ told' = [told EXCEPT !.created = @ \cup {Answer(k, b, t)}]
  BY DEF CommitCreate
<1>2. /\ k \in Keys /\ b \in Bodies /\ i \in CreatedStates
      /\ WithKey(k) = {}
      /\ UNCHANGED <<attempt, now>>
  BY DEF CommitCreate, IndInv, CallsSound, SoundCreate
<1>3. i \in TaskStatus /\ i \notin {"NONE", "RUNNING", "COMPLETED", "FAILED", "CANCELLED"}
  BY <1>2, CreatedStatesAre DEF TaskStatus
<1>4. session' \in [Requests -> Session] /\ CallsSound'
  BY FinishSound DEF CommitCreate
<1> HIDE DEF k, b, i
<1>5. /\ task \in [TaskIds -> Row] /\ events \in [TaskIds -> Seq(TaskStatus)]
      /\ told \in Told /\ now \in Nat
      /\ attempt \in [TaskIds -> {"NONE", "RUNNING", "COMPLETED", "FAILED"}]
  BY DEF IndInv, TypeOK
<1>6. task[t] = NoTask /\ task[t].status = "NONE" /\ task[t].version = 0
  BY DEF IndInv, RowsSound, Existing, NoTask
<1>7. attempt[t] = "NONE"
  BY <1>5, <1>6 DEF IndInv, AttemptAgrees
<1>8. events[t] \in Seq(TaskStatus) /\ Len(events[t]) = 0
  BY <1>5, <1>6 DEF IndInv, HistoryComplete
<1>9. /\ events'[t] \in Seq(TaskStatus) /\ Len(events'[t]) = 1
      /\ events'[t][1] = i
  BY <1>1, <1>3, <1>5, <1>8
<1>10. \A x \in TaskIds \ {t} : task'[x] = task[x] /\ events'[x] = events[x]
  BY <1>1, <1>5
<1>11. task'[t] = [status |-> i, version |-> 1, key |-> k, body |-> b]
  BY <1>1, <1>5
<1>12. /\ told'.created = told.created \cup {Answer(k, b, t)}
       /\ told'.cancelled = told.cancelled /\ told'.claims = told.claims
  BY <1>1, <1>5 DEF Told
<1>13. TypeOK'
  <2>1. [status |-> i, version |-> 1, key |-> k, body |-> b] \in Row
    BY <1>2, <1>3 DEF Row
  <2>2. task' \in [TaskIds -> Row]
    BY <1>1, <1>5, <2>1
  <2>3. events' \in [TaskIds -> Seq(TaskStatus)]
    BY <1>1, <1>5, <1>9
  <2>4. Answer(k, b, t) \in [key : Keys, body : Bodies, id : TaskIds]
    BY <1>2 DEF Answer
  <2>5. told' \in Told
    BY <1>1, <1>5, <2>4 DEF Told
  <2> QED BY <1>2, <1>4, <1>5, <2>2, <2>3, <2>5 DEF TypeOK
<1>14. RowsSound'
  <2>1. \A x \in TaskIds : task'[x].status = "NONE" => task'[x] = NoTask
    BY <1>3, <1>10, <1>11 DEF IndInv, RowsSound, Exists
  <2>2. \A x \in Existing : task[x].key # k
    BY <1>2 DEF WithKey, Existing
  <2>3. ASSUME NEW x \in TaskIds, NEW y \in TaskIds,
               task'[x].status # "NONE", task'[y].status # "NONE",
               task'[x].key = task'[y].key
        PROVE  x = y
    <3>1. x # t => x \in Existing /\ task'[x].key = task[x].key
      BY <1>10, <2>3 DEF Existing, Exists
    <3>2. y # t => y \in Existing /\ task'[y].key = task[y].key
      BY <1>10, <2>3 DEF Existing, Exists
    <3>3. task'[t].key = k
      BY <1>11
    <3> QED BY <2>2, <2>3, <3>1, <3>2, <3>3 DEF IndInv, RowsSound
  <2> QED BY <2>1, <2>3 DEF RowsSound, Existing, Exists
<1>15. HistoryComplete'
  <2> SUFFICES ASSUME NEW x \in TaskIds
               PROVE  /\ Len(events'[x]) = task'[x].version
                      /\ task'[x].status # "NONE" =>
                           events'[x][Len(events'[x])] = task'[x].status
    BY DEF HistoryComplete, Exists
  <2>1. CASE x = t
    <3>1. task'[t].version = 1 /\ task'[t].status = i
      BY <1>11
    <3>2. Len(events'[t]) = 1 /\ events'[t][Len(events'[t])] = i
      BY <1>9
    <3> QED BY <2>1, <3>1, <3>2
  <2>2. CASE x # t
    BY <1>10, <2>2 DEF IndInv, HistoryComplete, Exists
  <2> QED BY <2>1, <2>2
<1>16. AttemptAgrees'
  BY <1>2, <1>3, <1>7, <1>10, <1>11 DEF IndInv, AttemptAgrees
<1>17. AnswersHold'
  <2>1. ASSUME NEW a \in told'.created
        PROVE  /\ task'[a.id].status # "NONE"
               /\ task'[a.id].key = a.key /\ task'[a.id].body = a.body
    <3>1. CASE a \in told.created
      <4>1. /\ a.id \in TaskIds /\ task[a.id].status # "NONE"
            /\ task[a.id].key = a.key /\ task[a.id].body = a.body
        BY <1>5, <3>1 DEF IndInv, AnswersHold, Exists, Told
      <4> QED BY <1>6, <1>10, <4>1
    <3>2. CASE a = Answer(k, b, t)
      BY <1>3, <1>11, <3>2 DEF Answer
    <3> QED BY <1>12, <3>1, <3>2
  <2>2. \A x \in told'.cancelled : task'[x].status = "CANCELLED"
    <3>1. \A x \in told.cancelled : x \in TaskIds /\ task[x].status = "CANCELLED"
      BY <1>5 DEF IndInv, AnswersHold, Told
    <3> QED BY <1>6, <1>10, <1>12, <3>1
  <2>3. \A x \in TaskIds : told'.claims[x] = IF attempt'[x] = "NONE" THEN 0 ELSE 1
    BY <1>2, <1>12 DEF IndInv, AnswersHold
  <2> QED BY <2>1, <2>2, <2>3 DEF AnswersHold, Exists
<1> QED BY <1>4, <1>13, <1>14, <1>15, <1>16, <1>17 DEF IndInv

\* What a committing call does to each Task it touches, said without CHOOSE.
LEMMA CommitEffect ==
  ASSUME IndInv, NEW r \in Requests, CommitUpdates(r), NEW t \in Touched(r)
  PROVE  /\ UpdateOf(r, t) \in session[r].updates /\ UpdateOf(r, t).id = t
         /\ UpdateOf(r, t) \in Update /\ t \in TaskIds
         /\ task[t].status = UpdateOf(r, t).from
         /\ task[t].version = UpdateOf(r, t).version
         /\ UpdateOf(r, t).to \in AllowedTransitions(task[t].status)
         /\ \A x : Moves(r, t, x) <=> UpdateOf(r, t).to = x
         /\ session[r].op = "complete" <=> UpdateOf(r, t).to = "COMPLETED"
         /\ session[r].op = "fail" <=> (task[t].status = "RUNNING"
                                       /\ UpdateOf(r, t).to = "FAILED")
         /\ AttemptReady(r, t)
<1>1. PICK w \in session[r].updates : w.id = t
  BY DEF Touched
<1>2. UpdateOf(r, t) \in session[r].updates /\ UpdateOf(r, t).id = t
  BY <1>1 DEF UpdateOf
<1> DEFINE u == UpdateOf(r, t)
<1> HIDE DEF u
<1>3. u \in session[r].updates /\ u.id = t
  BY <1>2 DEF u
<1>4. session[r] \in Session /\ SoundUpdates(session[r])
  BY DEF IndInv, TypeOK, CallsSound
<1>5. u \in Update /\ t \in TaskIds
  BY <1>3, <1>4 DEF Session, Update
<1>6. Matches(u)
  BY <1>3 DEF CommitUpdates, WritesLand
<1>7. task[t].status = u.from /\ task[t].version = u.version
  BY <1>3, <1>6 DEF Matches
<1>8. /\ u.to \in AllowedTransitions(u.from)
      /\ session[r].op = "complete" <=> u.to = "COMPLETED"
      /\ session[r].op = "fail" <=> (u.from = "RUNNING" /\ u.to = "FAILED")
  BY <1>3, <1>4 DEF SoundUpdates
<1>9. ASSUME NEW x PROVE Moves(r, t, x) <=> u.to = x
  <2>1. \A v \in session[r].updates : v.id = t => v = u
    BY <1>3, <1>4 DEF SoundUpdates
  <2> QED BY <1>3, <2>1 DEF Moves
<1>10. AttemptReady(r, t)
  BY DEF CommitUpdates, WritesLand
<1> QED BY <1>3, <1>5, <1>7, <1>8, <1>9, <1>10 DEF u

\* The conditional updates of a call, with the attempt and the events it writes,
\* keep every part of the invariant.
LEMMA CommitUpdatesInv ==
  ASSUME IndInv, NEW r \in Requests, CommitUpdates(r)
  PROVE  IndInv'
<1> DEFINE op == session[r].op
           to(t) == UpdateOf(r, t).to
           touched == Touched(r)
<1>1. /\ task \in [TaskIds -> Row] /\ events \in [TaskIds -> Seq(TaskStatus)]
      /\ told \in Told /\ now \in Nat
      /\ attempt \in [TaskIds -> {"NONE", "RUNNING", "COMPLETED", "FAILED"}]
  BY DEF IndInv, TypeOK
<1>2. ASSUME NEW t \in touched
      PROVE  /\ t \in TaskIds /\ to(t) \in TaskStatus /\ to(t) # "NONE"
             /\ task[t].status # "NONE"
             /\ to(t) \in AllowedTransitions(task[t].status)
             /\ UpdateOf(r, t).version = task[t].version
             /\ \A x : Moves(r, t, x) <=> to(t) = x
             /\ op = "complete" <=> to(t) = "COMPLETED"
             /\ op = "fail" <=> (task[t].status = "RUNNING" /\ to(t) = "FAILED")
  <2>1. to(t) \in AllowedTransitions(task[t].status)
    BY CommitEffect
  <2>2. to(t) \in TaskStatus /\ to(t) # "NONE" /\ task[t].status # "NONE"
    BY <2>1, AllowedFromTo
  <2> QED BY <2>1, <2>2, CommitEffect
<1>3. ASSUME NEW t \in TaskIds, t \notin touched, NEW x PROVE ~Moves(r, t, x)
  BY <1>3 DEF Moves, Touched
<1>4. /\ \A t \in touched : /\ task'[t].status = to(t)
                            /\ task'[t].version = task[t].version + 1
                            /\ task'[t].key = task[t].key
                            /\ task'[t].body = task[t].body
                            /\ task'[t] \in Row
      /\ \A t \in TaskIds \ touched : task'[t] = task[t]
  <2>1. ASSUME NEW t \in touched
        PROVE  /\ task'[t].status = to(t)
               /\ task'[t].version = task[t].version + 1
               /\ task'[t].key = task[t].key
               /\ task'[t].body = task[t].body
               /\ task'[t] \in Row
    <3>1. task'[t] = Moved(task[t], UpdateOf(r, t))
      BY <1>2, <2>1 DEF CommitUpdates
    <3>2. to(t) \in TaskStatus /\ UpdateOf(r, t).version = task[t].version
      BY <1>2, <2>1
    <3>3. task[t] \in Row
      BY <1>1, <1>2, <2>1
    <3> QED BY <3>1, <3>2, <3>3 DEF Moved, Row
  <2>2. \A t \in TaskIds \ touched : task'[t] = task[t]
    BY DEF CommitUpdates
  <2> QED BY <2>1, <2>2
<1>5. \A t \in TaskIds :
        events'[t] = IF t \in touched THEN Append(events[t], to(t)) ELSE events[t]
  BY DEF CommitUpdates
<1>6. \A t \in TaskIds :
        attempt'[t] = IF t \in touched THEN NewAttempt(r, t) ELSE attempt[t]
  BY DEF CommitUpdates
<1>7. /\ told'.created = told.created
      /\ told'.cancelled = told.cancelled \cup {t \in touched : Moves(r, t, "CANCELLED")}
      /\ told'.refused = told.refused
      /\ told'.claims = [t \in TaskIds |->
           IF Moves(r, t, "RUNNING") THEN told.claims[t] + 1 ELSE told.claims[t]]
  BY DEF CommitUpdates
<1>8. session' \in [Requests -> Session] /\ CallsSound'
  BY FinishSound DEF CommitUpdates
\* The attempt that goes with each move.
<1>9. ASSUME NEW t \in touched
      PROVE  /\ attempt'[t] = IF to(t) = "RUNNING" THEN "RUNNING"
                              ELSE IF op = "complete" THEN "COMPLETED"
                              ELSE IF op = "fail" THEN "FAILED"
                              ELSE attempt[t]
             /\ to(t) = "RUNNING" => attempt[t] = "NONE"
             /\ op \in {"complete", "fail"} => attempt[t] = "RUNNING"
  <2>1. AttemptReady(r, t)
    BY CommitEffect
  <2>2. /\ Moves(r, t, "RUNNING") <=> to(t) = "RUNNING"
        /\ op = "complete" <=> to(t) = "COMPLETED"
        /\ op = "fail" => to(t) = "FAILED"
    BY <1>2
  <2>3. attempt'[t] = NewAttempt(r, t)
    BY <1>2, <1>6
  <2> QED BY <2>1, <2>2, <2>3 DEF AttemptReady, NewAttempt
<1> HIDE DEF to, touched, op
<1>10. TypeOK'
  <2>1. \A t \in TaskIds : task'[t] \in Row
    BY <1>1, <1>4
  <2>2. task' \in [TaskIds -> Row]
    BY <2>1 DEF CommitUpdates
  <2>3. \A t \in TaskIds : events'[t] \in Seq(TaskStatus)
    <3>1. \A t \in touched : events'[t] = Append(events[t], to(t))
      BY <1>2, <1>5
    <3>2. \A t \in touched : t \in TaskIds /\ to(t) \in TaskStatus
      BY <1>2
    <3>3. \A t \in TaskIds \ touched : events'[t] = events[t]
      BY <1>5
    <3>4. ASSUME NEW t \in touched PROVE events'[t] \in Seq(TaskStatus)
      <4>1. events[t] \in Seq(TaskStatus) /\ to(t) \in TaskStatus
        BY <1>1, <3>2, <3>4
      <4>2. Append(events[t], to(t)) \in Seq(TaskStatus)
        BY <4>1
      <4> QED BY <3>1, <3>4, <4>2
    <3> QED BY <1>1, <3>3, <3>4
  <2>4. events' \in [TaskIds -> Seq(TaskStatus)]
    BY <2>3 DEF CommitUpdates
  <2>5. \A t \in TaskIds : attempt'[t] \in {"NONE", "RUNNING", "COMPLETED", "FAILED"}
    BY <1>1, <1>6, <1>9
  <2>6. attempt' \in [TaskIds -> {"NONE", "RUNNING", "COMPLETED", "FAILED"}]
    BY <2>5 DEF CommitUpdates
  <2>7. told' \in Told
    <3>1. told.claims \in [TaskIds -> Nat] /\ touched \subseteq TaskIds
      BY <1>1, <1>2 DEF Told
    <3>2. told'.claims \in [TaskIds -> Nat]
      BY <1>7, <3>1
    <3>3. told'.cancelled \in SUBSET TaskIds
      BY <1>1, <1>7, <3>1 DEF Told
    <3>4. told'.created \in SUBSET [key : Keys, body : Bodies, id : TaskIds]
          /\ told'.refused \in SUBSET TaskIds
      BY <1>1, <1>7 DEF Told
    <3>5. told' = [created |-> told'.created, refused |-> told'.refused,
                   cancelled |-> told'.cancelled, claims |-> told'.claims]
      BY DEF CommitUpdates
    <3> QED BY <3>2, <3>3, <3>4, <3>5 DEF Told
  <2> QED BY <1>1, <1>8, <2>2, <2>4, <2>6, <2>7 DEF TypeOK, CommitUpdates
<1>11. RowsSound'
  <2>1. \A t \in TaskIds : /\ task'[t].key = task[t].key
                           /\ task'[t].status = "NONE" <=> task[t].status = "NONE"
    BY <1>2, <1>4
  <2>2. \A t \in TaskIds : task'[t].status = "NONE" => task'[t] = task[t]
    BY <1>2, <1>4
  <2> QED BY <2>1, <2>2 DEF IndInv, RowsSound, Existing, Exists
<1>12. HistoryComplete'
  <2> SUFFICES ASSUME NEW t \in TaskIds
               PROVE  /\ Len(events'[t]) = task'[t].version
                      /\ task'[t].status # "NONE" =>
                           events'[t][Len(events'[t])] = task'[t].status
    BY DEF HistoryComplete, Exists
  <2>1. CASE t \notin touched
    BY <1>4, <1>5, <2>1 DEF IndInv, HistoryComplete, Exists
  <2>2. CASE t \in touched
    <3>1. /\ events[t] \in Seq(TaskStatus) /\ to(t) \in TaskStatus
          /\ events'[t] = Append(events[t], to(t))
      BY <1>1, <1>2, <1>5, <2>2
    <3>2. /\ Len(events'[t]) = Len(events[t]) + 1
          /\ events'[t][Len(events'[t])] = to(t)
      BY <3>1
    <3>3. task'[t].version = task[t].version + 1 /\ task'[t].status = to(t)
      BY <1>4, <2>2
    <3>4. Len(events[t]) = task[t].version
      BY DEF IndInv, HistoryComplete
    <3> QED BY <3>2, <3>3, <3>4
  <2> QED BY <2>1, <2>2
<1>13. AttemptAgrees'
  <2> SUFFICES ASSUME NEW t \in TaskIds
               PROVE  /\ task'[t].status = "RUNNING" <=> attempt'[t] = "RUNNING"
                      /\ task'[t].status = "COMPLETED" <=> attempt'[t] = "COMPLETED"
                      /\ attempt'[t] = "FAILED" => task'[t].status = "FAILED"
    BY DEF AttemptAgrees
  <2>1. /\ task[t].status = "RUNNING" <=> attempt[t] = "RUNNING"
        /\ task[t].status = "COMPLETED" <=> attempt[t] = "COMPLETED"
        /\ attempt[t] = "FAILED" => task[t].status = "FAILED"
    BY DEF IndInv, AttemptAgrees
  <2>2. CASE t \notin touched
    BY <1>4, <1>6, <2>1, <2>2
  <2>3. CASE t \in touched
    <3>1. task'[t].status = to(t)
      BY <1>4, <2>3
    <3>2. /\ to(t) \in AllowedTransitions(task[t].status)
          /\ op = "complete" <=> to(t) = "COMPLETED"
          /\ op = "fail" <=> (task[t].status = "RUNNING" /\ to(t) = "FAILED")
      BY <1>2, <2>3
    <3>3. /\ to(t) = "COMPLETED" => task[t].status = "RUNNING"
          /\ task[t].status = "RUNNING" => to(t) \in {"COMPLETED", "FAILED"}
          /\ task[t].status \notin {"COMPLETED", "FAILED"}
      BY <3>2, RunningEdges, AllowedFromTo DEF IsTerminal, TerminalTaskStates
    <3> QED BY <1>9, <2>1, <2>3, <3>1, <3>2, <3>3
  <2> QED BY <2>2, <2>3
<1>14. AnswersHold'
  <2>1. ASSUME NEW a \in told'.created
        PROVE  /\ task'[a.id].status # "NONE"
               /\ task'[a.id].key = a.key /\ task'[a.id].body = a.body
    <3>1. /\ a.id \in TaskIds /\ task[a.id].status # "NONE"
          /\ task[a.id].key = a.key /\ task[a.id].body = a.body
      BY <1>1, <1>7 DEF IndInv, AnswersHold, Exists, Told
    <3> QED BY <1>2, <1>4, <3>1
  <2>2. ASSUME NEW t \in told'.cancelled PROVE task'[t].status = "CANCELLED"
    <3>1. CASE t \in touched /\ Moves(r, t, "CANCELLED")
      BY <1>2, <1>4, <3>1
    <3>2. CASE t \in told.cancelled
      <4>1. t \in TaskIds /\ task[t].status = "CANCELLED"
        BY <1>1, <3>2 DEF IndInv, AnswersHold, Told
      <4>2. t \notin touched
        BY <1>2, <4>1, AllowedFromTo DEF IsTerminal, TerminalTaskStates
      <4> QED BY <1>4, <4>1, <4>2
    <3> QED BY <1>7, <3>1, <3>2
  <2>3. ASSUME NEW t \in TaskIds
        PROVE  told'.claims[t] = IF attempt'[t] = "NONE" THEN 0 ELSE 1
    <3>1. told.claims[t] = IF attempt[t] = "NONE" THEN 0 ELSE 1
      BY DEF IndInv, AnswersHold
    <3>2. told'.claims[t] = IF Moves(r, t, "RUNNING") THEN told.claims[t] + 1
                                                      ELSE told.claims[t]
      BY <1>7
    <3>3. CASE t \notin touched
      BY <1>3, <1>6, <3>1, <3>2, <3>3
    <3>4. CASE t \in touched
      <4>1. Moves(r, t, "RUNNING") <=> to(t) = "RUNNING"
        BY <1>2, <3>4
      <4> QED BY <1>9, <3>1, <3>2, <3>4, <4>1
    <3> QED BY <3>3, <3>4
  <2> QED BY <2>1, <2>2, <2>3 DEF AnswersHold, Exists
<1> QED BY <1>8, <1>10, <1>11, <1>12, <1>13, <1>14 DEF IndInv

-----------------------------------------------------------------------------
\* The invariant.

\* The first step of every call keeps the invariant.
LEMMA BeginInv ==
  ASSUME IndInv, NEW r \in Requests, Begin(r)
  PROVE  IndInv'
<1> DEFINE Versions == 1..MaxVersion
<1>1. Versions \subseteq Nat
  OBVIOUS
<1>2. CASE \E k \in Keys, b \in Bodies : ReplayCreate(r, k, b) \/ BeginCreate(r, k, b)
  BY <1>2, ReplayCreateInv, BeginCreateInv
<1>3. CASE \E ts \in SUBSET TaskIds : BeginRead(r, ts)
  BY <1>3, BeginReadInv
<1>4. CASE \E t \in TaskIds : CancelAgain(r, t)
  BY <1>4, CancelAgainInv
<1>5. CASE \E t \in TaskIds, op \in {"cancel", "claim", "reevaluate"} :
             BeginExpiring(r, op, t)
  BY <1>5, BeginExpiringInv
<1>6. ASSUME NEW t \in TaskIds, NEW version \in Versions, BeginCancel(r, t, version)
      PROVE  IndInv'
  <2>1. BeginMove(r, "cancel", t, version, "CANCELLED")
    BY <1>6 DEF BeginCancel
  <2> QED BY <1>1, <2>1, BeginMoveInv DEF Operations
<1>7. ASSUME NEW t \in TaskIds, NEW version \in Versions, BeginClaim(r, t, version)
      PROVE  IndInv'
  <2>1. BeginMove(r, "claim", t, version, "RUNNING")
    BY <1>7 DEF BeginClaim
  <2> QED BY <1>1, <2>1, BeginMoveInv DEF Operations
<1>8. ASSUME NEW t \in TaskIds, NEW version \in Versions,
             NEW op \in {"complete", "fail"}, BeginSettle(r, op, t, version)
      PROVE  IndInv'
  <2>1. task[t].status = "RUNNING"
    BY <1>8 DEF BeginSettle
  <2>2. CASE op = "complete"
    <3>1. BeginMove(r, "complete", t, version, "COMPLETED")
      BY <1>8, <2>2 DEF BeginSettle
    <3> QED BY <1>1, <3>1, BeginMoveInv DEF Operations
  <2>3. CASE op = "fail"
    <3>1. BeginMove(r, "fail", t, version, "FAILED")
      BY <1>8, <2>3 DEF BeginSettle
    <3> QED BY <1>1, <2>1, <3>1, BeginMoveInv DEF Operations
  <2> QED BY <2>2, <2>3
<1>9. ASSUME NEW t \in TaskIds, NEW version \in Versions, BeginReevaluate(r, t, version)
      PROVE  IndInv'
  <2>1. PICK target \in CreatedStates \cup {"FAILED"} :
          BeginMove(r, "reevaluate", t, version, target)
    BY <1>9 DEF BeginReevaluate
  <2>2. target # "COMPLETED" /\ task[t].status # "RUNNING"
    BY <1>9, CreatedStatesAre DEF BeginReevaluate
  <2> QED BY <1>1, <2>1, <2>2, BeginMoveInv DEF Operations
<1> QED BY <1>2, <1>3, <1>4, <1>5, <1>6, <1>7, <1>8, <1>9 DEF Begin

\* IndInv is kept by every step.
THEOREM Inductive == IndInv /\ [Next]_vars => IndInv'
<1> SUFFICES ASSUME IndInv, [Next]_vars PROVE IndInv'
  OBVIOUS
<1>1. CASE Tick
  <2>1. UNCHANGED <<task, attempt, events, session, told>> /\ now' \in Nat
    BY <1>1 DEF Tick, IndInv, TypeOK
  <2>2. session' \in [Requests -> Session] /\ CallsSound'
    BY <2>1 DEF IndInv, TypeOK, CallsSound
  <2> QED BY <2>1, <2>2, RowsAlone
<1>2. ASSUME NEW r \in Requests, Begin(r) PROVE IndInv'
  BY <1>2, BeginInv
<1>3. ASSUME NEW r \in Requests, End(r) PROVE IndInv'
  <2>1. CASE Rollback(r)
    <3>1. UNCHANGED <<task, attempt, events, told>> /\ now' \in Nat /\ Finish(r)
      BY <2>1 DEF Rollback, IndInv, TypeOK
    <3> QED BY <3>1, FinishSound, RowsAlone
  <2> QED BY <1>3, <2>1, CommitCreateInv, LoseCreateInv, CommitUpdatesInv DEF End
<1>4. CASE UNCHANGED vars
  <2>1. UNCHANGED <<task, attempt, events, told>> /\ now' \in Nat
    BY <1>4 DEF vars, IndInv, TypeOK
  <2>2. session' \in [Requests -> Session] /\ CallsSound'
    BY <1>4 DEF vars, IndInv, TypeOK, CallsSound
  <2> QED BY <2>1, <2>2, RowsAlone
<1> QED BY <1>1, <1>2, <1>3, <1>4 DEF Next

\* IndInv holds in every reachable state, for any number of calls, Tasks and keys.
THEOREM Invariance == Spec => []IndInv
<1>1. Init => IndInv
  BY InitInv
<1>2. IndInv /\ [Next]_vars => IndInv'
  BY Inductive
<1> QED BY <1>1, <1>2, PTL DEF Spec

\* The tables and the calls in flight keep their shapes.
THEOREM TypeCorrect == Spec => []TypeOK
<1>1. IndInv => TypeOK
  BY DEF IndInv
<1> QED BY <1>1, Invariance, PTL

\* TaskService.create is idempotent under any number of racing calls.
THEOREM CreateIsIdempotent == Spec => []IdempotentCreate
<1>1. IndInv => IdempotentCreate
  <2> SUFFICES ASSUME IndInv, NEW a \in told.created
               PROVE  /\ task[a.id].key = a.key /\ task[a.id].body = a.body
                      /\ \A c \in told.created : c.key = a.key => c = a
    BY DEF IdempotentCreate
  <2>1. told.created \subseteq [key : Keys, body : Bodies, id : TaskIds]
    BY DEF IndInv, TypeOK, Told
  <2>2. \A c \in told.created : /\ c.id \in Existing
                                /\ task[c.id].key = c.key /\ task[c.id].body = c.body
    BY <2>1 DEF IndInv, AnswersHold, Existing
  <2>3. ASSUME NEW c \in told.created, c.key = a.key PROVE c = a
    <3>1. c.id = a.id
      BY <2>2, <2>3 DEF IndInv, RowsSound
    <3>2. c.body = a.body
      BY <2>2, <3>1
    <3> QED BY <2>1, <2>3, <3>1, <3>2
  <2> QED BY <2>2, <2>3
<1> QED BY <1>1, Invariance, PTL

\* claim_task: at most one worker is ever given a Task.
THEOREM ClaimIsExclusive == Spec => []AtMostOneClaim
<1>1. IndInv => AtMostOneClaim
  BY DEF IndInv, AnswersHold, AtMostOneClaim
<1> QED BY <1>1, Invariance, PTL

\* cancel: a Task reported cancelled was never and will never be given out.
THEOREM CancelIsFinal == Spec => []CancelledNeverRuns
<1>1. IndInv => CancelledNeverRuns
  <2> SUFFICES ASSUME IndInv, NEW t \in told.cancelled PROVE told.claims[t] = 0
    BY DEF CancelledNeverRuns
  <2>1. t \in TaskIds
    BY DEF IndInv, TypeOK, Told
  <2>2. task[t].status = "CANCELLED"
    BY DEF IndInv, AnswersHold
  <2>3. attempt[t] \in {"NONE", "RUNNING", "COMPLETED", "FAILED"}
    BY <2>1 DEF IndInv, TypeOK
  <2>4. attempt[t] = "NONE"
    BY <2>1, <2>2, <2>3 DEF IndInv, AttemptAgrees
  <2> QED BY <2>1, <2>4 DEF IndInv, AnswersHold
<1> QED BY <1>1, Invariance, PTL

\* complete_task and fail_task keep the attempt and the Task together.
THEOREM AttemptsAgree == Spec => []AttemptAgrees
<1>1. IndInv => AttemptAgrees
  BY DEF IndInv
<1> QED BY <1>1, Invariance, PTL

\* _transition loses no change and records each.
THEOREM HistoryIsComplete == Spec => []HistoryComplete
<1>1. IndInv => HistoryComplete
  BY DEF IndInv
<1> QED BY <1>1, Invariance, PTL

-----------------------------------------------------------------------------
\* The refinement.

\* A step that leaves the rows alone is a stutter of the lifecycle.
LEMMA BeginStutters ==
  ASSUME NEW r \in Requests, Begin(r)
  PROVE  UNCHANGED task
BY DEF Begin, ReplayCreate, BeginCreate, BeginRead, CancelAgain, BeginExpiring,
       BeginCancel, BeginClaim, BeginSettle, BeginReevaluate, BeginMove

\* The lifecycle and the engine read the same state machine.
LEMMA SameMachine ==
  /\ Lifecycle!TaskStatus = TaskStatus
  /\ Lifecycle!CreatedStates = CreatedStates
  /\ \A s : Lifecycle!AllowedTransitions(s) = AllowedTransitions(s)
<1>1. Lifecycle!TaskStatus = TaskStatus
  BY DEF Lifecycle!TaskStatus, TaskStatus
<1>2. Lifecycle!CreatedStates = CreatedStates
  BY DEF Lifecycle!CreatedStates, CreatedStates, Lifecycle!CreatingDecisions,
         CreatingDecisions, Lifecycle!InitialState, InitialState
<1>3. ASSUME NEW s PROVE Lifecycle!AllowedTransitions(s) = AllowedTransitions(s)
  BY DEF Lifecycle!AllowedTransitions, AllowedTransitions
<1> QED BY <1>1, <1>2, <1>3

\* The INSERT of create is the appearance of a Task.
LEMMA CreateAppears ==
  ASSUME IndInv, NEW r \in Requests, CommitCreate(r)
  PROVE  Lifecycle!Next
<1> DEFINE i == session[r].initial
<1>1. PICK t \in TaskIds \ Existing :
        task' = [task EXCEPT ![t] =
          [status |-> i, version |-> 1, key |-> session[r].key,
           body |-> session[r].body]]
  BY DEF CommitCreate
<1>2. i \in CreatedStates
  BY DEF CommitCreate, IndInv, CallsSound, SoundCreate
<1> HIDE DEF i
<1>3. task \in [TaskIds -> Row] /\ task[t] = NoTask
  BY DEF IndInv, TypeOK, RowsSound, Existing
<1>4. Life[t] = Lifecycle!Unborn
  BY <1>3 DEF Life, NoTask, Lifecycle!Unborn
<1>5. Life' = [Life EXCEPT ![t] = [status |-> i, version |-> 1]]
  <2>1. \A x \in TaskIds : task'[x] = IF x = t
                                      THEN [status |-> i, version |-> 1,
                                            key |-> session[r].key,
                                            body |-> session[r].body]
                                      ELSE task[x]
    BY <1>1, <1>3
  <2>2. task'[t].status = i /\ task'[t].version = 1
    BY <2>1
  <2>3. \A x \in TaskIds \ {t} : task'[x] = task[x]
    BY <2>1
  <2> QED BY <2>2, <2>3 DEF Life
<1>6. Lifecycle!Appear(t)
  BY <1>2, <1>4, <1>5, SameMachine DEF Lifecycle!Appear
<1> QED BY <1>6 DEF Lifecycle!Next

\* The conditional updates of one call are one change of the Tasks they touch.
LEMMA UpdatesChange ==
  ASSUME IndInv, NEW r \in Requests, CommitUpdates(r)
  PROVE  Lifecycle!Next
<1> DEFINE ts == Touched(r)
           to == [t \in ts |-> UpdateOf(r, t).to]
<1>1. ASSUME NEW t \in ts
      PROVE  /\ t \in TaskIds /\ to[t] \in TaskStatus
             /\ to[t] \in AllowedTransitions(Life[t].status)
             /\ task'[t].status = to[t]
             /\ task'[t].version = Life[t].version + 1
  <2>1. /\ t \in TaskIds /\ to[t] \in AllowedTransitions(task[t].status)
        /\ UpdateOf(r, t).version = task[t].version
    BY CommitEffect
  <2>2. to[t] \in TaskStatus
    BY <2>1, AllowedFromTo
  <2>3. Life[t].status = task[t].status /\ Life[t].version = task[t].version
    BY <2>1 DEF Life
  <2>4. task'[t] = Moved(task[t], UpdateOf(r, t))
    BY <2>1 DEF CommitUpdates
  <2>5. task'[t].status = to[t] /\ task'[t].version = task[t].version + 1
    BY <2>1, <2>4 DEF Moved
  <2> QED BY <2>1, <2>2, <2>3, <2>5
<1>2. \A t \in TaskIds \ ts : task'[t] = task[t]
  BY DEF CommitUpdates
<1>3. to \in [ts -> TaskStatus] /\ ts \in SUBSET TaskIds
  BY <1>1
<1> HIDE DEF to, ts
<1>4. Life' = [t \in TaskIds |->
                IF t \in ts
                THEN [status |-> to[t], version |-> Life[t].version + 1]
                ELSE Life[t]]
  BY <1>1, <1>2 DEF Life
<1>5. Lifecycle!Change(ts)
  BY <1>1, <1>3, <1>4, SameMachine DEF Lifecycle!Change
<1> QED BY <1>3, <1>5 DEF Lifecycle!Next

\* However calls race, Tasks move only as TaskLifecycle promises.
THEOREM RefinesLifecycle == Spec => ImplementsLifecycle
<1>1. Init => Lifecycle!Init
  BY DEF Init, NoTask, Life, Lifecycle!Init, Lifecycle!Unborn
<1>2. IndInv /\ [Next]_vars => [Lifecycle!Next]_Life
  <2> SUFFICES ASSUME IndInv, [Next]_vars PROVE Lifecycle!Next \/ UNCHANGED Life
    OBVIOUS
  <2>1. UNCHANGED task => UNCHANGED Life
    BY DEF Life
  <2>2. ASSUME NEW r \in Requests, Begin(r) PROVE UNCHANGED Life
    BY <2>1, <2>2, BeginStutters
  <2>3. ASSUME NEW r \in Requests, End(r) PROVE Lifecycle!Next \/ UNCHANGED Life
    <3>1. CASE LoseCreate(r) \/ Rollback(r)
      BY <2>1, <3>1 DEF LoseCreate, Rollback
    <3> QED BY <2>3, <3>1, CreateAppears, UpdatesChange DEF End
  <2>4. CASE Tick \/ UNCHANGED vars
    BY <2>1, <2>4 DEF Tick, vars
  <2> QED BY <2>2, <2>3, <2>4 DEF Next
<1> QED BY <1>1, <1>2, Invariance, PTL DEF Spec, ImplementsLifecycle, Lifecycle!Spec
=============================================================================
