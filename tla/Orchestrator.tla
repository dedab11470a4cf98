---------------------------- MODULE Orchestrator ----------------------------
(***************************************************************************)
(* The Orchestrator, backend/app/orchestrator/service.py, together with    *)
(* the Tasks it links: for one owner, workflows that are created, resumed, *)
(* cancelled and expired while workers and the Tasks API move the same     *)
(* Tasks and operators change the safe mode.                               *)
(*                                                                         *)
(* A call is one read-committed transaction.  create, resume and cancel    *)
(* write both tables: the workflow row, its steps and the Task.  A call    *)
(* reads and decides (Begin) and later writes with updates conditional on  *)
(* state and version of what it has read (Commit); if one of them matches  *)
(* no row, nothing of the call remains (Rollback).  Calls that raise before*)
(* they write are no step.                                                 *)
(*                                                                         *)
(* Tasks move as TaskLifecycle promises; what the Permissions Engine, the  *)
(* AI Router and Memory answer is any of their answers.                    *)
(***************************************************************************)
EXTENDS Naturals, Sequences, SequencesExt, TaskStateMachine

CONSTANTS
  Requests,    \* the calls that can be in flight at the same time
  Workflows,   \* idempotency keys; "orch:<id>" makes one Task of each at most
  ExpiresAt,   \* expires_at of each workflow and of its Task, or Null
  Policies,    \* the OrchestratorPolicy settings processes can run with
  Null,        \* no value
  MaxTime      \* bound on the clock

SafeModes == {"NORMAL", "SAFE_MODE", "MAINTENANCE"}

ASSUME ExpiresAtAssumption == ExpiresAt \in [Workflows -> Nat \cup {Null}]
ASSUME PoliciesAssumption ==
  Policies \subseteq [mode : SafeModes, ai : BOOLEAN, actions : BOOLEAN]
ASSUME NullAssumption == Null \notin Nat \cup Workflows
ASSUME BoundsAssumption == MaxTime \in Nat

VARIABLES
  wf,        \* the rows of orchestration_workflows
  steps,     \* to_state of the rows of orchestration_steps, oldest first
  task,      \* status and version of the Task of each workflow
  plan,      \* the stored validated plan
  envelope,  \* the plan in the row of authorized_action_envelopes
  policy,    \* the settings new calls run with
  session,   \* what each call in flight is about to write
  now        \* utc_now()

vars == <<wf, steps, task, plan, envelope, policy, session, now>>

-----------------------------------------------------------------------------
\* OrchestrationStateMachine

States == {"RECEIVED", "CONTEXT_PREPARED", "ROUTED", "PROPOSAL_GENERATED",
           "PLAN_VALIDATED", "WAITING_PERMISSION", "WAITING_CONFIRMATION",
           "READY_FOR_EXECUTION", "COMPLETED_NO_ACTION", "DENIED", "FAILED",
           "CANCELLED", "EXPIRED"}

Terminal == {"COMPLETED_NO_ACTION", "DENIED", "FAILED", "CANCELLED", "EXPIRED"}

Stop == {"DENIED", "FAILED", "CANCELLED", "EXPIRED"}

\* _ALLOWED
Allowed(state) ==
  CASE state = "RECEIVED" -> Stop \cup {"CONTEXT_PREPARED"}
    [] state = "CONTEXT_PREPARED" -> Stop \cup {"ROUTED"}
    [] state = "ROUTED" -> Stop \cup {"PROPOSAL_GENERATED"}
    [] state = "PROPOSAL_GENERATED" ->
         Stop \cup {"PLAN_VALIDATED", "COMPLETED_NO_ACTION"}
    [] state = "PLAN_VALIDATED" ->
         Stop \cup {"WAITING_PERMISSION", "WAITING_CONFIRMATION",
                    "READY_FOR_EXECUTION"}
    [] state = "WAITING_PERMISSION" ->
         {"WAITING_CONFIRMATION", "READY_FOR_EXECUTION", "DENIED", "CANCELLED",
          "EXPIRED"}
    [] state = "WAITING_CONFIRMATION" ->
         {"READY_FOR_EXECUTION", "DENIED", "CANCELLED", "EXPIRED"}
    [] state = "READY_FOR_EXECUTION" -> {"CANCELLED", "EXPIRED"}
    [] OTHER -> {}

\* _state_for_task
StateForTask(status) ==
  IF status = "QUEUED" THEN "READY_FOR_EXECUTION" ELSE status

-----------------------------------------------------------------------------
\* OrchestratorPolicy

Actionable == {"ACTION", "DESTRUCTIVE"}

Intents == Actionable \cup {"INFORMATIONAL", "MEMORY", "UNSUPPORTED"}

PermitsIntent(p, intent) ==
  /\ p.mode # "MAINTENANCE"
  /\ intent # "UNSUPPORTED"
  /\ p.ai
  /\ intent \in Actionable => p.mode = "NORMAL" /\ p.actions

PermitsReadiness(p) == p.mode = "NORMAL" /\ p.actions

-----------------------------------------------------------------------------
\* Rows and calls in flight.

Row == [state : States \cup {"NONE"}, version : Nat, linked : BOOLEAN]

TaskRow == [status : TaskStatus \cup {"NONE"}, version : Nat]

Plans == {"none", "validated", "altered"}

NoWorkflow == [state |-> "NONE", version |-> 0, linked |-> FALSE]

NoTask == [status |-> "NONE", version |-> 0]

\* was, wasTask: the copies read; path: the states the workflow goes through;
\* status: the new status of the Task, or "NONE" when it is not written;
\* sealed: the plan put into an envelope, or "none".
Session == [op : {"idle", "create", "resume", "cancel", "read"},
            w : Workflows \cup {Null}, was : Row, wasTask : TaskRow,
            path : Seq(States), status : TaskStatus \cup {"NONE"},
            sealed : Plans]

Idle == [op |-> "idle", w |-> Null, was |-> NoWorkflow, wasTask |-> NoTask,
         path |-> <<>>, status |-> "NONE", sealed |-> "none"]

\* A call on w that will move the workflow along path and its Task to status.
Call(op, w, path, status, sealed) ==
  [op |-> op, w |-> w, was |-> wf[w], wasTask |-> task[w], path |-> path,
   status |-> status, sealed |-> sealed]

Hold(r, s) == session' = [session EXCEPT ![r] = s]

\* The condition of _expire_if_due.
Due(w) ==
  /\ wf[w].state \notin Terminal \cup {"NONE"}
  /\ ExpiresAt[w] # Null
  /\ now >= ExpiresAt[w]

Waiting(w) == wf[w].state \in {"WAITING_PERMISSION", "WAITING_CONFIRMATION"}

-----------------------------------------------------------------------------
Init ==
  /\ wf = [w \in Workflows |-> NoWorkflow]
  /\ steps = [w \in Workflows |-> <<>>]
  /\ task = [w \in Workflows |-> NoTask]
  /\ plan = [w \in Workflows |-> "none"]
  /\ envelope = [w \in Workflows |-> "none"]
  /\ policy \in Policies
  /\ session = [r \in Requests |-> Idle]
  /\ now = 0

Tick ==
  /\ now < MaxTime
  /\ now' = now + 1
  /\ UNCHANGED <<wf, steps, task, plan, envelope, policy, session>>

\* Processes are restarted with other settings.
SwitchPolicy ==
  /\ policy' \in Policies \ {policy}
  /\ UNCHANGED <<wf, steps, task, plan, envelope, session, now>>

\* The stored payload no longer hashes to its fingerprint.
AlterPlan(w) ==
  /\ plan[w] = "validated"
  /\ plan' = [plan EXCEPT ![w] = "altered"]
  /\ UNCHANGED <<wf, steps, task, envelope, policy, session, now>>

-----------------------------------------------------------------------------
\* create: one transaction from RECEIVED to wherever it ends.

Routed == <<"RECEIVED", "CONTEXT_PREPARED", "ROUTED", "PROPOSAL_GENERATED">>

\* Nothing allowed, or Memory refuses the context; the Router refuses; the
\* provider fails; the model's plan is invalid; it names an unknown action; the
\* Permissions Engine denies for good.
RefusedPaths ==
  {<<"RECEIVED", "DENIED">>,
   <<"RECEIVED", "CONTEXT_PREPARED", "DENIED">>,
   <<"RECEIVED", "CONTEXT_PREPARED", "FAILED">>}

RefusedPlans ==
  {Append(Routed, "FAILED"), Append(Routed, "DENIED"),
   Routed \o <<"PLAN_VALIDATED", "DENIED">>}

\* A Task was made in this status.
LinkedPath(p, status) ==
  Routed \o <<"PLAN_VALIDATED",
              IF status = "QUEUED" /\ ~PermitsReadiness(p) THEN "DENIED"
              ELSE StateForTask(status)>>

Sealed(path, stored) ==
  IF Last(path) = "READY_FOR_EXECUTION" THEN stored ELSE "none"

\* The INSERT comes first and waits for another create of the same key.
BeginCreate(r, w, intent) ==
  /\ session[r].op = "idle"
  /\ wf[w].state = "NONE"
  /\ \A q \in Requests : session[q].op = "create" => session[q].w # w
  /\ ExpiresAt[w] # Null => now < ExpiresAt[w]
  /\ \/ /\ ~PermitsIntent(policy, intent)
        /\ Hold(r, Call("create", w, <<"RECEIVED", "DENIED">>, "NONE", "none"))
     \/ /\ PermitsIntent(policy, intent)
        /\ \E path \in RefusedPaths :
             Hold(r, Call("create", w, path, "NONE", "none"))
     \/ /\ PermitsIntent(policy, intent)
        /\ intent \notin Actionable
        /\ Hold(r, Call("create", w, Append(Routed, "COMPLETED_NO_ACTION"),
                        "NONE", "none"))
     \/ /\ PermitsIntent(policy, intent)
        /\ intent \in Actionable
        /\ \E path \in RefusedPlans :
             Hold(r, Call("create", w, path, "NONE", "none"))
     \/ /\ PermitsIntent(policy, intent)
        /\ intent \in Actionable
        /\ \E status \in CreatedStates :
             LET path == LinkedPath(policy, status)
             IN  Hold(r, Call("create", w, path, status,
                              Sealed(path, "validated")))
  /\ UNCHANGED <<wf, steps, task, plan, envelope, policy, now>>

-----------------------------------------------------------------------------
\* resume, cancel, get_owned and list_owned

\* Every one of them expires a workflow that is due, and does no more.
BeginExpire(r, op, w) ==
  /\ session[r].op = "idle"
  /\ Due(w)
  /\ Hold(r, Call(op, w, <<"EXPIRED">>, "NONE", "none"))
  /\ UNCHANGED <<wf, steps, task, plan, envelope, policy, now>>

\* The Task has been cancelled through the Tasks API.
BeginResumeCancelled(r, w) ==
  /\ session[r].op = "idle"
  /\ ~Due(w) /\ Waiting(w)
  /\ task[w].status = "CANCELLED"
  /\ Hold(r, Call("resume", w, <<"CANCELLED">>, "NONE", "none"))
  /\ UNCHANGED <<wf, steps, task, plan, envelope, policy, now>>

\* Bug variant: the stored payload is not hashed again.
PlanIntact_Stored(w) == plan[w] # "none"

\* _load_validated_plan: checked before any authority is asked.
PlanIntact(w) == plan[w] = "validated"

BeginResumeAltered(r, w) ==
  /\ session[r].op = "idle"
  /\ ~Due(w) /\ Waiting(w)
  /\ task[w].status # "CANCELLED"
  /\ ~PlanIntact(w)
  /\ Hold(r, Call("resume", w, <<"DENIED">>, "NONE", "none"))
  /\ UNCHANGED <<wf, steps, task, plan, envelope, policy, now>>

\* Where a reevaluated Task takes the workflow.
ResumeTarget(p, status) ==
  IF status = "FAILED" \/ (status = "QUEUED" /\ ~PermitsReadiness(p))
  THEN "DENIED"
  ELSE StateForTask(status)

\* tasks.reevaluate with any answer, then the workflow.  An answer that leaves
\* the Task where it is, or that the workflow's own machine does not allow,
\* raises and takes the Task's move back with it.
BeginResume(r, w) ==
  /\ session[r].op = "idle"
  /\ ~Due(w) /\ Waiting(w)
  /\ task[w].status \in {"WAITING_PERMISSION", "WAITING_CONFIRMATION"}
  /\ PlanIntact(w)
  /\ \E status \in (CreatedStates \cup {"FAILED"}) \cap
                     AllowedTransitions(task[w].status) :
       LET target == ResumeTarget(policy, status)
       IN  /\ target \in Allowed(wf[w].state)
           /\ Hold(r, Call("resume", w, <<target>>, status,
                           Sealed(<<target>>, plan[w])))
  /\ UNCHANGED <<wf, steps, task, plan, envelope, policy, now>>

\* Bug variant: a Task that cannot be cancelled is left alone.
Follows_IfAllowed(w) ==
  wf[w].linked /\ "CANCELLED" \in AllowedTransitions(task[w].status)

\* A linked Task is cancelled too, unless it already is.
Follows(w) == wf[w].linked /\ task[w].status # "CANCELLED"

\* The Task has the workflow's deadline: neither is due here.  A Task that
\* cannot be cancelled raises.
BeginCancel(r, w) ==
  /\ session[r].op = "idle"
  /\ ~Due(w)
  /\ "CANCELLED" \in Allowed(wf[w].state)
  /\ Follows(w) => "CANCELLED" \in AllowedTransitions(task[w].status)
  /\ Hold(r, Call("cancel", w, <<"CANCELLED">>,
                  IF Follows(w) THEN "CANCELLED" ELSE "NONE", "none"))
  /\ UNCHANGED <<wf, steps, task, plan, envelope, policy, now>>

-----------------------------------------------------------------------------
\* The conditional updates of both tables, then COMMIT.

\* Bug variant: the workflow is written by primary key, whatever it holds.
WorkflowMatches_Blind(s) == s.op # "create" => wf[s.w].state # "NONE"

WorkflowMatches(s) ==
  wf[s.w].state = s.was.state /\ wf[s.w].version = s.was.version

TaskMatches(s) == s.status # "NONE" => task[s.w] = s.wasTask

Commit(r) ==
  LET s == session[r]
      w == s.w
  IN  /\ s.op # "idle"
      /\ WorkflowMatches(s)
      /\ TaskMatches(s)
      /\ wf' = [wf EXCEPT ![w] =
           [state |-> Last(s.path), version |-> @.version + Len(s.path),
            linked |-> @.linked \/ (s.op = "create" /\ s.status # "NONE"
                                    /\ Last(s.path) # "DENIED")]]
      /\ steps' = [steps EXCEPT ![w] = @ \o s.path]
      /\ task' = IF s.status = "NONE" THEN task
                 ELSE [task EXCEPT ![w] = [status |-> s.status,
                                           version |-> @.version + 1]]
      /\ plan' = IF "PLAN_VALIDATED" \in ToSet(s.path)
                 THEN [plan EXCEPT ![w] = "validated"] ELSE plan
      /\ envelope' = IF s.sealed = "none" THEN envelope
                     ELSE [envelope EXCEPT ![w] = s.sealed]
      /\ Hold(r, Idle)
      /\ UNCHANGED <<policy, now>>

Rollback(r) ==
  /\ session[r].op # "idle"
  /\ Hold(r, Idle)
  /\ UNCHANGED <<wf, steps, task, plan, envelope, policy, now>>

-----------------------------------------------------------------------------
\* What the Tasks API and the workers do to a Task meanwhile.  Reevaluation is
\* only reached through resume.
OthersMove(w) ==
  /\ \E status \in AllowedTransitions(task[w].status) \cap
                     {"CANCELLED", "RUNNING", "COMPLETED", "FAILED", "EXPIRED"} :
       /\ status = "FAILED" => task[w].status = "RUNNING"
       /\ status = "EXPIRED" => ExpiresAt[w] # Null /\ now >= ExpiresAt[w]
       /\ task' = [task EXCEPT ![w] = [status |-> status,
                                       version |-> @.version + 1]]
  /\ UNCHANGED <<wf, steps, plan, envelope, policy, session, now>>

Begin(r) ==
  \E w \in Workflows :
    \/ \E intent \in Intents : BeginCreate(r, w, intent)
    \/ \E op \in {"read", "resume", "cancel"} : BeginExpire(r, op, w)
    \/ BeginResumeCancelled(r, w)
    \/ BeginResumeAltered(r, w)
    \/ BeginResume(r, w)
    \/ BeginCancel(r, w)

Next ==
  \/ Tick
  \/ SwitchPolicy
  \/ \E w \in Workflows : AlterPlan(w) \/ OthersMove(w)
  \/ \E r \in Requests : Begin(r) \/ Commit(r) \/ Rollback(r)

Spec == Init /\ [][Next]_vars

-----------------------------------------------------------------------------
\* Properties.

\* The variables keep the shapes the tables and the calls in flight have.
TypeOK ==
  /\ wf \in [Workflows -> Row]
  /\ steps \in [Workflows -> Seq(States)]
  /\ task \in [Workflows -> TaskRow]
  /\ plan \in [Workflows -> Plans]
  /\ envelope \in [Workflows -> Plans]
  /\ policy \in Policies
  /\ session \in [Requests -> Session]
  /\ now \in Nat

\* _transition: the steps of a workflow are a path of the state machine from
\* RECEIVED to where the workflow is, one step per version, whatever calls
\* raced for it; so a terminal workflow has never moved again.
StepsAreAPath ==
  \A w \in Workflows :
    /\ Len(steps[w]) = wf[w].version
    /\ wf[w].version > 0 => /\ steps[w][1] = "RECEIVED"
                            /\ Last(steps[w]) = wf[w].state
    /\ \A i \in 1..(Len(steps[w]) - 1) : steps[w][i + 1] \in Allowed(steps[w][i])

\* _create_envelope: a workflow is ready exactly with an envelope, which holds
\* the plan that was validated and survives only a later cancel or expiry; and
\* no worker has had the Task of a workflow without one, save of a workflow
\* denied by the settings in force, which DeniedNeverClaimable is about.
EnvelopeMatchesWorkflow ==
  \A w \in Workflows :
    /\ wf[w].state = "READY_FOR_EXECUTION" => envelope[w] = "validated"
    /\ envelope[w] # "none" =>
         /\ envelope[w] = "validated"
         /\ wf[w].linked
         /\ wf[w].state \in {"READY_FOR_EXECUTION", "CANCELLED", "EXPIRED"}
    /\ task[w].status \in {"QUEUED", "RUNNING", "COMPLETED"} =>
         envelope[w] # "none" \/ wf[w].state = "DENIED"

\* cancel: a cancelled workflow has no live Task, whatever workers and the
\* Tasks API do to it at the same time.
CancelTakesTask ==
  \A w \in Workflows :
    wf[w].state = "CANCELLED" /\ wf[w].linked => task[w].status = "CANCELLED"

\* docs/architecture/orchestrator.md: SAFE_MODE blocks actionable readiness.
\* The Task of a workflow that was denied is not there for a worker to claim.
\* It is not an invariant: a resume in SAFE_MODE has the Task QUEUED before it
\* denies the workflow.
DeniedNeverClaimable ==
  \A w \in Workflows :
    wf[w].state = "DENIED" => task[w].status \notin {"QUEUED", "RUNNING"}

-----------------------------------------------------------------------------
(* The inductive invariant.                                                *)

\* A key that was not used has left nothing in any table, and a workflow that
\* waits or is ready has its Task.
SoundRow(w) ==
  /\ wf[w].state = "NONE" =>
       wf[w] = NoWorkflow /\ task[w] = NoTask /\ envelope[w] = "none"
  /\ wf[w].state # "NONE" => wf[w].version > 0
  /\ wf[w].state \in {"WAITING_PERMISSION", "WAITING_CONFIRMATION",
                      "READY_FOR_EXECUTION"} => wf[w].linked

RowsSound == \A w \in Workflows : SoundRow(w)

IsPath(path) == \A i \in 1..(Len(path) - 1) : path[i + 1] \in Allowed(path[i])

\* What the call has read of the workflow is what it holds as long as nobody
\* has counted its version up.
Fresh(s) ==
  /\ s.was.version <= wf[s.w].version
  /\ s.was.version = wf[s.w].version => s.was = wf[s.w]

\* Where the path of a call ends and what the call does to the Task agree.
Consistent(s) ==
  LET last == Last(s.path)
  IN  /\ s.sealed = IF last = "READY_FOR_EXECUTION" THEN "validated" ELSE "none"
      /\ last \in {"WAITING_PERMISSION", "WAITING_CONFIRMATION",
                   "READY_FOR_EXECUTION"} =>
           s.was.linked \/ (s.op = "create" /\ s.status # "NONE")
      /\ s.status = "QUEUED" => last \in {"READY_FOR_EXECUTION", "DENIED"}
      /\ s.status \notin {"RUNNING", "COMPLETED"}
      /\ last = "CANCELLED" => \/ s.status = "CANCELLED" \/ ~s.was.linked
                              \/ task[s.w].status = "CANCELLED"

\* create starts from nothing; every other call makes one legal move, of the
\* workflow and of the Task it has read.
SoundCall(s) ==
  s.op # "idle" =>
    /\ s.w \in Workflows /\ Fresh(s) /\ Consistent(s)
    /\ s.path # <<>> /\ IsPath(s.path)
    /\ s.op = "create" =>
         /\ s.was = NoWorkflow /\ s.path[1] = "RECEIVED"
         /\ Last(s.path) # "CANCELLED"
    /\ s.op # "create" =>
         /\ s.was.state # "NONE" /\ Len(s.path) = 1
         /\ s.path[1] \in Allowed(s.was.state)
         /\ s.status # "NONE" => s.status \in AllowedTransitions(s.wasTask.status)

CallsSound == \A r \in Requests : SoundCall(session[r])

IndInv ==
  /\ TypeOK /\ RowsSound /\ CallsSound
  /\ StepsAreAPath /\ EnvelopeMatchesWorkflow /\ CancelTakesTask
=============================================================================
