------------------------ MODULE OrchestrationProofs -------------------------
(***************************************************************************)
(* Proofs about Orchestrator, for every set of calls, workflows, deadlines *)
(* and settings, and about AIRouter, which it asks for a model, for every  *)
(* catalog, set of requests, health and cost snapshot and budget.          *)
(*                                                                         *)
(* Orchestrator: IndInv is inductive, because a call whose update matches  *)
(* has read the row as it is, and what it writes to the workflow and to the*)
(* Task agree, so the two tables cannot drift apart.                       *)
(*                                                                         *)
(* AIRouter: what a chain is made of follows from what sorting by the key  *)
(* of a model gives: no two models have the same key, so that the number of*)
(* models before each is its place.  RouterInv says what the decision, the *)
(* attempts and the calls of providers owe to it.                          *)
(***************************************************************************)
EXTENDS Orchestrator, AIRouter, FiniteSetTheorems, SequenceTheorems,
        WellFoundedInduction, TLAPS

\* No step takes a version back, and a cancelled Task stays cancelled.
Keeps ==
  \A w \in Workflows :
    /\ wf'[w].version >= wf[w].version
    /\ wf'[w].version = wf[w].version => wf'[w] = wf[w]
    /\ task[w].status = "CANCELLED" => task'[w].status = "CANCELLED"

-----------------------------------------------------------------------------
\* The two tables of transitions.

\* The transition table of the workflow, evaluated where the proofs use it.
LEMMA AllowedFacts ==
  /\ \A s : Allowed(s) \subseteq States
  /\ \A s : "RECEIVED" \notin Allowed(s)
  /\ \A s \in Terminal \cup {"NONE"} : Allowed(s) = {}
  /\ Allowed("READY_FOR_EXECUTION") = {"CANCELLED", "EXPIRED"}
  /\ Allowed("RECEIVED") = Stop \cup {"CONTEXT_PREPARED"}
  /\ Allowed("CONTEXT_PREPARED") = Stop \cup {"ROUTED"}
  /\ Allowed("ROUTED") = Stop \cup {"PROPOSAL_GENERATED"}
  /\ Allowed("PROPOSAL_GENERATED") = Stop \cup {"PLAN_VALIDATED", "COMPLETED_NO_ACTION"}
  /\ Allowed("PLAN_VALIDATED") = Stop \cup {"WAITING_PERMISSION", "WAITING_CONFIRMATION",
                                            "READY_FOR_EXECUTION"}
  /\ \A s \in {"WAITING_PERMISSION", "WAITING_CONFIRMATION"} :
       {"CANCELLED", "DENIED", "EXPIRED"} \subseteq Allowed(s)
<1>1. \A s : Allowed(s) \subseteq States /\ "RECEIVED" \notin Allowed(s)
  BY DEF Allowed, Stop, States
<1> QED BY <1>1 DEF Allowed, Terminal

\* Every workflow that is not over can expire.
LEMMA LiveCanExpire ==
  ASSUME NEW s \in States \ Terminal
  PROVE  "EXPIRED" \in Allowed(s)
BY DEF States, Terminal, Allowed, Stop

\* The transition table of the Task, evaluated where the proofs use it.
LEMMA TaskFacts ==
  /\ \A s : AllowedTransitions(s) \subseteq TaskStatus
  /\ AllowedTransitions("NONE") = {} /\ AllowedTransitions("CANCELLED") = {}
  /\ \A s : "RUNNING" \in AllowedTransitions(s) => s = "QUEUED"
  /\ \A s : "COMPLETED" \in AllowedTransitions(s) => s = "RUNNING"
BY DEF AllowedTransitions, TaskStatus

\* The states in which create leaves a Task.
LEMMA CreatedAre ==
  CreatedStates = {"QUEUED", "WAITING_CONFIRMATION", "WAITING_PERMISSION"}
BY DEF CreatedStates, CreatingDecisions, InitialState

-----------------------------------------------------------------------------
\* Paths.

\* One state is a path.
LEMMA OneStep ==
  ASSUME NEW x \in States
  PROVE  /\ <<x>> \in Seq(States) /\ Len(<<x>>) = 1 /\ <<x>>[1] = x
         /\ Last(<<x>>) = x /\ IsPath(<<x>>) /\ <<x>> # <<>>
BY DEF Last, IsPath

\* A path of create: it starts at RECEIVED and ends at x.
CreatePath(path, x) ==
  /\ path \in Seq(States) /\ path # <<>> /\ path[1] = "RECEIVED"
  /\ Last(path) = x /\ IsPath(path)

\* The paths of a create that ends before it is routed.
LEMMA ShortPaths ==
  /\ CreatePath(<<"RECEIVED", "DENIED">>, "DENIED")
  /\ CreatePath(<<"RECEIVED", "CONTEXT_PREPARED", "DENIED">>, "DENIED")
  /\ CreatePath(<<"RECEIVED", "CONTEXT_PREPARED", "FAILED">>, "FAILED")
<1>1. {"RECEIVED", "DENIED", "CONTEXT_PREPARED", "FAILED"} \subseteq States
  BY DEF States
<1>2. /\ "DENIED" \in Allowed("RECEIVED") /\ "CONTEXT_PREPARED" \in Allowed("RECEIVED")
      /\ "DENIED" \in Allowed("CONTEXT_PREPARED") /\ "FAILED" \in Allowed("CONTEXT_PREPARED")
  BY AllowedFacts DEF Stop
<1>3. CreatePath(<<"RECEIVED", "DENIED">>, "DENIED")
  BY <1>1, <1>2 DEF CreatePath, Last, IsPath
<1>4. CreatePath(<<"RECEIVED", "CONTEXT_PREPARED", "DENIED">>, "DENIED")
  BY <1>1, <1>2 DEF CreatePath, Last, IsPath
<1>5. CreatePath(<<"RECEIVED", "CONTEXT_PREPARED", "FAILED">>, "FAILED")
  BY <1>1, <1>2 DEF CreatePath, Last, IsPath
<1> QED BY <1>3, <1>4, <1>5

\* A path goes on with a path that its last state allows.
LEMMA PathGoesOn ==
  ASSUME NEW p \in Seq(States), NEW q \in Seq(States), IsPath(p), IsPath(q),
         q # <<>>, p # <<>> => q[1] \in Allowed(Last(p))
  PROVE  /\ p \o q \in Seq(States) /\ Len(p \o q) = Len(p) + Len(q)
         /\ IsPath(p \o q) /\ Last(p \o q) = Last(q)
         /\ (p \o q)[1] = IF p = <<>> THEN q[1] ELSE p[1]
<1>1. /\ p \o q \in Seq(States) /\ Len(p \o q) = Len(p) + Len(q)
      /\ \A i \in 1 .. Len(p) + Len(q) :
           (p \o q)[i] = IF i <= Len(p) THEN p[i] ELSE q[i - Len(p)]
  BY ConcatProperties
<1>2. /\ Len(p) \in Nat /\ Len(q) \in Nat /\ Len(q) > 0 /\ (p = <<>> <=> Len(p) = 0)
  BY EmptySeq, LenProperties
<1>3. Last(p \o q) = Last(q) /\ (p \o q)[1] = IF p = <<>> THEN q[1] ELSE p[1]
  BY <1>1, <1>2 DEF Last
<1>4. IsPath(p \o q)
  <2> SUFFICES ASSUME NEW i \in 1 .. (Len(p) + Len(q) - 1)
               PROVE  (p \o q)[i + 1] \in Allowed((p \o q)[i])
    BY <1>1 DEF IsPath
  <2>1. CASE i < Len(p)
    <3>1. (p \o q)[i] = p[i] /\ (p \o q)[i + 1] = p[i + 1] /\ i \in 1 .. (Len(p) - 1)
      BY <2>1, <1>1, <1>2
    <3> QED BY <3>1 DEF IsPath
  <2>2. CASE i = Len(p)
    <3>1. (p \o q)[i] = Last(p) /\ (p \o q)[i + 1] = q[1] /\ p # <<>>
      BY <2>2, <1>1, <1>2 DEF Last
    <3> QED BY <3>1
  <2>3. CASE i > Len(p)
    <3>1. /\ (p \o q)[i] = q[i - Len(p)] /\ (p \o q)[i + 1] = q[(i - Len(p)) + 1]
          /\ i - Len(p) \in 1 .. (Len(q) - 1)
      BY <2>3, <1>1, <1>2
    <3> QED BY <3>1 DEF IsPath
  <2> QED BY <2>1, <2>2, <2>3, <1>2
<1> QED BY <1>1, <1>3, <1>4

\* The steps up to the proposal are a path.
LEMMA RoutedPath == CreatePath(Routed, "PROPOSAL_GENERATED") /\ Len(Routed) = 4
<1>1. {"RECEIVED", "CONTEXT_PREPARED", "ROUTED", "PROPOSAL_GENERATED"} \subseteq States
  BY DEF States
<1>2. /\ "CONTEXT_PREPARED" \in Allowed("RECEIVED")
      /\ "ROUTED" \in Allowed("CONTEXT_PREPARED")
      /\ "PROPOSAL_GENERATED" \in Allowed("ROUTED")
  BY AllowedFacts
<1> QED BY <1>1, <1>2 DEF CreatePath, Last, IsPath, Routed

\* A path that may follow the proposal goes on from it.
LEMMA RoutedGoesOn ==
  ASSUME NEW q \in Seq(States), q # <<>>, IsPath(q),
         q[1] \in Allowed("PROPOSAL_GENERATED")
  PROVE  CreatePath(Routed \o q, Last(q))
<1>1. /\ Routed \o q \in Seq(States) /\ Len(Routed \o q) = Len(Routed) + Len(q)
      /\ IsPath(Routed \o q) /\ Last(Routed \o q) = Last(q)
      /\ (Routed \o q)[1] = IF Routed = <<>> THEN q[1] ELSE Routed[1]
  BY RoutedPath, PathGoesOn DEF CreatePath
<1>2. Len(q) \in Nat
  BY LenProperties
<1>3. Routed \o q # <<>>
  BY <1>1, <1>2, RoutedPath, EmptySeq
<1> QED BY <1>1, <1>3, RoutedPath DEF CreatePath

\* The paths of a create that has a proposal.
LEMMA PlanPaths ==
  /\ \A x \in Allowed("PROPOSAL_GENERATED") : CreatePath(Append(Routed, x), x)
  /\ \A x \in Allowed("PLAN_VALIDATED") :
       CreatePath(Routed \o <<"PLAN_VALIDATED", x>>, x)
<1>1. ASSUME NEW x \in Allowed("PROPOSAL_GENERATED")
      PROVE  CreatePath(Append(Routed, x), x)
  <2>1. x \in States
    BY AllowedFacts
  <2>2. Append(Routed, x) = Routed \o <<x>>
    BY <2>1, RoutedPath, AppendIsConcat DEF CreatePath
  <2>3. CreatePath(Routed \o <<x>>, Last(<<x>>))
    BY <2>1, OneStep, RoutedGoesOn
  <2> QED BY <2>1, <2>2, <2>3, OneStep
<1>2. ASSUME NEW x \in Allowed("PLAN_VALIDATED")
      PROVE  CreatePath(Routed \o <<"PLAN_VALIDATED", x>>, x)
  <2>1. x \in States /\ "PLAN_VALIDATED" \in States
        /\ "PLAN_VALIDATED" \in Allowed("PROPOSAL_GENERATED")
    BY AllowedFacts DEF States
  <2> DEFINE q == <<"PLAN_VALIDATED", x>>
  <2>2. q \in Seq(States)
    BY <2>1
  <2>3. IsPath(q) /\ q # <<>> /\ Last(q) = x /\ q[1] = "PLAN_VALIDATED"
    BY DEF IsPath, Last
  <2> HIDE DEF q
  <2>4. CreatePath(Routed \o q, Last(q))
    BY <2>1, <2>2, <2>3, RoutedGoesOn
  <2> QED BY <2>3, <2>4 DEF q
<1> QED BY <1>1, <1>2

-----------------------------------------------------------------------------
\* What the invariant says of the parts of the state.

\* The invariant, row by row and call by call.
LEMMA Parts ==
  ASSUME IndInv
  PROVE  /\ \A w \in Workflows :
              /\ wf[w] \in Row /\ task[w] \in TaskRow /\ SoundRow(w)
              /\ steps[w] \in Seq(States) /\ plan[w] \in Plans /\ envelope[w] \in Plans
         /\ \A r \in Requests : session[r] \in Session /\ SoundCall(session[r])
         /\ DOMAIN wf = Workflows /\ DOMAIN task = Workflows
         /\ DOMAIN session = Requests /\ DOMAIN envelope = Workflows
         /\ DOMAIN steps = Workflows
BY DEF IndInv, TypeOK, RowsSound, CallsSound

\* A request without a call is well-formed.
LEMMA IdleSound == Idle \in Session /\ SoundCall(Idle)
<1>1. <<>> \in Seq(States)
  OBVIOUS
<1>2. NoWorkflow \in Row /\ NoTask \in TaskRow
  BY DEF NoWorkflow, NoTask, Row, TaskRow
<1> QED BY <1>1, <1>2 DEF Idle, Session, SoundCall, Plans

\* A call that began stays sound when the rows it does not lock move.
LEMMA CallKept ==
  ASSUME IndInv, Keeps, NEW s \in Session, SoundCall(s),
         wf' \in [Workflows -> Row]
  PROVE  SoundCall(s)'
<1> SUFFICES ASSUME s.op # "idle" PROVE SoundCall(s)'
  BY DEF SoundCall
<1>1. s.w \in Workflows /\ Fresh(s) /\ Consistent(s)
  BY DEF SoundCall
<1>2. /\ wf[s.w].version \in Nat /\ wf'[s.w].version \in Nat /\ s.was.version \in Nat
  BY <1>1, Parts DEF Row, Session
<1>3. Fresh(s)'
  BY <1>1, <1>2 DEF Fresh, Keeps
<1>4. Consistent(s)'
  BY <1>1 DEF Consistent, Keeps
<1> QED BY <1>3, <1>4 DEF SoundCall

\* A step that only begins a call, or ends one without a write.
LEMMA HoldStep ==
  ASSUME IndInv, NEW r \in Requests, NEW s \in Session, SoundCall(s), Hold(r, s),
         UNCHANGED <<wf, steps, task, plan, envelope, policy, now>>
  PROVE  IndInv'
<1>1. /\ session' \in [Requests -> Session]
      /\ \A q \in Requests : session'[q] = IF q = r THEN s ELSE session[q]
  BY DEF Hold, IndInv, TypeOK
<1>2. TypeOK'
  BY <1>1 DEF IndInv, TypeOK
<1>3. Keeps /\ wf' \in [Workflows -> Row]
  <2>1. \A w \in Workflows : wf[w].version \in Nat
    BY Parts DEF Row
  <2> QED BY <2>1 DEF Keeps, IndInv, TypeOK
<1>4. CallsSound'
  <2> SUFFICES ASSUME NEW q \in Requests PROVE SoundCall(session[q])'
    BY DEF CallsSound
  <2>1. PICK t \in Session : t = session'[q] /\ SoundCall(t)
    BY <1>1, Parts
  <2>2. SoundCall(t)'
    BY <2>1, <1>3, CallKept
  <2> QED BY <2>1, <2>2
<1>5. RowsSound'
  BY DEF IndInv, RowsSound, SoundRow
<1>6. StepsAreAPath' /\ EnvelopeMatchesWorkflow' /\ CancelTakesTask'
  BY DEF IndInv, StepsAreAPath, EnvelopeMatchesWorkflow, CancelTakesTask
<1> QED BY <1>2, <1>4, <1>5, <1>6 DEF IndInv

\* What a call that begins holds, given where its path leads.
LEMMA CallIs ==
  ASSUME IndInv, NEW op, NEW w \in Workflows, NEW path \in Seq(States),
         NEW status \in TaskStatus \cup {"NONE"}, NEW sealed \in Plans,
         op \in {"create", "resume", "cancel", "read"}
  PROVE  LET s == Call(op, w, path, status, sealed)
         IN  /\ s \in Session /\ s.op = op /\ s.w = w /\ s.was = wf[w]
             /\ s.wasTask = task[w] /\ s.path = path /\ s.status = status
             /\ s.sealed = sealed /\ Fresh(s)
<1>1. wf[w] \in Row /\ task[w] \in TaskRow /\ wf[w].version \in Nat
  BY Parts DEF Row
<1> QED BY <1>1 DEF Call, Session, Fresh

\* create holds a sound path and, sealed, the plan that it validated.
LEMMA CreateHolds ==
  ASSUME IndInv, NEW r \in Requests, NEW w \in Workflows, wf[w].state = "NONE",
         NEW path, NEW x, CreatePath(path, x),
         NEW status \in {"NONE"} \cup CreatedStates,
         Hold(r, Call("create", w, path, status, Sealed(path, "validated"))),
         x # "CANCELLED",
         x \in {"WAITING_PERMISSION", "WAITING_CONFIRMATION", "READY_FOR_EXECUTION"}
           => status # "NONE",
         status = "QUEUED" => x \in {"READY_FOR_EXECUTION", "DENIED"},
         UNCHANGED <<wf, steps, task, plan, envelope, policy, now>>
  PROVE  IndInv'
<1>1. PICK sealed \in Plans :
        /\ sealed = Sealed(path, "validated")
        /\ sealed = IF x = "READY_FOR_EXECUTION" THEN "validated" ELSE "none"
  BY DEF Sealed, Plans, CreatePath
<1>2. status \in TaskStatus \cup {"NONE"} /\ path \in Seq(States)
      /\ status \notin {"RUNNING", "COMPLETED"}
  BY CreatedAre DEF TaskStatus, CreatePath
<1>3. PICK s : s = Call("create", w, path, status, sealed)
  OBVIOUS
<1>4. /\ s \in Session /\ s.op = "create" /\ s.w = w /\ s.was = wf[w]
      /\ s.path = path /\ s.status = status /\ s.sealed = sealed /\ Fresh(s)
  BY <1>2, <1>3, CallIs
<1>5. wf[w] = NoWorkflow
  BY Parts DEF SoundRow
<1>6. Consistent(s)
  BY <1>1, <1>2, <1>4 DEF Consistent, CreatePath
<1>7. SoundCall(s)
  BY <1>4, <1>5, <1>6 DEF SoundCall, CreatePath
<1> QED BY <1>1, <1>3, <1>4, <1>7, HoldStep

\* create, whichever way the router, the plan and the authority answer.
LEMMA BeginCreateStep ==
  ASSUME IndInv, NEW r \in Requests, NEW w \in Workflows, NEW intent \in Intents,
         BeginCreate(r, w, intent)
  PROVE  IndInv'
<1>1. wf[w].state = "NONE" /\ UNCHANGED <<wf, steps, task, plan, envelope, policy, now>>
  BY DEF BeginCreate
<1>2. \A path, x : CreatePath(path, x) /\ x # "READY_FOR_EXECUTION" =>
                     Sealed(path, "validated") = "none"
  BY DEF CreatePath, Sealed
<1>3. ASSUME NEW path, NEW x, CreatePath(path, x),
             x \in {"DENIED", "FAILED", "COMPLETED_NO_ACTION"},
             Hold(r, Call("create", w, path, "NONE", "none"))
      PROVE  IndInv'
  <2>1. Hold(r, Call("create", w, path, "NONE", Sealed(path, "validated")))
    BY <1>2, <1>3
  <2> QED BY <1>1, <1>3, <2>1, CreateHolds
<1>4. CASE \E path \in RefusedPaths \cup {<<"RECEIVED", "DENIED">>} :
             Hold(r, Call("create", w, path, "NONE", "none"))
  BY <1>3, <1>4, ShortPaths DEF RefusedPaths
<1>5. CASE \E path \in RefusedPlans \cup {Append(Routed, "COMPLETED_NO_ACTION")} :
             Hold(r, Call("create", w, path, "NONE", "none"))
  <2>1. /\ \A x \in {"FAILED", "DENIED", "COMPLETED_NO_ACTION"} :
             x \in Allowed("PROPOSAL_GENERATED")
        /\ "DENIED" \in Allowed("PLAN_VALIDATED")
    BY AllowedFacts DEF Stop
  <2>2. \A path \in RefusedPlans \cup {Append(Routed, "COMPLETED_NO_ACTION")} :
          \E x \in {"DENIED", "FAILED", "COMPLETED_NO_ACTION"} : CreatePath(path, x)
    BY <2>1, PlanPaths DEF RefusedPlans
  <2> QED BY <1>3, <1>5, <2>2
<1>6. CASE \E status \in CreatedStates :
             LET path == LinkedPath(policy, status)
             IN  Hold(r, Call("create", w, path, status, Sealed(path, "validated")))
  <2>1. PICK status \in CreatedStates :
          Hold(r, Call("create", w, LinkedPath(policy, status), status,
                       Sealed(LinkedPath(policy, status), "validated")))
    BY <1>6
  <2>2. PICK x : x = IF status = "QUEUED" /\ ~PermitsReadiness(policy) THEN "DENIED"
                     ELSE StateForTask(status)
    OBVIOUS
  <2>3. /\ x \in Allowed("PLAN_VALIDATED") /\ x # "CANCELLED"
        /\ status = "QUEUED" => x \in {"READY_FOR_EXECUTION", "DENIED"}
        /\ status # "NONE"
    BY <2>2, CreatedAre, AllowedFacts DEF StateForTask, Stop
  <2>4. PICK path : path = LinkedPath(policy, status) /\ CreatePath(path, x)
    BY <2>2, <2>3, PlanPaths DEF LinkedPath
  <2>5. Hold(r, Call("create", w, path, status, Sealed(path, "validated")))
    BY <2>1, <2>4
  <2>6. status \in {"NONE"} \cup CreatedStates
    OBVIOUS
  <2> QED BY <1>1, <2>3, <2>4, <2>5, <2>6, CreateHolds
<1> QED BY <1>4, <1>5, <1>6 DEF BeginCreate

\* A call that moves a workflow by one step.
LEMMA MoveHolds ==
  ASSUME IndInv, NEW r \in Requests, NEW w \in Workflows,
         NEW op \in {"read", "resume", "cancel"}, NEW x \in Allowed(wf[w].state),
         NEW status \in {"NONE"} \cup AllowedTransitions(task[w].status),
         status \notin {"RUNNING", "COMPLETED"}, NEW sealed,
         sealed = IF x = "READY_FOR_EXECUTION" THEN "validated" ELSE "none",
         x \in {"WAITING_PERMISSION", "WAITING_CONFIRMATION", "READY_FOR_EXECUTION"}
           => wf[w].linked,
         status = "QUEUED" => x \in {"READY_FOR_EXECUTION", "DENIED"},
         x = "CANCELLED" => \/ status = "CANCELLED" \/ ~wf[w].linked
                            \/ task[w].status = "CANCELLED",
         Hold(r, Call(op, w, <<x>>, status, sealed)),
         UNCHANGED <<wf, steps, task, plan, envelope, policy, now>>
  PROVE  IndInv'
<1>1. x \in States /\ wf[w].state # "NONE" /\ status \in TaskStatus \cup {"NONE"}
      /\ sealed \in Plans
  BY AllowedFacts, TaskFacts DEF Plans
<1>2. PICK path \in Seq(States) :
        /\ path = <<x>> /\ Len(path) = 1 /\ path[1] = x /\ Last(path) = x
        /\ IsPath(path) /\ path # <<>>
  BY <1>1, OneStep
<1>3. PICK s : s = Call(op, w, path, status, sealed)
  OBVIOUS
<1>4. /\ s \in Session /\ s.op = op /\ s.w = w /\ s.was = wf[w]
      /\ s.wasTask = task[w] /\ s.path = path /\ s.status = status
      /\ s.sealed = sealed /\ Fresh(s)
  BY <1>1, <1>3, CallIs
<1>5. Consistent(s)
  BY <1>2, <1>4 DEF Consistent
<1>6. SoundCall(s)
  BY <1>1, <1>2, <1>4, <1>5 DEF SoundCall
<1> QED BY <1>2, <1>3, <1>4, <1>6, HoldStep

\* read, resume and cancel find the workflow due.
LEMMA BeginExpireStep ==
  ASSUME IndInv, NEW r \in Requests, NEW w \in Workflows,
         NEW op \in {"read", "resume", "cancel"}, BeginExpire(r, op, w)
  PROVE  IndInv'
<1>1. "EXPIRED" \in Allowed(wf[w].state)
  BY LiveCanExpire, Parts DEF BeginExpire, Due, Row
<1> QED BY <1>1, MoveHolds DEF BeginExpire

\* A workflow that waits has its Task, and may still be stopped.
LEMMA WaitingIs ==
  ASSUME IndInv, NEW w \in Workflows, Waiting(w)
  PROVE  /\ wf[w].linked
         /\ {"CANCELLED", "DENIED", "EXPIRED"} \subseteq Allowed(wf[w].state)
BY Parts, AllowedFacts DEF Waiting, SoundRow

\* resume: a cancelled Task, an altered plan, or the decision taken again.
LEMMA BeginResumeStep ==
  ASSUME IndInv, NEW r \in Requests, NEW w \in Workflows,
         BeginResumeCancelled(r, w) \/ BeginResumeAltered(r, w) \/ BeginResume(r, w)
  PROVE  IndInv'
<1>1. CASE BeginResumeCancelled(r, w)
  <2>1. /\ "CANCELLED" \in Allowed(wf[w].state) /\ task[w].status = "CANCELLED"
        /\ Hold(r, Call("resume", w, <<"CANCELLED">>, "NONE", "none"))
        /\ UNCHANGED <<wf, steps, task, plan, envelope, policy, now>>
    BY <1>1, WaitingIs DEF BeginResumeCancelled
  <2> QED BY <2>1, MoveHolds
<1>2. CASE BeginResumeAltered(r, w)
  <2>1. /\ "DENIED" \in Allowed(wf[w].state)
        /\ Hold(r, Call("resume", w, <<"DENIED">>, "NONE", "none"))
        /\ UNCHANGED <<wf, steps, task, plan, envelope, policy, now>>
    BY <1>2, WaitingIs DEF BeginResumeAltered
  <2> QED BY <2>1, MoveHolds
<1>3. CASE BeginResume(r, w)
  <2>1. PICK status \in (CreatedStates \cup {"FAILED"})
                          \cap AllowedTransitions(task[w].status) :
          /\ ResumeTarget(policy, status) \in Allowed(wf[w].state)
          /\ Hold(r, Call("resume", w, <<ResumeTarget(policy, status)>>, status,
                          Sealed(<<ResumeTarget(policy, status)>>, plan[w])))
    BY <1>3 DEF BeginResume
  <2>2. /\ wf[w].linked /\ plan[w] = "validated"
        /\ UNCHANGED <<wf, steps, task, plan, envelope, policy, now>>
    BY <1>3, WaitingIs DEF BeginResume, PlanIntact
  <2>3. PICK x \in Allowed(wf[w].state) : x = ResumeTarget(policy, status)
    BY <2>1
  <2>4. x \in States
    BY AllowedFacts
  <2>5. PICK sealed : /\ sealed = Sealed(<<x>>, plan[w])
                      /\ sealed = IF x = "READY_FOR_EXECUTION" THEN "validated" ELSE "none"
    BY <2>2, <2>4, OneStep DEF Sealed
  <2>6. /\ x # "CANCELLED" /\ status \notin {"RUNNING", "COMPLETED"}
        /\ status = "QUEUED" => x \in {"READY_FOR_EXECUTION", "DENIED"}
    BY <2>3, CreatedAre DEF ResumeTarget, StateForTask
  <2>7. Hold(r, Call("resume", w, <<x>>, status, sealed))
    BY <2>1, <2>3, <2>5
  <2>8. status \in {"NONE"} \cup AllowedTransitions(task[w].status)
    OBVIOUS
  <2> QED BY <2>2, <2>5, <2>6, <2>7, <2>8, MoveHolds
<1> QED BY <1>1, <1>2, <1>3

\* cancel_owned: the Task is taken along with the workflow.
LEMMA BeginCancelStep ==
  ASSUME IndInv, NEW r \in Requests, NEW w \in Workflows, BeginCancel(r, w)
  PROVE  IndInv'
<1>1. PICK status : status = IF Follows(w) THEN "CANCELLED" ELSE "NONE"
  OBVIOUS
<1>2. /\ "CANCELLED" \in Allowed(wf[w].state)
      /\ status \in {"NONE"} \cup AllowedTransitions(task[w].status)
      /\ Hold(r, Call("cancel", w, <<"CANCELLED">>, status, "none"))
      /\ UNCHANGED <<wf, steps, task, plan, envelope, policy, now>>
  BY <1>1 DEF BeginCancel
<1>3. status = "CANCELLED" \/ ~wf[w].linked \/ task[w].status = "CANCELLED"
  BY <1>1 DEF Follows
<1>4. status \notin {"RUNNING", "COMPLETED", "QUEUED"}
  BY <1>1
<1> QED BY <1>2, <1>3, <1>4, MoveHolds

-----------------------------------------------------------------------------
\* Calls commit.

\* A commit that writes one workflow, its Task and its envelope at most.
LEMMA WriteStep ==
  ASSUME IndInv, NEW w \in Workflows, TypeOK', Keeps,
         \A v \in Workflows \ {w} : /\ wf'[v] = wf[v] /\ steps'[v] = steps[v]
                                   /\ task'[v] = task[v] /\ envelope'[v] = envelope[v],
         SoundRow(w)', NEW r \in Requests,
         \A q \in Requests : session'[q] = IF q = r THEN Idle ELSE session[q],
         /\ Len(steps'[w]) = wf'[w].version
         /\ wf'[w].version > 0 => /\ steps'[w][1] = "RECEIVED"
                                 /\ Last(steps'[w]) = wf'[w].state
         /\ IsPath(steps'[w]),
         /\ wf'[w].state = "READY_FOR_EXECUTION" => envelope'[w] = "validated"
         /\ envelope'[w] # "none" =>
              /\ envelope'[w] = "validated"
              /\ wf'[w].linked
              /\ wf'[w].state \in {"READY_FOR_EXECUTION", "CANCELLED", "EXPIRED"}
         /\ task'[w].status \in {"QUEUED", "RUNNING", "COMPLETED"} =>
              envelope'[w] # "none" \/ wf'[w].state = "DENIED",
         wf'[w].state = "CANCELLED" /\ wf'[w].linked => task'[w].status = "CANCELLED"
  PROVE  IndInv'
<1>1. RowsSound'
  BY DEF IndInv, RowsSound, SoundRow
<1>2. CallsSound'
  <2> SUFFICES ASSUME NEW q \in Requests PROVE SoundCall(session[q])'
    BY DEF CallsSound
  <2>1. PICK t \in Session : t = session'[q] /\ SoundCall(t)
    BY Parts, IdleSound
  <2>2. SoundCall(t)'
    <3>1. wf' \in [Workflows -> Row]
      BY DEF TypeOK
    <3> QED BY <2>1, <3>1, CallKept
  <2> QED BY <2>1, <2>2
<1>3. StepsAreAPath'
  <2> DEFINE Along(v) == /\ Len(steps[v]) = wf[v].version
                         /\ wf[v].version > 0 => /\ steps[v][1] = "RECEIVED"
                                                 /\ Last(steps[v]) = wf[v].state
                         /\ IsPath(steps[v])
  <2>1. Along(w)'
    OBVIOUS
  <2>2. ASSUME NEW v \in Workflows \ {w} PROVE Along(v)'
    <3>1. Along(v)
      BY DEF IndInv, StepsAreAPath, IsPath
    <3>2. steps'[v] = steps[v] /\ wf'[v] = wf[v]
      OBVIOUS
    <3> QED BY <3>1, <3>2 DEF IsPath
  <2> QED BY <2>1, <2>2 DEF StepsAreAPath, IsPath
<1>4. EnvelopeMatchesWorkflow'
  BY DEF IndInv, EnvelopeMatchesWorkflow
<1>5. CancelTakesTask'
  BY DEF IndInv, CancelTakesTask
<1> QED BY <1>1, <1>2, <1>3, <1>4, <1>5 DEF IndInv

\* The Task Engine moves a Task behind the back of its workflow.
LEMMA OthersMoveStep ==
  ASSUME IndInv, NEW w \in Workflows, OthersMove(w)
  PROVE  IndInv'
<1>1. PICK status \in AllowedTransitions(task[w].status)
                        \cap {"CANCELLED", "RUNNING", "COMPLETED", "FAILED", "EXPIRED"} :
        task' = [task EXCEPT ![w] = [status |-> status, version |-> @.version + 1]]
  BY DEF OthersMove
<1>2. UNCHANGED <<wf, steps, plan, envelope, policy, session, now>>
  BY DEF OthersMove
<1>3. /\ task[w] \in TaskRow /\ status \in TaskStatus /\ task[w].version \in Nat
      /\ task[w].status \notin {"NONE", "CANCELLED"}
  BY Parts, TaskFacts DEF TaskRow
<1> DEFINE row == [status |-> status, version |-> task[w].version + 1]
<1>4. row \in TaskRow /\ row.status = status
  BY <1>3 DEF TaskRow
<1>5. task' = [task EXCEPT ![w] = row]
  BY <1>1, Parts
<1> HIDE DEF row
<1>6. /\ task' \in [Workflows -> TaskRow] /\ task'[w].status = status
      /\ \A v \in Workflows \ {w} : task'[v] = task[v]
  BY <1>4, <1>5 DEF IndInv, TypeOK
<1>7. TypeOK'
  BY <1>2, <1>6 DEF IndInv, TypeOK
<1>8. Keeps
  <2>1. \A v \in Workflows : wf[v].version \in Nat
    BY Parts DEF Row
  <2> QED BY <2>1, <1>2, <1>3, <1>6 DEF Keeps
<1>9. SoundRow(w)'
  <2>1. SoundRow(w) /\ wf[w].state # "NONE"
    BY <1>3, Parts DEF SoundRow, NoTask
  <2> QED BY <2>1, <1>2 DEF SoundRow
<1>10. RowsSound'
  BY <1>2, <1>6, <1>9 DEF IndInv, RowsSound, SoundRow
<1>11. CallsSound'
  <2> SUFFICES ASSUME NEW q \in Requests PROVE SoundCall(session[q])'
    BY DEF CallsSound
  <2>1. PICK t \in Session : t = session'[q] /\ SoundCall(t)
    BY <1>2, Parts
  <2>2. SoundCall(t)'
    BY <2>1, <1>7, <1>8, CallKept DEF TypeOK
  <2> QED BY <2>1, <2>2
<1>12. StepsAreAPath'
  BY <1>2 DEF IndInv, StepsAreAPath
<1>13. EnvelopeMatchesWorkflow'
  <2>1. status \in {"QUEUED", "RUNNING", "COMPLETED"} =>
          task[w].status \in {"QUEUED", "RUNNING", "COMPLETED"}
    BY TaskFacts
  <2> QED BY <2>1, <1>2, <1>6 DEF IndInv, EnvelopeMatchesWorkflow
<1>14. CancelTakesTask'
  BY <1>2, <1>3, <1>6 DEF IndInv, CancelTakesTask
<1> QED BY <1>7, <1>10, <1>11, <1>12, <1>13, <1>14 DEF IndInv

\* The commit writes what the call holds, or the version check refuses it.
LEMMA CommitStep ==
  ASSUME IndInv, NEW r \in Requests, Commit(r)
  PROVE  IndInv'
<1>1. PICK o \in Session : o = session[r] /\ SoundCall(o) /\ o.op # "idle"
  BY Parts DEF Commit
<1>2. PICK w \in Workflows : w = o.w
  BY <1>1 DEF SoundCall
<1>3. o.was = wf[w] /\ (o.status # "NONE" => task[w] = o.wasTask)
  BY <1>1, <1>2 DEF Commit, WorkflowMatches, TaskMatches, SoundCall, Fresh
<1>4. PICK path \in Seq(States) : path = o.path /\ path # <<>> /\ IsPath(path)
  BY <1>1 DEF SoundCall, Session
<1>5. PICK n : n = Last(path) /\ n \in States
  BY <1>4, LenProperties, EmptySeq, ElementOfSeq DEF Last
<1>6. Len(path) \in Nat /\ Len(path) > 0
  BY <1>4, LenProperties, EmptySeq
<1>7. /\ wf[w] \in Row /\ task[w] \in TaskRow /\ wf[w].version \in Nat
      /\ task[w].version \in Nat /\ wf[w].linked \in BOOLEAN
      /\ o.status \in TaskStatus \cup {"NONE"} /\ o.sealed \in Plans
      /\ steps[w] \in Seq(States)
  BY Parts DEF Row, TaskRow, Session
<1>8. /\ o.sealed = IF n = "READY_FOR_EXECUTION" THEN "validated" ELSE "none"
      /\ n \in {"WAITING_PERMISSION", "WAITING_CONFIRMATION", "READY_FOR_EXECUTION"} =>
           wf[w].linked \/ (o.op = "create" /\ o.status # "NONE")
      /\ o.status = "QUEUED" => n \in {"READY_FOR_EXECUTION", "DENIED"}
      /\ o.status \notin {"RUNNING", "COMPLETED"}
      /\ n = "CANCELLED" => \/ o.status = "CANCELLED" \/ ~wf[w].linked
                            \/ task[w].status = "CANCELLED"
  BY <1>1, <1>2, <1>3, <1>4, <1>5 DEF SoundCall, Consistent
<1>9. o.op = "create" => /\ wf[w] = NoWorkflow /\ path[1] = "RECEIVED" /\ n # "CANCELLED"
                         /\ task[w] = NoTask /\ envelope[w] = "none"
  <2>1. o.op = "create" => /\ wf[w] = NoWorkflow /\ path[1] = "RECEIVED"
                           /\ n # "CANCELLED"
    BY <1>1, <1>3, <1>4, <1>5 DEF SoundCall
  <2> QED BY <2>1, Parts DEF SoundRow, NoWorkflow
<1>10. o.op # "create" =>
         /\ wf[w].state # "NONE" /\ n \in Allowed(wf[w].state)
         /\ path[1] \in Allowed(wf[w].state)
         /\ o.status # "NONE" => o.status \in AllowedTransitions(task[w].status)
  BY <1>1, <1>3, <1>4, <1>5 DEF SoundCall, Last
<1> DEFINE linked == wf[w].linked \/ (o.op = "create" /\ o.status # "NONE" /\ n # "DENIED")
           row == [state |-> n, version |-> wf[w].version + Len(path), linked |-> linked]
           job == [status |-> o.status, version |-> task[w].version + 1]
<1>11. /\ row \in Row /\ row.state = n /\ row.version = wf[w].version + Len(path)
       /\ row.linked = linked /\ row.version > wf[w].version
  BY <1>5, <1>6, <1>7 DEF Row
<1>12. o.status # "NONE" => job \in TaskRow /\ job.status = o.status
  BY <1>7 DEF TaskRow
<1>13. /\ wf' = [wf EXCEPT ![w] = row]
       /\ steps' = [steps EXCEPT ![w] = steps[w] \o path]
       /\ task' = IF o.status = "NONE" THEN task ELSE [task EXCEPT ![w] = job]
       /\ envelope' = IF o.sealed = "none" THEN envelope
                      ELSE [envelope EXCEPT ![w] = o.sealed]
       /\ plan' = plan \/ plan' = [plan EXCEPT ![w] = "validated"]
       /\ Hold(r, Idle) /\ UNCHANGED <<policy, now>>
  BY <1>1, <1>2, <1>4, <1>5, Parts DEF Commit
<1> HIDE DEF linked, row, job
<1>14. /\ wf' \in [Workflows -> Row] /\ wf'[w] = row
       /\ \A v \in Workflows \ {w} : wf'[v] = wf[v]
  BY <1>11, <1>13 DEF IndInv, TypeOK
<1>15. /\ task' \in [Workflows -> TaskRow]
       /\ task'[w].status = IF o.status = "NONE" THEN task[w].status ELSE o.status
       /\ \A v \in Workflows \ {w} : task'[v] = task[v]
  BY <1>12, <1>13 DEF IndInv, TypeOK
<1>16. /\ envelope' \in [Workflows -> Plans]
       /\ envelope'[w] = IF o.sealed = "none" THEN envelope[w] ELSE o.sealed
       /\ \A v \in Workflows \ {w} : envelope'[v] = envelope[v]
  BY <1>7, <1>13 DEF IndInv, TypeOK
<1>17. /\ session' \in [Requests -> Session]
       /\ \A q \in Requests : session'[q] = IF q = r THEN Idle ELSE session[q]
  BY <1>13, IdleSound DEF Hold, IndInv, TypeOK
\* The steps go on.
<1>18. /\ steps[w] \o path \in Seq(States)
       /\ Len(steps[w] \o path) = wf[w].version + Len(path)
       /\ IsPath(steps[w] \o path) /\ Last(steps[w] \o path) = n
       /\ (steps[w] \o path)[1] = "RECEIVED"
  <2>1. /\ Len(steps[w]) = wf[w].version /\ IsPath(steps[w])
        /\ wf[w].version > 0 => steps[w][1] = "RECEIVED" /\ Last(steps[w]) = wf[w].state
    BY DEF IndInv, StepsAreAPath, IsPath
  <2>2. steps[w] = <<>> <=> wf[w].version = 0
    BY <2>1, <1>7, EmptySeq
  <2>3. o.op = "create" <=> wf[w].version = 0
    BY <1>7, <1>9, <1>10, Parts DEF SoundRow, NoWorkflow
  <2>4. steps[w] # <<>> => path[1] \in Allowed(Last(steps[w]))
    BY <2>1, <2>2, <2>3, <1>7, <1>10
  <2>5. /\ steps[w] \o path \in Seq(States)
        /\ Len(steps[w] \o path) = Len(steps[w]) + Len(path)
        /\ IsPath(steps[w] \o path) /\ Last(steps[w] \o path) = Last(path)
        /\ (steps[w] \o path)[1] = IF steps[w] = <<>> THEN path[1] ELSE steps[w][1]
    BY <2>1, <2>4, <1>4, <1>7, PathGoesOn
  <2> QED BY <2>1, <2>2, <2>3, <2>5, <1>5, <1>7, <1>9
<1>19. /\ steps' \in [Workflows -> Seq(States)] /\ steps'[w] = steps[w] \o path
       /\ \A v \in Workflows \ {w} : steps'[v] = steps[v]
  BY <1>13, <1>18 DEF IndInv, TypeOK
<1>20. TypeOK'
  <2>1. plan' \in [Workflows -> Plans]
    BY <1>13 DEF IndInv, TypeOK, Plans
  <2> QED BY <2>1, <1>13, <1>14, <1>15, <1>16, <1>17, <1>19 DEF IndInv, TypeOK
<1>21. task[w].status = "CANCELLED" => task'[w].status = "CANCELLED"
  BY <1>9, <1>10, <1>15, TaskFacts DEF NoTask
<1>22. Keeps
  <2>1. \A v \in Workflows : wf[v].version \in Nat
    BY Parts DEF Row
  <2> QED BY <2>1, <1>7, <1>6, <1>11, <1>14, <1>15, <1>21 DEF Keeps
<1>23. SoundRow(w)'
  <2>1. n # "NONE"
    BY <1>5 DEF States
  <2>2. row.version > 0
    BY <1>6, <1>7, <1>11
  <2>3. n \in {"WAITING_PERMISSION", "WAITING_CONFIRMATION", "READY_FOR_EXECUTION"} =>
          linked
    BY <1>8 DEF linked
  <2> QED BY <2>1, <2>2, <2>3, <1>11, <1>14 DEF SoundRow
\* The envelope, the Task and the state agree.
<1>24. /\ n = "READY_FOR_EXECUTION" => envelope'[w] = "validated"
       /\ envelope'[w] # "none" =>
            /\ envelope'[w] = "validated" /\ linked
            /\ n \in {"READY_FOR_EXECUTION", "CANCELLED", "EXPIRED"}
  <2>1. CASE n = "READY_FOR_EXECUTION"
    BY <2>1, <1>8, <1>16 DEF linked
  <2>2. CASE n # "READY_FOR_EXECUTION"
    <3>1. envelope'[w] = envelope[w]
      BY <2>2, <1>8, <1>16
    <3>2. ASSUME envelope[w] # "none"
          PROVE  /\ envelope[w] = "validated" /\ linked /\ n \in {"CANCELLED", "EXPIRED"}
      <4>1. /\ envelope[w] = "validated" /\ wf[w].linked
            /\ wf[w].state \in {"READY_FOR_EXECUTION", "CANCELLED", "EXPIRED"}
        BY <3>2 DEF IndInv, EnvelopeMatchesWorkflow
      <4>2. n \in Allowed(wf[w].state)
        BY <3>2, <1>9, <1>10
      <4>3. n \in {"CANCELLED", "EXPIRED"}
        BY <4>1, <4>2, AllowedFacts DEF Terminal
      <4> QED BY <4>1, <4>3 DEF linked
    <3> QED BY <3>1, <3>2, <2>2
  <2> QED BY <2>1, <2>2
<1>25. task'[w].status \in {"QUEUED", "RUNNING", "COMPLETED"} =>
         envelope'[w] # "none" \/ n = "DENIED"
  <2>1. CASE o.status = "NONE"
    <3> SUFFICES ASSUME task[w].status \in {"QUEUED", "RUNNING", "COMPLETED"}
                 PROVE  envelope'[w] # "none"
      BY <2>1, <1>15
    <3>1. n \in Allowed(wf[w].state)
      BY <1>9, <1>10 DEF NoTask
    <3>2. wf[w].state # "DENIED"
      BY <3>1, AllowedFacts DEF Terminal
    <3>3. envelope[w] # "none"
      BY <3>2 DEF IndInv, EnvelopeMatchesWorkflow
    <3> QED BY <3>3, <1>16
  <2>2. CASE o.status # "NONE"
    BY <2>2, <1>8, <1>15, <1>24
  <2> QED BY <2>1, <2>2
<1>26. n = "CANCELLED" /\ linked => task'[w].status = "CANCELLED"
  <2> SUFFICES ASSUME n = "CANCELLED", linked PROVE task'[w].status = "CANCELLED"
    OBVIOUS
  <2>1. wf[w].linked
    BY <1>9 DEF linked
  <2> QED BY <2>1, <1>8, <1>15, <1>21
<1>27. wf'[w].state = n /\ wf'[w].linked = linked
       /\ wf'[w].version = wf[w].version + Len(path)
  BY <1>11, <1>14
<1>28. /\ Len(steps'[w]) = wf'[w].version
       /\ wf'[w].version > 0 => /\ steps'[w][1] = "RECEIVED"
                               /\ Last(steps'[w]) = wf'[w].state
       /\ IsPath(steps'[w])
  BY <1>18, <1>19, <1>27
<1>29. /\ wf'[w].state = "READY_FOR_EXECUTION" => envelope'[w] = "validated"
       /\ envelope'[w] # "none" =>
            /\ envelope'[w] = "validated"
            /\ wf'[w].linked
            /\ wf'[w].state \in {"READY_FOR_EXECUTION", "CANCELLED", "EXPIRED"}
       /\ task'[w].status \in {"QUEUED", "RUNNING", "COMPLETED"} =>
            envelope'[w] # "none" \/ wf'[w].state = "DENIED"
  BY <1>24, <1>25, <1>27
<1>30. wf'[w].state = "CANCELLED" /\ wf'[w].linked => task'[w].status = "CANCELLED"
  BY <1>26, <1>27
<1> QED BY <1>14, <1>15, <1>16, <1>17, <1>19, <1>20, <1>22, <1>23, <1>28, <1>29, <1>30,
           WriteStep

-----------------------------------------------------------------------------
\* Every step.

\* Empty tables and no call.
LEMMA InitInv == Init => IndInv
<1> SUFFICES ASSUME Init PROVE IndInv
  OBVIOUS
<1>1. NoWorkflow \in Row /\ NoTask \in TaskRow /\ <<>> \in Seq(States)
  BY DEF NoWorkflow, NoTask, Row, TaskRow
<1>2. TypeOK
  BY <1>1, IdleSound DEF Init, TypeOK, Plans
<1>3. RowsSound
  BY DEF Init, RowsSound, SoundRow, NoWorkflow
<1>4. CallsSound
  BY IdleSound DEF Init, CallsSound
<1>5. StepsAreAPath /\ EnvelopeMatchesWorkflow /\ CancelTakesTask
  BY DEF Init, StepsAreAPath, EnvelopeMatchesWorkflow, CancelTakesTask, NoWorkflow, NoTask
<1> QED BY <1>2, <1>3, <1>4, <1>5 DEF IndInv

\* Time, the settings and the stored plans.
LEMMA EnvironmentStep ==
  ASSUME IndInv, UNCHANGED <<wf, steps, task, envelope, session>>,
         plan' \in [Workflows -> Plans], policy' \in Policies, now' \in Nat
  PROVE  IndInv'
<1>1. TypeOK'
  BY DEF IndInv, TypeOK
<1>2. RowsSound'
  BY DEF IndInv, RowsSound, SoundRow
<1>3. CallsSound'
  BY DEF IndInv, CallsSound, SoundCall, Fresh, Consistent
<1>4. StepsAreAPath' /\ EnvelopeMatchesWorkflow' /\ CancelTakesTask'
  BY DEF IndInv, StepsAreAPath, EnvelopeMatchesWorkflow, CancelTakesTask
<1> QED BY <1>1, <1>2, <1>3, <1>4 DEF IndInv

\* Every step keeps the invariant.
LEMMA NextInv ==
  ASSUME IndInv, [Next]_vars
  PROVE  IndInv'
<1>1. CASE Tick \/ SwitchPolicy \/ UNCHANGED vars \/ \E w \in Workflows : AlterPlan(w)
  <2>1. UNCHANGED <<wf, steps, task, envelope, session>>
    BY <1>1 DEF Tick, SwitchPolicy, AlterPlan, vars
  <2>2. plan' \in [Workflows -> Plans]
    BY <1>1 DEF Tick, SwitchPolicy, AlterPlan, vars, IndInv, TypeOK, Plans
  <2>3. policy' \in Policies /\ now' \in Nat
    BY <1>1 DEF Tick, SwitchPolicy, AlterPlan, vars, IndInv, TypeOK
  <2> QED BY <2>1, <2>2, <2>3, EnvironmentStep
<1>2. CASE \E w \in Workflows : OthersMove(w)
  BY <1>2, OthersMoveStep
<1>3. ASSUME NEW r \in Requests, Begin(r) PROVE IndInv'
  BY <1>3, BeginCreateStep, BeginExpireStep, BeginResumeStep, BeginCancelStep DEF Begin
<1>4. ASSUME NEW r \in Requests, Rollback(r) PROVE IndInv'
  BY <1>4, IdleSound, HoldStep DEF Rollback
<1> QED BY <1>1, <1>2, <1>3, <1>4, CommitStep DEF Next

-----------------------------------------------------------------------------
\* Theorems.

\* The invariant holds in every reachable state.
THEOREM Inductive == Spec => []IndInv
<1>1. IndInv /\ [Next]_vars => IndInv'
  BY NextInv
<1> QED BY InitInv, <1>1, PTL DEF Spec

\* orchestration_workflows, its steps, Tasks and envelopes keep their shape.
THEOREM TypeCorrect == Spec => []TypeOK
<1>1. IndInv => TypeOK
  BY DEF IndInv
<1> QED BY Inductive, <1>1, PTL

\* _transition: the steps of a workflow are a path of the state machine to where
\* it is, one step per version.
THEOREM StepsStayAPath == Spec => []StepsAreAPath
<1>1. IndInv => StepsAreAPath
  BY DEF IndInv
<1> QED BY Inductive, <1>1, PTL

\* _create_envelope: ready exactly with an envelope of the validated plan, and no
\* worker has a Task without one.
THEOREM EnvelopeStaysMatched == Spec => []EnvelopeMatchesWorkflow
<1>1. IndInv => EnvelopeMatchesWorkflow
  BY DEF IndInv
<1> QED BY Inductive, <1>1, PTL

\* cancel: a cancelled workflow has no live Task.
THEOREM CancelAlwaysTakesTask == Spec => []CancelTakesTask
<1>1. IndInv => CancelTakesTask
  BY DEF IndInv
<1> QED BY Inductive, <1>1, PTL

-----------------------------------------------------------------------------
(* The choice of a model: AIRouter. *)

-----------------------------------------------------------------------------
\* The order of the keys.

\* A set of numbers that is not empty has a least one.
LEMMA Least ==
  ASSUME NEW S \in SUBSET Nat, S # {}
  PROVE  \E n \in S : \A m \in S : n <= m
<1> DEFINE R == OpToRel(<, Nat)
<1>1. IsWellFoundedOn(R, Nat)
  BY NatLessThanWellFounded
<1>2. \A m, n \in Nat : m < n => <<m, n>> \in R
  BY DEF OpToRel
<1> HIDE DEF R
<1>3. PICK x \in S : \A y \in S : ~ (<<y, x>> \in R)
  BY <1>1, WFMin
<1>4. \A m \in S : ~ (m < x)
  BY <1>2, <1>3
<1> QED BY <1>4

\* The tuples of N numbers.
Tuple(N) == [1..N -> Int]
Prefix(e, k) == <<e>> \o k
FallbackKey(T, key, selected) ==
  [m \in T |-> <<IF Equivalent(m, selected) THEN 0 ELSE 1>> \o key[m]]

\* No tuple goes before itself.
LEMMA PrecedesIrreflexive ==
  ASSUME NEW N \in Nat, NEW k \in Tuple(N)
  PROVE  ~ Precedes(k, k)
BY DEF Precedes, Tuple

\* The order of tuples is transitive.
LEMMA PrecedesTransitive ==
  ASSUME NEW N \in Nat, NEW k \in Tuple(N), NEW l \in Tuple(N),
         NEW m \in Tuple(N), Precedes(k, l), Precedes(l, m)
  PROVE  Precedes(k, m)
<1> USE DEF Tuple
<1>1. PICK i \in 1..N : k[i] < l[i] /\ \A j \in 1..(i - 1) : k[j] = l[j]
  BY DEF Precedes
<1>2. PICK h \in 1..N : l[h] < m[h] /\ \A j \in 1..(h - 1) : l[j] = m[j]
  BY DEF Precedes
<1>3. CASE i <= h
  <2>1. k[i] < m[i]
    <3>1. CASE i = h
      BY <1>1, <1>2, <3>1
    <3>2. CASE i < h
      BY <1>1, <1>2, <3>2
    <3> QED BY <1>3, <3>1, <3>2
  <2>2. \A j \in 1..(i - 1) : k[j] = m[j]
    BY <1>1, <1>2, <1>3
  <2> QED BY <2>1, <2>2 DEF Precedes
<1>4. CASE h < i
  <2>1. k[h] < m[h]
    BY <1>1, <1>2, <1>4
  <2>2. \A j \in 1..(h - 1) : k[j] = m[j]
    BY <1>1, <1>2, <1>4
  <2> QED BY <2>1, <2>2 DEF Precedes
<1> QED BY <1>3, <1>4

\* Of two different tuples one goes before the other.
LEMMA PrecedesTotal ==
  ASSUME NEW N \in Nat, NEW k \in Tuple(N), NEW l \in Tuple(N), k # l
  PROVE  Precedes(k, l) \/ Precedes(l, k)
<1> USE DEF Tuple
<1> DEFINE D == {i \in 1..N : k[i] # l[i]}
<1>1. D \in SUBSET Nat
  OBVIOUS
<1>2. D # {}
  OBVIOUS
<1>3. PICK i \in D : \A j \in D : i <= j
  BY <1>1, <1>2, Least
<1>4. \A j \in 1..(i - 1) : k[j] = l[j]
  BY <1>3
<1>5. k[i] < l[i] \/ l[i] < k[i]
  BY <1>3
<1>6. CASE k[i] < l[i]
  BY <1>3, <1>4, <1>6 DEF Precedes
<1>7. CASE l[i] < k[i]
  BY <1>3, <1>4, <1>7 DEF Precedes
<1> QED BY <1>5, <1>6, <1>7

\* sorted lists every member of a finite set once, in the order of the keys,
\* when no two members have the same key.
LEMMA SortedOrders ==
  ASSUME NEW S, IsFiniteSet(S), NEW N \in Nat, NEW key \in [S -> Tuple(N)],
         \A m, n \in S : key[m] = key[n] => m = n
  PROVE  LET s == Sorted(S, key)
         IN  /\ s \in Seq(S)
             /\ Len(s) = Cardinality(S)
             /\ \A m \in S : \E i \in 1..Len(s) : s[i] = m
             /\ \A i, j \in 1..Len(s) : i < j => Precedes(key[s[i]], key[s[j]])
<1> DEFINE n == Cardinality(S)
           Below(m) == {x \in S : Precedes(key[x], key[m])}
           P(m) == Place(m, S, key)
           place == [m \in S |-> P(m)]
           s == Sorted(S, key)
<1>1. n \in Nat
  BY FS_CardinalityType
<1>2. \A m \in S : IsFiniteSet(Below(m)) /\ Below(m) # S /\ Below(m) \subseteq S
  <2> SUFFICES ASSUME NEW m \in S PROVE IsFiniteSet(Below(m)) /\ m \notin Below(m)
    OBVIOUS
  <2>1. IsFiniteSet(Below(m))
    BY FS_Subset
  <2>2. ~ Precedes(key[m], key[m])
    BY PrecedesIrreflexive
  <2> QED BY <2>1, <2>2
<1>3. \A m \in S : P(m) \in 0..(n - 1)
  <2> SUFFICES ASSUME NEW m \in S PROVE P(m) \in 0..(n - 1)
    OBVIOUS
  <2>1. PICK B : B = Below(m)
    OBVIOUS
  <2>2. Cardinality(B) \in Nat
    BY <1>2, <2>1, FS_CardinalityType
  <2>3. Cardinality(B) <= n /\ (Cardinality(B) = n => B = S)
    BY <1>2, <2>1, FS_Subset
  <2>4. P(m) = Cardinality(B)
    BY <2>1 DEF Place
  <2> HIDE DEF Below, P, n
  <2> QED BY <1>1, <1>2, <2>1, <2>2, <2>3, <2>4
<1>4. \A x, y \in S : Precedes(key[x], key[y]) => P(x) < P(y)
  <2> SUFFICES ASSUME NEW x \in S, NEW y \in S, Precedes(key[x], key[y])
               PROVE  P(x) < P(y)
    OBVIOUS
  <2>1. Below(x) \subseteq Below(y)
    <3> SUFFICES ASSUME NEW z \in S, Precedes(key[z], key[x])
                 PROVE  Precedes(key[z], key[y])
      OBVIOUS
    <3> QED BY PrecedesTransitive
  <2>2. x \in Below(y) /\ x \notin Below(x)
    BY PrecedesIrreflexive
  <2>3. PICK B, C : B = Below(x) /\ C = Below(y)
    OBVIOUS
  <2>4. IsFiniteSet(C) /\ B \subseteq C /\ B # C /\ IsFiniteSet(B)
    BY <1>2, <2>1, <2>2, <2>3
  <2>5. Cardinality(B) <= Cardinality(C) /\ (Cardinality(B) = Cardinality(C) => B = C)
    BY <2>4, FS_Subset
  <2>6. Cardinality(B) \in Nat /\ Cardinality(C) \in Nat
    BY <2>4, FS_CardinalityType
  <2>7. P(x) = Cardinality(B) /\ P(y) = Cardinality(C)
    BY <2>3 DEF Place
  <2> HIDE DEF Below, P
  <2> QED BY <2>4, <2>5, <2>6, <2>7
<1>5. \A x, y \in S : x # y => P(x) # P(y)
  <2> SUFFICES ASSUME NEW x \in S, NEW y \in S, x # y PROVE P(x) # P(y)
    OBVIOUS
  <2>1. key[x] # key[y] /\ key[x] \in Tuple(N) /\ key[y] \in Tuple(N)
    OBVIOUS
  <2>2. Precedes(key[x], key[y]) \/ Precedes(key[y], key[x])
    BY <2>1, PrecedesTotal
  <2>3. P(x) \in Int /\ P(y) \in Int
    <3> HIDE DEF P
    <3> QED BY <1>1, <1>3
  <2> HIDE DEF P
  <2> QED BY <1>4, <2>2, <2>3
<1>6. \A i \in 0..(n - 1) : \E m \in S : P(m) = i
  <2>1. place \in Injection(S, 0..(n - 1))
    <3>1. place \in [S -> 0..(n - 1)]
      BY <1>3
    <3>2. \A x, y \in S : place[x] = place[y] => x = y
      <4> HIDE DEF P
      <4> QED BY <1>5
    <3> HIDE DEF place, P, n
    <3> QED BY <3>1, <3>2 DEF Injection, IsInjective
  <2>2. PICK T : T = 0..(n - 1)
    OBVIOUS
  <2>3. IsFiniteSet(T) /\ Cardinality(T) = n
    <3>1. 0 \in Int /\ n - 1 \in Int
      BY <1>1
    <3>2. IsFiniteSet(0..(n - 1)) /\ Cardinality(0..(n - 1)) = IF 0 > n - 1 THEN 0 ELSE (n - 1) - 0 + 1
      <4> HIDE DEF n
      <4> QED BY <3>1, FS_Interval
    <3> HIDE DEF n
    <3> QED BY <1>1, <2>2, <3>2
  <2>4. place \in Surjection(S, T)
    <3> HIDE DEF place
    <3> QED BY <2>1, <2>2, <2>3, FS_Surjection, FS_Injection
  <2>5. \A i \in T : \E m \in S : place[m] = i
    <3> HIDE DEF place
    <3> QED BY <2>4 DEF Surjection
  <2> HIDE DEF P
  <2> QED BY <2>2, <2>5
<1>7. DOMAIN s = 1..n /\ s = [i \in 1..n |-> s[i]]
  BY DEF Sorted
<1>8. \A i \in 1..n : s[i] \in S /\ P(s[i]) = i - 1
  <2> SUFFICES ASSUME NEW i \in 1..n PROVE s[i] \in S /\ P(s[i]) = i - 1
    OBVIOUS
  <2>1. s[i] = CHOOSE m \in S : P(m) = i - 1
    BY DEF Sorted
  <2>2. \E m \in S : P(m) = i - 1
    <3> HIDE DEF P, n
    <3> QED BY <1>1, <1>6
  <2> HIDE DEF P, s
  <2> QED BY <2>1, <2>2
<1>9. s \in Seq(S) /\ Len(s) = n
  <2>1. s \in [1..n -> S]
    <3> HIDE DEF s, n, P
    <3> QED BY <1>7, <1>8
  <2> HIDE DEF s, n
  <2> QED BY <1>1, <2>1
<1>10. \A m \in S : \E i \in 1..n : s[i] = m
  <2> SUFFICES ASSUME NEW m \in S PROVE \E i \in 1..n : s[i] = m
    OBVIOUS
  <2>1. P(m) + 1 \in 1..n
    <3> HIDE DEF P, n
    <3> QED BY <1>1, <1>3
  <2>2. P(s[P(m) + 1]) = P(m) /\ s[P(m) + 1] \in S
    <3> HIDE DEF P, n, s
    <3> QED BY <1>1, <1>3, <1>8, <2>1
  <2> HIDE DEF P, n, s
  <2> QED BY <1>5, <2>1, <2>2
<1>11. \A i, j \in 1..n : i < j => Precedes(key[s[i]], key[s[j]])
  <2> SUFFICES ASSUME NEW i \in 1..n, NEW j \in 1..n, i < j
               PROVE  Precedes(key[s[i]], key[s[j]])
    OBVIOUS
  <2>1. PICK x, y : x = s[i] /\ y = s[j]
    OBVIOUS
  <2>2. x \in S /\ y \in S /\ P(x) < P(y)
    <3>1. x \in S /\ y \in S /\ P(x) = i - 1 /\ P(y) = j - 1
      <4> HIDE DEF P, s, n
      <4> QED BY <1>8, <2>1
    <3> HIDE DEF P, n
    <3> QED BY <1>1, <3>1
  <2>3. key[x] # key[y] /\ key[x] \in Tuple(N) /\ key[y] \in Tuple(N)
    <3>1. x # y
      <4> HIDE DEF P
      <4>1. P(x) \in Int
        BY <1>1, <1>3, <2>2
      <4> QED BY <2>2, <4>1
    <3> HIDE DEF P
    <3> QED BY <2>2, <3>1
  <2>4. Precedes(key[x], key[y]) \/ Precedes(key[y], key[x])
    BY <2>3, PrecedesTotal
  <2>5. P(x) \in Int /\ P(y) \in Int
    <3> HIDE DEF P, n
    <3> QED BY <1>1, <1>3, <2>2
  <2>6. ~ (P(y) < P(x))
    <3> HIDE DEF P
    <3> QED BY <2>2, <2>5
  <2>7. Precedes(key[x], key[y])
    <3> HIDE DEF P
    <3> QED BY <1>4, <2>2, <2>4, <2>6
  <2> HIDE DEF s
  <2> QED BY <2>1, <2>7
<1> HIDE DEF s, n, P
<1>12. Len(s) = n
  BY <1>9
<1>13. n = Cardinality(S) /\ s = Sorted(S, key)
  BY DEF n, s
<1> QED BY <1>9, <1>10, <1>11, <1>12, <1>13

-----------------------------------------------------------------------------
\* The key of a model, and the chain.

\* The key of a model is seven numbers, the first two its class and quality and
\* the last its identifier.
LEMMA KeyType ==
  ASSUME NEW m \in Models, NEW c \in Calls, NEW status
  PROVE  /\ SelectionKey(m, c, status) \in Tuple(7)
         /\ SelectionKey(m, c, status)[1] = ModelRank(m.class)
         /\ SelectionKey(m, c, status)[2] = m.quality
         /\ SelectionKey(m, c, status)[7] = m.id
<1> USE DEF Tuple
<1>1. ModelRank(m.class) \in Int
  BY DEF ModelRank
<1>2. m.quality \in Int /\ m.priority \in Int /\ m.id \in Int
  BY CatalogAssumption DEF ValidModel
<1>3. SensitivityRank(Providers[m.provider].max) \in Int
  <2>1. Providers[m.provider].max \in Labels
    BY CatalogAssumption DEF ValidCatalog, ValidProvider
  <2>2. DOMAIN Sensitivities = 1..5
    BY DEF Sensitivities
  <2>3. \E i \in DOMAIN Sensitivities : Sensitivities[i] = Providers[m.provider].max
    BY <2>1 DEF Labels, ToSet
  <2>4. SensitivityRank(Providers[m.provider].max) \in 1..5
    BY <2>2, <2>3 DEF SensitivityRank
  <2> QED BY <2>4
<1>4. Estimate(m, c.input, c.requested_output) \in Int
  <2>1. m.in_price \in Int /\ m.out_price \in Int
    BY CatalogAssumption DEF ValidModel
  <2>2. c.input \in Int /\ c.requested_output \in Int
    BY LimitsAssumption DEF ValidRequest
  <2>3. c.input * m.in_price \in Int /\ c.requested_output * m.out_price \in Int
    BY <2>1, <2>2
  <2>4. Unit \in Int /\ Unit > 0
    BY LimitsAssumption
  <2>5. PICK x, y : x = c.input * m.in_price /\ y = c.requested_output * m.out_price
    OBVIOUS
  <2>6. (x + y + Unit - 1) \div Unit \in Int
    BY <2>3, <2>4, <2>5
  <2> QED BY <2>5, <2>6 DEF Estimate
<1>5. PICK a, b, h, s, e, p, d :
        /\ a = ModelRank(m.class) /\ b = m.quality
        /\ h = (IF status[m.provider] = "AVAILABLE" THEN 0 ELSE 1)
        /\ s = SensitivityRank(Providers[m.provider].max)
        /\ e = Estimate(m, c.input, c.requested_output)
        /\ p = m.priority /\ d = m.id
  OBVIOUS
<1>6. /\ a \in Int /\ b \in Int /\ h \in Int /\ s \in Int /\ e \in Int
      /\ p \in Int /\ d \in Int
  BY <1>1, <1>2, <1>3, <1>4, <1>5
<1>7. SelectionKey(m, c, status) = <<a, b, h, s, e, p, d>>
  BY <1>5 DEF SelectionKey
<1>8. <<a, b, h, s, e, p, d>> \in Tuple(7)
  BY <1>6
<1> QED BY <1>5, <1>7, <1>8

\* A model with a smaller key is not of a greater class or quality.
LEMMA KeyOrder ==
  ASSUME NEW m \in Models, NEW n \in Models, NEW c \in Calls, NEW status,
         Precedes(SelectionKey(m, c, status), SelectionKey(n, c, status))
  PROVE  ~ Precedes(ClassAndQuality(n), ClassAndQuality(m))
<1> USE DEF Tuple
<1>1. PICK k, l : k = SelectionKey(m, c, status) /\ l = SelectionKey(n, c, status)
  OBVIOUS
<1>2. /\ k \in Tuple(7) /\ l \in Tuple(7)
      /\ k[1] = ModelRank(m.class) /\ k[2] = m.quality
      /\ l[1] = ModelRank(n.class) /\ l[2] = n.quality
  BY <1>1, KeyType
<1>3. PICK i \in 1..7 : k[i] < l[i] /\ \A j \in 1..(i - 1) : k[j] = l[j]
  BY <1>1, <1>2 DEF Precedes
<1>4. k[1] \in Int /\ k[2] \in Int /\ l[1] \in Int /\ l[2] \in Int
  BY <1>2
<1>5. k[1] < l[1] \/ (k[1] = l[1] /\ k[2] <= l[2])
  <2>1. CASE i = 1
    BY <1>3, <2>1
  <2>2. CASE i = 2
    BY <1>3, <1>4, <2>2
  <2>3. CASE i > 2
    BY <1>3, <1>4, <2>3
  <2> QED BY <2>1, <2>2, <2>3
<1>6. ClassAndQuality(m) = <<k[1], k[2]>> /\ ClassAndQuality(n) = <<l[1], l[2]>>
  BY <1>2 DEF ClassAndQuality
<1>7. ~ Precedes(<<l[1], l[2]>>, <<k[1], k[2]>>)
  <2> SUFFICES ASSUME NEW h \in 1..2, <<l[1], l[2]>>[h] < <<k[1], k[2]>>[h],
                      \A j \in 1..(h - 1) : <<l[1], l[2]>>[j] = <<k[1], k[2]>>[j]
               PROVE  FALSE
    <3>1. DOMAIN <<l[1], l[2]>> = 1..2
      OBVIOUS
    <3> QED BY <3>1 DEF Precedes
  <2>1. CASE h = 1
    BY <1>4, <1>5, <2>1
  <2>2. CASE h = 2
    BY <1>4, <1>5, <2>2
  <2> QED BY <2>1, <2>2
<1> QED BY <1>6, <1>7

\* A tuple of numbers with one more in front.
LEMMA Prefixed ==
  ASSUME NEW N \in Nat, NEW k \in Tuple(N), NEW e \in {0, 1}
  PROVE  /\ Prefix(e, k) \in Tuple(N + 1)
         /\ Prefix(e, k)[1] = e
         /\ \A i \in 1..N : Prefix(e, k)[i + 1] = k[i]
<1> USE DEF Tuple
<1>1. k \in Seq(Int) /\ Len(k) = N
  OBVIOUS
<1>2. <<e>> \in Seq(Int) /\ Len(<<e>>) = 1 /\ <<e>>[1] = e
  OBVIOUS
<1>3. PICK s : s = <<e>>
  OBVIOUS
<1>4. PICK t : t = s \o k
  OBVIOUS
<1>5. /\ t \in Seq(Int) /\ Len(t) = Len(s) + Len(k)
      /\ \A i \in 1..(Len(s) + Len(k)) : t[i] = IF i <= Len(s) THEN s[i] ELSE k[i - Len(s)]
  BY <1>1, <1>2, <1>3, <1>4, ConcatProperties
<1>6. /\ Len(t) = N + 1
      /\ \A i \in 1..(N + 1) : t[i] = IF i <= 1 THEN s[i] ELSE k[i - 1]
  BY <1>1, <1>2, <1>3, <1>5
<1>7. t \in Tuple(N + 1)
  BY <1>5, <1>6
<1>8. t[1] = e
  BY <1>2, <1>3, <1>6
<1>9. \A i \in 1..N : t[i + 1] = k[i]
  BY <1>6
<1> QED BY <1>3, <1>4, <1>7, <1>8, <1>9 DEF Prefix

\* _selection_key as a function on the candidates: no two have the same key.
LEMMA KeysDiffer ==
  ASSUME NEW S \in SUBSET Models, NEW c \in Calls, NEW status
  PROVE  LET key == [m \in S |-> SelectionKey(m, c, status)]
         IN  /\ key \in [S -> Tuple(7)]
             /\ \A m, n \in S : key[m] = key[n] => m = n
<1> DEFINE key == [m \in S |-> SelectionKey(m, c, status)]
<1>1. \A m \in S : SelectionKey(m, c, status) \in Tuple(7)
                   /\ SelectionKey(m, c, status)[7] = m.id
  BY KeyType
<1>2. key \in [S -> Tuple(7)]
  BY <1>1
<1>3. \A m, n \in S : m.id = n.id => m = n
  BY CatalogAssumption DEF ValidCatalog
<1>4. \A m \in S : key[m][7] = m.id
  BY <1>1
<1> HIDE DEF key
<1>5. \A m, n \in S : key[m] = key[n] => m = n
  BY <1>3, <1>4
<1> QED BY <1>2, <1>5 DEF key

\* The key of a fallback: the models equivalent to the selected one go first.
LEMMA FallbackKeys ==
  ASSUME NEW N \in Nat, NEW S, NEW T \in SUBSET S, NEW selected,
         NEW key \in [S -> Tuple(N)],
         \A m, n \in S : key[m] = key[n] => m = n
  PROVE  LET fallback == FallbackKey(T, key, selected)
         IN  /\ fallback \in [T -> Tuple(N + 1)]
             /\ \A m, n \in T : fallback[m] = fallback[n] => m = n
             /\ \A m, n \in T : Precedes(fallback[m], fallback[n]) =>
                  \/ Equivalent(m, selected)
                  \/ Precedes(key[m], key[n])
<1> DEFINE E(m) == IF Equivalent(m, selected) THEN 0 ELSE 1
           fallback == [m \in T |-> <<E(m)>> \o key[m]]
<1>1. \A m \in T : /\ fallback[m] \in Tuple(N + 1)
                   /\ fallback[m][1] = E(m)
                   /\ \A i \in 1..N : fallback[m][i + 1] = key[m][i]
  <2> SUFFICES ASSUME NEW m \in T
               PROVE  /\ fallback[m] \in Tuple(N + 1)
                      /\ fallback[m][1] = E(m)
                      /\ \A i \in 1..N : fallback[m][i + 1] = key[m][i]
    OBVIOUS
  <2>1. E(m) \in {0, 1}
    OBVIOUS
  <2>2. fallback[m] = <<E(m)>> \o key[m]
    OBVIOUS
  <2>3. PICK e, k : e = E(m) /\ k = key[m]
    OBVIOUS
  <2> HIDE DEF E, fallback
  <2>4. e \in {0, 1} /\ k \in Tuple(N)
    BY <2>1, <2>3
  <2>5. /\ Prefix(e, k) \in Tuple(N + 1)
        /\ Prefix(e, k)[1] = e
        /\ \A i \in 1..N : Prefix(e, k)[i + 1] = k[i]
    BY <2>4, Prefixed
  <2>6. fallback[m] = Prefix(e, k)
    BY <2>2, <2>3 DEF Prefix
  <2> QED BY <2>3, <2>5, <2>6
<1>2. fallback \in [T -> Tuple(N + 1)]
  <2>1. \A m \in T : <<E(m)>> \o key[m] \in Tuple(N + 1)
    <3>1. \A m \in T : fallback[m] = <<E(m)>> \o key[m]
      OBVIOUS
    <3> HIDE DEF fallback, E
    <3> QED BY <1>1, <3>1
  <2> HIDE DEF E
  <2> QED BY <2>1
<1>3. \A m, n \in T : fallback[m] = fallback[n] => m = n
  <2> SUFFICES ASSUME NEW m \in T, NEW n \in T, fallback[m] = fallback[n] PROVE m = n
    OBVIOUS
  <2> HIDE DEF fallback, E
  <2>1. \A i \in 1..N : key[m][i] = key[n][i]
    BY <1>1
  <2>2. key[m] \in Tuple(N) /\ key[n] \in Tuple(N)
    OBVIOUS
  <2>3. key[m] = key[n]
    BY <2>1, <2>2 DEF Tuple
  <2> QED BY <2>3
<1>4. ASSUME NEW m \in T, NEW n \in T, Precedes(fallback[m], fallback[n])
      PROVE  Equivalent(m, selected) \/ Precedes(key[m], key[n])
  <2>1. /\ fallback[m] \in Tuple(N + 1) /\ fallback[n] \in Tuple(N + 1)
        /\ fallback[m][1] = E(m) /\ fallback[n][1] = E(n)
        /\ \A i \in 1..N : fallback[m][i + 1] = key[m][i] /\ fallback[n][i + 1] = key[n][i]
    <3> HIDE DEF fallback, E
    <3> QED BY <1>1
  <2> HIDE DEF fallback
  <2>2. PICK i \in 1..(N + 1) : /\ fallback[m][i] < fallback[n][i]
                          /\ \A j \in 1..(i - 1) : fallback[m][j] = fallback[n][j]
    BY <1>4, <2>1 DEF Precedes, Tuple
  <2>3. CASE i = 1
    <3>1. E(m) < E(n)
      BY <2>1, <2>2, <2>3
    <3> QED BY <3>1
  <2>4. CASE i > 1
    <3> HIDE DEF E
    <3>1. PICK h \in 1..N : i = h + 1
      BY <2>4
    <3>2. key[m][h] < key[n][h]
      BY <2>1, <2>2, <3>1
    <3>3. \A j \in 1..(h - 1) : key[m][j] = key[n][j]
      <4> SUFFICES ASSUME NEW j \in 1..(h - 1) PROVE key[m][j] = key[n][j]
        OBVIOUS
      <4>1. j \in 1..N /\ j + 1 \in 1..(i - 1)
        BY <3>1
      <4> QED BY <2>1, <2>2, <4>1
    <3>4. DOMAIN key[m] = 1..N
      BY DEF Tuple
    <3> QED BY <3>2, <3>3, <3>4 DEF Precedes
  <2> QED BY <2>3, <2>4
<1>5. fallback = FallbackKey(T, key, selected)
  BY DEF FallbackKey
<1> HIDE DEF fallback
<1> QED BY <1>2, <1>3, <1>4, <1>5

\* The chain holds every candidate once, and none before a model of a lesser
\* class, or of its class and a lesser quality.
LEMMA ChainOrders ==
  ASSUME NEW S \in SUBSET Models, S # {}, NEW c \in Calls, NEW status
  PROVE  LET chain == Chain(S, c, status)
         IN  /\ chain \in Seq(S) /\ chain # <<>>
             /\ \A m \in S : \E i \in DOMAIN chain : chain[i] = m
             /\ \A i, j \in DOMAIN chain : i < j =>
                  /\ chain[i] # chain[j]
                  /\ ~ Precedes(ClassAndQuality(chain[j]), ClassAndQuality(chain[i]))
<1>1. PICK key : key = [m \in S |-> SelectionKey(m, c, status)]
  OBVIOUS
<1>2. PICK N \in Nat : /\ key \in [S -> Tuple(N)]
                       /\ \A m, n \in S : key[m] = key[n] => m = n
  BY <1>1, KeysDiffer
<1>3. \A m, n \in S : Precedes(key[m], key[n]) =>
        ~ Precedes(ClassAndQuality(n), ClassAndQuality(m))
  <2>1. \A m \in S : key[m] = SelectionKey(m, c, status) /\ m \in Models
    BY <1>1
  <2> QED BY <2>1, KeyOrder
<1>4. IsFiniteSet(S)
  BY CatalogAssumption, FS_Subset DEF ValidCatalog
<1>5. PICK s : s = Sorted(S, key)
  OBVIOUS
<1>6. /\ s \in Seq(S)
      /\ \A m \in S : \E i \in 1..Len(s) : s[i] = m
      /\ \A i, j \in 1..Len(s) : i < j => Precedes(key[s[i]], key[s[j]])
  BY <1>2, <1>4, <1>5, SortedOrders
<1>7. Len(s) \in Nat /\ Len(s) > 0
  BY <1>6
<1>8. PICK selected : selected = s[1]
  OBVIOUS
<1>9. selected \in S
  BY <1>6, <1>7, <1>8
<1>10. \A m \in S \ {selected} : Precedes(key[selected], key[m])
  <2> SUFFICES ASSUME NEW m \in S, m # selected PROVE Precedes(key[selected], key[m])
    OBVIOUS
  <2>1. PICK i \in 1..Len(s) : s[i] = m
    BY <1>6
  <2>2. 1 \in 1..Len(s) /\ 1 < i
    BY <1>7, <1>8, <2>1
  <2> QED BY <1>6, <1>8, <2>1, <2>2
<1>11. PICK T : T = S \ {selected}
  OBVIOUS
<1>12. PICK fallback : fallback = FallbackKey(T, key, selected)
  OBVIOUS
<1>13. /\ fallback \in [T -> Tuple(N + 1)]
       /\ \A m, n \in T : fallback[m] = fallback[n] => m = n
       /\ \A m, n \in T : Precedes(fallback[m], fallback[n]) =>
            \/ Equivalent(m, selected)
            \/ Precedes(key[m], key[n])
  <2>1. T \in SUBSET S
    BY <1>11
  <2> QED BY <1>2, <1>12, <2>1, FallbackKeys
<1>14. PICK t : t = Sorted(T, fallback)
  OBVIOUS
<1>15. /\ t \in Seq(T)
       /\ \A m \in T : \E i \in 1..Len(t) : t[i] = m
       /\ \A i, j \in 1..Len(t) : i < j => Precedes(fallback[t[i]], fallback[t[j]])
  <2>1. IsFiniteSet(T)
    BY <1>4, <1>11, FS_Subset
  <2> QED BY <1>13, <1>14, <2>1, SortedOrders
<1>16. PICK one : one = <<selected>>
  OBVIOUS
<1>17. one \in Seq(S) /\ Len(one) = 1 /\ one[1] = selected
  BY <1>9, <1>16
<1>18. PICK chain : chain = one \o t
  OBVIOUS
<1>19. chain = Chain(S, c, status)
  BY <1>1, <1>5, <1>8, <1>11, <1>12, <1>14, <1>16, <1>18 DEF Chain, FallbackKey
<1>20. t \in Seq(S) /\ Len(t) \in Nat /\ \A i \in 1..Len(t) : t[i] \in T
  BY <1>11, <1>15
<1>21. /\ chain \in Seq(S) /\ Len(chain) = 1 + Len(t)
       /\ \A i \in 1..(1 + Len(t)) : chain[i] = IF i <= 1 THEN one[i] ELSE t[i - 1]
  <2>1. /\ chain \in Seq(S) /\ Len(chain) = Len(one) + Len(t)
        /\ \A i \in 1..(Len(one) + Len(t)) :
             chain[i] = IF i <= Len(one) THEN one[i] ELSE t[i - Len(one)]
    BY <1>17, <1>18, <1>20, ConcatProperties
  <2> QED BY <1>17, <2>1
<1>22. chain # <<>> /\ DOMAIN chain = 1..(1 + Len(t))
  BY <1>20, <1>21
<1>23. chain[1] = selected /\ \A i \in 1..Len(t) : chain[i + 1] = t[i]
  BY <1>17, <1>20, <1>21
<1>24. \A m \in S : \E i \in DOMAIN chain : chain[i] = m
  <2> SUFFICES ASSUME NEW m \in S PROVE \E i \in DOMAIN chain : chain[i] = m
    OBVIOUS
  <2>1. CASE m = selected
    BY <1>20, <1>22, <1>23, <2>1
  <2>2. CASE m # selected
    <3>1. PICK i \in 1..Len(t) : t[i] = m
      BY <1>11, <1>15, <2>2
    <3>2. i + 1 \in DOMAIN chain
      BY <1>20, <1>22
    <3> QED BY <1>23, <3>1, <3>2
  <2> QED BY <2>1, <2>2
<1>25. ASSUME NEW i \in DOMAIN chain, NEW j \in DOMAIN chain, i < j
       PROVE  /\ chain[i] # chain[j]
              /\ ~ Precedes(ClassAndQuality(chain[j]), ClassAndQuality(chain[i]))
  <2>1. PICK h \in 1..Len(t) : j = h + 1
    <3>1. j - 1 \in 1..Len(t)
      BY <1>20, <1>22, <1>25
    <3> QED BY <1>22, <3>1
  <2>2. PICK n : n = t[h]
    OBVIOUS
  <2>3. chain[j] = n /\ n \in T /\ n \in S /\ n # selected
    BY <1>11, <1>20, <1>23, <2>1, <2>2
  <2>4. Precedes(key[selected], key[n])
    BY <1>10, <2>3
  <2>5. CASE i = 1
    BY <1>3, <1>9, <1>23, <2>3, <2>4, <2>5
  <2>6. CASE i > 1
    <3>1. PICK g \in 1..Len(t) : i = g + 1 /\ g < h
      <4>1. i - 1 \in 1..Len(t) /\ i - 1 < h
        BY <1>20, <1>22, <1>25, <2>1, <2>6
      <4> QED BY <1>22, <4>1
    <3>2. PICK m : m = t[g]
      OBVIOUS
    <3>3. chain[i] = m /\ m \in T /\ m \in S
      BY <1>11, <1>20, <1>23, <3>1, <3>2
    <3>4. Precedes(fallback[m], fallback[n])
      BY <1>15, <2>2, <3>1, <3>2
    <3>5. m # n
      <4>1. fallback[m] \in Tuple(N + 1)
        BY <1>13, <3>3
      <4>2. ~ Precedes(fallback[m], fallback[m])
        BY <4>1, PrecedesIrreflexive
      <4> QED BY <3>4, <4>2
    <3>6. ~ Precedes(ClassAndQuality(n), ClassAndQuality(m))
      <4>1. CASE Equivalent(m, selected)
        <5>1. ClassAndQuality(m) = ClassAndQuality(selected)
          BY <4>1 DEF ClassAndQuality, Equivalent
        <5> QED BY <1>3, <1>9, <2>3, <2>4, <5>1
      <4>2. CASE Precedes(key[m], key[n])
        BY <1>3, <2>3, <3>3, <4>2
      <4> QED BY <1>13, <2>3, <3>3, <3>4, <4>1, <4>2
    <3> QED BY <2>3, <3>3, <3>5, <3>6
  <2>7. i \in Int /\ i >= 1
    BY <1>20, <1>22
  <2> QED BY <2>5, <2>6, <2>7
<1> QED BY <1>19, <1>21, <1>22, <1>24, <1>25

-----------------------------------------------------------------------------
\* The labels, and who may see them.

\* The rank of a label is its place in the order of the labels.
LEMMA Ranks ==
  /\ Labels = {"PUBLIC", "INTERNAL", "PRIVATE", "SENSITIVE", "CRITICAL"}
  /\ SensitivityRank("PUBLIC") = 1 /\ SensitivityRank("INTERNAL") = 2
  /\ SensitivityRank("PRIVATE") = 3 /\ SensitivityRank("SENSITIVE") = 4
  /\ SensitivityRank("CRITICAL") = 5
<1>1. /\ DOMAIN Sensitivities = 1..5
      /\ Sensitivities[1] = "PUBLIC" /\ Sensitivities[2] = "INTERNAL"
      /\ Sensitivities[3] = "PRIVATE" /\ Sensitivities[4] = "SENSITIVE"
      /\ Sensitivities[5] = "CRITICAL"
  BY DEF Sensitivities
<1>2. \A i \in DOMAIN Sensitivities : i = 1 \/ i = 2 \/ i = 3 \/ i = 4 \/ i = 5
  BY <1>1
<1>3. Labels = {"PUBLIC", "INTERNAL", "PRIVATE", "SENSITIVE", "CRITICAL"}
  BY <1>1, <1>2 DEF Labels, ToSet
<1>4. \A i \in DOMAIN Sensitivities : SensitivityRank(Sensitivities[i]) = i
  <2> SUFFICES ASSUME NEW i \in DOMAIN Sensitivities
               PROVE  SensitivityRank(Sensitivities[i]) = i
    OBVIOUS
  <2>1. \A j \in DOMAIN Sensitivities : Sensitivities[j] = Sensitivities[i] => j = i
    BY <1>1, <1>2
  <2> QED BY <2>1 DEF SensitivityRank
<1>5. 1 \in 1..5 /\ 2 \in 1..5 /\ 3 \in 1..5 /\ 4 \in 1..5 /\ 5 \in 1..5
  OBVIOUS
<1> QED BY <1>1, <1>3, <1>4, <1>5

\* effective_sensitivity is one of the labels of a request, and the highest.
LEMMA EffectiveIsHighest ==
  ASSUME NEW c \in Calls
  PROVE  LET labels == {c.sensitivity} \cup c.contexts
         IN  /\ labels \subseteq Labels
             /\ EffectiveSensitivity(c) \in labels
             /\ \A s \in labels : SensitivityRank(s) <= SensitivityRank(EffectiveSensitivity(c))
<1> DEFINE Rank(s) == SensitivityRank(s)
<1>1. PICK L : L = {c.sensitivity} \cup c.contexts
  OBVIOUS
<1>2. L \subseteq Labels /\ L # {}
  BY <1>1, LimitsAssumption DEF ValidRequest
<1>3. \A s \in L : Rank(s) \in 1..5
  BY <1>2, Ranks
<1> HIDE DEF Rank
<1>4. PICK R : R = {5 - Rank(s) : s \in L}
  OBVIOUS
<1>5. R \in SUBSET Nat /\ R # {}
  BY <1>2, <1>3, <1>4
<1>6. PICK n \in R : \A k \in R : n <= k
  BY <1>5, Least
<1>7. PICK t \in L : \A s \in L : 5 - Rank(t) <= 5 - Rank(s)
  BY <1>4, <1>6
<1>8. \A s \in L : Rank(s) <= Rank(t)
  BY <1>3, <1>7
<1>9. EffectiveSensitivity(c) = CHOOSE s \in L : \A u \in L : Rank(u) <= Rank(s)
  BY <1>1 DEF EffectiveSensitivity, Rank
<1>10. /\ EffectiveSensitivity(c) \in L
       /\ \A u \in L : Rank(u) <= Rank(EffectiveSensitivity(c))
  BY <1>7, <1>8, <1>9
<1> QED BY <1>1, <1>2, <1>10 DEF Rank

\* Who may see s: every label within what the provider and the model accept,
\* with the approvals for its level and for the levels below it.
MaySee(m, s) ==
  LET p == Providers[m.provider]
  IN  /\ SensitivityRank(s) <= SensitivityRank(p.max)
      /\ SensitivityRank(s) <= SensitivityRank(m.max)
      /\ SensitivityRank(s) >= SensitivityRank("PRIVATE") => p.private
      /\ SensitivityRank(s) >= SensitivityRank("SENSITIVE") => p.sensitive
      /\ s = "CRITICAL" => p.critical /\ p.local

\* The check of the highest label stands for all of them:
\* SensitivityRoutingPolicy.allows asks only for the approval of its own level,
\* and the validator of ProviderDefinition makes each approval rest on the one
\* below it.
LEMMA HighestStandsForAll ==
  ASSUME NEW m \in Models, NEW c \in Calls, Allows(EffectiveSensitivity(c), m),
         NEW s \in {c.sensitivity} \cup c.contexts
  PROVE  MaySee(m, s)
<1>1. PICK h : h = EffectiveSensitivity(c)
  OBVIOUS
<1>2. h \in Labels /\ s \in Labels /\ SensitivityRank(s) <= SensitivityRank(h)
  BY <1>1, EffectiveIsHighest
<1>3. PICK p : p = Providers[m.provider]
  OBVIOUS
<1>4. p.max \in Labels /\ m.max \in Labels
  BY <1>3, CatalogAssumption DEF ValidCatalog, ValidProvider, ValidModel
<1>5. (p.critical => p.local /\ p.sensitive) /\ (p.sensitive => p.private)
  BY <1>3, CatalogAssumption DEF ValidCatalog, ValidProvider
<1>6. /\ SensitivityRank(h) <= SensitivityRank(p.max)
      /\ SensitivityRank(h) <= SensitivityRank(m.max)
      /\ h = "PRIVATE" => p.private
      /\ h = "SENSITIVE" => p.sensitive
      /\ h = "CRITICAL" => p.local /\ p.critical
  BY <1>1, <1>3 DEF Allows
<1>7. PICK a, b, d, e : /\ a = SensitivityRank(s) /\ b = SensitivityRank(h)
                        /\ d = SensitivityRank(p.max) /\ e = SensitivityRank(m.max)
  OBVIOUS
<1>8. a \in 1..5 /\ b \in 1..5 /\ d \in 1..5 /\ e \in 1..5
  BY <1>2, <1>4, <1>7, Ranks
<1>9. a <= d /\ a <= e
  BY <1>2, <1>6, <1>7, <1>8
<1>10. /\ a >= 3 => h \in {"PRIVATE", "SENSITIVE", "CRITICAL"}
       /\ a >= 4 => h \in {"SENSITIVE", "CRITICAL"}
       /\ s = "CRITICAL" => h = "CRITICAL"
  BY <1>2, <1>7, <1>8, Ranks
<1>11. /\ a >= 3 => p.private
       /\ a >= 4 => p.sensitive
       /\ s = "CRITICAL" => p.critical /\ p.local
  BY <1>5, <1>6, <1>10
<1> QED BY <1>3, <1>7, <1>9, <1>11, Ranks DEF MaySee

-----------------------------------------------------------------------------
\* The decision.

\* What is left after every filter passed each of them, and what is left after
\* fewer holds it.
LEMMA LeftMeans ==
  ASSUME NEW c, NEW status
  PROVE  /\ Left(6, c, status) =
              {m \in Models : /\ Available(m, status) /\ MeetsClass(m, c)
                              /\ EffectiveCapabilities(c) \subseteq m.capabilities
                              /\ Allows(EffectiveSensitivity(c), m)
                              /\ FitsOutput(m, c) /\ FitsContext(m, c)}
         /\ \A n \in 1..6 : Left(6, c, status) \subseteq Left(n, c, status)
<1>1. \A m : /\ Filters(m, c, status)[1] = Available(m, status)
             /\ Filters(m, c, status)[2] = MeetsClass(m, c)
             /\ Filters(m, c, status)[3] = (EffectiveCapabilities(c) \subseteq m.capabilities)
             /\ Filters(m, c, status)[4] = Allows(EffectiveSensitivity(c), m)
             /\ Filters(m, c, status)[5] = FitsOutput(m, c)
             /\ Filters(m, c, status)[6] = FitsContext(m, c)
  BY DEF Filters
<1>2. \A i \in 1..6 : i = 1 \/ i = 2 \/ i = 3 \/ i = 4 \/ i = 5 \/ i = 6
  OBVIOUS
<1>3. 1 \in 1..6 /\ 2 \in 1..6 /\ 3 \in 1..6 /\ 4 \in 1..6 /\ 5 \in 1..6 /\ 6 \in 1..6
  OBVIOUS
<1>4. \A m : (\A i \in 1..6 : Filters(m, c, status)[i]) <=>
               /\ Available(m, status) /\ MeetsClass(m, c)
               /\ EffectiveCapabilities(c) \subseteq m.capabilities
               /\ Allows(EffectiveSensitivity(c), m)
               /\ FitsOutput(m, c) /\ FitsContext(m, c)
  BY <1>1, <1>2, <1>3
<1>5. \A n \in 1..6 : \A i \in 1..n : i \in 1..6
  OBVIOUS
<1> QED BY <1>4, <1>5 DEF Left

\* What SoundDecision says of a decision d on the request c and the snapshot
\* status.
GoodDecision(d, c, status) ==
  /\ d.outcome \in {"SELECTED", "DENIED"}
  /\ (d.outcome = "DENIED") <=> (d.chain = <<>>)
  /\ d.reasons # {}
  /\ d.chain \in Seq(Left(6, c, status))
  /\ \A i, j \in DOMAIN d.chain : i < j =>
       /\ d.chain[i] # d.chain[j]
       /\ ~ Precedes(ClassAndQuality(d.chain[j]), ClassAndQuality(d.chain[i]))
  /\ d.outcome = "DENIED" =>
       "HARD_BUDGET_EXCEEDED" \in d.reasons \/ Left(6, c, status) = {}

\* A denial has no chain, and is for the budget or leaves no model.
LEMMA DeniedIsGood ==
  ASSUME NEW c, NEW status, NEW reason,
         reason = "HARD_BUDGET_EXCEEDED" \/ Left(6, c, status) = {}
  PROVE  GoodDecision(Denied(reason, c), c, status)
<1>1. PICK d : d = Denied(reason, c)
  OBVIOUS
<1>2. d.outcome = "DENIED" /\ d.reasons = {reason} /\ d.chain = <<>>
  BY <1>1 DEF Denied
<1>3. <<>> \in Seq(Left(6, c, status))
  OBVIOUS
<1>4. DOMAIN <<>> = {}
  OBVIOUS
<1>5. d.outcome \in {"SELECTED", "DENIED"}
  BY <1>2
<1>6. d.reasons # {} /\ d.chain \in Seq(Left(6, c, status)) /\ DOMAIN d.chain = {}
  BY <1>2, <1>3, <1>4
<1>7. d.outcome = "DENIED" =>
        "HARD_BUDGET_EXCEEDED" \in d.reasons \/ Left(6, c, status) = {}
  BY <1>2
<1> QED BY <1>1, <1>2, <1>5, <1>6, <1>7 DEF GoodDecision

\* AIRoutingPolicy.decide: a chain of models that passed every filter, or a
\* denial that is for the budget or leaves no model.
LEMMA DecideIsGood ==
  ASSUME NEW c \in Calls, NEW status, NEW spent
  PROVE  GoodDecision(Decide(c, status, spent), c, status)
<1>1. PICK emptied, first, S :
        /\ emptied = {n \in 1..Len(DenialReasons(c)) : Left(n, c, status) = {}}
        /\ first = CHOOSE n \in emptied : \A k \in emptied : n <= k
        /\ S = Left(Len(DenialReasons(c)), c, status)
  OBVIOUS
<1>2. Len(DenialReasons(c)) = 6
  BY DEF DenialReasons
<1>3. S = Left(6, c, status) /\ S \in SUBSET Models
  BY <1>1, <1>2 DEF Left
<1>4. PICK chain : chain = Chain(S, c, status)
  OBVIOUS
<1>5. PICK estimate : estimate = Estimate(Head(chain), c.input, c.requested_output)
  OBVIOUS
<1>6. PICK selection :
        selection = [outcome |-> "SELECTED", reasons |-> Reasons(c, chain, estimate, spent),
                     chain |-> chain, estimate |-> estimate,
                     sensitivity |-> EffectiveSensitivity(c)]
  OBVIOUS
<1>7. Decide(c, status, spent) =
        IF emptied # {} THEN Denied(DenialReasons(c)[first], c)
        ELSE IF Exceeds("hard", estimate, spent) THEN Denied("HARD_BUDGET_EXCEEDED", c)
        ELSE selection
  BY <1>1, <1>4, <1>5, <1>6 DEF Decide
<1>8. CASE emptied # {}
  <2>1. PICK n \in 1..6 : Left(n, c, status) = {}
    BY <1>1, <1>2, <1>8
  <2>2. Left(6, c, status) = {}
    BY <2>1, LeftMeans
  <2> QED BY <1>7, <1>8, <2>2, DeniedIsGood
<1>9. CASE emptied = {} /\ Exceeds("hard", estimate, spent)
  BY <1>7, <1>9, DeniedIsGood
<1>10. CASE emptied = {} /\ ~ Exceeds("hard", estimate, spent)
  <2>1. Decide(c, status, spent) = selection
    BY <1>7, <1>10
  <2>2. S # {}
    <3>1. 6 \in 1..6
      OBVIOUS
    <3>2. 6 \notin emptied
      BY <1>10
    <3> QED BY <1>1, <1>2, <1>3, <3>1, <3>2
  <2>3. /\ chain \in Seq(S) /\ chain # <<>>
        /\ \A i, j \in DOMAIN chain : i < j =>
             /\ chain[i] # chain[j]
             /\ ~ Precedes(ClassAndQuality(chain[j]), ClassAndQuality(chain[i]))
    BY <1>3, <1>4, <2>2, ChainOrders
  <2>4. Reasons(c, chain, estimate, spent) # {}
    BY DEF Reasons
  <2>5. /\ selection.outcome = "SELECTED" /\ selection.chain = chain
        /\ selection.reasons # {}
    BY <1>6, <2>4
  <2> QED BY <1>3, <2>1, <2>3, <2>5 DEF GoodDecision
<1> QED BY <1>8, <1>9, <1>10

-----------------------------------------------------------------------------
\* The initial state and the steps.

\* The state in which nothing was decided.
LEMMA Undecided ==
  ASSUME RouterInv, phase = "idle"
  PROVE  decision = None /\ placed = <<>> /\ rows = <<>>
BY DEF RouterInv, SoundPhase

\* The initial state satisfies the invariant.
LEMMA RouterInitInv ==
  ASSUME RouterInit
  PROVE  RouterInv
<1>1. <<>> \in Seq(UsageRecord) /\ <<>> \in Seq(Models \X Calls) /\ DOMAIN <<>> = {}
  OBVIOUS
<1>2. /\ phase = "idle" /\ call = None /\ health = None /\ decision = None
      /\ audited = FALSE /\ rows = <<>> /\ placed = <<>>
  BY DEF RouterInit
<1>3. SoundCalls
  BY <1>1, <1>2 DEF SoundCalls
<1>4. SoundPhase
  BY <1>2 DEF SoundPhase, Ended
<1>5. ~ Decided
  BY <1>2 DEF Decided
<1> QED BY <1>1, <1>2, <1>3, <1>4, <1>5 DEF RouterInv

\* invoke refuses a request before it records anything.
LEMMA RefuseInv ==
  ASSUME RouterInv, Refuse
  PROVE  RouterInv'
<1>1. decision = None /\ placed = <<>> /\ rows = <<>>
  BY Undecided DEF Refuse
<1>2. /\ call' \in Calls /\ phase' = "REFUSED" /\ health' = health
      /\ decision' = decision /\ audited' = audited /\ rows' = rows /\ placed' = placed
  BY DEF Refuse
<1>3. /\ health \in Healths \cup {None} /\ audited \in BOOLEAN
      /\ rows \in Seq(UsageRecord) /\ placed \in Seq(Models \X Calls)
      /\ SoundCalls
  BY DEF RouterInv
<1>4. UsageRecord' = UsageRecord
  BY DEF UsageRecord
<1>5. SoundCalls'
  BY <1>2, <1>3 DEF SoundCalls
<1>6. SoundPhase'
  BY <1>1, <1>2 DEF SoundPhase, Ended
<1>7. ~ Decided'
  BY <1>1, <1>2 DEF Decided
<1> QED BY <1>2, <1>3, <1>4, <1>5, <1>6, <1>7 DEF RouterInv

\* route records the decision and goes on to the first model, or ends.
LEMMA RouteInv ==
  ASSUME RouterInv, Route
  PROVE  RouterInv'
<1>1. decision = None /\ placed = <<>> /\ rows = <<>>
  BY Undecided DEF Route
<1>2. PICK c \in Calls, status \in Healths, spent \in Spendings :
        WithinRequest(c) /\ call' = c /\ health' = status /\ decision' = Decide(c, status, spent)
  BY DEF Route
<1>3. /\ audited' = Audited(decision')
      /\ phase' = IF decision'.outcome = "DENIED" THEN "DENIED" ELSE "calling"
      /\ rows' = <<>> /\ placed' = <<>>
  BY <1>1 DEF Route
<1>4. PICK d : d = decision'
  OBVIOUS
<1>5. GoodDecision(d, c, status)
  BY <1>2, <1>4, DecideIsGood
<1>6. SoundDecision'
  <2>1. Eligible' = Left(6, c, status)
    BY <1>2 DEF Eligible
  <2>2. call' \in Calls /\ WithinRequest(call')
    BY <1>2
  <2> QED BY <1>4, <1>5, <2>1, <2>2 DEF SoundDecision, GoodDecision
<1>7. <<>> \in Seq(UsageRecord) /\ <<>> \in Seq(Models \X Calls) /\ DOMAIN <<>> = {}
      /\ Len(<<>>) = 0
  OBVIOUS
<1>8. Attempts' \in Nat /\ (d.outcome = "SELECTED" => 0 < Attempts')
  <2>1. d.chain \in Seq(Left(6, c, status))
    BY <1>5 DEF GoodDecision
  <2>2. Len(d.chain) \in Nat /\ (d.chain # <<>> => Len(d.chain) > 0)
    BY <2>1
  <2>3. d.outcome = "SELECTED" => d.chain # <<>>
    BY <1>5 DEF GoodDecision
  <2>4. Attempts' = IF Len(d.chain) < MaxAttempts THEN Len(d.chain) ELSE MaxAttempts
    BY <1>4 DEF Attempts
  <2> QED BY <2>2, <2>3, <2>4, LimitsAssumption
<1>9. SoundRows'
  BY <1>3, <1>7, <1>8 DEF SoundRows
<1>10. SoundPhase'
  <2>1. d.outcome \in {"SELECTED", "DENIED"}
    BY <1>5 DEF GoodDecision
  <2>2. CASE d.outcome = "DENIED"
    BY <1>3, <1>4, <2>2 DEF SoundPhase, Ended
  <2>3. CASE d.outcome = "SELECTED"
    <3>1. Len(rows') < Attempts'
      BY <1>3, <1>7, <1>8, <2>3
    <3> QED BY <1>3, <1>4, <2>3, <3>1 DEF SoundPhase
  <2> QED BY <2>1, <2>2, <2>3
<1>11. SoundCalls'
  BY <1>3, <1>7 DEF SoundCalls
<1>12. audited' \in BOOLEAN
  BY <1>3 DEF Audited
<1> QED BY <1>2, <1>3, <1>6, <1>7, <1>9, <1>10, <1>11, <1>12 DEF RouterInv, UsageRecord

\* The bound on the attempts, and the model whose turn it is.
LEMMA TurnIsEligible ==
  ASSUME RouterInv, phase = "calling"
  PROVE  /\ SoundDecision /\ SoundRows
         /\ Attempts \in Nat /\ Attempts <= Len(decision.chain) /\ Attempts <= MaxAttempts
         /\ Len(rows) \in Nat /\ Len(rows) + 1 <= Attempts
         /\ Current \in Models /\ Allows(EffectiveSensitivity(call), Current)
         /\ call \in Calls
<1>1. SoundDecision /\ SoundRows
  BY DEF RouterInv, Decided
<1>2. decision.chain \in Seq(Eligible) /\ call \in Calls
  BY <1>1 DEF SoundDecision
<1>3. Len(decision.chain) \in Nat
  BY <1>2
<1>4. Attempts \in Nat /\ Attempts <= Len(decision.chain) /\ Attempts <= MaxAttempts
  BY <1>3, LimitsAssumption DEF Attempts
<1>5. Len(rows) \in Nat /\ Len(rows) < Attempts
  BY DEF RouterInv, SoundPhase
<1>6. Len(rows) + 1 \in 1..Len(decision.chain)
  BY <1>3, <1>4, <1>5
<1>7. Current \in Eligible
  BY <1>2, <1>6 DEF Current
<1>8. Current \in Models /\ Allows(EffectiveSensitivity(call), Current)
  BY <1>7, LeftMeans DEF Eligible
<1> QED BY <1>1, <1>2, <1>4, <1>5, <1>8

\* One more call of a model that may see the request.
LEMMA CallIsSound ==
  ASSUME RouterInv, NEW m \in Models, NEW c \in Calls, Allows(EffectiveSensitivity(c), m),
         placed' \in {placed, Append(placed, <<m, c>>)}
  PROVE  placed' \in Seq(Models \X Calls) /\ SoundCalls'
<1>1. placed \in Seq(Models \X Calls) /\ SoundCalls
  BY DEF RouterInv
<1>2. CASE placed' = placed
  BY <1>1, <1>2 DEF SoundCalls
<1>3. CASE placed' = Append(placed, <<m, c>>)
  <2>1. <<m, c>> \in Models \X Calls
    OBVIOUS
  <2>2. PICK e : e = <<m, c>>
    OBVIOUS
  <2>3. /\ placed' \in Seq(Models \X Calls)
        /\ Len(placed') = Len(placed) + 1 /\ Len(placed) \in Nat
        /\ DOMAIN placed' = 1..(Len(placed) + 1) /\ DOMAIN placed = 1..Len(placed)
        /\ placed'[Len(placed) + 1] = e
        /\ \A i \in 1..Len(placed) : placed'[i] = placed[i]
    BY <1>1, <1>3, <2>1, <2>2
  <2>4. e[1] = m /\ e[2] = c
    BY <2>2
  <2>5. ASSUME NEW i \in DOMAIN placed'
        PROVE  Allows(EffectiveSensitivity(placed'[i][2]), placed'[i][1])
    <3>1. CASE i \in DOMAIN placed
      BY <1>1, <2>3, <3>1 DEF SoundCalls
    <3>2. CASE i = Len(placed) + 1
      BY <2>3, <2>4, <3>2
    <3> QED BY <2>3, <3>1, <3>2
  <2> QED BY <2>3, <2>5 DEF SoundCalls
<1> QED BY <1>2, <1>3

\* generate of the adapter and the attempt that is recorded: the next row.
LEMMA AttemptInv ==
  ASSUME RouterInv, Attempt
  PROVE  RouterInv'
<1>1. phase = "calling"
  BY DEF Attempt
<1>2. /\ SoundDecision /\ SoundRows
      /\ Attempts \in Nat /\ Attempts <= Len(decision.chain) /\ Attempts <= MaxAttempts
      /\ Len(rows) \in Nat /\ Len(rows) + 1 <= Attempts
      /\ Current \in Models /\ Allows(EffectiveSensitivity(call), Current)
      /\ call \in Calls
  BY <1>1, TurnIsEligible
<1>3. PICK reply \in Replies(Current) :
        /\ placed' = IF Current.provider \in Adapters
                     THEN Append(placed, <<Current, call>>) ELSE placed
        /\ rows' = Append(rows, UsageRow(Current, reply))
        /\ phase' = IF GoesOn(Outcome(reply)) THEN "calling"
                    ELSE IF Outcome(reply) = "SUCCESS" THEN "ANSWERED" ELSE "FAILED"
  BY DEF Attempt
<1>4. /\ call' = call /\ health' = health /\ decision' = decision /\ audited' = audited
  BY DEF Attempt
<1>5. PICK o, k, r : o = Outcome(reply) /\ k = Len(rows) + 1 /\ r = UsageRow(Current, reply)
  OBVIOUS
<1>6. o \in FailureCategories \cup {"SUCCESS"}
  <2>1. reply.category \in FailureCategories \cup {"SUCCESS"}
    BY DEF Replies, Reply, FailureCategories, Retryable
  <2> QED BY <1>5, <2>1 DEF Outcome, FailureCategories
<1>7. r = [attempt |-> k, model |-> Current, outcome |-> o]
  BY <1>5 DEF UsageRow
<1>8. k \in Nat /\ r \in UsageRecord /\ r.attempt = k /\ r.model = Current /\ r.outcome = o
  <2>1. k \in Nat
    BY <1>2, <1>5
  <2>2. PICK m : m = Current
    OBVIOUS
  <2>3. m \in Models
    BY <1>2, <2>2
  <2>4. r = [attempt |-> k, model |-> m, outcome |-> o]
    BY <1>7, <2>2
  <2> QED BY <1>6, <2>1, <2>2, <2>3, <2>4 DEF UsageRecord
<1>9. rows \in Seq(UsageRecord)
  BY DEF RouterInv
<1>10. /\ rows' \in Seq(UsageRecord) /\ Len(rows') = k /\ rows' # <<>>
       /\ DOMAIN rows' = 1..k /\ DOMAIN rows = 1..(k - 1)
       /\ rows'[k] = r
       /\ \A i \in 1..(k - 1) : rows'[i] = rows[i]
  <2>1. rows' = Append(rows, r)
    BY <1>3, <1>5
  <2> QED BY <1>2, <1>5, <1>8, <1>9, <2>1
<1>11. Attempts' = Attempts /\ SoundDecision'
  <2>1. Eligible' = Eligible
    BY <1>4 DEF Eligible
  <2>2. Attempts' = Attempts
    BY <1>4 DEF Attempts
  <2> QED BY <1>2, <1>4, <2>1, <2>2 DEF SoundDecision
<1>12. k > 1 => rows[k - 1].outcome \in Retryable
  <2>1. rows # <<>> => Last(rows).outcome \in Retryable
    BY <1>1 DEF RouterInv, SoundPhase
  <2>2. Last(rows) = rows[k - 1]
    BY <1>2, <1>5 DEF Last
  <2>3. k > 1 => rows # <<>>
    BY <1>2, <1>5, <1>9
  <2> QED BY <2>1, <2>2, <2>3
<1>13. SoundRows'
  <2>1. Len(rows') <= Attempts'
    BY <1>2, <1>5, <1>10, <1>11
  <2>2. ASSUME NEW i \in DOMAIN rows'
        PROVE  /\ rows'[i].attempt = i /\ rows'[i].model = decision'.chain[i]
               /\ i < Len(rows') => rows'[i].outcome \in Retryable
    <3>1. CASE i = k
      BY <1>4, <1>5, <1>8, <1>10, <3>1 DEF Current
    <3>2. CASE i \in 1..(k - 1)
      <4>1. rows'[i] = rows[i] /\ i \in DOMAIN rows /\ Len(rows) = k - 1
        BY <1>2, <1>5, <1>10, <3>2
      <4>2. /\ rows[i].attempt = i /\ rows[i].model = decision.chain[i]
            /\ i < Len(rows) => rows[i].outcome \in Retryable
        BY <1>2, <4>1 DEF SoundRows
      <4>3. rows[i].outcome \in Retryable
        <5>1. CASE i = k - 1
          BY <1>8, <1>12, <3>2, <5>1
        <5>2. CASE i < k - 1
          BY <4>1, <4>2, <5>2
        <5> QED BY <1>8, <3>2, <5>1, <5>2
      <4> QED BY <1>4, <4>1, <4>2, <4>3
    <3> QED BY <1>8, <1>10, <3>1, <3>2
  <2> QED BY <2>1, <2>2 DEF SoundRows
<1>14. SoundPhase'
  <2>1. Last(rows').outcome = o
    BY <1>8, <1>10 DEF Last
  <2>2. GoesOn(o) <=> o \in Retryable /\ k < Attempts
    BY <1>5 DEF GoesOn
  <2>3. phase' = IF GoesOn(o) THEN "calling" ELSE IF o = "SUCCESS" THEN "ANSWERED" ELSE "FAILED"
    BY <1>3, <1>5
  <2>4. decision'.outcome = "SELECTED"
    BY <1>1, <1>4 DEF RouterInv, SoundPhase
  <2>5. "SUCCESS" \notin Retryable
    BY DEF Retryable
  <2>6. k <= Attempts
    BY <1>2, <1>5
  <2>7. CASE GoesOn(o)
    BY <1>10, <1>11, <2>1, <2>2, <2>3, <2>4, <2>7 DEF SoundPhase
  <2>8. CASE o = "SUCCESS"
    BY <1>10, <2>1, <2>2, <2>3, <2>5, <2>8 DEF SoundPhase, Ended
  <2>9. CASE ~ GoesOn(o) /\ o # "SUCCESS"
    <3>1. phase' = "FAILED"
      BY <2>3, <2>9
    <3>2. o \in Retryable => k = Attempts
      BY <1>2, <1>8, <2>2, <2>6, <2>9
    <3> QED BY <1>10, <1>11, <2>1, <2>9, <3>1, <3>2 DEF SoundPhase, Ended
  <2> QED BY <2>7, <2>8, <2>9
<1>15. placed' \in Seq(Models \X Calls) /\ SoundCalls'
  <2>1. placed' \in {placed, Append(placed, <<Current, call>>)}
    BY <1>3
  <2> QED BY <1>2, <2>1, CallIsSound
<1> QED BY <1>4, <1>10, <1>11, <1>13, <1>14, <1>15 DEF RouterInv, UsageRecord

\* A request that ends while a provider is asked leaves the call it made.
LEMMA AbandonInv ==
  ASSUME RouterInv, Abandon
  PROVE  RouterInv'
<1>1. phase = "calling"
  BY DEF Abandon
<1>2. /\ phase' = "ABANDONED" /\ decision' = None /\ rows' = <<>>
      /\ call' = call /\ health' = health /\ audited' = audited
  BY DEF Abandon
<1>3. placed' \in Seq(Models \X Calls) /\ SoundCalls'
  <2>1. placed' \in {placed, Append(placed, <<Current, call>>)}
    BY DEF Abandon
  <2>2. Current \in Models /\ Allows(EffectiveSensitivity(call), Current) /\ call \in Calls
    BY <1>1, TurnIsEligible
  <2> QED BY <2>1, <2>2, CallIsSound
<1>4. SoundPhase'
  BY <1>2 DEF SoundPhase, Ended
<1>5. ~ Decided'
  BY <1>2 DEF Decided
<1>6. <<>> \in Seq(UsageRecord)
  OBVIOUS
<1> QED BY <1>2, <1>3, <1>4, <1>5, <1>6 DEF RouterInv, UsageRecord

\* CandidateEvaluator asks one named model, and only what it may see.
LEMMA EvaluateInv ==
  ASSUME RouterInv, Evaluate
  PROVE  RouterInv'
<1>1. decision = None /\ placed = <<>> /\ rows = <<>>
  BY Undecided DEF Evaluate
<1>2. /\ health' = health /\ decision' = decision /\ audited' = audited /\ rows' = rows
  BY DEF Evaluate
<1>3. PICK c \in Calls, m \in Models, baseline \in BOOLEAN :
        /\ call' = c
        /\ IF MayEvaluate(m, c, baseline) /\ m.provider \in Adapters
           THEN placed' = Append(placed, <<m, c>>) /\ phase' \in {"EVALUATED", "FAILED"}
           ELSE /\ phase' = IF MayEvaluate(m, c, baseline) THEN "FAILED" ELSE "REFUSED"
                /\ UNCHANGED placed
  BY DEF Evaluate
<1>4. phase' \in {"EVALUATED", "FAILED", "REFUSED"}
  BY <1>3
<1>5. placed' \in Seq(Models \X Calls) /\ SoundCalls'
  <2>1. CASE MayEvaluate(m, c, baseline) /\ m.provider \in Adapters
    <3>1. Allows(EffectiveSensitivity(c), m)
      BY <2>1 DEF MayEvaluate
    <3> QED BY <1>3, <2>1, <3>1, CallIsSound
  <2>2. CASE ~ (MayEvaluate(m, c, baseline) /\ m.provider \in Adapters)
    <3>1. placed' = placed
      BY <1>3, <2>2
    <3> QED BY <3>1 DEF RouterInv, SoundCalls
  <2> QED BY <2>1, <2>2
<1>6. SoundPhase'
  BY <1>1, <1>2, <1>4 DEF SoundPhase, Ended
<1>7. ~ Decided'
  BY <1>1, <1>2, <1>4 DEF Decided
<1>8. /\ health \in Healths \cup {None} /\ audited \in BOOLEAN /\ rows \in Seq(UsageRecord)
  BY DEF RouterInv
<1> QED BY <1>2, <1>3, <1>5, <1>6, <1>7, <1>8 DEF RouterInv, UsageRecord

\* Every step keeps the invariant.
LEMMA RouterNextInv ==
  ASSUME RouterInv, [RouterNext]_routerVars
  PROVE  RouterInv'
<1>1. CASE UNCHANGED routerVars
  <2>1. /\ phase' = phase /\ call' = call /\ health' = health /\ decision' = decision
        /\ audited' = audited /\ rows' = rows /\ placed' = placed
    BY <1>1 DEF routerVars
  <2>2. SoundCalls' <=> SoundCalls
    BY <2>1 DEF SoundCalls
  <2>3. SoundPhase' <=> SoundPhase
    BY <2>1 DEF SoundPhase, Attempts
  <2>4. Decided' <=> Decided
    BY <2>1 DEF Decided
  <2>5. SoundDecision' <=> SoundDecision
    BY <2>1 DEF SoundDecision, Eligible
  <2>6. SoundRows' <=> SoundRows
    BY <2>1 DEF SoundRows, Attempts
  <2> QED BY <2>1, <2>2, <2>3, <2>4, <2>5, <2>6 DEF RouterInv, UsageRecord
<1> QED BY <1>1, RefuseInv, RouteInv, AttemptInv, AbandonInv, EvaluateInv DEF RouterNext

-----------------------------------------------------------------------------
\* What the invariant says of the attempts.

\* An attempt was made with the model of its place in the chain, one that
\* passed every filter.
LEMMA RowsFollowTheChain ==
  ASSUME RouterInv, NEW i \in DOMAIN rows
  PROVE  /\ SoundDecision /\ SoundRows
         /\ i \in DOMAIN decision.chain /\ i \in 1..MaxAttempts
         /\ rows[i].model = decision.chain[i] /\ rows[i].model \in Eligible
         /\ rows[i].attempt = i
         /\ rows[i].outcome \in FailureCategories \cup {"SUCCESS"}
         /\ i < Len(rows) => rows[i].outcome \in Retryable
<1>1. rows \in Seq(UsageRecord)
  BY DEF RouterInv
<1>2. rows # <<>>
  BY <1>1
<1>3. SoundDecision /\ SoundRows
  BY <1>2 DEF RouterInv, Decided
<1>4. decision.chain \in Seq(Eligible)
  BY <1>3 DEF SoundDecision
<1>5. /\ Len(rows) <= Attempts /\ rows[i].attempt = i /\ rows[i].model = decision.chain[i]
      /\ i < Len(rows) => rows[i].outcome \in Retryable
  BY <1>3 DEF SoundRows
<1>6. Len(decision.chain) \in Nat
  BY <1>4
<1>7. Attempts \in Nat /\ Attempts <= Len(decision.chain) /\ Attempts <= MaxAttempts
  BY <1>6, LimitsAssumption DEF Attempts
<1>8. i \in 1..Len(rows) /\ Len(rows) \in Nat
  BY <1>1
<1>9. MaxAttempts \in Nat
  BY LimitsAssumption
<1>10. i \in 1..Len(decision.chain) /\ i \in 1..MaxAttempts
  BY <1>5, <1>6, <1>7, <1>8, <1>9
<1>11. DOMAIN decision.chain = 1..Len(decision.chain)
  BY <1>4
<1>12. decision.chain[i] \in Eligible
  BY <1>4, <1>10
<1>13. rows[i].outcome \in FailureCategories \cup {"SUCCESS"}
  <2>1. rows[i] \in UsageRecord
    BY <1>1, <1>8
  <2> QED BY <2>1 DEF UsageRecord
<1> QED BY <1>3, <1>5, <1>10, <1>11, <1>12, <1>13

\* A model that passed every filter of decide.
LEMMA EligibleMeans ==
  ASSUME NEW m \in Eligible
  PROVE  /\ m \in Models /\ Available(m, health) /\ MeetsClass(m, call)
         /\ EffectiveCapabilities(call) \subseteq m.capabilities
         /\ Allows(EffectiveSensitivity(call), m)
         /\ FitsOutput(m, call) /\ FitsContext(m, call)
BY LeftMeans DEF Eligible

\* A text request is served by a class and a quality of its complexity.
LEMMA TextFloor ==
  ASSUME NEW m \in Models, NEW c, TargetClass(c) \in General, MeetsClass(m, c)
  PROVE  ModelRank(m.class) >= QualityFloor(c) /\ m.quality >= QualityFloor(c)
<1>1. TargetClass(c) \notin {"REALTIME", "EMBEDDING", "LOCAL"}
  BY DEF General
<1>2. ModelRank(m.class) >= ModelRank(TargetClass(c)) /\ m.quality >= QualityFloor(c)
  BY <1>1 DEF MeetsClass
<1>3. ModelRank(TargetClass(c)) = QualityFloor(c)
  <2>1. ~ c.embedding /\ ~ c.realtime /\ ~ c.local_only
    BY <1>1 DEF TargetClass
  <2>2. CASE c.complexity \in {"TRIVIAL", "LOW"}
    BY <2>1, <2>2 DEF TargetClass, QualityFloor, ModelRank
  <2>3. CASE c.complexity = "MEDIUM"
    BY <2>1, <2>3 DEF TargetClass, QualityFloor, ModelRank
  <2>4. CASE c.complexity \notin {"TRIVIAL", "LOW", "MEDIUM"}
    BY <2>1, <2>4 DEF TargetClass, QualityFloor, ModelRank
  <2> QED BY <2>2, <2>3, <2>4
<1> QED BY <1>2, <1>3

\* The shape of the state.
LEMMA IndInvTypeOK ==
  ASSUME RouterInv
  PROVE  RouterTypeOK
<1>1. /\ phase \in {"idle", "calling"} \cup Ended
      /\ call \in Calls \cup {None} /\ health \in Healths \cup {None} /\ audited \in BOOLEAN
      /\ rows \in Seq(UsageRecord) /\ placed \in Seq(Models \X Calls)
  BY DEF RouterInv, SoundPhase
<1>2. decision # None => SoundDecision
  BY DEF RouterInv, Decided
<1>3. decision # None =>
        /\ decision.outcome \in {"SELECTED", "DENIED"}
        /\ (decision.outcome = "DENIED") <=> (decision.chain = <<>>)
        /\ decision.reasons # {}
  BY <1>2 DEF SoundDecision
<1>4. \A i \in DOMAIN rows :
        /\ rows[i].attempt \in 1..MaxAttempts
        /\ rows[i].model \in Models
        /\ rows[i].outcome \in FailureCategories \cup {"SUCCESS"}
  BY RowsFollowTheChain, EligibleMeans
<1>5. \A i \in DOMAIN placed : placed[i] \in Models \X Calls
  BY <1>1
<1> QED BY <1>1, <1>3, <1>4, <1>5 DEF RouterTypeOK

\* What a provider is asked it may see.
LEMMA IndInvNothingLeaks ==
  ASSUME RouterInv
  PROVE  NothingLeaks
<1>1. placed \in Seq(Models \X Calls) /\ SoundCalls
  BY DEF RouterInv
<1>2. ASSUME NEW i \in DOMAIN placed,
             NEW s \in {placed[i][2].sensitivity} \cup placed[i][2].contexts
      PROVE  MaySee(placed[i][1], s)
  <2>1. PICK m \in Models, c \in Calls : placed[i] = <<m, c>>
    BY <1>1
  <2>2. placed[i][1] = m /\ placed[i][2] = c
    BY <2>1
  <2>3. Allows(EffectiveSensitivity(c), m)
    BY <1>1, <2>2 DEF SoundCalls
  <2>4. s \in {c.sensitivity} \cup c.contexts
    BY <1>2, <2>2
  <2> QED BY <2>1, <2>2, <2>3, <2>4, HighestStandsForAll
<1>3. ASSUME NEW i \in DOMAIN rows, call.local_only
      PROVE  Providers[rows[i].model.provider].local
  <2>1. MeetsClass(rows[i].model, call)
    BY RowsFollowTheChain, EligibleMeans
  <2> QED BY <1>3, <2>1 DEF MeetsClass
<1> QED BY <1>2, <1>3 DEF NothingLeaks, MaySee

\* What decide lets through _evaluate lets through, and what _evaluate lets
\* through decide stops only for the class or the health of the provider.
LEMMA IndInvGatesAgree ==
  ASSUME RouterInv
  PROVE  GatesAgree
<1>1. ASSUME decision # None, NEW m \in ToSet(decision.chain)
      PROVE  MayEvaluate(m, call, TRUE)
  <2>1. SoundDecision
    BY <1>1 DEF RouterInv, Decided
  <2>2. decision.chain \in Seq(Eligible) /\ WithinRequest(call)
    BY <2>1 DEF SoundDecision
  <2>3. m \in Eligible
    BY <1>1, <2>2 DEF ToSet
  <2>4. /\ Available(m, health)
        /\ EffectiveCapabilities(call) \subseteq m.capabilities
        /\ Allows(EffectiveSensitivity(call), m)
        /\ FitsOutput(m, call) /\ FitsContext(m, call)
    BY <2>3, EligibleMeans
  <2> QED BY <2>2, <2>4 DEF MayEvaluate, Available, FitsOutput, FitsContext
<1>2. ASSUME phase = "DENIED", "HARD_BUDGET_EXCEEDED" \notin decision.reasons,
             NEW m \in Models, MayEvaluate(m, call, TRUE), MeetsClass(m, call)
      PROVE  health[m.provider] \in {"UNAVAILABLE", "DISABLED"}
  <2>1. SoundDecision /\ decision.outcome = "DENIED"
    BY <1>2 DEF RouterInv, Decided, SoundPhase
  <2>2. Eligible = {}
    BY <1>2, <2>1 DEF SoundDecision
  <2>3. /\ EffectiveCapabilities(call) \subseteq m.capabilities
        /\ Allows(EffectiveSensitivity(call), m)
        /\ FitsOutput(m, call) /\ FitsContext(m, call)
    BY <1>2 DEF MayEvaluate, FitsOutput, FitsContext
  <2>4. ~ Available(m, health)
    BY <1>2, <2>2, <2>3, LeftMeans DEF Eligible
  <2> QED BY <1>2, <2>4 DEF Available, MayEvaluate
<1> QED BY <1>1, <1>2 DEF GatesAgree

\* No attempt is a step down.
LEMMA IndInvNeverDegrades ==
  ASSUME RouterInv
  PROVE  NeverDegrades
<1>1. ASSUME NEW i \in DOMAIN rows, TargetClass(call) \in General
      PROVE  /\ ModelRank(rows[i].model.class) >= QualityFloor(call)
             /\ rows[i].model.quality >= QualityFloor(call)
  <2>1. rows[i].model \in Models /\ MeetsClass(rows[i].model, call)
    BY RowsFollowTheChain, EligibleMeans
  <2> QED BY <1>1, <2>1, TextFloor
<1>2. ASSUME NEW i \in DOMAIN rows, i > 1
      PROVE  ~ Precedes(ClassAndQuality(rows[i].model), ClassAndQuality(rows[i - 1].model))
  <2>1. rows \in Seq(UsageRecord)
    BY DEF RouterInv
  <2>2. i - 1 \in DOMAIN rows /\ i - 1 < i
    BY <1>2, <2>1
  <2>3. /\ SoundDecision
        /\ i \in DOMAIN decision.chain /\ i - 1 \in DOMAIN decision.chain
        /\ rows[i].model = decision.chain[i] /\ rows[i - 1].model = decision.chain[i - 1]
    BY <2>2, RowsFollowTheChain
  <2>4. ~ Precedes(ClassAndQuality(decision.chain[i]), ClassAndQuality(decision.chain[i - 1]))
    BY <2>2, <2>3 DEF SoundDecision
  <2> QED BY <2>3, <2>4
<1> QED BY <1>1, <1>2 DEF NeverDegrades, ClassAndQuality

\* The usage records tell the story of the invocation.
LEMMA IndInvStory ==
  ASSUME RouterInv
  PROVE  AttemptsTellTheStory
<1>1. rows \in Seq(UsageRecord) /\ SoundPhase
  BY DEF RouterInv
<1>2. ASSUME NEW i \in DOMAIN rows
      PROVE  /\ rows[i].attempt = i
             /\ i < Len(rows) => rows[i].outcome \in Retryable
             /\ \A j \in 1..(i - 1) : rows[j].model # rows[i].model
  <2>1. /\ SoundDecision /\ i \in DOMAIN decision.chain /\ rows[i].attempt = i
        /\ rows[i].model = decision.chain[i]
        /\ i < Len(rows) => rows[i].outcome \in Retryable
    BY RowsFollowTheChain
  <2>2. ASSUME NEW j \in 1..(i - 1)
        PROVE  rows[j].model # rows[i].model
    <3>1. j \in DOMAIN rows /\ j < i
      BY <1>1
    <3>2. j \in DOMAIN decision.chain /\ rows[j].model = decision.chain[j]
      BY <3>1, RowsFollowTheChain
    <3> QED BY <2>1, <3>1, <3>2 DEF SoundDecision
  <2> QED BY <2>1, <2>2
<1>3. ASSUME phase \in {"ANSWERED", "calling"}, rows # <<>>
      PROVE  (phase = "ANSWERED") <=> (Last(rows).outcome = "SUCCESS")
  <2>1. "SUCCESS" \notin Retryable
    BY DEF Retryable
  <2> QED BY <1>1, <1>3, <2>1 DEF SoundPhase
<1>4. ASSUME phase = "FAILED", decision # None
      PROVE  \/ Last(rows).outcome \notin Retryable
             \/ Len(rows) = MaxAttempts
             \/ Len(rows) = Len(decision.chain)
  <2>1. rows # <<>>
    BY <1>1, <1>4 DEF SoundPhase
  <2>2. Last(rows).outcome \in Retryable => Len(rows) = Attempts
    BY <1>1, <1>4, <2>1 DEF SoundPhase
  <2>3. Attempts \in {Len(decision.chain), MaxAttempts}
    BY DEF Attempts
  <2> QED BY <2>2, <2>3
<1> QED BY <1>2, <1>3, <1>4 DEF AttemptsTellTheStory

-----------------------------------------------------------------------------
\* The theorems.

\* RouterInv holds in every reachable state.
THEOREM RouterInductive == RouterSpec => []RouterInv
<1>1. RouterInit => RouterInv
  BY RouterInitInv
<1>2. RouterInv /\ [RouterNext]_routerVars => RouterInv'
  BY RouterNextInv
<1> QED BY <1>1, <1>2, PTL DEF RouterSpec

\* The routing decision and the usage records have the shape their tables
\* require, whatever the catalog, the requests and the answers are.
THEOREM RouterTypeCorrect == RouterSpec => []RouterTypeOK
<1>1. RouterInv => RouterTypeOK
  BY IndInvTypeOK
<1> QED BY <1>1, RouterInductive, PTL

\* No call of route, of a fallback or of an evaluation shows a provider a label
\* it is not approved for, and local_only is never routed to a cloud provider.
THEOREM LeaksNothing == RouterSpec => []NothingLeaks
<1>1. RouterInv => NothingLeaks
  BY IndInvNothingLeaks
<1> QED BY <1>1, RouterInductive, PTL

\* The rules of decide and of _evaluate, which the code writes twice, agree.
THEOREM TheGatesAgree == RouterSpec => []GatesAgree
<1>1. RouterInv => GatesAgree
  BY IndInvGatesAgree
<1> QED BY <1>1, RouterInductive, PTL

\* A fallback is never of a lesser class or quality than the model before it,
\* nor below what the complexity of a text request needs.
THEOREM Escalates == RouterSpec => []NeverDegrades
<1>1. RouterInv => NeverDegrades
  BY IndInvNeverDegrades
<1> QED BY <1>1, RouterInductive, PTL

\* The usage records of an invocation are its history.
THEOREM StoryIsTold == RouterSpec => []AttemptsTellTheStory
<1>1. RouterInv => AttemptsTellTheStory
  BY IndInvStory
<1> QED BY <1>1, RouterInductive, PTL
=============================================================================
