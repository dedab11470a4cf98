------------------------------ MODULE AIRouter ------------------------------
(***************************************************************************)
(* The AI Router of backend/app/ai_router: the policy that chooses a model *)
(* and its fallbacks for a request (policy.py, catalog.py), the invocation *)
(* that walks the chain and records every attempt (service.py), and the    *)
(* explicit evaluation of one named model (evaluation.py).                 *)
(*                                                                         *)
(* One invocation is followed from the call to its end.  Invocations share *)
(* only append-only tables, so that others add nothing to it; what it is   *)
(* given from outside - the health of the providers and the money already  *)
(* spent - is a snapshot its caller made.                                  *)
(***************************************************************************)
EXTENDS Integers, FiniteSets, SequencesExt

CONSTANTS
  Providers,    \* provider key -> ProviderDefinition
  Models,       \* the ModelDefinitions of the catalog
  Adapters,     \* the provider keys with an adapter in the registry
  Calls,        \* the invocations a caller may make
  Healths,      \* the health snapshots: provider key -> ProviderHealth
  Spendings,    \* the cost snapshots: what the day and the month have cost
  Budget,       \* CostBudgetPolicy: scope -> [soft, hard], None for no limit
  Unit,         \* the tokens a price is for (a million)
  MaxAttempts,  \* RetryPolicy.max_attempts
  None

VARIABLES
  phase,        \* "idle", "calling", or how the invocation ended
  call,         \* the invocation's arguments
  health,       \* the health snapshot of the call, None when it has none
  decision,     \* the RoutingDecision, None when none was made
  audited,      \* the denial is in the audit trail
  rows,         \* the usage records of the invocation's transaction
  placed        \* <<model, request>> for every call a provider got

routerVars == <<phase, call, health, decision, audited, rows, placed>>

ModelClasses == {"FAST", "STANDARD", "ADVANCED", "REALTIME", "EMBEDDING", "LOCAL"}
Sensitivities == <<"PUBLIC", "INTERNAL", "PRIVATE", "SENSITIVE", "CRITICAL">>
Labels == ToSet(Sensitivities)
SensitivityRank(s) == CHOOSE i \in DOMAIN Sensitivities : Sensitivities[i] = s

Retryable == {"PROVIDER_UNAVAILABLE", "RATE_LIMITED", "TIMEOUT", "INTERNAL_PROVIDER_ERROR"}
\* The adapter's own failures; the router adds MALFORMED_RESPONSE.
FailureCategories ==
  Retryable \cup {"AUTHENTICATION_ERROR", "INVALID_REQUEST", "CONTEXT_LIMIT",
                  "CONTENT_POLICY", "UNSUPPORTED_CAPABILITY", "MALFORMED_RESPONSE",
                  "CANCELLED"}

-----------------------------------------------------------------------------
(* What the validators let into the catalog, the budget and a request. *)

\* Each approval rests on the one below it.
ValidProvider(p) ==
  /\ p.max \in Labels
  /\ p.critical => p.local /\ p.sensitive
  /\ p.sensitive => p.private

\* The identifier is its place among the identifiers of the catalog.
ValidModel(m) ==
  /\ m.class \in ModelClasses /\ m.quality \in 1..4 /\ m.max \in Labels
  /\ {m.id, m.priority, m.in_price, m.out_price} \subseteq Nat
  /\ {m.context, m.output} \subseteq Nat \ {0}
  /\ m.output <= m.context
  /\ m.class = "REALTIME" => "AUDIO_REALTIME" \in m.capabilities
  /\ m.class = "EMBEDDING" => "EMBEDDINGS" \in m.capabilities
  /\ m.enabled => m.routing \/ m.evaluation

\* Something to route to, no unknown provider and no identifier used twice.
ValidCatalog ==
  /\ IsFiniteSet(Models) /\ Models # {} /\ DOMAIN Providers # {}
  /\ \A m \in Models : m.provider \in DOMAIN Providers
  /\ \A m, n \in Models : m.id = n.id => m = n

\* No negative limit, and the soft one of a request under its hard one.
ValidBudget ==
  /\ \A scope \in DOMAIN Budget : \A kind \in {"soft", "hard"} :
       Budget[scope][kind] \in Nat \cup {None}
  /\ LET limit == Budget["request"] IN
     None \notin {limit.soft, limit.hard} => limit.soft <= limit.hard

ValidRequest(c) ==
  /\ c.sensitivity \in Labels /\ c.contexts \subseteq Labels
  /\ c.input \in Nat /\ {c.requested_output, c.output_budget} \subseteq Nat \ {0}
  /\ c.embedding => ~c.realtime /\ ~c.structured /\ ~c.tools

ASSUME CatalogAssumption ==
  /\ ValidCatalog
  /\ \A p \in DOMAIN Providers : ValidProvider(Providers[p])
  /\ \A m \in Models : ValidModel(m)

ASSUME LimitsAssumption ==
  /\ MaxAttempts \in 1..10
  /\ Unit \in Nat \ {0}
  /\ ValidBudget
  /\ \A c \in Calls : ValidRequest(c)
-----------------------------------------------------------------------------
(* What a request asks for. *)

\* Bug variant: the labels of the context are not counted.
EffectiveSensitivity_Declared(c) == c.sensitivity

EffectiveSensitivity(c) ==
  CHOOSE s \in {c.sensitivity} \cup c.contexts :
    \A t \in {c.sensitivity} \cup c.contexts : SensitivityRank(t) <= SensitivityRank(s)

BaseCapability(c) ==
  CASE c.embedding -> "EMBEDDINGS"
    [] c.realtime -> "AUDIO_REALTIME"
    [] OTHER -> "TEXT_GENERATION"

EffectiveCapabilities(c) ==
  c.capabilities \cup {BaseCapability(c)}
    \cup (IF c.structured THEN {"STRUCTURED_OUTPUT"} ELSE {})
    \cup (IF c.tools THEN {"TOOL_CALLING"} ELSE {})

TargetClass(c) ==
  IF c.embedding THEN "EMBEDDING"
  ELSE IF c.realtime THEN "REALTIME"
  ELSE IF c.local_only THEN "LOCAL"
  ELSE IF c.complexity \in {"TRIVIAL", "LOW"} THEN "FAST"
  ELSE IF c.complexity = "MEDIUM" THEN "STANDARD"
  ELSE "ADVANCED"

QualityFloor(c) ==
  CASE c.complexity \in {"TRIVIAL", "LOW"} -> 1
    [] c.complexity = "MEDIUM" -> 2
    [] OTHER -> 3

General == {"FAST", "STANDARD", "ADVANCED"}
ModelRank(class) ==
  CASE class = "FAST" -> 1
    [] class = "STANDARD" -> 2
    [] class = "ADVANCED" -> 3
    [] OTHER -> 4

\* The ceiling of the price of a call, without the discount on cached input.
Estimate(m, input, output) ==
  (input * m.in_price + output * m.out_price + Unit - 1) \div Unit
-----------------------------------------------------------------------------
(* The filters, in the order of decide, with the reason each one denies for. *)

Available(m, status) ==
  /\ m.routing /\ m.enabled /\ ~m.deprecated
  /\ Providers[m.provider].enabled
  /\ status[m.provider] \notin {"UNAVAILABLE", "DISABLED"}

MeetsClass(m, c) ==
  /\ c.local_only => Providers[m.provider].local
  /\ CASE TargetClass(c) \in {"REALTIME", "EMBEDDING"} -> m.class = TargetClass(c)
       [] TargetClass(c) = "LOCAL" -> m.class = "LOCAL" /\ m.quality >= QualityFloor(c)
       [] OTHER -> /\ m.class \in General
                   /\ ModelRank(m.class) >= ModelRank(TargetClass(c))
                   /\ m.quality >= QualityFloor(c)

Allows(s, m) ==
  LET p == Providers[m.provider] IN
  /\ SensitivityRank(s) <= SensitivityRank(p.max)
  /\ SensitivityRank(s) <= SensitivityRank(m.max)
  /\ s = "PRIVATE" => p.private
  /\ s = "SENSITIVE" => p.sensitive
  /\ s = "CRITICAL" => p.local /\ p.critical

FitsOutput(m, c) == c.requested_output <= m.output
\* Bug variant: the answer is not counted.
FitsContext_Input(m, c) == c.input <= m.context

FitsContext(m, c) == c.input + c.requested_output <= m.context

Filters(m, c, status) ==
  << Available(m, status),
     MeetsClass(m, c),
     EffectiveCapabilities(c) \subseteq m.capabilities,
     Allows(EffectiveSensitivity(c), m),
     FitsOutput(m, c),
     FitsContext(m, c) >>

DenialReasons(c) ==
  << "PROVIDER_UNAVAILABLE",
     IF c.local_only THEN "LOCAL_ONLY_REQUIRED" ELSE "NO_ELIGIBLE_MODEL",
     "REQUIRED_CAPABILITY", "SENSITIVITY_RESTRICTION", "OUTPUT_LIMIT", "CONTEXT_LIMIT" >>

\* The models that are left after the first n filters.
Left(n, c, status) == {m \in Models : \A i \in 1..n : Filters(m, c, status)[i]}
-----------------------------------------------------------------------------
(* The order of the candidates, and the decision. *)

SelectionKey(m, c, status) ==
  << ModelRank(m.class),
     m.quality,
     IF status[m.provider] = "AVAILABLE" THEN 0 ELSE 1,
     SensitivityRank(Providers[m.provider].max),
     Estimate(m, c.input, c.requested_output),
     m.priority,
     m.id >>

\* The order of two tuples of numbers in Python.
Precedes(k, l) ==
  \E i \in DOMAIN k : k[i] < l[i] /\ \A j \in 1..(i - 1) : k[j] = l[j]

\* How many members of S go before m.
Place(m, S, key) == Cardinality({n \in S : Precedes(key[n], key[m])})

\* sorted: no two members have the same key, so that each has its own place.
Sorted(S, key) ==
  [i \in 1..Cardinality(S) |-> CHOOSE m \in S : Place(m, S, key) = i - 1]

Equivalent(m, n) == m.class = n.class /\ m.quality = n.quality

\* Bug variant: the dearest model first.
Chain_DearestFirst(candidates, c, status) ==
  Sorted(candidates, [m \in candidates |->
                        <<- Estimate(m, c.input, c.requested_output), m.id>>])

\* selected, then the models of its class and quality, then the others.
Chain(candidates, c, status) ==
  LET key == [m \in candidates |-> SelectionKey(m, c, status)]
      selected == Sorted(candidates, key)[1]
  IN  <<selected>> \o
      Sorted(candidates \ {selected},
             [m \in candidates \ {selected} |->
                <<IF Equivalent(m, selected) THEN 0 ELSE 1>> \o key[m]])

\* A limit of the given kind is passed by one more call of this estimate.
Exceeds(kind, estimate, spent) ==
  \E scope \in DOMAIN Budget :
    /\ Budget[scope][kind] # None
    /\ spent[scope] + estimate > Budget[scope][kind]

Denied(reason, c) == [outcome |-> "DENIED", reasons |-> {reason}, chain |-> <<>>,
                      estimate |-> None, sensitivity |-> EffectiveSensitivity(c)]

BaseReason(c) ==
  CASE TargetClass(c) = "EMBEDDING" -> "EMBEDDING_REQUIRED"
    [] TargetClass(c) = "REALTIME" -> "REALTIME_REQUIRED"
    [] TargetClass(c) = "LOCAL" -> "LOCAL_ONLY_REQUIRED"
    [] TargetClass(c) = "FAST" -> "LOW_COMPLEXITY_FAST"
    [] TargetClass(c) = "STANDARD" -> "DEFAULT_STANDARD"
    [] TargetClass(c) = "ADVANCED" -> "HIGH_COMPLEXITY_ADVANCED"

\* The reason codes of a selection.
Reasons(c, chain, estimate, spent) ==
  LET selected == Head(chain)
      equivalents == {m \in ToSet(Tail(chain)) : Equivalent(m, selected)}
      If(condition, reason) == IF condition THEN {reason} ELSE {}
  IN  {BaseReason(c)}
      \cup If(EffectiveCapabilities(c) # {BaseCapability(c)}, "REQUIRED_CAPABILITY")
      \cup If(/\ TargetClass(c) \in General
              /\ ModelRank(selected.class) > ModelRank(TargetClass(c)), "QUALITY_ESCALATION")
      \cup If(equivalents # {}, "COST_NEUTRAL_OPTIMIZATION")
      \cup If(Exceeds("soft", estimate, spent), "BUDGET_WARNING")
      \cup If(\E m \in equivalents : m.provider # selected.provider,
              "EQUIVALENT_PROVIDER_FALLBACK")

\* AIRoutingPolicy.decide
Decide(c, status, spent) ==
  LET emptied == {n \in 1..Len(DenialReasons(c)) : Left(n, c, status) = {}}
      first == CHOOSE n \in emptied : \A k \in emptied : n <= k
      chain == Chain(Left(Len(DenialReasons(c)), c, status), c, status)
      estimate == Estimate(Head(chain), c.input, c.requested_output)
  IN  IF emptied # {} THEN Denied(DenialReasons(c)[first], c)
      ELSE IF Exceeds("hard", estimate, spent) THEN Denied("HARD_BUDGET_EXCEEDED", c)
      ELSE [outcome |-> "SELECTED", reasons |-> Reasons(c, chain, estimate, spent),
            chain |-> chain, estimate |-> estimate,
            sensitivity |-> EffectiveSensitivity(c)]
-----------------------------------------------------------------------------
(* The invocation. *)

RouterInit ==
  /\ phase = "idle"
  /\ call = None
  /\ health = None
  /\ decision = None
  /\ audited = FALSE
  /\ rows = <<>>
  /\ placed = <<>>

\* The provider is not asked for more than the routing request was judged on.
WithinRequest(c) ==
  /\ c.output_budget <= c.requested_output
  /\ c.provider_structured => c.structured
  /\ c.provider_tools => c.tools

\* invoke refuses what goes beyond the request, before anything is recorded.
Refuse ==
  /\ phase = "idle"
  /\ \E c \in Calls : ~WithinRequest(c) /\ call' = c
  /\ phase' = "REFUSED"
  /\ UNCHANGED <<health, decision, audited, rows, placed>>

AuditedDenials == {"SENSITIVITY_RESTRICTION", "HARD_BUDGET_EXCEEDED", "LOCAL_ONLY_REQUIRED"}

\* _audit_denial
Audited(d) == d.outcome = "DENIED" /\ d.reasons \cap AuditedDenials # {}

\* route: the decision is recorded, and a denial for one of these is audited.
Route ==
  /\ phase = "idle"
  /\ \E c \in Calls, status \in Healths, spent \in Spendings :
       /\ WithinRequest(c)
       /\ call' = c
       /\ health' = status
       /\ decision' = Decide(c, status, spent)
  /\ audited' = Audited(decision')
  /\ phase' = IF decision'.outcome = "DENIED" THEN "DENIED" ELSE "calling"
  /\ UNCHANGED <<rows, placed>>

Attempts == IF Len(decision.chain) < MaxAttempts THEN Len(decision.chain) ELSE MaxAttempts
Current == decision.chain[Len(rows) + 1]

\* generate of the adapter: a response of so many tokens or a failure; the
\* router takes a response past the budget of the request for a failure.
Reply(category, tokens) == [category |-> category, tokens |-> tokens]
Replies(m) ==
  IF m.provider \notin Adapters THEN {Reply("PROVIDER_UNAVAILABLE", 0)}
  ELSE {Reply(category, 0) : category \in FailureCategories}
       \cup {Reply("SUCCESS", n) : n \in {0, call.output_budget, call.output_budget + 1}}
Outcome(reply) ==
  IF reply.tokens > call.output_budget THEN "MALFORMED_RESPONSE" ELSE reply.category

UsageRow(m, reply) ==
  [attempt |-> Len(rows) + 1, model |-> m, outcome |-> Outcome(reply)]

\* Bug variant: every failure is worth another try.
GoesOn_Always(outcome) == outcome # "SUCCESS" /\ Len(rows) + 1 < Attempts

GoesOn(outcome) == outcome \in Retryable /\ Len(rows) + 1 < Attempts

\* One turn of the loop of invoke: the model is asked and the attempt recorded.
Attempt ==
  /\ phase = "calling"
  /\ Len(rows) < Attempts
  /\ \E reply \in Replies(Current) :
       /\ placed' = IF Current.provider \in Adapters
                    THEN Append(placed, <<Current, call>>) ELSE placed
       /\ rows' = Append(rows, UsageRow(Current, reply))
       /\ phase' = IF GoesOn(Outcome(reply)) THEN "calling"
                   ELSE IF Outcome(reply) = "SUCCESS" THEN "ANSWERED" ELSE "FAILED"
  /\ UNCHANGED <<call, health, decision, audited>>

\* The request is cancelled, or the process dies, while a provider is asked:
\* the caller's transaction takes the decision and the attempts with it.
Abandon ==
  /\ phase = "calling"
  /\ Len(rows) < Attempts
  /\ phase' = "ABANDONED"
  /\ placed' = IF Current.provider \in Adapters
               THEN Append(placed, <<Current, call>>) ELSE placed
  /\ decision' = None
  /\ rows' = <<>>
  /\ UNCHANGED <<call, health, audited>>

\* CandidateEvaluator: a candidate, or a model routing already uses, is asked
\* by name; nothing is recorded.
MayEvaluate(m, c, baseline) ==
  /\ IF baseline THEN m.routing ELSE m.evaluation
  /\ Providers[m.provider].enabled /\ m.enabled /\ ~m.deprecated
  /\ WithinRequest(c)
  /\ EffectiveCapabilities(c) \subseteq m.capabilities
  /\ Allows(EffectiveSensitivity(c), m)
  /\ c.requested_output <= m.output
  /\ c.input + c.requested_output <= m.context

Evaluate ==
  /\ phase = "idle"
  /\ \E c \in Calls, m \in Models, baseline \in BOOLEAN :
       /\ call' = c
       /\ IF MayEvaluate(m, c, baseline) /\ m.provider \in Adapters
          THEN /\ placed' = Append(placed, <<m, c>>)
               /\ phase' \in {"EVALUATED", "FAILED"}
          ELSE /\ phase' = IF MayEvaluate(m, c, baseline) THEN "FAILED" ELSE "REFUSED"
               /\ UNCHANGED placed
  /\ UNCHANGED <<health, decision, audited, rows>>

RouterNext == Refuse \/ Route \/ Attempt \/ Abandon \/ Evaluate

RouterSpec == RouterInit /\ [][RouterNext]_routerVars

-----------------------------------------------------------------------------
(* Properties *)

Ended == {"REFUSED", "DENIED", "ANSWERED", "FAILED", "ABANDONED", "EVALUATED"}

\* The shape of the state: what ai_routing_decisions and ai_usage_records may
\* hold (ck_ai_routing_selection_shape, ck_ai_usage_attempt).
RouterTypeOK ==
  /\ phase \in {"idle", "calling"} \cup Ended
  /\ call \in Calls \cup {None}
  /\ health \in Healths \cup {None}
  /\ decision # None =>
       /\ decision.outcome \in {"SELECTED", "DENIED"}
       /\ (decision.outcome = "DENIED") <=> (decision.chain = <<>>)
       /\ decision.reasons # {}
  /\ audited \in BOOLEAN
  /\ \A i \in DOMAIN rows :
       /\ rows[i].attempt \in 1..MaxAttempts
       /\ rows[i].model \in Models
       /\ rows[i].outcome \in FailureCategories \cup {"SUCCESS"}
  /\ \A i \in DOMAIN placed : placed[i] \in Models \X Calls

\* Whatever a provider was asked, as a choice of routing, as a fallback or as
\* an evaluation, each label of the request and of its context was within
\* what the provider and the model may see, with every approval up to that
\* level; and what must stay local is only ever routed to a local provider.
NothingLeaks ==
  /\ \A i \in DOMAIN placed :
       LET m == placed[i][1]
           p == Providers[m.provider]
       IN  \A s \in {placed[i][2].sensitivity} \cup placed[i][2].contexts :
             /\ SensitivityRank(s) <= SensitivityRank(p.max)
             /\ SensitivityRank(s) <= SensitivityRank(m.max)
             /\ SensitivityRank(s) >= SensitivityRank("PRIVATE") => p.private
             /\ SensitivityRank(s) >= SensitivityRank("SENSITIVE") => p.sensitive
             /\ s = "CRITICAL" => p.critical /\ p.local
  /\ \A i \in DOMAIN rows : call.local_only => Providers[rows[i].model.provider].local

\* The eligibility rules are written twice, in decide and in _evaluate.  What
\* routing would use an evaluation of the same request may use, and when
\* routing finds no model, what an evaluation may still use is a model of
\* the wrong class, or one whose provider is down.
GatesAgree ==
  /\ decision # None => \A m \in ToSet(decision.chain) : MayEvaluate(m, call, TRUE)
  /\ phase = "DENIED" /\ "HARD_BUDGET_EXCEEDED" \notin decision.reasons =>
       \A m \in Models :
         MayEvaluate(m, call, TRUE) =>
           \/ ~MeetsClass(m, call)
           \/ health[m.provider] \in {"UNAVAILABLE", "DISABLED"}

\* "FAST may escalate to STANDARD or ADVANCED; an unavailable advanced model
\* never silently degrades to FAST": the attempts of a text request are made
\* with models of the class and quality its complexity needs, and a fallback
\* is never a step down from the model that failed before it.
NeverDegrades ==
  \A i \in DOMAIN rows :
    LET m == rows[i].model IN
    /\ TargetClass(call) \in General =>
         /\ ModelRank(m.class) >= QualityFloor(call)
         /\ m.quality >= QualityFloor(call)
    /\ i > 1 => ~Precedes(<<ModelRank(m.class), m.quality>>,
                          <<ModelRank(rows[i - 1].model.class), rows[i - 1].model.quality>>)

\* The usage records tell the story of the invocation: numbered without a
\* gap, no model asked twice, an attempt after another only when that one
\* failed in a way worth another try, nothing after a success, and an answer
\* exactly when the last attempt succeeded.
AttemptsTellTheStory ==
  /\ \A i \in DOMAIN rows :
       /\ rows[i].attempt = i
       /\ i < Len(rows) => rows[i].outcome \in Retryable
       /\ \A j \in 1..(i - 1) : rows[j].model # rows[i].model
  /\ phase \in {"ANSWERED", "calling"} /\ rows # <<>> =>
       (phase = "ANSWERED") <=> (Last(rows).outcome = "SUCCESS")
  /\ phase = "FAILED" /\ decision # None =>
       \/ Last(rows).outcome \notin Retryable
       \/ Len(rows) = MaxAttempts
       \/ Len(rows) = Len(decision.chain)
-----------------------------------------------------------------------------
(* The inductive invariant *)

Eligible == Left(6, call, health)
ClassAndQuality(m) == <<ModelRank(m.class), m.quality>>

\* The chain holds models that passed every filter, each once and none before a
\* lesser one; without a chain the budget was the reason, or nothing passed.
SoundDecision ==
  /\ call \in Calls /\ WithinRequest(call)
  /\ decision.outcome \in {"SELECTED", "DENIED"}
  /\ (decision.outcome = "DENIED") <=> (decision.chain = <<>>)
  /\ decision.reasons # {}
  /\ decision.chain \in Seq(Eligible)
  /\ \A i, j \in DOMAIN decision.chain : i < j =>
       /\ decision.chain[i] # decision.chain[j]
       /\ ~Precedes(ClassAndQuality(decision.chain[j]), ClassAndQuality(decision.chain[i]))
  /\ decision.outcome = "DENIED" =>
       "HARD_BUDGET_EXCEEDED" \in decision.reasons \/ Eligible = {}

\* The attempts go down the chain.
SoundRows ==
  /\ Len(rows) <= Attempts
  /\ \A i \in DOMAIN rows :
       /\ rows[i].attempt = i
       /\ rows[i].model = decision.chain[i]
       /\ i < Len(rows) => rows[i].outcome \in Retryable

\* What a provider was asked it may see.
SoundCalls ==
  \A i \in DOMAIN placed : Allows(EffectiveSensitivity(placed[i][2]), placed[i][1])

\* Where the invocation is and what it has to show for it.
SoundPhase ==
  LET outcome == Last(rows).outcome
  IN  /\ phase \in {"idle", "calling"} \cup Ended
      /\ phase = "idle" => decision = None /\ placed = <<>>
      /\ rows # <<>> => phase \in {"calling", "ANSWERED", "FAILED"}
      /\ phase = "calling" => /\ decision.outcome = "SELECTED" /\ Len(rows) < Attempts
                              /\ rows # <<>> => outcome \in Retryable
      /\ phase = "DENIED" => decision.outcome = "DENIED"
      /\ phase = "ANSWERED" => rows # <<>> /\ outcome = "SUCCESS"
      /\ phase = "FAILED" /\ rows = <<>> => decision = None
      /\ phase = "FAILED" /\ rows # <<>> =>
           /\ outcome # "SUCCESS"
           /\ outcome \in Retryable => Len(rows) = Attempts

UsageRecord == [attempt : Nat, model : Models, outcome : FailureCategories \cup {"SUCCESS"}]
Decided == decision # None \/ rows # <<>> \/ phase \in {"calling", "DENIED"}

RouterInv ==
  /\ call \in Calls \cup {None} /\ health \in Healths \cup {None} /\ audited \in BOOLEAN
  /\ rows \in Seq(UsageRecord) /\ placed \in Seq(Models \X Calls)
  /\ SoundCalls
  /\ SoundPhase
  /\ Decided => SoundDecision /\ SoundRows
=============================================================================
