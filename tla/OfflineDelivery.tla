--------------------------- MODULE OfflineDelivery --------------------------
(***************************************************************************)
(* The durable message queue of the Android client, composed with submit   *)
(* of the Text Assistant: ConversationRepository, OfflineSyncCoordinator,  *)
(* MessageDeliveryWorker, DeliveryScheduler, ConnectivityCoordinator and   *)
(* LogoutCoordinator under mobile/androidApp, OfflineSemantics under       *)
(* mobile/shared.                                                          *)
(*                                                                         *)
(* Rows (Room) and work (WorkManager) survive the process.  Requests and   *)
(* answers may be lost and the client may stop waiting while the server    *)
(* goes on.  The key of a message is derived from its operation and its    *)
(* fingerprint never changes, so an operation is its own key and body.     *)
(*                                                                         *)
(* A run of a worker reads and claims its row in several statements; the   *)
(* claim tests what was read again, so that they are one step here.  The   *)
(* first statement of recovery is queued while the process starts, before  *)
(* a worker can be made, so that it is one step with the restart.          *)
(***************************************************************************)
EXTENDS Naturals, Sequences, FiniteSets

CONSTANTS
  Ops,           \* operations, each with the messages it carries
  Chat,          \* the conversation they belong to
  Null,          \* no value
  MaxAttempts,   \* OfflineRetryPolicy.maxAttempts
  MaxActive,     \* OfflineCachePolicy.maxActiveOperations
  CommitMayFail  \* can the server fail to COMMIT after it has answered?

ASSUME BoundsAssumption ==
  MaxAttempts \in Nat \ {0} /\ MaxActive \in Nat \ {0}
ASSUME NullAssumption == Null \notin Ops \cup {Chat}
ASSUME CommitAssumption == CommitMayFail \in BOOLEAN

VARIABLES
  conv, log, call,  \* the server: see TextAssistant
  op,        \* pending_operations
  work,      \* WorkManager's unique work of every operation
  bound,     \* is an owner and device bound to this installation?
  link,      \* the network: down, up and unprobed, up and probed
  online,    \* is ConnectivityCoordinator's state ONLINE?
  observed   \* the value of online that the sync coordinator last acted on

server == <<conv, log, call>>
net == <<link, online, observed>>
vars == <<conv, log, call, op, work, bound, link, online, observed>>

Server == INSTANCE TextAssistant WITH
  Conversations <- {Chat}, Calls <- Ops \X (1..MaxAttempts),
  Keys <- Ops, Bodies <- Ops

-----------------------------------------------------------------------------
\* States (OfflineOperationState and three that are no row).

Eligible == {"PENDING", "WAITING_FOR_NETWORK", "RETRYABLE_FAILURE"}

\* ACTIVE_PRE_SYNC_STATES
Active == Eligible \cup {"AUTH_REQUIRED"}

Terminal == {"ACKNOWLEDGED", "REJECTED", "CANCELLED", "TERMINAL_FAILURE"}

\* NONE: not yet sent; ENTERING: enqueueMessage is about to insert the row;
\* GONE: pruned or cleared.
Statuses == Active \cup Terminal \cup
            {"SYNCING", "CANCEL_REQUESTED", "NONE", "ENTERING", "GONE"}

\* later: nextAttemptAtEpochMillis is in the future.
Op == [status : Statuses, attempts : 0..MaxAttempts, expected : Nat,
       later : BOOLEAN]

NoOp == [status |-> "NONE", attempts |-> 0, expected |-> 0, later |-> FALSE]

\* runs: runAttemptCount.
Work == [state : {"none", "enqueued", "running"}, runs : 0..MaxAttempts]

NoWork == [state |-> "none", runs |-> 0]

Rows == {o \in Ops : op[o].status \notin {"NONE", "ENTERING", "GONE"}}

\* activeCount
ActiveRows == {o \in Rows : op[o].status \notin Terminal}

\* transition: an UPDATE of one row that tests its status.
Moved(o, from, to) ==
  IF op[o].status \in from
  THEN [op EXCEPT ![o].status = to, ![o].later = FALSE]
  ELSE op

\* enqueueUniqueWork with KEEP.
Scheduled(os) ==
  [o \in Ops |-> IF o \in os /\ work[o].state = "none"
                 THEN [NoWork EXCEPT !.state = "enqueued"]
                 ELSE work[o]]

\* The run is over: success or failure; retry, or stopped from outside.
Finished(o) == [work EXCEPT ![o] = NoWork]
Again(o) == [work EXCEPT ![o].state = "enqueued"]

-----------------------------------------------------------------------------
Init ==
  /\ Server!Init
  /\ op = [o \in Ops |-> NoOp]
  /\ work = [o \in Ops |-> NoWork]
  /\ bound = TRUE
  /\ link = "up"
  /\ online = TRUE
  /\ observed = TRUE

\* The server, and the conversation the messages are for.
Serve ==
  /\ \/ Server!CreateConversation(Chat)
     \/ \E q \in Ops \X (1..MaxAttempts) : Server!Serve(q)
  /\ UNCHANGED <<op, work, bound, net>>

\* enqueueMessage up to the insert: the binding and the size of the queue.
EnterQueue(o) ==
  /\ op[o].status = "NONE"
  /\ bound
  /\ Cardinality(ActiveRows) < MaxActive
  /\ \E expected \in 1..conv[Chat].version :
       op' = [op EXCEPT ![o].status = "ENTERING", ![o].expected = expected]
  /\ UNCHANGED <<server, work, bound, net>>

\* The insert, and a schedule that may fail.
Enqueue(o) ==
  /\ op[o].status = "ENTERING"
  /\ op' = [op EXCEPT ![o].status = IF online THEN "PENDING"
                                   ELSE "WAITING_FOR_NETWORK"]
  /\ work' \in {Scheduled({o}), work}
  /\ UNCHANGED <<server, bound, net>>

-----------------------------------------------------------------------------
\* A run of MessageDeliveryWorker.

MayRun(o) ==
  /\ work[o].state = "enqueued"
  /\ link # "down"

RunsLeft(o) == work[o].runs < MaxAttempts

\* doWork gives up after too many runs.
GiveUp(o) ==
  /\ MayRun(o)
  /\ ~RunsLeft(o)
  /\ work' = Finished(o)
  /\ UNCHANGED <<server, op, bound, net>>

\* deliver without a claim: another status, no attempts left, or no binding.
Decline(o) ==
  /\ MayRun(o)
  /\ RunsLeft(o)
  /\ \/ op[o].status \notin Active /\ op' = op
     \/ /\ op[o].status \in Active
        /\ op[o].attempts >= MaxAttempts
        /\ op' = Moved(o, Active, "TERMINAL_FAILURE")
     \/ /\ op[o].status \in Active
        /\ op[o].attempts < MaxAttempts
        /\ ~bound
        /\ op' = Moved(o, Eligible, "AUTH_REQUIRED")
  /\ work' = Finished(o)
  /\ UNCHANGED <<server, bound, net>>

\* The payload cannot be decrypted or does not match its fingerprint.
FindCorrupt(o) ==
  /\ MayRun(o)
  /\ RunsLeft(o)
  /\ op[o].status \in Active
  /\ op[o].attempts < MaxAttempts
  /\ bound
  /\ op' = Moved(o, Active, "TERMINAL_FAILURE")
  /\ work' = Finished(o)
  /\ UNCHANGED <<server, bound, net>>

\* claimForSync, and the request, which may get lost.
Claim(o) ==
  /\ MayRun(o)
  /\ RunsLeft(o)
  /\ op[o].status \in Active
  /\ op[o].attempts < MaxAttempts
  /\ bound
  /\ op' = [op EXCEPT ![o].status = "SYNCING", ![o].later = FALSE,
                      ![o].attempts = @ + 1]
  /\ work' = [work EXCEPT ![o].state = "running", ![o].runs = @ + 1]
  /\ \/ Server!Submit(<<o, op[o].attempts + 1>>, Chat, o, o, op[o].expected)
     \/ UNCHANGED server
  /\ UNCHANGED <<bound, net>>

\* The worker is stopped before it has claimed anything.
CutShort(o) ==
  /\ MayRun(o)
  /\ RunsLeft(o)
  /\ work' = [work EXCEPT ![o].runs = @ + 1]
  /\ UNCHANGED <<server, op, bound, net>>

\* The transaction that keeps the answer and acknowledges the row.
Acknowledge(o) ==
  /\ op' = Moved(o, {"SYNCING", "CANCEL_REQUESTED"}, "ACKNOWLEDGED")
  /\ work' = Finished(o)

\* A failure that may be retried, of a row that is still SYNCING.
Postpone(o) ==
  IF op[o].attempts < MaxAttempts
  THEN /\ op' = IF op[o].status = "SYNCING"
                THEN [op EXCEPT ![o].status = "RETRYABLE_FAILURE",
                                ![o].later = TRUE]
                ELSE op
       /\ work' = Again(o)
  ELSE /\ op' = Moved(o, {"SYNCING"}, "TERMINAL_FAILURE")
       /\ work' = Finished(o)

\* handleFailure for a failure that may be retried.
Retry(o) ==
  IF op[o].status = "CANCEL_REQUESTED"
  THEN op' = op /\ work' = Finished(o)
  ELSE Postpone(o)

\* OfflineFailureClassifier for the other failures.
Dispositions(answer) ==
  CASE answer = "unauthenticated" -> {"AUTH_REQUIRED"}
    [] answer \in {"mismatch", "conflict"} -> {"REJECTED"}
    [] OTHER -> {"REJECTED", "TERMINAL_FAILURE"}

\* Every row and all work is removed, and the binding with them.
ClearAll ==
  /\ op' = [o \in Ops |-> IF o \in Rows
                          THEN [NoOp EXCEPT !.status = "GONE"] ELSE op[o]]
  /\ work' = [o \in Ops |-> NoWork]

\* onDeviceRevoked from the worker: it cancels the work it runs in, and so may
\* not get to the rows.
Revoke(o) ==
  \/ ClearAll /\ bound' = FALSE
  \/ /\ op' = Moved(o, {"SYNCING"}, "REJECTED")
     /\ work' = [p \in Ops |-> NoWork]
     /\ UNCHANGED bound

\* Bug variant: as for connectivity, any answer is taken for a delivery that
\* shows that the backend was reached and has decided.
Delivered_Decided == {"ok", "conflict", "mismatch", "refused"}

Delivered == {"ok"}

AnswerOf(o) == call[<<o, op[o].attempts>>].answer

\* The answer arrives while the worker waits for it.
Receive(o) ==
  /\ work[o].state = "running"
  /\ op[o].attempts > 0
  /\ AnswerOf(o) # "none"
  /\ \/ /\ AnswerOf(o) \in Delivered
        /\ Acknowledge(o) \/ Postpone(o)  \* the local commit may fail
        /\ UNCHANGED bound
     \/ AnswerOf(o) = "unavailable" /\ Retry(o) /\ UNCHANGED bound
     \/ /\ AnswerOf(o) = "revoked"
        /\ IF op[o].status = "CANCEL_REQUESTED"
           THEN op' = op /\ work' = Finished(o) /\ UNCHANGED bound
           ELSE Revoke(o)
     \/ /\ AnswerOf(o) \notin Delivered \cup {"unavailable", "revoked"}
        /\ \E to \in Dispositions(AnswerOf(o)) : op' = Moved(o, {"SYNCING"}, to)
        /\ work' = Finished(o)
        /\ UNCHANGED bound
  /\ online' = (link # "down" /\ AnswerOf(o) # "unavailable")
  /\ UNCHANGED <<server, link, observed>>

\* A timeout or an IOException.
TimeOut(o) ==
  /\ work[o].state = "running"
  /\ Retry(o)
  /\ online' = FALSE
  /\ UNCHANGED <<server, bound, link, observed>>

\* WorkManager stops a run without network; the row is left as it is.
Stop(o) ==
  /\ work[o].state = "running"
  /\ link = "down"
  /\ work' = Again(o)
  /\ UNCHANGED <<server, op, bound, net>>

-----------------------------------------------------------------------------
\* The user.

\* retryDelivery
RetryDelivery(o) ==
  /\ bound
  /\ op[o].status \in Active
  /\ op[o].attempts < MaxAttempts
  /\ work' = Scheduled({o})
  /\ UNCHANGED <<server, op, bound, net>>

\* Bug variant: every row can be cancelled that is not being sent.
Cancellable_Settled == Statuses \ {"SYNCING", "NONE", "ENTERING", "GONE"}

\* CANCELLABLE_BEFORE_SYNC
Cancellable == Active

Cancel(o) ==
  /\ bound
  /\ \/ /\ op[o].status \in Cancellable
        /\ op' = Moved(o, Cancellable, "CANCELLED")
        /\ work' = Finished(o)
     \/ /\ op[o].status = "SYNCING"
        /\ op' = Moved(o, {"SYNCING"}, "CANCEL_REQUESTED")
        /\ UNCHANGED work
  /\ UNCHANGED <<server, bound, net>>

Logout ==
  /\ ClearAll
  /\ bound' = FALSE
  /\ UNCHANGED <<server, net>>

AuthenticationExpired ==
  /\ work' = [o \in Ops |-> NoWork]
  /\ UNCHANGED <<server, op, bound, net>>

\* synchronizeEligible on the rows rs: old rows are pruned, due ones scheduled.
Synchronize(rs) ==
  /\ \E old \in SUBSET {o \in Ops : rs[o].status \in Terminal} :
       op' = [o \in Ops |-> IF o \in old THEN [NoOp EXCEPT !.status = "GONE"]
                            ELSE rs[o]]
  /\ work' = Scheduled({o \in Ops : /\ rs[o].status \in Eligible
                                    /\ rs[o].attempts < MaxAttempts
                                    /\ ~rs[o].later})

\* resumeAfterAuthentication
Resumed ==
  [o \in Ops |-> IF /\ op[o].status = "AUTH_REQUIRED"
                    /\ op[o].attempts < MaxAttempts
                 THEN [op[o] EXCEPT !.status = "PENDING", !.later = FALSE]
                 ELSE op[o]]

\* bindAuthenticated and onAuthenticated, for the same owner and device or not.
SignIn ==
  /\ \/ bound /\ Synchronize(Resumed)
     \/ ClearAll
  /\ bound' = TRUE
  /\ UNCHANGED <<server, net>>

-----------------------------------------------------------------------------
\* The network, the clock and the process.

LoseLink ==
  /\ link # "down"
  /\ link' = "down"
  /\ online' = FALSE
  /\ UNCHANGED <<server, op, work, bound, observed>>

GainLink ==
  /\ link = "down"
  /\ link' = "probing"
  /\ UNCHANGED <<server, op, work, bound, online, observed>>

\* The one probe of the backend for this link.
Probe ==
  /\ link = "probing"
  /\ link' = "up"
  /\ online' \in {TRUE, FALSE}
  /\ UNCHANGED <<server, op, work, bound, observed>>

\* The coordinator sees ONLINE.
Sync ==
  /\ online /\ ~observed
  /\ observed' = TRUE
  /\ IF bound THEN Synchronize(op) ELSE UNCHANGED <<op, work>>
  /\ UNCHANGED <<server, bound, link, online>>

\* The coordinator sees another state; one it misses is as if it never was.
SeeOffline ==
  /\ ~online /\ observed
  /\ observed' = FALSE
  /\ UNCHANGED <<server, op, work, bound, link, online>>

\* nextAttemptAtEpochMillis has come.
BackoffElapses(o) ==
  /\ op[o].later
  /\ op' = [op EXCEPT ![o].later = FALSE]
  /\ UNCHANGED <<server, work, bound, net>>

\* Bug variant: recovery leaves the rows that were being sent.
Recovered_KeepSyncing(o) == op[o]

\* recoverInterruptedSync, then terminateExhaustedRetries; a call of
\* enqueueMessage that has not inserted is forgotten.
Recovered(o) ==
  CASE op[o].status = "ENTERING" -> NoOp
    [] op[o].status \in {"SYNCING", "RETRYABLE_FAILURE"} /\ op[o].attempts >= MaxAttempts ->
         [op[o] EXCEPT !.status = "TERMINAL_FAILURE", !.later = FALSE]
    [] op[o].status = "SYNCING" /\ op[o].attempts < MaxAttempts ->
         [op[o] EXCEPT !.status = "RETRYABLE_FAILURE", !.later = FALSE]
    [] OTHER -> op[o]

\* The process ends and is started again.
Restart ==
  /\ op' = [o \in Ops |-> Recovered(o)]
  /\ work' = [o \in Ops |-> IF work[o].state = "running"
                            THEN [work[o] EXCEPT !.state = "enqueued"]
                            ELSE work[o]]
  /\ link' = IF link = "down" THEN "down" ELSE "probing"
  /\ online' = FALSE
  /\ observed' = FALSE
  /\ UNCHANGED <<server, bound>>

-----------------------------------------------------------------------------
Next ==
  \/ Serve
  \/ \E o \in Ops :
       \/ EnterQueue(o) \/ Enqueue(o)
       \/ GiveUp(o) \/ Decline(o) \/ FindCorrupt(o) \/ Claim(o) \/ CutShort(o)
       \/ Receive(o) \/ TimeOut(o) \/ Stop(o)
       \/ RetryDelivery(o) \/ Cancel(o) \/ BackoffElapses(o)
  \/ Logout \/ AuthenticationExpired \/ SignIn
  \/ LoseLink \/ GainLink \/ Probe \/ Sync \/ SeeOffline \/ Restart

Spec == Init /\ [][Next]_vars

\* WorkManager starts what may run, again if it was stopped, and not every run
\* is stopped before its claim; an HTTP call ends by its timeout; the clock
\* runs; the coordinator is told of the state; not every probe fails.
Fairness ==
  /\ \A o \in Ops :
       /\ SF_vars(GiveUp(o) \/ Decline(o))
       /\ SF_vars(Claim(o))
       /\ WF_vars(Enqueue(o))
       /\ WF_vars(TimeOut(o))
       /\ WF_vars(BackoffElapses(o))
  /\ SF_vars(Probe /\ online')
  /\ SF_vars(Sync)

FairSpec == Spec /\ Fairness

-----------------------------------------------------------------------------
\* Properties.

\* The server's part and the rows, work and network keep their shapes.
TypeOK ==
  /\ Server!TypeOK
  /\ op \in [Ops -> Op]
  /\ work \in [Ops -> Work]
  /\ bound \in BOOLEAN /\ online \in BOOLEAN /\ observed \in BOOLEAN
  /\ link \in {"down", "probing", "up"}

InLog(o) == Server!Stored(o) # {}

\* docs/architecture/offline-system.md: an ACKNOWLEDGED row stands for a message
\* that the server has stored, once, or is about to COMMIT, through whatever
\* timeouts, resends, restarts and pending cancellations.  Only a COMMIT that
\* fails after the answer is out leaves it without its message.
AckedIsStored ==
  \A o \in Ops : op[o].status = "ACKNOWLEDGED" =>
    \/ Cardinality(Server!Stored(o)) = 1
    \/ \E n \in 1..MaxAttempts : call[<<o, n>>].phase \in {"answered", "lost"}

\* "local cancellation can never replace an ACK", nor anything else a terminal
\* row: late answers, stale runs and recovery leave it until it is removed, and
\* no run sends it again, nor a row whose cancellation is pending ("No blind
\* replay").
TerminalIsFinal ==
  [][\A o \in Ops :
       /\ op[o].status \in Terminal => op'[o].status \in {op[o].status, "GONE"}
       /\ (\E n \in 1..MaxAttempts :
             call[<<o, n>>].phase = "new" /\ call'[<<o, n>>].phase # "new") =>
            op[o].status \notin Terminal \cup {"CANCEL_REQUESTED", "SYNCING", "GONE"}]_vars

\* offline-system.md says CANCELLED is "Cancelled before a worker claimed it":
\* such a message is not in the conversation.  It is not an invariant: a row
\* whose attempt timed out can be cancelled, and the server may have it.
CancelledNotStored ==
  \A o \in Ops : op[o].status = "CANCELLED" => ~InLog(o)

\* Automatic replay: with a network now and then and a process that is started
\* again now and then, no message stays on its way for ever: it is settled, or
\* waits for its user to sign in or decide.
Settles ==
  ([]<>(link # "down") /\ []<><<Restart>>_vars) =>
    \A o \in Ops :
      op[o].status \in Eligible \cup {"SYNCING"}
        ~> (op[o].status \notin Eligible \cup {"SYNCING"} \/ ~bound)

-----------------------------------------------------------------------------
\* The inductive invariant.

\* A row was made from a version the server has given out, the calls of an
\* operation carry its key, an answer stays, and an ACKNOWLEDGED row has had an
\* "ok" for one of its attempts.
SoundRow(o) ==
  /\ op[o].status \notin {"NONE", "GONE"} =>
       op[o].expected \in 1..conv[Chat].version
  /\ \A n \in 1..MaxAttempts :
       /\ call[<<o, n>>].phase # "new" => call[<<o, n>>].key = o
       /\ call[<<o, n>>].answer # "none" =>
            call[<<o, n>>].phase \in Server!Answered \cup Server!Ended
  /\ op[o].status = "ACKNOWLEDGED" =>
       \E n \in 1..MaxAttempts : call[<<o, n>>].answer = "ok"

IndInv == TypeOK /\ Server!IndInv /\ \A o \in Ops : SoundRow(o)
=============================================================================
