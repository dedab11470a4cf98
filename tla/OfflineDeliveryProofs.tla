----------------------- MODULE OfflineDeliveryProofs ------------------------
(***************************************************************************)
(* Proofs about OfflineDelivery, for every set of operations and every     *)
(* limit on attempts.  The theorems about TextAssistant are cited for the  *)
(* server the queue talks to: the queue only ever submits under a version  *)
(* that was given out, so that its server is a TextAssistant.              *)
(***************************************************************************)
EXTENDS OfflineDelivery, FiniteSetTheorems, TLAPS

Attempts == Ops \X (1..MaxAttempts)

\* TextAssistant once more, with what is proved about it.
Proved == INSTANCE TextAssistantProofs WITH
  Conversations <- {Chat}, Calls <- Ops \X (1..MaxAttempts),
  Keys <- Ops, Bodies <- Ops

USE DEF Server!Answered, Proved!Answered, Server!Ended, Proved!Ended,
        Server!Reading, Proved!Reading

-----------------------------------------------------------------------------
\* The two instances of TextAssistant are one.

\* What TextAssistant asks of its constants.
LEMMA ServerAssumptions == Proved!NullAssumption /\ Proved!CommitAssumption
BY NullAssumption, CommitAssumption DEF Proved!NullAssumption, Proved!CommitAssumption

\* Stored pairs.
LEMMA SameStored == \A key : Server!Stored(key) = Proved!Stored(key)
BY DEF Server!Stored, Proved!Stored

\* The invariant of the server.
LEMMA SameIndInv == Server!IndInv <=> Proved!IndInv
<1>1. Server!TypeOK <=> Proved!TypeOK
  BY DEF Server!TypeOK, Proved!TypeOK, Server!Conversation, Proved!Conversation,
         Server!Pair, Proved!Pair, Server!Call, Proved!Call, Server!Phases,
         Proved!Phases, Server!Answers, Proved!Answers
<1>2. Server!LogSound <=> Proved!LogSound
  BY DEF Server!LogSound, Proved!LogSound
<1>3. Server!SequencesOrdered <=> Proved!SequencesOrdered
  BY DEF Server!SequencesOrdered, Proved!SequencesOrdered, Server!Numbers,
         Proved!Numbers, Server!Skipped, Proved!Skipped, Server!GivenOut,
         Proved!GivenOut
<1>4. Server!RepliesSeeHistory <=> Proved!RepliesSeeHistory
  BY DEF Server!RepliesSeeHistory, Proved!RepliesSeeHistory
<1>5. Server!CallsSound <=> Proved!CallsSound
  BY DEF Server!CallsSound, Proved!CallsSound, Server!SoundCall, Proved!SoundCall,
         Server!Exclusive, Proved!Exclusive, Server!Writing, Proved!Writing,
         Server!Stored, Proved!Stored, Server!SameMessage, Proved!SameMessage
<1> QED BY <1>1, <1>2, <1>3, <1>4, <1>5 DEF Server!IndInv, Proved!IndInv

\* The initial state and the steps of the server.
LEMMA SameInit == Server!Init <=> Proved!Init
BY DEF Server!Init, Proved!Init, Server!NoConversation, Proved!NoConversation,
       Server!NoCall, Proved!NoCall

\* CreateConversation is one action in both.
LEMMA SameCreate ==
  Server!CreateConversation(Chat) <=> Proved!CreateConversation(Chat)
BY DEF Server!CreateConversation, Proved!CreateConversation

\* Submit is one action in both.
LEMMA SameSubmit ==
  ASSUME NEW q, NEW key, NEW body, NEW expected
  PROVE  Server!Submit(q, Chat, key, body, expected)
           <=> Proved!Submit(q, Chat, key, body, expected)
BY DEF Server!Submit, Proved!Submit, Server!Advance, Proved!Advance, Server!Set,
       Proved!Set, Server!NoCall, Proved!NoCall

\* So are the steps of the server.
LEMMA SameServe ==
  ASSUME NEW q
  PROVE  Server!Serve(q) <=> Proved!Serve(q)
<1>1. \A w : Server!Advance(q, w) <=> Proved!Advance(q, w)
  BY DEF Server!Advance, Proved!Advance, Server!Set, Proved!Set
<1>2. \A answer : Server!Reply(q, answer) <=> Proved!Reply(q, answer)
  BY <1>1 DEF Server!Reply, Proved!Reply
<1>3. Server!Replay(q) <=> Proved!Replay(q)
  BY <1>2, SameStored DEF Server!Replay, Proved!Replay, Server!Existing,
     Proved!Existing, Server!SameMessage, Proved!SameMessage
<1>4. Server!Lookup(q) <=> Proved!Lookup(q)
  BY <1>1, <1>3, SameStored DEF Server!Lookup, Proved!Lookup
<1>5. Server!ReadConversation(q) <=> Proved!ReadConversation(q)
  BY <1>1, <1>2 DEF Server!ReadConversation, Proved!ReadConversation
<1>6. Server!ReadHistory(q) <=> Proved!ReadHistory(q)
  BY <1>1 DEF Server!ReadHistory, Proved!ReadHistory
<1>7. Server!Writing = Proved!Writing /\ Server!Phases = Proved!Phases
  BY DEF Server!Writing, Proved!Writing, Server!Phases, Proved!Phases
<1>8. Server!Reserve(q) <=> Proved!Reserve(q)
  BY <1>1, <1>2, <1>3, <1>7, SameStored DEF Server!Reserve, Proved!Reserve,
     Server!VersionHolds, Proved!VersionHolds, Server!LoseReservation,
     Proved!LoseReservation
<1>9. Server!Insert(q) <=> Proved!Insert(q)
  <2>1. Server!Collide(q) <=> Proved!Collide(q)
    BY <1>1, <1>2, SameStored DEF Server!Collide, Proved!Collide, Server!Repeat,
       Proved!Repeat, Server!SameMessage, Proved!SameMessage
  <2> QED BY <1>1, <2>1, SameStored DEF Server!Insert, Proved!Insert, Server!KeyTaken,
             Proved!KeyTaken
<1>10. Server!Answer(q) <=> Proved!Answer(q)
  BY <1>1 DEF Server!Answer, Proved!Answer
<1>11. Server!Commit(q) <=> Proved!Commit(q)
  BY DEF Server!Commit, Proved!Commit, Server!Set, Proved!Set, Server!Reserved,
         Proved!Reserved, Server!NextSequence, Proved!NextSequence
<1>12. Server!CommitRepeat(q) <=> Proved!CommitRepeat(q)
  BY DEF Server!CommitRepeat, Proved!CommitRepeat, Server!Set, Proved!Set,
         Server!Reserved, Proved!Reserved, Server!NextSequence, Proved!NextSequence
<1>13. Server!Raise(q) <=> Proved!Raise(q)
  BY <1>2, <1>7 DEF Server!Raise, Proved!Raise
<1>14. Server!FailCommit(q) <=> Proved!FailCommit(q)
  BY <1>1 DEF Server!FailCommit, Proved!FailCommit
<1> QED BY <1>4, <1>5, <1>6, <1>8, <1>9, <1>10, <1>11, <1>12, <1>13, <1>14
        DEF Server!Serve, Proved!Serve

-----------------------------------------------------------------------------
\* Rows and work.

\* The shapes of the queue's own variables.
QueueType ==
  /\ op \in [Ops -> Op]
  /\ work \in [Ops -> Work]
  /\ bound \in BOOLEAN /\ online \in BOOLEAN /\ observed \in BOOLEAN
  /\ link \in {"down", "probing", "up"}

\* What every step of the queue does to a row: it is made from a version the
\* conversation has, keeps the one it was made from, is acknowledged only after
\* an "ok", and stays as it is once it is settled.
Kept(o) ==
  /\ op'[o].status \notin {"NONE", "GONE"} =>
       \/ /\ op[o].status \notin {"NONE", "GONE"}
          /\ op'[o].expected = op[o].expected
       \/ op'[o].expected \in 1..conv[Chat].version
  /\ op'[o].status = "ACKNOWLEDGED" =>
       \/ op[o].status = "ACKNOWLEDGED"
       \/ \E n \in 1..MaxAttempts : call[<<o, n>>].answer = "ok"
  /\ op[o].status \in Terminal => op'[o].status \in {op[o].status, "GONE"}

AllKept == \A o \in Ops : Kept(o)

\* The sets of states are disjoint, and a row not yet made is in none of them.
LEMMA StatusSets ==
  /\ Active \subseteq Statuses /\ Terminal \subseteq Statuses /\ Eligible \subseteq Active
  /\ \A s \in Active : s \notin Terminal \cup {"NONE", "GONE", "SYNCING"}
  /\ {"ACKNOWLEDGED", "REJECTED", "CANCELLED", "TERMINAL_FAILURE"} = Terminal
  /\ {"NONE", "ENTERING", "GONE", "SYNCING", "CANCEL_REQUESTED", "PENDING",
      "WAITING_FOR_NETWORK", "RETRYABLE_FAILURE", "AUTH_REQUIRED"} \subseteq Statuses
BY DEF Active, Terminal, Eligible, Statuses

\* A row that does not change is kept.
LEMMA RowsStay == QueueType /\ op' = op => AllKept
BY DEF AllKept, Kept

\* An empty row, and one that is gone.
LEMMA NoOpType ==
  /\ NoOp \in Op /\ NoOp.status = "NONE"
  /\ [NoOp EXCEPT !.status = "GONE"] \in Op
  /\ [NoOp EXCEPT !.status = "GONE"].status = "GONE"
<1>1. 0 \in 0..MaxAttempts /\ "NONE" \in Statuses /\ "GONE" \in Statuses
  BY BoundsAssumption DEF Statuses
<1>2. NoOp \in Op /\ NoOp.status = "NONE"
  BY <1>1 DEF NoOp, Op
<1>3. [NoOp EXCEPT !.status = "GONE"] \in Op
  BY <1>1, <1>2 DEF Op
<1>4. [NoOp EXCEPT !.status = "GONE"].status = "GONE"
  BY DEF NoOp
<1> QED BY <1>2, <1>3, <1>4

\* The work of WorkManager keeps its shape.
LEMMA WorkType ==
  ASSUME QueueType
  PROVE  /\ NoWork \in Work
         /\ \A os : Scheduled(os) \in [Ops -> Work]
         /\ \A o \in Ops : Finished(o) \in [Ops -> Work] /\ Again(o) \in [Ops -> Work]
         /\ [o \in Ops |-> NoWork] \in [Ops -> Work]
<1>1. NoWork \in Work /\ [NoWork EXCEPT !.state = "enqueued"] \in Work
  BY BoundsAssumption DEF NoWork, Work
<1>2. \A o \in Ops : [work[o] EXCEPT !.state = "enqueued"] \in Work
  BY DEF QueueType, Work
<1>3. \A o \in Ops : Again(o) \in [Ops -> Work]
  BY <1>2 DEF Again, QueueType
<1> QED BY <1>1, <1>3 DEF QueueType, Scheduled, Finished

\* transition moves the row of one operation, if it is where it is looked for.
LEMMA MovedRow ==
  ASSUME QueueType, NEW o \in Ops, NEW from, NEW to \in Statuses
  PROVE  /\ Moved(o, from, to) \in [Ops -> Op]
         /\ \A p \in Ops : Moved(o, from, to)[p].expected = op[p].expected
         /\ \A p \in Ops \ {o} : Moved(o, from, to)[p] = op[p]
         /\ op[o].status \in from => Moved(o, from, to)[o].status = to
         /\ op[o].status \notin from => Moved(o, from, to) = op
<1>1. op \in [Ops -> Op] /\ op[o] \in Op
  BY DEF QueueType
<1> DEFINE r == [op[o] EXCEPT !.status = to, !.later = FALSE]
<1>2. r \in Op /\ r.expected = op[o].expected /\ r.status = to
  BY <1>1 DEF Op
<1>3. op[o].status \in from => Moved(o, from, to) = [op EXCEPT ![o] = r]
  BY <1>1 DEF Moved, Op
<1>4. op[o].status \notin from => Moved(o, from, to) = op
  BY DEF Moved
<1> HIDE DEF r
<1> QED BY <1>1, <1>2, <1>3, <1>4

\* A row that is moved out of states that are not settled, into a state that is
\* no acknowledgement or is one for an "ok", is kept.
LEMMA MoveKeeps ==
  ASSUME QueueType, NEW o \in Ops, NEW from, NEW to \in Statuses,
         op' = Moved(o, from, to),
         \A s \in from : s \notin Terminal \cup {"NONE", "GONE"},
         to = "ACKNOWLEDGED" =>
           \E n \in 1..MaxAttempts : call[<<o, n>>].answer = "ok"
  PROVE  op' \in [Ops -> Op] /\ AllKept
<1>1. /\ op' \in [Ops -> Op]
      /\ \A p \in Ops : op'[p].expected = op[p].expected
      /\ \A p \in Ops \ {o} : op'[p] = op[p]
      /\ op[o].status \in from => op'[o].status = to
      /\ op[o].status \notin from => op' = op
  BY MovedRow
<1>2. \A p \in Ops \ {o} : Kept(p)
  BY <1>1 DEF Kept
<1>3. Kept(o)
  BY <1>1 DEF Kept
<1> QED BY <1>1, <1>2, <1>3 DEF AllKept

-----------------------------------------------------------------------------
\* The steps of the queue.

Quiet == QueueType' /\ AllKept /\ UNCHANGED server

\* A step that leaves the rows alone.
LEMMA RowsAlone ==
  ASSUME QueueType, op' = op, work' \in [Ops -> Work],
         bound' \in BOOLEAN, online' \in BOOLEAN, observed' \in BOOLEAN,
         link' \in {"down", "probing", "up"}, UNCHANGED server
  PROVE  Quiet
BY RowsStay DEF Quiet, QueueType

\* Every row and all work is removed.
LEMMA ClearAllKeeps ==
  ASSUME QueueType, ClearAll
  PROVE  op' \in [Ops -> Op] /\ work' \in [Ops -> Work] /\ AllKept
<1>1. op' \in [Ops -> Op]
  BY NoOpType DEF ClearAll, QueueType
<1>2. work' \in [Ops -> Work]
  BY WorkType DEF ClearAll
<1>3. ASSUME NEW o \in Ops PROVE Kept(o)
  <2>1. CASE o \in Rows
    <3>1. op'[o].status = "GONE"
      BY <2>1, NoOpType DEF ClearAll
    <3> QED BY <3>1 DEF Kept
  <2>2. CASE o \notin Rows
    <3>1. op'[o] = op[o]
      BY <2>2 DEF ClearAll
    <3> QED BY <3>1 DEF Kept
  <2> QED BY <2>1, <2>2
<1> QED BY <1>1, <1>2, <1>3 DEF AllKept

\* enqueueMessage up to the insert.
LEMMA EnterQueueStep ==
  ASSUME QueueType, NEW o \in Ops, EnterQueue(o), conv[Chat].version \in Nat
  PROVE  Quiet
<1>1. PICK expected \in 1..conv[Chat].version :
        op' = [op EXCEPT ![o].status = "ENTERING", ![o].expected = expected]
  BY DEF EnterQueue
<1> DEFINE r == [op[o] EXCEPT !.status = "ENTERING", !.expected = expected]
<1>2. op \in [Ops -> Op] /\ op[o] \in Op /\ expected \in Nat
  BY DEF QueueType
<1>3. r \in Op /\ r.status = "ENTERING" /\ r.expected = expected
  BY <1>2, StatusSets DEF Op
<1>4. op' = [op EXCEPT ![o] = r]
  BY <1>1, <1>2 DEF Op
<1> HIDE DEF r
<1>5. /\ op' \in [Ops -> Op] /\ op'[o] = r
      /\ \A p \in Ops \ {o} : op'[p] = op[p]
  BY <1>2, <1>3, <1>4
<1>6. op[o].status = "NONE" /\ UNCHANGED <<server, work, bound, net>>
  BY DEF EnterQueue
<1>7. Kept(o)
  BY <1>3, <1>5, <1>6, StatusSets DEF Kept
<1>8. \A p \in Ops \ {o} : Kept(p)
  BY <1>5 DEF Kept
<1> QED BY <1>5, <1>6, <1>7, <1>8 DEF Quiet, AllKept, QueueType, net

\* The row is inserted.
LEMMA EnqueueStep ==
  ASSUME QueueType, NEW o \in Ops, Enqueue(o)
  PROVE  Quiet
<1> DEFINE to == IF online THEN "PENDING" ELSE "WAITING_FOR_NETWORK"
           r  == [op[o] EXCEPT !.status = to]
<1>1. op \in [Ops -> Op] /\ op[o] \in Op
  BY DEF QueueType
<1>2. to \in Statuses /\ to \notin Terminal
  BY StatusSets DEF Terminal
<1>3. op' = [op EXCEPT ![o] = r]
  BY <1>1 DEF Enqueue, Op
<1> HIDE DEF to
<1>4. r \in Op /\ r.status = to /\ r.expected = op[o].expected
  BY <1>1, <1>2 DEF Op
<1> HIDE DEF r
<1>5. /\ op' \in [Ops -> Op] /\ op'[o] = r
      /\ \A p \in Ops \ {o} : op'[p] = op[p]
  BY <1>1, <1>3, <1>4
<1>6. /\ op[o].status = "ENTERING" /\ UNCHANGED <<server, bound, net>>
      /\ work' \in [Ops -> Work]
  BY WorkType DEF Enqueue, QueueType
<1>7. Kept(o)
  BY <1>2, <1>4, <1>5, <1>6 DEF Kept, Terminal
<1>8. \A p \in Ops \ {o} : Kept(p)
  BY <1>5 DEF Kept
<1> QED BY <1>5, <1>6, <1>7, <1>8 DEF Quiet, AllKept, QueueType, net

\* A run that ends before it has claimed its row.
LEMMA UnclaimedStep ==
  ASSUME QueueType, NEW o \in Ops, GiveUp(o) \/ Decline(o) \/ FindCorrupt(o)
  PROVE  Quiet
<1>1. work' \in [Ops -> Work] /\ UNCHANGED <<server, bound, net>>
  BY WorkType DEF GiveUp, Decline, FindCorrupt
<1>2. op' \in [Ops -> Op] /\ AllKept
  <2>1. CASE op' = op
    BY <2>1, RowsStay DEF QueueType
  <2>2. CASE op' = Moved(o, Active, "TERMINAL_FAILURE")
    BY <2>2, MoveKeeps, StatusSets
  <2>3. CASE op' = Moved(o, Eligible, "AUTH_REQUIRED")
    BY <2>3, MoveKeeps, StatusSets
  <2> QED BY <2>1, <2>2, <2>3 DEF GiveUp, Decline, FindCorrupt
<1> QED BY <1>1, <1>2 DEF Quiet, QueueType, net

\* claimForSync: the row is sent, and the attempt counted.
LEMMA ClaimStep ==
  ASSUME QueueType, NEW o \in Ops, Claim(o)
  PROVE  QueueType' /\ AllKept /\ op[o].status \in Active
<1> DEFINE r == [op[o] EXCEPT !.status = "SYNCING", !.later = FALSE,
                              !.attempts = op[o].attempts + 1]
           k == [work[o] EXCEPT !.state = "running", !.runs = work[o].runs + 1]
<1>1. op \in [Ops -> Op] /\ op[o] \in Op /\ work \in [Ops -> Work] /\ work[o] \in Work
  BY DEF QueueType
<1>2. /\ op[o].status \in Active /\ op[o].attempts < MaxAttempts
      /\ work[o].runs < MaxAttempts /\ UNCHANGED <<bound, net>>
  BY DEF Claim, RunsLeft
<1>3. /\ op[o].attempts + 1 \in 0..MaxAttempts
      /\ work[o].runs + 1 \in 0..MaxAttempts
  BY <1>1, <1>2, BoundsAssumption DEF Op, Work
<1>4. r \in Op /\ r.status = "SYNCING" /\ r.expected = op[o].expected
  BY <1>1, <1>3, StatusSets DEF Op
<1>5. k \in Work
  BY <1>1, <1>3 DEF Work
<1>6. op' = [op EXCEPT ![o] = r] /\ work' = [work EXCEPT ![o] = k]
  BY <1>1 DEF Claim, Op, Work
<1> HIDE DEF r, k
<1>7. /\ op' \in [Ops -> Op] /\ op'[o] = r /\ work' \in [Ops -> Work]
      /\ \A p \in Ops \ {o} : op'[p] = op[p]
  BY <1>1, <1>4, <1>5, <1>6
<1>8. Kept(o)
  BY <1>2, <1>4, <1>7, StatusSets DEF Kept
<1>9. \A p \in Ops \ {o} : Kept(p)
  BY <1>7 DEF Kept
<1> QED BY <1>2, <1>7, <1>8, <1>9 DEF AllKept, QueueType, net

\* The worker is stopped before its claim.
LEMMA CutShortStep ==
  ASSUME QueueType, NEW o \in Ops, CutShort(o)
  PROVE  Quiet
<1> DEFINE k == [work[o] EXCEPT !.runs = work[o].runs + 1]
<1>1. work \in [Ops -> Work] /\ work[o] \in Work /\ work[o].runs < MaxAttempts
  BY DEF QueueType, CutShort, RunsLeft
<1>2. work[o].runs + 1 \in 0..MaxAttempts
  BY <1>1, BoundsAssumption DEF Work
<1>3. k \in Work
  BY <1>1, <1>2 DEF Work
<1>4. work' = [work EXCEPT ![o] = k]
  BY <1>1 DEF CutShort, Work
<1> HIDE DEF k
<1>5. work' \in [Ops -> Work] /\ UNCHANGED <<server, op, bound, net>>
  BY <1>1, <1>3, <1>4 DEF CutShort
<1> QED BY <1>5, RowsAlone DEF QueueType, net

\* A failure that may be retried, of a row that is still SYNCING.
LEMMA PostponeKeeps ==
  ASSUME QueueType, NEW o \in Ops, Postpone(o)
  PROVE  op' \in [Ops -> Op] /\ work' \in [Ops -> Work] /\ AllKept
<1>1. work' \in [Ops -> Work]
  BY WorkType DEF Postpone
<1>2. CASE op' = op
  BY <1>1, <1>2, RowsStay DEF QueueType
<1>3. CASE op' = Moved(o, {"SYNCING"}, "TERMINAL_FAILURE")
  BY <1>1, <1>3, MoveKeeps, StatusSets DEF Terminal
<1>4. CASE /\ op[o].status = "SYNCING"
           /\ op' = [op EXCEPT ![o].status = "RETRYABLE_FAILURE", ![o].later = TRUE]
  <2> DEFINE r == [op[o] EXCEPT !.status = "RETRYABLE_FAILURE", !.later = TRUE]
  <2>1. op \in [Ops -> Op] /\ op[o] \in Op
    BY DEF QueueType
  <2>2. r \in Op /\ r.status = "RETRYABLE_FAILURE" /\ r.expected = op[o].expected
    BY <2>1, StatusSets DEF Op
  <2>3. op' = [op EXCEPT ![o] = r]
    BY <1>4, <2>1 DEF Op
  <2> HIDE DEF r
  <2>4. op' \in [Ops -> Op] /\ op'[o] = r /\ \A p \in Ops \ {o} : op'[p] = op[p]
    BY <2>1, <2>2, <2>3
  <2>5. Kept(o)
    BY <1>4, <2>2, <2>4 DEF Kept, Terminal
  <2>6. \A p \in Ops \ {o} : Kept(p)
    BY <2>4 DEF Kept
  <2> QED BY <1>1, <2>4, <2>5, <2>6 DEF AllKept
<1> QED BY <1>2, <1>3, <1>4 DEF Postpone

\* handleFailure, for a failure that may be retried.
LEMMA RetryKeeps ==
  ASSUME QueueType, NEW o \in Ops, Retry(o)
  PROVE  op' \in [Ops -> Op] /\ work' \in [Ops -> Work] /\ AllKept
<1>1. CASE op' = op /\ work' = Finished(o)
  BY <1>1, RowsStay, WorkType DEF QueueType
<1>2. CASE Postpone(o)
  BY <1>2, PostponeKeeps
<1> QED BY <1>1, <1>2 DEF Retry

\* onDeviceRevoked, whether or not it gets to the rows.
LEMMA RevokeKeeps ==
  ASSUME QueueType, NEW o \in Ops, Revoke(o)
  PROVE  op' \in [Ops -> Op] /\ work' \in [Ops -> Work] /\ AllKept /\ bound' \in BOOLEAN
<1>1. CASE ClearAll /\ bound' = FALSE
  BY <1>1, ClearAllKeeps
<1>2. CASE /\ op' = Moved(o, {"SYNCING"}, "REJECTED")
           /\ work' = [p \in Ops |-> NoWork]
           /\ UNCHANGED bound
  <2>1. op' \in [Ops -> Op] /\ AllKept
    BY <1>2, MoveKeeps, StatusSets DEF Terminal
  <2> QED BY <1>2, <2>1, WorkType DEF QueueType
<1> QED BY <1>1, <1>2 DEF Revoke

\* An answer arrives: only "ok" acknowledges the row.
LEMMA ReceiveStep ==
  ASSUME QueueType, NEW o \in Ops, Receive(o)
  PROVE  Quiet
<1>1. /\ op[o].attempts > 0 /\ op[o] \in Op
      /\ UNCHANGED <<server, link, observed>>
      /\ online' \in BOOLEAN
  BY DEF Receive, QueueType
<1>2. op[o].attempts \in 1..MaxAttempts
  BY <1>1, BoundsAssumption DEF Op
<1>3. op' \in [Ops -> Op] /\ work' \in [Ops -> Work] /\ AllKept /\ bound' \in BOOLEAN
  <2>1. CASE /\ AnswerOf(o) \in Delivered
             /\ Acknowledge(o) \/ Postpone(o)
             /\ UNCHANGED bound
    <3>1. CASE Acknowledge(o)
      <4>1. \E n \in 1..MaxAttempts : call[<<o, n>>].answer = "ok"
        BY <1>2, <2>1 DEF AnswerOf, Delivered
      <4>2. op' = Moved(o, {"SYNCING", "CANCEL_REQUESTED"}, "ACKNOWLEDGED")
        BY <3>1 DEF Acknowledge
      <4>3. op' \in [Ops -> Op] /\ AllKept
        BY <4>1, <4>2, MoveKeeps, StatusSets DEF Terminal
      <4> QED BY <2>1, <3>1, <4>3, WorkType DEF Acknowledge, QueueType
    <3>2. CASE Postpone(o)
      BY <2>1, <3>2, PostponeKeeps DEF QueueType
    <3> QED BY <2>1, <3>1, <3>2
  <2>2. CASE Retry(o) /\ UNCHANGED bound
    BY <2>2, RetryKeeps DEF QueueType
  <2>3. CASE op' = op /\ work' = Finished(o) /\ UNCHANGED bound
    BY <2>3, RowsStay, WorkType DEF QueueType
  <2>4. CASE Revoke(o)
    BY <2>4, RevokeKeeps
  <2>5. CASE /\ \E to \in Dispositions(AnswerOf(o)) : op' = Moved(o, {"SYNCING"}, to)
             /\ work' = Finished(o)
             /\ UNCHANGED bound
    <3>1. Dispositions(AnswerOf(o)) \subseteq {"AUTH_REQUIRED", "REJECTED", "TERMINAL_FAILURE"}
      BY DEF Dispositions
    <3>2. PICK to \in {"AUTH_REQUIRED", "REJECTED", "TERMINAL_FAILURE"} :
            op' = Moved(o, {"SYNCING"}, to)
      BY <2>5, <3>1
    <3>3. to \in Statuses /\ to # "ACKNOWLEDGED"
      BY StatusSets
    <3>4. op' \in [Ops -> Op] /\ AllKept
      BY <3>2, <3>3, MoveKeeps DEF Terminal
    <3> QED BY <2>5, <3>4, WorkType DEF QueueType
  <2> QED BY <2>1, <2>2, <2>3, <2>4, <2>5 DEF Receive
<1> QED BY <1>1, <1>3 DEF Quiet, QueueType

\* A timeout, and a run that WorkManager stops.
LEMMA InterruptedStep ==
  ASSUME QueueType, NEW o \in Ops, TimeOut(o) \/ Stop(o)
  PROVE  Quiet
<1>1. CASE TimeOut(o)
  <2>1. op' \in [Ops -> Op] /\ work' \in [Ops -> Work] /\ AllKept
    BY <1>1, RetryKeeps DEF TimeOut
  <2> QED BY <1>1, <2>1 DEF TimeOut, Quiet, QueueType
<1>2. CASE Stop(o)
  BY <1>2, WorkType, RowsAlone DEF Stop, QueueType, net
<1> QED BY <1>1, <1>2

\* The user retries or cancels.
LEMMA UserStep ==
  ASSUME QueueType, NEW o \in Ops, RetryDelivery(o) \/ Cancel(o)
  PROVE  Quiet
<1>1. CASE RetryDelivery(o)
  BY <1>1, WorkType, RowsAlone DEF RetryDelivery, QueueType, net
<1>2. CASE Cancel(o)
  <2>1. work' \in [Ops -> Work] /\ UNCHANGED <<server, bound, net>>
    BY <1>2, WorkType DEF Cancel, QueueType
  <2>2. CASE op' = Moved(o, Cancellable, "CANCELLED")
    <3>1. op' \in [Ops -> Op] /\ AllKept
      BY <2>2, MoveKeeps, StatusSets DEF Cancellable
    <3> QED BY <2>1, <3>1 DEF Quiet, QueueType, net
  <2>3. CASE op' = Moved(o, {"SYNCING"}, "CANCEL_REQUESTED")
    <3>1. op' \in [Ops -> Op] /\ AllKept
      BY <2>3, MoveKeeps, StatusSets DEF Terminal
    <3> QED BY <2>1, <3>1 DEF Quiet, QueueType, net
  <2> QED BY <1>2, <2>2, <2>3 DEF Cancel
<1> QED BY <1>1, <1>2

\* The user is signed out.
LEMMA SignedOutStep ==
  ASSUME QueueType, Logout \/ AuthenticationExpired
  PROVE  Quiet
<1>1. CASE Logout
  <2>1. op' \in [Ops -> Op] /\ work' \in [Ops -> Work] /\ AllKept
    BY <1>1, ClearAllKeeps DEF Logout
  <2> QED BY <1>1, <2>1 DEF Logout, Quiet, QueueType, net
<1>2. CASE AuthenticationExpired
  BY <1>2, WorkType, RowsAlone DEF AuthenticationExpired, QueueType, net
<1> QED BY <1>1, <1>2

\* synchronizeEligible on rows that differ from those stored in no settled one.
LEMMA SynchronizeKeeps ==
  ASSUME QueueType, NEW rs \in [Ops -> Op], Synchronize(rs),
         \A o \in Ops : /\ rs[o].expected = op[o].expected
                        /\ \/ rs[o].status = op[o].status
                           \/ /\ op[o].status = "AUTH_REQUIRED"
                              /\ rs[o].status = "PENDING"
  PROVE  op' \in [Ops -> Op] /\ work' \in [Ops -> Work] /\ AllKept
<1>1. PICK old \in SUBSET {o \in Ops : rs[o].status \in Terminal} :
        op' = [o \in Ops |-> IF o \in old THEN [NoOp EXCEPT !.status = "GONE"]
                             ELSE rs[o]]
  BY DEF Synchronize
<1>2. op' \in [Ops -> Op]
  BY <1>1, NoOpType
<1>3. work' \in [Ops -> Work]
  BY WorkType DEF Synchronize
<1>4. ASSUME NEW o \in Ops PROVE Kept(o)
  <2>1. CASE o \in old
    <3>1. op'[o].status = "GONE"
      BY <1>1, <2>1, NoOpType
    <3> QED BY <3>1 DEF Kept
  <2>2. CASE o \notin old
    <3>1. op'[o] = rs[o]
      BY <1>1, <2>2
    <3>2. /\ op'[o].expected = op[o].expected
          /\ \/ op'[o].status = op[o].status
             \/ op[o].status = "AUTH_REQUIRED" /\ op'[o].status = "PENDING"
      BY <3>1
    <3> QED BY <3>2 DEF Kept, Terminal
  <2> QED BY <2>1, <2>2
<1> QED BY <1>2, <1>3, <1>4 DEF AllKept

\* Signing in resumes the rows that wait for it, or removes all.
LEMMA SignInStep ==
  ASSUME QueueType, SignIn
  PROVE  Quiet
<1>1. bound' \in BOOLEAN /\ UNCHANGED <<server, net>>
  BY DEF SignIn
<1>2. CASE Synchronize(Resumed)
  <2>1. \A o \in Ops : /\ op[o] \in Op
                       /\ [op[o] EXCEPT !.status = "PENDING", !.later = FALSE] \in Op
    BY StatusSets DEF QueueType, Op
  <2>2. Resumed \in [Ops -> Op]
    BY <2>1 DEF Resumed
  <2>3. ASSUME NEW o \in Ops
        PROVE  /\ Resumed[o].expected = op[o].expected
               /\ \/ Resumed[o].status = op[o].status
                  \/ op[o].status = "AUTH_REQUIRED" /\ Resumed[o].status = "PENDING"
    BY <2>1 DEF Resumed, Op
  <2>4. op' \in [Ops -> Op] /\ work' \in [Ops -> Work] /\ AllKept
    BY <1>2, <2>2, <2>3, SynchronizeKeeps
  <2> QED BY <1>1, <2>4 DEF Quiet, QueueType, net
<1>3. CASE ClearAll
  <2>1. op' \in [Ops -> Op] /\ work' \in [Ops -> Work] /\ AllKept
    BY <1>3, ClearAllKeeps
  <2> QED BY <1>1, <2>1 DEF Quiet, QueueType, net
<1> QED BY <1>2, <1>3 DEF SignIn

\* The link, the probe, the coordinator and the clock.
LEMMA SurroundingsStep ==
  ASSUME QueueType,
         LoseLink \/ GainLink \/ Probe \/ Sync \/ SeeOffline
           \/ \E o \in Ops : BackoffElapses(o)
  PROVE  Quiet
<1>1. CASE LoseLink \/ GainLink \/ Probe \/ SeeOffline
  <2>1. /\ op' = op /\ work' = work /\ bound' = bound /\ UNCHANGED server
    BY <1>1 DEF LoseLink, GainLink, Probe, SeeOffline
  <2>2. /\ online' \in BOOLEAN /\ observed' \in BOOLEAN
        /\ link' \in {"down", "probing", "up"}
    BY <1>1 DEF LoseLink, GainLink, Probe, SeeOffline, QueueType
  <2> QED BY <2>1, <2>2, RowsAlone DEF QueueType
<1>2. CASE Sync
  <2>1. CASE bound
    <3>1. op \in [Ops -> Op] /\ Synchronize(op)
      BY <1>2, <2>1 DEF Sync, QueueType
    <3>2. op' \in [Ops -> Op] /\ work' \in [Ops -> Work] /\ AllKept
      BY <3>1, SynchronizeKeeps
    <3> QED BY <1>2, <3>2 DEF Sync, Quiet, QueueType
  <2>2. CASE ~bound
    BY <1>2, <2>2, RowsAlone DEF Sync, QueueType
  <2> QED BY <2>1, <2>2 DEF QueueType
<1>3. ASSUME NEW o \in Ops, BackoffElapses(o) PROVE Quiet
  <2> DEFINE r == [op[o] EXCEPT !.later = FALSE]
  <2>1. op \in [Ops -> Op] /\ op[o] \in Op
    BY DEF QueueType
  <2>2. r \in Op /\ r.status = op[o].status /\ r.expected = op[o].expected
    BY <2>1 DEF Op
  <2>3. op' = [op EXCEPT ![o] = r]
    BY <1>3, <2>1 DEF BackoffElapses, Op
  <2> HIDE DEF r
  <2>4. op' \in [Ops -> Op] /\ op'[o] = r /\ \A p \in Ops \ {o} : op'[p] = op[p]
    BY <2>1, <2>2, <2>3
  <2>5. AllKept
    BY <2>2, <2>4 DEF AllKept, Kept
  <2> QED BY <1>3, <2>4, <2>5 DEF BackoffElapses, Quiet, QueueType, net
<1> QED BY <1>1, <1>2, <1>3

\* recoverInterruptedSync and terminateExhaustedRetries leave what is settled.
LEMMA RestartStep ==
  ASSUME QueueType, Restart
  PROVE  Quiet
<1>1. ASSUME NEW o \in Ops
      PROVE  /\ Recovered(o) \in Op
             /\ Recovered(o).status \notin {"NONE", "GONE"} =>
                  /\ op[o].status \notin {"NONE", "GONE"}
                  /\ Recovered(o).expected = op[o].expected
             /\ op[o].status \in Terminal => Recovered(o) = op[o]
             /\ Recovered(o).status = "ACKNOWLEDGED" => op[o].status = "ACKNOWLEDGED"
  <2>1. op[o] \in Op
    BY DEF QueueType
  <2>2. CASE Recovered(o) = op[o]
    BY <2>1, <2>2
  <2>3. CASE op[o].status = "ENTERING" /\ Recovered(o) = NoOp
    BY <2>3, NoOpType DEF Terminal
  <2>4. ASSUME NEW to \in {"TERMINAL_FAILURE", "RETRYABLE_FAILURE"},
               op[o].status \in {"SYNCING", "RETRYABLE_FAILURE"},
               Recovered(o) = [op[o] EXCEPT !.status = to, !.later = FALSE]
        PROVE  /\ Recovered(o) \in Op /\ Recovered(o).status = to
               /\ Recovered(o).expected = op[o].expected
    <3>1. to \in Statuses
      BY StatusSets
    <3> QED BY <2>1, <2>4, <3>1 DEF Op
  <2>5. \/ Recovered(o) = op[o]
        \/ op[o].status = "ENTERING" /\ Recovered(o) = NoOp
        \/ /\ op[o].status \in {"SYNCING", "RETRYABLE_FAILURE"}
           /\ \E to \in {"TERMINAL_FAILURE", "RETRYABLE_FAILURE"} :
                Recovered(o) = [op[o] EXCEPT !.status = to, !.later = FALSE]
    <3>1. op[o].attempts \in Int /\ MaxAttempts \in Int
      BY <2>1, BoundsAssumption DEF Op
    <3>2. CASE op[o].status \notin {"SYNCING", "RETRYABLE_FAILURE", "ENTERING"}
      BY <3>2 DEF Recovered
    <3>3. CASE op[o].status = "ENTERING"
      BY <3>3 DEF Recovered
    <3>4. CASE /\ op[o].status \in {"SYNCING", "RETRYABLE_FAILURE"}
               /\ op[o].attempts >= MaxAttempts
      BY <3>1, <3>4 DEF Recovered
    <3>5. CASE /\ op[o].status \in {"SYNCING", "RETRYABLE_FAILURE"}
               /\ op[o].attempts < MaxAttempts
      BY <3>1, <3>5 DEF Recovered
    <3> QED BY <3>1, <3>2, <3>3, <3>4, <3>5
  <2> QED BY <2>2, <2>3, <2>4, <2>5 DEF Terminal
<1>2. op' = [o \in Ops |-> Recovered(o)]
  BY DEF Restart
<1>3. op' \in [Ops -> Op] /\ \A o \in Ops : op'[o] = Recovered(o)
  BY <1>1, <1>2
<1>4. AllKept
  BY <1>1, <1>3 DEF AllKept, Kept
<1>5. \A o \in Ops : /\ work[o] \in Work
                     /\ [work[o] EXCEPT !.state = "enqueued"] \in Work
  BY DEF QueueType, Work
<1>6. work' \in [Ops -> Work]
  BY <1>5 DEF Restart
<1>7. /\ link' \in {"down", "probing", "up"} /\ online' = FALSE /\ observed' = FALSE
      /\ bound' = bound /\ UNCHANGED server
  BY DEF Restart, QueueType
<1> QED BY <1>3, <1>4, <1>6, <1>7 DEF Quiet, QueueType

-----------------------------------------------------------------------------
\* The server of the queue is a TextAssistant.

\* The next-state relations of the two instances are one.
LEMMA SameNext ==
  [Server!Next]_(Server!vars) <=> [Proved!Next]_(Proved!vars)
<1>1. Server!vars = Proved!vars /\ (UNCHANGED Server!vars <=> UNCHANGED Proved!vars)
  BY DEF Server!vars, Proved!vars
<1>2. Server!Next <=> Proved!Next
  BY SameCreate, SameServe, SameSubmit DEF Server!Next, Proved!Next
<1> QED BY <1>1, <1>2

\* The shapes, and what the server's invariant says of the version.
LEMMA Shapes ==
  ASSUME IndInv
  PROVE  /\ QueueType /\ conv[Chat].version \in Nat
         /\ call \in [Attempts -> Server!Call] /\ DOMAIN call = Attempts
         /\ conv \in [{Chat} -> Server!Conversation]
BY DEF IndInv, TypeOK, QueueType, Server!TypeOK, Server!Conversation, Attempts

\* What a claimed row sends is a message for the conversation, under a version
\* the conversation has had.
LEMMA ClaimSubmits ==
  ASSUME IndInv, NEW o \in Ops, Claim(o)
  PROVE  /\ <<o, op[o].attempts + 1>> \in Attempts
         /\ op[o].expected \in 1..(conv[Chat].version + 1)
<1>1. /\ op[o].status \in Active /\ op[o].attempts < MaxAttempts
      /\ op[o] \in Op /\ SoundRow(o) /\ conv[Chat].version \in Nat
  BY Shapes DEF Claim, QueueType, IndInv
<1>2. op[o].attempts + 1 \in 1..MaxAttempts
  BY <1>1, BoundsAssumption DEF Op
<1>3. op[o].expected \in 1..conv[Chat].version
  BY <1>1, StatusSets DEF SoundRow
<1> QED BY <1>1, <1>2, <1>3 DEF Attempts

\* Every step is one of the queue, of which the server sees nothing, one of the
\* server, or a claim.
LEMMA StepKinds ==
  ASSUME IndInv, [Next]_vars
  PROVE  \/ Quiet
         \/ Serve
         \/ \E o \in Ops : Claim(o)
<1>1. QueueType /\ conv[Chat].version \in Nat
  BY Shapes
<1>2. CASE UNCHANGED vars
  BY <1>1, <1>2, RowsAlone DEF vars, server, QueueType
<1>3. ASSUME NEW o \in Ops,
             \/ EnterQueue(o) \/ Enqueue(o) \/ GiveUp(o) \/ Decline(o) \/ FindCorrupt(o)
             \/ CutShort(o) \/ Receive(o) \/ TimeOut(o) \/ Stop(o)
             \/ RetryDelivery(o) \/ Cancel(o) \/ BackoffElapses(o)
      PROVE  Quiet
  <2>1. CASE EnterQueue(o) \/ Enqueue(o) \/ CutShort(o) \/ Receive(o)
    BY <1>1, <2>1, EnterQueueStep, EnqueueStep, CutShortStep, ReceiveStep
  <2>2. CASE GiveUp(o) \/ Decline(o) \/ FindCorrupt(o)
    BY <1>1, <2>2, UnclaimedStep
  <2>3. CASE TimeOut(o) \/ Stop(o)
    BY <1>1, <2>3, InterruptedStep
  <2>4. CASE RetryDelivery(o) \/ Cancel(o)
    BY <1>1, <2>4, UserStep
  <2>5. CASE BackoffElapses(o)
    BY <1>1, <2>5, SurroundingsStep
  <2> QED BY <1>3, <2>1, <2>2, <2>3, <2>4, <2>5
<1>4. CASE Logout \/ AuthenticationExpired
  BY <1>1, <1>4, SignedOutStep
<1>5. CASE SignIn
  BY <1>1, <1>5, SignInStep
<1>6. CASE LoseLink \/ GainLink \/ Probe \/ Sync \/ SeeOffline
  BY <1>1, <1>6, SurroundingsStep
<1>7. CASE Restart
  BY <1>1, <1>7, RestartStep
<1> QED BY <1>2, <1>3, <1>4, <1>5, <1>6, <1>7 DEF Next

\* Every step of the composition is a step of TextAssistant, or leaves it alone.
LEMMA ServerStep ==
  ASSUME IndInv, [Next]_vars
  PROVE  [Server!Next]_(Server!vars)
<1>1. CASE Quiet
  BY <1>1 DEF Quiet, server, Server!vars
<1>2. CASE Serve
  BY <1>2 DEF Serve, Server!Next
<1>3. ASSUME NEW o \in Ops, Claim(o) PROVE [Server!Next]_(Server!vars)
  <2>1. CASE UNCHANGED server
    BY <2>1 DEF server, Server!vars
  <2>2. CASE Server!Submit(<<o, op[o].attempts + 1>>, Chat, o, o, op[o].expected)
    <3>1. /\ <<o, op[o].attempts + 1>> \in Ops \X (1..MaxAttempts)
          /\ op[o].expected \in 1..(conv[Chat].version + 1)
      BY <1>3, ClaimSubmits DEF Attempts
    <3> QED BY <2>2, <3>1 DEF Server!Next
  <2> QED BY <1>3, <2>1, <2>2 DEF Claim
<1> QED BY <1>1, <1>2, <1>3, StepKinds

\* So the server's invariant is kept.
LEMMA ServerInv ==
  ASSUME IndInv, [Next]_vars
  PROVE  Server!IndInv'
<1>1. Proved!IndInv /\ [Proved!Next]_(Proved!vars)
  BY ServerStep, SameNext, SameIndInv DEF IndInv
<1>2. Proved!IndInv'
  BY <1>1, Proved!NextInv, ServerAssumptions
<1>3. (Server!IndInv <=> Proved!IndInv)'
  BY SameIndInv, PTL
<1> QED BY <1>2, <1>3

-----------------------------------------------------------------------------
\* The rows.

\* What a step does to the calls: they keep their key, an answer stays, and one
\* that was not made yet is made for a row that waits to be sent.
CallKept(o, n) ==
  /\ call'[<<o, n>>].phase # "new" => call'[<<o, n>>].key = o
  /\ call'[<<o, n>>].answer # "none" =>
       call'[<<o, n>>].phase \in Server!Answered \cup Server!Ended
  /\ call[<<o, n>>].answer = "ok" => call'[<<o, n>>].answer = "ok"
  /\ call[<<o, n>>].phase = "new" /\ call'[<<o, n>>].phase # "new" =>
       op[o].status \in Active

\* The calls of the server that move on.
LEMMA ServeCalls ==
  ASSUME IndInv, Serve, NEW o \in Ops, NEW n \in 1..MaxAttempts
  PROVE  CallKept(o, n) /\ conv'[Chat].version >= conv[Chat].version
<1>1. SoundRow(o) /\ conv[Chat].version \in Nat /\ conv \in [{Chat} -> Server!Conversation]
  BY Shapes DEF IndInv
<1>2. CASE Server!CreateConversation(Chat)
  <2>1. call' = call /\ conv[Chat].version = 0 /\ conv'[Chat].version = 1
    BY <1>1, <1>2 DEF Server!CreateConversation
  <2> QED BY <1>1, <2>1 DEF CallKept, SoundRow
<1>3. ASSUME NEW q \in Ops \X (1..MaxAttempts), Server!Serve(q)
      PROVE  CallKept(o, n) /\ conv'[Chat].version >= conv[Chat].version
  <2>1. Proved!IndInv /\ Proved!Serve(q)
    BY <1>3, SameIndInv, SameServe DEF IndInv
  <2>2. Proved!Progress(q) /\ conv'[Chat].version >= conv[Chat].version
    BY <2>1, Proved!ServeProgresses, ServerAssumptions
  <2>3. CASE q = <<o, n>>
    BY <1>1, <2>2, <2>3 DEF Proved!Progress, CallKept, SoundRow
  <2>4. CASE q # <<o, n>>
    <3>1. call'[<<o, n>>] = call[<<o, n>>]
      BY <2>2, <2>4 DEF Proved!Progress
    <3> QED BY <1>1, <2>2, <3>1 DEF CallKept, SoundRow
  <2> QED BY <2>3, <2>4
<1> QED BY <1>2, <1>3 DEF Serve

\* The call a claim makes.
LEMMA ClaimCalls ==
  ASSUME IndInv, NEW p \in Ops, Claim(p), NEW o \in Ops, NEW n \in 1..MaxAttempts
  PROVE  CallKept(o, n) /\ conv' = conv
<1>1. /\ SoundRow(o) /\ DOMAIN call = Attempts
      /\ <<p, op[p].attempts + 1>> \in Attempts /\ <<o, n>> \in Attempts
  BY Shapes, ClaimSubmits DEF IndInv, Attempts
<1>2. CASE UNCHANGED server
  <2>1. call' = call /\ conv' = conv
    BY <1>2 DEF server
  <2> QED BY <1>1, <2>1 DEF CallKept, SoundRow
<1>3. CASE Server!Submit(<<p, op[p].attempts + 1>>, Chat, p, p, op[p].expected)
  <2> DEFINE q == <<p, op[p].attempts + 1>>
             w == [Server!NoCall EXCEPT !.phase = "received", !.conv = Chat,
                     !.key = p, !.body = p, !.expected = op[p].expected]
  <2>1. w.phase = "received" /\ w.key = p /\ w.answer = "none"
    BY DEF Server!NoCall
  <2>2. call[q].phase = "new" /\ call' = [call EXCEPT ![q] = w] /\ conv' = conv
    BY <1>3 DEF Server!Submit, Server!Advance, Server!Set
  <2> HIDE DEF w
  <2>3. CASE <<o, n>> = q
    <3>1. call'[<<o, n>>] = w /\ o = p /\ call[<<o, n>>].phase = "new"
      BY <1>1, <2>2, <2>3
    <3>2. op[p].status \in Active
      BY DEF Claim
    <3> QED BY <1>1, <2>1, <2>2, <3>1, <3>2 DEF CallKept, SoundRow
  <2>4. CASE <<o, n>> # q
    <3>1. call'[<<o, n>>] = call[<<o, n>>]
      BY <1>1, <2>2, <2>4
    <3> QED BY <1>1, <2>2, <3>1 DEF CallKept, SoundRow
  <2> QED BY <2>3, <2>4
<1> QED BY <1>2, <1>3 DEF Claim

\* What every step does to a row, to its calls and to the version.
LEMMA RowStep ==
  ASSUME IndInv, [Next]_vars
  PROVE  /\ QueueType' /\ AllKept
         /\ \A o \in Ops : \A n \in 1..MaxAttempts : CallKept(o, n)
         /\ Ops # {} => conv'[Chat].version >= conv[Chat].version
<1>1. QueueType /\ conv[Chat].version \in Nat /\ \A o \in Ops : SoundRow(o)
  BY Shapes DEF IndInv
<1>2. 1 \in 1..MaxAttempts
  BY BoundsAssumption
<1>3. CASE Quiet
  <2>1. call' = call /\ conv' = conv /\ QueueType' /\ AllKept
    BY <1>3 DEF Quiet, server
  <2>2. \A o \in Ops : \A n \in 1..MaxAttempts : CallKept(o, n)
    BY <1>1, <2>1 DEF CallKept, SoundRow
  <2> QED BY <1>1, <2>1, <2>2
<1>4. CASE Serve
  <2>1. QueueType' /\ AllKept
    BY <1>1, <1>4, RowsStay DEF Serve, QueueType, net
  <2> QED BY <1>2, <1>4, <2>1, ServeCalls
<1>5. ASSUME NEW p \in Ops, Claim(p)
      PROVE  /\ QueueType' /\ AllKept
             /\ \A o \in Ops : \A n \in 1..MaxAttempts : CallKept(o, n)
             /\ conv'[Chat].version >= conv[Chat].version
  <2>1. QueueType' /\ AllKept
    BY <1>1, <1>5, ClaimStep
  <2>2. \A o \in Ops : \A n \in 1..MaxAttempts : CallKept(o, n) /\ conv' = conv
    BY <1>5, ClaimCalls
  <2> QED BY <1>1, <1>2, <2>1, <2>2
<1> QED BY <1>3, <1>4, <1>5, StepKinds

\* Every step keeps the invariant.
LEMMA NextInv ==
  ASSUME IndInv, [Next]_vars
  PROVE  IndInv'
<1>1. /\ QueueType' /\ AllKept
      /\ \A o \in Ops : \A n \in 1..MaxAttempts : CallKept(o, n)
      /\ Ops # {} => conv'[Chat].version >= conv[Chat].version
  BY RowStep
<1>2. Server!IndInv'
  BY ServerInv
<1>3. TypeOK'
  BY <1>1, <1>2 DEF TypeOK, QueueType, Server!IndInv
<1>4. ASSUME NEW o \in Ops PROVE SoundRow(o)'
  <2>1. SoundRow(o) /\ Kept(o) /\ \A n \in 1..MaxAttempts : CallKept(o, n)
    BY <1>1 DEF IndInv, AllKept
  <2>2. /\ conv[Chat].version \in Nat /\ conv'[Chat].version \in Nat
        /\ conv'[Chat].version >= conv[Chat].version
    BY <1>1, <1>3, Shapes DEF TypeOK, Server!TypeOK, Server!Conversation
  <2>3. op'[o].status \notin {"NONE", "GONE"} =>
          op'[o].expected \in 1..conv'[Chat].version
    <3>1. op'[o].status \notin {"NONE", "GONE"} =>
            op'[o].expected \in 1..conv[Chat].version
      BY <2>1 DEF Kept, SoundRow
    <3> QED BY <2>2, <3>1
  <2>4. \A n \in 1..MaxAttempts :
          /\ call'[<<o, n>>].phase # "new" => call'[<<o, n>>].key = o
          /\ call'[<<o, n>>].answer # "none" =>
               call'[<<o, n>>].phase \in Server!Answered \cup Server!Ended
    BY <2>1 DEF CallKept
  <2>5. op'[o].status = "ACKNOWLEDGED" =>
          \E n \in 1..MaxAttempts : call'[<<o, n>>].answer = "ok"
    BY <2>1 DEF Kept, SoundRow, CallKept
  <2> QED BY <2>3, <2>4, <2>5 DEF SoundRow
<1> QED BY <1>2, <1>3, <1>4 DEF IndInv

\* Nothing is queued and no call has been made.
LEMMA InitInv == Init => IndInv
<1> SUFFICES ASSUME Init PROVE IndInv
  OBVIOUS
<1>1. Server!IndInv
  BY Proved!InitInv, ServerAssumptions, SameInit, SameIndInv DEF Init
<1>2. TypeOK
  <2>1. NoWork \in Work
    BY BoundsAssumption DEF NoWork, Work
  <2> QED BY <1>1, <2>1, NoOpType DEF Init, TypeOK, Server!IndInv
<1>3. ASSUME NEW o \in Ops PROVE SoundRow(o)
  <2>1. op[o].status = "NONE"
    BY NoOpType DEF Init
  <2>2. \A n \in 1..MaxAttempts : call[<<o, n>>].phase = "new" /\ call[<<o, n>>].answer = "none"
    BY DEF Init, Server!Init, Server!NoCall
  <2> QED BY <2>1, <2>2 DEF SoundRow
<1> QED BY <1>1, <1>2, <1>3 DEF IndInv

-----------------------------------------------------------------------------
\* Theorems.

\* The invariant holds in every reachable state.
THEOREM Inductive == Spec => []IndInv
<1>1. IndInv /\ [Next]_vars => IndInv'
  BY NextInv
<1> QED BY InitInv, <1>1, PTL DEF Spec

\* The server's tables, the rows, the work and the network keep their shapes.
THEOREM TypeCorrect == Spec => []TypeOK
<1>1. IndInv => TypeOK
  BY DEF IndInv
<1> QED BY Inductive, <1>1, PTL

\* The queue's server is a TextAssistant: whatever workers, timeouts, restarts
\* and users do, what reaches it is what TextAssistant allows its callers.
THEOREM ServerImplementsTextAssistant == Spec => Server!Spec
<1>1. Init => Server!Init
  BY DEF Init
<1>2. IndInv /\ [Next]_vars => [Server!Next]_(Server!vars)
  BY ServerStep
<1> QED BY Inductive, <1>1, <1>2, PTL DEF Spec, Server!Spec

\* A row is ACKNOWLEDGED only for a message that is stored once, or about to be,
\* or lost with a COMMIT that failed after its answer.
THEOREM AcknowledgedIsStored == Spec => []AckedIsStored
<1>1. ASSUME IndInv PROVE AckedIsStored
  <2>1. SUFFICES ASSUME NEW o \in Ops, op[o].status = "ACKNOWLEDGED",
                        \A n \in 1..MaxAttempts :
                          call[<<o, n>>].phase \notin {"answered", "lost"}
                 PROVE  Cardinality(Server!Stored(o)) = 1
    BY DEF AckedIsStored
  <2>2. PICK n \in 1..MaxAttempts : call[<<o, n>>].answer = "ok"
    BY <1>1, <2>1 DEF IndInv, SoundRow
  <2>3. call[<<o, n>>].phase \in {"repeated", "spent", "done"} /\ call[<<o, n>>].key = o
    BY <1>1, <2>1, <2>2 DEF IndInv, SoundRow
  <2>4. Server!SoundCall(<<o, n>>)
    BY <1>1 DEF IndInv, Server!IndInv, Server!CallsSound
  <2>5. PICK p \in Server!Stored(o) : TRUE
    BY <2>2, <2>3, <2>4 DEF Server!SoundCall
  <2>6. \A s \in Server!Stored(o) : s = p
    BY <1>1, <2>5 DEF IndInv, Server!IndInv, Server!LogSound, Server!Stored
  <2>7. Server!Stored(o) = {p}
    BY <2>5, <2>6
  <2> QED BY <2>7, FS_Singleton
<1> QED BY Inductive, <1>1, PTL

\* A settled row stays as it is until it is removed, and neither it nor one that
\* is being sent or is to be cancelled is sent again.
THEOREM SettledIsFinal == Spec => TerminalIsFinal
<1> DEFINE Final ==
      \A o \in Ops :
        /\ op[o].status \in Terminal => op'[o].status \in {op[o].status, "GONE"}
        /\ (\E n \in 1..MaxAttempts :
              call[<<o, n>>].phase = "new" /\ call'[<<o, n>>].phase # "new") =>
             op[o].status \notin Terminal \cup {"CANCEL_REQUESTED", "SYNCING", "GONE"}
<1>1. ASSUME IndInv, [Next]_vars PROVE [Final]_vars
  <2>1. ASSUME NEW o \in Ops
        PROVE  op[o].status \in Terminal => op'[o].status \in {op[o].status, "GONE"}
    BY <1>1, RowStep DEF AllKept, Kept
  <2>2. ASSUME NEW o \in Ops, NEW n \in 1..MaxAttempts,
               call[<<o, n>>].phase = "new", call'[<<o, n>>].phase # "new"
        PROVE  op[o].status \notin Terminal \cup {"CANCEL_REQUESTED", "SYNCING", "GONE"}
    <3>1. op[o].status \in Active
      BY <1>1, <2>2, RowStep DEF CallKept
    <3> QED BY <3>1 DEF Active, Eligible, Terminal
  <2> QED BY <2>1, <2>2
<1> QED BY Inductive, <1>1, PTL DEF Spec, TerminalIsFinal
=============================================================================
