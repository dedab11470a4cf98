------------------------ MODULE TextAssistantProofs -------------------------
(***************************************************************************)
(* Proofs about TextAssistant, for every set of conversations, calls, keys *)
(* and bodies.  IndInv is inductive: a version is never given twice, so    *)
(* that what a call read under the version it expects is still so when its *)
(* UPDATE matches, and the UPDATE and the INSERT exclude the other calls   *)
(* until the COMMIT.                                                       *)
(***************************************************************************)
EXTENDS TextAssistant, SequenceTheorems, FiniteSetTheorems, TLAPS

USE DEF Answered, Ended, Reading

-----------------------------------------------------------------------------
\* The stored pairs.

\* _idempotent_existing finds the places at which a key is stored.
LEMMA StoredIs ==
  ASSUME NEW key
  PROVE  /\ \A p \in Stored(key) :
              \E c \in Conversations : \E i \in DOMAIN log[c] :
                p = <<c, i>> /\ log[c][i].key = key
         /\ \A c \in Conversations : \A i \in DOMAIN log[c] :
              log[c][i].key = key => <<c, i>> \in Stored(key)
BY DEF Stored

\* A key that is stored once is found once.
LEMMA FoundOnce ==
  ASSUME IndInv, NEW key \in Keys
  PROVE  Cardinality(Stored(key)) <= 1
<1>1. CASE Stored(key) = {}
  BY <1>1, FS_EmptySet
<1>2. CASE Stored(key) # {}
  <2>1. PICK p \in Stored(key) : TRUE
    BY <1>2
  <2>2. \A s \in Stored(key) : s = p
    BY <2>1, StoredIs DEF IndInv, LogSound
  <2>3. Stored(key) = {p}
    BY <2>1, <2>2
  <2> QED BY <2>3, FS_Singleton
<1> QED BY <1>1, <1>2

\* The invariant, table by table.
LEMMA Types ==
  ASSUME IndInv
  PROVE  /\ \A c \in Conversations :
              /\ conv[c] \in Conversation /\ conv[c].version \in Nat
              /\ conv[c].next \in Nat /\ log[c] \in Seq(Pair)
              /\ Len(log[c]) \in Nat /\ DOMAIN log[c] = 1 .. Len(log[c])
         /\ \A q \in Calls : /\ call[q] \in Call /\ call[q].expected \in Nat
                             /\ call[q].sequence \in Nat /\ call[q].seen \in Nat
         /\ DOMAIN conv = Conversations /\ DOMAIN log = Conversations
         /\ DOMAIN call = Calls
<1>1. /\ conv \in [Conversations -> Conversation]
      /\ log \in [Conversations -> Seq(Pair)] /\ call \in [Calls -> Call]
  BY DEF IndInv, TypeOK
<1>2. \A c \in Conversations : log[c] \in Seq(Pair)
  BY <1>1
<1>3. \A c \in Conversations : Len(log[c]) \in Nat /\ DOMAIN log[c] = 1 .. Len(log[c])
  BY <1>2, LenProperties
<1>4. \A q \in Calls : /\ call[q].expected \in Nat
                       /\ call[q].sequence \in Nat /\ call[q].seen \in Nat
  BY <1>1 DEF Call
<1>5. \A c \in Conversations : conv[c].version \in Nat /\ conv[c].next \in Nat
  BY <1>1 DEF Conversation
<1> QED BY <1>1, <1>2, <1>3, <1>4, <1>5

\* The numbers that are given out grow with the version.
LEMMA GivesMore ==
  ASSUME NEW v \in Nat \ {0}
  PROVE  /\ GivenOut(v + 1) = GivenOut(v) \cup {2 * v - 1}
         /\ \A x \in GivenOut(v) : x < 2 * v - 1
BY DEF GivenOut

\* The numbers of a conversation, unfolded.
LEMMA NumbersOf ==
  ASSUME IndInv, NEW c \in Conversations
  PROVE  /\ conv[c].version # 0 => conv[c].next = 2 * conv[c].version - 1
         /\ \A i, j \in DOMAIN log[c] : i < j => log[c][i].sequence < log[c][j].sequence
         /\ Numbers(c) \cup Skipped(c) = GivenOut(conv[c].version)
BY DEF IndInv, SequencesOrdered

\* Only a call that ends as "spent" has skipped a number.
LEMMA SkippedStays ==
  ASSUME NEW q \in Calls, \A r \in Calls \ {q} : call'[r] = call[r],
         call[q].phase # "spent", call'[q].phase # "spent", NEW c
  PROVE  Skipped(c)' = Skipped(c)
BY DEF Skipped

\* No conversation and no call.
LEMMA InitInv == Init => IndInv
<1> SUFFICES ASSUME Init PROVE IndInv
  OBVIOUS
<1>1. NoConversation \in Conversation /\ NoCall \in Call
  BY DEF NoConversation, Conversation, NoCall, Call, Phases
<1>2. TypeOK
  BY <1>1 DEF Init, TypeOK
<1>3. LogSound
  BY DEF Init, LogSound
<1>4. SequencesOrdered /\ RepliesSeeHistory
  <2>1. \A c \in Conversations : Numbers(c) = {} /\ Skipped(c) = {}
    BY DEF Init, Numbers, Skipped, NoCall
  <2>2. GivenOut(0) = {}
    BY DEF GivenOut
  <2> QED BY <2>1, <2>2 DEF Init, SequencesOrdered, RepliesSeeHistory, NoConversation
<1>5. CallsSound
  BY DEF Init, CallsSound, SoundCall, Exclusive, Writing, NoCall
<1> QED BY <1>2, <1>3, <1>4, <1>5 DEF IndInv

-----------------------------------------------------------------------------
\* Steps that write nothing.

\* The tables stay; one call moves on and stays sound.
LEMMA CallAlone ==
  ASSUME IndInv, NEW q \in Calls, NEW c \in Call, Set(q, c),
         UNCHANGED <<conv, log>>, "spent" \notin {call[q].phase, c.phase}, SoundCall(q)',
         \A r \in Calls \ {q} : Exclusive(q, r)'
  PROVE  IndInv'
<1>1. /\ call' \in [Calls -> Call] /\ call'[q] = c
      /\ \A r \in Calls \ {q} : call'[r] = call[r]
  BY DEF Set, IndInv, TypeOK
<1>2. TypeOK'
  BY <1>1 DEF IndInv, TypeOK
<1>3. LogSound' /\ SequencesOrdered' /\ RepliesSeeHistory'
  <2>1. \A d \in Conversations : Skipped(d)' = Skipped(d) /\ Numbers(d)' = Numbers(d)
    BY <1>1, SkippedStays DEF Numbers
  <2> QED BY <2>1 DEF IndInv, LogSound, SequencesOrdered, RepliesSeeHistory
<1>4. \A r \in Calls \ {q} : (r \in Writing' <=> r \in Writing)
  BY <1>1 DEF Writing
<1>5. ASSUME NEW r \in Calls \ {q} PROVE SoundCall(r)'
  <2>1. SoundCall(r)
    BY DEF IndInv, CallsSound
  <2>2. \A key : Stored(key)' = Stored(key)
    BY DEF Stored
  <2>3. \A p : SameMessage(r, p)' <=> SameMessage(r, p)
    BY <1>1 DEF SameMessage
  <2> QED BY <1>1, <1>4, <2>1, <2>2, <2>3 DEF SoundCall
<1>6. ASSUME NEW r \in Calls, NEW s \in Calls, r # s PROVE Exclusive(r, s)'
  <2>1. CASE r = q
    BY <2>1, <1>6
  <2>2. CASE s = q
    <3>1. Exclusive(s, r)'
      BY <2>2, <1>6
    <3> QED BY <3>1 DEF Exclusive
  <2>3. CASE r # q /\ s # q
    <3>1. Exclusive(r, s)
      BY <1>6 DEF IndInv, CallsSound
    <3> QED BY <2>3, <3>1, <1>1, <1>4 DEF Exclusive
  <2> QED BY <2>1, <2>2, <2>3
<1>7. CallsSound'
  BY <1>5, <1>6 DEF CallsSound
<1> QED BY <1>2, <1>3, <1>7 DEF IndInv

\* A call that is not new and neither reserves nor inserts excludes nobody.
LEMMA CallMoves ==
  ASSUME IndInv, NEW q \in Calls, NEW c \in Call, Advance(q, c),
         c.phase \in {"received", "fresh", "ready", "briefed", "lost", "done"},
         call[q].phase # "spent",
         SoundCall(q)'
  PROVE  IndInv'
<1>1. call'[q] = c
  BY DEF Advance, Set, IndInv, TypeOK
<1>2. \A r \in Calls \ {q} : Exclusive(q, r)'
  BY <1>1 DEF Exclusive, Writing
<1> QED BY <1>2, CallAlone DEF Advance

\* The call is answered; "ok" only with a pair that holds its message.
LEMMA ReplyStep ==
  ASSUME IndInv, NEW q \in Calls, call[q].phase \notin {"new", "spent"},
         NEW answer \in Answers,
         Reply(q, answer),
         answer = "ok" => \E p \in Stored(call[q].key) : SameMessage(q, p)
  PROVE  IndInv'
<1> DEFINE c == [call[q] EXCEPT !.phase = "done", !.answer = answer]
<1>1. /\ c \in Call /\ c.phase = "done" /\ c.answer = answer
      /\ c.conv = call[q].conv /\ c.key = call[q].key /\ c.body = call[q].body
      /\ c.expected = call[q].expected
  BY Types DEF Call, Phases
<1>2. Advance(q, c)
  BY DEF Reply
<1> HIDE DEF c
<1>3. call'[q] = c /\ UNCHANGED <<conv, log>>
  BY <1>2 DEF Advance, Set, IndInv, TypeOK
<1>4. SoundCall(q)
  BY DEF IndInv, CallsSound
<1>5. /\ call'[q].conv = call[q].conv /\ call'[q].key = call[q].key
      /\ call'[q].body = call[q].body /\ call'[q].answer = answer
      /\ call'[q].phase = "done" /\ call'[q].expected = call[q].expected
  BY <1>1, <1>3
<1>6. ASSUME NEW p \in Stored(call[q].key), SameMessage(q, p)
      PROVE  p \in Stored(call[q].key)' /\ SameMessage(q, p)'
  <2>1. Stored(call[q].key)' = Stored(call[q].key)
    BY <1>3, <1>5 DEF Stored
  <2> QED BY <1>3, <1>5, <1>6, <2>1 DEF SameMessage
<1>7. SoundCall(q)'
  BY <1>4, <1>5, <1>6 DEF SoundCall, Writing
<1> QED BY <1>1, <1>2, <1>7, CallMoves

\* _existing_response says ok only of the message that was sent.
LEMMA ReplayStep ==
  ASSUME IndInv, NEW q \in Calls, call[q].phase \notin {"new", "spent"}, Replay(q)
  PROVE  IndInv'
<1>1. PICK p \in Stored(call[q].key) : Reply(q, Existing(q, p))
  BY DEF Replay
<1>2. Existing(q, p) \in Answers /\ (Existing(q, p) = "ok" => SameMessage(q, p))
  BY DEF Existing, Answers
<1> QED BY <1>1, <1>2, ReplyStep

\* A message is received: nothing is read yet.
LEMMA SubmitStep ==
  ASSUME IndInv, NEW q \in Calls, NEW c \in Conversations, NEW key \in Keys,
         NEW body \in Bodies, NEW expected \in Nat \ {0},
         Submit(q, c, key, body, expected)
  PROVE  IndInv'
<1> DEFINE w == [NoCall EXCEPT !.phase = "received", !.conv = c, !.key = key,
                               !.body = body, !.expected = expected]
<1>1. expected \in Nat /\ expected # 0
  OBVIOUS
<1>2. w \in Call
  BY <1>1 DEF NoCall, Call, Phases
<1>3. /\ w.phase = "received" /\ w.conv = c /\ w.key = key /\ w.body = body
      /\ w.expected = expected /\ w.answer = "none"
  BY DEF NoCall
<1>4. Advance(q, w)
  BY DEF Submit
<1> HIDE DEF w
<1>5. call'[q] = w
  BY <1>4 DEF Advance, Set, IndInv, TypeOK
<1>6. SoundCall(q)' /\ call[q].phase # "spent"
  BY <1>1, <1>3, <1>5 DEF SoundCall, Writing, Submit
<1> QED BY <1>2, <1>3, <1>4, <1>6, CallMoves

\* The key, the owner, the state and the version are looked up.
LEMMA LookupStep ==
  ASSUME IndInv, NEW q \in Calls, Lookup(q)
  PROVE  IndInv'
<1>1. call[q].phase = "received"
  BY DEF Lookup
<1>2. CASE Replay(q)
  BY <1>1, <1>2, ReplayStep
<1>3. CASE Advance(q, [call[q] EXCEPT !.phase = "fresh"])
  <2> DEFINE w == [call[q] EXCEPT !.phase = "fresh"]
  <2>1. /\ w \in Call /\ w.phase = "fresh" /\ w.conv = call[q].conv
        /\ w.key = call[q].key /\ w.body = call[q].body
        /\ w.expected = call[q].expected /\ w.answer = call[q].answer
    BY Types DEF Call, Phases
  <2>2. Advance(q, w)
    BY <1>3
  <2> HIDE DEF w
  <2>3. call'[q] = w /\ UNCHANGED <<conv, log>>
    BY <2>2 DEF Advance, Set, IndInv, TypeOK
  <2>4. SoundCall(q)
    BY DEF IndInv, CallsSound
  <2>5. SoundCall(q)'
    BY <1>1, <2>1, <2>3, <2>4 DEF SoundCall, Writing, Stored, SameMessage
  <2> QED BY <1>1, <2>1, <2>2, <2>5, CallMoves
<1> QED BY <1>2, <1>3 DEF Lookup

\* The row that is read under the version expected has the sequence number that
\* belongs to that version.
LEMMA ReadConversationStep ==
  ASSUME IndInv, NEW q \in Calls, ReadConversation(q)
  PROVE  IndInv'
<1>1. call[q].phase = "fresh" /\ SoundCall(q)
  BY DEF ReadConversation, IndInv, CallsSound
<1>2. CASE Reply(q, "refused") \/ Reply(q, "conflict")
  BY <1>1, <1>2, ReplyStep DEF Answers
<1>3. CASE /\ conv[call[q].conv].version = call[q].expected
           /\ Advance(q, [call[q] EXCEPT !.phase = "ready",
                                         !.sequence = conv[call[q].conv].next])
  <2> DEFINE row == conv[call[q].conv]
             w   == [call[q] EXCEPT !.phase = "ready", !.sequence = row.next]
  <2>1. call[q].conv \in Conversations /\ call[q].expected # 0
    BY <1>1 DEF SoundCall
  <2>2. row.version = call[q].expected /\ row.next = 2 * row.version - 1
    BY <1>3, <2>1, NumbersOf
  <2>3. row.next \in Nat /\ row.version \in Nat
    BY <2>1, Types
  <2>4. /\ w \in Call /\ w.phase = "ready" /\ w.conv = call[q].conv
        /\ w.key = call[q].key /\ w.body = call[q].body
        /\ w.expected = call[q].expected /\ w.answer = call[q].answer
        /\ w.sequence = row.next
    BY <2>3, Types DEF Call, Phases
  <2>5. Advance(q, w)
    BY <1>3
  <2> HIDE DEF w
  <2>6. call'[q] = w /\ UNCHANGED <<conv, log>>
    BY <2>5 DEF Advance, Set, IndInv, TypeOK
  <2>7. SoundCall(q)'
    BY <1>1, <2>1, <2>2, <2>3, <2>4, <2>6 DEF SoundCall, Writing, Stored, SameMessage
  <2> QED BY <1>1, <2>4, <2>5, <2>7, CallMoves
<1> QED BY <1>2, <1>3 DEF ReadConversation

\* The history is read without a lock; it is whole as long as the version is
\* the one expected.
LEMMA ReadHistoryStep ==
  ASSUME IndInv, NEW q \in Calls, ReadHistory(q)
  PROVE  IndInv'
<1> DEFINE row == conv[call[q].conv]
           seen == Len(log[call[q].conv])
           w   == [call[q] EXCEPT !.phase = "briefed", !.seen = seen]
<1>1. call[q].phase = "ready" /\ SoundCall(q) /\ Advance(q, w)
  BY DEF ReadHistory, IndInv, CallsSound
<1>2. /\ call[q].conv \in Conversations /\ call[q].expected # 0
      /\ call[q].expected <= row.version
      /\ call[q].sequence = 2 * call[q].expected - 1
  BY <1>1 DEF SoundCall
<1>3. row.version \in Nat /\ seen \in Nat
  BY <1>2, Types
<1>4. /\ w \in Call /\ w.phase = "briefed" /\ w.conv = call[q].conv
      /\ w.key = call[q].key /\ w.body = call[q].body
      /\ w.expected = call[q].expected /\ w.answer = call[q].answer
      /\ w.sequence = call[q].sequence /\ w.seen = seen
  BY <1>3, Types DEF Call, Phases
<1> HIDE DEF w
<1>5. call'[q] = w /\ UNCHANGED <<conv, log>>
  BY <1>1 DEF Advance, Set, IndInv, TypeOK
<1>6. SoundCall(q)'
  BY <1>1, <1>2, <1>4, <1>5 DEF SoundCall, Writing, Stored, SameMessage
<1> QED BY <1>1, <1>4, <1>6, CallMoves

\* The UPDATE matches and locks the conversation.
LEMMA ReserveStep ==
  ASSUME IndInv, NEW q \in Calls, Reserve(q)
  PROVE  IndInv'
<1>1. /\ call[q].phase = "briefed" /\ SoundCall(q)
      /\ \A r \in Writing : call[r].conv # call[q].conv
  BY DEF Reserve, IndInv, CallsSound
<1>2. CASE Replay(q)
  BY <1>1, <1>2, ReplayStep
<1>3. CASE Reply(q, "conflict")
  BY <1>1, <1>3, ReplyStep DEF Answers
<1>4. CASE VersionHolds(q) /\ Advance(q, [call[q] EXCEPT !.phase = "reserved"])
  <2> DEFINE w == [call[q] EXCEPT !.phase = "reserved"]
  <2>1. /\ w \in Call /\ w.phase = "reserved" /\ w.conv = call[q].conv
        /\ w.key = call[q].key /\ w.body = call[q].body
        /\ w.expected = call[q].expected /\ w.answer = call[q].answer
        /\ w.sequence = call[q].sequence /\ w.seen = call[q].seen
    BY Types DEF Call, Phases
  <2>2. Advance(q, w)
    BY <1>4
  <2> HIDE DEF w
  <2>3. /\ call'[q] = w /\ UNCHANGED <<conv, log>> /\ Set(q, w)
        /\ \A r \in Calls \ {q} : call'[r] = call[r]
    BY <2>2 DEF Advance, Set, IndInv, TypeOK
  <2>4. SoundCall(q)'
    BY <1>1, <1>4, <2>1, <2>3
       DEF SoundCall, Writing, Stored, SameMessage, VersionHolds
  <2>5. \A r \in Calls \ {q} : Exclusive(q, r)'
    BY <1>1, <2>1, <2>3 DEF Exclusive, Writing
  <2> QED BY <1>1, <2>1, <2>3, <2>4, <2>5, CallAlone
<1> QED BY <1>2, <1>3, <1>4 DEF Reserve, LoseReservation

\* The message is found stored: the call is answered and keeps the conversation.
LEMMA RepeatStep ==
  ASSUME IndInv, NEW q \in Calls, call[q].phase = "reserved", Repeat(q),
         NEW p \in Stored(call[q].key), SameMessage(q, p)
  PROVE  IndInv'
<1> DEFINE w == [call[q] EXCEPT !.phase = "repeated", !.answer = "ok"]
<1>1. SoundCall(q) /\ Advance(q, w)
  BY DEF Repeat, IndInv, CallsSound
<1>2. /\ w \in Call /\ w.phase = "repeated" /\ w.conv = call[q].conv
      /\ w.key = call[q].key /\ w.body = call[q].body
      /\ w.expected = call[q].expected
      /\ w.sequence = call[q].sequence /\ w.seen = call[q].seen
  BY Types DEF Call, Phases, Answers
<1> HIDE DEF w
<1>3. /\ call'[q] = w /\ UNCHANGED <<conv, log>> /\ Set(q, w)
      /\ \A r \in Calls \ {q} : call'[r] = call[r]
  BY <1>1 DEF Advance, Set, IndInv, TypeOK
<1>4. p \in Stored(call[q].key)' /\ SameMessage(q, p)'
  BY <1>2, <1>3 DEF Stored, SameMessage
<1>5. SoundCall(q)'
  BY <1>1, <1>2, <1>3, <1>4 DEF SoundCall, Writing
<1>6. ASSUME NEW r \in Calls \ {q} PROVE Exclusive(q, r)'
  <2>1. Exclusive(q, r)
    BY DEF IndInv, CallsSound
  <2> QED BY <2>1, <1>1, <1>2, <1>3 DEF Exclusive, Writing
<1> QED BY <1>2, <1>3, <1>5, <1>6, CallAlone

\* The INSERT goes in and holds the key.
LEMMA InsertStep ==
  ASSUME IndInv, NEW q \in Calls, Insert(q)
  PROVE  IndInv'
<1>1. /\ call[q].phase = "reserved" /\ SoundCall(q)
      /\ \A r \in Calls : call[r].phase \in {"inserted", "answered"} =>
                            call[r].key # call[q].key
  BY DEF Insert, IndInv, CallsSound
<1>2. CASE Reply(q, "mismatch")
  BY <1>1, <1>2, ReplyStep DEF Answers
<1>4. ASSUME NEW p \in Stored(call[q].key), SameMessage(q, p), Repeat(q) PROVE IndInv'
  BY <1>1, <1>4, RepeatStep
<1>3. CASE ~KeyTaken(q) /\ Advance(q, [call[q] EXCEPT !.phase = "inserted"])
  <2> DEFINE w == [call[q] EXCEPT !.phase = "inserted"]
  <2>1. /\ w \in Call /\ w.phase = "inserted" /\ w.conv = call[q].conv
        /\ w.key = call[q].key /\ w.body = call[q].body
        /\ w.expected = call[q].expected /\ w.answer = call[q].answer
        /\ w.sequence = call[q].sequence /\ w.seen = call[q].seen
    BY Types DEF Call, Phases
  <2>2. Advance(q, w)
    BY <1>3
  <2> HIDE DEF w
  <2>3. /\ call'[q] = w /\ UNCHANGED <<conv, log>> /\ Set(q, w)
        /\ \A r \in Calls \ {q} : call'[r] = call[r]
    BY <2>2 DEF Advance, Set, IndInv, TypeOK
  <2>4. SoundCall(q)'
    BY <1>1, <1>3, <2>1, <2>3
       DEF SoundCall, Writing, Stored, SameMessage, KeyTaken
  <2>5. ASSUME NEW r \in Calls \ {q} PROVE Exclusive(q, r)'
    <3>1. Exclusive(q, r)
      BY DEF IndInv, CallsSound
    <3> QED BY <3>1, <1>1, <2>1, <2>3 DEF Exclusive, Writing
  <2> QED BY <1>1, <2>1, <2>3, <2>4, <2>5, CallAlone
<1> QED BY <1>2, <1>3, <1>4 DEF Insert, Collide

\* The provider answers what the call had read.
LEMMA AnswerStep ==
  ASSUME IndInv, NEW q \in Calls, Answer(q)
  PROVE  IndInv'
<1> DEFINE w == [call[q] EXCEPT !.phase = "answered", !.answer = "ok"]
<1>1. call[q].phase = "inserted" /\ SoundCall(q) /\ Advance(q, w)
  BY DEF Answer, IndInv, CallsSound
<1>2. /\ w \in Call /\ w.phase = "answered" /\ w.conv = call[q].conv
      /\ w.key = call[q].key /\ w.body = call[q].body
      /\ w.expected = call[q].expected
      /\ w.sequence = call[q].sequence /\ w.seen = call[q].seen
  BY Types DEF Call, Phases, Answers
<1> HIDE DEF w
<1>3. /\ call'[q] = w /\ UNCHANGED <<conv, log>> /\ Set(q, w)
      /\ \A r \in Calls \ {q} : call'[r] = call[r]
  BY <1>1 DEF Advance, Set, IndInv, TypeOK
<1>4. SoundCall(q)'
  BY <1>1, <1>2, <1>3 DEF SoundCall, Writing, Stored, SameMessage
<1>5. ASSUME NEW r \in Calls \ {q} PROVE Exclusive(q, r)'
  <2>1. Exclusive(q, r)
    BY DEF IndInv, CallsSound
  <2> QED BY <2>1, <1>1, <1>2, <1>3 DEF Exclusive, Writing
<1> QED BY <1>1, <1>2, <1>3, <1>4, <1>5, CallAlone

\* The call fails: it is answered with an error and writes nothing.
LEMMA RaiseStep ==
  ASSUME IndInv, NEW q \in Calls, Raise(q)
  PROVE  IndInv'
BY ReplyStep DEF Raise, Answers

\* The commit is lost: the call has written nothing.
LEMMA FailCommitStep ==
  ASSUME IndInv, NEW q \in Calls, FailCommit(q)
  PROVE  IndInv'
<1> DEFINE w == [call[q] EXCEPT !.phase = "lost"]
<1>1. call[q].phase \in Answered /\ SoundCall(q) /\ Advance(q, w)
  BY DEF FailCommit, IndInv, CallsSound
<1>2. /\ w \in Call /\ w.phase = "lost" /\ w.conv = call[q].conv
      /\ w.key = call[q].key /\ w.body = call[q].body
      /\ w.expected = call[q].expected
  BY Types DEF Call, Phases
<1> HIDE DEF w
<1>3. call'[q] = w /\ UNCHANGED <<conv, log>>
  BY <1>1 DEF Advance, Set, IndInv, TypeOK
<1>4. SoundCall(q)'
  BY <1>1, <1>2, <1>3 DEF SoundCall, Writing
<1> QED BY <1>1, <1>2, <1>4, CallMoves

-----------------------------------------------------------------------------
\* Steps that write.

\* Nobody works on a conversation that does not exist.
LEMMA CreateStep ==
  ASSUME IndInv, NEW c \in Conversations, CreateConversation(c)
  PROVE  IndInv'
<1>1. /\ conv[c].version = 0 /\ log' = log /\ call' = call
      /\ conv' = [conv EXCEPT ![c] = [version |-> 1, next |-> 1]]
  BY DEF CreateConversation
<1>2. /\ conv'[c] = [version |-> 1, next |-> 1]
      /\ conv'[c].version = 1 /\ conv'[c].next = 1
      /\ \A d \in Conversations \ {c} : conv'[d] = conv[d]
  BY <1>1, Types
<1>3. log[c] = <<>> /\ Len(log[c]) = 0
  BY <1>1 DEF IndInv, LogSound
<1>4. TypeOK'
  <2>1. [version |-> 1, next |-> 1] \in Conversation
    BY DEF Conversation
  <2> QED BY <1>1, <2>1 DEF IndInv, TypeOK
<1>5. LogSound'
  BY <1>1, <1>2 DEF IndInv, LogSound
<1>6. SequencesOrdered' /\ RepliesSeeHistory'
  <2>1. GivenOut(0) = {} /\ GivenOut(1) = {}
    BY DEF GivenOut
  <2>2. \A d \in Conversations : Skipped(d)' = Skipped(d) /\ Numbers(d)' = Numbers(d)
    BY <1>1 DEF Skipped, Numbers
  <2>3. Numbers(c) \cup Skipped(c) = {}
    BY <1>1, <2>1, NumbersOf
  <2> QED BY <1>1, <1>2, <2>1, <2>2, <2>3 DEF IndInv, SequencesOrdered, RepliesSeeHistory
<1>7. ASSUME NEW q \in Calls PROVE SoundCall(q)'
  <2>1. SoundCall(q) /\ call[q].expected \in Nat
    BY Types DEF IndInv, CallsSound
  <2>2. call[q].phase \in Reading \cup {"ready"} =>
          call[q].conv \in Conversations \ {c}
    BY <1>1, <2>1 DEF SoundCall
  <2>3. /\ Stored(call[q].key)' = Stored(call[q].key) /\ Writing' = Writing
        /\ \A p : SameMessage(q, p)' <=> SameMessage(q, p)
    BY <1>1 DEF Stored, SameMessage, Writing
  <2>4. q \in Writing => call[q].phase \in Reading
    BY DEF Writing
  <2> QED BY <1>1, <1>2, <2>1, <2>2, <2>3, <2>4 DEF SoundCall
<1>8. CallsSound'
  BY <1>1, <1>7 DEF IndInv, CallsSound, Exclusive, Writing
<1> QED BY <1>4, <1>5, <1>6, <1>8 DEF IndInv

\* A call writes its conversation; what the others have read of their own stays,
\* and those of the same conversation find another version.
LEMMA OtherSound ==
  ASSUME IndInv, NEW q \in Calls, q \in Writing, NEW r \in Calls \ {q},
         call'[r] = call[r], NEW c \in Conversations, c = call[q].conv,
         conv'[c].version = conv[c].version + 1,
         \A d \in Conversations \ {c} : conv'[d] = conv[d] /\ log'[d] = log[d],
         call[r].phase \in {"inserted", "answered"} => Stored(call[r].key)' = {},
         \A p \in Stored(call[r].key) :
           SameMessage(r, p) => p \in Stored(call[r].key)' /\ SameMessage(r, p)'
  PROVE  SoundCall(r)'
<1>1. SoundCall(r) /\ Exclusive(q, r) /\ call[r].expected \in Nat
  BY Types DEF IndInv, CallsSound
<1>2. r \in Writing' <=> r \in Writing
  BY DEF Writing
<1>3. r \in Writing => call[r].conv # c /\ call[r].phase \in Reading
  BY <1>1 DEF Exclusive, Writing
<1>4. ASSUME call[r].phase \in Reading \cup {"ready"}
      PROVE  /\ call[r].expected <= conv'[call[r].conv].version
             /\ call[r].phase # "ready" /\ conv'[call[r].conv].version = call[r].expected
                  => call[r].seen = Len(log'[call[r].conv])
             /\ r \in Writing => conv'[call[r].conv].version = call[r].expected
  <2>1. /\ call[r].conv \in Conversations
        /\ call[r].expected <= conv[call[r].conv].version
        /\ conv[call[r].conv].version \in Nat
    BY <1>1, <1>4, Types DEF SoundCall
  <2>2. CASE call[r].conv # c
    <3>1. /\ conv'[call[r].conv] = conv[call[r].conv]
          /\ log'[call[r].conv] = log[call[r].conv]
      BY <2>1, <2>2
    <3> QED BY <1>1, <1>4, <2>1, <3>1 DEF SoundCall
  <2>3. CASE call[r].conv = c
    <3>1. call[r].expected <= conv'[c].version /\ call[r].expected # conv'[c].version
      BY <1>1, <2>1, <2>3
    <3> QED BY <3>1, <2>3, <1>3
  <2> QED BY <2>2, <2>3
<1>5. call'[r].sequence = call[r].sequence
  OBVIOUS
<1> QED BY <1>1, <1>2, <1>3, <1>4, <1>5 DEF SoundCall

\* The COMMIT: the pair takes the place its call has reserved, made from the
\* whole history, under a key that is nowhere else.
LEMMA CommitStep ==
  ASSUME IndInv, NEW q \in Calls, Commit(q)
  PROVE  IndInv'
<1>1. call[q].phase = "answered" /\ SoundCall(q) /\ q \in Writing
  BY DEF Commit, IndInv, CallsSound, Writing
<1>2. /\ call[q].conv \in Conversations /\ call[q].key \in Keys
      /\ call[q].body \in Bodies /\ call[q].expected # 0
      /\ call[q].sequence = 2 * call[q].expected - 1
      /\ call[q].seen = Len(log[call[q].conv])
      /\ conv[call[q].conv].version = call[q].expected
      /\ Stored(call[q].key) = {}
  BY <1>1 DEF SoundCall
<1> PICK c \in Conversations : c = call[q].conv
  BY <1>2
<1> PICK n \in Nat : n = Len(log[c])
  BY Types
<1> PICK v \in Nat \ {0} : v = call[q].expected
  BY <1>2, Types
<1> DEFINE pair == [key |-> call[q].key, body |-> call[q].body,
                    sequence |-> call[q].sequence, seen |-> call[q].seen]
           w    == [call[q] EXCEPT !.phase = "done"]
<1>3. /\ log' = [log EXCEPT ![c] = Append(@, pair)]
      /\ conv' = [conv EXCEPT ![c] = [version |-> call[q].expected + 1,
                                      next |-> call[q].sequence + 2]]
      /\ Set(q, w)
  BY DEF Commit, Reserved, NextSequence
<1>4. /\ conv[c].version = v /\ call[q].sequence = 2 * v - 1 /\ call[q].seen = n
      /\ call[q].sequence + 2 = 2 * (v + 1) - 1
  BY <1>2
<1>5. pair \in Pair
  BY <1>2, Types DEF Pair
<1>6. /\ pair.key = call[q].key /\ pair.body = call[q].body
      /\ pair.sequence = 2 * v - 1 /\ pair.seen = n
  BY <1>4
<1> HIDE DEF pair
<1>7. /\ log'[c] = Append(log[c], pair)
      /\ \A d \in Conversations \ {c} : log'[d] = log[d] /\ conv'[d] = conv[d]
      /\ conv'[c] = [version |-> v + 1, next |-> 2 * (v + 1) - 1]
      /\ conv'[c].version = v + 1 /\ conv'[c].next = 2 * (v + 1) - 1
  BY <1>3, <1>4, Types
<1>8. /\ log'[c] \in Seq(Pair) /\ Len(log'[c]) = n + 1
      /\ DOMAIN log'[c] = 1 .. n + 1
      /\ \A i \in 1 .. n : log'[c][i] = log[c][i]
      /\ log'[c][n + 1] = pair
  <2>1. log[c] \in Seq(Pair)
    BY Types
  <2> QED BY <2>1, <1>5, <1>7, AppendProperties, LenProperties
<1>9. /\ w \in Call /\ w.phase = "done" /\ w.conv = call[q].conv
      /\ w.key = call[q].key /\ w.body = call[q].body
      /\ w.expected = call[q].expected /\ w.answer = call[q].answer
  BY Types DEF Call, Phases
<1> HIDE DEF w
<1>10. /\ call' \in [Calls -> Call] /\ call'[q] = w
       /\ \A r \in Calls \ {q} : call'[r] = call[r]
  BY <1>3, <1>9 DEF Set, IndInv, TypeOK
<1>11. TypeOK'
  <2>1. log' \in [Conversations -> Seq(Pair)]
    BY <1>3, <1>7, <1>8 DEF IndInv, TypeOK
  <2>2. conv' \in [Conversations -> Conversation]
    <3>1. [version |-> v + 1, next |-> 2 * (v + 1) - 1] \in Conversation
      BY DEF Conversation
    <3> QED BY <3>1, <1>3, <1>7 DEF IndInv, TypeOK
  <2> QED BY <2>1, <2>2, <1>10 DEF TypeOK
<1>12. /\ \A d \in Conversations : \A i \in DOMAIN log[d] :
             i \in DOMAIN log'[d] /\ log'[d][i] = log[d][i]
       /\ \A d \in Conversations : \A i \in DOMAIN log'[d] :
             i \in DOMAIN log[d] \/ (d = c /\ i = n + 1)
  <2>1. DOMAIN log[c] = 1 .. n
    BY Types
  <2>2. /\ \A i \in DOMAIN log[c] : i \in DOMAIN log'[c] /\ log'[c][i] = log[c][i]
        /\ \A i \in DOMAIN log'[c] : i \in DOMAIN log[c] \/ i = n + 1
    BY <1>8, <2>1
  <2>3. \A d \in Conversations \ {c} : log'[d] = log[d]
    BY <1>7
  <2> QED BY <2>2, <2>3
<1>13. \A d \in Conversations : \A i \in DOMAIN log[d] : log[d][i].key # pair.key
  BY <1>2, <1>6, StoredIs
<1>14. LogSound'
  <2>1. ASSUME NEW d \in Conversations, NEW e \in Conversations,
               NEW i \in DOMAIN log'[d], NEW j \in DOMAIN log'[e],
               log'[d][i].key = log'[e][j].key
        PROVE  d = e /\ i = j
    <3>1. CASE i \in DOMAIN log[d] /\ j \in DOMAIN log[e]
      BY <2>1, <3>1, <1>12 DEF IndInv, LogSound
    <3>2. CASE i \in DOMAIN log[d] /\ e = c /\ j = n + 1
      BY <2>1, <3>2, <1>8, <1>12, <1>13
    <3>3. CASE j \in DOMAIN log[e] /\ d = c /\ i = n + 1
      BY <2>1, <3>3, <1>8, <1>12, <1>13
    <3> QED BY <3>1, <3>2, <3>3, <1>12
  <2>2. ASSUME NEW d \in Conversations, conv'[d].version = 0 PROVE log'[d] = <<>>
    <3>1. d # c
      BY <2>2, <1>4, <1>7
    <3> QED BY <2>2, <3>1, <1>7 DEF IndInv, LogSound
  <2> QED BY <2>1, <2>2 DEF LogSound
<1>15. SequencesOrdered'
  <2> SUFFICES ASSUME NEW d \in Conversations
               PROVE  /\ conv'[d].version # 0 => conv'[d].next = 2 * conv'[d].version - 1
                      /\ \A i, j \in DOMAIN log'[d] :
                           i < j => log'[d][i].sequence < log'[d][j].sequence
                      /\ (Numbers(d) \cup Skipped(d))' = GivenOut(conv'[d].version)
    BY DEF SequencesOrdered
  <2>0. Skipped(d)' = Skipped(d)
    BY <1>1, <1>9, <1>10, SkippedStays
  <2>1. CASE d # c
    <3>1. log'[d] = log[d] /\ conv'[d] = conv[d]
      BY <2>1, <1>7
    <3>2. Numbers(d)' = Numbers(d)
      BY <3>1 DEF Numbers
    <3> QED BY <2>0, <3>1, <3>2, NumbersOf
  <2>2. CASE d = c
    <3>1. Numbers(c)' = Numbers(c) \cup {2 * v - 1}
      <4>1. DOMAIN log[c] = 1 .. n
        BY Types
      <4>2. \A i \in 1 .. n : log'[c][i].sequence = log[c][i].sequence
        BY <1>8
      <4>3. log'[c][n + 1].sequence = 2 * v - 1
        BY <1>6, <1>8
      <4>4. \A i \in 1 .. n + 1 : i \in 1 .. n \/ i = n + 1
        OBVIOUS
      <4>5. n + 1 \in 1 .. n + 1 /\ \A i \in 1 .. n : i \in 1 .. n + 1
        OBVIOUS
      <4>6. Numbers(c) = {log[c][i].sequence : i \in 1 .. n}
        BY <4>1 DEF Numbers
      <4>7. Numbers(c)' = {log'[c][i].sequence : i \in 1 .. n + 1}
        BY <1>8 DEF Numbers
      <4>8. ASSUME NEW x \in Numbers(c)' PROVE x \in Numbers(c) \cup {2 * v - 1}
        <5>1. PICK i \in 1 .. n + 1 : x = log'[c][i].sequence
          BY <4>7
        <5> QED BY <5>1, <4>2, <4>3, <4>4, <4>6
      <4>9. ASSUME NEW x \in Numbers(c) PROVE x \in Numbers(c)'
        <5>1. PICK i \in 1 .. n : x = log[c][i].sequence
          BY <4>6
        <5> QED BY <5>1, <4>2, <4>5, <4>7
      <4>10. 2 * v - 1 \in Numbers(c)'
        BY <4>3, <4>5, <4>7
      <4> QED BY <4>8, <4>9, <4>10
    <3>2. GivenOut(v + 1) = GivenOut(v) \cup {2 * v - 1}
      BY GivesMore
    <3>3. Numbers(c) \cup Skipped(c) = GivenOut(v)
      BY <1>4, NumbersOf
    <3>4. ASSUME NEW i \in 1 .. n + 1, NEW j \in 1 .. n + 1, i < j
          PROVE  log'[c][i].sequence < log'[c][j].sequence
      <4>1. i \in 1 .. n /\ DOMAIN log[c] = 1 .. n
        BY <3>4, Types
      <4>2. CASE j \in 1 .. n
        BY <3>4, <4>1, <4>2, <1>8, NumbersOf
      <4>3. CASE j = n + 1
        <5>1. log[c][i].sequence \in Numbers(c)
          BY <4>1 DEF Numbers
        <5>2. log[c][i].sequence < 2 * v - 1
          BY <5>1, <3>3, GivesMore
        <5> QED BY <5>2, <4>1, <4>3, <1>6, <1>8
      <4> QED BY <4>2, <4>3
    <3>5. Numbers(c)' \cup Skipped(c)' = GivenOut(v + 1)
      BY <2>0, <2>2, <3>1, <3>2, <3>3
    <3> QED BY <2>2, <3>4, <3>5, <1>7, <1>8
  <2> QED BY <2>1, <2>2
<1>16. RepliesSeeHistory'
  <2> SUFFICES ASSUME NEW d \in Conversations, NEW i \in DOMAIN log'[d]
               PROVE  log'[d][i].seen = i - 1
    BY DEF RepliesSeeHistory
  <2>1. CASE i \in DOMAIN log[d]
    BY <2>1, <1>12 DEF IndInv, RepliesSeeHistory
  <2>2. CASE d = c /\ i = n + 1
    BY <2>2, <1>6, <1>8
  <2> QED BY <2>1, <2>2, <1>12
<1>17. \A key : Stored(key) \subseteq Stored(key)'
  BY <1>12 DEF Stored
<1>18. ASSUME NEW r \in Calls PROVE SoundCall(r)'
  <2>1. CASE r = q
    <3>1. <<c, n + 1>> \in Stored(call[q].key)'
      <4>1. n + 1 \in DOMAIN log'[c] /\ log'[c][n + 1].key = call'[q].key
        BY <1>4, <1>6, <1>8, <1>9, <1>10
      <4> QED BY <4>1 DEF Stored
    <3>2. SameMessage(q, <<c, n + 1>>)'
      BY <1>6, <1>8, <1>9, <1>10 DEF SameMessage
    <3>3. /\ call'[q].phase = "done" /\ call'[q].conv \in Conversations
          /\ call'[q].key \in Keys /\ call'[q].body \in Bodies
          /\ call'[q].expected # 0
      BY <1>2, <1>9, <1>10
    <3> QED BY <2>1, <3>1, <3>2, <3>3 DEF SoundCall, Writing
  <2>2. CASE r # q
    <3>1. /\ SoundCall(r) /\ call'[r] = call[r] /\ Exclusive(q, r)
          /\ call[r].expected \in Nat
      BY <2>2, <1>10, Types DEF IndInv, CallsSound
    <3>2. call[r].phase \in {"inserted", "answered"} => Stored(call[r].key)' = {}
      <4> SUFFICES ASSUME call[r].phase \in {"inserted", "answered"}
                   PROVE  Stored(call[r].key)' = {}
        OBVIOUS
      <4>1. call[r].key # pair.key /\ Stored(call[r].key) = {}
        BY <3>1, <1>1, <1>6 DEF Exclusive, SoundCall
      <4>2. \A d \in Conversations : \A i \in DOMAIN log[d] :
              log[d][i].key # call[r].key
        BY <4>1, StoredIs
      <4>3. \A d \in Conversations : \A i \in DOMAIN log'[d] :
              log'[d][i].key # call'[r].key
        BY <3>1, <4>1, <4>2, <1>8, <1>12
      <4> QED BY <4>3 DEF Stored
    <3>3. ASSUME NEW p \in Stored(call[r].key), SameMessage(r, p)
          PROVE  p \in Stored(call[r].key)' /\ SameMessage(r, p)'
      <4>0. PICK d \in Conversations : \E i \in DOMAIN log[d] :
              p = <<d, i>> /\ log[d][i].key = call[r].key
        BY StoredIs
      <4>1. PICK i \in DOMAIN log[d] : p = <<d, i>> /\ log[d][i].key = call[r].key
        BY <4>0
      <4>2. i \in DOMAIN log'[d] /\ log'[d][i] = log[d][i]
        BY <1>12
      <4>3. p \in Stored(call[r].key)'
        BY <3>1, <4>1, <4>2 DEF Stored
      <4>4. SameMessage(r, p)'
        BY <3>1, <3>3, <4>1, <4>2 DEF SameMessage
      <4> QED BY <4>3, <4>4
    <3>4. /\ conv'[c].version = conv[c].version + 1
          /\ \A d \in Conversations \ {c} : conv'[d] = conv[d] /\ log'[d] = log[d]
      BY <1>4, <1>7
    <3> QED BY <3>1, <3>2, <3>3, <3>4, <2>2, <1>1, OtherSound
  <2> QED BY <2>1, <2>2
<1>19. ASSUME NEW r \in Calls, NEW s \in Calls, r # s PROVE Exclusive(r, s)'
  <2>1. Exclusive(r, s)
    BY <1>19 DEF IndInv, CallsSound
  <2> QED BY <2>1, <1>9, <1>10 DEF Exclusive, Writing
<1>20. CallsSound'
  BY <1>18, <1>19 DEF CallsSound
<1> QED BY <1>11, <1>14, <1>15, <1>16, <1>20 DEF IndInv

\* The COMMIT of a call that stored nothing: a number is given out and skipped.
LEMMA CommitRepeatStep ==
  ASSUME IndInv, NEW q \in Calls, CommitRepeat(q)
  PROVE  IndInv'
<1>1. /\ call[q].phase = "repeated" /\ SoundCall(q) /\ q \in Writing /\ log' = log
      /\ conv' = Reserved(q)
  BY DEF CommitRepeat, IndInv, CallsSound, Writing
<1> PICK c \in Conversations : c = call[q].conv
  BY <1>1 DEF SoundCall
<1> PICK v \in Nat \ {0} : v = call[q].expected
  BY <1>1, Types DEF SoundCall
<1>2. conv[c].version = v /\ call[q].sequence = 2 * v - 1
  BY <1>1 DEF SoundCall
<1>3. /\ conv'[c] = [version |-> v + 1, next |-> 2 * v - 1 + 2]
      /\ \A d \in Conversations \ {c} : conv'[d] = conv[d]
      /\ conv' = [conv EXCEPT ![c] = [version |-> v + 1, next |-> 2 * v - 1 + 2]]
  BY <1>1, <1>2, Types DEF Reserved, NextSequence
<1>4. conv'[c].version = v + 1 /\ conv'[c].next = 2 * (v + 1) - 1
  BY <1>3
<1> DEFINE w == [call[q] EXCEPT !.phase = "spent"]
<1>5. /\ w \in Call /\ w.phase = "spent" /\ w.conv = c /\ w.sequence = 2 * v - 1
      /\ w.key = call[q].key /\ w.body = call[q].body
      /\ w.expected = v /\ w.answer = call[q].answer
  BY <1>2, Types DEF Call, Phases
<1>6. Set(q, w)
  BY DEF CommitRepeat
<1> HIDE DEF w
<1>7. /\ call' \in [Calls -> Call] /\ call'[q] = w
      /\ \A r \in Calls \ {q} : call'[r] = call[r]
  BY <1>5, <1>6 DEF Set, IndInv, TypeOK
<1>8. TypeOK'
  <2>1. [version |-> v + 1, next |-> 2 * v - 1 + 2] \in Conversation
    BY DEF Conversation
  <2> QED BY <2>1, <1>1, <1>3, <1>7 DEF IndInv, TypeOK
<1>9. LogSound' /\ RepliesSeeHistory'
  BY <1>1, <1>3, <1>4 DEF IndInv, LogSound, RepliesSeeHistory
<1>10. SequencesOrdered'
  <2> SUFFICES ASSUME NEW d \in Conversations
               PROVE  /\ conv'[d].version # 0 => conv'[d].next = 2 * conv'[d].version - 1
                      /\ \A i, j \in DOMAIN log'[d] :
                           i < j => log'[d][i].sequence < log'[d][j].sequence
                      /\ (Numbers(d) \cup Skipped(d))' = GivenOut(conv'[d].version)
    BY DEF SequencesOrdered
  <2>1. Numbers(d)' = Numbers(d)
    BY <1>1 DEF Numbers
  <2>2. CASE d # c
    <3>1. Skipped(d)' = Skipped(d)
      BY <2>2, <1>1, <1>5, <1>7 DEF Skipped
    <3> QED BY <2>1, <2>2, <3>1, <1>1, <1>3, NumbersOf
  <2>3. CASE d = c
    <3>1. Skipped(c)' = Skipped(c) \cup {2 * v - 1}
      BY <1>1, <1>5, <1>7 DEF Skipped
    <3>2. GivenOut(v + 1) = GivenOut(v) \cup {2 * v - 1}
      BY GivesMore
    <3>3. Numbers(c)' \cup Skipped(c)' = GivenOut(v + 1)
      BY <2>1, <2>3, <3>1, <3>2, <1>2, NumbersOf
    <3> QED BY <2>3, <3>3, <1>1, <1>4, NumbersOf
  <2> QED BY <2>2, <2>3
<1>11. \A key : Stored(key)' = Stored(key)
  BY <1>1 DEF Stored
<1>12. ASSUME NEW r \in Calls, NEW p, SameMessage(r, p) PROVE SameMessage(r, p)'
  <2>1. call'[r].conv = call[r].conv /\ call'[r].body = call[r].body
    BY <1>5, <1>7
  <2> QED BY <1>1, <1>12, <2>1 DEF SameMessage
<1>13. ASSUME NEW r \in Calls PROVE SoundCall(r)'
  <2>1. CASE r = q
    <3>1. call[q].answer = "ok" => \E p \in Stored(call[q].key) : SameMessage(q, p)
      BY <1>1 DEF SoundCall
    <3>2. Stored(call[q].key)' = Stored(call[q].key)
      BY <1>1, <1>5, <1>7 DEF Stored
    <3>3. /\ call'[q].phase = "spent" /\ call'[q].conv \in Conversations
          /\ call'[q].key \in Keys /\ call'[q].body \in Bodies
          /\ call'[q].expected # 0
      BY <1>1, <1>5, <1>7 DEF SoundCall
    <3>4. call'[q].answer = call[q].answer
      BY <1>5, <1>7
    <3> QED BY <2>1, <3>1, <3>2, <3>3, <3>4, <1>12 DEF SoundCall, Writing
  <2>2. CASE r # q
    <3>1. SoundCall(r) /\ call'[r] = call[r]
      BY <2>2, <1>7 DEF IndInv, CallsSound
    <3>2. call[r].phase \in {"inserted", "answered"} => Stored(call[r].key)' = {}
      BY <3>1, <1>11 DEF SoundCall
    <3>3. \A p \in Stored(call[r].key) :
            SameMessage(r, p) => p \in Stored(call[r].key)' /\ SameMessage(r, p)'
      BY <3>1, <1>11, <1>12
    <3>4. /\ conv'[c].version = conv[c].version + 1
          /\ \A d \in Conversations \ {c} : conv'[d] = conv[d] /\ log'[d] = log[d]
      BY <1>1, <1>2, <1>3, <1>4
    <3> QED BY <3>1, <3>2, <3>3, <3>4, <2>2, <1>1, OtherSound
  <2> QED BY <2>1, <2>2
<1>14. ASSUME NEW r \in Calls, NEW s \in Calls, r # s PROVE Exclusive(r, s)'
  <2>1. Exclusive(r, s)
    BY <1>14 DEF IndInv, CallsSound
  <2> QED BY <2>1, <1>5, <1>7 DEF Exclusive, Writing
<1>15. CallsSound'
  BY <1>13, <1>14 DEF CallsSound
<1> QED BY <1>8, <1>9, <1>10, <1>15 DEF IndInv

\* Every step keeps the invariant.
LEMMA NextInv ==
  ASSUME IndInv, [Next]_vars
  PROVE  IndInv'
<1>1. CASE \E c \in Conversations : CreateConversation(c)
  BY <1>1, CreateStep
<1>2. ASSUME NEW q \in Calls, Serve(q) PROVE IndInv'
  BY <1>2, LookupStep, ReadConversationStep, ReadHistoryStep, ReserveStep,
     InsertStep, AnswerStep, CommitStep, CommitRepeatStep, RaiseStep, FailCommitStep
     DEF Serve
<1>3. ASSUME NEW q \in Calls, NEW c \in Conversations, NEW key \in Keys,
             NEW body \in Bodies, NEW expected \in 1 .. conv[c].version + 1,
             Submit(q, c, key, body, expected)
      PROVE  IndInv'
  <2>1. expected \in Nat \ {0}
    BY Types
  <2> QED BY <1>3, <2>1, SubmitStep
<1>4. CASE UNCHANGED vars
  <2>0. \A c \in Conversations : Numbers(c)' = Numbers(c) /\ Skipped(c)' = Skipped(c)
    BY <1>4 DEF vars, Numbers, Skipped
  <2>1. TypeOK' /\ LogSound' /\ SequencesOrdered' /\ RepliesSeeHistory'
    BY <1>4, <2>0 DEF vars, IndInv, TypeOK, LogSound, SequencesOrdered, RepliesSeeHistory
  <2>2. CallsSound'
    BY <1>4 DEF vars, IndInv, CallsSound, SoundCall, Exclusive, Writing, Stored,
                SameMessage
  <2> QED BY <2>1, <2>2 DEF IndInv
<1> QED BY <1>1, <1>2, <1>3, <1>4 DEF Next

-----------------------------------------------------------------------------
\* What a caller may rely on.

\* One call moves on, under the key it came with, and an answer once given stays.
Progress(q) ==
  /\ \A r \in Calls \ {q} : call'[r] = call[r]
  /\ call[q].phase \notin {"new"} \cup Ended
  /\ call'[q].phase # "new"
  /\ call'[q].key = call[q].key
  /\ call[q].phase \in Answered =>
       call'[q].answer = call[q].answer /\ call'[q].phase \in Ended
  /\ call[q].phase \notin Answered =>
       call'[q].answer = call[q].answer \/ call'[q].phase \in Answered \cup {"done"}

\* The call moves from a phase in which it is not answered yet.
LEMMA Advancing ==
  ASSUME IndInv, NEW q \in Calls, NEW w, Set(q, w),
         call[q].phase \in Phases \ ({"new"} \cup Answered \cup Ended),
         w.key = call[q].key, w.phase # "new",
         w.answer = call[q].answer \/ w.phase \in Answered \cup {"done"}
  PROVE  Progress(q)
<1>1. call'[q] = w /\ \A r \in Calls \ {q} : call'[r] = call[r]
  BY DEF Set, IndInv, TypeOK
<1> QED BY <1>1 DEF Progress

\* A call that is answered without a write has moved on.
LEMMA Replying ==
  ASSUME IndInv, NEW q \in Calls, NEW answer, Reply(q, answer),
         call[q].phase \in Phases \ ({"new"} \cup Answered \cup Ended)
  PROVE  Progress(q) /\ UNCHANGED conv
<1> DEFINE w == [call[q] EXCEPT !.phase = "done", !.answer = answer]
<1>1. w.key = call[q].key /\ w.phase = "done"
  BY Types DEF Call
<1>2. Set(q, w) /\ UNCHANGED conv
  BY DEF Reply, Advance
<1> HIDE DEF w
<1> QED BY <1>1, <1>2, Advancing

\* So has one that is answered from a stored pair.
LEMMA Replaying ==
  ASSUME IndInv, NEW q \in Calls, Replay(q),
         call[q].phase \in Phases \ ({"new"} \cup Answered \cup Ended)
  PROVE  Progress(q) /\ UNCHANGED conv
BY Replying DEF Replay

\* Every step of a call makes such progress, and no version ever goes back.
LEMMA ServeProgresses ==
  ASSUME IndInv, NEW q \in Calls, Serve(q)
  PROVE  /\ Progress(q)
         /\ \A c \in Conversations : conv'[c].version >= conv[c].version
<1>1. \A c \in Conversations : conv[c].version \in Nat
  BY Types
<1>2. SUFFICES ASSUME ~Commit(q), ~CommitRepeat(q) PROVE Progress(q) /\ UNCHANGED conv
  <2>1. CASE ~Commit(q) /\ ~CommitRepeat(q)
    <3>1. Progress(q) /\ UNCHANGED conv
      BY <1>2, <2>1
    <3> QED BY <1>1, <3>1
  <2>2. ASSUME NEW phase \in {"done", "spent"}, conv' = Reserved(q),
               call[q].phase \in Answered, Set(q, [call[q] EXCEPT !.phase = phase])
        PROVE  Progress(q) /\ \A c \in Conversations : conv'[c].version >= conv[c].version
    <3> DEFINE w == [call[q] EXCEPT !.phase = phase]
    <3>1. /\ w.key = call[q].key /\ w.phase = phase /\ w.answer = call[q].answer
      BY Types DEF Call
    <3>2. Set(q, w)
      BY <2>2
    <3> HIDE DEF w
    <3>3. call'[q] = w /\ \A r \in Calls \ {q} : call'[r] = call[r]
      BY <3>2 DEF Set, IndInv, TypeOK
    <3>4. Progress(q)
      BY <2>2, <3>1, <3>3 DEF Progress
    <3>5. SoundCall(q) /\ q \in Writing /\ call[q].expected \in Nat
      BY <2>2, Types DEF IndInv, CallsSound, Writing
    <3>6. /\ call[q].conv \in Conversations
          /\ conv[call[q].conv].version = call[q].expected
      BY <2>2, <3>5 DEF SoundCall
    <3>7. DOMAIN conv = Conversations
      BY Types
    <3>8. /\ conv'[call[q].conv].version = call[q].expected + 1
          /\ \A c \in Conversations \ {call[q].conv} : conv'[c] = conv[c]
      BY <2>2, <3>6, <3>7 DEF Reserved
    <3> QED BY <1>1, <3>4, <3>5, <3>6, <3>8
  <2>3. CASE Commit(q)
    BY <2>2, <2>3 DEF Commit
  <2>4. CASE CommitRepeat(q)
    BY <2>2, <2>4 DEF CommitRepeat
  <2> QED BY <2>1, <2>3, <2>4
<1>3. CASE Lookup(q)
  <2>1. call[q].phase = "received"
    BY <1>3 DEF Lookup
  <2>2. CASE Replay(q)
    BY <2>1, <2>2, Replaying DEF Phases
  <2>3. CASE Advance(q, [call[q] EXCEPT !.phase = "fresh"])
    <3> DEFINE w == [call[q] EXCEPT !.phase = "fresh"]
    <3>1. w.key = call[q].key /\ w.phase = "fresh" /\ w.answer = call[q].answer
      BY Types DEF Call
    <3>2. Set(q, w) /\ UNCHANGED conv
      BY <2>3 DEF Advance
    <3> HIDE DEF w
    <3> QED BY <2>1, <3>1, <3>2, Advancing DEF Phases
  <2> QED BY <1>3, <2>2, <2>3 DEF Lookup
<1>4. CASE ReadConversation(q)
  <2>1. call[q].phase = "fresh"
    BY <1>4 DEF ReadConversation
  <2>2. CASE \E answer : Reply(q, answer)
    BY <2>1, <2>2, Replying DEF Phases
  <2>3. CASE Advance(q, [call[q] EXCEPT !.phase = "ready",
                                        !.sequence = conv[call[q].conv].next])
    <3> DEFINE w == [call[q] EXCEPT !.phase = "ready",
                                    !.sequence = conv[call[q].conv].next]
    <3>1. w.key = call[q].key /\ w.phase = "ready" /\ w.answer = call[q].answer
      BY Types DEF Call
    <3>2. Set(q, w) /\ UNCHANGED conv
      BY <2>3 DEF Advance
    <3> HIDE DEF w
    <3> QED BY <2>1, <3>1, <3>2, Advancing DEF Phases
  <2> QED BY <1>4, <2>2, <2>3 DEF ReadConversation
<1>5. CASE ReadHistory(q)
  <2> DEFINE w == [call[q] EXCEPT !.phase = "briefed", !.seen = Len(log[call[q].conv])]
  <2>1. w.key = call[q].key /\ w.phase = "briefed" /\ w.answer = call[q].answer
    BY Types DEF Call
  <2>2. Set(q, w) /\ UNCHANGED conv /\ call[q].phase = "ready"
    BY <1>5 DEF ReadHistory, Advance
  <2> HIDE DEF w
  <2> QED BY <2>1, <2>2, Advancing DEF Phases
<1>6. CASE Reserve(q)
  <2>1. call[q].phase = "briefed"
    BY <1>6 DEF Reserve
  <2>2. CASE LoseReservation(q)
    BY <2>1, <2>2, Replaying, Replying DEF LoseReservation, Phases
  <2>3. CASE Advance(q, [call[q] EXCEPT !.phase = "reserved"])
    <3> DEFINE w == [call[q] EXCEPT !.phase = "reserved"]
    <3>1. w.key = call[q].key /\ w.phase = "reserved" /\ w.answer = call[q].answer
      BY Types DEF Call
    <3>2. Set(q, w) /\ UNCHANGED conv
      BY <2>3 DEF Advance
    <3> HIDE DEF w
    <3> QED BY <2>1, <3>1, <3>2, Advancing DEF Phases
  <2> QED BY <1>6, <2>2, <2>3 DEF Reserve
<1>7. CASE Insert(q)
  <2>1. call[q].phase = "reserved"
    BY <1>7 DEF Insert
  <2>2. CASE Collide(q)
    <3> DEFINE w == [call[q] EXCEPT !.phase = "repeated", !.answer = "ok"]
    <3>1. w.key = call[q].key /\ w.phase = "repeated"
      BY Types DEF Call
    <3>2. CASE Set(q, w) /\ UNCHANGED conv
      <4> HIDE DEF w
      <4> QED BY <2>1, <3>1, <3>2, Advancing DEF Phases
    <3>3. CASE Reply(q, "mismatch")
      BY <2>1, <3>3, Replying DEF Phases
    <3> QED BY <2>2, <3>2, <3>3 DEF Collide, Repeat, Advance
  <2>3. CASE Advance(q, [call[q] EXCEPT !.phase = "inserted"])
    <3> DEFINE w == [call[q] EXCEPT !.phase = "inserted"]
    <3>1. w.key = call[q].key /\ w.phase = "inserted" /\ w.answer = call[q].answer
      BY Types DEF Call
    <3>2. Set(q, w) /\ UNCHANGED conv
      BY <2>3 DEF Advance
    <3> HIDE DEF w
    <3> QED BY <2>1, <3>1, <3>2, Advancing DEF Phases
  <2> QED BY <1>7, <2>2, <2>3 DEF Insert
<1>8. CASE Answer(q)
  <2> DEFINE w == [call[q] EXCEPT !.phase = "answered", !.answer = "ok"]
  <2>1. w.key = call[q].key /\ w.phase = "answered"
    BY Types DEF Call
  <2>2. Set(q, w) /\ UNCHANGED conv /\ call[q].phase = "inserted"
    BY <1>8 DEF Answer, Advance
  <2> HIDE DEF w
  <2> QED BY <2>1, <2>2, Advancing DEF Phases
<1>9. CASE Raise(q)
  BY <1>9, Replying DEF Raise
<1>10. CASE FailCommit(q)
  <2> DEFINE w == [call[q] EXCEPT !.phase = "lost"]
  <2>1. w.key = call[q].key /\ w.phase = "lost" /\ w.answer = call[q].answer
    BY Types DEF Call
  <2>2. Set(q, w) /\ UNCHANGED conv /\ call[q].phase \in Answered
    BY <1>10 DEF FailCommit, Advance
  <2> HIDE DEF w
  <2>3. call'[q] = w /\ \A r \in Calls \ {q} : call'[r] = call[r]
    BY <2>2 DEF Set, IndInv, TypeOK
  <2> QED BY <2>1, <2>2, <2>3 DEF Progress
<1> QED BY <1>2, <1>3, <1>4, <1>5, <1>6, <1>7, <1>8, <1>9, <1>10 DEF Serve

-----------------------------------------------------------------------------
\* Theorems.

\* The invariant holds in every reachable state.
THEOREM Inductive == Spec => []IndInv
<1>1. IndInv /\ [Next]_vars => IndInv'
  BY NextInv
<1> QED BY InitInv, <1>1, PTL DEF Spec

\* The rows of conversations and messages, and the calls, keep their shape.
THEOREM TypeCorrect == Spec => []TypeOK
<1>1. IndInv => TypeOK
  BY DEF IndInv
<1> QED BY Inductive, <1>1, PTL

\* submit stores one pair per idempotency key, and "ok" is said of that pair.
THEOREM StoredOncePerKey == Spec => []OncePerKey
<1>1. IndInv => OncePerKey
  BY FoundOnce DEF IndInv, CallsSound, SoundCall, OncePerKey
<1> QED BY Inductive, <1>1, PTL

\* _reserve_message_pair: a version gives out one number, the numbers grow in the
\* order of the commits, and none is lost but to a message found stored.
THEOREM SequencesStayOrdered == Spec => []SequencesOrdered
<1>1. IndInv => SequencesOrdered
  BY DEF IndInv
<1> QED BY Inductive, <1>1, PTL

\* Every stored reply was made from all of the pairs before it.
THEOREM RepliesAlwaysSeeHistory == Spec => []RepliesSeeHistory
<1>1. IndInv => RepliesSeeHistory
  BY DEF IndInv
<1> QED BY Inductive, <1>1, PTL
=============================================================================
