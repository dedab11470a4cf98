--------------------------- MODULE TextAssistant ----------------------------
(***************************************************************************)
(* TextAssistantService of backend/app/text_assistant/service.py for one   *)
(* owner: the message pairs submit stores, the versions that order them,   *)
(* the idempotency keys, which span the owner's conversations, and calls   *)
(* that overlap because clients time out and send a message again.         *)
(*                                                                         *)
(* A call is one read-committed transaction of several statements, and     *)
(* each sees what is committed by then: the look-up of the key, the        *)
(* conversation, the history, the UPDATE that reserves two sequence        *)
(* numbers and locks the conversation until the end, and the INSERT that   *)
(* waits for an uncommitted row with the same key.  The answer leaves      *)
(* before the COMMIT: the session is closed after the response is sent.    *)
(*                                                                         *)
(* What is said in a message is one value and what the assistant replies   *)
(* is left out; what _dispatch changes is rolled back with the call.       *)
(***************************************************************************)
EXTENDS Naturals, Sequences, FiniteSets

CONSTANTS
  Conversations,
  Calls,         \* calls of submit, each made once
  Keys,          \* idempotency keys
  Bodies,        \* the fields of a request that its fingerprint covers
  Null,          \* no value
  CommitMayFail  \* can a COMMIT fail after the answer was sent?

ASSUME NullAssumption == Null \notin Keys \cup Bodies \cup Conversations
ASSUME CommitAssumption == CommitMayFail \in BOOLEAN

VARIABLES
  conv,   \* the rows of conversations: version and next_sequence
  log,    \* per conversation its message pairs, in order of COMMIT
  call    \* every call, how far it has come and what it has answered

vars == <<conv, log, call>>

-----------------------------------------------------------------------------
\* The answer is out and the COMMIT is not: of a new pair; of a reservation
\* alone, by a call that was answered from the pair another call has stored.
Answered == {"answered", "repeated"}

\* The COMMIT failed; it was of a reservation alone; any other end.
Ended == {"lost", "spent", "done"}

Phases == {"new", "received", "fresh", "ready", "briefed", "reserved",
           "inserted"} \cup Answered \cup Ended

\* ok; the key is taken by another message; the conversation has moved on;
\* no credentials; device revoked; other refusals; a 5xx.
Answers == {"ok", "mismatch", "conflict", "unauthenticated", "revoked",
            "refused", "unavailable"}

\* seen: how many user messages the reply was made from.
Pair == [key : Keys, body : Bodies, sequence : Nat, seen : Nat]

Call == [phase : Phases, conv : Conversations \cup {Null},
         key : Keys \cup {Null}, body : Bodies \cup {Null},
         expected : Nat, sequence : Nat, seen : Nat,
         answer : Answers \cup {"none"}]

NoCall == [phase |-> "new", conv |-> Null, key |-> Null, body |-> Null,
           expected |-> 0, sequence |-> 0, seen |-> 0, answer |-> "none"]

\* Version 0: there is no such conversation.
Conversation == [version : Nat, next : Nat]
NoConversation == [version |-> 0, next |-> 0]

Set(q, c) == call' = [call EXCEPT ![q] = c]

Advance(q, c) == Set(q, c) /\ UNCHANGED <<conv, log>>

\* The call ends without writing: its transaction is rolled back or empty.
Reply(q, answer) ==
  Advance(q, [call[q] EXCEPT !.phase = "done", !.answer = answer])

\* _idempotent_existing, the role USER of every pair implied.
Stored(key) ==
  UNION {{<<c, i>> : i \in {j \in DOMAIN log[c] : log[c][j].key = key}} :
           c \in Conversations}

\* request.fingerprint covers the conversation and not expected_version.
SameMessage(q, p) ==
  /\ p[1] = call[q].conv
  /\ log[p[1]][p[2]].body = call[q].body

Existing(q, p) == IF SameMessage(q, p) THEN "ok" ELSE "mismatch"

\* The key is known: _existing_response, or the fingerprints clash.
Replay(q) == \E p \in Stored(call[q].key) : Reply(q, Existing(q, p))

\* Calls with an uncommitted update of their conversation.
Writing == {q \in Calls : call[q].phase \in {"reserved", "inserted"} \cup Answered}

-----------------------------------------------------------------------------
Init ==
  /\ conv = [c \in Conversations |-> NoConversation]
  /\ log = [c \in Conversations |-> <<>>]
  /\ call = [q \in Calls |-> NoCall]

CreateConversation(c) ==
  /\ conv[c].version = 0
  /\ conv' = [conv EXCEPT ![c] = [version |-> 1, next |-> 1]]
  /\ UNCHANGED <<log, call>>

Submit(q, c, key, body, expected) ==
  /\ call[q].phase = "new"
  /\ Advance(q, [NoCall EXCEPT !.phase = "received", !.conv = c, !.key = key,
                               !.body = body, !.expected = expected])

\* The first statement: is the key known?
Lookup(q) ==
  /\ call[q].phase = "received"
  /\ \/ Replay(q)
     \/ /\ Stored(call[q].key) = {}
        /\ Advance(q, [call[q] EXCEPT !.phase = "fresh"])

\* get_owned, and the version against the one expected.
ReadConversation(q) ==
  LET row == conv[call[q].conv]
  IN /\ call[q].phase = "fresh"
     /\ \/ row.version = 0 /\ Reply(q, "refused")
        \/ row.version \notin {0, call[q].expected} /\ Reply(q, "conflict")
        \/ /\ row.version = call[q].expected
           /\ row.version # 0
           /\ Advance(q, [call[q] EXCEPT !.phase = "ready", !.sequence = row.next])

ReadHistory(q) ==
  /\ call[q].phase = "ready"
  /\ Advance(q, [call[q] EXCEPT !.phase = "briefed",
                                !.seen = Len(log[call[q].conv])])

VersionHolds(q) == conv[call[q].conv].version = call[q].expected

\* The UPDATE matched no row: the key is looked up once more.
LoseReservation(q) ==
  \/ Replay(q)
  \/ Stored(call[q].key) = {} /\ Reply(q, "conflict")

\* Bug variant: the row is locked and read again instead of compared.
Reserve_Reread(q) ==
  /\ call[q].phase = "briefed"
  /\ \A r \in Writing : call[r].conv # call[q].conv
  /\ Advance(q, [call[q] EXCEPT !.phase = "reserved",
                                !.expected = conv[call[q].conv].version,
                                !.sequence = conv[call[q].conv].next])

\* _reserve_message_pair: waits for the row, then updates it if its version is
\* still the one expected.
Reserve(q) ==
  /\ call[q].phase = "briefed"
  /\ \A r \in Writing : call[r].conv # call[q].conv
  /\ \/ /\ VersionHolds(q)
        /\ Advance(q, [call[q] EXCEPT !.phase = "reserved"])
     \/ ~VersionHolds(q) /\ LoseReservation(q)

NextSequence(q) == call[q].sequence + 2

Reserved(q) ==
  [conv EXCEPT ![call[q].conv] =
     [version |-> call[q].expected + 1, next |-> NextSequence(q)]]

\* Bug variant: uq_message_user_idempotency covers one conversation.
KeyTaken_PerConversation(q) ==
  \E p \in Stored(call[q].key) : p[1] = call[q].conv

\* uq_message_user_idempotency
KeyTaken(q) == Stored(call[q].key) # {}

\* The message is stored: the call returns, and keeps what it has reserved.
Repeat(q) ==
  Advance(q, [call[q] EXCEPT !.phase = "repeated", !.answer = "ok"])

\* Bug variant: the clash is returned too, not raised.
Collide_Returns(q) ==
  \E p \in Stored(call[q].key) :
    \/ SameMessage(q, p) /\ Repeat(q)
    \/ /\ ~SameMessage(q, p)
       /\ Set(q, [call[q] EXCEPT !.phase = "done", !.answer = "mismatch"])
       /\ conv' = Reserved(q)
       /\ UNCHANGED log

\* The INSERT fails in its savepoint: another call has stored this key since it
\* was looked up.  Only a clash of fingerprints is raised and rolls back the
\* reservation with it.
Collide(q) ==
  \E p \in Stored(call[q].key) :
    \/ SameMessage(q, p) /\ Repeat(q)
    \/ ~SameMessage(q, p) /\ Reply(q, "mismatch")

\* The user message.  Only a call for another conversation can hold the key.
Insert(q) ==
  /\ call[q].phase = "reserved"
  /\ \A r \in Calls : call[r].phase \in {"inserted", "answered"} =>
                        call[r].key # call[q].key
  /\ \/ KeyTaken(q) /\ Collide(q)
     \/ ~KeyTaken(q) /\ Advance(q, [call[q] EXCEPT !.phase = "inserted"])

\* _dispatch, the assistant message and the response.
Answer(q) ==
  /\ call[q].phase = "inserted"
  /\ Advance(q, [call[q] EXCEPT !.phase = "answered", !.answer = "ok"])

Commit(q) ==
  /\ call[q].phase = "answered"
  /\ log' = [log EXCEPT ![call[q].conv] =
               Append(@, [key |-> call[q].key, body |-> call[q].body,
                          sequence |-> call[q].sequence, seen |-> call[q].seen])]
  /\ conv' = Reserved(q)
  /\ Set(q, [call[q] EXCEPT !.phase = "done"])

\* get_db_session commits the reservation of a call that stored nothing.
CommitRepeat(q) ==
  /\ call[q].phase = "repeated"
  /\ conv' = Reserved(q)
  /\ Set(q, [call[q] EXCEPT !.phase = "spent"])
  /\ UNCHANGED log

\* Authentication or a service in between raises: a rollback and an error.
Raise(q) ==
  /\ call[q].phase \in Phases \ ({"new"} \cup Answered \cup Ended)
  /\ \E answer \in {"unauthenticated", "revoked", "refused", "unavailable"} :
       Reply(q, answer)

\* The COMMIT fails: the answer is out already, and nothing is written.
FailCommit(q) ==
  /\ CommitMayFail
  /\ call[q].phase \in Answered
  /\ Advance(q, [call[q] EXCEPT !.phase = "lost"])

Serve(q) ==
  \/ Lookup(q) \/ ReadConversation(q) \/ ReadHistory(q) \/ Reserve(q)
  \/ Insert(q) \/ Answer(q) \/ Commit(q) \/ CommitRepeat(q) \/ Raise(q)
  \/ FailCommit(q)

\* expected_version is any positive number; one beyond the next is like it.
Next ==
  \/ \E c \in Conversations : CreateConversation(c)
  \/ \E q \in Calls :
       \/ Serve(q)
       \/ \E c \in Conversations, key \in Keys, body \in Bodies :
            \E expected \in 1..(conv[c].version + 1) :
              Submit(q, c, key, body, expected)

Spec == Init /\ [][Next]_vars

-----------------------------------------------------------------------------
\* Properties.

\* The variables keep the shapes of the tables and of the calls in flight.
TypeOK ==
  /\ conv \in [Conversations -> Conversation]
  /\ log \in [Conversations -> Seq(Pair)]
  /\ call \in [Calls -> Call]

\* submit with one idempotency key, however often, however overlapping and for
\* whichever conversation, stores one message pair, and every caller told "ok"
\* sent what is stored or about to be, or is the one whose COMMIT failed: no
\* other caller is ever answered from a pair that was not committed.
OncePerKey ==
  /\ \A key \in Keys : Cardinality(Stored(key)) <= 1
  /\ \A q \in Calls : call[q].answer = "ok" =>
       \/ call[q].phase \in {"answered", "lost"}
       \/ \E p \in Stored(call[q].key) : SameMessage(q, p)

\* The sequence numbers of the user messages of a conversation, and those that
\* a call reserved and committed without a message.
Numbers(c) == {log[c][i].sequence : i \in DOMAIN log[c]}

Skipped(c) ==
  {call[q].sequence : q \in {r \in Calls : call[r].phase = "spent" /\ call[r].conv = c}}

\* Every version from 1 on has given out one number: next_sequence at the time.
GivenOut(version) == {2 * n - 1 : n \in 1..(version - 1)}

\* _reserve_message_pair: a version gives out one number, the numbers of the
\* pairs grow in the order they were committed, and of those given out none is
\* lost but to a message that was sent again and found stored.
SequencesOrdered ==
  \A c \in Conversations :
    /\ conv[c].version # 0 => conv[c].next = 2 * conv[c].version - 1
    /\ \A i, j \in DOMAIN log[c] : i < j => log[c][i].sequence < log[c][j].sequence
    /\ Numbers(c) \cup Skipped(c) = GivenOut(conv[c].version)

\* docs/api/text-assistant.md: a message is idempotent, so that a call answered
\* with the pair another call has stored leaves the conversation as it is.  It is
\* not so: the reservation of a call whose INSERT fails is committed.
RepeatChangesNothing ==
  [][\A c \in Conversations :
       conv[c].version \notin {0, conv'[c].version} => log'[c] # log[c]]_vars

\* The history is read before the reservation and without a lock: a stored
\* reply was nevertheless made from all of the pairs before it.
RepliesSeeHistory ==
  \A c \in Conversations : \A i \in DOMAIN log[c] : log[c][i].seen = i - 1

\* docs/architecture/offline-system.md: idempotency is checked before the
\* conversation version, so that a message sent again is answered with what is
\* stored and never with a conflict.  It is not an invariant: the first call may
\* commit between the look-up of the key and the read of the version.
ConflictMeansNotStored ==
  \A q \in Calls : call[q].answer = "conflict" =>
    ~\E p \in Stored(call[q].key) : SameMessage(q, p)

-----------------------------------------------------------------------------
\* The inductive invariant.

\* No key is stored twice, and a conversation that does not exist has no pairs.
LogSound ==
  /\ \A c, d \in Conversations : \A i \in DOMAIN log[c], j \in DOMAIN log[d] :
       log[c][i].key = log[d][j].key => c = d /\ i = j
  /\ \A c \in Conversations : conv[c].version = 0 => log[c] = <<>>

\* The phases of a call that has read the history.
Reading == {"briefed", "reserved", "inserted"} \cup Answered

\* What a call has read is the conversation's as long as the version is the one
\* expected, and from the UPDATE on it is; once its message is in, no other pair
\* has its key.
SoundCall(q) ==
  LET w   == call[q]
      row == conv[w.conv]
  IN  /\ w.phase # "new" => /\ w.conv \in Conversations /\ w.key \in Keys
                            /\ w.body \in Bodies /\ w.expected # 0
      /\ w.phase \in Reading \cup {"ready"} =>
           w.expected <= row.version /\ w.sequence = 2 * w.expected - 1
      /\ w.phase \in Reading =>
           (row.version = w.expected => w.seen = Len(log[w.conv]))
      /\ q \in Writing => row.version = w.expected
      /\ w.phase \in {"inserted", "answered"} => Stored(w.key) = {}
      /\ w.phase = "new" => w.answer = "none"
      /\ w.answer = "ok" =>
           \/ w.phase \in {"answered", "lost"}
           \/ \E p \in Stored(w.key) : SameMessage(q, p)

\* The UPDATE locks a conversation, the INSERT a key.
Exclusive(q, r) ==
  /\ q \in Writing /\ r \in Writing => call[q].conv # call[r].conv
  /\ {call[q].phase, call[r].phase} \subseteq {"inserted", "answered"} =>
       call[q].key # call[r].key

CallsSound ==
  /\ \A q \in Calls : SoundCall(q)
  /\ \A q, r \in Calls : q # r => Exclusive(q, r)

IndInv == TypeOK /\ LogSound /\ SequencesOrdered /\ RepliesSeeHistory /\ CallsSound
=============================================================================
