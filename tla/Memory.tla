------------------------------- MODULE Memory -------------------------------
(***************************************************************************)
(* MemoryService of backend/app/memory/service.py for one owner: memories  *)
(* that are created once per content, updated under a version, archived,   *)
(* expired by whoever meets them past their deadline, and deleted for      *)
(* good, by calls that overlap.                                            *)
(*                                                                         *)
(* A call is one read-committed transaction: it reads a row, decides on    *)
(* that copy, and ends with an UPDATE or INSERT that is conditional on the *)
(* row as it is then.  The row stays locked from the write to the COMMIT,  *)
(* so the write and the COMMIT are one step.  The clock is read once in a  *)
(* step.                                                                   *)
(*                                                                         *)
(* A content stands for every text and subject with one fingerprint.       *)
(***************************************************************************)
EXTENDS Naturals, Sequences, FiniteSets

CONSTANTS
  Memories,    \* identifiers of rows
  Contents,    \* contents, up to normalization
  Classes,     \* the classes of memory in play
  Deadlines,   \* moments at which a memory may expire
  MaxTime,     \* bound: the clock
  MaxVersion,  \* bound: the version of a row
  Calls,       \* calls that may be open at once
  Null,        \* no value
  Keep,        \* a field the update request does not set
  Scrubbed     \* what deletion leaves of a content

AllClasses == {"TEMPORARY_CONTEXT", "OPERATIONAL", "PERSISTENT_PREFERENCE",
               "HISTORICAL_DECISION", "DISCARDABLE"}

Statuses == {"ACTIVE", "ARCHIVED", "EXPIRED", "DELETED"}

ASSUME ClassesAssumption == Classes \subseteq AllClasses
ASSUME TimeAssumption == MaxTime \in Nat /\ Deadlines \subseteq Nat
ASSUME VersionAssumption == MaxVersion \in Nat
ASSUME ValuesAssumption ==
  /\ Null \notin Contents \cup Nat \cup Memories \cup {Keep, Scrubbed}
  /\ Null \notin AllClasses \cup Statuses
  /\ Keep \notin Contents \cup Nat \cup {Scrubbed}
  /\ Scrubbed \notin Contents

VARIABLES
  now,        \* utc_now
  row,        \* memory_records
  revisions,  \* memory_revisions: per memory the contents it has had
  events,     \* memory_events, in order of COMMIT, without DEDUPLICATED
  call,       \* the calls: what they read, were asked and have answered
  wrote       \* history: the content of every version, until deletion

vars == <<now, row, revisions, events, call, wrote>>

-----------------------------------------------------------------------------
EventTypes == {"CREATED", "UPDATED", "ARCHIVED", "EXPIRED", "DELETED"}
Operations == {"create", "get", "update", "archive", "delete", "list"}

Row == [status : Statuses \cup {"NONE"}, class : Classes \cup {Null},
        content : Contents \cup {Null, Scrubbed}, key : Contents \cup {Null},
        expires : Deadlines \cup {Null}, version : Nat]

NoRow == [status |-> "NONE", class |-> Null, content |-> Null, key |-> Null,
          expires |-> Null, version |-> 0]

Revision == [number : Nat, content : Contents \cup {Scrubbed}]

Event == [type : EventTypes, from : Statuses \cup {"NONE"}, to : Statuses]

\* copy: the row as last read; new: the row to insert; due: what a list has
\* found past its deadline; odd: the status of the memory that a create or a get
\* has answered with, if it was not ACTIVE.
Call == [phase : {"idle", "read", "refreshed", "insert", "collided"},
         op : Operations \cup {Null}, id : Memories \cup {Null},
         copy : Row, new : Row, expected : Nat,
         content : Contents \cup {Null, Keep},
         expires : Deadlines \cup {Null, Keep},
         due : SUBSET (Memories \X Nat), odd : Statuses \cup {Null}]

NoCall == [phase |-> "idle", op |-> Null, id |-> Null, copy |-> NoRow,
           new |-> NoRow, expected |-> 0, content |-> Null, expires |-> Null,
           due |-> {}, odd |-> Null]

Set(q, c) == call' = [call EXCEPT ![q] = c]

\* The call is over: a memory written by it, an error, 404.
Finish(q) == Set(q, NoCall)

\* The call is over and answers with a memory as it was last read.
FinishWith(q, r) ==
  Set(q, [NoCall EXCEPT !.odd = IF r.status = "ACTIVE" THEN Null ELSE r.status])

Database == <<row, revisions, events, wrote>>

\* The call ends and writes nothing.
Reject(q) == Finish(q) /\ UNCHANGED <<now, Database>>

-----------------------------------------------------------------------------
(* Rows.                                                                   *)

\* A historical decision has no deduplication key.
DeduplicationKey(class, content) ==
  IF class = "HISTORICAL_DECISION" THEN Null ELSE content

ActiveDuplicates(class, key) ==
  {m \in Memories : /\ row[m].status = "ACTIVE"
                    /\ row[m].class = class
                    /\ row[m].key = key
                    /\ key # Null}

\* memory as _expire_if_due sees it: past its deadline and still ACTIVE.
Due(r) == r.status = "ACTIVE" /\ r.expires # Null /\ now >= r.expires

\* The WHERE clause of expiry, update and archive.
StillAsRead(m, version) == row[m].status = "ACTIVE" /\ row[m].version = version

EventOf(type, from, to) == [type |-> type, from |-> from, to |-> to]

Log(m, type, from, to) ==
  events' = [events EXCEPT ![m] = Append(@, EventOf(type, from, to))]

Expired(r) == [r EXCEPT !.status = "EXPIRED", !.key = Null,
                        !.version = @ + 1]

Archived(r) == [r EXCEPT !.status = "ARCHIVED", !.version = @ + 1]

\* The tombstone of a row.
Deleted(r) == [r EXCEPT !.status = "DELETED", !.content = Scrubbed,
                        !.key = Null, !.version = @ + 1]

\* Bug variant: a new content keeps the key of the old one.
Updated_OldKey(r, content, expires) ==
  [r EXCEPT !.content = IF content = Keep THEN @ ELSE content,
            !.expires = IF expires = Keep THEN @ ELSE expires,
            !.version = @ + 1]

\* The values of an update: the fields the request sets, and the key again.
Updated(r, content, expires) ==
  LET text == IF content = Keep THEN r.content ELSE content
  IN  [r EXCEPT !.content = text,
                !.key = DeduplicationKey(r.class, text),
                !.expires = IF expires = Keep THEN @ ELSE expires,
                !.version = @ + 1]

-----------------------------------------------------------------------------
Init ==
  /\ now = 0
  /\ row = [m \in Memories |-> NoRow]
  /\ revisions = [m \in Memories |-> {}]
  /\ events = [m \in Memories |-> <<>>]
  /\ call = [q \in Calls |-> NoCall]
  /\ wrote = [m \in Memories |-> <<>>]

Tick == now < MaxTime /\ now' = now + 1 /\ UNCHANGED <<Database, call>>

\* The transaction is rolled back: an error, a lost connection, a crash.
Rollback(q) == call[q].phase # "idle" /\ Reject(q)

-----------------------------------------------------------------------------
(* Create.                                                                 *)

\* _create up to the look-up of a duplicate.  A call that the Permissions
\* Engine, the schema, the deadline or the provenance refuses changes nothing
\* and is no step, here and in the operations below.
BeginCreate(q, class, content, expires) ==
  LET key  == DeduplicationKey(class, content)
      new  == [status |-> "ACTIVE", class |-> class, content |-> content,
               key |-> key, expires |-> expires, version |-> 1]
      c    == [NoCall EXCEPT !.op = "create", !.new = new]
  IN  /\ call[q].phase = "idle"
      /\ class = "TEMPORARY_CONTEXT" => expires # Null
      /\ expires # Null => now < expires
      /\ \/ /\ ActiveDuplicates(class, key) = {}
            /\ Set(q, [c EXCEPT !.phase = "insert"])
         \/ \E m \in ActiveDuplicates(class, key) :
              Set(q, [c EXCEPT !.phase = "read", !.id = m, !.copy = row[m]])
      /\ UNCHANGED <<now, Database>>

\* rows: what the transaction has made of the table before the INSERT.
InsertInto(q, m, rows) ==
  /\ row[m].status = "NONE"
  /\ row' = [rows EXCEPT ![m] = call[q].new]
  /\ wrote' = [wrote EXCEPT ![m] = <<call[q].new.content>>]
  /\ UNCHANGED <<now, revisions>>
  /\ FinishWith(q, call[q].new)

\* The INSERT under uq_memory_active_deduplication.
Insert(q, m) ==
  /\ call[q].phase = "insert"
  /\ ActiveDuplicates(call[q].new.class, call[q].new.key) = {}
  /\ InsertInto(q, m, row)
  /\ Log(m, "CREATED", "NONE", "ACTIVE")

\* IntegrityError: another call has stored the content first.
Collide(q) ==
  /\ call[q].phase = "insert"
  /\ ActiveDuplicates(call[q].new.class, call[q].new.key) # {}
  /\ Set(q, [call[q] EXCEPT !.phase = "collided"])
  /\ UNCHANGED <<now, Database>>

\* The look-up after the savepoint is rolled back.
LookAgain(q) ==
  LET found == ActiveDuplicates(call[q].new.class, call[q].new.key)
  IN  /\ call[q].phase = "collided"
      /\ IF found = {} THEN Reject(q)
         ELSE /\ \E m \in found : FinishWith(q, row[m])
              /\ UNCHANGED <<now, Database>>

-----------------------------------------------------------------------------
(* Calls about one memory: the row is read first.                          *)

\* The statuses of the rows an operation goes on with.
Sees(op) == IF op = "delete" THEN {"ACTIVE", "ARCHIVED", "EXPIRED"} ELSE {"ACTIVE"}

\* A memory that is not found, or that already is what is asked for, is
\* answered at once; a version below the one read never matches again.
Begin(q, op, m, expected, content, expires) ==
  /\ call[q].phase = "idle"
  /\ row[m].status \in Sees(op)
  /\ op # "get" => expected >= row[m].version
  /\ op = "update" => ~(content = Keep /\ expires = Keep)
  /\ Set(q, [NoCall EXCEPT !.phase = "read", !.op = op, !.id = m,
                           !.copy = row[m], !.expected = expected,
                           !.content = content, !.expires = expires])
  /\ UNCHANGED <<now, Database>>

\* Every operation but delete first expires what is past its deadline.
MeetsDeadline(q) ==
  /\ call[q].phase = "read"
  /\ call[q].op \in {"create", "get", "update", "archive"}
  /\ Due(call[q].copy)

\* _expire_if_due: the UPDATE matches.  A create goes on to its INSERT, which
\* nothing can get ahead of while the row is locked.
Expire(q) ==
  LET m     == call[q].id
      after == [row EXCEPT ![m] = Expired(@)]
      ended == EventOf("EXPIRED", "ACTIVE", "EXPIRED")
      born  == EventOf("CREATED", "NONE", "ACTIVE")
  IN  /\ MeetsDeadline(q)
      /\ StillAsRead(m, call[q].copy.version)
      /\ \/ /\ call[q].op # "create"
            /\ row' = after
            /\ Log(m, "EXPIRED", "ACTIVE", "EXPIRED")
            /\ Finish(q)
            /\ UNCHANGED <<now, revisions, wrote>>
         \/ /\ call[q].op = "create"
            /\ \E n \in Memories :
                 /\ InsertInto(q, n, after)
                 /\ events' = [events EXCEPT ![m] = Append(@, ended),
                                             ![n] = Append(@, born)]

\* Bug variant: what somebody else has expired counts as still there.
Gone_Never(r) == r.status = "NONE"

\* What _expire_if_due makes of the row it reads again: only EXPIRED is gone.
Gone(r) == r.status = "EXPIRED"

\* _expire_if_due: the UPDATE matches no row, and the row is read again.
MissExpiry(q) ==
  LET r == row[call[q].id]
  IN  /\ MeetsDeadline(q)
      /\ ~StillAsRead(call[q].id, call[q].copy.version)
      /\ \/ /\ ~Gone(r)
            /\ Set(q, [call[q] EXCEPT !.phase = "refreshed", !.copy = r])
         \/ /\ Gone(r)
            /\ IF call[q].op = "create"
               THEN Set(q, [call[q] EXCEPT !.phase = "insert", !.id = Null,
                                           !.copy = NoRow])
               ELSE Finish(q)
      /\ UNCHANGED <<now, Database>>

\* Past _expire_if_due with a memory that has not expired.
Proceeds(q, op) ==
  /\ call[q].op = op
  /\ \/ call[q].phase = "read" /\ ~Due(call[q].copy)
     \/ call[q].phase = "refreshed"

\* The duplicate is answered instead; the event that says so moves nothing.
Deduplicate(q) ==
  /\ Proceeds(q, "create")
  /\ FinishWith(q, call[q].copy)
  /\ UNCHANGED <<now, Database>>

Get(q) ==
  /\ Proceeds(q, "get")
  /\ FinishWith(q, call[q].copy)
  /\ UNCHANGED <<now, Database>>

\* Would the new row break uq_memory_active_deduplication?
Clashes(m, r) == ActiveDuplicates(r.class, r.key) \ {m} # {}

\* Bug variant: any memory may be reworded.
UpdateStands_AnyClass(q) ==
  /\ call[q].copy.version = call[q].expected
  /\ StillAsRead(call[q].id, call[q].expected)
  /\ ~Clashes(call[q].id,
             Updated(row[call[q].id], call[q].content, call[q].expires))

\* What update_owned asks of the copy it read, and the database of the row.
UpdateStands(q) ==
  LET r       == call[q].copy
      m       == call[q].id
      expires == IF call[q].expires = Keep THEN r.expires ELSE call[q].expires
  IN  /\ r.class # "HISTORICAL_DECISION"
      /\ r.version = call[q].expected
      /\ r.class = "TEMPORARY_CONTEXT" => expires # Null
      /\ expires # Null => now < expires
      /\ StillAsRead(m, call[q].expected)
      /\ ~Clashes(m, Updated(row[m], call[q].content, call[q].expires))

\* Bug variant: the snapshot is taken of the row once it is updated.
Snapshot_After(r) == [number |-> r.version + 1, content |-> r.content]

\* _revision_snapshot: the copy that was read, under its version.
Snapshot(r) == [number |-> r.version, content |-> r.content]

Update(q) ==
  LET m   == call[q].id
      new == Updated(row[m], call[q].content, call[q].expires)
  IN  /\ Proceeds(q, "update")
      /\ IF ~UpdateStands(q) THEN Reject(q)
         ELSE /\ row[m].version < MaxVersion
              /\ row' = [row EXCEPT ![m] = new]
              /\ revisions' = [revisions EXCEPT ![m] = @ \cup {Snapshot(call[q].copy)}]
              /\ wrote' = [wrote EXCEPT ![m] = Append(@, new.content)]
              /\ Log(m, "UPDATED", "ACTIVE", "ACTIVE")
              /\ Finish(q)
              /\ UNCHANGED now

Archive(q) ==
  LET m == call[q].id
  IN  /\ Proceeds(q, "archive")
      /\ IF \/ call[q].copy.version # call[q].expected
            \/ ~StillAsRead(m, call[q].expected)
         THEN Reject(q)
         ELSE /\ row' = [row EXCEPT ![m] = Archived(@)]
              /\ Log(m, "ARCHIVED", "ACTIVE", "ARCHIVED")
              /\ Finish(q)
              /\ UNCHANGED <<now, revisions, wrote>>

\* Bug variant: only the row is scrubbed.
Scrub_Nothing(r) == r

Scrub(r) == [r EXCEPT !.content = Scrubbed]

\* The row in whatever status, and all its revisions, lose their content.
Delete(q) ==
  LET m == call[q].id
  IN  /\ call[q].op = "delete"
      /\ call[q].phase = "read"
      /\ IF \/ call[q].copy.version # call[q].expected
            \/ row[m].status = "DELETED"
            \/ row[m].version # call[q].expected
         THEN Reject(q)
         ELSE /\ row' = [row EXCEPT ![m] = Deleted(@)]
              /\ revisions' = [revisions EXCEPT ![m] = {Scrub(r) : r \in @}]
              /\ Log(m, "DELETED", call[q].copy.status, "DELETED")
              /\ wrote' = [wrote EXCEPT ![m] = <<>>]
              /\ Finish(q)
              /\ UNCHANGED now

-----------------------------------------------------------------------------
(* list_owned and build_context_pack.                                      *)

\* The caller may read (_authorize); _materialize_due_expirations finds what is
\* past its deadline.
BeginList(q) ==
  /\ call[q].phase = "idle"
  /\ Set(q, [NoCall EXCEPT
       !.phase = "read", !.op = "list",
       !.due = {<<m, row[m].version>> : m \in {n \in Memories : Due(row[n])}}])
  /\ UNCHANGED <<now, Database>>

\* What is left of it expires; the rows that are shown are read after that.
List(q) ==
  LET gone  == {m \in Memories : \E d \in call[q].due :
                                   d[1] = m /\ StillAsRead(m, d[2])}
      after == [m \in Memories |-> IF m \in gone THEN Expired(row[m]) ELSE row[m]]
  IN  /\ call[q].op = "list"
      /\ call[q].phase = "read"
      /\ row' = after
      /\ events' = [m \in Memories |->
           IF m \in gone
           THEN Append(events[m], EventOf("EXPIRED", "ACTIVE", "EXPIRED"))
           ELSE events[m]]
      /\ Finish(q)
      /\ UNCHANGED <<now, revisions, wrote>>

-----------------------------------------------------------------------------
Ask(q) ==
  \/ \E class \in Classes, content \in Contents,
        expires \in Deadlines \cup {Null} : BeginCreate(q, class, content, expires)
  \/ \E m \in Memories : Begin(q, "get", m, 0, Keep, Keep)
  \/ \E m \in Memories, expected \in 1 .. MaxVersion + 1 :
       \/ Begin(q, "archive", m, expected, Keep, Keep)
       \/ Begin(q, "delete", m, expected, Keep, Keep)
       \/ \E content \in Contents \cup {Keep},
             expires \in Deadlines \cup {Null, Keep} :
            Begin(q, "update", m, expected, content, expires)
  \/ BeginList(q)

Work(q) ==
  \/ \E m \in Memories : Insert(q, m)
  \/ Collide(q)
  \/ LookAgain(q)
  \/ Expire(q)
  \/ MissExpiry(q)
  \/ Deduplicate(q)
  \/ Get(q)
  \/ Update(q)
  \/ Archive(q)
  \/ Delete(q)
  \/ List(q)
  \/ Rollback(q)

Next == Tick \/ \E q \in Calls : Ask(q) \/ Work(q)

Spec == Init /\ [][Next]_vars

-----------------------------------------------------------------------------
\* The shape of the tables of memory/models.py and of the calls.
TypeOK ==
  /\ now \in 0..MaxTime
  /\ row \in [Memories -> Row]
  /\ revisions \in [Memories -> SUBSET Revision]
  /\ events \in [Memories -> Seq(Event)]
  /\ wrote \in [Memories -> Seq(Contents)]
  /\ call \in [Calls -> Call]

\* The pre-update content of every version is kept under its number, and
\* nothing else is: no update is lost and none is recorded that did not
\* happen, however updates, archiving and expiry of one memory overlap.
RevisionsTell ==
  \A m \in Memories : row[m].status \notin {"NONE", "DELETED"} =>
    /\ row[m].content = wrote[m][Len(wrote[m])]
    /\ revisions[m] = {[number |-> n, content |-> wrote[m][n]] :
                         n \in 1 .. Len(wrote[m]) - 1}

\* A deleted memory keeps a tombstone and no content, in the row and in every
\* revision: no update that was under way when it was deleted brings any back.
DeletedIsScrubbed ==
  \A m \in Memories : row[m].status = "DELETED" =>
    /\ row[m].content = Scrubbed /\ row[m].key = Null
    /\ \A r \in revisions[m] : r.content = Scrubbed

\* Two ACTIVE memories of a class never hold one content, historical
\* decisions apart: creates that race, creates that replace an expired
\* duplicate and updates that change the content included.
NoActiveTwins ==
  \A m, n \in Memories :
    /\ m # n
    /\ row[m].status = "ACTIVE" /\ row[n].status = "ACTIVE"
    /\ row[m].class = row[n].class
    /\ row[m].class # "HISTORICAL_DECISION"
    => row[m].content # row[n].content

\* The chronology of memory_events is whole: one event per version, each
\* leaves from where the one before arrived, and the last arrived at the
\* status of the row.
ChronologyIsWhole ==
  \A m \in Memories :
    LET moves == events[m]
    IN  /\ Len(moves) = row[m].version
        /\ \A i \in DOMAIN moves :
             moves[i].from = IF i = 1 THEN "NONE" ELSE moves[i - 1].to
        /\ moves # <<>> => moves[Len(moves)].to = row[m].status

\* The two tables that record the past of a memory are true to it.
HistoryIsTrue == RevisionsTell /\ ChronologyIsWhole

\* A memory that has expired is never the answer of GET or POST, whoever has
\* expired it between the look-up and the answer.
ExpiredIsNotAnswered ==
  \A q \in Calls : call[q].odd # "EXPIRED"

\* "GET returns only an active owned record", of docs/api/memory.md, is not an
\* invariant: the refresh of _expire_if_due takes ARCHIVED and DELETED for not
\* expired, and the memory is answered.
AnsweredIsActive ==
  \A q \in Calls : call[q].odd = Null

NextStatuses == [NONE |-> {"ACTIVE"},
                 ACTIVE |-> {"ACTIVE", "ARCHIVED", "EXPIRED", "DELETED"},
                 ARCHIVED |-> {"DELETED"}, EXPIRED |-> {"DELETED"},
                 DELETED |-> {}]

\* A memory changes one version at a time and never comes back: what is
\* archived or expired can only be deleted, what is deleted stays as it is,
\* and a historical decision is never reworded.
NeverComesBack ==
  [][\A m \in Memories : row'[m] # row[m] =>
       /\ row'[m].version = row[m].version + 1
       /\ row'[m].status \in NextStatuses[row[m].status]
       /\ row[m].class = "HISTORICAL_DECISION" =>
            row'[m].content \in {row[m].content, Scrubbed}]_vars

-----------------------------------------------------------------------------
(* The inductive invariant.                                                *)

\* A row against what is recorded of it: its revisions, its events and the
\* contents it has had.  A row has its class and, until it is deleted, a
\* content; while it is ACTIVE its key is that of its content and every
\* version so far has brought a content.
SoundRow(r, revs, moves, texts) ==
  /\ r.status = "NONE" => r = NoRow /\ revs = {}
  /\ r.status # "NONE" => r.class \in Classes /\ r.version # 0
  /\ r.status = "ACTIVE" => /\ r.key = DeduplicationKey(r.class, r.content)
                            /\ Len(texts) = r.version
  /\ r.status \notin {"NONE", "DELETED"} =>
       /\ r.content \in Contents /\ texts # <<>>
       /\ r.content = texts[Len(texts)]
       /\ revs = {[number |-> n, content |-> texts[n]] : n \in 1 .. Len(texts) - 1}
  /\ r.status = "DELETED" => /\ r.content = Scrubbed /\ r.key = Null
                             /\ \A v \in revs : v.content = Scrubbed
  /\ Len(moves) = r.version
  /\ \A i \in DOMAIN moves :
       moves[i].from = IF i = 1 THEN "NONE" ELSE moves[i - 1].to
  /\ moves # <<>> => moves[Len(moves)].to = r.status

RowsSound ==
  \A m \in Memories : SoundRow(row[m], revisions[m], events[m], wrote[m])

\* The row that a create is about to insert.
Newborn(r) ==
  /\ r.status = "ACTIVE" /\ r.version = 1
  /\ r.class \in Classes /\ r.content \in Contents
  /\ r.key = DeduplicationKey(r.class, r.content)

\* The copy is of a version the row has had, and is the row if the version is
\* still that one.
CopyOf(r, current) ==
  /\ r.version <= current.version
  /\ r.version = current.version => r = current

\* What a call has read and is about to write.  The duplicate a create has met
\* has the class and the key of what it creates.
SoundCall(c) ==
  /\ c.phase \in {"insert", "collided"} => c.op = "create"
  /\ c.phase # "idle" /\ c.op = "create" => Newborn(c.new)
  /\ c.phase # "idle" /\ c.op = "update" => c.content # Null
  /\ c.phase = "read" /\ c.op # "list" =>
       /\ c.id \in Memories /\ CopyOf(c.copy, row[c.id])
       /\ c.copy.status \in Sees(c.op)
       /\ c.op = "create" => /\ c.copy.class = c.new.class
                             /\ c.copy.key = c.new.key /\ c.new.key # Null
  /\ c.phase = "refreshed" => /\ c.id \in Memories /\ CopyOf(c.copy, row[c.id])
                              /\ c.copy.status \notin {"NONE", "EXPIRED"}

CallsSound == \A q \in Calls : SoundCall(call[q])

IndInv ==
  /\ TypeOK /\ RowsSound /\ CallsSound
  /\ NoActiveTwins /\ ExpiredIsNotAnswered
=============================================================================
