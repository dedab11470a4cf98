---------------------------- MODULE MemoryProofs ----------------------------
(***************************************************************************)
(* Proofs about Memory, for every set of rows, contents, deadlines and     *)
(* calls and every bound.  IndInv is inductive.  What an operation does to *)
(* one row is proved first, of the row and its records alone; then that    *)
(* every step leaves a row as it is or makes one of those moves; then that *)
(* a copy read before such a move never passes for the row after it.       *)
(***************************************************************************)
EXTENDS Memory, SequenceTheorems, TLAPS

-----------------------------------------------------------------------------
\* One row.

\* The types of a row and of its records.
TypedRow(r, revs, moves, texts) ==
  /\ r \in Row /\ revs \in SUBSET Revision
  /\ moves \in Seq(Event) /\ texts \in Seq(Contents)

\* A chronology that is whole stays whole when a move from the status of the
\* row is appended.
LEMMA AppendedMove ==
  ASSUME NEW r \in Row, NEW moves \in Seq(Event), NEW e \in Event,
         Len(moves) = r.version,
         \A i \in DOMAIN moves :
           moves[i].from = IF i = 1 THEN "NONE" ELSE moves[i - 1].to,
         moves # <<>> => moves[Len(moves)].to = r.status,
         moves = <<>> => e.from = "NONE",
         moves # <<>> => e.from = r.status
  PROVE  LET after == Append(moves, e)
         IN  /\ after \in Seq(Event)
             /\ Len(after) = r.version + 1
             /\ \A i \in DOMAIN after :
                  after[i].from = IF i = 1 THEN "NONE" ELSE after[i - 1].to
             /\ after[Len(after)].to = e.to
             /\ after # <<>>
<1> DEFINE after == Append(moves, e)
<1>1. /\ after \in Seq(Event)
      /\ Len(after) = Len(moves) + 1
      /\ \A i \in 1 .. Len(moves) : after[i] = moves[i]
      /\ after[Len(moves) + 1] = e
  BY AppendProperties
<1>2. DOMAIN moves = 1 .. Len(moves) /\ DOMAIN after = 1 .. Len(moves) + 1
      /\ Len(moves) \in Nat /\ r.version \in Nat
  BY <1>1, LenProperties DEF Row
<1> HIDE DEF after
<1>3. after # <<>>
  <2>1. Len(after) # 0
    BY <1>1, <1>2
  <2> QED BY <2>1
<1>4. ASSUME NEW i \in DOMAIN after
      PROVE  after[i].from = IF i = 1 THEN "NONE" ELSE after[i - 1].to
  <2>1. CASE i \in 1 .. Len(moves)
    <3>1. i # 1 => i - 1 \in 1 .. Len(moves)
      BY <2>1, <1>2
    <3> QED BY <2>1, <3>1, <1>1, <1>2
  <2>2. CASE i = Len(moves) + 1 /\ Len(moves) = 0
    <3>1. moves = <<>>
      BY <2>2, EmptySeq
    <3> QED BY <2>2, <3>1, <1>1
  <2>3. CASE i = Len(moves) + 1 /\ Len(moves) # 0
    <3>1. moves # <<>>
      BY <2>3
    <3>2. i # 1 /\ i - 1 = Len(moves) /\ i - 1 \in 1 .. Len(moves)
      BY <2>3, <1>2
    <3>3. after[i - 1] = moves[Len(moves)] /\ after[i] = e
      BY <3>2, <1>1, <2>3
    <3> QED BY <3>1, <3>2, <3>3
  <2> QED BY <1>2, <2>1, <2>2, <2>3
<1> QED BY <1>1, <1>2, <1>3, <1>4 DEF after

\* _create: an empty row becomes a newborn one.
LEMMA BornRow ==
  ASSUME NEW r, NEW revs, NEW moves, NEW texts,
         TypedRow(r, revs, moves, texts), SoundRow(r, revs, moves, texts),
         r.status = "NONE", NEW n \in Row, Newborn(n)
  PROVE  LET now_moves == Append(moves, EventOf("CREATED", "NONE", "ACTIVE"))
         IN  /\ TypedRow(n, revs, now_moves, <<n.content>>)
             /\ SoundRow(n, revs, now_moves, <<n.content>>)
             /\ n.version = r.version + 1
<1> DEFINE e == EventOf("CREATED", "NONE", "ACTIVE")
<1>1. e \in Event /\ e.from = "NONE" /\ e.to = "ACTIVE"
  BY DEF EventOf, Event, Statuses, EventTypes
<1>2. r = NoRow /\ revs = {} /\ r.version = 0 /\ r \in Row
  BY DEF SoundRow, NoRow, TypedRow
<1>3. Len(moves) = 0 /\ moves = <<>> /\ moves \in Seq(Event)
  BY <1>2, EmptySeq DEF SoundRow, TypedRow
<1> HIDE DEF e
<1>4. LET after == Append(moves, e)
      IN  /\ after \in Seq(Event)
          /\ Len(after) = r.version + 1
          /\ \A i \in DOMAIN after :
               after[i].from = IF i = 1 THEN "NONE" ELSE after[i - 1].to
          /\ after[Len(after)].to = e.to
          /\ after # <<>>
  BY <1>1, <1>2, <1>3, AppendedMove DEF SoundRow
<1>5. n.content \in Contents /\ n.version = 1 /\ n.status = "ACTIVE"
      /\ n.class \in Classes /\ n.key = DeduplicationKey(n.class, n.content)
  BY DEF Newborn
<1>6. /\ <<n.content>> \in Seq(Contents) /\ Len(<<n.content>>) = 1
      /\ <<n.content>>[1] = n.content /\ <<n.content>> # <<>>
  BY <1>5
<1>7. revs = {[number |-> k, content |-> <<n.content>>[k]] :
                k \in 1 .. Len(<<n.content>>) - 1}
  <2>1. 1 .. Len(<<n.content>>) - 1 = {}
    BY <1>6
  <2> QED BY <2>1, <1>2
<1>8. TypedRow(n, revs, Append(moves, e), <<n.content>>)
  BY <1>2, <1>4, <1>6 DEF TypedRow
<1>9. SoundRow(n, revs, Append(moves, e), <<n.content>>)
  BY <1>1, <1>2, <1>4, <1>5, <1>6, <1>7 DEF SoundRow
<1> QED BY <1>2, <1>5, <1>8, <1>9 DEF e

\* A row that keeps its content and leaves ACTIVE: _expire_if_due,
\* _materialize_due_expirations and archive_owned.
LEMMA LeavingRow ==
  ASSUME NEW r, NEW revs, NEW moves, NEW texts,
         TypedRow(r, revs, moves, texts), SoundRow(r, revs, moves, texts),
         r.status = "ACTIVE", NEW to \in {"EXPIRED", "ARCHIVED"},
         NEW n \in Row, n.status = to, n.class = r.class,
         n.content = r.content, n.version = r.version + 1
  PROVE  LET after == Append(moves, EventOf(to, "ACTIVE", to))
         IN  TypedRow(n, revs, after, texts) /\ SoundRow(n, revs, after, texts)
<1> DEFINE e == EventOf(to, "ACTIVE", to)
<1>1. e \in Event /\ e.from = "ACTIVE" /\ e.to = to
  BY DEF EventOf, Event, Statuses, EventTypes
<1>2. r \in Row /\ moves \in Seq(Event) /\ r.version \in Nat
  BY DEF TypedRow, Row
<1>3. moves # <<>>
  <2>1. texts \in Seq(Contents) /\ texts # <<>> /\ Len(texts) = r.version
    BY DEF SoundRow, TypedRow
  <2>2. Len(texts) # 0
    BY <2>1, EmptySeq
  <2>3. Len(moves) # 0
    BY <2>1, <2>2 DEF SoundRow
  <2> QED BY <2>3
<1> HIDE DEF e
<1>4. LET after == Append(moves, e)
      IN  /\ after \in Seq(Event)
          /\ Len(after) = r.version + 1
          /\ \A i \in DOMAIN after :
               after[i].from = IF i = 1 THEN "NONE" ELSE after[i - 1].to
          /\ after[Len(after)].to = e.to
          /\ after # <<>>
  BY <1>1, <1>2, <1>3, AppendedMove DEF SoundRow
<1>5. TypedRow(n, revs, Append(moves, e), texts)
  BY <1>4 DEF TypedRow
<1>6. SoundRow(n, revs, Append(moves, e), texts)
  BY <1>1, <1>4 DEF SoundRow
<1> QED BY <1>5, <1>6 DEF e

\* Expiry leaves a sound row: one event and one version more.
LEMMA ExpiredRow ==
  ASSUME NEW r, NEW revs, NEW moves, NEW texts,
         TypedRow(r, revs, moves, texts), SoundRow(r, revs, moves, texts),
         r.status = "ACTIVE"
  PROVE  LET after == Append(moves, EventOf("EXPIRED", "ACTIVE", "EXPIRED"))
         IN  /\ TypedRow(Expired(r), revs, after, texts)
             /\ SoundRow(Expired(r), revs, after, texts)
             /\ Expired(r).version = r.version + 1
             /\ Expired(r).status = "EXPIRED"
<1>1. r \in Row
  BY DEF TypedRow
<1>2. /\ Expired(r) \in Row /\ Expired(r).status = "EXPIRED"
      /\ Expired(r).class = r.class /\ Expired(r).content = r.content
      /\ Expired(r).version = r.version + 1
  <2>1. r.version + 1 \in Nat
    BY <1>1 DEF Row
  <2>2. Expired(r) \in Row
    BY <1>1, <2>1 DEF Expired, Row, Statuses
  <2> QED BY <1>1, <2>2 DEF Expired, Row
<1> QED BY <1>2, LeavingRow

\* Archiving leaves a sound row: one event and one version more.
LEMMA ArchivedRow ==
  ASSUME NEW r, NEW revs, NEW moves, NEW texts,
         TypedRow(r, revs, moves, texts), SoundRow(r, revs, moves, texts),
         r.status = "ACTIVE"
  PROVE  LET after == Append(moves, EventOf("ARCHIVED", "ACTIVE", "ARCHIVED"))
         IN  /\ TypedRow(Archived(r), revs, after, texts)
             /\ SoundRow(Archived(r), revs, after, texts)
             /\ Archived(r).version = r.version + 1
             /\ Archived(r).status = "ARCHIVED"
<1>1. r \in Row
  BY DEF TypedRow
<1>2. /\ Archived(r) \in Row /\ Archived(r).status = "ARCHIVED"
      /\ Archived(r).class = r.class /\ Archived(r).content = r.content
      /\ Archived(r).version = r.version + 1
  <2>1. r.version + 1 \in Nat
    BY <1>1 DEF Row
  <2>2. Archived(r) \in Row
    BY <1>1, <2>1 DEF Archived, Row, Statuses
  <2> QED BY <1>1, <2>2 DEF Archived, Row
<1> QED BY <1>2, LeavingRow

\* update_owned: the snapshot that is kept is of the content before.
LEMMA UpdatedRow ==
  ASSUME NEW r, NEW revs, NEW moves, NEW texts,
         TypedRow(r, revs, moves, texts), SoundRow(r, revs, moves, texts),
         r.status = "ACTIVE",
         NEW content \in Contents \cup {Keep},
         NEW expires \in Deadlines \cup {Null, Keep},
         NEW n, n = Updated(r, content, expires)
  PROVE  LET after == Append(moves, EventOf("UPDATED", "ACTIVE", "ACTIVE"))
             kept  == revs \cup {Snapshot(r)}
         IN  /\ TypedRow(n, kept, after, Append(texts, n.content))
             /\ SoundRow(n, kept, after, Append(texts, n.content))
             /\ n.version = r.version + 1
             /\ n.status = "ACTIVE" /\ n.class = r.class
             /\ n.key = DeduplicationKey(r.class, n.content)
<1> DEFINE e    == EventOf("UPDATED", "ACTIVE", "ACTIVE")
           kept == revs \cup {Snapshot(r)}
           told == Append(texts, n.content)
<1>1. e \in Event /\ e.from = "ACTIVE" /\ e.to = "ACTIVE"
  BY DEF EventOf, Event, Statuses, EventTypes
<1>2. /\ r \in Row /\ moves \in Seq(Event) /\ texts \in Seq(Contents)
      /\ revs \in SUBSET Revision /\ r.version \in Nat
  BY DEF TypedRow, Row
<1>3. /\ texts # <<>> /\ Len(texts) = r.version /\ Len(moves) = r.version
      /\ r.class \in Classes /\ r.content \in Contents
      /\ r.content = texts[Len(texts)]
      /\ revs = {[number |-> k, content |-> texts[k]] : k \in 1 .. Len(texts) - 1}
  BY DEF SoundRow
<1>4. Len(texts) # 0
  BY <1>2, <1>3, EmptySeq
<1>5. moves # <<>>
  <2>1. Len(moves) # 0
    BY <1>3, <1>4
  <2> QED BY <2>1
<1>6. /\ n \in Row /\ n.status = "ACTIVE" /\ n.class = r.class
      /\ n.content \in Contents /\ n.version = r.version + 1
      /\ n.key = DeduplicationKey(r.class, n.content)
  <2> DEFINE text == IF content = Keep THEN r.content ELSE content
  <2>1. text \in Contents
    BY <1>3
  <2>2. DeduplicationKey(r.class, text) \in Contents \cup {Null}
    BY <2>1 DEF DeduplicationKey
  <2>3. (IF expires = Keep THEN r.expires ELSE expires) \in Deadlines \cup {Null}
    BY <1>2 DEF Row
  <2> HIDE DEF text
  <2>4. n = [r EXCEPT !.content = text, !.key = DeduplicationKey(r.class, text),
                      !.expires = IF expires = Keep THEN @ ELSE expires,
                      !.version = @ + 1]
    BY DEF Updated, text
  <2>5. r.version + 1 \in Nat
    BY <1>2
  <2>6. n \in Row
    BY <1>2, <2>1, <2>2, <2>3, <2>4, <2>5 DEF Row
  <2> QED BY <1>2, <2>1, <2>4, <2>6 DEF Row
<1>7. Snapshot(r) = [number |-> r.version, content |-> r.content]
      /\ Snapshot(r) \in Revision
  BY <1>2, <1>3 DEF Snapshot, Revision
<1> HIDE DEF e
<1>8. LET after == Append(moves, e)
      IN  /\ after \in Seq(Event)
          /\ Len(after) = r.version + 1
          /\ \A i \in DOMAIN after :
               after[i].from = IF i = 1 THEN "NONE" ELSE after[i - 1].to
          /\ after[Len(after)].to = e.to
          /\ after # <<>>
  BY <1>1, <1>2, <1>5, AppendedMove DEF SoundRow
<1>9. /\ told \in Seq(Contents) /\ Len(told) = Len(texts) + 1
      /\ \A k \in 1 .. Len(texts) : told[k] = texts[k]
      /\ told[Len(texts) + 1] = n.content
  BY <1>2, <1>6, AppendProperties
<1> HIDE DEF told
<1>10. told # <<>>
  <2>1. Len(told) # 0
    BY <1>3, <1>4, <1>9, <1>2
  <2> QED BY <2>1
<1>11. kept = {[number |-> k, content |-> told[k]] : k \in 1 .. Len(told) - 1}
  <2>1. 1 .. Len(told) - 1 = 1 .. Len(texts) /\ Len(texts) \in 1 .. Len(texts)
    BY <1>2, <1>3, <1>4, <1>9
  <2>2. ASSUME NEW v \in kept
        PROVE  \E k \in 1 .. Len(texts) : v = [number |-> k, content |-> told[k]]
    <3>1. CASE v = Snapshot(r)
      BY <3>1, <2>1, <1>3, <1>7, <1>9
    <3>2. CASE v \in revs
      <4>1. PICK k \in 1 .. Len(texts) - 1 : v = [number |-> k, content |-> texts[k]]
        BY <3>2, <1>3
      <4>2. k \in 1 .. Len(texts)
        BY <1>2, <1>3
      <4> QED BY <4>1, <4>2, <1>9
    <3> QED BY <3>1, <3>2
  <2>3. ASSUME NEW k \in 1 .. Len(texts)
        PROVE  [number |-> k, content |-> told[k]] \in kept
    <3>1. CASE k = Len(texts)
      BY <3>1, <1>3, <1>7, <1>9
    <3>2. CASE k # Len(texts)
      <4>1. k \in 1 .. Len(texts) - 1
        BY <3>2, <1>2, <1>3
      <4>2. [number |-> k, content |-> texts[k]] \in revs
        BY <4>1, <1>3
      <4> QED BY <4>2, <1>9
    <3> QED BY <3>1, <3>2
  <2> HIDE DEF kept
  <2> QED BY <2>1, <2>2, <2>3
<1>12. TypedRow(n, kept, Append(moves, e), told)
  BY <1>2, <1>6, <1>7, <1>8, <1>9 DEF TypedRow
<1>13. SoundRow(n, kept, Append(moves, e), told)
  <2>1. /\ n.version # 0 /\ Len(told) = n.version /\ n.class \in Classes
        /\ n.key = DeduplicationKey(n.class, n.content)
        /\ n.content = told[Len(told)]
    BY <1>2, <1>3, <1>6, <1>9
  <2> HIDE DEF kept
  <2> QED BY <2>1, <1>1, <1>6, <1>8, <1>10, <1>11 DEF SoundRow
<1> QED BY <1>6, <1>12, <1>13 DEF e, told

\* delete_owned: the row and every revision lose their content.
LEMMA DeletedRow ==
  ASSUME NEW r, NEW revs, NEW moves, NEW texts,
         TypedRow(r, revs, moves, texts), SoundRow(r, revs, moves, texts),
         r.status \in {"ACTIVE", "ARCHIVED", "EXPIRED"}
  PROVE  LET scrubbed == {Scrub(v) : v \in revs}
             after    == Append(moves, EventOf("DELETED", r.status, "DELETED"))
         IN  /\ TypedRow(Deleted(r), scrubbed, after, <<>>)
             /\ SoundRow(Deleted(r), scrubbed, after, <<>>)
             /\ Deleted(r).version = r.version + 1
             /\ Deleted(r).status = "DELETED"
<1> DEFINE e == EventOf("DELETED", r.status, "DELETED")
           scrubbed == {Scrub(v) : v \in revs}
<1>1. e \in Event /\ e.from = r.status /\ e.to = "DELETED"
  BY DEF EventOf, Event, Statuses, EventTypes
<1>2. /\ r \in Row /\ moves \in Seq(Event) /\ r.version \in Nat
      /\ revs \in SUBSET Revision
  BY DEF TypedRow, Row
<1>3. moves = <<>> => e.from = "NONE"
  <2>1. ASSUME moves = <<>> PROVE FALSE
    <3>1. r.version = 0
      BY <2>1 DEF SoundRow
    <3> QED BY <3>1 DEF SoundRow
  <2> QED BY <2>1
<1>4. /\ Deleted(r) \in Row /\ Deleted(r).status = "DELETED"
      /\ Deleted(r).class = r.class /\ Deleted(r).content = Scrubbed
      /\ Deleted(r).key = Null /\ Deleted(r).version = r.version + 1
  <2>1. r.version + 1 \in Nat
    BY <1>2
  <2>2. Deleted(r) \in Row
    BY <1>2, <2>1 DEF Deleted, Row, Statuses
  <2> QED BY <1>2, <2>2 DEF Deleted, Row
<1>5. scrubbed \in SUBSET Revision /\ \A v \in scrubbed : v.content = Scrubbed
  BY <1>2 DEF Scrub, Revision
<1>6. r.class \in Classes
  BY DEF SoundRow
<1> HIDE DEF e, scrubbed
<1>7. LET after == Append(moves, e)
      IN  /\ after \in Seq(Event)
          /\ Len(after) = r.version + 1
          /\ \A i \in DOMAIN after :
               after[i].from = IF i = 1 THEN "NONE" ELSE after[i - 1].to
          /\ after[Len(after)].to = e.to
          /\ after # <<>>
  BY <1>1, <1>2, <1>3, AppendedMove DEF SoundRow
<1>8. TypedRow(Deleted(r), scrubbed, Append(moves, e), <<>>)
  BY <1>4, <1>5, <1>7 DEF TypedRow
<1>9. SoundRow(Deleted(r), scrubbed, Append(moves, e), <<>>)
  BY <1>1, <1>4, <1>5, <1>6, <1>7 DEF SoundRow
<1> QED BY <1>4, <1>8, <1>9 DEF e, scrubbed

-----------------------------------------------------------------------------
\* Steps.

GoodRow(m) ==
  /\ TypedRow(row[m], revisions[m], events[m], wrote[m])
  /\ SoundRow(row[m], revisions[m], events[m], wrote[m])

\* What NeverComesBack allows a step to do to a row.
OneWay(m) ==
  row'[m] # row[m] =>
    /\ row'[m].version = row[m].version + 1
    /\ row'[m].status \in NextStatuses[row[m].status]
    /\ row[m].class = "HISTORICAL_DECISION" =>
         row'[m].content \in {row[m].content, Scrubbed}

Kept(m) ==
  /\ row'[m] = row[m] /\ revisions'[m] = revisions[m]
  /\ events'[m] = events[m] /\ wrote'[m] = wrote[m]

\* A step keeps a row and its records or moves them on soundly.
Moved(m) == row'[m].version = row[m].version + 1 /\ OneWay(m) /\ GoodRow(m)'

\* f has an entry for every memory and no other.
Table(f) == f = [m \in Memories |-> f[m]]

\* Under the invariant every row is typed and sound.
LEMMA GoodRows ==
  ASSUME IndInv PROVE \A m \in Memories : GoodRow(m)
BY DEF IndInv, TypeOK, RowsSound, GoodRow, TypedRow

\* Empty tables and no call.
LEMMA InitInv == Init => IndInv
<1> SUFFICES ASSUME Init PROVE IndInv
  OBVIOUS
<1>1. NoRow \in Row
  BY DEF NoRow, Row
<1>2. NoCall \in Call
  BY <1>1 DEF NoCall, Call
<1>3. TypeOK
  BY <1>1, <1>2, TimeAssumption DEF Init, TypeOK
<1>4. RowsSound
  BY DEF Init, RowsSound, SoundRow, NoRow
<1>5. CallsSound
  BY DEF Init, CallsSound, SoundCall, NoCall
<1>6. NoActiveTwins
  BY DEF Init, NoActiveTwins, NoRow
<1>7. ExpiredIsNotAnswered
  BY ValuesAssumption DEF Init, ExpiredIsNotAnswered, NoCall, Statuses
<1> QED BY <1>3, <1>4, <1>5, <1>6, <1>7 DEF IndInv

\* The tables stay and one call is replaced by a sound one.
LEMMA TablesAlone ==
  ASSUME IndInv, UNCHANGED Database, now' \in 0 .. MaxTime,
         NEW q \in Calls, NEW c \in Call, Set(q, c),
         SoundCall(c), c.odd # "EXPIRED"
  PROVE  IndInv' /\ \A m \in Memories : OneWay(m)
<1>1. call \in [Calls -> Call]
  BY DEF IndInv, TypeOK
<1>2. /\ call' \in [Calls -> Call]
      /\ \A p \in Calls : call'[p] = IF p = q THEN c ELSE call[p]
  BY <1>1 DEF Set
<1>3. row' = row /\ revisions' = revisions /\ events' = events /\ wrote' = wrote
  BY DEF Database
<1>4. TypeOK'
  BY <1>2, <1>3 DEF IndInv, TypeOK
<1>5. RowsSound' /\ NoActiveTwins'
  BY <1>3 DEF IndInv, RowsSound, NoActiveTwins
<1>6. CallsSound'
  <2> SUFFICES ASSUME NEW p \in Calls PROVE SoundCall(call[p])'
    BY DEF CallsSound
  <2>1. CASE p = q
    BY <2>1, <1>2, <1>3 DEF SoundCall
  <2>2. CASE p # q
    BY <2>2, <1>2, <1>3 DEF SoundCall, IndInv, CallsSound
  <2> QED BY <2>1, <2>2
<1>7. ExpiredIsNotAnswered'
  BY <1>2 DEF IndInv, ExpiredIsNotAnswered
<1>8. \A m \in Memories : OneWay(m)
  BY <1>3 DEF OneWay
<1> QED BY <1>4, <1>5, <1>6, <1>7, <1>8 DEF IndInv

\* Some rows move on, and the call that moves them is over.  What the other
\* calls have read is an earlier version of the rows that have moved.
LEMMA RowsMove ==
  ASSUME IndInv, UNCHANGED now,
         Table(row'), Table(revisions'), Table(events'), Table(wrote'),
         \A m \in Memories : Kept(m) \/ Moved(m),
         NEW q \in Calls, NEW c \in Call, Set(q, c),
         c.phase = "idle", c.odd # "EXPIRED",
         NoActiveTwins'
  PROVE  IndInv' /\ \A m \in Memories : OneWay(m)
<1>1. call \in [Calls -> Call]
  BY DEF IndInv, TypeOK
<1>2. /\ call' \in [Calls -> Call]
      /\ \A p \in Calls : call'[p] = IF p = q THEN c ELSE call[p]
  BY <1>1 DEF Set
<1>3. \A m \in Memories : GoodRow(m)'
  BY GoodRows DEF GoodRow, Kept, Moved
<1>4. \A m \in Memories : /\ row'[m] \in Row /\ revisions'[m] \in SUBSET Revision
                          /\ events'[m] \in Seq(Event) /\ wrote'[m] \in Seq(Contents)
  BY <1>3 DEF GoodRow, TypedRow
<1>5. row' \in [Memories -> Row]
  BY <1>4 DEF Table
<1>6. revisions' \in [Memories -> SUBSET Revision]
  BY <1>4 DEF Table
<1>7. events' \in [Memories -> Seq(Event)] /\ wrote' \in [Memories -> Seq(Contents)]
  BY <1>4 DEF Table
<1>8. TypeOK'
  BY <1>2, <1>5, <1>6, <1>7 DEF IndInv, TypeOK
<1>9. RowsSound'
  BY <1>3 DEF RowsSound, GoodRow
<1>10. CallsSound'
  <2> SUFFICES ASSUME NEW p \in Calls PROVE SoundCall(call[p])'
    BY DEF CallsSound
  <2>1. CASE p = q
    BY <2>1, <1>2 DEF SoundCall
  <2>2. CASE p # q
    <3>1. call'[p] = call[p] /\ SoundCall(call[p]) /\ call[p] \in Call
      BY <2>2, <1>1, <1>2 DEF IndInv, CallsSound
    <3>2. ASSUME NEW m \in Memories, CopyOf(call[p].copy, row[m])
          PROVE  CopyOf(call[p].copy, row'[m])
      <4>1. CASE row'[m] = row[m]
        BY <4>1, <3>2
      <4>2. CASE row'[m].version = row[m].version + 1
        <5>1. call[p].copy.version \in Nat /\ row[m].version \in Nat
          BY <3>1 DEF Call, Row, IndInv, TypeOK
        <5> QED BY <4>2, <5>1, <3>2 DEF CopyOf
      <4> QED BY <4>1, <4>2 DEF Kept, Moved
    <3> QED BY <3>1, <3>2 DEF SoundCall
  <2> QED BY <2>1, <2>2
<1>11. ExpiredIsNotAnswered'
  BY <1>2 DEF IndInv, ExpiredIsNotAnswered
<1>12. \A m \in Memories : OneWay(m)
  BY DEF Kept, Moved, OneWay
<1> QED BY <1>8, <1>9, <1>10, <1>11, <1>12 DEF IndInv

\* Rows that leave ACTIVE make no twins.
LEMMA TwinsFewer ==
  ASSUME IndInv,
         \A m \in Memories : row'[m] = row[m] \/ row'[m].status # "ACTIVE"
  PROVE  NoActiveTwins'
BY DEF IndInv, NoActiveTwins

\* A row that becomes ACTIVE, or stays so with another content, makes none if
\* no other ACTIVE row has its class and key.
LEMMA TwinsJoined ==
  ASSUME IndInv, NEW n \in Memories,
         row'[n].status = "ACTIVE", row'[n].content \in Contents,
         row'[n].key = DeduplicationKey(row'[n].class, row'[n].content),
         \A m \in Memories \ {n} : row'[m] = row[m] \/ row'[m].status # "ACTIVE",
         \A m \in Memories \ {n} :
           ~ /\ row'[m].status = "ACTIVE" /\ row'[m].class = row'[n].class
             /\ row'[m].key = row'[n].key /\ row'[n].key # Null
  PROVE  NoActiveTwins'
<1> SUFFICES ASSUME NEW m \in Memories, NEW k \in Memories, m # k,
                    row'[m].status = "ACTIVE", row'[k].status = "ACTIVE",
                    row'[m].class = row'[k].class,
                    row'[m].class # "HISTORICAL_DECISION"
             PROVE  row'[m].content # row'[k].content
  BY DEF NoActiveTwins
<1>1. ASSUME NEW j \in Memories \ {n}, row'[j].status = "ACTIVE",
             row'[j].class = row'[n].class,
             row'[j].class # "HISTORICAL_DECISION"
      PROVE  row'[j].content # row'[n].content
  <2>1. row'[j] = row[j]
    BY <1>1
  <2>2. row[j].key = DeduplicationKey(row[j].class, row[j].content)
    BY <2>1, <1>1 DEF IndInv, RowsSound, SoundRow
  <2>3. row'[n].key = row'[n].content /\ row'[n].key # Null
    BY <1>1, ValuesAssumption DEF DeduplicationKey
  <2> QED BY <1>1, <2>1, <2>2, <2>3 DEF DeduplicationKey
<1>2. CASE m # n /\ k # n
  <2>1. row'[m] = row[m] /\ row'[k] = row[k]
    BY <1>2
  <2> QED BY <2>1 DEF IndInv, NoActiveTwins
<1>3. CASE m = n
  BY <1>3, <1>1
<1>4. CASE k = n
  BY <1>4, <1>1
<1> QED BY <1>2, <1>3, <1>4

\* A call that is over is sound, whatever it answers, unless that has expired.
LEMMA NoCallSound ==
  NoCall \in Call /\ SoundCall(NoCall) /\ NoCall.phase = "idle"
    /\ NoCall.odd # "EXPIRED"
<1>1. NoRow \in Row
  BY DEF NoRow, Row
<1>2. NoCall \in Call
  BY <1>1 DEF NoCall, Call
<1> QED BY <1>2, ValuesAssumption DEF NoCall, SoundCall, Statuses

Answering(r) ==
  [NoCall EXCEPT !.odd = IF r.status = "ACTIVE" THEN Null ELSE r.status]

\* A call that answers with a row that is not expired is sound.
LEMMA AnsweringSound ==
  ASSUME NEW r \in Row, r.status \notin {"NONE", "EXPIRED"}
  PROVE  /\ Answering(r) \in Call /\ SoundCall(Answering(r))
         /\ Answering(r).phase = "idle" /\ Answering(r).odd # "EXPIRED"
<1>1. (IF r.status = "ACTIVE" THEN Null ELSE r.status) \in Statuses \cup {Null}
  BY DEF Row
<1>2. Answering(r) \in Call
  BY <1>1, NoCallSound DEF Answering, Call
<1>3. Answering(r).phase = "idle"
  BY DEF Answering, NoCall
<1>4. Answering(r).odd # "EXPIRED"
  BY ValuesAssumption DEF Answering, NoCall, Statuses
<1> QED BY <1>2, <1>3, <1>4 DEF SoundCall

\* A refused call changes no row.
LEMMA RejectStep ==
  ASSUME IndInv, NEW q \in Calls, Reject(q)
  PROVE  IndInv' /\ \A m \in Memories : OneWay(m)
<1>1. now' \in 0 .. MaxTime /\ UNCHANGED Database
  BY DEF IndInv, TypeOK, Reject
<1> QED BY <1>1, NoCallSound, TablesAlone DEF Reject, Finish

\* A call that answers without a write changes no row.
LEMMA AnswerStep ==
  ASSUME IndInv, NEW q \in Calls, NEW r \in Row, r.status \notin {"NONE", "EXPIRED"},
         FinishWith(q, r), UNCHANGED <<now, Database>>
  PROVE  IndInv' /\ \A m \in Memories : OneWay(m)
<1>1. now' \in 0 .. MaxTime /\ UNCHANGED Database
  BY DEF IndInv, TypeOK
<1>2. Set(q, Answering(r))
  BY DEF FinishWith, Answering
<1> QED BY <1>1, <1>2, AnsweringSound, TablesAlone

\* Time passes: no row changes, and what was answered stays answered.
LEMMA TickStep ==
  ASSUME IndInv, Tick
  PROVE  IndInv' /\ \A m \in Memories : OneWay(m)
<1>1. now' \in 0 .. MaxTime
  BY TimeAssumption DEF Tick, IndInv, TypeOK
<1>2. UNCHANGED <<row, revisions, events, wrote, call>>
  BY DEF Tick, Database
<1>3. TypeOK'
  BY <1>1, <1>2 DEF IndInv, TypeOK
<1>4. RowsSound' /\ NoActiveTwins' /\ ExpiredIsNotAnswered'
  BY <1>2 DEF IndInv, RowsSound, NoActiveTwins, ExpiredIsNotAnswered
<1>5. CallsSound'
  BY <1>2 DEF IndInv, CallsSound, SoundCall
<1> QED BY <1>2, <1>3, <1>4, <1>5 DEF IndInv, OneWay

\* create begins: nothing is written yet.
LEMMA BeginCreateStep ==
  ASSUME IndInv, NEW q \in Calls, NEW class \in Classes, NEW content \in Contents,
         NEW expires \in Deadlines \cup {Null}, BeginCreate(q, class, content, expires)
  PROVE  IndInv' /\ \A m \in Memories : OneWay(m)
<1> DEFINE key == DeduplicationKey(class, content)
           new == [status |-> "ACTIVE", class |-> class, content |-> content,
                   key |-> key, expires |-> expires, version |-> 1]
           c   == [NoCall EXCEPT !.op = "create", !.new = new]
<1>1. now' \in 0 .. MaxTime /\ UNCHANGED Database
  BY DEF BeginCreate, IndInv, TypeOK
<1>2. key \in Contents \cup {Null}
  BY DEF DeduplicationKey
<1>3. new \in Row /\ Newborn(new) /\ new.class = class /\ new.key = key
  BY <1>2 DEF Row, Statuses, Newborn
<1> HIDE DEF new, key
<1>4. /\ c \in Call /\ c.op = "create" /\ c.new = new
      /\ c.odd # "EXPIRED"
  <2>1. c \in Call
    BY <1>3, NoCallSound DEF Call, Operations
  <2> QED BY <2>1, ValuesAssumption DEF NoCall, Statuses
<1> HIDE DEF c
<1>5. CASE Set(q, [c EXCEPT !.phase = "insert"])
  <2> DEFINE d == [c EXCEPT !.phase = "insert"]
  <2>1. d \in Call /\ d.phase = "insert" /\ d.op = "create" /\ d.new = new
        /\ d.odd # "EXPIRED"
    BY <1>4 DEF Call
  <2> HIDE DEF d
  <2>2. SoundCall(d)
    BY <2>1, <1>3 DEF SoundCall
  <2>3. Set(q, d)
    BY <1>5 DEF d
  <2> QED BY <1>1, <2>1, <2>2, <2>3, TablesAlone
<1>6. CASE \E m \in ActiveDuplicates(class, key) :
             Set(q, [c EXCEPT !.phase = "read", !.id = m, !.copy = row[m]])
  <2>1. PICK m \in ActiveDuplicates(class, key) :
          Set(q, [c EXCEPT !.phase = "read", !.id = m, !.copy = row[m]])
    BY <1>6
  <2>2. /\ m \in Memories /\ row[m] \in Row /\ row[m].status = "ACTIVE"
        /\ row[m].class = class /\ row[m].key = key /\ key # Null
    BY DEF ActiveDuplicates, IndInv, TypeOK
  <2> DEFINE d == [c EXCEPT !.phase = "read", !.id = m, !.copy = row[m]]
  <2>3. /\ d \in Call /\ d.phase = "read" /\ d.op = "create" /\ d.new = new
        /\ d.id = m /\ d.copy = row[m] /\ d.odd # "EXPIRED"
    BY <1>4, <2>2 DEF Call
  <2> HIDE DEF d
  <2>4. CopyOf(row[m], row[m])
    BY <2>2 DEF CopyOf, Row
  <2>5. SoundCall(d)
    BY <2>2, <2>3, <2>4, <1>3 DEF SoundCall, Sees
  <2>6. Set(q, d)
    BY <2>1 DEF d
  <2> QED BY <1>1, <2>3, <2>5, <2>6, TablesAlone
<1>7. \/ Set(q, [c EXCEPT !.phase = "insert"])
      \/ \E m \in ActiveDuplicates(class, key) :
           Set(q, [c EXCEPT !.phase = "read", !.id = m, !.copy = row[m]])
  BY DEF BeginCreate, c, new, key
<1> QED BY <1>5, <1>6, <1>7

\* The read of a row that an operation goes on with.
LEMMA BeginStep ==
  ASSUME IndInv, NEW q \in Calls, NEW op \in Operations \ {"create", "list"},
         NEW m \in Memories, NEW expected \in Nat,
         NEW content \in Contents \cup {Keep},
         NEW expires \in Deadlines \cup {Null, Keep},
         Begin(q, op, m, expected, content, expires)
  PROVE  IndInv' /\ \A k \in Memories : OneWay(k)
<1> DEFINE d == [NoCall EXCEPT !.phase = "read", !.op = op, !.id = m,
                               !.copy = row[m], !.expected = expected,
                               !.content = content, !.expires = expires]
<1>1. now' \in 0 .. MaxTime /\ UNCHANGED Database /\ Set(q, d)
      /\ row[m].status \in Sees(op)
  BY DEF Begin, IndInv, TypeOK
<1>2. row[m] \in Row
  BY DEF IndInv, TypeOK
<1>3. d \in Call
  BY <1>2, NoCallSound DEF Call
<1>4. /\ d.phase = "read" /\ d.op = op /\ d.id = m /\ d.copy = row[m]
      /\ d.odd # "EXPIRED" /\ d.content # Null
  BY ValuesAssumption DEF NoCall, Statuses
<1> HIDE DEF d
<1>5. CopyOf(row[m], row[m])
  BY <1>2 DEF CopyOf, Row
<1>6. SoundCall(d)
  BY <1>1, <1>4, <1>5 DEF SoundCall
<1> QED BY <1>1, <1>3, <1>4, <1>6, TablesAlone

\* list begins: it finds the rows that are due, which it expires next.
LEMMA BeginListStep ==
  ASSUME IndInv, NEW q \in Calls, BeginList(q)
  PROVE  IndInv' /\ \A m \in Memories : OneWay(m)
<1> DEFINE due == {<<m, row[m].version>> : m \in {n \in Memories : Due(row[n])}}
           d   == [NoCall EXCEPT !.phase = "read", !.op = "list", !.due = due]
<1>1. now' \in 0 .. MaxTime /\ UNCHANGED Database /\ Set(q, d)
  BY DEF BeginList, IndInv, TypeOK
<1>2. due \in SUBSET (Memories \X Nat)
  BY DEF IndInv, TypeOK, Row
<1> HIDE DEF due
<1>3. d \in Call
  BY <1>2, NoCallSound DEF Call, Operations
<1>4. d.phase = "read" /\ d.op = "list" /\ d.odd # "EXPIRED"
  BY ValuesAssumption DEF NoCall, Statuses
<1> HIDE DEF d
<1>5. SoundCall(d)
  BY <1>4 DEF SoundCall
<1> QED BY <1>1, <1>3, <1>4, <1>5, TablesAlone

\* get, update, archive and delete begin.
LEMMA AskStep ==
  ASSUME IndInv, NEW q \in Calls, Ask(q)
  PROVE  IndInv' /\ \A m \in Memories : OneWay(m)
<1>1. {"get", "archive", "delete", "update"} \subseteq Operations \ {"create", "list"}
  BY DEF Operations
<1>2. CASE \E class \in Classes, content \in Contents,
              expires \in Deadlines \cup {Null} :
             BeginCreate(q, class, content, expires)
  BY <1>2, BeginCreateStep
<1>3. CASE \E m \in Memories : Begin(q, "get", m, 0, Keep, Keep)
  BY <1>3, <1>1, BeginStep
<1>4. CASE \E m \in Memories, expected \in 1 .. MaxVersion + 1 :
             \/ Begin(q, "archive", m, expected, Keep, Keep)
             \/ Begin(q, "delete", m, expected, Keep, Keep)
             \/ \E content \in Contents \cup {Keep},
                   expires \in Deadlines \cup {Null, Keep} :
                  Begin(q, "update", m, expected, content, expires)
  <2>1. 1 .. MaxVersion + 1 \subseteq Nat
    BY VersionAssumption
  <2> QED BY <1>1, <1>4, <2>1, BeginStep
<1>5. CASE BeginList(q)
  BY <1>5, BeginListStep
<1> QED BY <1>2, <1>3, <1>4, <1>5 DEF Ask

\* The tables after a step that rewrites the entries of some rows.
LEMMA TablesAre ==
  ASSUME IndInv
  PROVE  /\ Table(row) /\ Table(revisions) /\ Table(events) /\ Table(wrote)
         /\ DOMAIN row = Memories /\ DOMAIN revisions = Memories
         /\ DOMAIN events = Memories /\ DOMAIN wrote = Memories
BY DEF IndInv, TypeOK, Table

\* A call in flight: what it has read and is about to write.
LEMMA CallIs ==
  ASSUME IndInv, NEW q \in Calls
  PROVE  /\ call[q] \in Call /\ SoundCall(call[q]) /\ call[q].odd # "EXPIRED"
         /\ call[q].copy \in Row /\ call[q].new \in Row
<1>1. call[q] \in Call
  BY DEF IndInv, TypeOK
<1> QED BY <1>1 DEF IndInv, CallsSound, ExpiredIsNotAnswered, Call

\* A row that is inserted.
LEMMA BirthMoves ==
  ASSUME IndInv, NEW n \in Memories, row[n].status = "NONE",
         NEW new \in Row, Newborn(new),
         row'[n] = new, revisions'[n] = revisions[n],
         events'[n] = Append(events[n], EventOf("CREATED", "NONE", "ACTIVE")),
         wrote'[n] = <<new.content>>
  PROVE  Moved(n)
<1>1. GoodRow(n)
  BY GoodRows
<1>2. row[n] = NoRow
  BY <1>1 DEF GoodRow, SoundRow
<1> DEFINE moves == Append(events[n], EventOf("CREATED", "NONE", "ACTIVE"))
<1>3. /\ TypedRow(new, revisions[n], moves, <<new.content>>)
      /\ SoundRow(new, revisions[n], moves, <<new.content>>)
      /\ new.version = row[n].version + 1
  BY <1>1, BornRow DEF GoodRow
<1> HIDE DEF moves
<1>4. GoodRow(n)' /\ row'[n].version = row[n].version + 1
  BY <1>3 DEF GoodRow, moves
<1>5. OneWay(n)
  BY <1>2, <1>4, ValuesAssumption
     DEF OneWay, NoRow, NextStatuses, Newborn, AllClasses
<1> QED BY <1>4, <1>5 DEF Moved

\* The INSERT of a create, under the unique index.
LEMMA InsertStep ==
  ASSUME IndInv, NEW q \in Calls, NEW n \in Memories, Insert(q, n)
  PROVE  IndInv' /\ \A m \in Memories : OneWay(m)
<1> DEFINE new == call[q].new
           born == EventOf("CREATED", "NONE", "ACTIVE")
<1>1. new \in Row /\ Newborn(new)
  BY CallIs DEF Insert, SoundCall
<1>2. /\ row[n].status = "NONE"
      /\ row' = [row EXCEPT ![n] = new]
      /\ wrote' = [wrote EXCEPT ![n] = <<new.content>>]
      /\ events' = [events EXCEPT ![n] = Append(@, born)]
      /\ revisions' = revisions /\ now' = now
      /\ Set(q, Answering(new))
  BY DEF Insert, InsertInto, Log, FinishWith, Answering
<1>3. Table(row') /\ Table(revisions') /\ Table(events') /\ Table(wrote')
  BY <1>2, TablesAre DEF Table
<1>4. /\ row'[n] = new /\ wrote'[n] = <<new.content>>
      /\ events'[n] = Append(events[n], born) /\ revisions'[n] = revisions[n]
  BY <1>2, TablesAre
<1>5. \A m \in Memories \ {n} : Kept(m)
  BY <1>2, TablesAre DEF Kept
<1>6. Moved(n)
  BY <1>1, <1>2, <1>4, BirthMoves
<1>7. NoActiveTwins'
  <2>1. ActiveDuplicates(new.class, new.key) = {}
    BY DEF Insert
  <2>2. \A m \in Memories \ {n} : row'[m] = row[m]
    BY <1>5 DEF Kept
  <2>3. \A m \in Memories \ {n} :
          ~ /\ row'[m].status = "ACTIVE" /\ row'[m].class = row'[n].class
            /\ row'[m].key = row'[n].key /\ row'[n].key # Null
    BY <2>1, <2>2, <1>4 DEF ActiveDuplicates
  <2>4. /\ row'[n].status = "ACTIVE" /\ row'[n].content \in Contents
        /\ row'[n].key = DeduplicationKey(row'[n].class, row'[n].content)
    BY <1>1, <1>4 DEF Newborn
  <2> QED BY <2>2, <2>3, <2>4, TwinsJoined
<1>8. /\ Answering(new) \in Call /\ Answering(new).phase = "idle"
      /\ Answering(new).odd # "EXPIRED"
  BY <1>1, AnsweringSound DEF Newborn
<1> HIDE DEF new, born
<1>9. \A m \in Memories : Kept(m) \/ Moved(m)
  BY <1>5, <1>6
<1> QED BY <1>2, <1>3, <1>7, <1>8, <1>9, RowsMove

\* The unique index refuses the insert of create.
LEMMA CollideStep ==
  ASSUME IndInv, NEW q \in Calls, Collide(q)
  PROVE  IndInv' /\ \A m \in Memories : OneWay(m)
<1> DEFINE d == [call[q] EXCEPT !.phase = "collided"]
<1>1. now' \in 0 .. MaxTime /\ UNCHANGED Database /\ Set(q, d)
  BY DEF Collide, IndInv, TypeOK
<1>2. call[q].op = "create" /\ Newborn(call[q].new)
  BY CallIs DEF Collide, SoundCall
<1>3. /\ d \in Call /\ d.phase = "collided" /\ d.op = "create"
      /\ d.new = call[q].new /\ d.odd # "EXPIRED"
  BY <1>2, CallIs DEF Call
<1> HIDE DEF d
<1>4. SoundCall(d)
  BY <1>2, <1>3 DEF SoundCall
<1> QED BY <1>1, <1>3, <1>4, TablesAlone

\* After the collision create looks for the row it met.
LEMMA LookAgainStep ==
  ASSUME IndInv, NEW q \in Calls, LookAgain(q)
  PROVE  IndInv' /\ \A m \in Memories : OneWay(m)
<1>1. CASE Reject(q)
  BY <1>1, RejectStep
<1>2. CASE /\ \E m \in ActiveDuplicates(call[q].new.class, call[q].new.key) :
                FinishWith(q, row[m])
           /\ UNCHANGED <<now, Database>>
  <2>1. PICK m \in ActiveDuplicates(call[q].new.class, call[q].new.key) :
          FinishWith(q, row[m])
    BY <1>2
  <2>2. row[m] \in Row /\ row[m].status = "ACTIVE"
    BY DEF ActiveDuplicates, IndInv, TypeOK
  <2> QED BY <1>2, <2>1, <2>2, AnswerStep
<1> QED BY <1>1, <1>2 DEF LookAgain

\* A row that expires: the UPDATE of _expire_if_due and of
\* _materialize_due_expirations.
LEMMA ExpiryMoves ==
  ASSUME IndInv, NEW m \in Memories, row[m].status = "ACTIVE",
         row'[m] = Expired(row[m]), revisions'[m] = revisions[m],
         events'[m] = Append(events[m], EventOf("EXPIRED", "ACTIVE", "EXPIRED")),
         wrote'[m] = wrote[m]
  PROVE  Moved(m) /\ row'[m].status = "EXPIRED"
<1>1. GoodRow(m) /\ row[m] \in Row
  BY GoodRows DEF GoodRow, TypedRow
<1>2. /\ GoodRow(m)' /\ row'[m].version = row[m].version + 1
      /\ row'[m].status = "EXPIRED"
  BY <1>1, ExpiredRow DEF GoodRow
<1>3. row'[m].content = row[m].content
  BY <1>1 DEF Expired, Row
<1>4. OneWay(m)
  BY <1>2, <1>3 DEF OneWay, NextStatuses
<1> QED BY <1>2, <1>4 DEF Moved

\* _expire_if_due: the row is still the copy, so a create that expires it
\* frees its own key.
LEMMA ExpireStep ==
  ASSUME IndInv, NEW q \in Calls, Expire(q)
  PROVE  IndInv' /\ \A k \in Memories : OneWay(k)
<1>1. /\ call[q].phase = "read" /\ call[q].op # "list"
      /\ call[q].id \in Memories
  BY CallIs DEF Expire, MeetsDeadline, SoundCall
<1> PICK m \in Memories : m = call[q].id
  BY <1>1
<1> DEFINE ended == EventOf("EXPIRED", "ACTIVE", "EXPIRED")
           born == EventOf("CREATED", "NONE", "ACTIVE")
           after == [row EXCEPT ![m] = Expired(@)]
<1>2. /\ row[m].status = "ACTIVE" /\ row[m].version = call[q].copy.version
  BY DEF Expire, MeetsDeadline, StillAsRead
<1>3. /\ row[m] = call[q].copy
      /\ call[q].op = "create" => /\ call[q].copy.class = call[q].new.class
                                  /\ call[q].copy.key = call[q].new.key
                                  /\ call[q].new.key # Null
                                  /\ Newborn(call[q].new)
  BY <1>1, <1>2, CallIs DEF SoundCall, CopyOf
<1>4. CASE /\ call[q].op # "create"
           /\ row' = after
           /\ Log(m, "EXPIRED", "ACTIVE", "EXPIRED")
           /\ Finish(q)
           /\ UNCHANGED <<now, revisions, wrote>>
  <2>1. /\ row' = [row EXCEPT ![m] = Expired(@)]
        /\ events' = [events EXCEPT ![m] = Append(@, ended)]
        /\ revisions' = revisions /\ wrote' = wrote /\ now' = now
        /\ Set(q, NoCall)
    BY <1>4 DEF Log, Finish
  <2>2. Table(row') /\ Table(revisions') /\ Table(events') /\ Table(wrote')
    BY <2>1, TablesAre DEF Table
  <2>3. \A k \in Memories \ {m} : Kept(k)
    BY <2>1, TablesAre DEF Kept
  <2>4. Moved(m) /\ row'[m].status = "EXPIRED"
    BY <1>2, <1>3, <2>1, TablesAre, ExpiryMoves
  <2>5. \A k \in Memories : Kept(k) \/ Moved(k)
    BY <2>3, <2>4
  <2>6. NoActiveTwins'
    <3>1. \A k \in Memories : row'[k] = row[k] \/ row'[k].status # "ACTIVE"
      BY <2>3, <2>4 DEF Kept
    <3> QED BY <3>1, TwinsFewer
  <2> QED BY <2>1, <2>2, <2>5, <2>6, NoCallSound, RowsMove
<1>5. CASE /\ call[q].op = "create"
           /\ \E n \in Memories :
                /\ InsertInto(q, n, after)
                /\ events' = [events EXCEPT ![m] = Append(@, ended),
                                            ![n] = Append(@, born)]
  <2>1. PICK n \in Memories :
                /\ InsertInto(q, n, after)
                /\ events' = [events EXCEPT ![m] = Append(@, ended),
                                            ![n] = Append(@, born)]
    BY <1>5
  <2> DEFINE new == call[q].new
  <2>2. /\ row[n].status = "NONE"
        /\ row' = [after EXCEPT ![n] = new]
        /\ wrote' = [wrote EXCEPT ![n] = <<new.content>>]
        /\ revisions' = revisions /\ now' = now
        /\ Set(q, Answering(new))
    BY <2>1 DEF InsertInto, FinishWith, Answering
  <2>3. new \in Row /\ Newborn(new) /\ n # m
    BY <1>2, <1>3, <1>5, <2>2, CallIs
  <2>4. Table(row') /\ Table(revisions') /\ Table(events') /\ Table(wrote')
    BY <2>1, <2>2, TablesAre DEF Table
  <2>5. \A k \in Memories \ {m, n} : Kept(k)
    BY <2>1, <2>2, TablesAre DEF Kept
  <2>6. /\ row'[n] = new /\ wrote'[n] = <<new.content>>
        /\ events'[n] = Append(events[n], born) /\ revisions'[n] = revisions[n]
    BY <2>1, <2>2, <2>3, TablesAre
  <2>7. /\ row'[m] = Expired(row[m]) /\ wrote'[m] = wrote[m]
        /\ events'[m] = Append(events[m], ended) /\ revisions'[m] = revisions[m]
    BY <1>3, <2>1, <2>2, <2>3, TablesAre
  <2>8. Moved(m) /\ row'[m].status = "EXPIRED"
    BY <1>2, <1>3, <2>7, ExpiryMoves
  <2>9. Moved(n)
    BY <2>2, <2>3, <2>6, BirthMoves
  <2>10. NoActiveTwins'
    <3>1. \A k \in Memories \ {n} : row'[k] = row[k] \/ row'[k].status # "ACTIVE"
      BY <2>5, <2>8 DEF Kept
    <3>2. ASSUME NEW k \in Memories \ {n}, row'[k].status = "ACTIVE",
                 row'[k].class = row'[n].class, row'[k].key = row'[n].key,
                 row'[n].key # Null
          PROVE  FALSE
      <4>1. k # m /\ row'[k] = row[k]
        BY <3>2, <2>8, <3>1
      <4>2. row[k].class = row[m].class /\ row[k].key = row[m].key
            /\ row[k].status = "ACTIVE" /\ row[m].key # Null
        BY <4>1, <3>2, <2>6, <1>3, <1>5
      <4>3. /\ row[k].key = DeduplicationKey(row[k].class, row[k].content)
            /\ row[m].key = DeduplicationKey(row[m].class, row[m].content)
        BY <4>2, <1>2, <1>3 DEF IndInv, RowsSound, SoundRow
      <4>4. row[k].content = row[m].content /\ row[m].class # "HISTORICAL_DECISION"
        BY <4>2, <4>3 DEF DeduplicationKey
      <4> QED BY <4>1, <4>2, <4>4, <1>2, <1>3 DEF IndInv, NoActiveTwins
    <3>3. /\ row'[n].status = "ACTIVE" /\ row'[n].content \in Contents
          /\ row'[n].key = DeduplicationKey(row'[n].class, row'[n].content)
      BY <2>3, <2>6 DEF Newborn
    <3> QED BY <3>1, <3>2, <3>3, TwinsJoined
  <2>11. /\ Answering(new) \in Call /\ Answering(new).phase = "idle"
         /\ Answering(new).odd # "EXPIRED"
    BY <2>3, AnsweringSound DEF Newborn
  <2>12. \A k \in Memories : Kept(k) \/ Moved(k)
    BY <2>5, <2>8, <2>9
  <2> HIDE DEF new
  <2> QED BY <2>2, <2>4, <2>10, <2>11, <2>12, RowsMove
<1> QED BY <1>4, <1>5 DEF Expire

\* _expire_if_due reads the row again.
LEMMA MissExpiryStep ==
  ASSUME IndInv, NEW q \in Calls, MissExpiry(q)
  PROVE  IndInv' /\ \A m \in Memories : OneWay(m)
<1> DEFINE r == row[call[q].id]
<1>1. /\ call[q].phase = "read" /\ call[q].op # "list"
      /\ call[q].op \in {"create", "get", "update", "archive"}
      /\ call[q].copy.status = "ACTIVE"
      /\ UNCHANGED <<now, Database>>
  BY DEF MissExpiry, MeetsDeadline, Due
<1>2. now' \in 0 .. MaxTime /\ UNCHANGED Database
  BY <1>1 DEF IndInv, TypeOK
<1>3. /\ call[q].id \in Memories /\ CopyOf(call[q].copy, r)
      /\ call[q].op = "create" => Newborn(call[q].new)
      /\ call[q].op = "update" => call[q].content # Null
  BY <1>1, CallIs DEF SoundCall
<1>4. r \in Row
  BY <1>3 DEF IndInv, TypeOK
<1>5. CASE ~Gone(r) /\ Set(q, [call[q] EXCEPT !.phase = "refreshed", !.copy = r])
  <2>1. r.status # "NONE"
    <3>1. ASSUME r.status = "NONE" PROVE FALSE
      <4>1. r = NoRow /\ r.version = 0
        BY <3>1, <1>3 DEF IndInv, RowsSound, SoundRow, NoRow
      <4>2. call[q].copy.version \in Nat
        BY CallIs DEF Row
      <4>3. call[q].copy = r
        BY <4>1, <4>2, <1>3 DEF CopyOf
      <4> QED BY <4>3, <3>1, <1>1
    <3> QED BY <3>1
  <2> DEFINE d == [call[q] EXCEPT !.phase = "refreshed", !.copy = r]
  <2>2. /\ d \in Call /\ d.phase = "refreshed" /\ d.copy = r
        /\ d.id = call[q].id /\ d.op = call[q].op /\ d.new = call[q].new
        /\ d.content = call[q].content /\ d.odd # "EXPIRED"
    BY CallIs, <1>4 DEF Call
  <2>3. Set(q, d)
    BY <1>5
  <2> HIDE DEF d
  <2>4. CopyOf(r, r)
    BY <1>4 DEF CopyOf, Row
  <2>5. SoundCall(d)
    BY <2>1, <2>2, <2>4, <1>3, <1>5 DEF SoundCall, Gone
  <2> QED BY <1>2, <2>2, <2>3, <2>5, TablesAlone
<1>6. CASE /\ call[q].op = "create"
           /\ Set(q, [call[q] EXCEPT !.phase = "insert", !.id = Null,
                                     !.copy = NoRow])
  <2> DEFINE d == [call[q] EXCEPT !.phase = "insert", !.id = Null,
                                  !.copy = NoRow]
  <2>1. NoRow \in Row
    BY DEF NoRow, Row
  <2>2. /\ d \in Call /\ d.phase = "insert" /\ d.op = "create"
        /\ d.new = call[q].new /\ d.odd # "EXPIRED"
    BY <2>1, <1>6, CallIs DEF Call
  <2>3. Set(q, d)
    BY <1>6
  <2> HIDE DEF d
  <2>4. SoundCall(d)
    BY <2>2, <1>3, <1>6 DEF SoundCall
  <2> QED BY <1>2, <2>2, <2>3, <2>4, TablesAlone
<1>7. CASE Finish(q)
  BY <1>7, <1>1, RejectStep DEF Reject
<1> QED BY <1>5, <1>6, <1>7 DEF MissExpiry

\* The memory a create or a get answers with has not expired.
LEMMA ProceedsWith ==
  ASSUME IndInv, NEW q \in Calls, NEW op \in {"create", "get"}, Proceeds(q, op)
  PROVE  call[q].copy \in Row /\ call[q].copy.status \notin {"NONE", "EXPIRED"}
<1>1. CASE call[q].phase = "read"
  BY <1>1, CallIs DEF Proceeds, SoundCall, Sees
<1>2. CASE call[q].phase = "refreshed"
  BY <1>2, CallIs DEF SoundCall
<1> QED BY <1>1, <1>2 DEF Proceeds

\* get and the deduplicated create answer with the row they read.
LEMMA AnswersStep ==
  ASSUME IndInv, NEW q \in Calls, Deduplicate(q) \/ Get(q)
  PROVE  IndInv' /\ \A m \in Memories : OneWay(m)
BY ProceedsWith, AnswerStep DEF Deduplicate, Get

\* The copy that an operation goes on with is of a row.
LEMMA ProceedsOn ==
  ASSUME IndInv, NEW q \in Calls, NEW op \in {"update", "archive"}, Proceeds(q, op)
  PROVE  call[q].id \in Memories /\ CopyOf(call[q].copy, row[call[q].id])
BY CallIs DEF Proceeds, SoundCall

\* update_owned: the row is still the copy, and the index keeps the new
\* content apart from the other rows.
LEMMA UpdateStep ==
  ASSUME IndInv, NEW q \in Calls, Update(q)
  PROVE  IndInv' /\ \A k \in Memories : OneWay(k)
<1>1. call[q].id \in Memories
  BY ProceedsOn DEF Update
<1> PICK m \in Memories : m = call[q].id
  BY <1>1
<1> DEFINE new == Updated(row[m], call[q].content, call[q].expires)
           moved == EventOf("UPDATED", "ACTIVE", "ACTIVE")
           kept == revisions[m] \cup {Snapshot(row[m])}
<1>2. CASE Reject(q)
  BY <1>2, RejectStep
<1>3. CASE ~Reject(q)
  <2>1. /\ UpdateStands(q)
        /\ row' = [row EXCEPT ![m] = new]
        /\ revisions' = [revisions EXCEPT ![m] = @ \cup {Snapshot(call[q].copy)}]
        /\ wrote' = [wrote EXCEPT ![m] = Append(@, new.content)]
        /\ events' = [events EXCEPT ![m] = Append(@, moved)]
        /\ Set(q, NoCall) /\ now' = now
    BY <1>3 DEF Update, Log, Finish
  <2>2. /\ call[q].copy.version = row[m].version /\ row[m].status = "ACTIVE"
        /\ call[q].copy.class # "HISTORICAL_DECISION"
        /\ ~Clashes(m, new)
    BY <2>1 DEF UpdateStands, StillAsRead
  <2>3. m \in Memories /\ call[q].copy = row[m]
    BY <2>2, ProceedsOn DEF Update, CopyOf
  <2>4. /\ call[q].content \in Contents \cup {Keep}
        /\ call[q].expires \in Deadlines \cup {Null, Keep}
    <3>1. call[q].content # Null
      BY CallIs DEF Update, Proceeds, SoundCall
    <3> QED BY <3>1, CallIs DEF Call
  <2>5. GoodRow(m) /\ row[m] \in Row
    BY <2>3, GoodRows DEF GoodRow, TypedRow
  <2>6. /\ TypedRow(new, kept, Append(events[m], moved), Append(wrote[m], new.content))
        /\ SoundRow(new, kept, Append(events[m], moved), Append(wrote[m], new.content))
        /\ new.version = row[m].version + 1
        /\ new.status = "ACTIVE" /\ new.class = row[m].class
        /\ new.key = DeduplicationKey(row[m].class, new.content)
    <3>1. /\ TypedRow(row[m], revisions[m], events[m], wrote[m])
          /\ SoundRow(row[m], revisions[m], events[m], wrote[m])
      BY <2>5 DEF GoodRow
    <3> HIDE DEF new
    <3>2. new = Updated(row[m], call[q].content, call[q].expires)
      BY DEF new
    <3> DEFINE r == row[m] revs == revisions[m] moves == events[m] texts == wrote[m]
               content == call[q].content expires == call[q].expires
    <3>3. /\ TypedRow(r, revs, moves, texts) /\ SoundRow(r, revs, moves, texts)
          /\ r.status = "ACTIVE" /\ content \in Contents \cup {Keep}
          /\ expires \in Deadlines \cup {Null, Keep}
          /\ new = Updated(r, content, expires)
      BY <2>2, <2>4, <3>1, <3>2
    <3> HIDE DEF r, revs, moves, texts, content, expires
    <3>4. LET after == Append(moves, EventOf("UPDATED", "ACTIVE", "ACTIVE"))
             all  == revs \cup {Snapshot(r)}
         IN  /\ TypedRow(new, all, after, Append(texts, new.content))
             /\ SoundRow(new, all, after, Append(texts, new.content))
             /\ new.version = r.version + 1
             /\ new.status = "ACTIVE" /\ new.class = r.class
             /\ new.key = DeduplicationKey(r.class, new.content)
      BY <3>3, UpdatedRow
    <3> QED BY <3>4 DEF r, revs, moves, texts
  <2>7. Table(row') /\ Table(revisions') /\ Table(events') /\ Table(wrote')
    BY <2>1, TablesAre DEF Table
  <2> HIDE DEF new, moved
  <2>8. /\ row'[m] = new /\ revisions'[m] = kept
        /\ events'[m] = Append(events[m], moved)
        /\ wrote'[m] = Append(wrote[m], new.content)
    BY <2>1, <2>3, TablesAre
  <2>9. \A k \in Memories \ {m} : Kept(k)
    BY <2>1, TablesAre DEF Kept
  <2> HIDE DEF kept
  <2>10. GoodRow(m)' /\ row'[m].version = row[m].version + 1
    BY <2>6, <2>8 DEF GoodRow
  <2>11. OneWay(m)
    BY <2>2, <2>3, <2>6, <2>8 DEF OneWay, NextStatuses
  <2>12. \A k \in Memories : Kept(k) \/ Moved(k)
    BY <2>9, <2>10, <2>11 DEF Moved
  <2>13. NoActiveTwins'
    <3>1. new.content \in Contents
      BY <2>6 DEF SoundRow
    <3>2. \A k \in Memories \ {m} : row'[k] = row[k]
      BY <2>9 DEF Kept
    <3>3. ASSUME NEW k \in Memories \ {m}, row'[k].status = "ACTIVE",
                 row'[k].class = row'[m].class, row'[k].key = row'[m].key,
                 row'[m].key # Null
          PROVE  FALSE
      <4>1. k \in ActiveDuplicates(new.class, new.key) \ {m}
        BY <3>2, <3>3, <2>8 DEF ActiveDuplicates
      <4> QED BY <4>1, <2>2 DEF Clashes
    <3> QED BY <3>1, <3>2, <3>3, <2>3, <2>6, <2>8, TwinsJoined
  <2> QED BY <2>1, <2>7, <2>12, <2>13, NoCallSound, RowsMove
<1> QED BY <1>2, <1>3

\* archive_owned.
LEMMA ArchiveStep ==
  ASSUME IndInv, NEW q \in Calls, Archive(q)
  PROVE  IndInv' /\ \A k \in Memories : OneWay(k)
<1>1. call[q].id \in Memories
  BY ProceedsOn DEF Archive
<1> PICK m \in Memories : m = call[q].id
  BY <1>1
<1> DEFINE moved == EventOf("ARCHIVED", "ACTIVE", "ARCHIVED")
<1>2. CASE Reject(q)
  BY <1>2, RejectStep
<1>3. CASE ~Reject(q)
  <2>1. /\ row' = [row EXCEPT ![m] = Archived(@)]
        /\ revisions' = revisions /\ wrote' = wrote
        /\ events' = [events EXCEPT ![m] = Append(@, moved)]
        /\ Set(q, NoCall) /\ now' = now /\ row[m].status = "ACTIVE"
    BY <1>3 DEF Archive, Log, Finish, StillAsRead
  <2>2. m \in Memories
    BY ProceedsOn DEF Archive
  <2>3. GoodRow(m) /\ row[m] \in Row
    BY <2>2, GoodRows DEF GoodRow, TypedRow
  <2>4. Table(row') /\ Table(revisions') /\ Table(events') /\ Table(wrote')
    BY <2>1, TablesAre DEF Table
  <2>5. \A k \in Memories \ {m} : Kept(k)
    BY <2>1, TablesAre DEF Kept
  <2>6. /\ row'[m] = Archived(row[m]) /\ revisions'[m] = revisions[m]
        /\ events'[m] = Append(events[m], moved) /\ wrote'[m] = wrote[m]
    BY <2>1, <2>2, TablesAre
  <2>7. /\ GoodRow(m)' /\ row'[m].version = row[m].version + 1
        /\ row'[m].status = "ARCHIVED"
    <3>1. LET after == Append(events[m], moved)
          IN  /\ TypedRow(Archived(row[m]), revisions[m], after, wrote[m])
              /\ SoundRow(Archived(row[m]), revisions[m], after, wrote[m])
              /\ Archived(row[m]).version = row[m].version + 1
              /\ Archived(row[m]).status = "ARCHIVED"
      BY <2>1, <2>3, ArchivedRow DEF GoodRow
    <3> QED BY <2>6, <3>1 DEF GoodRow
  <2>8. row'[m].content = row[m].content
    BY <2>3, <2>6 DEF Archived, Row
  <2>9. OneWay(m)
    BY <2>1, <2>7, <2>8 DEF OneWay, NextStatuses
  <2>10. \A k \in Memories : Kept(k) \/ Moved(k)
    BY <2>5, <2>7, <2>9 DEF Moved
  <2>11. NoActiveTwins'
    <3>1. \A k \in Memories : row'[k] = row[k] \/ row'[k].status # "ACTIVE"
      BY <2>5, <2>7 DEF Kept
    <3> QED BY <3>1, TwinsFewer
  <2> QED BY <2>1, <2>4, <2>10, <2>11, NoCallSound, RowsMove
<1> QED BY <1>2, <1>3

\* delete_owned, in whatever status the row still is.
LEMMA DeleteStep ==
  ASSUME IndInv, NEW q \in Calls, Delete(q)
  PROVE  IndInv' /\ \A k \in Memories : OneWay(k)
<1>1. call[q].id \in Memories
  BY CallIs DEF Delete, SoundCall
<1> PICK m \in Memories : m = call[q].id
  BY <1>1
<1> DEFINE moved == EventOf("DELETED", row[m].status, "DELETED")
           bare  == {Scrub(v) : v \in revisions[m]}
<1>2. CASE Reject(q)
  BY <1>2, RejectStep
<1>3. CASE ~Reject(q)
  <2>1. /\ row' = [row EXCEPT ![m] = Deleted(@)]
        /\ revisions' = [revisions EXCEPT ![m] = {Scrub(r) : r \in @}]
        /\ wrote' = [wrote EXCEPT ![m] = <<>>]
        /\ events' = [events EXCEPT ![m] =
                        Append(@, EventOf("DELETED", call[q].copy.status, "DELETED"))]
        /\ Set(q, NoCall) /\ now' = now
        /\ call[q].copy.version = row[m].version
        /\ call[q].op = "delete" /\ call[q].phase = "read"
    BY <1>3 DEF Delete, Log, Finish
  <2>2. m \in Memories /\ call[q].copy = row[m]
        /\ row[m].status \in {"ACTIVE", "ARCHIVED", "EXPIRED"}
    BY <2>1, CallIs DEF SoundCall, CopyOf, Sees
  <2>3. GoodRow(m) /\ row[m] \in Row
    BY <2>2, GoodRows DEF GoodRow, TypedRow
  <2>4. Table(row') /\ Table(revisions') /\ Table(events') /\ Table(wrote')
    BY <2>1, TablesAre DEF Table
  <2>5. \A k \in Memories \ {m} : Kept(k)
    BY <2>1, TablesAre DEF Kept
  <2>6. /\ row'[m] = Deleted(row[m]) /\ revisions'[m] = bare
        /\ events'[m] = Append(events[m], moved) /\ wrote'[m] = <<>>
    BY <2>1, <2>2, TablesAre
  <2>7. /\ TypedRow(Deleted(row[m]), bare, Append(events[m], moved), <<>>)
        /\ SoundRow(Deleted(row[m]), bare, Append(events[m], moved), <<>>)
        /\ Deleted(row[m]).version = row[m].version + 1
        /\ Deleted(row[m]).status = "DELETED"
    BY <2>2, <2>3, DeletedRow DEF GoodRow
  <2> HIDE DEF moved, bare
  <2>8. GoodRow(m)'
    BY <2>6, <2>7 DEF GoodRow
  <2>9. row'[m].content = Scrubbed
    BY <2>3, <2>6 DEF Deleted, Row
  <2>10. OneWay(m)
    BY <2>2, <2>6, <2>7, <2>9 DEF OneWay, NextStatuses
  <2>11. \A k \in Memories : Kept(k) \/ Moved(k)
    BY <2>5, <2>6, <2>7, <2>8, <2>10 DEF Moved
  <2>12. NoActiveTwins'
    <3>1. \A k \in Memories : row'[k] = row[k] \/ row'[k].status # "ACTIVE"
      BY <2>5, <2>6, <2>7 DEF Kept
    <3> QED BY <3>1, TwinsFewer
  <2> QED BY <2>1, <2>4, <2>11, <2>12, NoCallSound, RowsMove
<1> QED BY <1>2, <1>3

\* list_owned and build_context_pack: any number of rows expire at once.
LEMMA ListStep ==
  ASSUME IndInv, NEW q \in Calls, List(q)
  PROVE  IndInv' /\ \A k \in Memories : OneWay(k)
<1> DEFINE gone  == {m \in Memories : \E d \in call[q].due :
                                        d[1] = m /\ StillAsRead(m, d[2])}
           ended == EventOf("EXPIRED", "ACTIVE", "EXPIRED")
<1>1. /\ row' = [m \in Memories |-> IF m \in gone THEN Expired(row[m]) ELSE row[m]]
      /\ events' = [m \in Memories |-> IF m \in gone THEN Append(events[m], ended)
                                       ELSE events[m]]
      /\ revisions' = revisions /\ wrote' = wrote /\ now' = now
      /\ Set(q, NoCall)
  BY DEF List, Finish
<1>2. \A m \in gone : m \in Memories /\ row[m].status = "ACTIVE"
  BY DEF StillAsRead
<1> HIDE DEF gone, ended
<1>3. Table(row') /\ Table(revisions') /\ Table(events') /\ Table(wrote')
  BY <1>1, TablesAre DEF Table
<1>4. \A m \in Memories \ gone : Kept(m)
  BY <1>1 DEF Kept
<1>5. \A m \in gone : Moved(m) /\ row'[m].status = "EXPIRED"
  <2> SUFFICES ASSUME NEW m \in gone PROVE Moved(m) /\ row'[m].status = "EXPIRED"
    OBVIOUS
  <2>1. /\ row'[m] = Expired(row[m]) /\ revisions'[m] = revisions[m]
        /\ events'[m] = Append(events[m], ended) /\ wrote'[m] = wrote[m]
    BY <1>1, <1>2
  <2> QED BY <2>1, <1>2, ExpiryMoves DEF ended
<1>6. \A m \in Memories : Kept(m) \/ Moved(m)
  BY <1>4, <1>5
<1>7. NoActiveTwins'
  <2>1. \A m \in Memories : row'[m] = row[m] \/ row'[m].status # "ACTIVE"
    BY <1>4, <1>5 DEF Kept
  <2> QED BY <2>1, TwinsFewer
<1> QED BY <1>1, <1>3, <1>6, <1>7, NoCallSound, RowsMove

\* Every step of a call after its first.
LEMMA WorkStep ==
  ASSUME IndInv, NEW q \in Calls, Work(q)
  PROVE  IndInv' /\ \A m \in Memories : OneWay(m)
<1>1. CASE \E m \in Memories : Insert(q, m)
  BY <1>1, InsertStep
<1>2. CASE Collide(q)
  BY <1>2, CollideStep
<1>3. CASE LookAgain(q)
  BY <1>3, LookAgainStep
<1>4. CASE Expire(q)
  BY <1>4, ExpireStep
<1>5. CASE MissExpiry(q)
  BY <1>5, MissExpiryStep
<1>6. CASE Deduplicate(q) \/ Get(q)
  BY <1>6, AnswersStep
<1>7. CASE Update(q)
  BY <1>7, UpdateStep
<1>8. CASE Archive(q)
  BY <1>8, ArchiveStep
<1>9. CASE Delete(q)
  BY <1>9, DeleteStep
<1>10. CASE List(q)
  BY <1>10, ListStep
<1>11. CASE Rollback(q)
  BY <1>11, RejectStep DEF Rollback
<1> QED BY <1>1, <1>2, <1>3, <1>4, <1>5, <1>6, <1>7, <1>8, <1>9, <1>10, <1>11
        DEF Work

\* Every step keeps the invariant and moves every row one way.
LEMMA NextInv ==
  ASSUME IndInv, [Next]_vars
  PROVE  IndInv' /\ \A m \in Memories : OneWay(m)
<1>1. CASE Tick
  BY <1>1, TickStep
<1>2. CASE \E q \in Calls : Ask(q) \/ Work(q)
  BY <1>2, AskStep, WorkStep
<1>3. CASE UNCHANGED vars
  <2>1. TypeOK'
    BY <1>3 DEF vars, IndInv, TypeOK
  <2>2. RowsSound' /\ CallsSound'
    BY <1>3 DEF vars, IndInv, RowsSound, CallsSound, SoundCall
  <2>3. NoActiveTwins' /\ ExpiredIsNotAnswered'
    BY <1>3 DEF vars, IndInv, NoActiveTwins, ExpiredIsNotAnswered
  <2> QED BY <2>1, <2>2, <2>3, <1>3 DEF IndInv, vars, OneWay
<1> QED BY <1>1, <1>2, <1>3 DEF Next

-----------------------------------------------------------------------------
\* Theorems.

\* The tables and the calls keep their shape, copies their versions and rows
\* their records, in every reachable state.
THEOREM Inductive == Spec => []IndInv
<1>1. IndInv /\ [Next]_vars => IndInv'
  BY NextInv
<1> QED BY InitInv, <1>1, PTL DEF Spec

\* The tables of memory/models.py keep their shape.
THEOREM TypeCorrect == Spec => []TypeOK
<1>1. IndInv => TypeOK
  BY DEF IndInv
<1> QED BY Inductive, <1>1, PTL

\* memory_revisions holds the content of every version before the last, and
\* memory_events one move per version, however the calls overlap.
THEOREM HistoryStaysTrue == Spec => []HistoryIsTrue
<1>1. IndInv => RevisionsTell
  BY DEF IndInv, RowsSound, SoundRow, RevisionsTell
<1>2. IndInv => ChronologyIsWhole
  BY DEF IndInv, RowsSound, SoundRow, ChronologyIsWhole
<1>3. IndInv => HistoryIsTrue
  BY <1>1, <1>2 DEF HistoryIsTrue
<1> QED BY Inductive, <1>3, PTL

\* No call under way brings back the content of a deleted memory.
THEOREM DeletedStaysScrubbed == Spec => []DeletedIsScrubbed
<1>1. IndInv => DeletedIsScrubbed
  BY DEF IndInv, RowsSound, SoundRow, DeletedIsScrubbed
<1> QED BY Inductive, <1>1, PTL

\* No two ACTIVE memories of a class ever hold one content.
THEOREM TwinsNeverMeet == Spec => []NoActiveTwins
<1>1. IndInv => NoActiveTwins
  BY DEF IndInv
<1> QED BY Inductive, <1>1, PTL

\* GET and POST never answer with an expired memory.
THEOREM ExpiredNeverAnswered == Spec => []ExpiredIsNotAnswered
<1>1. IndInv => ExpiredIsNotAnswered
  BY DEF IndInv
<1> QED BY Inductive, <1>1, PTL

\* A row moves one version at a time and never out of an end.
THEOREM RowsMoveOneWay == Spec => NeverComesBack
<1>1. IndInv /\ [Next]_vars =>
        [\A m \in Memories : row'[m] # row[m] =>
           /\ row'[m].version = row[m].version + 1
           /\ row'[m].status \in NextStatuses[row[m].status]
           /\ row[m].class = "HISTORICAL_DECISION" =>
                row'[m].content \in {row[m].content, Scrubbed}]_vars
  BY NextInv DEF OneWay
<1> QED BY Inductive, <1>1, PTL DEF Spec, NeverComesBack
=============================================================================
