------------------------- MODULE VoiceSessionProofs -------------------------
(***************************************************************************)
(* Proofs about VoiceSession, for every set of handlers, turns and         *)
(* transcripts and every bound.  IndInv is inductive: the row is locked    *)
(* only by the handler it names, for a turn that is still open, and a      *)
(* reply that is stored has one handler to send it.                        *)
(***************************************************************************)
EXTENDS VoiceSession, TLAPS

\* What TerminalIsFinal and LeasePasses say of one step.
FinalStep ==
  session.state \in Terminal =>
    /\ session'.state = session.state
    /\ session'.conn \in {session.conn, Null}
    /\ turns' = turns /\ pairs' = pairs

LeaseStep ==
  /\ session'.reconnects <= MaxReconnects
  /\ (session.conn # Null /\ session'.conn \notin {session.conn, Null})
       => session.quiet
  /\ lock # Null /\ lock' = lock =>
       /\ session.conn = lock /\ session.state = "LISTENING"
       /\ session'.conn = lock /\ session'.state = session.state

Sound == IndInv' /\ FinalStep /\ LeaseStep

-----------------------------------------------------------------------------
\* What the invariant says of the parts of the state.

\* The invariant, part by part.
LEMMA Parts ==
  ASSUME IndInv
  PROVE  /\ session \in Session /\ session.state \in States \cup {"NONE"}
         /\ session.conn \in Handlers \cup {Null} /\ session.reconnects \in Nat
         /\ session.quiet \in BOOLEAN /\ session.joined \in BOOLEAN
         /\ \A h \in Handlers : handler[h] \in Handler
         /\ DOMAIN handler = Handlers /\ DOMAIN turns = Turns
         /\ DOMAIN pairs = Turns /\ DOMAIN heard = Turns
<1>1. session \in Session /\ handler \in [Handlers -> Handler]
  BY DEF IndInv, TypeOK
<1> QED BY <1>1 DEF IndInv, TypeOK, Session

\* Whoever has the row locked has the lease.
LEMMA LockHolds ==
  ASSUME IndInv, lock # Null
  PROVE  /\ lock \in Handlers /\ handler[lock].phase = "finalizing"
         /\ session.conn = lock /\ session.state = "LISTENING"
<1>1. lock \in Handlers /\ handler[lock].phase = "finalizing"
  BY DEF IndInv, TypeOK, RowSound
<1> QED BY <1>1 DEF IndInv, HandlersSound, SoundHandler, Holds

\* No session, no handler.
LEMMA InitInv == Init => IndInv
<1> SUFFICES ASSUME Init PROVE IndInv
  OBVIOUS
<1>1. NoSession \in Session
  BY DEF NoSession, Session
<1>2. NewHandler \in Handler
  BY DEF NewHandler, Handler, Phases
<1>3. TypeOK
  BY <1>1, <1>2 DEF Init, TypeOK
<1>4. RowSound
  BY BoundsAssumption DEF Init, RowSound, NoSession
<1>5. HandlersSound
  BY DEF Init, HandlersSound, SoundHandler, NewHandler
<1>6. AnsweredOnce
  BY DEF Init, AnsweredOnce
<1> QED BY <1>3, <1>4, <1>5, <1>6 DEF IndInv

-----------------------------------------------------------------------------
\* Steps of several actions.

\* The flags of the row and the version of the conversation change, nothing
\* else does.
LEMMA FlagsOnly ==
  ASSUME IndInv, session' \in Session, session'.state = session.state,
         session'.conn = session.conn, session'.reconnects = session.reconnects,
         UNCHANGED <<lock, turns, pairs, heard, handler>>,
         version' \in Nat, revoked' \in BOOLEAN
  PROVE  Sound
<1>1. TypeOK'
  BY DEF IndInv, TypeOK
<1>2. RowSound'
  BY DEF IndInv, RowSound
<1>3. HandlersSound'
  BY DEF IndInv, HandlersSound, SoundHandler, Holds, Over
<1>4. AnsweredOnce'
  BY DEF IndInv, AnsweredOnce
<1>5. FinalStep
  BY DEF FinalStep
<1>6. LeaseStep
  BY LockHolds DEF LeaseStep, IndInv, RowSound
<1> QED BY <1>1, <1>2, <1>3, <1>4, <1>5, <1>6 DEF Sound, IndInv

\* A handler that leaves its loop gives up the row and keeps the lease.
LEMMA LeavesStep ==
  ASSUME IndInv, NEW h \in Handlers,
         NEW phase \in {"dropping", "failing", "ending", "done"},
         LeavesLoop(h, phase)
  PROVE  Sound
<1>1. /\ session' = session /\ turns' = turns /\ pairs' = pairs
      /\ version' = version /\ heard' = heard /\ revoked' = revoked
      /\ lock' = IF lock = h THEN Null ELSE lock
      /\ handler' = [handler EXCEPT ![h].phase = phase]
  BY DEF LeavesLoop, Goes, Conversation
<1>2. handler' \in [Handlers -> Handler]
  BY <1>1 DEF IndInv, TypeOK, Handler, Phases
<1>3. /\ handler'[h].phase = phase
      /\ \A g \in Handlers \ {h} : handler'[g] = handler[g]
  BY <1>1, Parts DEF Handler
<1>4. TypeOK'
  BY <1>1, <1>2 DEF IndInv, TypeOK
<1>5. RowSound'
  <2>1. lock' # Null => lock' = lock /\ lock # h
    BY <1>1
  <2>2. lock' # Null => handler'[lock'].phase = "finalizing"
    BY <2>1, <1>3, LockHolds
  <2>3. session.conn # Null => handler'[session.conn].phase # "new"
    BY <1>3, Parts DEF IndInv, RowSound
  <2> QED BY <2>2, <2>3, <1>1 DEF IndInv, RowSound
<1>6. HandlersSound'
  <2> SUFFICES ASSUME NEW g \in Handlers PROVE SoundHandler(g)'
    BY DEF HandlersSound
  <2>1. CASE g = h
    BY <2>1, <1>3 DEF SoundHandler
  <2>2. CASE g # h
    <3>1. SoundHandler(g) /\ handler'[g] = handler[g]
      BY <2>2, <1>3 DEF IndInv, HandlersSound
    <3>2. handler[g].phase = "finalizing" => lock' = g
      BY <3>1, <2>2, <1>1 DEF SoundHandler
    <3>3. \A k \in Handlers : handler'[k].phase = "sending" => handler'[k] = handler[k]
      BY <1>3
    <3> QED BY <3>1, <3>2, <3>3, <1>1 DEF SoundHandler, Holds, Over
  <2> QED BY <2>1, <2>2
<1>7. AnsweredOnce'
  BY <1>1 DEF IndInv, AnsweredOnce
<1>8. FinalStep
  BY <1>1 DEF FinalStep
<1>9. LeaseStep
  BY <1>1, LockHolds DEF LeaseStep, IndInv, RowSound
<1> QED BY <1>4, <1>5, <1>6, <1>7, <1>8, <1>9 DEF Sound, IndInv

\* With the row free, a step that leaves nobody in charge: no lease, or a
\* session that is over.
LEMMA RowCloses ==
  ASSUME IndInv, Free, session' \in Session,
         session'.conn \in {session.conn, Null},
         session'.conn = Null \/ session'.state \in Terminal,
         session'.reconnects <= MaxReconnects,
         Over => session'.state = session.state,
         UNCHANGED <<lock, Conversation, revoked>>,
         UNCHANGED handler \/ \E h \in Handlers : Goes(h, "done")
  PROVE  Sound
<1>1. /\ turns' = turns /\ pairs' = pairs /\ version' = version
      /\ heard' = heard /\ lock' = lock /\ lock = Null /\ revoked' = revoked
  BY DEF Conversation, Free
<1>2. \A g \in Handlers : handler[g].phase # "finalizing"
  BY <1>1, NullAssumption DEF IndInv, HandlersSound, SoundHandler
<1>3. /\ handler' \in [Handlers -> Handler]
      /\ \A g \in Handlers : handler'[g] = handler[g] \/ handler'[g].phase = "done"
  <2>1. CASE UNCHANGED handler
    BY <2>1 DEF IndInv, TypeOK
  <2>2. CASE \E h \in Handlers : Goes(h, "done")
    <3>1. PICK h \in Handlers : handler' = [handler EXCEPT ![h].phase = "done"]
      BY <2>2 DEF Goes
    <3>2. handler' \in [Handlers -> Handler]
      <4>1. handler \in [Handlers -> Handler] /\ handler[h] \in Handler
        BY DEF IndInv, TypeOK
      <4>2. [handler[h] EXCEPT !.phase = "done"] \in Handler
        BY <4>1 DEF Handler, Phases
      <4> QED BY <3>1, <4>1, <4>2
    <3>3. \A g \in Handlers \ {h} : handler'[g] = handler[g]
      BY <3>1, Parts
    <3>4. handler'[h].phase = "done"
      BY <3>1, Parts DEF Handler
    <3> QED BY <3>1, <3>2, <3>3, <3>4
  <2> QED BY <2>1, <2>2
<1>4. TypeOK'
  BY <1>1, <1>3 DEF IndInv, TypeOK
<1>5. RowSound'
  <2>1. session'.conn # Null =>
          /\ session'.conn \in Handlers /\ session'.state \in Terminal
          /\ handler[session'.conn].phase # "new"
    BY Parts DEF IndInv, RowSound
  <2>2. session'.conn # Null => handler'[session'.conn].phase # "new"
    BY <2>1, <1>3
  <2> QED BY <2>1, <2>2, <1>1 DEF RowSound
<1>6. HandlersSound'
  <2> SUFFICES ASSUME NEW g \in Handlers PROVE SoundHandler(g)'
    BY DEF HandlersSound
  <2>1. CASE handler'[g].phase = "done"
    BY <2>1 DEF SoundHandler
  <2>2. CASE handler'[g] = handler[g]
    <3>1. SoundHandler(g) /\ handler[g].phase # "finalizing"
      BY <1>2 DEF IndInv, HandlersSound
    <3>2. ~(session'.conn = g /\ session'.state \notin Terminal)
      BY NullAssumption
    <3>3. \A k \in Handlers : handler'[k].phase = "sending" => handler'[k] = handler[k]
      BY <1>3
    <3> QED BY <2>2, <3>1, <3>2, <3>3, <1>1 DEF SoundHandler, Holds, Over
  <2> QED BY <2>1, <2>2, <1>3
<1>7. AnsweredOnce'
  BY <1>1 DEF IndInv, AnsweredOnce
<1>8. FinalStep
  BY <1>1 DEF FinalStep, Over
<1>9. LeaseStep
  BY <1>1 DEF LeaseStep
<1> QED BY <1>4, <1>5, <1>6, <1>7, <1>8, <1>9 DEF Sound, IndInv

-----------------------------------------------------------------------------
\* The environment and HTTP.

\* What happens around the session: time, revocation, typed messages.
LEMMA EnvironmentStep ==
  ASSUME IndInv, CredentialExpires \/ GrowQuiet \/ Overrun \/ Revoke \/ Type
  PROVE  Sound
<1>0. /\ session \in Session /\ version \in Nat /\ revoked \in BOOLEAN
  BY DEF IndInv, TypeOK
<1>1. CASE CredentialExpires
  <2>1. session' = [session EXCEPT !.fresh = FALSE]
    BY <1>1 DEF CredentialExpires
  <2>2. /\ session' \in Session /\ session'.state = session.state
        /\ session'.conn = session.conn /\ session'.reconnects = session.reconnects
    BY <2>1, <1>0 DEF Session
  <2> QED BY <1>0, <1>1, <2>2, FlagsOnly DEF CredentialExpires, Conversation
<1>2. CASE GrowQuiet
  <2>1. session' = [session EXCEPT !.quiet = TRUE]
    BY <1>2 DEF GrowQuiet
  <2>2. /\ session' \in Session /\ session'.state = session.state
        /\ session'.conn = session.conn /\ session'.reconnects = session.reconnects
    BY <2>1, <1>0 DEF Session
  <2> QED BY <1>0, <1>2, <2>2, FlagsOnly DEF GrowQuiet, Conversation
<1>3. CASE Overrun
  <2>1. session' = [session EXCEPT !.overdue = TRUE]
    BY <1>3 DEF Overrun
  <2>2. /\ session' \in Session /\ session'.state = session.state
        /\ session'.conn = session.conn /\ session'.reconnects = session.reconnects
    BY <2>1, <1>0 DEF Session
  <2> QED BY <1>0, <1>3, <2>2, FlagsOnly DEF Overrun, Conversation
<1>4. CASE Revoke
  BY <1>0, <1>4, FlagsOnly DEF Revoke, Conversation
<1>5. CASE Type
  BY <1>0, <1>5, FlagsOnly DEF Type
<1> QED BY <1>1, <1>2, <1>3, <1>4, <1>5

\* The HTTP side: start, refresh of the credential, end.
LEMMA HttpStep ==
  ASSUME IndInv, Start \/ RefreshCredential \/ EndOwned
  PROVE  Sound
<1>0. /\ session \in Session /\ version \in Nat /\ revoked \in BOOLEAN
      /\ session.reconnects <= MaxReconnects
  BY DEF IndInv, TypeOK, RowSound
<1>1. CASE Start
  <2>1. session' = [NoSession EXCEPT !.state = "CONNECTING", !.credential = 1,
                                     !.fresh = TRUE]
    BY <1>1 DEF Start
  <2>2. /\ session' \in Session /\ session'.conn = Null /\ session'.reconnects = 0
    BY <2>1 DEF Session, NoSession, States
  <2>3. Free /\ ~Over
    BY <1>1, LockHolds DEF Start, Free, Over, Terminal
  <2> QED BY <1>1, <2>2, <2>3, BoundsAssumption, RowCloses DEF Start
<1>2. CASE RefreshCredential
  <2>1. session' = [session EXCEPT !.credential = @ + 1, !.fresh = TRUE]
    BY <1>2 DEF RefreshCredential
  <2>2. session.credential + 1 \in Nat
    BY <1>0 DEF Session
  <2>3. session' \in Session
    BY <2>1, <2>2, <1>0 DEF Session
  <2>4. /\ session'.state = session.state
        /\ session'.conn = session.conn /\ session'.reconnects = session.reconnects
    BY <2>1, <1>0 DEF Session
  <2> QED BY <1>0, <1>2, <2>3, <2>4, FlagsOnly DEF RefreshCredential, Conversation
<1>3. CASE EndOwned
  <2>1. session' = [session EXCEPT !.state = "ENDED", !.conn = Null]
    BY <1>3 DEF EndOwned
  <2>2. /\ session' \in Session /\ session'.conn = Null
        /\ session'.reconnects = session.reconnects
    BY <2>1, <1>0 DEF Session, States
  <2> QED BY <1>0, <1>3, <2>2, RowCloses DEF EndOwned
<1> QED BY <1>1, <1>2, <1>3

-----------------------------------------------------------------------------
\* Connections.

\* FAILED is committed and the row keeps its lease.
LEMMA FailedIs ==
  ASSUME IndInv
  PROVE  /\ Failed(session) \in Session /\ Failed(session).state = "FAILED"
         /\ Failed(session).conn = session.conn
         /\ Failed(session).reconnects = session.reconnects
         /\ session.reconnects <= MaxReconnects
<1>1. session \in Session
  BY DEF IndInv, TypeOK
<1> QED BY <1>1 DEF Failed, Session, States, IndInv, RowSound

\* The lease passes to a handler that has not been connected before.
LEMMA OpenStep ==
  ASSUME IndInv, NEW h \in Handlers, NEW c \in 1 .. MaxCredentials, Open(h, c)
  PROVE  Sound
<1>1. /\ handler[h].phase = "new" /\ Free /\ ~Over
      /\ UNCHANGED <<lock, Conversation, revoked>>
      /\ session \in Session /\ session.reconnects \in Nat
      /\ session.joined \in BOOLEAN
  BY Parts DEF Open
<1>2. CASE session' = Failed(session) /\ Goes(h, "done")
  BY <1>1, <1>2, FailedIs, RowCloses DEF Terminal
<1>3. CASE session' = Failed([session EXCEPT !.conn = Null]) /\ Goes(h, "done")
  <2>1. /\ session' \in Session /\ session'.conn = Null
        /\ session'.reconnects = session.reconnects
    BY <1>1, <1>3 DEF Failed, Session, States
  <2> QED BY <1>1, <1>3, <2>1, FailedIs, RowCloses
<1>4. CASE /\ ~LeaseTaken /\ ~Exhausted
           /\ session' = Listening(h) /\ Goes(h, "live")
  <2>1. (IF session.joined THEN session.reconnects + 1 ELSE session.reconnects) \in Nat
    BY <1>1
  <2>2. session' \in Session
    BY <1>1, <1>4, <2>1 DEF Listening, Session, States
  <2>3. /\ session'.state = "LISTENING" /\ session'.conn = h
        /\ session'.reconnects = IF session.joined THEN session.reconnects + 1
                                                   ELSE session.reconnects
    BY <1>1, <1>4 DEF Listening, Session
  <2>4. session'.reconnects <= MaxReconnects
    BY <1>1, <1>4, <2>3, BoundsAssumption, FailedIs DEF Exhausted
  <2>5. /\ turns' = turns /\ pairs' = pairs /\ version' = version
        /\ heard' = heard /\ lock' = lock /\ lock = Null /\ revoked' = revoked
    BY <1>1 DEF Conversation, Free
  <2>6. handler' = [handler EXCEPT ![h].phase = "live"]
    BY <1>4 DEF Goes
  <2>7. /\ handler' \in [Handlers -> Handler]
        /\ handler'[h].phase = "live" /\ handler'[h].speaking = handler[h].speaking
        /\ \A g \in Handlers \ {h} : handler'[g] = handler[g]
    BY <2>6, Parts DEF IndInv, TypeOK, Handler, Phases
  <2>8. TypeOK'
    BY <2>2, <2>5, <2>7 DEF IndInv, TypeOK
  <2>9. RowSound'
    BY <2>3, <2>4, <2>5, <2>7 DEF RowSound
  <2>10. HandlersSound'
    <3> SUFFICES ASSUME NEW g \in Handlers PROVE SoundHandler(g)'
      BY DEF HandlersSound
    <3>1. SoundHandler(g)
      BY DEF IndInv, HandlersSound
    <3>2. CASE g = h
      BY <1>1, <2>3, <2>7, <3>1, <3>2 DEF SoundHandler
    <3>3. CASE g # h
      <4>1. handler'[g] = handler[g] /\ handler[g].phase # "finalizing"
        BY <2>5, <2>7, <3>1, <3>3, NullAssumption DEF SoundHandler
      <4>2. \A k \in Handlers : handler'[k].phase = "sending" => handler'[k] = handler[k]
        BY <2>7
      <4> QED BY <3>1, <3>3, <4>1, <4>2, <2>3, <2>5 DEF SoundHandler, Holds, Over
    <3> QED BY <3>2, <3>3
  <2>11. AnsweredOnce'
    BY <2>5 DEF IndInv, AnsweredOnce
  <2>12. FinalStep
    BY <1>1 DEF FinalStep, Over
  <2>13. LeaseStep
    BY <1>4, <2>4, <2>5 DEF LeaseStep, LeaseTaken
  <2> QED BY <2>8, <2>9, <2>10, <2>11, <2>12, <2>13 DEF Sound, IndInv
<1> QED BY <1>2, <1>3, <1>4 DEF Open

\* The watchdog fails a session unless it is over.
LEMMA TimesOutStep ==
  ASSUME IndInv, NEW h \in Handlers, TimesOut(h)
  PROVE  Sound
<1>1. /\ Free /\ Goes(h, "done") /\ UNCHANGED <<lock, Conversation, revoked>>
      /\ session' = IF Over THEN session ELSE Failed(session)
      /\ session \in Session
  BY Parts DEF TimesOut
<1>2. CASE Over
  BY <1>1, <1>2, FailedIs, RowCloses DEF Over
<1>3. CASE ~Over
  BY <1>1, <1>3, FailedIs, RowCloses DEF Terminal
<1> QED BY <1>2, <1>3

\* A connection that lost its lease leaves the row alone.
LEMMA DisownedStep ==
  ASSUME IndInv, NEW h \in Handlers, Disowned(h)
  PROVE  Sound
BY LeavesStep DEF Disowned

\* A turn begins: its handler takes the row.
LEMMA FinalizeStep ==
  ASSUME IndInv, NEW h \in Handlers, NEW t \in Turns, NEW x \in Texts,
         Finalize(h, t, x)
  PROVE  Sound
<1>1. handler[h].phase = "live"
  BY DEF Finalize
<1>2. CASE Disowned(h)
  BY <1>2, DisownedStep
<1>3. CASE TimesOut(h)
  BY <1>3, TimesOutStep
<1>4. CASE LeavesLoop(h, "failing")
  BY <1>4, LeavesStep
<1>5. CASE /\ InCharge(h) /\ turns[t] = Null
           /\ CanMove(session.state, "PROCESSING")
           /\ lock' = h
           /\ handler' = [handler EXCEPT
                ![h].phase = "finalizing", ![h].turn = t, ![h].text = x,
                ![h].seen = version]
           /\ UNCHANGED <<session, Conversation, revoked>>
  <2>1. /\ turns' = turns /\ pairs' = pairs /\ version' = version
        /\ heard' = heard /\ revoked' = revoked /\ session' = session
        /\ lock = Null /\ session.conn = h /\ ~Over
    BY <1>5 DEF Conversation, InCharge, Free, Holds
  <2>2. session.state = "LISTENING"
    <3>1. session.state \in {"LISTENING", "SPEAKING"} \cup Terminal
      BY <2>1, NullAssumption DEF IndInv, RowSound
    <3>2. ~CanMove("SPEAKING", "PROCESSING")
      BY DEF CanMove, Successors, Terminal
    <3> QED BY <1>5, <2>1, <3>1, <3>2 DEF Over
  <2>3. /\ handler' \in [Handlers -> Handler]
        /\ handler'[h].phase = "finalizing" /\ handler'[h].turn = t
        /\ handler'[h].text = x
        /\ \A g \in Handlers \ {h} : handler'[g] = handler[g]
    <3>1. version \in Nat
      BY DEF IndInv, TypeOK
    <3> DEFINE w == [handler[h] EXCEPT !.phase = "finalizing", !.turn = t,
                                       !.text = x, !.seen = version]
    <3>2. w \in Handler
      BY <3>1, Parts DEF Handler, Phases
    <3>3. w.phase = "finalizing" /\ w.turn = t /\ w.text = x
      BY Parts DEF Handler
    <3> HIDE DEF w
    <3>4. handler' = [handler EXCEPT ![h] = w]
      BY <1>5, Parts DEF w
    <3> QED BY <3>2, <3>3, <3>4 DEF IndInv, TypeOK
  <2>4. TypeOK'
    BY <1>5, <2>1, <2>3 DEF IndInv, TypeOK
  <2>5. RowSound'
    BY <1>5, <2>1, <2>2, <2>3 DEF IndInv, RowSound
  <2>6. HandlersSound'
    <3> SUFFICES ASSUME NEW g \in Handlers PROVE SoundHandler(g)'
      BY DEF HandlersSound
    <3>1. SoundHandler(g)
      BY DEF IndInv, HandlersSound
    <3>2. CASE g = h
      BY <1>5, <2>1, <2>2, <2>3, <3>2 DEF SoundHandler, Holds
    <3>3. CASE g # h
      <4>1. handler'[g] = handler[g] /\ handler[g].phase # "finalizing"
        BY <2>1, <2>3, <3>1, <3>3, NullAssumption DEF SoundHandler
      <4>2. \A k \in Handlers : handler'[k].phase = "sending" => handler'[k] = handler[k]
        BY <2>3
      <4> QED BY <3>1, <3>3, <4>1, <4>2, <2>1 DEF SoundHandler, Holds, Over
    <3> QED BY <3>2, <3>3
  <2>7. AnsweredOnce'
    BY <2>1 DEF IndInv, AnsweredOnce
  <2>8. FinalStep
    BY <2>1 DEF FinalStep
  <2>9. LeaseStep
    BY <2>1, FailedIs DEF LeaseStep
  <2> QED BY <2>4, <2>5, <2>6, <2>7, <2>8, <2>9 DEF Sound, IndInv
<1>6. CASE Replay(h, t)
  <2>0. session \in Session /\ version \in Nat /\ revoked \in BOOLEAN
    BY DEF IndInv, TypeOK
  <2>1. /\ session' \in Session /\ session'.state = session.state
        /\ session'.conn = session.conn /\ session'.reconnects = session.reconnects
    BY <1>6, <2>0 DEF Replay, Session
  <2> QED BY <1>6, <2>0, <2>1, FlagsOnly DEF Replay, Conversation
<1> QED BY <1>2, <1>3, <1>4, <1>5, <1>6 DEF Finalize

\* The pair is stored by the handler that has the row, so the turn was open
\* until now and nobody has heard its reply.
LEMMA ReplyStep ==
  ASSUME IndInv, NEW h \in Handlers, Reply(h)
  PROVE  Sound
<1>1. /\ handler[h].phase = "finalizing"
      /\ SoundHandler(h)
  BY DEF Reply, IndInv, HandlersSound
<1>2. CASE LeavesLoop(h, "failing") \/ LeavesLoop(h, "dropping")
  BY <1>2, LeavesStep
<1>3. CASE ~(LeavesLoop(h, "failing") \/ LeavesLoop(h, "dropping"))
  <2>1. /\ handler[h].turn \in Turns /\ handler[h].text \in Texts
        /\ turns[handler[h].turn] = Null /\ lock = h /\ session.conn = h
        /\ session.state = "LISTENING"
    BY <1>1 DEF SoundHandler, Holds
  <2> PICK t \in Turns : t = handler[h].turn
    BY <2>1
  <2>2. /\ lock' = Null
        /\ turns' = [turns EXCEPT ![t] = handler[h].text]
        /\ pairs' = [pairs EXCEPT ![t] = @ + 1]
        /\ version' = version + 1 /\ heard' = heard /\ revoked' = revoked
        /\ \/ /\ session' = [session EXCEPT !.state = "SPEAKING",
                                            !.quiet = FALSE]
              /\ handler' = [handler EXCEPT ![h].phase = "sending",
                                            ![h].speaking = t]
           \/ /\ session' = Failed(session)
              /\ handler' = [handler EXCEPT ![h].phase = "done"]
    BY <1>3 DEF Reply, Goes
  <2>3. pairs[t] = 0 /\ heard[t] = 0
    <3>1. pairs[t] = 0 /\ heard[t] <= 0 /\ heard[t] \in Nat
      BY <2>1 DEF IndInv, AnsweredOnce, TypeOK
    <3> QED BY <3>1
  <2>4. /\ turns'[t] = handler[h].text /\ turns'[t] # Null /\ pairs'[t] = 1
        /\ \A u \in Turns \ {t} : turns'[u] = turns[u] /\ pairs'[u] = pairs[u]
    BY <2>1, <2>2, <2>3, Parts, NullAssumption
  <2>5. /\ session' \in Session /\ session'.conn = h
        /\ session'.reconnects = session.reconnects
        /\ session'.state \in {"SPEAKING", "FAILED"}
    <3>1. session \in Session
      BY Parts
    <3>2. CASE session' = [session EXCEPT !.state = "SPEAKING", !.quiet = FALSE]
      BY <3>1, <3>2, <2>1 DEF Session, States
    <3>3. CASE session' = Failed(session)
      BY <3>3, <2>1, FailedIs
    <3> QED BY <3>2, <3>3, <2>2
  <2>6. /\ handler' \in [Handlers -> Handler]
        /\ \A g \in Handlers \ {h} : handler'[g] = handler[g]
        /\ \/ /\ handler'[h].phase = "sending" /\ handler'[h].speaking = t
              /\ handler'[h].turn = t /\ session'.state = "SPEAKING"
           \/ handler'[h].phase = "done"
    <3>1. CASE /\ session' = [session EXCEPT !.state = "SPEAKING", !.quiet = FALSE]
               /\ handler' = [handler EXCEPT ![h].phase = "sending",
                                             ![h].speaking = t]
      <4>1. session'.state = "SPEAKING"
        BY <3>1, Parts DEF Session
      <4> DEFINE w == [handler[h] EXCEPT !.phase = "sending", !.speaking = t]
      <4>2. w \in Handler
        BY Parts DEF Handler, Phases
      <4>3. w.phase = "sending" /\ w.speaking = t /\ w.turn = t
        BY Parts DEF Handler
      <4> HIDE DEF w
      <4>4. handler' = [handler EXCEPT ![h] = w]
        BY <3>1, Parts DEF w
      <4> QED BY <4>1, <4>2, <4>3, <4>4 DEF IndInv, TypeOK
    <3>2. CASE handler' = [handler EXCEPT ![h].phase = "done"]
      BY <3>2, Parts DEF IndInv, TypeOK, Handler, Phases
    <3> QED BY <3>1, <3>2, <2>2
  <2>7. TypeOK'
    <3>1. turns' \in [Turns -> Texts \cup {Null}]
      BY <2>1, <2>2 DEF IndInv, TypeOK
    <3>2. pairs' \in [Turns -> Nat] /\ version' \in Nat
      BY <2>2 DEF IndInv, TypeOK
    <3> QED BY <3>1, <3>2, <2>2, <2>5, <2>6 DEF IndInv, TypeOK
  <2>8. RowSound'
    BY <2>2, <2>5, <2>6, FailedIs DEF RowSound, Terminal
  <2>9. HandlersSound'
    <3> SUFFICES ASSUME NEW g \in Handlers PROVE SoundHandler(g)'
      BY DEF HandlersSound
    <3>1. \A k \in Handlers \ {h} : handler'[k].phase = "sending" =>
            /\ handler'[k] = handler[k] /\ handler[k].turn \in Turns \ {t}
      BY <2>1, <2>6 DEF IndInv, HandlersSound, SoundHandler
    <3>2. CASE g = h
      BY <3>1, <3>2, <2>2, <2>3, <2>4, <2>5, <2>6 DEF SoundHandler
    <3>3. CASE g # h
      <4>1. SoundHandler(g) /\ handler'[g] = handler[g]
            /\ handler[g].phase # "finalizing"
        BY <2>1, <2>6, <3>3 DEF IndInv, HandlersSound, SoundHandler
      <4>2. session'.conn # g
        BY <2>5, <3>3
      <4>3. CASE handler[g].phase = "sending"
        <5>1. /\ handler[g].turn \in Turns \ {t}
              /\ turns'[handler[g].turn] = turns[handler[g].turn]
          BY <3>1, <4>1, <4>3, <3>3, <2>4
        <5>2. ASSUME NEW k \in Handlers \ {g}, handler'[k].phase = "sending"
              PROVE  handler'[k].turn # handler[g].turn
          <6>1. CASE k = h
            BY <6>1, <5>1, <5>2, <2>6
          <6>2. CASE k # h
            BY <6>2, <5>2, <3>1, <4>1, <4>3 DEF SoundHandler
          <6> QED BY <6>1, <6>2
        <5> QED BY <4>1, <4>2, <4>3, <5>1, <5>2, <2>2 DEF SoundHandler, Holds
      <4>4. CASE handler[g].phase # "sending"
        BY <4>1, <4>2, <4>4 DEF SoundHandler, Holds
      <4> QED BY <4>3, <4>4
    <3> QED BY <3>2, <3>3
  <2>10. AnsweredOnce'
    <3> SUFFICES ASSUME NEW u \in Turns
                 PROVE  /\ pairs'[u] = IF turns'[u] = Null THEN 0 ELSE 1
                        /\ heard'[u] <= pairs'[u]
      BY DEF AnsweredOnce
    <3>1. CASE u = t
      BY <3>1, <2>2, <2>3, <2>4
    <3>2. CASE u # t
      BY <3>2, <2>2, <2>4 DEF IndInv, AnsweredOnce
    <3> QED BY <3>1, <3>2
  <2>11. FinalStep
    BY <2>1 DEF FinalStep, Terminal
  <2>12. LeaseStep
    BY <2>1, <2>2, <2>5, FailedIs, NullAssumption DEF LeaseStep
  <2> QED BY <2>7, <2>8, <2>9, <2>10, <2>11, <2>12 DEF Sound, IndInv
<1> QED BY <1>2, <1>3

\* The reply is heard: it was stored, and no other handler has it to send.
LEMMA SendStep ==
  ASSUME IndInv, NEW h \in Handlers, Send(h)
  PROVE  Sound
<1>1. handler[h].phase = "sending" /\ SoundHandler(h)
  BY DEF Send, IndInv, HandlersSound
<1>2. CASE LeavesLoop(h, "dropping")
  BY <1>2, LeavesStep
<1>3. CASE ~LeavesLoop(h, "dropping")
  <2>1. /\ handler[h].turn \in Turns /\ handler[h].speaking = handler[h].turn
        /\ turns[handler[h].turn] # Null /\ heard[handler[h].turn] = 0
        /\ Holds(h) /\ ~Over => session.state = "SPEAKING"
        /\ \A g \in Handlers \ {h} :
             handler[g].phase = "sending" => handler[g].turn # handler[h].turn
    BY <1>1 DEF SoundHandler
  <2> PICK t \in Turns : t = handler[h].turn
    BY <2>1
  <2>2. /\ heard' = [heard EXCEPT ![t] = @ + 1]
        /\ handler' = [handler EXCEPT ![h].phase = "live", ![h].turn = Null,
                                      ![h].text = Null, ![h].seen = 0]
        /\ session' = session /\ lock' = lock /\ turns' = turns /\ pairs' = pairs
        /\ version' = version /\ revoked' = revoked
    BY <1>3 DEF Send
  <2>3. /\ heard' \in [Turns -> Nat] /\ heard'[t] = 1
        /\ \A u \in Turns \ {t} : heard'[u] = heard[u]
    BY <2>1, <2>2 DEF IndInv, TypeOK
  <2>4. handler' \in [Handlers -> Handler]
    <3> DEFINE w == [handler[h] EXCEPT !.phase = "live", !.turn = Null,
                                       !.text = Null, !.seen = 0]
    <3>1. w \in Handler
      BY Parts DEF Handler, Phases
    <3> HIDE DEF w
    <3>2. handler' = [handler EXCEPT ![h] = w]
      BY <2>2, Parts DEF w
    <3> QED BY <3>1, <3>2 DEF IndInv, TypeOK
  <2>5. /\ handler'[h].phase = "live" /\ handler'[h].speaking = t
        /\ \A g \in Handlers \ {h} : handler'[g] = handler[g]
    BY <2>1, <2>2, Parts DEF Handler
  <2>6. TypeOK'
    BY <2>2, <2>3, <2>4 DEF IndInv, TypeOK
  <2>7. RowSound'
    <3>1. lock # Null => lock # h
      BY <1>1, LockHolds
    <3>2. lock # Null => handler'[lock].phase = "finalizing"
      BY <3>1, <2>5, LockHolds
    <3>3. session.conn # Null => handler'[session.conn].phase # "new"
      BY <2>5, Parts DEF IndInv, RowSound
    <3> QED BY <3>2, <3>3, <2>2 DEF IndInv, RowSound
  <2>8. HandlersSound'
    <3> SUFFICES ASSUME NEW g \in Handlers PROVE SoundHandler(g)'
      BY DEF HandlersSound
    <3>1. CASE g = h
      BY <3>1, <2>1, <2>2, <2>5, NullAssumption DEF SoundHandler, Holds, Over
    <3>2. CASE g # h
      <4>1. SoundHandler(g) /\ handler'[g] = handler[g]
        BY <2>5, <3>2 DEF IndInv, HandlersSound
      <4>2. handler[g].phase = "sending" => heard'[handler[g].turn] = heard[handler[g].turn]
        BY <2>1, <2>3, <3>2, <4>1 DEF SoundHandler
      <4>3. \A k \in Handlers : handler'[k].phase = "sending" => handler'[k] = handler[k]
        BY <2>5
      <4> QED BY <4>1, <4>2, <4>3, <2>2 DEF SoundHandler, Holds, Over
    <3> QED BY <3>1, <3>2
  <2>9. AnsweredOnce'
    <3> SUFFICES ASSUME NEW u \in Turns
                 PROVE  /\ pairs'[u] = IF turns'[u] = Null THEN 0 ELSE 1
                        /\ heard'[u] <= pairs'[u]
      BY DEF AnsweredOnce
    <3>1. CASE u = t
      BY <3>1, <2>1, <2>2, <2>3 DEF IndInv, AnsweredOnce
    <3>2. CASE u # t
      BY <3>2, <2>2, <2>3 DEF IndInv, AnsweredOnce
    <3> QED BY <3>1, <3>2
  <2>10. FinalStep
    BY <2>2 DEF FinalStep
  <2>11. LeaseStep
    BY <2>2, LockHolds, FailedIs DEF LeaseStep
  <2> QED BY <2>6, <2>7, <2>8, <2>9, <2>10, <2>11 DEF Sound, IndInv
<1> QED BY <1>2, <1>3

\* interrupt and playback_completed.
LEMMA QuietenStep ==
  ASSUME IndInv, NEW h \in Handlers, NEW t \in Turns, Quieten(h, t)
  PROVE  Sound
<1>1. CASE LeavesLoop(h, "dropping")
  BY <1>1, LeavesStep
<1>2. CASE Disowned(h)
  BY <1>2, DisownedStep
<1>3. CASE TimesOut(h)
  BY <1>3, TimesOutStep
<1>4. CASE /\ InCharge(h)
           /\ session' = [session EXCEPT !.state = "LISTENING", !.quiet = FALSE]
           /\ handler' = [handler EXCEPT ![h].speaking = Null]
           /\ UNCHANGED <<lock, Conversation, revoked>>
  <2>1. /\ turns' = turns /\ pairs' = pairs /\ version' = version
        /\ heard' = heard /\ revoked' = revoked /\ lock' = lock
        /\ lock = Null /\ session.conn = h /\ ~Over
        /\ handler[h].phase = "live"
    BY <1>4 DEF Conversation, InCharge, Free, Holds, Quieten
  <2>2. /\ session' \in Session /\ session'.state = "LISTENING"
        /\ session'.conn = h /\ session'.reconnects = session.reconnects
    BY <1>4, <2>1, Parts DEF Session, States
  <2>3. handler' \in [Handlers -> Handler]
    BY <1>4 DEF IndInv, TypeOK, Handler
  <2>4. /\ handler'[h].phase = "live" /\ handler'[h].speaking = Null
        /\ \A g \in Handlers \ {h} : handler'[g] = handler[g]
    BY <1>4, <2>1, Parts DEF Handler
  <2>5. TypeOK'
    BY <2>1, <2>2, <2>3 DEF IndInv, TypeOK
  <2>6. RowSound'
    BY <2>1, <2>2, <2>4, FailedIs DEF RowSound
  <2>7. HandlersSound'
    <3> SUFFICES ASSUME NEW g \in Handlers PROVE SoundHandler(g)'
      BY DEF HandlersSound
    <3>1. SoundHandler(g)
      BY DEF IndInv, HandlersSound
    <3>2. CASE g = h
      BY <2>2, <2>4, <3>2 DEF SoundHandler
    <3>3. CASE g # h
      <4>1. handler'[g] = handler[g] /\ handler[g].phase # "finalizing"
        BY <2>1, <2>4, <3>1, <3>3, NullAssumption DEF SoundHandler
      <4>2. \A k \in Handlers : handler'[k].phase = "sending" => handler'[k] = handler[k]
        BY <2>4
      <4> QED BY <3>1, <3>3, <4>1, <4>2, <2>1, <2>2 DEF SoundHandler, Holds, Over
    <3> QED BY <3>2, <3>3
  <2>8. AnsweredOnce'
    BY <2>1 DEF IndInv, AnsweredOnce
  <2>9. FinalStep
    BY <2>1 DEF FinalStep, Over
  <2>10. LeaseStep
    BY <2>1, <2>2, FailedIs DEF LeaseStep
  <2> QED BY <2>5, <2>6, <2>7, <2>8, <2>9, <2>10 DEF Sound, IndInv
<1> QED BY <1>1, <1>2, <1>3, <1>4 DEF Quieten

\* disconnect and fail_connection.
LEMMA LeaveStep ==
  ASSUME IndInv, NEW h \in Handlers, Leave(h)
  PROVE  Sound
<1>1. /\ handler[h].phase \in {"dropping", "failing", "ending"} /\ Free
      /\ Goes(h, "done") /\ UNCHANGED <<lock, Conversation, revoked>>
      /\ session \in Session
  BY Parts DEF Leave, Target
<1>2. CASE ~Holds(h)
  <2>1. LeavesLoop(h, "done")
    BY <1>1, <1>2 DEF Leave, LeavesLoop, Free
  <2> QED BY <2>1, LeavesStep
<1>3. CASE Holds(h)
  <2>1. session' = [session EXCEPT !.conn = Null, !.quiet = FALSE,
                      !.state = IF Over THEN @ ELSE Target[handler[h].phase]]
    BY <1>3 DEF Leave
  <2>2. Target[handler[h].phase] \in States
    BY <1>1 DEF Target, States
  <2>3. session' \in Session
    BY <1>1, <2>1, <2>2 DEF Session
  <2>4. /\ session'.conn = Null /\ session'.reconnects = session.reconnects
        /\ Over => session'.state = session.state
    BY <1>1, <2>1 DEF Session
  <2> QED BY <1>1, <2>3, <2>4, FailedIs, RowCloses
<1> QED BY <1>2, <1>3

\* Every step keeps the invariant, what has ended and the lease.
LEMMA NextSound ==
  ASSUME IndInv, [Next]_vars
  PROVE  Sound
<1>1. CASE Start \/ RefreshCredential \/ EndOwned
  BY <1>1, HttpStep
<1>2. CASE CredentialExpires \/ GrowQuiet \/ Overrun \/ Revoke \/ Type
  BY <1>2, EnvironmentStep
<1>3. ASSUME NEW h \in Handlers, Works(h) PROVE Sound
  <2>1. CASE \E c \in 1 .. MaxCredentials : Open(h, c)
    BY <2>1, OpenStep
  <2>2. CASE \E t \in Turns, x \in Texts : Finalize(h, t, x)
    BY <2>2, FinalizeStep
  <2>3. CASE Reply(h)
    BY <2>3, ReplyStep
  <2>4. CASE Send(h)
    BY <2>4, SendStep
  <2>5. CASE \E t \in Turns : Quieten(h, t)
    BY <2>5, QuietenStep
  <2>6. CASE AskToEnd(h) \/ LoseTouch(h) \/ ProviderFails(h) \/ Crash(h)
    BY <2>6, LeavesStep DEF AskToEnd, LoseTouch, ProviderFails, Crash
  <2>7. CASE Leave(h)
    BY <2>7, LeaveStep
  <2> QED BY <1>3, <2>1, <2>2, <2>3, <2>4, <2>5, <2>6, <2>7 DEF Works
<1>4. CASE UNCHANGED vars
  <2>1. session \in Session /\ version \in Nat /\ revoked \in BOOLEAN
    BY DEF IndInv, TypeOK
  <2> QED BY <1>4, <2>1, FlagsOnly DEF vars
<1> QED BY <1>1, <1>2, <1>3, <1>4 DEF Next

-----------------------------------------------------------------------------
\* Theorems.

\* The invariant holds in every reachable state.
THEOREM Inductive == Spec => []IndInv
<1>1. IndInv /\ [Next]_vars => IndInv'
  BY NextSound DEF Sound
<1> QED BY InitInv, <1>1, PTL DEF Spec

\* voice_sessions, voice_turns and the connections keep their shape.
THEOREM TypeCorrect == Spec => []TypeOK
<1>1. IndInv => TypeOK
  BY DEF IndInv
<1> QED BY Inductive, <1>1, PTL

\* finalize_turn stores one pair per turn, and its reply is sent once at most.
THEOREM TurnsAnsweredOnce == Spec => []AnsweredOnce
<1>1. IndInv => AnsweredOnce
  BY DEF IndInv
<1> QED BY Inductive, <1>1, PTL

\* The coordinator that holds the lease and the row agree on who is speaking.
THEOREM SpeakingStaysAgreed == Spec => []SpeakingAgrees
<1>1. IndInv => SpeakingAgrees
  BY DEF IndInv, HandlersSound, SoundHandler, SpeakingAgrees
<1> QED BY Inductive, <1>1, PTL

\* No handler changes a session that is over, takes its lease or answers a turn.
THEOREM EndedStaysEnded == Spec => TerminalIsFinal
<1>1. IndInv /\ [Next]_vars => FinalStep
  BY NextSound DEF Sound
<1> QED BY Inductive, <1>1, PTL DEF Spec, TerminalIsFinal, FinalStep

\* The lease changes hands only when its holder is quiet and works on no turn.
THEOREM LeasePassesOnlyQuiet == Spec => LeasePasses
<1>1. IndInv /\ [Next]_vars => LeaseStep
  BY NextSound DEF Sound
<1> QED BY Inductive, <1>1, PTL DEF Spec, LeasePasses, LeaseStep
=============================================================================
