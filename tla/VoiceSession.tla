---------------------------- MODULE VoiceSession ----------------------------
(***************************************************************************)
(* One realtime voice session of backend/app/voice: the row that           *)
(* VoiceSessionService keeps, the handlers of its WebSocket connections    *)
(* (stream_voice_session with a VoiceProtocolCoordinator each), the turns  *)
(* they turn into message pairs, and the HTTP calls beside them.           *)
(*                                                                         *)
(* The row's connection_id is a lease: a handler acts only while the row   *)
(* names it.  A handler works on one event at a time, in one transaction   *)
(* that ends before the answer is sent.  Every operation locks the row     *)
(* (FOR UPDATE); only a turn keeps it locked for long, while the assistant *)
(* replies.  The deadlines are flags the environment raises.               *)
(***************************************************************************)
EXTENDS Naturals, FiniteSets

CONSTANTS
  Handlers,       \* WebSocket connections, each opened once
  Turns,          \* logical turn identifiers, chosen by the client
  Texts,          \* final transcripts
  MaxReconnects,  \* max_reconnect_attempts
  MaxCredentials, \* bound: credentials handed out
  MaxTyped,       \* bound: messages typed in the same conversation
  Null            \* no value

ASSUME BoundsAssumption ==
  MaxReconnects \in Nat /\ MaxCredentials \in Nat /\ MaxTyped \in Nat
ASSUME NullAssumption == Null \notin Handlers \cup Turns \cup Texts

VARIABLES
  session,  \* the row of voice_sessions
  lock,     \* the handler whose transaction has the row locked
  turns,    \* voice_turns: the transcript of each COMPLETED turn
  pairs,    \* the message pairs stored under each turn's idempotency key
  version,  \* the version of the conversation
  handler,  \* the connections
  heard,    \* history: how often the reply of a turn was sent as audio
  revoked   \* are the device and the login still good?

vars == <<session, lock, turns, pairs, version, handler, heard, revoked>>

-----------------------------------------------------------------------------
States == {"CONNECTING", "LISTENING", "PROCESSING", "SPEAKING",
           "INTERRUPTING", "RECONNECTING", "ENDED", "FAILED"}
Terminal == {"ENDED", "FAILED"}

\* _TRANSITIONS, IDLE left out: no session is ever in it.
Successors(s) ==
  CASE s = "CONNECTING"   -> {"LISTENING"} \cup Terminal
    [] s = "LISTENING"    -> {"PROCESSING", "RECONNECTING"} \cup Terminal
    [] s = "PROCESSING"   -> {"SPEAKING", "LISTENING", "RECONNECTING"} \cup Terminal
    [] s = "SPEAKING"     -> {"INTERRUPTING", "LISTENING", "RECONNECTING"} \cup Terminal
    [] s = "INTERRUPTING" -> {"LISTENING", "PROCESSING", "RECONNECTING"} \cup Terminal
    [] s = "RECONNECTING" -> {"CONNECTING", "LISTENING"} \cup Terminal
    [] OTHER              -> {}

CanMove(s, t) == s = t \/ t \in Successors(s)

\* joined: connected_at is set; quiet: idle_timeout_seconds have passed since
\* last_activity_at; overdue: max_session_seconds have passed since the start;
\* fresh: the credential has not expired.
Session == [state : States \cup {"NONE"}, conn : Handlers \cup {Null},
            credential : Nat, fresh : BOOLEAN, joined : BOOLEAN,
            reconnects : Nat, quiet : BOOLEAN, overdue : BOOLEAN]

NoSession == [state |-> "NONE", conn |-> Null, credential |-> 0,
              fresh |-> FALSE, joined |-> FALSE, reconnects |-> 0,
              quiet |-> FALSE, overdue |-> FALSE]

\* speaking: _assistant_turn_id of the coordinator.  The phases after "live"
\* are an event under way and the ways out of the loop.
Phases == {"new", "live", "finalizing", "sending", "dropping", "failing",
           "ending", "done"}

Handler == [phase : Phases, speaking : Turns \cup {Null},
            turn : Turns \cup {Null}, text : Texts \cup {Null}, seen : Nat]

NewHandler == [phase |-> "new", speaking |-> Null, turn |-> Null,
               text |-> Null, seen |-> 0]

Goes(h, phase) == handler' = [handler EXCEPT ![h].phase = phase]

Conversation == <<turns, pairs, version, heard>>

\* The handler leaves its loop; the transaction it was in is rolled back.
LeavesLoop(h, phase) ==
  /\ Goes(h, phase)
  /\ lock' = IF lock = h THEN Null ELSE lock
  /\ UNCHANGED <<session, Conversation, revoked>>

Free == lock = Null

\* Bug variant: only an orderly end is final.
Over_Ended == session.state = "ENDED"

Over == session.state \in Terminal

\* _require_connection: the row still names this handler.
Holds(h) == session.conn = h

-----------------------------------------------------------------------------
Init ==
  /\ session = NoSession
  /\ lock = Null
  /\ turns = [t \in Turns |-> Null]
  /\ pairs = [t \in Turns |-> 0]
  /\ version = 1
  /\ handler = [h \in Handlers |-> NewHandler]
  /\ heard = [t \in Turns |-> 0]
  /\ revoked = FALSE

-----------------------------------------------------------------------------
(* Time, the user's other doings, faults.                                  *)

CredentialExpires ==
  /\ session.fresh
  /\ session' = [session EXCEPT !.fresh = FALSE]
  /\ UNCHANGED <<lock, Conversation, handler, revoked>>

\* Audio frames do not count as activity: a connection in use can grow quiet.
GrowQuiet ==
  /\ session.conn # Null /\ ~session.quiet
  /\ session' = [session EXCEPT !.quiet = TRUE]
  /\ UNCHANGED <<lock, Conversation, handler, revoked>>

Overrun ==
  /\ session.state # "NONE" /\ ~session.overdue
  /\ session' = [session EXCEPT !.overdue = TRUE]
  /\ UNCHANGED <<lock, Conversation, handler, revoked>>

Revoke ==
  /\ ~revoked /\ revoked' = TRUE
  /\ UNCHANGED <<session, lock, Conversation, handler>>

\* A message typed in the conversation the session belongs to.
Type ==
  /\ version <= MaxTyped
  /\ version' = version + 1
  /\ UNCHANGED <<session, lock, turns, pairs, heard, handler, revoked>>

\* The server process dies: its transaction is rolled back, the lease stays.
Crash(h) ==
  /\ handler[h].phase \notin {"new", "done"}
  /\ LeavesLoop(h, "done")

-----------------------------------------------------------------------------
(* HTTP.                                                                   *)

Start ==
  /\ session.state = "NONE" /\ ~revoked
  /\ session' = [NoSession EXCEPT !.state = "CONNECTING", !.credential = 1,
                                  !.fresh = TRUE]
  /\ UNCHANGED <<lock, Conversation, handler, revoked>>

\* Each credential replaces the one before.  Past the maximum duration the
\* FAILED that is set is rolled back with the refusal.
RefreshCredential ==
  /\ Free /\ session.state # "NONE" /\ ~Over /\ ~session.overdue /\ ~revoked
  /\ session.credential < MaxCredentials
  /\ session' = [session EXCEPT !.credential = @ + 1, !.fresh = TRUE]
  /\ UNCHANGED <<lock, Conversation, handler, revoked>>

EndOwned ==
  /\ Free /\ session.state # "NONE" /\ ~Over
  /\ session' = [session EXCEPT !.state = "ENDED", !.conn = Null]
  /\ UNCHANGED <<lock, Conversation, handler, revoked>>

-----------------------------------------------------------------------------
(* open_connection.                                                        *)

\* Bug variant: whoever has the credential has the session.
LeaseTaken_Never == FALSE

\* A lease may be taken from a handler that has been quiet.
LeaseTaken == session.conn # Null /\ ~session.quiet

Exhausted == session.joined /\ session.reconnects >= MaxReconnects

Listening(h) ==
  [session EXCEPT !.state = "LISTENING", !.conn = h, !.joined = TRUE,
                  !.quiet = FALSE,
                  !.reconnects = IF session.joined THEN @ + 1 ELSE @]

Failed(s) == [s EXCEPT !.state = "FAILED"]

\* A refusal, and a provider that cannot be reached, write nothing and are no
\* step; past the maximum duration, or with no reconnection left, FAILED is
\* committed.
Open(h, credential) ==
  /\ handler[h].phase = "new"
  /\ Free /\ session.state # "NONE"
  /\ session.credential = credential /\ session.fresh /\ ~revoked /\ ~Over
  /\ \/ /\ session.overdue
        /\ session' = Failed(session)
        /\ Goes(h, "done")
     \/ /\ ~session.overdue /\ ~LeaseTaken /\ Exhausted
        /\ session' = Failed([session EXCEPT !.conn = Null])
        /\ Goes(h, "done")
     \/ /\ ~session.overdue /\ ~LeaseTaken /\ ~Exhausted
        /\ session' = Listening(h)
        /\ Goes(h, "live")
  /\ UNCHANGED <<lock, Conversation, revoked>>

-----------------------------------------------------------------------------
(* Events on a connection.                                                 *)

\* _require_connection finds no row: an error, the handler gives up.
Disowned(h) == Free /\ ~Holds(h) /\ LeavesLoop(h, "failing")

\* _require_not_terminal_or_timed_out: a session over its time ends here; what
\* the handler does after that is committed, and the row keeps naming it.
TimesOut(h) ==
  /\ Free /\ Holds(h)
  /\ Over \/ session.overdue
  /\ session' = IF Over THEN session ELSE Failed(session)
  /\ Goes(h, "done")
  /\ UNCHANGED <<lock, Conversation, revoked>>

InCharge(h) == Free /\ Holds(h) /\ ~Over /\ ~session.overdue

\* Bug variant: the reply is spoken again.
Replay_Aloud(h, t) ==
  /\ session' = [session EXCEPT !.quiet = FALSE]
  /\ handler' = [handler EXCEPT ![h].phase = "sending", ![h].turn = t]
  /\ UNCHANGED <<lock, Conversation, revoked>>

\* A turn already answered: submit finds the pair under the turn's key, and the
\* reply goes out as text only.
Replay(h, t) ==
  /\ session' = [session EXCEPT !.quiet = FALSE]
  /\ UNCHANGED <<lock, Conversation, handler, revoked>>

\* The transcript of a turn is final: finalize_turn up to the reply.
Finalize(h, t, x) ==
  /\ handler[h].phase = "live"
  /\ \/ Disowned(h)
     \/ TimesOut(h)
     \/ /\ InCharge(h)
        /\ \/ /\ \/ revoked
                 \/ turns[t] \notin {Null, x}
                 \/ turns[t] = Null /\ ~CanMove(session.state, "PROCESSING")
              /\ LeavesLoop(h, "failing")
           \/ /\ ~revoked /\ turns[t] = Null
              /\ CanMove(session.state, "PROCESSING")
              /\ lock' = h
              /\ handler' = [handler EXCEPT
                   ![h].phase = "finalizing", ![h].turn = t, ![h].text = x,
                   ![h].seen = version]
              /\ UNCHANGED <<session, Conversation, revoked>>
           \/ ~revoked /\ turns[t] = x /\ Replay(h, t)

\* submit: the version the turn has read is still the conversation's.
SubmitStands(h) == handler[h].seen = version

\* The reply is there, and submit stores the pair.  When a typed message came
\* first, the assistant refused or the provider failed, the turn and all it
\* stored are rolled back.
Reply(h) ==
  LET t == handler[h].turn
  IN  /\ handler[h].phase = "finalizing"
      /\ \/ LeavesLoop(h, "failing")
         \/ SubmitStands(h) /\ LeavesLoop(h, "dropping")
         \/ /\ SubmitStands(h)
            /\ lock' = Null
            /\ turns' = [turns EXCEPT ![t] = handler[h].text]
            /\ pairs' = [pairs EXCEPT ![t] = @ + 1]
            /\ version' = version + 1
            /\ \/ /\ ~session.overdue
                  /\ session' = [session EXCEPT !.state = "SPEAKING",
                                                !.quiet = FALSE]
                  /\ handler' = [handler EXCEPT ![h].phase = "sending",
                                                ![h].speaking = t]
               \/ /\ session.overdue
                  /\ session' = Failed(session)
                  /\ Goes(h, "done")
            /\ UNCHANGED <<heard, revoked>>

\* The events of the answer are sent once the transaction is committed.
Send(h) ==
  LET t == handler[h].turn
  IN  /\ handler[h].phase = "sending"
      /\ \/ /\ heard' = [heard EXCEPT ![t] = @ + 1]
            /\ handler' = [handler EXCEPT ![h].phase = "live", ![h].turn = Null,
                                          ![h].text = Null, ![h].seen = 0]
            /\ UNCHANGED <<session, lock, turns, pairs, version, revoked>>
         \/ LeavesLoop(h, "dropping")

\* Bug variant: the coordinator forgets to clear its turn.
Quieten_Forgets(h, t) ==
  /\ handler[h].phase = "live"
  /\ handler[h].speaking = t
  /\ InCharge(h)
  /\ session.state \in {"SPEAKING", "LISTENING"}
  /\ session' = [session EXCEPT !.state = "LISTENING", !.quiet = FALSE]
  /\ UNCHANGED <<lock, Conversation, handler, revoked>>

\* interrupt and playback_completed: back to LISTENING, whether the assistant
\* was stopped or had finished.
Quieten(h, t) ==
  /\ handler[h].phase = "live"
  /\ \/ handler[h].speaking # t /\ LeavesLoop(h, "dropping")
     \/ /\ handler[h].speaking = t
        /\ \/ Disowned(h)
           \/ TimesOut(h)
           \/ /\ InCharge(h)
              /\ session.state \in {"SPEAKING", "LISTENING"}
              /\ session' = [session EXCEPT !.state = "LISTENING",
                                            !.quiet = FALSE]
              /\ handler' = [handler EXCEPT ![h].speaking = Null]
              /\ UNCHANGED <<lock, Conversation, revoked>>

\* The client asks to end, or sends nothing for idle_timeout_seconds.
AskToEnd(h) == handler[h].phase = "live" /\ LeavesLoop(h, "ending")

\* The socket closes, or a frame is out of order, malformed or refused by the
\* provider.
LoseTouch(h) == handler[h].phase = "live" /\ LeavesLoop(h, "dropping")

\* provider.interrupt fails.
ProviderFails(h) ==
  /\ handler[h].phase = "live" /\ handler[h].speaking # Null
  /\ LeavesLoop(h, "failing")

Target == [dropping |-> "RECONNECTING", failing |-> "FAILED", ending |-> "ENDED"]

\* disconnect and fail_connection, in a transaction of their own: they do
\* nothing once the row names another handler or none.
Leave(h) ==
  /\ handler[h].phase \in DOMAIN Target
  /\ Free
  /\ session' = IF ~Holds(h) THEN session
                ELSE [session EXCEPT !.conn = Null, !.quiet = FALSE,
                        !.state = IF Over THEN @ ELSE Target[handler[h].phase]]
  /\ Goes(h, "done")
  /\ UNCHANGED <<lock, Conversation, revoked>>

-----------------------------------------------------------------------------
Works(h) ==
  \/ \E c \in 1..MaxCredentials : Open(h, c)
  \/ \E t \in Turns, x \in Texts : Finalize(h, t, x)
  \/ Reply(h)
  \/ Send(h)
  \/ \E t \in Turns : Quieten(h, t)
  \/ AskToEnd(h)
  \/ LoseTouch(h)
  \/ ProviderFails(h)
  \/ Leave(h)
  \/ Crash(h)

Next ==
  \/ Start \/ RefreshCredential \/ EndOwned
  \/ CredentialExpires \/ GrowQuiet \/ Overrun \/ Revoke \/ Type
  \/ \E h \in Handlers : Works(h)

Spec == Init /\ [][Next]_vars

-----------------------------------------------------------------------------
\* The shape of voice_sessions and voice_turns, and of the connections.
TypeOK ==
  /\ session \in Session
  /\ lock \in Handlers \cup {Null}
  /\ turns \in [Turns -> Texts \cup {Null}]
  /\ pairs \in [Turns -> Nat]
  /\ version \in Nat
  /\ handler \in [Handlers -> Handler]
  /\ heard \in [Turns -> Nat]
  /\ revoked \in BOOLEAN

\* A turn is answered once: it has one message pair when it is COMPLETED and
\* none before, and its reply is spoken once at most and only when it is
\* stored, across reconnections, resent audio, rollbacks and crashes.
AnsweredOnce ==
  \A t \in Turns :
    /\ pairs[t] = IF turns[t] = Null THEN 0 ELSE 1
    /\ heard[t] <= pairs[t]

\* The coordinator that holds the lease and the row agree on whether the
\* assistant is speaking: otherwise the client's next interrupt or end of
\* playback would be taken for a cross-turn event and cost the connection.
SpeakingAgrees ==
  \A h \in Handlers :
    Holds(h) /\ handler[h].phase = "live" /\ ~Over =>
      ((session.state = "SPEAKING") <=> (handler[h].speaking # Null))

\* What ended stays ended: no state, lease taken or turn answered comes after
\* ENDED or FAILED, whoever is still connected.
TerminalIsFinal ==
  [][session.state \in Terminal =>
       /\ session'.state = session.state
       /\ session'.conn \in {session.conn, Null}
       /\ turns' = turns /\ pairs' = pairs]_vars

\* The lease passes from one handler to another only when the first has gone
\* quiet, and not while it has the row for a turn: then nobody ends or reopens
\* the session either.  Reconnections stay within their bound, the ones that
\* take over a lease included.
LeasePasses ==
  [][/\ session'.reconnects <= MaxReconnects
     /\ (session.conn # Null /\ session'.conn \notin {session.conn, Null})
          => session.quiet
     /\ lock # Null /\ lock' = lock =>
          /\ session.conn = lock /\ session.state = "LISTENING"
          /\ session'.conn = lock /\ session'.state = session.state]_vars

-----------------------------------------------------------------------------
(* The inductive invariant.                                                *)

\* The row is locked only for a turn; a row that names a handler has been
\* opened by it; reconnections stay within their bound.
RowSound ==
  /\ lock # Null => handler[lock].phase = "finalizing"
  /\ session.conn # Null =>
       /\ session.state \in {"LISTENING", "SPEAKING"} \cup Terminal
       /\ handler[session.conn].phase # "new"
  /\ session.reconnects <= MaxReconnects

\* A handler that works on a turn has the row locked and the lease, and the
\* turn is open; one that sends a reply is the only one to send that one, which
\* is stored and has not been heard.
SoundHandler(h) ==
  LET w == handler[h]
  IN  /\ w.phase = "new" => w.speaking = Null
      /\ w.phase = "live" /\ Holds(h) /\ ~Over =>
           (session.state = "SPEAKING" <=> w.speaking # Null)
      /\ w.phase = "finalizing" =>
           /\ lock = h /\ Holds(h) /\ session.state = "LISTENING"
           /\ w.turn \in Turns /\ w.text \in Texts /\ turns[w.turn] = Null
      /\ w.phase = "sending" =>
           /\ w.turn \in Turns /\ w.speaking = w.turn
           /\ turns[w.turn] # Null /\ heard[w.turn] = 0
           /\ Holds(h) /\ ~Over => session.state = "SPEAKING"
           /\ \A g \in Handlers \ {h} :
                handler[g].phase = "sending" => handler[g].turn # w.turn

HandlersSound == \A h \in Handlers : SoundHandler(h)

IndInv == TypeOK /\ RowSound /\ HandlersSound /\ AnsweredOnce
=============================================================================
