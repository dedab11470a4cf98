-------------------------- MODULE AuthorityProofs ---------------------------
(***************************************************************************)
(* Proofs about Authority, for every set of calls, grants, proposals and   *)
(* confirmations and every bound.  IndInv is inductive: rows are never     *)
(* removed and keep their grant, permission and proposal, so what a call   *)
(* has read of them is still true at its commit, whatever ran in between.  *)
(* What a call reads of a status may be stale by then; the theorems say    *)
(* what holds all the same.                                                *)
(***************************************************************************)
EXTENDS Authority, WellFoundedInduction, TLAPS

\* What RevocationHolds says of one step.
RevokedStep ==
  \A r \in Requests :
    session[r].op = "idle" => session'[r].op \notin {"authorize", "decided"}
                              \/ session'[r].perm \notin told.revoked

\* No step removes a row or changes what calls rely on in it.
Keeps ==
  /\ \A p \in Granted : perm'[p].status # "NONE" /\ perm'[p].grant = perm[p].grant
  /\ \A c \in Asked : /\ conf'[c].status # "NONE" /\ conf'[c].perm = conf[c].perm
                      /\ conf'[c].proposal = conf[c].proposal
  /\ told.approved \subseteq told'.approved

\* What is newly allowed rests on consent.
AllowsMore ==
  \A a \in told'.allowed \ told.allowed : a.perm \in Granted /\ RestsOnConsent(a)

ToldType == [allowed : SUBSET [perm : Perms, proposal : Proposals,
                               conf : Confs \cup {Null}],
             uses : [Confs -> Nat], approved : SUBSET Confs,
             rejected : SUBSET Confs, revoked : SUBSET Perms]

-----------------------------------------------------------------------------
\* The operators of the model.

\* A set of numbers that is not empty has a least one.
LEMMA Least ==
  ASSUME NEW S \in SUBSET Nat, S # {}
  PROVE  \E n \in S : \A m \in S : n <= m
<1> DEFINE R == OpToRel(<, Nat)
<1>1. IsWellFoundedOn(R, Nat)
  BY NatLessThanWellFounded
<1>2. \A m, n \in Nat : m < n => <<m, n>> \in R
  BY DEF OpToRel
<1> HIDE DEF R
<1>3. PICK x \in S : \A y \in S : ~ (<<y, x>> \in R)
  BY <1>1, WFMin
<1>4. \A m \in S : ~ (m < x)
  BY <1>2, <1>3
<1> QED BY <1>4

\* ORDER BY granted_at DESC, id has a first row: the CHOOSE of Newest is one of
\* the rows it is given.
LEMMA NewestIn ==
  ASSUME IndInv, NEW ps \in SUBSET Perms, ps # {}
  PROVE  Newest(ps) \in ps
<1>1. \A p \in Perms : perm[p].granted \in Nat /\ perm[p].granted <= MaxTime
  BY DEF PermsSound, IndInv, TypeOK, PermRow, SoundPerm
<1> DEFINE Age(p) == MaxTime - perm[p].granted
<1>2. \A p \in Perms : Age(p) \in Nat
  BY <1>1, BoundsAssumption
<1>3. \E n \in {Age(p) : p \in ps} : \A m \in {Age(p) : p \in ps} : n <= m
  <2> HIDE DEF Age
  <2>1. PICK S : S = {Age(p) : p \in ps}
    OBVIOUS
  <2>2. S \in SUBSET Nat /\ S # {}
    BY <1>2, <2>1
  <2> QED BY <2>1, <2>2, Least
<1>4. PICK o \in ps : \A p \in ps : Age(o) <= Age(p)
  <2> HIDE DEF Age
  <2> QED BY <1>3
<1>5. \E n \in {p \in ps : Age(p) = Age(o)} :
        \A m \in {p \in ps : Age(p) = Age(o)} : n <= m
  <2> HIDE DEF Age
  <2>0. \A p \in ps : p \in Nat
    BY BoundsAssumption DEF Perms
  <2>1. {p \in ps : Age(p) = Age(o)} \in SUBSET Nat
    BY <2>0
  <2>2. {p \in ps : Age(p) = Age(o)} # {}
    OBVIOUS
  <2> QED BY <2>1, <2>2, Least
<1>6. PICK p \in ps : Age(p) = Age(o) /\ \A q \in ps : Age(q) = Age(o) => p <= q
  BY <1>5
<1>7. \A q \in ps \ {p} : Before(p, q)
  <2> SUFFICES ASSUME NEW q \in ps \ {p} PROVE Before(p, q)
    OBVIOUS
  <2>1. /\ perm[p].granted \in Nat /\ perm[q].granted \in Nat /\ MaxTime \in Nat
        /\ p \in Nat /\ q \in Nat /\ p # q
    BY <1>1, BoundsAssumption DEF Perms
  <2>2. Age(p) <= Age(q) /\ (Age(q) = Age(p) => p <= q)
    BY <1>4, <1>6
  <2> QED BY <2>1, <2>2 DEF Before
<1> QED BY <1>7 DEF Newest

\* RiskEngine.evaluate: what is destructive is of high risk.
LEMMA DestructiveIsHigh ==
  ASSUME NEW c \in Capabilities, c.destructive
  PROVE  RiskLevel(c) >= 4
<1>1. AtLeast(2, c.privacy, c.risk) \in Nat
  BY CapabilityAssumption DEF AtLeast
<1>2. AtLeast(3, c.external, AtLeast(2, c.privacy, c.risk)) \in Nat
  BY <1>1 DEF AtLeast
<1> QED BY <1>2 DEF RiskLevel, AtLeast

\* What the invariant says of the parts of the state.
LEMMA Parts ==
  ASSUME IndInv
  PROVE  /\ \A p \in Perms : perm[p] \in PermRow /\ SoundPerm(p)
         /\ \A c \in Confs : conf[c] \in ConfRow /\ SoundConf(c)
         /\ \A r \in Requests : session[r] \in Session /\ SoundCall(session[r])
         /\ told \in ToldType
         /\ Granted \subseteq Perms /\ Asked \subseteq Confs
         /\ DOMAIN perm = Perms /\ DOMAIN conf = Confs /\ DOMAIN session = Requests
BY DEF PermsSound, ConfsSound, CallsSound, AllowedSound, IndInv, TypeOK, Granted, Asked, ToldType

\* A request without a call is well-formed and vouches for nothing.
LEMMA IdleSound ==
  ASSUME IndInv
  PROVE  Idle \in Session /\ SoundCall(Idle)
BY BoundsAssumption DEF Idle, Session, SoundCall, Operations, Decisions

-----------------------------------------------------------------------------
\* What a call holds, and what it was told, stay true.

\* An allow that rested on consent still does: the write that made the grant
\* stays.
LEMMA ConsentKept ==
  ASSUME IndInv, Keeps, NEW a, a.perm \in Granted, RestsOnConsent(a)
  PROVE  RestsOnConsent(a)'
<1>1. perm'[a.perm].grant = perm[a.perm].grant
  BY DEF Keeps
<1>2. \A c \in told.approved : /\ c \in told'.approved /\ conf'[c].perm = conf[c].perm
                               /\ conf'[c].proposal = conf[c].proposal
  <2>1. \A c \in told.approved : c \in Asked
    BY Parts DEF SoundConf, Asked, ToldType
  <2> QED BY <2>1 DEF Keeps
<1>3. Approved(a) => Approved(a)'
  BY <1>2 DEF Approved
<1> QED BY <1>1, <1>2, <1>3 DEF RestsOnConsent

\* What a call read and still relies on survives a step of another call.
LEMMA CallKept ==
  ASSUME IndInv, Keeps, Granted \subseteq Granted', Asked \subseteq Asked',
         NEW s \in Session, SoundCall(s)
  PROVE  SoundCall(s)'
<1>1. Covered(s) => Covered(s)'
  BY DEF Covered, Keeps
<1>2. Covered(s) /\ RestsOnConsent(s) => RestsOnConsent(s)'
  BY ConsentKept DEF Covered
<1>3. s.op = "approve" => conf'[s.conf].perm = s.perm
  BY DEF SoundCall, Keeps
<1> HIDE DEF Covered, RestsOnConsent
<1> QED BY <1>1, <1>2, <1>3 DEF SoundCall

\* No row of permissions or confirmations is taken away.
LEMMA RowsStay ==
  ASSUME IndInv, Keeps
  PROVE  Granted \subseteq Granted' /\ Asked \subseteq Asked'
BY DEF Keeps, Granted, Asked

\* A step that only begins a call, or ends one without a write.
LEMMA HoldStep ==
  ASSUME IndInv, NEW r \in Requests, NEW s \in Session, SoundCall(s),
         Hold(r, s), UNCHANGED <<perm, conf, enabled, lost, now, told>>
  PROVE  IndInv'
<1>1. /\ session' \in [Requests -> Session]
      /\ \A q \in Requests : session'[q] = IF q = r THEN s ELSE session[q]
  BY DEF Hold, IndInv, TypeOK
<1>2. TypeOK'
  BY <1>1 DEF IndInv, TypeOK
<1>3. Keeps /\ Granted' = Granted /\ Asked' = Asked
  BY DEF Keeps, Granted, Asked
<1>4. CallsSound'
  <2> SUFFICES ASSUME NEW q \in Requests PROVE SoundCall(session[q])'
    BY DEF CallsSound
  <2>1. PICK t \in Session : t = session'[q] /\ SoundCall(t)
    BY <1>1, Parts
  <2>2. SoundCall(t)'
    BY <2>1, <1>3, CallKept
  <2> QED BY <2>1, <2>2
<1>5. PermsSound'
  BY <1>3 DEF IndInv, PermsSound, SoundPerm
<1>6. ConfsSound'
  BY <1>3 DEF IndInv, ConfsSound, SoundConf
<1>7. AllowedSound'
  BY <1>3 DEF AllowedSound, IndInv, RestsOnConsent, Approved
<1> QED BY <1>2, <1>4, <1>5, <1>6, <1>7 DEF IndInv

\* A commit that keeps what others rely on.
LEMMA CommitStep ==
  ASSUME IndInv, NEW r \in Requests, Hold(r, Idle), Keeps,
         perm' \in [Perms -> PermRow], conf' \in [Confs -> ConfRow],
         told' \in ToldType, UNCHANGED <<enabled, lost, now>>,
         PermsSound', ConfsSound',
         AllowsMore
  PROVE  IndInv'
<1>1. /\ session' \in [Requests -> Session]
      /\ \A q \in Requests : session'[q] = IF q = r THEN Idle ELSE session[q]
  BY IdleSound DEF Hold, IndInv, TypeOK
<1>2. TypeOK'
  BY <1>1 DEF IndInv, TypeOK, ToldType
<1>3. Granted \subseteq Granted' /\ Asked \subseteq Asked'
  BY RowsStay
<1>4. CallsSound'
  <2> SUFFICES ASSUME NEW q \in Requests PROVE SoundCall(session[q])'
    BY DEF CallsSound
  <2>1. PICK t \in Session : t = session'[q] /\ SoundCall(t)
    BY <1>1, Parts, IdleSound
  <2>2. SoundCall(t)'
    BY <2>1, <1>3, CallKept
  <2> QED BY <2>1, <2>2
<1>5. AllowedSound'
  <2> SUFFICES ASSUME NEW a \in told'.allowed
               PROVE  a.perm \in Granted' /\ RestsOnConsent(a)'
    BY DEF AllowedSound
  <2>1. a.perm \in Granted /\ RestsOnConsent(a)
    BY DEF AllowsMore, AllowedSound, IndInv
  <2> QED BY <2>1, <1>3, ConsentKept
<1> QED BY <1>2, <1>4, <1>5 DEF IndInv

-----------------------------------------------------------------------------
\* No rows, no calls.
LEMMA InitInv == Init => IndInv
<1> SUFFICES ASSUME Init PROVE IndInv
  OBVIOUS
<1>1. NoPerm \in PermRow /\ NoConf \in ConfRow
  BY DEF NoPerm, NoConf, PermRow, ConfRow
<1>2. Idle \in Session
  BY DEF Idle, Session
<1>3. TypeOK
  BY <1>1, <1>2 DEF Init, TypeOK
<1>4. PermsSound
  BY BoundsAssumption DEF PermsSound, Init, SoundPerm, NoPerm
<1>5. ConfsSound
  BY DEF ConfsSound, Init, SoundConf, NoConf
<1>6. CallsSound
  BY BoundsAssumption DEF CallsSound, Init, SoundCall, Idle
<1> QED BY <1>3, <1>4, <1>5, <1>6, BoundsAssumption DEF AllowedSound, Init, IndInv

\* Time, capabilities and devices.
LEMMA EnvironmentStep ==
  ASSUME IndInv, now' \in Nat, now' <= MaxTime, enabled' \subseteq Capabilities,
         lost' \subseteq Devices, UNCHANGED <<perm, conf, session, told>>
  PROVE  IndInv'
<1>1. TypeOK'
  BY DEF IndInv, TypeOK
<1>2. Granted' = Granted /\ Asked' = Asked
  BY DEF Granted, Asked
<1>3. PermsSound'
  BY <1>2 DEF IndInv, PermsSound, SoundPerm
<1>4. ConfsSound'
  BY <1>2 DEF IndInv, ConfsSound, SoundConf
<1>5. CallsSound'
  <2>1. \A s : RestsOnConsent(s) => RestsOnConsent(s)'
    BY DEF RestsOnConsent, Approved
  <2>2. \A s : Covered(s) => Covered(s)'
    BY <1>2 DEF Covered
  <2>3. \A s : SoundCall(s) => SoundCall(s)'
    BY <1>2, <2>1, <2>2 DEF SoundCall
  <2> QED BY <2>3 DEF CallsSound, IndInv
<1>6. AllowedSound'
  BY <1>2 DEF AllowedSound, IndInv, RestsOnConsent, Approved
<1> QED BY <1>1, <1>3, <1>4, <1>5, <1>6 DEF IndInv

-----------------------------------------------------------------------------
\* Calls begin.

\* grant reads, and holds its new row until the commit.
LEMMA BeginGrantStep ==
  ASSUME IndInv, NEW r \in Requests, NEW g \in Grants, BeginGrant(r, g)
  PROVE  IndInv' /\ \E s \in Session : s.op = "grant" /\ Hold(r, s)
<1>1. \E s \in Session : s.op = "grant" /\ SoundCall(s) /\ Hold(r, s)
  <2>1. CASE Hold(r, [Idle EXCEPT !.op = "grant", !.grant = g, !.granted = now])
    <3> DEFINE s == [Idle EXCEPT !.op = "grant", !.grant = g, !.granted = now]
    <3>1. s \in Session /\ s.op = "grant"
      BY DEF Idle, Session, Operations, IndInv, TypeOK
    <3>2. SoundCall(s)
      BY DEF Idle, SoundCall, IndInv
    <3> HIDE DEF s
    <3> QED BY <2>1, <3>1, <3>2 DEF s
  <2>2. CASE \E p \in ActiveLike(g) :
               Hold(r, [Idle EXCEPT !.op = "grant", !.grant = g, !.granted = now,
                                    !.expire = {p}])
    <3>1. PICK p \in ActiveLike(g) :
            Hold(r, [Idle EXCEPT !.op = "grant", !.grant = g, !.granted = now,
                                 !.expire = {p}])
      BY <2>2
    <3> DEFINE s == [Idle EXCEPT !.op = "grant", !.grant = g, !.granted = now,
                                 !.expire = {p}]
    <3>2. p \in Granted
      BY DEF ActiveLike
    <3>3. s \in Session /\ s.op = "grant"
      BY <3>2, Parts DEF Idle, Session, Operations, IndInv, TypeOK
    <3>4. SoundCall(s)
      BY <3>2 DEF Idle, SoundCall, IndInv
    <3> HIDE DEF s
    <3> QED BY <3>1, <3>3, <3>4 DEF s
  <2> QED BY <2>1, <2>2 DEF BeginGrant
<1> QED BY <1>1, HoldStep DEF BeginGrant

\* list and get read, and hold the expiries they will write.
LEMMA BeginReadStep ==
  ASSUME IndInv, NEW r \in Requests, NEW ps \in SUBSET Granted, BeginRead(r, ps)
  PROVE  IndInv' /\ \E s \in Session : s.op = "read" /\ Hold(r, s)
<1>1. PICK qs \in SUBSET Granted : qs = {p \in ps : NewlyExpired(p)}
  OBVIOUS
<1> DEFINE s == [Idle EXCEPT !.op = "read", !.expire = qs]
<1>2. s \in Session /\ s.op = "read"
  BY Parts DEF Idle, Session, Operations
<1>3. SoundCall(s)
  BY BoundsAssumption DEF Idle, SoundCall
<1>4. Hold(r, s)
  BY <1>1 DEF BeginRead
<1> HIDE DEF s
<1> QED BY <1>2, <1>3, <1>4, HoldStep DEF BeginRead

\* revoke reads the permission it will close.
LEMMA BeginRevokeStep ==
  ASSUME IndInv, NEW r \in Requests, NEW p \in Granted, BeginRevoke(r, p)
  PROVE  IndInv' /\ \E s \in Session : s.op = "revoke" /\ Hold(r, s)
<1> DEFINE s == [Idle EXCEPT !.op = "revoke", !.perm = p]
<1>2. s \in Session /\ s.op = "revoke"
  BY Parts DEF Idle, Session, Operations
<1>3. SoundCall(s)
  BY BoundsAssumption DEF Idle, SoundCall
<1>4. Hold(r, s)
  BY DEF BeginRevoke
<1> HIDE DEF s
<1> QED BY <1>2, <1>3, <1>4, HoldStep DEF BeginRevoke

\* approve reads the confirmation it will approve.
LEMMA BeginApproveStep ==
  ASSUME IndInv, NEW r \in Requests, NEW c \in Asked, BeginApprove(r, c)
  PROVE  IndInv' /\ \E s \in Session : s.op = "approve" /\ Hold(r, s)
<1>1. PICK p \in Granted : p = conf[c].perm
  BY Parts DEF SoundConf, Asked
<1>2. PICK once \in BOOLEAN : once = (perm[p].grant.policy = "ONCE")
  OBVIOUS
<1> DEFINE s == [Idle EXCEPT !.op = "approve", !.conf = c, !.perm = p, !.once = once]
<1>3. s \in Session /\ s.op = "approve"
  BY Parts DEF Idle, Session, Operations
<1>4. SoundCall(s)
  BY <1>1, BoundsAssumption DEF Idle, SoundCall
<1>5. Hold(r, s)
  BY <1>1, <1>2 DEF BeginApprove
<1> HIDE DEF s
<1> QED BY <1>3, <1>4, <1>5, HoldStep DEF BeginApprove

\* reject reads the confirmation it will reject.
LEMMA BeginRejectStep ==
  ASSUME IndInv, NEW r \in Requests, NEW c \in Asked, BeginReject(r, c)
  PROVE  IndInv' /\ \E s \in Session : s.op = "reject" /\ Hold(r, s)
<1> DEFINE s == [Idle EXCEPT !.op = "reject", !.conf = c]
<1>3. s \in Session /\ s.op = "reject"
  BY Parts DEF Idle, Session, Operations
<1>4. SoundCall(s)
  BY BoundsAssumption DEF Idle, SoundCall
<1>5. Hold(r, s)
  BY DEF BeginReject
<1> HIDE DEF s
<1> QED BY <1>3, <1>4, <1>5, HoldStep DEF BeginReject

\* A grant that needs no confirmation is a consent by itself.
LEMMA PolicyConsents ==
  ASSUME IndInv, NEW proposal \in Proposals, NEW device \in Devices \cup {Null},
         NEW p \in Candidates(proposal, device), ~FinancialExecution(proposal.cap),
         NEW s, s.perm = p, s.proposal = proposal
  PROVE  /\ Covered(s) /\ p \notin told.revoked
         /\ ~PolicyRequires(perm[p].grant, perm[p].once) => RestsOnConsent(s)
<1>1. /\ p \in Granted /\ p \in Perms /\ perm[p].grant.cap = proposal.cap
      /\ perm[p].status = "ACTIVE" /\ Authorizes(perm[p].grant.scope, proposal.scope)
  BY Parts DEF Candidates, OfCapability, Usable
<1>2. Covered(s) /\ p \notin told.revoked
  BY <1>1, Parts DEF Covered, SoundPerm
<1>3. ASSUME ~PolicyRequires(perm[p].grant, perm[p].once) PROVE RestsOnConsent(s)
  <2>1. perm[p].grant.cap \in Capabilities /\ proposal.action \in proposal.scope.ops
    BY <1>1, ProposalAssumption
  <2>2. perm[p].grant.policy # "EVERY_TIME"
    BY <1>3 DEF PolicyRequires
  <2>3. ~(perm[p].grant.policy = "HIGH_RISK_ONLY" /\ perm[p].grant.cap.destructive)
    <3> SUFFICES ASSUME perm[p].grant.policy = "HIGH_RISK_ONLY",
                        perm[p].grant.cap.destructive
                 PROVE  FALSE
      OBVIOUS
    <3>1. RiskLevel(perm[p].grant.cap) >= 4
      BY <2>1, DestructiveIsHigh
    <3> QED BY <1>3, <3>1 DEF PolicyRequires
  <2>4. perm[p].grant.policy = "ONCE" => \E c \in told.approved : conf[c].perm = p
    BY <1>1, <1>3, Parts DEF PolicyRequires, SoundPerm
  <2>5. ~(perm[p].grant.cap.financial /\ perm[p].grant.cap.external)
    BY <1>1 DEF FinancialExecution
  <2> QED BY <1>1, <2>1, <2>2, <2>3, <2>4, <2>5 DEF RestsOnConsent, Authorizes
<1> QED BY <1>2, <1>3

\* authorize_action decides on what it reads; an allow rests on a grant that
\* is there, and on an approval where the policy asks for one.
LEMMA BeginAuthorizeStep ==
  ASSUME IndInv, NEW r \in Requests, NEW proposal \in Proposals,
         NEW device \in Devices \cup {Null}, NEW c \in Asked \cup {Null},
         BeginAuthorize(r, proposal, device, c)
  PROVE  IndInv' /\ \E s \in Session : /\ Hold(r, s) /\ s.perm \notin told.revoked
                                       /\ s.decision = "ALLOW" => s.conf = Null
<1>1. PICK found \in SUBSET Granted : found = Candidates(proposal, device)
  BY DEF Candidates, OfCapability
<1>2. PICK ps \in SUBSET Granted : ps = Observed(proposal, device)
  BY DEF Observed, OfCapability
<1>3. PICK p : p = Newest(found)
  OBVIOUS
<1>4. 0 \notin told.revoked
  BY Parts, BoundsAssumption DEF ToldType, Perms
<1> DEFINE seen == [Idle EXCEPT !.op = "authorize", !.proposal = proposal,
                                !.conf = c, !.expire = ps]
           Good(s) == /\ s \in Session /\ SoundCall(s) /\ s.perm \notin told.revoked
                      /\ s.decision = "ALLOW" => s.conf = Null
<1>5. (\E s : Good(s) /\ Hold(r, s)) =>
        IndInv' /\ \E s \in Session : /\ Hold(r, s) /\ s.perm \notin told.revoked
                                      /\ s.decision = "ALLOW" => s.conf = Null
  BY HoldStep DEF BeginAuthorize
<1>6. CASE proposal.cap \notin enabled
  <2> DEFINE s == Deny([Idle EXCEPT !.proposal = proposal])
  <2>1. /\ s \in Session /\ s.perm = 0 /\ s.op = "decided" /\ s.decision = "DENY"
        /\ s.granted = 0 /\ s.expire = {} /\ s.stale = FALSE /\ s.consume = FALSE
    BY DEF Deny, Idle, Session, Operations, Decisions
  <2>2. Hold(r, s)
    BY <1>6 DEF BeginAuthorize
  <2> HIDE DEF s
  <2>3. SoundCall(s)
    BY <2>1, BoundsAssumption DEF SoundCall
  <2> QED BY <2>1, <2>2, <2>3, <1>4, <1>5
<1>7. CASE proposal.cap \in enabled /\ (found = {} \/ FinancialExecution(proposal.cap))
  <2> DEFINE s == Deny(seen)
  <2>1. /\ s \in Session /\ s.perm = 0 /\ s.op = "decided" /\ s.decision = "DENY"
        /\ s.granted = 0 /\ s.expire = ps /\ s.stale = FALSE /\ s.consume = FALSE
    BY Parts DEF Deny, Idle, Session, Operations, Decisions
  <2>2. Hold(r, s)
    BY <1>1, <1>2, <1>7 DEF BeginAuthorize
  <2> HIDE DEF s
  <2>3. SoundCall(s)
    BY <2>1, BoundsAssumption DEF SoundCall
  <2> QED BY <2>1, <2>2, <2>3, <1>4, <1>5
<1>8. CASE /\ proposal.cap \in enabled /\ found # {}
           /\ ~FinancialExecution(proposal.cap)
  <2>1. p \in Candidates(proposal, device) /\ p \in Granted
    BY <1>1, <1>3, <1>8, Parts, NewestIn
  <2>2. CASE ~PolicyRequires(perm[p].grant, perm[p].once)
    <3> DEFINE s == [seen EXCEPT !.op = "decided", !.perm = p, !.conf = Null,
                                 !.decision = "ALLOW"]
    <3>1. /\ s \in Session /\ s.perm = p /\ s.proposal = proposal /\ s.conf = Null
          /\ s.op = "decided" /\ s.granted = 0 /\ s.expire = ps /\ s.stale = FALSE
          /\ s.consume = FALSE
      BY <2>1, Parts DEF Idle, Session, Operations, Decisions
    <3>2. Hold(r, s)
      BY <1>1, <1>2, <1>3, <1>8, <2>2 DEF BeginAuthorize
    <3> HIDE DEF s
    <3>3. Covered(s) /\ p \notin told.revoked /\ RestsOnConsent(s)
      BY <1>8, <2>1, <2>2, <3>1, PolicyConsents
    <3>4. SoundCall(s)
      BY <3>1, <3>3, BoundsAssumption DEF SoundCall
    <3> QED BY <3>1, <3>2, <3>3, <3>4, <1>5
  <2>3. CASE PolicyRequires(perm[p].grant, perm[p].once) /\ c = Null
    <3> DEFINE s == [seen EXCEPT !.op = "decided", !.perm = p,
                                 !.decision = "REQUIRE_CONFIRMATION"]
    <3>1. /\ s \in Session /\ s.perm = p /\ s.proposal = proposal
          /\ s.decision = "REQUIRE_CONFIRMATION"
          /\ s.op = "decided" /\ s.granted = 0 /\ s.expire = ps /\ s.stale = FALSE
          /\ s.consume = FALSE
      <4>1. seen \in Session /\ p \in Perms
        BY <2>1, Parts DEF Idle, Session, Operations
      <4>2. s \in Session
        BY <4>1 DEF Session, Operations, Decisions
      <4> QED BY <4>2 DEF Idle
    <3>2. Hold(r, s)
      BY <1>1, <1>2, <1>3, <1>8, <2>3 DEF BeginAuthorize
    <3> HIDE DEF s
    <3>3. Covered(s) /\ p \notin told.revoked
      BY <1>8, <2>1, <3>1, PolicyConsents
    <3>4. SoundCall(s)
      BY <3>1, <3>3, BoundsAssumption DEF SoundCall
    <3> QED BY <3>1, <3>2, <3>3, <3>4, <1>5
  <2>4. CASE PolicyRequires(perm[p].grant, perm[p].once) /\ c # Null
    <3> DEFINE s == [seen EXCEPT !.perm = p]
    <3>1. /\ s \in Session /\ s.perm = p /\ s.proposal = proposal
          /\ s.decision = "NONE" /\ s.conf = c
          /\ s.op = "authorize" /\ s.granted = 0 /\ s.expire = ps
      BY <2>1, <2>4, Parts DEF Idle, Session, Operations, Decisions
    <3>2. Hold(r, s)
      BY <1>1, <1>2, <1>3, <1>8, <2>4 DEF BeginAuthorize
    <3> HIDE DEF s
    <3>3. Covered(s) /\ p \notin told.revoked
      BY <1>8, <2>1, <3>1, PolicyConsents
    <3>4. SoundCall(s)
      BY <2>4, <3>1, <3>3, BoundsAssumption DEF SoundCall
    <3> QED BY <3>1, <3>2, <3>3, <3>4, <1>5
  <2> QED BY <2>2, <2>3, <2>4
<1> QED BY <1>6, <1>7, <1>8

\* The confirmation decides: ALLOW only when the owner was told of his approval
\* of this very proposal.
LEMMA CheckStep ==
  ASSUME IndInv, NEW r \in Requests, CheckConfirmation(r)
  PROVE  IndInv' /\ \E s \in Session : /\ Hold(r, s)
                                       /\ s.decision = "ALLOW" =>
                                            s.consume /\ ~conf[s.conf].consumed
<1>1. PICK o \in Session : o = session[r] /\ SoundCall(o)
  BY Parts
<1>2. /\ o.op = "authorize" /\ Hold(r, Verdict(o.conf, o)) /\ Covered(o)
      /\ o.conf \in Asked
  BY <1>1 DEF CheckConfirmation, SoundCall
<1>3. PICK c \in Asked : c = o.conf
  BY <1>2
<1> DEFINE Good(s) == /\ s \in Session /\ SoundCall(s)
                      /\ s.decision = "ALLOW" => s.consume /\ ~conf[s.conf].consumed
<1>5. \A stale \in BOOLEAN : Good([Deny(o) EXCEPT !.stale = stale])
  <2> SUFFICES ASSUME NEW stale \in BOOLEAN
               PROVE  Good([Deny(o) EXCEPT !.stale = stale])
    OBVIOUS
  <2> DEFINE s == [Deny(o) EXCEPT !.stale = stale]
  <2>1. /\ s.op = "decided" /\ s.decision = "DENY" /\ s.consume = o.consume
        /\ s.perm = o.perm /\ s.proposal = o.proposal /\ s.conf = o.conf
        /\ s.granted = o.granted /\ s.expire = o.expire
    BY DEF Deny, Session
  <2>2. s \in Session
    <3>1. Deny(o) \in Session
      BY DEF Deny, Session, Operations, Decisions
    <3> QED BY <3>1 DEF Session
  <2> HIDE DEF s
  <2>3. Good(s)
    BY <1>1, <1>2, <2>1, <2>2 DEF SoundCall
  <2> QED BY <2>3 DEF s
<1>6. Good(Deny(o))
  <2>1. Deny(o) \in Session
    BY DEF Deny, Session, Operations, Decisions
  <2> QED BY <2>1, <1>1, <1>2 DEF Deny, Session, SoundCall
<1>7. Good([o EXCEPT !.op = "decided", !.decision = "REQUIRE_CONFIRMATION"])
  <2> DEFINE s == [o EXCEPT !.op = "decided", !.decision = "REQUIRE_CONFIRMATION"]
  <2>1. /\ s \in Session /\ s.op = "decided" /\ s.decision = "REQUIRE_CONFIRMATION"
        /\ s.perm = o.perm /\ s.proposal = o.proposal /\ s.conf = o.conf
        /\ s.granted = o.granted /\ s.expire = o.expire
    BY DEF Session, Operations, Decisions
  <2> HIDE DEF s
  <2>2. Covered(s)
    BY <1>2, <2>1 DEF Covered
  <2>3. Good(s)
    BY <1>1, <1>2, <2>1, <2>2 DEF SoundCall
  <2> QED BY <2>3 DEF s
<1>8. ASSUME Bound(c, o), conf[c].status = "APPROVED", ~conf[c].consumed
      PROVE  Good([o EXCEPT !.op = "decided", !.decision = "ALLOW", !.consume = TRUE])
  <2> DEFINE s == [o EXCEPT !.op = "decided", !.decision = "ALLOW", !.consume = TRUE]
  <2>1. /\ s \in Session /\ s.op = "decided" /\ s.decision = "ALLOW"
        /\ s.perm = o.perm /\ s.proposal = o.proposal /\ s.conf = o.conf
        /\ s.granted = o.granted /\ s.expire = o.expire /\ s.consume = TRUE
    BY DEF Session, Operations, Decisions
  <2> HIDE DEF s
  <2>2. Covered(s)
    BY <1>2, <2>1 DEF Covered
  <2>3. Approved(s)
    BY <1>3, <1>8, <2>1, Parts DEF Approved, Bound, SoundConf
  <2>4. RestsOnConsent(s)
    BY <2>2, <2>3, ProposalAssumption
    DEF RestsOnConsent, Covered, Authorizes, FinancialExecution, Approved
  <2>5. Good(s)
    BY <1>1, <1>2, <1>3, <1>8, <2>1, <2>2, <2>4 DEF SoundCall
  <2> QED BY <2>5 DEF s
<1>9. \E s : Good(s) /\ s = Verdict(c, o)
  <2> HIDE DEF Good
  <2>1. (conf[c].status # "EXPIRED") \in BOOLEAN
    OBVIOUS
  <2> QED BY <2>1, <1>5, <1>6, <1>7, <1>8 DEF Verdict
<1>10. PICK s : Good(s) /\ s = Verdict(c, o)
  <2> HIDE DEF Good
  <2> QED BY <1>9
<1> QED BY <1>2, <1>3, <1>10, HoldStep DEF CheckConfirmation

-----------------------------------------------------------------------------
\* Calls commit.

\* Marking permissions as expired keeps every grant, consent and revocation.
LEMMA ExpiredRows ==
  ASSUME IndInv, NEW ps \in SUBSET Granted
  PROVE  /\ Expired(ps) \in [Perms -> PermRow]
         /\ \A p \in Perms : /\ Expired(ps)[p].grant = perm[p].grant
                             /\ Expired(ps)[p].once = perm[p].once
                             /\ Expired(ps)[p].granted = perm[p].granted
                             /\ Expired(ps)[p].status \in {perm[p].status, "EXPIRED"}
                             /\ p \notin Granted => Expired(ps)[p] = perm[p]
<1>1. \A p \in Perms : perm[p] \in PermRow
  BY Parts
<1>2. \A p \in Perms : [perm[p] EXCEPT !.status = "EXPIRED"] \in PermRow
  BY <1>1 DEF PermRow, PermStatus
<1>3. Expired(ps) \in [Perms -> PermRow]
  BY <1>1, <1>2 DEF Expired
<1> SUFFICES ASSUME NEW p \in Perms
             PROVE  /\ Expired(ps)[p].grant = perm[p].grant
                    /\ Expired(ps)[p].once = perm[p].once
                    /\ Expired(ps)[p].granted = perm[p].granted
                    /\ Expired(ps)[p].status \in {perm[p].status, "EXPIRED"}
                    /\ p \notin Granted => Expired(ps)[p] = perm[p]
  BY <1>3
<1>4. CASE p \in ps
  BY <1>1, <1>4 DEF Expired, PermRow
<1>5. CASE p \notin ps
  BY <1>5 DEF Expired
<1> QED BY <1>4, <1>5

\* The commit of grant: one new row.
LEMMA CommitGrantStep ==
  ASSUME IndInv, NEW r \in Requests, CommitGrant(r)
  PROVE  IndInv'
<1>1. PICK o \in Session : o = session[r] /\ SoundCall(o)
  BY Parts
<1>2. /\ o.op = "grant" /\ Hold(r, Idle) /\ o.grant \in Grants /\ o.expire \subseteq Granted
      /\ o.granted \in Nat /\ o.granted <= MaxTime
      /\ UNCHANGED <<conf, enabled, lost, now, told>>
  BY <1>1 DEF CommitGrant, SoundCall, Session
<1> DEFINE row == [status |-> "ACTIVE", grant |-> o.grant, once |-> FALSE,
                   granted |-> o.granted]
<1>3. /\ row \in PermRow /\ row.status = "ACTIVE" /\ row.grant = o.grant
      /\ row.once = FALSE /\ row.granted = o.granted
  BY <1>2 DEF PermRow, PermStatus
<1>4. PICK n \in FreshPerms : perm' = [Expired(o.expire) EXCEPT ![n] = row]
  BY <1>1 DEF CommitGrant
<1>5. PICK e : e = Expired(o.expire)
  OBVIOUS
<1>6. /\ e \in [Perms -> PermRow]
      /\ \A p \in Perms : /\ e[p].grant = perm[p].grant /\ e[p].once = perm[p].once
                          /\ e[p].granted = perm[p].granted
                          /\ e[p].status \in {perm[p].status, "EXPIRED"}
  BY <1>2, <1>5, ExpiredRows
<1>7. n \in Perms /\ n \notin Granted
  BY DEF FreshPerms
<1>8. perm' = [e EXCEPT ![n] = row]
  BY <1>4, <1>5
<1> HIDE DEF row
<1>9. /\ perm' \in [Perms -> PermRow] /\ perm'[n] = row
      /\ \A p \in Perms \ {n} : perm'[p] = e[p]
  BY <1>3, <1>6, <1>7, <1>8
<1>10. Keeps
  <2>1. \A p \in Granted : /\ p \in Perms \ {n} /\ perm[p].status # "NONE"
                           /\ e[p].status # "NONE" /\ e[p].grant = perm[p].grant
    BY <1>6, <1>7 DEF Granted
  <2>2. \A p \in Granted : perm'[p].status # "NONE" /\ perm'[p].grant = perm[p].grant
    BY <2>1, <1>9
  <2> QED BY <2>2, <1>2 DEF Keeps, Asked
<1>11. PermsSound'
  <2> SUFFICES ASSUME NEW p \in Perms PROVE SoundPerm(p)'
    BY DEF PermsSound
  <2>1. SoundPerm(p)
    BY Parts
  <2>2. CASE p = n
    <3>1. p \notin told.revoked
      BY <2>1, <2>2, <1>7 DEF SoundPerm, Granted
    <3> QED BY <2>2, <3>1, <1>2, <1>3, <1>9 DEF SoundPerm
  <2>3. CASE p # n
    <3>1. /\ perm'[p].grant = perm[p].grant /\ perm'[p].once = perm[p].once
          /\ perm'[p].granted = perm[p].granted
          /\ perm'[p].status \in {perm[p].status, "EXPIRED"}
          /\ perm'[p].status = "EXPIRED" => perm[p].status # "NONE"
      <4>1. perm'[p] = e[p]
        BY <2>3, <1>9
      <4>2. p \notin Granted => e[p] = perm[p]
        BY <1>2, <1>5, ExpiredRows
      <4> QED BY <4>1, <4>2, <1>6 DEF Granted
    <3> QED BY <2>1, <3>1, <1>2 DEF SoundPerm
  <2> QED BY <2>2, <2>3
<1>12. ConfsSound'
  BY <1>2, <1>10, RowsStay, Parts DEF ConfsSound, SoundConf
<1>13. told' \in ToldType /\ conf' \in [Confs -> ConfRow]
  BY <1>2, Parts DEF IndInv, TypeOK
<1>14. AllowsMore /\ UNCHANGED <<enabled, lost, now>>
  BY <1>2 DEF AllowsMore
<1> QED BY <1>2, <1>9, <1>10, <1>11, <1>12, <1>13, <1>14, CommitStep

\* The rows of permissions at a commit that marks the expired ones.
LEMMA ExpiringStep ==
  ASSUME IndInv, NEW ps \in SUBSET Granted, perm' = Expired(ps),
         told'.approved = told.approved, told'.revoked = told.revoked,
         \A c \in Asked : conf'[c].perm = conf[c].perm
  PROVE  /\ perm' \in [Perms -> PermRow] /\ PermsSound'
         /\ \A p \in Granted : perm'[p].status # "NONE" /\ perm'[p].grant = perm[p].grant
<1>1. /\ perm' \in [Perms -> PermRow]
      /\ \A p \in Perms : /\ perm'[p].grant = perm[p].grant /\ perm'[p].once = perm[p].once
                          /\ perm'[p].granted = perm[p].granted
                          /\ perm'[p].status \in {perm[p].status, "EXPIRED"}
                          /\ p \notin Granted => perm'[p] = perm[p]
  BY ExpiredRows
<1>2. \A c \in told.approved : conf'[c].perm = conf[c].perm
  BY Parts DEF SoundConf, Asked, ToldType
<1>3. PermsSound'
  <2> SUFFICES ASSUME NEW p \in Perms PROVE SoundPerm(p)'
    BY DEF PermsSound
  <2>1. SoundPerm(p) /\ (p \notin Granted => perm[p].status = "NONE")
    BY Parts DEF Granted
  <2> QED BY <1>1, <1>2, <2>1 DEF SoundPerm, Granted
<1> QED BY <1>1, <1>3, Parts DEF Granted

\* The commit of a read: rows that were due are expired.
LEMMA CommitReadStep ==
  ASSUME IndInv, NEW r \in Requests, CommitRead(r)
  PROVE  IndInv'
<1>1. PICK ps \in SUBSET Granted : perm' = Expired(ps)
  BY Parts DEF CommitRead, SoundCall
<1>2. Hold(r, Idle) /\ UNCHANGED <<conf, enabled, lost, now, told>>
  BY DEF CommitRead
<1>3. /\ perm' \in [Perms -> PermRow] /\ PermsSound'
      /\ \A p \in Granted : perm'[p].status # "NONE" /\ perm'[p].grant = perm[p].grant
  BY <1>1, <1>2, ExpiringStep
<1>4. Keeps
  BY <1>2, <1>3 DEF Keeps, Asked
<1>5. ConfsSound'
  BY <1>2, <1>4, RowsStay, Parts DEF ConfsSound, SoundConf
<1>6. told' \in ToldType /\ conf' \in [Confs -> ConfRow]
  BY <1>2, Parts DEF IndInv, TypeOK
<1>7. AllowsMore /\ UNCHANGED <<enabled, lost, now>>
  BY <1>2 DEF AllowsMore
<1> QED BY <1>2, <1>3, <1>4, <1>5, <1>6, <1>7, CommitStep

\* revoke: whatever the row holds by now, it is REVOKED from here on, or EXPIRED.
LEMMA CommitRevokeStep ==
  ASSUME IndInv, NEW r \in Requests, CommitRevoke(r)
  PROVE  IndInv'
<1>1. PICK n \in Granted : n = session[r].perm
  BY Parts DEF CommitRevoke, SoundCall
<1>2. /\ perm' = [perm EXCEPT ![n].status = "REVOKED"]
      /\ told' = [told EXCEPT !.revoked = @ \cup {n}]
      /\ Hold(r, Idle) /\ conf' = conf /\ UNCHANGED <<enabled, lost, now>>
  BY <1>1 DEF CommitRevoke
<1>3. n \in Perms
  BY Parts
<1>4. /\ told' \in ToldType /\ told'.revoked = told.revoked \cup {n}
      /\ told'.approved = told.approved /\ told'.allowed = told.allowed
  BY <1>2, <1>3, Parts DEF ToldType
<1>5. perm' \in [Perms -> PermRow]
  BY <1>2, <1>3 DEF IndInv, TypeOK, PermRow, PermStatus
<1>6. \A p \in Perms : /\ perm'[p].grant = perm[p].grant /\ perm'[p].once = perm[p].once
                       /\ perm'[p].granted = perm[p].granted
                       /\ perm'[p].status = IF p = n THEN "REVOKED" ELSE perm[p].status
  BY <1>2, Parts DEF PermRow
<1>7. Keeps
  BY <1>2, <1>4, <1>6, Parts DEF Keeps, Granted, Asked
<1>8. PermsSound'
  <2> SUFFICES ASSUME NEW p \in Perms PROVE SoundPerm(p)'
    BY DEF PermsSound
  <2>1. SoundPerm(p) /\ (p = n => perm[p].status # "NONE")
    BY Parts DEF Granted
  <2>2. p \in told'.revoked => perm'[p].status \in {"REVOKED", "EXPIRED"}
    BY <2>1, <1>4, <1>6 DEF SoundPerm
  <2>3. perm'[p].status # "NONE" => perm'[p].grant \in Grants
    BY <2>1, <1>6 DEF SoundPerm
  <2> QED BY <2>1, <2>2, <2>3, <1>2, <1>4, <1>6 DEF SoundPerm
<1>9. ConfsSound'
  BY <1>2, <1>4, <1>7, RowsStay DEF IndInv, ConfsSound, SoundConf
<1>10. AllowsMore /\ conf' \in [Confs -> ConfRow]
  BY <1>2, <1>4 DEF AllowsMore, IndInv, TypeOK
<1> QED BY <1>2, <1>4, <1>5, <1>7, <1>8, <1>9, <1>10, CommitStep

\* approve: the confirmation of this permission, of which the owner is told.
LEMMA CommitApproveStep ==
  ASSUME IndInv, NEW r \in Requests, CommitApprove(r)
  PROVE  IndInv'
<1>1. PICK o \in Session : o = session[r] /\ SoundCall(o)
  BY Parts
<1>2. /\ o.op = "approve" /\ o.perm \in Granted /\ o.conf \in Asked
      /\ conf[o.conf].perm = o.perm /\ o.once \in BOOLEAN
  BY <1>1 DEF CommitApprove, SoundCall, Session
<1>3. PICK n \in Granted, k \in Asked, once \in BOOLEAN :
        n = o.perm /\ k = o.conf /\ once = o.once
  BY <1>2
<1>4. /\ conf' = [conf EXCEPT ![k].status = "APPROVED"]
      /\ perm' = [perm EXCEPT ![n].once = @ \/ once]
      /\ told' = [told EXCEPT !.approved = @ \cup {k}]
      /\ Hold(r, Idle) /\ UNCHANGED <<enabled, lost, now>>
  BY <1>1, <1>3 DEF CommitApprove
<1>5. n \in Perms /\ k \in Confs /\ conf[k].perm = n
  BY <1>2, <1>3, Parts
<1>6. /\ told' \in ToldType /\ told'.approved = told.approved \cup {k}
      /\ told'.revoked = told.revoked /\ told'.allowed = told.allowed
  BY <1>4, <1>5, Parts DEF ToldType
<1>7. perm' \in [Perms -> PermRow]
  BY <1>4, <1>5 DEF IndInv, TypeOK, PermRow
<1>8. conf' \in [Confs -> ConfRow]
  BY <1>4, <1>5, SMTT(30) DEF IndInv, TypeOK, ConfRow, ConfStatus
<1>9. \A p \in Perms : /\ perm'[p].grant = perm[p].grant
                       /\ perm'[p].status = perm[p].status
                       /\ perm'[p].granted = perm[p].granted
                       /\ p # n => perm'[p].once = perm[p].once
  BY <1>4, Parts DEF PermRow
<1>10. \A c \in Confs : /\ conf'[c].perm = conf[c].perm
                        /\ conf'[c].proposal = conf[c].proposal
                        /\ conf'[c].status = IF c = k THEN "APPROVED" ELSE conf[c].status
  BY <1>4, Parts DEF ConfRow
<1>11. Keeps
  BY <1>6, <1>9, <1>10, Parts DEF Keeps, Granted, Asked
<1>12. PermsSound'
  <2> SUFFICES ASSUME NEW p \in Perms PROVE SoundPerm(p)'
    BY DEF PermsSound
  <2>1. SoundPerm(p)
    BY Parts
  <2>2. perm'[p].once => \E c \in told'.approved : conf'[c].perm = p
    <3>1. CASE p = n
      BY <3>1, <1>5, <1>6, <1>10
    <3>2. CASE p # n
      <4>1. told.approved \subseteq Confs
        BY Parts DEF ToldType
      <4> QED BY <3>2, <4>1, <2>1, <1>6, <1>9, <1>10 DEF SoundPerm
    <3> QED BY <3>1, <3>2
  <2> QED BY <2>1, <2>2, <1>6, <1>9 DEF SoundPerm
<1>13. ConfsSound'
  <2> SUFFICES ASSUME NEW c \in Confs PROVE SoundConf(c)'
    BY DEF ConfsSound
  <2>1. SoundConf(c) /\ (c = k => conf[c].status # "NONE")
    BY Parts DEF Asked
  <2> QED BY <2>1, <1>6, <1>10, <1>11, RowsStay DEF SoundConf
<1>14. AllowsMore
  BY <1>6 DEF AllowsMore
<1> QED BY <1>4, <1>6, <1>7, <1>8, <1>11, <1>12, <1>13, <1>14, CommitStep

\* A write of one status column of a confirmation, not to APPROVED.
LEMMA ConfStatusWritten ==
  ASSUME IndInv, NEW k \in Asked, NEW status \in {"REJECTED", "EXPIRED"},
         conf' = [conf EXCEPT ![k].status = status]
           \/ conf' = [conf EXCEPT ![k].consumed = TRUE] \/ conf' = conf,
         told'.approved = told.approved,
         \A p \in Granted : perm'[p].status # "NONE" /\ perm'[p].grant = perm[p].grant
  PROVE  conf' \in [Confs -> ConfRow] /\ Keeps /\ ConfsSound'
<1>1. k \in Confs
  BY Parts
<1>2. conf' \in [Confs -> ConfRow]
  <2>1. CASE conf' = [conf EXCEPT ![k].status = status]
    BY <1>1, <2>1 DEF IndInv, TypeOK, ConfRow, ConfStatus
  <2>2. CASE conf' = [conf EXCEPT ![k].consumed = TRUE]
    <3>1. conf \in [Confs -> ConfRow] /\ conf[k] \in ConfRow
      BY <1>1 DEF IndInv, TypeOK
    <3>2. [conf[k] EXCEPT !.consumed = TRUE] \in ConfRow
      BY <3>1 DEF ConfRow
    <3> QED BY <1>1, <2>2, <3>1, <3>2
  <2>3. CASE conf' = conf
    BY <2>3 DEF IndInv, TypeOK
  <2> QED BY <2>1, <2>2, <2>3
<1>3. \A c \in Confs : /\ conf'[c].perm = conf[c].perm
                       /\ conf'[c].proposal = conf[c].proposal
                       /\ \/ conf'[c].status = conf[c].status
                          \/ c = k /\ conf'[c].status = status
  BY Parts DEF ConfRow
<1>4. Keeps
  BY <1>3, Parts DEF Keeps, Asked
<1>5. ConfsSound'
  <2> SUFFICES ASSUME NEW c \in Confs PROVE SoundConf(c)'
    BY DEF ConfsSound
  <2>1. SoundConf(c) /\ (c = k => conf[c].status # "NONE")
    BY Parts DEF Asked
  <2> QED BY <2>1, <1>3, <1>4, RowsStay DEF SoundConf
<1> QED BY <1>2, <1>4, <1>5

\* The commit of reject.
LEMMA CommitRejectStep ==
  ASSUME IndInv, NEW r \in Requests, CommitReject(r)
  PROVE  IndInv'
<1>1. PICK k \in Asked : k = session[r].conf
  BY Parts DEF CommitReject, SoundCall
<1>2. /\ conf' = [conf EXCEPT ![k].status = "REJECTED"]
      /\ told' = [told EXCEPT !.rejected = @ \cup {k}]
      /\ Hold(r, Idle) /\ perm' = perm /\ UNCHANGED <<enabled, lost, now>>
  BY <1>1 DEF CommitReject
<1>3. /\ told' \in ToldType /\ told'.revoked = told.revoked
      /\ told'.approved = told.approved /\ told'.allowed = told.allowed
  BY <1>2, Parts DEF ToldType
<1>4. \A p \in Granted : perm'[p].status # "NONE" /\ perm'[p].grant = perm[p].grant
  BY <1>2 DEF Granted
<1>5. conf' \in [Confs -> ConfRow] /\ Keeps /\ ConfsSound'
  BY <1>2, <1>3, <1>4, ConfStatusWritten
<1>6. PermsSound'
  <2>1. \A c \in told.approved : conf'[c].perm = conf[c].perm
    BY <1>5, Parts DEF Keeps, SoundConf, Asked, ToldType
  <2> QED BY <2>1, <1>2, <1>3 DEF IndInv, PermsSound, SoundPerm
<1>7. AllowsMore /\ perm' \in [Perms -> PermRow]
  BY <1>2, <1>3 DEF AllowsMore, IndInv, TypeOK
<1> QED BY <1>2, <1>3, <1>5, <1>6, <1>7, CommitStep

\* _finalize
LEMMA CommitDecisionStep ==
  ASSUME IndInv, NEW r \in Requests, CommitDecision(r)
  PROVE  IndInv'
<1>1. PICK o \in Session : o = session[r] /\ SoundCall(o)
  BY Parts
<1>2. /\ o.op = "decided" /\ Hold(r, Idle) /\ UNCHANGED <<enabled, lost, now>>
      /\ o.expire \in SUBSET Granted /\ perm' = Expired(o.expire)
  BY <1>1 DEF CommitDecision, SoundCall
<1>3. ASSUME told'.approved = told.approved, told'.revoked = told.revoked,
             \A c \in Asked : conf'[c].perm = conf[c].perm
      PROVE  perm' \in [Perms -> PermRow] /\ PermsSound'
  BY <1>2, <1>3, ExpiringStep
<1>4. \A p \in Granted : perm'[p].status # "NONE" /\ perm'[p].grant = perm[p].grant
  <2>1. \A p \in Perms : /\ perm'[p].grant = perm[p].grant
                         /\ perm'[p].status \in {perm[p].status, "EXPIRED"}
    BY <1>2, ExpiredRows
  <2> QED BY <2>1 DEF Granted
<1>5. CASE /\ o.decision = "REQUIRE_CONFIRMATION" /\ told' = told
           /\ \E c \in FreshConfs :
                conf' = [conf EXCEPT ![c] =
                  [status |-> "PENDING", perm |-> o.perm, proposal |-> o.proposal,
                   expires |-> now + ConfirmationTTL, consumed |-> FALSE]]
  <2> DEFINE row == [status |-> "PENDING", perm |-> o.perm, proposal |-> o.proposal,
                     expires |-> now + ConfirmationTTL, consumed |-> FALSE]
  <2>1. PICK k \in FreshConfs : conf' = [conf EXCEPT ![k] = row]
    BY <1>5
  <2>2. o.perm \in Granted /\ o.proposal \in Proposals
    BY <1>1, <1>2, <1>5 DEF SoundCall, Covered
  <2>3. now + ConfirmationTTL \in Nat
    BY TTLAssumption DEF IndInv, TypeOK
  <2>4. /\ row \in ConfRow /\ row.perm = o.perm /\ row.proposal = o.proposal
        /\ row.status = "PENDING"
    BY <2>2, <2>3, Parts DEF ConfRow, ConfStatus
  <2> HIDE DEF row
  <2>5. k \in Confs /\ k \notin Asked
    BY DEF FreshConfs
  <2>6. /\ conf' \in [Confs -> ConfRow] /\ conf'[k] = row
        /\ \A c \in Confs \ {k} : conf'[c] = conf[c]
    BY <2>1, <2>4, <2>5 DEF IndInv, TypeOK
  <2>7. \A c \in Asked : c \in Confs \ {k} /\ conf'[c] = conf[c]
    BY <2>5, <2>6, Parts
  <2>8. Keeps
    BY <1>4, <1>5, <2>7 DEF Keeps, Asked
  <2>9. ConfsSound'
    <3> SUFFICES ASSUME NEW c \in Confs PROVE SoundConf(c)'
      BY DEF ConfsSound
    <3>1. SoundConf(c)
      BY Parts
    <3>2. CASE c = k
      <4>1. c \notin told.approved
        BY <3>1, <3>2, <2>5 DEF SoundConf, Asked
      <4> QED BY <4>1, <3>2, <1>5, <2>2, <2>4, <2>6, <2>8, RowsStay DEF SoundConf
    <3>3. CASE c # k
      <4>1. conf'[c] = conf[c]
        BY <3>3, <2>6
      <4> QED BY <4>1, <3>1, <1>5, <2>8, RowsStay DEF SoundConf
    <3> QED BY <3>2, <3>3
  <2>10. perm' \in [Perms -> PermRow] /\ PermsSound'
    BY <1>3, <1>5, <2>7
  <2>11. AllowsMore /\ told' \in ToldType
    BY <1>5, Parts DEF AllowsMore
  <2> QED BY <1>2, <2>6, <2>8, <2>9, <2>10, <2>11, CommitStep
<1>6. CASE /\ o.decision = "DENY" /\ told' = told
           /\ conf' = IF o.stale THEN [conf EXCEPT ![o.conf].status = "EXPIRED"] ELSE conf
  <2>1. o.stale => o.conf \in Asked
    BY <1>1, <1>2 DEF SoundCall
  <2>2. conf' \in [Confs -> ConfRow] /\ Keeps /\ ConfsSound'
    <3>1. CASE o.stale
      <4>1. PICK k \in Asked : k = o.conf
        BY <2>1, <3>1
      <4>2. conf' = [conf EXCEPT ![k].status = "EXPIRED"] /\ told'.approved = told.approved
        BY <4>1, <3>1, <1>6
      <4> QED BY <4>2, <1>4, ConfStatusWritten
    <3>2. CASE ~o.stale
      <4>1. conf' = conf /\ told' = told
        BY <3>2, <1>6
      <4>2. Keeps
        BY <4>1, <1>4 DEF Keeps, Asked
      <4>3. ConfsSound'
        BY <4>1, <4>2, RowsStay DEF IndInv, ConfsSound, SoundConf
      <4> QED BY <4>1, <4>2, <4>3 DEF IndInv, TypeOK
    <3> QED BY <3>1, <3>2
  <2>3. perm' \in [Perms -> PermRow] /\ PermsSound'
    BY <1>3, <1>6, <2>2 DEF Keeps
  <2>4. AllowsMore /\ told' \in ToldType
    BY <1>6, Parts DEF AllowsMore
  <2> QED BY <1>2, <2>2, <2>3, <2>4, CommitStep
<1>7. CASE /\ o.decision = "ALLOW"
           /\ conf' = IF o.consume THEN [conf EXCEPT ![o.conf].consumed = TRUE] ELSE conf
           /\ told' = [told EXCEPT
                !.allowed = @ \cup {[perm |-> o.perm, proposal |-> o.proposal,
                                     conf |-> o.conf]},
                !.uses = [c \in Confs |-> IF c = o.conf THEN @[c] + 1 ELSE @[c]]]
  <2> DEFINE a == [perm |-> o.perm, proposal |-> o.proposal, conf |-> o.conf]
  <2>1. /\ o.perm \in Granted /\ o.proposal \in Proposals /\ RestsOnConsent(o)
        /\ o.consume => o.conf \in Asked
    BY <1>1, <1>2, <1>7 DEF SoundCall, Covered
  <2>2. /\ a \in [perm : Perms, proposal : Proposals, conf : Confs \cup {Null}]
        /\ a.perm = o.perm /\ a.proposal = o.proposal /\ a.conf = o.conf
    BY <2>1, Parts DEF Session
  <2> HIDE DEF a
  <2>3. RestsOnConsent(a)
    BY <2>1, <2>2 DEF RestsOnConsent, Approved
  <2> DEFINE u == [c \in Confs |-> IF c = o.conf THEN told.uses[c] + 1 ELSE told.uses[c]]
  <2>4. u \in [Confs -> Nat]
    BY Parts DEF ToldType
  <2> HIDE DEF u
  <2>5. told' = [told EXCEPT !.allowed = told.allowed \cup {a}, !.uses = u]
    BY <1>7, Parts DEF a, u, ToldType
  <2>6. /\ told' \in ToldType /\ told'.allowed = told.allowed \cup {a}
        /\ told'.approved = told.approved /\ told'.revoked = told.revoked
    BY <2>2, <2>4, <2>5, Parts DEF ToldType
  <2>7. conf' \in [Confs -> ConfRow] /\ Keeps /\ ConfsSound'
    <3>1. CASE o.consume
      <4>1. PICK k \in Asked : k = o.conf
        BY <2>1, <3>1
      <4>2. conf' = [conf EXCEPT ![k].consumed = TRUE]
        BY <4>1, <3>1, <1>7
      <4> QED BY <4>2, <2>6, <1>4, ConfStatusWritten
    <3>2. CASE ~o.consume
      <4>1. conf' = conf /\ told'.approved = told.approved
        BY <3>2, <1>7, <2>6
      <4>2. Keeps
        BY <4>1, <1>4 DEF Keeps, Asked
      <4>3. ConfsSound'
        BY <4>1, <4>2, RowsStay DEF IndInv, ConfsSound, SoundConf
      <4> QED BY <4>1, <4>2, <4>3 DEF IndInv, TypeOK
    <3> QED BY <3>1, <3>2
  <2>8. perm' \in [Perms -> PermRow] /\ PermsSound'
    BY <1>3, <2>6, <2>7 DEF Keeps
  <2>9. AllowsMore
    BY <2>1, <2>2, <2>3, <2>6 DEF AllowsMore
  <2> QED BY <1>2, <2>6, <2>7, <2>8, <2>9, CommitStep
<1> QED BY <1>1, <1>5, <1>6, <1>7 DEF CommitDecision

-----------------------------------------------------------------------------
\* Every step.

\* A call that was idle starts no authorization on a revoked permission.
LEMMA RevokedHold ==
  ASSUME IndInv, NEW r \in Requests, NEW s, Hold(r, s),
         \/ session[r].op # "idle"
         \/ s.op \notin {"authorize", "decided"}
         \/ s.perm \notin told.revoked
  PROVE  RevokedStep
<1>1. \A q \in Requests : session'[q] = IF q = r THEN s ELSE session[q]
  BY Parts DEF Hold
<1> QED BY <1>1 DEF RevokedStep

\* The call is allowed by a confirmation.
UsesOne(s) == s.op = "decided" /\ s.decision = "ALLOW" /\ s.conf # Null

\* Every call that begins: nothing is written yet.
LEMMA BeginStep ==
  ASSUME IndInv, NEW r \in Requests, Begin(r)
  PROVE  /\ IndInv' /\ RevokedStep /\ UNCHANGED <<conf, told>>
         /\ \E s \in Session : Hold(r, s) /\ ~UsesOne(s)
<1>1. CASE \E g \in Grants : BeginGrant(r, g)
  <2>1. PICK s \in Session : s.op = "grant" /\ Hold(r, s) /\ IndInv'
    BY <1>1, BeginGrantStep
  <2> QED BY <1>1, <2>1, RevokedHold DEF UsesOne, BeginGrant
<1>2. CASE \E ps \in SUBSET Granted : BeginRead(r, ps)
  <2>1. PICK s \in Session : s.op = "read" /\ Hold(r, s) /\ IndInv'
    BY <1>2, BeginReadStep
  <2> QED BY <1>2, <2>1, RevokedHold DEF UsesOne, BeginRead
<1>3. CASE \E p \in Granted : BeginRevoke(r, p)
  <2>1. PICK s \in Session : s.op = "revoke" /\ Hold(r, s) /\ IndInv'
    BY <1>3, BeginRevokeStep
  <2> QED BY <1>3, <2>1, RevokedHold DEF UsesOne, BeginRevoke
<1>4. CASE \E c \in Asked : BeginApprove(r, c) \/ BeginReject(r, c)
  <2>1. PICK s \in Session : s.op \in {"approve", "reject"} /\ Hold(r, s) /\ IndInv'
    BY <1>4, BeginApproveStep, BeginRejectStep
  <2> QED BY <1>4, <2>1, RevokedHold DEF UsesOne, BeginApprove, BeginReject
<1>5. CASE \E proposal \in Proposals, device \in Devices \cup {Null},
              c \in Asked \cup {Null} : BeginAuthorize(r, proposal, device, c)
  <2>1. PICK s \in Session : /\ Hold(r, s) /\ s.perm \notin told.revoked /\ IndInv'
                             /\ s.decision = "ALLOW" => s.conf = Null
    BY <1>5, BeginAuthorizeStep
  <2> QED BY <1>5, <2>1, RevokedHold DEF UsesOne, BeginAuthorize
<1> QED BY <1>1, <1>2, <1>3, <1>4, <1>5 DEF Begin

\* A call that loses its transaction leaves no trace.
LEMMA RollbackStep ==
  ASSUME IndInv, NEW r \in Requests, Rollback(r)
  PROVE  IndInv'
BY IdleSound, HoldStep DEF Rollback

\* Every call that ends, by commit or by rollback.
LEMMA EndStep ==
  ASSUME IndInv, NEW r \in Requests, End(r)
  PROVE  IndInv' /\ RevokedStep
<1>1. IndInv'
  BY CheckStep, CommitGrantStep, CommitReadStep, CommitRevokeStep, CommitApproveStep,
     CommitRejectStep, CommitDecisionStep, RollbackStep DEF End
<1>2. session[r].op # "idle" /\ \E s : Hold(r, s)
  BY DEF End, CheckConfirmation, CommitGrant, CommitRead, CommitRevoke, CommitApprove,
     CommitReject, CommitDecision, Rollback, IsIdle
<1> QED BY <1>1, <1>2, RevokedHold

\* The steps that are no call's.
LEMMA OtherStep ==
  ASSUME IndInv,
         \/ Tick \/ UNCHANGED vars
         \/ \E c \in Capabilities : SwitchCapability(c)
         \/ \E d \in Devices : RevokeDevice(d)
  PROVE  IndInv' /\ RevokedStep /\ UNCHANGED <<perm, conf, session, told>>
<1>1. UNCHANGED <<perm, conf, session, told>>
  BY DEF Tick, SwitchCapability, RevokeDevice, vars
<1>2. now' \in Nat /\ now' <= MaxTime
  BY BoundsAssumption DEF IndInv, TypeOK, Tick, SwitchCapability, RevokeDevice, vars
<1>3. enabled' \subseteq Capabilities /\ lost' \subseteq Devices
  BY DEF IndInv, TypeOK, Tick, SwitchCapability, RevokeDevice, vars
<1> QED BY <1>1, <1>2, <1>3, EnvironmentStep DEF RevokedStep

\* Every step keeps the invariant and what revocation promises.
LEMMA NextSound ==
  ASSUME IndInv, [Next]_vars
  PROVE  IndInv' /\ RevokedStep
BY BeginStep, EndStep, OtherStep DEF Next

-----------------------------------------------------------------------------
\* Confirmations that were used.

SpentStep ==
  \A r \in Requests, c \in Confs :
    told.uses[c] > 0 /\ Uses(session'[r], c) => Uses(session[r], c)

\* A call takes what it holds; it is allowed by no confirmation used before.
LEMMA UseHold ==
  ASSUME UseInv, NEW r \in Requests, NEW s, Hold(r, s), AboutToUse(s),
         \A c \in Confs : told.uses[c] > 0 => ~Uses(s, c),
         UsesSound', IndInv'
  PROVE  UseInv' /\ SpentStep
<1>1. \A q \in Requests : session'[q] = IF q = r THEN s ELSE session[q]
  BY Parts DEF Hold, UseInv
<1>2. UsersSound'
  BY <1>1 DEF UsersSound, UseInv
<1>3. SpentStep
  BY <1>1 DEF SpentStep
<1> QED BY <1>2, <1>3 DEF UseInv

\* No confirmation is used, and none that was used is unmarked.
LEMMA NotUsed ==
  ASSUME UseInv, told'.uses = told.uses,
         \A c \in Confs : /\ conf[c].consumed => conf'[c].consumed
                          /\ conf'[c].status = "NONE" => conf[c].status = "NONE"
  PROVE  UsesSound'
<1> SUFFICES ASSUME NEW c \in Confs PROVE SoundUse(c)'
  BY DEF UsesSound
<1>1. SoundUse(c) /\ told'.uses[c] = told.uses[c]
  BY DEF UseInv, UsesSound
<1> QED BY <1>1 DEF SoundUse

\* The confirmation is marked as the call that uses it is answered.
LEMMA UseDecision ==
  ASSUME UseInv, NEW r \in Requests, CommitDecision(r)
  PROVE  UsesSound'
<1> USE DEF UseInv
<1>1. PICK o \in Session : o = session[r] /\ SoundCall(o) /\ AboutToUse(o)
  BY Parts DEF UsersSound
<1>2. o.op = "decided"
  BY <1>1 DEF CommitDecision
<1>3. \A c \in Confs : conf[c] \in ConfRow /\ SoundUse(c) /\ told.uses[c] \in Nat
  BY Parts DEF UsesSound, ToldType
<1>4. CASE /\ told' = told
           /\ \E c \in FreshConfs :
                conf' = [conf EXCEPT ![c] =
                  [status |-> "PENDING", perm |-> o.perm, proposal |-> o.proposal,
                   expires |-> now + ConfirmationTTL, consumed |-> FALSE]]
  <2> DEFINE row == [status |-> "PENDING", perm |-> o.perm, proposal |-> o.proposal,
                     expires |-> now + ConfirmationTTL, consumed |-> FALSE]
  <2>0. row.status # "NONE"
    OBVIOUS
  <2> HIDE DEF row
  <2>1. PICK k \in FreshConfs : conf' = [conf EXCEPT ![k] = row]
    BY <1>4 DEF row
  <2>2. /\ k \in Confs /\ conf[k].status = "NONE" /\ conf'[k] = row
        /\ \A c \in Confs \ {k} : conf'[c] = conf[c]
    BY <2>1, Parts DEF FreshConfs, Asked
  <2> SUFFICES ASSUME NEW c \in Confs PROVE SoundUse(c)'
    BY DEF UsesSound
  <2>3. CASE c = k
    BY <2>3, <2>0, <2>2, <1>3, <1>4 DEF SoundUse
  <2>4. CASE c # k
    BY <2>4, <2>2, <1>3, <1>4 DEF SoundUse
  <2> QED BY <2>3, <2>4
<1>5. CASE /\ o.decision = "DENY" /\ told' = told
           /\ conf' = IF o.stale THEN [conf EXCEPT ![o.conf].status = "EXPIRED"] ELSE conf
  <2>1. \A c \in Confs : /\ conf'[c].consumed = conf[c].consumed
                         /\ conf'[c].status = "NONE" => conf[c].status = "NONE"
    BY <1>3, <1>5, Parts DEF ConfRow
  <2> QED BY <2>1, <1>5, NotUsed
<1>6. CASE /\ o.decision = "ALLOW"
           /\ conf' = IF o.consume THEN [conf EXCEPT ![o.conf].consumed = TRUE] ELSE conf
           /\ told' = [told EXCEPT
                !.allowed = @ \cup {[perm |-> o.perm, proposal |-> o.proposal,
                                     conf |-> o.conf]},
                !.uses = [c \in Confs |-> IF c = o.conf THEN @[c] + 1 ELSE @[c]]]
  <2>1. told'.uses = [c \in Confs |-> IF c = o.conf THEN told.uses[c] + 1 ELSE told.uses[c]]
    BY <1>6, Parts DEF ToldType
  <2> SUFFICES ASSUME NEW c \in Confs PROVE SoundUse(c)'
    BY DEF UsesSound
  <2>2. CASE c = o.conf
    <3>1. c # Null /\ o.consume /\ c \in Asked
      BY <2>2, <1>1, <1>2, <1>6, NullAssumption DEF AboutToUse, SoundCall
    <3>2. conf'[c].consumed = TRUE /\ conf'[c].status = conf[c].status
      BY <3>1, <2>2, <1>3, <1>6, Parts DEF ConfRow
    <3> QED BY <3>1, <3>2 DEF SoundUse, Asked
  <2>3. CASE c # o.conf
    <3>1. told'.uses[c] = told.uses[c] /\ conf'[c] = conf[c]
      BY <2>1, <2>3, <1>6, Parts
    <3> QED BY <3>1, <1>3 DEF SoundUse
  <2> QED BY <2>2, <2>3
<1> QED BY <1>1, <1>4, <1>5, <1>6 DEF CommitDecision

\* Every step keeps the marks, and refuses what was used.
LEMMA UseNext ==
  ASSUME UseInv, [Next]_vars
  PROVE  UseInv' /\ SpentStep
<1> USE DEF UseInv
<1>1. IndInv' /\ \A c \in Confs : conf[c] \in ConfRow
  BY NextSound, Parts
<1>2. CASE UNCHANGED <<perm, conf, session, told>>
  <2>1. UsesSound' /\ UsersSound' /\ SpentStep
    BY <1>2 DEF UsesSound, UsersSound, SoundUse, SpentStep
  <2> QED BY <1>1, <2>1
<1>3. ASSUME NEW r \in Requests, Begin(r) PROVE UseInv' /\ SpentStep
  <2>1. PICK s \in Session : Hold(r, s) /\ ~UsesOne(s) /\ UNCHANGED <<conf, told>>
    BY <1>3, BeginStep
  <2>2. AboutToUse(s) /\ \A c \in Confs : ~Uses(s, c)
    BY <2>1, NullAssumption DEF AboutToUse, Uses, UsesOne
  <2>3. UsesSound'
    BY <2>1, NotUsed
  <2> QED BY <1>1, <2>1, <2>2, <2>3, UseHold
<1>4. ASSUME NEW r \in Requests, CheckConfirmation(r) PROVE UseInv' /\ SpentStep
  <2>1. PICK s \in Session : /\ Hold(r, s)
                             /\ s.decision = "ALLOW" =>
                                  s.consume /\ ~conf[s.conf].consumed
    BY <1>4, CheckStep
  <2>2. UNCHANGED <<conf, told>>
    BY <1>4 DEF CheckConfirmation
  <2>3. AboutToUse(s)
    BY <2>1 DEF AboutToUse
  <2>4. \A c \in Confs : told.uses[c] > 0 => ~Uses(s, c)
    BY <2>1 DEF Uses, UsesSound, SoundUse
  <2>5. UsesSound'
    BY <2>2, NotUsed
  <2> QED BY <1>1, <2>1, <2>3, <2>4, <2>5, UseHold
<1>5. ASSUME NEW r \in Requests,
             \/ CommitGrant(r) \/ CommitRead(r) \/ CommitRevoke(r) \/ CommitApprove(r)
             \/ CommitReject(r) \/ CommitDecision(r) \/ Rollback(r)
      PROVE  UseInv' /\ SpentStep
  <2>1. Hold(r, Idle)
    BY <1>5 DEF CommitGrant, CommitRead, CommitRevoke, CommitApprove, CommitReject,
                CommitDecision, Rollback
  <2>2. AboutToUse(Idle) /\ \A c \in Confs : ~Uses(Idle, c)
    BY DEF AboutToUse, Uses, Idle
  <2>3. CASE CommitGrant(r) \/ CommitRead(r) \/ Rollback(r)
    <3>1. UNCHANGED <<conf, told>>
      BY <2>3 DEF CommitGrant, CommitRead, Rollback
    <3>2. UsesSound'
      BY <3>1, NotUsed
    <3> QED BY <3>2, <2>1, <2>2, <1>1, UseHold
  <2>4. CASE CommitRevoke(r) \/ CommitApprove(r) \/ CommitReject(r)
    <3>1. told'.uses = told.uses
      BY <2>4, Parts DEF CommitRevoke, CommitApprove, CommitReject, ToldType
    <3>2. \A c \in Confs : /\ conf'[c].consumed = conf[c].consumed
                           /\ conf'[c].status = "NONE" => conf[c].status = "NONE"
      BY <2>4, <1>1, Parts DEF CommitRevoke, CommitApprove, CommitReject, ConfRow
    <3>3. UsesSound'
      BY <3>1, <3>2, NotUsed
    <3> QED BY <3>3, <2>1, <2>2, <1>1, UseHold
  <2>5. CASE CommitDecision(r)
    <3>1. UsesSound'
      BY <2>5, UseDecision
    <3> QED BY <3>1, <2>1, <2>2, <1>1, UseHold
  <2> QED BY <1>5, <2>3, <2>4, <2>5
<1>6. CASE \/ Tick \/ UNCHANGED vars
           \/ \E c \in Capabilities : SwitchCapability(c)
           \/ \E d \in Devices : RevokeDevice(d)
  BY <1>2, <1>6, OtherStep
<1> QED BY <1>3, <1>4, <1>5, <1>6 DEF Next, End

-----------------------------------------------------------------------------
\* Theorems.

\* The invariant holds in every reachable state.
THEOREM Inductive == Spec => []IndInv
<1>1. IndInv /\ [Next]_vars => IndInv'
  BY NextSound
<1> QED BY InitInv, <1>1, PTL DEF Spec

\* permissions, confirmation_requests and the calls in flight keep their shape.
THEOREM TypeCorrect == Spec => []TypeOK
<1>1. IndInv => TypeOK
  BY DEF IndInv
<1> QED BY Inductive, <1>1, PTL

\* PermissionsEngine.authorize: every ALLOW rests on a grant that covers it and
\* on the consent its policy or its risk asks for, however calls interleave.
THEOREM EveryAllowRestsOnConsent == Spec => []AllowRestsOnConsent
<1>1. IndInv => AllowRestsOnConsent
  BY DEF IndInv, AllowedSound, AllowRestsOnConsent
<1> QED BY Inductive, <1>1, PTL

\* PermissionAdministrationService.revoke: no authorization that starts after
\* the owner was told of it finds the permission.
THEOREM RevocationAlwaysHolds == Spec => RevocationHolds
<1>1. IndInv /\ [Next]_vars => RevokedStep
  BY NextSound
<1> QED BY Inductive, <1>1, PTL DEF Spec, RevocationHolds, RevokedStep

\* consumed_at: once an authorization that used a confirmation was answered, no
\* call that has not decided by then is allowed by it, however calls interleave.
THEOREM SpentAlwaysRefused == Spec => SpentIsRefused
<1>1. Init => UseInv
  <2> SUFFICES ASSUME Init PROVE UseInv
    OBVIOUS
  <2>1. UsesSound
    BY DEF Init, UsesSound, SoundUse
  <2>2. UsersSound
    BY DEF Init, UsersSound, AboutToUse, Idle
  <2> QED BY InitInv, <2>1, <2>2 DEF UseInv
<1>2. UseInv /\ [Next]_vars => UseInv' /\ SpentStep
  BY UseNext
<1> QED BY <1>1, <1>2, PTL DEF Spec, SpentIsRefused, SpentStep
=============================================================================
