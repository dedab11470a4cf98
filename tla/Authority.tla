----------------------------- MODULE Authority ------------------------------
(***************************************************************************)
(* Permissions, risk and confirmations of one owner:                       *)
(* backend/app/permissions/engine.py (the decision) and service.py (grant, *)
(* revoke, approve, reject).                                               *)
(*                                                                         *)
(* A call is one read-committed transaction.  It reads rows, decides from  *)
(* its copies, and at its flush writes the columns it has changed by       *)
(* primary key, with no condition on what the row holds by then; nothing   *)
(* here is guarded by a version.  A call is therefore a Begin and a Commit *)
(* (an authorization reads the confirmation in a step of its own between), *)
(* with the steps of other calls in between.  A call whose error handler   *)
(* rolls back leaves no row changed and is no step.                        *)
(*                                                                         *)
(* Account-control calls are made at AAL2, the others at any level; the    *)
(* user is active, and the actions are in the capability's vocabulary.     *)
(* auto_execute only tells equal grants apart, as policy does.             *)
(***************************************************************************)
EXTENDS Naturals, FiniteSets

CONSTANTS
  Requests,      \* the calls that can be in flight at the same time
  Capabilities,  \* [key, risk, privacy, external, destructive, financial]
  Proposals,     \* [cap, action, scope]: what an authorization asks for
  Grants,        \* [cap, scope, device, policy, expires]
  Devices,       \* devices of the owner
  Null,          \* no value
  MaxPerms,      \* bound on the rows of permissions
  Confs,         \* the primary keys confirmation_requests.id, a bound too
  MaxTime,       \* bound on the clock
  ConfirmationTTL

Policies == {"NEVER", "ONCE", "EVERY_TIME", "HIGH_RISK_ONLY"}

ASSUME CapabilityAssumption ==
  \A c \in Capabilities : /\ c.risk \in 0..5
                          /\ c.privacy \in BOOLEAN /\ c.external \in BOOLEAN
                          /\ c.destructive \in BOOLEAN /\ c.financial \in BOOLEAN
ASSUME ProposalAssumption ==
  \A p \in Proposals : p.cap \in Capabilities /\ p.action \in p.scope.ops
ASSUME GrantAssumption ==
  \A g \in Grants : /\ g.cap \in Capabilities
                    /\ g.device \in Devices \cup {Null}
                    /\ g.policy \in Policies
                    /\ g.expires \in Nat \cup {Null}
ASSUME BoundsAssumption ==
  MaxPerms \in Nat /\ MaxTime \in Nat
ASSUME TTLAssumption == ConfirmationTTL \in Nat \ {0}
ASSUME NullAssumption ==
  Null \notin Nat \cup Devices \cup Proposals \cup Grants \cup Confs

Perms == 1..MaxPerms

VARIABLES
  perm,      \* the rows of permissions
  conf,      \* the rows of confirmation_requests
  enabled,   \* the capabilities that are switched on
  lost,      \* the devices that have been revoked
  session,   \* what each call in flight has read and is about to write
  now,       \* utc_now()
  told       \* what callers have been told (history)

vars == <<perm, conf, enabled, lost, session, now, told>>

-----------------------------------------------------------------------------
\* Rows and calls in flight.

PermStatus == {"ACTIVE", "REVOKED", "EXPIRED"}
ConfStatus == {"PENDING", "APPROVED", "REJECTED", "EXPIRED"}

PermRow == [status : PermStatus \cup {"NONE"}, grant : Grants \cup {Null},
            once : BOOLEAN, granted : Nat]

ConfRow == [status : ConfStatus \cup {"NONE"}, perm : Perms \cup {0},
            proposal : Proposals \cup {Null}, expires : Nat,
            consumed : BOOLEAN]

NoPerm == [status |-> "NONE", grant |-> Null, once |-> FALSE, granted |-> 0]

NoConf == [status |-> "NONE", perm |-> 0, proposal |-> Null, expires |-> 0,
           consumed |-> FALSE]

Operations == {"grant", "read", "revoke", "approve", "reject", "authorize",
               "decided"}

Decisions == {"ALLOW", "DENY", "REQUIRE_CONFIRMATION"}

\* expire: permissions found past their deadline; perm, conf: the rows the
\* call is about; consume, stale: what it will write to the confirmation.
Session == [op : Operations \cup {"idle"}, expire : SUBSET Perms,
            perm : Perms \cup {0}, conf : Confs \cup {Null},
            proposal : Proposals \cup {Null}, grant : Grants \cup {Null},
            once : BOOLEAN, granted : Nat, decision : Decisions \cup {"NONE"},
            consume : BOOLEAN, stale : BOOLEAN]

Idle == [op |-> "idle", expire |-> {}, perm |-> 0, conf |-> Null,
         proposal |-> Null, grant |-> Null, once |-> FALSE, granted |-> 0,
         decision |-> "NONE", consume |-> FALSE, stale |-> FALSE]

IsIdle(r) == session[r].op = "idle"

Hold(r, s) == session' = [session EXCEPT ![r] = s]

Granted == {p \in Perms : perm[p].status # "NONE"}

Asked == {c \in Confs : conf[c].status # "NONE"}

-----------------------------------------------------------------------------
\* RiskEngine.evaluate and FinancialExecutionGuard.blocks.

AtLeast(floor, applies, level) == IF applies /\ level < floor THEN floor ELSE level

FinancialExecution(c) == c.financial /\ c.external

RiskLevel(c) ==
  IF FinancialExecution(c) THEN 5
  ELSE AtLeast(4, c.destructive, AtLeast(3, c.external, AtLeast(2, c.privacy, c.risk)))

\* _confirmation_result: does the policy of the grant ask for confirmation?
PolicyRequires(grant, once) ==
  \/ grant.policy = "EVERY_TIME"
  \/ grant.policy = "ONCE" /\ ~once
  \/ grant.policy = "HIGH_RISK_ONLY" /\ RiskLevel(grant.cap) >= 4

-----------------------------------------------------------------------------
\* PermissionScope.authorizes: a scope without resource ids means all of the
\* type, and is asked for and granted as a whole.
Authorizes(granted, requested) ==
  /\ granted.type = requested.type
  /\ requested.ops \subseteq granted.ops
  /\ requested.ids \subseteq granted.ids
  /\ requested.ids = {} <=> granted.ids = {}

\* _find_permission: the newest permission that covers the proposal.

PastDeadline(p) ==
  perm[p].grant.expires # Null /\ now >= perm[p].grant.expires

\* _is_expired, and the permissions an evaluation finds newly expired.
NewlyExpired(p) == perm[p].status = "ACTIVE" /\ PastDeadline(p)

\* Bug variant: only the deadline is looked at, not the status.
Usable_AnyStatus(p, proposal, device) ==
  /\ ~PastDeadline(p)
  /\ Authorizes(perm[p].grant.scope, proposal.scope)

Usable(p, proposal, device) ==
  /\ perm[p].status = "ACTIVE"
  /\ ~PastDeadline(p)
  /\ Authorizes(perm[p].grant.scope, proposal.scope)
  /\ perm[p].grant.device # Null =>
       perm[p].grant.device = device /\ device \notin lost

OfCapability(cap) == {p \in Granted : perm[p].grant.cap = cap}

Candidates(proposal, device) ==
  {p \in OfCapability(proposal.cap) : Usable(p, proposal, device)}

\* ORDER BY granted_at DESC, id
Before(p, q) ==
  \/ perm[p].granted > perm[q].granted
  \/ perm[p].granted = perm[q].granted /\ p < q

Newest(ps) == CHOOSE p \in ps : \A q \in ps \ {p} : Before(p, q)

\* The loop stops at the permission it returns: only those that come before it
\* have been looked at, and marked when their deadline has passed.
Observed(proposal, device) ==
  LET found == Candidates(proposal, device)
  IN  {p \in OfCapability(proposal.cap) :
         NewlyExpired(p) /\ (found # {} => Before(p, Newest(found)))}

-----------------------------------------------------------------------------
Init ==
  /\ perm = [p \in Perms |-> NoPerm]
  /\ conf = [c \in Confs |-> NoConf]
  /\ enabled = Capabilities
  /\ lost = {}
  /\ session = [r \in Requests |-> Idle]
  /\ now = 0
  /\ told = [allowed |-> {}, uses |-> [c \in Confs |-> 0], approved |-> {},
             rejected |-> {}, revoked |-> {}]

Tick ==
  /\ now < MaxTime
  /\ now' = now + 1
  /\ UNCHANGED <<perm, conf, enabled, lost, session, told>>

\* Operators switch a capability off or on; a device is revoked.
SwitchCapability(c) ==
  /\ enabled' = IF c \in enabled THEN enabled \ {c} ELSE enabled \cup {c}
  /\ UNCHANGED <<perm, conf, lost, session, now, told>>

RevokeDevice(d) ==
  /\ d \notin lost
  /\ lost' = lost \cup {d}
  /\ UNCHANGED <<perm, conf, enabled, session, now, told>>

-----------------------------------------------------------------------------
\* PermissionAdministrationService

SameGrant(g, h) ==
  /\ g.cap = h.cap
  /\ g.device = h.device
  /\ g.scope = h.scope
  /\ g.policy = h.policy

ActiveLike(g) ==
  {p \in Granted : perm[p].status = "ACTIVE" /\ SameGrant(perm[p].grant, g)}

\* grant: an equal permission in force is returned as it is, an equal one past
\* its deadline is marked and a new row is added.
BeginGrant(r, g) ==
  /\ IsIdle(r)
  /\ g.expires # Null => g.expires > now
  /\ g.cap \in enabled
  /\ g.device # Null => g.device \notin lost
  /\ \/ /\ ActiveLike(g) = {}
        /\ Hold(r, [Idle EXCEPT !.op = "grant", !.grant = g, !.granted = now])
     \/ \E p \in ActiveLike(g) :
          /\ PastDeadline(p)
          /\ Hold(r, [Idle EXCEPT !.op = "grant", !.grant = g, !.granted = now,
                                  !.expire = {p}])
  /\ UNCHANGED <<perm, conf, enabled, lost, now, told>>

\* list_owned and get_owned mark what has expired.
BeginRead(r, ps) ==
  /\ IsIdle(r)
  /\ \E p \in ps : NewlyExpired(p)
  /\ Hold(r, [Idle EXCEPT !.op = "read",
                          !.expire = {p \in ps : NewlyExpired(p)}])
  /\ UNCHANGED <<perm, conf, enabled, lost, now, told>>

BeginRevoke(r, p) ==
  /\ IsIdle(r)
  /\ perm[p].status \in {"ACTIVE", "EXPIRED"}
  /\ Hold(r, [Idle EXCEPT !.op = "revoke", !.perm = p])
  /\ UNCHANGED <<perm, conf, enabled, lost, now, told>>

\* Only a PENDING request in time is answered.  Past the deadline both calls
\* raise, and the EXPIRED they have put on their copy is rolled back.
Open(c) == conf[c].status = "PENDING" /\ now < conf[c].expires

BeginApprove(r, c) ==
  /\ IsIdle(r)
  /\ Open(c)
  /\ Hold(r, [Idle EXCEPT !.op = "approve", !.conf = c, !.perm = conf[c].perm,
       !.once = perm[conf[c].perm].grant.policy = "ONCE"])
  /\ UNCHANGED <<perm, conf, enabled, lost, now, told>>

BeginReject(r, c) ==
  /\ IsIdle(r)
  /\ Open(c)
  /\ Hold(r, [Idle EXCEPT !.op = "reject", !.conf = c])
  /\ UNCHANGED <<perm, conf, enabled, lost, now, told>>

-----------------------------------------------------------------------------
\* PermissionsEngine.authorize

Deny(s) == [s EXCEPT !.op = "decided", !.decision = "DENY"]

\* The first reads: the capability and the permissions.  A grant that needs no
\* confirmation decides at once; otherwise the confirmation is read next.
BeginAuthorize(r, proposal, device, c) ==
  LET found == Candidates(proposal, device)
      p == Newest(found)
      seen == [Idle EXCEPT !.op = "authorize", !.proposal = proposal,
                           !.conf = c, !.expire = Observed(proposal, device)]
  IN  /\ IsIdle(r)
      /\ Hold(r,
           IF proposal.cap \notin enabled
           THEN Deny([Idle EXCEPT !.proposal = proposal])
           ELSE IF found = {} \/ FinancialExecution(proposal.cap)
           THEN Deny(seen)
           ELSE IF ~PolicyRequires(perm[p].grant, perm[p].once)
           THEN [seen EXCEPT !.op = "decided", !.perm = p, !.conf = Null,
                             !.decision = "ALLOW"]
           ELSE IF c = Null
           THEN [seen EXCEPT !.op = "decided", !.perm = p,
                             !.decision = "REQUIRE_CONFIRMATION"]
           ELSE [seen EXCEPT !.perm = p])
      /\ UNCHANGED <<perm, conf, enabled, lost, now, told>>

\* Bug variant: the permission the owner was asked about is not compared.
Bound_AnyPermission(c, s) == conf[c].proposal = s.proposal

\* _confirmation_result: a confirmation is bound to its permission, and to the
\* capability, action and scope digest of the proposal.
Bound(c, s) == conf[c].perm = s.perm /\ conf[c].proposal = s.proposal

Overdue(c) == now >= conf[c].expires \/ conf[c].status = "EXPIRED"

\* Bug variant: consumed_at is not looked at.
Verdict_Reusable(c, s) ==
  IF Bound(c, s) /\ ~Overdue(c) /\ conf[c].status = "APPROVED"
  THEN [s EXCEPT !.op = "decided", !.decision = "ALLOW", !.consume = TRUE]
  ELSE Deny(s)

\* What the named confirmation makes of the call; the tests are in this order.
Verdict(c, s) ==
  IF ~Bound(c, s) THEN Deny(s)
  ELSE IF Overdue(c)
  THEN [Deny(s) EXCEPT !.stale = conf[c].status # "EXPIRED"]
  ELSE IF conf[c].status = "REJECTED" THEN Deny(s)
  ELSE IF conf[c].status # "APPROVED"
  THEN [s EXCEPT !.op = "decided", !.decision = "REQUIRE_CONFIRMATION"]
  ELSE IF conf[c].consumed THEN Deny(s)
  ELSE [s EXCEPT !.op = "decided", !.decision = "ALLOW", !.consume = TRUE]

\* The second read.
CheckConfirmation(r) ==
  /\ session[r].op = "authorize"
  /\ Hold(r, Verdict(session[r].conf, session[r]))
  /\ UNCHANGED <<perm, conf, enabled, lost, now, told>>

-----------------------------------------------------------------------------
\* Commits.

Expired(ps) ==
  [p \in Perms |-> IF p \in ps THEN [perm[p] EXCEPT !.status = "EXPIRED"]
                               ELSE perm[p]]

\* uuid4: any id that is not taken.
FreshPerms == Perms \ Granted

FreshConfs == Confs \ Asked

CommitGrant(r) ==
  /\ session[r].op = "grant"
  /\ \E p \in FreshPerms :
       perm' = [Expired(session[r].expire) EXCEPT ![p] =
         [status |-> "ACTIVE", grant |-> session[r].grant, once |-> FALSE,
          granted |-> session[r].granted]]
  /\ Hold(r, Idle)
  /\ UNCHANGED <<conf, enabled, lost, now, told>>

CommitRead(r) ==
  /\ session[r].op = "read"
  /\ perm' = Expired(session[r].expire)
  /\ Hold(r, Idle)
  /\ UNCHANGED <<conf, enabled, lost, now, told>>

CommitRevoke(r) ==
  /\ session[r].op = "revoke"
  /\ perm' = [perm EXCEPT ![session[r].perm].status = "REVOKED"]
  /\ told' = [told EXCEPT !.revoked = @ \cup {session[r].perm}]
  /\ Hold(r, Idle)
  /\ UNCHANGED <<conf, enabled, lost, now>>

CommitApprove(r) ==
  /\ session[r].op = "approve"
  /\ conf' = [conf EXCEPT ![session[r].conf].status = "APPROVED"]
  /\ perm' = [perm EXCEPT ![session[r].perm].once = @ \/ session[r].once]
  /\ told' = [told EXCEPT !.approved = @ \cup {session[r].conf}]
  /\ Hold(r, Idle)
  /\ UNCHANGED <<enabled, lost, now>>

CommitReject(r) ==
  /\ session[r].op = "reject"
  /\ conf' = [conf EXCEPT ![session[r].conf].status = "REJECTED"]
  /\ told' = [told EXCEPT !.rejected = @ \cup {session[r].conf}]
  /\ Hold(r, Idle)
  /\ UNCHANGED <<perm, enabled, lost, now>>

\* _finalize: the decision record, and a fresh confirmation request when the
\* decision asks for one.
CommitDecision(r) ==
  LET s == session[r]
  IN  /\ s.op = "decided"
      /\ perm' = Expired(s.expire)
      /\ \/ /\ s.decision = "REQUIRE_CONFIRMATION"
            /\ \E c \in FreshConfs :
                 conf' = [conf EXCEPT ![c] =
                   [status |-> "PENDING", perm |-> s.perm,
                    proposal |-> s.proposal, expires |-> now + ConfirmationTTL,
                    consumed |-> FALSE]]
            /\ UNCHANGED told
         \/ /\ s.decision = "DENY"
            /\ conf' = IF s.stale
                       THEN [conf EXCEPT ![s.conf].status = "EXPIRED"]
                       ELSE conf
            /\ UNCHANGED told
         \/ /\ s.decision = "ALLOW"
            /\ conf' = IF s.consume
                       THEN [conf EXCEPT ![s.conf].consumed = TRUE]
                       ELSE conf
            /\ told' = [told EXCEPT
                 !.allowed = @ \cup {[perm |-> s.perm, proposal |-> s.proposal,
                                      conf |-> s.conf]},
                 !.uses = [c \in Confs |-> IF c = s.conf THEN @[c] + 1
                                                         ELSE @[c]]]
      /\ Hold(r, Idle)
      /\ UNCHANGED <<enabled, lost, now>>

\* The transaction is lost before its COMMIT.
Rollback(r) ==
  /\ ~IsIdle(r)
  /\ Hold(r, Idle)
  /\ UNCHANGED <<perm, conf, enabled, lost, now, told>>

-----------------------------------------------------------------------------
Begin(r) ==
  \/ \E g \in Grants : BeginGrant(r, g)
  \/ \E ps \in SUBSET Granted : BeginRead(r, ps)
  \/ \E p \in Granted : BeginRevoke(r, p)
  \/ \E c \in Asked : BeginApprove(r, c) \/ BeginReject(r, c)
  \/ \E proposal \in Proposals, device \in Devices \cup {Null}, c \in Asked \cup {Null} :
       BeginAuthorize(r, proposal, device, c)

End(r) ==
  \/ CheckConfirmation(r)
  \/ CommitGrant(r) \/ CommitRead(r) \/ CommitRevoke(r)
  \/ CommitApprove(r) \/ CommitReject(r) \/ CommitDecision(r)
  \/ Rollback(r)

Next ==
  \/ Tick
  \/ \E c \in Capabilities : SwitchCapability(c)
  \/ \E d \in Devices : RevokeDevice(d)
  \/ \E r \in Requests : Begin(r) \/ End(r)

Spec == Init /\ [][Next]_vars

-----------------------------------------------------------------------------
\* Properties.

\* The variables keep the shapes the tables and the calls in flight have.
TypeOK ==
  /\ perm \in [Perms -> PermRow]
  /\ conf \in [Confs -> ConfRow]
  /\ enabled \subseteq Capabilities
  /\ lost \subseteq Devices
  /\ session \in [Requests -> Session]
  /\ now \in Nat
  /\ told \in [allowed : SUBSET [perm : Perms, proposal : Proposals,
                                conf : Confs \cup {Null}],
               uses : [Confs -> Nat], approved : SUBSET Confs,
               rejected : SUBSET Confs, revoked : SUBSET Perms]

\* The owner has approved the confirmation this ALLOW was given.
Approved(a) ==
  /\ a.conf \in told.approved
  /\ conf[a.conf].perm = a.perm
  /\ conf[a.conf].proposal = a.proposal

RestsOnConsent(a) ==
  LET grant == perm[a.perm].grant
  IN  /\ grant.cap = a.proposal.cap
      /\ a.proposal.action \in grant.scope.ops
      /\ a.proposal.scope.ids \subseteq grant.scope.ids
      /\ ~(grant.cap.financial /\ grant.cap.external)
      /\ grant.policy = "EVERY_TIME" => Approved(a)
      /\ grant.policy = "HIGH_RISK_ONLY" /\ grant.cap.destructive => Approved(a)
      /\ grant.policy = "ONCE" =>
           \E c \in told.approved : conf[c].perm = a.perm

\* PermissionsEngine.authorize: however calls interleave, an ALLOW rests on a
\* grant for that capability whose scope covers the proposal and, where the
\* grant's policy or the risk asks for it, on a consent the owner was told of:
\* for this very proposal, or for ONCE at least for that permission.  Financial
\* execution is never allowed.
AllowRestsOnConsent == \A a \in told.allowed : RestsOnConsent(a)

\* PermissionAdministrationService.revoke: once the owner has been told that a
\* permission is revoked, no authorization that starts later finds it, although
\* a call in flight may overwrite REVOKED with EXPIRED.
RevocationHolds ==
  [][\A r \in Requests :
       session[r].op = "idle" => session'[r].op \notin {"authorize", "decided"}
                                 \/ session'[r].perm \notin told.revoked]_vars

\* A call that has decided to be allowed by the confirmation c.
Uses(s, c) == s.op = "decided" /\ s.decision = "ALLOW" /\ s.conf = c

\* consumed_at: once an authorization that used a confirmation was answered, no
\* other call is allowed by it, however calls interleave and whatever is written
\* to the row meanwhile.  What is left of a double use is a call that had made
\* its decision by then (ConfirmationSingleUse).
SpentIsRefused ==
  [][\A r \in Requests, c \in Confs :
       told.uses[c] > 0 /\ Uses(session'[r], c) => Uses(session[r], c)]_vars

\* docs/api/permissions.md: a per-action approval is consumed by the
\* re-evaluation that uses it and cannot be replayed.
ConfirmationSingleUse == \A c \in Confs : told.uses[c] <= 1

\* test_rejected_and_expired_confirmations_cannot_authorize: a confirmation
\* whose rejection was answered is never the ground of an ALLOW.  With calls
\* that overlap it is not an invariant: approve and reject both find the
\* confirmation PENDING, both are answered, and the last write stands.
RejectedNeverAuthorizes == \A c \in told.rejected : told.uses[c] = 0

-----------------------------------------------------------------------------
(* The inductive invariant.                                                *)

\* A row that is there was granted; ONCE has been confirmed only by an answer
\* the owner was given, and a revocation he was told of is not undone.
SoundPerm(p) ==
  /\ perm[p].status # "NONE" => perm[p].grant \in Grants
  /\ perm[p].granted <= MaxTime
  /\ perm[p].once => \E c \in told.approved : conf[c].perm = p
  /\ p \in told.revoked => perm[p].status \in {"REVOKED", "EXPIRED"}

\* A confirmation names a permission that is there, and is APPROVED only if the
\* owner was told so.
SoundConf(c) ==
  /\ conf[c].status # "NONE" =>
       conf[c].perm \in Granted /\ conf[c].proposal \in Proposals
  /\ conf[c].status = "APPROVED" => c \in told.approved
  /\ c \in told.approved => conf[c].status # "NONE"

\* The permission a call has found covers what it asks for.
Covered(s) ==
  /\ s.perm \in Granted /\ s.proposal \in Proposals
  /\ perm[s.perm].grant.cap = s.proposal.cap
  /\ Authorizes(perm[s.perm].grant.scope, s.proposal.scope)
  /\ ~FinancialExecution(s.proposal.cap)

\* What a call holds stays true while others run: rows are never removed, and
\* keep their grant, permission and proposal.
SoundCall(s) ==
  /\ s.granted <= MaxTime
  /\ s.expire \subseteq Granted
  /\ s.op = "grant" => s.grant \in Grants
  /\ s.op \in {"revoke", "approve"} => s.perm \in Granted
  /\ s.op \in {"approve", "reject", "authorize"} => s.conf \in Asked
  /\ s.op = "approve" => conf[s.conf].perm = s.perm
  /\ s.op = "authorize" => Covered(s)
  /\ s.op = "decided" =>
       /\ s.decision # "DENY" => Covered(s)
       /\ s.stale \/ s.consume => s.conf \in Asked
       /\ s.decision = "ALLOW" => RestsOnConsent(s)

PermsSound == \A p \in Perms : SoundPerm(p)

ConfsSound == \A c \in Confs : SoundConf(c)

CallsSound == \A r \in Requests : SoundCall(session[r])

AllowedSound == \A a \in told.allowed : a.perm \in Granted /\ RestsOnConsent(a)

IndInv ==
  /\ TypeOK /\ now <= MaxTime
  /\ PermsSound /\ ConfsSound /\ CallsSound /\ AllowedSound

\* A confirmation that has been used is marked, and stays so: approve, reject and
\* expiry write its status only.
SoundUse(c) ==
  /\ told.uses[c] > 0 => conf[c].consumed
  /\ conf[c].status = "NONE" => told.uses[c] = 0

\* A call that is allowed by a confirmation is about to mark it.
AboutToUse(s) ==
  s.op = "decided" /\ s.decision = "ALLOW" /\ s.conf # Null => s.consume

UsesSound == \A c \in Confs : SoundUse(c)

UsersSound == \A r \in Requests : AboutToUse(session[r])

UseInv == IndInv /\ UsesSound /\ UsersSound
=============================================================================
