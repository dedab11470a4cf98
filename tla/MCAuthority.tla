---------------------------- MODULE MCAuthority -----------------------------
(***************************************************************************)
(* Instances of Authority: a destructive capability, whose every use is    *)
(* high risk, and a financial one, which is never allowed.                 *)
(***************************************************************************)
EXTENDS Authority, TLC

CONSTANTS device, send, pay

Destructive == [risk |-> 1, privacy |-> TRUE, external |-> FALSE,
                destructive |-> TRUE, financial |-> FALSE]
Payment == [risk |-> 0, privacy |-> FALSE, external |-> TRUE,
            destructive |-> FALSE, financial |-> TRUE]

Scope(ids, ops) == [type |-> "notification", ids |-> ids, ops |-> ops]
One == Scope({1}, {send})
Both == Scope({1, 2}, {send})
Pay == Scope({}, {pay})

MCGrant(cap, scope, dev, policy, expires) ==
  [cap |-> cap, scope |-> scope, device |-> dev, policy |-> policy,
   expires |-> expires]

MCProposal(cap, action, scope) == [cap |-> cap, action |-> action, scope |-> scope]

\* One grant and one proposal: calls race for a confirmation.
RaceCapabilities == {Destructive}
RaceProposals == {MCProposal(Destructive, send, One)}
RaceGrants == {MCGrant(Destructive, Both, Null, "EVERY_TIME", Null)}

\* Two permissions, of which one replaces the other while a confirmation names
\* the first: one has a deadline, one needs a confirmation once and covers less.
\* A confirmation for one scope may come with a proposal for the other.
TwoProposals == RaceProposals \cup {MCProposal(Destructive, send, Both)}
TwoGrants == {MCGrant(Destructive, Both, Null, "HIGH_RISK_ONLY", 1),
              MCGrant(Destructive, One, Null, "ONCE", Null)}

\* Every policy but EVERY_TIME, a grant for ONCE that is bound to a device, and
\* a capability that is never allowed.
WideCapabilities == {Destructive, Payment}
WideProposals == TwoProposals \cup {MCProposal(Payment, pay, Pay)}
WideGrants == {MCGrant(Destructive, Both, Null, "HIGH_RISK_ONLY", Null),
               MCGrant(Destructive, Both, Null, "HIGH_RISK_ONLY", 1),
               MCGrant(Destructive, One, device, "ONCE", Null),
               MCGrant(Payment, Pay, Null, "NEVER", Null)}

Symmetry == Permutations(Requests) \cup Permutations(Confs)
=============================================================================
