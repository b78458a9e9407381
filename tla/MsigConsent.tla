----------------------------- MODULE MsigConsent -----------------------------
(***************************************************************************)
(* What the multi-signature contract promises: a proposal is executed on   *)
(* the strength of permission levels that consent to it at that moment.  A *)
(* level consents once it has approved, until it revokes its approval or   *)
(* its account revokes all of its approvals.  Nothing is said of how       *)
(* approvals are stored, or of time.                                       *)
(***************************************************************************)

CONSTANTS
    Keys,           \* a proposer and the name of a proposal
    Levels,         \* permission levels: an actor and one of its permissions
    Actor,          \* Levels -> the account of a level
    Transactions,
    Sufficient      \* Transactions -> the sets of levels that authorize it

VARIABLES
    proposed,       \* Keys -> the transactions proposed and not yet executed
    consent,        \* Keys -> the levels that consent
    pending         \* Keys -> the transactions executed and not yet settled

vars == <<proposed, consent, pending>>

Authorized(S, trx) == \E T \in Sufficient[trx] : T \subseteq S

\* Rows under the keys of a proposal that comes or goes.
With(f, k, v) == [x \in DOMAIN f \cup {k} |-> IF x = k THEN v ELSE f[x]]
Drop(f, k) == [x \in DOMAIN f \ {k} |-> f[x]]

\* Proposals and approvals may be left from before.
Init ==
    /\ DOMAIN proposed \subseteq Keys
    /\ consent \in [DOMAIN proposed -> SUBSET Levels]
    /\ pending = [k \in {} |-> k]

Propose(k, trx) ==
    /\ k \notin DOMAIN proposed
    /\ proposed' = With(proposed, k, trx)
    /\ consent' = With(consent, k, {})
    /\ UNCHANGED pending

Approve(k, level) ==
    /\ k \in DOMAIN proposed
    /\ consent' = [consent EXCEPT ![k] = @ \cup {level}]
    /\ UNCHANGED <<proposed, pending>>

Revoke(k, level) ==
    /\ k \in DOMAIN proposed
    /\ consent' = [consent EXCEPT ![k] = @ \ {level}]
    /\ UNCHANGED <<proposed, pending>>

RevokeAll(account) ==
    /\ consent' = [k \in DOMAIN consent |-> {l \in consent[k] : Actor[l] # account}]
    /\ UNCHANGED <<proposed, pending>>

Withdraw(k) ==
    /\ k \in DOMAIN proposed
    /\ proposed' = Drop(proposed, k)
    /\ consent' = Drop(consent, k)
    /\ UNCHANGED pending

Execute(k) ==
    /\ k \in DOMAIN proposed /\ k \notin DOMAIN pending
    /\ Authorized(consent[k], proposed[k])
    /\ pending' = With(pending, k, proposed[k])
    /\ proposed' = Drop(proposed, k)
    /\ consent' = Drop(consent, k)

Settle(k) ==
    /\ k \in DOMAIN pending
    /\ pending' = Drop(pending, k)
    /\ UNCHANGED <<proposed, consent>>

Next ==
    \/ \E k \in Keys, trx \in Transactions : Propose(k, trx)
    \/ \E k \in Keys, level \in Levels : Approve(k, level) \/ Revoke(k, level)
    \/ \E account \in {Actor[l] : l \in Levels} : RevokeAll(account)
    \/ \E k \in Keys : Withdraw(k) \/ Execute(k) \/ Settle(k)

Spec == Init /\ [][Next]_vars
=============================================================================
