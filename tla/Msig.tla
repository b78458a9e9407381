-------------------------------- MODULE Msig --------------------------------
(***************************************************************************)
(* The multi-signature contract (contracts/eosio.msig): proposals, the     *)
(* approvals requested and provided, the invalidations of accounts, and    *)
(* the deferred transaction an execution sends.                            *)
(*                                                                         *)
(* Approvals of proposals made by an earlier version of the contract are   *)
(* in a table of their own, without times.  Every action looks for the     *)
(* proposal in the new table first.                                        *)
(***************************************************************************)
EXTENDS Naturals, SequencesExt

CONSTANTS
    Accounts,
    Keys,               \* a proposer and the name of a proposal
    Proposer,           \* Keys -> Accounts
    Levels,             \* permission levels: an actor and one of its permissions
    Actor,              \* Levels -> Accounts
    Transactions,
    Expiration,         \* Transactions -> seconds
    Sufficient,         \* Transactions -> the sets of levels that authorize it
    Requests,           \* the lists of levels a proposer may ask
    OldProposals,       \* Keys -> [trx, requested, provided], by the earlier version
    SlotsPerSecond,     \* blocks in a second: the clock counts blocks
    MaxTime             \* bound of the clock

VARIABLES
    proposals,          \* proposals: key -> transaction
    approvals,          \* approvals2: key -> [requested, provided]
    old_approvals,      \* approvals: key -> [requested, provided]
    invals,             \* invals: account -> last_invalidation_time
    deferred,           \* the transactions sent and not yet run, by sender id
    now,                \* current_time_point()
    consent             \* history: the levels that have approved and not taken it back

tables == <<proposals, approvals, old_approvals, invals>>
vars == <<tables, deferred, now, consent>>

----------------------------------------------------------------------------
\* requested keeps a time next to each level that is never read.
ApprovalType == [level : Levels, time : Nat]
ApprovalsType == [requested : Seq(Levels), provided : Seq(ApprovalType)]
OldApprovalsType == [requested : Seq(Levels), provided : Seq(Levels)]

ASSUME ConstantsAssumption ==
    /\ Proposer \in [Keys -> Accounts]
    /\ Actor \in [Levels -> Accounts]
    /\ Expiration \in [Transactions -> Nat]
    /\ Sufficient \in [Transactions -> SUBSET SUBSET Levels]
    /\ Requests \subseteq Seq(Levels)
    /\ SlotsPerSecond \in Nat \ {0} /\ MaxTime \in Nat
ASSUME OldAssumption ==
    /\ DOMAIN OldProposals \subseteq Keys
    /\ \A k \in DOMAIN OldProposals :
           /\ OldProposals[k].trx \in Transactions
           /\ OldProposals[k].requested \in Seq(Levels)
           /\ OldProposals[k].provided \in Seq(Levels)

\* A table: rows of type R under some of the keys K.
IsTable(f, K, R) == DOMAIN f \subseteq K /\ f \in [DOMAIN f -> R]

TypeOK ==
    /\ IsTable(proposals, Keys, Transactions)
    /\ IsTable(approvals, Keys, ApprovalsType)
    /\ IsTable(old_approvals, Keys, OldApprovalsType)
    /\ IsTable(invals, Accounts, Nat)
    /\ IsTable(deferred, Keys, Transactions)
    /\ IsTable(consent, Keys, SUBSET Levels)
    /\ now \in Nat

----------------------------------------------------------------------------
Put(f, k, v) == [x \in DOMAIN f \cup {k} |-> IF x = k THEN v ELSE f[x]]
Without(f, k) == [x \in DOMAIN f \ {k} |-> f[x]]

\* time_point_sec(current_time_point()): the clock cut to seconds.
seconds == now \div SlotsPerSecond

\* check_transaction_authorization: only the set of the levels matters.
Authorized(S, trx) == \E T \in Sufficient[trx] : T \subseteq S

\* find_if: i is the first position of s whose level is the one given.
FoundAt(s, level, i) == i \in DOMAIN s /\ s[i] = level /\ \A j \in 1 .. (i - 1) : s[j] # level

LevelsOf(s) == [i \in DOMAIN s |-> s[i].level]

\* Faulty variant of still_valid: an approval of the same block survives.
valid_in_same_block(p) ==
    Actor[p.level] \notin DOMAIN invals \/ invals[Actor[p.level]] <= p.time

\* exec counts an approval given after the last invalidation of its actor; an
\* approval without a time is not counted once its actor has invalidated.
still_valid(p) ==
    Actor[p.level] \notin DOMAIN invals \/ invals[Actor[p.level]] < p.time

counted_levels(k) ==
    IF k \in DOMAIN approvals
    THEN {p.level : p \in {q \in ToSet(approvals[k].provided) : still_valid(q)}}
    ELSE {l \in ToSet(old_approvals[k].provided) : Actor[l] \notin DOMAIN invals}

----------------------------------------------------------------------------
propose(k, requested, trx) ==
    /\ Expiration[trx] >= seconds
    /\ k \notin DOMAIN proposals
    /\ Authorized(ToSet(requested), trx)
    /\ k \notin DOMAIN approvals
    /\ proposals' = Put(proposals, k, trx)
    /\ approvals' = Put(approvals, k, [requested |-> requested, provided |-> <<>>])
    /\ consent' = Put(consent, k, {})
    /\ UNCHANGED <<old_approvals, invals, deferred, now>>

\* The optional hash of the transaction the approval is meant for.
hash_ok(k, hash) == hash = {} \/ (k \in DOMAIN proposals /\ hash = {proposals[k]})

approve_new(k, level) ==
    /\ k \in DOMAIN approvals
    /\ \E i \in DOMAIN approvals[k].requested :
           /\ FoundAt(approvals[k].requested, level, i)
           /\ approvals' = [approvals EXCEPT
                  ![k] = [requested |-> RemoveAt(@.requested, i),
                          provided |-> Append(@.provided, [level |-> level, time |-> now])]]
    /\ UNCHANGED old_approvals

approve_old(k, level) ==
    /\ k \notin DOMAIN approvals /\ k \in DOMAIN old_approvals
    /\ \E i \in DOMAIN old_approvals[k].requested :
           /\ FoundAt(old_approvals[k].requested, level, i)
           /\ old_approvals' = [old_approvals EXCEPT
                  ![k] = [requested |-> RemoveAt(@.requested, i),
                          provided |-> Append(@.provided, level)]]
    /\ UNCHANGED approvals

approve(k, level, hash) ==
    /\ hash_ok(k, hash)
    /\ approve_new(k, level) \/ approve_old(k, level)
    /\ consent' = [consent EXCEPT ![k] = @ \cup {level}]
    /\ UNCHANGED <<proposals, invals, deferred, now>>

\* Faulty variant of unapprove_new: the provided approval stays.
unapproved_in_part(k, level) ==
    /\ k \in DOMAIN approvals
    /\ \E i \in DOMAIN approvals[k].provided :
           /\ FoundAt(LevelsOf(approvals[k].provided), level, i)
           /\ approvals' = [approvals EXCEPT ![k].requested = Append(@, level)]
    /\ UNCHANGED old_approvals

unapprove_new(k, level) ==
    /\ k \in DOMAIN approvals
    /\ \E i \in DOMAIN approvals[k].provided :
           /\ FoundAt(LevelsOf(approvals[k].provided), level, i)
           /\ approvals' = [approvals EXCEPT
                  ![k] = [requested |-> Append(@.requested, level),
                          provided |-> RemoveAt(@.provided, i)]]
    /\ UNCHANGED old_approvals

unapprove_old(k, level) ==
    /\ k \notin DOMAIN approvals /\ k \in DOMAIN old_approvals
    /\ \E i \in DOMAIN old_approvals[k].provided :
           /\ FoundAt(old_approvals[k].provided, level, i)
           /\ old_approvals' = [old_approvals EXCEPT
                  ![k] = [requested |-> Append(@.requested, level),
                          provided |-> RemoveAt(@.provided, i)]]
    /\ UNCHANGED approvals

unapprove(k, level) ==
    /\ unapprove_new(k, level) \/ unapprove_old(k, level)
    /\ consent' = [consent EXCEPT ![k] = @ \ {level}]
    /\ UNCHANGED <<proposals, invals, deferred, now>>

\* Faulty variant of erase_proposal: only the new table is looked at.
erase_in_new_table(k) ==
    /\ proposals' = Without(proposals, k)
    /\ approvals' = Without(approvals, k) /\ UNCHANGED old_approvals

\* The end of a proposal: its row, and its approvals in one of the tables.
erase_proposal(k) ==
    /\ proposals' = Without(proposals, k)
    /\ IF k \in DOMAIN approvals
       THEN approvals' = Without(approvals, k) /\ UNCHANGED old_approvals
       ELSE /\ k \in DOMAIN old_approvals
            /\ old_approvals' = Without(old_approvals, k) /\ UNCHANGED approvals

cancel(k, canceler) ==
    /\ k \in DOMAIN proposals
    /\ canceler # Proposer[k] => Expiration[proposals[k]] < seconds
    /\ erase_proposal(k)
    /\ consent' = Without(consent, k)
    /\ UNCHANGED <<invals, deferred, now>>

\* A deferred transaction with the same sender id makes send_deferred fail.
exec(k) ==
    /\ k \in DOMAIN proposals
    /\ Expiration[proposals[k]] >= seconds
    /\ Authorized(counted_levels(k), proposals[k])
    /\ k \notin DOMAIN deferred
    /\ deferred' = Put(deferred, k, proposals[k])
    /\ erase_proposal(k)
    /\ consent' = Without(consent, k)
    /\ UNCHANGED <<invals, now>>

invalidate(account) ==
    /\ invals' = Put(invals, account, now)
    /\ consent' = [k \in DOMAIN consent |-> {l \in consent[k] : Actor[l] # account}]
    /\ UNCHANGED <<proposals, approvals, old_approvals, deferred, now>>

\* The chain runs a deferred transaction, or gives it up.
RunDeferred(k) ==
    /\ k \in DOMAIN deferred
    /\ deferred' = Without(deferred, k)
    /\ UNCHANGED <<tables, now, consent>>

Tick == now < MaxTime /\ now' = now + 1 /\ UNCHANGED <<tables, deferred, consent>>

----------------------------------------------------------------------------
Init ==
    /\ proposals = [k \in DOMAIN OldProposals |-> OldProposals[k].trx]
    /\ approvals = [k \in {} |-> k]
    /\ old_approvals = [k \in DOMAIN OldProposals |->
           [requested |-> OldProposals[k].requested, provided |-> OldProposals[k].provided]]
    /\ invals = [a \in {} |-> a]
    /\ deferred = [k \in {} |-> k]
    /\ now = 1
    /\ consent = [k \in DOMAIN OldProposals |-> ToSet(OldProposals[k].provided)]

Next ==
    \/ \E k \in Keys, requested \in Requests, trx \in Transactions : propose(k, requested, trx)
    \/ \E k \in Keys, level \in Levels, hash \in {{}} \cup {{trx} : trx \in Transactions} :
           approve(k, level, hash)
    \/ \E k \in Keys, level \in Levels : unapprove(k, level)
    \/ \E k \in Keys, canceler \in Accounts : cancel(k, canceler)
    \/ \E k \in Keys : exec(k) \/ RunDeferred(k)
    \/ \E account \in Accounts : invalidate(account)
    \/ Tick

Spec == Init /\ [][Next]_vars

----------------------------------------------------------------------------
(***************************************************************************)
(* Every proposal has its approvals in exactly one of the two tables, and  *)
(* no approvals outlive their proposal: cancel and exec erase both rows,   *)
(* approvals of a canceled proposal never count for one that takes its     *)
(* name.                                                                   *)
(***************************************************************************)
TablesAgree ==
    /\ DOMAIN proposals = DOMAIN approvals \cup DOMAIN old_approvals
    /\ DOMAIN approvals \cap DOMAIN old_approvals = {}

(***************************************************************************)
(* The contract implements MsigConsent, in which approval, revocation and  *)
(* invalidation take effect at once: what exec counts, from the times the  *)
(* two tables keep, never exceeds the consent of the moment, in whatever   *)
(* order approvals, revocations, invalidations, cancellations and new      *)
(* proposals of the same name fall, within one block or not.               *)
(***************************************************************************)
Consent == INSTANCE MsigConsent WITH
    proposed <- proposals, consent <- consent, pending <- deferred

ImplementsConsent == Consent!Spec

\* unapprove "is the reverse of the `approve` action": the level's approval no
\* longer counts.
UnapproveRevokes ==
    [][\A k \in Keys, level \in Levels :
           unapprove(k, level) => level \notin counted_levels(k)']_vars

----------------------------------------------------------------------------
(* The inductive invariant, for proposers that ask each level once *)

\* No proposer asks a level twice, nor did one with the earlier version.
EachOnce(requested, provided) ==
    /\ IsInjective(requested) /\ IsInjective(provided)
    /\ ToSet(requested) \cap ToSet(provided) = {}
AskedOnce ==
    /\ \A requested \in Requests : IsInjective(requested)
    /\ \A k \in DOMAIN OldProposals :
           EachOnce(OldProposals[k].requested, OldProposals[k].provided)

\* A level is listed once, as requested or as provided.
ListedOnce ==
    /\ \A k \in DOMAIN approvals :
           EachOnce(approvals[k].requested, LevelsOf(approvals[k].provided))
    /\ \A k \in DOMAIN old_approvals :
           EachOnce(old_approvals[k].requested, old_approvals[k].provided)

\* Approvals and invalidations are not in the future.
TimesPassed ==
    \A k \in DOMAIN approvals : \A p \in ToSet(approvals[k].provided) : p.time <= now

\* What exec counts is consented to.
CountedConsent ==
    /\ DOMAIN consent = DOMAIN proposals
    /\ \A k \in DOMAIN proposals : counted_levels(k) \subseteq consent[k]

IInv == TypeOK /\ TablesAgree /\ ListedOnce /\ TimesPassed /\ CountedConsent
=============================================================================
