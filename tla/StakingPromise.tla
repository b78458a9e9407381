-------------------------- MODULE StakingPromise --------------------------
(***************************************************************************)
(* What staking promises.  The tokens an account stakes stay its own: they *)
(* are bonded while they are delegated, to whomever, and unbonding while   *)
(* they wait for the delay.  Unbonding tokens can be bonded again at once, *)
(* and come back all together, once, and only when the account has         *)
(* unbonded nothing for the length of the delay.  Whoever transfers what   *)
(* it stakes for another gives the tokens away.                            *)
(***************************************************************************)
EXTENDS Integers

CONSTANTS Accounts, RefundDelay

VARIABLES
    liquid,             \* account -> the tokens it is free to use
    bonded,             \* account -> the tokens it has delegated
    unbonding,          \* account -> the tokens it waits for
    waited,             \* account -> the time since it last unbonded, up to the delay
    pot                 \* the tokens in the market of RAM

vars == <<liquid, bonded, unbonding, waited, pot>>

Init ==
    /\ liquid \in [Accounts -> Nat]
    /\ bonded = [a \in Accounts |-> 0] /\ unbonding = [a \in Accounts |-> 0]
    /\ waited = [a \in Accounts |-> 0]
    /\ pot = 0

Bond(payer, owner, fresh, used) ==
    /\ used > 0 => payer = owner
    /\ liquid' = [liquid EXCEPT ![payer] = @ - fresh]
    /\ unbonding' = [unbonding EXCEPT ![owner] = @ - used]
    /\ bonded' = [bonded EXCEPT ![owner] = @ + fresh + used]
    /\ waited' = [waited EXCEPT ![owner] = IF used = unbonding[owner] THEN 0 ELSE @]
    /\ UNCHANGED pot

Unbond(owner, amount) ==
    /\ bonded' = [bonded EXCEPT ![owner] = @ - amount]
    /\ unbonding' = [unbonding EXCEPT ![owner] = @ + amount]
    /\ waited' = [waited EXCEPT ![owner] = 0]
    /\ UNCHANGED <<liquid, pot>>

Return(owner) ==
    /\ unbonding[owner] > 0 /\ waited[owner] >= RefundDelay
    /\ liquid' = [liquid EXCEPT ![owner] = @ + unbonding[owner]]
    /\ unbonding' = [unbonding EXCEPT ![owner] = 0]
    /\ waited' = [waited EXCEPT ![owner] = 0]
    /\ UNCHANGED <<bonded, pot>>

\* What an account is free to use can be spent on RAM, or come from its sale.
Trade(account, tokens) ==
    /\ liquid' = [liquid EXCEPT ![account] = @ - tokens]
    /\ pot' = pot + tokens
    /\ UNCHANGED <<bonded, unbonding, waited>>

Wait ==
    /\ waited' = [a \in Accounts |-> IF unbonding[a] > 0 /\ waited[a] < RefundDelay
                                     THEN waited[a] + 1 ELSE waited[a]]
    /\ UNCHANGED <<liquid, bonded, unbonding, pot>>

Next ==
    \/ \E payer, owner \in Accounts :
           \E fresh \in 0..liquid[payer], used \in 0..unbonding[owner] :
               Bond(payer, owner, fresh, used)
    \/ \E owner \in Accounts : \E amount \in 1..bonded[owner] : Unbond(owner, amount)
    \/ \E owner \in Accounts : Return(owner)
    \/ \E account \in Accounts : \E tokens \in -pot..liquid[account] : Trade(account, tokens)
    \/ Wait

Spec == Init /\ [][Next]_vars
=============================================================================
