------------------------------ MODULE Staking ------------------------------
(***************************************************************************)
(* Staking for bandwidth in the system contract (delegate_bandwidth.cpp):  *)
(* tokens delegated to oneself or to others, undelegated into a refund     *)
(* that can be claimed after a delay, and the resource limits that follow, *)
(* unless the system manages them (eosio.system.cpp).                      *)
(*                                                                         *)
(* A row the contract erases once it is empty is kept as a row of zeros.   *)
(* Times are ages, counted in ticks up to the delay of a refund.           *)
(***************************************************************************)
EXTENDS Integers, FiniteSets

CONSTANTS
    Accounts,           \* the accounts that stake
    Funds,              \* Accounts -> the tokens each one brings
    Stakes,             \* the <<net, cpu>> quantities that are staked and unstaked
    RefundDelay,        \* refund_delay_sec, in ticks
    RamGift,            \* ram_gift_bytes: the RAM of an account that bought none
    Settings            \* the <<account, resource, value>> by which the system sets limits

Resources == {"ram", "net", "cpu"}

ASSUME AccountsAssumption == IsFiniteSet(Accounts)

ASSUME StakingAssumption ==
    /\ Funds \in [Accounts -> Nat]
    /\ Stakes \subseteq (Nat \X Nat) \ {<<0, 0>>}
    /\ RefundDelay \in Nat /\ RamGift \in Nat
    /\ Settings \subseteq Accounts \X Resources \X Nat

VARIABLES
    wallet,             \* the tokens of each account
    stake_balance,      \* the tokens of eosio.stake
    delband,            \* who delegates -> to whom -> net and cpu
    userres,            \* account -> the net, cpu and bytes of RAM it is entitled to
    refunds,            \* account -> net, cpu and age of its refund request
    deferred,           \* account -> age of its deferred refund transaction
    staked,             \* account -> the stake its vote counts for
    managed,            \* the <<account, resource>> that the system manages
    limits              \* account -> the limits in force

bandwidth_vars == <<stake_balance, delband, refunds, deferred, staked>>
staking_vars == <<wallet, userres, managed, limits, bandwidth_vars>>

Bandwidth == [net : Nat, cpu : Nat]
Requests == [net : Nat, cpu : Nat, age : Nat]
Held == [ram : Nat, net : Nat, cpu : Nat]

StakingTypeOK ==
    /\ wallet \in [Accounts -> Nat]
    /\ stake_balance \in Nat
    /\ delband \in [Accounts -> [Accounts -> Bandwidth]]
    /\ userres \in [Accounts -> Held]
    /\ DOMAIN refunds \subseteq Accounts /\ refunds \in [DOMAIN refunds -> Requests]
    /\ DOMAIN deferred \subseteq Accounts /\ deferred \in [DOMAIN deferred -> Nat]
    /\ staked \in [Accounts -> Nat]
    /\ managed \subseteq Accounts \X Resources
    /\ limits \in [Accounts -> Held]

Nothing == [net |-> 0, cpu |-> 0]
NoResources == [ram |-> 0, net |-> 0, cpu |-> 0]
Empty == [x \in {} |-> x]
Put(f, k, v) == [x \in DOMAIN f \cup {k} |-> IF x = k THEN v ELSE f[x]]
Without(f, k) == [x \in DOMAIN f \ {k} |-> f[x]]
Larger(m, n) == IF m < n THEN n ELSE m
AtLeast0(n) == Larger(0, n)

StakingInit ==
    /\ wallet = Funds /\ stake_balance = 0
    /\ delband = [from \in Accounts |-> [to \in Accounts |-> Nothing]]
    /\ userres = [a \in Accounts |-> NoResources]
    /\ refunds = Empty /\ deferred = Empty
    /\ staked = [a \in Accounts |-> 0]
    /\ managed = {}
    /\ limits = [a \in Accounts |-> NoResources]

----------------------------------------------------------------------------
(* The parts of changebw                                                   *)

update_delegated(from, receiver, net, cpu) ==
    /\ delband[from][receiver].net + net >= 0
    /\ delband[from][receiver].cpu + cpu >= 0
    /\ delband' = [delband EXCEPT ![from][receiver] = [net |-> @.net + net, cpu |-> @.cpu + cpu]]

\* Faulty variant of limits_of: a limit is left behind once anything is managed.
limits_of_any_managed(account, held) ==
    IF \E r \in Resources : <<account, r>> \in managed THEN limits[account]
    ELSE [ram |-> Larger(held.ram + RamGift, limits[account].ram),
          net |-> held.net, cpu |-> held.cpu]

\* The limits of an account that holds these resources.
limits_of(account, held) ==
    LET kept(resource, own) ==
            IF <<account, resource>> \in managed THEN limits[account][resource] ELSE own
    IN  IF {<<account, "net">>, <<account, "cpu">>} \subseteq managed THEN limits[account]
        ELSE [ram |-> kept("ram", Larger(held.ram + RamGift, limits[account].ram)),
              net |-> kept("net", held.net),
              cpu |-> kept("cpu", held.cpu)]

update_totals(receiver, net, cpu) ==
    LET held == [ram |-> userres[receiver].ram,
                 net |-> userres[receiver].net + net, cpu |-> userres[receiver].cpu + cpu]
    IN  /\ held.net >= 0 /\ held.cpu >= 0
        /\ userres' = [userres EXCEPT ![receiver] = held]
        /\ limits' = [limits EXCEPT ![receiver] = limits_of(receiver, held)]

requested(from) ==
    IF from \in DOMAIN refunds THEN refunds[from] ELSE [net |-> 0, cpu |-> 0, age |-> 0]

\* Faulty variant of refund_left: the age of an earlier request counts for a later one.
refund_left_aged(from, net, cpu) ==
    [net |-> AtLeast0(requested(from).net - net),
     cpu |-> AtLeast0(requested(from).cpu - cpu),
     age |-> requested(from).age]

\* Faulty variant of refund_left: the request is not held at zero when the stake exceeds it.
refund_left_owed(from, net, cpu) ==
    [net |-> requested(from).net - net, cpu |-> requested(from).cpu - cpu,
     age |-> IF net < 0 \/ cpu < 0 THEN 0 ELSE requested(from).age]

\* What is left of a refund request after a change of the stake; undelegating starts it again.
refund_left(from, net, cpu) ==
    [net |-> AtLeast0(requested(from).net - net),
     cpu |-> AtLeast0(requested(from).cpu - cpu),
     age |-> IF net < 0 \/ cpu < 0 THEN 0 ELSE requested(from).age]

\* What a stake costs beyond the pending refund it uses up.
still_due(from, net, cpu) ==
    AtLeast0(net - requested(from).net) + AtLeast0(cpu - requested(from).cpu)

\* Faulty variant of reschedule: the transaction of an earlier request is kept.
reschedule_once(from, left) ==
    IF left.net + left.cpu = 0 THEN Without(deferred, from)
    ELSE IF from \in DOMAIN deferred THEN deferred ELSE Put(deferred, from, 0)

\* The transaction of an earlier request is replaced, or canceled when nothing is left.
reschedule(from, left) ==
    IF left.net + left.cpu = 0 THEN Without(deferred, from) ELSE Put(deferred, from, 0)

\* Delegating to oneself, and undelegating, first use the pending refund.
UseRefund(from, net, cpu) ==
    LET left == refund_left(from, net, cpu)
    IN  /\ refunds' = IF left.net + left.cpu = 0 THEN Without(refunds, from)
                      ELSE Put(refunds, from, left)
        /\ deferred' = reschedule(from, left)

\* Delegating to another leaves the refund alone, but cancels its transaction.
LeaveRefund(from) ==
    /\ refunds' = refunds
    /\ deferred' = Without(deferred, from)

pay_stake(payer, due) ==
    /\ due <= wallet[payer]
    /\ wallet' = [wallet EXCEPT ![payer] = @ - due]
    /\ stake_balance' = stake_balance + due

\* Faulty variant of update_voting_power: the vote keeps the stake that is undelegated.
update_voting_power_kept(from, delta) ==
    /\ staked[from] + delta >= 0
    /\ staked' = [staked EXCEPT ![from] = @ + AtLeast0(delta)]

update_voting_power(from, delta) ==
    /\ staked[from] + delta >= 0
    /\ staked' = [staked EXCEPT ![from] = @ + delta]

changebw(payer, receiver, net, cpu, transfer) ==
    LET from == IF transfer THEN receiver ELSE payer
        refundable == net + cpu < 0 \/ (~transfer /\ from = receiver)
    IN  /\ update_delegated(from, receiver, net, cpu)
        /\ update_totals(receiver, net, cpu)
        /\ IF refundable
           THEN UseRefund(from, net, cpu) /\ pay_stake(payer, still_due(from, net, cpu))
           ELSE LeaveRefund(from) /\ pay_stake(payer, AtLeast0(net + cpu))
        /\ update_voting_power(from, net + cpu)
        /\ UNCHANGED managed

----------------------------------------------------------------------------
(* The actions                                                             *)

delegatebw(from, receiver, net, cpu, transfer) ==
    /\ ~transfer \/ from # receiver
    /\ changebw(from, receiver, net, cpu, transfer)

\* The chain is taken to be activated: before that nothing is undelegated.
undelegatebw(from, receiver, net, cpu) == changebw(from, receiver, -net, -cpu, FALSE)

\* Faulty variant of pay_refund: the tokens are paid and the request stays.
pay_refund_again(owner) ==
    LET amount == refunds[owner].net + refunds[owner].cpu
    IN  /\ owner \in DOMAIN refunds
        /\ refunds[owner].age >= RefundDelay
        /\ amount <= stake_balance
        /\ wallet' = [wallet EXCEPT ![owner] = @ + amount]
        /\ stake_balance' = stake_balance - amount
        /\ UNCHANGED refunds

pay_refund(owner) ==
    LET amount == refunds[owner].net + refunds[owner].cpu
    IN  /\ owner \in DOMAIN refunds
        /\ refunds[owner].age >= RefundDelay
        /\ amount <= stake_balance
        /\ wallet' = [wallet EXCEPT ![owner] = @ + amount]
        /\ stake_balance' = stake_balance - amount
        /\ refunds' = Without(refunds, owner)

\* Claiming a refund by hand leaves its deferred transaction behind.
refund(owner) ==
    /\ pay_refund(owner)
    /\ UNCHANGED <<delband, userres, deferred, staked, managed, limits>>

\* The deferred refund runs after its delay, late perhaps, and it may fail.
RunDeferred(owner) ==
    /\ owner \in DOMAIN deferred /\ deferred[owner] >= RefundDelay
    /\ deferred' = Without(deferred, owner)
    /\ pay_refund(owner) \/ UNCHANGED <<wallet, stake_balance, refunds>>
    /\ UNCHANGED <<delband, userres, staked, managed, limits>>

\* setacctram, setacctnet and setacctcpu with a value: the system takes a limit over.
setacct(account, resource, value) ==
    /\ managed' = managed \cup {<<account, resource>>}
    /\ limits' = [limits EXCEPT ![account][resource] = value]
    /\ UNCHANGED <<wallet, userres, bandwidth_vars>>

own_limit(account, resource) ==
    IF resource = "ram" THEN userres[account].ram + RamGift ELSE userres[account][resource]

\* The same actions without a value: the limit follows what the account holds again.
unsetacct(account, resource) ==
    /\ <<account, resource>> \in managed
    /\ managed' = managed \ {<<account, resource>>}
    /\ limits' = [limits EXCEPT ![account][resource] = own_limit(account, resource)]
    /\ UNCHANGED <<wallet, userres, bandwidth_vars>>

\* Ages are not counted beyond the delay.
older(age) == IF age < RefundDelay THEN age + 1 ELSE age

AgeRefunds ==
    /\ refunds' = [owner \in DOMAIN refunds |-> [refunds[owner] EXCEPT !.age = older(@)]]
    /\ deferred' = [owner \in DOMAIN deferred |-> older(deferred[owner])]
    /\ UNCHANGED <<wallet, stake_balance, delband, userres, staked, managed, limits>>

StakingNext ==
    \/ \E from, receiver \in Accounts, stake \in Stakes :
           \/ \E transfer \in BOOLEAN : delegatebw(from, receiver, stake[1], stake[2], transfer)
           \/ undelegatebw(from, receiver, stake[1], stake[2])
    \/ \E owner \in Accounts : refund(owner) \/ RunDeferred(owner)
    \/ \E s \in Settings : setacct(s[1], s[2], s[3]) \/ unsetacct(s[1], s[2])
=============================================================================
