-------------------------- MODULE BandwidthAndRam --------------------------
(***************************************************************************)
(* Staking and the market of RAM together: they draw on the same wallets,  *)
(* and both write the resources and the limits of an account.              *)
(***************************************************************************)
EXTENDS RamMarket, Functions

vars == <<staking_vars, ram_vars>>

Init == StakingInit /\ RamInit

Tick == AgeRefunds /\ AgeRam

Next ==
    \/ StakingNext /\ UNCHANGED ram_vars
    \/ RamNext
    \/ Tick

Spec == Init /\ [][Next]_vars

TypeOK == StakingTypeOK /\ RamTypeOK

----------------------------------------------------------------------------
(* Properties *)

delegated_by(from) ==
    SumFunction([to \in Accounts |-> delband[from][to].net + delband[from][to].cpu])
NetFor(a) == SumFunction([from \in Accounts |-> delband[from][a].net])
CpuFor(a) == SumFunction([from \in Accounts |-> delband[from][a].cpu])
waiting(owner) == IF owner \in DOMAIN refunds THEN refunds[owner].net + refunds[owner].cpu ELSE 0

(***************************************************************************)
(* eosio.stake holds exactly the tokens that are delegated and those that  *)
(* wait to be refunded: using a pending refund for a new stake neither     *)
(* makes tokens nor strands them, and no refund is paid twice, whether it  *)
(* is claimed by hand, by the deferred transaction, or by both.            *)
(***************************************************************************)
StakeCovered ==
    stake_balance = SumFunction([a \in Accounts |-> delegated_by(a) + waiting(a)])

(***************************************************************************)
(* What an account may use is what all accounts together delegate to it,   *)
(* and what its vote counts for is what it delegates itself, whoever paid  *)
(* and however often stakes were moved.                                    *)
(***************************************************************************)
TotalsAgree ==
    \A a \in Accounts :
        /\ userres[a].net = NetFor(a)
        /\ userres[a].cpu = CpuFor(a)
        /\ staked[a] = delegated_by(a)

(***************************************************************************)
(* The limits in force follow the resources of an account in every         *)
(* resource the system does not manage, through stakes, trades of RAM, and *)
(* the system taking limits over and handing them back in any order.       *)
(***************************************************************************)
LimitsFollow ==
    \A a \in Accounts :
        /\ \A r \in {"net", "cpu"} : <<a, r>> \in managed \/ limits[a][r] = userres[a][r]
        /\ \/ <<a, "ram">> \in managed
           \/ limits[a].ram = userres[a].ram + RamGift
           \/ limits[a].ram = 0 /\ userres[a].ram = 0

(***************************************************************************)
(* A deferred refund is never tried before its request is old enough, so   *)
(* that it is not lost by coming early: undelegating again moves both.     *)
(***************************************************************************)
DeferredNotEarly ==
    \A a \in DOMAIN deferred \cap DOMAIN refunds : deferred[a] <= refunds[a].age

(***************************************************************************)
(* The bytes for sale and the bytes sold make up the RAM of the chain, the *)
(* bytes reserved are those of the accounts, and eosio.ram holds what the  *)
(* market has taken in beyond the tokens it was made with.                 *)
(***************************************************************************)
RamBooks ==
    /\ market.base + ram_reserved = max_ram_size
    /\ ram_reserved = SumFunction([a \in Accounts |-> userres[a].ram])
    /\ ram_balance = total_ram_stake
    /\ market.quote = RamQuote + total_ram_stake

(***************************************************************************)
(* Everybody can sell: the tokens paid for RAM suffice to buy back all the *)
(* bytes that are reserved, now or once the supply has grown, so that the  *)
(* check on total_ram_stake never fires.                                   *)
(***************************************************************************)
RamSellable ==
    \A base \in {market.base, market.base + added} :
        (ram_reserved * market.quote) \div (base + ram_reserved) <= total_ram_stake

(***************************************************************************)
(* No trade gains on the market: the product of its connectors never       *)
(* falls, so nobody takes tokens out of it by splitting or repeating       *)
(* trades, or by having the price of a number of bytes computed first.     *)
(***************************************************************************)
NoGainOnMarket == [][market'.base * market'.quote >= market.base * market.quote]_vars

(***************************************************************************)
(* The contract implements StakingPromise.                                 *)
(***************************************************************************)
bonded == [a \in Accounts |-> delegated_by(a)]
unbonding == [a \in Accounts |-> waiting(a)]
waited == [a \in Accounts |-> IF a \in DOMAIN refunds THEN refunds[a].age ELSE 0]
pot == ram_balance + ram_fees

Promise == INSTANCE StakingPromise WITH
    liquid <- wallet, bonded <- bonded, unbonding <- unbonding, waited <- waited, pot <- pot

ImplementsPromise == Promise!Spec

(***************************************************************************)
(* Fairness.  Time passes; and whoever has a refund claims it, for its     *)
(* deferred transaction may fail, or be canceled by another delegation.    *)
(***************************************************************************)
Fairness ==
    WF_vars(Tick) /\ \A owner \in Accounts : WF_vars(refund(owner) /\ UNCHANGED ram_vars)
FairSpec == Spec /\ Fairness

(***************************************************************************)
(* A stake comes back in the end to an account that stops undelegating,    *)
(* whatever it or others delegate meanwhile.                               *)
(***************************************************************************)
Undelegates(owner) ==
    \E receiver \in Accounts, stake \in Stakes : undelegatebw(owner, receiver, stake[1], stake[2])

EventuallyReturned ==
    \A owner \in Accounts :
        <>[][~Undelegates(owner)]_vars => (owner \in DOMAIN refunds ~> owner \notin DOMAIN refunds)
=============================================================================
