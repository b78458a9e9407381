------------------------------ MODULE DexLedger ------------------------------
(***************************************************************************)
(* The exchange's books balance: what the contract holds in custody, what  *)
(* it owes to its users, what open orders have left of the frozen funds,   *)
(* and what the deals say.                                                 *)
(***************************************************************************)
EXTENDS Dex, Functions

ASSUME FiniteAccounts == IsFiniteSet(Accounts)

\* What the contract holds at the start is what its users have deposited.
ASSUME InitialBooks ==
    \A token \in Tokens :
        InitialBank[Self][token] = SumFunction([a \in Accounts |-> InitialAccounts[a][token]])

\* The orders, with the totals that the iterators have not yet written back.
Live == SavedOrders

FeeInCoins(o) == IF o.fee_symbol = "coin" THEN o.matched_fee ELSE 0

\* The token an order's funds are frozen in.
FundsToken(o) == frozen_token(sympairs[o.sympair_id], o.order_side)

\* What deals have taken from the frozen funds of an order.
Spent(o) == IF o.order_side = "buy" THEN o.matched_coins + FeeInCoins(o) ELSE o.matched_assets

\* What is left of the frozen funds in the contract's hands, on top of the
\* users' balances.  A completed limit buy order has been refunded; a completed
\* market order keeps what it did not spend.  A canceled buy order was given its
\* frozen coins back without the fee its deals had already paid.
Retained(o) ==
    CASE o.status = "matchable" -> o.frozen_quant - Spent(o)
      [] o.status = "completed" -> IF o.order_type = "limit" THEN 0 ELSE o.frozen_quant - Spent(o)
      [] o.status = "canceled"  -> IF o.order_side = "buy" THEN -FeeInCoins(o) ELSE 0

Owed(accts, token) == SumFunction([a \in Accounts |-> accts[a][token]])
\* Every status an order can have.
Statuses == {"matchable", "completed", "canceled"}
RetainedIn(tbl, token, statuses) ==
    LET I == {i \in DOMAIN tbl : tbl[i].status \in statuses /\ FundsToken(tbl[i]) = token}
    IN  SumFunction([i \in I |-> Retained(tbl[i])])

BooksBalance(tbl, accts) ==
    \A token \in Tokens :
        bank[Self][token] =
            Owed(accts, token) + RetainedIn(tbl, token, Statuses)

(***************************************************************************)
(* Exact accounting, at every step of every transaction: custody is what   *)
(* is owed to users plus what orders retain.  It ties the deposits, the    *)
(* freezing of new_order, the six credits of a deal, the refunds, cancel   *)
(* and withdraw to the token contract's balance.                           *)
(***************************************************************************)
LedgerExact == BooksBalance(Live, accounts)

CustodyCovers(tbl, accts) ==
    \A token \in Tokens :
        bank[Self][token] >= Owed(accts, token) + RetainedIn(tbl, token, {"matchable"})

(***************************************************************************)
(* Solvency: custody covers every balance and every open order, so that    *)
(* each user can cancel and withdraw whatever the others do.               *)
(***************************************************************************)
Solvent == CustodyCovers(Live, accounts)

FeeOf(i, deal) == IF deal.buy_order_id = i THEN deal.buy_fee ELSE deal.sell_fee

\* The totals of an order are the sums over its deals.
TotalsOf(o, dls) ==
    LET D == {d \in DOMAIN dls : o.order_id \in {dls[d].buy_order_id, dls[d].sell_order_id}}
    IN  /\ o.matched_assets = SumFunction([d \in D |-> dls[d].deal_assets])
        /\ o.matched_coins = SumFunction([d \in D |-> dls[d].deal_coins])
        /\ o.matched_fee = SumFunction([d \in D |-> FeeOf(o.order_id, dls[d])])

\* The totals of all orders are those sums, when no deal has been erased.
AllDeals(dls, last) == DOMAIN dls = 1 .. last
TotalsMatch(tbl, dls, last) ==
    AllDeals(dls, last) => \A i \in DOMAIN tbl : TotalsOf(tbl[i], dls)

(***************************************************************************)
(* The totals of an order are the sums over its deals, as long as no deal  *)
(* has been erased: the caches of the iterators lose and repeat nothing    *)
(* between loading a row and writing it back.                              *)
(***************************************************************************)
TotalsMatchDeals == TotalsMatch(Live, deals, global.deal_item_id)

----------------------------------------------------------------------------
(* The inductive invariant *)

\* An iterator that has made no deal caches the totals of its row; a completed
\* one has moved on; and between two pairs every iterator is closed.
CachesFresh ==
    \A b \in Books :
        LET it == its[b]
            o == orders[it.order_id]
        IN  /\ is_valid(it) => txn.phase = "matching"
            /\ ~is_completed(it) /\ it.refund_coins = 0
            /\ it.status = "opened" =>
                   /\ it.matched_assets = o.matched_assets /\ it.matched_coins = o.matched_coins
                   /\ it.matched_fee = o.matched_fee /\ it.last_deal_id = o.last_deal_id

\* An order knows its pair; an order that does not buy froze the assets it sells.
RowsFunded(tbl) ==
    \A i \in DOMAIN tbl :
        /\ tbl[i].sympair_id \in DOMAIN sympairs
        /\ tbl[i].order_side # "buy" =>
               tbl[i].frozen_quant = tbl[i].limit_quant /\ tbl[i].fee_symbol = "coin"

\* Undoing a transaction neither adds nor removes a pair, nor changes its tokens.
PairsKept ==
    txn.phase # "idle" =>
        /\ DOMAIN undo.sympairs = DOMAIN sympairs
        /\ \A p \in DOMAIN sympairs :
               /\ undo.sympairs[p].asset_symbol = sympairs[p].asset_symbol
               /\ undo.sympairs[p].coin_symbol = sympairs[p].coin_symbol
               /\ undo.sympairs[p].only_accept_coin_fee = sympairs[p].only_accept_coin_fee

\* A completed order was completed by a deal that is in the table and names it.
Completed(tbl, dls) ==
    \A i \in DOMAIN tbl :
        tbl[i].status = "completed" =>
            /\ tbl[i].last_deal_id \in DOMAIN dls
            /\ i \in {dls[tbl[i].last_deal_id].buy_order_id,
                      dls[tbl[i].last_deal_id].sell_order_id}

(***************************************************************************)
(* What matching keeps besides IInv: what the caches, the rows and the     *)
(* copy that a failed transaction restores have to do with each other.     *)
(***************************************************************************)
CachesInv ==
    /\ CachesFresh
    /\ RowsFunded(orders) /\ RowsFunded(undo.orders)
    /\ PairsKept
    /\ Completed(orders, deals)
    /\ txn.phase # "idle" => Completed(undo.orders, undo.deals)

\* The deals of an order are not newer than its last one, and no order of a deal is gone.
DealsFollow(tbl, dls, last) ==
    /\ DOMAIN dls \subseteq 1 .. last
    /\ \A d \in DOMAIN dls : \A i \in {dls[d].buy_order_id, dls[d].sell_order_id} :
           i \in DOMAIN tbl /\ d <= tbl[i].last_deal_id

(***************************************************************************)
(* What the deals have to do with the orders, as long as the ids of deals  *)
(* have not been used up.                                                  *)
(***************************************************************************)
DealsGood(tbl, dls, last) == DealsFollow(tbl, dls, last) /\ TotalsMatch(tbl, dls, last)
DealsInv ==
    /\ DealsGood(Live, deals, global.deal_item_id)
    /\ txn.phase # "idle" => DealsGood(undo.orders, undo.deals, undo.global.deal_item_id)

(***************************************************************************)
(* The books balance, and would balance again if the transaction failed.   *)
(***************************************************************************)
LedgerInv == LedgerExact /\ (txn.phase # "idle" => BooksBalance(undo.orders, undo.accounts))

\* No pair takes the fee of its buy orders in coins.
NoCoinFee == \A p \in DOMAIN sympairs : ~sympairs[p].only_accept_coin_fee
FeesInAssets(tbl) == \A i \in DOMAIN tbl : tbl[i].order_side = "buy" => tbl[i].fee_symbol = "asset"

(***************************************************************************)
(* Custody suffices, and would suffice again if the transaction failed.    *)
(***************************************************************************)
SolventInv ==
    /\ FeesInAssets(orders) /\ FeesInAssets(undo.orders)
    /\ Solvent
    /\ txn.phase # "idle" => CustodyCovers(undo.orders, undo.accounts)

(***************************************************************************)
(* The largest quantity and the largest price orders are placed with, such *)
(* that the products of the arithmetic stay within 64 bits.                *)
(***************************************************************************)
InRange(Q, P) ==
    /\ LimitQuants \subseteq 1 .. Q /\ Prices \subseteq 0 .. P
    /\ \A t \in Tokens : multiply_fits(Q, P, Precision[t]) /\ divide_fits(Q, 1, Precision[t])
AmountsInRange == \E Q, P \in Nat : InRange(Q, P)

\* An order that can be matched has something left to be matched.
RowOpen(o) ==
    /\ o.limit_quant \in LimitQuants /\ o.price \in Prices
    /\ o.status = "matchable" => free_limit_quant(o, o) > 0
EngineInv ==
    /\ \A i \in DOMAIN Live : RowOpen(Live[i])
    /\ txn.phase # "idle" => \A i \in DOMAIN undo.orders : RowOpen(undo.orders[i])

\* Every price is a whole number of coins for the smallest unit of every asset.
WholePrices == \A p \in Prices, t \in Tokens : p % Precision[t] = 0

\* What a buy order has been matched for costs no more than what it has frozen for it.
RowPaid(o) ==
    LET cost(assets) ==
            calc_coin_amount(assets, o.price, Precision[sympairs[o.sympair_id].asset_symbol])
    IN  /\ o.price \in Prices
        /\ o.order_side = "buy" =>
               /\ o.fee_symbol = "asset"
               /\ o.order_type # "limit" => o.frozen_quant = o.limit_quant
               /\ o.order_type = "limit" =>
                      /\ o.frozen_quant = cost(o.limit_quant)
                      /\ o.matched_coins <= cost(o.matched_assets)
FrozenInv ==
    /\ \A i \in DOMAIN Live : RowPaid(Live[i])
    /\ txn.phase # "idle" => \A i \in DOMAIN undo.orders : RowPaid(undo.orders[i])

\* A completed market order has spent all it had frozen.
RowSpent(o) ==
    /\ o.order_side = "buy" /\ o.order_type # "limit" => o.frozen_quant = o.limit_quant
    /\ o.status = "completed" /\ o.order_type # "limit" =>
           o.frozen_quant = IF o.order_side = "buy" THEN o.matched_coins ELSE o.matched_assets
SpentInv ==
    /\ \A i \in DOMAIN Live : RowSpent(Live[i])
    /\ txn.phase # "idle" => \A i \in DOMAIN undo.orders : RowSpent(undo.orders[i])
=============================================================================
