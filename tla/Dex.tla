-------------------------------- MODULE Dex --------------------------------
(***************************************************************************)
(* The exchange contract (contracts/dex): internal balances, symbol pairs, *)
(* orders, deals and the matching loop, together with the token balances   *)
(* it holds in custody.                                                    *)
(*                                                                         *)
(* A blockchain transaction is atomic.  The actions that do not match run  *)
(* in one step.  A transaction that matches (an order placement, or the    *)
(* match action) is a sequence of steps, one per iteration of the loop of  *)
(* match_sympair; nothing else runs in between, and a failed CHECK restores*)
(* the tables as they were before it began.                                *)
(***************************************************************************)
EXTENDS DexMatch, Sequences

CONSTANTS
    Accounts,           \* account names, the contract's own among them
    Self,               \* get_self()
    Traders,            \* the accounts that deposit, order and withdraw
    Tokens,             \* extended symbols
    Precision,          \* Tokens -> 10 ^ number of decimals
    DEX_MATCH_COUNT_MAX,
    Uint64Max,
    InitialConfig,
    InitialSympairs,    \* the pairs (a sequence), internal and bank balances
    InitialAccounts,    \* at the start of a behaviour
    InitialBank,
    Configs,            \* the inputs of the actions
    PairInputs,
    TransferQuants,
    LimitQuants,
    Prices,
    OrderKinds,
    OrderConfigs,
    MatchCounts,
    MatchLists,
    CleanCounts,
    MaxSympairs,        \* bounds: pairs created, orders placed, block time
    MaxOrders,
    MaxTime

VARIABLES
    config,     \* _conf_tbl, or the default configuration
    sympairs,   \* sympair_tbl: id -> row
    orders,     \* order_tbl: id -> row
    deals,      \* deal_tbl: id -> row
    global,     \* the id counters
    accounts,   \* account_tbl: internal balance per account and token
    bank,       \* the token contracts' balances
    now,        \* current_block_time()
    txn,        \* the matching transaction being executed
    its,        \* the order iterators of the pair being matched
    undo        \* what a failed transaction restores

tables == <<sympairs, orders, deals, global, accounts>>
matching == <<txn, its, undo>>
vars == <<config, tables, bank, now, matching>>

----------------------------------------------------------------------------
(* Types *)

Ids == 0 .. Uint64Max
OrderTypes == {"limit", "market", "none"}
OrderSides == {"buy", "sell", "none"}
Ratios == 0 .. FEE_RATIO_MAX

ConfigType ==
    [dex_enabled : BOOLEAN, dex_admin : Accounts, dex_fee_collector : Accounts,
     maker_fee_ratio : Int, taker_fee_ratio : Int,
     max_match_count : Nat, admin_sign_required : BOOLEAN, data_recycle_sec : Nat]
ValidConfigType ==
    {c \in ConfigType : c.maker_fee_ratio \in Ratios /\ c.taker_fee_ratio \in Ratios}

SympairType ==
    [asset_symbol : Tokens, coin_symbol : Tokens, latest_deal_price : Nat,
     only_accept_coin_fee : BOOLEAN, enabled : BOOLEAN]

OrderType ==
    [order_id : Ids, owner : Accounts, sympair_id : Ids,
     order_type : OrderTypes, order_side : OrderSides,
     price : Nat, limit_quant : Nat, frozen_quant : Nat,
     taker_fee_ratio : Ratios, maker_fee_ratio : Ratios,
     matched_assets : Nat, matched_coins : Nat, matched_fee : Nat,
     fee_symbol : {"asset", "coin"},
     status : {"matchable", "completed", "canceled"},
     last_updated_at : Nat, last_deal_id : Ids]

DealType ==
    [sympair_id : Ids, buy_order_id : Ids, sell_order_id : Ids,
     deal_assets : Nat, deal_coins : Nat, deal_price : Nat,
     taker_side : {"buy", "sell"}, buy_fee : Nat, sell_fee : Nat,
     buy_refund_coins : Nat, deal_time : Nat]

GlobalType == [order_id : Ids, sympair_id : Ids, deal_item_id : Ids]

BalancesType == [Accounts -> [Tokens -> Nat]]

ItType ==
    [status : {"closed", "opened", "matching", "completed"}, order_id : Ids,
     matched_assets : Nat, matched_coins : Nat, matched_fee : Nat,
     refund_coins : Nat, last_deal_id : Ids]

TxnType ==
    [phase : {"idle", "select", "matching"}, kind : {"order", "match"},
     pairs : Seq(Ids), sympair_id : Ids, max_count : Nat, matched_count : Nat,
     latest_deal_price : Nat]

\* A table: rows of type R under some of the ids.
IsTable(f, R) == DOMAIN f \subseteq Ids /\ f \in [DOMAIN f -> R]

TablesOK(t) ==
    /\ IsTable(t.sympairs, SympairType)
    /\ IsTable(t.orders, OrderType)
    /\ IsTable(t.deals, DealType)
    /\ t.global \in GlobalType
    /\ t.accounts \in BalancesType

EmptyTable == [i \in {} |-> i]
Tables == [sympairs |-> sympairs, orders |-> orders, deals |-> deals,
           global |-> global, accounts |-> accounts]

Idle == [phase |-> "idle", kind |-> "order", pairs |-> <<>>, sympair_id |-> 0,
         max_count |-> 0, matched_count |-> 0, latest_deal_price |-> 0]
NoIts == [b \in Books |-> ClosedIt]
NoUndo == [sympairs |-> EmptyTable, orders |-> EmptyTable, deals |-> EmptyTable,
           global |-> [order_id |-> 0, sympair_id |-> 0, deal_item_id |-> 0],
           accounts |-> InitialAccounts]

ASSUME ConstantsAssumption ==
    /\ Self \in Accounts /\ Traders \subseteq Accounts
    /\ Precision \in [Tokens -> Nat \ {0}]
    /\ DEX_MATCH_COUNT_MAX \in Nat
    /\ Uint64Max \in Nat \ {0}
    /\ MaxSympairs \in Nat /\ MaxOrders \in Nat /\ MaxTime \in Nat
ASSUME InitialAssumption ==
    /\ InitialConfig \in ValidConfigType
    /\ InitialSympairs \in Seq(SympairType) /\ Len(InitialSympairs) <= Uint64Max
    /\ InitialAccounts \in BalancesType
    /\ InitialBank \in BalancesType
ASSUME InputsAssumption ==
    /\ Configs \subseteq ConfigType
    /\ PairInputs \subseteq Tokens \X Tokens
    /\ TransferQuants \subseteq Nat /\ LimitQuants \subseteq Nat /\ Prices \subseteq Nat
    /\ OrderKinds \subseteq OrderTypes \X OrderSides
    /\ OrderConfigs \subseteq [given : BOOLEAN, taker_fee_ratio : Nat, maker_fee_ratio : Nat]
    /\ MatchCounts \subseteq Nat /\ MatchLists \subseteq Seq(Ids) /\ CleanCounts \subseteq Nat

TypeOK ==
    /\ config \in ValidConfigType
    /\ TablesOK(Tables)
    /\ bank \in BalancesType
    /\ now \in Nat
    /\ txn \in TxnType
    /\ its \in [Books -> ItType]
    /\ TablesOK(undo)

----------------------------------------------------------------------------
(* Tables *)

Put(f, k, v) == [i \in DOMAIN f \cup {k} |-> IF i = k THEN v ELSE f[i]]
Without(f, S) == [i \in DOMAIN f \ S |-> f[i]]

\* Ids count up, and wrap to 1 when the counter is exhausted.
new_auto_inc_id(id) == IF id = 0 \/ id = Uint64Max THEN 1 ELSE id + 1

\* A balance with no row is a balance of zero.
add_balance(accts, user, token, quantity) == [accts EXCEPT ![user][token] = @ + quantity]
sub_balance(accts, user, token, quantity) == [accts EXCEPT ![user][token] = @ - quantity]

\* Faulty variant of balance_suffices: any balance will do.
any_balance_suffices(accts, user, token, quantity) == accts[user][token] > 0

\* The CHECK of add_balance and of withdraw: a balance does not become negative.
balance_suffices(accts, user, token, quantity) == accts[user][token] >= quantity

bank_transfer(from, to, token, quantity) ==
    /\ from # to
    /\ balance_suffices(bank, from, token, quantity)
    /\ bank' = add_balance(sub_balance(bank, from, token, quantity), to, token, quantity)

----------------------------------------------------------------------------
(* Administration *)

SetConfig(conf) ==
    /\ txn.phase = "idle"
    /\ validate_fee_ratio(conf.maker_fee_ratio) /\ validate_fee_ratio(conf.taker_fee_ratio)
    /\ config' = conf
    /\ UNCHANGED <<tables, bank, now, matching>>

PairExists(asset, coin) ==
    \E i \in DOMAIN sympairs :
        sympairs[i].asset_symbol = asset /\ sympairs[i].coin_symbol = coin

\* setsympair of a pair that is not in the table.
CreateSympair(asset, coin, only_accept_coin_fee, enabled) ==
    LET id == new_auto_inc_id(global.sympair_id) IN
    /\ txn.phase = "idle" /\ global.sympair_id < MaxSympairs
    /\ asset # coin
    /\ ~PairExists(coin, asset) /\ ~PairExists(asset, coin)
    /\ id \notin DOMAIN sympairs
    /\ sympairs' = Put(sympairs, id,
           [asset_symbol |-> asset, coin_symbol |-> coin, latest_deal_price |-> 0,
            only_accept_coin_fee |-> only_accept_coin_fee, enabled |-> enabled])
    /\ global' = [global EXCEPT !.sympair_id = id]
    /\ UNCHANGED <<config, orders, deals, accounts, bank, now, matching>>

\* setsympair of a pair in the table.
ModifySympair(id, only_accept_coin_fee, enabled) ==
    /\ txn.phase = "idle"
    /\ ~PairExists(sympairs[id].coin_symbol, sympairs[id].asset_symbol)
    /\ sympairs' = [sympairs EXCEPT ![id].only_accept_coin_fee = only_accept_coin_fee,
                                    ![id].enabled = enabled]
    /\ UNCHANGED <<config, orders, deals, global, accounts, bank, now, matching>>

OnOffSympair(id, on_off) ==
    /\ txn.phase = "idle"
    /\ sympairs' = [sympairs EXCEPT ![id].enabled = on_off]
    /\ UNCHANGED <<config, orders, deals, global, accounts, bank, now, matching>>

----------------------------------------------------------------------------
(* Funds *)

\* A token transfer to the contract, and the notification it credits.
OnTransfer(from, token, quant) ==
    /\ txn.phase = "idle" /\ config.dex_enabled
    /\ quant > 0
    /\ bank_transfer(from, Self, token, quant)
    /\ accounts' = add_balance(accounts, from, token, quant)
    /\ UNCHANGED <<config, sympairs, orders, deals, global, now, matching>>

\* withdraw, and the inline transfer it sends to the user.
Withdraw(user, token, quant) ==
    /\ txn.phase = "idle" /\ config.dex_enabled
    /\ quant > 0
    /\ balance_suffices(accounts, user, token, quant)
    /\ bank_transfer(Self, user, token, quant)
    /\ accounts' = sub_balance(accounts, user, token, quant)
    /\ UNCHANGED <<config, sympairs, orders, deals, global, now, matching>>

----------------------------------------------------------------------------
(* Orders *)

order_ratios(ex) ==
    IF ex.given THEN [taker |-> ex.taker_fee_ratio, maker |-> ex.maker_fee_ratio]
    ELSE [taker |-> config.taker_fee_ratio, maker |-> config.maker_fee_ratio]

\* The coins a buy order freezes for what it may spend, before the fee.
coins_to_pay(pair, order_type, limit_quant, price) ==
    IF order_type = "limit"
    THEN calc_coin_amount(limit_quant, price, Precision[pair.asset_symbol])
    ELSE limit_quant

frozen_quant_of(pair, order_type, order_side, limit_quant, price, taker_fee_ratio) ==
    LET coins == coins_to_pay(pair, order_type, limit_quant, price)
        fee == IF pair.only_accept_coin_fee THEN calc_match_fee(taker_fee_ratio, coins) ELSE 0
    IN  IF order_side = "buy" THEN coins + fee ELSE limit_quant

\* The CHECKs of the arithmetic above.
frozen_quant_fits(pair, order_type, order_side, limit_quant, price, taker_fee_ratio) ==
    order_side = "buy" =>
        /\ order_type = "limit" =>
               multiply_fits(limit_quant, price, Precision[pair.asset_symbol])
        /\ pair.only_accept_coin_fee =>
               match_fee_ok(taker_fee_ratio, coins_to_pay(pair, order_type, limit_quant, price))

frozen_token(pair, order_side) ==
    IF order_side = "buy" THEN pair.coin_symbol ELSE pair.asset_symbol

StartMatching(kind, pairs, sympair_id, max_count) ==
    txn' = [phase |-> IF kind = "order" THEN "matching" ELSE "select", kind |-> kind,
            pairs |-> pairs, sympair_id |-> sympair_id, max_count |-> max_count,
            matched_count |-> 0, latest_deal_price |-> 0]

\* neworder and its wrappers buymarket, sellmarket, buylimit, selllimit.  neworder
\* accepts the empty name as a type or a side: such an order is in no book.
NewOrder(user, sympair_id, order_type, order_side, limit_quant, price, ex, admin_signed) ==
    LET pair == sympairs[sympair_id]
        ratios == order_ratios(ex)
        frozen == frozen_quant_of(pair, order_type, order_side, limit_quant, price, ratios.taker)
        id == new_auto_inc_id(global.order_id)
        order == [order_id |-> id, owner |-> user, sympair_id |-> sympair_id,
                  order_type |-> order_type, order_side |-> order_side,
                  price |-> price, limit_quant |-> limit_quant, frozen_quant |-> frozen,
                  taker_fee_ratio |-> ratios.taker, maker_fee_ratio |-> ratios.maker,
                  matched_assets |-> 0, matched_coins |-> 0, matched_fee |-> 0,
                  fee_symbol |-> IF order_side = "buy" /\ ~pair.only_accept_coin_fee
                                 THEN "asset" ELSE "coin",
                  status |-> "matchable", last_updated_at |-> now, last_deal_id |-> 0]
    IN
    /\ txn.phase = "idle" /\ global.order_id < MaxOrders
    /\ config.dex_enabled
    /\ config.admin_sign_required \/ ex.given => admin_signed
    /\ pair.enabled
    /\ ex.given => validate_fee_ratio(ratios.taker) /\ validate_fee_ratio(ratios.maker)
    /\ IF order_type = "limit" THEN price > 0 ELSE price = 0
    /\ frozen_quant_fits(pair, order_type, order_side, limit_quant, price, ratios.taker)
    /\ id \notin DOMAIN orders
    /\ balance_suffices(accounts, user, frozen_token(pair, order_side), frozen)
    /\ orders' = Put(orders, id, order)
    /\ global' = [global EXCEPT !.order_id = id]
    /\ accounts' = sub_balance(accounts, user, frozen_token(pair, order_side), frozen)
    /\ IF config.max_match_count > 0
       THEN /\ StartMatching("order", <<>>, sympair_id, config.max_match_count)
            /\ its' = [b \in Books |-> open_it(orders', sympair_id, b)]
            /\ undo' = Tables
       ELSE UNCHANGED matching
    /\ UNCHANGED <<config, sympairs, deals, bank, now>>

\* Faulty variant of unfrozen_quant: what has been matched is given back too.
unfrozen_in_full(o) == o.frozen_quant

\* What cancel gives back: the coins a buy order has not been matched for, or
\* the assets a sell order has not sold.
unfrozen_quant(o) ==
    o.frozen_quant - (IF o.order_side = "buy" THEN o.matched_coins ELSE o.matched_assets)

Cancel(id) ==
    LET order == orders[id]
        pair == sympairs[order.sympair_id]
    IN
    /\ txn.phase = "idle" /\ config.dex_enabled
    /\ order.status = "matchable"
    /\ order.sympair_id \in DOMAIN sympairs /\ pair.enabled
    /\ unfrozen_quant(order) >= 0
    /\ accounts' = add_balance(accounts, order.owner, frozen_token(pair, order.order_side),
                               unfrozen_quant(order))
    /\ orders' = [orders EXCEPT ![id].status = "canceled", ![id].last_updated_at = now]
    /\ UNCHANGED <<config, sympairs, deals, global, bank, now, matching>>

----------------------------------------------------------------------------
(* Matching *)

\* match: the pairs given, or every enabled pair in the order of the ids.
Match(max_count, list) ==
    /\ txn.phase = "idle" /\ config.dex_enabled
    /\ max_count > 0
    /\ \A k \in DOMAIN list : list[k] \in DOMAIN sympairs /\ sympairs[list[k]].enabled
    /\ StartMatching("match",
                     IF list = <<>> THEN [i \in 1 .. global.sympair_id |-> i] ELSE list,
                     0, max_count)
    /\ undo' = Tables
    /\ UNCHANGED <<config, tables, bank, now, its>>

\* The loop of match() over the pairs stops only between two pairs.
PairsDone == txn.pairs = <<>> \/ txn.matched_count >= DEX_MATCH_COUNT_MAX

OpenPair ==
    LET id == Head(txn.pairs) IN
    /\ txn.phase = "select" /\ ~PairsDone
    /\ IF id \in DOMAIN sympairs /\ sympairs[id].enabled
       THEN /\ txn' = [txn EXCEPT !.phase = "matching", !.pairs = Tail(txn.pairs),
                                  !.sympair_id = id, !.latest_deal_price = 0]
            /\ its' = [b \in Books |-> open_it(orders, id, b)]
       ELSE /\ txn' = [txn EXCEPT !.pairs = Tail(txn.pairs)]
            /\ UNCHANGED its
    /\ UNCHANGED <<config, tables, bank, now, undo>>

\* Faulty variant of LoopCondition: the match count is not tested.
LoopWithoutBudget ==
    txn.phase = "matching" /\ pairing(orders, its).can_match

LoopCondition ==
    /\ txn.phase = "matching"
    /\ txn.matched_count < txn.max_count
    /\ pairing(orders, its).can_match

Pair == sympairs[txn.sympair_id]
OrderAt(b) == orders[its[b].order_id]
FreeAt(b) == free_limit_quant(OrderAt(b), its[b])

\* The deal the loop is about to make: the books of its buy and its sell order,
\* the amounts, the maker's price and the fees.
NextDeal ==
    LET p == pairing(orders, its)
        taker_side == side_of(p.taker)
        buy == IF taker_side = "buy" THEN p.taker ELSE p.maker
        sell == IF taker_side = "buy" THEN p.maker ELSE p.taker
        price == OrderAt(p.maker).price
        amounts == amounts_of(OrderAt(p.taker), FreeAt(p.taker), FreeAt(p.maker), price,
                              Precision[Pair.asset_symbol])
        fee_of(b, quant) == calc_match_fee(fee_ratio(OrderAt(b), taker_side), quant)
    IN  [taker_side |-> taker_side, buy |-> buy, sell |-> sell, price |-> price,
         assets |-> amounts.assets, coins |-> amounts.coins,
         buy_fee |-> fee_of(buy, IF OrderAt(buy).fee_symbol = "coin"
                                 THEN amounts.coins ELSE amounts.assets),
         sell_fee |-> fee_of(sell, amounts.coins)]

NextDealId == new_auto_inc_id(global.deal_item_id)
BuyIt(d) == matched_it(OrderAt(d.buy), its[d.buy], NextDealId, d.assets, d.coins, d.buy_fee)
SellIt(d) == matched_it(OrderAt(d.sell), its[d.sell], NextDealId, d.assets, d.coins, d.sell_fee)

\* The CHECKs of one iteration, in the code's order.
CheckFree ==
    LET p == pairing(orders, its) IN free_ok(FreeAt(p.taker), FreeAt(p.maker))
CheckAmounts ==
    LET p == pairing(orders, its) IN
    amounts_ok(OrderAt(p.taker), FreeAt(p.taker), FreeAt(p.maker), OrderAt(p.maker).price,
               Precision[Pair.asset_symbol])
CheckFees(d) ==
    /\ match_fee_ok(fee_ratio(OrderAt(d.buy), d.taker_side),
                    IF OrderAt(d.buy).fee_symbol = "coin" THEN d.coins ELSE d.assets)
    /\ match_fee_ok(fee_ratio(OrderAt(d.sell), d.taker_side), d.coins)
CheckLimits(d) ==
    limit_quant_ok(OrderAt(d.buy), BuyIt(d)) /\ limit_quant_ok(OrderAt(d.sell), SellIt(d))
CheckFrozen(d) == frozen_quant_ok(OrderAt(d.buy), BuyIt(d))
CheckCompleted(d) == is_completed(BuyIt(d)) \/ is_completed(SellIt(d))
CheckDealId == NextDealId \notin DOMAIN deals

ChecksPass ==
    /\ CheckFree
    /\ CheckAmounts
    /\ CheckFees(NextDeal)
    /\ CheckLimits(NextDeal)
    /\ CheckFrozen(NextDeal)
    /\ CheckCompleted(NextDeal)
    /\ CheckDealId

refund_coins_of(it) == IF is_completed(it) THEN it.refund_coins ELSE 0

\* The balances after the deal: the two fees, the seller's coins, the buyer's
\* assets, and what is left of the frozen coins of a completed limit buy order.
Settled(d) ==
    LET buyer == OrderAt(d.buy).owner
        seller == OrderAt(d.sell).owner
        coin == Pair.coin_symbol
        asset == Pair.asset_symbol
        coin_fee == OrderAt(d.buy).fee_symbol = "coin"
        fee_paid == add_balance(accounts, config.dex_fee_collector,
                                IF coin_fee THEN coin ELSE asset, d.buy_fee)
        fees_paid == add_balance(fee_paid, config.dex_fee_collector, coin, d.sell_fee)
        coins_paid == add_balance(fees_paid, seller, coin, d.coins - d.sell_fee)
        assets_paid == add_balance(coins_paid, buyer, asset,
                                   IF coin_fee THEN d.assets ELSE d.assets - d.buy_fee)
    IN  add_balance(assets_paid, buyer, coin, refund_coins_of(BuyIt(d)))

\* complete_and_next on the row and on the iterator of book b.
RowAfter(b, it) == IF is_completed(it) THEN completed_row(OrderAt(b), it, now) ELSE OrderAt(b)
\* Faulty variant of ItAfter: the iterator stays on the completed row.
ItNotMoved(b, it) == it

ItAfter(b, it) == IF is_completed(it) THEN next_it(orders, txn.sympair_id, b, it) ELSE it

Deal ==
    LET d == NextDeal
        buy_id == its[d.buy].order_id
        sell_id == its[d.sell].order_id
    IN
    /\ LoopCondition /\ ChecksPass
    /\ accounts' = Settled(d)
    /\ deals' = Put(deals, NextDealId,
           [sympair_id |-> txn.sympair_id, buy_order_id |-> buy_id, sell_order_id |-> sell_id,
            deal_assets |-> d.assets, deal_coins |-> d.coins, deal_price |-> d.price,
            taker_side |-> d.taker_side, buy_fee |-> d.buy_fee, sell_fee |-> d.sell_fee,
            buy_refund_coins |-> refund_coins_of(BuyIt(d)), deal_time |-> now])
    /\ global' = [global EXCEPT !.deal_item_id = NextDealId]
    /\ orders' = [orders EXCEPT ![buy_id] = RowAfter(d.buy, BuyIt(d)),
                                ![sell_id] = RowAfter(d.sell, SellIt(d))]
    /\ its' = [its EXCEPT ![d.buy] = ItAfter(d.buy, BuyIt(d)),
                          ![d.sell] = ItAfter(d.sell, SellIt(d))]
    /\ txn' = [txn EXCEPT !.matched_count = @ + 1, !.latest_deal_price = d.price]
    /\ UNCHANGED <<config, sympairs, bank, now, undo>>

\* Faulty variant of MatchingAt: one of the four iterators is not saved.
MatchingExceptLimitSell(i) ==
    {b \in Books \ {"limit_sell"} : is_matching(its[b]) /\ its[b].order_id = i}

\* The iterators that stand on order i with totals not yet written back.
MatchingAt(i) == {b \in Books : is_matching(its[b]) /\ its[b].order_id = i}

SavedOrders ==
    [i \in DOMAIN orders |->
        IF MatchingAt(i) = {} THEN orders[i]
        ELSE saved_row(orders[i], its[CHOOSE b \in MatchingAt(i) : TRUE], now)]

\* save_matching_order and update_latest_deal_price, when the loop has ended.
ClosePair ==
    /\ txn.phase = "matching" /\ ~LoopCondition
    /\ orders' = SavedOrders
    /\ sympairs' = IF txn.latest_deal_price > 0
                   THEN [sympairs EXCEPT ![txn.sympair_id].latest_deal_price = txn.latest_deal_price]
                   ELSE sympairs
    /\ txn' = [txn EXCEPT !.phase = "select"]
    /\ its' = NoIts
    /\ UNCHANGED <<config, deals, global, accounts, bank, now, undo>>

EndTransaction == txn' = Idle /\ its' = NoIts /\ undo' = NoUndo

Commit ==
    /\ txn.phase = "select" /\ PairsDone
    /\ txn.kind = "match" => txn.matched_count > 0
    /\ EndTransaction
    /\ UNCHANGED <<config, tables, bank, now>>

\* A failed CHECK undoes the whole transaction.
Rollback ==
    /\ sympairs' = undo.sympairs /\ orders' = undo.orders /\ deals' = undo.deals
    /\ global' = undo.global /\ accounts' = undo.accounts
    /\ EndTransaction
    /\ UNCHANGED <<config, bank, now>>

FailedCheck == LoopCondition /\ ~ChecksPass /\ Rollback

NoneMatched ==
    /\ txn.phase = "select" /\ PairsDone
    /\ txn.kind = "match" /\ txn.matched_count = 0
    /\ Rollback

----------------------------------------------------------------------------
(* Recycling *)

outdated(time) == now - time > config.data_recycle_sec

\* The deals cleandata erases: from the lowest id on while they are outdated.
SweptDeals(max_count) ==
    {d \in DOMAIN deals :
        /\ \A e \in DOMAIN deals : e <= d => outdated(deals[e].deal_time)
        /\ Cardinality({e \in DOMAIN deals : e <= d}) <= max_count}

\* Faulty variant of SweptOrders: any deal of an order takes the order with it.
SweptByAnyDeal(S) ==
    {i \in DOMAIN orders : /\ orders[i].status = "completed"
                           /\ \E d \in S : i \in {deals[d].buy_order_id, deals[d].sell_order_id}}

\* The completed orders whose last deal is one of them.
SweptOrders(S) ==
    {i \in DOMAIN orders :
        /\ orders[i].status = "completed"
        /\ \E d \in S : /\ i \in {deals[d].buy_order_id, deals[d].sell_order_id}
                        /\ orders[i].last_deal_id = d}

\* The first n orders of I in the order of the last update.
LeastRecent(I, n) ==
    {i \in I :
        Cardinality({j \in I : \/ orders[j].last_updated_at < orders[i].last_updated_at
                               \/ /\ orders[j].last_updated_at = orders[i].last_updated_at
                                  /\ j <= i}) <= n}

(***************************************************************************)
(* The sweeps of canceled and of completed orders test the age of the deal *)
(* the first loop stopped at, not of the order.  A deal that is left is    *)
(* not outdated and nothing is erased.  When none is left the code reads   *)
(* through the end iterator, and the answer stale may be anything.         *)
(***************************************************************************)
CleanData(max_count, stale) ==
    LET D == SweptDeals(max_count)
        gone == SweptOrders(D)
        left == max_count - Cardinality(D)
        reached(status) == {i \in DOMAIN orders \ gone : stale /\ orders[i].status = status}
        canceled == LeastRecent(reached("canceled"), left)
        completed == LeastRecent(reached("completed"), left - Cardinality(canceled))
    IN
    /\ txn.phase = "idle" /\ config.dex_enabled
    /\ stale => left > 0 /\ D = DOMAIN deals
    /\ D # {} \/ canceled # {} \/ completed # {}
    /\ deals' = Without(deals, D)
    /\ orders' = Without(orders, gone \cup canceled \cup completed)
    /\ UNCHANGED <<config, sympairs, global, accounts, bank, now, matching>>

Tick ==
    /\ txn.phase = "idle" /\ now < MaxTime
    /\ now' = now + 1
    /\ UNCHANGED <<config, tables, bank, matching>>

----------------------------------------------------------------------------
Init ==
    /\ config = InitialConfig
    /\ sympairs = InitialSympairs
    /\ orders = EmptyTable
    /\ deals = EmptyTable
    /\ global = [order_id |-> 0, sympair_id |-> Len(InitialSympairs), deal_item_id |-> 0]
    /\ accounts = InitialAccounts
    /\ bank = InitialBank
    /\ now = 1
    /\ txn = Idle /\ its = NoIts /\ undo = NoUndo

Administration ==
    \/ \E conf \in Configs : SetConfig(conf)
    \/ \E pair \in PairInputs, coin_fee, enabled \in BOOLEAN :
           CreateSympair(pair[1], pair[2], coin_fee, enabled)
    \/ \E i \in DOMAIN sympairs, coin_fee, enabled \in BOOLEAN :
           /\ <<sympairs[i].asset_symbol, sympairs[i].coin_symbol>> \in PairInputs
           /\ ModifySympair(i, coin_fee, enabled)
    \/ \E i \in DOMAIN sympairs, on_off \in BOOLEAN :
           /\ <<sympairs[i].asset_symbol, sympairs[i].coin_symbol>> \in PairInputs
           /\ OnOffSympair(i, on_off)

Funds ==
    \E user \in Traders, token \in Tokens, quant \in TransferQuants :
        OnTransfer(user, token, quant) \/ Withdraw(user, token, quant)

Ordering ==
    \/ \E user \in Traders, i \in DOMAIN sympairs, kind \in OrderKinds,
          quant \in LimitQuants, price \in Prices, ex \in OrderConfigs, signed \in BOOLEAN :
           NewOrder(user, i, kind[1], kind[2], quant, price, ex, signed)
    \/ \E i \in DOMAIN orders : Cancel(i)

StartMatch == \E max_count \in MatchCounts, list \in MatchLists : Match(max_count, list)

\* The steps that carry a matching transaction to its end.
TransactionStep ==
    OpenPair \/ Deal \/ ClosePair \/ Commit \/ FailedCheck \/ NoneMatched

Cleaning == \E max_count \in CleanCounts, stale \in BOOLEAN : CleanData(max_count, stale)

Next ==
    Administration \/ Funds \/ Ordering \/ StartMatch \/ TransactionStep \/ Cleaning \/ Tick

Spec == Init /\ [][Next]_vars

----------------------------------------------------------------------------
(* What matching promises *)

NewDeals == DOMAIN deals' \ DOMAIN deals

(***************************************************************************)
(* Every deal pairs a matchable buy order with a matchable sell order of   *)
(* the pair, at the price of the order that was in the book, within the    *)
(* limit of the other one: match_sympair and matching_pair_iterator.       *)
(***************************************************************************)
FairDeal(deal) ==
    LET buy == orders[deal.buy_order_id]
        sell == orders[deal.sell_order_id]
        maker == IF deal.taker_side = "buy" THEN sell ELSE buy
        limit(o) == o.order_type = "limit"
    IN
    /\ {deal.buy_order_id, deal.sell_order_id} \subseteq DOMAIN orders
    /\ buy.order_side = "buy" /\ sell.order_side = "sell"
    /\ buy.status = "matchable" /\ sell.status = "matchable"
    /\ buy.sympair_id = deal.sympair_id /\ sell.sympair_id = deal.sympair_id
    /\ limit(maker) /\ deal.deal_price = maker.price
    /\ limit(buy) => deal.deal_price <= buy.price
    /\ limit(sell) => deal.deal_price >= sell.price

FairDeals == [][\A d \in NewDeals : FairDeal(deals'[d])]_vars

\* o is served before p: a better price, or the same price and placed earlier.
ServedBefore(o, p) ==
    \/ o.order_side = "buy" /\ o.price > p.price
    \/ o.order_side = "sell" /\ o.price < p.price
    \/ o.price = p.price /\ o.order_id < p.order_id

\* No matchable order of the same pair, side and type has precedence over order i.
NobodyBefore(i) ==
    \A j \in DOMAIN orders :
        /\ orders[j].status = "matchable"
        /\ orders[j].sympair_id = orders[i].sympair_id
        /\ orders[j].order_side = orders[i].order_side
        /\ orders[j].order_type = orders[i].order_type
        => ~ServedBefore(orders[j], orders[i])

(***************************************************************************)
(* Price-time priority: the orders of a deal are each the first of their   *)
(* book at that moment, although the loop moves four cached iterators over *)
(* an index whose rows it changes as it goes.                              *)
(***************************************************************************)
PriceTimePriority ==
    [][\A d \in NewDeals : /\ NobodyBefore(deals'[d].buy_order_id)
                           /\ NobodyBefore(deals'[d].sell_order_id)]_vars

\* The book of a pair holds two orders that could be matched.
Crossed(sympair_id) ==
    \E i, j \in DOMAIN orders :
        LET buy == orders[i]
            sell == orders[j]
        IN  /\ buy.sympair_id = sympair_id /\ sell.sympair_id = sympair_id
            /\ buy.status = "matchable" /\ sell.status = "matchable"
            /\ buy.order_side = "buy" /\ sell.order_side = "sell"
            /\ \/ buy.order_type = "limit" /\ sell.order_type = "limit" /\ buy.price >= sell.price
               \/ buy.order_type = "limit" /\ sell.order_type = "market"
               \/ buy.order_type = "market" /\ sell.order_type = "limit"

(***************************************************************************)
(* The loop of match_sympair skips nothing: unless the match count stopped *)
(* it, it leaves a book in which no two orders can be matched.             *)
(***************************************************************************)
UncrossedWhenDone ==
    txn.phase = "select" /\ txn.sympair_id # 0 /\ txn.matched_count < txn.max_count
        => ~Crossed(txn.sympair_id)

(***************************************************************************)
(* The CHECKs of the loop that state facts about the matching engine (free *)
(* quantities, amounts, fees, limits, completion) never fire; the CHECK on *)
(* frozen_quant is the subject of a property of its own.                   *)
(***************************************************************************)
EngineChecksHold ==
    LoopCondition => /\ CheckFree /\ CheckAmounts
                     /\ CheckFees(NextDeal) /\ CheckLimits(NextDeal)
                     /\ CheckCompleted(NextDeal) /\ CheckDealId

(***************************************************************************)
(* The coins frozen when a buy order is placed always cover what its deals *)
(* cost: CHECK(total_matched_coins <= order.frozen_quant) never fires.     *)
(***************************************************************************)
FrozenSuffices == LoopCondition /\ CheckFree /\ CheckAmounts => CheckFrozen(NextDeal)

(***************************************************************************)
(* A completed order stays in the table until the deal that completed it   *)
(* is erased, and that deal names it: cleandata finds the order through it.*)
(***************************************************************************)
CompletedHaveDeal ==
    \A i \in DOMAIN orders :
        orders[i].status = "completed" =>
            /\ orders[i].last_deal_id \in DOMAIN deals
            /\ i \in {deals[orders[i].last_deal_id].buy_order_id,
                      deals[orders[i].last_deal_id].sell_order_id}

\* A deal in the table never refers to an order that has been erased.
DealsHaveOrders ==
    \A d \in DOMAIN deals : {deals[d].buy_order_id, deals[d].sell_order_id} \subseteq DOMAIN orders

(***************************************************************************)
(* A match makes at most max_count deals over all its pairs, and counts    *)
(* each of them: "the max count of match item" of the match action.        *)
(***************************************************************************)
MatchBudget ==
    txn.phase # "idle" =>
        /\ txn.matched_count <= txn.max_count
        /\ Cardinality(DOMAIN deals) = Cardinality(DOMAIN undo.deals) + txn.matched_count

----------------------------------------------------------------------------
(* The inductive invariant *)

\* Rows know their own id, and limit orders have a price.
RowsOK(tbl) == \A i \in DOMAIN tbl : /\ tbl[i].order_id = i
                                     /\ tbl[i].order_type = "limit" => tbl[i].price > 0

\* The pair that is being matched is in the table.
PairOK == txn.phase = "matching" => txn.sympair_id \in DOMAIN sympairs

\* Every iterator that is not closed stands on the first row of its book.
OnFirst(b) == its[b].order_id \in FirstOf(orders, Book(orders, txn.sympair_id, b))
ItsOK == txn.phase = "matching" => \A b \in Books : is_valid(its[b]) => OnFirst(b)

\* A transaction only adds deals, so that undoing it adds none.
UndoOK == txn.phase # "idle" => DOMAIN undo.deals \subseteq DOMAIN deals

(***************************************************************************)
(* What the loop of match_sympair keeps although it changes the rows its   *)
(* four iterators walk over: the positions they cache are never stale.     *)
(***************************************************************************)
IInv ==
    /\ TypeOK
    /\ RowsOK(orders) /\ RowsOK(undo.orders)
    /\ PairOK
    /\ ItsOK
    /\ UndoOK

\* An iterator is closed only when its book has no rows left.
ClosedOK ==
    txn.phase = "matching" =>
        \A b \in Books : is_valid(its[b]) \/ Book(orders, txn.sympair_id, b) = {}

(***************************************************************************)
(* Why the loop skips nothing: the iterators show it all there is to match *)
(* in the four books, and between two pairs the book just left is uncrossed*)
(***************************************************************************)
UncrossedInv == ClosedOK /\ UncrossedWhenDone

----------------------------------------------------------------------------
(***************************************************************************)
(* Fairness.  A transaction that has begun runs to its end: this is        *)
(* WF_vars(TransactionStep), with ENABLED written out, since a transaction *)
(* step is possible exactly while a transaction is being executed.  And    *)
(* somebody keeps calling match for all the pairs, whatever others call.   *)
(***************************************************************************)
TransactionsRun == <>[](txn.phase # "idle") => []<><<TransactionStep>>_vars
MatchAll == \E max_count \in MatchCounts : Match(max_count, <<>>)
Fairness == TransactionsRun /\ SF_vars(MatchAll)
FairSpec == Spec /\ Fairness

\* Orders that can be matched do not stay in the book of a pair for ever.
EventuallyUncrossed == \A i \in DOMAIN InitialSympairs : []<>~Crossed(i)
=============================================================================
