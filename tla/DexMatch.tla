------------------------------ MODULE DexMatch ------------------------------
(***************************************************************************)
(* The matching engine of dex_match.hpp as operators on an order table:    *)
(* the order of the match index, the four order iterators of a symbol      *)
(* pair with the totals they cache, the choice of taker and maker, the     *)
(* amounts of a deal and the effect of a deal on an iterator.              *)
(*                                                                         *)
(* `orders` is a function from order ids to rows, `its` a function from    *)
(* the four books of a pair to iterators.  An iterator's position in the   *)
(* index is the id of the row it stands on.                                *)
(***************************************************************************)
EXTENDS DexMath, FiniteSets

Books == {"limit_buy", "limit_sell", "market_buy", "market_sell"}

side_of(b) == IF b \in {"limit_buy", "market_buy"} THEN "buy" ELSE "sell"
type_of(b) == IF b \in {"limit_buy", "limit_sell"} THEN "limit" ELSE "market"

\* The limit book the orders of book b trade against.
limit_against(b) == IF side_of(b) = "buy" THEN "limit_sell" ELSE "limit_buy"

is_market_buy(o) == o.order_side = "buy" /\ o.order_type = "market"

----------------------------------------------------------------------------
\* Faulty variant of Precedes: sell orders sorted like buy orders.
HigherPriceFirst(o, p) ==
    o.price > p.price \/ (o.price = p.price /\ o.order_id < p.order_id)

(***************************************************************************)
(* The match index.  Its key is <<pair, status, side, type, price factor,  *)
(* order id>>; within one book only the last two components differ, and    *)
(* the price factor makes the best price come first.                       *)
(***************************************************************************)
Precedes(o, p) ==
    \/ o.order_side = "buy"  /\ o.price > p.price
    \/ o.order_side = "sell" /\ o.price < p.price
    \/ o.price = p.price /\ o.order_id < p.order_id

InBook(o, sympair_id, b) ==
    /\ o.sympair_id = sympair_id
    /\ o.status = "matchable"
    /\ o.order_side = side_of(b)
    /\ o.order_type = type_of(b)

Book(orders, sympair_id, b) == {i \in DOMAIN orders : InBook(orders[i], sympair_id, b)}

FirstOf(orders, S) == {i \in S : \A j \in S \ {i} : Precedes(orders[i], orders[j])}

----------------------------------------------------------------------------
(* matching_order_iterator *)

ClosedIt == [status |-> "closed", order_id |-> 0, matched_assets |-> 0,
             matched_coins |-> 0, matched_fee |-> 0, refund_coins |-> 0,
             last_deal_id |-> 0]

\* process_data: load the totals of the row the iterator has come to stand on.
opened_it(orders, i) ==
    [status |-> "opened", order_id |-> i,
     matched_assets |-> orders[i].matched_assets,
     matched_coins |-> orders[i].matched_coins,
     matched_fee |-> orders[i].matched_fee,
     refund_coins |-> 0,
     last_deal_id |-> orders[i].last_deal_id]

\* An iterator on the first row of S in index order.
it_at_first(orders, S) ==
    IF FirstOf(orders, S) = {} THEN ClosedIt
    ELSE opened_it(orders, CHOOSE i \in FirstOf(orders, S) : TRUE)

open_it(orders, sympair_id, b) == it_at_first(orders, Book(orders, sympair_id, b))

\* ++_it, taken before the row is modified: the next row of the same book.
next_it(orders, sympair_id, b, it) ==
    it_at_first(orders, {i \in Book(orders, sympair_id, b) :
                            Precedes(orders[it.order_id], orders[i])})

is_valid(it) == it.status # "closed"
is_matching(it) == it.status = "matching"
is_completed(it) == it.status = "completed"

free_limit_quant(o, it) ==
    o.limit_quant - (IF is_market_buy(o) THEN it.matched_coins ELSE it.matched_assets)

\* The row the iterator writes back, while it is being matched and when it is done.
saved_row(o, it, time) ==
    [o EXCEPT !.matched_assets = it.matched_assets, !.matched_coins = it.matched_coins,
              !.matched_fee = it.matched_fee, !.last_deal_id = it.last_deal_id,
              !.last_updated_at = time]
completed_row(o, it, time) == [saved_row(o, it, time) EXCEPT !.status = "completed"]

\* Faulty variant of total_matched_coins: a fee in assets counted as coins.
total_with_any_fee(o, it) == it.matched_coins + it.matched_fee

\* Coins a buy order has spent: the buyer may pay the fee with coins as well.
total_matched_coins(o, it) ==
    it.matched_coins + (IF o.fee_symbol = "coin" THEN it.matched_fee ELSE 0)

match_completes(o, it) ==
    (IF is_market_buy(o) THEN it.matched_coins ELSE it.matched_assets) = o.limit_quant

\* Faulty variant of added_it: the id of the deal not recorded.
added_without_deal_id(it, deal_id, assets, coins, fee) ==
    [it EXCEPT !.status = "matching", !.matched_assets = @ + assets,
               !.matched_coins = @ + coins, !.matched_fee = @ + fee]

\* match(): add the deal to the cached totals.
added_it(it, deal_id, assets, coins, fee) ==
    [status |-> "matching", order_id |-> it.order_id,
     matched_assets |-> it.matched_assets + assets,
     matched_coins |-> it.matched_coins + coins,
     matched_fee |-> it.matched_fee + fee,
     refund_coins |-> it.refund_coins, last_deal_id |-> deal_id]

\* Faulty variant of refund_of: the refund forgets the fee paid.
refund_without_fee(o, it) ==
    IF o.order_side = "buy" /\ o.order_type = "limit" /\ o.frozen_quant > it.matched_coins
    THEN o.frozen_quant - it.matched_coins
    ELSE it.refund_coins

refund_of(o, it) ==
    IF /\ o.order_side = "buy" /\ o.order_type = "limit"
       /\ o.frozen_quant > total_matched_coins(o, it)
    THEN o.frozen_quant - total_matched_coins(o, it)
    ELSE it.refund_coins

matched_it(o, it, deal_id, assets, coins, fee) ==
    LET added == added_it(it, deal_id, assets, coins, fee) IN
    IF match_completes(o, added)
    THEN [added EXCEPT !.status = "completed", !.refund_coins = refund_of(o, added)]
    ELSE added

\* The CHECKs of match(), on the iterator it leaves.
limit_quant_ok(o, it) == free_limit_quant(o, it) >= 0
frozen_quant_ok(o, it) == o.order_side = "buy" => total_matched_coins(o, it) <= o.frozen_quant

----------------------------------------------------------------------------
(* matching_pair_iterator *)

\* Faulty variant of crosses: equal prices do not match.
crosses_strictly(buy, sell) == buy.price > sell.price

\* Faulty variant of crosses: the prices are not compared.
crosses_always(buy, sell) == TRUE

\* Two limit orders cross.
crosses(buy, sell) == buy.price >= sell.price

NoMatch == [can_match |-> FALSE, taker |-> "market_buy", maker |-> "limit_sell"]
Pairing(taker) == [can_match |-> TRUE, taker |-> taker, maker |-> limit_against(taker)]

\* process_data: market orders first, the older one first, then crossing limit
\* orders, of which the newer one is the taker.
pairing(orders, its) ==
    LET valid(b) == is_valid(its[b])
        older(b, c) == its[b].order_id < its[c].order_id
        first_market == IF older("market_buy", "market_sell") THEN "market_buy" ELSE "market_sell"
        crossed == crosses(orders[its["limit_buy"].order_id], orders[its["limit_sell"].order_id])
        newer_limit == IF older("limit_sell", "limit_buy") THEN "limit_buy" ELSE "limit_sell"
    IN  IF /\ valid("market_buy") /\ valid("market_sell")
           /\ valid(limit_against(first_market))          THEN Pairing(first_market)
        ELSE IF valid("market_buy") /\ valid("limit_sell") THEN Pairing("market_buy")
        ELSE IF valid("market_sell") /\ valid("limit_buy") THEN Pairing("market_sell")
        ELSE IF valid("limit_buy") /\ valid("limit_sell") /\ crossed THEN Pairing(newer_limit)
        ELSE NoMatch

(***************************************************************************)
(* calc_matched_amounts, for a taker and a maker with what is left of      *)
(* their limits.  A market buy order is limited in coins: it takes all the *)
(* assets its coins buy, and pays all its coins, when the maker has them.  *)
(***************************************************************************)
free_ok(taker_free, maker_free) == maker_free > 0 /\ taker_free > 0

\* Faulty variant of takes_all_coins: coins are always computed from the assets.
never_takes_all_coins(taker, taker_free, maker_free, price, precision) == FALSE

takes_all_coins(taker, taker_free, maker_free, price, precision) ==
    /\ is_market_buy(taker)
    /\ calc_asset_amount(taker_free, price, precision) <= maker_free

amounts_of(taker, taker_free, maker_free, price, precision) ==
    LET taker_assets == IF is_market_buy(taker)
                        THEN calc_asset_amount(taker_free, price, precision)
                        ELSE taker_free
        assets == Min2(taker_assets, maker_free)
    IN  [assets |-> assets,
         coins  |-> IF takes_all_coins(taker, taker_free, maker_free, price, precision)
                    THEN taker_free
                    ELSE calc_coin_amount(assets, price, precision)]

amounts_ok(taker, taker_free, maker_free, price, precision) ==
    LET amounts == amounts_of(taker, taker_free, maker_free, price, precision) IN
    /\ is_market_buy(taker) => divide_fits(taker_free, price, precision)
    /\ takes_all_coins(taker, taker_free, maker_free, price, precision)
       \/ multiply_fits(amounts.assets, price, precision)
    /\ amounts.assets > 0 \/ amounts.coins > 0

\* The fee ratio of an order in a deal whose taker is on side taker_side.
fee_ratio(o, taker_side) ==
    IF o.order_side = taker_side THEN o.taker_fee_ratio ELSE o.maker_fee_ratio
=============================================================================
