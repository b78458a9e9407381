------------------------------ MODULE DexProofs ------------------------------
(***************************************************************************)
(* Proofs about the exchange: the types of its tables, and that every deal *)
(* is fair and respects price-time priority.                               *)
(***************************************************************************)
EXTENDS Dex, DexMathProofs

----------------------------------------------------------------------------
(* Tables and balances *)

LEMMA EmptyIsTable == \A R : IsTable(EmptyTable, R)
BY DEF IsTable, EmptyTable

LEMMA PutTable ==
    ASSUME NEW R, NEW f, IsTable(f, R), NEW k \in Ids, NEW v \in R
    PROVE  IsTable(Put(f, k, v), R)
BY DEF IsTable, Put

LEMMA WithoutTable ==
    ASSUME NEW R, NEW f, IsTable(f, R), NEW S
    PROVE  IsTable(Without(f, S), R)
BY DEF IsTable, Without

LEMMA UpdateTable ==
    ASSUME NEW R, NEW f, IsTable(f, R), NEW k, NEW v, k \in DOMAIN f => v \in R
    PROVE  IsTable([f EXCEPT ![k] = v], R)
BY DEF IsTable

LEMMA RowType ==
    ASSUME NEW R, NEW f, IsTable(f, R), NEW k \in DOMAIN f
    PROVE  f[k] \in R /\ k \in Ids
BY DEF IsTable

LEMMA AddBalance ==
    ASSUME NEW accts \in BalancesType, NEW user \in Accounts, NEW token \in Tokens,
           NEW quantity \in Nat
    PROVE  add_balance(accts, user, token, quantity) \in BalancesType
BY DEF BalancesType, add_balance

LEMMA SubBalance ==
    ASSUME NEW accts \in BalancesType, NEW user \in Accounts, NEW token \in Tokens,
           NEW quantity \in Nat, accts[user][token] >= quantity
    PROVE  sub_balance(accts, user, token, quantity) \in BalancesType
BY DEF BalancesType, sub_balance

LEMMA BankTransfer ==
    ASSUME bank \in BalancesType, NEW from \in Accounts, NEW to \in Accounts,
           NEW token \in Tokens, NEW quantity \in Nat,
           bank_transfer(from, to, token, quantity)
    PROVE  bank' \in BalancesType
BY AddBalance, SubBalance DEF bank_transfer, balance_suffices

LEMMA NewIdType ==
    ASSUME NEW id \in Ids
    PROVE  new_auto_inc_id(id) \in Ids
BY ConstantsAssumption DEF Ids, new_auto_inc_id

----------------------------------------------------------------------------
(* The match index and the iterators *)

LEMMA PrecedesAsymmetric ==
    ASSUME NEW o \in OrderType, NEW p \in OrderType, o.order_side = p.order_side
    PROVE  Precedes(o, p) => ~Precedes(p, o)
BY DEF Precedes, OrderType, Ids

LEMMA BookRows ==
    ASSUME NEW tbl, IsTable(tbl, OrderType), NEW sympair_id, NEW b,
           NEW i \in Book(tbl, sympair_id, b)
    PROVE  /\ i \in DOMAIN tbl /\ i \in Ids
           /\ tbl[i] \in OrderType
           /\ InBook(tbl[i], sympair_id, b)
BY RowType DEF Book

LEMMA ClosedItType == ClosedIt \in ItType
BY ConstantsAssumption DEF ClosedIt, ItType, Ids

\* An iterator is closed, or stands on the first row of the set it was put on.
LEMMA ItAtFirst ==
    ASSUME NEW tbl, IsTable(tbl, OrderType), NEW S, S \subseteq DOMAIN tbl
    PROVE  LET it == it_at_first(tbl, S) IN
           /\ it \in ItType
           /\ is_valid(it) => it.order_id \in FirstOf(tbl, S)
           /\ ~is_matching(it)
<1>1. CASE FirstOf(tbl, S) = {}
    BY <1>1, ClosedItType DEF it_at_first, is_valid, is_matching, ClosedIt
<1>2. CASE FirstOf(tbl, S) # {}
  <2>1. PICK i \in FirstOf(tbl, S) : it_at_first(tbl, S) = opened_it(tbl, i)
    BY <1>2 DEF it_at_first
  <2>2. i \in DOMAIN tbl /\ tbl[i] \in OrderType /\ i \in Ids
    BY RowType DEF FirstOf
  <2>3. opened_it(tbl, i) \in ItType
    BY <2>2 DEF opened_it, ItType, OrderType
  <2>. QED BY <2>1, <2>3 DEF opened_it, is_valid, is_matching
<1>. QED BY <1>1, <1>2

\* The four books, and the book a book trades against.
LEMMA BookFacts ==
    /\ \A b \in Books : side_of(b) \in {"buy", "sell"} /\ type_of(b) \in {"limit", "market"}
    /\ \A b \in Books : /\ limit_against(b) \in Books
                        /\ type_of(limit_against(b)) = "limit"
                        /\ side_of(limit_against(b)) # side_of(b)
                        /\ limit_against(b) # b
BY DEF Books, side_of, type_of, limit_against

(***************************************************************************)
(* When two orders can be matched, taker and maker are valid iterators on  *)
(* opposite sides, the maker is a limit order, and two limit orders cross. *)
(***************************************************************************)
Crosses(tbl, iters) ==
    tbl[iters["limit_buy"].order_id].price >= tbl[iters["limit_sell"].order_id].price

LEMMA PairingFacts ==
    ASSUME NEW tbl, NEW iters, pairing(tbl, iters).can_match
    PROVE  LET p == pairing(tbl, iters) IN
           /\ p.taker \in Books /\ p.maker = limit_against(p.taker)
           /\ is_valid(iters[p.taker]) /\ is_valid(iters[p.maker])
           /\ type_of(p.taker) = "limit" => Crosses(tbl, iters)
<1>1. ~NoMatch.can_match
    BY DEF NoMatch
<1>2. \A b \in Books : /\ Pairing(b).taker = b /\ Pairing(b).maker = limit_against(b)
    BY DEF Pairing
<1>3. "market_buy" \in Books /\ "market_sell" \in Books
      /\ "limit_buy" \in Books /\ "limit_sell" \in Books
    BY DEF Books
<1>4. /\ limit_against("market_buy") = "limit_sell" /\ limit_against("market_sell") = "limit_buy"
      /\ limit_against("limit_buy") = "limit_sell" /\ limit_against("limit_sell") = "limit_buy"
      /\ type_of("market_buy") = "market" /\ type_of("market_sell") = "market"
    BY DEF limit_against, side_of, type_of
<1>. QED BY <1>1, <1>2, <1>3, <1>4 DEF pairing, crosses, Crosses

\* A row is in one book only.
LEMMA OneBook ==
    ASSUME NEW o, NEW p, NEW b \in Books, NEW c \in Books, InBook(o, p, b), InBook(o, p, c)
    PROVE  b = c
BY DEF Books, InBook, side_of, type_of

\* Rows outside of S do not matter to the order of S.
LEMMA FirstOfSameRows ==
    ASSUME NEW tbl, NEW tbl2, NEW S, \A j \in S : tbl2[j] = tbl[j]
    PROVE  FirstOf(tbl2, S) = FirstOf(tbl, S)
BY DEF FirstOf

(***************************************************************************)
(* Moving on from the first row of a book finds the first of the others,   *)
(* which is the first row once that row has left the book.                 *)
(***************************************************************************)
LEMMA NextItFirst ==
    ASSUME NEW tbl, IsTable(tbl, OrderType), NEW p, NEW b, NEW it,
           it.order_id \in FirstOf(tbl, Book(tbl, p, b)),
           NEW tbl2, Book(tbl2, p, b) = Book(tbl, p, b) \ {it.order_id},
           \A j \in Book(tbl2, p, b) : tbl2[j] = tbl[j]
    PROVE  LET new == next_it(tbl, p, b, it) IN
           /\ new \in ItType
           /\ is_valid(new) => new.order_id \in FirstOf(tbl2, Book(tbl2, p, b))
<1> DEFINE i == it.order_id
           S == {j \in Book(tbl, p, b) : Precedes(tbl[i], tbl[j])}
<1>1. i \in Book(tbl, p, b) /\ \A j \in Book(tbl, p, b) \ {i} : Precedes(tbl[i], tbl[j])
    BY DEF FirstOf
<1>2. ~Precedes(tbl[i], tbl[i])
    BY <1>1, BookRows, PrecedesAsymmetric
<1>3. S = Book(tbl2, p, b)
    BY <1>1, <1>2
<1>4. S \subseteq DOMAIN tbl
    BY DEF Book
<1>5. FirstOf(tbl2, S) = FirstOf(tbl, S)
    BY <1>3, FirstOfSameRows
<1>. QED BY <1>3, <1>4, <1>5, ItAtFirst DEF next_it

(***************************************************************************)
(* The amounts of a deal are natural numbers.                              *)
(***************************************************************************)
LEMMA AmountsType ==
    ASSUME NEW o, NEW taker_free \in Nat, NEW maker_free \in Nat,
           NEW price \in Nat \ {0}, NEW precision \in Nat \ {0}
    PROVE  LET a == amounts_of(o, taker_free, maker_free, price, precision) IN
           a.assets \in Nat /\ a.coins \in Nat
<1> DEFINE bought == calc_asset_amount(taker_free, price, precision)
           assets == Min2(IF is_market_buy(o) THEN bought ELSE taker_free, maker_free)
<1>1. bought \in Nat
    BY DivideNat DEF calc_asset_amount
<1>2. assets \in Nat
    BY <1>1 DEF Min2
<1>3. calc_coin_amount(assets, price, precision) \in Nat
    BY <1>2, MultiplyNat DEF calc_coin_amount
<1>. QED BY <1>2, <1>3 DEF amounts_of

LEMMA FeeType ==
    ASSUME NEW ratio \in Ratios, NEW quant \in Nat
    PROVE  calc_match_fee(ratio, quant) \in Nat /\ calc_match_fee(ratio, quant) <= quant
<1>1. ratio \in Nat /\ validate_fee_ratio(ratio)
    BY RatioAssumption DEF Ratios, validate_fee_ratio
<1>2. CASE quant = 0
    BY <1>2 DEF calc_match_fee
<1>3. CASE quant # 0
    BY <1>1, <1>3, FeeBelowQuantity
<1>. QED BY <1>2, <1>3

\* An iterator after a deal.
LEMMA MatchedItType ==
    ASSUME NEW o \in OrderType, NEW it \in ItType, NEW deal_id \in Ids,
           NEW assets, NEW coins, NEW fee,
           assets \in Nat, coins \in Nat, fee \in Nat
    PROVE  /\ matched_it(o, it, deal_id, assets, coins, fee) \in ItType
           /\ matched_it(o, it, deal_id, assets, coins, fee).order_id = it.order_id
           /\ is_valid(matched_it(o, it, deal_id, assets, coins, fee))
<1> DEFINE added == added_it(it, deal_id, assets, coins, fee)
<1>1. /\ added \in ItType /\ added.order_id = it.order_id /\ added.status = "matching"
    BY DEF added_it, ItType
<1>2. total_matched_coins(o, added) \in Nat
    BY <1>1 DEF total_matched_coins, ItType
<1>3. refund_of(o, added) \in Nat
    BY <1>1, <1>2 DEF refund_of, ItType, OrderType
<1>. HIDE DEF added
<1>4. matched_it(o, it, deal_id, assets, coins, fee)
        = IF match_completes(o, added)
          THEN [added EXCEPT !.status = "completed", !.refund_coins = refund_of(o, added)]
          ELSE added
    BY DEF matched_it, added
<1>. QED BY <1>1, <1>3, <1>4 DEF ItType, is_valid

LEMMA SavedRowType ==
    ASSUME NEW o \in OrderType, NEW it \in ItType, NEW time \in Nat
    PROVE  /\ saved_row(o, it, time) \in OrderType
           /\ completed_row(o, it, time) \in OrderType
           /\ completed_row(o, it, time).status = "completed"
           /\ saved_row(o, it, time).order_id = o.order_id
           /\ completed_row(o, it, time).order_id = o.order_id
           /\ saved_row(o, it, time).order_type = o.order_type
           /\ completed_row(o, it, time).order_type = o.order_type
           /\ saved_row(o, it, time).price = o.price
           /\ completed_row(o, it, time).price = o.price
BY DEF saved_row, completed_row, OrderType, ItType

----------------------------------------------------------------------------
\* The row a valid iterator stands on.
LEMMA RowAt ==
    ASSUME IInv, txn.phase = "matching", NEW b \in Books, is_valid(its[b])
    PROVE  /\ OnFirst(b)
           /\ its[b] \in ItType
           /\ its[b].order_id \in DOMAIN orders /\ its[b].order_id \in Ids
           /\ OrderAt(b) \in OrderType
           /\ OrderAt(b).order_id = its[b].order_id
           /\ InBook(OrderAt(b), txn.sympair_id, b)
           /\ type_of(b) = "limit" => OrderAt(b).price > 0
<1>1. OnFirst(b) /\ its[b] \in ItType /\ IsTable(orders, OrderType)
    BY DEF IInv, ItsOK, TypeOK, TablesOK, Tables
<1>2. its[b].order_id \in Book(orders, txn.sympair_id, b)
    BY <1>1 DEF OnFirst, FirstOf
<1>3. InBook(OrderAt(b), txn.sympair_id, b) /\ its[b].order_id \in DOMAIN orders
      /\ its[b].order_id \in Ids /\ OrderAt(b) \in OrderType
    BY <1>1, <1>2, BookRows DEF OrderAt
<1>. QED BY <1>1, <1>3 DEF IInv, RowsOK, OrderAt, InBook

LEMMA PairType ==
    ASSUME IInv, txn.phase = "matching"
    PROVE  /\ Pair \in SympairType
           /\ Pair.asset_symbol \in Tokens /\ Pair.coin_symbol \in Tokens
           /\ Precision[Pair.asset_symbol] \in Nat \ {0}
<1>1. Pair \in SympairType
    BY RowType DEF IInv, PairOK, TypeOK, TablesOK, Tables, Pair
<1>. QED BY <1>1, ConstantsAssumption DEF SympairType

(***************************************************************************)
(* The books, the price and the limits of the next deal.                   *)
(***************************************************************************)
Maker(d) == IF d.taker_side = "buy" THEN d.sell ELSE d.buy

LEMMA NextDealBooks ==
    ASSUME IInv, LoopCondition
    PROVE  LET d == NextDeal IN
           /\ d.buy \in Books /\ d.sell \in Books /\ d.buy # d.sell
           /\ side_of(d.buy) = "buy" /\ side_of(d.sell) = "sell"
           /\ is_valid(its[d.buy]) /\ is_valid(its[d.sell])
           /\ d.taker_side \in {"buy", "sell"}
           /\ type_of(Maker(d)) = "limit" /\ d.price = OrderAt(Maker(d)).price
           /\ type_of(d.buy) = "limit" => d.price <= OrderAt(d.buy).price
           /\ type_of(d.sell) = "limit" => d.price >= OrderAt(d.sell).price
           /\ pairing(orders, its).taker \in {d.buy, d.sell}
           /\ pairing(orders, its).maker = Maker(d)
<1> DEFINE p == pairing(orders, its)
           d == NextDeal
<1>1. /\ txn.phase = "matching"
      /\ p.taker \in Books /\ p.maker = limit_against(p.taker)
      /\ is_valid(its[p.taker]) /\ is_valid(its[p.maker])
      /\ type_of(p.taker) = "limit" => Crosses(orders, its)
    BY PairingFacts DEF LoopCondition
<1>2. /\ side_of(p.taker) \in {"buy", "sell"} /\ side_of(p.maker) \in {"buy", "sell"}
      /\ p.maker \in Books /\ p.maker # p.taker
      /\ type_of(p.maker) = "limit" /\ side_of(p.maker) # side_of(p.taker)
    BY <1>1, BookFacts
<1>3. /\ d.taker_side = side_of(p.taker)
      /\ d.buy = IF side_of(p.taker) = "buy" THEN p.taker ELSE p.maker
      /\ d.sell = IF side_of(p.taker) = "buy" THEN p.maker ELSE p.taker
      /\ d.price = OrderAt(p.maker).price
    BY DEF NextDeal
<1>. HIDE DEF d, p
<1>4. Maker(d) = p.maker
    BY <1>2, <1>3 DEF Maker
<1>5. OrderAt(p.maker).price \in Nat /\ OrderAt(p.taker).price \in Nat
    BY <1>1, <1>2, RowAt DEF OrderType
<1>6. ASSUME type_of(p.taker) = "limit"
      PROVE  /\ side_of(p.taker) = "buy" => OrderAt(p.maker).price <= OrderAt(p.taker).price
             /\ side_of(p.taker) = "sell" => OrderAt(p.maker).price >= OrderAt(p.taker).price
  <2>1. CASE p.taker = "limit_buy"
    <3>1. p.maker = "limit_sell"
        BY <2>1, <1>1 DEF limit_against, side_of
    <3>. QED BY <2>1, <3>1, <1>1, <1>5, <1>6 DEF Crosses, OrderAt, side_of
  <2>2. CASE p.taker = "limit_sell"
    <3>1. p.maker = "limit_buy"
        BY <2>2, <1>1 DEF limit_against, side_of
    <3>. QED BY <2>2, <3>1, <1>1, <1>5, <1>6 DEF Crosses, OrderAt, side_of
  <2>. QED BY <2>1, <2>2, <1>1, <1>6 DEF Books, type_of
<1>7. CASE side_of(p.taker) = "buy"
    BY <1>1, <1>2, <1>3, <1>4, <1>5, <1>6, <1>7 DEF d, p
<1>8. CASE side_of(p.taker) = "sell"
    BY <1>1, <1>2, <1>3, <1>4, <1>5, <1>6, <1>8 DEF d, p
<1>. QED BY <1>2, <1>7, <1>8

(***************************************************************************)
(* The amounts of the next deal, and what its iterators become.            *)
(***************************************************************************)
LEMMA FreeType ==
    ASSUME IInv, txn.phase = "matching", NEW b \in Books, is_valid(its[b]), FreeAt(b) > 0
    PROVE  FreeAt(b) \in Nat
<1>1. OrderAt(b) \in OrderType /\ its[b] \in ItType
    BY RowAt
<1>2. FreeAt(b) \in Int
    BY <1>1 DEF FreeAt, free_limit_quant, OrderType, ItType
<1>. QED BY <1>2

LEMMA NextDealAmounts ==
    ASSUME IInv, LoopCondition, CheckFree
    PROVE  LET d == NextDeal IN
           /\ d.assets \in Nat /\ d.coins \in Nat /\ d.price \in Nat
           /\ d.buy_fee \in Nat /\ d.sell_fee \in Nat
           /\ OrderAt(d.buy).fee_symbol # "coin" => d.buy_fee <= d.assets
           /\ d.sell_fee <= d.coins
<1> DEFINE p == pairing(orders, its)
           d == NextDeal
           amounts == amounts_of(OrderAt(p.taker), FreeAt(p.taker), FreeAt(p.maker),
                                 OrderAt(p.maker).price, Precision[Pair.asset_symbol])
           fee_quant == IF OrderAt(d.buy).fee_symbol = "coin" THEN d.coins ELSE d.assets
<1>1. /\ txn.phase = "matching"
      /\ d.buy \in Books /\ d.sell \in Books
      /\ is_valid(its[d.buy]) /\ is_valid(its[d.sell])
      /\ p.taker \in {d.buy, d.sell} /\ p.maker \in {d.buy, d.sell}
      /\ type_of(p.maker) = "limit" /\ d.price = OrderAt(p.maker).price
    BY NextDealBooks DEF LoopCondition, Maker
<1>2. FreeAt(p.taker) > 0 /\ FreeAt(p.maker) > 0
    BY DEF CheckFree, free_ok
<1>3. FreeAt(p.taker) \in Nat /\ FreeAt(p.maker) \in Nat
    BY <1>1, <1>2, FreeType
<1>4. OrderAt(p.maker).price \in Nat \ {0} /\ Precision[Pair.asset_symbol] \in Nat \ {0}
    BY <1>1, RowAt, PairType DEF OrderType
<1>5. amounts.assets \in Nat /\ amounts.coins \in Nat
    BY <1>3, <1>4, AmountsType
<1>6. d.assets = amounts.assets /\ d.coins = amounts.coins
    BY DEF NextDeal
<1>7. /\ d.buy_fee = calc_match_fee(fee_ratio(OrderAt(d.buy), d.taker_side), fee_quant)
      /\ d.sell_fee = calc_match_fee(fee_ratio(OrderAt(d.sell), d.taker_side), d.coins)
    BY DEF NextDeal
<1>. HIDE DEF d, p, amounts
<1>8. /\ fee_ratio(OrderAt(d.buy), d.taker_side) \in Ratios
      /\ fee_ratio(OrderAt(d.sell), d.taker_side) \in Ratios
    BY <1>1, RowAt DEF fee_ratio, OrderType
<1>9. fee_quant \in Nat /\ d.coins \in Nat
    BY <1>5, <1>6
<1>10. /\ d.buy_fee \in Nat /\ d.buy_fee <= fee_quant
       /\ d.sell_fee \in Nat /\ d.sell_fee <= d.coins
    BY <1>7, <1>8, <1>9, FeeType
<1>11. d.assets \in Nat /\ d.price \in Nat
    BY <1>1, <1>4, <1>5, <1>6
<1>. QED BY <1>9, <1>10, <1>11 DEF d

LEMMA NextDealIdType ==
    ASSUME TypeOK
    PROVE  NextDealId \in Ids
BY NewIdType DEF TypeOK, TablesOK, Tables, GlobalType, NextDealId

LEMMA NextDealIts ==
    ASSUME IInv, LoopCondition, CheckFree
    PROVE  LET d == NextDeal IN
           /\ BuyIt(d) \in ItType /\ SellIt(d) \in ItType
           /\ BuyIt(d).order_id = its[d.buy].order_id
           /\ SellIt(d).order_id = its[d.sell].order_id
<1> DEFINE d == NextDeal
<1>1. /\ OrderAt(d.buy) \in OrderType /\ its[d.buy] \in ItType
      /\ OrderAt(d.sell) \in OrderType /\ its[d.sell] \in ItType
    BY NextDealBooks, RowAt DEF LoopCondition
<1>2. d.assets \in Nat /\ d.coins \in Nat /\ d.buy_fee \in Nat /\ d.sell_fee \in Nat
    BY NextDealAmounts
<1>3. NextDealId \in Ids
    BY NextDealIdType DEF IInv
<1>. HIDE DEF d
<1>4. BuyIt(d) \in ItType /\ BuyIt(d).order_id = its[d.buy].order_id
  <2>1. BuyIt(d) = matched_it(OrderAt(d.buy), its[d.buy], NextDealId, d.assets, d.coins, d.buy_fee)
    BY DEF BuyIt
  <2>. QED BY <1>1, <1>2, <1>3, <2>1, MatchedItType
<1>5. SellIt(d) \in ItType /\ SellIt(d).order_id = its[d.sell].order_id
  <2>1. SellIt(d) = matched_it(OrderAt(d.sell), its[d.sell], NextDealId, d.assets, d.coins, d.sell_fee)
    BY DEF SellIt
  <2>. QED BY <1>1, <1>2, <1>3, <2>1, MatchedItType
<1>. QED BY <1>4, <1>5 DEF d

LEMMA SettledType ==
    ASSUME IInv, LoopCondition, CheckFree
    PROVE  Settled(NextDeal) \in BalancesType
<1> DEFINE d == NextDeal
           buyer == OrderAt(d.buy).owner
           seller == OrderAt(d.sell).owner
           coin == Pair.coin_symbol
           asset == Pair.asset_symbol
           coin_fee == OrderAt(d.buy).fee_symbol = "coin"
           to_buyer == IF coin_fee THEN d.assets ELSE d.assets - d.buy_fee
           refund == refund_coins_of(BuyIt(d))
           a1 == add_balance(accounts, config.dex_fee_collector,
                             IF coin_fee THEN coin ELSE asset, d.buy_fee)
           a2 == add_balance(a1, config.dex_fee_collector, coin, d.sell_fee)
           a3 == add_balance(a2, seller, coin, d.coins - d.sell_fee)
           a4 == add_balance(a3, buyer, asset, to_buyer)
           a5 == add_balance(a4, buyer, coin, refund)
<1>1. Settled(NextDeal) = a5
    BY DEF Settled
<1>2. /\ d.assets \in Nat /\ d.coins \in Nat /\ d.buy_fee \in Nat /\ d.sell_fee \in Nat
      /\ ~coin_fee => d.buy_fee <= d.assets
      /\ d.sell_fee <= d.coins
    BY NextDealAmounts
<1>3. to_buyer \in Nat /\ d.coins - d.sell_fee \in Nat
    BY <1>2
<1>4. refund \in Nat
  <2>1. BuyIt(d) \in ItType
    BY NextDealIts
  <2>. QED BY <2>1 DEF refund_coins_of, ItType
<1>5. buyer \in Accounts /\ seller \in Accounts
    BY NextDealBooks, RowAt DEF LoopCondition, OrderType
<1>6. coin \in Tokens /\ asset \in Tokens
    BY PairType DEF LoopCondition
<1>7. config.dex_fee_collector \in Accounts /\ accounts \in BalancesType
    BY DEF IInv, TypeOK, TablesOK, Tables, ValidConfigType, ConfigType
<1>. HIDE DEF d, buyer, seller, coin, asset, coin_fee, to_buyer, refund
<1>8. a1 \in BalancesType
    BY <1>2, <1>6, <1>7, AddBalance
<1>. HIDE DEF a1
<1>9. a2 \in BalancesType
    BY <1>2, <1>6, <1>7, <1>8, AddBalance
<1>. HIDE DEF a2
<1>10. a3 \in BalancesType
    BY <1>3, <1>5, <1>6, <1>9, AddBalance
<1>. HIDE DEF a3
<1>11. a4 \in BalancesType
    BY <1>3, <1>5, <1>6, <1>10, AddBalance
<1>. HIDE DEF a4
<1>12. a5 \in BalancesType
    BY <1>4, <1>5, <1>6, <1>11, AddBalance
<1>. QED BY <1>1, <1>12

----------------------------------------------------------------------------
(* The invariant is inductive: one lemma per kind of action *)

\* What has to be shown of a step that ends outside of a transaction.
LEMMA NotMatching ==
    ASSUME TypeOK', RowsOK(orders)', RowsOK(undo.orders)', txn'.phase = "idle"
    PROVE  IInv'
BY DEF IInv, PairOK, ItsOK, UndoOK

\* The parts of the type invariant.
LEMMA TypeParts ==
    TypeOK <=> /\ config \in ValidConfigType
               /\ IsTable(sympairs, SympairType) /\ IsTable(orders, OrderType)
               /\ IsTable(deals, DealType) /\ global \in GlobalType
               /\ accounts \in BalancesType
               /\ bank \in BalancesType /\ now \in Nat
               /\ txn \in TxnType /\ its \in [Books -> ItType]
               /\ TablesOK(undo)
BY DEF TypeOK, TablesOK, Tables

LEMMA TypePartsNext ==
    TypeOK' <=> /\ config' \in ValidConfigType
                /\ IsTable(sympairs', SympairType) /\ IsTable(orders', OrderType)
                /\ IsTable(deals', DealType) /\ global' \in GlobalType
                /\ accounts' \in BalancesType
                /\ bank' \in BalancesType /\ now' \in Nat
                /\ txn' \in TxnType /\ its' \in [Books -> ItType]
                /\ TablesOK(undo')
BY DEF TypeOK, TablesOK, Tables

LEMMA IdleType ==
    /\ Idle \in TxnType /\ Idle.phase = "idle"
    /\ NoIts \in [Books -> ItType]
    /\ TablesOK(NoUndo) /\ RowsOK(NoUndo.orders)
<1>1. 0 \in Ids
    BY ConstantsAssumption DEF Ids
<1>2. Idle \in TxnType /\ Idle.phase = "idle"
    BY <1>1 DEF Idle, TxnType
<1>3. NoIts \in [Books -> ItType]
    BY ClosedItType DEF NoIts
<1>4. TablesOK(NoUndo)
    BY <1>1, EmptyIsTable, InitialAssumption DEF NoUndo, TablesOK, GlobalType
<1>5. RowsOK(NoUndo.orders)
    BY DEF NoUndo, RowsOK, EmptyTable
<1>. QED BY <1>2, <1>3, <1>4, <1>5

LEMMA InitIInv == Init => IInv
<1> SUFFICES ASSUME Init PROVE IInv
    OBVIOUS
<1>1. IsTable(InitialSympairs, SympairType)
  <2>1. /\ DOMAIN InitialSympairs = 1 .. Len(InitialSympairs)
        /\ InitialSympairs \in [1 .. Len(InitialSympairs) -> SympairType]
        /\ Len(InitialSympairs) \in Nat
    BY InitialAssumption
  <2>. QED BY <2>1, InitialAssumption, ConstantsAssumption DEF IsTable, Ids
<1>2. [order_id |-> 0, sympair_id |-> Len(InitialSympairs), deal_item_id |-> 0] \in GlobalType
    BY InitialAssumption, ConstantsAssumption DEF GlobalType, Ids
<1>3. TypeOK
    BY <1>1, <1>2, EmptyIsTable, IdleType, InitialAssumption, TypeParts DEF Init
<1>4. RowsOK(orders) /\ RowsOK(undo.orders)
    BY IdleType DEF Init, RowsOK, EmptyTable
<1>. QED BY <1>3, <1>4, IdleType DEF Init, IInv, PairOK, ItsOK, UndoOK

LEMMA AdministrationStep ==
    ASSUME IInv, Administration
    PROVE  IInv'
<1>1. TypeOK /\ RowsOK(orders) /\ RowsOK(undo.orders)
    BY DEF IInv
<1>2. ASSUME NEW conf \in Configs, SetConfig(conf)
      PROVE  IInv'
  <2>1. conf \in ValidConfigType
    BY <1>2, InputsAssumption DEF SetConfig, ValidConfigType, validate_fee_ratio, Ratios
  <2>2. TypeOK'
    BY <1>1, <1>2, <2>1, TypeParts, TypePartsNext DEF SetConfig, tables, matching
  <2>. QED BY <1>1, <1>2, <2>2, NotMatching DEF SetConfig, tables, matching
<1>3. ASSUME NEW pair \in PairInputs, NEW coin_fee \in BOOLEAN, NEW enabled \in BOOLEAN,
             CreateSympair(pair[1], pair[2], coin_fee, enabled)
      PROVE  IInv'
  <2> DEFINE id == new_auto_inc_id(global.sympair_id)
             row == [asset_symbol |-> pair[1], coin_symbol |-> pair[2],
                     latest_deal_price |-> 0, only_accept_coin_fee |-> coin_fee,
                     enabled |-> enabled]
  <2>1. id \in Ids
    BY <1>1, TypeParts, NewIdType DEF GlobalType
  <2>2. row \in SympairType
    BY InputsAssumption DEF SympairType
  <2>3. sympairs' = Put(sympairs, id, row) /\ global' = [global EXCEPT !.sympair_id = id]
    BY <1>3 DEF CreateSympair
  <2>. HIDE DEF id, row
  <2>4. IsTable(sympairs', SympairType)
    BY <1>1, <2>1, <2>2, <2>3, TypeParts, PutTable
  <2>5. global' \in GlobalType
    BY <1>1, <2>1, <2>3, TypeParts DEF GlobalType
  <2>6. TypeOK'
    BY <1>1, <1>3, <2>4, <2>5, TypeParts, TypePartsNext DEF CreateSympair, matching
  <2>. QED BY <1>1, <1>3, <2>6, NotMatching DEF CreateSympair, matching
<1>4. ASSUME NEW i \in DOMAIN sympairs, NEW coin_fee \in BOOLEAN, NEW enabled \in BOOLEAN,
             ModifySympair(i, coin_fee, enabled)
      PROVE  IInv'
  <2>1. IsTable(sympairs', SympairType)
    <3>1. sympairs[i] \in SympairType
      BY <1>1, TypeParts, RowType
    <3>2. [sympairs[i] EXCEPT !.only_accept_coin_fee = coin_fee, !.enabled = enabled] \in SympairType
      BY <3>1 DEF SympairType
    <3>3. sympairs' = [sympairs EXCEPT ![i] = [sympairs[i] EXCEPT !.only_accept_coin_fee = coin_fee,
                                                                 !.enabled = enabled]]
      BY <1>4, <1>1, TypeParts DEF ModifySympair, IsTable
    <3>. QED BY <1>1, <3>2, <3>3, TypeParts, UpdateTable
  <2>2. TypeOK'
    BY <1>1, <1>4, <2>1, TypeParts, TypePartsNext DEF ModifySympair, matching
  <2>. QED BY <1>1, <1>4, <2>2, NotMatching DEF ModifySympair, matching
<1>5. ASSUME NEW i \in DOMAIN sympairs, NEW on_off \in BOOLEAN, OnOffSympair(i, on_off)
      PROVE  IInv'
  <2>1. IsTable(sympairs', SympairType)
    <3>0. sympairs[i] \in SympairType
      BY <1>1, TypeParts, RowType
    <3>1. [sympairs[i] EXCEPT !.enabled = on_off] \in SympairType
      BY <3>0 DEF SympairType
    <3>. QED BY <1>1, <1>5, <3>1, TypeParts, UpdateTable DEF OnOffSympair
  <2>2. TypeOK'
    BY <1>1, <1>5, <2>1, TypeParts, TypePartsNext DEF OnOffSympair, matching
  <2>. QED BY <1>1, <1>5, <2>2, NotMatching DEF OnOffSympair, matching
<1>. QED BY <1>2, <1>3, <1>4, <1>5 DEF Administration

LEMMA FundsStep ==
    ASSUME IInv, Funds
    PROVE  IInv'
<1>1. TypeOK /\ RowsOK(orders) /\ RowsOK(undo.orders)
    BY DEF IInv
<1>2. PICK user \in Traders, token \in Tokens, quant \in TransferQuants :
          OnTransfer(user, token, quant) \/ Withdraw(user, token, quant)
    BY DEF Funds
<1>3. user \in Accounts /\ Self \in Accounts /\ quant \in Nat
    BY ConstantsAssumption, InputsAssumption
<1>4. CASE OnTransfer(user, token, quant)
  <2>1. bank' \in BalancesType
    BY <1>1, <1>3, <1>4, TypeParts, BankTransfer DEF OnTransfer
  <2>2. accounts' \in BalancesType
    BY <1>1, <1>3, <1>4, TypeParts, AddBalance DEF OnTransfer
  <2>3. TypeOK'
    BY <1>1, <1>4, <2>1, <2>2, TypeParts, TypePartsNext DEF OnTransfer, matching
  <2>. QED BY <1>1, <1>4, <2>3, NotMatching DEF OnTransfer, matching
<1>5. CASE Withdraw(user, token, quant)
  <2>1. bank' \in BalancesType
    BY <1>1, <1>3, <1>5, TypeParts, BankTransfer DEF Withdraw
  <2>2. accounts' \in BalancesType
    BY <1>1, <1>3, <1>5, TypeParts, SubBalance DEF Withdraw, balance_suffices
  <2>3. TypeOK'
    BY <1>1, <1>5, <2>1, <2>2, TypeParts, TypePartsNext DEF Withdraw, matching
  <2>. QED BY <1>1, <1>5, <2>3, NotMatching DEF Withdraw, matching
<1>. QED BY <1>2, <1>4, <1>5

LEMMA CoinsToPayType ==
    ASSUME NEW pair \in SympairType, NEW order_type, NEW limit_quant, NEW price,
           limit_quant \in Nat, price \in Nat
    PROVE  coins_to_pay(pair, order_type, limit_quant, price) \in Nat
<1>1. Precision[pair.asset_symbol] \in Nat \ {0}
    BY ConstantsAssumption DEF SympairType
<1>. QED BY <1>1, MultiplyNat DEF coins_to_pay, calc_coin_amount

LEMMA FrozenQuantType ==
    ASSUME NEW pair \in SympairType, NEW order_type, NEW order_side, NEW limit_quant,
           NEW price, NEW ratio, limit_quant \in Nat, price \in Nat, ratio \in Ratios
    PROVE  /\ frozen_quant_of(pair, order_type, order_side, limit_quant, price, ratio) \in Nat
           /\ frozen_token(pair, order_side) \in Tokens
<1> DEFINE coins == coins_to_pay(pair, order_type, limit_quant, price)
<1>1. coins \in Nat
    BY CoinsToPayType
<1>2. calc_match_fee(ratio, coins) \in Nat
    BY <1>1, FeeType
<1>. QED BY <1>1, <1>2 DEF frozen_quant_of, frozen_token, SympairType

LEMMA CancelStep ==
    ASSUME IInv, NEW id \in DOMAIN orders, Cancel(id)
    PROVE  IInv'
<1> DEFINE order == orders[id]
           row == [order EXCEPT !.status = "canceled", !.last_updated_at = now]
           pair == sympairs[order.sympair_id]
<1>1. TypeOK /\ RowsOK(orders) /\ RowsOK(undo.orders)
    BY DEF IInv
<1>2. order \in OrderType /\ id \in Ids /\ now \in Nat
    BY <1>1, TypeParts, RowType
<1>3. pair \in SympairType
    BY <1>1, TypeParts, RowType, <1>2 DEF Cancel
<1>4. row \in OrderType /\ row.order_id = order.order_id
      /\ row.order_type = order.order_type /\ row.price = order.price
    BY <1>2 DEF OrderType
<1>5. orders' = [orders EXCEPT ![id] = row]
    BY <1>1, TypeParts DEF Cancel, IsTable
<1>6. IsTable(orders', OrderType)
    BY <1>1, <1>4, <1>5, TypeParts, UpdateTable
<1>7. RowsOK(orders)'
    BY <1>1, <1>4, <1>5 DEF RowsOK
<1>8. unfrozen_quant(order) \in Nat
  <2>1. unfrozen_quant(order) >= 0
    BY DEF Cancel
  <2>2. unfrozen_quant(order) \in Int
    BY <1>2 DEF unfrozen_quant, OrderType
  <2>. QED BY <2>1, <2>2
<1>9. accounts' \in BalancesType
  <2>1. frozen_token(pair, order.order_side) \in Tokens /\ order.owner \in Accounts
    BY <1>2, <1>3 DEF frozen_token, SympairType, OrderType
  <2>2. accounts' = add_balance(accounts, order.owner, frozen_token(pair, order.order_side),
                                unfrozen_quant(order))
    BY DEF Cancel
  <2>. QED BY <1>1, <1>8, <2>1, <2>2, TypeParts, AddBalance
<1>10. TypeOK'
    BY <1>1, <1>6, <1>9, TypeParts, TypePartsNext DEF Cancel, matching
<1>. QED BY <1>1, <1>7, <1>10, NotMatching DEF Cancel, matching

\* Opening the iterators of a pair puts each on the first row of its book.
LEMMA OpenIts ==
    ASSUME NEW tbl, IsTable(tbl, OrderType), NEW p,
           its' = [b \in Books |-> open_it(tbl, p, b)]
    PROVE  /\ its' \in [Books -> ItType]
           /\ \A b \in Books : is_valid(its'[b]) =>
                  its'[b].order_id \in FirstOf(tbl, Book(tbl, p, b))
<1>1. \A b \in Books : Book(tbl, p, b) \subseteq DOMAIN tbl
    BY DEF Book
<1>2. \A b \in Books :
          /\ open_it(tbl, p, b) \in ItType
          /\ is_valid(open_it(tbl, p, b)) =>
                 open_it(tbl, p, b).order_id \in FirstOf(tbl, Book(tbl, p, b))
    BY <1>1, ItAtFirst DEF open_it
<1>. QED BY <1>2

LEMMA NewOrderStep ==
    ASSUME IInv, NEW user \in Traders, NEW i \in DOMAIN sympairs, NEW kind \in OrderKinds,
           NEW quant \in LimitQuants, NEW price \in Prices, NEW ex \in OrderConfigs,
           NEW signed \in BOOLEAN,
           NewOrder(user, i, kind[1], kind[2], quant, price, ex, signed)
    PROVE  IInv'
<1> DEFINE pair == sympairs[i]
           ratios == order_ratios(ex)
           frozen == frozen_quant_of(pair, kind[1], kind[2], quant, price, ratios.taker)
           id == new_auto_inc_id(global.order_id)
           order == [order_id |-> id, owner |-> user, sympair_id |-> i,
                     order_type |-> kind[1], order_side |-> kind[2],
                     price |-> price, limit_quant |-> quant, frozen_quant |-> frozen,
                     taker_fee_ratio |-> ratios.taker, maker_fee_ratio |-> ratios.maker,
                     matched_assets |-> 0, matched_coins |-> 0, matched_fee |-> 0,
                     fee_symbol |-> IF kind[2] = "buy" /\ ~pair.only_accept_coin_fee
                                    THEN "asset" ELSE "coin",
                     status |-> "matchable", last_updated_at |-> now, last_deal_id |-> 0]
<1>1. TypeOK /\ RowsOK(orders) /\ RowsOK(undo.orders)
    BY DEF IInv
<1>2. /\ user \in Accounts /\ quant \in Nat /\ price \in Nat
      /\ kind[1] \in OrderTypes /\ kind[2] \in OrderSides
      /\ ex \in [given : BOOLEAN, taker_fee_ratio : Nat, maker_fee_ratio : Nat]
    BY ConstantsAssumption, InputsAssumption
<1>3. pair \in SympairType /\ i \in Ids
    BY <1>1, TypeParts, RowType
<1>4. ratios.taker \in Ratios /\ ratios.maker \in Ratios
  <2>1. CASE ex.given
    BY <1>2, <2>1 DEF NewOrder, order_ratios, validate_fee_ratio, Ratios
  <2>2. CASE ~ex.given
    BY <1>1, <2>2, TypeParts DEF order_ratios, ValidConfigType
  <2>. QED BY <2>1, <2>2
<1>5. frozen \in Nat /\ frozen_token(pair, kind[2]) \in Tokens
    BY <1>2, <1>3, <1>4, FrozenQuantType
<1>6. id \in Ids /\ 0 \in Ids
    BY <1>1, TypeParts, NewIdType, ConstantsAssumption DEF GlobalType, Ids
<1>7. orders' = Put(orders, id, order) /\ global' = [global EXCEPT !.order_id = id]
    BY DEF NewOrder
<1>8. accounts[user][frozen_token(pair, kind[2])] >= frozen
      /\ accounts' = sub_balance(accounts, user, frozen_token(pair, kind[2]), frozen)
    BY DEF NewOrder, balance_suffices
<1>9. kind[1] = "limit" => price > 0
    BY DEF NewOrder
<1>10. order \in OrderType
  <2>1. now \in Nat
    BY <1>1, TypeParts
  <2>. HIDE DEF pair, ratios, frozen, id
  <2>. QED BY <1>2, <1>3, <1>4, <1>5, <1>6, <2>1 DEF OrderType
<1>11. order.order_id = id /\ order.order_type = kind[1] /\ order.price = price
    OBVIOUS
<1>. HIDE DEF pair, ratios, frozen, id, order
<1>12. IsTable(orders', OrderType)
    BY <1>1, <1>6, <1>7, <1>10, TypeParts, PutTable
<1>13. RowsOK(orders)'
    BY <1>1, <1>7, <1>9, <1>11 DEF RowsOK, Put
<1>14. global' \in GlobalType
    BY <1>1, <1>6, <1>7, TypeParts DEF GlobalType
<1>15. accounts' \in BalancesType
    BY <1>1, <1>2, <1>5, <1>8, TypeParts, SubBalance
<1>16. CASE config.max_match_count > 0
  <2>1. /\ StartMatching("order", <<>>, i, config.max_match_count)
        /\ its' = [b \in Books |-> open_it(orders', i, b)]
        /\ undo' = Tables
    BY <1>16 DEF NewOrder
  <2>2. txn' \in TxnType /\ txn'.phase = "matching" /\ txn'.sympair_id = i
    BY <1>1, <1>3, <2>1, TypeParts
       DEF StartMatching, TxnType, ValidConfigType, ConfigType
  <2>3. /\ its' \in [Books -> ItType]
        /\ \A b \in Books : is_valid(its'[b]) =>
               its'[b].order_id \in FirstOf(orders', Book(orders', i, b))
    BY <1>12, <2>1, OpenIts
  <2>4. TablesOK(undo') /\ RowsOK(undo.orders)'
    BY <1>1, <2>1 DEF TypeOK, Tables
  <2>5. TypeOK'
    BY <1>1, <1>12, <1>14, <1>15, <2>2, <2>3, <2>4, TypeParts, TypePartsNext DEF NewOrder
  <2>6. PairOK'
    BY <2>2 DEF PairOK, NewOrder
  <2>7. ItsOK'
    BY <2>2, <2>3 DEF ItsOK, OnFirst
  <2>8. UndoOK'
    BY <2>1 DEF UndoOK, Tables, NewOrder
  <2>. QED BY <1>13, <2>4, <2>5, <2>6, <2>7, <2>8 DEF IInv
<1>17. CASE ~(config.max_match_count > 0)
  <2>1. UNCHANGED matching
    BY <1>17 DEF NewOrder
  <2>2. TypeOK'
    BY <1>1, <1>12, <1>14, <1>15, <2>1, TypeParts, TypePartsNext DEF NewOrder, matching
  <2>. QED BY <1>1, <1>13, <2>1, <2>2, NotMatching DEF NewOrder, matching
<1>. QED BY <1>16, <1>17

LEMMA StartMatchStep ==
    ASSUME IInv, StartMatch
    PROVE  IInv'
<1>1. TypeOK /\ RowsOK(orders) /\ RowsOK(undo.orders)
    BY DEF IInv
<1>2. PICK max_count \in MatchCounts, list \in MatchLists : Match(max_count, list)
    BY DEF StartMatch
<1> DEFINE pairs == IF list = <<>> THEN [i \in 1 .. global.sympair_id |-> i] ELSE list
<1>3. max_count \in Nat /\ list \in Seq(Ids) /\ 0 \in Ids
    BY InputsAssumption, ConstantsAssumption DEF Ids
<1>4. pairs \in Seq(Ids)
  <2>1. global.sympair_id \in Ids
    BY <1>1, TypeParts DEF GlobalType
  <2>2. [i \in 1 .. global.sympair_id |-> i] \in Seq(Ids)
    BY <2>1, ConstantsAssumption DEF Ids
  <2>. QED BY <1>3, <2>2
<1>5. StartMatching("match", pairs, 0, max_count) /\ undo' = Tables
    BY <1>2 DEF Match
<1>. HIDE DEF pairs
<1>6. txn' \in TxnType /\ txn'.phase = "select"
    BY <1>3, <1>4, <1>5 DEF StartMatching, TxnType
<1>7. TablesOK(undo') /\ RowsOK(undo.orders)' /\ undo'.deals = deals
    BY <1>1, <1>5 DEF TypeOK, Tables
<1>8. UNCHANGED <<config, tables, bank, now, its>>
    BY <1>2 DEF Match
<1>9. TypeOK' /\ RowsOK(orders)'
    BY <1>1, <1>6, <1>7, <1>8, TypeParts, TypePartsNext DEF tables
<1>. QED BY <1>6, <1>7, <1>8, <1>9 DEF IInv, PairOK, ItsOK, UndoOK, tables

LEMMA OpenPairStep ==
    ASSUME IInv, OpenPair
    PROVE  IInv'
<1> DEFINE id == Head(txn.pairs)
<1>1. TypeOK /\ RowsOK(orders) /\ RowsOK(undo.orders) /\ UndoOK
    BY DEF IInv
<1>2. UNCHANGED <<config, tables, bank, now, undo>> /\ txn.phase = "select"
    BY DEF OpenPair
<1>3. txn.pairs \in Seq(Ids) /\ txn.pairs # <<>> /\ txn \in TxnType
    BY <1>1, TypeParts DEF OpenPair, PairsDone, TxnType
<1>4. id \in Ids /\ Tail(txn.pairs) \in Seq(Ids)
    BY <1>3
<1>5. UndoOK'
    BY <1>1, <1>2 DEF UndoOK, tables
<1>6. CASE id \in DOMAIN sympairs /\ sympairs[id].enabled
  <2>1. /\ txn' = [txn EXCEPT !.phase = "matching", !.pairs = Tail(txn.pairs),
                              !.sympair_id = id, !.latest_deal_price = 0]
        /\ its' = [b \in Books |-> open_it(orders, id, b)]
    BY <1>6 DEF OpenPair
  <2>2. txn' \in TxnType /\ txn'.phase = "matching" /\ txn'.sympair_id = id
    BY <1>3, <1>4, <2>1 DEF TxnType
  <2>3. /\ its' \in [Books -> ItType]
        /\ \A b \in Books : is_valid(its'[b]) =>
               its'[b].order_id \in FirstOf(orders, Book(orders, id, b))
    BY <1>1, <2>1, TypeParts, OpenIts
  <2>4. TypeOK'
    BY <1>1, <1>2, <2>2, <2>3, TypeParts, TypePartsNext DEF tables
  <2>5. PairOK'
    BY <1>2, <1>6, <2>2 DEF PairOK, tables
  <2>6. ItsOK'
    BY <1>2, <2>2, <2>3 DEF ItsOK, OnFirst, tables
  <2>7. RowsOK(orders)' /\ RowsOK(undo.orders)'
    BY <1>1, <1>2 DEF tables
  <2>. QED BY <1>5, <2>4, <2>5, <2>6, <2>7 DEF IInv
<1>7. CASE ~(id \in DOMAIN sympairs /\ sympairs[id].enabled)
  <2>1. txn' = [txn EXCEPT !.pairs = Tail(txn.pairs)] /\ its' = its
    BY <1>7 DEF OpenPair
  <2>2. txn' \in TxnType /\ txn'.phase = "select"
    BY <1>2, <1>3, <1>4, <2>1 DEF TxnType
  <2>3. TypeOK'
    BY <1>1, <1>2, <2>1, <2>2, TypeParts, TypePartsNext DEF tables
  <2>4. RowsOK(orders)' /\ RowsOK(undo.orders)'
    BY <1>1, <1>2 DEF tables
  <2>. QED BY <1>5, <2>2, <2>3, <2>4 DEF IInv, PairOK, ItsOK
<1>. QED BY <1>6, <1>7

LEMMA ClosePairStep ==
    ASSUME IInv, ClosePair
    PROVE  IInv'
<1>1. TypeOK /\ RowsOK(orders) /\ RowsOK(undo.orders) /\ UndoOK
    BY DEF IInv
<1>2. /\ txn.phase = "matching" /\ orders' = SavedOrders /\ its' = NoIts
      /\ txn' = [txn EXCEPT !.phase = "select"]
      /\ UNCHANGED <<config, deals, global, accounts, bank, now, undo>>
    BY DEF ClosePair
<1>3. \A i \in DOMAIN orders :
          /\ SavedOrders[i] \in OrderType
          /\ SavedOrders[i].order_id = orders[i].order_id
          /\ SavedOrders[i].order_type = orders[i].order_type
          /\ SavedOrders[i].price = orders[i].price
  <2> TAKE i \in DOMAIN orders
  <2>1. orders[i] \in OrderType /\ now \in Nat /\ its \in [Books -> ItType]
    BY <1>1, TypeParts, RowType
  <2>2. CASE MatchingAt(i) = {}
    BY <2>1, <2>2 DEF SavedOrders
  <2>3. CASE MatchingAt(i) # {}
    <3>1. PICK b \in MatchingAt(i) : SavedOrders[i] = saved_row(orders[i], its[b], now)
      BY <2>3 DEF SavedOrders
    <3>2. its[b] \in ItType
      BY <2>1 DEF MatchingAt
    <3>. QED BY <2>1, <3>1, <3>2, SavedRowType
  <2>. QED BY <2>2, <2>3
<1>4. DOMAIN SavedOrders = DOMAIN orders /\ IsTable(SavedOrders, OrderType)
  <2>1. DOMAIN SavedOrders = DOMAIN orders /\ DOMAIN orders \subseteq Ids
    BY <1>1, TypeParts DEF SavedOrders, IsTable
  <2>2. SavedOrders \in [DOMAIN orders -> OrderType]
    BY <1>3 DEF SavedOrders
  <2>. QED BY <2>1, <2>2 DEF IsTable
<1>5. RowsOK(orders)' /\ RowsOK(undo.orders)'
    BY <1>1, <1>2, <1>3, <1>4 DEF RowsOK
<1>6. IsTable(sympairs', SympairType)
  <2>1. CASE txn.latest_deal_price > 0
    <3>1. sympairs[txn.sympair_id] \in SympairType /\ txn.latest_deal_price \in Nat
      BY <1>1, <1>2, TypeParts, RowType DEF IInv, PairOK, TxnType
    <3>2. [sympairs[txn.sympair_id] EXCEPT !.latest_deal_price = txn.latest_deal_price]
              \in SympairType
      BY <3>1 DEF SympairType
    <3>3. sympairs' = [sympairs EXCEPT ![txn.sympair_id] =
              [sympairs[txn.sympair_id] EXCEPT !.latest_deal_price = txn.latest_deal_price]]
      BY <2>1 DEF ClosePair
    <3>. QED BY <1>1, <3>2, <3>3, TypeParts, UpdateTable
  <2>2. CASE ~(txn.latest_deal_price > 0)
    BY <1>1, <2>2, TypeParts DEF ClosePair
  <2>. QED BY <2>1, <2>2
<1>7. txn' \in TxnType /\ txn'.phase = "select"
    BY <1>1, <1>2, TypeParts DEF TxnType
<1>8. TypeOK'
    BY <1>1, <1>2, <1>4, <1>6, <1>7, IdleType, TypeParts, TypePartsNext
<1>9. UndoOK'
    BY <1>1, <1>2 DEF UndoOK
<1>. QED BY <1>5, <1>7, <1>8, <1>9 DEF IInv, PairOK, ItsOK

LEMMA EndStep ==
    ASSUME IInv, Commit \/ FailedCheck \/ NoneMatched
    PROVE  IInv'
<1>1. TypeOK /\ RowsOK(orders) /\ RowsOK(undo.orders)
    BY DEF IInv
<1>2. EndTransaction /\ UNCHANGED <<config, bank, now>>
    BY DEF Commit, FailedCheck, NoneMatched, Rollback
<1>3. /\ txn' \in TxnType /\ txn'.phase = "idle" /\ its' \in [Books -> ItType]
      /\ TablesOK(undo') /\ RowsOK(undo.orders)'
    BY <1>2, IdleType DEF EndTransaction
<1>4. CASE Commit
  <2>1. TypeOK'
    BY <1>1, <1>2, <1>3, <1>4, TypeParts, TypePartsNext DEF Commit, tables
  <2>. QED BY <1>1, <1>3, <1>4, <2>1, NotMatching DEF Commit, tables
<1>5. CASE Rollback
  <2>1. TypeOK'
    BY <1>1, <1>2, <1>3, <1>5, TypeParts, TypePartsNext DEF Rollback, TablesOK
  <2>. QED BY <1>1, <1>3, <1>5, <2>1, NotMatching DEF Rollback
<1>. QED BY <1>4, <1>5 DEF FailedCheck, NoneMatched

LEMMA CleaningStep ==
    ASSUME IInv, Cleaning
    PROVE  IInv'
<1>1. TypeOK /\ RowsOK(orders) /\ RowsOK(undo.orders)
    BY DEF IInv
<1>2. PICK max_count \in CleanCounts, stale \in BOOLEAN : CleanData(max_count, stale)
    BY DEF Cleaning
<1>3. /\ \E S : deals' = Without(deals, S)
      /\ \E S : orders' = Without(orders, S)
      /\ UNCHANGED <<config, sympairs, global, accounts, bank, now, matching>>
      /\ txn.phase = "idle"
    BY <1>2 DEF CleanData
<1>4. IsTable(deals', DealType) /\ IsTable(orders', OrderType)
    BY <1>1, <1>3, TypeParts, WithoutTable
<1>5. RowsOK(orders)'
    BY <1>1, <1>3 DEF RowsOK, Without
<1>6. TypeOK'
    BY <1>1, <1>3, <1>4, TypeParts, TypePartsNext DEF matching
<1>. QED BY <1>1, <1>3, <1>5, <1>6, NotMatching DEF matching

LEMMA TickStep ==
    ASSUME IInv, Tick
    PROVE  IInv'
<1>1. TypeOK /\ RowsOK(orders) /\ RowsOK(undo.orders)
    BY DEF IInv
<1>2. TypeOK'
    BY <1>1, TypeParts, TypePartsNext DEF Tick, tables, matching
<1>. QED BY <1>1, <1>2, NotMatching DEF Tick, tables, matching

----------------------------------------------------------------------------
(* The deal *)

(***************************************************************************)
(* When some rows of a table leave it for good, the others stay as they    *)
(* were, each book loses the rows that left and nothing else.              *)
(***************************************************************************)
LEMMA BookAfter ==
    ASSUME NEW tbl, NEW tbl2, NEW Done, DOMAIN tbl2 = DOMAIN tbl,
           \A i \in DOMAIN tbl \ Done : tbl2[i] = tbl[i],
           \A i \in Done : tbl2[i].status = "completed",
           NEW p, NEW b
    PROVE  /\ Book(tbl2, p, b) = Book(tbl, p, b) \ Done
           /\ \A j \in Book(tbl2, p, b) : tbl2[j] = tbl[j]
<1>1. \A i \in Done : ~InBook(tbl2[i], p, b)
    BY DEF InBook
<1>. QED BY <1>1 DEF Book

\* The iterator of a book whose first row a deal has been made with: it moves on
\* when the row has left the book, and stays where it is otherwise.
LEMMA ItAfterDeal ==
    ASSUME NEW tbl, IsTable(tbl, OrderType), NEW p, NEW b, NEW it \in ItType,
           it.order_id \in FirstOf(tbl, Book(tbl, p, b)),
           NEW tbl2, NEW Left, Book(tbl2, p, b) = Book(tbl, p, b) \ Left,
           \A j \in Book(tbl2, p, b) : tbl2[j] = tbl[j],
           \A i \in Book(tbl, p, b) : i \in Left <=> is_completed(it) /\ i = it.order_id,
           NEW new, new = IF is_completed(it) THEN next_it(tbl, p, b, it) ELSE it
    PROVE  /\ new \in ItType
           /\ is_valid(new) => new.order_id \in FirstOf(tbl2, Book(tbl2, p, b))
<1>1. CASE is_completed(it)
  <2>1. Book(tbl2, p, b) = Book(tbl, p, b) \ {it.order_id}
    BY <1>1
  <2>. QED BY <1>1, <2>1, NextItFirst
<1>2. CASE ~is_completed(it)
  <2>1. Book(tbl2, p, b) = Book(tbl, p, b)
    BY <1>2
  <2>. QED BY <1>2, <2>1, FirstOfSameRows
<1>. QED BY <1>1, <1>2

BuyId == its[NextDeal.buy].order_id
SellId == its[NextDeal.sell].order_id

\* The orders the deal completes.
Done == {i \in {BuyId, SellId} :
            \/ i = BuyId /\ is_completed(BuyIt(NextDeal))
            \/ i = SellId /\ is_completed(SellIt(NextDeal))}

LEMMA DealRows ==
    ASSUME IInv, Deal
    PROVE  /\ BuyId \in DOMAIN orders /\ SellId \in DOMAIN orders /\ BuyId # SellId
           /\ DOMAIN orders' = DOMAIN orders
           /\ \A i \in DOMAIN orders \ Done : orders'[i] = orders[i]
           /\ \A i \in Done : orders'[i].status = "completed"
           /\ IsTable(orders', OrderType)
           /\ RowsOK(orders)'
<1> DEFINE d == NextDeal
<1>1. TypeOK /\ RowsOK(orders) /\ LoopCondition /\ CheckFree /\ txn.phase = "matching"
    BY DEF IInv, Deal, ChecksPass, LoopCondition
<1>2. /\ d.buy \in Books /\ d.sell \in Books /\ d.buy # d.sell
      /\ is_valid(its[d.buy]) /\ is_valid(its[d.sell])
    BY <1>1, NextDealBooks
<1>3. /\ BuyId \in DOMAIN orders /\ orders[BuyId] \in OrderType
      /\ SellId \in DOMAIN orders /\ orders[SellId] \in OrderType
      /\ InBook(orders[BuyId], txn.sympair_id, d.buy)
      /\ InBook(orders[SellId], txn.sympair_id, d.sell)
      /\ OrderAt(d.buy) = orders[BuyId] /\ OrderAt(d.sell) = orders[SellId]
    BY <1>1, <1>2, RowAt DEF BuyId, SellId, OrderAt
<1>4. BuyId # SellId
    BY <1>2, <1>3, OneBook
<1>5. orders' = [orders EXCEPT ![BuyId] = RowAfter(d.buy, BuyIt(d)),
                               ![SellId] = RowAfter(d.sell, SellIt(d))]
    BY DEF Deal, BuyId, SellId
<1>6. BuyIt(d) \in ItType /\ SellIt(d) \in ItType /\ now \in Nat
    BY <1>1, NextDealIts, TypeParts
<1>9. /\ Done \subseteq {BuyId, SellId}
      /\ BuyId \in Done <=> is_completed(BuyIt(d))
      /\ SellId \in Done <=> is_completed(SellIt(d))
    BY <1>4 DEF Done
<1>. HIDE DEF d
<1>7. /\ RowAfter(d.buy, BuyIt(d)) \in OrderType
      /\ RowAfter(d.buy, BuyIt(d)).order_id = orders[BuyId].order_id
      /\ RowAfter(d.buy, BuyIt(d)).order_type = orders[BuyId].order_type
      /\ RowAfter(d.buy, BuyIt(d)).price = orders[BuyId].price
      /\ IF is_completed(BuyIt(d)) THEN RowAfter(d.buy, BuyIt(d)).status = "completed"
                                  ELSE RowAfter(d.buy, BuyIt(d)) = orders[BuyId]
    BY <1>3, <1>6, SavedRowType DEF RowAfter
<1>8. /\ RowAfter(d.sell, SellIt(d)) \in OrderType
      /\ RowAfter(d.sell, SellIt(d)).order_id = orders[SellId].order_id
      /\ RowAfter(d.sell, SellIt(d)).order_type = orders[SellId].order_type
      /\ RowAfter(d.sell, SellIt(d)).price = orders[SellId].price
      /\ IF is_completed(SellIt(d)) THEN RowAfter(d.sell, SellIt(d)).status = "completed"
                                   ELSE RowAfter(d.sell, SellIt(d)) = orders[SellId]
    BY <1>3, <1>6, SavedRowType DEF RowAfter
<1> DEFINE buy_row == RowAfter(d.buy, BuyIt(d))
           sell_row == RowAfter(d.sell, SellIt(d))
<1>10. /\ DOMAIN orders' = DOMAIN orders
       /\ orders'[BuyId] = buy_row /\ orders'[SellId] = sell_row
       /\ \A i \in DOMAIN orders \ {BuyId, SellId} : orders'[i] = orders[i]
  <2>. HIDE DEF buy_row, sell_row
  <2>1. orders' = [orders EXCEPT ![BuyId] = buy_row, ![SellId] = sell_row]
    BY <1>5 DEF buy_row, sell_row
  <2>. QED BY <1>3, <1>4, <2>1
<1>11. \A i \in DOMAIN orders \ Done : orders'[i] = orders[i]
    BY <1>4, <1>7, <1>8, <1>9, <1>10
<1>12. \A i \in Done : orders'[i].status = "completed"
    BY <1>4, <1>7, <1>8, <1>9, <1>10
<1>13. IsTable(orders', OrderType)
  <2>1. IsTable([orders EXCEPT ![BuyId] = buy_row], OrderType)
    BY <1>1, <1>7, TypeParts, UpdateTable
  <2>. HIDE DEF buy_row, sell_row
  <2>2. orders' = [[orders EXCEPT ![BuyId] = buy_row] EXCEPT ![SellId] = sell_row]
    BY <1>5 DEF buy_row, sell_row
  <2>3. sell_row \in OrderType
    BY <1>8 DEF sell_row
  <2>. QED BY <2>1, <2>2, <2>3, UpdateTable
<1>14. RowsOK(orders)'
    BY <1>1, <1>3, <1>7, <1>8, <1>10 DEF RowsOK
<1>. QED BY <1>3, <1>4, <1>10, <1>11, <1>12, <1>13, <1>14

\* The iterators after a deal: an iterator whose order is completed has moved on,
\* an iterator that stands on another row has stayed.
LEMMA DealIts ==
    ASSUME IInv, Deal
    PROVE  its' \in [Books -> ItType] /\ ItsOK'
<1> DEFINE d == NextDeal
           p == txn.sympair_id
<1>1. TypeOK /\ LoopCondition /\ CheckFree /\ txn.phase = "matching"
    BY DEF IInv, Deal, ChecksPass, LoopCondition
<1>2. /\ d.buy \in Books /\ d.sell \in Books /\ d.buy # d.sell
      /\ is_valid(its[d.buy]) /\ is_valid(its[d.sell])
    BY <1>1, NextDealBooks
<1>3. /\ BuyIt(d) \in ItType /\ SellIt(d) \in ItType
      /\ BuyIt(d).order_id = BuyId /\ SellIt(d).order_id = SellId
    BY <1>1, NextDealIts DEF BuyId, SellId
<1>4. /\ InBook(orders[BuyId], p, d.buy) /\ InBook(orders[SellId], p, d.sell)
      /\ BuyId \in FirstOf(orders, Book(orders, p, d.buy))
      /\ SellId \in FirstOf(orders, Book(orders, p, d.sell))
    BY <1>1, <1>2, RowAt DEF BuyId, SellId, OrderAt, OnFirst
<1>5. /\ its' = [its EXCEPT ![d.buy] = ItAfter(d.buy, BuyIt(d)),
                            ![d.sell] = ItAfter(d.sell, SellIt(d))]
      /\ txn' = [txn EXCEPT !.matched_count = @ + 1, !.latest_deal_price = d.price]
    BY DEF Deal
<1>6. /\ BuyId # SellId
      /\ IsTable(orders, OrderType)
      /\ \A b \in Books : Book(orders', p, b) = Book(orders, p, b) \ Done
      /\ \A b \in Books : \A j \in Book(orders', p, b) : orders'[j] = orders[j]
  <2>1. /\ DOMAIN orders' = DOMAIN orders
        /\ \A i \in DOMAIN orders \ Done : orders'[i] = orders[i]
        /\ \A i \in Done : orders'[i].status = "completed"
    BY DealRows
  <2>2. ASSUME NEW b \in Books
        PROVE  /\ Book(orders', p, b) = Book(orders, p, b) \ Done
               /\ \A j \in Book(orders', p, b) : orders'[j] = orders[j]
    <3>. HIDE DEF p
    <3>. QED BY <2>1, BookAfter
  <2>. QED BY <1>1, <2>2, DealRows, TypeParts
<1>7. /\ Done \subseteq {BuyId, SellId}
      /\ BuyId \in Done <=> is_completed(BuyIt(d))
      /\ SellId \in Done <=> is_completed(SellIt(d))
    BY <1>6 DEF Done
<1>8. its \in [Books -> ItType] /\ txn \in TxnType
    BY <1>1, TypeParts
<1>. HIDE DEF d
<1>9. txn'.phase = "matching" /\ txn'.sympair_id = p
    BY <1>1, <1>5, <1>8 DEF TxnType
<1>10. /\ BuyId \notin Book(orders, p, d.sell) /\ SellId \notin Book(orders, p, d.buy)
       /\ \A b \in Books \ {d.buy, d.sell} : /\ BuyId \notin Book(orders, p, b)
                                             /\ SellId \notin Book(orders, p, b)
    BY <1>2, <1>4, OneBook DEF Book
<1> DEFINE buy_it == ItAfter(d.buy, BuyIt(d))
           sell_it == ItAfter(d.sell, SellIt(d))
<1>11. /\ buy_it \in ItType
       /\ is_valid(buy_it) => buy_it.order_id \in FirstOf(orders', Book(orders', p, d.buy))
  <2>1. \A i \in Book(orders, p, d.buy) : i \in Done <=> is_completed(BuyIt(d)) /\ i = BuyId
    <3>. HIDE DEF p
    <3>. QED BY <1>7, <1>10
  <2>2. buy_it = IF is_completed(BuyIt(d)) THEN next_it(orders, p, d.buy, BuyIt(d))
                                         ELSE BuyIt(d)
    BY DEF ItAfter
  <2>3. /\ Book(orders', p, d.buy) = Book(orders, p, d.buy) \ Done
        /\ \A j \in Book(orders', p, d.buy) : orders'[j] = orders[j]
    BY <1>2, <1>6
  <2>4. /\ BuyIt(d).order_id \in FirstOf(orders, Book(orders, p, d.buy))
        /\ \A i \in Book(orders, p, d.buy) :
               i \in Done <=> is_completed(BuyIt(d)) /\ i = BuyIt(d).order_id
        /\ IsTable(orders, OrderType)
    BY <1>3, <1>4, <1>6, <2>1
  <2>. HIDE DEF p, buy_it
  <2>. QED BY <1>3, <2>2, <2>3, <2>4, ItAfterDeal
<1>12. /\ sell_it \in ItType
       /\ is_valid(sell_it) => sell_it.order_id \in FirstOf(orders', Book(orders', p, d.sell))
  <2>1. \A i \in Book(orders, p, d.sell) : i \in Done <=> is_completed(SellIt(d)) /\ i = SellId
    <3>. HIDE DEF p
    <3>. QED BY <1>7, <1>10
  <2>2. sell_it = IF is_completed(SellIt(d)) THEN next_it(orders, p, d.sell, SellIt(d))
                                         ELSE SellIt(d)
    BY DEF ItAfter
  <2>3. /\ Book(orders', p, d.sell) = Book(orders, p, d.sell) \ Done
        /\ \A j \in Book(orders', p, d.sell) : orders'[j] = orders[j]
    BY <1>2, <1>6
  <2>4. /\ SellIt(d).order_id \in FirstOf(orders, Book(orders, p, d.sell))
        /\ \A i \in Book(orders, p, d.sell) :
               i \in Done <=> is_completed(SellIt(d)) /\ i = SellIt(d).order_id
        /\ IsTable(orders, OrderType)
    BY <1>3, <1>4, <1>6, <2>1
  <2>. HIDE DEF p, sell_it
  <2>. QED BY <1>3, <2>2, <2>3, <2>4, ItAfterDeal
<1>13. ASSUME NEW b \in Books \ {d.buy, d.sell}
       PROVE  is_valid(its[b]) => its[b].order_id \in FirstOf(orders', Book(orders', p, b))
  <2>1. BuyId \notin Book(orders, p, b) /\ SellId \notin Book(orders, p, b)
    BY <1>10
  <2>2. Book(orders', p, b) = Book(orders, p, b) \ Done
    BY <1>6
  <2>. HIDE DEF p
  <2>3. Book(orders', p, b) = Book(orders, p, b)
    BY <1>7, <2>1, <2>2
  <2>4. FirstOf(orders', Book(orders', p, b)) = FirstOf(orders, Book(orders, p, b))
    BY <1>6, <2>3, FirstOfSameRows
  <2>. QED BY <1>1, <2>4, RowAt DEF OnFirst, p
<1>. HIDE DEF buy_it, sell_it
<1>14. its' = [its EXCEPT ![d.buy] = buy_it, ![d.sell] = sell_it]
    BY <1>5 DEF buy_it, sell_it
<1>15. its' \in [Books -> ItType]
    BY <1>8, <1>11, <1>12, <1>14
<1>16. \A b \in Books : is_valid(its'[b]) =>
           its'[b].order_id \in FirstOf(orders', Book(orders', p, b))
    BY <1>2, <1>8, <1>11, <1>12, <1>13, <1>14
<1>. QED BY <1>9, <1>15, <1>16 DEF ItsOK, OnFirst

LEMMA DealStep ==
    ASSUME IInv, Deal
    PROVE  IInv'
<1> DEFINE d == NextDeal
           row == [sympair_id |-> txn.sympair_id, buy_order_id |-> BuyId,
                   sell_order_id |-> SellId,
                   deal_assets |-> d.assets, deal_coins |-> d.coins, deal_price |-> d.price,
                   taker_side |-> d.taker_side, buy_fee |-> d.buy_fee, sell_fee |-> d.sell_fee,
                   buy_refund_coins |-> refund_coins_of(BuyIt(d)), deal_time |-> now]
<1>1. /\ TypeOK /\ RowsOK(undo.orders) /\ PairOK /\ UndoOK
      /\ LoopCondition /\ CheckFree /\ txn.phase = "matching"
    BY DEF IInv, Deal, ChecksPass, LoopCondition
<1>2. /\ BuyId \in Ids /\ SellId \in Ids
      /\ IsTable(orders', OrderType) /\ RowsOK(orders)'
    BY <1>1, DealRows, TypeParts DEF IsTable
<1>3. d.taker_side \in {"buy", "sell"}
    BY <1>1, NextDealBooks
<1>4. /\ d.assets \in Nat /\ d.coins \in Nat /\ d.price \in Nat
      /\ d.buy_fee \in Nat /\ d.sell_fee \in Nat
    BY <1>1, NextDealAmounts
<1>5. refund_coins_of(BuyIt(d)) \in Nat
    BY <1>1, NextDealIts DEF refund_coins_of, ItType
<1>6. NextDealId \in Ids /\ now \in Nat /\ txn \in TxnType /\ txn.sympair_id \in Ids
    BY <1>1, NextDealIdType, TypeParts DEF TxnType
<1>7. /\ deals' = Put(deals, NextDealId, row)
      /\ global' = [global EXCEPT !.deal_item_id = NextDealId]
      /\ accounts' = Settled(d)
      /\ txn' = [txn EXCEPT !.matched_count = @ + 1, !.latest_deal_price = d.price]
      /\ UNCHANGED <<config, sympairs, bank, now, undo>>
    BY DEF Deal, BuyId, SellId
<1>8. accounts' \in BalancesType
    BY <1>1, <1>7, SettledType
<1>. HIDE DEF d
<1>9. row \in DealType
    BY <1>2, <1>3, <1>4, <1>5, <1>6 DEF DealType
<1>. HIDE DEF row
<1>10. IsTable(deals', DealType) /\ DOMAIN deals \subseteq DOMAIN deals'
  <2>1. IsTable(deals, DealType)
    BY <1>1, TypeParts
  <2>2. IsTable(deals', DealType)
    BY <1>6, <1>7, <1>9, <2>1, PutTable
  <2>3. DOMAIN deals \subseteq DOMAIN deals'
    BY <1>7 DEF Put
  <2>. QED BY <2>2, <2>3
<1>11. global' \in GlobalType
    BY <1>1, <1>6, <1>7, TypeParts DEF GlobalType
<1>12. txn' \in TxnType /\ txn'.phase = "matching" /\ txn'.sympair_id = txn.sympair_id
  <2>1. txn.matched_count + 1 \in Nat
    BY <1>6 DEF TxnType
  <2>2. txn' = [txn EXCEPT !.matched_count = txn.matched_count + 1, !.latest_deal_price = d.price]
    BY <1>7
  <2>. QED BY <1>1, <1>4, <1>6, <2>1, <2>2 DEF TxnType
<1>13. its' \in [Books -> ItType] /\ ItsOK'
    BY DealIts
<1>14. TypeOK'
    BY <1>1, <1>2, <1>7, <1>8, <1>10, <1>11, <1>12, <1>13, TypeParts, TypePartsNext
<1>15. PairOK' /\ UndoOK' /\ RowsOK(undo.orders)'
    BY <1>1, <1>7, <1>10, <1>12 DEF PairOK, UndoOK
<1>. QED BY <1>2, <1>13, <1>14, <1>15 DEF IInv

----------------------------------------------------------------------------
(* Type correctness *)

LEMMA InductiveStep == IInv /\ [Next]_vars => IInv'
<1> SUFFICES ASSUME IInv, [Next]_vars PROVE IInv'
    OBVIOUS
<1>1. CASE Ordering
    BY <1>1, NewOrderStep, CancelStep DEF Ordering
<1>2. CASE TransactionStep
    BY <1>2, OpenPairStep, DealStep, ClosePairStep, EndStep DEF TransactionStep
<1>3. CASE UNCHANGED vars
  <2>1. /\ UNCHANGED <<config, sympairs, orders, deals, global, accounts>>
        /\ UNCHANGED <<bank, now, txn, its, undo>>
    BY <1>3 DEF vars, tables, matching
  <2>2. TypeOK'
    BY <2>1, TypeParts, TypePartsNext DEF IInv
  <2>. QED BY <2>1, <2>2 DEF IInv, RowsOK, PairOK, ItsOK, OnFirst, UndoOK
<1>. QED BY <1>1, <1>2, <1>3, AdministrationStep, FundsStep, StartMatchStep, CleaningStep,
            TickStep DEF Next

(***************************************************************************)
(* Whatever rows the loop of match_sympair completes under its iterators,  *)
(* an iterator that is not closed stands on the first matchable row of its *)
(* book, and the pair that is being matched exists.                        *)
(***************************************************************************)
THEOREM Inductive == Spec => []IInv
BY InitIInv, InductiveStep, PTL DEF Spec

(***************************************************************************)
(* Every table keeps its type, whatever the number of accounts, tokens,    *)
(* pairs and orders: in particular no balance and no amount of a deal is   *)
(* ever negative, and the iterators stand on rows that exist.              *)
(***************************************************************************)
THEOREM TypeCorrect == Spec => []TypeOK
<1>1. IInv => TypeOK
    BY DEF IInv
<1>. QED BY <1>1, Inductive, PTL

----------------------------------------------------------------------------
(* Fair deals and price-time priority *)

\* Deals are only ever added by the loop of match_sympair, one at a time.
LEMMA OnlyDealAdds ==
    ASSUME IInv, [Next]_vars, NewDeals # {}
    PROVE  /\ Deal
           /\ NewDeals = {NextDealId}
<1>1. UndoOK
    BY DEF IInv
<1>2. ASSUME Deal PROVE NewDeals \subseteq {NextDealId}
    BY <1>2 DEF Deal, NewDeals, Put
<1>3. ASSUME ~Deal PROVE DOMAIN deals' \subseteq DOMAIN deals
  <2>1. CASE UNCHANGED deals
    BY <2>1
  <2>2. CASE Rollback /\ txn.phase # "idle"
    BY <1>1, <2>2 DEF Rollback, UndoOK
  <2>3. CASE \E S : deals' = Without(deals, S)
    BY <2>3 DEF Without
  <2>4. Administration => UNCHANGED deals
    BY DEF Administration, SetConfig, CreateSympair, ModifySympair, OnOffSympair, tables
  <2>5. Funds => UNCHANGED deals
    BY DEF Funds, OnTransfer, Withdraw
  <2>6. Ordering => UNCHANGED deals
    <3>1. ASSUME NEW user, NEW i, NEW type, NEW side, NEW quant, NEW price, NEW ex, NEW signed,
                 NewOrder(user, i, type, side, quant, price, ex, signed)
          PROVE  UNCHANGED deals
      BY <3>1 DEF NewOrder
    <3>2. ASSUME NEW i, Cancel(i) PROVE UNCHANGED deals
      BY <3>2 DEF Cancel
    <3>. QED BY <3>1, <3>2 DEF Ordering
  <2>7. StartMatch \/ OpenPair \/ ClosePair \/ Commit \/ Tick => UNCHANGED deals
    BY DEF StartMatch, Match, OpenPair, ClosePair, Commit, Tick, tables
  <2>8. FailedCheck \/ NoneMatched => Rollback /\ txn.phase # "idle"
    BY DEF FailedCheck, NoneMatched, LoopCondition
  <2>9. Cleaning => \E S : deals' = Without(deals, S)
    BY DEF Cleaning, CleanData
  <2>10. UNCHANGED vars => UNCHANGED deals
    BY DEF vars, tables
  <2>. QED BY <1>3, <2>1, <2>2, <2>3, <2>4, <2>5, <2>6, <2>7, <2>8, <2>9, <2>10
           DEF Next, TransactionStep
<1>. QED BY <1>2, <1>3 DEF NewDeals

\* The row of a new deal, in terms of the iterators the loop has used.
LEMMA NewDealRow ==
    ASSUME IInv, Deal
    PROVE  LET deal == deals'[NextDealId] IN
           /\ deal.buy_order_id = BuyId /\ deal.sell_order_id = SellId
           /\ deal.sympair_id = txn.sympair_id
           /\ deal.taker_side = NextDeal.taker_side
           /\ deal.deal_price = NextDeal.price
<1> DEFINE row == [sympair_id |-> txn.sympair_id, buy_order_id |-> BuyId,
                   sell_order_id |-> SellId,
                   deal_assets |-> NextDeal.assets, deal_coins |-> NextDeal.coins,
                   deal_price |-> NextDeal.price, taker_side |-> NextDeal.taker_side,
                   buy_fee |-> NextDeal.buy_fee, sell_fee |-> NextDeal.sell_fee,
                   buy_refund_coins |-> refund_coins_of(BuyIt(NextDeal)), deal_time |-> now]
<1>1. deals' = Put(deals, NextDealId, row)
    BY DEF Deal, BuyId, SellId
<1>2. deals'[NextDealId] = row
  <2>. HIDE DEF row
  <2>. QED BY <1>1 DEF Put
<1>. QED BY <1>2

LEMMA DealIsFair ==
    ASSUME IInv, Deal
    PROVE  FairDeal(deals'[NextDealId])
<1> DEFINE d == NextDeal
           deal == deals'[NextDealId]
<1>1. LoopCondition /\ txn.phase = "matching"
    BY DEF Deal, LoopCondition
<1>2. /\ d.buy \in Books /\ d.sell \in Books
      /\ side_of(d.buy) = "buy" /\ side_of(d.sell) = "sell"
      /\ is_valid(its[d.buy]) /\ is_valid(its[d.sell])
      /\ type_of(Maker(d)) = "limit" /\ d.price = OrderAt(Maker(d)).price
      /\ type_of(d.buy) = "limit" => d.price <= OrderAt(d.buy).price
      /\ type_of(d.sell) = "limit" => d.price >= OrderAt(d.sell).price
    BY <1>1, NextDealBooks
<1>3. /\ OrderAt(d.buy) = orders[BuyId] /\ OrderAt(d.sell) = orders[SellId]
      /\ BuyId \in DOMAIN orders /\ SellId \in DOMAIN orders
      /\ InBook(orders[BuyId], txn.sympair_id, d.buy)
      /\ InBook(orders[SellId], txn.sympair_id, d.sell)
    BY <1>1, <1>2, RowAt DEF BuyId, SellId, OrderAt
<1>4. /\ deal.buy_order_id = BuyId /\ deal.sell_order_id = SellId
      /\ deal.sympair_id = txn.sympair_id
      /\ deal.taker_side = d.taker_side /\ deal.deal_price = d.price
    BY NewDealRow
<1>. HIDE DEF d, deal
<1>5. Maker(d) = IF d.taker_side = "buy" THEN d.sell ELSE d.buy
    BY DEF Maker
<1>. QED BY <1>2, <1>3, <1>4, <1>5 DEF FairDeal, InBook, deal

(***************************************************************************)
(* FairDeals: each deal is between a matchable buy and a matchable sell    *)
(* order of the pair, at the maker's price, within the limits of both.     *)
(***************************************************************************)
THEOREM FairDealsHold == Spec => FairDeals
<1>1. IInv /\ [Next]_vars => [\A d \in NewDeals : FairDeal(deals'[d])]_vars
    BY OnlyDealAdds, DealIsFair
<1>. QED BY <1>1, Inductive, PTL DEF Spec, FairDeals

LEMMA FirstHasPriority ==
    ASSUME IInv, NEW p, NEW b, NEW i \in FirstOf(orders, Book(orders, p, b))
    PROVE  NobodyBefore(i)
<1>1. IsTable(orders, OrderType)
    BY TypeParts DEF IInv
<1>2. i \in Book(orders, p, b) /\ i \in DOMAIN orders
    BY DEF FirstOf, Book
<1>3. orders[i] \in OrderType /\ InBook(orders[i], p, b)
    BY <1>1, <1>2, BookRows
<1> SUFFICES ASSUME NEW j \in DOMAIN orders,
                    orders[j].status = "matchable",
                    orders[j].sympair_id = orders[i].sympair_id,
                    orders[j].order_side = orders[i].order_side,
                    orders[j].order_type = orders[i].order_type
             PROVE  ~ServedBefore(orders[j], orders[i])
    BY DEF NobodyBefore
<1>4. j \in Book(orders, p, b) /\ orders[j] \in OrderType
    BY <1>1, <1>3, RowType DEF Book, InBook
<1>5. ServedBefore(orders[j], orders[i]) <=> Precedes(orders[j], orders[i])
    BY DEF ServedBefore, Precedes
<1>6. CASE j = i
    BY <1>3, <1>5, <1>6, PrecedesAsymmetric
<1>7. CASE j # i
  <2>1. Precedes(orders[i], orders[j])
    BY <1>4, <1>7 DEF FirstOf
  <2>. QED BY <1>3, <1>4, <1>5, <2>1, PrecedesAsymmetric
<1>. QED BY <1>6, <1>7

(***************************************************************************)
(* PriceTimePriority: the two orders of a deal are the first of their      *)
(* books when it is made, for any number of orders and any prices.         *)
(***************************************************************************)
THEOREM PriceTimePriorityHolds == Spec => PriceTimePriority
<1> DEFINE Served(d) == /\ NobodyBefore(deals'[d].buy_order_id)
                        /\ NobodyBefore(deals'[d].sell_order_id)
<1>1. ASSUME IInv, Deal PROVE Served(NextDealId)
  <2>1. LoopCondition /\ txn.phase = "matching"
    BY <1>1 DEF Deal, LoopCondition
  <2>2. /\ NextDeal.buy \in Books /\ is_valid(its[NextDeal.buy])
        /\ NextDeal.sell \in Books /\ is_valid(its[NextDeal.sell])
    BY <1>1, <2>1, NextDealBooks
  <2>3. /\ BuyId \in FirstOf(orders, Book(orders, txn.sympair_id, NextDeal.buy))
        /\ SellId \in FirstOf(orders, Book(orders, txn.sympair_id, NextDeal.sell))
    BY <1>1, <2>1, <2>2, RowAt DEF OnFirst, BuyId, SellId
  <2>4. NobodyBefore(BuyId) /\ NobodyBefore(SellId)
    BY <1>1, <2>3, FirstHasPriority
  <2>. QED BY <1>1, <2>4, NewDealRow
<1>2. IInv /\ [Next]_vars => [\A d \in NewDeals : Served(d)]_vars
  <2>. HIDE DEF Served
  <2>. QED BY <1>1, OnlyDealAdds
<1>. QED BY <1>2, Inductive, PTL DEF Spec, PriceTimePriority

==============================================================================
