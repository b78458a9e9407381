--------------------------- MODULE DexLedgerProofs ---------------------------
(***************************************************************************)
(* Proofs about the exchange's books: its ledger, the totals of its orders *)
(* and their deals, for any number of accounts, tokens, pairs and orders.  *)
(***************************************************************************)
EXTENDS DexLedger, DexProofs, SumTheorems

----------------------------------------------------------------------------
(* Rows and the totals that iterators cache *)

\* What an order is, whatever has been matched of it.
SameTerms(o, p) ==
    /\ o.order_id = p.order_id /\ o.owner = p.owner /\ o.sympair_id = p.sympair_id
    /\ o.order_type = p.order_type /\ o.order_side = p.order_side
    /\ o.price = p.price /\ o.limit_quant = p.limit_quant
    /\ o.frozen_quant = p.frozen_quant /\ o.fee_symbol = p.fee_symbol

SameTotals(o, p) ==
    /\ o.matched_assets = p.matched_assets /\ o.matched_coins = p.matched_coins
    /\ o.matched_fee = p.matched_fee /\ o.last_deal_id = p.last_deal_id

LEMMA SavedRow ==
    ASSUME NEW o \in OrderType, NEW it \in ItType, NEW time \in Nat
    PROVE  /\ SameTerms(saved_row(o, it, time), o) /\ SameTotals(saved_row(o, it, time), it)
           /\ saved_row(o, it, time).status = o.status
           /\ SameTerms(completed_row(o, it, time), o)
           /\ SameTotals(completed_row(o, it, time), it)
BY DEF SameTerms, SameTotals, saved_row, completed_row, OrderType

\* The row of order i, with the totals of the iterator that is being matched with it.
AtRow(iters, i) == {b \in Books : is_matching(iters[b]) /\ iters[b].order_id = i}
AnyOf(S) == CHOOSE b \in S : TRUE
RowOf(tbl, iters, time, i) ==
    IF AtRow(iters, i) = {} THEN tbl[i]
    ELSE saved_row(tbl[i], iters[AnyOf(AtRow(iters, i))], time)

LEMMA LiveIs ==
    /\ DOMAIN Live = DOMAIN orders /\ DOMAIN Live' = DOMAIN orders'
    /\ Live = [i \in DOMAIN orders |-> RowOf(orders, its, now, i)]
    /\ Live' = [i \in DOMAIN orders' |-> RowOf(orders', its', now', i)]
BY DEF Live, SavedOrders, MatchingAt, RowOf, AtRow, AnyOf

LEMMA NoneAtRow ==
    ASSUME NEW tbl, NEW iters, NEW time, NEW i,
           \A b \in Books : is_matching(iters[b]) => iters[b].order_id # i
    PROVE  RowOf(tbl, iters, time, i) = tbl[i]
BY DEF RowOf, AtRow

LEMMA OneAtRow ==
    ASSUME NEW tbl, NEW iters, NEW time, NEW b \in Books, is_matching(iters[b]),
           \A c \in Books : is_matching(iters[c]) /\ iters[c].order_id = iters[b].order_id => c = b
    PROVE  RowOf(tbl, iters, time, iters[b].order_id)
               = saved_row(tbl[iters[b].order_id], iters[b], time)
<1>1. AtRow(iters, iters[b].order_id) = {b}
  BY DEF AtRow
<1>2. AnyOf({b}) = b
  BY DEF AnyOf
<1> QED
  BY <1>1, <1>2 DEF RowOf

\* Two valid iterators stand on different rows.
LEMMA OneItAtRow ==
    ASSUME IInv, txn.phase = "matching", NEW b \in Books, NEW c \in Books,
           is_valid(its[b]), is_valid(its[c]), its[b].order_id = its[c].order_id
    PROVE  b = c
BY RowAt, OneBook DEF OrderAt

\* Saving the caches changes totals only.
LEMMA LiveRow ==
    ASSUME IInv, CachesFresh, NEW i \in DOMAIN orders
    PROVE  /\ Live[i] \in OrderType /\ SameTerms(Live[i], orders[i])
           /\ Live[i].status = orders[i].status
           /\ txn.phase # "matching" \/ orders[i].status # "matchable" => Live[i] = orders[i]
<1>1. orders[i] \in OrderType /\ now \in Nat /\ its \in [Books -> ItType]
  BY TypeParts, RowType DEF IInv
<1>2. Live[i] = RowOf(orders, its, now, i)
  BY LiveIs
<1>3. CASE AtRow(its, i) = {}
  BY <1>1, <1>2, <1>3 DEF RowOf, SameTerms
<1>4. CASE AtRow(its, i) # {}
  <2>1. PICK b \in Books : /\ is_matching(its[b]) /\ its[b].order_id = i
                           /\ Live[i] = saved_row(orders[i], its[b], now)
    BY <1>2, <1>4 DEF RowOf, AtRow, AnyOf
  <2>2. is_valid(its[b])
    BY <2>1 DEF is_matching, is_valid
  <2>3. txn.phase = "matching" /\ orders[i].status = "matchable"
    <3>1. txn.phase = "matching"
      BY <2>2 DEF CachesFresh
    <3> QED
      BY <2>1, <2>2, <3>1, RowAt DEF InBook, OrderAt
  <2> QED
    BY <1>1, <2>1, <2>3, SavedRow, SavedRowType
<1> QED
  BY <1>3, <1>4

LEMMA LiveIdle ==
    ASSUME IInv, CachesFresh, txn.phase # "matching"
    PROVE  Live = orders
<1>1. \A i \in DOMAIN orders : RowOf(orders, its, now, i) = orders[i]
  BY LiveRow, LiveIs
<1>2. orders = [i \in DOMAIN orders |-> orders[i]]
  BY TypeParts DEF IInv, IsTable
<1> QED
  BY <1>1, <1>2, LiveIs

\* The cached totals of an iterator are those of the order it stands on.
LEMMA LiveAt ==
    ASSUME IInv, CachesFresh, txn.phase = "matching", NEW b \in Books, is_valid(its[b])
    PROVE  SameTotals(Live[its[b].order_id], its[b])
<1> DEFINE i == its[b].order_id
<1>1. /\ i \in DOMAIN orders /\ orders[i] \in OrderType /\ its[b] \in ItType /\ now \in Nat
  BY RowAt, TypeParts DEF OrderAt, IInv
<1>2. Live[i] = RowOf(orders, its, now, i)
  BY <1>1, LiveIs
<1>3. \A c \in Books : is_matching(its[c]) /\ its[c].order_id = i => c = b
  BY OneItAtRow DEF is_matching, is_valid
<1>4. CASE is_matching(its[b])
  <2>1. Live[i] = saved_row(orders[i], its[b], now)
    BY <1>2, <1>3, <1>4, OneAtRow
  <2> QED
    BY <1>1, <2>1, SavedRow
<1>5. CASE ~is_matching(its[b])
  <2>1. Live[i] = orders[i]
    BY <1>2, <1>3, <1>5, NoneAtRow
  <2>2. its[b].status = "opened"
    BY <1>1, <1>5 DEF CachesFresh, ItType, is_valid, is_matching, is_completed
  <2> QED
    BY <2>1, <2>2 DEF CachesFresh, SameTotals
<1> QED
  BY <1>4, <1>5

----------------------------------------------------------------------------
(* What a deal does to the rows, the iterators' totals included *)

\* What match() makes of an iterator on order o.
MatchedFrom(o, it, new, deal_id, assets, coins, fee) ==
    /\ new.order_id = it.order_id
    /\ new.matched_assets = it.matched_assets + assets
    /\ new.matched_coins = it.matched_coins + coins
    /\ new.matched_fee = it.matched_fee + fee
    /\ new.last_deal_id = deal_id
    /\ new.status = IF match_completes(o, new) THEN "completed" ELSE "matching"
    /\ ~is_completed(new) => new.refund_coins = 0
    /\ is_completed(new) =>
           new.refund_coins = IF /\ o.order_side = "buy" /\ o.order_type = "limit"
                                 /\ o.frozen_quant > total_matched_coins(o, new)
                              THEN o.frozen_quant - total_matched_coins(o, new) ELSE 0

LEMMA MatchedItFacts ==
    ASSUME NEW o \in OrderType, NEW it \in ItType, it.refund_coins = 0, NEW deal_id \in Ids,
           NEW assets \in Nat, NEW coins \in Nat, NEW fee \in Nat,
           NEW new, new = matched_it(o, it, deal_id, assets, coins, fee)
    PROVE  MatchedFrom(o, it, new, deal_id, assets, coins, fee)
<1> DEFINE added == added_it(it, deal_id, assets, coins, fee)
<1>1. /\ added.status = "matching" /\ added.order_id = it.order_id
      /\ added.matched_assets = it.matched_assets + assets
      /\ added.matched_coins = it.matched_coins + coins
      /\ added.matched_fee = it.matched_fee + fee
      /\ added.refund_coins = 0 /\ added.last_deal_id = deal_id
      /\ DOMAIN added = {"status", "order_id", "matched_assets", "matched_coins", "matched_fee",
                         "refund_coins", "last_deal_id"}
  BY DEF added_it
<1>2. new = IF match_completes(o, added)
            THEN [added EXCEPT !.status = "completed", !.refund_coins = refund_of(o, added)]
            ELSE added
  BY DEF matched_it
<1> HIDE DEF added
<1>3. CASE match_completes(o, added)
  <2>1. /\ new.status = "completed" /\ new.refund_coins = refund_of(o, added)
        /\ new.order_id = added.order_id /\ new.matched_assets = added.matched_assets
        /\ new.matched_coins = added.matched_coins /\ new.matched_fee = added.matched_fee
        /\ new.last_deal_id = added.last_deal_id
    BY <1>1, <1>2, <1>3
  <2>2. total_matched_coins(o, new) = total_matched_coins(o, added)
        /\ (match_completes(o, new) <=> match_completes(o, added))
    BY <2>1 DEF total_matched_coins, match_completes
  <2> QED
    BY <1>1, <1>3, <2>1, <2>2 DEF refund_of, is_completed, MatchedFrom
<1>4. CASE ~match_completes(o, added)
  BY <1>1, <1>2, <1>4 DEF is_completed, MatchedFrom
<1> QED
  BY <1>3, <1>4

\* Row q is row o after a deal with id deal_id.
Added(o, q, assets, coins, fee, deal_id, status) ==
    /\ SameTerms(q, o)
    /\ q.matched_assets = o.matched_assets + assets
    /\ q.matched_coins = o.matched_coins + coins
    /\ q.matched_fee = o.matched_fee + fee
    /\ q.last_deal_id = deal_id /\ q.status = status

\* The facts about the two iterators of a deal.
LEMMA DealSides ==
    ASSUME IInv, CachesFresh, Deal
    PROVE  LET d == NextDeal IN
           /\ txn.phase = "matching" /\ txn'.phase = "matching" /\ txn'.sympair_id = txn.sympair_id
           /\ d.buy \in Books /\ d.sell \in Books /\ d.buy # d.sell
           /\ is_valid(its[d.buy]) /\ is_valid(its[d.sell])
           /\ d.assets \in Nat /\ d.coins \in Nat /\ d.buy_fee \in Nat /\ d.sell_fee \in Nat
           /\ OrderAt(d.buy) = orders[BuyId] /\ OrderAt(d.sell) = orders[SellId]
           /\ BuyIt(d).order_id = BuyId /\ SellIt(d).order_id = SellId
           /\ BuyIt(d) \in ItType /\ SellIt(d) \in ItType
           /\ its[d.buy].refund_coins = 0 /\ its[d.sell].refund_coins = 0
           /\ NextDealId \in Ids /\ NextDealId \notin DOMAIN deals
           /\ orders[BuyId] \in OrderType /\ orders[SellId] \in OrderType
           /\ MatchedFrom(orders[BuyId], its[d.buy], BuyIt(d), NextDealId,
                          d.assets, d.coins, d.buy_fee)
           /\ MatchedFrom(orders[SellId], its[d.sell], SellIt(d), NextDealId,
                          d.assets, d.coins, d.sell_fee)
<1> DEFINE d == NextDeal
<1>1. LoopCondition /\ CheckFree /\ CheckDealId /\ TypeOK /\ txn.phase = "matching"
  BY DEF Deal, ChecksPass, LoopCondition, IInv
<1>2. /\ d.buy \in Books /\ d.sell \in Books /\ d.buy # d.sell
      /\ is_valid(its[d.buy]) /\ is_valid(its[d.sell])
  BY <1>1, NextDealBooks
<1>3. /\ d.assets \in Nat /\ d.coins \in Nat /\ d.buy_fee \in Nat /\ d.sell_fee \in Nat
  BY <1>1, NextDealAmounts
<1>4. /\ BuyIt(d).order_id = BuyId /\ SellIt(d).order_id = SellId
      /\ BuyIt(d) \in ItType /\ SellIt(d) \in ItType
  BY <1>1, NextDealIts DEF BuyId, SellId
<1>5. txn'.phase = "matching" /\ txn'.sympair_id = txn.sympair_id
  <2>1. txn \in TxnType
    BY <1>1, TypeParts
  <2>2. txn' = [txn EXCEPT !.matched_count = @ + 1, !.latest_deal_price = d.price]
    BY DEF Deal
  <2> HIDE DEF d
  <2> QED
    BY <1>1, <2>1, <2>2 DEF TxnType
<1>6. NextDealId \in Ids /\ NextDealId \notin DOMAIN deals
  BY <1>1, NextDealIdType DEF CheckDealId
<1>7. its[d.buy].refund_coins = 0 /\ its[d.sell].refund_coins = 0
  BY <1>2 DEF CachesFresh
<1>8. /\ orders[BuyId] \in OrderType /\ orders[SellId] \in OrderType
      /\ its[d.buy] \in ItType /\ its[d.sell] \in ItType
      /\ OrderAt(d.buy) = orders[BuyId] /\ OrderAt(d.sell) = orders[SellId]
  BY <1>1, <1>2, RowAt DEF OrderAt, BuyId, SellId
<1> HIDE DEF d
<1>9. /\ BuyIt(d) = matched_it(orders[BuyId], its[d.buy], NextDealId, d.assets, d.coins, d.buy_fee)
      /\ SellIt(d) = matched_it(orders[SellId], its[d.sell], NextDealId, d.assets, d.coins, d.sell_fee)
  BY <1>8 DEF BuyIt, SellIt
<1>10. MatchedFrom(orders[BuyId], its[d.buy], BuyIt(d), NextDealId, d.assets, d.coins, d.buy_fee)
  BY <1>3, <1>6, <1>7, <1>8, <1>9, MatchedItFacts
<1>11. MatchedFrom(orders[SellId], its[d.sell], SellIt(d), NextDealId, d.assets, d.coins, d.sell_fee)
  BY <1>3, <1>6, <1>7, <1>8, <1>9, MatchedItFacts
<1> QED
  BY <1>1, <1>2, <1>3, <1>4, <1>5, <1>6, <1>7, <1>8, <1>10, <1>11 DEF d

\* The row of an order that a deal has been made with.
LEMMA LiveOfDeal ==
    ASSUME IInv, CachesFresh, Deal, NEW b \in {NextDeal.buy, NextDeal.sell},
           is_valid(its[b]), NEW it \in ItType, it.order_id = its[b].order_id,
           it.status \in {"matching", "completed"},
           its'[b] = ItAfter(b, it), orders'[it.order_id] = RowAfter(b, it)
    PROVE  /\ SameTerms(Live'[it.order_id], orders[it.order_id])
           /\ SameTotals(Live'[it.order_id], it)
           /\ Live'[it.order_id].status = IF is_completed(it) THEN "completed" ELSE "matchable"
<1> DEFINE i == it.order_id
           p == txn.sympair_id
<1>1. /\ b \in Books /\ txn.phase = "matching" /\ txn'.phase = "matching" /\ txn'.sympair_id = p
      /\ now' = now /\ now \in Nat
  BY DealSides, TypeParts DEF Deal, IInv
<1>2. /\ i \in DOMAIN orders /\ DOMAIN orders' = DOMAIN orders
      /\ OrderAt(b) = orders[i] /\ orders[i] \in OrderType /\ InBook(orders[i], p, b)
  BY <1>1, RowAt, DealRows DEF OrderAt
<1>3. Live'[i] = RowOf(orders', its', now', i)
  BY <1>2, LiveIs
<1>4. ASSUME NEW c \in Books, is_matching(its'[c]), its'[c].order_id = i
      PROVE  InBook(orders'[i], p, c)
  BY <1>1, <1>4, DealStep DEF IInv, ItsOK, OnFirst, FirstOf, Book, is_valid, is_matching
<1> HIDE DEF i, p
<1>5. CASE is_completed(it)
  <2>1. orders'[i] = completed_row(orders[i], it, now)
    BY <1>2, <1>5 DEF RowAfter, i
  <2>2. orders'[i].status = "completed"
    BY <1>1, <1>2, <2>1, SavedRowType
  <2>3. \A c \in Books : is_matching(its'[c]) => its'[c].order_id # i
    BY <1>4, <2>2 DEF InBook
  <2>4. Live'[i] = orders'[i]
    BY <1>3, <2>3, NoneAtRow
  <2> QED
    BY <1>1, <1>2, <1>5, <2>1, <2>2, <2>4, SavedRow DEF i
<1>6. CASE ~is_completed(it)
  <2>1. its'[b] = it /\ orders'[i] = orders[i] /\ is_matching(it)
    BY <1>2, <1>6 DEF ItAfter, RowAfter, i, is_completed, is_matching
  <2>2. \A c \in Books : is_matching(its'[c]) /\ its'[c].order_id = i => c = b
    BY <1>1, <1>2, <1>4, <2>1, OneBook
  <2>3. Live'[i] = saved_row(orders[i], it, now)
    <3>1. its'[b].order_id = i /\ is_matching(its'[b])
      BY <2>1 DEF i
    <3>2. RowOf(orders', its', now', its'[b].order_id)
              = saved_row(orders'[its'[b].order_id], its'[b], now')
      BY <1>1, <2>2, <3>1, OneAtRow
    <3> QED
      BY <1>1, <1>3, <2>1, <3>1, <3>2
  <2>4. orders[i].status = "matchable"
    BY <1>2 DEF InBook
  <2> QED
    BY <1>1, <1>2, <1>6, <2>3, <2>4, SavedRow DEF i
<1> QED
  BY <1>5, <1>6

LEMMA LiveAfterDeal ==
    ASSUME IInv, CachesFresh, Deal
    PROVE  LET d == NextDeal
               status_of(it) == IF is_completed(it) THEN "completed" ELSE "matchable"
           IN
           /\ BuyId \in DOMAIN orders /\ SellId \in DOMAIN orders /\ BuyId # SellId
           /\ DOMAIN orders' = DOMAIN orders
           /\ \A i \in DOMAIN orders \ {BuyId, SellId} : Live'[i] = Live[i]
           /\ Added(Live[BuyId], Live'[BuyId], d.assets, d.coins, d.buy_fee, NextDealId,
                    status_of(BuyIt(d)))
           /\ Added(Live[SellId], Live'[SellId], d.assets, d.coins, d.sell_fee, NextDealId,
                    status_of(SellIt(d)))
<1> DEFINE d == NextDeal
<1>1. /\ txn.phase = "matching"
      /\ d.buy \in Books /\ d.sell \in Books /\ d.buy # d.sell
      /\ is_valid(its[d.buy]) /\ is_valid(its[d.sell])
      /\ d.assets \in Nat /\ d.coins \in Nat /\ d.buy_fee \in Nat /\ d.sell_fee \in Nat
      /\ OrderAt(d.buy) = orders[BuyId] /\ OrderAt(d.sell) = orders[SellId]
      /\ BuyIt(d).order_id = BuyId /\ SellIt(d).order_id = SellId
      /\ BuyIt(d) \in ItType /\ SellIt(d) \in ItType
      /\ its[d.buy].refund_coins = 0 /\ its[d.sell].refund_coins = 0
      /\ NextDealId \in Ids
  BY DealSides
<1>2. /\ BuyId \in DOMAIN orders /\ SellId \in DOMAIN orders /\ BuyId # SellId
      /\ DOMAIN orders' = DOMAIN orders
      /\ \A i \in DOMAIN orders \ Done : orders'[i] = orders[i]
  BY DealRows
<1>3. /\ orders' = [orders EXCEPT ![BuyId] = RowAfter(d.buy, BuyIt(d)),
                                  ![SellId] = RowAfter(d.sell, SellIt(d))]
      /\ its' = [its EXCEPT ![d.buy] = ItAfter(d.buy, BuyIt(d)),
                            ![d.sell] = ItAfter(d.sell, SellIt(d))]
      /\ now' = now
  BY DEF Deal, BuyId, SellId
<1>4. /\ orders[BuyId] \in OrderType /\ orders[SellId] \in OrderType
      /\ its[d.buy] \in ItType /\ its[d.sell] \in ItType
      /\ its \in [Books -> ItType] /\ IsTable(orders, OrderType)
      /\ BuyId = its[d.buy].order_id /\ SellId = its[d.sell].order_id
  BY <1>1, RowAt, TypeParts DEF IInv, BuyId, SellId
<1>5. /\ MatchedFrom(orders[BuyId], its[d.buy], BuyIt(d), NextDealId, d.assets, d.coins, d.buy_fee)
      /\ MatchedFrom(orders[SellId], its[d.sell], SellIt(d), NextDealId, d.assets, d.coins, d.sell_fee)
  BY DealSides
<1> HIDE DEF d
<1>6. BuyIt(d).status \in {"matching", "completed"} /\ SellIt(d).status \in {"matching", "completed"}
  BY <1>5 DEF MatchedFrom
<1> DEFINE buy_it == ItAfter(d.buy, BuyIt(d))
           sell_it == ItAfter(d.sell, SellIt(d))
           buy_row == RowAfter(d.buy, BuyIt(d))
           sell_row == RowAfter(d.sell, SellIt(d))
<1>7. /\ its'[d.buy] = buy_it /\ its'[d.sell] = sell_it
      /\ orders'[BuyId] = buy_row /\ orders'[SellId] = sell_row
      /\ \A b \in Books \ {d.buy, d.sell} : its'[b] = its[b]
  <2> HIDE DEF buy_it, sell_it, buy_row, sell_row
  <2>1. orders' = [orders EXCEPT ![BuyId] = buy_row, ![SellId] = sell_row]
        /\ its' = [its EXCEPT ![d.buy] = buy_it, ![d.sell] = sell_it]
    BY <1>3 DEF buy_it, sell_it, buy_row, sell_row
  <2> QED
    BY <1>1, <1>2, <1>4, <2>1 DEF IsTable
<1>8. /\ SameTerms(Live'[BuyId], orders[BuyId]) /\ SameTotals(Live'[BuyId], BuyIt(d))
      /\ Live'[BuyId].status = IF is_completed(BuyIt(d)) THEN "completed" ELSE "matchable"
  <2>1. d.buy \in {NextDeal.buy, NextDeal.sell}
    BY DEF d
  <2> QED
    BY <1>1, <1>4, <1>6, <1>7, <2>1, LiveOfDeal
<1>9. /\ SameTerms(Live'[SellId], orders[SellId]) /\ SameTotals(Live'[SellId], SellIt(d))
       /\ Live'[SellId].status = IF is_completed(SellIt(d)) THEN "completed" ELSE "matchable"
  <2>1. d.sell \in {NextDeal.buy, NextDeal.sell}
    BY DEF d
  <2> QED
    BY <1>1, <1>4, <1>6, <1>7, <2>1, LiveOfDeal
<1>10. /\ SameTerms(Live[BuyId], orders[BuyId]) /\ SameTotals(Live[BuyId], its[d.buy])
       /\ SameTerms(Live[SellId], orders[SellId]) /\ SameTotals(Live[SellId], its[d.sell])
  BY <1>1, <1>2, <1>4, LiveRow, LiveAt
<1>11. ASSUME NEW i \in DOMAIN orders \ {BuyId, SellId}
       PROVE  Live'[i] = Live[i]
  <2>1. orders'[i] = orders[i]
    BY <1>2 DEF Done
  <2>2. ASSUME NEW b \in {d.buy, d.sell}, NEW it, it.order_id = its[b].order_id
        PROVE  is_matching(ItAfter(b, it)) => ItAfter(b, it).order_id = its[b].order_id
    <3>1. CASE is_completed(it)
      <4> DEFINE S == {j \in Book(orders, txn.sympair_id, b) : Precedes(orders[it.order_id], orders[j])}
      <4>1. S \subseteq DOMAIN orders
        BY DEF Book
      <4>2. ItAfter(b, it) = it_at_first(orders, S)
        BY <3>1 DEF ItAfter, next_it
      <4> HIDE DEF S
      <4> QED
        BY <1>4, <4>1, <4>2, ItAtFirst
    <3>2. CASE ~is_completed(it)
      BY <2>2, <3>2 DEF ItAfter
    <3> QED
      BY <3>1, <3>2
  <2>3. ASSUME NEW b \in Books
        PROVE  /\ is_matching(its'[b]) /\ its'[b].order_id = i
                     <=> is_matching(its[b]) /\ its[b].order_id = i
               /\ is_matching(its'[b]) /\ its'[b].order_id = i => its'[b] = its[b]
    <3>1. CASE b = d.buy
      BY <1>1, <1>4, <1>7, <2>2, <3>1
    <3>2. CASE b = d.sell
      BY <1>1, <1>4, <1>7, <2>2, <3>2
    <3> QED
      BY <1>7, <3>1, <3>2
  <2>4. AtRow(its', i) = AtRow(its, i)
    BY <2>3 DEF AtRow
  <2>5. AtRow(its, i) # {} => its'[AnyOf(AtRow(its, i))] = its[AnyOf(AtRow(its, i))]
    <3>1. AtRow(its, i) # {} => AnyOf(AtRow(its, i)) \in AtRow(its, i)
      BY DEF AnyOf
    <3> QED
      BY <2>3, <3>1 DEF AtRow
  <2>6. RowOf(orders', its', now', i) = RowOf(orders, its, now, i)
    <3>1. now' = now
      BY <1>3
    <3> QED
      BY <2>1, <2>4, <2>5, <3>1 DEF RowOf
  <2> QED
    BY <1>2, <2>6, LiveIs
<1>12. /\ Added(Live[BuyId], Live'[BuyId], d.assets, d.coins, d.buy_fee, NextDealId,
                IF is_completed(BuyIt(d)) THEN "completed" ELSE "matchable")
       /\ Added(Live[SellId], Live'[SellId], d.assets, d.coins, d.sell_fee, NextDealId,
                IF is_completed(SellIt(d)) THEN "completed" ELSE "matchable")
  BY <1>5, <1>8, <1>9, <1>10 DEF Added, SameTerms, SameTotals, MatchedFrom
<1> QED
  BY <1>2, <1>11, <1>12 DEF d

----------------------------------------------------------------------------
(* The caches are kept: one lemma per kind of action *)

\* Iterators that are closed stay fresh whatever happens to the rows.
LEMMA ClosedStayFresh ==
    ASSUME CachesFresh, txn.phase # "matching", its' = its
    PROVE  CachesFresh'
BY DEF CachesFresh, is_valid, is_completed

LEMMA NoItsFresh ==
    ASSUME its' = NoIts
    PROVE  CachesFresh'
BY DEF CachesFresh, NoIts, ClosedIt, is_valid, is_completed

\* Rows stay funded when no pair goes.
LEMMA FundedStays ==
    ASSUME NEW tbl, RowsFunded(tbl), DOMAIN sympairs \subseteq DOMAIN sympairs'
    PROVE  \A i \in DOMAIN tbl :
               /\ tbl[i].sympair_id \in DOMAIN sympairs'
               /\ tbl[i].order_side # "buy" =>
                      tbl[i].frozen_quant = tbl[i].limit_quant /\ tbl[i].fee_symbol = "coin"
BY DEF RowsFunded

\* An iterator that has been put on the first of some rows caches its totals.
LEMMA FreshAtFirst ==
    ASSUME NEW tbl, NEW S, NEW it, it = it_at_first(tbl, S)
    PROVE  /\ ~is_completed(it) /\ it.refund_coins = 0
           /\ it.status = "opened" =>
                  /\ it.matched_assets = tbl[it.order_id].matched_assets
                  /\ it.matched_coins = tbl[it.order_id].matched_coins
                  /\ it.matched_fee = tbl[it.order_id].matched_fee
                  /\ it.last_deal_id = tbl[it.order_id].last_deal_id
<1>1. CASE FirstOf(tbl, S) = {}
  BY <1>1 DEF it_at_first, ClosedIt, is_completed
<1>2. CASE FirstOf(tbl, S) # {}
  <2>1. PICK i : it = opened_it(tbl, i)
    BY <1>2 DEF it_at_first
  <2> QED
    BY <2>1 DEF opened_it, is_completed
<1> QED
  BY <1>1, <1>2

\* What has to be shown of a step that does not end inside a transaction.
LEMMA CachesWhenIdle ==
    ASSUME CachesFresh', RowsFunded(orders)', RowsFunded(undo.orders)',
           Completed(orders, deals)', txn'.phase = "idle"
    PROVE  CachesInv'
BY DEF CachesInv, PairsKept

LEMMA InitCaches == Init => CachesInv
BY DEF Init, Idle, NoUndo, NoIts, ClosedIt, EmptyTable, CachesInv, CachesFresh, RowsFunded,
       PairsKept, Completed, is_valid, is_completed

LEMMA AdministrationCaches ==
    ASSUME IInv, CachesInv, Administration
    PROVE  CachesInv'
<1>1. /\ UNCHANGED <<orders, deals, txn, its, undo>> /\ txn.phase = "idle"
      /\ DOMAIN sympairs \subseteq DOMAIN sympairs'
  BY DEF Administration, SetConfig, CreateSympair, ModifySympair, OnOffSympair, tables, matching,
         Put
<1>2. CachesFresh /\ RowsFunded(orders) /\ RowsFunded(undo.orders) /\ Completed(orders, deals)
  BY DEF CachesInv
<1>3. CachesFresh'
  BY <1>1, <1>2, ClosedStayFresh
<1>4. RowsFunded(orders)' /\ RowsFunded(undo.orders)'
  BY <1>1, <1>2, FundedStays DEF RowsFunded
<1> QED
  BY <1>1, <1>2, <1>3, <1>4, CachesWhenIdle DEF Completed

LEMMA FundsCaches ==
    ASSUME IInv, CachesInv, Funds \/ Tick
    PROVE  CachesInv'
<1>1. /\ UNCHANGED <<sympairs, orders, deals, txn, its, undo>> /\ txn.phase = "idle"
  BY DEF Funds, OnTransfer, Withdraw, Tick, tables, matching
<1> QED
  BY <1>1, CachesWhenIdle, ClosedStayFresh DEF CachesInv, RowsFunded, Completed

LEMMA CancelCaches ==
    ASSUME IInv, CachesInv, NEW id \in DOMAIN orders, Cancel(id)
    PROVE  CachesInv'
<1>1. /\ UNCHANGED <<sympairs, deals, txn, its, undo>> /\ txn.phase = "idle"
      /\ orders' = [orders EXCEPT ![id].status = "canceled", ![id].last_updated_at = now]
  BY DEF Cancel, matching
<1>2. IsTable(orders, OrderType) /\ orders[id] \in OrderType
  BY TypeParts, RowType DEF IInv
<1>3. /\ DOMAIN orders' = DOMAIN orders /\ \A i \in DOMAIN orders \ {id} : orders'[i] = orders[i]
      /\ SameTerms(orders'[id], orders[id]) /\ orders'[id].status = "canceled"
  BY <1>1, <1>2 DEF IsTable, OrderType, SameTerms
<1>4. RowsFunded(orders)' /\ RowsFunded(undo.orders)'
  BY <1>1, <1>3 DEF CachesInv, RowsFunded, SameTerms
<1>5. Completed(orders, deals)'
  BY <1>1, <1>3 DEF CachesInv, Completed
<1> QED
  BY <1>1, <1>4, <1>5, CachesWhenIdle, ClosedStayFresh DEF CachesInv

\* The row that new_order adds, and what else it does to orders and pairs.
LEMMA NewOrderRow ==
    ASSUME IInv, NEW user, NEW i, NEW type, NEW side, NEW quant, NEW price, NEW ex, NEW signed,
           NewOrder(user, i, type, side, quant, price, ex, signed)
    PROVE  LET id == new_auto_inc_id(global.order_id) IN
           /\ id \notin DOMAIN orders /\ DOMAIN orders' = DOMAIN orders \cup {id}
           /\ \A j \in DOMAIN orders : orders'[j] = orders[j]
           /\ orders'[id].order_id = id
           /\ orders'[id].sympair_id = i /\ orders'[id].order_side = side
           /\ orders'[id].order_type = type
           /\ orders'[id].price = price /\ orders'[id].limit_quant = quant
           /\ orders'[id].frozen_quant
                  = frozen_quant_of(sympairs[i], type, side, quant, price, order_ratios(ex).taker)
           /\ orders'[id].status = "matchable" /\ orders'[id].last_deal_id = 0
           /\ orders'[id].matched_assets = 0 /\ orders'[id].matched_coins = 0
           /\ orders'[id].matched_fee = 0
           /\ orders'[id].fee_symbol
                  = IF side = "buy" /\ ~sympairs[i].only_accept_coin_fee THEN "asset" ELSE "coin"
           /\ UNCHANGED <<config, sympairs, deals, bank, now>>
           /\ txn.phase = "idle"
BY DEF NewOrder, Put

LEMMA NewOrderCaches ==
    ASSUME IInv, CachesInv, NEW user \in Traders, NEW i \in DOMAIN sympairs, NEW kind \in OrderKinds,
           NEW quant \in LimitQuants, NEW price \in Prices, NEW ex \in OrderConfigs,
           NEW signed \in BOOLEAN,
           NewOrder(user, i, kind[1], kind[2], quant, price, ex, signed)
    PROVE  CachesInv'
<1> DEFINE id == new_auto_inc_id(global.order_id)
<1>1. /\ id \notin DOMAIN orders /\ DOMAIN orders' = DOMAIN orders \cup {id}
      /\ \A j \in DOMAIN orders : orders'[j] = orders[j]
      /\ orders'[id].sympair_id = i /\ orders'[id].order_side = kind[2]
      /\ orders'[id].limit_quant = quant
      /\ orders'[id].frozen_quant
             = frozen_quant_of(sympairs[i], kind[1], kind[2], quant, price, order_ratios(ex).taker)
      /\ orders'[id].status = "matchable"
      /\ orders'[id].fee_symbol
             = IF kind[2] = "buy" /\ ~sympairs[i].only_accept_coin_fee THEN "asset" ELSE "coin"
      /\ UNCHANGED <<sympairs, deals>> /\ txn.phase = "idle"
  BY NewOrderRow
<1> HIDE DEF id
<1>2. RowsFunded(orders)'
  <2>1. kind[2] # "buy" => orders'[id].frozen_quant = quant /\ orders'[id].fee_symbol = "coin"
    BY <1>1 DEF frozen_quant_of
  <2> QED
    BY <1>1, <2>1 DEF CachesInv, RowsFunded
<1>3. Completed(orders, deals)'
  BY <1>1 DEF CachesInv, Completed
<1>4. CASE config.max_match_count > 0
  <2>1. /\ StartMatching("order", <<>>, i, config.max_match_count)
        /\ its' = [b \in Books |-> open_it(orders', i, b)]
        /\ undo' = Tables
    BY <1>4 DEF NewOrder
  <2>2. CachesFresh'
    <3>1. txn'.phase = "matching"
      BY <2>1 DEF StartMatching
    <3>2. ASSUME NEW b \in Books
          PROVE  its'[b] = it_at_first(orders', Book(orders', i, b))
      BY <2>1 DEF open_it
    <3> QED
      BY <3>1, <3>2, FreshAtFirst DEF CachesFresh
  <2>3. RowsFunded(undo.orders)' /\ Completed(undo.orders, undo.deals)'
    BY <1>1, <2>1 DEF CachesInv, RowsFunded, Completed, Tables
  <2>4. PairsKept'
    BY <1>1, <2>1 DEF PairsKept, Tables
  <2> QED
    BY <1>2, <1>3, <2>2, <2>3, <2>4 DEF CachesInv
<1>5. CASE ~(config.max_match_count > 0)
  <2>1. UNCHANGED <<txn, its, undo>>
    BY <1>5 DEF NewOrder, matching
  <2>2. RowsFunded(undo.orders)'
    BY <1>1, <2>1 DEF CachesInv, RowsFunded
  <2> QED
    BY <1>1, <1>2, <1>3, <2>1, <2>2, CachesWhenIdle, ClosedStayFresh DEF CachesInv
<1> QED
  BY <1>4, <1>5

LEMMA StartMatchCaches ==
    ASSUME IInv, CachesInv, StartMatch
    PROVE  CachesInv'
<1>1. PICK max_count \in MatchCounts, list \in MatchLists : Match(max_count, list)
  BY DEF StartMatch
<1>2. /\ undo' = Tables /\ UNCHANGED <<sympairs, orders, deals, its>>
      /\ txn.phase = "idle" /\ txn'.phase = "select"
  BY <1>1 DEF Match, StartMatching, tables
<1>3. CachesFresh'
  BY <1>2, ClosedStayFresh DEF CachesInv
<1>4. /\ RowsFunded(orders)' /\ RowsFunded(undo.orders)'
      /\ Completed(orders, deals)' /\ Completed(undo.orders, undo.deals)'
  BY <1>2 DEF CachesInv, RowsFunded, Completed, Tables
<1>5. PairsKept'
  BY <1>2 DEF PairsKept, Tables
<1> QED
  BY <1>3, <1>4, <1>5 DEF CachesInv

LEMMA OpenPairCaches ==
    ASSUME IInv, CachesInv, OpenPair
    PROVE  CachesInv'
<1>1. /\ UNCHANGED <<sympairs, orders, deals, undo>> /\ txn.phase = "select"
  BY DEF OpenPair, tables
<1>2. txn \in TxnType
  BY TypeParts DEF IInv
<1>3. CachesFresh'
  <2> DEFINE id == Head(txn.pairs)
  <2>1. CASE id \in DOMAIN sympairs /\ sympairs[id].enabled
    <3>1. /\ txn' = [txn EXCEPT !.phase = "matching", !.pairs = Tail(txn.pairs),
                                !.sympair_id = id, !.latest_deal_price = 0]
          /\ its' = [b \in Books |-> open_it(orders, id, b)]
      BY <2>1 DEF OpenPair
    <3> HIDE DEF id
    <3>2. txn'.phase = "matching"
      BY <1>2, <3>1 DEF TxnType
    <3>3. \A b \in Books : its'[b] = it_at_first(orders', Book(orders', id, b))
      BY <1>1, <3>1 DEF open_it
    <3> QED
      BY <3>2, <3>3, FreshAtFirst DEF CachesFresh
  <2>2. CASE ~(id \in DOMAIN sympairs /\ sympairs[id].enabled)
    <3>1. its' = its
      BY <2>2 DEF OpenPair
    <3> QED
      BY <1>1, <3>1, ClosedStayFresh DEF CachesInv
  <2> QED
    BY <2>1, <2>2
<1> QED
  BY <1>1, <1>3 DEF CachesInv, RowsFunded, Completed, PairsKept

\* A row's pair keeps its tokens when the pair's latest price is updated.
LEMMA ClosePairPairs ==
    ASSUME IInv, ClosePair
    PROVE  /\ DOMAIN sympairs' = DOMAIN sympairs
           /\ \A p \in DOMAIN sympairs :
                  /\ sympairs'[p].asset_symbol = sympairs[p].asset_symbol
                  /\ sympairs'[p].coin_symbol = sympairs[p].coin_symbol
                  /\ sympairs'[p].only_accept_coin_fee = sympairs[p].only_accept_coin_fee
<1>1. IsTable(sympairs, SympairType) /\ \A p \in DOMAIN sympairs : sympairs[p] \in SympairType
  BY TypeParts, RowType DEF IInv
<1>2. CASE txn.latest_deal_price > 0
  <2>1. sympairs' = [sympairs EXCEPT ![txn.sympair_id].latest_deal_price = txn.latest_deal_price]
    BY <1>2 DEF ClosePair
  <2> QED
    BY <1>1, <2>1 DEF SympairType, IsTable
<1>3. CASE ~(txn.latest_deal_price > 0)
  <2>1. sympairs' = sympairs
    BY <1>3 DEF ClosePair
  <2> QED
    BY <2>1
<1> QED
  BY <1>2, <1>3

LEMMA ClosePairCaches ==
    ASSUME IInv, CachesInv, ClosePair
    PROVE  CachesInv'
<1>1. /\ orders' = Live /\ its' = NoIts /\ UNCHANGED <<deals, undo>>
      /\ txn.phase = "matching"
  BY DEF ClosePair, Live
<1>2. CachesFresh'
  BY <1>1, NoItsFresh
<1>3. /\ DOMAIN Live = DOMAIN orders
      /\ \A i \in DOMAIN orders :
             /\ SameTerms(Live[i], orders[i]) /\ Live[i].status = orders[i].status
             /\ orders[i].status # "matchable" => Live[i] = orders[i]
  BY LiveIs, LiveRow DEF CachesInv
<1>4. RowsFunded(orders)' /\ RowsFunded(undo.orders)'
  BY <1>1, <1>3, ClosePairPairs DEF CachesInv, RowsFunded, SameTerms
<1>5. Completed(orders, deals)'
  BY <1>1, <1>3 DEF CachesInv, Completed
<1>6. PairsKept'
  BY <1>1, ClosePairPairs DEF CachesInv, PairsKept
<1>7. txn.phase # "idle" => Completed(undo.orders, undo.deals)
  BY DEF CachesInv
<1> QED
  BY <1>1, <1>2, <1>4, <1>5, <1>6, <1>7 DEF CachesInv, Completed

LEMMA EndCaches ==
    ASSUME IInv, CachesInv, Commit \/ FailedCheck \/ NoneMatched
    PROVE  CachesInv'
<1>1. its' = NoIts /\ undo' = NoUndo /\ txn'.phase = "idle"
  BY DEF Commit, FailedCheck, NoneMatched, Rollback, EndTransaction, Idle
<1>2. CachesFresh' /\ RowsFunded(undo.orders)'
  BY <1>1, NoItsFresh DEF RowsFunded, NoUndo, EmptyTable
<1>3. CASE Commit
  <2>1. UNCHANGED <<sympairs, orders, deals>>
    BY <1>3 DEF Commit, tables
  <2> QED
    BY <1>1, <1>2, <2>1, CachesWhenIdle DEF CachesInv, RowsFunded, Completed
<1>4. CASE FailedCheck \/ NoneMatched
  <2>1. /\ txn.phase # "idle"
        /\ sympairs' = undo.sympairs /\ orders' = undo.orders /\ deals' = undo.deals
    BY <1>4 DEF FailedCheck, NoneMatched, Rollback, LoopCondition
  <2>2. RowsFunded(orders)'
    BY <2>1 DEF CachesInv, RowsFunded, PairsKept
  <2>3. Completed(orders, deals)'
    BY <2>1 DEF CachesInv, Completed
  <2> QED
    BY <1>1, <1>2, <2>2, <2>3, CachesWhenIdle
<1> QED
  BY <1>3, <1>4

LEMMA CleaningCaches ==
    ASSUME IInv, CachesInv, Cleaning
    PROVE  CachesInv'
<1>1. PICK max_count \in CleanCounts, stale \in BOOLEAN : CleanData(max_count, stale)
  BY DEF Cleaning
<1> DEFINE D == SweptDeals(max_count)
<1>2. /\ deals' = Without(deals, D)
      /\ UNCHANGED <<sympairs, txn, its, undo>> /\ txn.phase = "idle"
  BY <1>1 DEF CleanData, matching
<1>3. PICK S : orders' = Without(orders, SweptOrders(D) \cup S)
  <2> DEFINE gone == SweptOrders(D)
             left == max_count - Cardinality(D)
             reached(status) == {i \in DOMAIN orders \ gone : stale /\ orders[i].status = status}
             canceled == LeastRecent(reached("canceled"), left)
             completed == LeastRecent(reached("completed"), left - Cardinality(canceled))
  <2>1. orders' = Without(orders, gone \cup canceled \cup completed)
    BY <1>1 DEF CleanData
  <2> HIDE DEF canceled, completed
  <2>2. gone \cup canceled \cup completed = SweptOrders(D) \cup (canceled \cup completed)
    OBVIOUS
  <2> QED
    BY <2>1, <2>2
<1> HIDE DEF D
<1>4. RowsFunded(orders)' /\ RowsFunded(undo.orders)'
  BY <1>2, <1>3 DEF CachesInv, RowsFunded, Without
<1>5. Completed(orders, deals)'
  BY <1>2, <1>3 DEF CachesInv, Completed, Without, SweptOrders
<1> QED
  BY <1>2, <1>4, <1>5, CachesWhenIdle, ClosedStayFresh DEF CachesInv

LEMMA DealRowTerms ==
    ASSUME IInv, CachesFresh, Deal
    PROVE  /\ \A i \in DOMAIN orders : SameTerms(orders'[i], orders[i])
           /\ \A i \in Done : orders'[i].last_deal_id = NextDealId
<1> DEFINE d == NextDeal
           buy_row == RowAfter(d.buy, BuyIt(d))
           sell_row == RowAfter(d.sell, SellIt(d))
<1>1. /\ BuyId \in DOMAIN orders /\ SellId \in DOMAIN orders /\ BuyId # SellId
      /\ \A i \in DOMAIN orders \ Done : orders'[i] = orders[i]
  BY DealRows
<1>2. /\ orders[BuyId] \in OrderType /\ orders[SellId] \in OrderType /\ now \in Nat
      /\ OrderAt(d.buy) = orders[BuyId] /\ OrderAt(d.sell) = orders[SellId]
      /\ BuyIt(d) \in ItType /\ SellIt(d) \in ItType
      /\ BuyIt(d).last_deal_id = NextDealId /\ SellIt(d).last_deal_id = NextDealId
  BY DealSides, TypeParts DEF IInv, MatchedFrom
<1>3. orders'[BuyId] = buy_row /\ orders'[SellId] = sell_row
  <2> HIDE DEF buy_row, sell_row
  <2>1. orders' = [orders EXCEPT ![BuyId] = buy_row, ![SellId] = sell_row]
    BY DEF Deal, BuyId, SellId, buy_row, sell_row
  <2> QED
    BY <1>1, <2>1
<1> HIDE DEF d
<1>4. /\ BuyId \in Done => buy_row = completed_row(orders[BuyId], BuyIt(d), now)
      /\ SellId \in Done => sell_row = completed_row(orders[SellId], SellIt(d), now)
  BY <1>1, <1>2 DEF Done, RowAfter, d
<1>5. /\ BuyId \in Done => SameTerms(buy_row, orders[BuyId]) /\ buy_row.last_deal_id = NextDealId
      /\ SellId \in Done => SameTerms(sell_row, orders[SellId]) /\ sell_row.last_deal_id = NextDealId
  <2> HIDE DEF buy_row, sell_row
  <2> QED
    BY <1>2, <1>4, SavedRow DEF SameTotals
<1>6. Done \subseteq {BuyId, SellId}
  BY DEF Done
<1> HIDE DEF buy_row, sell_row
<1> QED
  BY <1>1, <1>3, <1>5, <1>6 DEF SameTerms

LEMMA DealCaches ==
    ASSUME IInv, CachesInv, Deal
    PROVE  CachesInv'
<1> DEFINE d == NextDeal
           p == txn.sympair_id
<1>1. /\ CachesFresh /\ RowsFunded(orders) /\ RowsFunded(undo.orders) /\ PairsKept
      /\ Completed(orders, deals)
      /\ txn.phase # "idle" => Completed(undo.orders, undo.deals)
  BY DEF CachesInv
<1>2. /\ txn.phase = "matching" /\ txn'.phase = "matching" /\ txn'.sympair_id = p
      /\ d.buy \in Books /\ d.sell \in Books /\ d.buy # d.sell
      /\ is_valid(its[d.buy]) /\ is_valid(its[d.sell])
      /\ d.assets \in Nat /\ d.coins \in Nat /\ d.buy_fee \in Nat /\ d.sell_fee \in Nat
      /\ NextDealId \in Ids /\ NextDealId \notin DOMAIN deals
      /\ MatchedFrom(orders[BuyId], its[d.buy], BuyIt(d), NextDealId, d.assets, d.coins, d.buy_fee)
      /\ MatchedFrom(orders[SellId], its[d.sell], SellIt(d), NextDealId, d.assets, d.coins, d.sell_fee)
  BY <1>1, DealSides
<1>3. /\ BuyId \in DOMAIN orders /\ SellId \in DOMAIN orders /\ BuyId # SellId
      /\ DOMAIN orders' = DOMAIN orders
      /\ \A i \in DOMAIN orders \ Done : orders'[i] = orders[i]
      /\ \A i \in Done : orders'[i].status = "completed"
  BY DealRows
<1>4. /\ its' = [its EXCEPT ![d.buy] = ItAfter(d.buy, BuyIt(d)),
                            ![d.sell] = ItAfter(d.sell, SellIt(d))]
      /\ UNCHANGED <<config, sympairs, bank, now, undo>>
      /\ DOMAIN deals' = DOMAIN deals \cup {NextDealId}
      /\ \A e \in DOMAIN deals : deals'[e] = deals[e]
      /\ deals'[NextDealId].buy_order_id = BuyId /\ deals'[NextDealId].sell_order_id = SellId
  <2>1. DOMAIN deals' = DOMAIN deals \cup {NextDealId} /\ \A e \in DOMAIN deals : deals'[e] = deals[e]
    BY <1>2 DEF Deal, Put
  <2> QED
    BY <2>1, NewDealRow DEF Deal
<1>5. its \in [Books -> ItType]
  BY TypeParts DEF IInv
<1> HIDE DEF d
<1>6. /\ BuyIt(d).status \in {"matching", "completed"}
      /\ ~is_completed(BuyIt(d)) => BuyIt(d).refund_coins = 0
      /\ SellIt(d).status \in {"matching", "completed"}
      /\ ~is_completed(SellIt(d)) => SellIt(d).refund_coins = 0
  BY <1>2 DEF MatchedFrom
<1>7. ASSUME NEW b \in Books, NEW it, it.status \in {"matching", "completed"},
             ~is_completed(it) => it.refund_coins = 0
      PROVE  LET new == ItAfter(b, it)
             IN  /\ ~is_completed(new) /\ new.refund_coins = 0
                 /\ new.status = "opened" =>
                        /\ new.matched_assets = orders[new.order_id].matched_assets
                        /\ new.matched_coins = orders[new.order_id].matched_coins
                        /\ new.matched_fee = orders[new.order_id].matched_fee
                        /\ new.last_deal_id = orders[new.order_id].last_deal_id
  <2>1. CASE is_completed(it)
    <3>1. PICK S : ItAfter(b, it) = it_at_first(orders, S)
      BY <2>1 DEF ItAfter, next_it
    <3> QED
      BY <3>1, FreshAtFirst
  <2>2. CASE ~is_completed(it)
    BY <1>7, <2>2 DEF ItAfter, is_completed
  <2> QED
    BY <2>1, <2>2
\* Where an iterator has just been put, the row has not changed.
<1>8. ASSUME NEW b \in Books, is_valid(its'[b])
      PROVE  orders'[its'[b].order_id] = orders[its'[b].order_id]
  <2>1. its'[b].order_id \in Book(orders', p, b)
    BY <1>2, <1>8, DealStep DEF IInv, ItsOK, OnFirst, FirstOf
  <2>2. its'[b].order_id \in DOMAIN orders \ Done
    BY <1>3, <2>1 DEF Book, InBook
  <2> QED
    BY <1>3, <2>2
<1>9. ASSUME NEW b \in Books
       PROVE  LET it == its'[b]
              IN  /\ ~is_completed(it) /\ it.refund_coins = 0
                  /\ it.status = "opened" =>
                         /\ it.matched_assets = orders[it.order_id].matched_assets
                         /\ it.matched_coins = orders[it.order_id].matched_coins
                         /\ it.matched_fee = orders[it.order_id].matched_fee
                         /\ it.last_deal_id = orders[it.order_id].last_deal_id
  <2> DEFINE buy_it == ItAfter(d.buy, BuyIt(d))
             sell_it == ItAfter(d.sell, SellIt(d))
  <2>1. its'[d.buy] = buy_it /\ its'[d.sell] = sell_it
        /\ \A c \in Books \ {d.buy, d.sell} : its'[c] = its[c]
    <3> HIDE DEF buy_it, sell_it
    <3>1. its' = [its EXCEPT ![d.buy] = buy_it, ![d.sell] = sell_it]
      BY <1>4 DEF buy_it, sell_it
    <3> QED
      BY <1>2, <1>5, <3>1
  <2>2. CASE b = d.buy
    BY <1>6, <1>7, <2>1, <2>2
  <2>3. CASE b = d.sell
    BY <1>6, <1>7, <2>1, <2>3
  <2>4. CASE b \notin {d.buy, d.sell}
    BY <1>1, <2>1, <2>4 DEF CachesFresh
  <2> QED
    BY <2>2, <2>3, <2>4
<1>10. CachesFresh'
  BY <1>2, <1>8, <1>9 DEF CachesFresh, is_valid
<1>11. /\ \A i \in DOMAIN orders : SameTerms(orders'[i], orders[i])
       /\ \A i \in Done : orders'[i].last_deal_id = NextDealId
  BY DealRowTerms, <1>1
<1>12. RowsFunded(orders)' /\ RowsFunded(undo.orders)' /\ PairsKept'
  BY <1>1, <1>2, <1>3, <1>4, <1>11 DEF RowsFunded, SameTerms, PairsKept
<1>13. Completed(orders, deals)'
  BY <1>1, <1>3, <1>4, <1>11 DEF Completed, Done
<1>14. (txn.phase # "idle" => Completed(undo.orders, undo.deals))'
  BY <1>1, <1>2, <1>4 DEF Completed
<1> QED
  BY <1>10, <1>12, <1>13, <1>14 DEF CachesInv

LEMMA CachesStep == IInv /\ CachesInv /\ [Next]_vars => CachesInv'
<1> SUFFICES ASSUME IInv, CachesInv, [Next]_vars PROVE CachesInv'
  OBVIOUS
<1>1. CASE Ordering
  BY <1>1, NewOrderCaches, CancelCaches DEF Ordering
<1>2. CASE TransactionStep
  BY <1>2, OpenPairCaches, DealCaches, ClosePairCaches, EndCaches DEF TransactionStep
<1>3. CASE UNCHANGED vars
  BY <1>3 DEF vars, tables, matching, CachesInv, CachesFresh, RowsFunded, PairsKept, Completed
<1> QED
  BY <1>1, <1>2, <1>3, AdministrationCaches, FundsCaches, StartMatchCaches, CleaningCaches DEF Next

LEMMA CachesKept == Spec => [](IInv /\ CachesInv)
BY InitIInv, InductiveStep, InitCaches, CachesStep, PTL DEF Spec

(***************************************************************************)
(* CompletedHaveDeal: a completed order stays in the table only as long as *)
(* the deal that completed it, and that deal names it, also when deal ids  *)
(* have wrapped, for any number of orders and of cleandata calls.          *)
(***************************************************************************)
THEOREM CompletedOrdersHaveDeal == Spec => []CompletedHaveDeal
<1>1. CachesInv => CompletedHaveDeal
  BY DEF CachesInv, Completed, CompletedHaveDeal
<1> QED
  BY <1>1, CachesKept, PTL

----------------------------------------------------------------------------
(* Sums over accounts and over orders *)

\* What is left of an order's frozen funds, whatever its status.
Left(o) == o.frozen_quant - Spent(o)

\* What row i of a table adds to a token's retained funds.
RetainedAt(pairs, tbl, token, statuses, i) ==
    IF /\ i \in DOMAIN tbl /\ tbl[i].status \in statuses
       /\ frozen_token(pairs[tbl[i].sympair_id], tbl[i].order_side) = token
    THEN Retained(tbl[i]) ELSE 0

RetainedSum(pairs, tbl, token, statuses) ==
    SumFunctionOnSet([i \in Ids |-> RetainedAt(pairs, tbl, token, statuses, i)], Ids)

LEMMA IdsFinite == IsFiniteSet(Ids)
BY ConstantsAssumption, FS_Interval DEF Ids

LEMMA RetainedType ==
    ASSUME NEW o \in OrderType
    PROVE  Retained(o) \in Int /\ Left(o) \in Int /\ Spent(o) \in Nat
<1>1. /\ o.frozen_quant \in Nat /\ o.matched_assets \in Nat /\ o.matched_coins \in Nat
      /\ o.matched_fee \in Nat /\ o.status \in {"matchable", "completed", "canceled"}
  BY DEF OrderType
<1>2. FeeInCoins(o) \in Nat /\ Spent(o) \in Nat
  BY <1>1 DEF FeeInCoins, Spent
<1>3. CASE o.status = "matchable"
  BY <1>1, <1>2, <1>3 DEF Retained, Left
<1>4. CASE o.status = "completed"
  BY <1>1, <1>2, <1>4 DEF Retained, Left
<1>5. CASE o.status = "canceled"
  BY <1>1, <1>2, <1>5 DEF Retained, Left
<1> QED
  BY <1>1, <1>2, <1>3, <1>4, <1>5

LEMMA RetainedAtType ==
    ASSUME NEW pairs, NEW tbl, IsTable(tbl, OrderType), NEW token, NEW statuses, NEW i
    PROVE  RetainedAt(pairs, tbl, token, statuses, i) \in Int
BY RowType, RetainedType DEF RetainedAt

LEMMA RetainedSumType ==
    ASSUME NEW pairs, NEW tbl, IsTable(tbl, OrderType), NEW token, NEW statuses
    PROVE  RetainedSum(pairs, tbl, token, statuses) \in Int
<1> DEFINE f == [i \in Ids |-> RetainedAt(pairs, tbl, token, statuses, i)]
<1>1. \A i \in Ids : f[i] \in Int
  BY RetainedAtType
<1> HIDE DEF f
<1>2. SumFunctionOnSet(f, Ids) \in Int
  BY <1>1, IdsFinite, SumType
<1> QED
  BY <1>2 DEF RetainedSum, f

\* The sum over the rows of a status and a token, as a sum over all ids.
LEMMA RetainedIsSum ==
    ASSUME NEW pairs, NEW tbl, IsTable(tbl, OrderType), NEW token, NEW statuses
    PROVE  LET I == {i \in DOMAIN tbl : /\ tbl[i].status \in statuses
                                        /\ frozen_token(pairs[tbl[i].sympair_id],
                                                        tbl[i].order_side) = token}
           IN  SumFunction([i \in I |-> Retained(tbl[i])])
                   = RetainedSum(pairs, tbl, token, statuses)
<1> DEFINE I == {i \in DOMAIN tbl : /\ tbl[i].status \in statuses
                                    /\ frozen_token(pairs[tbl[i].sympair_id],
                                                    tbl[i].order_side) = token}
           f == [i \in I |-> Retained(tbl[i])]
           g == [i \in Ids |-> RetainedAt(pairs, tbl, token, statuses, i)]
<1>1. /\ I \subseteq Ids /\ DOMAIN f = I
      /\ \A i \in I : f[i] = g[i]
      /\ \A i \in Ids : g[i] \in Int
      /\ \A i \in Ids \ I : g[i] = 0
  BY RetainedAtType DEF IsTable, RetainedAt
<1> HIDE DEF I, f, g
<1>2. IsFiniteSet(I)
  BY <1>1, IdsFinite, FS_Subset
<1>3. SumFunctionOnSet(f, I) = SumFunctionOnSet(g, I)
  BY <1>1, <1>2, SumAgree
<1>4. SumFunctionOnSet(g, I) = SumFunctionOnSet(g, Ids)
  BY <1>1, IdsFinite, SumSupport
<1>5. SumFunction(f) = SumFunctionOnSet(f, I)
  BY <1>1 DEF SumFunction
<1> QED
  BY <1>3, <1>4, <1>5 DEF RetainedSum, f, g, I

\* Tables whose rows retain the same retain the same in sum.
LEMMA RetainedSame ==
    ASSUME NEW pairs, NEW tbl, NEW pairs2, NEW tbl2, NEW token, NEW statuses,
           \A i \in Ids : RetainedAt(pairs2, tbl2, token, statuses, i)
                              = RetainedAt(pairs, tbl, token, statuses, i)
    PROVE  RetainedSum(pairs2, tbl2, token, statuses) = RetainedSum(pairs, tbl, token, statuses)
BY DEF RetainedSum

\* The retained sum changes by as much as the rows that do.
LEMMA RetainedChange ==
    ASSUME NEW pairs, NEW tbl, NEW tbl2, IsTable(tbl, OrderType), IsTable(tbl2, OrderType),
           NEW token, NEW statuses, NEW k \in Ids,
           \A i \in Ids \ {k} : RetainedAt(pairs, tbl2, token, statuses, i)
                                    = RetainedAt(pairs, tbl, token, statuses, i)
    PROVE  RetainedSum(pairs, tbl2, token, statuses)
               = RetainedSum(pairs, tbl, token, statuses)
                 + (RetainedAt(pairs, tbl2, token, statuses, k)
                    - RetainedAt(pairs, tbl, token, statuses, k))
<1> DEFINE f == [i \in Ids |-> RetainedAt(pairs, tbl, token, statuses, i)]
           g == [i \in Ids |-> RetainedAt(pairs, tbl2, token, statuses, i)]
<1>1. /\ \A i \in Ids : f[i] \in Int /\ g[i] \in Int
      /\ \A i \in Ids \ {k} : g[i] = f[i]
      /\ f[k] = RetainedAt(pairs, tbl, token, statuses, k)
      /\ g[k] = RetainedAt(pairs, tbl2, token, statuses, k)
  BY RetainedAtType
<1> HIDE DEF f, g
<1>2. SumFunctionOnSet(g, Ids) = SumFunctionOnSet(f, Ids) + (g[k] - f[k])
  BY <1>1, IdsFinite, SumUpdate
<1> QED
  BY <1>1, <1>2 DEF RetainedSum, f, g

LEMMA RetainedChangeTwo ==
    ASSUME NEW pairs, NEW tbl, NEW tbl2, IsTable(tbl, OrderType), IsTable(tbl2, OrderType),
           NEW token, NEW statuses, NEW j \in Ids, NEW k \in Ids, j # k,
           \A i \in Ids \ {j, k} : RetainedAt(pairs, tbl2, token, statuses, i)
                                       = RetainedAt(pairs, tbl, token, statuses, i)
    PROVE  RetainedSum(pairs, tbl2, token, statuses)
               = RetainedSum(pairs, tbl, token, statuses)
                 + (RetainedAt(pairs, tbl2, token, statuses, j)
                    - RetainedAt(pairs, tbl, token, statuses, j))
                 + (RetainedAt(pairs, tbl2, token, statuses, k)
                    - RetainedAt(pairs, tbl, token, statuses, k))
<1> DEFINE f == [i \in Ids |-> RetainedAt(pairs, tbl, token, statuses, i)]
           g == [i \in Ids |-> RetainedAt(pairs, tbl2, token, statuses, i)]
<1>1. /\ \A i \in Ids : f[i] \in Int /\ g[i] \in Int
      /\ \A i \in Ids \ {j, k} : g[i] = f[i]
      /\ f[j] = RetainedAt(pairs, tbl, token, statuses, j)
      /\ g[j] = RetainedAt(pairs, tbl2, token, statuses, j)
      /\ f[k] = RetainedAt(pairs, tbl, token, statuses, k)
      /\ g[k] = RetainedAt(pairs, tbl2, token, statuses, k)
  BY RetainedAtType
<1> HIDE DEF f, g
<1>2. SumFunctionOnSet(g, Ids) = SumFunctionOnSet(f, Ids) + (g[j] - f[j]) + (g[k] - f[k])
  BY <1>1, IdsFinite, SumUpdateTwo
<1> QED
  BY <1>1, <1>2 DEF RetainedSum, f, g

\* A quantity where two tokens are the same.
Where(token, t, quantity) == IF token = t THEN quantity ELSE 0

LEMMA OwedType ==
    ASSUME NEW accts \in BalancesType, NEW token \in Tokens
    PROVE  Owed(accts, token) \in Nat
<1> DEFINE f == [a \in Accounts |-> accts[a][token]]
<1>1. DOMAIN f = Accounts /\ \A a \in Accounts : f[a] \in Nat
  BY DEF BalancesType
<1> HIDE DEF f
<1>2. SumFunctionOnSet(f, Accounts) \in Nat
  BY <1>1, FiniteAccounts, SumType
<1> QED
  BY <1>1, <1>2 DEF Owed, SumFunction, f

\* A balance that changes by a quantity changes what is owed by it.
LEMMA OwedChange ==
    ASSUME NEW accts \in BalancesType, NEW accts2 \in BalancesType, NEW user \in Accounts,
           NEW t \in Tokens, NEW q \in Int,
           \A a \in Accounts, u \in Tokens :
               accts2[a][u] = accts[a][u] + (IF a = user /\ u = t THEN q ELSE 0),
           NEW token \in Tokens
    PROVE  Owed(accts2, token) = Owed(accts, token) + Where(token, t, q)
<1> DEFINE f == [a \in Accounts |-> accts[a][token]]
           g == [a \in Accounts |-> accts2[a][token]]
<1>1. /\ DOMAIN f = Accounts /\ DOMAIN g = Accounts
      /\ \A a \in Accounts : f[a] \in Int /\ g[a] \in Int
  BY DEF BalancesType
<1>2. /\ \A a \in Accounts \ {user} : g[a] = f[a]
      /\ g[user] - f[user] = Where(token, t, q)
  BY DEF BalancesType, Where
<1> HIDE DEF f, g
<1>3. SumFunctionOnSet(g, Accounts) = SumFunctionOnSet(f, Accounts) + (g[user] - f[user])
  BY <1>1, <1>2, FiniteAccounts, SumUpdate
<1> QED
  BY <1>1, <1>2, <1>3 DEF Owed, SumFunction, f, g

LEMMA OwedAdd ==
    ASSUME NEW accts \in BalancesType, NEW user \in Accounts, NEW t \in Tokens, NEW q \in Nat,
           NEW token \in Tokens
    PROVE  Owed(add_balance(accts, user, t, q), token) = Owed(accts, token) + Where(token, t, q)
<1> DEFINE accts2 == add_balance(accts, user, t, q)
<1>1. accts2 \in BalancesType
  BY AddBalance
<1>2. \A a \in Accounts, u \in Tokens :
          accts2[a][u] = accts[a][u] + (IF a = user /\ u = t THEN q ELSE 0)
  BY DEF add_balance, BalancesType
<1> HIDE DEF accts2
<1>3. Owed(accts2, token) = Owed(accts, token) + Where(token, t, q)
  BY <1>1, <1>2, OwedChange
<1> QED
  BY <1>3 DEF accts2

LEMMA OwedSub ==
    ASSUME NEW accts \in BalancesType, NEW user \in Accounts, NEW t \in Tokens, NEW q \in Nat,
           accts[user][t] >= q, NEW token \in Tokens
    PROVE  Owed(sub_balance(accts, user, t, q), token) = Owed(accts, token) - Where(token, t, q)
<1> DEFINE accts2 == sub_balance(accts, user, t, q)
           minus == -q
<1>1. accts2 \in BalancesType /\ minus \in Int
  BY SubBalance
<1>2. \A a \in Accounts, u \in Tokens :
          accts2[a][u] = accts[a][u] + (IF a = user /\ u = t THEN minus ELSE 0)
  BY DEF sub_balance, BalancesType
<1>3. Where(token, t, minus) = -Where(token, t, q)
  BY DEF Where
<1> HIDE DEF accts2, minus
<1>4. Owed(accts2, token) = Owed(accts, token) + Where(token, t, minus)
  BY <1>1, <1>2, OwedChange
<1>5. Owed(accts, token) \in Nat /\ Where(token, t, q) \in Nat
  BY OwedType DEF Where
<1> QED
  BY <1>3, <1>4, <1>5 DEF accts2

----------------------------------------------------------------------------
(* The ledger *)

LEMMA RowOfTable ==
    ASSUME NEW tbl, IsTable(tbl, OrderType), NEW iters \in [Books -> ItType], NEW time \in Nat
    PROVE  IsTable([i \in DOMAIN tbl |-> RowOf(tbl, iters, time, i)], OrderType)
<1>1. ASSUME NEW i \in DOMAIN tbl PROVE RowOf(tbl, iters, time, i) \in OrderType
  <2>1. tbl[i] \in OrderType
    BY RowType
  <2>2. CASE AtRow(iters, i) = {}
    BY <2>1, <2>2 DEF RowOf
  <2>3. CASE AtRow(iters, i) # {}
    <3>1. PICK b \in Books : RowOf(tbl, iters, time, i) = saved_row(tbl[i], iters[b], time)
      BY <2>3 DEF RowOf, AtRow, AnyOf
    <3> QED
      BY <2>1, <3>1, SavedRowType
  <2> QED
    BY <2>2, <2>3
<1> QED
  BY <1>1 DEF IsTable

LEMMA LiveTable == (IInv => IsTable(Live, OrderType)) /\ (IInv' => IsTable(Live', OrderType))
<1>1. IInv => IsTable(orders, OrderType) /\ its \in [Books -> ItType] /\ now \in Nat
  BY TypeParts DEF IInv
<1>2. IInv' => IsTable(orders', OrderType) /\ its' \in [Books -> ItType] /\ now' \in Nat
  BY TypePartsNext DEF IInv
<1> QED
  BY <1>1, <1>2, LiveIs, RowOfTable

\* What the contract should hold of a token.
Total(pairs, tbl, accts, token, statuses) ==
    Owed(accts, token) + RetainedSum(pairs, tbl, token, statuses)

LEMMA RetainedIns ==
    ASSUME NEW tbl, IsTable(tbl, OrderType), NEW token, NEW statuses
    PROVE  RetainedIn(tbl, token, statuses) = RetainedSum(sympairs, tbl, token, statuses)
BY RetainedIsSum DEF RetainedIn, FundsToken

LEMMA RetainedInsNext ==
    ASSUME IsTable(Live', OrderType), NEW token, NEW statuses
    PROVE  RetainedIn(Live, token, statuses)' = RetainedSum(sympairs', Live', token, statuses)
BY RetainedIsSum DEF RetainedIn, FundsToken

LEMMA UndoRetainedInsNext ==
    ASSUME IsTable(undo.orders', OrderType), NEW token, NEW statuses
    PROVE  RetainedIn(undo.orders, token, statuses)'
               = RetainedSum(sympairs', undo.orders', token, statuses)
BY RetainedIsSum DEF RetainedIn, FundsToken

\* What custody exceeds the books by, now and after a failed transaction.
Surplus(token, statuses) ==
    bank[Self][token] - Total(sympairs, Live, accounts, token, statuses)
UndoSurplus(token, statuses) ==
    bank[Self][token] - Total(sympairs, undo.orders, undo.accounts, token, statuses)

LEMMA TotalType ==
    ASSUME NEW pairs, NEW tbl, IsTable(tbl, OrderType), NEW accts \in BalancesType,
           NEW token \in Tokens, NEW statuses
    PROVE  Total(pairs, tbl, accts, token, statuses) \in Int
BY RetainedSumType, OwedType DEF Total

LEMMA BankType ==
    ASSUME NEW held \in BalancesType, NEW token \in Tokens
    PROVE  held[Self][token] \in Nat
BY ConstantsAssumption DEF BalancesType

LEMMA SurplusForms ==
    ASSUME IInv
    PROVE  /\ \A token \in Tokens : \A statuses : /\ Surplus(token, statuses) \in Int
                                                  /\ UndoSurplus(token, statuses) \in Int
           /\ LedgerExact <=> \A token \in Tokens : Surplus(token, Statuses) = 0
           /\ BooksBalance(undo.orders, undo.accounts)
                  <=> \A token \in Tokens : UndoSurplus(token, Statuses) = 0
           /\ Solvent <=> \A token \in Tokens : Surplus(token, {"matchable"}) >= 0
           /\ CustodyCovers(undo.orders, undo.accounts)
                  <=> \A token \in Tokens : UndoSurplus(token, {"matchable"}) >= 0
<1>1. /\ IsTable(Live, OrderType) /\ accounts \in BalancesType /\ bank \in BalancesType
      /\ IsTable(undo.orders, OrderType) /\ undo.accounts \in BalancesType
  BY LiveTable, TypeParts DEF IInv, TablesOK
<1>2. \A token \in Tokens : \A statuses :
          /\ bank[Self][token] \in Int
          /\ Total(sympairs, Live, accounts, token, statuses) \in Int
          /\ Total(sympairs, undo.orders, undo.accounts, token, statuses) \in Int
          /\ Total(sympairs, Live, accounts, token, statuses)
                 = Owed(accounts, token) + RetainedIn(Live, token, statuses)
          /\ Total(sympairs, undo.orders, undo.accounts, token, statuses)
                 = Owed(undo.accounts, token) + RetainedIn(undo.orders, token, statuses)
  BY <1>1, TotalType, BankType, RetainedIns DEF Total
<1>3. \A token \in Tokens : \A statuses : /\ Surplus(token, statuses) \in Int
                                          /\ UndoSurplus(token, statuses) \in Int
  BY <1>2 DEF Surplus, UndoSurplus
<1>4. LedgerExact <=> \A token \in Tokens : Surplus(token, Statuses) = 0
  BY <1>2 DEF Surplus, LedgerExact, BooksBalance
<1>5. BooksBalance(undo.orders, undo.accounts)
          <=> \A token \in Tokens : UndoSurplus(token, Statuses) = 0
  BY <1>2 DEF UndoSurplus, BooksBalance
<1>6. Solvent <=> \A token \in Tokens : Surplus(token, {"matchable"}) >= 0
  BY <1>2 DEF Surplus, Solvent, CustodyCovers
<1>7. CustodyCovers(undo.orders, undo.accounts)
          <=> \A token \in Tokens : UndoSurplus(token, {"matchable"}) >= 0
  BY <1>2 DEF UndoSurplus, CustodyCovers
<1> QED
  BY <1>3, <1>4, <1>5, <1>6, <1>7

LEMMA SurplusFormsNext ==
    ASSUME IInv'
    PROVE  /\ \A token \in Tokens : \A statuses : /\ Surplus(token, statuses)' \in Int
                                                  /\ UndoSurplus(token, statuses)' \in Int
           /\ LedgerExact' <=> \A token \in Tokens : Surplus(token, Statuses)' = 0
           /\ BooksBalance(undo.orders, undo.accounts)'
                  <=> \A token \in Tokens : UndoSurplus(token, Statuses)' = 0
           /\ Solvent' <=> \A token \in Tokens : Surplus(token, {"matchable"})' >= 0
           /\ CustodyCovers(undo.orders, undo.accounts)'
                  <=> \A token \in Tokens : UndoSurplus(token, {"matchable"})' >= 0
<1>1. /\ IsTable(Live', OrderType) /\ accounts' \in BalancesType /\ bank' \in BalancesType
      /\ IsTable(undo.orders', OrderType) /\ undo.accounts' \in BalancesType
  BY LiveTable, TypePartsNext DEF IInv, TablesOK
<1>2. \A token \in Tokens : \A statuses :
          /\ bank'[Self][token] \in Int
          /\ Total(sympairs', Live', accounts', token, statuses) \in Int
          /\ Total(sympairs', undo.orders', undo.accounts', token, statuses) \in Int
          /\ Total(sympairs', Live', accounts', token, statuses)
                 = Owed(accounts', token) + RetainedIn(Live, token, statuses)'
          /\ Total(sympairs', undo.orders', undo.accounts', token, statuses)
                 = Owed(undo.accounts', token) + RetainedIn(undo.orders, token, statuses)'
  BY <1>1, TotalType, BankType, RetainedInsNext, UndoRetainedInsNext DEF Total
<1>3. \A token \in Tokens : \A statuses : /\ Surplus(token, statuses)' \in Int
                                          /\ UndoSurplus(token, statuses)' \in Int
  BY <1>2 DEF Surplus, UndoSurplus
<1>4. LedgerExact' <=> \A token \in Tokens : Surplus(token, Statuses)' = 0
  BY <1>2 DEF Surplus, LedgerExact, BooksBalance
<1>5. BooksBalance(undo.orders, undo.accounts)'
          <=> \A token \in Tokens : UndoSurplus(token, Statuses)' = 0
  BY <1>2 DEF UndoSurplus, BooksBalance
<1>6. Solvent' <=> \A token \in Tokens : Surplus(token, {"matchable"})' >= 0
  BY <1>2 DEF Surplus, Solvent, CustodyCovers
<1>7. CustodyCovers(undo.orders, undo.accounts)'
          <=> \A token \in Tokens : UndoSurplus(token, {"matchable"})' >= 0
  BY <1>2 DEF UndoSurplus, CustodyCovers
<1> QED
  BY <1>3, <1>4, <1>5, <1>6, <1>7

\* When no iterator is being matched, the table has the totals.
LEMMA LiveNextIs ==
    ASSUME IsTable(orders', OrderType), \A b \in Books : ~is_matching(its'[b])
    PROVE  Live' = orders'
<1>1. \A i \in DOMAIN orders' : RowOf(orders', its', now', i) = orders'[i]
  BY NoneAtRow
<1>2. orders' = [i \in DOMAIN orders' |-> orders'[i]]
  BY DEF IsTable
<1> QED
  BY <1>1, <1>2, LiveIs

LEMMA LiveNextIdle ==
    ASSUME IInv', CachesInv', txn'.phase # "matching"
    PROVE  Live' = orders'
<1>1. \A b \in Books : ~is_matching(its'[b])
  BY DEF CachesInv, CachesFresh, is_valid, is_matching
<1> QED
  BY <1>1, LiveNextIs, TypePartsNext DEF IInv

\* Pairs that keep their tokens keep what the orders of a table retain.
TokensKept(pairs, pairs2) ==
    \A p \in DOMAIN pairs : /\ pairs2[p].asset_symbol = pairs[p].asset_symbol
                            /\ pairs2[p].coin_symbol = pairs[p].coin_symbol

LEMMA PairsSame ==
    ASSUME NEW pairs, NEW pairs2, TokensKept(pairs, pairs2),
           NEW tbl, \A i \in DOMAIN tbl : tbl[i].sympair_id \in DOMAIN pairs,
           NEW accts, NEW token, NEW statuses
    PROVE  Total(pairs2, tbl, accts, token, statuses) = Total(pairs, tbl, accts, token, statuses)
<1>1. \A i \in Ids : RetainedAt(pairs2, tbl, token, statuses, i)
                         = RetainedAt(pairs, tbl, token, statuses, i)
  BY DEF RetainedAt, TokensKept, frozen_token
<1> QED
  BY <1>1, RetainedSame DEF Total

LEMMA LiveFunded ==
    ASSUME IInv, CachesInv
    PROVE  \A i \in DOMAIN Live : Live[i].sympair_id \in DOMAIN sympairs
BY LiveIs, LiveRow DEF CachesInv, RowsFunded, SameTerms

(***************************************************************************)
(* A step that moves no funds and no totals leaves the books as they are.  *)
(***************************************************************************)
LEMMA QuietLedger ==
    ASSUME IInv, CachesInv, Live' = Live, accounts' = accounts, bank' = bank,
           TokensKept(sympairs, sympairs')
    PROVE  /\ \A token, statuses : Surplus(token, statuses)' = Surplus(token, statuses)
           /\ undo' = undo /\ txn.phase # "idle" =>
                  \A token, statuses : UndoSurplus(token, statuses)' = UndoSurplus(token, statuses)
<1>1. /\ \A i \in DOMAIN Live : Live[i].sympair_id \in DOMAIN sympairs
      /\ \A i \in DOMAIN undo.orders : undo.orders[i].sympair_id \in DOMAIN sympairs
  BY LiveFunded DEF CachesInv, RowsFunded
<1>2. \A token, statuses : Total(sympairs', Live', accounts', token, statuses)
                               = Total(sympairs, Live, accounts, token, statuses)
  BY <1>1, PairsSame
<1>3. undo' = undo =>
          \A token, statuses : Total(sympairs', undo'.orders, undo'.accounts, token, statuses)
                                   = Total(sympairs, undo.orders, undo.accounts, token, statuses)
  BY <1>1, PairsSame
<1> QED
  BY <1>2, <1>3 DEF Surplus, UndoSurplus

\* The steps that are quiet.
LEMMA QuietSteps ==
    ASSUME IInv, CachesInv, [Next]_vars,
           \/ Administration \/ Tick \/ StartMatch \/ OpenPair \/ ClosePair \/ Commit
           \/ UNCHANGED vars
    PROVE  /\ Live' = Live /\ accounts' = accounts /\ bank' = bank
           /\ TokensKept(sympairs, sympairs')
           /\ \/ undo' = undo /\ (txn'.phase # "idle" => txn.phase # "idle")
              \/ txn'.phase = "idle"
              \/ undo' = Tables /\ txn.phase = "idle"
<1>1. IInv' /\ CachesInv' /\ CachesFresh
  BY InductiveStep, CachesStep DEF CachesInv
<1>2. CASE Administration \/ Tick
  <2>1. /\ txn.phase = "idle" /\ UNCHANGED <<orders, accounts, bank, txn, its, undo>>
    BY <1>2 DEF Administration, SetConfig, CreateSympair, ModifySympair, OnOffSympair, Tick,
                tables, matching
  <2>2. Live = orders /\ Live' = orders'
    BY <1>1, <2>1, LiveIdle, LiveNextIdle
  <2>3. TokensKept(sympairs, sympairs')
    <3>1. IsTable(sympairs, SympairType) /\ \A p \in DOMAIN sympairs : sympairs[p] \in SympairType
      BY TypeParts, RowType DEF IInv
    <3>2. CASE sympairs' = sympairs
      BY <3>2 DEF TokensKept
    <3>3. ASSUME NEW asset, NEW coin, NEW coin_fee, NEW enabled,
                 CreateSympair(asset, coin, coin_fee, enabled)
          PROVE  TokensKept(sympairs, sympairs')
      BY <3>3 DEF CreateSympair, Put, TokensKept
    <3>4. ASSUME NEW i \in DOMAIN sympairs, NEW coin_fee, NEW enabled,
                 ModifySympair(i, coin_fee, enabled)
          PROVE  TokensKept(sympairs, sympairs')
      BY <3>1, <3>4 DEF ModifySympair, TokensKept, IsTable, SympairType
    <3>5. ASSUME NEW i \in DOMAIN sympairs, NEW on_off, OnOffSympair(i, on_off)
          PROVE  TokensKept(sympairs, sympairs')
      BY <3>1, <3>5 DEF OnOffSympair, TokensKept, IsTable, SympairType
    <3>6. \A conf : SetConfig(conf) => sympairs' = sympairs
      BY DEF SetConfig, tables
    <3>7. Tick => sympairs' = sympairs
      BY DEF Tick, tables
    <3> QED
      BY <1>2, <3>2, <3>3, <3>4, <3>5, <3>6, <3>7 DEF Administration
  <2> QED
    BY <2>1, <2>2, <2>3
<1>3. CASE StartMatch
  <2>1. /\ UNCHANGED <<orders, sympairs, accounts, bank>> /\ undo' = Tables
        /\ txn.phase = "idle" /\ txn'.phase = "select"
    BY <1>3 DEF StartMatch, Match, StartMatching, tables
  <2>2. Live = orders /\ Live' = orders'
    BY <1>1, <2>1, LiveIdle, LiveNextIdle
  <2> QED
    BY <2>1, <2>2 DEF TokensKept
<1>4. CASE OpenPair
  <2>1. UNCHANGED <<orders, sympairs, accounts, bank, undo>> /\ txn.phase = "select"
    BY <1>4 DEF OpenPair, tables
  <2>2. Live = orders
    BY <1>1, <2>1, LiveIdle
  <2>3. \A b \in Books : ~is_matching(its'[b])
    <3>1. CASE its' = its
      BY <1>1, <2>1, <3>1 DEF CachesFresh, is_valid, is_matching
    <3>2. ASSUME NEW id, its' = [b \in Books |-> open_it(orders, id, b)]
          PROVE  \A b \in Books : ~is_matching(its'[b])
      <4>1. \A b \in Books : Book(orders, id, b) \subseteq DOMAIN orders
        BY DEF Book
      <4>2. IsTable(orders, OrderType)
        BY TypeParts DEF IInv
      <4> QED
        BY <3>2, <4>1, <4>2, ItAtFirst DEF open_it
    <3> QED
      BY <1>4, <3>1, <3>2 DEF OpenPair
  <2>4. Live' = orders'
    BY <1>1, <2>3, LiveNextIs, TypePartsNext DEF IInv
  <2> QED
    BY <2>1, <2>2, <2>4 DEF TokensKept
<1>5. CASE ClosePair
  <2>1. /\ orders' = Live /\ UNCHANGED <<accounts, bank, undo>>
        /\ txn.phase = "matching" /\ txn'.phase = "select"
    <3>1. txn \in TxnType
      BY TypeParts DEF IInv
    <3> QED
      BY <1>5, <3>1 DEF ClosePair, Live, TxnType
  <2>2. Live' = orders'
    BY <1>1, <2>1, LiveNextIdle
  <2> QED
    BY <1>5, <2>1, <2>2, ClosePairPairs DEF TokensKept
<1>6. CASE Commit
  <2>1. /\ UNCHANGED <<orders, sympairs, accounts, bank>>
        /\ txn.phase = "select" /\ txn'.phase = "idle"
    BY <1>6 DEF Commit, EndTransaction, Idle, tables
  <2>2. Live = orders /\ Live' = orders'
    BY <1>1, <2>1, LiveIdle, LiveNextIdle
  <2> QED
    BY <2>1, <2>2 DEF TokensKept
<1>7. CASE UNCHANGED vars
  <2>1. UNCHANGED <<orders, sympairs, accounts, bank, now, its, undo, txn>>
    BY <1>7 DEF vars, tables, matching
  <2> QED
    BY <2>1 DEF TokensKept, Live, SavedOrders, MatchingAt
<1> QED
  BY <1>2, <1>3, <1>4, <1>5, <1>6, <1>7

\* Of the quiet steps, the one that begins a transaction leaves pairs and bank alone.
LEMMA StartsMatching ==
    ASSUME IInv, txn.phase = "idle", txn'.phase # "idle",
           \/ Administration \/ Tick \/ StartMatch \/ OpenPair \/ ClosePair \/ Commit
           \/ UNCHANGED vars
    PROVE  UNCHANGED <<sympairs, bank>>
BY DEF Administration, SetConfig, CreateSympair, ModifySympair, OnOffSympair, Tick, StartMatch,
       Match, OpenPair, ClosePair, Commit, vars, tables, matching

\* The copy that a transaction keeps when it begins balances as the tables do.
LEMMA UndoBegins ==
    ASSUME IInv, CachesInv, txn.phase = "idle", undo' = Tables, sympairs' = sympairs, bank' = bank,
           NEW token, NEW statuses
    PROVE  UndoSurplus(token, statuses)' = Surplus(token, statuses)
<1>1. Live = orders
  BY LiveIdle DEF CachesInv
<1>2. undo'.orders = orders /\ undo'.accounts = accounts
  BY DEF Tables
<1> QED
  BY <1>1, <1>2 DEF Surplus, UndoSurplus

LEMMA FundsLedger ==
    ASSUME IInv, CachesInv, Funds, NEW token \in Tokens, NEW statuses
    PROVE  Surplus(token, statuses)' = Surplus(token, statuses) /\ txn'.phase = "idle"
<1>1. PICK user \in Traders, t \in Tokens, quant \in TransferQuants :
          OnTransfer(user, t, quant) \/ Withdraw(user, t, quant)
  BY DEF Funds
<1>2. /\ user \in Accounts /\ Self \in Accounts /\ quant \in Nat
      /\ accounts \in BalancesType /\ bank \in BalancesType /\ IsTable(Live, OrderType)
  BY ConstantsAssumption, InputsAssumption, TypeParts, LiveTable DEF IInv
<1>3. UNCHANGED <<sympairs, orders, txn, its>> /\ txn.phase = "idle"
  BY <1>1 DEF OnTransfer, Withdraw, matching
<1>4. Live' = Live
  <2>1. CachesInv' /\ IInv'
    BY InductiveStep, CachesStep DEF Next
  <2> QED
    BY <1>3, <2>1, LiveIdle, LiveNextIdle DEF CachesInv
<1>5. /\ Owed(accounts, token) \in Int /\ bank[Self][token] \in Int
      /\ RetainedSum(sympairs, Live, token, statuses) \in Int /\ Where(token, t, quant) \in Int
  BY <1>2, OwedType, BankType, RetainedSumType DEF Where
<1>6. CASE OnTransfer(user, t, quant)
  <2>1. accounts' = add_balance(accounts, user, t, quant) /\ bank_transfer(user, Self, t, quant)
    BY <1>6 DEF OnTransfer
  <2>2. Owed(accounts', token) = Owed(accounts, token) + Where(token, t, quant)
    BY <1>2, <2>1, OwedAdd
  <2>3. bank'[Self][token] = bank[Self][token] + Where(token, t, quant)
    BY <1>2, <2>1 DEF bank_transfer, add_balance, sub_balance, BalancesType, Where
  <2> QED
    BY <1>3, <1>4, <1>5, <2>2, <2>3 DEF Surplus, Total
<1>7. CASE Withdraw(user, t, quant)
  <2>1. /\ accounts' = sub_balance(accounts, user, t, quant) /\ accounts[user][t] >= quant
        /\ bank_transfer(Self, user, t, quant)
    BY <1>7 DEF Withdraw, balance_suffices
  <2>2. Owed(accounts', token) = Owed(accounts, token) - Where(token, t, quant)
    BY <1>2, <2>1, OwedSub
  <2>3. bank'[Self][token] = bank[Self][token] - Where(token, t, quant)
    BY <1>2, <2>1 DEF bank_transfer, add_balance, sub_balance, BalancesType, Where
  <2> QED
    BY <1>3, <1>4, <1>5, <2>2, <2>3 DEF Surplus, Total
<1> QED
  BY <1>1, <1>3, <1>6, <1>7

LEMMA LiveNewOrder ==
    ASSUME IInv, CachesInv, NEW user \in Traders, NEW i \in DOMAIN sympairs, NEW kind \in OrderKinds,
           NEW quant \in LimitQuants, NEW price \in Prices, NEW ex \in OrderConfigs,
           NEW signed \in BOOLEAN,
           NewOrder(user, i, kind[1], kind[2], quant, price, ex, signed)
    PROVE  Live = orders /\ Live' = orders'
<1>1. /\ txn.phase = "idle"
      /\ UNCHANGED matching \/ its' = [b \in Books |-> open_it(orders', i, b)]
  BY DEF NewOrder
<1>2. IsTable(orders', OrderType)
  BY NewOrderStep, TypePartsNext DEF IInv
<1>3. Live = orders
  BY <1>1, LiveIdle DEF CachesInv
<1>4. \A b \in Books : ~is_matching(its'[b])
  <2>1. CASE UNCHANGED matching
    BY <1>1, <2>1 DEF matching, CachesInv, CachesFresh, is_valid, is_matching
  <2>2. CASE its' = [b \in Books |-> open_it(orders', i, b)]
    <3>1. \A b \in Books : Book(orders', i, b) \subseteq DOMAIN orders'
      BY DEF Book
    <3> QED
      BY <1>2, <2>2, <3>1, ItAtFirst DEF open_it
  <2> QED
    BY <1>1, <2>1, <2>2
<1> QED
  BY <1>2, <1>3, <1>4, LiveNextIs

LEMMA NewOrderLedger ==
    ASSUME IInv, CachesInv, NEW user \in Traders, NEW i \in DOMAIN sympairs, NEW kind \in OrderKinds,
           NEW quant \in LimitQuants, NEW price \in Prices, NEW ex \in OrderConfigs,
           NEW signed \in BOOLEAN,
           NewOrder(user, i, kind[1], kind[2], quant, price, ex, signed),
           NEW token \in Tokens, NEW statuses, "matchable" \in statuses
    PROVE  /\ Surplus(token, statuses)' = Surplus(token, statuses)
           /\ \/ txn'.phase = "idle"
              \/ UndoSurplus(token, statuses)' = Surplus(token, statuses)
<1> DEFINE id == new_auto_inc_id(global.order_id)
           side == kind[2]
           frozen == orders'[id].frozen_quant
           t == frozen_token(sympairs[i], side)
<1>1. /\ id \notin DOMAIN orders /\ DOMAIN orders' = DOMAIN orders \cup {id}
      /\ \A j \in DOMAIN orders : orders'[j] = orders[j]
      /\ orders'[id].sympair_id = i /\ orders'[id].order_side = kind[2]
      /\ frozen = frozen_quant_of(sympairs[i], kind[1], kind[2], quant, price,
                                  order_ratios(ex).taker)
      /\ orders'[id].status = "matchable"
      /\ orders'[id].matched_assets = 0 /\ orders'[id].matched_coins = 0
      /\ orders'[id].matched_fee = 0
      /\ UNCHANGED <<sympairs, bank>> /\ txn.phase = "idle"
  BY NewOrderRow
<1>2. /\ accounts' = sub_balance(accounts, user, t, frozen) /\ accounts[user][t] >= frozen
      /\ \/ UNCHANGED matching
         \/ its' = [b \in Books |-> open_it(orders', i, b)] /\ undo' = Tables
  BY <1>1 DEF NewOrder, balance_suffices
<1>3. IInv' /\ CachesInv'
  BY NewOrderStep, NewOrderCaches
<1>4. /\ IsTable(orders, OrderType) /\ IsTable(orders', OrderType) /\ id \in Ids
      /\ accounts \in BalancesType /\ user \in Accounts /\ sympairs[i] \in SympairType
  <2>1. id \in DOMAIN orders' /\ IsTable(orders', OrderType)
    BY <1>1, <1>3, TypePartsNext DEF IInv
  <2>2. id \in Ids
    BY <2>1, RowType
  <2> QED
    BY <2>1, <2>2, TypeParts, RowType, ConstantsAssumption DEF IInv
<1>5. frozen \in Nat /\ t \in Tokens
  <2>1. orders'[id] \in OrderType
    BY <1>1, <1>4, RowType
  <2> QED
    BY <1>4, <2>1 DEF OrderType, frozen_token, SympairType
<1> HIDE DEF id, frozen, t
<1>6. Live = orders /\ Live' = orders'
  BY LiveNewOrder
<1>7. RetainedSum(sympairs, orders', token, statuses)
          = RetainedSum(sympairs, orders, token, statuses) + Where(token, t, frozen)
  <2>1. RetainedAt(sympairs, orders, token, statuses, id) = 0
    BY <1>1 DEF RetainedAt
  <2>2. RetainedAt(sympairs, orders', token, statuses, id) = Where(token, t, frozen)
    <3>1. Retained(orders'[id]) = frozen
      <4>1. FeeInCoins(orders'[id]) = 0 /\ Spent(orders'[id]) = 0
        BY <1>1 DEF FeeInCoins, Spent
      <4> QED
        BY <1>1, <1>5, <4>1 DEF Retained, frozen
    <3> QED
      BY <1>1, <3>1 DEF RetainedAt, Where, t
  <2>3. \A j \in Ids \ {id} : RetainedAt(sympairs, orders', token, statuses, j)
                                  = RetainedAt(sympairs, orders, token, statuses, j)
    BY <1>1 DEF RetainedAt
  <2>4. RetainedSum(sympairs, orders', token, statuses)
            = RetainedSum(sympairs, orders, token, statuses)
              + (RetainedAt(sympairs, orders', token, statuses, id)
                 - RetainedAt(sympairs, orders, token, statuses, id))
    BY <1>4, <2>3, RetainedChange
  <2> QED
    BY <1>5, <2>1, <2>2, <2>4 DEF Where
<1>8. Owed(accounts', token) = Owed(accounts, token) - Where(token, t, frozen)
  BY <1>2, <1>4, <1>5, OwedSub
<1>9. /\ Owed(accounts, token) \in Int /\ RetainedSum(sympairs, orders, token, statuses) \in Int
      /\ Where(token, t, frozen) \in Int
  BY <1>4, <1>5, OwedType, RetainedSumType DEF Where
<1>10. Surplus(token, statuses)' = Surplus(token, statuses)
  BY <1>1, <1>6, <1>7, <1>8, <1>9 DEF Surplus, Total
<1>11. txn'.phase = "idle" \/ UndoSurplus(token, statuses)' = Surplus(token, statuses)
  BY <1>1, <1>2, UndoBegins DEF matching
<1> QED
  BY <1>10, <1>11

\* What cancel does to a row.
LEMMA CancelRow ==
    ASSUME IInv, CachesInv, NEW id \in DOMAIN orders, Cancel(id)
    PROVE  /\ Live = orders /\ Live' = orders' /\ DOMAIN orders' = DOMAIN orders
           /\ IsTable(orders, OrderType) /\ IsTable(orders', OrderType)
           /\ \A j \in DOMAIN orders \ {id} : orders'[j] = orders[j]
           /\ SameTerms(orders'[id], orders[id]) /\ SameTotals(orders'[id], orders[id])
           /\ orders[id].status = "matchable" /\ orders'[id].status = "canceled"
           /\ UNCHANGED <<sympairs, bank, undo, txn>> /\ txn.phase = "idle"
<1>1. /\ UNCHANGED <<sympairs, deals, bank, txn, its, undo>> /\ txn.phase = "idle"
      /\ orders' = [orders EXCEPT ![id].status = "canceled", ![id].last_updated_at = now]
      /\ orders[id].status = "matchable"
  BY DEF Cancel, matching
<1>2. IInv' /\ CachesInv' /\ IsTable(orders, OrderType) /\ orders[id] \in OrderType
  BY CancelStep, CancelCaches, TypeParts, RowType DEF IInv
<1>3. IsTable(orders', OrderType)
  BY <1>2, TypePartsNext DEF IInv
<1>4. /\ DOMAIN orders' = DOMAIN orders /\ \A i \in DOMAIN orders \ {id} : orders'[i] = orders[i]
      /\ SameTerms(orders'[id], orders[id]) /\ SameTotals(orders'[id], orders[id])
      /\ orders'[id].status = "canceled"
  BY <1>1, <1>2 DEF IsTable, OrderType, SameTerms, SameTotals
<1>5. Live = orders /\ Live' = orders'
  BY <1>1, <1>2, LiveIdle, LiveNextIdle DEF CachesInv
<1> QED
  BY <1>1, <1>2, <1>3, <1>4, <1>5

(***************************************************************************)
(* cancel keeps the books exact, at the price of a row that retains less   *)
(* than nothing when its deals were paid for in coins.                     *)
(***************************************************************************)
LEMMA CancelLedger ==
    ASSUME IInv, CachesInv, NEW id \in DOMAIN orders, Cancel(id), NEW token \in Tokens
    PROVE  /\ Surplus(token, Statuses)' = Surplus(token, Statuses)
           /\ FeeInCoins(orders[id]) = 0 \/ orders[id].order_side # "buy" =>
                  Surplus(token, {"matchable"})' = Surplus(token, {"matchable"})
           /\ txn'.phase = "idle"
<1> DEFINE o == orders[id]
           t == frozen_token(sympairs[o.sympair_id], o.order_side)
           back == unfrozen_quant(o)
<1>1. /\ Live = orders /\ Live' = orders' /\ DOMAIN orders' = DOMAIN orders
      /\ IsTable(orders, OrderType) /\ IsTable(orders', OrderType)
      /\ \A j \in DOMAIN orders \ {id} : orders'[j] = orders[j]
      /\ SameTerms(orders'[id], o) /\ SameTotals(orders'[id], o)
      /\ o.status = "matchable" /\ orders'[id].status = "canceled"
      /\ UNCHANGED <<sympairs, bank, undo, txn>> /\ txn.phase = "idle"
  BY CancelRow
<1>2. /\ o \in OrderType /\ id \in Ids /\ accounts \in BalancesType
      /\ o.owner \in Accounts
  <2>1. o \in OrderType /\ id \in Ids
    BY <1>1, RowType
  <2>2. o.owner \in Accounts
    BY <2>1 DEF OrderType
  <2>3. accounts \in BalancesType
    BY TypeParts DEF IInv
  <2> QED
    BY <2>1, <2>2, <2>3
<1>3. t \in Tokens
  <2>1. sympairs[o.sympair_id] \in SympairType
    BY TypeParts, RowType DEF Cancel, IInv
  <2> QED
    BY <2>1 DEF frozen_token, SympairType
<1>4. back \in Nat /\ accounts' = add_balance(accounts, o.owner, t, back)
  <2>1. back >= 0 /\ accounts' = add_balance(accounts, o.owner, t, back)
    BY DEF Cancel
  <2>2. back \in Int
    BY <1>2 DEF unfrozen_quant, OrderType
  <2> QED
    BY <2>1, <2>2
<1>5. Owed(accounts', token) = Owed(accounts, token) + Where(token, t, back)
  BY <1>2, <1>3, <1>4, OwedAdd
<1>6. FeeInCoins(orders'[id]) = FeeInCoins(o) /\ FeeInCoins(o) \in Nat
  BY <1>1, <1>2 DEF FeeInCoins, SameTerms, SameTotals, OrderType
<1>7. /\ Retained(orders'[id]) = Retained(o) - back
      /\ FeeInCoins(o) = 0 \/ o.order_side # "buy" => Retained(o) = back
  <2>1. Retained(orders'[id]) = IF o.order_side = "buy" THEN -FeeInCoins(o) ELSE 0
    BY <1>1, <1>6 DEF Retained, SameTerms
  <2>2. Retained(o) = o.frozen_quant - Spent(o)
    BY <1>1 DEF Retained
  <2>3. /\ o.frozen_quant \in Nat /\ o.matched_coins \in Nat /\ o.matched_assets \in Nat
    BY <1>2 DEF OrderType
  <2> QED
    BY <1>6, <2>1, <2>2, <2>3 DEF unfrozen_quant, Spent
<1>8. ASSUME NEW statuses
      PROVE  RetainedSum(sympairs, orders', token, statuses)
                 = RetainedSum(sympairs, orders, token, statuses)
                   + (RetainedAt(sympairs, orders', token, statuses, id)
                      - RetainedAt(sympairs, orders, token, statuses, id))
  <2>1. \A j \in Ids \ {id} : RetainedAt(sympairs, orders', token, statuses, j)
                                  = RetainedAt(sympairs, orders, token, statuses, j)
    BY <1>1 DEF RetainedAt
  <2> QED
    BY <1>1, <1>2, <2>1, RetainedChange
<1>9. /\ RetainedAt(sympairs, orders, token, Statuses, id) = Where(token, t, Retained(o))
      /\ RetainedAt(sympairs, orders, token, {"matchable"}, id) = Where(token, t, Retained(o))
      /\ RetainedAt(sympairs, orders', token, Statuses, id)
             = Where(token, t, Retained(orders'[id]))
      /\ RetainedAt(sympairs, orders', token, {"matchable"}, id) = 0
  BY <1>1 DEF RetainedAt, Where, Statuses, SameTerms
<1>10. /\ Owed(accounts, token) \in Int /\ bank[Self][token] \in Int
       /\ RetainedSum(sympairs, orders, token, Statuses) \in Int
       /\ RetainedSum(sympairs, orders, token, {"matchable"}) \in Int
       /\ Retained(o) \in Int
  BY <1>1, <1>2, OwedType, BankType, RetainedSumType, RetainedType, TypeParts DEF IInv
<1> HIDE DEF o, t, back
<1>11. Surplus(token, Statuses)' = Surplus(token, Statuses)
  BY <1>1, <1>4, <1>5, <1>7, <1>8, <1>9, <1>10 DEF Surplus, Total, Where
<1>12. FeeInCoins(o) = 0 \/ o.order_side # "buy" =>
           Surplus(token, {"matchable"})' = Surplus(token, {"matchable"})
  BY <1>1, <1>4, <1>5, <1>7, <1>8, <1>9, <1>10 DEF Surplus, Total, Where
<1> QED
  BY <1>1, <1>11, <1>12 DEF o

----------------------------------------------------------------------------
(* The ledger across a deal *)

\* The six credits of a deal, by token: the coins the buyer pays, its fee in
\* coins and its refund, and the assets the seller delivers.
LEMMA SettledOwed ==
    ASSUME IInv, LoopCondition, CheckFree, NEW token \in Tokens
    PROVE  LET d == NextDeal
               coin_fee == OrderAt(d.buy).fee_symbol = "coin"
           IN  /\ refund_coins_of(BuyIt(d)) \in Nat
               /\ Owed(Settled(d), token)
                      = Owed(accounts, token)
                        + Where(token, Pair.coin_symbol,
                                d.coins + (IF coin_fee THEN d.buy_fee ELSE 0)
                                + refund_coins_of(BuyIt(d)))
                        + Where(token, Pair.asset_symbol, d.assets)
<1> DEFINE d == NextDeal
           buyer == OrderAt(d.buy).owner
           seller == OrderAt(d.sell).owner
           coin == Pair.coin_symbol
           asset == Pair.asset_symbol
           coin_fee == OrderAt(d.buy).fee_symbol = "coin"
           fee_token == IF coin_fee THEN coin ELSE asset
           to_buyer == IF coin_fee THEN d.assets ELSE d.assets - d.buy_fee
           to_seller == d.coins - d.sell_fee
           refund == refund_coins_of(BuyIt(d))
           a1 == add_balance(accounts, config.dex_fee_collector, fee_token, d.buy_fee)
           a2 == add_balance(a1, config.dex_fee_collector, coin, d.sell_fee)
           a3 == add_balance(a2, seller, coin, to_seller)
           a4 == add_balance(a3, buyer, asset, to_buyer)
           a5 == add_balance(a4, buyer, coin, refund)
<1>1. Settled(NextDeal) = a5
  BY DEF Settled
<1>2. /\ d.assets \in Nat /\ d.coins \in Nat /\ d.buy_fee \in Nat /\ d.sell_fee \in Nat
      /\ ~coin_fee => d.buy_fee <= d.assets
      /\ d.sell_fee <= d.coins
  BY NextDealAmounts
<1>3. to_buyer \in Nat /\ to_seller \in Nat
  BY <1>2
<1>4. refund \in Nat
  <2>1. BuyIt(d) \in ItType
    BY NextDealIts
  <2> QED
    BY <2>1 DEF refund_coins_of, ItType
<1>5. buyer \in Accounts /\ seller \in Accounts
  BY NextDealBooks, RowAt DEF LoopCondition, OrderType
<1>6. coin \in Tokens /\ asset \in Tokens /\ fee_token \in Tokens
  BY PairType DEF LoopCondition
<1>7. config.dex_fee_collector \in Accounts /\ accounts \in BalancesType
  BY DEF IInv, TypeOK, TablesOK, Tables, ValidConfigType, ConfigType
<1> DEFINE collector == config.dex_fee_collector
<1>8. collector \in Accounts /\ a1 = add_balance(accounts, collector, fee_token, d.buy_fee)
  BY <1>7
<1> HIDE DEF buyer, seller, refund, collector
<1>9. /\ a1 \in BalancesType
      /\ Owed(a1, token) = Owed(accounts, token) + Where(token, fee_token, d.buy_fee)
  <2> HIDE DEF a1, d, coin, asset, coin_fee, fee_token
  <2> QED
    BY <1>2, <1>6, <1>7, <1>8, AddBalance, OwedAdd
<1>10. /\ a2 \in BalancesType
       /\ Owed(a2, token) = Owed(a1, token) + Where(token, coin, d.sell_fee)
  <2>1. a2 = add_balance(a1, collector, coin, d.sell_fee)
    BY DEF collector
  <2> HIDE DEF a1, a2, d, coin
  <2> QED
    BY <1>2, <1>6, <1>8, <1>9, <2>1, AddBalance, OwedAdd
<1>11. /\ a3 \in BalancesType
       /\ Owed(a3, token) = Owed(a2, token) + Where(token, coin, to_seller)
  <2>1. a3 = add_balance(a2, seller, coin, to_seller)
    OBVIOUS
  <2> HIDE DEF a2, a3, d, coin, to_seller
  <2> QED
    BY <1>3, <1>5, <1>6, <1>10, <2>1, AddBalance, OwedAdd
<1>12. /\ a4 \in BalancesType
       /\ Owed(a4, token) = Owed(a3, token) + Where(token, asset, to_buyer)
  <2>1. a4 = add_balance(a3, buyer, asset, to_buyer)
    OBVIOUS
  <2> HIDE DEF a3, a4, d, asset, to_buyer
  <2> QED
    BY <1>3, <1>5, <1>6, <1>11, <2>1, AddBalance, OwedAdd
<1>13. Owed(a5, token) = Owed(a4, token) + Where(token, coin, refund)
  <2>1. a5 = add_balance(a4, buyer, coin, refund)
    OBVIOUS
  <2> HIDE DEF a4, a5, d, coin
  <2> QED
    BY <1>4, <1>5, <1>6, <1>12, <2>1, AddBalance, OwedAdd
<1>14. Owed(accounts, token) \in Int
  BY <1>7, OwedType
<1>15. Owed(a5, token)
           = Owed(accounts, token)
             + Where(token, coin, d.coins + (IF coin_fee THEN d.buy_fee ELSE 0) + refund)
             + Where(token, asset, d.assets)
  <2> DEFINE o0 == Owed(accounts, token)
             o1 == Owed(a1, token)
             o2 == Owed(a2, token)
             o3 == Owed(a3, token)
             o4 == Owed(a4, token)
             o5 == Owed(a5, token)
  <2>1. /\ o0 \in Int
        /\ o1 = o0 + Where(token, fee_token, d.buy_fee)
        /\ o2 = o1 + Where(token, coin, d.sell_fee)
        /\ o3 = o2 + Where(token, coin, to_seller)
        /\ o4 = o3 + Where(token, asset, to_buyer)
        /\ o5 = o4 + Where(token, coin, refund)
    BY <1>9, <1>10, <1>11, <1>12, <1>13, <1>14
  <2> HIDE DEF o0, o1, o2, o3, o4, o5, a1, a2, a3, a4, a5, d, coin, asset
  <2>2. o5 = o0 + Where(token, coin, d.coins + (IF coin_fee THEN d.buy_fee ELSE 0) + refund)
             + Where(token, asset, d.assets)
    <3>1. CASE coin_fee
      BY <1>2, <1>4, <2>1, <3>1 DEF Where
    <3>2. CASE ~coin_fee
      BY <1>2, <1>4, <2>1, <3>2 DEF Where
    <3> QED
      BY <3>1, <3>2
  <2> QED
    BY <2>2 DEF o0, o5
<1> QED
  BY <1>1, <1>4, <1>15 DEF refund

(***************************************************************************)
(* What the two orders of a deal retain less of: the buyer's coins with    *)
(* its fee in coins and the refund, the seller's assets.  An order that    *)
(* the deal completes retains nothing negative.                            *)
(***************************************************************************)
LEMMA DealRetains ==
    ASSUME IInv, CachesInv, Deal
    PROVE  LET d == NextDeal
               fee == IF OrderAt(d.buy).fee_symbol = "coin" THEN d.buy_fee ELSE 0
           IN
           /\ Live[BuyId].status = "matchable" /\ Live[SellId].status = "matchable"
           /\ Live[BuyId].sympair_id = txn.sympair_id /\ Live[SellId].sympair_id = txn.sympair_id
           /\ Live[BuyId].order_side = "buy" /\ Live[SellId].order_side = "sell"
           /\ Retained(Live'[BuyId])
                  = Retained(Live[BuyId]) - (d.coins + fee + refund_coins_of(BuyIt(d)))
           /\ Retained(Live'[SellId]) = Retained(Live[SellId]) - d.assets
           /\ Live'[BuyId].status = "completed" => Retained(Live'[BuyId]) >= 0
           /\ Live'[SellId].status = "completed" => Retained(Live'[SellId]) >= 0
<1> DEFINE d == NextDeal
           fee == IF OrderAt(d.buy).fee_symbol = "coin" THEN d.buy_fee ELSE 0
           buy == orders[BuyId]
           sell == orders[SellId]
           buy_it == BuyIt(d)
           sell_it == SellIt(d)
           b == Live[BuyId]
           s == Live[SellId]
           b2 == Live'[BuyId]
           s2 == Live'[SellId]
<1>1. /\ CachesFresh /\ LoopCondition /\ CheckFrozen(d) /\ txn.phase = "matching"
  BY DEF CachesInv, Deal, ChecksPass, LoopCondition
<1>2. /\ d.buy \in Books /\ d.sell \in Books /\ is_valid(its[d.buy]) /\ is_valid(its[d.sell])
      /\ side_of(d.buy) = "buy" /\ side_of(d.sell) = "sell"
  BY <1>1, NextDealBooks
<1>3. InBook(buy, txn.sympair_id, d.buy) /\ InBook(sell, txn.sympair_id, d.sell)
  BY <1>1, <1>2, RowAt DEF BuyId, SellId, OrderAt
<1>4. /\ OrderAt(d.buy) = buy /\ OrderAt(d.sell) = sell
      /\ d.assets \in Nat /\ d.coins \in Nat /\ d.buy_fee \in Nat
      /\ buy \in OrderType /\ sell \in OrderType
      /\ its[d.buy] \in ItType /\ its[d.sell] \in ItType
      /\ MatchedFrom(buy, its[d.buy], buy_it, NextDealId, d.assets, d.coins, d.buy_fee)
      /\ MatchedFrom(sell, its[d.sell], sell_it, NextDealId, d.assets, d.coins, d.sell_fee)
  BY <1>1, <1>2, DealSides, RowAt
<1>5. /\ BuyId \in DOMAIN orders /\ SellId \in DOMAIN orders
      /\ Added(b, b2, d.assets, d.coins, d.buy_fee, NextDealId,
               IF is_completed(buy_it) THEN "completed" ELSE "matchable")
      /\ Added(s, s2, d.assets, d.coins, d.sell_fee, NextDealId,
               IF is_completed(sell_it) THEN "completed" ELSE "matchable")
  BY <1>1, LiveAfterDeal
<1>6. /\ SameTerms(b, buy) /\ SameTerms(s, sell)
      /\ b.status = buy.status /\ s.status = sell.status
      /\ b \in OrderType /\ s \in OrderType
      /\ SameTotals(b, its[d.buy]) /\ SameTotals(s, its[d.sell])
  BY <1>1, <1>2, <1>5, LiveRow, LiveAt DEF BuyId, SellId
<1>7. sell.frozen_quant = sell.limit_quant
  BY <1>2, <1>3, <1>5 DEF CachesInv, RowsFunded, InBook
<1>8. total_matched_coins(buy, buy_it) <= buy.frozen_quant
  BY <1>1, <1>2, <1>3, <1>4 DEF CheckFrozen, frozen_quant_ok, InBook
<1> HIDE DEF d, buy, sell, buy_it, sell_it, b, s, b2, s2
<1>9. /\ b.status = "matchable" /\ s.status = "matchable"
      /\ b.sympair_id = txn.sympair_id /\ s.sympair_id = txn.sympair_id
      /\ b.order_side = "buy" /\ s.order_side = "sell"
  BY <1>2, <1>3, <1>6 DEF InBook, SameTerms
<1>10. /\ b.frozen_quant \in Nat /\ b.matched_coins \in Nat /\ b.matched_fee \in Nat
       /\ s.frozen_quant \in Nat /\ s.matched_assets \in Nat
  BY <1>6 DEF OrderType
<1>11. /\ Retained(b) = Left(b) /\ Retained(s) = Left(s)
       /\ Left(b) \in Int /\ Left(s) \in Int
       /\ Left(b2) = Left(b) - (d.coins + fee) /\ Left(s2) = Left(s) - d.assets
  BY <1>4, <1>5, <1>6, <1>9, <1>10
     DEF Retained, Left, Spent, FeeInCoins, Added, SameTerms
<1>12. Left(b2) = buy.frozen_quant - total_matched_coins(buy, buy_it)
  BY <1>4, <1>5, <1>6, <1>9 DEF Left, Spent, FeeInCoins, Added, SameTerms, SameTotals,
                                MatchedFrom, total_matched_coins
<1>13. total_matched_coins(buy, buy_it) \in Nat /\ buy.frozen_quant \in Nat
  BY <1>4, <1>6, <1>10 DEF total_matched_coins, MatchedFrom, SameTotals, OrderType
<1>14. /\ Retained(b2) = Left(b2) - refund_coins_of(buy_it)
       /\ b2.status = "completed" => Retained(b2) >= 0
  <2>1. CASE ~is_completed(buy_it)
    <3>1. refund_coins_of(buy_it) = 0 /\ b2.status = "matchable"
      BY <1>5, <2>1 DEF refund_coins_of, Added
    <3> QED
      BY <1>12, <1>13, <3>1 DEF Retained, Left
  <2>2. CASE is_completed(buy_it)
    <3>1. b2.status = "completed" /\ refund_coins_of(buy_it) = buy_it.refund_coins
      BY <1>5, <2>2 DEF refund_coins_of, Added
    <3>2. b2.order_type = buy.order_type /\ buy.order_side = "buy"
      BY <1>5, <1>6, <1>9 DEF Added, SameTerms
    <3>3. CASE buy.order_type = "limit"
      <4>1. refund_coins_of(buy_it) = buy.frozen_quant - total_matched_coins(buy, buy_it)
        BY <1>4, <1>8, <1>13, <2>2, <3>1, <3>2, <3>3 DEF MatchedFrom
      <4>2. Retained(b2) = 0
        BY <3>1, <3>2, <3>3 DEF Retained
      <4> QED
        BY <1>12, <1>13, <4>1, <4>2
    <3>4. CASE buy.order_type # "limit"
      <4>1. refund_coins_of(buy_it) = 0
        BY <1>4, <2>2, <3>1, <3>4 DEF MatchedFrom
      <4>2. Retained(b2) = Left(b2)
        BY <3>1, <3>2, <3>4 DEF Retained, Left
      <4> QED
        BY <1>8, <1>12, <1>13, <4>1, <4>2
    <3> QED
      BY <3>3, <3>4
  <2> QED
    BY <2>1, <2>2
<1>15. /\ Retained(s2) = Left(s2)
       /\ s2.status = "completed" => Retained(s2) >= 0
  <2>1. CASE ~is_completed(sell_it)
    <3>1. s2.status = "matchable"
      BY <1>5, <2>1 DEF Added
    <3> QED
      BY <3>1 DEF Retained, Left
  <2>2. CASE is_completed(sell_it)
    <3>1. s2.status = "completed"
      BY <1>5, <2>2 DEF Added
    <3>2. sell_it.matched_assets = sell.limit_quant
      BY <1>2, <1>3, <1>4, <2>2
         DEF MatchedFrom, match_completes, is_market_buy, is_completed, InBook
    <3>3. Left(s2) = 0
      BY <1>4, <1>5, <1>6, <1>7, <1>9, <1>10, <3>2
         DEF Left, Spent, Added, SameTerms, SameTotals, MatchedFrom
    <3> QED
      BY <3>1, <3>3 DEF Retained, Left
  <2> QED
    BY <2>1, <2>2
<1>16. d.coins \in Nat /\ fee \in Nat /\ refund_coins_of(buy_it) \in Nat
  <2>1. buy_it \in ItType
    BY <1>1, DealSides DEF buy_it, d
  <2> QED
    BY <1>4, <2>1 DEF refund_coins_of, ItType
<1> HIDE DEF fee
<1>17. Retained(b2) = Retained(b) - (d.coins + fee + refund_coins_of(buy_it))
  BY <1>11, <1>14, <1>16
<1> QED
  BY <1>9, <1>11, <1>14, <1>15, <1>17 DEF d, b, s, b2, s2, buy_it, fee

(***************************************************************************)
(* A deal moves what its two orders retained to the balances of the buyer, *)
(* the seller and the fee collector, to the last unit: what custody exceeds*)
(* the books by stays the same, and grows by the rest of the funds of an   *)
(* order that the deal completes when only open orders are counted.        *)
(***************************************************************************)
LEMMA DealLedger ==
    ASSUME IInv, CachesInv, Deal, NEW token \in Tokens
    PROVE  /\ Surplus(token, Statuses)' = Surplus(token, Statuses)
           /\ Surplus(token, {"matchable"})' >= Surplus(token, {"matchable"})
           /\ UNCHANGED <<sympairs, bank, undo>> /\ txn.phase # "idle"
<1> DEFINE d == NextDeal
           fee == IF OrderAt(d.buy).fee_symbol = "coin" THEN d.buy_fee ELSE 0
           refund == refund_coins_of(BuyIt(d))
           cost == d.coins + fee + refund
           b == Live[BuyId]
           s == Live[SellId]
           b2 == Live'[BuyId]
           s2 == Live'[SellId]
           coin == Pair.coin_symbol
           asset == Pair.asset_symbol
<1>1. /\ CachesFresh /\ LoopCondition /\ CheckFree /\ accounts' = Settled(d)
      /\ UNCHANGED <<sympairs, bank, undo>> /\ txn.phase = "matching"
  BY DEF CachesInv, Deal, ChecksPass, LoopCondition
<1>2. /\ IInv' /\ IsTable(Live, OrderType) /\ IsTable(Live', OrderType)
      /\ accounts \in BalancesType /\ bank \in BalancesType
  <2>1. IInv'
    BY DealStep
  <2> QED
    BY <2>1, LiveTable, TypeParts DEF IInv
<1>3. /\ BuyId \in DOMAIN orders /\ SellId \in DOMAIN orders /\ BuyId # SellId
      /\ DOMAIN Live = DOMAIN orders /\ DOMAIN Live' = DOMAIN orders
      /\ \A i \in DOMAIN orders \ {BuyId, SellId} : Live'[i] = Live[i]
      /\ SameTerms(b2, b) /\ SameTerms(s2, s)
      /\ b2.status \in {"matchable", "completed"} /\ s2.status \in {"matchable", "completed"}
  BY <1>1, LiveAfterDeal, LiveIs DEF Added
<1>4. /\ BuyId \in Ids /\ SellId \in Ids
      /\ b \in OrderType /\ s \in OrderType /\ b2 \in OrderType /\ s2 \in OrderType
  BY <1>2, <1>3, RowType
<1>5. /\ b.status = "matchable" /\ s.status = "matchable"
      /\ b.sympair_id = txn.sympair_id /\ s.sympair_id = txn.sympair_id
      /\ b.order_side = "buy" /\ s.order_side = "sell"
      /\ Retained(b2) = Retained(b) - cost
      /\ Retained(s2) = Retained(s) - d.assets
      /\ b2.status = "completed" => Retained(b2) >= 0
      /\ s2.status = "completed" => Retained(s2) >= 0
  BY DealRetains
<1>6. /\ Owed(accounts', token)
             = Owed(accounts, token) + Where(token, coin, cost) + Where(token, asset, d.assets)
  BY <1>1, SettledOwed
<1>7. cost \in Nat /\ d.assets \in Nat
  <2>1. refund \in Nat /\ d.coins \in Nat /\ d.assets \in Nat /\ d.buy_fee \in Nat
    BY <1>1, SettledOwed, DealSides
  <2> QED
    BY <2>1
<1>8. /\ frozen_token(sympairs[b.sympair_id], b.order_side) = coin
      /\ frozen_token(sympairs[s.sympair_id], s.order_side) = asset
      /\ frozen_token(sympairs[b2.sympair_id], b2.order_side) = coin
      /\ frozen_token(sympairs[s2.sympair_id], s2.order_side) = asset
  BY <1>3, <1>5 DEF frozen_token, Pair, SameTerms
<1>9. /\ Owed(accounts, token) \in Int /\ bank[Self][token] \in Int
      /\ Retained(b) \in Int /\ Retained(s) \in Int
      /\ \A statuses : RetainedSum(sympairs, Live, token, statuses) \in Int
  BY <1>2, <1>4, OwedType, BankType, RetainedSumType, RetainedType
<1> HIDE DEF d, fee, refund, cost, b, s, b2, s2, coin, asset
<1>10. ASSUME NEW statuses
       PROVE  RetainedSum(sympairs, Live', token, statuses)
                  = RetainedSum(sympairs, Live, token, statuses)
                    + (RetainedAt(sympairs, Live', token, statuses, BuyId)
                       - RetainedAt(sympairs, Live, token, statuses, BuyId))
                    + (RetainedAt(sympairs, Live', token, statuses, SellId)
                       - RetainedAt(sympairs, Live, token, statuses, SellId))
  <2>1. \A i \in Ids \ {BuyId, SellId} : RetainedAt(sympairs, Live', token, statuses, i)
                                             = RetainedAt(sympairs, Live, token, statuses, i)
    BY <1>3 DEF RetainedAt
  <2> QED
    BY <1>2, <1>3, <1>4, <2>1, RetainedChangeTwo
<1>11. /\ \A statuses \in {Statuses, {"matchable"}} :
              /\ RetainedAt(sympairs, Live, token, statuses, BuyId)
                     = Where(token, coin, Retained(b))
              /\ RetainedAt(sympairs, Live, token, statuses, SellId)
                     = Where(token, asset, Retained(s))
       /\ RetainedAt(sympairs, Live', token, Statuses, BuyId)
              = Where(token, coin, Retained(b2))
       /\ RetainedAt(sympairs, Live', token, Statuses, SellId)
              = Where(token, asset, Retained(s2))
       /\ RetainedAt(sympairs, Live', token, {"matchable"}, BuyId)
              = IF b2.status = "matchable" THEN Where(token, coin, Retained(b2)) ELSE 0
       /\ RetainedAt(sympairs, Live', token, {"matchable"}, SellId)
              = IF s2.status = "matchable" THEN Where(token, asset, Retained(s2)) ELSE 0
  BY <1>3, <1>5, <1>8 DEF RetainedAt, Where, Statuses, b, s, b2, s2
<1>12. Surplus(token, Statuses)' = Surplus(token, Statuses)
  <2>1. RetainedSum(sympairs, Live', token, Statuses)
            = RetainedSum(sympairs, Live, token, Statuses)
              + (Where(token, coin, Retained(b2)) - Where(token, coin, Retained(b)))
              + (Where(token, asset, Retained(s2)) - Where(token, asset, Retained(s)))
    BY <1>10, <1>11
  <2> QED
    BY <1>1, <1>5, <1>6, <1>7, <1>9, <2>1 DEF Surplus, Total, Where
<1>13. Surplus(token, {"matchable"})' >= Surplus(token, {"matchable"})
  <2> DEFINE left(t, o) == IF o.status = "matchable" THEN Where(token, t, Retained(o)) ELSE 0
  <2>1. RetainedSum(sympairs, Live', token, {"matchable"})
            = RetainedSum(sympairs, Live, token, {"matchable"})
              + (left(coin, b2) - Where(token, coin, Retained(b)))
              + (left(asset, s2) - Where(token, asset, Retained(s)))
    BY <1>10, <1>11
  <2>2. /\ left(coin, b2) \in Int /\ left(coin, b2) <= Where(token, coin, Retained(b2))
        /\ left(asset, s2) \in Int /\ left(asset, s2) <= Where(token, asset, Retained(s2))
    BY <1>3, <1>5, <1>7, <1>9 DEF Where
  <2> HIDE DEF left
  <2> QED
    BY <1>1, <1>5, <1>6, <1>7, <1>9, <2>1, <2>2 DEF Surplus, Total, Where
<1> QED
  BY <1>1, <1>12, <1>13

----------------------------------------------------------------------------
(* The ledger across the other steps *)

LEMMA RollbackLedger ==
    ASSUME IInv, CachesInv, FailedCheck \/ NoneMatched, NEW token \in Tokens, NEW statuses
    PROVE  /\ Surplus(token, statuses)' = UndoSurplus(token, statuses)
           /\ txn.phase # "idle" /\ txn'.phase = "idle"
<1>1. /\ sympairs' = undo.sympairs /\ orders' = undo.orders /\ accounts' = undo.accounts
      /\ bank' = bank /\ txn.phase # "idle" /\ txn'.phase = "idle"
  BY DEF FailedCheck, NoneMatched, LoopCondition, Rollback, EndTransaction, Idle
<1>2. IInv' /\ CachesInv'
  BY EndStep, EndCaches
<1>3. Live' = undo.orders
  BY <1>1, <1>2, LiveNextIdle
<1>4. /\ TokensKept(sympairs, sympairs')
      /\ \A i \in DOMAIN undo.orders : undo.orders[i].sympair_id \in DOMAIN sympairs
  BY <1>1 DEF CachesInv, PairsKept, RowsFunded, TokensKept
<1>5. Total(sympairs', undo.orders, undo.accounts, token, statuses)
          = Total(sympairs, undo.orders, undo.accounts, token, statuses)
  BY <1>4, PairsSame
<1> QED
  BY <1>1, <1>3, <1>5 DEF Surplus, UndoSurplus

\* What cleandata erases can no longer be matched, and should retain nothing.
NothingErased == Cleaning => \A i \in DOMAIN orders \ DOMAIN orders' : Retained(orders[i]) = 0

LEMMA CleaningLedger ==
    ASSUME IInv, CachesInv, Cleaning, NEW token \in Tokens
    PROVE  /\ Surplus(token, {"matchable"})' = Surplus(token, {"matchable"})
           /\ NothingErased => Surplus(token, Statuses)' = Surplus(token, Statuses)
           /\ txn'.phase = "idle"
<1>1. PICK max_count \in CleanCounts, stale \in BOOLEAN : CleanData(max_count, stale)
  BY DEF Cleaning
<1>2. /\ UNCHANGED <<sympairs, accounts, bank, txn>> /\ txn.phase = "idle"
  BY <1>1 DEF CleanData, matching
<1>3. /\ DOMAIN orders' \subseteq DOMAIN orders
      /\ \A i \in DOMAIN orders' : orders'[i] = orders[i]
      /\ \A i \in DOMAIN orders \ DOMAIN orders' : orders[i].status # "matchable"
  BY <1>1 DEF CleanData, Without, SweptOrders, LeastRecent
<1>4. Live = orders /\ Live' = orders'
  <2>1. IInv' /\ CachesInv'
    BY CleaningStep, CleaningCaches
  <2> QED
    BY <1>2, <2>1, LiveIdle, LiveNextIdle DEF CachesInv
<1>5. RetainedSum(sympairs, orders', token, {"matchable"})
          = RetainedSum(sympairs, orders, token, {"matchable"})
  <2>1. \A i \in Ids : RetainedAt(sympairs, orders', token, {"matchable"}, i)
                           = RetainedAt(sympairs, orders, token, {"matchable"}, i)
    BY <1>3 DEF RetainedAt
  <2> QED
    BY <2>1, RetainedSame
<1>6. ASSUME NothingErased
      PROVE  RetainedSum(sympairs, orders', token, Statuses)
                 = RetainedSum(sympairs, orders, token, Statuses)
  <2>1. \A i \in Ids : RetainedAt(sympairs, orders', token, Statuses, i)
                           = RetainedAt(sympairs, orders, token, Statuses, i)
    BY <1>3, <1>6 DEF RetainedAt, NothingErased
  <2> QED
    BY <2>1, RetainedSame
<1> QED
  BY <1>2, <1>4, <1>5, <1>6 DEF Surplus, Total

\* At the start nothing is in the books but the balances.
LEMMA InitSurplus ==
    ASSUME Init, NEW token \in Tokens, NEW statuses
    PROVE  Surplus(token, statuses) = 0 /\ txn.phase = "idle"
<1>1. /\ orders = EmptyTable /\ accounts = InitialAccounts /\ bank = InitialBank
      /\ txn.phase = "idle"
  BY DEF Init, Idle
<1>2. Live = orders
  BY InitIInv, InitCaches, <1>1, LiveIdle DEF CachesInv
<1>3. RetainedSum(sympairs, orders, token, statuses) = 0
  <2> DEFINE f == [i \in Ids |-> RetainedAt(sympairs, orders, token, statuses, i)]
  <2>1. \A i \in Ids : f[i] = 0
    BY <1>1 DEF RetainedAt, EmptyTable
  <2> HIDE DEF f
  <2>2. SumFunctionOnSet(f, Ids) = 0
    BY <2>1, IdsFinite, SumZero
  <2> QED
    BY <2>2 DEF RetainedSum, f
<1>4. bank[Self][token] = Owed(accounts, token)
  BY <1>1, InitialBooks DEF Owed
<1>5. Owed(accounts, token) \in Int
  BY <1>1, OwedType, InitialAssumption
<1> QED
  BY <1>1, <1>2, <1>3, <1>4, <1>5 DEF Surplus, Total

----------------------------------------------------------------------------
(* The books balance *)

LEMMA LedgerStep ==
    IInv /\ CachesInv /\ LedgerInv /\ [Next]_vars /\ [NothingErased]_vars => LedgerInv'
<1> SUFFICES ASSUME IInv, CachesInv, LedgerInv, [Next]_vars, [NothingErased]_vars
             PROVE  LedgerInv'
  OBVIOUS
<1>1. IInv' /\ CachesInv' /\ [Next]_vars
  BY InductiveStep, CachesStep
<1>2. /\ \A token \in Tokens : Surplus(token, Statuses) = 0
      /\ txn.phase # "idle" => \A token \in Tokens : UndoSurplus(token, Statuses) = 0
  BY SurplusForms DEF LedgerInv
<1> SUFFICES ASSUME NEW token \in Tokens
             PROVE  /\ Surplus(token, Statuses)' = 0
                    /\ txn'.phase # "idle" => UndoSurplus(token, Statuses)' = 0
  BY <1>1, SurplusFormsNext DEF LedgerInv
<1>3. CASE \/ Administration \/ Tick \/ StartMatch \/ OpenPair \/ ClosePair \/ Commit
           \/ UNCHANGED vars
  <2>1. /\ Live' = Live /\ accounts' = accounts /\ bank' = bank
        /\ TokensKept(sympairs, sympairs')
        /\ \/ undo' = undo /\ (txn'.phase # "idle" => txn.phase # "idle")
           \/ txn'.phase = "idle"
           \/ undo' = Tables /\ txn.phase = "idle"
    BY <1>1, <1>3, QuietSteps
  <2>2. Surplus(token, Statuses)' = 0
    BY <1>2, <2>1, QuietLedger
  <2>3. CASE undo' = undo /\ (txn'.phase # "idle" => txn.phase # "idle")
    BY <1>2, <2>1, <2>2, <2>3, QuietLedger
  <2>4. CASE undo' = Tables /\ txn.phase = "idle" /\ txn'.phase # "idle"
    <3>1. UNCHANGED <<sympairs, bank>>
      BY <1>3, <2>4, StartsMatching
    <3> QED
      BY <1>2, <2>2, <2>4, <3>1, UndoBegins
  <2> QED
    BY <2>1, <2>2, <2>3, <2>4
<1>4. CASE Funds
  BY <1>2, <1>4, FundsLedger
<1>5. CASE Ordering
  <2>1. CASE \E id \in DOMAIN orders : Cancel(id)
    BY <1>2, <2>1, CancelLedger
  <2>2. CASE \E user \in Traders, i \in DOMAIN sympairs, kind \in OrderKinds,
               quant \in LimitQuants, price \in Prices, ex \in OrderConfigs, signed \in BOOLEAN :
                   NewOrder(user, i, kind[1], kind[2], quant, price, ex, signed)
    <3>1. "matchable" \in Statuses
      BY DEF Statuses
    <3> QED
      BY <1>2, <2>2, <3>1, NewOrderLedger
  <2> QED
    BY <1>5, <2>1, <2>2 DEF Ordering
<1>6. CASE Deal
  <2>1. /\ Surplus(token, Statuses)' = 0
        /\ UNCHANGED <<sympairs, bank, undo>> /\ txn.phase # "idle"
    BY <1>2, <1>6, DealLedger
  <2> QED
    BY <1>2, <2>1 DEF UndoSurplus
<1>7. CASE FailedCheck \/ NoneMatched
  BY <1>2, <1>7, RollbackLedger
<1>8. CASE Cleaning /\ ~UNCHANGED vars
  BY <1>2, <1>8, CleaningLedger
<1> QED
  BY <1>3, <1>4, <1>5, <1>6, <1>7, <1>8 DEF Next, TransactionStep

LEMMA InitLedger == Init => LedgerInv
BY InitIInv, InitSurplus, SurplusForms DEF LedgerInv

(***************************************************************************)
(* Exact accounting: at every step of every transaction, custody is what   *)
(* is owed to the users plus what the orders retain, as long as cleandata  *)
(* erases no row that retains something: where fees are taken in coins, a  *)
(* completed market order may not have spent all it froze, and a canceled  *)
(* one was given back its fees, which no row accounts for once it is gone. *)
(***************************************************************************)
THEOREM LedgerStaysExact == Spec /\ [][NothingErased]_vars => []LedgerExact
<1>1. LedgerInv => LedgerExact
  BY DEF LedgerInv
<1>2. IInv /\ CachesInv /\ LedgerInv /\ [Next]_vars /\ [NothingErased]_vars => LedgerInv'
  BY LedgerStep
<1> QED
  BY <1>1, <1>2, CachesKept, InitLedger, PTL DEF Spec

----------------------------------------------------------------------------
(* Solvency, where buyers pay their fees in assets *)

LEMMA FeesStep ==
    ASSUME IInv, CachesInv, NoCoinFee, FeesInAssets(orders), FeesInAssets(undo.orders),
           [Next]_vars
    PROVE  FeesInAssets(orders)' /\ FeesInAssets(undo.orders)'
<1>1. CASE \/ Administration \/ Funds \/ Tick \/ OpenPair \/ UNCHANGED vars
  <2>1. UNCHANGED <<orders, undo>>
    BY <1>1 DEF Administration, SetConfig, CreateSympair, ModifySympair, OnOffSympair, Tick,
                Funds, OnTransfer, Withdraw, OpenPair, vars, tables, matching
  <2> QED
    BY <2>1
<1>2. CASE StartMatch
  <2>1. orders' = orders /\ undo'.orders = orders
    BY <1>2 DEF StartMatch, Match, tables, Tables
  <2> QED
    BY <2>1
<1>3. CASE Commit \/ FailedCheck \/ NoneMatched
  <2>1. /\ undo'.orders = EmptyTable /\ orders' \in {orders, undo.orders}
    BY <1>3 DEF Commit, FailedCheck, NoneMatched, Rollback, EndTransaction, NoUndo, tables
  <2>2. FeesInAssets(undo'.orders)
    BY <2>1 DEF FeesInAssets, EmptyTable
  <2> QED
    BY <2>1, <2>2
<1>4. ASSUME NEW id \in DOMAIN orders, Cancel(id)
      PROVE  FeesInAssets(orders)' /\ FeesInAssets(undo.orders)'
  BY <1>4, CancelRow DEF FeesInAssets, SameTerms
<1>5. ASSUME NEW user \in Traders, NEW i \in DOMAIN sympairs, NEW kind \in OrderKinds,
             NEW quant \in LimitQuants, NEW price \in Prices, NEW ex \in OrderConfigs,
             NEW signed \in BOOLEAN,
             NewOrder(user, i, kind[1], kind[2], quant, price, ex, signed)
      PROVE  FeesInAssets(orders)' /\ FeesInAssets(undo.orders)'
  <2> DEFINE id == new_auto_inc_id(global.order_id)
  <2>1. /\ DOMAIN orders' = DOMAIN orders \cup {id}
        /\ \A j \in DOMAIN orders : orders'[j] = orders[j]
        /\ orders'[id].order_side = kind[2] /\ id \notin DOMAIN orders
    BY <1>5, NewOrderRow
  <2>2. orders'[id].fee_symbol
            = IF kind[2] = "buy" /\ ~sympairs[i].only_accept_coin_fee THEN "asset" ELSE "coin"
    BY <1>5 DEF NewOrder, Put
  <2>3. undo'.orders \in {undo.orders, orders}
    BY <1>5 DEF NewOrder, Tables, matching
  <2> HIDE DEF id
  <2> QED
    BY <2>1, <2>2, <2>3 DEF FeesInAssets, NoCoinFee
<1>6. CASE Deal
  <2>1. \A i \in DOMAIN orders : SameTerms(orders'[i], orders[i])
    BY <1>6, DealRowTerms DEF CachesInv
  <2>2. DOMAIN orders' = DOMAIN orders /\ undo' = undo
    BY <1>6, DealRows DEF Deal
  <2> QED
    BY <2>1, <2>2 DEF FeesInAssets, SameTerms
<1>7. CASE ClosePair
  <2>1. orders' = Live /\ undo' = undo
    BY <1>7 DEF ClosePair, Live
  <2> QED
    BY <2>1, LiveRow, LiveIs DEF CachesInv, FeesInAssets, SameTerms
<1>8. CASE Cleaning
  <2>1. /\ DOMAIN orders' \subseteq DOMAIN orders /\ undo' = undo
        /\ \A i \in DOMAIN orders' : orders'[i] = orders[i]
    BY <1>8 DEF Cleaning, CleanData, Without, matching
  <2> QED
    BY <2>1 DEF FeesInAssets
<1> QED
  BY <1>1, <1>2, <1>3, <1>4, <1>5, <1>6, <1>7, <1>8 DEF Next, Ordering, TransactionStep

LEMMA SolventStep == IInv /\ CachesInv /\ SolventInv /\ NoCoinFee /\ [Next]_vars => SolventInv'
<1> SUFFICES ASSUME IInv, CachesInv, SolventInv, NoCoinFee, [Next]_vars PROVE SolventInv'
  OBVIOUS
<1>1. IInv' /\ CachesInv'
  BY InductiveStep, CachesStep
<1>2. FeesInAssets(orders)' /\ FeesInAssets(undo.orders)'
  BY FeesStep DEF SolventInv
<1>3. /\ \A token \in Tokens : Surplus(token, {"matchable"}) >= 0
      /\ txn.phase # "idle" => \A token \in Tokens : UndoSurplus(token, {"matchable"}) >= 0
      /\ \A token \in Tokens : /\ Surplus(token, {"matchable"}) \in Int
                               /\ UndoSurplus(token, {"matchable"}) \in Int
                               /\ Surplus(token, {"matchable"})' \in Int
                               /\ UndoSurplus(token, {"matchable"})' \in Int
  BY <1>1, SurplusForms, SurplusFormsNext DEF SolventInv
<1> SUFFICES ASSUME NEW token \in Tokens
             PROVE  /\ Surplus(token, {"matchable"})' >= 0
                    /\ txn'.phase # "idle" => UndoSurplus(token, {"matchable"})' >= 0
  BY <1>1, <1>2, SurplusFormsNext DEF SolventInv
<1>4. CASE \/ Administration \/ Tick \/ StartMatch \/ OpenPair \/ ClosePair \/ Commit
           \/ UNCHANGED vars
  <2>1. /\ Live' = Live /\ accounts' = accounts /\ bank' = bank
        /\ TokensKept(sympairs, sympairs')
        /\ \/ undo' = undo /\ (txn'.phase # "idle" => txn.phase # "idle")
           \/ txn'.phase = "idle"
           \/ undo' = Tables /\ txn.phase = "idle"
    BY <1>1, <1>4, QuietSteps
  <2>2. Surplus(token, {"matchable"})' >= 0
    BY <1>3, <2>1, QuietLedger
  <2>3. CASE undo' = undo /\ (txn'.phase # "idle" => txn.phase # "idle")
    BY <1>3, <2>1, <2>2, <2>3, QuietLedger
  <2>4. CASE undo' = Tables /\ txn.phase = "idle" /\ txn'.phase # "idle"
    <3>1. UNCHANGED <<sympairs, bank>>
      BY <1>4, <2>4, StartsMatching
    <3> QED
      BY <1>3, <2>2, <2>4, <3>1, UndoBegins
  <2> QED
    BY <2>1, <2>2, <2>3, <2>4
<1>5. CASE Funds
  BY <1>3, <1>5, FundsLedger
<1>6. CASE Ordering
  <2>1. ASSUME NEW id \in DOMAIN orders, Cancel(id)
        PROVE  Surplus(token, {"matchable"})' >= 0 /\ txn'.phase = "idle"
    <3>1. FeeInCoins(orders[id]) = 0 \/ orders[id].order_side # "buy"
      BY DEF FeeInCoins, SolventInv, FeesInAssets
    <3> QED
      BY <1>3, <2>1, <3>1, CancelLedger
  <2>2. CASE \E user \in Traders, i \in DOMAIN sympairs, kind \in OrderKinds,
               quant \in LimitQuants, price \in Prices, ex \in OrderConfigs, signed \in BOOLEAN :
                   NewOrder(user, i, kind[1], kind[2], quant, price, ex, signed)
    BY <1>3, <2>2, NewOrderLedger
  <2> QED
    BY <1>6, <2>1, <2>2 DEF Ordering
<1>7. CASE Deal
  <2>1. /\ Surplus(token, {"matchable"})' >= Surplus(token, {"matchable"})
        /\ UNCHANGED <<sympairs, bank, undo>> /\ txn.phase # "idle"
    BY <1>7, DealLedger
  <2>2. UndoSurplus(token, {"matchable"})' = UndoSurplus(token, {"matchable"})
    BY <2>1 DEF UndoSurplus
  <2> QED
    BY <1>3, <2>1, <2>2
<1>8. CASE FailedCheck \/ NoneMatched
  BY <1>3, <1>8, RollbackLedger
<1>9. CASE Cleaning
  BY <1>3, <1>9, CleaningLedger
<1> QED
  BY <1>4, <1>5, <1>6, <1>7, <1>8, <1>9 DEF Next, TransactionStep

LEMMA InitSolvent == Init => SolventInv
<1> SUFFICES ASSUME Init PROVE SolventInv
  OBVIOUS
<1>1. FeesInAssets(orders) /\ FeesInAssets(undo.orders)
  BY DEF Init, FeesInAssets, NoUndo, EmptyTable
<1> QED
  BY <1>1, InitIInv, InitSurplus, SurplusForms DEF SolventInv

(***************************************************************************)
(* Solvency: as long as no pair takes the fee of its buy orders in coins,  *)
(* custody covers every balance and every open order, whatever is placed,  *)
(* matched, canceled, recycled or undone.  Where a pair does, a buyer who  *)
(* cancels is given back the coins its deals have paid as fees.            *)
(***************************************************************************)
THEOREM AlwaysSolvent == Spec /\ []NoCoinFee => []Solvent
<1>1. SolventInv => Solvent
  BY DEF SolventInv
<1> QED
  BY <1>1, CachesKept, InitSolvent, SolventStep, PTL DEF Spec

----------------------------------------------------------------------------
(* Orders and the sums over their deals *)

Named(id, dls) == {d \in DOMAIN dls : id \in {dls[d].buy_order_id, dls[d].sell_order_id}}

LEMMA TotalsForm ==
    ASSUME NEW o, NEW dls
    PROVE  TotalsOf(o, dls) <=>
               LET D == Named(o.order_id, dls) IN
               /\ o.matched_assets = SumFunction([d \in D |-> dls[d].deal_assets])
               /\ o.matched_coins = SumFunction([d \in D |-> dls[d].deal_coins])
               /\ o.matched_fee = SumFunction([d \in D |-> FeeOf(o.order_id, dls[d])])
BY DEF TotalsOf, Named

\* An order whose deals stay the same keeps its totals.
LEMMA TotalsSame ==
    ASSUME NEW dls, NEW dls2, NEW o, NEW o2, o2.order_id = o.order_id, SameTotals(o2, o),
           Named(o.order_id, dls2) = Named(o.order_id, dls),
           \A d \in Named(o.order_id, dls) : dls2[d] = dls[d],
           TotalsOf(o, dls)
    PROVE  TotalsOf(o2, dls2)
<1> DEFINE D == Named(o.order_id, dls)
<1>1. /\ [d \in D |-> dls2[d].deal_assets] = [d \in D |-> dls[d].deal_assets]
      /\ [d \in D |-> dls2[d].deal_coins] = [d \in D |-> dls[d].deal_coins]
      /\ [d \in D |-> FeeOf(o.order_id, dls2[d])] = [d \in D |-> FeeOf(o.order_id, dls[d])]
  OBVIOUS
<1>2. Named(o2.order_id, dls2) = D
  OBVIOUS
<1> HIDE DEF D
<1>3. /\ o.matched_assets = SumFunction([d \in D |-> dls[d].deal_assets])
      /\ o.matched_coins = SumFunction([d \in D |-> dls[d].deal_coins])
      /\ o.matched_fee = SumFunction([d \in D |-> FeeOf(o.order_id, dls[d])])
  BY TotalsForm DEF D
<1>4. /\ o2.matched_assets = SumFunction([d \in D |-> dls2[d].deal_assets])
      /\ o2.matched_coins = SumFunction([d \in D |-> dls2[d].deal_coins])
      /\ o2.matched_fee = SumFunction([d \in D |-> FeeOf(o2.order_id, dls2[d])])
  BY <1>1, <1>3 DEF SameTotals
<1> QED
  BY <1>2, <1>4, TotalsForm

\* A sum over one more deal.
LEMMA SumOneMore ==
    ASSUME NEW D, IsFiniteSet(D), NEW k, k \notin D,
           NEW f \in [D -> Int], NEW g \in [D \cup {k} -> Int], \A d \in D : g[d] = f[d]
    PROVE  SumFunction(g) = SumFunction(f) + g[k]
<1>1. SumFunctionOnSet(g, D \cup {k}) = g[k] + SumFunctionOnSet(g, D)
  BY SumAdd
<1>2. SumFunctionOnSet(g, D) = SumFunctionOnSet(f, D)
  BY SumAgree
<1>3. SumFunctionOnSet(f, D) \in Int
  BY SumType
<1> QED
  BY <1>1, <1>2, <1>3 DEF SumFunction

\* An order that a new deal names has that deal's quantities added to its totals.
LEMMA TotalsGrow ==
    ASSUME NEW dls, IsTable(dls, DealType), NEW k \in Ids, k \notin DOMAIN dls,
           NEW deal \in DealType, NEW o, NEW o2, o2.order_id = o.order_id,
           o.order_id \in {deal.buy_order_id, deal.sell_order_id},
           o2.matched_assets = o.matched_assets + deal.deal_assets,
           o2.matched_coins = o.matched_coins + deal.deal_coins,
           o2.matched_fee = o.matched_fee + FeeOf(o.order_id, deal),
           TotalsOf(o, dls)
    PROVE  TotalsOf(o2, Put(dls, k, deal))
<1> DEFINE D == Named(o.order_id, dls)
           dls2 == Put(dls, k, deal)
           E == D \cup {k}
           id == o.order_id
<1>1. /\ Named(id, dls2) = E /\ k \notin D /\ D \subseteq Ids
      /\ dls2[k] = deal /\ \A d \in D : dls2[d] = dls[d]
  <2>1. /\ DOMAIN dls2 = DOMAIN dls \cup {k} /\ dls2[k] = deal
        /\ \A d \in DOMAIN dls : dls2[d] = dls[d]
    BY DEF Put
  <2> HIDE DEF dls2
  <2> QED
    BY <2>1 DEF Named, IsTable
<1>2. IsFiniteSet(D)
  BY <1>1, IdsFinite, FS_Subset
<1>3. \A d \in D : /\ dls[d].deal_assets \in Int /\ dls[d].deal_coins \in Int
                   /\ FeeOf(id, dls[d]) \in Int
  <2>1. \A d \in D : dls[d] \in DealType
    BY RowType DEF Named
  <2> QED
    BY <2>1 DEF DealType, FeeOf
<1>4. deal.deal_assets \in Int /\ deal.deal_coins \in Int /\ FeeOf(id, deal) \in Int
  BY DEF DealType, FeeOf
<1>5. /\ o.matched_assets = SumFunction([d \in D |-> dls[d].deal_assets])
      /\ o.matched_coins = SumFunction([d \in D |-> dls[d].deal_coins])
      /\ o.matched_fee = SumFunction([d \in D |-> FeeOf(id, dls[d])])
  BY TotalsForm
<1> HIDE DEF D, dls2
<1>6. k \notin D
  BY <1>1
<1>7. o2.matched_assets = SumFunction([d \in E |-> dls2[d].deal_assets])
  <2> DEFINE f == [d \in D |-> dls[d].deal_assets]
             g == [d \in E |-> dls2[d].deal_assets]
  <2>1. /\ f \in [D -> Int] /\ g \in [D \cup {k} -> Int] /\ g[k] = deal.deal_assets
        /\ \A d \in D : g[d] = f[d]
    BY <1>1, <1>3, <1>4
  <2>2. o2.matched_assets = SumFunction(f) + deal.deal_assets
    BY <1>5
  <2> HIDE DEF f, g, E
  <2>3. SumFunction(g) = SumFunction(f) + g[k]
    BY ONLY <1>2, <1>6, <2>1, SumOneMore
  <2> QED
    BY <2>1, <2>2, <2>3 DEF g
<1>8. o2.matched_coins = SumFunction([d \in E |-> dls2[d].deal_coins])
  <2> DEFINE f == [d \in D |-> dls[d].deal_coins]
             g == [d \in E |-> dls2[d].deal_coins]
  <2>1. /\ f \in [D -> Int] /\ g \in [D \cup {k} -> Int] /\ g[k] = deal.deal_coins
        /\ \A d \in D : g[d] = f[d]
    BY <1>1, <1>3, <1>4
  <2>2. o2.matched_coins = SumFunction(f) + deal.deal_coins
    BY <1>5
  <2> HIDE DEF f, g, E
  <2>3. SumFunction(g) = SumFunction(f) + g[k]
    BY ONLY <1>2, <1>6, <2>1, SumOneMore
  <2> QED
    BY <2>1, <2>2, <2>3 DEF g
<1>9. o2.matched_fee = SumFunction([d \in E |-> FeeOf(id, dls2[d])])
  <2> DEFINE f == [d \in D |-> FeeOf(id, dls[d])]
             g == [d \in E |-> FeeOf(id, dls2[d])]
  <2>1. /\ f \in [D -> Int] /\ g \in [D \cup {k} -> Int] /\ g[k] = FeeOf(id, deal)
        /\ \A d \in D : g[d] = f[d]
    BY <1>1, <1>3, <1>4
  <2>2. o2.matched_fee = SumFunction(f) + FeeOf(id, deal)
    BY <1>5
  <2> HIDE DEF f, g, E
  <2>3. SumFunction(g) = SumFunction(f) + g[k]
    BY ONLY <1>2, <1>6, <2>1, SumOneMore
  <2> QED
    BY <2>1, <2>2, <2>3 DEF g
<1> QED
  BY <1>1, <1>7, <1>8, <1>9, TotalsForm DEF dls2

\* Deals and orders that fit stay so when the orders change neither identity nor totals.
LEMMA DealsStayGood ==
    ASSUME NEW tbl, NEW tbl2, NEW dls, NEW last, DealsGood(tbl, dls, last),
           DOMAIN tbl2 = DOMAIN tbl,
           \A i \in DOMAIN tbl : tbl2[i].order_id = tbl[i].order_id /\ SameTotals(tbl2[i], tbl[i])
    PROVE  DealsGood(tbl2, dls, last)
<1>1. DealsFollow(tbl2, dls, last)
  BY DEF DealsGood, DealsFollow, SameTotals
<1>2. TotalsMatch(tbl2, dls, last)
  BY TotalsSame DEF DealsGood, TotalsMatch
<1> QED
  BY <1>1, <1>2 DEF DealsGood

\* The steps that leave deals, totals and the last id of a deal alone.
LEMMA QuietDeals ==
    ASSUME IInv, CachesInv, DealsInv, [Next]_vars,
           \/ Administration \/ Tick \/ StartMatch \/ OpenPair \/ ClosePair \/ Commit
           \/ UNCHANGED vars
    PROVE  DealsInv'
<1>1. /\ Live' = Live
      /\ \/ undo' = undo /\ (txn'.phase # "idle" => txn.phase # "idle")
         \/ txn'.phase = "idle"
         \/ undo' = Tables /\ txn.phase = "idle"
  BY QuietSteps
<1>2. deals' = deals /\ global'.deal_item_id = global.deal_item_id
  <2>1. global \in GlobalType
    BY TypeParts DEF IInv
  <2>2. ASSUME NEW asset, NEW coin, NEW coin_fee, NEW enabled,
               CreateSympair(asset, coin, coin_fee, enabled)
        PROVE  deals' = deals /\ global'.deal_item_id = global.deal_item_id
    BY <2>1, <2>2 DEF CreateSympair, GlobalType
  <2> QED
    BY <2>2 DEF Administration, SetConfig, ModifySympair, OnOffSympair, Tick, StartMatch, Match,
                OpenPair, ClosePair, Commit, vars, tables
<1>3. DealsGood(Live, deals, global.deal_item_id)'
  BY <1>1, <1>2 DEF DealsInv
<1>4. CASE undo' = undo /\ (txn'.phase # "idle" => txn.phase # "idle")
  BY <1>3, <1>4 DEF DealsInv
<1>5. CASE undo' = Tables /\ txn.phase = "idle"
  <2>1. Live = orders
    BY <1>5, LiveIdle DEF CachesInv
  <2>2. undo'.orders = orders /\ undo'.deals = deals /\ undo'.global = global
    BY <1>5 DEF Tables
  <2> QED
    BY <1>3, <2>1, <2>2 DEF DealsInv
<1> QED
  BY <1>1, <1>3, <1>4, <1>5 DEF DealsInv

LEMMA FundsDeals ==
    ASSUME IInv, CachesInv, DealsInv, Funds
    PROVE  DealsInv'
<1>1. UNCHANGED <<orders, deals, global, txn>> /\ txn.phase = "idle"
  BY DEF Funds, OnTransfer, Withdraw, matching
<1>2. Live = orders /\ Live' = orders'
  <2>1. IInv' /\ CachesInv'
    BY InductiveStep, CachesStep DEF Next
  <2> QED
    BY <1>1, <2>1, LiveIdle, LiveNextIdle DEF CachesInv
<1> QED
  BY <1>1, <1>2 DEF DealsInv

LEMMA CancelDeals ==
    ASSUME IInv, CachesInv, DealsInv, NEW id \in DOMAIN orders, Cancel(id)
    PROVE  DealsInv'
<1>1. /\ Live = orders /\ Live' = orders' /\ DOMAIN orders' = DOMAIN orders
      /\ \A j \in DOMAIN orders \ {id} : orders'[j] = orders[j]
      /\ SameTerms(orders'[id], orders[id]) /\ SameTotals(orders'[id], orders[id])
      /\ UNCHANGED <<undo, txn>> /\ txn.phase = "idle"
  BY CancelRow
<1>2. \A j \in DOMAIN orders : /\ orders'[j].order_id = orders[j].order_id
                               /\ SameTotals(orders'[j], orders[j])
  BY <1>1 DEF SameTerms, SameTotals
<1>3. UNCHANGED <<deals, global>>
  BY DEF Cancel
<1>4. DealsGood(orders, deals, global.deal_item_id)
  BY <1>1 DEF DealsInv
<1>5. DealsGood(orders', deals, global.deal_item_id)
  BY <1>1, <1>2, <1>4, DealsStayGood
<1> QED
  BY <1>1, <1>3, <1>5 DEF DealsInv

LEMMA NewOrderDeals ==
    ASSUME IInv, CachesInv, DealsInv, NEW user \in Traders, NEW i \in DOMAIN sympairs,
           NEW kind \in OrderKinds, NEW quant \in LimitQuants, NEW price \in Prices,
           NEW ex \in OrderConfigs, NEW signed \in BOOLEAN,
           NewOrder(user, i, kind[1], kind[2], quant, price, ex, signed)
    PROVE  DealsInv'
<1> DEFINE id == new_auto_inc_id(global.order_id)
           last == global.deal_item_id
<1>1. /\ id \notin DOMAIN orders /\ DOMAIN orders' = DOMAIN orders \cup {id}
      /\ \A j \in DOMAIN orders : orders'[j] = orders[j]
      /\ orders'[id].order_id = id
      /\ orders'[id].matched_assets = 0 /\ orders'[id].matched_coins = 0
      /\ orders'[id].matched_fee = 0
      /\ txn.phase = "idle"
  BY NewOrderRow
<1>2. Live = orders /\ Live' = orders'
  BY LiveNewOrder
<1>3. deals' = deals /\ global'.deal_item_id = last
  <2>1. global \in GlobalType
    BY TypeParts DEF IInv
  <2> QED
    BY <2>1 DEF NewOrder, GlobalType
<1>4. \/ UNCHANGED <<txn, undo>>
      \/ undo'.orders = orders /\ undo'.deals = deals /\ undo'.global = global
  BY DEF NewOrder, matching, Tables
<1> HIDE DEF id, last
<1>5. DealsGood(orders, deals, last)
  BY <1>2 DEF DealsInv, last
<1>6. DealsFollow(orders', deals, last)
  BY <1>1, <1>5 DEF DealsGood, DealsFollow
<1>7. TotalsOf(orders'[id], deals)
  <2>1. Named(id, deals) = {}
    BY <1>1, <1>5 DEF Named, DealsGood, DealsFollow
  <2>2. ASSUME NEW f, DOMAIN f = {} PROVE SumFunction(f) = 0
    BY <2>2, SumEmpty DEF SumFunction
  <2>3. /\ SumFunction([d \in {} |-> deals[d].deal_assets]) = 0
        /\ SumFunction([d \in {} |-> deals[d].deal_coins]) = 0
        /\ SumFunction([d \in {} |-> FeeOf(id, deals[d])]) = 0
    BY <2>2
  <2> QED
    BY <1>1, <2>1, <2>3, TotalsForm
<1>8. ASSUME AllDeals(deals, last), NEW j \in DOMAIN orders
      PROVE  TotalsOf(orders'[j], deals)
  BY <1>1, <1>5, <1>8 DEF DealsGood, TotalsMatch
<1>9. DealsGood(orders', deals, last)
  BY <1>1, <1>6, <1>7, <1>8 DEF DealsGood, TotalsMatch
<1> QED
  BY <1>1, <1>2, <1>3, <1>4, <1>5, <1>9 DEF DealsInv, last

LEMMA EndDeals ==
    ASSUME IInv, CachesInv, DealsInv, FailedCheck \/ NoneMatched
    PROVE  DealsInv'
<1>1. /\ orders' = undo.orders /\ deals' = undo.deals /\ global' = undo.global
      /\ txn.phase # "idle" /\ txn'.phase = "idle"
  BY DEF FailedCheck, NoneMatched, LoopCondition, Rollback, EndTransaction, Idle
<1>2. Live' = orders'
  BY <1>1, EndStep, EndCaches, LiveNextIdle
<1> QED
  BY <1>1, <1>2 DEF DealsInv

(***************************************************************************)
(* A deal is newer than all others, and is added to the totals of the two  *)
(* orders it names and of no other.                                        *)
(***************************************************************************)
LEMMA DealDeals ==
    ASSUME IInv, CachesInv, DealsInv, global.deal_item_id < Uint64Max, Deal
    PROVE  DealsInv'
<1> DEFINE d == NextDeal
           last == global.deal_item_id
           next == NextDealId
           deal == deals'[next]
           b == Live[BuyId]
           s == Live[SellId]
           b2 == Live'[BuyId]
           s2 == Live'[SellId]
<1>1. /\ CachesFresh /\ IInv' /\ IsTable(deals, DealType) /\ IsTable(deals', DealType)
      /\ IsTable(Live, OrderType) /\ IsTable(Live', OrderType)
  <2>1. IInv'
    BY DealStep
  <2> QED
    BY <2>1, LiveTable, TypeParts, TypePartsNext DEF IInv, CachesInv
<1>2. last \in Ids /\ global'.deal_item_id = next
  <2>1. global \in GlobalType
    BY TypeParts DEF IInv
  <2> QED
    BY <2>1 DEF Deal, GlobalType
<1>3. next = last + 1 /\ next \in Ids /\ next \notin DOMAIN deals
  BY <1>1, <1>2, ConstantsAssumption, DealSides DEF NextDealId, new_auto_inc_id, Ids
<1>4. /\ deal.buy_order_id = BuyId /\ deal.sell_order_id = SellId
      /\ deal.deal_assets = d.assets /\ deal.deal_coins = d.coins
      /\ deal.buy_fee = d.buy_fee /\ deal.sell_fee = d.sell_fee
      /\ deals' = Put(deals, next, deal)
  <2> DEFINE row == [sympair_id |-> txn.sympair_id, buy_order_id |-> BuyId,
                     sell_order_id |-> SellId,
                     deal_assets |-> d.assets, deal_coins |-> d.coins, deal_price |-> d.price,
                     taker_side |-> d.taker_side, buy_fee |-> d.buy_fee, sell_fee |-> d.sell_fee,
                     buy_refund_coins |-> refund_coins_of(BuyIt(d)), deal_time |-> now]
  <2>1. deals' = Put(deals, next, row)
    BY DEF Deal, BuyId, SellId
  <2>2. deal = row
    <3> HIDE DEF row
    <3> QED
      BY <2>1 DEF Put
  <2> QED
    BY <2>1, <2>2
<1>5. /\ BuyId \in DOMAIN orders /\ SellId \in DOMAIN orders /\ BuyId # SellId
      /\ DOMAIN Live = DOMAIN orders /\ DOMAIN Live' = DOMAIN orders
      /\ \A i \in DOMAIN orders \ {BuyId, SellId} : Live'[i] = Live[i]
      /\ SameTerms(b2, b) /\ SameTerms(s2, s)
      /\ b2.matched_assets = b.matched_assets + d.assets
      /\ b2.matched_coins = b.matched_coins + d.coins
      /\ b2.matched_fee = b.matched_fee + d.buy_fee /\ b2.last_deal_id = next
      /\ s2.matched_assets = s.matched_assets + d.assets
      /\ s2.matched_coins = s.matched_coins + d.coins
      /\ s2.matched_fee = s.matched_fee + d.sell_fee /\ s2.last_deal_id = next
  BY <1>1, LiveAfterDeal, LiveIs DEF Added
<1>6. \A i \in DOMAIN orders : Live[i].order_id = i
  BY <1>1, LiveRow DEF SameTerms, IInv, RowsOK
<1>7. /\ UNCHANGED undo /\ txn.phase = "matching"
      /\ DealsGood(Live, deals, last)
  BY DEF Deal, LoopCondition, DealsInv
<1>8. deal \in DealType /\ DOMAIN deals' = DOMAIN deals \cup {next}
      /\ \A e \in DOMAIN deals : deals'[e] = deals[e]
  <2>1. DOMAIN deals' = DOMAIN deals \cup {next} /\ \A e \in DOMAIN deals : deals'[e] = deals[e]
    BY <1>3, <1>4 DEF Put
  <2> QED
    BY <1>1, <2>1, RowType
<1> HIDE DEF d, last, next, deal, b, s, b2, s2
<1>9. DealsFollow(Live', deals', next)
  <2>1. DOMAIN deals' \subseteq 1 .. next
    BY <1>2, <1>3, <1>7, <1>8 DEF DealsGood, DealsFollow, Ids
  <2>2. ASSUME NEW e \in DOMAIN deals',
               NEW i \in {deals'[e].buy_order_id, deals'[e].sell_order_id}
        PROVE  i \in DOMAIN Live' /\ e <= Live'[i].last_deal_id
    <3>1. CASE e = next
      BY <1>3, <1>4, <1>5, <2>2, <3>1 DEF b2, s2, deal, Ids
    <3>2. CASE e # next
      <4>1. i \in DOMAIN orders /\ e <= Live[i].last_deal_id /\ e \in 1 .. next
        BY <1>5, <1>7, <1>8, <2>1, <2>2, <3>2 DEF DealsGood, DealsFollow
      <4> QED
        BY <1>3, <1>5, <4>1 DEF b2, s2, Ids
    <3> QED
      BY <3>1, <3>2
  <2> QED
    BY <2>1, <2>2 DEF DealsFollow
<1>10. ASSUME AllDeals(deals', next), NEW i \in DOMAIN orders
       PROVE  TotalsOf(Live'[i], deals')
  <2>1. TotalsOf(Live[i], deals)
    <3>1. AllDeals(deals, last)
      <4>1. DOMAIN deals \cup {next} = 1 .. last + 1
        BY <1>3, <1>8, <1>10 DEF AllDeals
      <4>2. last \in Nat
        BY <1>2 DEF Ids
      <4>3. (1 .. last + 1) \ {last + 1} = 1 .. last
        BY <4>2
      <4>4. DOMAIN deals = (1 .. last + 1) \ {last + 1}
        BY <1>3, <4>1
      <4> QED
        BY <4>3, <4>4 DEF AllDeals
    <3> QED
      BY <1>5, <1>7, <3>1 DEF DealsGood, TotalsMatch
  <2>2. CASE i = BuyId
    <3>1. FeeOf(i, deal) = d.buy_fee
      BY <1>4, <2>2 DEF FeeOf
    <3>2. TotalsOf(b2, Put(deals, next, deal))
      BY ONLY <1>1, <1>3, <1>4, <1>5, <1>6, <1>8, <2>1, <2>2, <3>1, TotalsGrow
         DEF SameTerms, b, b2
    <3> QED
      BY <1>4, <2>2, <3>2 DEF b2
  <2>3. CASE i = SellId
    <3>1. FeeOf(i, deal) = d.sell_fee
      BY <1>4, <1>5, <2>3 DEF FeeOf
    <3>2. TotalsOf(s2, Put(deals, next, deal))
      BY ONLY <1>1, <1>3, <1>4, <1>5, <1>6, <1>8, <2>1, <2>3, <3>1, TotalsGrow
         DEF SameTerms, s, s2
    <3> QED
      BY <1>4, <2>3, <3>2 DEF s2
  <2>4. CASE i \notin {BuyId, SellId}
    <3>1. Live'[i] = Live[i] /\ Live[i].order_id = i
      BY <1>5, <1>6, <2>4
    <3>2. Named(i, deals') = Named(i, deals)
      BY <1>3, <1>4, <1>8, <2>4 DEF Named, deal
    <3> QED
      BY <1>8, <2>1, <3>1, <3>2, TotalsSame DEF SameTotals, Named
  <2> QED
    BY <2>2, <2>3, <2>4
<1>11. DealsGood(Live', deals', next)
  BY <1>5, <1>9, <1>10 DEF DealsGood, TotalsMatch
<1> QED
  BY <1>2, <1>7, <1>11 DEF DealsInv, next

\* cleandata takes the deals in the order of their ids.
LEMMA SweptIsPrefix ==
    ASSUME IInv, NEW max_count \in Nat, NEW d \in SweptDeals(max_count),
           NEW e \in DOMAIN deals, e <= d
    PROVE  e \in SweptDeals(max_count)
<1> DEFINE upto(x) == {f \in DOMAIN deals : f <= x}
<1>1. DOMAIN deals \subseteq Int /\ IsFiniteSet(DOMAIN deals)
  <2>1. DOMAIN deals \subseteq Ids
    BY TypeParts DEF IInv, IsTable
  <2>2. IsFiniteSet(DOMAIN deals)
    BY <2>1, IdsFinite, FS_Subset
  <2> QED
    BY <2>1, <2>2 DEF Ids
<1>2. d \in DOMAIN deals /\ (\A f \in upto(d) : outdated(deals[f].deal_time))
      /\ Cardinality(upto(d)) <= max_count
  BY DEF SweptDeals
<1>3. upto(e) \subseteq upto(d) /\ upto(d) \subseteq DOMAIN deals
  BY <1>1, <1>2
<1> HIDE DEF upto
<1>4. Cardinality(upto(e)) <= max_count
  <2>1. IsFiniteSet(upto(d)) /\ IsFiniteSet(upto(e))
    BY <1>1, <1>3, FS_Subset
  <2>2. Cardinality(upto(e)) <= Cardinality(upto(d))
    BY <1>3, <2>1, FS_Subset
  <2>3. Cardinality(upto(e)) \in Nat /\ Cardinality(upto(d)) \in Nat
    BY <2>1, FS_CardinalityType
  <2> QED
    BY <1>2, <2>2, <2>3
<1>5. \A f \in DOMAIN deals : f <= e => outdated(deals[f].deal_time)
  BY <1>2, <1>3 DEF upto
<1> QED
  BY <1>4, <1>5 DEF SweptDeals, upto

(***************************************************************************)
(* cleandata erases an order only with all the deals that name it: those   *)
(* are not newer than its last deal, and deals go in the order of ids.     *)
(***************************************************************************)
LEMMA CleaningDeals ==
    ASSUME IInv, CachesInv, DealsInv, Cleaning
    PROVE  DealsInv'
<1>1. PICK max_count \in CleanCounts, stale \in BOOLEAN : CleanData(max_count, stale)
  BY DEF Cleaning
<1> DEFINE D == SweptDeals(max_count)
           last == global.deal_item_id
<1>2. /\ deals' = Without(deals, D) /\ max_count \in Nat /\ D \subseteq DOMAIN deals
      /\ UNCHANGED <<txn, global>> /\ txn.phase = "idle"
  BY <1>1, InputsAssumption DEF CleanData, matching, SweptDeals
<1>3. /\ DOMAIN orders' \subseteq DOMAIN orders
      /\ \A i \in DOMAIN orders' : orders'[i] = orders[i]
      /\ \A i \in DOMAIN orders \ DOMAIN orders' : i \in SweptOrders(D) \/ D = DOMAIN deals
  BY <1>1 DEF CleanData, Without, LeastRecent
<1>4. Live = orders /\ Live' = orders'
  BY <1>2, CleaningStep, CleaningCaches, LiveIdle, LiveNextIdle DEF CachesInv
<1>5. DealsFollow(orders, deals, last) /\ TotalsMatch(orders, deals, last)
  BY <1>4 DEF DealsInv, DealsGood
<1>6. \A d \in D : \A e \in DOMAIN deals : e <= d => e \in D
  BY <1>2, SweptIsPrefix
<1> HIDE DEF D
<1>7. /\ DOMAIN deals' = DOMAIN deals \ D
      /\ \A d \in DOMAIN deals' : deals'[d] = deals[d]
  BY <1>2 DEF Without
<1>8. DealsFollow(orders', deals', last)
  <2>1. DOMAIN deals' \subseteq 1 .. last
    BY <1>5, <1>7 DEF DealsFollow
  <2>2. ASSUME NEW d \in DOMAIN deals',
               NEW i \in {deals'[d].buy_order_id, deals'[d].sell_order_id}
        PROVE  i \in DOMAIN orders' /\ d <= orders'[i].last_deal_id
    <3>1. /\ d \in DOMAIN deals /\ d \notin D /\ deals'[d] = deals[d]
          /\ i \in {deals[d].buy_order_id, deals[d].sell_order_id}
      BY <1>7, <2>2
    <3>2. i \in DOMAIN orders /\ d <= orders[i].last_deal_id
      BY <1>5, <3>1 DEF DealsFollow
    <3>3. i \notin SweptOrders(D)
      BY <1>6, <3>1, <3>2 DEF SweptOrders
    <3>4. i \in DOMAIN orders'
      BY <1>3, <3>1, <3>2, <3>3
    <3> QED
      BY <1>3, <3>2, <3>4
  <2> QED
    BY <2>1, <2>2 DEF DealsFollow
<1>9. TotalsMatch(orders', deals', last)
  <2>1. SUFFICES ASSUME AllDeals(deals', last) PROVE \A i \in DOMAIN orders' : TotalsOf(orders'[i], deals')
    BY DEF TotalsMatch
  <2>2. DOMAIN deals = DOMAIN deals' /\ AllDeals(deals, last)
    BY <1>5, <1>7, <2>1 DEF AllDeals, DealsFollow
  <2>3. ASSUME NEW i \in DOMAIN orders' PROVE TotalsOf(orders'[i], deals')
    <3>1. i \in DOMAIN orders /\ orders'[i] = orders[i] /\ TotalsOf(orders[i], deals)
      BY <1>3, <1>5, <2>2 DEF TotalsMatch
    <3>2. Named(orders[i].order_id, deals') = Named(orders[i].order_id, deals)
      BY <1>7, <2>2 DEF Named
    <3> QED
      BY <1>7, <2>2, <3>1, <3>2, TotalsSame DEF SameTotals, Named
  <2> QED
    BY <2>3
<1> QED
  BY <1>2, <1>4, <1>8, <1>9 DEF DealsInv, DealsGood

LEMMA DealsStep ==
    IInv /\ CachesInv /\ DealsInv /\ global.deal_item_id < Uint64Max /\ [Next]_vars => DealsInv'
<1> SUFFICES ASSUME IInv, CachesInv, DealsInv, global.deal_item_id < Uint64Max, [Next]_vars
             PROVE  DealsInv'
  OBVIOUS
<1>1. CASE Ordering
  BY <1>1, NewOrderDeals, CancelDeals DEF Ordering
<1>2. CASE TransactionStep
  BY <1>2, QuietDeals, DealDeals, EndDeals DEF TransactionStep
<1> QED
  BY <1>1, <1>2, QuietDeals, FundsDeals, CleaningDeals DEF Next

LEMMA InitDeals == Init => DealsInv
<1> SUFFICES ASSUME Init PROVE DealsInv
  OBVIOUS
<1>1. txn.phase = "idle" /\ deals = EmptyTable /\ orders = EmptyTable
  BY DEF Init, Idle
<1>2. Live = orders
  BY <1>1, InitIInv, InitCaches, LiveIdle DEF CachesInv
<1> QED
  BY <1>1, <1>2 DEF EmptyTable, DealsInv, DealsGood, DealsFollow, TotalsMatch

(***************************************************************************)
(* The ids of deals have not been used up: the counter starts over when    *)
(* they are, and a deal may then be older than one with a lower id.        *)
(***************************************************************************)
DealIdsLeft == global.deal_item_id < Uint64Max

LEMMA DealsKept == Spec /\ []DealIdsLeft => [](IInv /\ CachesInv /\ DealsInv)
<1>1. IInv /\ CachesInv /\ DealsInv /\ DealIdsLeft /\ [Next]_vars => DealsInv'
  BY DealsStep DEF DealIdsLeft
<1> QED
  BY <1>1, CachesKept, InitDeals, PTL DEF Spec

(***************************************************************************)
(* A deal in the table never refers to an order that cleandata has erased. *)
(***************************************************************************)
THEOREM DealsAlwaysHaveOrders == Spec /\ []DealIdsLeft => []DealsHaveOrders
<1>1. IInv /\ CachesInv /\ DealsInv => DealsHaveOrders
  BY LiveIs DEF DealsInv, DealsGood, DealsFollow, DealsHaveOrders
<1> QED
  BY <1>1, DealsKept, PTL

(***************************************************************************)
(* The totals of an order, those the iterators have not yet written back   *)
(* included, are the sums over its deals as long as no deal is erased.     *)
(***************************************************************************)
THEOREM TotalsAlwaysMatchDeals == Spec /\ []DealIdsLeft => []TotalsMatchDeals
<1>1. DealsInv => TotalsMatchDeals
  BY DEF DealsInv, DealsGood, TotalsMatchDeals
<1> QED
  BY <1>1, DealsKept, PTL

----------------------------------------------------------------------------
(* The budget of a match *)

LEMMA DealsFinite ==
    /\ TypeOK => IsFiniteSet(DOMAIN deals)
    /\ TablesOK(undo) => IsFiniteSet(DOMAIN undo.deals)
BY TypeParts, IdsFinite, FS_Subset DEF IsTable, TablesOK

\* A deal counts, and is one more row of the table.
LEMMA DealBudget ==
    ASSUME IInv, MatchBudget, Deal
    PROVE  MatchBudget'
<1>1. /\ LoopCondition /\ CheckDealId /\ TypeOK /\ txn.phase = "matching"
      /\ txn.matched_count < txn.max_count
  BY DEF Deal, ChecksPass, LoopCondition, IInv
<1>2. txn \in TxnType /\ IsFiniteSet(DOMAIN deals) /\ IsFiniteSet(DOMAIN undo.deals)
  BY <1>1, TypeParts, DealsFinite
<1>3. txn.matched_count \in Nat /\ txn.max_count \in Nat
  BY <1>2 DEF TxnType
<1>4. /\ txn'.matched_count = txn.matched_count + 1 /\ txn'.max_count = txn.max_count
      /\ undo' = undo
  <2> DEFINE price == NextDeal.price
  <2>1. txn' = [txn EXCEPT !.matched_count = @ + 1, !.latest_deal_price = price] /\ undo' = undo
    BY DEF Deal
  <2> HIDE DEF price
  <2> QED
    BY <1>2, <2>1 DEF TxnType
<1>5. DOMAIN deals' = DOMAIN deals \cup {NextDealId} /\ NextDealId \notin DOMAIN deals
  BY <1>1 DEF Deal, Put, CheckDealId
<1>6. Cardinality(DOMAIN deals') = Cardinality(DOMAIN deals) + 1
  BY <1>2, <1>5, FS_AddElement
<1>7. Cardinality(DOMAIN deals) \in Nat /\ Cardinality(DOMAIN undo.deals) \in Nat
  BY <1>2, FS_CardinalityType
<1> QED
  BY <1>1, <1>3, <1>4, <1>6, <1>7 DEF MatchBudget

LEMMA BudgetStep == IInv /\ MatchBudget /\ [Next]_vars => MatchBudget'
<1> SUFFICES ASSUME IInv, MatchBudget, [Next]_vars PROVE MatchBudget'
  OBVIOUS
<1>1. CASE UNCHANGED <<txn, deals, undo>>
  BY <1>1 DEF MatchBudget
<1>2. CASE txn'.phase = "idle"
  BY <1>2 DEF MatchBudget
<1>3. ASSUME undo' = Tables, deals' = deals, txn'.matched_count = 0, txn'.max_count \in Nat
      PROVE  MatchBudget'
  <2>1. Cardinality(DOMAIN deals) \in Nat
    BY DealsFinite, FS_CardinalityType DEF IInv
  <2>2. undo'.deals = deals
    BY <1>3 DEF Tables
  <2> QED
    BY <1>3, <2>1, <2>2 DEF MatchBudget
<1>4. Administration \/ Funds \/ Tick \/ Cleaning => txn' = txn /\ txn.phase = "idle"
  BY DEF Administration, SetConfig, CreateSympair, ModifySympair, OnOffSympair, Tick, Funds,
         OnTransfer, Withdraw, Cleaning, CleanData, tables, matching
<1>5. ASSUME NEW id, Cancel(id) PROVE txn' = txn /\ txn.phase = "idle"
  BY <1>5 DEF Cancel, matching
<1>6. ASSUME NEW user, NEW i, NEW type, NEW side, NEW quant, NEW price, NEW ex, NEW signed,
             NewOrder(user, i, type, side, quant, price, ex, signed)
      PROVE  MatchBudget'
  <2>1. deals' = deals
    BY <1>6 DEF NewOrder
  <2>2. CASE UNCHANGED matching
    BY <1>1, <2>1, <2>2 DEF matching
  <2>3. CASE undo' = Tables /\ StartMatching("order", <<>>, i, config.max_match_count)
    <3>1. config.max_match_count \in Nat
      BY TypeParts DEF IInv, ValidConfigType, ConfigType
    <3> QED
      BY <1>3, <2>1, <2>3, <3>1 DEF StartMatching
  <2> QED
    BY <1>6, <2>2, <2>3 DEF NewOrder
<1>7. CASE StartMatch
  BY <1>3, <1>7, InputsAssumption DEF StartMatch, Match, StartMatching, tables
<1>8. CASE OpenPair \/ ClosePair
  <2>1. /\ txn \in TxnType /\ deals' = deals /\ undo' = undo /\ txn.phase # "idle"
    BY <1>8, TypeParts DEF IInv, OpenPair, ClosePair, tables
  <2>2. txn'.matched_count = txn.matched_count /\ txn'.max_count = txn.max_count
    <3>1. CASE ClosePair
      <4>1. \/ txn' = [txn EXCEPT !.phase = "select"]
            \/ txn'.phase = "select" /\ UNCHANGED <<txn.matched_count, txn.max_count>>
        BY <2>1, <3>1 DEF ClosePair, TxnType
      <4> QED
        BY <2>1, <4>1 DEF TxnType
    <3>2. CASE OpenPair /\ txn' = [txn EXCEPT !.pairs = Tail(txn.pairs)]
      BY <2>1, <3>2 DEF TxnType
    <3>3. CASE OpenPair /\ txn' = [txn EXCEPT !.phase = "matching", !.pairs = Tail(txn.pairs),
                                  !.sympair_id = Head(txn.pairs), !.latest_deal_price = 0]
      BY <2>1, <3>3 DEF TxnType
    <3>4. OpenPair => \/ txn' = [txn EXCEPT !.pairs = Tail(txn.pairs)]
                      \/ txn' = [txn EXCEPT !.phase = "matching", !.pairs = Tail(txn.pairs),
                                  !.sympair_id = Head(txn.pairs), !.latest_deal_price = 0]
      BY DEF OpenPair
    <3> QED
      BY <1>8, <3>1, <3>2, <3>3, <3>4
  <2> QED
    BY <2>1, <2>2 DEF MatchBudget
<1>9. CASE Commit \/ FailedCheck \/ NoneMatched
  BY <1>2, <1>9 DEF Commit, FailedCheck, NoneMatched, Rollback, EndTransaction, Idle
<1>10. CASE UNCHANGED vars
  BY <1>1, <1>10 DEF vars, tables, matching
<1> QED
  BY <1>2, <1>4, <1>5, <1>6, <1>7, <1>8, <1>9, <1>10, DealBudget
     DEF Next, Ordering, TransactionStep

(***************************************************************************)
(* A match makes at most max_count deals over all its pairs and counts     *)
(* each of them, whatever the number of pairs and the orders in them.      *)
(***************************************************************************)
THEOREM MatchStaysInBudget == Spec => []MatchBudget
<1>1. Init => MatchBudget
  BY DEF Init, Idle, MatchBudget
<1> QED
  BY <1>1, InitIInv, InductiveStep, BudgetStep, PTL DEF Spec

----------------------------------------------------------------------------
(* The loop skips nothing *)

\* The rows of a book are in a line.
LEMMA PrecedesInBook ==
    ASSUME NEW o \in OrderType, NEW p \in OrderType, NEW q \in OrderType,
           NEW sympair_id, NEW b \in Books,
           InBook(o, sympair_id, b), InBook(p, sympair_id, b), InBook(q, sympair_id, b)
    PROVE  /\ Precedes(o, p) /\ Precedes(p, q) => Precedes(o, q)
           /\ o.order_id # p.order_id => Precedes(o, p) \/ Precedes(p, o)
<1>1. /\ o.price \in Nat /\ p.price \in Nat /\ q.price \in Nat
      /\ o.order_id \in Nat /\ p.order_id \in Nat /\ q.order_id \in Nat
      /\ o.order_side = p.order_side /\ p.order_side = q.order_side
      /\ o.order_side \in {"buy", "sell"}
  BY ConstantsAssumption DEF OrderType, Ids, InBook, Books, side_of
<1> QED
  BY <1>1 DEF Precedes

LEMMA FirstExists ==
    ASSUME NEW tbl, IsTable(tbl, OrderType), RowsOK(tbl), NEW p, NEW b \in Books,
           NEW S, S \subseteq Book(tbl, p, b), S # {}
    PROVE  FirstOf(tbl, S) # {}
<1> DEFINE Good == {T \in SUBSET S : T # {} => FirstOf(tbl, T) # {}}
<1>1. IsFiniteSet(S)
  BY IdsFinite, FS_Subset DEF Book, IsTable
<1>2. \A i \in S : tbl[i] \in OrderType /\ InBook(tbl[i], p, b) /\ tbl[i].order_id = i
  BY BookRows DEF RowsOK
<1>3. \A i, j, k \in S : Precedes(tbl[i], tbl[j]) /\ Precedes(tbl[j], tbl[k])
                             => Precedes(tbl[i], tbl[k])
  BY <1>2, PrecedesInBook
<1>4. \A i, j \in S : i # j => Precedes(tbl[i], tbl[j]) \/ Precedes(tbl[j], tbl[i])
  BY <1>2, PrecedesInBook
<1>5. ASSUME NEW T \in SUBSET S, \A U \in SUBSET T : U # T => U \in Good, T # {}
      PROVE  FirstOf(tbl, T) # {}
  <2>1. PICK x \in T : TRUE
    BY <1>5
  <2>2. T \ {x} \in SUBSET T /\ T \ {x} # T
    BY <2>1
  <2>3. CASE T \ {x} = {}
    BY <2>1, <2>3 DEF FirstOf
  <2>4. CASE T \ {x} # {}
    <3>1. FirstOf(tbl, T \ {x}) # {}
      BY <1>5, <2>2, <2>4
    <3>2. PICK y \in T \ {x} : \A j \in (T \ {x}) \ {y} : Precedes(tbl[y], tbl[j])
      BY <3>1 DEF FirstOf
    <3>3. CASE Precedes(tbl[x], tbl[y])
      <4>1. \A j \in T \ {x} : Precedes(tbl[x], tbl[j])
        BY <1>3, <2>1, <3>2, <3>3
      <4> QED
        BY <2>1, <4>1 DEF FirstOf
    <3>4. CASE Precedes(tbl[y], tbl[x])
      <4>1. \A j \in T \ {y} : Precedes(tbl[y], tbl[j])
        BY <3>2, <3>4
      <4> QED
        BY <3>2, <4>1 DEF FirstOf
    <3> QED
      BY <1>4, <2>1, <3>2, <3>3, <3>4
  <2> QED
    BY <2>3, <2>4
<1>6. \A T \in SUBSET S : (\A U \in SUBSET T : U # T => U \in Good) => T \in Good
  BY <1>5
<1> HIDE DEF Good
<1>7. SUBSET S \subseteq Good
  BY ONLY <1>1, <1>6, SubsetInduction
<1> QED
  BY <1>7 DEF Good

\* An iterator put on rows of a book is closed only when there are none.
LEMMA ClosedAtFirst ==
    ASSUME NEW tbl, IsTable(tbl, OrderType), RowsOK(tbl), NEW p, NEW b \in Books,
           NEW S, S \subseteq Book(tbl, p, b), ~is_valid(it_at_first(tbl, S))
    PROVE  S = {}
<1>1. FirstOf(tbl, S) = {}
  BY DEF it_at_first, is_valid, opened_it
<1> QED
  BY <1>1, FirstExists

LEMMA OpenClosed ==
    ASSUME NEW tbl, IsTable(tbl, OrderType), RowsOK(tbl), NEW p, NEW b \in Books
    PROVE  is_valid(open_it(tbl, p, b)) \/ Book(tbl, p, b) = {}
BY ClosedAtFirst DEF open_it

\* The rows that a moving iterator looks at are those that are left of its book.
LEMMA NextClosed ==
    ASSUME NEW tbl, IsTable(tbl, OrderType), RowsOK(tbl), NEW p, NEW b \in Books,
           NEW it, it.order_id \in FirstOf(tbl, Book(tbl, p, b)),
           ~is_valid(next_it(tbl, p, b, it))
    PROVE  Book(tbl, p, b) \subseteq {it.order_id}
<1> DEFINE S == {i \in Book(tbl, p, b) : Precedes(tbl[it.order_id], tbl[i])}
<1>1. S = {}
  <2>1. S \subseteq Book(tbl, p, b) /\ next_it(tbl, p, b, it) = it_at_first(tbl, S)
    BY DEF next_it
  <2> HIDE DEF S
  <2> QED
    BY <2>1, ClosedAtFirst
<1> QED
  BY <1>1 DEF FirstOf

LEMMA DealClosed ==
    ASSUME IInv, ClosedOK, Deal
    PROVE  ClosedOK'
<1> DEFINE d == NextDeal
           p == txn.sympair_id
<1>1. /\ LoopCondition /\ CheckFree /\ txn.phase = "matching" /\ RowsOK(orders)
      /\ IsTable(orders, OrderType) /\ txn \in TxnType /\ its \in [Books -> ItType]
  BY TypeParts DEF Deal, ChecksPass, LoopCondition, IInv
<1>2. /\ d.buy \in Books /\ d.sell \in Books /\ d.buy # d.sell
      /\ is_valid(its[d.buy]) /\ is_valid(its[d.sell])
  BY <1>1, NextDealBooks
<1>3. /\ BuyIt(d) \in ItType /\ SellIt(d) \in ItType
      /\ BuyIt(d).order_id = BuyId /\ SellIt(d).order_id = SellId
  BY <1>1, NextDealIts DEF BuyId, SellId
<1>4. /\ BuyId \in FirstOf(orders, Book(orders, p, d.buy))
      /\ SellId \in FirstOf(orders, Book(orders, p, d.sell))
  BY <1>1, <1>2, RowAt DEF OnFirst, BuyId, SellId
<1>5. \A b \in Books : Book(orders', p, b) = Book(orders, p, b) \ Done
  BY DealRows, BookAfter
<1>6. /\ its' = [its EXCEPT ![d.buy] = ItAfter(d.buy, BuyIt(d)),
                            ![d.sell] = ItAfter(d.sell, SellIt(d))]
      /\ txn'.sympair_id = p
  BY <1>1 DEF Deal, TxnType
<1>7. /\ is_completed(BuyIt(d)) => BuyId \in Done
      /\ is_completed(SellIt(d)) => SellId \in Done
  BY DEF Done
<1>8. is_valid(BuyIt(d)) /\ is_valid(SellIt(d))
  <2>1. /\ OrderAt(d.buy) \in OrderType /\ its[d.buy] \in ItType
        /\ OrderAt(d.sell) \in OrderType /\ its[d.sell] \in ItType /\ NextDealId \in Ids
    BY <1>1, <1>2, RowAt, NextDealIdType DEF IInv
  <2> QED
    BY <1>1, <2>1, NextDealAmounts, MatchedItType DEF BuyIt, SellIt
<1> HIDE DEF d, p
<1>9. is_valid(its'[d.buy]) \/ Book(orders', p, d.buy) = {}
  <2>1. its'[d.buy] = ItAfter(d.buy, BuyIt(d))
    BY <1>1, <1>2, <1>6
  <2>2. CASE ~is_completed(BuyIt(d))
    BY <1>8, <2>1, <2>2 DEF ItAfter
  <2>3. CASE is_completed(BuyIt(d))
    BY <1>1, <1>2, <1>3, <1>4, <1>5, <1>7, <2>1, <2>3, NextClosed DEF ItAfter, p
  <2> QED
    BY <2>2, <2>3
<1>10. is_valid(its'[d.sell]) \/ Book(orders', p, d.sell) = {}
  <2>1. its'[d.sell] = ItAfter(d.sell, SellIt(d))
    BY <1>1, <1>2, <1>6
  <2>2. CASE ~is_completed(SellIt(d))
    BY <1>8, <2>1, <2>2 DEF ItAfter
  <2>3. CASE is_completed(SellIt(d))
    BY <1>1, <1>2, <1>3, <1>4, <1>5, <1>7, <2>1, <2>3, NextClosed DEF ItAfter, p
  <2> QED
    BY <2>2, <2>3
<1>11. \A b \in Books \ {d.buy, d.sell} : its'[b] = its[b]
  BY <1>1, <1>6
<1> QED
  BY <1>1, <1>5, <1>6, <1>9, <1>10, <1>11 DEF ClosedOK, p

\* When the loop sees nothing to match, there is nothing to match.
LEMMA NoMatchUncrossed ==
    ASSUME IInv, ClosedOK, txn.phase = "matching", ~pairing(orders, its).can_match
    PROVE  ~Crossed(txn.sympair_id)
<1> DEFINE p == txn.sympair_id
           valid(b) == is_valid(its[b])
<1>1. IsTable(orders, OrderType) /\ \A i \in DOMAIN orders : orders[i] \in OrderType
  BY TypeParts, RowType DEF IInv
<1>2. /\ "limit_buy" \in Books /\ "limit_sell" \in Books
      /\ "market_buy" \in Books /\ "market_sell" \in Books
  BY DEF Books
<1>3. \A b \in Books, i \in DOMAIN orders : InBook(orders[i], p, b) => valid(b)
  BY DEF ClosedOK, Book
<1>4. \A b : Pairing(b).can_match
  BY DEF Pairing
<1>5. /\ ~(valid("market_buy") /\ valid("limit_sell"))
      /\ ~(valid("market_sell") /\ valid("limit_buy"))
      /\ ~(/\ valid("limit_buy") /\ valid("limit_sell")
           /\ crosses(OrderAt("limit_buy"), OrderAt("limit_sell")))
  BY <1>4 DEF pairing, OrderAt
<1>6. ASSUME NEW b \in Books, NEW i \in DOMAIN orders, InBook(orders[i], p, b)
      PROVE  /\ orders[i].order_side = "buy" => OrderAt(b).price >= orders[i].price
             /\ orders[i].order_side = "sell" => OrderAt(b).price <= orders[i].price
  <2>1. /\ OrderAt(b) \in OrderType /\ OrderAt(b) = orders[its[b].order_id]
        /\ its[b].order_id \in FirstOf(orders, Book(orders, p, b))
        /\ InBook(OrderAt(b), p, b)
    BY <1>3, <1>6, RowAt DEF OrderAt, OnFirst
  <2>2. i = its[b].order_id \/ Precedes(OrderAt(b), orders[i])
    BY <1>6, <2>1 DEF FirstOf, Book
  <2>3. OrderAt(b).order_side = orders[i].order_side
    BY <1>6, <2>1 DEF InBook
  <2> QED
    BY <1>1, <2>1, <2>2, <2>3 DEF Precedes, OrderType
<1> SUFFICES ASSUME NEW i \in DOMAIN orders, NEW j \in DOMAIN orders,
                    orders[i].sympair_id = p, orders[j].sympair_id = p,
                    orders[i].status = "matchable", orders[j].status = "matchable",
                    orders[i].order_side = "buy", orders[j].order_side = "sell",
                    \/ /\ orders[i].order_type = "limit" /\ orders[j].order_type = "limit"
                       /\ orders[i].price >= orders[j].price
                    \/ orders[i].order_type = "limit" /\ orders[j].order_type = "market"
                    \/ orders[i].order_type = "market" /\ orders[j].order_type = "limit"
             PROVE  FALSE
  BY DEF Crossed
<1>7. /\ orders[i].order_type = "limit" => InBook(orders[i], p, "limit_buy")
      /\ orders[i].order_type = "market" => InBook(orders[i], p, "market_buy")
      /\ orders[j].order_type = "limit" => InBook(orders[j], p, "limit_sell")
      /\ orders[j].order_type = "market" => InBook(orders[j], p, "market_sell")
  BY DEF InBook, side_of, type_of
<1>8. ~(orders[i].order_type = "limit" /\ orders[j].order_type = "limit")
  <2> SUFFICES ASSUME orders[i].order_type = "limit", orders[j].order_type = "limit"
               PROVE  FALSE
    OBVIOUS
  <2>1. valid("limit_buy") /\ valid("limit_sell")
    BY <1>2, <1>3, <1>7
  <2>2. OrderAt("limit_buy") \in OrderType /\ OrderAt("limit_sell") \in OrderType
    BY <1>2, <2>1, RowAt
  <2>3. /\ OrderAt("limit_buy").price >= orders[i].price
        /\ OrderAt("limit_sell").price <= orders[j].price
    BY <1>2, <1>6, <1>7
  <2>4. crosses(OrderAt("limit_buy"), OrderAt("limit_sell"))
    BY <1>1, <2>2, <2>3 DEF crosses, OrderType
  <2> QED
    BY <1>5, <2>1, <2>4
<1> HIDE DEF valid
<1> QED
  BY <1>2, <1>3, <1>5, <1>7, <1>8

LEMMA ClosePairUncrossed ==
    ASSUME IInv, CachesFresh, ClosedOK, ClosePair
    PROVE  UncrossedInv'
<1>1. /\ txn.phase = "matching" /\ ~LoopCondition /\ orders' = Live
      /\ txn' = [txn EXCEPT !.phase = "select"] /\ txn \in TxnType
  BY TypeParts DEF ClosePair, Live, IInv
<1>2. /\ txn'.phase = "select" /\ txn'.sympair_id = txn.sympair_id
      /\ txn'.matched_count = txn.matched_count /\ txn'.max_count = txn.max_count
  BY <1>1 DEF TxnType
<1>3. DOMAIN Live = DOMAIN orders
  BY LiveIs
<1>4. \A i \in DOMAIN orders : SameTerms(Live[i], orders[i]) /\ Live[i].status = orders[i].status
  BY LiveRow
<1>5. Crossed(txn.sympair_id)' => Crossed(txn.sympair_id)
  BY <1>1, <1>2, <1>3, <1>4 DEF Crossed, SameTerms
<1>6. txn.matched_count < txn.max_count => ~Crossed(txn.sympair_id)
  BY <1>1, NoMatchUncrossed DEF LoopCondition
<1> QED
  BY <1>2, <1>5, <1>6 DEF UncrossedInv, UncrossedWhenDone, ClosedOK

LEMMA UncrossedStep == IInv /\ CachesInv /\ UncrossedInv /\ [Next]_vars => UncrossedInv'
<1> SUFFICES ASSUME IInv, CachesInv, UncrossedInv, [Next]_vars PROVE UncrossedInv'
  OBVIOUS
<1>1. CASE UNCHANGED <<txn, its, orders>>
  BY <1>1 DEF UncrossedInv, ClosedOK, UncrossedWhenDone, Crossed
<1>2. CASE txn'.phase = "idle"
  BY <1>2 DEF UncrossedInv, ClosedOK, UncrossedWhenDone
<1>3. Administration \/ Funds \/ Tick \/ Cleaning => txn' = txn /\ txn.phase = "idle"
  BY DEF Administration, SetConfig, CreateSympair, ModifySympair, OnOffSympair, Tick, Funds,
         OnTransfer, Withdraw, Cleaning, CleanData, tables, matching
<1>4. ASSUME NEW id, Cancel(id) PROVE txn' = txn /\ txn.phase = "idle"
  BY <1>4 DEF Cancel, matching
<1>5. ASSUME NEW user \in Traders, NEW i \in DOMAIN sympairs, NEW kind \in OrderKinds,
             NEW quant \in LimitQuants, NEW price \in Prices, NEW ex \in OrderConfigs,
             NEW signed \in BOOLEAN,
             NewOrder(user, i, kind[1], kind[2], quant, price, ex, signed)
      PROVE  UncrossedInv'
  <2>1. CASE UNCHANGED matching
    BY <1>2, <1>5, <2>1 DEF NewOrder, matching
  <2>2. CASE /\ StartMatching("order", <<>>, i, config.max_match_count)
             /\ its' = [b \in Books |-> open_it(orders', i, b)]
    <3>1. IsTable(orders', OrderType) /\ RowsOK(orders)'
      BY <1>5, NewOrderStep, TypePartsNext DEF IInv
    <3>2. txn'.phase = "matching" /\ txn'.sympair_id = i
      BY <2>2 DEF StartMatching
    <3>3. \A b \in Books : is_valid(its'[b]) \/ Book(orders', i, b) = {}
      BY <2>2, <3>1, OpenClosed DEF RowsOK
    <3> QED
      BY <3>2, <3>3 DEF UncrossedInv, ClosedOK, UncrossedWhenDone
  <2> QED
    BY <1>5, <2>1, <2>2 DEF NewOrder
<1>6. CASE StartMatch
  BY <1>6 DEF StartMatch, Match, StartMatching, UncrossedInv, ClosedOK, UncrossedWhenDone
<1>7. CASE OpenPair
  <2>1. txn \in TxnType /\ IsTable(orders, OrderType) /\ RowsOK(orders)
    BY TypeParts DEF IInv
  <2>2. UNCHANGED orders /\ txn.phase = "select"
    BY <1>7 DEF OpenPair, tables
  <2>3. CASE txn' = [txn EXCEPT !.pairs = Tail(txn.pairs)]
    <3>1. /\ txn'.phase = "select" /\ txn'.sympair_id = txn.sympair_id
          /\ txn'.matched_count = txn.matched_count /\ txn'.max_count = txn.max_count
      BY <2>1, <2>2, <2>3 DEF TxnType
    <3> QED
      BY <2>2, <3>1 DEF UncrossedInv, ClosedOK, UncrossedWhenDone, Crossed
  <2>4. CASE /\ txn' = [txn EXCEPT !.phase = "matching", !.pairs = Tail(txn.pairs),
                                   !.sympair_id = Head(txn.pairs), !.latest_deal_price = 0]
             /\ its' = [b \in Books |-> open_it(orders, Head(txn.pairs), b)]
    <3>1. txn'.phase = "matching" /\ txn'.sympair_id = Head(txn.pairs)
      BY <2>1, <2>4 DEF TxnType
    <3>2. \A b \in Books : is_valid(its'[b]) \/ Book(orders, Head(txn.pairs), b) = {}
      BY <2>1, <2>4, OpenClosed
    <3> QED
      BY <2>2, <3>1, <3>2 DEF UncrossedInv, ClosedOK, UncrossedWhenDone
  <2> QED
    BY <1>7, <2>3, <2>4 DEF OpenPair
<1>8. CASE Deal
  <2>1. txn'.phase = "matching"
    BY <1>8, DealSides DEF CachesInv
  <2> QED
    BY <1>8, <2>1, DealClosed DEF UncrossedInv, UncrossedWhenDone
<1>9. CASE Commit \/ FailedCheck \/ NoneMatched
  BY <1>2, <1>9 DEF Commit, FailedCheck, NoneMatched, Rollback, EndTransaction, Idle
<1>10. CASE UNCHANGED vars
  BY <1>1, <1>10 DEF vars, tables, matching
<1> QED
  BY <1>2, <1>3, <1>4, <1>5, <1>6, <1>7, <1>8, <1>9, <1>10, ClosePairUncrossed
     DEF Next, Ordering, TransactionStep, CachesInv, UncrossedInv

(***************************************************************************)
(* The loop of match_sympair skips nothing, whatever the orders: it ends   *)
(* with two orders that could be matched only when the match count stopped *)
(* it.                                                                     *)
(***************************************************************************)
THEOREM MatchingLeavesUncrossed == Spec => []UncrossedWhenDone
<1>1. Init => UncrossedInv
  BY DEF Init, Idle, UncrossedInv, ClosedOK, UncrossedWhenDone
<1>2. UncrossedInv => UncrossedWhenDone
  BY DEF UncrossedInv
<1> QED
  BY <1>1, <1>2, CachesKept, UncrossedStep, PTL DEF Spec

----------------------------------------------------------------------------
(* What a step does to the row of an order *)

RowKept(i) ==
    /\ i \in DOMAIN Live
    /\ SameTerms(Live'[i], Live[i]) /\ SameTotals(Live'[i], Live[i])
    /\ Live'[i].status \in {Live[i].status, "canceled"}

RowPlaced(i) ==
    \E user \in Traders, p \in DOMAIN sympairs, kind \in OrderKinds, quant \in LimitQuants,
       price \in Prices, ex \in OrderConfigs, signed \in BOOLEAN :
        /\ NewOrder(user, p, kind[1], kind[2], quant, price, ex, signed)
        /\ i = new_auto_inc_id(global.order_id)
        /\ Live'[i] = orders'[i]

RowDealt(i) == Deal /\ i \in {BuyId, SellId}

RowUndone(i) ==
    txn.phase # "idle" /\ i \in DOMAIN undo.orders /\ Live'[i] = undo.orders[i]

(***************************************************************************)
(* Whatever the step, a row that is there after it was there before with   *)
(* the same totals, has been placed, has had a deal, or is back as it was  *)
(* when the transaction began.                                             *)
(***************************************************************************)
LEMMA RowStep ==
    ASSUME IInv, CachesInv, [Next]_vars, NEW i \in DOMAIN Live'
    PROVE  RowKept(i) \/ RowPlaced(i) \/ RowDealt(i) \/ RowUndone(i)
<1>1. IInv' /\ CachesInv'
  BY InductiveStep, CachesStep
<1>2. CASE \/ Administration \/ Tick \/ StartMatch \/ OpenPair \/ ClosePair \/ Commit
           \/ UNCHANGED vars
  <2>1. Live' = Live
    BY <1>2, QuietSteps
  <2> QED
    BY <2>1 DEF RowKept, SameTerms, SameTotals
<1>3. CASE Funds
  <2>1. Live' = Live
    <3>1. UNCHANGED orders /\ txn.phase = "idle" /\ txn'.phase = "idle"
      BY <1>3 DEF Funds, OnTransfer, Withdraw, matching
    <3> QED
      BY <1>1, <3>1, LiveIdle, LiveNextIdle DEF CachesInv
  <2> QED
    BY <2>1 DEF RowKept, SameTerms, SameTotals
<1>4. ASSUME NEW id \in DOMAIN orders, Cancel(id)
      PROVE  RowKept(i)
  <2>1. /\ Live = orders /\ Live' = orders' /\ DOMAIN orders' = DOMAIN orders
        /\ \A j \in DOMAIN orders \ {id} : orders'[j] = orders[j]
        /\ SameTerms(orders'[id], orders[id]) /\ SameTotals(orders'[id], orders[id])
        /\ orders'[id].status = "canceled"
    BY <1>4, CancelRow
  <2> QED
    BY <2>1 DEF RowKept, SameTerms, SameTotals
<1>5. ASSUME NEW user \in Traders, NEW p \in DOMAIN sympairs, NEW kind \in OrderKinds,
             NEW quant \in LimitQuants, NEW price \in Prices, NEW ex \in OrderConfigs,
             NEW signed \in BOOLEAN,
             NewOrder(user, p, kind[1], kind[2], quant, price, ex, signed)
      PROVE  RowKept(i) \/ RowPlaced(i)
  <2>1. Live = orders /\ Live' = orders'
    BY <1>5, LiveNewOrder
  <2>2. /\ DOMAIN orders' = DOMAIN orders \cup {new_auto_inc_id(global.order_id)}
        /\ \A j \in DOMAIN orders : orders'[j] = orders[j]
    BY <1>5, NewOrderRow
  <2>3. CASE i \in DOMAIN orders
    BY <2>1, <2>2, <2>3 DEF RowKept, SameTerms, SameTotals
  <2>4. CASE i = new_auto_inc_id(global.order_id)
    BY <1>5, <2>1, <2>4 DEF RowPlaced
  <2> QED
    BY <2>1, <2>2, <2>3, <2>4
<1>6. CASE Deal
  <2>1. /\ DOMAIN orders' = DOMAIN orders
        /\ \A j \in DOMAIN orders \ {BuyId, SellId} : Live'[j] = Live[j]
    BY <1>6, LiveAfterDeal DEF CachesInv
  <2>2. i \in DOMAIN Live
    BY <2>1, LiveIs
  <2> QED
    BY <1>6, <2>1, <2>2, LiveIs DEF RowKept, RowDealt, SameTerms, SameTotals
<1>7. CASE FailedCheck \/ NoneMatched
  <2>1. orders' = undo.orders /\ txn.phase # "idle" /\ txn'.phase = "idle"
    BY <1>7 DEF FailedCheck, NoneMatched, LoopCondition, Rollback, EndTransaction, Idle
  <2>2. Live' = orders'
    BY <1>1, <2>1, LiveNextIdle
  <2> QED
    BY <2>1, <2>2 DEF RowUndone
<1>8. CASE Cleaning
  <2>1. PICK max_count \in CleanCounts, stale \in BOOLEAN : CleanData(max_count, stale)
    BY <1>8 DEF Cleaning
  <2>2. /\ DOMAIN orders' \subseteq DOMAIN orders
        /\ \A j \in DOMAIN orders' : orders'[j] = orders[j]
        /\ txn.phase = "idle" /\ txn' = txn
    BY <2>1 DEF CleanData, Without, matching
  <2>3. Live = orders /\ Live' = orders'
    BY <1>1, <2>2, LiveIdle, LiveNextIdle DEF CachesInv
  <2> QED
    BY <2>2, <2>3 DEF RowKept, SameTerms, SameTotals
<1> QED
  BY <1>2, <1>3, <1>4, <1>5, <1>6, <1>7, <1>8 DEF Next, Ordering, TransactionStep

\* The copy of the orders is made when a transaction begins, and then kept.
LEMMA UndoStep ==
    ASSUME IInv, CachesInv, [Next]_vars, txn'.phase # "idle"
    PROVE  \/ undo' = undo /\ txn.phase # "idle"
           \/ undo'.orders = Live
<1>1. CASE \/ Administration \/ Tick \/ StartMatch \/ OpenPair \/ ClosePair \/ Commit
           \/ UNCHANGED vars
  <2>1. \/ undo' = undo /\ txn.phase # "idle"
        \/ undo' = Tables /\ txn.phase = "idle"
    BY <1>1, QuietSteps
  <2>2. undo' = Tables /\ txn.phase = "idle" => undo'.orders = Live
    BY LiveIdle DEF Tables, CachesInv
  <2> QED
    BY <2>1, <2>2
<1>2. Funds \/ Cleaning \/ (\E id : Cancel(id)) => txn'.phase = "idle"
  BY DEF Funds, OnTransfer, Withdraw, Cleaning, CleanData, Cancel, matching
<1>3. ASSUME NEW user \in Traders, NEW p \in DOMAIN sympairs, NEW kind \in OrderKinds,
             NEW quant \in LimitQuants, NEW price \in Prices, NEW ex \in OrderConfigs,
             NEW signed \in BOOLEAN,
             NewOrder(user, p, kind[1], kind[2], quant, price, ex, signed)
      PROVE  undo'.orders = Live
  <2>1. Live = orders
    BY <1>3, LiveNewOrder
  <2>2. txn.phase = "idle" /\ (UNCHANGED matching \/ undo' = Tables)
    BY <1>3 DEF NewOrder
  <2> QED
    BY <2>1, <2>2 DEF matching, Tables
<1>4. CASE Deal
  BY <1>4 DEF Deal, LoopCondition
<1>5. FailedCheck \/ NoneMatched => txn'.phase = "idle"
  BY DEF FailedCheck, NoneMatched, Rollback, EndTransaction, Idle
<1> QED
  BY <1>1, <1>2, <1>3, <1>4, <1>5 DEF Next, Ordering, TransactionStep

\* Pairs keep their tokens.
LEMMA TokensStay ==
    ASSUME IInv, CachesInv, [Next]_vars
    PROVE  TokensKept(sympairs, sympairs')
<1>1. CASE \/ Administration \/ Tick \/ StartMatch \/ OpenPair \/ ClosePair \/ Commit
           \/ UNCHANGED vars
  BY <1>1, QuietSteps
<1>2. CASE sympairs' = sympairs
  BY <1>2 DEF TokensKept
<1>3. CASE FailedCheck \/ NoneMatched
  BY <1>3 DEF FailedCheck, NoneMatched, LoopCondition, Rollback, CachesInv, PairsKept, TokensKept
<1>4. Funds \/ Cleaning \/ Deal => sympairs' = sympairs
  BY DEF Funds, OnTransfer, Withdraw, Cleaning, CleanData, Deal
<1>5. Ordering => sympairs' = sympairs
  <2>1. ASSUME NEW user, NEW p, NEW type, NEW side, NEW quant, NEW price, NEW ex, NEW signed,
               NewOrder(user, p, type, side, quant, price, ex, signed)
        PROVE  sympairs' = sympairs
    BY <2>1 DEF NewOrder
  <2>2. ASSUME NEW id, Cancel(id) PROVE sympairs' = sympairs
    BY <2>2 DEF Cancel
  <2> QED
    BY <2>1, <2>2 DEF Ordering
<1> QED
  BY <1>1, <1>2, <1>3, <1>4, <1>5 DEF Next, TransactionStep

----------------------------------------------------------------------------
(* The CHECKs of the loop *)

\* The amount of a deal that counts against the limit of the order of book b.
AmountFor(b) == IF is_market_buy(OrderAt(b)) THEN NextDeal.coins ELSE NextDeal.assets

\* What an iterator has left to match is what its order has.
LEMMA FreeAtRow ==
    ASSUME IInv, CachesInv, EngineInv, txn.phase = "matching", NEW b \in Books, is_valid(its[b])
    PROVE  /\ FreeAt(b) \in Nat \ {0} /\ FreeAt(b) <= OrderAt(b).limit_quant
           /\ OrderAt(b).limit_quant \in LimitQuants /\ OrderAt(b).price \in Prices
<1> DEFINE i == its[b].order_id
<1>1. /\ i \in DOMAIN orders /\ OrderAt(b) = orders[i] /\ orders[i] \in OrderType
      /\ its[b] \in ItType /\ orders[i].status = "matchable"
  BY RowAt DEF OrderAt, InBook
<1>2. CachesFresh
  BY DEF CachesInv
<1>3. SameTerms(Live[i], orders[i]) /\ Live[i].status = orders[i].status
  BY <1>1, <1>2, LiveRow
<1>4. SameTotals(Live[i], its[b])
  BY <1>2, LiveAt
<1>5. RowOpen(Live[i])
  BY <1>1, LiveIs DEF EngineInv
<1> HIDE DEF i
<1>6. FreeAt(b) = free_limit_quant(Live[i], Live[i])
  BY <1>1, <1>3, <1>4 DEF FreeAt, free_limit_quant, is_market_buy, SameTerms, SameTotals
<1>7. FreeAt(b) > 0
  BY <1>1, <1>3, <1>5, <1>6 DEF RowOpen
<1>8. FreeAt(b) \in Nat /\ FreeAt(b) <= OrderAt(b).limit_quant
  BY <1>1, <1>7 DEF FreeAt, free_limit_quant, OrderType, ItType
<1> QED
  BY <1>1, <1>3, <1>5, <1>7, <1>8 DEF RowOpen, SameTerms

(***************************************************************************)
(* The amounts of the next deal: within what both orders have left, and    *)
(* all of it for one of them.                                              *)
(***************************************************************************)
LEMMA NextDealWithin ==
    ASSUME IInv, LoopCondition, CheckFree
    PROVE  LET d == NextDeal
               p == pairing(orders, its)
           IN
           /\ \/ d.buy = p.taker /\ d.sell = p.maker
              \/ d.buy = p.maker /\ d.sell = p.taker
           /\ type_of(p.maker) = "limit" /\ d.price = OrderAt(p.maker).price /\ d.price > 0
           /\ AmountFor(p.taker) <= FreeAt(p.taker) /\ AmountFor(p.maker) <= FreeAt(p.maker)
           /\ AmountFor(p.taker) = FreeAt(p.taker) \/ AmountFor(p.maker) = FreeAt(p.maker)
           /\ d.assets <= FreeAt(p.maker)
<1> DEFINE d == NextDeal
           p == pairing(orders, its)
           price == OrderAt(p.maker).price
           precision == Precision[Pair.asset_symbol]
           amounts == amounts_of(OrderAt(p.taker), FreeAt(p.taker), FreeAt(p.maker), price, precision)
<1>1. /\ txn.phase = "matching" /\ d.buy \in Books /\ d.sell \in Books
      /\ is_valid(its[d.buy]) /\ is_valid(its[d.sell])
      /\ p.taker \in {d.buy, d.sell} /\ p.maker \in {d.buy, d.sell}
      /\ type_of(p.maker) = "limit" /\ d.price = price
  BY NextDealBooks DEF LoopCondition, Maker
<1>2. /\ d.buy = IF side_of(p.taker) = "buy" THEN p.taker ELSE p.maker
      /\ d.sell = IF side_of(p.taker) = "buy" THEN p.maker ELSE p.taker
      /\ d.assets = amounts.assets /\ d.coins = amounts.coins
  BY DEF NextDeal
<1>3. FreeAt(p.taker) \in Nat /\ FreeAt(p.maker) \in Nat
  BY <1>1, FreeType DEF CheckFree, free_ok
<1>4. /\ price \in Nat \ {0} /\ precision \in Nat \ {0}
      /\ ~is_market_buy(OrderAt(p.maker))
  BY <1>1, RowAt, PairType DEF OrderType, InBook, is_market_buy
<1> HIDE DEF d, p, price, precision
<1>5. /\ amounts.assets <= FreeAt(p.maker)
      /\ is_market_buy(OrderAt(p.taker)) =>
             /\ amounts.coins <= FreeAt(p.taker)
             /\ amounts.assets = FreeAt(p.maker) \/ amounts.coins = FreeAt(p.taker)
      /\ ~is_market_buy(OrderAt(p.taker)) =>
             /\ amounts.assets <= FreeAt(p.taker)
             /\ amounts.assets \in {FreeAt(p.maker), FreeAt(p.taker)}
  BY <1>3, <1>4, AmountsWithinLimits
<1> HIDE DEF amounts
<1>6. /\ AmountFor(p.taker) <= FreeAt(p.taker) /\ AmountFor(p.maker) <= FreeAt(p.maker)
      /\ AmountFor(p.taker) = FreeAt(p.taker) \/ AmountFor(p.maker) = FreeAt(p.maker)
  BY <1>2, <1>4, <1>5 DEF AmountFor, d
<1>7. price > 0
  BY <1>4
<1> QED
  BY <1>1, <1>2, <1>5, <1>6, <1>7 DEF d, p, price, amounts

\* A deal leaves neither order with less than nothing, and one of them with nothing.
LEMMA LimitsHold ==
    ASSUME IInv, CachesInv, LoopCondition, CheckFree
    PROVE  /\ CheckLimits(NextDeal) /\ CheckCompleted(NextDeal)
           /\ \A b \in {NextDeal.buy, NextDeal.sell} : FreeAt(b) \in Nat
<1> DEFINE d == NextDeal
<1>1. /\ txn.phase = "matching" /\ d.buy \in Books /\ d.sell \in Books
      /\ is_valid(its[d.buy]) /\ is_valid(its[d.sell])
  BY NextDealBooks DEF LoopCondition
<1>2. d.assets \in Nat /\ d.coins \in Nat /\ d.buy_fee \in Nat /\ d.sell_fee \in Nat
  BY NextDealAmounts
<1>3. /\ AmountFor(d.buy) <= FreeAt(d.buy) /\ AmountFor(d.sell) <= FreeAt(d.sell)
      /\ AmountFor(d.buy) = FreeAt(d.buy) \/ AmountFor(d.sell) = FreeAt(d.sell)
  BY NextDealWithin
<1>4. /\ OrderAt(d.buy) \in OrderType /\ its[d.buy] \in ItType
      /\ OrderAt(d.sell) \in OrderType /\ its[d.sell] \in ItType
      /\ its[d.buy].refund_coins = 0 /\ its[d.sell].refund_coins = 0 /\ NextDealId \in Ids
  BY <1>1, RowAt, NextDealIdType DEF IInv, CachesInv, CachesFresh
<1>5. /\ BuyIt(d) = matched_it(OrderAt(d.buy), its[d.buy], NextDealId, d.assets, d.coins, d.buy_fee)
      /\ SellIt(d) = matched_it(OrderAt(d.sell), its[d.sell], NextDealId, d.assets, d.coins, d.sell_fee)
  BY DEF BuyIt, SellIt
<1>6. /\ \A b : AmountFor(b) = IF is_market_buy(OrderAt(b)) THEN d.coins ELSE d.assets
  BY DEF AmountFor
<1> HIDE DEF d
<1>7. /\ MatchedFrom(OrderAt(d.buy), its[d.buy], BuyIt(d), NextDealId, d.assets, d.coins, d.buy_fee)
      /\ MatchedFrom(OrderAt(d.sell), its[d.sell], SellIt(d), NextDealId, d.assets, d.coins, d.sell_fee)
  BY <1>2, <1>4, <1>5, MatchedItFacts
<1>8. /\ free_limit_quant(OrderAt(d.buy), BuyIt(d)) = FreeAt(d.buy) - AmountFor(d.buy)
      /\ is_completed(BuyIt(d)) <=> AmountFor(d.buy) = FreeAt(d.buy)
      /\ FreeAt(d.buy) \in Int /\ AmountFor(d.buy) \in Int
  BY <1>2, <1>4, <1>6, <1>7 DEF MatchedFrom, FreeAt, free_limit_quant, match_completes, is_completed,
                                OrderType, ItType
<1>9. /\ free_limit_quant(OrderAt(d.sell), SellIt(d)) = FreeAt(d.sell) - AmountFor(d.sell)
      /\ is_completed(SellIt(d)) <=> AmountFor(d.sell) = FreeAt(d.sell)
      /\ FreeAt(d.sell) \in Int /\ AmountFor(d.sell) \in Int
  BY <1>2, <1>4, <1>6, <1>7 DEF MatchedFrom, FreeAt, free_limit_quant, match_completes, is_completed,
                                OrderType, ItType
<1>10. AmountFor(d.buy) \in Nat /\ AmountFor(d.sell) \in Nat
  BY <1>2, <1>6
<1>11. CheckLimits(d)
  BY <1>3, <1>8, <1>9 DEF CheckLimits, limit_quant_ok
<1>12. CheckCompleted(d)
  BY <1>3, <1>8, <1>9 DEF CheckCompleted
<1> QED
  BY <1>3, <1>8, <1>9, <1>10, <1>11, <1>12 DEF d


(***************************************************************************)
(* Within the range, and as long as the ids of deals last, the CHECKs of   *)
(* the loop on free quantities, amounts, fees, limits, completion and the  *)
(* deal's id pass.                                                         *)
(***************************************************************************)
LEMMA ChecksInRange ==
    ASSUME IInv, CachesInv, EngineInv, DealsInv, DealIdsLeft, AmountsInRange
    PROVE  EngineChecksHold
<1> SUFFICES ASSUME LoopCondition
             PROVE  /\ CheckFree /\ CheckAmounts
                    /\ CheckFees(NextDeal) /\ CheckLimits(NextDeal)
                    /\ CheckCompleted(NextDeal) /\ CheckDealId
  BY DEF EngineChecksHold
<1> DEFINE d == NextDeal
           p == pairing(orders, its)
           price == OrderAt(p.maker).price
           precision == Precision[Pair.asset_symbol]
           amounts == amounts_of(OrderAt(p.taker), FreeAt(p.taker), FreeAt(p.maker), price, precision)
           all_coins == takes_all_coins(OrderAt(p.taker), FreeAt(p.taker), FreeAt(p.maker),
                                        price, precision)
<1>1. PICK Q \in Nat, P \in Nat : InRange(Q, P)
  BY DEF AmountsInRange
<1>2. /\ txn.phase = "matching" /\ p.taker \in Books /\ p.maker \in Books
      /\ is_valid(its[p.taker]) /\ is_valid(its[p.maker])
  BY PairingFacts, BookFacts DEF LoopCondition
<1>3. /\ FreeAt(p.taker) \in Nat \ {0} /\ FreeAt(p.taker) <= Q
      /\ FreeAt(p.maker) \in Nat \ {0} /\ FreeAt(p.maker) <= Q /\ price <= P /\ price \in Nat
  <2>1. \A b \in {p.taker, p.maker} :
            /\ FreeAt(b) \in Nat \ {0} /\ FreeAt(b) <= OrderAt(b).limit_quant
            /\ OrderAt(b).limit_quant \in LimitQuants /\ OrderAt(b).price \in Prices
    BY <1>2, FreeAtRow
  <2>2. LimitQuants \subseteq 1 .. Q /\ Prices \subseteq 0 .. P
    BY <1>1 DEF InRange
  <2> HIDE DEF p
  <2>3. ASSUME NEW b \in {p.taker, p.maker}
        PROVE  FreeAt(b) \in Nat \ {0} /\ FreeAt(b) <= Q /\ OrderAt(b).price \in 0 .. P
    <3>1. OrderAt(b).limit_quant \in 1 .. Q /\ OrderAt(b).price \in 0 .. P
      BY <2>1, <2>2
    <3> QED
      BY <2>1, <3>1
  <2> QED
    BY <2>3
<1>4. CheckFree
  BY <1>3 DEF CheckFree, free_ok
<1>5. CheckLimits(d) /\ CheckCompleted(d)
  BY <1>4, LimitsHold
<1>6. CheckDealId
  <2>1. global.deal_item_id \in Ids
    BY TypeParts DEF IInv, GlobalType
  <2>2. NextDealId = global.deal_item_id + 1
    BY <2>1, ConstantsAssumption DEF NextDealId, new_auto_inc_id, DealIdsLeft, Ids
  <2>3. DOMAIN deals \subseteq 1 .. global.deal_item_id
    BY DEF DealsInv, DealsGood, DealsFollow
  <2> QED
    BY <2>1, <2>2, <2>3 DEF CheckDealId, Ids
<1>7. /\ d.assets = amounts.assets /\ d.coins = amounts.coins
      /\ d.assets \in Nat /\ d.coins \in Nat
      /\ d.assets <= FreeAt(p.maker) /\ price > 0
      /\ AmountFor(p.taker) = FreeAt(p.taker) \/ AmountFor(p.maker) = FreeAt(p.maker)
      /\ d.buy \in Books /\ is_valid(its[d.buy]) /\ d.sell \in Books /\ is_valid(its[d.sell])
  BY <1>4, NextDealWithin, NextDealAmounts, NextDealBooks DEF NextDeal
<1>8. \A b : AmountFor(b) = IF is_market_buy(OrderAt(b)) THEN d.coins ELSE d.assets
  BY DEF AmountFor
<1>9. /\ precision \in Nat \ {0}
      /\ multiply_fits(Q, P, precision) /\ divide_fits(Q, 1, precision)
  BY <1>1, <1>2, PairType DEF InRange
<1>10. amounts.coins = IF all_coins THEN FreeAt(p.taker)
                       ELSE calc_coin_amount(amounts.assets, price, precision)
  BY DEF amounts_of
<1>11. \A b \in {d.buy, d.sell} : fee_ratio(OrderAt(b), d.taker_side) \in Ratios
  BY <1>2, <1>7, RowAt DEF fee_ratio, OrderType
<1> HIDE DEF d, p, price, precision, all_coins, amounts
<1>12. multiply_fits(d.assets, price, precision)
  <2>1. d.assets <= Q
    BY <1>3, <1>7
  <2> QED
    BY <1>3, <1>7, <1>9, <2>1, SmallerFits
<1>13. CheckAmounts
  <2>1. divide_fits(FreeAt(p.taker), price, precision)
    BY <1>3, <1>7, <1>9, QuotientFits
  <2>2. amounts.assets > 0 \/ amounts.coins > 0
    BY <1>3, <1>7, <1>8
  <2> QED
    BY <1>7, <1>12, <2>1, <2>2 DEF CheckAmounts, amounts_ok, amounts, p, price, precision
<1>14. ASSUME NEW ratio \in Ratios, NEW quant \in Nat,
              quant # 0 => multiply_fits(quant, ratio, RATIO_PRECISION)
       PROVE  match_fee_ok(ratio, quant)
  <2>1. ratio \in Nat /\ validate_fee_ratio(ratio)
    BY RatioAssumption DEF Ratios, validate_fee_ratio
  <2> QED
    BY <1>14, <2>1, FeeBelowQuantity DEF match_fee_ok
<1>15. ASSUME NEW ratio \in Ratios, NEW quant \in Nat, quant <= Q
       PROVE  multiply_fits(quant, ratio, RATIO_PRECISION)
  <2>1. ratio \in Nat /\ validate_fee_ratio(ratio)
    BY RatioAssumption DEF Ratios, validate_fee_ratio
  <2>2. 10 * Q <= Int64Max
    <3>1. (10 * Q * precision) \div 1 <= Int64Max
      BY <1>9 DEF divide_fits
    <3>2. 10 * Q * precision \in Nat /\ 10 * Q \in Nat
      BY <1>9, ProductNat
    <3>3. (10 * Q) * 1 <= (10 * Q) * precision
      BY <1>9, <3>2, ProductMonotone
    <3> QED
      BY <3>1, <3>2, <3>3, Int64Assumption
  <2>3. 5 * quant <= Int64Max
    BY <1>15, <2>2, Int64Assumption
  <2> QED
    BY <2>1, <2>3, FeeFits
<1>16. ASSUME NEW ratio \in Ratios
       PROVE  match_fee_ok(ratio, d.coins) /\ match_fee_ok(ratio, d.assets)
  <2>1. ratio \in Nat /\ validate_fee_ratio(ratio)
    BY RatioAssumption DEF Ratios, validate_fee_ratio
  <2>2. d.assets <= Q
    BY <1>3, <1>7
  <2>3. CASE all_coins
    BY <1>3, <1>7, <1>10, <1>14, <1>15, <2>2, <2>3
  <2>4. CASE ~all_coins
    <3>1. d.coins = calc_coin_amount(d.assets, price, precision)
      BY <1>7, <1>10, <2>4
    <3>2. d.coins # 0 => multiply_fits(d.coins, ratio, RATIO_PRECISION)
      BY <1>3, <1>7, <1>9, <1>12, <2>1, <3>1, CoinFeeFits
    <3> QED
      BY <1>7, <1>14, <1>15, <2>2, <3>2
  <2> QED
    BY <2>3, <2>4
<1>17. CheckFees(d)
  BY <1>11, <1>16 DEF CheckFees
<1> QED
  BY <1>4, <1>5, <1>6, <1>13, <1>17 DEF d

\* The order of a deal keeps something to be matched, or is completed.
LEMMA DealtRowOpen ==
    ASSUME IInv, CachesInv, EngineInv, Deal, NEW i \in {BuyId, SellId}
    PROVE  RowOpen(Live'[i])
<1> DEFINE d == NextDeal
           after(o, it, new, fee) ==
               MatchedFrom(o, it, new, NextDealId, d.assets, d.coins, fee)
<1>1. /\ CachesFresh /\ txn.phase = "matching" /\ CheckLimits(d)
  BY DEF CachesInv, Deal, ChecksPass, LoopCondition
<1>2. /\ d.buy \in Books /\ is_valid(its[d.buy]) /\ d.sell \in Books /\ is_valid(its[d.sell])
      /\ d.assets \in Nat /\ d.coins \in Nat
      /\ OrderAt(d.buy) = orders[BuyId] /\ OrderAt(d.sell) = orders[SellId]
      /\ orders[BuyId] \in OrderType /\ orders[SellId] \in OrderType
      /\ after(orders[BuyId], its[d.buy], BuyIt(d), d.buy_fee)
      /\ after(orders[SellId], its[d.sell], SellIt(d), d.sell_fee)
  BY <1>1, DealSides
<1>3. /\ BuyId \in DOMAIN orders /\ SellId \in DOMAIN orders
      /\ Added(Live[BuyId], Live'[BuyId], d.assets, d.coins, d.buy_fee, NextDealId,
               IF is_completed(BuyIt(d)) THEN "completed" ELSE "matchable")
      /\ Added(Live[SellId], Live'[SellId], d.assets, d.coins, d.sell_fee, NextDealId,
               IF is_completed(SellIt(d)) THEN "completed" ELSE "matchable")
  BY <1>1, LiveAfterDeal
<1>4. /\ SameTotals(Live[BuyId], its[d.buy]) /\ SameTotals(Live[SellId], its[d.sell])
      /\ its[d.buy] \in ItType /\ its[d.sell] \in ItType
  BY <1>1, <1>2, LiveAt, RowAt DEF BuyId, SellId
<1>5. /\ SameTerms(Live[BuyId], orders[BuyId]) /\ SameTerms(Live[SellId], orders[SellId])
      /\ RowOpen(Live[BuyId]) /\ RowOpen(Live[SellId])
  BY <1>1, <1>3, LiveRow, LiveIs DEF EngineInv
<1>6. /\ free_limit_quant(orders[BuyId], BuyIt(d)) >= 0
      /\ free_limit_quant(orders[SellId], SellIt(d)) >= 0
  BY <1>1, <1>2 DEF CheckLimits, limit_quant_ok
<1> HIDE DEF d
<1>7. ASSUME NEW o \in OrderType, NEW it \in ItType, NEW new, NEW fee, NEW r, NEW r2,
             after(o, it, new, fee), free_limit_quant(o, new) >= 0,
             SameTerms(r, o), SameTotals(r, it), RowOpen(r),
             Added(r, r2, d.assets, d.coins, fee, NextDealId,
                   IF is_completed(new) THEN "completed" ELSE "matchable")
      PROVE  RowOpen(r2)
  <2>1. /\ r2.limit_quant \in LimitQuants /\ r2.price \in Prices
    BY <1>7 DEF RowOpen, Added, SameTerms
  <2>2. CASE is_completed(new)
    BY <1>7, <2>1, <2>2 DEF RowOpen, Added
  <2>3. CASE ~is_completed(new)
    <3>1. ~match_completes(o, new)
      BY <1>7, <2>3 DEF MatchedFrom, is_completed
    <3>2. /\ r2.matched_assets = new.matched_assets /\ r2.matched_coins = new.matched_coins
          /\ (is_market_buy(r2) <=> is_market_buy(o)) /\ r2.limit_quant = o.limit_quant
          /\ new.matched_assets \in Nat /\ new.matched_coins \in Nat
      BY <1>2, <1>7 DEF MatchedFrom, Added, SameTotals, SameTerms, is_market_buy, ItType
    <3>3. free_limit_quant(r2, r2) = free_limit_quant(o, new)
      BY <3>2 DEF free_limit_quant
    <3>4. free_limit_quant(o, new) # 0 /\ free_limit_quant(o, new) \in Int
      BY <3>1, <3>2 DEF free_limit_quant, match_completes, OrderType
    <3> QED
      BY <1>7, <2>1, <3>3, <3>4 DEF RowOpen
  <2> QED
    BY <2>2, <2>3
<1> HIDE DEF after
<1> QED
  BY <1>2, <1>3, <1>4, <1>5, <1>6, <1>7

LEMMA EngineStep ==
    ASSUME IInv, CachesInv, EngineInv, 0 \notin LimitQuants, [Next]_vars
    PROVE  EngineInv'
<1>1. ASSUME NEW i \in DOMAIN Live' PROVE RowOpen(Live'[i])
  <2>1. CASE RowKept(i)
    BY <2>1 DEF RowKept, EngineInv, RowOpen, SameTerms, SameTotals, free_limit_quant, is_market_buy
  <2>2. CASE RowPlaced(i)
    <3>1. PICK user \in Traders, p \in DOMAIN sympairs, kind \in OrderKinds, quant \in LimitQuants,
               price \in Prices, ex \in OrderConfigs, signed \in BOOLEAN :
              /\ NewOrder(user, p, kind[1], kind[2], quant, price, ex, signed)
              /\ i = new_auto_inc_id(global.order_id) /\ Live'[i] = orders'[i]
      BY <2>2 DEF RowPlaced
    <3>2. /\ Live'[i].limit_quant = quant /\ Live'[i].price = price
          /\ Live'[i].matched_assets = 0 /\ Live'[i].matched_coins = 0
      BY <3>1, NewOrderRow
    <3>3. quant \in Nat /\ quant # 0
      BY InputsAssumption
    <3> QED
      BY <3>2, <3>3 DEF RowOpen, free_limit_quant
  <2>3. CASE RowDealt(i)
    BY <2>3, DealtRowOpen DEF RowDealt
  <2>4. CASE RowUndone(i)
    BY <2>4 DEF RowUndone, EngineInv
  <2> QED
    BY <2>1, <2>2, <2>3, <2>4, RowStep
<1>2. ASSUME txn'.phase # "idle" PROVE \A i \in DOMAIN undo'.orders : RowOpen(undo'.orders[i])
  BY <1>2, UndoStep DEF EngineInv
<1> QED
  BY <1>1, <1>2 DEF EngineInv, RowOpen

LEMMA InitEngine == Init => EngineInv
<1> SUFFICES ASSUME Init PROVE EngineInv
  OBVIOUS
<1>1. txn.phase = "idle" /\ DOMAIN orders = {}
  BY DEF Init, Idle, EmptyTable
<1> QED
  BY <1>1, LiveIs DEF EngineInv

(***************************************************************************)
(* The CHECKs of match_sympair that state facts about the engine never     *)
(* fire, whatever the orders, as long as their quantities and prices are   *)
(* in a range in which the products fit 64 bits, none of them is an order  *)
(* for nothing, and the ids of deals last.                                 *)
(***************************************************************************)
THEOREM EngineNeverFails == AmountsInRange => (Spec /\ []DealIdsLeft => []EngineChecksHold)
<1> SUFFICES ASSUME AmountsInRange PROVE Spec /\ []DealIdsLeft => []EngineChecksHold
  OBVIOUS
<1>1. 0 \notin LimitQuants
  BY DEF AmountsInRange, InRange
<1>2. IInv /\ CachesInv /\ EngineInv /\ [Next]_vars => EngineInv'
  BY <1>1, EngineStep
<1>3. IInv /\ CachesInv /\ DealsInv /\ EngineInv /\ DealIdsLeft => EngineChecksHold
  BY ChecksInRange
<1> QED
  BY <1>2, <1>3, InitEngine, DealsKept, PTL DEF Spec

----------------------------------------------------------------------------
(* The coins a buy order has frozen *)

\* The price factor of an order's pair, and what it pays for an amount of assets.
PrecisionOf(o) == Precision[sympairs[o.sympair_id].asset_symbol]
CostOf(o, assets) == calc_coin_amount(assets, o.price, PrecisionOf(o))

LEMMA RowPaidIs ==
    \A o : RowPaid(o) <=>
        /\ o.price \in Prices
        /\ o.order_side = "buy" =>
               /\ o.fee_symbol = "asset"
               /\ o.order_type # "limit" => o.frozen_quant = o.limit_quant
               /\ o.order_type = "limit" => /\ o.frozen_quant = CostOf(o, o.limit_quant)
                                            /\ o.matched_coins <= CostOf(o, o.matched_assets)
BY DEF RowPaid, CostOf, PrecisionOf

\* The same, of a table of pairs: pairs, which a step may change, keep their tokens.
PaidIn(pairs, o) ==
    LET cost(assets) ==
            calc_coin_amount(assets, o.price, Precision[pairs[o.sympair_id].asset_symbol])
    IN  /\ o.price \in Prices
        /\ o.order_side = "buy" =>
               /\ o.fee_symbol = "asset"
               /\ o.order_type # "limit" => o.frozen_quant = o.limit_quant
               /\ o.order_type = "limit" => /\ o.frozen_quant = cost(o.limit_quant)
                                            /\ o.matched_coins <= cost(o.matched_assets)

LEMMA FrozenForms ==
    /\ FrozenInv <=> /\ \A i \in DOMAIN Live : PaidIn(sympairs, Live[i])
                     /\ txn.phase # "idle" =>
                            \A i \in DOMAIN undo.orders : PaidIn(sympairs, undo.orders[i])
    /\ FrozenInv' <=> /\ \A i \in DOMAIN Live' : PaidIn(sympairs', Live'[i])
                      /\ txn'.phase # "idle" =>
                             \A i \in DOMAIN undo'.orders : PaidIn(sympairs', undo'.orders[i])
BY DEF FrozenInv, RowPaid, PaidIn

\* Rows that agree are paid alike.
LEMMA PaidAlike ==
    ASSUME NEW pairs, NEW pairs2, TokensKept(pairs, pairs2),
           NEW o, NEW q, SameTerms(q, o), SameTotals(q, o),
           o.sympair_id \in DOMAIN pairs, PaidIn(pairs, o)
    PROVE  PaidIn(pairs2, q)
<1>1. pairs2[o.sympair_id].asset_symbol = pairs[o.sympair_id].asset_symbol
  BY DEF TokensKept
<1> QED
  BY <1>1 DEF PaidIn, SameTerms, SameTotals

\* The buy order of the next deal, when prices are whole: the coins of the deal are
\* what the assets cost at the deal's price, or are within a limit in coins.
LEMMA DealCost ==
    ASSUME IInv, CachesInv, FrozenInv, WholePrices, LoopCondition, CheckFree
    PROVE  LET d == NextDeal
               r == Live[its[d.buy].order_id]
               o == OrderAt(d.buy)
           IN
           /\ r \in OrderType /\ SameTerms(r, o) /\ SameTotals(r, its[d.buy]) /\ RowPaid(r)
           /\ r.order_side = "buy" /\ d.coins \in Nat /\ d.assets \in Nat
           /\ r.order_type # "limit" => r.matched_coins + d.coins <= r.limit_quant
           /\ r.order_type = "limit" =>
                  /\ r.matched_coins + d.coins <= CostOf(r, r.matched_assets + d.assets)
                  /\ CostOf(r, r.matched_assets + d.assets) <= CostOf(r, r.limit_quant)
<1> DEFINE d == NextDeal
           p == pairing(orders, its)
           o == OrderAt(d.buy)
           r == Live[its[d.buy].order_id]
           precision == Precision[Pair.asset_symbol]
<1>1. /\ txn.phase = "matching" /\ d.buy \in Books /\ is_valid(its[d.buy])
      /\ p.maker \in Books /\ is_valid(its[p.maker])
      /\ side_of(d.buy) = "buy" /\ side_of(d.sell) = "sell"
      /\ d.sell \in Books /\ is_valid(its[d.sell])
      /\ p.taker \in {d.buy, d.sell}
      /\ type_of(d.buy) = "limit" => d.price <= o.price
  BY NextDealBooks, PairingFacts, BookFacts DEF LoopCondition
<1>2. /\ d.price = OrderAt(p.maker).price
      /\ AmountFor(d.buy) <= FreeAt(d.buy) /\ FreeAt(d.buy) \in Nat
      /\ d.coins \in Nat /\ d.assets \in Nat
  BY NextDealWithin, LimitsHold, NextDealAmounts
<1>3. CachesFresh
  BY DEF CachesInv
<1>4. ASSUME NEW b \in Books, is_valid(its[b])
      PROVE  LET q == Live[its[b].order_id] IN
             /\ q \in OrderType /\ SameTerms(q, OrderAt(b)) /\ SameTotals(q, its[b]) /\ RowPaid(q)
             /\ q.price \in Prices
  <2>1. its[b].order_id \in DOMAIN orders
    BY <1>1, <1>4, RowAt
  <2>2. RowPaid(Live[its[b].order_id])
    BY <2>1, LiveIs DEF FrozenInv
  <2> QED
    BY <1>1, <1>3, <1>4, <2>1, <2>2, LiveRow, LiveAt, RowPaidIs DEF OrderAt
<1>5. /\ r \in OrderType /\ SameTerms(r, o) /\ SameTotals(r, its[d.buy]) /\ RowPaid(r)
      /\ r.price \in Prices /\ d.price \in Prices
  <2>1. OrderAt(p.maker).price \in Prices
    BY <1>1, <1>4 DEF SameTerms
  <2> QED
    BY <1>1, <1>2, <1>4, <2>1
<1>6. /\ o.order_side = "buy" /\ o.order_type = type_of(d.buy) /\ o.sympair_id = txn.sympair_id
      /\ o \in OrderType /\ its[d.buy] \in ItType
      /\ OrderAt(d.sell).order_side = "sell"
  BY <1>1, RowAt DEF InBook
<1>7. precision \in Nat \ {0} /\ PrecisionOf(r) = precision
  BY <1>1, <1>5, <1>6, PairType DEF PrecisionOf, Pair, SameTerms
<1>8. /\ AmountFor(d.buy) = IF is_market_buy(o) THEN d.coins ELSE d.assets
      /\ FreeAt(d.buy) = free_limit_quant(o, its[d.buy])
  BY DEF AmountFor, FreeAt
<1>9. o.order_type = "limit" => d.coins = calc_coin_amount(d.assets, d.price, precision)
  <2>1. ~is_market_buy(OrderAt(d.sell)) /\ (o.order_type = "limit" => ~is_market_buy(o))
    BY <1>6 DEF is_market_buy
  <2>2. o.order_type = "limit" => ~is_market_buy(OrderAt(p.taker))
    BY <1>1, <2>1
  <2> QED
    BY <1>2, <2>2 DEF NextDeal, amounts_of, takes_all_coins
<1> HIDE DEF d, p, o, r, precision
<1>10. /\ r.matched_coins = its[d.buy].matched_coins
       /\ r.matched_assets = its[d.buy].matched_assets
       /\ r.order_side = o.order_side /\ r.order_type = o.order_type
       /\ r.limit_quant = o.limit_quant /\ r.price = o.price
       /\ r.matched_coins \in Nat /\ r.matched_assets \in Nat /\ r.limit_quant \in Nat
       /\ r.price \in Nat
  BY <1>5 DEF SameTerms, SameTotals, OrderType
<1>11. CASE o.order_type = "limit"
  <2>1. r.matched_assets + d.assets <= r.limit_quant
    BY <1>2, <1>6, <1>8, <1>10, <1>11 DEF is_market_buy, free_limit_quant
  <2>2. /\ r.price % precision = 0 /\ d.price % precision = 0
        /\ d.price \in Nat /\ d.price <= r.price
    <3>1. precision \in {Precision[t] : t \in Tokens}
      BY <1>1, PairType DEF precision
    <3> QED
      BY <1>1, <1>5, <1>6, <1>10, <1>11, <3>1, InputsAssumption DEF WholePrices
  <2>3. r.matched_coins <= calc_coin_amount(r.matched_assets, r.price, precision)
    BY <1>5, <1>6, <1>7, <1>10, <1>11, RowPaidIs DEF CostOf
  <2>4. /\ calc_coin_amount(r.matched_assets, r.price, precision)
               + calc_coin_amount(d.assets, d.price, precision)
           <= calc_coin_amount(r.matched_assets + d.assets, r.price, precision)
        /\ calc_coin_amount(r.matched_assets, r.price, precision) \in Nat
        /\ calc_coin_amount(d.assets, d.price, precision) \in Nat
        /\ calc_coin_amount(r.matched_assets + d.assets, r.price, precision) \in Nat
    BY <1>2, <1>7, <1>10, <2>2, WholeCosts
  <2>5. calc_coin_amount(r.matched_assets + d.assets, r.price, precision)
            <= calc_coin_amount(r.limit_quant, r.price, precision)
    <3> DEFINE more == r.limit_quant - (r.matched_assets + d.assets)
               n == r.matched_assets + d.assets
    <3>1. more \in Nat /\ n \in Nat /\ n + more = r.limit_quant
      BY <1>2, <1>10, <2>1
    <3> HIDE DEF more, n
    <3>2. calc_coin_amount(n, r.price, precision) <= calc_coin_amount(n + more, r.price, precision)
      BY <1>7, <1>10, <2>2, <3>1, WholeCosts
    <3> QED
      BY <3>1, <3>2 DEF n
  <2>6. r.matched_coins + d.coins
            <= calc_coin_amount(r.matched_assets + d.assets, r.price, precision)
    BY <1>2, <1>9, <1>10, <1>11, <2>3, <2>4
  <2> QED
    BY <1>2, <1>5, <1>6, <1>7, <1>10, <1>11, <2>5, <2>6 DEF CostOf, d, o, r
<1>12. CASE o.order_type # "limit"
  <2>1. is_market_buy(o)
    BY <1>6, <1>12 DEF is_market_buy, type_of
  <2>2. r.matched_coins + d.coins <= r.limit_quant
    BY <1>2, <1>8, <1>10, <2>1 DEF free_limit_quant
  <2> QED
    BY <1>2, <1>5, <1>6, <1>10, <1>12, <2>2 DEF d, o, r
<1> QED
  BY <1>11, <1>12

LEMMA FrozenEnough ==
    ASSUME IInv, CachesInv, FrozenInv, WholePrices
    PROVE  FrozenSuffices
<1> SUFFICES ASSUME LoopCondition, CheckFree PROVE CheckFrozen(NextDeal)
  BY DEF FrozenSuffices
<1> DEFINE d == NextDeal
           r == Live[its[d.buy].order_id]
           o == OrderAt(d.buy)
<1>1. /\ r \in OrderType /\ SameTerms(r, o) /\ SameTotals(r, its[d.buy]) /\ RowPaid(r)
      /\ r.order_side = "buy" /\ d.coins \in Nat /\ d.assets \in Nat
      /\ r.order_type # "limit" => r.matched_coins + d.coins <= r.limit_quant
      /\ r.order_type = "limit" =>
             /\ r.matched_coins + d.coins <= CostOf(r, r.matched_assets + d.assets)
             /\ CostOf(r, r.matched_assets + d.assets) <= CostOf(r, r.limit_quant)
  BY DealCost
<1>2. /\ r.fee_symbol = "asset"
      /\ r.order_type # "limit" => r.frozen_quant = r.limit_quant
      /\ r.order_type = "limit" => r.frozen_quant = CostOf(r, r.limit_quant)
  BY <1>1, RowPaidIs
<1>3. /\ o \in OrderType /\ its[d.buy] \in ItType /\ its[d.buy].refund_coins = 0
      /\ NextDealId \in Ids /\ d.buy_fee \in Nat
      /\ BuyIt(d) = matched_it(o, its[d.buy], NextDealId, d.assets, d.coins, d.buy_fee)
  BY NextDealBooks, NextDealAmounts, RowAt, NextDealIdType
     DEF LoopCondition, IInv, CachesInv, CachesFresh, BuyIt
<1> HIDE DEF d, r, o
<1>4. BuyIt(d).matched_coins = its[d.buy].matched_coins + d.coins
  BY <1>1, <1>3, MatchedItFacts DEF MatchedFrom
<1>5. total_matched_coins(o, BuyIt(d)) = r.matched_coins + d.coins
  BY <1>1, <1>2, <1>3, <1>4 DEF total_matched_coins, SameTerms, SameTotals, OrderType
<1>6. r.matched_coins + d.coins <= o.frozen_quant
  <2>1. o.frozen_quant = r.frozen_quant /\ r.frozen_quant \in Nat /\ r.matched_coins \in Nat
    BY <1>1 DEF SameTerms, OrderType
  <2>2. CASE r.order_type # "limit"
    BY <1>1, <1>2, <2>1, <2>2
  <2>3. CASE r.order_type = "limit"
    <3>1. CostOf(r, r.matched_assets + d.assets) \in Nat
      <4>1. /\ r.matched_assets + d.assets \in Nat /\ r.price \in Nat
        BY <1>1 DEF OrderType
      <4>2. PrecisionOf(r) \in Nat \ {0}
        BY <1>1, NextDealBooks, RowAt, PairType DEF PrecisionOf, Pair, SameTerms, InBook,
           LoopCondition, d, o
      <4> QED
        BY <4>1, <4>2, MultiplyNat DEF CostOf, calc_coin_amount
    <3> QED
      BY <1>1, <1>2, <2>1, <2>3, <3>1
  <2> QED
    BY <2>2, <2>3
<1> QED
  BY <1>5, <1>6 DEF CheckFrozen, frozen_quant_ok, d, o

LEMMA FrozenStep ==
    ASSUME IInv, CachesInv, FrozenInv, WholePrices, NoCoinFee, [Next]_vars
    PROVE  FrozenInv'
<1>1. TokensKept(sympairs, sympairs')
  BY TokensStay
<1>2. /\ \A i \in DOMAIN Live : Live[i].sympair_id \in DOMAIN sympairs
      /\ \A i \in DOMAIN undo.orders : undo.orders[i].sympair_id \in DOMAIN sympairs
  BY LiveFunded DEF CachesInv, RowsFunded
<1>3. /\ \A i \in DOMAIN Live : PaidIn(sympairs, Live[i])
      /\ txn.phase # "idle" => \A i \in DOMAIN undo.orders : PaidIn(sympairs, undo.orders[i])
  BY FrozenForms
<1>4. ASSUME NEW o, PaidIn(sympairs, o), o.sympair_id \in DOMAIN sympairs
      PROVE  PaidIn(sympairs', o)
  BY <1>1, <1>4, PaidAlike DEF SameTerms, SameTotals
<1>5. ASSUME NEW i \in DOMAIN Live' PROVE PaidIn(sympairs', Live'[i])
  <2>1. CASE RowKept(i)
    BY <1>1, <1>2, <1>3, <2>1, PaidAlike DEF RowKept
  <2>2. CASE RowPlaced(i)
    <3>1. PICK user \in Traders, p \in DOMAIN sympairs, kind \in OrderKinds, quant \in LimitQuants,
               price \in Prices, ex \in OrderConfigs, signed \in BOOLEAN :
              /\ NewOrder(user, p, kind[1], kind[2], quant, price, ex, signed)
              /\ i = new_auto_inc_id(global.order_id) /\ Live'[i] = orders'[i]
      BY <2>2 DEF RowPlaced
    <3> DEFINE o == Live'[i]
               cost(n) == calc_coin_amount(n, price, Precision[sympairs[p].asset_symbol])
    <3>2. /\ o.limit_quant = quant /\ o.price = price /\ o.sympair_id = p
          /\ o.order_side = kind[2] /\ o.order_type = kind[1] /\ o.matched_coins = 0
          /\ o.matched_assets = 0 /\ sympairs' = sympairs
          /\ o.fee_symbol = IF kind[2] = "buy" /\ ~sympairs[p].only_accept_coin_fee
                             THEN "asset" ELSE "coin"
          /\ o.frozen_quant = frozen_quant_of(sympairs[p], kind[1], kind[2], quant, price,
                                              order_ratios(ex).taker)
      BY <3>1, NewOrderRow
    <3>3. ~sympairs[p].only_accept_coin_fee
      BY DEF NoCoinFee
    <3>4. /\ quant \in Nat /\ price \in Nat
          /\ Precision[sympairs[p].asset_symbol] \in Nat \ {0}
      <4>1. sympairs[p] \in SympairType
        BY TypeParts, RowType DEF IInv
      <4> QED
        BY <4>1, InputsAssumption, ConstantsAssumption DEF SympairType
    <3>5. cost(0) \in Nat /\ cost(quant) \in Nat
      BY <3>4, MultiplyNat DEF calc_coin_amount
    <3>6. kind[2] = "buy" =>
              o.frozen_quant = IF kind[1] = "limit" THEN cost(quant) ELSE quant
      BY <3>2, <3>3, <3>4, <3>5 DEF frozen_quant_of, coins_to_pay
    <3> HIDE DEF o
    <3>7. PaidIn(sympairs', o)
      BY <3>2, <3>3, <3>5, <3>6 DEF PaidIn
    <3> QED
      BY <3>7 DEF o
  <2>3. CASE RowDealt(i)
    <3>1. /\ LoopCondition /\ CheckFree /\ CachesFresh /\ sympairs' = sympairs
      BY <2>3 DEF RowDealt, Deal, ChecksPass, CachesInv
    <3>2. /\ BuyId \in DOMAIN orders /\ SellId \in DOMAIN orders
          /\ SameTerms(Live'[BuyId], Live[BuyId]) /\ SameTerms(Live'[SellId], Live[SellId])
          /\ Live'[BuyId].matched_assets = Live[BuyId].matched_assets + NextDeal.assets
          /\ Live'[BuyId].matched_coins = Live[BuyId].matched_coins + NextDeal.coins
      BY <2>3, <3>1, LiveAfterDeal DEF RowDealt, Added
    <3>3. RowPaid(Live[BuyId]) /\ RowPaid(Live[SellId])
      BY <3>2, LiveIs DEF FrozenInv
    <3>4. CASE i = BuyId
      <4>1. Live[BuyId].order_type = "limit" =>
                Live[BuyId].matched_coins + NextDeal.coins
                    <= CostOf(Live[BuyId], Live[BuyId].matched_assets + NextDeal.assets)
        BY <3>1, DealCost DEF BuyId
      <4> QED
        BY <3>1, <3>2, <3>3, <3>4, <4>1, RowPaidIs DEF PaidIn, SameTerms, CostOf, PrecisionOf
    <3>5. CASE i = SellId
      <4>1. Live[SellId].order_side # "buy"
        <5>1. /\ NextDeal.sell \in Books /\ is_valid(its[NextDeal.sell])
              /\ side_of(NextDeal.sell) = "sell"
          BY <3>1, NextDealBooks DEF LoopCondition
        <5>2. orders[SellId].order_side = "sell"
          BY <3>1, <5>1, RowAt DEF InBook, SellId, OrderAt, LoopCondition
        <5> QED
          BY <3>1, <3>2, <5>2, LiveRow DEF SameTerms
      <4> QED
        BY <3>2, <3>3, <3>5, <4>1, RowPaidIs DEF PaidIn, SameTerms
    <3> QED
      BY <2>3, <3>4, <3>5 DEF RowDealt
  <2>4. CASE RowUndone(i)
    BY <1>2, <1>3, <1>4, <2>4 DEF RowUndone
  <2> QED
    BY <2>1, <2>2, <2>3, <2>4, RowStep
<1>6. ASSUME txn'.phase # "idle", NEW i \in DOMAIN undo'.orders
      PROVE  PaidIn(sympairs', undo'.orders[i])
  <2>1. CASE undo' = undo /\ txn.phase # "idle"
    BY <1>2, <1>3, <1>4, <1>6, <2>1
  <2>2. CASE undo'.orders = Live
    BY <1>2, <1>3, <1>4, <1>6, <2>2
  <2> QED
    BY <1>6, <2>1, <2>2, UndoStep
<1> QED
  BY <1>5, <1>6, FrozenForms

LEMMA InitFrozen == Init => FrozenInv
<1> SUFFICES ASSUME Init PROVE FrozenInv
  OBVIOUS
<1>1. txn.phase = "idle" /\ DOMAIN orders = {}
  BY DEF Init, Idle, EmptyTable
<1> QED
  BY <1>1, LiveIs DEF FrozenInv

(***************************************************************************)
(* A deal never needs more coins than its buy order has frozen, provided   *)
(* every price is a whole number of coins for the smallest unit of assets, *)
(* and fees are never taken from the coins of a buy order: a price that is *)
(* not is rounded half up deal by deal, and the run "frozen" shows how the *)
(* sum can then exceed what was rounded, once, when the order was placed.  *)
(***************************************************************************)
THEOREM FrozenAlwaysSuffices == WholePrices => (Spec /\ []NoCoinFee => []FrozenSuffices)
<1> SUFFICES ASSUME WholePrices PROVE Spec /\ []NoCoinFee => []FrozenSuffices
  OBVIOUS
<1>1. IInv /\ CachesInv /\ FrozenInv /\ NoCoinFee /\ [Next]_vars => FrozenInv'
  BY FrozenStep
<1>2. IInv /\ CachesInv /\ FrozenInv => FrozenSuffices
  BY FrozenEnough
<1> QED
  BY <1>1, <1>2, InitFrozen, CachesKept, PTL DEF Spec

(***************************************************************************)
(* No CHECK of the loop ever fires: within the range, with whole prices    *)
(* and no fees in coins, no transaction is rolled back from inside the     *)
(* loop, so no pair of orders can block the matching of its books.         *)
(***************************************************************************)
THEOREM LoopNeverFails ==
    AmountsInRange /\ WholePrices
        => (Spec /\ []DealIdsLeft /\ []NoCoinFee => [][~FailedCheck]_vars)
<1> SUFFICES ASSUME AmountsInRange, WholePrices
             PROVE  Spec /\ []DealIdsLeft /\ []NoCoinFee => [][~FailedCheck]_vars
  OBVIOUS
<1>1. EngineChecksHold /\ FrozenSuffices => [~FailedCheck]_vars
  BY DEF FailedCheck, EngineChecksHold, FrozenSuffices, ChecksPass
<1> QED
  BY <1>1, EngineNeverFails, FrozenAlwaysSuffices, PTL DEF Spec

----------------------------------------------------------------------------
(* Nothing is lost when rows are erased *)

LEMMA SpentStep ==
    ASSUME IInv, CachesInv, SpentInv, NoCoinFee, [Next]_vars
    PROVE  SpentInv'
<1>1. ASSUME NEW i \in DOMAIN Live' PROVE RowSpent(Live'[i])
  <2>1. CASE RowKept(i)
    BY <2>1 DEF RowKept, SpentInv, RowSpent, SameTerms, SameTotals
  <2>2. CASE RowPlaced(i)
    <3>1. PICK user \in Traders, p \in DOMAIN sympairs, kind \in OrderKinds, quant \in LimitQuants,
               price \in Prices, ex \in OrderConfigs, signed \in BOOLEAN :
              /\ NewOrder(user, p, kind[1], kind[2], quant, price, ex, signed)
              /\ i = new_auto_inc_id(global.order_id) /\ Live'[i] = orders'[i]
      BY <2>2 DEF RowPlaced
    <3> DEFINE o == Live'[i]
    <3>2. /\ o.limit_quant = quant /\ o.order_side = kind[2] /\ o.order_type = kind[1]
          /\ o.status = "matchable"
          /\ o.frozen_quant = frozen_quant_of(sympairs[p], kind[1], kind[2], quant, price,
                                              order_ratios(ex).taker)
      BY <3>1, NewOrderRow
    <3>3. ~sympairs[p].only_accept_coin_fee /\ quant \in Nat
      BY InputsAssumption DEF NoCoinFee
    <3>4. kind[2] = "buy" /\ kind[1] # "limit" => o.frozen_quant = quant
      BY <3>2, <3>3 DEF frozen_quant_of, coins_to_pay
    <3> HIDE DEF o
    <3>5. RowSpent(o)
      BY <3>2, <3>4 DEF RowSpent
    <3> QED
      BY <3>5 DEF o
  <2>3. CASE RowDealt(i)
    <3> DEFINE d == NextDeal
               status_of(it) == IF is_completed(it) THEN "completed" ELSE "matchable"
    <3>1. CachesFresh /\ Deal
      BY <2>3 DEF RowDealt, CachesInv
    <3>2. /\ d.buy \in Books /\ is_valid(its[d.buy]) /\ d.sell \in Books /\ is_valid(its[d.sell])
          /\ d.assets \in Nat /\ d.coins \in Nat /\ txn.phase = "matching"
          /\ orders[BuyId] \in OrderType /\ orders[SellId] \in OrderType
          /\ MatchedFrom(orders[BuyId], its[d.buy], BuyIt(d), NextDealId, d.assets, d.coins, d.buy_fee)
          /\ MatchedFrom(orders[SellId], its[d.sell], SellIt(d), NextDealId, d.assets, d.coins, d.sell_fee)
      BY <3>1, DealSides
    <3>3. /\ side_of(d.buy) = "buy" /\ side_of(d.sell) = "sell"
      BY <3>1, NextDealBooks DEF Deal, LoopCondition, ChecksPass
    <3>4. /\ orders[BuyId].order_side = "buy" /\ orders[BuyId].order_type \in {"limit", "market"}
          /\ orders[SellId].order_side = "sell"
      <4>1. /\ orders[BuyId].order_side = side_of(d.buy)
            /\ orders[BuyId].order_type = type_of(d.buy)
        BY <3>2, RowAt DEF InBook, BuyId, OrderAt
      <4>2. orders[SellId].order_side = side_of(d.sell)
        BY <3>2, RowAt DEF InBook, SellId, OrderAt
      <4>3. type_of(d.buy) \in {"limit", "market"}
        BY <3>2 DEF type_of, Books
      <4> QED
        BY <3>3, <4>1, <4>2, <4>3
    <3>5. /\ BuyId \in DOMAIN orders /\ SellId \in DOMAIN orders
          /\ Added(Live[BuyId], Live'[BuyId], d.assets, d.coins, d.buy_fee, NextDealId,
                   status_of(BuyIt(d)))
          /\ Added(Live[SellId], Live'[SellId], d.assets, d.coins, d.sell_fee, NextDealId,
                   status_of(SellIt(d)))
      BY <3>1, LiveAfterDeal
    <3>6. /\ SameTerms(Live[BuyId], orders[BuyId]) /\ SameTotals(Live[BuyId], its[d.buy])
          /\ SameTerms(Live[SellId], orders[SellId]) /\ SameTotals(Live[SellId], its[d.sell])
          /\ RowSpent(Live[BuyId]) /\ orders[SellId].frozen_quant = orders[SellId].limit_quant
      BY <3>1, <3>2, <3>4, <3>5, LiveRow, LiveAt, LiveIs
         DEF SpentInv, CachesInv, RowsFunded, BuyId, SellId
    <3>7. its[d.buy] \in ItType /\ its[d.sell] \in ItType
      BY <3>2, RowAt
    <3> HIDE DEF d
    <3>8. CASE i = BuyId
      <4>1. Live'[BuyId].status = "completed" => match_completes(orders[BuyId], BuyIt(d))
        BY <3>2, <3>5 DEF Added, MatchedFrom, is_completed
      <4>2. /\ Live'[BuyId].matched_coins = BuyIt(d).matched_coins
            /\ BuyIt(d).matched_coins \in Nat
        BY <3>2, <3>5, <3>6, <3>7 DEF Added, SameTotals, MatchedFrom, ItType
      <4> QED
        BY <3>2, <3>4, <3>5, <3>6, <3>8, <4>1, <4>2
           DEF RowSpent, Added, SameTerms, match_completes, is_market_buy, OrderType
    <3>9. CASE i = SellId
      <4>1. Live'[SellId].status = "completed" => match_completes(orders[SellId], SellIt(d))
        BY <3>2, <3>5 DEF Added, MatchedFrom, is_completed
      <4>2. /\ Live'[SellId].matched_assets = SellIt(d).matched_assets
            /\ SellIt(d).matched_assets \in Nat
        BY <3>2, <3>5, <3>6, <3>7 DEF Added, SameTotals, MatchedFrom, ItType
      <4> QED
        BY <3>2, <3>4, <3>5, <3>6, <3>9, <4>1, <4>2
           DEF RowSpent, Added, SameTerms, match_completes, is_market_buy, OrderType
    <3> QED
      BY <2>3, <3>8, <3>9 DEF RowDealt
  <2>4. CASE RowUndone(i)
    BY <2>4 DEF RowUndone, SpentInv
  <2> QED
    BY <2>1, <2>2, <2>3, <2>4, RowStep
<1>2. ASSUME txn'.phase # "idle" PROVE \A i \in DOMAIN undo'.orders : RowSpent(undo'.orders[i])
  BY <1>2, UndoStep DEF SpentInv
<1> QED
  BY <1>1, <1>2 DEF SpentInv, RowSpent

LEMMA InitSpent == Init => SpentInv
<1> SUFFICES ASSUME Init PROVE SpentInv
  OBVIOUS
<1>1. txn.phase = "idle" /\ DOMAIN orders = {}
  BY DEF Init, Idle, EmptyTable
<1> QED
  BY <1>1, LiveIs DEF SpentInv

\* What cleandata erases retains nothing, when no fee is taken in coins.
LEMMA SpentErased ==
    ASSUME IInv, CachesInv, SpentInv, FeesInAssets(orders)
    PROVE  NothingErased
<1> SUFFICES ASSUME Cleaning, NEW i \in DOMAIN orders \ DOMAIN orders'
             PROVE  Retained(orders[i]) = 0
  BY DEF NothingErased
<1>1. PICK max_count \in CleanCounts, stale \in BOOLEAN : CleanData(max_count, stale)
  BY DEF Cleaning
<1>2. /\ txn.phase = "idle" /\ orders[i].status \in {"completed", "canceled"}
  BY <1>1 DEF CleanData, Without, SweptOrders, LeastRecent
<1>3. RowSpent(orders[i])
  <2>1. Live = orders
    BY <1>2, LiveIdle DEF CachesInv
  <2> QED
    BY <2>1 DEF SpentInv
<1>4. orders[i] \in OrderType
  BY TypeParts, RowType DEF IInv
<1>5. orders[i].order_side = "buy" => FeeInCoins(orders[i]) = 0
  BY DEF FeesInAssets, FeeInCoins
<1>6. /\ orders[i].frozen_quant \in Nat /\ orders[i].matched_coins \in Nat
      /\ orders[i].matched_assets \in Nat
  BY <1>4 DEF OrderType
<1> QED
  BY <1>2, <1>3, <1>5, <1>6 DEF Retained, Spent, RowSpent

(***************************************************************************)
(* Exact accounting through cleandata as well: where no pair takes fees in *)
(* coins, the rows it erases retain nothing, and custody is to the unit    *)
(* what is owed to the users plus what the orders in the table retain.     *)
(***************************************************************************)
THEOREM LedgerExactWithoutCoinFee == Spec /\ []NoCoinFee => []LedgerExact
<1>1. IInv /\ CachesInv /\ SpentInv /\ NoCoinFee /\ [Next]_vars => SpentInv'
  BY SpentStep
<1>2. SolventInv => FeesInAssets(orders)
  BY DEF SolventInv
<1>3. IInv /\ CachesInv /\ SpentInv /\ FeesInAssets(orders) => [NothingErased]_vars
  BY SpentErased
<1> QED
  BY <1>1, <1>2, <1>3, CachesKept, InitSpent, InitSolvent, SolventStep, LedgerStaysExact, PTL DEF Spec
=============================================================================
