------------------------- MODULE NameAuctionProofs -------------------------
(***************************************************************************)
(* The auctions of names implement AuctionPromise, the highest bid is the  *)
(* one that closes, and eosio.names can pay what it owes, for any bidders, *)
(* names, funds and delays.                                                *)
(***************************************************************************)
EXTENDS NameAuction, SumTheorems

----------------------------------------------------------------------------
(* The index of bids *)

\* The bits of a small negative number, and of a small positive one.
LEMMA UnsignedKey ==
    ASSUME NEW r \in Nat \ {0}, NEW h \in Nat \ {0}, 4 * h <= r
    PROVE  (-h) % r = r - h /\ h % r = h
<1>1. 0 < h /\ h < r
  OBVIOUS
<1>2. h % r = h
  BY <1>1
<1>3. -h = r * (-1) + (r - h) /\ r - h \in 0 .. r - 1
  BY <1>1
<1>4. (-h) % r = r - h
  BY <1>3
<1> QED
  BY <1>2, <1>4

LEMMA OpenKey ==
    ASSUME IInv, NEW name \in DOMAIN bids, bids[name].high_bid > 0
    PROVE  /\ by_high_bid(name) = UintRange - bids[name].high_bid
           /\ name \in AfterClosed
<1>1. bids[name].high_bid \in Nat \ {0} /\ 4 * bids[name].high_bid <= UintRange
  BY DEF IInv, TypeOK, BidRows, BidsBounded
<1>2. by_high_bid(name) = UintRange - bids[name].high_bid
  BY <1>1, UnsignedKey, BidsAssumption DEF by_high_bid
<1>3. UintRange - bids[name].high_bid >= (UintRange - 1) \div 2
  <2>1. \A r \in Nat \ {0}, h \in Nat \ {0} : 4 * h <= r => r - h >= (r - 1) \div 2
    OBVIOUS
  <2> QED
    BY <1>1, <2>1, BidsAssumption
<1> QED
  BY <1>2, <1>3 DEF AfterClosed

\* The first row of the part of the index that is read has the highest open bid.
LEMMA FirstIsHighest ==
    ASSUME IInv, NEW name \in highest, bids[name].high_bid > 0,
           NEW n \in DOMAIN bids, bids[n].high_bid > 0
    PROVE  bids[n].high_bid <= bids[name].high_bid
<1>1. name \in DOMAIN bids /\ name \in AfterClosed
  BY DEF highest, AfterClosed
<1>2. by_high_bid(name) <= by_high_bid(n)
  BY OpenKey DEF highest
<1>3. UintRange - bids[name].high_bid <= UintRange - bids[n].high_bid
  BY <1>1, <1>2, OpenKey
<1>4. bids[name].high_bid \in Int /\ bids[n].high_bid \in Int /\ UintRange \in Int
  BY <1>1, BidsAssumption DEF IInv, TypeOK, BidRows
<1> QED
  BY <1>3, <1>4

----------------------------------------------------------------------------
(* The promise, place by place *)

LEMMA DepositIs ==
    /\ deposit = [place \in Bidders \X Premium |->
                     refund_of(place[1], place[2]) + lead_of(place[1], place[2])]
    /\ deposit' = [place \in Bidders \X Premium |->
                     refund_of(place[1], place[2])' + lead_of(place[1], place[2])']
BY DEF deposit

\* Refunds and leads are amounts.
LEMMA Amounts ==
    ASSUME TypeOK, NEW bidder \in Bidders, NEW name \in Premium
    PROVE  /\ refund_of(bidder, name) \in Nat /\ lead_of(bidder, name) \in Nat
           /\ deposit[<<bidder, name>>] = refund_of(bidder, name) + lead_of(bidder, name)
<1>1. refund_of(bidder, name) \in Nat
  BY DEF refund_of, TypeOK
<1>2. lead_of(bidder, name) \in Nat
  BY DEF lead_of, TypeOK, BidRows, Open
<1> QED
  BY <1>1, <1>2 DEF deposit

\* One deposit changes, by some amount.
LEMMA DepositChange ==
    ASSUME TypeOK, NEW bidder \in Bidders, NEW name \in Premium, NEW d \in Int,
           \A b \in Bidders, n \in Premium :
               refund_of(b, n)' + lead_of(b, n)' =
                   refund_of(b, n) + lead_of(b, n) + IF b = bidder /\ n = name THEN d ELSE 0
    PROVE  deposit' = [deposit EXCEPT ![<<bidder, name>>] = @ + d]
<1>1. ASSUME NEW place \in Bidders \X Premium
      PROVE  deposit'[place] = [deposit EXCEPT ![<<bidder, name>>] = @ + d][place]
  <2>1. PICK b \in Bidders, n \in Premium : place = <<b, n>>
    OBVIOUS
  <2>2. deposit'[place] = refund_of(b, n)' + lead_of(b, n)'
    BY <2>1, DepositIs
  <2>3. /\ deposit[place] = refund_of(b, n) + lead_of(b, n)
        /\ refund_of(b, n) \in Nat /\ lead_of(b, n) \in Nat
    BY <2>1, Amounts
  <2>4. place \in DOMAIN deposit
    BY DepositIs
  <2>5. CASE place = <<bidder, name>>
    BY <2>1, <2>2, <2>3, <2>4, <2>5
  <2>6. CASE place # <<bidder, name>>
    BY <2>1, <2>2, <2>3, <2>4, <2>6
  <2> QED
    BY <2>5, <2>6
<1>2. DOMAIN deposit = Bidders \X Premium /\ DOMAIN deposit' = Bidders \X Premium
  BY DepositIs
<1>3. deposit' = [place \in DOMAIN deposit' |-> deposit'[place]]
  BY DepositIs
<1> QED
  BY <1>1, <1>2, <1>3

\* What the promise says a bidder is due is the refund the table keeps.
LEMMA DueIsRefund ==
    ASSUME TypeOK, NEW bidder \in Bidders, NEW name \in Premium
    PROVE  Promise!Due(bidder, name) = refund_of(bidder, name)
<1>1. lead_of(bidder, name) =
          IF name \in DOMAIN leading /\ leading[name].bidder = bidder
          THEN leading[name].price ELSE 0
  BY DEF lead_of, leading, Open
<1>2. /\ refund_of(bidder, name) \in Nat /\ lead_of(bidder, name) \in Nat
      /\ deposit[<<bidder, name>>] = refund_of(bidder, name) + lead_of(bidder, name)
  BY Amounts
<1>3. Promise!Due(bidder, name) = deposit[<<bidder, name>>] - lead_of(bidder, name)
  BY <1>1 DEF Promise!Due
<1> QED
  BY <1>2, <1>3

\* A bid is added to a deposit; the leader it replaces keeps its own as a refund.
LEMMA BidStep ==
    ASSUME IInv, NEW bidder \in Bidders, NEW newname \in Premium, NEW bid \in Bids[newname],
           bidname(bidder, newname, bid)
    PROVE  IInv' /\ Promise!Bid(bidder, newname, bid)
<1> DEFINE row == [high_bidder |-> bidder, high_bid |-> bid, age |-> 0]
           current == bids[newname]
<1>1. /\ newname \notin created /\ bid \in Nat \ {0} /\ 4 * bid <= UintRange
      /\ bid <= wallet[bidder]
      /\ FirstBid(newname) \/ HigherBid(bidder, newname, bid)
      /\ bids' = Put(bids, newname, row)
      /\ wallet' = [wallet EXCEPT ![bidder] = @ - bid]
      /\ names_balance' = names_balance + bid
      /\ created' = created /\ owner' = owner
      /\ rex_available' = rex_available /\ namebid_proceeds' = namebid_proceeds
      /\ clock' = clock
  BY BidsAssumption DEF bidname, is_account, rex_vars
<1>2. row \in BidRows /\ row.high_bidder = bidder /\ row.high_bid = bid
  BY <1>1 DEF BidRows
<1> HIDE DEF row
<1>3. /\ DOMAIN bids' = DOMAIN bids \cup {newname} /\ bids'[newname] = row
      /\ \A n \in DOMAIN bids : n # newname => bids'[n] = bids[n]
      /\ bids' \in [DOMAIN bids' -> BidRows]
  BY <1>1, <1>2 DEF Put, IInv, TypeOK
<1>4. ASSUME HigherBid(bidder, newname, bid)
      PROVE  /\ newname \in DOMAIN bids /\ current.high_bid \in Nat \ {0} /\ bid > current.high_bid
             /\ current.high_bidder \in Bidders /\ current.high_bidder # bidder
             /\ bid_refunds' = outbid(newname, current.high_bidder, current.high_bid)
             /\ deferred' = deferred \cup {<<newname, current.high_bidder>>}
  <2>1. /\ newname \in DOMAIN bids /\ current.high_bid > 0
        /\ bid - current.high_bid > current.high_bid \div 10
        /\ current.high_bidder # bidder
    BY <1>4 DEF HigherBid, can_outbid
  <2>2. current.high_bid \in Nat \ {0} /\ current.high_bidder \in Bidders
    BY <2>1 DEF IInv, TypeOK, BidRows
  <2>3. \A a \in Nat \ {0}, b \in Nat \ {0} : b - a > a \div 10 => b > a
    OBVIOUS
  <2> QED
    BY <1>1, <1>4, <2>1, <2>2, <2>3 DEF HigherBid
<1>5. /\ bid_refunds' \in [DOMAIN bid_refunds' -> Nat \ {0}]
      /\ DOMAIN bid_refunds' \subseteq Premium \X Bidders
      /\ deferred' \subseteq Premium \X Bidders
      /\ \A b \in Bidders, n \in Premium :
             refund_of(b, n)' = refund_of(b, n) +
                 IF n = newname /\ b # bidder THEN lead_of(b, n) ELSE 0
  <2>1. CASE FirstBid(newname)
    <3>1. newname \notin DOMAIN bids /\ bid_refunds' = bid_refunds /\ deferred' = deferred
      BY <2>1 DEF FirstBid
    <3>2. \A b \in Bidders : lead_of(b, newname) = 0
      BY <3>1 DEF lead_of, Open
    <3>3. \A b \in Bidders, n \in Premium : refund_of(b, n) \in Nat
      BY Amounts DEF IInv
    <3>4. \A b \in Bidders, n \in Premium : refund_of(b, n)' = refund_of(b, n)
      BY <3>1 DEF refund_of
    <3> QED
      BY <3>1, <3>2, <3>3, <3>4 DEF IInv, TypeOK
  <2>2. CASE HigherBid(bidder, newname, bid)
    <3> DEFINE place == <<newname, current.high_bidder>>
    <3>1. /\ newname \in DOMAIN bids /\ current.high_bid \in Nat \ {0}
          /\ current.high_bidder \in Bidders /\ current.high_bidder # bidder
          /\ bid_refunds' = outbid(newname, current.high_bidder, current.high_bid)
          /\ deferred' = deferred \cup {place}
      BY <1>4, <2>2
    <3> DEFINE due == IF place \in DOMAIN bid_refunds THEN bid_refunds[place] ELSE 0
    <3>2. /\ DOMAIN bid_refunds' = DOMAIN bid_refunds \cup {place}
          /\ bid_refunds'[place] = due + current.high_bid
          /\ \A p \in DOMAIN bid_refunds : p # place => bid_refunds'[p] = bid_refunds[p]
          /\ bid_refunds' = [p \in DOMAIN bid_refunds' |-> bid_refunds'[p]]
      <4> HIDE DEF current
      <4>1. CASE place \in DOMAIN bid_refunds
        <5>1. bid_refunds' = [bid_refunds EXCEPT ![place] = @ + current.high_bid]
          BY <3>1, <4>1 DEF outbid
        <5> QED
          BY <4>1, <5>1 DEF IInv, TypeOK
      <4>2. CASE place \notin DOMAIN bid_refunds
        <5>1. bid_refunds' = Put(bid_refunds, place, current.high_bid)
          BY <3>1, <4>2 DEF outbid
        <5> QED
          BY <3>1, <4>2, <5>1 DEF Put
      <4> QED
        BY <4>1, <4>2
    <3>3. /\ bid_refunds' \in [DOMAIN bid_refunds' -> Nat \ {0}]
          /\ DOMAIN bid_refunds' \subseteq Premium \X Bidders
          /\ deferred' \subseteq Premium \X Bidders
      BY <3>1, <3>2 DEF IInv, TypeOK
    <3>4. ASSUME NEW b \in Bidders, NEW n \in Premium
          PROVE  refund_of(b, n)' = refund_of(b, n) +
                     IF n = newname /\ b # bidder THEN lead_of(b, n) ELSE 0
      <4>1. refund_of(b, n) \in Nat
        BY Amounts DEF IInv
      <4>2. CASE <<n, b>> = place
        <5>1. refund_of(b, n)' = refund_of(b, n) + current.high_bid
          BY <3>2, <4>2 DEF refund_of
        <5>2. lead_of(b, n) = current.high_bid
          BY <3>1, <4>2 DEF lead_of, Open
        <5> QED
          BY <3>1, <4>2, <5>1, <5>2
      <4>3. CASE <<n, b>> # place
        <5>1. refund_of(b, n)' = refund_of(b, n)
          BY <3>2, <4>3 DEF refund_of
        <5>2. n = newname => lead_of(b, n) = 0
          BY <4>3 DEF lead_of
        <5> QED
          BY <4>1, <5>1, <5>2
      <4> QED
        BY <4>2, <4>3
    <3> QED
      BY <3>3, <3>4
  <2> QED
    BY <1>1, <2>1, <2>2
<1>6. wallet' \in [Bidders -> Nat] /\ names_balance' \in Nat
  BY <1>1 DEF IInv, TypeOK
<1>7. IInv'
  <2>1. TypeOK'
    BY <1>1, <1>3, <1>5, <1>6 DEF IInv, TypeOK
  <2>2. BidsBounded'
    BY <1>1, <1>2, <1>3, BidsAssumption DEF IInv, BidsBounded
  <2> QED
    BY <2>1, <2>2 DEF IInv
<1>8. deposit' = [deposit EXCEPT ![<<bidder, newname>>] = @ + bid]
  <2>1. ASSUME NEW b \in Bidders, NEW n \in Premium
        PROVE  refund_of(b, n)' + lead_of(b, n)' =
                   refund_of(b, n) + lead_of(b, n) + IF b = bidder /\ n = newname THEN bid ELSE 0
    <3>1. refund_of(b, n) \in Nat /\ lead_of(b, n) \in Nat
      BY Amounts DEF IInv
    <3>2. lead_of(b, n)' = IF n # newname THEN lead_of(b, n) ELSE IF b = bidder THEN bid ELSE 0
      BY <1>1, <1>2, <1>3 DEF lead_of, Open
    <3>3. n = newname /\ b = bidder => lead_of(b, n) = 0
      BY <1>1, <1>4 DEF lead_of, Open, FirstBid
    <3> QED
      BY <1>1, <1>5, <3>1, <3>2, <3>3
  <2> QED
    BY <1>1, <2>1, DepositChange DEF IInv
<1>9. leading' = Promise!With(leading, newname, [bidder |-> bidder, price |-> bid])
  BY <1>1, <1>2, <1>3 DEF leading, Promise!With
<1>10. won' = won
  BY <1>1, <1>2, <1>3, <1>4 DEF won, FirstBid
<1>11. newname \notin DOMAIN won \cup DOMAIN owner
  BY <1>1, <1>4 DEF won, FirstBid, IInv, TypeOK
<1>12. newname \in DOMAIN leading => bidder # leading[newname].bidder /\ bid > leading[newname].price
  BY <1>1, <1>4 DEF leading, FirstBid
<1> QED
  BY <1>1, <1>7, <1>8, <1>9, <1>10, <1>11, <1>12 DEF Promise!Bid

\* A refund is exactly what the promise says the bidder is due.
LEMMA RefundStep ==
    ASSUME IInv, NEW bidder \in Bidders, NEW newname \in Premium, pay_refund(bidder, newname),
           UNCHANGED <<bids, owner>>
    PROVE  /\ wallet' \in [Bidders -> Nat] /\ names_balance' \in Nat
           /\ DOMAIN bid_refunds' \subseteq Premium \X Bidders
           /\ bid_refunds' \in [DOMAIN bid_refunds' -> Nat \ {0}]
           /\ Promise!PayBack(bidder, newname)
<1> DEFINE place == <<newname, bidder>>
           amount == bid_refunds[place]
<1>1. /\ place \in DOMAIN bid_refunds /\ amount <= names_balance
      /\ wallet' = [wallet EXCEPT ![bidder] = @ + amount]
      /\ names_balance' = names_balance - amount
      /\ bid_refunds' = Without(bid_refunds, place)
  BY DEF pay_refund, refunded
<1>2. amount \in Nat \ {0} /\ refund_of(bidder, newname) = amount
  BY <1>1 DEF IInv, TypeOK, refund_of
<1> HIDE DEF amount
<1>3. wallet' \in [Bidders -> Nat] /\ names_balance' \in Nat
  BY <1>1, <1>2 DEF IInv, TypeOK
<1>4. /\ DOMAIN bid_refunds' = DOMAIN bid_refunds \ {place}
      /\ \A p \in DOMAIN bid_refunds' : bid_refunds'[p] = bid_refunds[p]
      /\ bid_refunds' = [p \in DOMAIN bid_refunds' |-> bid_refunds'[p]]
  BY <1>1 DEF Without
<1>5. /\ DOMAIN bid_refunds' \subseteq Premium \X Bidders
      /\ bid_refunds' \in [DOMAIN bid_refunds' -> Nat \ {0}]
  BY <1>4 DEF IInv, TypeOK
<1>6. deposit' = [deposit EXCEPT ![<<bidder, newname>>] = @ + (-amount)]
  <2>1. ASSUME NEW b \in Bidders, NEW n \in Premium
        PROVE  refund_of(b, n)' + lead_of(b, n)' =
                   refund_of(b, n) + lead_of(b, n)
                       + IF b = bidder /\ n = newname THEN -amount ELSE 0
    <3>1. refund_of(b, n) \in Nat /\ lead_of(b, n) \in Nat
      BY Amounts DEF IInv
    <3>2. lead_of(b, n)' = lead_of(b, n)
      BY DEF lead_of, Open
    <3>3. refund_of(b, n)' = IF b = bidder /\ n = newname THEN 0 ELSE refund_of(b, n)
      BY <1>1, <1>4 DEF refund_of
    <3> QED
      BY <1>2, <3>1, <3>2, <3>3
  <2> QED
    BY <1>2, <2>1, DepositChange DEF IInv
<1>7. deposit[<<bidder, newname>>] \in Nat
  BY Amounts DEF IInv
<1>8. deposit' = [deposit EXCEPT ![<<bidder, newname>>] = @ - amount]
  BY <1>2, <1>6, <1>7
<1>9. Promise!Due(bidder, newname) = amount
  BY <1>2, DueIsRefund DEF IInv
<1>10. UNCHANGED <<leading, won, owner>>
  BY DEF leading, won
<1>11. Promise!PayBack(bidder, newname)
  BY <1>1, <1>2, <1>8, <1>9, <1>10 DEF Promise!PayBack
<1> QED
  BY <1>3, <1>5, <1>11

\* The rows of bids and refunds, and so the promise, are as they were.
LEMMA SameDeposits ==
    ASSUME UNCHANGED <<wallet, bids, bid_refunds, owner>>
    PROVE  UNCHANGED Promise!vars
BY DEF deposit, refund_of, lead_of, Open, leading, won, Promise!vars

LEMMA CloseStep ==
    ASSUME IInv, NEW name \in highest, CanClose(name),
           bids' = [bids EXCEPT ![name].high_bid = -@], UNCHANGED <<wallet, bid_refunds, owner>>
    PROVE  /\ bids' \in [DOMAIN bids -> BidRows] /\ BidsBounded'
           /\ Promise!Close(name)
<1> DEFINE h == bids[name].high_bid
           winner == bids[name].high_bidder
<1>1. name \in DOMAIN bids /\ name \in Premium
  BY DEF highest, AfterClosed, IInv, TypeOK
<1>2. h \in Nat \ {0} /\ winner \in Bidders
  BY <1>1 DEF CanClose, IInv, TypeOK, BidRows
<1>3. /\ DOMAIN bids' = DOMAIN bids
      /\ bids'[name] = [bids[name] EXCEPT !.high_bid = -h]
      /\ \A n \in DOMAIN bids : n # name => bids'[n] = bids[n]
  BY <1>1 DEF IInv, TypeOK
<1>4. bids'[name] \in BidRows /\ bids'[name].high_bid = -h /\ bids'[name].high_bidder = winner
  <2>1. bids[name] \in BidRows /\ -h \in Int \ {0}
    BY <1>1, <1>2 DEF IInv, TypeOK
  <2> QED
    BY <1>3, <2>1 DEF BidRows
<1> HIDE DEF h, winner
<1>5. bids' \in [DOMAIN bids -> BidRows]
  BY <1>3, <1>4 DEF IInv, TypeOK
<1>6. BidsBounded'
  <2>1. -UintRange <= 4 * h /\ 4 * h <= UintRange /\ UintRange \in Nat
    BY <1>1, BidsAssumption DEF h, IInv, BidsBounded
  <2>2. -UintRange <= 4 * (-h) /\ 4 * (-h) <= UintRange
    BY <1>2, <2>1
  <2> QED
    BY <1>3, <1>4, <2>2 DEF IInv, BidsBounded
<1>7. deposit' = [deposit EXCEPT ![<<winner, name>>] = @ + (-h)]
  <2>1. ASSUME NEW b \in Bidders, NEW n \in Premium
        PROVE  refund_of(b, n)' + lead_of(b, n)' =
                   refund_of(b, n) + lead_of(b, n) + IF b = winner /\ n = name THEN -h ELSE 0
    <3>1. refund_of(b, n) \in Nat /\ lead_of(b, n) \in Nat
      BY Amounts DEF IInv
    <3>2. refund_of(b, n)' = refund_of(b, n)
      BY DEF refund_of
    <3>3. lead_of(b, n)' = IF n = name THEN 0 ELSE lead_of(b, n)
      BY <1>2, <1>3, <1>4 DEF lead_of, Open
    <3>4. lead_of(b, name) = IF b = winner THEN h ELSE 0
      BY <1>1, <1>2 DEF lead_of, Open, h, winner
    <3> QED
      BY <1>2, <3>1, <3>2, <3>3, <3>4
  <2> QED
    BY <1>1, <1>2, <2>1, DepositChange DEF IInv
<1>8. deposit[<<winner, name>>] \in Nat
  BY <1>1, <1>2, Amounts DEF IInv
<1>9. deposit' = [deposit EXCEPT ![<<winner, name>>] = @ - h]
  BY <1>2, <1>7, <1>8
<1>10. name \in DOMAIN leading /\ leading[name].bidder = winner /\ leading[name].price = h
  BY <1>1, <1>2 DEF leading, h, winner
<1>11. \A n \in DOMAIN leading : leading[n].price <= leading[name].price
  BY <1>1, <1>2, FirstIsHighest DEF leading, h
<1>12. /\ name \in DOMAIN bids /\ bids'[name].high_bid < 0 /\ ~(bids'[name].high_bid > 0)
       /\ \A n \in DOMAIN bids : n # name => bids'[n].high_bid = bids[n].high_bid
  BY <1>1, <1>2, <1>3, <1>4
<1> DEFINE closed == {n \in DOMAIN bids : bids[n].high_bid < 0}
           open == {n \in DOMAIN bids : bids[n].high_bid > 0}
<1>13. won' = Promise!With(won, name, winner)
  <2>1. {n \in DOMAIN bids' : bids'[n].high_bid < 0} = closed \cup {name}
    BY <1>3, <1>12
  <2>2. won' = [n \in closed \cup {name} |-> bids'[n].high_bidder]
    BY <2>1 DEF won
  <2>3. \A n \in closed \cup {name} :
            bids'[n].high_bidder = IF n = name THEN winner ELSE won[n]
    BY <1>3, <1>4 DEF won
  <2>4. DOMAIN won = closed
    BY DEF won
  <2> HIDE DEF closed
  <2> QED
    BY <2>2, <2>3, <2>4 DEF Promise!With
<1>14. leading' = Promise!Drop(leading, name)
  <2>1. {n \in DOMAIN bids' : bids'[n].high_bid > 0} = open \ {name}
    BY <1>3, <1>12
  <2>2. leading' = [n \in open \ {name} |->
                       [bidder |-> bids'[n].high_bidder, price |-> bids'[n].high_bid]]
    BY <2>1 DEF leading
  <2>3. \A n \in open \ {name} :
            [bidder |-> bids'[n].high_bidder, price |-> bids'[n].high_bid] = leading[n]
    BY <1>3 DEF leading
  <2>4. DOMAIN leading = open
    BY DEF leading
  <2> HIDE DEF open
  <2> QED
    BY <2>2, <2>3, <2>4 DEF Promise!Drop
<1>15. Promise!Close(name)
  BY <1>9, <1>10, <1>11, <1>13, <1>14 DEF Promise!Close
<1> QED
  BY <1>5, <1>6, <1>15

\* The winner takes its name, the system any name; other names are not sold.
LEMMA AccountStep ==
    ASSUME IInv, NEW account, NEW newact \in Premium \cup OtherNames, newaccount(account, newact)
    PROVE  IInv' /\ [Promise!Next]_(Promise!vars)
<1>1. /\ newact \notin created /\ created' = created \cup {newact}
      /\ owner' = IF newact \in Premium THEN Put(owner, newact, account) ELSE owner
      /\ UNCHANGED <<wallet, names_balance, bid_refunds, deferred, rex_available,
                     namebid_proceeds, clock>>
  BY DEF newaccount, rex_vars, is_account
<1>2. DOMAIN owner = created \cap Premium /\ owner \in [DOMAIN owner -> Bidders \cup {Self}]
  BY DEF IInv, TypeOK
<1>3. ASSUME account \in Bidders \cup {Self} \/ newact \notin Premium
      PROVE  DOMAIN owner' = created' \cap Premium /\ owner' \in [DOMAIN owner' -> Bidders \cup {Self}]
  BY <1>1, <1>2, <1>3 DEF Put
<1>4. ASSUME bids' = bids, account \in Bidders \cup {Self} \/ newact \notin Premium
      PROVE  IInv'
  BY <1>1, <1>3, <1>4 DEF IInv, TypeOK, BidsBounded
<1>5. ASSUME bids' = bids
      PROVE  UNCHANGED <<wallet, deposit, leading, won>>
  BY <1>1, <1>5 DEF deposit, refund_of, lead_of, Open, leading, won
<1>6. CASE account = Self /\ UNCHANGED bids
  <2>1. CASE newact \in Premium
    <3>1. Promise!Preempt(newact)
      BY <1>1, <1>2, <1>5, <1>6, <2>1 DEF Promise!Preempt, Promise!With, Put
    <3> QED
      BY <1>4, <1>6, <2>1, <3>1 DEF Promise!Next
  <2>2. CASE newact \notin Premium
    BY <1>1, <1>4, <1>5, <1>6, <2>2 DEF Promise!vars
  <2> QED
    BY <2>1, <2>2
<1>7. CASE account # Self /\ ClaimName(account, newact)
  <2>1. /\ newact \in Premium /\ newact \in DOMAIN bids /\ bids[newact].high_bid < 0
        /\ bids[newact].high_bidder = account /\ account \in Bidders
        /\ bids' = Without(bids, newact)
    BY <1>7 DEF ClaimName, IInv, TypeOK, BidRows
  <2>2. /\ DOMAIN bids' = DOMAIN bids \ {newact}
        /\ \A n \in DOMAIN bids' : bids'[n] = bids[n]
        /\ bids' \in [DOMAIN bids' -> BidRows]
    BY <2>1 DEF Without, IInv, TypeOK
  <2>3. IInv'
    BY <1>1, <1>3, <2>1, <2>2 DEF IInv, TypeOK, BidsBounded
  <2>4. \A b \in Bidders, n \in Premium :
            refund_of(b, n)' = refund_of(b, n) /\ lead_of(b, n)' = lead_of(b, n)
    <3>1. bids[newact].high_bid \in Int
      BY <2>1 DEF IInv, TypeOK, BidRows
    <3> QED
      BY <1>1, <2>1, <2>2, <3>1 DEF refund_of, lead_of, Open
  <2>5. deposit' = deposit
    BY <2>4, DepositIs
  <2>6. leading' = leading
    <3>1. bids[newact].high_bid \in Int
      BY <2>1 DEF IInv, TypeOK, BidRows
    <3>2. {n \in DOMAIN bids' : bids'[n].high_bid > 0} = {n \in DOMAIN bids : bids[n].high_bid > 0}
      BY <2>1, <2>2, <3>1
    <3> QED
      BY <2>2, <3>2 DEF leading
  <2>7. won' = Promise!Drop(won, newact)
    BY <2>1, <2>2 DEF won, Promise!Drop
  <2>8. newact \in DOMAIN won /\ won[newact] = account
    BY <2>1 DEF won
  <2>9. owner' = Promise!With(owner, newact, won[newact]) /\ newact \notin DOMAIN owner
    BY <1>1, <1>2, <2>1, <2>8 DEF Promise!With, Put
  <2>10. Promise!Take(newact)
    BY <1>1, <2>5, <2>6, <2>7, <2>8, <2>9 DEF Promise!Take
  <2> QED
    BY <2>1, <2>3, <2>10 DEF Promise!Next
<1>8. CASE newact \in OtherNames /\ UNCHANGED bids
  BY <1>1, <1>4, <1>5, <1>8, NamesDisjoint DEF Promise!vars
<1> QED
  BY <1>6, <1>7, <1>8 DEF newaccount

\* Time changes neither bids nor bidders.
LEMMA TickStep ==
    ASSUME IInv, Tick
    PROVE  IInv' /\ UNCHANGED Promise!vars
<1>1. /\ clock' = [name_close |-> older(clock.name_close, Day),
                   schedule |-> older(clock.schedule, ScheduleInterval),
                   activation |-> IF clock.activation = NotYet THEN NotYet
                                  ELSE older(clock.activation, ActivationDelay)]
      /\ bids' = [name \in DOMAIN bids |-> [bids[name] EXCEPT !.age = older(@, Day)]]
      /\ UNCHANGED <<wallet, names_balance, bid_refunds, deferred, created, owner,
                     rex_available, namebid_proceeds>>
  BY DEF Tick, rex_vars
<1>2. \A age \in Nat, limit \in Nat : older(age, limit) \in Nat
  BY DEF older
<1>3. clock' \in Clocks
  BY <1>1, <1>2, TimesAssumption DEF IInv, TypeOK, Clocks
<1>4. /\ DOMAIN bids' = DOMAIN bids
      /\ \A name \in DOMAIN bids :
             /\ bids'[name] \in BidRows
             /\ bids'[name].high_bid = bids[name].high_bid
             /\ bids'[name].high_bidder = bids[name].high_bidder
  BY <1>1, <1>2, TimesAssumption DEF IInv, TypeOK, BidRows
<1>5. bids' \in [DOMAIN bids' -> BidRows]
  BY <1>1, <1>4
<1>6. IInv'
  BY <1>1, <1>3, <1>4, <1>5 DEF IInv, TypeOK, BidsBounded
<1>7. \A b \in Bidders, n \in Premium :
          refund_of(b, n)' = refund_of(b, n) /\ lead_of(b, n)' = lead_of(b, n)
  BY <1>1, <1>4 DEF refund_of, lead_of, Open
<1>8. deposit' = deposit
  BY <1>7, DepositIs
<1>9. leading' = leading
  <2>1. {n \in DOMAIN bids' : bids'[n].high_bid > 0} = {n \in DOMAIN bids : bids[n].high_bid > 0}
    BY <1>4
  <2> QED
    BY <1>4, <2>1 DEF leading
<1>10. won' = won
  <2>1. {n \in DOMAIN bids' : bids'[n].high_bid < 0} = {n \in DOMAIN bids : bids[n].high_bid < 0}
    BY <1>4
  <2> QED
    BY <1>4, <2>1 DEF won
<1> QED
  BY <1>1, <1>6, <1>8, <1>9, <1>10 DEF Promise!vars

\* onblock closes the highest auction, or changes only clocks.
LEMMA OnblockStep ==
    ASSUME IInv, onblock
    PROVE  IInv' /\ [Promise!Next]_(Promise!vars)
<1>1. UNCHANGED <<wallet, names_balance, bid_refunds, deferred, created, owner, rex_available>>
  BY DEF onblock
<1>2. CASE CloseAuction
  <2>1. PICK name \in highest :
            /\ CanClose(name)
            /\ clock' = [clock EXCEPT !.schedule = 0, !.name_close = 0]
            /\ channel_namebid_to_rex(bids[name].high_bid)
            /\ bids' = [bids EXCEPT ![name].high_bid = -@]
    BY <1>2 DEF CloseAuction
  <2>2. /\ bids' \in [DOMAIN bids -> BidRows] /\ BidsBounded'
        /\ Promise!Close(name)
    BY <1>1, <2>1, CloseStep
  <2>3. DOMAIN bids' = DOMAIN bids
    BY <2>1
  <2>4. name \in Premium /\ bids[name].high_bid \in Nat
    BY <2>1 DEF highest, AfterClosed, CanClose, IInv, TypeOK, BidRows
  <2>5. namebid_proceeds' \in Nat
    BY <2>1, <2>4 DEF channel_namebid_to_rex, IInv, TypeOK
  <2>6. clock' \in Clocks
    BY <2>1 DEF IInv, TypeOK, Clocks
  <2>7. IInv'
    BY <1>1, <2>2, <2>3, <2>5, <2>6 DEF IInv, TypeOK
  <2> QED
    BY <2>2, <2>4, <2>7 DEF Promise!Next
<1>3. CASE NoneCloses \/ NoAuction
  <2>1. clock' = [clock EXCEPT !.schedule = 0] /\ UNCHANGED <<bids, namebid_proceeds>>
    BY <1>3 DEF NoneCloses, NoAuction
  <2>2. clock' \in Clocks
    BY <2>1 DEF IInv, TypeOK, Clocks
  <2>3. IInv'
    BY <1>1, <2>1, <2>2 DEF IInv, TypeOK, BidsBounded
  <2> QED
    BY <1>1, <2>1, <2>3, SameDeposits
<1> QED
  BY <1>2, <1>3 DEF onblock

\* What is left changes neither bids nor refunds.
LEMMA OtherStep ==
    ASSUME IInv, Activate \/ \E available \in BOOLEAN : runrex(available)
    PROVE  IInv' /\ UNCHANGED Promise!vars
<1>1. CASE Activate
  <2>1. /\ clock' = [clock EXCEPT !.activation = 0]
        /\ UNCHANGED <<wallet, names_balance, bids, bid_refunds, deferred, created, owner,
                       rex_available, namebid_proceeds>>
    BY <1>1 DEF Activate, auction_vars, rex_vars
  <2>2. clock' \in Clocks
    BY <2>1 DEF IInv, TypeOK, Clocks
  <2> QED
    BY <2>1, <2>2, SameDeposits DEF IInv, TypeOK, BidsBounded
<1>2. ASSUME NEW available \in BOOLEAN, runrex(available)
      PROVE  IInv' /\ UNCHANGED Promise!vars
  <2>1. /\ rex_available => namebid_proceeds <= names_balance
        /\ names_balance' = IF rex_available THEN names_balance - namebid_proceeds ELSE names_balance
        /\ namebid_proceeds' = 0 /\ rex_available' \in BOOLEAN
        /\ UNCHANGED <<wallet, bids, bid_refunds, deferred, created, owner, clock>>
    BY <1>2 DEF runrex
  <2>2. names_balance' \in Nat
    BY <2>1 DEF IInv, TypeOK
  <2> QED
    BY <2>1, <2>2, SameDeposits DEF IInv, TypeOK, BidsBounded
<1> QED
  BY <1>1, <1>2

----------------------------------------------------------------------------
(* The steps *)

LEMMA Initially == Init => IInv /\ Promise!Init
<1> SUFFICES ASSUME Init PROVE IInv /\ Promise!Init
  OBVIOUS
<1>1. /\ DOMAIN bids = {} /\ DOMAIN bid_refunds = {} /\ DOMAIN owner = {}
      /\ bids = [x \in {} |-> x] /\ bid_refunds = [x \in {} |-> x] /\ owner = [x \in {} |-> x]
      /\ wallet = Funds /\ names_balance = 0 /\ deferred = {} /\ created = {}
      /\ rex_available = FALSE /\ namebid_proceeds = 0
      /\ clock = [name_close |-> Day + 1, schedule |-> ScheduleInterval + 1, activation |-> NotYet]
  BY DEF Init, Empty
<1>2. clock \in Clocks
  BY <1>1, TimesAssumption DEF Clocks
<1>3. IInv
  BY <1>1, <1>2, FundsAssumption DEF IInv, TypeOK, BidsBounded
<1>4. \A b \in Bidders, n \in Premium : refund_of(b, n) = 0 /\ lead_of(b, n) = 0
  BY <1>1 DEF refund_of, lead_of, Open
<1>5. deposit = [place \in Bidders \X Premium |-> 0]
  BY <1>4, DepositIs
<1>6. leading = [n \in {} |-> n] /\ won = [n \in {} |-> n]
  BY <1>1 DEF leading, won
<1> QED
  BY <1>1, <1>3, <1>5, <1>6 DEF Promise!Init

LEMMA EachStep ==
    ASSUME IInv, [Next]_vars
    PROVE  IInv' /\ [Promise!Next]_(Promise!vars)
<1>1. ASSUME NEW bidder \in Bidders, NEW newname \in Premium, NEW bid \in Bids[newname],
             bidname(bidder, newname, bid)
      PROVE  IInv' /\ [Promise!Next]_(Promise!vars)
  <2>1. IInv' /\ Promise!Bid(bidder, newname, bid)
    BY <1>1, BidStep
  <2> QED
    BY <2>1 DEF Promise!Next
<1>2. ASSUME NEW bidder \in Bidders, NEW newname \in Premium, bidrefund(bidder, newname)
      PROVE  IInv' /\ [Promise!Next]_(Promise!vars)
  <2>1. /\ pay_refund(bidder, newname)
        /\ UNCHANGED <<bids, deferred, created, owner, rex_available, namebid_proceeds, clock>>
    BY <1>2 DEF bidrefund, rex_vars
  <2>2. /\ wallet' \in [Bidders -> Nat] /\ names_balance' \in Nat
        /\ DOMAIN bid_refunds' \subseteq Premium \X Bidders
        /\ bid_refunds' \in [DOMAIN bid_refunds' -> Nat \ {0}]
        /\ Promise!PayBack(bidder, newname)
    BY <2>1, RefundStep
  <2>3. IInv'
    BY <2>1, <2>2 DEF IInv, TypeOK, BidsBounded
  <2> QED
    BY <2>2, <2>3 DEF Promise!Next
<1>3. ASSUME NEW bidder \in Bidders, NEW newname \in Premium, RunDeferred(bidder, newname)
      PROVE  IInv' /\ [Promise!Next]_(Promise!vars)
  <2>1. /\ deferred' = deferred \ {<<newname, bidder>>}
        /\ UNCHANGED <<bids, created, owner, rex_available, namebid_proceeds, clock>>
        /\ pay_refund(bidder, newname) \/ UNCHANGED <<wallet, names_balance, bid_refunds>>
    BY <1>3 DEF RunDeferred, rex_vars
  <2>2. CASE pay_refund(bidder, newname)
    <3>1. /\ wallet' \in [Bidders -> Nat] /\ names_balance' \in Nat
          /\ DOMAIN bid_refunds' \subseteq Premium \X Bidders
          /\ bid_refunds' \in [DOMAIN bid_refunds' -> Nat \ {0}]
          /\ Promise!PayBack(bidder, newname)
      BY <2>1, <2>2, RefundStep
    <3>2. IInv'
      BY <2>1, <3>1 DEF IInv, TypeOK, BidsBounded
    <3> QED
      BY <3>1, <3>2 DEF Promise!Next
  <2>3. CASE UNCHANGED <<wallet, names_balance, bid_refunds>>
    <3>1. IInv'
      BY <2>1, <2>3 DEF IInv, TypeOK, BidsBounded
    <3> QED
      BY <2>1, <2>3, <3>1, SameDeposits
  <2> QED
    BY <2>1, <2>2, <2>3
<1>4. ASSUME NEW account \in Bidders \cup {Self} \cup Premium \cup OtherNames,
             NEW newact \in Bidders \cup {Self} \cup Premium \cup OtherNames,
             newaccount(account, newact)
      PROVE  IInv' /\ [Promise!Next]_(Promise!vars)
  <2>1. newact \in Premium \cup OtherNames
    BY <1>4 DEF newaccount, is_account
  <2> QED
    BY <1>4, <2>1, AccountStep
<1>5. CASE UNCHANGED vars
  <2>1. UNCHANGED <<wallet, names_balance, bids, bid_refunds, deferred, created, owner,
                    rex_available, namebid_proceeds, clock>>
    BY <1>5 DEF vars
  <2> QED
    BY <2>1, SameDeposits DEF IInv, TypeOK, BidsBounded
<1>6. CASE Next
  BY <1>1, <1>2, <1>3, <1>4, <1>6, OnblockStep, OtherStep, TickStep DEF Next
<1> QED
  BY <1>5, <1>6

\* Only onblock turns an open bid into a closed one, and it reads the first of the index.
LEMMA ClosedBid ==
    ASSUME IInv, [Next]_vars, NEW name \in Premium, Open(name),
           name \in DOMAIN bids', bids'[name].high_bid < 0,
           NEW n \in Premium, Open(n)
    PROVE  bids[n].high_bid <= bids[name].high_bid
<1>1. /\ name \in DOMAIN bids /\ bids[name].high_bid > 0 /\ bids[name].high_bid \in Int
      /\ n \in DOMAIN bids /\ bids[n].high_bid > 0
  BY DEF Open, IInv, TypeOK, BidRows
<1>2. bids'[name].high_bid # bids[name].high_bid
  BY <1>1
<1>3. CASE CloseAuction
  <2>1. PICK first \in highest :
            CanClose(first) /\ bids' = [bids EXCEPT ![first].high_bid = -@]
    BY <1>3 DEF CloseAuction
  <2>2. first = name
    BY <1>1, <1>2, <2>1
  <2> QED
    BY <1>1, <2>1, <2>2, FirstIsHighest
<1>4. ASSUME NEW bidder \in Bidders, NEW newname \in Premium, NEW bid \in Bids[newname],
             bidname(bidder, newname, bid)
      PROVE  bids'[name].high_bid > 0
  BY <1>1, <1>4, BidsAssumption DEF bidname, Put
<1>5. ASSUME Tick
      PROVE  bids'[name].high_bid = bids[name].high_bid
  BY <1>1, <1>5 DEF Tick, IInv, TypeOK, BidRows
<1>6. ASSUME NEW account, NEW newact, newaccount(account, newact)
      PROVE  bids'[name].high_bid = bids[name].high_bid
  <2>1. bids' = bids \/ bids' = Without(bids, newact)
    BY <1>6 DEF newaccount, ClaimName
  <2> QED
    BY <1>1, <2>1 DEF Without
<1>7. CASE UNCHANGED bids
  BY <1>2, <1>7
<1>8. bids' = bids \/ CloseAuction \/ bids'[name].high_bid = bids[name].high_bid
        \/ bids'[name].high_bid > 0
  <2>1. CASE UNCHANGED vars
    BY <2>1 DEF vars
  <2>2. CASE Next
    BY <1>4, <1>5, <1>6, <2>2 DEF Next, bidrefund, RunDeferred, onblock, NoneCloses, NoAuction,
       runrex, Activate, auction_vars
  <2> QED
    BY <2>1, <2>2
<1>9. ~(bids'[name].high_bid > 0)
  <2>1. bids'[name].high_bid \in Int
    BY EachStep DEF IInv, TypeOK, BidRows
  <2> QED
    BY <2>1
<1> QED
  BY <1>2, <1>3, <1>8, <1>9

----------------------------------------------------------------------------
(* What eosio.names owes *)

OpenBid(tbl, name) ==
    IF name \in DOMAIN tbl /\ tbl[name].high_bid > 0 THEN tbl[name].high_bid ELSE 0
RefundAt(tbl, place) == IF place \in DOMAIN tbl THEN tbl[place] ELSE 0

\* The open bids of a table of bids, and the refunds of a table of refunds, added up.
OpenTotal(tbl) == SumFunctionOnSet([name \in Premium |-> OpenBid(tbl, name)], Premium)
RefundTotal(tbl) ==
    SumFunctionOnSet([place \in Premium \X Bidders |-> RefundAt(tbl, place)], Premium \X Bidders)

BidsOK(tbl) == \A name \in Premium : OpenBid(tbl, name) \in Nat
RefundsOK(tbl) == \A place \in Premium \X Bidders : RefundAt(tbl, place) \in Nat

LEMMA TotalTypes ==
    /\ \A tbl : BidsOK(tbl) => OpenTotal(tbl) \in Nat
    /\ \A tbl : RefundsOK(tbl) => RefundTotal(tbl) \in Nat
<1>1. IsFiniteSet(Premium) /\ IsFiniteSet(Premium \X Bidders)
  BY FiniteAssumption, FS_Product
<1>2. ASSUME NEW tbl, BidsOK(tbl) PROVE OpenTotal(tbl) \in Nat
  <2> DEFINE f == [name \in Premium |-> OpenBid(tbl, name)]
  <2>1. \A name \in Premium : f[name] \in Nat
    BY <1>2 DEF BidsOK
  <2> HIDE DEF f
  <2>2. SumFunctionOnSet(f, Premium) \in Nat
    BY <1>1, <2>1, SumType
  <2> QED
    BY <2>2 DEF f, OpenTotal
<1>3. ASSUME NEW tbl, RefundsOK(tbl) PROVE RefundTotal(tbl) \in Nat
  <2> DEFINE f == [place \in Premium \X Bidders |-> RefundAt(tbl, place)]
  <2>1. \A place \in Premium \X Bidders : f[place] \in Nat
    BY <1>3 DEF RefundsOK
  <2> HIDE DEF f
  <2>2. SumFunctionOnSet(f, Premium \X Bidders) \in Nat
    BY <1>1, <2>1, SumType
  <2> QED
    BY <2>2 DEF f, RefundTotal
<1> QED
  BY <1>2, <1>3

\* A change of one open bid, or of one refund, changes the total by as much.
LEMMA OpenChanges ==
    ASSUME NEW tbl, NEW new, BidsOK(tbl), BidsOK(new), NEW name \in Premium,
           \A n \in Premium : n # name => OpenBid(new, n) = OpenBid(tbl, n)
    PROVE  OpenTotal(new) = OpenTotal(tbl) + (OpenBid(new, name) - OpenBid(tbl, name))
<1> DEFINE f == [n \in Premium |-> OpenBid(tbl, n)]
           g == [n \in Premium |-> OpenBid(new, n)]
<1>1. \A n \in Premium : f[n] \in Int /\ g[n] \in Int
  BY DEF BidsOK
<1>2. \A n \in Premium \ {name} : g[n] = f[n]
  OBVIOUS
<1>3. f[name] = OpenBid(tbl, name) /\ g[name] = OpenBid(new, name)
  OBVIOUS
<1> HIDE DEF f, g
<1>4. SumFunctionOnSet(g, Premium) = SumFunctionOnSet(f, Premium) + (g[name] - f[name])
  BY <1>1, <1>2, FiniteAssumption, SumUpdate
<1> QED
  BY <1>3, <1>4 DEF f, g, OpenTotal

LEMMA RefundChanges ==
    ASSUME NEW tbl, NEW new, RefundsOK(tbl), RefundsOK(new), NEW place \in Premium \X Bidders,
           \A p \in Premium \X Bidders : p # place => RefundAt(new, p) = RefundAt(tbl, p)
    PROVE  RefundTotal(new) = RefundTotal(tbl) + (RefundAt(new, place) - RefundAt(tbl, place))
<1> DEFINE Places == Premium \X Bidders
           f == [p \in Places |-> RefundAt(tbl, p)]
           g == [p \in Places |-> RefundAt(new, p)]
<1>1. \A p \in Places : f[p] \in Int /\ g[p] \in Int
  BY DEF RefundsOK
<1>2. \A p \in Places \ {place} : g[p] = f[p]
  OBVIOUS
<1>3. f[place] = RefundAt(tbl, place) /\ g[place] = RefundAt(new, place) /\ place \in Places
  OBVIOUS
<1>4. IsFiniteSet(Places)
  BY FiniteAssumption, FS_Product
<1> HIDE DEF f, g, Places
<1>5. SumFunctionOnSet(g, Places) = SumFunctionOnSet(f, Places) + (g[place] - f[place])
  BY <1>1, <1>2, <1>3, <1>4, SumUpdate
<1> QED
  BY <1>3, <1>5 DEF f, g, Places, RefundTotal

\* Names without an open bid, and bidders without a refund, add nothing.
LEMMA SolventIs ==
    ASSUME TypeOK
    PROVE  /\ BidsOK(bids) /\ RefundsOK(bid_refunds)
           /\ Solvent <=> names_balance >= OpenTotal(bids) + RefundTotal(bid_refunds)
                                               + namebid_proceeds
<1> DEFINE open == {name \in Premium : Open(name)}
           f == [name \in open |-> bids[name].high_bid]
           g == [name \in Premium |-> OpenBid(bids, name)]
           Places == Premium \X Bidders
           h == [place \in Places |-> RefundAt(bid_refunds, place)]
<1>1. /\ IsFiniteSet(Premium) /\ IsFiniteSet(Places) /\ open \subseteq Premium
      /\ IsFiniteSet(open) /\ DOMAIN bid_refunds \subseteq Places
  BY FiniteAssumption, FS_Product, FS_Subset DEF TypeOK
<1>2. BidsOK(bids) /\ RefundsOK(bid_refunds)
  BY DEF BidsOK, RefundsOK, OpenBid, RefundAt, TypeOK, BidRows
<1>3. /\ \A name \in Premium : g[name] \in Int
      /\ \A name \in Premium \ open : g[name] = 0
      /\ \A name \in open : f[name] = g[name]
  BY <1>2 DEF BidsOK, OpenBid, Open
<1>4. /\ \A place \in Places : h[place] \in Int
      /\ \A place \in Places \ DOMAIN bid_refunds : h[place] = 0
      /\ \A place \in DOMAIN bid_refunds : bid_refunds[place] = h[place]
  BY <1>1, <1>2 DEF RefundsOK, RefundAt
<1>5. Solvent <=> names_balance >= SumFunctionOnSet(f, open)
                      + SumFunctionOnSet(bid_refunds, DOMAIN bid_refunds) + namebid_proceeds
  BY DEF Solvent, SumFunction
<1>6. /\ OpenTotal(bids) = SumFunctionOnSet(g, Premium)
      /\ RefundTotal(bid_refunds) = SumFunctionOnSet(h, Places)
  BY DEF OpenTotal, RefundTotal
<1> HIDE DEF open, f, g, h, Places
<1>7. SumFunctionOnSet(f, open) = SumFunctionOnSet(g, open)
  BY <1>1, <1>3, SumAgree
<1>8. SumFunctionOnSet(g, open) = SumFunctionOnSet(g, Premium)
  BY <1>1, <1>3, SumSupport
<1>9. SumFunctionOnSet(bid_refunds, DOMAIN bid_refunds) = SumFunctionOnSet(h, DOMAIN bid_refunds)
  BY <1>1, <1>4, FS_Subset, SumAgree
<1>10. SumFunctionOnSet(h, DOMAIN bid_refunds) = SumFunctionOnSet(h, Places)
  BY <1>1, <1>4, SumSupport
<1> QED
  BY <1>2, <1>5, <1>6, <1>7, <1>8, <1>9, <1>10

LEMMA SolventPrime ==
    TypeOK' => /\ BidsOK(bids') /\ RefundsOK(bid_refunds')
               /\ Solvent' <=> names_balance' >= OpenTotal(bids') + RefundTotal(bid_refunds')
                                                     + namebid_proceeds'
<1>1. (TypeOK => /\ BidsOK(bids) /\ RefundsOK(bid_refunds)
                 /\ Solvent <=> names_balance >= OpenTotal(bids) + RefundTotal(bid_refunds)
                                                     + namebid_proceeds)'
  BY SolventIs, PTL
<1> QED
  BY <1>1 DEF BidsOK, RefundsOK

\* A bid adds itself to what is owed: the bid it replaces is owed as a refund instead.
LEMMA BidCovered ==
    ASSUME IInv, IInv', NEW bidder \in Bidders, NEW newname \in Premium, NEW bid \in Bids[newname],
           bidname(bidder, newname, bid)
    PROVE  OpenTotal(bids') + RefundTotal(bid_refunds') =
               OpenTotal(bids) + RefundTotal(bid_refunds) + bid
<1> DEFINE old == OpenBid(bids, newname)
<1>1. /\ BidsOK(bids) /\ BidsOK(bids') /\ RefundsOK(bid_refunds) /\ RefundsOK(bid_refunds')
      /\ bid \in Nat \ {0} /\ old \in Nat
  BY SolventIs, SolventPrime, BidsAssumption DEF IInv, BidsOK
<1>2. /\ bids' = Put(bids, newname, [high_bidder |-> bidder, high_bid |-> bid, age |-> 0])
      /\ FirstBid(newname) \/ HigherBid(bidder, newname, bid)
  BY DEF bidname
<1>3. /\ OpenBid(bids', newname) = bid
      /\ \A n \in Premium : n # newname => OpenBid(bids', n) = OpenBid(bids, n)
  BY <1>1, <1>2 DEF OpenBid, Put
<1>4. OpenTotal(bids') = OpenTotal(bids) + (bid - old)
  BY <1>1, <1>3, OpenChanges
<1>5. RefundTotal(bid_refunds') = RefundTotal(bid_refunds) + old
  <2>1. CASE FirstBid(newname)
    <3>1. bid_refunds' = bid_refunds /\ old = 0
      BY <2>1 DEF FirstBid, OpenBid
    <3>2. RefundTotal(bid_refunds) \in Nat
      BY <1>1, TotalTypes
    <3> QED
      BY <3>1, <3>2
  <2>2. CASE HigherBid(bidder, newname, bid)
    <3> DEFINE place == <<newname, bids[newname].high_bidder>>
    <3>1. /\ newname \in DOMAIN bids /\ bids[newname].high_bid = old
          /\ place \in Premium \X Bidders
          /\ bid_refunds' = outbid(newname, bids[newname].high_bidder, old)
      BY <2>2 DEF HigherBid, can_outbid, OpenBid, IInv, TypeOK, BidRows
    <3> HIDE DEF old
    <3>2. /\ RefundAt(bid_refunds', place) = RefundAt(bid_refunds, place) + old
          /\ \A p \in Premium \X Bidders :
                 p # place => RefundAt(bid_refunds', p) = RefundAt(bid_refunds, p)
      <4>1. CASE place \in DOMAIN bid_refunds
        <5>1. bid_refunds' = [bid_refunds EXCEPT ![place] = @ + old]
          BY <3>1, <4>1 DEF outbid
        <5> QED
          BY <4>1, <5>1 DEF RefundAt
      <4>2. CASE place \notin DOMAIN bid_refunds
        <5>1. bid_refunds' = Put(bid_refunds, place, old)
          BY <3>1, <4>2 DEF outbid
        <5> QED
          BY <1>1, <4>2, <5>1 DEF RefundAt, Put
      <4> QED
        BY <4>1, <4>2
    <3>3. RefundAt(bid_refunds, place) \in Nat
      BY <1>1, <3>1 DEF RefundsOK
    <3> HIDE DEF place
    <3>4. RefundTotal(bid_refunds') = RefundTotal(bid_refunds)
              + (RefundAt(bid_refunds', place) - RefundAt(bid_refunds, place))
      BY <1>1, <3>1, <3>2, RefundChanges
    <3> QED
      BY <1>1, <3>2, <3>3, <3>4, TotalTypes
  <2> QED
    BY <1>2, <2>1, <2>2
<1>6. OpenTotal(bids) \in Nat /\ RefundTotal(bid_refunds) \in Nat
  BY <1>1, TotalTypes
<1> QED
  BY <1>1, <1>4, <1>5, <1>6

\* A refund is owed until it is paid, and once.
LEMMA RefundCovered ==
    ASSUME IInv, IInv', NEW bidder \in Bidders, NEW newname \in Premium,
           pay_refund(bidder, newname)
    PROVE  names_balance' - RefundTotal(bid_refunds') = names_balance - RefundTotal(bid_refunds)
<1> DEFINE place == <<newname, bidder>>
<1>1. /\ place \in DOMAIN bid_refunds /\ place \in Premium \X Bidders
      /\ names_balance' = names_balance - bid_refunds[place]
      /\ bid_refunds' = Without(bid_refunds, place)
  BY DEF pay_refund, refunded
<1> HIDE DEF place
<1>2. /\ RefundAt(bid_refunds, place) = bid_refunds[place] /\ RefundAt(bid_refunds', place) = 0
      /\ \A p \in Premium \X Bidders :
             p # place => RefundAt(bid_refunds', p) = RefundAt(bid_refunds, p)
  BY <1>1 DEF RefundAt, Without
<1>3. RefundsOK(bid_refunds) /\ RefundsOK(bid_refunds')
  BY SolventIs, SolventPrime DEF IInv
<1>4. RefundTotal(bid_refunds') = RefundTotal(bid_refunds)
          + (RefundAt(bid_refunds', place) - RefundAt(bid_refunds, place))
  BY <1>1, <1>2, <1>3, RefundChanges
<1>5. /\ RefundAt(bid_refunds, place) \in Nat /\ RefundTotal(bid_refunds) \in Nat
      /\ names_balance \in Nat
  BY <1>1, <1>3, TotalTypes DEF RefundsOK, IInv, TypeOK
<1> QED
  BY <1>1, <1>2, <1>4, <1>5

\* A bid that wins is owed to nobody; REX may collect it, and no more.
LEMMA CloseCovered ==
    ASSUME IInv, IInv', CloseAuction
    PROVE  OpenTotal(bids') + namebid_proceeds' <= OpenTotal(bids) + namebid_proceeds
<1>1. PICK name \in highest :
          /\ CanClose(name)
          /\ channel_namebid_to_rex(bids[name].high_bid)
          /\ bids' = [bids EXCEPT ![name].high_bid = -@]
  BY DEF CloseAuction
<1>2. name \in DOMAIN bids /\ name \in Premium /\ bids[name].high_bid \in Nat \ {0}
  BY <1>1 DEF highest, AfterClosed, CanClose, IInv, TypeOK, BidRows
<1>3. /\ OpenBid(bids, name) = bids[name].high_bid /\ OpenBid(bids', name) = 0
      /\ \A n \in Premium : n # name => OpenBid(bids', n) = OpenBid(bids, n)
  BY <1>1, <1>2 DEF OpenBid, IInv, TypeOK, BidRows
<1>4. BidsOK(bids) /\ BidsOK(bids')
  BY SolventIs, SolventPrime DEF IInv
<1>5. OpenTotal(bids') = OpenTotal(bids) + (OpenBid(bids', name) - OpenBid(bids, name))
  BY <1>2, <1>3, <1>4, OpenChanges
<1>6. OpenTotal(bids) \in Nat /\ namebid_proceeds \in Nat
  BY <1>4, TotalTypes DEF IInv, TypeOK
<1>7. namebid_proceeds' = namebid_proceeds + bids[name].high_bid
        \/ namebid_proceeds' = namebid_proceeds
  BY <1>1 DEF channel_namebid_to_rex
<1> QED
  BY <1>2, <1>3, <1>5, <1>6, <1>7

\* Nothing else changes an open bid or a refund.
LEMMA SameTotals ==
    ASSUME IInv, IInv', UNCHANGED bid_refunds,
           \A name \in Premium : OpenBid(bids', name) = OpenBid(bids, name)
    PROVE  OpenTotal(bids') = OpenTotal(bids) /\ RefundTotal(bid_refunds') = RefundTotal(bid_refunds)
<1>1. [name \in Premium |-> OpenBid(bids', name)] = [name \in Premium |-> OpenBid(bids, name)]
  OBVIOUS
<1> QED
  BY <1>1 DEF OpenTotal

LEMMA StaysSolvent ==
    ASSUME IInv, IInv', Solvent, [Next]_vars
    PROVE  Solvent'
<1>1. /\ names_balance >= OpenTotal(bids) + RefundTotal(bid_refunds) + namebid_proceeds
      /\ BidsOK(bids) /\ RefundsOK(bid_refunds)
  BY SolventIs DEF IInv
<1>2. SUFFICES names_balance' >= OpenTotal(bids') + RefundTotal(bid_refunds') + namebid_proceeds'
  BY SolventPrime DEF IInv
<1>3. /\ OpenTotal(bids) \in Nat /\ RefundTotal(bid_refunds) \in Nat
      /\ OpenTotal(bids') \in Nat /\ RefundTotal(bid_refunds') \in Nat
  BY <1>1, SolventPrime, TotalTypes DEF IInv
<1>4. /\ names_balance \in Nat /\ names_balance' \in Nat
      /\ namebid_proceeds \in Nat /\ namebid_proceeds' \in Nat
  BY DEF IInv, TypeOK
<1>5. ASSUME NEW bidder \in Bidders, NEW newname \in Premium, NEW bid \in Bids[newname],
             bidname(bidder, newname, bid)
      PROVE  names_balance' >= OpenTotal(bids') + RefundTotal(bid_refunds') + namebid_proceeds'
  <2>1. names_balance' = names_balance + bid /\ namebid_proceeds' = namebid_proceeds /\ bid \in Nat
    BY <1>5, BidsAssumption DEF bidname, rex_vars
  <2>2. OpenTotal(bids') + RefundTotal(bid_refunds') =
            OpenTotal(bids) + RefundTotal(bid_refunds) + bid
    BY <1>5, BidCovered
  <2> QED
    BY <1>1, <1>3, <1>4, <2>1, <2>2
<1>6. ASSUME NEW bidder \in Bidders, NEW newname \in Premium, pay_refund(bidder, newname),
             bids' = bids, namebid_proceeds' = namebid_proceeds
      PROVE  names_balance' >= OpenTotal(bids') + RefundTotal(bid_refunds') + namebid_proceeds'
  <2>1. names_balance' - RefundTotal(bid_refunds') = names_balance - RefundTotal(bid_refunds)
    BY <1>6, RefundCovered
  <2> QED
    BY <1>1, <1>3, <1>4, <1>6, <2>1
<1>7. ASSUME CloseAuction, UNCHANGED <<names_balance, bid_refunds>>
      PROVE  names_balance' >= OpenTotal(bids') + RefundTotal(bid_refunds') + namebid_proceeds'
  <2>1. OpenTotal(bids') + namebid_proceeds' <= OpenTotal(bids) + namebid_proceeds
    BY <1>7, CloseCovered
  <2> QED
    BY <1>1, <1>3, <1>4, <1>7, <2>1
<1>8. ASSUME NEW available \in BOOLEAN, runrex(available)
      PROVE  names_balance' >= OpenTotal(bids') + RefundTotal(bid_refunds') + namebid_proceeds'
  <2>1. /\ names_balance' = IF rex_available THEN names_balance - namebid_proceeds ELSE names_balance
        /\ namebid_proceeds' = 0 /\ bids' = bids /\ bid_refunds' = bid_refunds
    BY <1>8 DEF runrex
  <2> QED
    BY <1>1, <1>3, <1>4, <2>1
<1>9. ASSUME \A name \in Premium : OpenBid(bids', name) = OpenBid(bids, name),
             UNCHANGED <<names_balance, bid_refunds, namebid_proceeds>>
      PROVE  names_balance' >= OpenTotal(bids') + RefundTotal(bid_refunds') + namebid_proceeds'
  BY <1>1, <1>9, SameTotals
<1>10. ASSUME NEW account, NEW newact, newaccount(account, newact)
       PROVE  /\ \A name \in Premium : OpenBid(bids', name) = OpenBid(bids, name)
              /\ UNCHANGED <<names_balance, bid_refunds, namebid_proceeds>>
  <2>1. UNCHANGED <<names_balance, bid_refunds, namebid_proceeds>>
    BY <1>10 DEF newaccount, rex_vars
  <2>2. bids' = bids \/ ClaimName(account, newact)
    BY <1>10 DEF newaccount
  <2>3. CASE ClaimName(account, newact)
    <3>1. /\ newact \in DOMAIN bids /\ bids[newact].high_bid < 0 /\ bids[newact].high_bid \in Int
          /\ bids' = Without(bids, newact)
      BY <2>3 DEF ClaimName, IInv, TypeOK, BidRows
    <3> QED
      BY <2>1, <3>1 DEF OpenBid, Without
  <2> QED
    BY <2>1, <2>2, <2>3
<1>11. ASSUME Tick
       PROVE  /\ \A name \in Premium : OpenBid(bids', name) = OpenBid(bids, name)
              /\ UNCHANGED <<names_balance, bid_refunds, namebid_proceeds>>
  <2>1. UNCHANGED <<names_balance, bid_refunds, namebid_proceeds>>
    BY <1>11 DEF Tick, rex_vars
  <2>2. /\ DOMAIN bids' = DOMAIN bids
        /\ \A name \in DOMAIN bids : bids'[name].high_bid = bids[name].high_bid
    BY <1>11 DEF Tick, IInv, TypeOK, BidRows
  <2> QED
    BY <2>1, <2>2 DEF OpenBid
<1>12. ASSUME onblock
       PROVE  names_balance' >= OpenTotal(bids') + RefundTotal(bid_refunds') + namebid_proceeds'
  <2>1. UNCHANGED <<names_balance, bid_refunds>>
    BY <1>12 DEF onblock
  <2>2. CloseAuction \/ UNCHANGED <<bids, namebid_proceeds>>
    BY <1>12 DEF onblock, NoneCloses, NoAuction
  <2> QED
    BY <1>7, <1>9, <2>1, <2>2
<1>13. ASSUME UNCHANGED <<names_balance, bids, bid_refunds, namebid_proceeds>>
       PROVE  names_balance' >= OpenTotal(bids') + RefundTotal(bid_refunds') + namebid_proceeds'
  BY <1>9, <1>13
<1>14. ASSUME NEW bidder \in Bidders, NEW newname \in Premium,
              bidrefund(bidder, newname) \/ RunDeferred(bidder, newname)
       PROVE  names_balance' >= OpenTotal(bids') + RefundTotal(bid_refunds') + namebid_proceeds'
  <2>1. bids' = bids /\ namebid_proceeds' = namebid_proceeds
    BY <1>14 DEF bidrefund, RunDeferred, rex_vars
  <2>2. pay_refund(bidder, newname) \/ UNCHANGED <<names_balance, bid_refunds>>
    BY <1>14 DEF bidrefund, RunDeferred
  <2> QED
    BY <1>6, <1>13, <2>1, <2>2
<1>15. CASE UNCHANGED vars \/ Activate
  BY <1>13, <1>15 DEF vars, Activate, auction_vars, rex_vars
<1>16. CASE Next
  BY <1>5, <1>8, <1>9, <1>10, <1>11, <1>12, <1>14, <1>15, <1>16 DEF Next
<1> QED
  BY <1>15, <1>16

----------------------------------------------------------------------------
(* The theorems *)

\* The tables stay well formed, and no bid gets so high that its key is that of a closed one.
THEOREM AuctionInvariant == Spec => []IInv
<1>1. Init => IInv
  BY Initially
<1>2. IInv /\ [Next]_vars => IInv'
  BY EachStep
<1> QED
  BY <1>1, <1>2, PTL DEF Spec

\* Whatever is owed at any time - bids that may still be outbid, refunds not yet asked for,
\* proceeds not yet collected - eosio.names has the tokens for it.
THEOREM NamesAlwaysSolvent == Spec => []Solvent
<1>1. Init => Solvent
  <2> SUFFICES ASSUME Init PROVE Solvent
    OBVIOUS
  <2>1. /\ DOMAIN bids = {} /\ DOMAIN bid_refunds = {} /\ names_balance = 0
        /\ namebid_proceeds = 0
    BY DEF Init, Empty
  <2>2. {name \in Premium : Open(name)} = {}
    BY <2>1 DEF Open
  <2>3. /\ SumFunction([name \in {n \in Premium : Open(n)} |-> bids[name].high_bid]) = 0
        /\ SumFunction(bid_refunds) = 0
    BY <2>1, <2>2, SumEmpty DEF SumFunction
  <2> QED
    BY <2>1, <2>3 DEF Solvent
<1>2. IInv /\ IInv' /\ Solvent /\ [Next]_vars => Solvent'
  BY StaysSolvent
<1> QED
  BY <1>1, <1>2, AuctionInvariant, PTL DEF Spec

\* The auction that onblock closes has the highest of the open bids, whatever closed
\* rows are still in the index.
THEOREM HighestBidCloses == Spec => HighestCloses
<1>1. ASSUME IInv, [Next]_vars
      PROVE  \A name \in Premium :
                 Open(name) /\ name \in DOMAIN bids' /\ bids'[name].high_bid < 0
                     => \A n \in Premium : Open(n) => bids[n].high_bid <= bids[name].high_bid
  BY <1>1, ClosedBid
<1> QED
  BY <1>1, AuctionInvariant, PTL DEF Spec, HighestCloses

\* Bids and refunds, in time or late, closings and accounts are the steps of AuctionPromise:
\* a bidder's tokens are its own until it wins a name.
THEOREM ContractImplementsPromise == Spec => ImplementsPromise
<1>1. Init => Promise!Init
  BY Initially
<1>2. IInv /\ [Next]_vars => [Promise!Next]_(Promise!vars)
  BY EachStep
<1> QED
  BY <1>1, <1>2, AuctionInvariant, PTL DEF Spec, ImplementsPromise, Promise!Spec
=============================================================================
