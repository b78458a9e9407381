--------------------------- MODULE AuctionPromise ---------------------------
(***************************************************************************)
(* What the auctions of names promise.  The tokens a bidder deposits stay  *)
(* its own, and all but its leading bid can be paid back, until it wins    *)
(* the name it leads for; the highest bid wins; and an account of a name   *)
(* that is sold belongs to the winner, unless the system made it.  Nothing *)
(* is said of time, of how refunds are kept, or of where proceeds go.      *)
(***************************************************************************)
EXTENDS Integers

CONSTANTS Bidders, Self, Premium, Funds, Bids

VARIABLES
    wallet,             \* bidder -> its tokens
    deposit,            \* <<bidder, name>> -> the tokens it has deposited
    leading,            \* name -> the bidder and the price that lead its auction
    won,                \* name -> the winner of its auction, until it takes the name
    owner               \* name -> who created the account of that name

vars == <<wallet, deposit, leading, won, owner>>

With(f, k, v) == [x \in DOMAIN f \cup {k} |-> IF x = k THEN v ELSE f[x]]
Drop(f, k) == [x \in DOMAIN f \ {k} |-> f[x]]

Init ==
    /\ wallet = Funds
    /\ deposit = [place \in Bidders \X Premium |-> 0]
    /\ leading = [n \in {} |-> n] /\ won = [n \in {} |-> n] /\ owner = [n \in {} |-> n]

Bid(bidder, name, price) ==
    /\ name \notin DOMAIN won \cup DOMAIN owner
    /\ name \in DOMAIN leading =>
           bidder # leading[name].bidder /\ price > leading[name].price
    /\ price <= wallet[bidder]
    /\ wallet' = [wallet EXCEPT ![bidder] = @ - price]
    /\ deposit' = [deposit EXCEPT ![<<bidder, name>>] = @ + price]
    /\ leading' = With(leading, name, [bidder |-> bidder, price |-> price])
    /\ UNCHANGED <<won, owner>>

\* What a bidder has deposited for a name besides its leading bid.
Due(bidder, name) ==
    deposit[<<bidder, name>>] -
        IF name \in DOMAIN leading /\ leading[name].bidder = bidder
        THEN leading[name].price ELSE 0

PayBack(bidder, name) ==
    /\ Due(bidder, name) > 0
    /\ wallet' = [wallet EXCEPT ![bidder] = @ + Due(bidder, name)]
    /\ deposit' = [deposit EXCEPT ![<<bidder, name>>] = @ - Due(bidder, name)]
    /\ UNCHANGED <<leading, won, owner>>

Close(name) ==
    /\ name \in DOMAIN leading
    /\ \A n \in DOMAIN leading : leading[n].price <= leading[name].price
    /\ deposit' = [deposit EXCEPT ![<<leading[name].bidder, name>>] = @ - leading[name].price]
    /\ won' = With(won, name, leading[name].bidder)
    /\ leading' = Drop(leading, name)
    /\ UNCHANGED <<wallet, owner>>

Take(name) ==
    /\ name \in DOMAIN won
    /\ name \notin DOMAIN owner
    /\ owner' = With(owner, name, won[name])
    /\ won' = Drop(won, name)
    /\ UNCHANGED <<wallet, deposit, leading>>

\* The system account may create an account of any name.
Preempt(name) ==
    /\ name \notin DOMAIN owner
    /\ owner' = With(owner, name, Self)
    /\ UNCHANGED <<wallet, deposit, leading, won>>

Next ==
    \/ \E bidder \in Bidders, name \in Premium :
           (\E price \in Bids[name] : Bid(bidder, name, price)) \/ PayBack(bidder, name)
    \/ \E name \in Premium : Close(name) \/ Take(name) \/ Preempt(name)

Spec == Init /\ [][Next]_vars
=============================================================================
