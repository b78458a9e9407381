---------------------------- MODULE NameAuction ----------------------------
(***************************************************************************)
(* The auctions of premium account names in the system contract: bids and  *)
(* refunds (name_bidding.cpp), the closing of one auction a day by onblock *)
(* (producer_pay.cpp), the creation of accounts (eosio.system.cpp), and    *)
(* the proceeds that REX collects (rex.cpp).                               *)
(*                                                                         *)
(* Times are kept as ages, counted in ticks and no further than any        *)
(* condition can tell them apart, so that time may pass for ever.          *)
(***************************************************************************)
EXTENDS Integers, FiniteSets, Functions

CONSTANTS
    Bidders,            \* the accounts that bid
    Self,               \* the system account
    Premium,            \* names sold at auction: short and without a dot
    OtherNames,         \* other names: of 12 characters, or with a dot
    Suffix,             \* the names with a dot -> what follows the last dot
    Funds,              \* Bidders -> the tokens each one brings
    Bids,               \* Premium -> the amounts that are bid for a name
    UintRange,          \* 2^64: the index keys are unsigned
    Day,                \* an auction closes a day after its last bid and after the last closing
    ActivationDelay,    \* no auction closes in the first 14 days of the activated chain
    ScheduleInterval    \* onblock looks at the auctions when it updates the schedule

ASSUME BidsAssumption ==
    /\ UintRange \in Nat \ {0}
    /\ Bids \in [Premium -> SUBSET {bid \in Nat \ {0} : 4 * bid <= UintRange}]
ASSUME FundsAssumption == Funds \in [Bidders -> Nat]
ASSUME TimesAssumption == Day \in Nat /\ ActivationDelay \in Nat /\ ScheduleInterval \in Nat
ASSUME FiniteAssumption == IsFiniteSet(Bidders) /\ IsFiniteSet(Premium)
ASSUME NamesDisjoint == Self \notin Bidders /\ Premium \cap OtherNames = {}

VARIABLES
    wallet,             \* the tokens of each bidder
    names_balance,      \* the tokens of eosio.names
    bids,               \* name -> high_bidder, high_bid (negative once closed), age of the bid
    bid_refunds,        \* <<name, bidder>> -> the amount to be refunded
    deferred,           \* <<name, bidder>> of the deferred refunds not yet run
    created,            \* the accounts created
    owner,              \* history: premium name -> who created the account of that name
    rex_available,      \* whether somebody holds REX
    namebid_proceeds,   \* what REX is going to collect from eosio.names
    clock               \* ages of the last closing, the last schedule and the activation

vars == <<wallet, names_balance, bids, bid_refunds, deferred, created, owner,
          rex_available, namebid_proceeds, clock>>
auction_vars == <<wallet, names_balance, bids, bid_refunds, deferred, created, owner>>
rex_vars == <<rex_available, namebid_proceeds>>

NotYet == -1            \* the age of the activation before it happens

BidRows == [high_bidder : Bidders, high_bid : Int \ {0}, age : Nat]
Clocks == [name_close : Nat, schedule : Nat, activation : Nat \cup {NotYet}]

TypeOK ==
    /\ wallet \in [Bidders -> Nat]
    /\ names_balance \in Nat
    /\ DOMAIN bids \subseteq Premium /\ bids \in [DOMAIN bids -> BidRows]
    /\ DOMAIN bid_refunds \subseteq Premium \X Bidders
    /\ bid_refunds \in [DOMAIN bid_refunds -> Nat \ {0}]
    /\ deferred \subseteq Premium \X Bidders
    /\ created \subseteq Premium \cup OtherNames
    /\ DOMAIN owner = created \cap Premium
    /\ owner \in [DOMAIN owner -> Bidders \cup {Self}]
    /\ rex_available \in BOOLEAN
    /\ namebid_proceeds \in Nat
    /\ clock \in Clocks

Put(f, k, v) == [x \in DOMAIN f \cup {k} |-> IF x = k THEN v ELSE f[x]]
Without(f, k) == [x \in DOMAIN f \ {k} |-> f[x]]

Empty == [x \in {} |-> x]

\* No name has been sold and no schedule made: those times are in the distant past.
Init ==
    /\ wallet = Funds /\ names_balance = 0
    /\ bids = Empty /\ bid_refunds = Empty /\ deferred = {}
    /\ created = {} /\ owner = Empty
    /\ rex_available = FALSE /\ namebid_proceeds = 0
    /\ clock = [name_close |-> Day + 1, schedule |-> ScheduleInterval + 1, activation |-> NotYet]

is_account(name) == name \in Bidders \cup {Self} \cup created
Open(name) == name \in DOMAIN bids /\ bids[name].high_bid > 0

----------------------------------------------------------------------------
(* Bids and refunds *)

\* Faulty variant of outbid: the refund of an earlier bid is forgotten.
outbid_again(newname, bidder, amount) ==
    Put(bid_refunds, <<newname, bidder>>, amount)

\* A bidder may be outbid again before the earlier refund is paid.
outbid(newname, bidder, amount) ==
    IF <<newname, bidder>> \in DOMAIN bid_refunds
    THEN [bid_refunds EXCEPT ![<<newname, bidder>>] = @ + amount]
    ELSE Put(bid_refunds, <<newname, bidder>>, amount)

FirstBid(newname) ==
    /\ newname \notin DOMAIN bids
    /\ UNCHANGED <<bid_refunds, deferred>>

\* Faulty variant of can_outbid: bids are accepted in a closed auction.
can_outbid_closed(current, bidder, bid) ==
    bid - current.high_bid > current.high_bid \div 10 /\ current.high_bidder # bidder

can_outbid(current, bidder, bid) ==
    /\ current.high_bid > 0
    /\ bid - current.high_bid > current.high_bid \div 10
    /\ current.high_bidder # bidder

\* The deferred refund of an earlier bid is canceled before a new one is sent.
HigherBid(bidder, newname, bid) ==
    /\ newname \in DOMAIN bids
    /\ can_outbid(bids[newname], bidder, bid)
    /\ bid_refunds' = outbid(newname, bids[newname].high_bidder, bids[newname].high_bid)
    /\ deferred' = deferred \cup {<<newname, bids[newname].high_bidder>>}

bidname(bidder, newname, bid) ==
    /\ ~is_account(newname)
    /\ bid > 0
    /\ bid <= wallet[bidder]
    /\ FirstBid(newname) \/ HigherBid(bidder, newname, bid)
    /\ bids' = Put(bids, newname, [high_bidder |-> bidder, high_bid |-> bid, age |-> 0])
    /\ wallet' = [wallet EXCEPT ![bidder] = @ - bid]
    /\ names_balance' = names_balance + bid
    /\ UNCHANGED <<created, owner, rex_vars, clock>>

\* Faulty variant of refunded: the row of the refund is not erased.
refunded_again(newname, bidder) == bid_refunds

refunded(newname, bidder) == Without(bid_refunds, <<newname, bidder>>)

pay_refund(bidder, newname) ==
    LET amount == bid_refunds[<<newname, bidder>>]
    IN  /\ <<newname, bidder>> \in DOMAIN bid_refunds
        /\ amount <= names_balance
        /\ wallet' = [wallet EXCEPT ![bidder] = @ + amount]
        /\ names_balance' = names_balance - amount
        /\ bid_refunds' = refunded(newname, bidder)

\* Anyone may call it: the contract is privileged and needs no signature of the bidder.
bidrefund(bidder, newname) ==
    /\ pay_refund(bidder, newname)
    /\ UNCHANGED <<bids, deferred, created, owner, rex_vars, clock>>

\* A deferred refund may come too late, or be refused by the bidder's contract.
RunDeferred(bidder, newname) ==
    /\ <<newname, bidder>> \in deferred
    /\ deferred' = deferred \ {<<newname, bidder>>}
    /\ pay_refund(bidder, newname) \/ UNCHANGED <<wallet, names_balance, bid_refunds>>
    /\ UNCHANGED <<bids, created, owner, rex_vars, clock>>

----------------------------------------------------------------------------
(* onblock *)

\* The index orders bids by the bits of -high_bid: the highest bid first, after the closed ones.
by_high_bid(name) == (-bids[name].high_bid) % UintRange

\* Faulty variant of AfterClosed: the index is read from its beginning.
FromBeginning == DOMAIN bids

\* lower_bound( std::numeric_limits<uint64_t>::max()/2 )
AfterClosed == {name \in DOMAIN bids : by_high_bid(name) >= (UintRange - 1) \div 2}

\* Faulty variant of highest: the end of the index is taken for its beginning.
lowest == {name \in AfterClosed : \A n \in AfterClosed : by_high_bid(name) >= by_high_bid(n)}

highest == {name \in AfterClosed : \A n \in AfterClosed : by_high_bid(name) <= by_high_bid(n)}

CanClose(name) ==
    /\ clock.name_close > Day
    /\ bids[name].high_bid > 0
    /\ bids[name].age > Day
    /\ clock.activation > ActivationDelay

channel_namebid_to_rex(highest_bid) ==
    namebid_proceeds' = IF rex_available THEN namebid_proceeds + highest_bid ELSE namebid_proceeds

\* Which of two equal bids comes first depends on the names, which are not compared here.
CloseAuction ==
    \E name \in highest :
        /\ CanClose(name)
        /\ clock' = [clock EXCEPT !.schedule = 0, !.name_close = 0]
        /\ channel_namebid_to_rex(bids[name].high_bid)
        /\ bids' = [bids EXCEPT ![name].high_bid = -@]

NoneCloses ==
    /\ \E name \in highest : ~CanClose(name)
    /\ clock' = [clock EXCEPT !.schedule = 0]
    /\ UNCHANGED <<bids, namebid_proceeds>>

NoAuction ==
    /\ highest = {}
    /\ clock' = [clock EXCEPT !.schedule = 0]
    /\ UNCHANGED <<bids, namebid_proceeds>>

\* What onblock does besides the auctions is about producers.
onblock ==
    /\ clock.activation # NotYet
    /\ clock.schedule > ScheduleInterval
    /\ CloseAuction \/ NoneCloses \/ NoAuction
    /\ UNCHANGED <<wallet, names_balance, bid_refunds, deferred, created, owner, rex_available>>

----------------------------------------------------------------------------
(* Accounts, REX and time *)

ClaimName(account, newact) ==
    /\ newact \in Premium /\ newact \in DOMAIN bids
    /\ bids[newact].high_bidder = account
    /\ bids[newact].high_bid < 0
    /\ bids' = Without(bids, newact)

newaccount(account, newact) ==
    /\ is_account(account) /\ ~is_account(newact)
    /\ \/ account = Self /\ UNCHANGED bids
       \/ account # Self /\ ClaimName(account, newact)
       \/ /\ account # Self /\ newact \in OtherNames
          /\ newact \in DOMAIN Suffix => Suffix[newact] = account
          /\ UNCHANGED bids
    /\ created' = created \cup {newact}
    /\ owner' = IF newact \in Premium THEN Put(owner, newact, account) ELSE owner
    /\ UNCHANGED <<wallet, names_balance, bid_refunds, deferred, rex_vars, clock>>

\* Each REX action collects the proceeds first; then the last REX may be sold, or the first bought.
runrex(available) ==
    /\ rex_available => namebid_proceeds <= names_balance
    /\ names_balance' = IF rex_available THEN names_balance - namebid_proceeds ELSE names_balance
    /\ namebid_proceeds' = 0
    /\ rex_available' = available
    /\ UNCHANGED <<wallet, bids, bid_refunds, deferred, created, owner, clock>>

\* Votes cross the threshold that activates the chain.
Activate ==
    /\ clock.activation = NotYet
    /\ clock' = [clock EXCEPT !.activation = 0]
    /\ UNCHANGED <<auction_vars, rex_vars>>

\* Ages are not counted beyond the first that exceeds every limit.
older(age, limit) == IF age > limit THEN age ELSE age + 1

Tick ==
    /\ clock' = [name_close |-> older(clock.name_close, Day),
                 schedule |-> older(clock.schedule, ScheduleInterval),
                 activation |-> IF clock.activation = NotYet THEN NotYet
                                ELSE older(clock.activation, ActivationDelay)]
    /\ bids' = [name \in DOMAIN bids |-> [bids[name] EXCEPT !.age = older(@, Day)]]
    /\ UNCHANGED <<wallet, names_balance, bid_refunds, deferred, created, owner, rex_vars>>

Next ==
    \/ \E bidder \in Bidders, newname \in Premium :
           \/ \E bid \in Bids[newname] : bidname(bidder, newname, bid)
           \/ bidrefund(bidder, newname) \/ RunDeferred(bidder, newname)
    \/ \E account, newact \in Bidders \cup {Self} \cup Premium \cup OtherNames :
           newaccount(account, newact)
    \/ onblock
    \/ \E available \in BOOLEAN : runrex(available)
    \/ Activate
    \/ Tick

Spec == Init /\ [][Next]_vars

----------------------------------------------------------------------------
(* Properties *)

(***************************************************************************)
(* eosio.names can always pay what it owes: the refunds, the bids it would *)
(* have to refund, and the proceeds that REX is going to collect, however  *)
(* often a refund is asked for, in time or late.                           *)
(***************************************************************************)
Solvent ==
    LET open == {name \in Premium : Open(name)}
    IN  names_balance >= SumFunction([name \in open |-> bids[name].high_bid])
                             + SumFunction(bid_refunds) + namebid_proceeds

(***************************************************************************)
(* The auction that closes is the one with the highest bid, although the   *)
(* rows of closed auctions, whose bids are negative, stay in the index     *)
(* until their winners come.                                               *)
(***************************************************************************)
HighestCloses ==
    [][\A name \in Premium :
           Open(name) /\ name \in DOMAIN bids' /\ bids'[name].high_bid < 0
               => \A n \in Premium : Open(n) => bids[n].high_bid <= bids[name].high_bid]_vars

\* No bid is so high that the bits of its negation are those of a closed one.
BidsBounded ==
    \A name \in DOMAIN bids :
        -UintRange <= 4 * bids[name].high_bid /\ 4 * bids[name].high_bid <= UintRange

IInv == TypeOK /\ BidsBounded

(***************************************************************************)
(* The contract implements AuctionPromise, where a bidder's tokens are its *)
(* own until it wins a name.                                               *)
(***************************************************************************)
refund_of(bidder, name) ==
    IF <<name, bidder>> \in DOMAIN bid_refunds THEN bid_refunds[<<name, bidder>>] ELSE 0
lead_of(bidder, name) ==
    IF Open(name) /\ bids[name].high_bidder = bidder THEN bids[name].high_bid ELSE 0
deposit == [place \in Bidders \X Premium |->
    refund_of(place[1], place[2]) + lead_of(place[1], place[2])]
leading == [name \in {n \in DOMAIN bids : bids[n].high_bid > 0} |->
    [bidder |-> bids[name].high_bidder, price |-> bids[name].high_bid]]
won == [name \in {n \in DOMAIN bids : bids[n].high_bid < 0} |-> bids[name].high_bidder]

Promise == INSTANCE AuctionPromise

ImplementsPromise == Promise!Spec

(***************************************************************************)
(* Fairness.  Time passes and blocks are produced; and the chain is        *)
(* activated some day, which is for its voters to do.                      *)
(***************************************************************************)
Fairness == WF_vars(Tick) /\ WF_vars(onblock) /\ WF_vars(Activate)
FairSpec == Spec /\ Fairness

(***************************************************************************)
(* Every auction closes: the tokens being finite, so are the bids that can *)
(* put the closing of the highest one off, and no row of the index hides   *)
(* the others for ever.                                                    *)
(***************************************************************************)
EventuallyClosed == \A name \in Premium : Open(name) ~> ~Open(name)
=============================================================================
