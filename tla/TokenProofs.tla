---------------------------- MODULE TokenProofs ----------------------------
(***************************************************************************)
(* The token contract implements TokenPromise, for any names, codes and    *)
(* precisions: its invariant, action by action, and the refinement.        *)
(***************************************************************************)
EXTENDS Token, SumTheorems

----------------------------------------------------------------------------
(* The balance rows *)

AccountsOK(tbl) ==
    DOMAIN tbl \subseteq Names \X Codes /\ tbl \in [DOMAIN tbl -> Rows]

\* What a holder holds, by the rows of a table.
AmountOf(tbl, place) == IF place \in DOMAIN tbl THEN tbl[place].amount ELSE 0
HeldIn(tbl) == [place \in Names \X Codes |-> AmountOf(tbl, place)]

LEMMA SubBalance ==
    ASSUME NEW tbl, AccountsOK(tbl), NEW owner \in Names, NEW code \in Codes,
           NEW precision \in Precisions, NEW amount \in 1 .. MaxAmount,
           can_sub(tbl, owner, code, precision, amount)
    PROVE  LET sub == sub_balance(tbl, owner, code, amount)
           IN  /\ AccountsOK(sub)
               /\ DOMAIN sub = DOMAIN tbl
               /\ \A row \in DOMAIN tbl :
                      /\ sub[row].precision = tbl[row].precision
                      /\ sub[row].payer = tbl[row].payer \/ sub[row].payer = owner
               /\ amount <= HeldIn(tbl)[<<owner, code>>]
               /\ HeldIn(sub) = [HeldIn(tbl) EXCEPT ![<<owner, code>>] = @ - amount]
<1> DEFINE sub == sub_balance(tbl, owner, code, amount)
           place == <<owner, code>>
<1>1. /\ place \in DOMAIN tbl /\ tbl[place] \in Rows
      /\ tbl[place].amount \in Nat /\ amount \in Nat /\ amount <= tbl[place].amount
  BY AmountAssumption DEF can_sub, AccountsOK, Rows
<1>2. /\ DOMAIN sub = DOMAIN tbl
      /\ sub[place] = [precision |-> tbl[place].precision,
                       amount |-> tbl[place].amount - amount, payer |-> owner]
      /\ \A row \in DOMAIN tbl : row # place => sub[row] = tbl[row]
  BY <1>1 DEF sub_balance, AccountsOK
<1>3. /\ sub[place] \in Rows
      /\ sub[place].precision = tbl[place].precision
      /\ sub[place].payer = owner /\ sub[place].amount = tbl[place].amount - amount
  BY <1>1, <1>2 DEF Rows
<1>4. AccountsOK(sub)
  BY <1>2, <1>3 DEF AccountsOK, sub_balance
<1>5. HeldIn(sub) = [HeldIn(tbl) EXCEPT ![place] = @ - amount]
  <2>1. \A p \in Names \X Codes :
            AmountOf(sub, p) = IF p = place THEN AmountOf(tbl, p) - amount ELSE AmountOf(tbl, p)
    BY <1>1, <1>2, <1>3 DEF AmountOf
  <2> QED
    BY <2>1 DEF HeldIn
<1>6. amount <= HeldIn(tbl)[place]
  BY <1>1 DEF HeldIn, AmountOf, AccountsOK
<1>7. \A row \in DOMAIN tbl :
          /\ sub[row].precision = tbl[row].precision
          /\ sub[row].payer = tbl[row].payer \/ sub[row].payer = owner
  BY <1>2, <1>3
<1> QED
  BY <1>2, <1>4, <1>5, <1>6, <1>7

\* Table `add` is table `tbl` with an amount added to the row of a place.
Credited(tbl, add, place, precision, amount, ram_payer) ==
    /\ AccountsOK(add)
    /\ DOMAIN add = DOMAIN tbl \cup {place}
    /\ \A row \in DOMAIN add :
           \/ row \in DOMAIN tbl /\ add[row].precision = tbl[row].precision
                                 /\ add[row].payer = tbl[row].payer
           \/ row = place /\ add[row].precision = precision /\ add[row].payer = ram_payer
    /\ HeldIn(add) = [HeldIn(tbl) EXCEPT ![place] = @ + amount]

LEMMA AddBalance ==
    ASSUME NEW tbl, AccountsOK(tbl), NEW owner \in Names, NEW code \in Codes,
           NEW precision \in Precisions, NEW amount \in 0 .. MaxAmount,
           NEW ram_payer \in Names
    PROVE  Credited(tbl, add_balance(tbl, owner, code, precision, amount, ram_payer),
                    <<owner, code>>, precision, amount, ram_payer)
<1> DEFINE add == add_balance(tbl, owner, code, precision, amount, ram_payer)
           place == <<owner, code>>
           fresh == [precision |-> precision, amount |-> amount, payer |-> ram_payer]
<1> amount \in Nat /\ place \in Names \X Codes /\ fresh \in Rows
  BY AmountAssumption DEF Rows
<1>1. CASE place \in DOMAIN tbl
  <2>1. tbl[place] \in Rows /\ tbl[place].amount \in Nat
    BY <1>1 DEF AccountsOK, Rows
  <2>2. /\ DOMAIN add = DOMAIN tbl
        /\ add[place] = [tbl[place] EXCEPT !.amount = @ + amount]
        /\ \A row \in DOMAIN tbl : row # place => add[row] = tbl[row]
    BY <1>1 DEF add_balance, AccountsOK
  <2>3. /\ add[place] \in Rows /\ add[place].amount = tbl[place].amount + amount
        /\ add[place].precision = tbl[place].precision
        /\ add[place].payer = tbl[place].payer
    BY <2>1, <2>2 DEF Rows
  <2>4. AccountsOK(add)
    BY <1>1, <2>2, <2>3 DEF AccountsOK, add_balance
  <2>5. \A p \in Names \X Codes :
            AmountOf(add, p) = IF p = place THEN AmountOf(tbl, p) + amount ELSE AmountOf(tbl, p)
    BY <1>1, <2>2, <2>3 DEF AmountOf
  <2>6. HeldIn(add) = [HeldIn(tbl) EXCEPT ![place] = @ + amount]
    BY <2>5 DEF HeldIn
  <2> QED
    BY <1>1, <2>2, <2>3, <2>4, <2>6 DEF Credited
<1>2. CASE place \notin DOMAIN tbl
  <2>1. /\ DOMAIN add = DOMAIN tbl \cup {place}
        /\ add[place] = fresh
        /\ \A row \in DOMAIN tbl : add[row] = tbl[row]
        /\ add \in [DOMAIN tbl \cup {place} -> Rows]
    BY <1>2 DEF add_balance, Put, AccountsOK
  <2>2. AccountsOK(add)
    BY <2>1 DEF AccountsOK
  <2>3. \A p \in Names \X Codes :
            AmountOf(add, p) = IF p = place THEN AmountOf(tbl, p) + amount ELSE AmountOf(tbl, p)
    BY <1>2, <2>1 DEF AmountOf
  <2>4. HeldIn(add) = [HeldIn(tbl) EXCEPT ![place] = @ + amount]
    BY <2>3 DEF HeldIn
  <2> QED
    BY <1>2, <2>1, <2>2, <2>4 DEF Credited
<1> QED
  BY <1>1, <1>2

----------------------------------------------------------------------------
(* What the rows of a token add up to *)

\* What the holders of a token hold together, row or no row.
HeldTotal(h, code) == SumFunctionOnSet(h, Names \X {code})

SupplyOf(tbl, code) == IF code \in DOMAIN tbl THEN tbl[code].supply ELSE 0

LEMMA PlacesFinite == \A code \in Codes : IsFiniteSet(Names \X {code})
BY NamesAssumption, FS_Singleton, FS_Product

LEMMA HeldTypes ==
    ASSUME NEW tbl, AccountsOK(tbl)
    PROVE  HeldIn(tbl) \in [Names \X Codes -> Nat]
BY DEF AccountsOK, Rows, HeldIn, AmountOf

Holdings(h) == h \in [Names \X Codes -> Nat]

\* From h to g the holder of one place gets d tokens more.
Moved(h, g, owner, code, d) ==
    /\ g[<<owner, code>>] = h[<<owner, code>>] + d
    /\ \A place \in Names \X Codes : place # <<owner, code>> => g[place] = h[place]

\* A change at one place changes the total of its token, and of no other.
LEMMA TotalChanges ==
    ASSUME NEW h, NEW g, Holdings(h), Holdings(g),
           NEW owner \in Names, NEW code \in Codes, NEW d \in Int,
           Moved(h, g, owner, code, d), NEW c \in Codes
    PROVE  /\ c = code => HeldTotal(g, c) = HeldTotal(h, c) + d
           /\ c # code => HeldTotal(g, c) = HeldTotal(h, c)
<1> DEFINE S == Names \X {c}
<1> USE DEF Moved, Holdings
<1>1. IsFiniteSet(S) /\ S \subseteq Names \X Codes
  BY PlacesFinite
<1>2. \A x \in S : g[x] \in Int /\ h[x] \in Int
  BY <1>1
<1>3. <<owner, code>> \in S <=> c = code
  OBVIOUS
<1> HIDE DEF S
<1>4. SumFunctionOnSet(h, S) \in Int
  BY <1>1, <1>2, SumType
<1>5. CASE c = code
  <2>1. SumFunctionOnSet(g, S)
          = SumFunctionOnSet(h, S) + (g[<<owner, code>>] - h[<<owner, code>>])
    <3> DEFINE y == <<owner, code>>
    <3>1. y \in S
      BY <1>3, <1>5
    <3>2. \A x \in S \ {y} : g[x] = h[x]
      BY <1>1
    <3> HIDE DEF y
    <3>3. SumFunctionOnSet(g, S) = SumFunctionOnSet(h, S) + (g[y] - h[y])
      BY <1>1, <1>2, <3>1, <3>2, SumUpdate
    <3> QED
      BY <3>3 DEF y
  <2>2. g[<<owner, code>>] - h[<<owner, code>>] = d
    OBVIOUS
  <2> QED
    BY <1>4, <1>5, <2>1, <2>2 DEF HeldTotal, S
<1>6. CASE c # code
  <2>1. \A x \in S : h[x] = g[x]
    BY <1>1, <1>3, <1>6
  <2>2. SumFunctionOnSet(h, S) = SumFunctionOnSet(g, S)
    BY <1>1, <2>1, SumAgree
  <2> QED
    BY <1>4, <1>6, <2>2 DEF HeldTotal, S
<1> QED
  BY <1>5, <1>6

\* Rows that do not exist hold nothing.
LEMMA HeldIsTotal ==
    ASSUME TypeOK, NEW code \in Codes
    PROVE  Held(code) = HeldTotal(held, code)
<1> DEFINE rows == {row \in DOMAIN accounts : row[2] = code}
           f == [row \in rows |-> accounts[row].amount]
           all == Names \X {code}
<1>1. IsFiniteSet(all)
  BY PlacesFinite
<1>2. rows \subseteq all /\ all \subseteq Names \X Codes
  BY DEF TypeOK
<1>3. Held(code) = SumFunctionOnSet(f, rows)
  BY DEF Held, SumFunction
<1>4. \A row \in rows : f[row] = held[row]
  BY <1>2 DEF held
<1>5. \A row \in all \ rows : held[row] = 0
  BY <1>2 DEF held
<1>6. \A row \in all : held[row] \in Int
  BY <1>2 DEF held, TypeOK, Rows
<1> HIDE DEF rows, f, all
<1>7. IsFiniteSet(rows)
  BY <1>1, <1>2, FS_Subset
<1>8. SumFunctionOnSet(f, rows) = SumFunctionOnSet(held, rows)
  BY <1>4, <1>7, SumAgree
<1>9. SumFunctionOnSet(held, rows) = SumFunctionOnSet(held, all)
  BY <1>1, <1>2, <1>5, <1>6, SumSupport
<1> QED
  BY <1>3, <1>8, <1>9 DEF HeldTotal, all

----------------------------------------------------------------------------
(* The actions *)

\* The balances and the supply of a token change by the same amount.
Balanced ==
    \A c \in Codes :
        HeldTotal(held', c) = HeldTotal(held, c) + (SupplyOf(stats', c) - SupplyOf(stats, c))

\* What an action does to the tables, besides its effect on the promise.
StepOK(signers) ==
    /\ IInv'
    /\ Balanced
    /\ \A row \in DOMAIN accounts' :
           \/ row \in DOMAIN accounts /\ accounts'[row].payer = accounts[row].payer
           \/ accounts'[row].payer \in signers

\* The tokens a code may still have issued, by the rows of a table.
UnissuedOf(tbl, code) ==
    IF code \in DOMAIN tbl THEN tbl[code].max_supply - tbl[code].supply ELSE 0

LEMMA UnissuedIsOf ==
    /\ unissued = [code \in Codes |-> UnissuedOf(stats, code)]
    /\ unissued' = [code \in Codes |-> UnissuedOf(stats', code)]
BY DEF unissued, UnissuedOf

LEMMA HeldIsHeldIn == held = HeldIn(accounts) /\ held' = HeldIn(accounts')
BY DEF held, HeldIn, AmountOf

LEMMA TotalTypes ==
    ASSUME IInv
    PROVE  /\ held \in [Names \X Codes -> Nat]
           /\ \A c \in Codes : HeldTotal(held, c) \in Int /\ SupplyOf(stats, c) \in Int
<1>1. held \in [Names \X Codes -> Nat]
  BY HeldTypes, HeldIsHeldIn DEF IInv, TypeOK, AccountsOK
<1>2. ASSUME NEW c \in Codes
      PROVE  HeldTotal(held, c) \in Int
  <2>1. \A x \in Names \X {c} : held[x] \in Int
    BY <1>1
  <2> QED
    BY <2>1, PlacesFinite, SumType DEF HeldTotal
<1>3. \A c \in Codes : SupplyOf(stats, c) \in Int
  BY DEF IInv, TypeOK, Stats, SupplyOf
<1> QED
  BY <1>1, <1>2, <1>3

LEMMA StillBalanced ==
    ASSUME IInv, held' = held, \A c \in Codes : SupplyOf(stats', c) = SupplyOf(stats, c)
    PROVE  Balanced
BY TotalTypes DEF Balanced

\* Issuing and retiring change one balance as they change the supply.
LEMMA SupplyBalanced ==
    ASSUME IInv, AccountsOK(accounts'), NEW owner \in Names, NEW code \in DOMAIN stats,
           NEW d \in Int, Moved(held, held', owner, code, d),
           DOMAIN stats' = DOMAIN stats, stats'[code].supply = stats[code].supply + d,
           \A c \in DOMAIN stats : c # code => stats'[c].supply = stats[c].supply
    PROVE  Balanced
<1> SUFFICES ASSUME NEW c \in Codes
             PROVE  HeldTotal(held', c)
                      = HeldTotal(held, c) + (SupplyOf(stats', c) - SupplyOf(stats, c))
  BY DEF Balanced
<1>1. code \in Codes
  BY DEF IInv, TypeOK
<1>2. Holdings(held) /\ Holdings(held')
  BY TotalTypes, HeldTypes, HeldIsHeldIn DEF Holdings
<1>3. /\ c = code => HeldTotal(held', c) = HeldTotal(held, c) + d
      /\ c # code => HeldTotal(held', c) = HeldTotal(held, c)
  BY <1>1, <1>2, TotalChanges
<1>4. HeldTotal(held, c) \in Int /\ SupplyOf(stats, c) \in Int
  BY TotalTypes
<1>5. SupplyOf(stats', c) = SupplyOf(stats, c) + IF c = code THEN d ELSE 0
  BY <1>4 DEF SupplyOf
<1> QED
  BY <1>3, <1>4, <1>5

LEMMA TotalIsHeldNext ==
    ASSUME NEW code \in Codes
    PROVE  (IInv => Held(code) = HeldTotal(held, code))'
<1>1. IInv => Held(code) = HeldTotal(held, code)
  BY HeldIsTotal DEF IInv
<1> QED
  BY <1>1, PTL

LEMMA InvariantInit == Init => IInv
BY DEF Init, Empty, IInv, TypeOK, PrecisionAgrees

LEMMA CreateStep ==
    ASSUME IInv, NEW signers \in SUBSET Accounts, NEW issuer \in Names, NEW code \in Codes,
           NEW precision \in Precisions, NEW maximum_supply, auth' = signers,
           create(signers, issuer, code, precision, maximum_supply)
    PROVE  StepOK(signers) /\ Promise!Next
<1> DEFINE row == [precision |-> precision, supply |-> 0,
                   max_supply |-> maximum_supply, issuer |-> issuer]
<1>1. /\ code \notin DOMAIN stats /\ maximum_supply \in 1 .. MaxAmount
      /\ stats' = Put(stats, code, row) /\ accounts' = accounts
      /\ Self \in signers
  BY DEF create
<1> HIDE DEF row
<1>2. /\ DOMAIN stats' = DOMAIN stats \cup {code}
      /\ stats'[code] = row /\ \A c \in DOMAIN stats : stats'[c] = stats[c]
      /\ stats' = [c \in DOMAIN stats' |-> stats'[c]]
  BY <1>1 DEF Put
<1>3. row \in Stats /\ row.supply <= row.max_supply
      /\ row.supply = 0 /\ row.max_supply = maximum_supply /\ row.issuer = issuer
  BY <1>1, AmountAssumption DEF row, Stats
<1>4. TypeOK'
  BY <1>1, <1>2, <1>3 DEF IInv, TypeOK
<1>5. StepOK(signers)
  <2>1. held' = held /\ \A c \in Codes : SupplyOf(stats', c) = SupplyOf(stats, c)
    BY <1>1, <1>2, <1>3 DEF held, SupplyOf
  <2>2. Balanced
    BY <2>1, StillBalanced
  <2> QED
    BY <1>1, <1>2, <1>3, <1>4, <2>2 DEF StepOK, IInv, PrecisionAgrees
<1>6. Promise!Create(code, issuer, maximum_supply)
  <2>1. code \notin DOMAIN issuers /\ held' = held
    BY <1>1 DEF issuers, held
  <2>2. issuers' = [c \in DOMAIN issuers \cup {code} |->
                       IF c = code THEN issuer ELSE issuers[c]]
    BY <1>2, <1>3 DEF issuers
  <2>3. /\ UnissuedOf(stats', code) = maximum_supply
        /\ \A c \in Codes \ {code} : UnissuedOf(stats', c) = UnissuedOf(stats, c)
    BY <1>1, <1>2, <1>3, AmountAssumption DEF UnissuedOf
  <2>4. unissued' = [unissued EXCEPT ![code] = maximum_supply]
    BY <2>3, UnissuedIsOf
  <2> QED
    BY <1>1, <2>1, <2>2, <2>4 DEF Promise!Create
<1> QED
  BY <1>1, <1>5, <1>6 DEF Promise!Next

\* The supply of a token changes.
LEMMA SupplyStep ==
    ASSUME TypeOK, NEW code \in DOMAIN stats, NEW supply \in Int,
           stats' = [stats EXCEPT ![code].supply = supply]
    PROVE  /\ DOMAIN stats' = DOMAIN stats /\ stats' \in [DOMAIN stats' -> Stats]
           /\ stats'[code].supply = supply
           /\ \A c \in DOMAIN stats : /\ stats'[c].max_supply = stats[c].max_supply
                                     /\ stats'[c].precision = stats[c].precision
                                     /\ stats'[c].issuer = stats[c].issuer
                                     /\ c # code => stats'[c].supply = stats[c].supply
           /\ issuers' = issuers
           /\ unissued' = [unissued EXCEPT ![code] = stats[code].max_supply - supply]
<1>1. code \in Codes /\ stats[code] \in Stats /\ stats \in [DOMAIN stats -> Stats]
  BY DEF TypeOK
<1>2. /\ DOMAIN stats' = DOMAIN stats
      /\ stats'[code] = [stats[code] EXCEPT !.supply = supply]
      /\ \A c \in DOMAIN stats : c # code => stats'[c] = stats[c]
      /\ stats' = [c \in DOMAIN stats' |-> stats'[c]]
  BY <1>1
<1>3. /\ stats'[code] \in Stats /\ stats'[code].supply = supply
      /\ stats'[code].max_supply = stats[code].max_supply
      /\ stats'[code].precision = stats[code].precision
      /\ stats'[code].issuer = stats[code].issuer
  BY <1>1, <1>2 DEF Stats
<1>4. stats' \in [DOMAIN stats' -> Stats]
  BY <1>1, <1>2, <1>3
<1>5. issuers' = issuers
  BY <1>2, <1>3 DEF issuers
<1>6. /\ UnissuedOf(stats', code) = stats[code].max_supply - supply
      /\ \A c \in Codes \ {code} : UnissuedOf(stats', c) = UnissuedOf(stats, c)
  BY <1>2, <1>3 DEF UnissuedOf
<1>7. unissued' = [unissued EXCEPT ![code] = stats[code].max_supply - supply]
  BY <1>1, <1>6, UnissuedIsOf
<1> QED
  BY <1>2, <1>3, <1>4, <1>5, <1>7

LEMMA IssueStep ==
    ASSUME IInv, NEW signers \in SUBSET Accounts, NEW to \in Names, NEW code \in Codes,
           NEW precision \in Precisions, NEW amount, auth' = signers,
           issue(signers, to, code, precision, amount)
    PROVE  StepOK(signers) /\ Promise!Next
<1> DEFINE supply == stats[code].supply + amount
<1>1. /\ code \in DOMAIN stats /\ amount \in 1 .. MaxAmount
      /\ precision = stats[code].precision
      /\ to = stats[code].issuer /\ to \in signers
      /\ amount <= stats[code].max_supply - stats[code].supply
      /\ stats' = [stats EXCEPT ![code].supply = supply]
      /\ accounts' = add_balance(accounts, to, code, precision, amount, to)
  BY DEF issue, valid_quantity, within_supply
<1>2. TypeOK /\ AccountsOK(accounts) /\ stats[code] \in Stats /\ amount \in Nat
  BY <1>1, AmountAssumption DEF IInv, TypeOK, AccountsOK
<1>3. /\ stats[code].supply \in Int /\ stats[code].max_supply \in Nat
      /\ supply \in Int /\ supply <= stats[code].max_supply
      /\ stats[code].max_supply - supply = stats[code].max_supply - stats[code].supply - amount
  BY <1>1, <1>2, AmountAssumption DEF Stats
<1> HIDE DEF supply
<1>4. amount \in 0 .. MaxAmount
  BY <1>1
<1>5. Credited(accounts, accounts', <<to, code>>, precision, amount, to)
  BY <1>1, <1>2, <1>4, AddBalance
<1>6. /\ DOMAIN stats' = DOMAIN stats /\ stats' \in [DOMAIN stats' -> Stats]
      /\ stats'[code].supply = supply
      /\ \A c \in DOMAIN stats : /\ stats'[c].max_supply = stats[c].max_supply
                                /\ stats'[c].precision = stats[c].precision
                                /\ c # code => stats'[c].supply = stats[c].supply
      /\ issuers' = issuers
      /\ unissued' = [unissued EXCEPT ![code] = stats[code].max_supply - supply]
  BY <1>1, <1>2, <1>3, SupplyStep
<1>7. TypeOK'
  BY <1>5, <1>6 DEF IInv, TypeOK, AccountsOK, Credited
<1>8. PrecisionAgrees'
  BY <1>1, <1>5, <1>6 DEF IInv, PrecisionAgrees, Credited
<1>9. StepOK(signers)
  <2>1. held' = [held EXCEPT ![<<to, code>>] = @ + amount] /\ AccountsOK(accounts')
    BY <1>5, HeldIsHeldIn DEF Credited
  <2>2. Moved(held, held', to, code, amount)
    BY <1>1, <1>2, <2>1 DEF held, IInv, TypeOK, Moved
  <2>3. stats'[code].supply = stats[code].supply + amount
    BY <1>6 DEF supply
  <2>4. to \in Names /\ amount \in Int
    BY <1>1, <1>2, NamesAssumption
  <2>5. Balanced
    BY <1>1, <1>6, <2>1, <2>2, <2>3, <2>4, SupplyBalanced
  <2> QED
    BY <1>1, <1>3, <1>5, <1>6, <1>7, <1>8, <2>5 DEF StepOK, IInv, Credited
<1>10. unissued[code] = stats[code].max_supply - stats[code].supply
  BY <1>1 DEF unissued
<1>11. unissued' = [unissued EXCEPT ![code] = @ - amount]
  BY <1>3, <1>6, <1>10
<1>12. issuers[code] = to /\ code \in DOMAIN issuers
  BY <1>1 DEF issuers
<1>13. Promise!Issue(code, amount)
  BY <1>1, <1>5, <1>6, <1>10, <1>11, <1>12, HeldIsHeldIn DEF Promise!Issue, Credited
<1> QED
  BY <1>1, <1>9, <1>13 DEF Promise!Next

LEMMA RetireStep ==
    ASSUME IInv, NEW signers \in SUBSET Accounts, NEW code \in Codes,
           NEW precision \in Precisions, NEW amount, auth' = signers,
           retire(signers, code, precision, amount)
    PROVE  StepOK(signers) /\ Promise!Next
<1> DEFINE supply == stats[code].supply - amount
           issuer == stats[code].issuer
<1>1. /\ code \in DOMAIN stats /\ amount \in 1 .. MaxAmount
      /\ issuer \in signers
      /\ can_sub(accounts, issuer, code, precision, amount)
      /\ stats' = [stats EXCEPT ![code].supply = supply]
      /\ accounts' = sub_balance(accounts, issuer, code, amount)
  BY DEF retire, valid_quantity
<1>2. TypeOK /\ AccountsOK(accounts) /\ stats[code] \in Stats /\ amount \in Nat
  BY <1>1, AmountAssumption DEF IInv, TypeOK, AccountsOK
<1>3. /\ stats[code].supply \in Int /\ stats[code].max_supply \in Nat /\ issuer \in Names
      /\ supply \in Int /\ supply <= stats[code].supply
      /\ stats[code].max_supply - supply = stats[code].max_supply - stats[code].supply + amount
  BY <1>1, <1>2, AmountAssumption DEF Stats
<1>4. stats[code].supply <= stats[code].max_supply
  BY <1>1 DEF IInv
<1>5. supply <= stats[code].max_supply
  BY <1>3, <1>4
<1> HIDE DEF supply
<1>6. issuers[code] = issuer /\ code \in DOMAIN issuers
  BY <1>1 DEF issuers
<1> HIDE DEF issuer
<1>7. /\ AccountsOK(accounts')
      /\ DOMAIN accounts' = DOMAIN accounts
      /\ \A row \in DOMAIN accounts :
             /\ accounts'[row].precision = accounts[row].precision
             /\ accounts'[row].payer = accounts[row].payer \/ accounts'[row].payer = issuer
      /\ amount <= held[<<issuer, code>>]
      /\ held' = [held EXCEPT ![<<issuer, code>>] = @ - amount]
  BY <1>1, <1>2, <1>3, SubBalance, HeldIsHeldIn
<1>8. /\ DOMAIN stats' = DOMAIN stats /\ stats' \in [DOMAIN stats' -> Stats]
      /\ stats'[code].supply = supply
      /\ \A c \in DOMAIN stats : /\ stats'[c].max_supply = stats[c].max_supply
                                /\ stats'[c].precision = stats[c].precision
                                /\ c # code => stats'[c].supply = stats[c].supply
      /\ issuers' = issuers
      /\ unissued' = [unissued EXCEPT ![code] = stats[code].max_supply - supply]
  BY <1>1, <1>2, <1>3, SupplyStep
<1>9. TypeOK'
  BY <1>7, <1>8 DEF IInv, TypeOK, AccountsOK
<1>10. PrecisionAgrees'
  BY <1>1, <1>7, <1>8 DEF IInv, PrecisionAgrees
<1>11. StepOK(signers)
  <2> DEFINE d == -amount
  <2>1. d \in Int /\ held[<<issuer, code>>] \in Nat /\ <<issuer, code>> \in Names \X Codes
    BY <1>1, <1>2, <1>3, TotalTypes DEF IInv, TypeOK
  <2>2. /\ held'[<<issuer, code>>] = held[<<issuer, code>>] - amount
        /\ \A place \in Names \X Codes : place # <<issuer, code>> => held'[place] = held[place]
    BY <1>7, <2>1 DEF held
  <2>3. Moved(held, held', issuer, code, d)
    BY <1>2, <2>1, <2>2 DEF Moved
  <2>4. stats'[code].supply = stats[code].supply + d
    BY <1>2, <1>3, <1>8 DEF supply
  <2> HIDE DEF d
  <2>5. Balanced
    BY <1>1, <1>3, <1>7, <1>8, <2>1, <2>3, <2>4, SupplyBalanced
  <2> QED
    BY <1>1, <1>5, <1>7, <1>8, <1>9, <1>10, <2>5 DEF StepOK, IInv
<1>12. unissued[code] = stats[code].max_supply - stats[code].supply
  BY <1>1 DEF unissued
<1>13. unissued' = [unissued EXCEPT ![code] = @ + amount]
  BY <1>3, <1>8, <1>12
<1>14. Promise!Retire(code, amount)
  BY <1>1, <1>6, <1>7, <1>8, <1>13 DEF Promise!Retire
<1> QED
  BY <1>1, <1>11, <1>14 DEF Promise!Next

LEMMA TransferStep ==
    ASSUME IInv, NEW signers \in SUBSET Accounts, NEW from \in Names, NEW to \in Names,
           NEW code \in Codes, NEW precision \in Precisions, NEW amount, auth' = signers,
           transfer(signers, from, to, code, precision, amount)
    PROVE  StepOK(signers) /\ Promise!Next
<1> DEFINE sub == sub_balance(accounts, from, code, amount)
           payer == transfer_payer(signers, from, to)
<1>1. /\ code \in DOMAIN stats /\ amount \in 1 .. MaxAmount
      /\ precision = stats[code].precision
      /\ from # to /\ from \in signers /\ to \in Accounts
      /\ can_sub(accounts, from, code, precision, amount)
      /\ accounts' = add_balance(sub, to, code, precision, amount, payer)
      /\ stats' = stats
  BY DEF transfer, valid_quantity
<1>2. TypeOK /\ AccountsOK(accounts) /\ amount \in 0 .. MaxAmount
  BY <1>1, AmountAssumption DEF IInv, TypeOK, AccountsOK
<1>3. payer \in signers /\ payer \in Names
  BY <1>1, NamesAssumption DEF transfer_payer
<1> HIDE DEF payer
<1>4. /\ AccountsOK(sub) /\ DOMAIN sub = DOMAIN accounts
      /\ \A row \in DOMAIN accounts :
             /\ sub[row].precision = accounts[row].precision
             /\ sub[row].payer = accounts[row].payer \/ sub[row].payer = from
      /\ amount <= held[<<from, code>>]
      /\ HeldIn(sub) = [held EXCEPT ![<<from, code>>] = @ - amount]
  BY <1>1, <1>2, SubBalance, HeldIsHeldIn
<1> HIDE DEF sub
<1>5. Credited(sub, accounts', <<to, code>>, precision, amount, payer)
  BY <1>1, <1>2, <1>3, <1>4, AddBalance
<1>6. TypeOK'
  BY <1>1, <1>2, <1>5 DEF TypeOK, AccountsOK, Credited
<1>7. PrecisionAgrees'
  BY <1>1, <1>4, <1>5 DEF IInv, PrecisionAgrees, Credited
<1>8. StepOK(signers)
  <2> DEFINE mid == HeldIn(sub)
             d == -amount
  <2>1. amount \in Nat /\ d \in Int /\ code \in Codes /\ to \in Names
    BY <1>1, <1>2, NamesAssumption
  <2>2. Holdings(held) /\ Holdings(mid) /\ Holdings(held')
    BY <1>4, <1>5, TotalTypes, HeldTypes, HeldIsHeldIn DEF Credited, Holdings
  <2>3. /\ mid = [held EXCEPT ![<<from, code>>] = @ - amount]
        /\ held' = [mid EXCEPT ![<<to, code>>] = @ + amount]
    BY <1>4, <1>5, HeldIsHeldIn DEF Credited
  <2> HIDE DEF mid
  <2>4. Moved(held, mid, from, code, d)
    BY <2>1, <2>2, <2>3 DEF Moved, Holdings
  <2>5. Moved(mid, held', to, code, amount)
    BY <2>1, <2>2, <2>3 DEF Moved, Holdings
  <2>6. Balanced
    <3> SUFFICES ASSUME NEW c \in Codes
                 PROVE  HeldTotal(held', c) = HeldTotal(held, c)
                                                + (SupplyOf(stats', c) - SupplyOf(stats, c))
      BY DEF Balanced
    <3> HIDE DEF d
    <3>1. /\ c = code => HeldTotal(mid, c) = HeldTotal(held, c) + d
          /\ c # code => HeldTotal(mid, c) = HeldTotal(held, c)
      BY <2>1, <2>2, <2>4, TotalChanges
    <3>2. /\ c = code => HeldTotal(held', c) = HeldTotal(mid, c) + amount
          /\ c # code => HeldTotal(held', c) = HeldTotal(mid, c)
      BY <2>1, <2>2, <2>5, TotalChanges
    <3>3. HeldTotal(held, c) \in Int /\ SupplyOf(stats, c) \in Int /\ stats' = stats
      BY <1>1, TotalTypes
    <3> QED
      BY <2>1, <3>1, <3>2, <3>3 DEF d
  <2> QED
    BY <1>1, <1>3, <1>4, <1>5, <1>6, <1>7, <2>6 DEF StepOK, IInv, Credited
<1>9. held' = [held EXCEPT ![<<from, code>>] = @ - amount, ![<<to, code>>] = @ + amount]
  <2>1. <<from, code>> # <<to, code>> /\ <<to, code>> \in Names \X Codes
    BY <1>1
  <2>2. DOMAIN held = Names \X Codes
    BY DEF held
  <2>3. HeldIn(sub)[<<to, code>>] = held[<<to, code>>]
    BY <1>4, <2>1, <2>2
  <2> QED
    BY <1>4, <1>5, <2>3, HeldIsHeldIn DEF Credited
<1>10. UNCHANGED <<unissued, issuers>>
  BY <1>1 DEF unissued, issuers
<1>11. Promise!Move(from, to, code, amount)
  BY <1>1, <1>4, <1>9, <1>10 DEF Promise!Move
<1> QED
  BY <1>1, <1>8, <1>11 DEF Promise!Next

LEMMA OpenStep ==
    ASSUME IInv, NEW signers \in SUBSET Accounts, NEW owner \in Names, NEW ram_payer \in Names,
           NEW code \in Codes, NEW precision \in Precisions, auth' = signers,
           open(signers, owner, code, precision, ram_payer)
    PROVE  StepOK(signers) /\ Promise!Next
<1> DEFINE row == [precision |-> precision, amount |-> 0, payer |-> ram_payer]
           place == <<owner, code>>
<1>1. /\ ram_payer \in signers /\ stats' = stats
      /\ code \in DOMAIN stats /\ stats[code].precision = precision
      /\ accounts' = IF place \in DOMAIN accounts THEN accounts ELSE Put(accounts, place, row)
  BY DEF open, same_symbol
<1>2. UNCHANGED <<unissued, issuers>>
  BY <1>1 DEF unissued, issuers
<1>3. CASE accounts' = accounts
  <2>1. held' = held
    BY <1>3 DEF held
  <2>2. Balanced
    BY <1>1, <2>1, StillBalanced
  <2>3. StepOK(signers)
    BY <1>1, <1>3, <2>2 DEF StepOK, IInv, TypeOK, PrecisionAgrees
  <2> QED
    BY <1>2, <2>1, <2>3 DEF Promise!Next, Promise!Housekeeping
<1>4. CASE place \notin DOMAIN accounts
  <2>1. row \in Rows /\ row.amount = 0 /\ row.precision = precision /\ row.payer = ram_payer
    BY DEF Rows
  <2> HIDE DEF row
  <2>2. /\ DOMAIN accounts' = DOMAIN accounts \cup {place}
        /\ accounts'[place] = row /\ \A r \in DOMAIN accounts : accounts'[r] = accounts[r]
        /\ accounts' = [r \in DOMAIN accounts' |-> accounts'[r]]
    BY <1>1, <1>4 DEF Put
  <2>3. AccountsOK(accounts')
    BY <2>1, <2>2 DEF IInv, TypeOK, AccountsOK
  <2>4. held' = held
    BY <1>4, <2>1, <2>2 DEF held
  <2>5. StepOK(signers)
    <3>1. TypeOK'
      BY <1>1, <2>3 DEF IInv, TypeOK, AccountsOK
    <3>2. PrecisionAgrees'
      BY <1>1, <2>1, <2>2 DEF IInv, PrecisionAgrees
    <3>3. Balanced
      BY <1>1, <2>4, StillBalanced
    <3> QED
      BY <1>1, <2>1, <2>2, <3>1, <3>2, <3>3 DEF StepOK, IInv
  <2> QED
    BY <1>2, <2>4, <2>5 DEF Promise!Next, Promise!Housekeeping
<1> QED
  BY <1>1, <1>3, <1>4

LEMMA CloseStep ==
    ASSUME IInv, NEW signers \in SUBSET Accounts, NEW owner \in Names, NEW code \in Codes,
           auth' = signers, close(signers, owner, code)
    PROVE  StepOK(signers) /\ Promise!Next
<1> DEFINE place == <<owner, code>>
<1>1. /\ place \in DOMAIN accounts /\ accounts[place].amount = 0
      /\ accounts' = Without(accounts, place) /\ stats' = stats
  BY DEF close, can_close
<1>2. /\ DOMAIN accounts' = DOMAIN accounts \ {place}
      /\ \A r \in DOMAIN accounts' : accounts'[r] = accounts[r]
      /\ accounts' = [r \in DOMAIN accounts' |-> accounts'[r]]
  BY <1>1 DEF Without
<1>3. AccountsOK(accounts')
  BY <1>2 DEF IInv, TypeOK, AccountsOK
<1>4. held' = held
  BY <1>1, <1>2 DEF held
<1>5. UNCHANGED <<unissued, issuers>>
  BY <1>1 DEF unissued, issuers
<1>6. StepOK(signers)
  <2>1. Balanced
    BY <1>1, <1>4, StillBalanced
  <2> QED
    BY <1>1, <1>2, <1>3, <2>1 DEF StepOK, IInv, TypeOK, AccountsOK, PrecisionAgrees
<1> QED
  BY <1>4, <1>5, <1>6 DEF Promise!Next, Promise!Housekeeping

LEMMA Step ==
    ASSUME IInv, Next
    PROVE  StepOK(auth') /\ Promise!Next
<1>1. PICK signers \in SUBSET Accounts, code \in Codes : auth' = signers /\ Action(signers, code)
  BY DEF Next
<1> USE <1>1
<1>2. ASSUME NEW precision \in Precisions, NEW amount \in Amounts, NEW issuer \in Names,
             create(signers, issuer, code, precision, amount)
      PROVE  StepOK(signers) /\ Promise!Next
  BY <1>2, CreateStep
<1>3. ASSUME NEW precision \in Precisions, NEW amount \in Amounts, NEW to \in Names,
             issue(signers, to, code, precision, amount)
      PROVE  StepOK(signers) /\ Promise!Next
  BY <1>3, IssueStep
<1>4. ASSUME NEW precision \in Precisions, NEW amount \in Amounts,
             retire(signers, code, precision, amount)
      PROVE  StepOK(signers) /\ Promise!Next
  BY <1>4, RetireStep
<1>5. ASSUME NEW precision \in Precisions, NEW amount \in Amounts,
             NEW from \in Names, NEW to \in Names,
             transfer(signers, from, to, code, precision, amount)
      PROVE  StepOK(signers) /\ Promise!Next
  BY <1>5, TransferStep
<1>6. ASSUME NEW precision \in Precisions, NEW owner \in Names, NEW ram_payer \in Names,
             open(signers, owner, code, precision, ram_payer)
      PROVE  StepOK(signers) /\ Promise!Next
  BY <1>6, OpenStep
<1>7. ASSUME NEW owner \in Names, close(signers, owner, code)
      PROVE  StepOK(signers) /\ Promise!Next
  BY <1>7, CloseStep
<1> QED
  BY <1>1, <1>2, <1>3, <1>4, <1>5, <1>6, <1>7 DEF Action

LEMMA InvariantStep == IInv /\ [Next]_vars => IInv'
<1>1. ASSUME IInv, Next PROVE IInv'
  BY <1>1, Step DEF StepOK
<1>2. ASSUME IInv, UNCHANGED vars PROVE IInv'
  BY <1>2 DEF vars, IInv, TypeOK, PrecisionAgrees
<1> QED
  BY <1>1, <1>2

----------------------------------------------------------------------------
(* The theorems *)

(***************************************************************************)
(* No balance is ever negative, no more than the maximum supply is ever    *)
(* issued, and every row has its token's precision.                        *)
(***************************************************************************)
THEOREM TokenInvariant == Spec => []IInv
<1> QED
  BY InvariantInit, InvariantStep, PTL DEF Spec

(***************************************************************************)
(* The supply that issue and retire keep in the statistics of a token is   *)
(* the sum of the balances that they and transfer keep in the rows.        *)
(***************************************************************************)
THEOREM SupplyAlwaysHeld == Spec => []SupplyIsHeld
<1> DEFINE Inv == IInv /\ SupplyIsHeld
<1>1. Init => Inv
  <2> SUFFICES ASSUME Init PROVE SupplyIsHeld
    BY InvariantInit
  <2>1. DOMAIN accounts = {} /\ DOMAIN stats = {}
    BY DEF Init, Empty
  <2>2. ASSUME NEW code \in Codes PROVE Held(code) = 0
    <3>1. {row \in DOMAIN accounts : row[2] = code} = {}
      BY <2>1
    <3> QED
      BY <3>1, SumEmpty DEF Held, SumFunction
  <2> QED
    BY <2>1, <2>2 DEF SupplyIsHeld
<1>2. Inv /\ [Next]_vars => Inv'
  <2> SUFFICES ASSUME Inv, [Next]_vars, NEW code \in Codes
               PROVE  (Held(code) = SupplyOf(stats, code))'
    BY InvariantStep DEF SupplyIsHeld, SupplyOf
  <2>1. HeldTotal(held, code) = SupplyOf(stats, code)
    BY HeldIsTotal DEF IInv, SupplyIsHeld, SupplyOf
  <2>2. Held(code)' = HeldTotal(held', code)
    <3>1. IInv'
      BY InvariantStep
    <3>2. (IInv => Held(code) = HeldTotal(held, code))'
      BY TotalIsHeldNext
    <3> QED
      BY <3>1, <3>2
  <2>3. HeldTotal(held', code)
          = HeldTotal(held, code) + (SupplyOf(stats', code) - SupplyOf(stats, code))
    <3>1. CASE Next
      BY <3>1, Step DEF StepOK, Balanced
    <3>2. CASE UNCHANGED vars
      BY <3>2, StillBalanced DEF vars, held, Balanced
    <3> QED
      BY <3>1, <3>2
  <2>4. SupplyOf(stats, code) \in Int /\ SupplyOf(stats', code) \in Int
    <3>1. IInv'
      BY InvariantStep
    <3> QED
      BY <3>1, TotalTypes DEF IInv, TypeOK, Stats, SupplyOf
  <2> QED
    BY <2>1, <2>2, <2>3, <2>4
<1>3. Inv => SupplyIsHeld
  OBVIOUS
<1> QED
  BY <1>1, <1>2, <1>3, PTL DEF Spec

\* Rows keep the precision of their token, whatever precision open, issue,
\* retire and transfer are called with.
THEOREM PrecisionsAgree == Spec => []PrecisionAgrees
<1>1. IInv => PrecisionAgrees
  BY DEF IInv
<1> QED
  BY <1>1, TokenInvariant, PTL

\* An account becomes the RAM payer of a balance row only by signing.
THEOREM OnlySignersPay == Spec => PayersSigned
<1>1. IInv /\ [Next]_vars =>
          [\A row \in DOMAIN accounts' :
              \/ row \in DOMAIN accounts /\ accounts'[row].payer = accounts[row].payer
              \/ accounts'[row].payer \in auth']_vars
  BY Step DEF StepOK
<1> QED
  BY <1>1, TokenInvariant, PTL DEF Spec, PayersSigned

(***************************************************************************)
(* The contract implements TokenPromise: tokens only move, and only by the *)
(* signature of who holds them, although the contract keeps a supply and   *)
(* balances in rows that come and go.                                      *)
(***************************************************************************)
THEOREM ContractImplementsPromise == Spec => ImplementsPromise
<1>1. Init => Promise!Init
  BY DEF Init, Empty, unissued, held, issuers, Promise!Init
<1>2. IInv /\ [Next]_vars => [Promise!Next]_(Promise!vars)
  <2>1. ASSUME IInv, Next PROVE Promise!Next
    BY <2>1, Step
  <2>2. ASSUME UNCHANGED vars PROVE UNCHANGED Promise!vars
    BY <2>2 DEF vars, Promise!vars, unissued, held, issuers
  <2> QED
    BY <2>1, <2>2
<1> QED
  BY <1>1, <1>2, TokenInvariant, PTL DEF Spec, ImplementsPromise, Promise!Spec
=============================================================================
