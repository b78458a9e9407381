-------------------------- MODULE BandwidthProofs --------------------------
(***************************************************************************)
(* Staking and the market of RAM, for any accounts, quantities, delays,    *)
(* sizes and rates: no quantity goes below zero, limits follow resources,  *)
(* no deferred refund is early, no trade gains and all bytes can be sold.  *)
(***************************************************************************)
EXTENDS BandwidthAndRam, SumTheorems

----------------------------------------------------------------------------
(* Arithmetic *)

\* Division by a positive number.
LEMMA Quotient ==
    ASSUME NEW a \in Nat, NEW b \in Nat \ {0}
    PROVE  /\ a \div b \in Nat
           /\ b * (a \div b) <= a
           /\ a < b * ((a \div b) + 1)
<1>1. a \div b \in Nat /\ a % b \in 0 .. (b - 1) /\ a = b * (a \div b) + (a % b)
  OBVIOUS
<1> QED
  BY <1>1

LEMMA ProductNat == \A a, b \in Nat : a * b \in Nat
  OBVIOUS

\* What a trade takes out is less than there is, and the product does not fall.
LEMMA BancorOutput ==
    ASSUME NEW inp_reserve \in Nat \ {0}, NEW out_reserve \in Nat \ {0}, NEW inp \in Nat
    PROVE  LET out == get_bancor_output(inp_reserve, out_reserve, inp)
           IN  /\ out \in Nat /\ out < out_reserve
               /\ inp_reserve * out_reserve <= (inp_reserve + inp) * (out_reserve - out)
<1> DEFINE out == (inp * out_reserve) \div (inp_reserve + inp)
<1>1. inp * out_reserve \in Nat /\ inp_reserve + inp \in Nat \ {0}
  BY ProductNat
<1>2. out \in Nat /\ (inp_reserve + inp) * out <= inp * out_reserve
  BY <1>1, Quotient
<1> HIDE DEF out
<1>3. (inp_reserve + inp) * (out_reserve - out)
        = inp_reserve * out_reserve + inp * out_reserve - (inp_reserve + inp) * out
  BY <1>2
<1>4. inp_reserve * out_reserve <= (inp_reserve + inp) * (out_reserve - out)
  BY <1>1, <1>2, <1>3, ProductNat
<1>5. out < out_reserve
  <2>1. inp_reserve * out_reserve \in Nat /\ inp_reserve * out_reserve > 0
    OBVIOUS
  <2>2. SUFFICES ASSUME out_reserve - out <= 0 PROVE FALSE
    BY <1>2
  <2>3. (inp_reserve + inp) * (out_reserve - out) <= 0
    BY <1>1, <1>2, <2>2
  <2> QED
    BY <1>1, <1>2, <1>4, <2>1, <2>3
<1> QED
  BY <1>2, <1>4, <1>5 DEF out, get_bancor_output

LEMMA BancorInput ==
    ASSUME NEW out_reserve \in Nat, NEW inp_reserve \in Nat, NEW out \in Nat, out < out_reserve
    PROVE  get_bancor_input(out_reserve, inp_reserve, out) \in Nat
<1>1. inp_reserve * out \in Nat /\ out_reserve - out \in Nat \ {0}
  BY ProductNat
<1> QED
  BY <1>1, Quotient DEF get_bancor_input

LEMMA FeeBelow ==
    ASSUME NEW amount \in Nat
    PROVE  fee_of(amount) \in Nat /\ fee_of(amount) <= amount
BY DEF fee_of

----------------------------------------------------------------------------
(* Types *)

LEMMA InitTypes == Init => TypeOK
BY StakingAssumption, RamAssumption
   DEF Init, StakingInit, RamInit, TypeOK, StakingTypeOK, RamTypeOK, Bandwidth, Requests, Held,
       Nothing, NoResources, Empty, Resources

LEMMA LeftIsRequest ==
    ASSUME StakingTypeOK, NEW from \in Accounts, NEW net \in Int, NEW cpu \in Int
    PROVE  refund_left(from, net, cpu) \in Requests /\ still_due(from, net, cpu) \in Nat
<1>1. requested(from) \in Requests
  BY DEF StakingTypeOK, requested, Requests
<1>2. \A n \in Int : AtLeast0(n) \in Nat
  BY DEF AtLeast0, Larger
<1>3. requested(from).net - net \in Int /\ requested(from).cpu - cpu \in Int
      /\ net - requested(from).net \in Int /\ cpu - requested(from).cpu \in Int
      /\ requested(from).age \in Nat
  BY <1>1 DEF Requests
<1>4. still_due(from, net, cpu) \in Nat
  BY <1>2, <1>3 DEF still_due
<1>5. refund_left(from, net, cpu) \in Requests
  BY <1>2, <1>3 DEF refund_left, Requests
<1> QED
  BY <1>4, <1>5

LEMMA LimitsAreHeld ==
    ASSUME StakingTypeOK, NEW a \in Accounts, NEW held \in Held
    PROVE  limits_of(a, held) \in Held
<1>1. limits[a] \in Held /\ held.ram \in Nat /\ held.net \in Nat /\ held.cpu \in Nat
  BY DEF StakingTypeOK, Held
<1>2. limits[a].ram \in Nat /\ limits[a].net \in Nat /\ limits[a].cpu \in Nat
  BY <1>1 DEF Held
<1>3. Larger(held.ram + RamGift, limits[a].ram) \in Nat
  BY <1>1, <1>2, StakingAssumption DEF Larger
<1> QED
  BY <1>1, <1>2, <1>3 DEF limits_of, Held

LEMMA ChangeTypes ==
    ASSUME StakingTypeOK, NEW payer \in Accounts, NEW receiver \in Accounts,
           NEW net \in Int, NEW cpu \in Int, NEW transfer \in BOOLEAN,
           changebw(payer, receiver, net, cpu, transfer)
    PROVE  StakingTypeOK'
<1> DEFINE from == IF transfer THEN receiver ELSE payer
<1>1. from \in Accounts
  OBVIOUS
<1>2. /\ update_delegated(from, receiver, net, cpu)
      /\ update_totals(receiver, net, cpu)
      /\ \/ UseRefund(from, net, cpu) /\ pay_stake(payer, still_due(from, net, cpu))
         \/ LeaveRefund(from) /\ pay_stake(payer, AtLeast0(net + cpu))
      /\ update_voting_power(from, net + cpu)
      /\ managed' = managed
  BY DEF changebw
<1> HIDE DEF from
<1>3. delband' \in [Accounts -> [Accounts -> Bandwidth]]
  BY <1>1, <1>2 DEF update_delegated, StakingTypeOK, Bandwidth
<1>4. userres' \in [Accounts -> Held] /\ limits' \in [Accounts -> Held]
  <2> DEFINE held == [ram |-> userres[receiver].ram,
                      net |-> userres[receiver].net + net, cpu |-> userres[receiver].cpu + cpu]
  <2>1. held \in Held
    <3>1. userres[receiver] \in Held
      BY DEF StakingTypeOK
    <3>2. held.net >= 0 /\ held.cpu >= 0
      BY <1>2 DEF update_totals
    <3>3. /\ userres[receiver].ram \in Nat
          /\ userres[receiver].net + net \in Int /\ userres[receiver].cpu + cpu \in Int
      BY <3>1 DEF Held
    <3> QED
      BY <3>2, <3>3 DEF Held
  <2>2. limits_of(receiver, held) \in Held
    BY <2>1, LimitsAreHeld
  <2>3. userres' = [userres EXCEPT ![receiver] = held]
        /\ limits' = [limits EXCEPT ![receiver] = limits_of(receiver, held)]
    BY <1>2 DEF update_totals
  <2> HIDE DEF held
  <2> QED
    BY <2>1, <2>2, <2>3 DEF StakingTypeOK
<1>5. /\ DOMAIN refunds' \subseteq Accounts /\ refunds' \in [DOMAIN refunds' -> Requests]
      /\ DOMAIN deferred' \subseteq Accounts /\ deferred' \in [DOMAIN deferred' -> Nat]
  <2>1. CASE LeaveRefund(from)
    BY <2>1, <1>1 DEF LeaveRefund, StakingTypeOK, Without
  <2>2. CASE UseRefund(from, net, cpu)
    <3> DEFINE left == refund_left(from, net, cpu)
    <3>1. left \in Requests
      BY <1>1, LeftIsRequest
    <3>2. /\ refunds' = Without(refunds, from) \/ refunds' = Put(refunds, from, left)
          /\ deferred' = Without(deferred, from) \/ deferred' = Put(deferred, from, 0)
      BY <2>2 DEF UseRefund, reschedule
    <3> HIDE DEF left
    <3>3. DOMAIN refunds' \subseteq Accounts /\ refunds' \in [DOMAIN refunds' -> Requests]
      <4>1. DOMAIN refunds \subseteq Accounts /\ refunds \in [DOMAIN refunds -> Requests]
        BY DEF StakingTypeOK
      <4> QED
        BY <3>1, <3>2, <4>1, <1>1 DEF Put, Without
    <3>4. DOMAIN deferred' \subseteq Accounts /\ deferred' \in [DOMAIN deferred' -> Nat]
      <4>1. DOMAIN deferred \subseteq Accounts /\ deferred \in [DOMAIN deferred -> Nat]
        BY DEF StakingTypeOK
      <4> QED
        BY <3>2, <4>1, <1>1 DEF Put, Without
    <3> QED
      BY <3>3, <3>4
  <2> QED
    BY <1>2, <2>1, <2>2
<1>6. wallet' \in [Accounts -> Nat] /\ stake_balance' \in Nat
  <2>1. PICK due \in Nat : pay_stake(payer, due)
    <3>1. still_due(from, net, cpu) \in Nat
      BY <1>1, LeftIsRequest
    <3>2. AtLeast0(net + cpu) \in Nat
      BY DEF AtLeast0, Larger
    <3> QED
      BY <1>2, <3>1, <3>2
  <2> QED
    BY <2>1 DEF pay_stake, StakingTypeOK
<1>7. staked' \in [Accounts -> Nat]
  BY <1>1, <1>2 DEF update_voting_power, StakingTypeOK
<1> QED
  BY <1>2, <1>3, <1>4, <1>5, <1>6, <1>7 DEF StakingTypeOK

LEMMA RefundTypes ==
    ASSUME StakingTypeOK, NEW owner \in Accounts, pay_refund(owner)
    PROVE  /\ wallet' \in [Accounts -> Nat] /\ stake_balance' \in Nat
           /\ DOMAIN refunds' \subseteq Accounts /\ refunds' \in [DOMAIN refunds' -> Requests]
<1>1. refunds[owner].net \in Nat /\ refunds[owner].cpu \in Nat
  BY DEF StakingTypeOK, pay_refund, Requests
<1>2. refunds[owner].net + refunds[owner].cpu \in Nat
  BY <1>1
<1>3. wallet' \in [Accounts -> Nat] /\ stake_balance' \in Nat
  BY <1>2 DEF StakingTypeOK, pay_refund
<1> QED
  BY <1>3 DEF StakingTypeOK, pay_refund, Without

LEMMA SetTypes ==
    ASSUME StakingTypeOK, NEW account \in Accounts, NEW resource \in Resources,
           NEW value \in Nat,
           setacct(account, resource, value) \/ unsetacct(account, resource)
    PROVE  StakingTypeOK'
<1>1. PICK v \in Nat : limits' = [limits EXCEPT ![account][resource] = v]
  <2>1. own_limit(account, resource) \in Nat
    <3>1. userres[account] \in Held
      BY DEF StakingTypeOK
    <3> QED
      BY <3>1, StakingAssumption DEF own_limit, Held, Resources
  <2> QED
    BY <2>1 DEF setacct, unsetacct
<1>2. limits' \in [Accounts -> Held]
  <2>1. limits[account] \in Held
    BY DEF StakingTypeOK
  <2>2. [limits[account] EXCEPT ![resource] = v] \in Held
    BY <2>1 DEF Held, Resources
  <2>3. [limits[account] EXCEPT ![resource] = v]  \in Held
        /\ limits' = [limits EXCEPT ![account] = [limits[account] EXCEPT ![resource] = v]]
    BY <1>1, <2>2
  <2> QED
    BY <2>3 DEF StakingTypeOK
<1>3. managed' \subseteq Accounts \X Resources
  BY DEF setacct, unsetacct, StakingTypeOK
<1>4. UNCHANGED <<wallet, userres, stake_balance, delband, refunds, deferred, staked>>
  BY DEF setacct, unsetacct, bandwidth_vars
<1> QED
  BY <1>2, <1>3, <1>4 DEF StakingTypeOK

LEMMA StakingTypes == StakingTypeOK /\ StakingNext => StakingTypeOK'
<1> SUFFICES ASSUME StakingTypeOK, StakingNext PROVE StakingTypeOK'
  OBVIOUS
<1>1. ASSUME NEW from \in Accounts, NEW receiver \in Accounts, NEW stake \in Stakes,
             NEW transfer \in BOOLEAN, delegatebw(from, receiver, stake[1], stake[2], transfer)
      PROVE  StakingTypeOK'
  <2>1. stake[1] \in Int /\ stake[2] \in Int
    BY StakingAssumption
  <2> QED
    BY <1>1, <2>1, ChangeTypes DEF delegatebw
<1>2. ASSUME NEW from \in Accounts, NEW receiver \in Accounts, NEW stake \in Stakes,
             undelegatebw(from, receiver, stake[1], stake[2])
      PROVE  StakingTypeOK'
  <2>1. -stake[1] \in Int /\ -stake[2] \in Int
    BY StakingAssumption
  <2> QED
    BY <1>2, <2>1, ChangeTypes DEF undelegatebw
<1>3. ASSUME NEW owner \in Accounts, refund(owner)
      PROVE  StakingTypeOK'
  BY <1>3, RefundTypes DEF refund, StakingTypeOK
<1>4. ASSUME NEW owner \in Accounts, RunDeferred(owner)
      PROVE  StakingTypeOK'
  <2>1. DOMAIN deferred' \subseteq Accounts /\ deferred' \in [DOMAIN deferred' -> Nat]
    BY <1>4 DEF RunDeferred, StakingTypeOK, Without
  <2> QED
    BY <1>4, <2>1, RefundTypes DEF RunDeferred, StakingTypeOK
<1>5. ASSUME NEW s \in Settings, setacct(s[1], s[2], s[3]) \/ unsetacct(s[1], s[2])
      PROVE  StakingTypeOK'
  <2>1. s[1] \in Accounts /\ s[2] \in Resources /\ s[3] \in Nat
    BY StakingAssumption
  <2> QED
    BY <1>5, <2>1, SetTypes
<1> QED
  BY <1>1, <1>2, <1>3, <1>4, <1>5 DEF StakingNext

LEMMA AgeTypes == StakingTypeOK /\ AgeRefunds => StakingTypeOK'
<1> SUFFICES ASSUME StakingTypeOK, AgeRefunds PROVE StakingTypeOK'
  OBVIOUS
<1>1. \A n \in Nat : older(n) \in Nat
  BY DEF older
<1>2. DOMAIN deferred' \subseteq Accounts /\ deferred' \in [DOMAIN deferred' -> Nat]
  BY <1>1 DEF AgeRefunds, StakingTypeOK
<1>3. DOMAIN refunds' \subseteq Accounts /\ refunds' \in [DOMAIN refunds' -> Requests]
  BY <1>1 DEF AgeRefunds, StakingTypeOK, Requests
<1> QED
  BY <1>2, <1>3 DEF AgeRefunds, StakingTypeOK

----------------------------------------------------------------------------
(* The books of the stakes *)

\* A refund request that is used up is erased.
RequestsNotEmpty == \A a \in DOMAIN refunds : refunds[a].net + refunds[a].cpu > 0

Books == StakeCovered /\ TotalsAgree /\ RequestsNotEmpty

LEMMA SharesAreNat ==
    ASSUME StakingTypeOK
    PROVE  \A from, to \in Accounts : delband[from][to].net \in Nat /\ delband[from][to].cpu \in Nat
<1> SUFFICES ASSUME NEW from \in Accounts, NEW to \in Accounts
             PROVE  delband[from][to].net \in Nat /\ delband[from][to].cpu \in Nat
  OBVIOUS
<1>1. delband[from][to] \in Bandwidth
  BY DEF StakingTypeOK
<1> QED
  BY <1>1 DEF Bandwidth

LEMMA WaitingIsNat ==
    ASSUME StakingTypeOK, NEW a \in Accounts
    PROVE  waiting(a) \in Nat
<1>1. CASE a \in DOMAIN refunds
  <2>1. refunds[a] \in Requests
    BY <1>1 DEF StakingTypeOK
  <2>2. refunds[a].net \in Nat /\ refunds[a].cpu \in Nat
    BY <2>1 DEF Requests
  <2> QED
    BY <1>1, <2>2 DEF waiting
<1> QED
  BY <1>1 DEF waiting

LEMMA DelegatedIsNat ==
    ASSUME StakingTypeOK, NEW a \in Accounts
    PROVE  /\ delegated_by(a) \in Nat
           /\ \A to \in Accounts : delband[a][to].net + delband[a][to].cpu <= delegated_by(a)
<1> DEFINE f == [to \in Accounts |-> delband[a][to].net + delband[a][to].cpu]
<1>1. delegated_by(a) = SumFunctionOnSet(f, Accounts)
  BY DEF delegated_by, SumFunction
<1>2. \A x \in Accounts : f[x] \in Nat
  BY SharesAreNat
<1>3. \A to \in Accounts : f[to] = delband[a][to].net + delband[a][to].cpu
  OBVIOUS
<1> HIDE DEF f
<1> QED
  BY <1>1, <1>2, <1>3, AccountsAssumption, SumType, SumBound

LEMMA CountsAreNat ==
    StakingTypeOK => \A a \in Accounts : delegated_by(a) \in Nat /\ waiting(a) \in Nat
BY DelegatedIsNat, WaitingIsNat

LEMMA CountsStayNat ==
    (StakingTypeOK => \A a \in Accounts : delegated_by(a) \in Nat /\ waiting(a) \in Nat)'
BY CountsAreNat, PTL

\* What update_delegated does to the sums over the delegations.
LEMMA DelegationCounts ==
    ASSUME StakingTypeOK, StakingTypeOK', NEW from \in Accounts, NEW receiver \in Accounts,
           NEW net \in Int, NEW cpu \in Int, update_delegated(from, receiver, net, cpu),
           NEW a \in Accounts
    PROVE  /\ delegated_by(a)' = IF a = from THEN delegated_by(a) + net + cpu ELSE delegated_by(a)
           /\ NetFor(a)'
                = NetFor(a)
                    + IF a = receiver THEN net ELSE 0
           /\ CpuFor(a)'
                = CpuFor(a)
                    + IF a = receiver THEN cpu ELSE 0
<1>1. \A x, y \in Accounts : /\ delband[x][y].net \in Nat /\ delband[x][y].cpu \in Nat
                             /\ delband'[x][y].net \in Nat /\ delband'[x][y].cpu \in Nat
  <2>1. \A x, y \in Accounts : delband[x][y] \in Bandwidth /\ delband'[x][y] \in Bandwidth
    BY DEF StakingTypeOK
  <2> QED
    BY <2>1 DEF Bandwidth
<1>2. \A x, y \in Accounts :
         /\ delband'[x][y].net = delband[x][y].net + IF x = from /\ y = receiver THEN net ELSE 0
         /\ delband'[x][y].cpu = delband[x][y].cpu + IF x = from /\ y = receiver THEN cpu ELSE 0
  BY <1>1 DEF update_delegated, StakingTypeOK
<1>3. delegated_by(a)' = IF a = from THEN delegated_by(a) + net + cpu ELSE delegated_by(a)
  <2> DEFINE f == [to \in Accounts |-> delband[a][to].net + delband[a][to].cpu]
             g == [to \in Accounts |-> delband'[a][to].net + delband'[a][to].cpu]
  <2>1. /\ delegated_by(a) = SumFunctionOnSet(f, Accounts)
        /\ delegated_by(a)' = SumFunctionOnSet(g, Accounts)
    BY DEF delegated_by, SumFunction
  <2>2. \A x \in Accounts : f[x] \in Int /\ g[x] \in Int
    BY <1>1
  <2>3. \A x \in Accounts : a # from \/ x # receiver => g[x] = f[x]
    BY <1>1, <1>2
  <2>4. a = from => g[receiver] = f[receiver] + net + cpu
    BY <1>1, <1>2
  <2> HIDE DEF f, g
  <2>5. CASE a # from
    BY <2>1, <2>3, <2>5, AccountsAssumption, SumAgree
  <2>6. CASE a = from
    <3>1. SumFunctionOnSet(g, Accounts) = SumFunctionOnSet(f, Accounts) + (g[receiver] - f[receiver])
      BY <2>2, <2>3, AccountsAssumption, SumUpdate
    <3>2. SumFunctionOnSet(f, Accounts) \in Int
      BY <2>2, AccountsAssumption, SumType
    <3> QED
      BY <2>1, <2>2, <2>4, <2>6, <3>1, <3>2
  <2> QED
    BY <2>5, <2>6
<1>4. NetFor(a)'
        = NetFor(a) + IF a = receiver THEN net ELSE 0
  <2> DEFINE f == [x \in Accounts |-> delband[x][a].net]
             g == [x \in Accounts |-> delband'[x][a].net]
  <2>1. /\ NetFor(a) = SumFunctionOnSet(f, Accounts)
        /\ NetFor(a)' = SumFunctionOnSet(g, Accounts)
    BY DEF NetFor, CpuFor, SumFunction
  <2>2. \A x \in Accounts : f[x] \in Int /\ g[x] \in Int
    BY <1>1
  <2>3. \A x \in Accounts \ {from} : g[x] = f[x]
    BY <1>1, <1>2
  <2>4. g[from] - f[from] = IF a = receiver THEN net ELSE 0
    BY <1>1, <1>2
  <2> HIDE DEF f, g
  <2> QED
    BY <2>1, <2>2, <2>3, <2>4, AccountsAssumption, SumUpdate
<1>5. CpuFor(a)'
        = CpuFor(a) + IF a = receiver THEN cpu ELSE 0
  <2> DEFINE f == [x \in Accounts |-> delband[x][a].cpu]
             g == [x \in Accounts |-> delband'[x][a].cpu]
  <2>1. /\ CpuFor(a) = SumFunctionOnSet(f, Accounts)
        /\ CpuFor(a)' = SumFunctionOnSet(g, Accounts)
    BY DEF NetFor, CpuFor, SumFunction
  <2>2. \A x \in Accounts : f[x] \in Int /\ g[x] \in Int
    BY <1>1
  <2>3. \A x \in Accounts \ {from} : g[x] = f[x]
    BY <1>1, <1>2
  <2>4. g[from] - f[from] = IF a = receiver THEN cpu ELSE 0
    BY <1>1, <1>2
  <2> HIDE DEF f, g
  <2> QED
    BY <2>1, <2>2, <2>3, <2>4, AccountsAssumption, SumUpdate
<1> QED
  BY <1>3, <1>4, <1>5

\* What a change of the stake does to the refund request it uses.
LEMMA RequestCounts ==
    ASSUME StakingTypeOK, RequestsNotEmpty, NEW from \in Accounts,
           NEW net \in Int, NEW cpu \in Int, UseRefund(from, net, cpu)
    PROVE  /\ \A a \in Accounts :
                  waiting(a)' = IF a = from THEN waiting(a) + still_due(from, net, cpu) - (net + cpu)
                                ELSE waiting(a)
           /\ RequestsNotEmpty'
<1> DEFINE left == refund_left(from, net, cpu)
           req == requested(from)
<1>1. left \in Requests /\ left.net \in Nat /\ left.cpu \in Nat
  BY LeftIsRequest DEF Requests
<1>2. req.net \in Nat /\ req.cpu \in Nat
  BY DEF StakingTypeOK, requested, Requests
<1>3. waiting(from) = req.net + req.cpu
  BY <1>2 DEF waiting, requested
<1>4. left.net + left.cpu = req.net + req.cpu + still_due(from, net, cpu) - (net + cpu)
  <2>1. /\ left.net = AtLeast0(req.net - net) /\ left.cpu = AtLeast0(req.cpu - cpu)
        /\ still_due(from, net, cpu) = AtLeast0(net - req.net) + AtLeast0(cpu - req.cpu)
    BY DEF refund_left, still_due
  <2> HIDE DEF left, req
  <2>2. /\ AtLeast0(net - req.net) \in Int /\ AtLeast0(cpu - req.cpu) \in Int
        /\ AtLeast0(req.net - net) = req.net + AtLeast0(net - req.net) - net
        /\ AtLeast0(req.cpu - cpu) = req.cpu + AtLeast0(cpu - req.cpu) - cpu
    BY <1>2 DEF AtLeast0, Larger
  <2> QED
    BY <1>2, <2>1, <2>2
<1>5. refunds' = IF left.net + left.cpu = 0 THEN Without(refunds, from) ELSE Put(refunds, from, left)
  BY DEF UseRefund
<1> HIDE DEF left, req
<1>6. CASE left.net + left.cpu = 0
  <2>1. refunds' = Without(refunds, from)
    BY <1>5, <1>6
  <2>2. DOMAIN refunds' = DOMAIN refunds \ {from} /\ \A x \in DOMAIN refunds' : refunds'[x] = refunds[x]
    BY <2>1 DEF Without
  <2>3. waiting(from)' = 0 /\ \A a \in Accounts : a # from => waiting(a)' = waiting(a)
    BY <2>2 DEF waiting
  <2>4. RequestsNotEmpty'
    BY <2>2 DEF RequestsNotEmpty
  <2> QED
    BY <1>3, <1>4, <1>6, <2>3, <2>4
<1>7. CASE left.net + left.cpu # 0
  <2>1. refunds' = Put(refunds, from, left)
    BY <1>5, <1>7
  <2>2. DOMAIN refunds' = DOMAIN refunds \cup {from} /\ refunds'[from] = left
        /\ \A x \in DOMAIN refunds : x # from => refunds'[x] = refunds[x]
    BY <2>1 DEF Put
  <2>3. waiting(from)' = left.net + left.cpu
        /\ \A a \in Accounts : a # from => waiting(a)' = waiting(a)
    BY <2>2 DEF waiting
  <2>4. left.net + left.cpu > 0
    BY <1>1, <1>7
  <2>5. RequestsNotEmpty'
    BY <2>2, <2>4 DEF RequestsNotEmpty
  <2> QED
    BY <1>3, <1>4, <2>3, <2>5
<1> QED
  BY <1>6, <1>7

\* The tokens of eosio.stake change by as much as those of one account that are staked or waiting.
LEMMA OneAccountCounts ==
    ASSUME StakingTypeOK, StakingTypeOK', StakeCovered, NEW owner \in Accounts, NEW d \in Int,
           \A a \in Accounts \ {owner} :
               delegated_by(a)' + waiting(a)' = delegated_by(a) + waiting(a),
           delegated_by(owner)' + waiting(owner)' = delegated_by(owner) + waiting(owner) + d,
           stake_balance' = stake_balance + d
    PROVE  StakeCovered'
<1> DEFINE f == [a \in Accounts |-> delegated_by(a) + waiting(a)]
           g == [a \in Accounts |-> delegated_by(a)' + waiting(a)']
<1>1. \A a \in Accounts : /\ delegated_by(a) \in Int /\ waiting(a) \in Int
                          /\ delegated_by(a)' \in Int /\ waiting(a)' \in Int
  BY CountsAreNat, CountsStayNat
<1>2. /\ stake_balance = SumFunctionOnSet(f, Accounts)
      /\ StakeCovered' <=> stake_balance' = SumFunctionOnSet(g, Accounts)
  BY DEF StakeCovered, SumFunction
<1>3. \A a \in Accounts : f[a] \in Int /\ g[a] \in Int
  BY <1>1
<1>4. \A a \in Accounts \ {owner} : g[a] = f[a]
  OBVIOUS
<1>5. g[owner] = f[owner] + d
  OBVIOUS
<1> HIDE DEF f, g
<1>6. SumFunctionOnSet(g, Accounts) = SumFunctionOnSet(f, Accounts) + (g[owner] - f[owner])
  BY <1>3, <1>4, AccountsAssumption, SumUpdate
<1>7. SumFunctionOnSet(f, Accounts) \in Int
  BY <1>3, AccountsAssumption, SumType
<1> QED
  BY <1>2, <1>3, <1>5, <1>6, <1>7

LEMMA ChangeBooks ==
    ASSUME StakingTypeOK, Books, StakingTypeOK', NEW payer \in Accounts, NEW receiver \in Accounts,
           NEW net \in Int, NEW cpu \in Int, NEW transfer \in BOOLEAN,
           changebw(payer, receiver, net, cpu, transfer)
    PROVE  Books'
<1> DEFINE from == IF transfer THEN receiver ELSE payer
<1>1. from \in Accounts
  OBVIOUS
<1>2. /\ update_delegated(from, receiver, net, cpu)
      /\ update_totals(receiver, net, cpu)
      /\ \/ UseRefund(from, net, cpu) /\ pay_stake(payer, still_due(from, net, cpu))
         \/ LeaveRefund(from) /\ net + cpu >= 0 /\ pay_stake(payer, AtLeast0(net + cpu))
      /\ update_voting_power(from, net + cpu)
  BY DEF changebw
<1> HIDE DEF from
<1>3. StakingTypeOK /\ StakeCovered /\ TotalsAgree /\ RequestsNotEmpty
  BY DEF Books
<1>4. \A a \in Accounts :
         delegated_by(a)' = IF a = from THEN delegated_by(a) + net + cpu ELSE delegated_by(a)
  BY <1>1, <1>2, <1>3, DelegationCounts
<1>5. \A a \in Accounts : delegated_by(a) \in Int /\ waiting(a) \in Int
  BY <1>3, DelegatedIsNat, WaitingIsNat
<1>6. StakeCovered' /\ RequestsNotEmpty'
  <2>1. CASE UseRefund(from, net, cpu) /\ pay_stake(payer, still_due(from, net, cpu))
    <3> DEFINE due == still_due(from, net, cpu)
    <3>1. /\ \A a \in Accounts :
                 waiting(a)' = IF a = from THEN waiting(a) + due - (net + cpu) ELSE waiting(a)
          /\ RequestsNotEmpty'
      BY <1>1, <1>3, <2>1, RequestCounts
    <3>2. due \in Int /\ stake_balance' = stake_balance + due
      BY <1>1, <1>3, <2>1, LeftIsRequest DEF pay_stake
    <3> HIDE DEF due
    <3>3. delegated_by(from)' + waiting(from)' = delegated_by(from) + waiting(from) + due
      BY <1>1, <1>4, <1>5, <3>1, <3>2
    <3> QED
      BY <1>1, <1>3, <1>4, <3>1, <3>2, <3>3, OneAccountCounts
  <2>2. CASE LeaveRefund(from) /\ net + cpu >= 0 /\ pay_stake(payer, AtLeast0(net + cpu))
    <3>1. refunds' = refunds /\ stake_balance' = stake_balance + (net + cpu)
      BY <2>2 DEF LeaveRefund, pay_stake, AtLeast0, Larger
    <3>2. \A a \in Accounts : waiting(a)' = waiting(a)
      BY <3>1 DEF waiting
    <3>3. RequestsNotEmpty'
      BY <1>3, <3>1 DEF RequestsNotEmpty
    <3>4. delegated_by(from)' + waiting(from)' = delegated_by(from) + waiting(from) + (net + cpu)
      BY <1>1, <1>4, <1>5, <3>2
    <3> QED
      BY <1>1, <1>3, <1>4, <3>1, <3>2, <3>3, <3>4, OneAccountCounts
  <2> QED
    BY <1>2, <2>1, <2>2
<1>7. TotalsAgree'
  <2> SUFFICES ASSUME NEW a \in Accounts
               PROVE  /\ userres'[a].net = NetFor(a)'
                      /\ userres'[a].cpu = CpuFor(a)'
                      /\ staked'[a] = delegated_by(a)'
    BY DEF TotalsAgree
  <2>1. /\ userres[a].net = NetFor(a)
        /\ userres[a].cpu = CpuFor(a)
        /\ staked[a] = delegated_by(a)
    BY <1>3 DEF TotalsAgree
  <2>2. /\ NetFor(a)'
             = NetFor(a) + IF a = receiver THEN net ELSE 0
        /\ CpuFor(a)'
             = CpuFor(a) + IF a = receiver THEN cpu ELSE 0
    BY <1>1, <1>2, <1>3, DelegationCounts
  <2>3. userres \in [Accounts -> Held] /\ userres[a].net \in Nat /\ userres[a].cpu \in Nat
    BY <1>3 DEF StakingTypeOK, Held
  <2>4. /\ userres'[a].net = userres[a].net + IF a = receiver THEN net ELSE 0
        /\ userres'[a].cpu = userres[a].cpu + IF a = receiver THEN cpu ELSE 0
    BY <1>2, <2>3 DEF update_totals
  <2>5. staked'[a] = delegated_by(a)'
    BY <1>1, <1>2, <1>3, <1>4, <1>5, <2>1 DEF update_voting_power, StakingTypeOK
  <2> QED
    BY <2>1, <2>2, <2>4, <2>5
<1> QED
  BY <1>6, <1>7 DEF Books

\* A refund that is paid leaves eosio.stake by what its owner waited for.
LEMMA PayBooks ==
    ASSUME StakingTypeOK, Books, StakingTypeOK', NEW owner \in Accounts, pay_refund(owner),
           UNCHANGED <<delband, userres, staked>>
    PROVE  Books'
<1>1. StakingTypeOK /\ StakeCovered /\ TotalsAgree /\ RequestsNotEmpty
  BY DEF Books
<1>2. \A a \in Accounts : delegated_by(a)' = delegated_by(a)
  BY DEF delegated_by
<1>3. waiting(owner)' = 0 /\ stake_balance' = stake_balance - waiting(owner)
  BY DEF pay_refund, waiting, Without
<1>4. \A a \in Accounts \ {owner} : waiting(a)' = waiting(a)
  BY DEF pay_refund, waiting, Without
<1>5. \A a \in Accounts : delegated_by(a) \in Int /\ waiting(a) \in Int
  BY <1>1, DelegatedIsNat, WaitingIsNat
<1>6. StakeCovered'
  <2> DEFINE d == -waiting(owner)
  <2>1. d \in Int /\ stake_balance' = stake_balance + d
    BY <1>1, <1>3, <1>5 DEF StakingTypeOK
  <2>2. delegated_by(owner)' + waiting(owner)' = delegated_by(owner) + waiting(owner) + d
    BY <1>2, <1>3, <1>5
  <2> HIDE DEF d
  <2> QED
    BY <1>1, <1>2, <1>4, <2>1, <2>2, OneAccountCounts
<1>7. TotalsAgree'
  BY <1>1 DEF TotalsAgree, delegated_by, NetFor, CpuFor
<1>8. RequestsNotEmpty'
  BY <1>1 DEF RequestsNotEmpty, pay_refund, Without
<1> QED
  BY <1>6, <1>7, <1>8 DEF Books

LEMMA StillBooks ==
    ASSUME Books, UNCHANGED <<stake_balance, delband, refunds, staked>>,
           \A a \in Accounts : userres'[a].net = userres[a].net /\ userres'[a].cpu = userres[a].cpu
    PROVE  Books'
BY DEF Books, StakeCovered, TotalsAgree, RequestsNotEmpty, delegated_by, waiting,
       NetFor, CpuFor

LEMMA AgeBooks ==
    ASSUME StakingTypeOK, Books, AgeRefunds
    PROVE  Books'
<1>1. DOMAIN refunds' = DOMAIN refunds
      /\ \A a \in DOMAIN refunds : refunds'[a].net = refunds[a].net /\ refunds'[a].cpu = refunds[a].cpu
  BY DEF StakingTypeOK, Requests, AgeRefunds
<1>2. \A a \in Accounts : waiting(a)' = waiting(a)
  BY <1>1 DEF waiting
<1>3. UNCHANGED <<stake_balance, delband, userres, staked>>
  BY DEF AgeRefunds
<1>4. StakeCovered'
  BY <1>2, <1>3 DEF Books, StakeCovered, delegated_by
<1>5. TotalsAgree' /\ RequestsNotEmpty'
  BY <1>1, <1>3 DEF Books, TotalsAgree, RequestsNotEmpty, delegated_by,
              NetFor, CpuFor
<1> QED
  BY <1>4, <1>5 DEF Books

----------------------------------------------------------------------------
(* The books of the bytes *)

\* What RamBooks says of the bytes of the accounts.
BytesHeld == ram_reserved = SumFunction([a \in Accounts |-> userres[a].ram])

LEMMA BytesAreNat ==
    ASSUME StakingTypeOK
    PROVE  \A a \in Accounts : userres[a].ram \in Nat
BY DEF StakingTypeOK, Held

\* No account holds more bytes than are reserved.
LEMMA BytesBelow ==
    ASSUME StakingTypeOK, BytesHeld, NEW account \in Accounts
    PROVE  userres[account].ram <= ram_reserved
<1> DEFINE f == [a \in Accounts |-> userres[a].ram]
<1>1. ram_reserved = SumFunctionOnSet(f, Accounts) /\ f[account] = userres[account].ram
  BY DEF BytesHeld, SumFunction
<1>2. \A a \in Accounts : f[a] \in Nat
  BY BytesAreNat
<1> HIDE DEF f
<1> QED
  BY <1>1, <1>2, AccountsAssumption, SumBound

LEMMA HoldHeld ==
    ASSUME StakingTypeOK, BytesHeld, NEW account \in Accounts, NEW bytes \in Nat,
           hold_bytes(account, bytes),
           ram_reserved' = ram_reserved + (bytes - userres[account].ram)
    PROVE  BytesHeld'
<1> DEFINE f == [a \in Accounts |-> userres[a].ram]
           g == [a \in Accounts |-> userres'[a].ram]
<1>1. /\ ram_reserved = SumFunctionOnSet(f, Accounts)
      /\ BytesHeld' <=> ram_reserved' = SumFunctionOnSet(g, Accounts)
  BY DEF BytesHeld, SumFunction
<1>2. \A a \in Accounts : userres'[a].ram = IF a = account THEN bytes ELSE userres[a].ram
  BY DEF hold_bytes, StakingTypeOK, Held
<1>3. \A a \in Accounts : f[a] \in Int /\ g[a] \in Int
  BY <1>2, BytesAreNat
<1>4. \A a \in Accounts \ {account} : g[a] = f[a]
  BY <1>2
<1>5. g[account] - f[account] = bytes - userres[account].ram
  BY <1>2
<1> HIDE DEF f, g
<1> QED
  BY <1>1, <1>3, <1>4, <1>5, AccountsAssumption, SumUpdate

LEMMA StillHeld ==
    ASSUME BytesHeld, ram_reserved' = ram_reserved,
           \A a \in Accounts : userres'[a].ram = userres[a].ram
    PROVE  BytesHeld'
BY DEF BytesHeld

----------------------------------------------------------------------------
(* The inductive invariant *)

\* What RamBooks says of the counters of the market.
MarketBooks ==
    /\ market.base + ram_reserved = max_ram_size
    /\ ram_balance = total_ram_stake
    /\ market.quote = RamQuote + total_ram_stake

\* The tokens the market was made with never price more bytes than there are.
PriceHolds ==
    /\ max_ram_size > 0
    /\ RamQuote * max_ram_size <= market.base * market.quote

RamInv == RamTypeOK /\ MarketBooks /\ PriceHolds

IInv == StakingTypeOK /\ RamInv /\ BytesHeld /\ Books /\ LimitsFollow /\ DeferredNotEarly

LEMMA MarketTypes ==
    ASSUME RamTypeOK
    PROVE  /\ market.base \in Nat \ {0} /\ market.quote \in Nat \ {0}
           /\ max_ram_size \in Nat /\ ram_reserved \in Nat /\ total_ram_stake \in Nat
           /\ new_ram.rate \in Nat /\ new_ram.age \in Nat /\ added \in Nat
           /\ market = [base |-> market.base, quote |-> market.quote]
<1>1. new_ram.rate \in Nat /\ new_ram.age \in Nat
  BY DEF RamTypeOK
<1> QED
  BY <1>1, ProductNat DEF RamTypeOK, added

\* More bytes for sale leave the price of the chain's RAM covered.
LEMMA Grown ==
    ASSUME RamInv, NEW d \in Nat
    PROVE  /\ RamQuote * (max_ram_size + d) <= (market.base + d) * market.quote
           /\ market.base * market.quote <= (market.base + d) * market.quote
<1> DEFINE b == market.base
           q == market.quote
<1>1. b \in Nat \ {0} /\ q \in Nat \ {0} /\ max_ram_size \in Nat /\ RamQuote \in Nat
      /\ RamQuote <= q /\ RamQuote * max_ram_size <= b * q
  BY MarketTypes, RamAssumption DEF RamInv, MarketBooks, PriceHolds
<1> HIDE DEF b, q
<1>2. RamQuote * d <= q * d
  BY <1>1
<1>3. RamQuote * (max_ram_size + d) = RamQuote * max_ram_size + RamQuote * d
      /\ (b + d) * q = b * q + q * d /\ q * d >= 0
  BY <1>1
<1>4. /\ RamQuote * max_ram_size \in Int /\ RamQuote * d \in Int
      /\ b * q \in Int /\ q * d \in Int
  BY <1>1
<1> QED
  BY <1>1, <1>2, <1>3, <1>4 DEF b, q

\* What every trade does to the market: a sum goes in at one side, less comes out at the other.
LEMMA TradeKeeps ==
    ASSUME RamInv, NEW d \in Nat, NEW b \in Nat \ {0}, NEW q \in Nat \ {0},
           market' = [base |-> b, quote |-> q],
           max_ram_size' = max_ram_size + d,
           (market.base + d) * market.quote <= b * q
    PROVE  /\ market' \in [base : Nat \ {0}, quote : Nat \ {0}]
           /\ PriceHolds'
           /\ market'.base * market'.quote >= market.base * market.quote
<1>1. market.base \in Nat /\ market.quote \in Nat /\ max_ram_size \in Nat /\ max_ram_size > 0
      /\ RamQuote \in Nat
  BY MarketTypes, RamAssumption DEF RamInv, PriceHolds
<1>2. RamQuote * max_ram_size' <= b * q /\ market.base * market.quote <= b * q
  <2>1. RamQuote * (max_ram_size + d) \in Int /\ (market.base + d) * market.quote \in Int
        /\ b * q \in Int /\ market.base * market.quote \in Int
    BY <1>1
  <2> QED
    BY <2>1, Grown
<1>3. market'.base = b /\ market'.quote = q
  OBVIOUS
<1> QED
  BY <1>1, <1>2, <1>3 DEF PriceHolds

NoLoss == market'.base * market'.quote >= market.base * market.quote

LEMMA HoldTypes ==
    ASSUME StakingTypeOK, NEW account \in Accounts, NEW bytes \in Nat,
           hold_bytes(account, bytes), wallet' \in [Accounts -> Nat]
    PROVE  StakingTypeOK'
<1>1. userres' \in [Accounts -> Held]
  BY DEF hold_bytes, StakingTypeOK, Held
<1>2. limits' \in [Accounts -> Held]
  <2>1. bytes + RamGift \in Nat
    BY StakingAssumption
  <2> QED
    BY <2>1 DEF hold_bytes, StakingTypeOK, Held
<1> QED
  BY <1>1, <1>2 DEF hold_bytes, StakingTypeOK, bandwidth_vars

LEMMA BuyKeeps ==
    ASSUME IInv, NEW payer \in Accounts, NEW receiver \in Accounts, NEW quant \in Nat,
           buyram(payer, receiver, quant)
    PROVE  StakingTypeOK' /\ RamInv' /\ NoLoss
<1> DEFINE paid == quant - fee_of(quant)
           base == market.base + added
           out == get_bancor_output(market.quote, base, paid)
<1>1. StakingTypeOK /\ RamTypeOK /\ MarketBooks /\ RamInv
  BY DEF IInv, RamInv
<1>2. /\ market.base \in Nat \ {0} /\ market.quote \in Nat \ {0} /\ added \in Nat
      /\ max_ram_size \in Nat /\ ram_reserved \in Nat /\ total_ram_stake \in Nat
      /\ new_ram.rate \in Nat
  BY <1>1, MarketTypes
<1>3. paid \in Nat /\ base \in Nat \ {0} /\ fee_of(quant) \in Nat
  BY <1>2, FeeBelow
<1>4. /\ out \in Nat /\ out < base
      /\ base * market.quote <= (base - out) * (market.quote + paid)
  <2>1. /\ out \in Nat /\ out < base
        /\ market.quote * base <= (market.quote + paid) * (base - out)
    BY <1>2, <1>3, BancorOutput
  <2> HIDE DEF out, base, paid
  <2> QED
    BY <1>2, <1>3, <2>1
<1>5. /\ quant <= wallet[payer]
      /\ update_ram_supply
      /\ wallet' = [wallet EXCEPT ![payer] = @ - quant]
      /\ ram_balance' = ram_balance + paid
      /\ ram_fees' = ram_fees + fee_of(quant)
      /\ market' = [base |-> base - out, quote |-> market.quote + paid]
      /\ ram_reserved' = ram_reserved + out
      /\ total_ram_stake' = total_ram_stake + paid
      /\ hold_bytes(receiver, userres[receiver].ram + out)
  BY DEF buyram
<1>6. max_ram_size' = max_ram_size + added /\ new_ram' \in [rate : Nat, age : Nat]
  BY <1>1, <1>5 DEF update_ram_supply, RamTypeOK
<1>7. market' \in [base : Nat \ {0}, quote : Nat \ {0}] /\ PriceHolds' /\ NoLoss
  <2>1. base - out \in Nat \ {0} /\ market.quote + paid \in Nat \ {0}
    BY <1>2, <1>3, <1>4
  <2>2. (market.base + added) * market.quote <= (base - out) * (market.quote + paid)
    BY <1>4
  <2> HIDE DEF out, base, paid
  <2> QED
    BY <1>1, <1>2, <1>5, <1>6, <2>1, <2>2, TradeKeeps DEF NoLoss
<1>8. StakingTypeOK'
  <2>1. wallet' \in [Accounts -> Nat]
    BY <1>1, <1>5 DEF StakingTypeOK
  <2>2. userres[receiver].ram + out \in Nat
    <3>1. userres[receiver].ram \in Nat
      BY <1>1 DEF StakingTypeOK, Held
    <3> QED
      BY <3>1, <1>4
  <2> HIDE DEF out
  <2> QED
    BY <1>1, <1>5, <2>1, <2>2, HoldTypes
<1>9. MarketBooks'
  <2>1. market'.base = base - out /\ market'.quote = market.quote + paid
    BY <1>5
  <2>2. /\ market.base + ram_reserved = max_ram_size /\ market.quote = RamQuote + total_ram_stake
        /\ ram_balance = total_ram_stake
    BY <1>1 DEF MarketBooks
  <2>3. market'.base + ram_reserved' = max_ram_size'
    <3>1. base = market.base + added /\ base \in Int /\ out \in Int
      BY <1>3, <1>4
    <3>2. market.base \in Int /\ added \in Int /\ ram_reserved \in Int /\ max_ram_size \in Int
      BY <1>2
    <3> HIDE DEF out, base
    <3> QED
      BY <1>5, <1>6, <2>1, <2>2, <3>1, <3>2
  <2>4. market'.quote = RamQuote + total_ram_stake'
    <3> HIDE DEF paid
    <3> QED
      BY <1>2, <1>3, <1>5, <2>1, <2>2, RamAssumption
  <2> QED
    BY <1>5, <2>2, <2>3, <2>4 DEF MarketBooks
<1>10. RamTypeOK'
  <2> HIDE DEF out, base, paid
  <2> QED
    BY <1>1, <1>2, <1>3, <1>4, <1>5, <1>6, <1>7 DEF RamTypeOK
<1> QED
  BY <1>7, <1>8, <1>9, <1>10 DEF RamInv

LEMMA BuyBytesKeeps ==
    ASSUME IInv, NEW payer \in Accounts, NEW receiver \in Accounts, NEW bytes \in Nat,
           buyrambytes(payer, receiver, bytes)
    PROVE  StakingTypeOK' /\ RamInv' /\ NoLoss
<1>1. market.base \in Nat /\ market.quote \in Nat
  BY MarketTypes DEF IInv, RamInv
<1>2. get_bancor_input(market.base, market.quote, bytes) \in Nat
  BY <1>1, BancorInput DEF buyrambytes
<1> DEFINE cost == get_bancor_input(market.base, market.quote, bytes)
<1>3. (cost * 1000) \div 995 \in Nat
  <2> HIDE DEF cost
  <2>1. cost \in Nat
    BY <1>2 DEF cost
  <2> QED
    BY <2>1, Quotient
<1> QED
  BY <1>3, BuyKeeps DEF buyrambytes

LEMMA SellKeeps ==
    ASSUME IInv, NEW account \in Accounts, NEW bytes \in Nat, sellram(account, bytes)
    PROVE  StakingTypeOK' /\ RamInv' /\ NoLoss
<1> DEFINE base == market.base + added
           out == get_bancor_output(base, market.quote, bytes)
<1>1. StakingTypeOK /\ RamTypeOK /\ MarketBooks /\ RamInv
  BY DEF IInv, RamInv
<1>2. /\ market.base \in Nat \ {0} /\ market.quote \in Nat \ {0} /\ added \in Nat
      /\ max_ram_size \in Nat /\ ram_reserved \in Nat /\ total_ram_stake \in Nat
      /\ new_ram.rate \in Nat
  BY <1>1, MarketTypes
<1>3. base \in Nat \ {0}
  BY <1>2
<1>4. /\ out \in Nat /\ out < market.quote
      /\ base * market.quote <= (base + bytes) * (market.quote - out)
  BY <1>2, <1>3, BancorOutput
<1>5. /\ bytes <= userres[account].ram
      /\ out <= total_ram_stake /\ out <= ram_balance
      /\ update_ram_supply
      /\ wallet' = [wallet EXCEPT ![account] = @ + out - fee_of(out)]
      /\ ram_balance' = ram_balance - out
      /\ ram_fees' = ram_fees + fee_of(out)
      /\ market' = [base |-> base + bytes, quote |-> market.quote - out]
      /\ ram_reserved' = ram_reserved - bytes
      /\ total_ram_stake' = total_ram_stake - out
      /\ hold_bytes(account, userres[account].ram - bytes)
  BY DEF sellram, paid_back
<1>6. max_ram_size' = max_ram_size + added /\ new_ram' \in [rate : Nat, age : Nat]
  BY <1>1, <1>5 DEF update_ram_supply, RamTypeOK
<1>7. market' \in [base : Nat \ {0}, quote : Nat \ {0}] /\ PriceHolds' /\ NoLoss
  <2>1. base + bytes \in Nat \ {0} /\ market.quote - out \in Nat \ {0}
    BY <1>2, <1>3, <1>4
  <2>2. (market.base + added) * market.quote <= (base + bytes) * (market.quote - out)
    BY <1>4
  <2> HIDE DEF out, base
  <2> QED
    BY <1>1, <1>2, <1>5, <1>6, <2>1, <2>2, TradeKeeps DEF NoLoss
<1>8. fee_of(out) \in Nat /\ fee_of(out) <= out
  BY <1>4, FeeBelow
<1>9. StakingTypeOK'
  <2>1. wallet' \in [Accounts -> Nat]
    <3> HIDE DEF out
    <3> QED
      BY <1>1, <1>4, <1>5, <1>8 DEF StakingTypeOK
  <2>2. userres[account].ram - bytes \in Nat
    <3>1. userres[account].ram \in Nat
      BY <1>1 DEF StakingTypeOK, Held
    <3> QED
      BY <3>1, <1>5
  <2> QED
    BY <1>1, <1>5, <2>1, <2>2, HoldTypes
<1>10. MarketBooks'
  <2>1. market'.base = base + bytes /\ market'.quote = market.quote - out
    BY <1>5
  <2>2. /\ market.base + ram_reserved = max_ram_size /\ market.quote = RamQuote + total_ram_stake
        /\ ram_balance = total_ram_stake
    BY <1>1 DEF MarketBooks
  <2>3. market'.base + ram_reserved' = max_ram_size'
    BY <1>2, <1>5, <1>6, <2>1, <2>2
  <2>4. market'.quote = RamQuote + total_ram_stake'
    <3> HIDE DEF out
    <3> QED
      BY <1>2, <1>4, <1>5, <2>1, <2>2, RamAssumption
  <2> QED
    BY <1>5, <2>2, <2>3, <2>4 DEF MarketBooks
<1>11. RamTypeOK'
  <2>1. ram_reserved - bytes \in Nat
    <3>1. userres[account].ram \in Nat /\ userres[account].ram <= ram_reserved
      BY <1>1, BytesAreNat, BytesBelow DEF IInv
    <3> QED
      BY <1>2, <1>5, <3>1
  <2> HIDE DEF out, base
  <2> QED
    BY <2>1, <1>1, <1>2, <1>4, <1>5, <1>6, <1>7, <1>8 DEF RamTypeOK
<1> QED
  BY <1>7, <1>9, <1>10, <1>11 DEF RamInv

\* setram and setramrate: bytes are added to the chain and to the market alike.
LEMMA SupplyKeeps ==
    ASSUME IInv,
           \/ \E size \in RamSizes : setram(size)
           \/ \E rate \in RamRates : setramrate(rate)
    PROVE  StakingTypeOK' /\ RamInv' /\ NoLoss
<1>1. StakingTypeOK /\ RamTypeOK /\ MarketBooks /\ RamInv
  BY DEF IInv, RamInv
<1>2. /\ market.base \in Nat \ {0} /\ market.quote \in Nat \ {0} /\ added \in Nat
      /\ max_ram_size \in Nat /\ ram_reserved \in Nat
      /\ market = [base |-> market.base, quote |-> market.quote]
  BY <1>1, MarketTypes
<1>3. PICK d \in Nat : /\ market' = [market EXCEPT !.base = @ + d]
                       /\ max_ram_size' = max_ram_size + d
  <2>1. ASSUME NEW size \in RamSizes, setram(size)
        PROVE  \E d \in Nat : /\ market' = [market EXCEPT !.base = @ + d]
                              /\ max_ram_size' = max_ram_size + d
    <3>1. size - max_ram_size \in Nat /\ size = max_ram_size + (size - max_ram_size)
      BY <1>2, <2>1, RamAssumption DEF setram
    <3> QED
      BY <2>1, <3>1 DEF setram, enlarged
  <2>2. ASSUME NEW rate \in RamRates, setramrate(rate)
        PROVE  \E d \in Nat : /\ market' = [market EXCEPT !.base = @ + d]
                              /\ max_ram_size' = max_ram_size + d
    <3>1. (max_ram_size + added) - max_ram_size = added
      BY <1>2
    <3> QED
      BY <1>2, <2>2, <3>1 DEF setramrate, enlarged
  <2> QED
    BY <2>1, <2>2
<1>4. market' = [base |-> market.base + d, quote |-> market.quote]
  BY <1>2, <1>3
<1>5. /\ UNCHANGED <<staking_vars, ram_balance, ram_fees, ram_reserved, total_ram_stake>>
      /\ new_ram' \in [rate : Nat, age : Nat]
  BY <1>1, RamAssumption DEF setram, setramrate, RamTypeOK
<1>6. market' \in [base : Nat \ {0}, quote : Nat \ {0}] /\ PriceHolds' /\ NoLoss
  <2>1. market.base + d \in Nat \ {0}
    BY <1>2
  <2>2. (market.base + d) * market.quote <= (market.base + d) * market.quote
    BY <1>2, ProductNat
  <2> QED
    BY <1>1, <1>2, <1>3, <1>4, <2>1, <2>2, TradeKeeps DEF NoLoss
<1>7. MarketBooks'
  BY <1>1, <1>2, <1>3, <1>4, <1>5 DEF MarketBooks
<1>8. RamTypeOK'
  BY <1>1, <1>2, <1>3, <1>5, <1>6 DEF RamTypeOK
<1>9. StakingTypeOK'
  BY <1>1, <1>5 DEF StakingTypeOK, staking_vars, bandwidth_vars
<1> QED
  BY <1>6, <1>7, <1>8, <1>9 DEF RamInv

----------------------------------------------------------------------------
(* Limits *)

\* LimitsFollow at one account, for what the next lemmas keep.
Follows(a) ==
    /\ <<a, "net">> \in managed \/ limits[a].net = userres[a].net
    /\ <<a, "cpu">> \in managed \/ limits[a].cpu = userres[a].cpu
    /\ \/ <<a, "ram">> \in managed
       \/ limits[a].ram = userres[a].ram + RamGift
       \/ limits[a].ram = 0 /\ userres[a].ram = 0

LEMMA LimitsFollowEach == LimitsFollow <=> \A a \in Accounts : Follows(a)
BY DEF LimitsFollow, Follows

LEMMA LimitsFollowEachNext == LimitsFollow' <=> \A a \in Accounts : Follows(a)'
BY DEF LimitsFollow, Follows

LEMMA ChangeFollows ==
    ASSUME IInv, NEW payer \in Accounts, NEW receiver \in Accounts,
           NEW net \in Int, NEW cpu \in Int, NEW transfer \in BOOLEAN,
           changebw(payer, receiver, net, cpu, transfer)
    PROVE  LimitsFollow'
<1> SUFFICES ASSUME NEW a \in Accounts PROVE Follows(a)'
  BY LimitsFollowEachNext
<1> DEFINE held == [ram |-> userres[receiver].ram,
                    net |-> userres[receiver].net + net, cpu |-> userres[receiver].cpu + cpu]
<1>1. /\ managed' = managed
      /\ userres' = [userres EXCEPT ![receiver] = held]
      /\ limits' = [limits EXCEPT ![receiver] = limits_of(receiver, held)]
  BY DEF changebw, update_totals
<1>2. Follows(a) /\ Follows(receiver)
  BY LimitsFollowEach DEF IInv
<1>3. userres \in [Accounts -> Held] /\ limits \in [Accounts -> Held]
  BY DEF IInv, StakingTypeOK
<1>4. CASE a # receiver
  BY <1>1, <1>2, <1>3, <1>4 DEF Follows
<1>5. CASE a = receiver
  <2> DEFINE new == limits_of(receiver, held)
  <2>1. userres'[a] = held /\ limits'[a] = new
    BY <1>1, <1>3, <1>5
  <2>2. userres[a].ram \in Nat /\ limits[a].ram \in Nat /\ RamGift \in Nat
    BY <1>3, StakingAssumption DEF Held
  <2>3. <<a, "net">> \in managed \/ new.net = held.net
    BY <1>5 DEF limits_of
  <2>4. <<a, "cpu">> \in managed \/ new.cpu = held.cpu
    BY <1>5 DEF limits_of
  <2>5. \/ <<a, "ram">> \in managed
        \/ new.ram = held.ram + RamGift
        \/ new.ram = 0 /\ held.ram = 0
    <3>1. held.ram = userres[a].ram
      BY <1>5
    <3>2. new.ram = limits[a].ram \/ <<a, "ram">> \in managed
          \/ new.ram = Larger(held.ram + RamGift, limits[a].ram)
      BY <1>5 DEF limits_of
    <3> HIDE DEF new, held
    <3>3. CASE new.ram = limits[a].ram
      BY <1>2, <3>1, <3>3 DEF Follows
    <3>4. CASE new.ram = Larger(held.ram + RamGift, limits[a].ram)
      BY <1>2, <2>2, <3>1, <3>4 DEF Follows, Larger
    <3> QED
      BY <3>2, <3>3, <3>4
  <2> HIDE DEF new, held
  <2> QED
    BY <1>1, <2>1, <2>3, <2>4, <2>5 DEF Follows
<1> QED
  BY <1>4, <1>5

LEMMA SetFollows ==
    ASSUME IInv, NEW account \in Accounts, NEW resource \in Resources, NEW value \in Nat,
           setacct(account, resource, value) \/ unsetacct(account, resource)
    PROVE  LimitsFollow'
<1> SUFFICES ASSUME NEW a \in Accounts PROVE Follows(a)'
  BY LimitsFollowEachNext
<1>1. Follows(a) /\ userres' = userres
  BY LimitsFollowEach DEF IInv, setacct, unsetacct
<1>2. userres \in [Accounts -> Held] /\ limits \in [Accounts -> Held]
  BY DEF IInv, StakingTypeOK
<1>3. CASE setacct(account, resource, value)
  BY <1>1, <1>2, <1>3 DEF setacct, Follows, Held, Resources
<1>4. CASE unsetacct(account, resource)
  BY <1>1, <1>2, <1>4 DEF unsetacct, own_limit, Follows, Held, Resources
<1> QED
  BY <1>3, <1>4

LEMMA HoldFollows ==
    ASSUME IInv, NEW account \in Accounts, NEW bytes, hold_bytes(account, bytes)
    PROVE  LimitsFollow'
<1> SUFFICES ASSUME NEW a \in Accounts PROVE Follows(a)'
  BY LimitsFollowEachNext
<1>1. Follows(a)
  BY LimitsFollowEach DEF IInv
<1>2. userres \in [Accounts -> Held] /\ limits \in [Accounts -> Held]
  BY DEF IInv, StakingTypeOK
<1> QED
  BY <1>1, <1>2 DEF hold_bytes, Follows, Held

LEMMA StillFollows ==
    ASSUME LimitsFollow, UNCHANGED <<userres, managed, limits>>
    PROVE  LimitsFollow'
BY DEF LimitsFollow

----------------------------------------------------------------------------
(* Deferred refunds *)

LEMMA ChangeNotEarly ==
    ASSUME IInv, NEW payer \in Accounts, NEW receiver \in Accounts,
           NEW net \in Int, NEW cpu \in Int, NEW transfer \in BOOLEAN,
           changebw(payer, receiver, net, cpu, transfer)
    PROVE  DeferredNotEarly'
<1> DEFINE from == IF transfer THEN receiver ELSE payer
           left == refund_left(from, net, cpu)
<1>1. UseRefund(from, net, cpu) \/ LeaveRefund(from)
  BY DEF changebw
<1>2. from \in Accounts /\ StakingTypeOK /\ DeferredNotEarly
  BY DEF IInv
<1>3. left \in Requests
  BY <1>2, LeftIsRequest
<1> HIDE DEF from
<1>4. CASE LeaveRefund(from)
  BY <1>2, <1>4 DEF LeaveRefund, DeferredNotEarly, Without
<1>5. CASE UseRefund(from, net, cpu)
  <2>1. left.age >= 0
    BY <1>3 DEF Requests
  <2>2. \/ refunds' = Without(refunds, from) /\ deferred' = Without(deferred, from)
        \/ refunds' = Put(refunds, from, left) /\ deferred' = Put(deferred, from, 0)
    BY <1>5 DEF UseRefund, reschedule
  <2> HIDE DEF left
  <2> QED
    BY <1>2, <2>1, <2>2 DEF DeferredNotEarly, Without, Put
<1> QED
  BY <1>1, <1>4, <1>5

LEMMA RefundNotEarly ==
    ASSUME IInv, NEW owner \in Accounts, refund(owner) \/ RunDeferred(owner)
    PROVE  DeferredNotEarly'
BY DEF IInv, refund, RunDeferred, pay_refund, DeferredNotEarly, Without

LEMMA AgeNotEarly ==
    ASSUME IInv, AgeRefunds
    PROVE  DeferredNotEarly'
<1> SUFFICES ASSUME NEW a \in DOMAIN deferred' \cap DOMAIN refunds'
             PROVE  deferred'[a] <= refunds'[a].age
  BY DEF DeferredNotEarly
<1>1. a \in DOMAIN deferred \cap DOMAIN refunds
  BY DEF AgeRefunds
<1>2. deferred[a] \in Nat /\ refunds[a] \in Requests /\ deferred[a] <= refunds[a].age
  BY <1>1 DEF IInv, StakingTypeOK, DeferredNotEarly
<1>3. deferred'[a] = older(deferred[a]) /\ refunds'[a].age = older(refunds[a].age)
  BY <1>1, <1>2 DEF AgeRefunds, Requests
<1>4. \A m, n \in Nat : m <= n => older(m) <= older(n)
  BY StakingAssumption DEF older
<1>5. refunds[a].age \in Nat
  BY <1>2 DEF Requests
<1> QED
  BY <1>2, <1>3, <1>4, <1>5

LEMMA StillNotEarly ==
    ASSUME DeferredNotEarly, UNCHANGED <<refunds, deferred>>
    PROVE  DeferredNotEarly'
BY DEF DeferredNotEarly

----------------------------------------------------------------------------
(* The theorems *)

LEMMA InitBooks ==
    ASSUME StakingInit, RamInit
    PROVE  BytesHeld /\ Books
<1>1. \A a, b \in Accounts : /\ delband[a][b].net = 0 /\ delband[a][b].cpu = 0
                             /\ userres[a] = NoResources /\ staked[a] = 0 /\ waiting(a) = 0
  BY DEF StakingInit, Nothing, Empty, waiting
<1>2. ASSUME NEW f, DOMAIN f = Accounts, \A a \in Accounts : f[a] = 0
      PROVE  SumFunction(f) = 0
  BY <1>2, AccountsAssumption, SumZero DEF SumFunction
<1>3. \A a \in Accounts : delegated_by(a) = 0 /\ NetFor(a) = 0 /\ CpuFor(a) = 0
  <2> SUFFICES ASSUME NEW a \in Accounts
               PROVE  delegated_by(a) = 0 /\ NetFor(a) = 0 /\ CpuFor(a) = 0
    OBVIOUS
  <2>1. delegated_by(a) = 0
    BY <1>1, <1>2 DEF delegated_by
  <2>2. NetFor(a) = 0 /\ CpuFor(a) = 0
    BY <1>1, <1>2 DEF NetFor, CpuFor
  <2> QED
    BY <2>1, <2>2
<1>4. StakeCovered
  <2>1. SumFunction([a \in Accounts |-> delegated_by(a) + waiting(a)]) = 0
    BY <1>1, <1>2, <1>3
  <2> QED
    BY <2>1 DEF StakeCovered, StakingInit
<1>5. TotalsAgree
  BY <1>1, <1>3 DEF TotalsAgree, NoResources
<1>6. RequestsNotEmpty
  BY DEF RequestsNotEmpty, StakingInit, Empty
<1>7. BytesHeld
  <2>1. SumFunction([a \in Accounts |-> userres[a].ram]) = 0
    BY <1>1, <1>2 DEF NoResources
  <2> QED
    BY <2>1 DEF BytesHeld, RamInit
<1> QED
  BY <1>4, <1>5, <1>6, <1>7 DEF Books

LEMMA InitInv == Init => IInv
<1> SUFFICES ASSUME Init PROVE IInv
  OBVIOUS
<1>1. TypeOK
  BY InitTypes
<1>2. FreeRam \in Nat \ {0} /\ RamQuote \in Nat \ {0}
  BY RamAssumption
<1>3. market.base = FreeRam /\ market.quote = RamQuote /\ max_ram_size = FreeRam
      /\ ram_reserved = 0 /\ total_ram_stake = 0 /\ ram_balance = 0
  BY DEF Init, RamInit
<1>4. MarketBooks
  BY <1>2, <1>3 DEF MarketBooks
<1>5. PriceHolds
  <2>1. RamQuote * FreeRam <= FreeRam * RamQuote
    BY <1>2
  <2> QED
    BY <1>2, <1>3, <2>1 DEF PriceHolds
<1>6. LimitsFollow /\ DeferredNotEarly
  BY DEF Init, StakingInit, LimitsFollow, DeferredNotEarly, NoResources, Empty
<1>7. BytesHeld /\ Books
  BY InitBooks DEF Init
<1> QED
  BY <1>1, <1>4, <1>5, <1>6, <1>7 DEF IInv, RamInv, TypeOK

\* Every step keeps the types, the market and the limits, and the product of the connectors.
LEMMA StepKeepsMarket ==
    IInv /\ [Next]_vars =>
        StakingTypeOK' /\ RamInv' /\ LimitsFollow' /\ DeferredNotEarly' /\ NoLoss
<1> SUFFICES ASSUME IInv, [Next]_vars
             PROVE  StakingTypeOK' /\ RamInv' /\ LimitsFollow' /\ DeferredNotEarly' /\ NoLoss
  OBVIOUS
<1> USE DEF IInv
<1>1. ASSUME UNCHANGED ram_vars
      PROVE  RamInv' /\ NoLoss
  <2>1. market.base * market.quote \in Int
    BY MarketTypes DEF RamInv
  <2>2. RamTypeOK' /\ MarketBooks' /\ PriceHolds'
    BY <1>1 DEF RamInv, RamTypeOK, MarketBooks, PriceHolds, ram_vars
  <2> QED
    BY <1>1, <2>1, <2>2 DEF RamInv, NoLoss, ram_vars
<1>2. CASE StakingNext /\ UNCHANGED ram_vars
  <2>1. StakingTypeOK' /\ RamInv' /\ NoLoss
    BY <1>1, <1>2, StakingTypes
  <2>2. ASSUME NEW from \in Accounts, NEW receiver \in Accounts, NEW stake \in Stakes,
               NEW transfer \in BOOLEAN,
               \/ delegatebw(from, receiver, stake[1], stake[2], transfer)
               \/ undelegatebw(from, receiver, stake[1], stake[2])
        PROVE  LimitsFollow' /\ DeferredNotEarly'
    <3>1. /\ stake[1] \in Int /\ stake[2] \in Int
          /\ -stake[1] \in Int /\ -stake[2] \in Int
      BY StakingAssumption
    <3>2. PICK net, cpu \in Int, give \in BOOLEAN : changebw(from, receiver, net, cpu, give)
      BY <2>2, <3>1 DEF delegatebw, undelegatebw
    <3> QED
      BY <3>2, ChangeFollows, ChangeNotEarly
  <2>3. ASSUME NEW owner \in Accounts, refund(owner) \/ RunDeferred(owner)
        PROVE  LimitsFollow' /\ DeferredNotEarly'
    <3>1. UNCHANGED <<userres, managed, limits>>
      BY <2>3 DEF refund, RunDeferred
    <3> QED
      BY <2>3, <3>1, RefundNotEarly, StillFollows
  <2>4. ASSUME NEW s \in Settings, setacct(s[1], s[2], s[3]) \/ unsetacct(s[1], s[2])
        PROVE  LimitsFollow' /\ DeferredNotEarly'
    <3>1. s[1] \in Accounts /\ s[2] \in Resources /\ s[3] \in Nat
      BY StakingAssumption
    <3>2. UNCHANGED <<refunds, deferred>>
      BY <2>4 DEF setacct, unsetacct, bandwidth_vars
    <3> QED
      BY <2>4, <3>1, <3>2, SetFollows, StillNotEarly
  <2>5. LimitsFollow' /\ DeferredNotEarly'
    BY <1>2, <2>2, <2>3, <2>4 DEF StakingNext
  <2> QED
    BY <2>1, <2>5
<1>3. CASE RamNext
  <2>1. StakingTypeOK' /\ RamInv' /\ NoLoss
    <3>1. ASSUME NEW payer \in Accounts, NEW receiver \in Accounts, NEW quant \in RamPayments,
                 buyram(payer, receiver, quant)
          PROVE  StakingTypeOK' /\ RamInv' /\ NoLoss
      BY <3>1, BuyKeeps, RamAssumption
    <3>2. ASSUME NEW payer \in Accounts, NEW receiver \in Accounts, NEW bytes \in RamTrades,
                 buyrambytes(payer, receiver, bytes)
          PROVE  StakingTypeOK' /\ RamInv' /\ NoLoss
      BY <3>2, BuyBytesKeeps, RamAssumption
    <3>3. ASSUME NEW account \in Accounts, NEW bytes \in RamTrades, sellram(account, bytes)
          PROVE  StakingTypeOK' /\ RamInv' /\ NoLoss
      BY <3>3, SellKeeps, RamAssumption
    <3> QED
      BY <1>3, <3>1, <3>2, <3>3, SupplyKeeps DEF RamNext
  <2>2. \/ \E account \in Accounts : \E bytes : hold_bytes(account, bytes)
        \/ UNCHANGED staking_vars
    BY <1>3 DEF RamNext, buyrambytes, buyram, sellram, setram, setramrate
  <2>3. LimitsFollow'
    <3>1. CASE UNCHANGED staking_vars
      BY <3>1, StillFollows DEF staking_vars
    <3> QED
      BY <2>2, <3>1, HoldFollows
  <2>4. UNCHANGED <<refunds, deferred>>
    BY <2>2 DEF hold_bytes, staking_vars, bandwidth_vars
  <2> QED
    BY <2>1, <2>3, <2>4, StillNotEarly
<1>4. CASE Tick
  <2>1. StakingTypeOK' /\ LimitsFollow' /\ DeferredNotEarly'
    <3>1. UNCHANGED <<userres, managed, limits>>
      BY <1>4 DEF Tick, AgeRefunds
    <3> QED
      BY <1>4, <3>1, AgeTypes, AgeNotEarly, StillFollows DEF Tick
  <2>2. UNCHANGED <<ram_balance, ram_fees, market, ram_reserved, total_ram_stake, max_ram_size>>
    BY <1>4 DEF Tick, AgeRam
  <2>3. new_ram' \in [rate : Nat, age : Nat]
    BY <1>4 DEF Tick, AgeRam, RamInv, RamTypeOK
  <2>4. RamInv'
    BY <2>2, <2>3 DEF RamInv, RamTypeOK, MarketBooks, PriceHolds
  <2>5. NoLoss
    <3>1. market.base * market.quote \in Int
      BY MarketTypes DEF RamInv
    <3> QED
      BY <2>2, <3>1 DEF NoLoss
  <2> QED
    BY <2>1, <2>4, <2>5
<1>5. CASE UNCHANGED vars
  <2>1. StakingTypeOK'
    BY <1>5 DEF vars, staking_vars, bandwidth_vars, StakingTypeOK
  <2>2. UNCHANGED <<userres, managed, limits>> /\ UNCHANGED <<refunds, deferred>>
        /\ UNCHANGED ram_vars
    BY <1>5 DEF vars, staking_vars, bandwidth_vars
  <2> QED
    BY <1>1, <2>1, <2>2, StillFollows, StillNotEarly
<1> QED
  BY <1>2, <1>3, <1>4, <1>5 DEF Next

\* Every step keeps the books.
LEMMA StepKeepsBooks ==
    ASSUME IInv, StakingTypeOK', [Next]_vars
    PROVE  BytesHeld' /\ Books'
<1>1. StakingTypeOK /\ BytesHeld /\ Books
  BY DEF IInv
<1>2. CASE StakingNext /\ UNCHANGED ram_vars
  <2>1. \A a \in Accounts : userres'[a].ram = userres[a].ram
    <3>1. \/ userres' = userres
          \/ \E receiver \in Accounts : \E net, cpu : update_totals(receiver, net, cpu)
      <4>1. ASSUME NEW payer \in Accounts, NEW receiver \in Accounts, NEW net, NEW cpu,
                   NEW give \in BOOLEAN, changebw(payer, receiver, net, cpu, give)
            PROVE  update_totals(receiver, net, cpu)
        BY <4>1 DEF changebw
      <4>2. ASSUME NEW owner \in Accounts, refund(owner) \/ RunDeferred(owner)
            PROVE  userres' = userres
        BY <4>2 DEF refund, RunDeferred
      <4>3. ASSUME NEW s \in Settings, setacct(s[1], s[2], s[3]) \/ unsetacct(s[1], s[2])
            PROVE  userres' = userres
        BY <4>3 DEF setacct, unsetacct
      <4> QED
        BY <1>2, <4>1, <4>2, <4>3 DEF StakingNext, delegatebw, undelegatebw
    <3>2. ASSUME NEW receiver \in Accounts, NEW net, NEW cpu, update_totals(receiver, net, cpu)
          PROVE  \A a \in Accounts : userres'[a].ram = userres[a].ram
      BY <1>1, <3>2 DEF update_totals, StakingTypeOK, Held
    <3> QED
      BY <3>1, <3>2
  <2>2. BytesHeld'
    BY <1>1, <1>2, <2>1, StillHeld DEF ram_vars
  <2>3. ASSUME NEW from \in Accounts, NEW receiver \in Accounts, NEW stake \in Stakes,
               NEW transfer \in BOOLEAN,
               \/ delegatebw(from, receiver, stake[1], stake[2], transfer)
               \/ undelegatebw(from, receiver, stake[1], stake[2])
        PROVE  Books'
    <3>1. /\ stake[1] \in Int /\ stake[2] \in Int
          /\ -stake[1] \in Int /\ -stake[2] \in Int
      BY StakingAssumption
    <3>2. PICK net, cpu \in Int, give \in BOOLEAN : changebw(from, receiver, net, cpu, give)
      BY <2>3, <3>1 DEF delegatebw, undelegatebw
    <3> QED
      BY <1>1, <3>2, ChangeBooks
  <2>4. ASSUME NEW owner \in Accounts, refund(owner) \/ RunDeferred(owner)
        PROVE  Books'
    <3>1. UNCHANGED <<delband, userres, staked>>
      BY <2>4 DEF refund, RunDeferred
    <3>2. pay_refund(owner) \/ UNCHANGED <<stake_balance, refunds>>
      BY <2>4 DEF refund, RunDeferred
    <3> QED
      BY <1>1, <3>1, <3>2, PayBooks, StillBooks
  <2>5. ASSUME NEW s \in Settings, setacct(s[1], s[2], s[3]) \/ unsetacct(s[1], s[2])
        PROVE  Books'
    <3>1. UNCHANGED <<stake_balance, delband, userres, refunds, staked>>
      BY <2>5 DEF setacct, unsetacct, bandwidth_vars
    <3> QED
      BY <1>1, <3>1, StillBooks
  <2>6. Books'
    BY <1>2, <2>3, <2>4, <2>5 DEF StakingNext
  <2> QED
    BY <2>2, <2>6
<1>3. CASE RamNext
  <2>1. ASSUME NEW account \in Accounts, NEW bytes, hold_bytes(account, bytes)
        PROVE  Books'
    <3>1. \A a \in Accounts : userres'[a].net = userres[a].net /\ userres'[a].cpu = userres[a].cpu
      BY <1>1, <2>1 DEF hold_bytes, StakingTypeOK, Held
    <3> QED
      BY <1>1, <2>1, <3>1, StillBooks DEF hold_bytes, bandwidth_vars
  <2>2. ASSUME UNCHANGED <<staking_vars, ram_reserved>>
        PROVE  BytesHeld' /\ Books'
    BY <1>1, <2>2, StillHeld, StillBooks DEF staking_vars, bandwidth_vars
  <2>3. ASSUME NEW payer \in Accounts, NEW receiver \in Accounts, NEW quant \in Nat,
               buyram(payer, receiver, quant)
        PROVE  BytesHeld' /\ Books'
    <3> DEFINE out == get_bancor_output(market.quote, market.base + added, quant - fee_of(quant))
               bytes == userres[receiver].ram + out
    <3>1. out \in Nat
      <4>1. /\ quant - fee_of(quant) \in Nat /\ market.quote \in Nat \ {0}
            /\ market.base + added \in Nat \ {0}
        BY MarketTypes, FeeBelow DEF IInv, RamInv
      <4> QED
        BY <4>1, BancorOutput
    <3>2. hold_bytes(receiver, bytes) /\ ram_reserved' = ram_reserved + out
      BY <2>3 DEF buyram
    <3>3. userres[receiver].ram \in Nat /\ ram_reserved \in Nat
      BY <1>1, BytesAreNat, MarketTypes DEF IInv, RamInv
    <3> HIDE DEF out
    <3>4. bytes \in Nat /\ ram_reserved' = ram_reserved + (bytes - userres[receiver].ram)
      BY <3>1, <3>2, <3>3
    <3> QED
      BY <1>1, <2>1, <3>2, <3>4, HoldHeld
  <2>4. ASSUME NEW payer \in Accounts, NEW receiver \in Accounts, NEW bytes \in RamTrades,
               buyrambytes(payer, receiver, bytes)
        PROVE  BytesHeld' /\ Books'
    <3> DEFINE cost == get_bancor_input(market.base, market.quote, bytes)
    <3>1. cost \in Nat
      BY <2>4, BancorInput, MarketTypes, RamAssumption DEF buyrambytes, IInv, RamInv
    <3>2. buyram(payer, receiver, (cost * 1000) \div 995)
      BY <2>4 DEF buyrambytes
    <3> HIDE DEF cost
    <3>3. (cost * 1000) \div 995 \in Nat
      BY <3>1, Quotient
    <3> QED
      BY <2>3, <3>2, <3>3
  <2>5. ASSUME NEW account \in Accounts, NEW bytes \in RamTrades, sellram(account, bytes)
        PROVE  BytesHeld' /\ Books'
    <3> DEFINE left == userres[account].ram - bytes
    <3>1. /\ hold_bytes(account, left) /\ ram_reserved' = ram_reserved - bytes
          /\ bytes <= userres[account].ram
      BY <2>5 DEF sellram
    <3>2. userres[account].ram \in Nat /\ ram_reserved \in Nat /\ bytes \in Nat
      BY <1>1, BytesAreNat, MarketTypes, RamAssumption DEF IInv, RamInv
    <3>3. left \in Nat /\ ram_reserved' = ram_reserved + (left - userres[account].ram)
      BY <3>1, <3>2
    <3> HIDE DEF left
    <3> QED
      BY <1>1, <2>1, <3>1, <3>3, HoldHeld
  <2>6. ASSUME NEW size, setram(size) \/ setramrate(size)
        PROVE  BytesHeld' /\ Books'
    BY <2>2, <2>6 DEF setram, setramrate
  <2> QED
    BY <1>3, <2>3, <2>4, <2>5, <2>6, RamAssumption DEF RamNext
<1>4. CASE Tick
  <2>1. userres' = userres /\ ram_reserved' = ram_reserved
    BY <1>4 DEF Tick, AgeRefunds, AgeRam
  <2> QED
    BY <1>1, <1>4, <2>1, StillHeld, AgeBooks DEF Tick
<1>5. CASE UNCHANGED vars
  <2>1. UNCHANGED <<stake_balance, delband, userres, refunds, staked, ram_reserved>>
    BY <1>5 DEF vars, staking_vars, bandwidth_vars, ram_vars
  <2> QED
    BY <1>1, <2>1, StillHeld, StillBooks
<1> QED
  BY <1>2, <1>3, <1>4, <1>5 DEF Next

\* Every step keeps the invariant, and the product of the connectors does not fall.
LEMMA StepKeeps == IInv /\ [Next]_vars => IInv' /\ NoLoss
BY StepKeepsMarket, StepKeepsBooks DEF IInv

LEMMA Inductive == Spec => []IInv
<1>1. IInv /\ [Next]_vars => IInv'
  BY StepKeeps
<1> QED
  BY InitInv, <1>1, PTL DEF Spec

(***************************************************************************)
(* No balance, stake, request, connector or stake of RAM is ever negative, *)
(* through changebw, the refunds and the trades.                           *)
(***************************************************************************)
THEOREM TypeCorrect == Spec => []TypeOK
<1>1. IInv => TypeOK
  BY DEF IInv, RamInv, TypeOK
<1> QED
  BY <1>1, Inductive, PTL

(***************************************************************************)
(* The limits set by changebw, buyram, sellram and the setacct actions are *)
(* the resources of the account, in every resource that is not managed.    *)
(***************************************************************************)
THEOREM LimitsAlwaysFollow == Spec => []LimitsFollow
<1>1. IInv => LimitsFollow
  BY DEF IInv
<1> QED
  BY <1>1, Inductive, PTL

(***************************************************************************)
(* The deferred transaction that changebw sends is never older than the    *)
(* request it is to pay.                                                   *)
(***************************************************************************)
THEOREM DeferredNeverEarly == Spec => []DeferredNotEarly
<1>1. IInv => DeferredNotEarly
  BY DEF IInv
<1> QED
  BY <1>1, Inductive, PTL

(***************************************************************************)
(* No purchase, sale or increase of the supply lowers the product of the   *)
(* connectors, although every trade rounds.                                *)
(***************************************************************************)
THEOREM NoTradeGains == Spec => NoGainOnMarket
<1>1. IInv /\ [Next]_vars => [market'.base * market'.quote >= market.base * market.quote]_vars
  BY StepKeeps DEF NoLoss
<1> QED
  BY <1>1, Inductive, PTL DEF Spec, NoGainOnMarket

LEMMA SellableFrom ==
    ASSUME RamInv, NEW d \in Nat
    PROVE  (ram_reserved * market.quote) \div (market.base + d + ram_reserved) <= total_ram_stake
<1> DEFINE q == market.quote
           b == market.base
           s == total_ram_stake
           m == max_ram_size + d
<1>1. /\ q \in Nat \ {0} /\ b \in Nat \ {0} /\ s \in Nat /\ ram_reserved \in Nat
      /\ RamQuote \in Nat /\ q = RamQuote + s /\ b + ram_reserved = max_ram_size
      /\ max_ram_size \in Nat \ {0}
  BY MarketTypes, RamAssumption DEF RamInv, MarketBooks, PriceHolds
<1>2. RamQuote * m <= (b + d) * q
  BY Grown
<1>3. m \in Nat \ {0} /\ market.base + d + ram_reserved = m /\ ram_reserved = m - (b + d)
  BY <1>1
<1> HIDE DEF q, b, s, m
<1>4. ram_reserved * q = m * q - (b + d) * q
  BY <1>1, <1>3
<1>5. m * s = m * q - RamQuote * m
  <2>1. s = q - RamQuote
    BY <1>1
  <2> QED
    BY <1>1, <1>3, <2>1
<1>6. ram_reserved * q <= m * s
  <2>1. m * q \in Int /\ (b + d) * q \in Int /\ RamQuote * m \in Int
    BY <1>1, <1>3
  <2> QED
    BY <1>2, <1>4, <1>5, <2>1
<1>7. \A x \in Int, n \in Nat \ {0}, y \in Nat : x <= n * y => x \div n <= y
  <2> SUFFICES ASSUME NEW x \in Int, NEW n \in Nat \ {0}, NEW y \in Nat, x <= n * y,
                      x \div n >= y + 1
               PROVE  FALSE
    BY SMT
  <2>1. x \div n \in Int /\ x % n \in 0 .. (n - 1) /\ x = n * (x \div n) + (x % n)
    OBVIOUS
  <2>2. n * (x \div n) >= n * (y + 1)
    BY <2>1
  <2>3. n * (y + 1) = n * y + n
    OBVIOUS
  <2> QED
    BY <2>1, <2>2, <2>3, ProductNat
<1>8. ram_reserved * q \in Int
  BY <1>1
<1> QED
  BY <1>1, <1>3, <1>6, <1>7, <1>8 DEF q, s

(***************************************************************************)
(* Whatever was bought and sold, and however the supply has grown, the     *)
(* check of sellram on total_ram_stake would pass for all the bytes held.  *)
(***************************************************************************)
THEOREM AlwaysSellable == Spec => []RamSellable
<1>1. IInv => RamSellable
  <2> SUFFICES ASSUME IInv, NEW base \in {market.base, market.base + added}
               PROVE  (ram_reserved * market.quote) \div (base + ram_reserved)
                        <= total_ram_stake
    BY DEF RamSellable
  <2>1. PICK d \in Nat : base = market.base + d
    <3>1. market.base \in Nat /\ added \in Nat
      BY MarketTypes DEF IInv, RamInv
    <3>2. market.base = market.base + 0
      BY <3>1
    <3> QED
      BY <3>1, <3>2
  <2> QED
    BY <2>1, SellableFrom DEF IInv
<1> QED
  BY <1>1, Inductive, PTL

(***************************************************************************)
(* eosio.stake holds what is delegated and what waits to be refunded, for  *)
(* any number of accounts: changebw moves one between them, or takes from  *)
(* the payer what is missing, and refund pays each request once.           *)
(***************************************************************************)
THEOREM StakeAlwaysCovered == Spec => []StakeCovered
<1>1. IInv => StakeCovered
  BY DEF IInv, Books
<1> QED
  BY <1>1, Inductive, PTL

(***************************************************************************)
(* The totals that update_totals keeps are the sums of the rows that       *)
(* update_delegated keeps, and the stake that votes is what is delegated.  *)
(***************************************************************************)
THEOREM TotalsAlwaysAgree == Spec => []TotalsAgree
<1>1. IInv => TotalsAgree
  BY DEF IInv, Books
<1> QED
  BY <1>1, Inductive, PTL

(***************************************************************************)
(* The counters of the market agree with the bytes of the accounts and the *)
(* tokens of eosio.ram, whoever trades and whenever the supply grows.      *)
(***************************************************************************)
THEOREM RamBooksBalance == Spec => []RamBooks
<1>1. IInv => RamBooks
  BY DEF IInv, RamInv, MarketBooks, BytesHeld, RamBooks
<1> QED
  BY <1>1, Inductive, PTL

----------------------------------------------------------------------------
(* The refinement of StakingPromise *)

LEMMA PromiseTypes ==
    ASSUME IInv
    PROVE  /\ bonded \in [Accounts -> Nat] /\ unbonding \in [Accounts -> Nat]
           /\ waited \in [Accounts -> Nat] /\ wallet \in [Accounts -> Nat] /\ pot \in Nat
           /\ \A a \in Accounts : unbonding[a] = 0 => waited[a] = 0
<1>1. StakingTypeOK /\ RequestsNotEmpty /\ RamTypeOK
  BY DEF IInv, Books, RamInv
<1>2. bonded \in [Accounts -> Nat] /\ unbonding \in [Accounts -> Nat]
  BY <1>1, CountsAreNat DEF bonded, unbonding
<1>3. waited \in [Accounts -> Nat]
  BY <1>1 DEF waited, StakingTypeOK, Requests
<1>4. wallet \in [Accounts -> Nat] /\ pot \in Nat
  BY <1>1 DEF StakingTypeOK, RamTypeOK, pot
<1>5. \A a \in Accounts : unbonding[a] = 0 => waited[a] = 0
  BY <1>1 DEF unbonding, waited, waiting, RequestsNotEmpty
<1> QED
  BY <1>2, <1>3, <1>4, <1>5

\* The age of the request that a change of the stake leaves.
LEMMA RequestAges ==
    ASSUME StakingTypeOK, RequestsNotEmpty, NEW from \in Accounts,
           NEW net \in Int, NEW cpu \in Int, UseRefund(from, net, cpu)
    PROVE  waited' = [waited EXCEPT ![from] =
                         IF waiting(from)' = 0 \/ net < 0 \/ cpu < 0 THEN 0 ELSE @]
<1> DEFINE left == refund_left(from, net, cpu)
<1>1. left \in Requests /\ left.net \in Nat /\ left.cpu \in Nat
      /\ left.age = IF net < 0 \/ cpu < 0 THEN 0 ELSE requested(from).age
  BY LeftIsRequest DEF Requests, refund_left
<1>2. refunds' = IF left.net + left.cpu = 0 THEN Without(refunds, from) ELSE Put(refunds, from, left)
  BY DEF UseRefund
<1>3. waited[from] = requested(from).age
  BY DEF waited, requested
<1> HIDE DEF left
<1>4. CASE left.net + left.cpu = 0
  <2>1. DOMAIN refunds' = DOMAIN refunds \ {from} /\ \A x \in DOMAIN refunds' : refunds'[x] = refunds[x]
    BY <1>2, <1>4 DEF Without
  <2>2. waiting(from)' = 0
    BY <2>1 DEF waiting
  <2> QED
    BY <2>1, <2>2 DEF waited
<1>5. CASE left.net + left.cpu # 0
  <2>1. DOMAIN refunds' = DOMAIN refunds \cup {from} /\ refunds'[from] = left
        /\ \A x \in DOMAIN refunds : x # from => refunds'[x] = refunds[x]
    BY <1>2, <1>5 DEF Put
  <2>2. waiting(from)' # 0
    BY <1>5, <2>1 DEF waiting
  <2>3. waited'[from] = left.age
    BY <2>1 DEF waited
  <2>4. \A a \in Accounts \ {from} : waited'[a] = waited[a]
    BY <2>1 DEF waited
  <2> QED
    BY <1>1, <1>3, <2>2, <2>3, <2>4 DEF waited
<1> QED
  BY <1>4, <1>5

LEMMA BondedChange ==
    ASSUME StakingTypeOK, StakingTypeOK', NEW from \in Accounts, NEW receiver \in Accounts,
           NEW net \in Int, NEW cpu \in Int, update_delegated(from, receiver, net, cpu)
    PROVE  bonded' = [bonded EXCEPT ![from] = @ + (net + cpu)]
<1>1. \A a \in Accounts :
         delegated_by(a)' = IF a = from THEN delegated_by(a) + net + cpu ELSE delegated_by(a)
  BY DelegationCounts
<1>2. \A a \in Accounts : delegated_by(a) \in Int
  BY CountsAreNat
<1>3. \A a \in Accounts : bonded'[a] = IF a = from THEN bonded[a] + (net + cpu) ELSE bonded[a]
  BY <1>1, <1>2 DEF bonded
<1>4. bonded = [a \in Accounts |-> bonded[a]] /\ bonded' = [a \in Accounts |-> bonded'[a]]
  BY DEF bonded
<1> QED
  BY <1>3, <1>4

\* Delegating bonds tokens, fresh ones or some that were unbonding.
LEMMA DelegateBonds ==
    ASSUME IInv, IInv', NEW from \in Accounts, NEW receiver \in Accounts, NEW net \in Nat,
           NEW cpu \in Nat, NEW transfer \in BOOLEAN, UNCHANGED ram_vars,
           delegatebw(from, receiver, net, cpu, transfer)
    PROVE  Promise!Next
<1> DEFINE owner == IF transfer THEN receiver ELSE from
<1>1. owner \in Accounts
  OBVIOUS
<1>2. /\ update_delegated(owner, receiver, net, cpu)
      /\ IF ~transfer /\ owner = receiver
         THEN UseRefund(owner, net, cpu) /\ pay_stake(from, still_due(owner, net, cpu))
         ELSE LeaveRefund(owner) /\ pay_stake(from, AtLeast0(net + cpu))
  BY DEF delegatebw, changebw
<1>3. ~transfer => owner = from
  OBVIOUS
<1> HIDE DEF owner
<1>4. StakingTypeOK /\ StakingTypeOK' /\ RequestsNotEmpty
  BY DEF IInv, Books
<1>5. bonded' = [bonded EXCEPT ![owner] = @ + (net + cpu)]
  BY <1>1, <1>2, <1>4, BondedChange
<1>6. pot' = pot
  BY DEF pot, ram_vars
<1>7. PICK fresh, used : /\ fresh \in 0..wallet[from] /\ used \in 0..unbonding[owner]
                         /\ Promise!Bond(from, owner, fresh, used)
  <2>1. CASE ~transfer /\ owner = receiver
    <3> DEFINE due == still_due(owner, net, cpu)
               use == (net + cpu) - due
    <3>1. UseRefund(owner, net, cpu) /\ pay_stake(from, due)
      BY <1>2, <2>1
    <3>2. due \in Nat /\ due <= net + cpu
      <4>1. requested(owner).net \in Nat /\ requested(owner).cpu \in Nat
        BY <1>1, <1>4 DEF requested, StakingTypeOK, Requests
      <4> QED
        BY <4>1 DEF still_due, AtLeast0, Larger
    <3>3. due <= wallet[from] /\ wallet' = [wallet EXCEPT ![from] = @ - due]
      BY <3>1 DEF pay_stake
    <3>4. \A a \in Accounts :
             waiting(a)' = IF a = owner THEN waiting(a) + due - (net + cpu) ELSE waiting(a)
      BY <1>1, <1>4, <3>1, RequestCounts
    <3>5. waited' = [waited EXCEPT ![owner] = IF waiting(owner)' = 0 THEN 0 ELSE @]
      BY <1>1, <1>4, <3>1, RequestAges
    <3>6. /\ waiting(owner) \in Nat /\ waiting(owner)' \in Nat
          /\ \A a \in Accounts : waiting(a) \in Int /\ delegated_by(a) \in Int
      BY <1>1, <1>4, CountsAreNat, CountsStayNat
    <3> HIDE DEF due
    <3>7. use \in 0..waiting(owner) /\ waiting(owner)' = waiting(owner) - use
          /\ net + cpu = due + use /\ use \in Int
      BY <1>1, <3>2, <3>4, <3>6
    <3>8. unbonding' = [unbonding EXCEPT ![owner] = @ - use]
      BY <1>1, <3>4, <3>6, <3>7 DEF unbonding
    <3>9. unbonding[owner] = waiting(owner)
      BY <1>1 DEF unbonding
    <3>10. waited' = [waited EXCEPT ![owner] = IF use = unbonding[owner] THEN 0 ELSE @]
      <4>1. waiting(owner)' = 0 <=> use = unbonding[owner]
        BY <3>6, <3>7, <3>9
      <4> HIDE DEF use
      <4> QED
        BY <3>5, <4>1
    <3>11. bonded' = [bonded EXCEPT ![owner] = @ + due + use]
      <4>1. bonded[owner] + (net + cpu) = bonded[owner] + due + use
        BY <1>1, <3>2, <3>6, <3>7 DEF bonded
      <4> QED
        BY <1>5, <4>1
    <3>12. from = owner
      BY <1>3, <2>1
    <3>13. due \in 0..wallet[from] /\ use \in 0..unbonding[owner]
      BY <1>1, <1>4, <3>2, <3>3, <3>7, <3>9 DEF StakingTypeOK
    <3> HIDE DEF use
    <3>14. Promise!Bond(from, owner, due, use)
      BY <1>6, <3>3, <3>8, <3>10, <3>11, <3>12 DEF Promise!Bond
    <3> QED
      BY <3>13, <3>14
  <2>2. CASE ~(~transfer /\ owner = receiver)
    <3>1. LeaveRefund(owner) /\ pay_stake(from, net + cpu)
      BY <1>2, <2>2 DEF AtLeast0, Larger
    <3>2. unbonding' = unbonding /\ waited' = waited
      BY <3>1 DEF LeaveRefund, unbonding, waited, waiting
    <3>3. net + cpu <= wallet[from] /\ wallet' = [wallet EXCEPT ![from] = @ - (net + cpu)]
      BY <3>1 DEF pay_stake
    <3>4. /\ bonded \in [Accounts -> Nat] /\ unbonding \in [Accounts -> Nat]
          /\ waited \in [Accounts -> Nat] /\ wallet \in [Accounts -> Nat]
          /\ unbonding[owner] = 0 => waited[owner] = 0
      BY <1>1, PromiseTypes
    <3>5. bonded' = [bonded EXCEPT ![owner] = @ + (net + cpu) + 0]
      <4>1. bonded[owner] + (net + cpu) = bonded[owner] + (net + cpu) + 0
        BY <1>1, <3>4
      <4> QED
        BY <1>5, <4>1
    <3>6. unbonding' = [unbonding EXCEPT ![owner] = @ - 0]
      BY <1>1, <3>2, <3>4
    <3>7. waited' = [waited EXCEPT ![owner] = IF 0 = unbonding[owner] THEN 0 ELSE @]
      BY <1>1, <3>2, <3>4
    <3>8. net + cpu \in 0..wallet[from] /\ 0 \in 0..unbonding[owner]
      BY <1>1, <3>3, <3>4
    <3>9. Promise!Bond(from, owner, net + cpu, 0)
      BY <1>6, <3>3, <3>5, <3>6, <3>7 DEF Promise!Bond
    <3> QED
      BY <3>8, <3>9
  <2> QED
    BY <2>1, <2>2
<1> QED
  BY <1>1, <1>7 DEF Promise!Next

\* Undelegating unbonds tokens, and starts the delay of all that wait again.
LEMMA UndelegateUnbonds ==
    ASSUME IInv, IInv', NEW owner \in Accounts, NEW receiver \in Accounts, NEW net \in Nat,
           NEW cpu \in Nat, <<net, cpu>> # <<0, 0>>, UNCHANGED ram_vars,
           undelegatebw(owner, receiver, net, cpu)
    PROVE  Promise!Next
<1> DEFINE amount == net + cpu
<1>1. -net \in Int /\ -cpu \in Int /\ (-net) + (-cpu) < 0 /\ (-net < 0 \/ -cpu < 0)
  OBVIOUS
<1>2. /\ update_delegated(owner, receiver, -net, -cpu)
      /\ UseRefund(owner, -net, -cpu) /\ pay_stake(owner, still_due(owner, -net, -cpu))
  BY <1>1 DEF undelegatebw, changebw
<1>3. StakingTypeOK /\ StakingTypeOK' /\ RequestsNotEmpty
  BY DEF IInv, Books
<1>4. /\ bonded \in [Accounts -> Nat] /\ unbonding \in [Accounts -> Nat]
      /\ waited \in [Accounts -> Nat] /\ wallet \in [Accounts -> Nat]
  BY PromiseTypes
<1>5. bonded' = [bonded EXCEPT ![owner] = @ - amount]
  <2>1. bonded' = [bonded EXCEPT ![owner] = @ + ((-net) + (-cpu))]
    BY <1>1, <1>2, <1>3, BondedChange
  <2>2. bonded[owner] + ((-net) + (-cpu)) = bonded[owner] - amount
    BY <1>4
  <2> QED
    BY <2>1, <2>2
<1>6. still_due(owner, -net, -cpu) = 0
  <2>1. requested(owner).net \in Nat /\ requested(owner).cpu \in Nat
    BY <1>3 DEF requested, StakingTypeOK, Requests
  <2> QED
    BY <2>1 DEF still_due, AtLeast0, Larger
<1>7. wallet' = wallet
  BY <1>2, <1>4, <1>6 DEF pay_stake
<1>8. unbonding' = [unbonding EXCEPT ![owner] = @ + amount]
  <2>1. \A a \in Accounts : waiting(a)' = IF a = owner THEN waiting(a) + 0 - ((-net) + (-cpu))
                                          ELSE waiting(a)
    BY <1>1, <1>2, <1>3, <1>6, RequestCounts
  <2>2. \A a \in Accounts : waiting(a) \in Int
    BY <1>3, CountsAreNat
  <2>3. \A a \in Accounts :
           unbonding'[a] = IF a = owner THEN unbonding[a] + amount ELSE unbonding[a]
    BY <2>1, <2>2 DEF unbonding
  <2>4. /\ unbonding = [a \in Accounts |-> unbonding[a]]
        /\ unbonding' = [a \in Accounts |-> unbonding'[a]]
    BY DEF unbonding
  <2> QED
    BY <2>3, <2>4
<1>9. waited' = [waited EXCEPT ![owner] = 0]
  BY <1>1, <1>2, <1>3, RequestAges
<1>10. amount \in 1..bonded[owner]
  <2>1. /\ delband[owner][receiver].net - net >= 0 /\ delband[owner][receiver].cpu - cpu >= 0
        /\ delband[owner][receiver].net \in Nat /\ delband[owner][receiver].cpu \in Nat
    BY <1>2, <1>3, SharesAreNat DEF update_delegated
  <2>2. delband[owner][receiver].net + delband[owner][receiver].cpu <= bonded[owner]
    BY <1>3, DelegatedIsNat DEF bonded
  <2> QED
    BY <1>1, <1>4, <2>1, <2>2
<1>11. pot' = pot
  BY DEF pot, ram_vars
<1> HIDE DEF amount
<1>12. Promise!Unbond(owner, amount)
  BY <1>5, <1>7, <1>8, <1>9, <1>11 DEF Promise!Unbond
<1> QED
  BY <1>10, <1>12 DEF Promise!Next

\* A refund returns all that waits, once the delay is over.
LEMMA PayReturns ==
    ASSUME IInv, NEW owner \in Accounts, pay_refund(owner), UNCHANGED delband, UNCHANGED ram_vars
    PROVE  Promise!Next
<1>1. owner \in DOMAIN refunds /\ RequestsNotEmpty
  BY DEF pay_refund, IInv, Books
<1>2. unbonding[owner] = refunds[owner].net + refunds[owner].cpu /\ waited[owner] = refunds[owner].age
  BY <1>1 DEF unbonding, waiting, waited
<1>3. unbonding[owner] > 0 /\ waited[owner] >= RefundDelay
  BY <1>1, <1>2 DEF pay_refund, RequestsNotEmpty
<1>4. wallet' = [wallet EXCEPT ![owner] = @ + unbonding[owner]]
  BY <1>2 DEF pay_refund
<1>5. unbonding' = [unbonding EXCEPT ![owner] = 0] /\ waited' = [waited EXCEPT ![owner] = 0]
  BY DEF pay_refund, Without, unbonding, waiting, waited
<1>6. bonded' = bonded /\ pot' = pot
  BY DEF bonded, delegated_by, pot, ram_vars
<1> QED
  BY <1>3, <1>4, <1>5, <1>6 DEF Promise!Next, Promise!Return

LEMMA PromiseStutters ==
    ASSUME UNCHANGED <<wallet, delband, refunds, ram_balance, ram_fees>>
    PROVE  UNCHANGED Promise!vars
BY DEF Promise!vars, bonded, unbonding, waited, pot, delegated_by, waiting

\* A purchase spends tokens the account is free to use.
LEMMA BuyTrades ==
    ASSUME IInv, NEW payer \in Accounts, NEW receiver \in Accounts, NEW quant \in Nat,
           buyram(payer, receiver, quant)
    PROVE  Promise!Next
<1>1. /\ quant <= wallet[payer] /\ wallet' = [wallet EXCEPT ![payer] = @ - quant]
      /\ ram_balance' = ram_balance + (quant - fee_of(quant))
      /\ ram_fees' = ram_fees + fee_of(quant)
      /\ UNCHANGED <<delband, refunds>>
  BY DEF buyram, hold_bytes, bandwidth_vars
<1>2. /\ wallet \in [Accounts -> Nat] /\ ram_balance \in Nat /\ ram_fees \in Nat /\ pot \in Nat
      /\ fee_of(quant) \in Nat
  BY FeeBelow DEF IInv, StakingTypeOK, RamInv, RamTypeOK, pot
<1>3. pot' = pot + quant /\ quant \in -pot..wallet[payer]
  BY <1>1, <1>2 DEF pot
<1>4. UNCHANGED <<bonded, unbonding, waited>>
  BY <1>1 DEF bonded, delegated_by, unbonding, waiting, waited
<1>5. Promise!Trade(payer, quant)
  BY <1>1, <1>3, <1>4 DEF Promise!Trade
<1> QED
  BY <1>3, <1>5 DEF Promise!Next

\* A sale pays out of the pot.
LEMMA SellTrades ==
    ASSUME IInv, NEW account \in Accounts, NEW bytes \in Nat, sellram(account, bytes)
    PROVE  Promise!Next
<1> DEFINE out == get_bancor_output(market.base + added, market.quote, bytes)
           tokens == fee_of(out) - out
<1>1. /\ wallet' = [wallet EXCEPT ![account] = @ + out - fee_of(out)]
      /\ out <= ram_balance /\ ram_balance' = ram_balance - out
      /\ ram_fees' = ram_fees + fee_of(out)
      /\ UNCHANGED <<delband, refunds>>
  BY DEF sellram, hold_bytes, bandwidth_vars
<1>2. out \in Nat
  <2>1. market.base + added \in Nat \ {0} /\ market.quote \in Nat \ {0}
    BY MarketTypes DEF IInv, RamInv
  <2> QED
    BY <2>1, BancorOutput
<1>3. /\ wallet \in [Accounts -> Nat] /\ ram_balance \in Nat /\ ram_fees \in Nat /\ pot \in Nat
      /\ fee_of(out) \in Nat /\ fee_of(out) <= out
  BY <1>2, FeeBelow DEF IInv, StakingTypeOK, RamInv, RamTypeOK, pot
<1> HIDE DEF out
<1>4. pot' = pot + tokens /\ tokens \in -pot..wallet[account]
  BY <1>1, <1>2, <1>3 DEF pot
<1>5. wallet' = [wallet EXCEPT ![account] = @ - tokens]
  <2>1. wallet[account] + out - fee_of(out) = wallet[account] - tokens
    BY <1>2, <1>3
  <2> QED
    BY <1>1, <2>1
<1>6. UNCHANGED <<bonded, unbonding, waited>>
  BY <1>1 DEF bonded, delegated_by, unbonding, waiting, waited
<1> HIDE DEF tokens
<1>7. Promise!Trade(account, tokens)
  BY <1>4, <1>5, <1>6 DEF Promise!Trade
<1> QED
  BY <1>4, <1>7 DEF Promise!Next

\* Time that passes for the requests passes for what is unbonding.
LEMMA TickWaits ==
    ASSUME IInv, Tick
    PROVE  Promise!Next
<1>1. /\ refunds' = [owner \in DOMAIN refunds |-> [refunds[owner] EXCEPT !.age = older(@)]]
      /\ UNCHANGED <<wallet, delband, ram_balance, ram_fees>>
  BY DEF Tick, AgeRefunds, AgeRam
<1>2. StakingTypeOK /\ RequestsNotEmpty
  BY DEF IInv, Books
<1>3. /\ DOMAIN refunds' = DOMAIN refunds
      /\ \A a \in DOMAIN refunds : /\ refunds'[a].net = refunds[a].net
                                   /\ refunds'[a].cpu = refunds[a].cpu
                                   /\ refunds'[a].age = older(refunds[a].age)
  BY <1>1, <1>2 DEF StakingTypeOK, Requests
<1>4. UNCHANGED <<wallet, bonded, unbonding, pot>>
  <2>1. \A a \in Accounts : waiting(a)' = waiting(a)
    BY <1>3 DEF waiting
  <2>2. unbonding' = unbonding
    BY <2>1 DEF unbonding
  <2> QED
    BY <1>1, <2>2 DEF bonded, delegated_by, pot
<1>5. \A a \in Accounts : a \in DOMAIN refunds <=> unbonding[a] > 0
  BY <1>2 DEF unbonding, waiting, RequestsNotEmpty
<1>6. \A a \in Accounts : waited'[a] = IF unbonding[a] > 0 /\ waited[a] < RefundDelay
                                       THEN waited[a] + 1 ELSE waited[a]
  <2>1. ASSUME NEW a \in Accounts, a \in DOMAIN refunds
        PROVE  waited'[a] = IF waited[a] < RefundDelay THEN waited[a] + 1 ELSE waited[a]
    BY <1>3, <2>1 DEF waited, older
  <2>2. ASSUME NEW a \in Accounts, a \notin DOMAIN refunds
        PROVE  waited'[a] = waited[a]
    BY <1>3, <2>2 DEF waited
  <2> QED
    BY <1>5, <2>1, <2>2
<1>7. waited' = [a \in Accounts |-> IF unbonding[a] > 0 /\ waited[a] < RefundDelay
                                    THEN waited[a] + 1 ELSE waited[a]]
  <2>1. waited' = [a \in Accounts |-> waited'[a]]
    BY DEF waited
  <2> QED
    BY <1>6, <2>1
<1> QED
  BY <1>4, <1>7 DEF Promise!Next, Promise!Wait

LEMMA PromiseStarts == Init => Promise!Init
<1> SUFFICES ASSUME Init PROVE Promise!Init
  OBVIOUS
<1>1. IInv
  BY InitInv
<1>2. \A a \in Accounts : delegated_by(a) = 0
  BY <1>1 DEF IInv, Books, TotalsAgree, Init, StakingInit
<1>3. \A a \in Accounts : unbonding[a] = 0 /\ waited[a] = 0
  BY DEF unbonding, waiting, waited, Init, StakingInit, Empty
<1>4. wallet \in [Accounts -> Nat]
  BY <1>1, PromiseTypes
<1>5. pot = 0
  BY DEF pot, Init, RamInit
<1>6. bonded = [a \in Accounts |-> 0]
  BY <1>2 DEF bonded
<1>7. unbonding = [a \in Accounts |-> 0] /\ waited = [a \in Accounts |-> 0]
  BY <1>3 DEF unbonding, waited
<1> QED
  BY <1>4, <1>5, <1>6, <1>7 DEF Promise!Init

LEMMA PromiseSteps == IInv /\ IInv' /\ [Next]_vars => [Promise!Next]_(Promise!vars)
<1> SUFFICES ASSUME IInv, IInv', [Next]_vars PROVE [Promise!Next]_(Promise!vars)
  OBVIOUS
<1>1. CASE StakingNext /\ UNCHANGED ram_vars
  <2>1. ASSUME NEW from \in Accounts, NEW receiver \in Accounts, NEW stake \in Stakes,
               NEW transfer \in BOOLEAN,
               \/ delegatebw(from, receiver, stake[1], stake[2], transfer)
               \/ undelegatebw(from, receiver, stake[1], stake[2])
        PROVE  Promise!Next
    <3>1. stake[1] \in Nat /\ stake[2] \in Nat /\ <<stake[1], stake[2]>> # <<0, 0>>
      BY StakingAssumption
    <3> QED
      BY <1>1, <2>1, <3>1, DelegateBonds, UndelegateUnbonds
  <2>2. ASSUME NEW owner \in Accounts, refund(owner) \/ RunDeferred(owner)
        PROVE  [Promise!Next]_(Promise!vars)
    <3>1. delband' = delband /\ (pay_refund(owner) \/ UNCHANGED <<wallet, refunds>>)
      BY <2>2 DEF refund, RunDeferred
    <3> QED
      BY <1>1, <3>1, PayReturns, PromiseStutters DEF ram_vars
  <2>3. ASSUME NEW s \in Settings, setacct(s[1], s[2], s[3]) \/ unsetacct(s[1], s[2])
        PROVE  UNCHANGED Promise!vars
    BY <1>1, <2>3, PromiseStutters DEF setacct, unsetacct, bandwidth_vars, ram_vars
  <2> QED
    BY <1>1, <2>1, <2>2, <2>3 DEF StakingNext
<1>2. CASE RamNext
  <2>1. ASSUME NEW payer \in Accounts, NEW receiver \in Accounts, NEW bytes \in RamTrades,
               buyrambytes(payer, receiver, bytes)
        PROVE  Promise!Next
    <3> DEFINE cost == get_bancor_input(market.base, market.quote, bytes)
    <3>1. cost \in Nat
      BY <2>1, BancorInput, MarketTypes, RamAssumption DEF buyrambytes, IInv, RamInv
    <3>2. buyram(payer, receiver, (cost * 1000) \div 995)
      BY <2>1 DEF buyrambytes
    <3> HIDE DEF cost
    <3>3. (cost * 1000) \div 995 \in Nat
      BY <3>1, Quotient
    <3> QED
      BY <3>2, <3>3, BuyTrades
  <2>2. ASSUME NEW size, setram(size) \/ setramrate(size)
        PROVE  UNCHANGED Promise!vars
    BY <2>2, PromiseStutters DEF setram, setramrate, staking_vars, bandwidth_vars
  <2> QED
    BY <1>2, <2>1, <2>2, BuyTrades, SellTrades, RamAssumption DEF RamNext
<1>3. CASE Tick
  BY <1>3, TickWaits
<1>4. CASE UNCHANGED vars
  BY <1>4, PromiseStutters DEF vars, staking_vars, bandwidth_vars, ram_vars
<1> QED
  BY <1>1, <1>2, <1>3, <1>4 DEF Next

(***************************************************************************)
(* Staking keeps its promise, in every step of changebw, the refunds, the  *)
(* trades of RAM and the clock: the tokens an account stakes stay its own, *)
(* and come back together, once, and not before the delay has passed since *)
(* it last undelegated.                                                    *)
(***************************************************************************)
THEOREM ContractImplementsPromise == Spec => ImplementsPromise
<1>1. Init => Promise!Init
  BY PromiseStarts
<1>2. IInv /\ IInv' /\ [Next]_vars => [Promise!Next]_(Promise!vars)
  BY PromiseSteps
<1> QED
  BY <1>1, <1>2, Inductive, PTL DEF Spec, ImplementsPromise, Promise!Spec
=============================================================================
