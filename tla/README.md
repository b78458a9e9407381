# A TLA+ development of the nchain system contracts

The repository holds the system contracts of an EOSIO chain: the on-chain
exchange (`contracts/dex`), the token contract, the multi-signature contract,
the system contract (staking, voting, producer pay, REX, the RAM market, name
auctions) and two small privileged contracts (`eosio.bios`, `eosio.wrap`).
This directory holds TLA+ models of them, configurations that model-check the
models with TLC, and theorems about them that TLAPS proves.

All of these contracts run in the same setting. An action of a contract is a
function on the tables of the contract; a blockchain transaction is a list of
actions, runs alone and is atomic: a `check` that fails anywhere in it leaves
the tables as they were before it. There are no threads. What is hard comes from
long sequences of legal transactions by many accounts, in every order; from
loops over index iterators whose rows the loop itself changes; from values
computed at one time and used much later (frozen funds, fee ratios, ages); from
deferred transactions (refunds, proposals) that run late or not at all; from
integer arithmetic with rounding; and from bounded work per transaction.

## Inventory

| Component | State | Operations | Talks to | What makes it correct |
|---|---|---|---|---|
| **dex: matching engine** (`dex_match.hpp`, `utils.hpp`) | four order iterators of a pair with cached totals, over the match index of `order_tbl` | choose taker and maker, amounts and fees of a deal, write totals back, complete an order | called by `match_sympair` | price-time priority; no deal outside a limit; nothing that could match is left; internal CHECKs never fire |
| **dex: exchange** (`dex.cpp`, `dex_states.hpp`) | configuration, symbol pairs, orders, deals, id counters, internal balances | `setconfig setsympair onoffsympair ontransfer withdraw neworder buymarket sellmarket buylimit selllimit cancel match cleandata` | notified by token transfers; sends inline transfers | the books balance to the unit; the contract can pay what it owes; old data is recycled consistently |
| **dex: text helpers** (`safe.hpp`, parts of `utils.hpp`) | none | parsing and formatting | none of the state-changing actions | - |
| **eosio.token** | supply and issuer per symbol, balance rows with a RAM payer | `create issue retire transfer open close` | notifies both parties of a transfer | supply is the sum of the balances and never above the maximum; no balance is negative |
| **eosio.msig** | proposals, requested and provided approvals (two table versions), invalidations | `propose approve unapprove cancel exec invalidate` | sends the proposal as a deferred transaction | an execution rests on approvals that are present, not withdrawn and not invalidated; executed at most once, before its expiration |
| **system: name auctions** (`name_bidding.cpp`) | highest bid per name, refunds of outbid bidders | `bidname bidrefund`, closing in `onblock`, `newaccount` | token transfers to `eosio.names`, deferred refund | every outbid bid is refundable once; at most one auction closes per day; only the winner creates the account |
| **system: staking** (`delegate_bandwidth.cpp`) | bandwidth delegations, resource totals, pending refunds, voter stake | `delegatebw undelegatebw refund buyram sellram` | token transfers to `eosio.stake`, deferred refund, voting | stake held equals what is delegated plus what is being refunded; nothing is refunded early or twice |
| **system: voting** (`voting.cpp`) | producers, voters, proxies, total vote weight | `regproducer unregprod voteproducer regproxy` | called when stake or REX changes | the votes of a producer are the sum of the weights that name it, through proxies |
| **system: producer pay** (`producer_pay.cpp`) | unpaid blocks, per-block and per-vote buckets | `onblock claimrewards` | issues tokens | buckets hold what is still claimable; nobody claims twice a day |
| **system: REX** (`rex.cpp`) | the pool, balances with maturity buckets, sell orders, CPU and NET loans, returns | 21 actions | staking, voting, token transfers | the pool's totals agree with its funds; queued sell orders are served in order; loans are funded |
| **system: RAM market** (`exchange_state.cpp`) | the Bancor connectors | `convert`, direct conversions | `buyram sellram`, REX | no round trip gains |
| **system: parameters and accounts** | chain parameters, resource limits | setters, `newaccount`, `init` | - | - |
| **eosio.bios**, **eosio.wrap** | an ABI hash; none | privileged wrappers; forward a transaction | - | - |

Unit tests exist for most of these in `tests/`, one short scenario at a time;
`hazards` in `PROJECT.json` lists, line by line, what such tests hardly reach.

## What is modelled now

### Modules

| Module | Extends | Role |
|---|---|---|
| `DexMath` | `Integers` | fixed-point product and quotient, conversions, match fee, fee ratio check; for each CHECK of the arithmetic a predicate that says when it passes |
| `DexMatch` | `DexMath` | the match index, the order iterators, the pairing of taker and maker, the amounts of a deal: operators on an order table |
| `Dex` | `DexMatch` | the exchange: variables, one action per operation, specification, properties of the matching, inductive invariant, fairness |
| `DexLedger` | `Dex` | the accounting properties, which sum over balances and orders, and the invariants their proofs need |
| `MsigConsent` | `Naturals` | abstract: levels consent and take their consent back at once, a proposal ends once |
| `Msig` | `SequencesExt` | `eosio.msig`, shown to implement `MsigConsent` |
| `TokenPromise` | `Integers` | abstract: tokens are made once and then only move, by signature |
| `Token` | `Integers`, `Functions` | `eosio.token`, shown to implement `TokenPromise` |
| `AuctionPromise` | `Integers` | abstract: deposits are the bidder's until it wins, the highest bid wins, the winner takes the name |
| `NameAuction` | `Integers`, `Functions` | the name auctions of the system contract, shown to implement `AuctionPromise` |
| `StakingPromise` | `Integers` | abstract: staked tokens stay their owner's, and come back once, after the delay |
| `Staking` | `Integers` | stakes, refunds and resource limits of the system contract |
| `RamMarket` | `Staking` | the market of RAM and its supply, over the same wallets, resources and limits |
| `BandwidthAndRam` | `RamMarket`, `Functions` | the two together: specification, properties, fairness; shown to implement `StakingPromise` |
| `MCDex`, `MCMsig`, `MCToken`, `MCNameAuction`, `MCResources` | the above | instances for TLC, used by the `.cfg` of the same prefix |
| `SumTheorems` | `FiniteSetTheorems`, `TLAPS` | lemmas about sums over finite sets, for every proof of an account that adds up |
| `DexMathProofs`, `DexProofs`, `DexLedgerProofs`, `MsigProofs`, `TokenProofs`, `NameAuctionProofs`, `BandwidthProofs` | the above, `TLAPS` | theorems |

The exchange, the auctions and the stakes keep the token balances they depend on (`bank`, `wallet`,
`names_balance`, `stake_balance`, `ram_balance`) as variables of their own: what they use of the token contract is one
transfer that either happens or fails.

### The exchange: state and actions

| Variable | Code |
|---|---|
| `config` | `_conf` / `_conf_tbl` (`dex.cpp:15-60`) |
| `sympairs`, `orders`, `deals` | `sympair_tbl`, `order_tbl`, `deal_tbl`: functions from ids to rows (`dex_states.hpp`) |
| `global` | the id counters of `dex_global` |
| `accounts` | `account_tbl`: a row that is missing is a balance of zero |
| `bank` | balances in the token contracts, custody of the exchange included |
| `now` | `current_block_time()`, in seconds |
| `txn` | the matching transaction that is executing: phase, pairs still to match, counts, last price |
| `its` | the four iterators of `matching_pair_iterator` |
| `undo` | the tables as they were when the transaction began |

An action that does not match is one step. A transaction that matches - an order
placement with `max_match_count > 0`, or `match` - is a sequence of steps under a
lock (`txn.phase # "idle"` disables everything else), because the loop of
`match_sympair` is where the hard part is and its intermediate states are worth
checking:

| Step | Code |
|---|---|
| `NewOrder`, `Match` | `new_order`, `match`: guards, then the iterators are opened or the pairs listed |
| `OpenPair` | the next pair of the loop of `match` |
| `Deal` | one iteration of the loop of `match_sympair`: pairing, amounts, fees, both iterators' `match()`, six `add_balance` calls, the deal's row, `complete_and_next` |
| `ClosePair` | `save_matching_order` for the four iterators and the latest price |
| `Commit` | the end of the transaction |
| `FailedCheck`, `NoneMatched` | a CHECK that fails: everything is restored from `undo` |

The other actions are `SetConfig`, `CreateSympair` and `ModifySympair` (the two
branches of `setsympair`), `OnOffSympair`, `OnTransfer`, `Withdraw`, `Cancel`,
`CleanData` and `Tick` (time passes). `neworder` accepts the empty name as a
type or a side, and so does the model.

Two places of the code depend on more than the tables. `cleandata` reads the
`deal_time` of an iterator that may be the end iterator (`dex.cpp:621`); what is read
there is unspecified, so `CleanData` takes the answer, `stale`, as a
nondeterministic parameter, constrained to the case where the iterator is at the end.
`admin_signed` stands for the second authorization of a transaction; other authorizations
choose which account acts.

### The exchange: what is abstracted

Order ids of the caller (`external_id`) and memos are payload. `min_asset_quant`
and `min_coin_quant` are stored by the code and never read. `init` has an empty
body; `version`, `name2uint` and `openorderkey` always fail. RAM payers are left
out. `Int64Max` stands for the range of the 64-bit results of the decimal
product and quotient, whose overflow is a CHECK; the overflow of the sums of
balances is not modelled (token supplies keep them below it).

### The multi-signature contract

`proposals`, `approvals`, `old_approvals` and `invals` are the tables of the same names
(`approvals` is `approvals2` of the chain; `old_approvals` belongs to proposals made
by an earlier version of the contract). The actions are `propose`, `approve`, `unapprove`, `cancel`, `exec` and
`invalidate`; `approve` and `unapprove` each have a part per table, looked up in the order of the code.
Time is counted in blocks, half a second each (`SlotsPerSecond = 2`), since `invalidate` and
`approve` compare times of blocks while an expiration is in seconds: two actions may carry equal
times. `Sufficient` says which sets of levels authorize a transaction: the host function
`check_transaction_authorization` and the deferred transactions (`RunDeferred`) are external. A
deferred transaction stays under its sender id until it runs, and an `exec` that would send over
one fails.

`consent` is a history variable: the levels that approved and have neither taken it back nor been
invalidated since. It appears in no guard. `ImplementsConsent` says that what
`exec` counts is never more than that.

### The token contract

`stats` and `accounts` are the two tables; a balance row keeps its precision and its
RAM payer. Each action takes the set `signers` of accounts that authorize it, and the variable `auth` keeps it, so that a
property can relate what changed to who signed. The helpers `sub_balance` and `add_balance` are
operators with the checks they make (`can_sub`, `can_add`) beside them; the
arithmetic of assets fails on different symbols, which is one of these checks. Memos are left out. A name that is no account
(`nobody`) can be made an issuer, as in the code, but can neither sign nor receive.

### The name auctions

| Variable | Code |
|---|---|
| `bids`, `bid_refunds` | the tables `namebids` and `bidrefunds`; a closed auction has a negative `high_bid` |
| `deferred` | the deferred `bidrefund` transactions that have not run |
| `wallet`, `names_balance` | tokens of the bidders and of `eosio.names` |
| `created` | the accounts made by `newaccount` |
| `owner` | history: who created the account of a premium name |
| `rex_available`, `namebid_proceeds` | whether somebody holds REX, and what the pool is to collect from `eosio.names` |
| `clock` | the ages of the last closing, of the last producer schedule and of the activation of the chain |

Times appear in the code only as differences from now, compared with a limit. The model
keeps ages instead, counted up to the first one above every limit, so that time passes for ever in a
finite model; one `Tick` makes an age of a day grow past it when `Day = 0`. The index of bids is
the code's: unsigned keys, the bits of `-high_bid` (`UintRange` stands for 2^64), read from the middle.
`onblock` is the part of the handler about auctions, whole: `CloseAuction`, `NoneCloses` and `NoAuction` are what its conditions
leave. Deferred refunds run late, fail (the bidder's contract may refuse the tokens) or come after
somebody called `bidrefund`; `bidrefund` may be called by anybody.
`runrex` is the only step of REX here: it collects what was promised,
and somebody may buy the first REX or sell the last one in the same action. Names are premium (short, no dot), with a
dot (`Suffix`), or of twelve characters.

### Staking and the market of RAM

| Variable | Code |
|---|---|
| `delband` | `del_bandwidth_table`: who delegates what to whom |
| `userres` | `user_resources_table`: the net, cpu and RAM an account is entitled to |
| `refunds` | `refunds_table`, a request being an amount of each kind and an age |
| `deferred` | the deferred `refund` transactions that have not run, one per account |
| `staked` | the field of that name in the `voters` row |
| `managed`, `limits` | the flags of the `voters` row, and the limits the chain enforces |
| `stake_balance`, `ram_balance`, `ram_fees`, `wallet` | tokens of `eosio.stake`, `eosio.ram`, `eosio.ramfee`, and of the accounts |
| `market` | the balances of the connectors of the row `RAMCORE` |
| `max_ram_size`, `ram_reserved`, `total_ram_stake`, `new_ram` | the fields of the global state about RAM |

`delegatebw` and `undelegatebw` are one call of `changebw` each, as in the code; its parts are operators in
the order of the code: the delegation, the totals and limits, the refund request, the tokens, the vote.
Delegating to oneself and undelegating go through a pending refund (`UseRefund`), other delegations
do not, but cancel its deferred transaction (`LeaveRefund`). `refund` is called by its owner and leaves the
deferred transaction behind. `RunDeferred` is late or on time, and may fail; then nothing is
left of it. `setacct` and `unsetacct` stand for `setacctram`, `setacctnet` and `setacctcpu`, which
differ in the resource, with and without a value.

The trades of RAM and `setramrate` first add the bytes due since the last increase (`added`). `buyrambytes` computes its payment
from the market as it is before that, and calls `buyram`.

Rows the contract erases when they are empty are rows of zeros. Times are ages, counted up to the
delay. The Bancor formula is computed in doubles and truncated in the code, and with whole numbers in the model: what it
returns is the truncation of the exact quotient, so that a rounding error of the doubles is not seen.
Left out: the vesting of `b1`, `eosio.stake` as the source of a stake, and the test of
activation in `undelegatebw`, which is taken as passed. What a change of stake does to
producers' votes belongs to voting. `AgeRam` stops the growth of RAM at `RamBound`.

### Faulty variants

Some operators are commented "Faulty variant of": each is
a plausible mistake in the definition that follows it, and is used by no
specification. With the variant in the place of the definition, TLC finds the property named
beside it in `PROJECT.json` violated, which shows that the property depends on the code
it is about.

## Runs

| Run | Checks | Shows |
|---|---|---|
| `trading` | `TypeOK`, `UncrossedWhenDone`, `FrozenSuffices`, `Solvent`, `TotalsMatchDeals`, `FairDeals`, `PriceTimePriority` | limit and market orders in every order, where no amount needs rounding and buyers pay fees in assets: deals are fair and in priority order, the loop leaves no crossed book, the contract is solvent |
| `rounding` | `EngineChecksHold`, `LedgerExact` | fees in coins and rounding: of the CHECKs of the loop only the one on the frozen quantity ever fires; the books balance to the unit, through roll-backs as well |
| `lifecycle` | `LedgerExact`, `CompletedHaveDeal`, `DealsHaveOrders` | from an empty exchange: deposits, withdrawals, pairs created and switched, a disabled exchange, a new fee collector, and `cleandata` with either answer of the end iterator |
| `pairs` | `MatchBudget`, `IInv`, `EventuallyUncrossed` | matches over three pairs, one disabled, in id order or as listed: one budget for all; the invariant of the proofs; and no book stays crossed |
| `consent` | `TablesAgree`, `IInv`, `ImplementsConsent`, `UnapproveRevokes` | two proposals, one of them of the earlier version, to execution, cancellation or expiration: executions rest on consent |
| `rows` | `IInv`, `SupplyIsHeld`, `PrecisionAgrees`, `PayersSigned`, `ImplementsPromise` | balance rows opened, made by transfers, emptied and closed: the supply is what is held, and tokens move only by signature |
| `staking` | `TypeOK`, `StakeCovered`, `TotalsAgree`, `DeferredNotEarly`, `ImplementsPromise`, `EventuallyReturned` | stakes for oneself and others, transferred, undelegated in part; refunds by hand, deferred, late and failing: `eosio.stake` holds what is owed to the unit, and stakes come back once, and in the end |
| `ram` | `LimitsFollow`, `RamBooks`, `RamSellable`, `NoGainOnMarket` | RAM bought and sold while its supply grows and stakes change: the counters of the market agree, all bytes can be sold, nobody gains, limits follow resources |
| `names` | `IInv`, `Solvent`, `HighestCloses`, `ImplementsPromise`, `EventuallyClosed` | two bidders, two names: refunds in time, late and repeated, closings, claims, REX coming and going |

### Bounds

The exchange: one or two traders (symmetry is used for safety only, and where the inputs
do not tell the traders apart), two or three tokens, fee ratios up to 4 tenths
(`RATIO_PRECISION = 10`), and three or four orders. Three orders are what a partial filling, a
queue of two behind one price and a taker that goes through two makers need; four let two pairs
be busy at once. Limits of 1 and 2 units make both partial and complete filling happen; amounts
that need rounding appear when a token has a decimal (`OneDecimal`) and with the prices 15 and 25.
`Uint64Max` keeps the id counters from wrapping.

The multi-signature contract: two accounts, three levels (two of one account, so that an
invalidation hits two approvals), two keys, and a transaction that two accounts must authorize next to one
that either level of one account does. Three times (`MaxTime = 2`) are a second of two blocks and the next one: equal
times, a later block of the same second, and an expiration.

The token contract: one symbol code in two precisions, a maximum of 3 tokens, amounts up to 4 (one above),
and every set of signers of three accounts. Codes do not interact in the contract: every row belongs to one.

The auctions: bids of 1 to 4 on one name and 2 on the other, so that either name can lead, ties happen,
and a bidder can be outbid twice; 4 tokens each, so that a bidder can run out. 16 for 2^64 leaves room
for every bid and its negation. All three delays are the same in
length, which lets every condition be both true and false, in any combination.

Stakes: two accounts with 2 and 1 tokens, staked one of a kind or of both at a time, so that a request holds
both kinds, is used up in part, and a stake can exceed it; the delay is one tick, so that a request is due or not. `staking` trades no RAM.
RAM: one buyer of 7 tokens in payments of 3 (prices round, and a third purchase fails), sales and purchases of 2
bytes, growth from 6 bytes to 8 by a rate or by 1 at once, one limit that the system takes over and hands back, and stakes of net next to it, refunded
without delay.

`CHECK_DEADLOCK FALSE` is set for the exchange and for the multi-signature contract: the bounds on orders, pairs and
time let a behaviour stop, and so may the system, since nobody has to call it.

### Disagreements found

Three runs check what the code or its comments say, and TLC finds it violated.

| Run | What is said | What happens |
|---|---|---|
| `frozen` | `CHECK(total_matched_coins <= order.frozen_quant` (`dex_match.hpp:145`) | amounts and fees are rounded per deal, the frozen quantity once: the sum exceeds it, the CHECK fails, and so does every transaction that reaches the order |
| `cancel_fee` | "the buyer pay fee with coins" (`dex_match.hpp:143`) | `cancel` of a partly matched buy order gives back coins that were paid as a fee: the contract owes more than it holds |
| `twice` | unapprove "is the reverse of the `approve` action" (`eosio.msig.hpp:55`) | a level asked twice and approved twice is taken back once, and still counts |

`Solvent` of the exchange therefore holds in `trading` and is violated in `cancel_fee`; `LedgerExact` holds
in every run, because it says exactly which coins are missing after such a cancellation - as long as the
canceled row is there. Trying to prove it showed where it ends: `cleandata` may erase a row that still retains
something, and nothing accounts for that afterwards. TLC finds this when recycling is added to `rounding`
(`CleanCounts = {3}`, `MaxTime = 3`): a buy order on a pair with fees in coins is matched in part, canceled and erased. Without fees in coins
it cannot happen, which is `LedgerExactWithoutCoinFee`.
`UnapproveRevokes` holds in `consent`, where no proposer asks a level twice.

Other differences between words and code were seen, and have no run:

- "MUST: maker_free_assets > 0" (`dex_match.hpp:300`): an order for zero is accepted, and matching fails when it is
  the first of its book.
- "old data: canceled orders, ..." (`dex_states.hpp:97`): `cleandata` does not look at the age of a canceled order.
- "the max dex match count" (`dex_const.hpp:11`) is tested between two pairs only, so that a match of one
  pair is bounded by its caller.
- "all requested approvals are received" (`eosio.msig.hpp:84`) is no condition of `exec`, which asks whether
  the provided ones authorize the transaction.
- A deferred transaction is said to return the tokens of a refund after a delay (`eosio.system.hpp:913-916`): delegating to another account
  meanwhile cancels it, and the owner has to claim by hand (`LeaveRefund`). This is why `EventuallyReturned` needs
  owners who claim.
- `buyrambytes` does not buy the number of bytes asked for: its payment is rounded, and is computed before the supply grows.

### Fairness

Safety runs use `Spec`, without fairness. `pairs`, `names` and `staking` use `FairSpec`.

- `TransactionsRun` (exchange) is weak fairness of the steps inside a transaction: the chain finishes a
  transaction it has begun. It is written out (`<>[](txn.phase # "idle") => []<><<TransactionStep>>_vars`)
  because a step of a transaction is possible exactly while one is executing.
- `SF_vars(MatchAll)` (exchange) is an assumption on the environment: somebody keeps calling `match` for all
  pairs, as the operators of the exchange do, and gets through although other calls come in between. The
  contract itself schedules nothing.
- `WF_vars(Tick)` and `WF_vars(onblock)` (auctions): time passes and the chain calls `onblock` for each block.
- `WF_vars(Activate)` (auctions) is an assumption on the voters: the chain is activated some day. No
  fairness is assumed of bidders, of deferred refunds or of REX.
- `WF_vars(Tick)` and weak fairness of `refund` by each owner (stakes): time passes, and who has a refund that is due claims it. The
  deferred transaction is not relied on, because it may fail or be canceled. An owner who undelegates again and again restarts
  the delay each time, so `EventuallyReturned` is about owners who stop.

## Proofs

All theorems hold for any values of the constants under the named assumptions of the module
they are about (types of the constants, and where noted more).

| Theorem | Statement |
|---|---|
| `DexProofs!TypeCorrect` | `Spec => []TypeOK`: in particular no balance and no matched amount is ever negative |
| `DexProofs!Inductive` | `Spec => []IInv`: the iterators are never stale |
| `DexProofs!FairDealsHold`, `PriceTimePriorityHolds` | `Spec => FairDeals`, `PriceTimePriority` |
| `DexLedgerProofs!MatchingLeavesUncrossed` | `Spec => []UncrossedWhenDone` |
| `DexLedgerProofs!MatchStaysInBudget` | `Spec => []MatchBudget` |
| `DexLedgerProofs!CompletedOrdersHaveDeal` | `Spec => []CompletedHaveDeal` |
| `DexLedgerProofs!DealsAlwaysHaveOrders`, `TotalsAlwaysMatchDeals` | `Spec /\ []DealIdsLeft => []DealsHaveOrders`, `[]TotalsMatchDeals` |
| `DexLedgerProofs!AlwaysSolvent` | `Spec /\ []NoCoinFee => []Solvent` |
| `DexLedgerProofs!LedgerExactWithoutCoinFee` | `Spec /\ []NoCoinFee => []LedgerExact` |
| `DexLedgerProofs!LedgerStaysExact` | `Spec /\ [][NothingErased]_vars => []LedgerExact` |
| `DexLedgerProofs!EngineNeverFails` | `AmountsInRange => (Spec /\ []DealIdsLeft => []EngineChecksHold)` |
| `DexLedgerProofs!FrozenAlwaysSuffices` | `WholePrices => (Spec /\ []NoCoinFee => []FrozenSuffices)` |
| `DexLedgerProofs!LoopNeverFails` | under all four of these conditions, `[][~FailedCheck]_vars` |
| `DexMathProofs!RoundsHalfUp` | the two-step rounding of the code is rounding half up of the exact quotient |
| `DexMathProofs!AmountsWithinLimits` | the amounts of a deal are within both limits and use one of them up |
| `DexMathProofs!FeeBelowQuantity` | with an accepted ratio the fee of a positive quantity is below the quantity |
| `MsigProofs!TablesAlwaysAgree` | `Spec => []TablesAgree` |
| `MsigProofs!CountedIsConsented` | `AskedOnce => (Spec => []IInv)` |
| `MsigProofs!UnapprovalRevokes` | `AskedOnce => (Spec => UnapproveRevokes)` |
| `MsigProofs!ContractImplementsConsent` | `AskedOnce => (Spec => ImplementsConsent)` |
| `TokenProofs!TokenInvariant`, `PrecisionsAgree`, `OnlySignersPay` | `Spec => []IInv`, `[]PrecisionAgrees`, `PayersSigned` |
| `TokenProofs!SupplyAlwaysHeld` | `Spec => []SupplyIsHeld` |
| `TokenProofs!ContractImplementsPromise` | `Spec => ImplementsPromise` |
| `NameAuctionProofs!AuctionInvariant`, `HighestBidCloses` | `Spec => []IInv`, `HighestCloses` |
| `NameAuctionProofs!NamesAlwaysSolvent` | `Spec => []Solvent` |
| `NameAuctionProofs!ContractImplementsPromise` | `Spec => ImplementsPromise` |
| `BandwidthProofs!TypeCorrect`, `LimitsAlwaysFollow`, `DeferredNeverEarly` | `Spec => []TypeOK`, `[]LimitsFollow`, `[]DeferredNotEarly` |
| `BandwidthProofs!StakeAlwaysCovered`, `TotalsAlwaysAgree`, `RamBooksBalance` | `Spec => []StakeCovered`, `[]TotalsAgree`, `[]RamBooks` |
| `BandwidthProofs!NoTradeGains`, `AlwaysSellable` | `Spec => NoGainOnMarket`, `[]RamSellable` |
| `BandwidthProofs!ContractImplementsPromise` | `Spec => ImplementsPromise` |

Every safety property of a passing run is stated by one of these theorems, some under a condition that is explained below.

**Sums.** Balances, stakes and bids add up over sets of any size, and the induction over finite sets of the library takes
an operator, which the provers cannot instantiate. `SumTheorems` goes around that: the subsets of a finite set for which a
fact holds are themselves a set, the strict inclusion of subsets is well founded
(`FS_StrictSubsetOrderingWellFounded`), and so a smallest subset outside that set cannot exist (`SubsetInduction`). From
it come what a step does to a sum when it changes one term or two (`SumUpdate`, `SumUpdateTwo`), adds one (`SumAdd`), or
changes nothing (`SumAgree`), that terms of zero do not count (`SumSupport`), and bounds. The sums of
the models are `SumFunction` of the community modules, to which these lemmas apply as they stand. What they need of the models is
that the sets are finite: accounts of the exchange (`FiniteAccounts`) and of the stakes (`AccountsAssumption`), names (`NamesAssumption`),
bidders and premium names (`FiniteAssumption`), as everything in a table of a chain is.

**The exchange.** The assumption `2 * FEE_RATIO_MAX < RATIO_PRECISION` is one of the code's constants. `TypeOK` is not inductive: that a deal's amounts are natural numbers depends on
the free quantities of both orders, hence on the rows the iterators stand on,
and a deal's fairness and priority on where in the index these rows are. The
inductive invariant `IInv` adds

- `RowsOK`: a row knows its id, and a limit order has a price (divisions are defined);
- `PairOK`: the pair being matched is in the table;
- `ItsOK`: an iterator that is not closed stands on the first matchable row of its
  book - this is what could break as the loop completes rows under its own iterators;
- `UndoOK`: undoing a transaction adds no deal.

`Inductive` proves `Spec => []IInv` with one step per action. The step of `Deal` is the long
one: `NextFirst` shows that the row after the first one is the first of what is left, and
`DealIts` that the iterators of the two books that do not take part in a deal are not disturbed.
`OnlyDealAdds` shows that no other action makes a deal, and the two action
properties follow from `IInv` alone.

**The exchange: what the caches hide.** While a transaction runs, the totals of up to four orders are in iterators and not in the table. The
ledger is therefore about `Live`, the orders with the totals of the iterators, and `CachesInv` says how the two
relate: an iterator that has made no deal caches the totals of its row, no completed one is still in use, between two pairs all are
closed, a row knows its pair, and undoing a transaction changes neither pairs nor their tokens. `LiveAfterDeal` and
`RowStep` then describe every step by what it does to a row of `Live`: nothing, placed, dealt, or back as it was.
From there each property has an invariant of its own.

| Invariant | Beyond the property | Why the property alone is not inductive |
|---|---|---|
| `DealsInv` | no deal is newer than the last deal of its orders; the same of the copy | `cleandata` takes deals in the order of ids and completed orders by their last deal; a roll-back restores the copy |
| `LedgerInv` | the books of the copy balance too | a roll-back restores the copy while `bank` stays |
| `SolventInv` | buy orders pay their fees in assets; custody covers the copy too | a cancellation gives back what was not matched, which must be what is left |
| `UncrossedInv` | an iterator is closed only when its book is empty (`ClosedOK`) | the loop sees the books only through its iterators |
| `EngineInv` | a matchable row has something left, and its quantity and price are among the inputs; the same of the copy | the amounts of a deal are zero if an order has nothing left |
| `FrozenInv` | a buy order froze the cost of its limit, and was matched for no more than the cost of what it got | the frozen quantity is computed once, the deals one by one |
| `SpentInv` | a completed market order has spent what it froze | what `cleandata` erases must retain nothing |

TLC found no violation of `CachesInv`, `DealsInv` and `LedgerInv` in the four passing instances of the exchange, of `SolventInv` and `FrozenInv` in `trading`,
of `UncrossedInv` in `trading` and `pairs`, of `EngineInv` in `trading`, `rounding` and `pairs`, and of `SpentInv` in `trading` and
`lifecycle`, before they were proved. They are not kept as properties of runs, since the theorems say more.

*Conditions.* Each one excludes something the code lets happen.

- `NoCoinFee` (no pair takes the fee of its buy orders in coins): with such a pair `Solvent` and `FrozenSuffices` are violated, as the runs
  `cancel_fee` and `frozen` show, and `LedgerExact` when rows are erased, see above. It is a flag the administrator sets per pair; `trading` has it off.
- `NothingErased` (what `cleandata` erases retains nothing) is what the books need with fees in coins;
  `rounding`, which takes fees in coins, erases nothing.
- `DealIdsLeft` (the counter of deals is below 2^64 - 1): afterwards ids start over, and "newer" no longer means a higher id. A counter
  of 64 bits does not get there; `Uint64Max` keeps every run below it.
- `AmountsInRange` (quantities are positive, and the largest quantity times the largest price fits 64 bits, as in `trading`, `rounding` and
  `pairs`): an order for nothing makes the loop fail, and so does an overflow.
- `WholePrices` (each price is a multiple of the precision of the assets, as in `trading`): then no product is rounded, and the cost of
  parts adds up to the cost of the whole (`WholeCosts`). Run `frozen` has neither this nor `NoCoinFee`. Each is needed by itself: with its prices of 15 and 25 TLC
violates `FrozenSuffices` on a pair with fees in assets as well (`AssetFeePair`), and with prices of 10 and 20 on the pair with fees in coins.

`InitialBooks` says that at the start custody is what the users have deposited: it is the initial state that is assumed
here, not a step.

**The multi-signature contract.** That `exec` counts only what is consented to is not inductive:
`unapprove` erases one entry of a list, so each level must be listed once (`ListedOnce`), which
holds if it was asked once (`AskedOnce`; run `twice` shows what happens otherwise); and an invalidation
must cover every approval already given, so approvals are not in the future (`TimesPassed`).
Removing the first occurrence of a level from a list is proved to keep the others, and
each action is then mapped to a step of `MsigConsent`.

**The token contract.** Balances and supply are mapped to places a token can be in: unissued, or held by
a name. Each action of the contract moves tokens between two places or leaves all where they are, from
`PrecisionAgrees` and the bound on the supply, which are the invariant. The supply is the sum of the balances because
each action changes one term of the sum, and the supply with it, or two terms by the same amount (`SupplyAlwaysHeld`).

**The auctions.** A bidder's deposit for a name is mapped to its refund plus its leading bid
(`DepositIs`, `DepositChange`): outbidding moves an amount from one to the other, which the promise does not see, and
a refund is all that is due, whoever asks and when. The invariant that matters is
`BidsBounded`: bids below a quarter of the range of the keys, from the assumption on `Bids`, as token amounts
are below 2^62. From it `OpenKey` shows that the part of the index that is read contains every open bid, in order of price,
so that its first row, if open, is the highest. `NamesAlwaysSolvent` adds up the open bids and the refunds: outbidding moves an amount from
one sum to the other, closing moves it to the proceeds of REX, and a refund leaves with its tokens.

**Staking and RAM.** The invariant `IInv` of `BandwidthProofs` has four parts. `Books` are the sums: `StakeCovered`, `TotalsAgree`, and that a pending request is for
something, since `refund` erases what it pays. `changebw` moves
an amount between what is delegated and what waits, and takes from the payer what is missing (`AtLeast0`).
The market needs two facts more: the counters agree
(`MarketBooks`), and `PriceHolds`, that the tokens the market was made with never price more than the RAM of the chain: `RamQuote * max_ram_size` is at most the product of
the connectors. A trade keeps that because the product does not fall (`BancorOutput`, `TradeKeeps`), an increase of the
supply because the quote is at least `RamQuote` (`Grown`). From both, all the bytes sold
return at most what was paid for them (`SellableFrom`). That the bytes reserved are those of the accounts (`BytesHeld`) is what
keeps `ram_reserved` from being negative. Limits and ages are the other two parts.
For `StakingPromise`, each call of `changebw` is mapped to `Bond` or `Unbond` of what the sums of the payer and the owner change by, and
each refund to `Return`, which needs the age of the request to be at least the delay (`DeferredNotEarly`).

**Model-checked only.** The three liveness properties (`EventuallyUncrossed`, `EventuallyClosed`, `EventuallyReturned`), because TLAPS
1.4 does not support reasoning about fairness; the three violations; and what the actions do with fees in coins and
rounding beyond `LedgerStaysExact` and `EngineNeverFails`.

## Plan

Done: the exchange, `eosio.msig`, `eosio.token`, the name auctions, staking and the market of RAM. What is left, in order:

1. `Voting` (`voting.cpp`): weights through proxies, the sum of the votes of each producer, activation;
   composed with `Staking`, whose steps change the weights.
2. `ProducerPay`: the buckets of `onblock` and `claimrewards`; that buckets cover what can be claimed.
3. `Rex`: the pool, the sell queue, loans and maturities with rounding; abstractly, shares of a pool. Two places to look at first:
   `unstaketorex` (`rex.cpp:57-95`) drops the change of stake that adding to a REX balance returns, so that the stake counted for a vote and
   `vote_stake` can drift apart; and returns handed out while `total_rex` is zero meet the next `buyrex`.
4. `Staking`: the vesting of `b1` and the activation test.
5. `DexAbstract`: an exchange whose books are sets and whose deals take both first orders at
   once, refined by `Dex` from `IInv` and `CachesInv`.
6. A bound in place of `WholePrices`: each deal rounds by at most half a unit, so that a margin of the number of deals would do for
   `FrozenSuffices`; and how much `cleandata` can strand with fees in coins.

The set of configurations is kept to about a dozen, so violations that need no run of their own are described
under "Disagreements found" instead.
`eosio.bios`, `eosio.wrap`, the other setters of chain parameters and the text helpers are left out: they
keep no state a property could be about.
