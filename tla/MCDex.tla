-------------------------------- MODULE MCDex --------------------------------
(* Small instances of the exchange: one or two pairs, two traders.           *)
EXTENDS DexLedger, TLC

CONSTANTS dex, alice, bob, AST, COIN, OTH

MCAccounts == {dex, alice, bob}
MCTraders == {alice, bob}
OneTrader == {alice}
TradersSymmetry == Permutations(MCTraders)

TwoTokens == {AST, COIN}
ThreeTokens == {AST, COIN, OTH}
WholeUnits == [t \in Tokens |-> 1]
OneDecimal == [t \in Tokens |-> 10]

\* A configuration with fee ratios out of RATIO_PRECISION and a match count.
Conf(maker, taker, max_match_count) ==
    [dex_enabled |-> TRUE, dex_admin |-> dex, dex_fee_collector |-> dex,
     maker_fee_ratio |-> maker, taker_fee_ratio |-> taker,
     max_match_count |-> max_match_count, admin_sign_required |-> FALSE,
     data_recycle_sec |-> 1]
OneDealPerOrder == Conf(2, 4, 1)
ManyDealsPerOrder == Conf(2, 4, 50)
NoDealPerOrder == Conf(2, 4, 0)

PairRow(asset, coin, only_accept_coin_fee) ==
    [asset_symbol |-> asset, coin_symbol |-> coin, latest_deal_price |-> 0,
     only_accept_coin_fee |-> only_accept_coin_fee, enabled |-> TRUE]
AssetFeePair == <<PairRow(AST, COIN, FALSE)>>
CoinFeePair == <<PairRow(AST, COIN, TRUE)>>
ThreePairs == <<[PairRow(OTH, AST, FALSE) EXCEPT !.enabled = FALSE],
                PairRow(AST, COIN, FALSE), PairRow(OTH, COIN, TRUE)>>
OneDirection == {<<AST, COIN>>}

\* Every trader has deposited n of each token, and kept none.
Deposited(n) == [a \in Accounts |-> [t \in Tokens |-> IF a \in Traders THEN n ELSE 0]]
Custody(n) ==
    [a \in Accounts |-> [t \in Tokens |-> IF a = Self THEN n * Cardinality(Traders) ELSE 0]]
Deposited8 == Deposited(8)
Custody8 == Custody(8)

\* An exchange nobody has used yet, and what its traders bring.
NoPairs == <<>>
NoBalances == Deposited(0)
Wallets == [a \in Accounts |-> [t \in Tokens |-> IF a \in Traders THEN 3 ELSE 0]]

None == {}
LimitAndMarket == {"limit", "market"} \X {"buy", "sell"}
LimitOnly == {"limit"} \X {"buy", "sell"}
NoConfigEx == [given |-> FALSE, taker_fee_ratio |-> 0, maker_fee_ratio |-> 0]
DefaultRatios == {NoConfigEx}
ChosenRatios == {NoConfigEx, [given |-> TRUE, taker_fee_ratio |-> 0, maker_fee_ratio |-> 4],
                 [given |-> TRUE, taker_fee_ratio |-> 5, maker_fee_ratio |-> 0]}
Disabled == [Conf(2, 4, 50) EXCEPT !.dex_enabled = FALSE, !.dex_fee_collector = alice]
SignedOnly == [ManyDealsPerOrder EXCEPT !.admin_sign_required = TRUE]
RatioTooHigh == Conf(0, 5, 50)
SomeConfigs == {SignedOnly, Disabled, RatioTooHigh}
AllPairs == {<<>>}
PairLists == {<<>>, <<2>>, <<3, 2>>}
==============================================================================
