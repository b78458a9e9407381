---------------------------- MODULE MCResources ----------------------------
(* Two accounts stake a few tokens, or trade RAM with them.                  *)
EXTENDS BandwidthAndRam

CONSTANTS alice, bob

MCAccounts == {alice, bob}
FewFunds == [a \in MCAccounts |-> IF a = alice THEN 2 ELSE 1]
RamFunds == [a \in MCAccounts |-> IF a = alice THEN 7 ELSE 0]
MCStakes == {<<1, 0>>, <<0, 1>>, <<1, 1>>}
NetOnly == {<<1, 0>>}
NetSetting == {<<bob, "net", 7>>}
RamSetting == {<<alice, "ram", 0>>}
============================================================================
