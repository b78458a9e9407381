---------------------------- MODULE MCNameAuction ----------------------------
(* Two bidders and two names at auction, and a name with a dot.                *)
EXTENDS NameAuction

CONSTANTS eosio, alice, bob, prefa, prefb, sub_prefa

MCBidders == {alice, bob}
MCPremium == {prefa, prefb}
MCBids == [name \in MCPremium |-> IF name = prefa THEN {1, 2, 3, 4} ELSE {2}]
MCSuffix == [name \in {sub_prefa} |-> prefa]
MCFunds == [b \in MCBidders |-> 4]
==============================================================================
