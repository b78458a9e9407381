------------------------------- MODULE MCMsig -------------------------------
(* Small instances of the multi-signature contract: two accounts, two keys,  *)
(* a proposal left by the earlier version of the contract.                   *)
EXTENDS Msig

CONSTANTS alice, bob, first, second

MCAccounts == {alice, bob}
MCKeys == {first, second}
MCProposer == [k \in MCKeys |-> IF k = first THEN alice ELSE bob]

\* Two permissions of alice and one of bob.
MCLevels == {"alice_active", "alice_owner", "bob_active"}
MCActor == [l \in MCLevels |-> IF l = "bob_active" THEN bob ELSE alice]

\* A transaction that needs both accounts, and one that alice can authorize, until later.
MCTransactions == {"joint", "own"}
MCExpiration == [t \in MCTransactions |-> IF t = "joint" THEN 0 ELSE 1]
MCSufficient ==
    [t \in MCTransactions |->
        IF t = "joint" THEN {{"alice_active", "bob_active"}}
        ELSE {{"alice_active"}, {"alice_owner"}}]

EachLevelOnce == {<<"alice_active", "bob_active">>, <<"alice_owner">>}
ALevelTwice == {<<"alice_active", "bob_active", "alice_active">>}

NoOldProposals == [k \in {} |-> k]
AnOldProposal ==
    [k \in {second} |->
        [trx |-> "joint", requested |-> <<"alice_active">>, provided |-> <<"bob_active">>]]
=============================================================================
