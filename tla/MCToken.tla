------------------------------- MODULE MCToken -------------------------------
(* A token contract with two users, and a name that is no account.            *)
EXTENDS Token

CONSTANTS token, alice, bob, nobody

MCAccounts == {token, alice, bob}
MCNames == MCAccounts \cup {nobody}
==============================================================================
