---------------------------- MODULE TokenPromise ----------------------------
(***************************************************************************)
(* What the token contract promises.  The tokens of a symbol are made once *)
(* and for all, all of them unissued; from then on they only move: between *)
(* the unissued ones and the issuer, by its signature, and from a holder   *)
(* to another account, by the holder's signature.  Nothing is said of      *)
(* rows, of who pays for them, or of precisions.                           *)
(***************************************************************************)
EXTENDS Integers

CONSTANTS Names, Accounts, Self, Codes, MaxAmount

VARIABLES
    unissued,       \* code -> the tokens that may still be issued
    held,           \* <<name, code>> -> the tokens a name holds
    issuers,        \* code -> the issuer of the token, once it is created
    signed          \* the accounts that signed the last step

vars == <<unissued, held, issuers, signed>>

Init ==
    /\ unissued = [code \in Codes |-> 0]
    /\ held = [place \in Names \X Codes |-> 0]
    /\ issuers = [code \in {} |-> code]
    /\ signed = {}

Create(code, issuer, quantity) ==
    /\ Self \in signed'
    /\ code \notin DOMAIN issuers
    /\ issuers' = [c \in DOMAIN issuers \cup {code} |->
                      IF c = code THEN issuer ELSE issuers[c]]
    /\ unissued' = [unissued EXCEPT ![code] = quantity]
    /\ UNCHANGED held

Issue(code, quantity) ==
    /\ code \in DOMAIN issuers /\ issuers[code] \in signed'
    /\ quantity <= unissued[code]
    /\ unissued' = [unissued EXCEPT ![code] = @ - quantity]
    /\ held' = [held EXCEPT ![<<issuers[code], code>>] = @ + quantity]
    /\ UNCHANGED issuers

Retire(code, quantity) ==
    /\ code \in DOMAIN issuers /\ issuers[code] \in signed'
    /\ quantity <= held[<<issuers[code], code>>]
    /\ unissued' = [unissued EXCEPT ![code] = @ + quantity]
    /\ held' = [held EXCEPT ![<<issuers[code], code>>] = @ - quantity]
    /\ UNCHANGED issuers

Move(from, to, code, quantity) ==
    /\ from \in signed' /\ from # to
    /\ quantity <= held[<<from, code>>]
    /\ held' = [held EXCEPT ![<<from, code>>] = @ - quantity,
                            ![<<to, code>>] = @ + quantity]
    /\ UNCHANGED <<unissued, issuers>>

\* Rows are opened and closed.
Housekeeping == UNCHANGED <<unissued, held, issuers>>

Next ==
    /\ signed' \subseteq Accounts
    /\ \/ Housekeeping
       \/ \E code \in Codes, quantity \in 1 .. MaxAmount :
              \/ \E issuer \in Names : Create(code, issuer, quantity)
              \/ Issue(code, quantity)
              \/ Retire(code, quantity)
              \/ \E from \in Names, to \in Accounts : Move(from, to, code, quantity)

Spec == Init /\ [][Next]_vars
=============================================================================
