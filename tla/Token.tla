------------------------------- MODULE Token -------------------------------
(***************************************************************************)
(* The token contract, eosio.token: the statistics of each token and the   *)
(* balance rows of its holders.  An action runs alone and fails as a       *)
(* whole, so that each is one step, whose guard holds every check of the   *)
(* action and of the helpers it calls.  Notified accounts may refuse a     *)
(* transfer; a transfer that is refused does not happen.                   *)
(***************************************************************************)
EXTENDS Integers, FiniteSets, Functions

CONSTANTS
    Names,          \* account names, of accounts that exist or not
    Accounts,       \* the accounts that exist; only they can sign
    Self,           \* the account of the contract
    Codes,          \* symbol codes
    Precisions,     \* a symbol is a code with a precision
    MaxAmount,      \* the largest amount of an asset
    Amounts         \* the amounts actions are called with

ASSUME NamesAssumption == Accounts \subseteq Names /\ IsFiniteSet(Names)
ASSUME AmountAssumption == MaxAmount \in Nat

VARIABLES
    stats,          \* code -> precision, supply, max_supply and issuer of the token
    accounts,       \* <<owner, code>> -> precision, amount and RAM payer of the row
    auth            \* the accounts that signed the last action

vars == <<stats, accounts, auth>>

Stats == [precision : Precisions, supply : Int, max_supply : 0 .. MaxAmount, issuer : Names]
Rows == [precision : Precisions, amount : Nat, payer : Names]

TypeOK ==
    /\ DOMAIN stats \subseteq Codes /\ stats \in [DOMAIN stats -> Stats]
    /\ DOMAIN accounts \subseteq Names \X Codes /\ accounts \in [DOMAIN accounts -> Rows]
    /\ auth \subseteq Accounts

Put(f, k, v) == [x \in DOMAIN f \cup {k} |-> IF x = k THEN v ELSE f[x]]
Without(f, k) == [x \in DOMAIN f \ {k} |-> f[x]]

Empty == [x \in {} |-> x]

Init == stats = Empty /\ accounts = Empty /\ auth = {}

----------------------------------------------------------------------------
(* The balance rows: each helper with the checks it makes *)

\* The subtraction of assets checks that their symbols are the same.
can_sub(tbl, owner, code, precision, amount) ==
    /\ <<owner, code>> \in DOMAIN tbl
    /\ tbl[<<owner, code>>].amount >= amount
    /\ tbl[<<owner, code>>].precision = precision

\* The owner takes over the RAM of a row whose tokens it spends.
sub_balance(tbl, owner, code, amount) ==
    [tbl EXCEPT ![<<owner, code>>] =
        [precision |-> @.precision, amount |-> @.amount - amount, payer |-> owner]]

can_add(tbl, owner, code, precision) ==
    <<owner, code>> \in DOMAIN tbl => tbl[<<owner, code>>].precision = precision

\* Faulty variant of add_balance: a row that exists is overwritten.
add_fresh_balance(tbl, owner, code, precision, amount, ram_payer) ==
    Put(tbl, <<owner, code>>, [precision |-> precision, amount |-> amount, payer |-> ram_payer])

add_balance(tbl, owner, code, precision, amount, ram_payer) ==
    IF <<owner, code>> \in DOMAIN tbl
    THEN [tbl EXCEPT ![<<owner, code>>].amount = @ + amount]
    ELSE Put(tbl, <<owner, code>>,
             [precision |-> precision, amount |-> amount, payer |-> ram_payer])

\* A positive quantity of a token that exists, in its own precision.
valid_quantity(code, precision, amount) ==
    /\ code \in DOMAIN stats
    /\ amount \in 1 .. MaxAmount
    /\ precision = stats[code].precision

----------------------------------------------------------------------------
(* The actions; `signers` are the accounts that authorize the transaction *)

create(signers, issuer, code, precision, maximum_supply) ==
    /\ Self \in signers
    /\ maximum_supply \in 1 .. MaxAmount
    /\ code \notin DOMAIN stats
    /\ stats' = Put(stats, code, [precision |-> precision, supply |-> 0,
                                  max_supply |-> maximum_supply, issuer |-> issuer])
    /\ UNCHANGED accounts

\* Faulty variant of within_supply: the supply already issued is not counted.
within_max_supply(code, amount) == amount <= stats[code].max_supply

within_supply(code, amount) == amount <= stats[code].max_supply - stats[code].supply

issue(signers, to, code, precision, amount) ==
    /\ valid_quantity(code, precision, amount)
    /\ to = stats[code].issuer
    /\ to \in signers
    /\ within_supply(code, amount)
    /\ can_add(accounts, to, code, precision)
    /\ stats' = [stats EXCEPT ![code].supply = @ + amount]
    /\ accounts' = add_balance(accounts, to, code, precision, amount, to)

\* The supply is not compared with the quantity, only the issuer's balance is.
retire(signers, code, precision, amount) ==
    /\ valid_quantity(code, precision, amount)
    /\ stats[code].issuer \in signers
    /\ can_sub(accounts, stats[code].issuer, code, precision, amount)
    /\ stats' = [stats EXCEPT ![code].supply = @ - amount]
    /\ accounts' = sub_balance(accounts, stats[code].issuer, code, amount)

\* Faulty variant of transfer_payer: the receiver pays, signed or not.
receiver_pays(signers, from, to) == to

transfer_payer(signers, from, to) == IF to \in signers THEN to ELSE from

transfer(signers, from, to, code, precision, amount) ==
    /\ from # to
    /\ from \in signers
    /\ to \in Accounts
    /\ valid_quantity(code, precision, amount)
    /\ can_sub(accounts, from, code, precision, amount)
    /\ can_add(accounts, to, code, precision)
    /\ accounts' = add_balance(sub_balance(accounts, from, code, amount),
                               to, code, precision, amount, transfer_payer(signers, from, to))
    /\ UNCHANGED stats

\* Faulty variant of same_symbol: only the code is looked up.
same_code(code, precision) == code \in DOMAIN stats

same_symbol(code, precision) == code \in DOMAIN stats /\ stats[code].precision = precision

open(signers, owner, code, precision, ram_payer) ==
    /\ ram_payer \in signers
    /\ owner \in Accounts
    /\ same_symbol(code, precision)
    /\ accounts' = IF <<owner, code>> \in DOMAIN accounts THEN accounts
                   ELSE Put(accounts, <<owner, code>>,
                            [precision |-> precision, amount |-> 0, payer |-> ram_payer])
    /\ UNCHANGED stats

\* Faulty variant of can_close: the balance is not looked at.
can_close_any(owner, code) == <<owner, code>> \in DOMAIN accounts

can_close(owner, code) ==
    <<owner, code>> \in DOMAIN accounts /\ accounts[<<owner, code>>].amount = 0

\* Only the code of the symbol is looked at.
close(signers, owner, code) ==
    /\ owner \in signers
    /\ can_close(owner, code)
    /\ accounts' = Without(accounts, <<owner, code>>)
    /\ UNCHANGED stats

\* What a transaction signed by `signers` can do to token `code`, in any precision.
Action(signers, code) ==
    \/ \E precision \in Precisions, amount \in Amounts :
           \/ \E issuer \in Names : create(signers, issuer, code, precision, amount)
           \/ \E to \in Names : issue(signers, to, code, precision, amount)
           \/ retire(signers, code, precision, amount)
           \/ \E from, to \in Names : transfer(signers, from, to, code, precision, amount)
    \/ \E precision \in Precisions, owner, ram_payer \in Names :
           open(signers, owner, code, precision, ram_payer)
    \/ \E owner \in Names : close(signers, owner, code)

Next ==
    \E signers \in SUBSET Accounts :
        /\ auth' = signers
        /\ \E code \in Codes : Action(signers, code)

Spec == Init /\ [][Next]_vars

----------------------------------------------------------------------------
(* Properties *)

\* What the balance rows of a token add up to.
Held(code) ==
    LET rows == {row \in DOMAIN accounts : row[2] = code}
    IN  SumFunction([row \in rows |-> accounts[row].amount])

(***************************************************************************)
(* The supply of a token is the sum of its balances, although issue and    *)
(* retire change the two in separate tables, retire compares the quantity  *)
(* with one of them only, and rows are opened and closed in between.       *)
(***************************************************************************)
SupplyIsHeld == \A code \in Codes :
    Held(code) = IF code \in DOMAIN stats THEN stats[code].supply ELSE 0

(***************************************************************************)
(* The rows of a token have the token's precision.  A row that has another *)
(* one could never be credited or debited again: the arithmetic of assets  *)
(* fails when the symbols differ, and with it the transfer.                *)
(***************************************************************************)
PrecisionAgrees ==
    \A row \in DOMAIN accounts :
        row[2] \in DOMAIN stats /\ accounts[row].precision = stats[row[2]].precision

(***************************************************************************)
(* An account pays for the RAM of a balance row only if it signed the      *)
(* action that made it the payer, though rows are made by issue, transfer  *)
(* and open and pass to their owner when tokens are spent.                 *)
(***************************************************************************)
PayersSigned ==
    [][\A row \in DOMAIN accounts' :
           \/ row \in DOMAIN accounts /\ accounts'[row].payer = accounts[row].payer
           \/ accounts'[row].payer \in auth']_vars

(***************************************************************************)
(* The inductive invariant: the tables have their types, rows agree with   *)
(* their token's precision, and no more than the maximum is ever issued.   *)
(***************************************************************************)
IInv ==
    /\ TypeOK
    /\ PrecisionAgrees
    /\ \A code \in DOMAIN stats : stats[code].supply <= stats[code].max_supply

(***************************************************************************)
(* The contract implements TokenPromise, where a token is not a number in  *)
(* two tables but is somewhere: with its issuer-to-be or with one holder.  *)
(***************************************************************************)
unissued == [code \in Codes |->
    IF code \in DOMAIN stats THEN stats[code].max_supply - stats[code].supply ELSE 0]
held == [place \in Names \X Codes |->
    IF place \in DOMAIN accounts THEN accounts[place].amount ELSE 0]
issuers == [code \in DOMAIN stats |-> stats[code].issuer]

Promise == INSTANCE TokenPromise WITH
    unissued <- unissued, held <- held, issuers <- issuers, signed <- auth

ImplementsPromise == Promise!Spec
=============================================================================
