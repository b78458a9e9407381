----------------------------- MODULE RamMarket -----------------------------
(***************************************************************************)
(* The market of RAM (delegate_bandwidth.cpp, exchange_state.cpp): bytes   *)
(* are bought from and sold to a connector pair that prices them, and the  *)
(* system adds bytes to it (eosio.system.cpp).  Prices are computed with   *)
(* whole numbers where the code uses doubles and truncates the outcome.    *)
(***************************************************************************)
EXTENDS Staking

CONSTANTS
    RamPayments,        \* the amounts that are paid for RAM
    RamTrades,          \* the numbers of bytes that are asked for or sold
    FreeRam,            \* the bytes of the market when it is made
    RamQuote,           \* its tokens then, which nobody paid
    RamSizes,           \* the sizes that setram may set
    RamRates,           \* the bytes per tick that setramrate may set
    RamBound            \* the growth of RAM is cut at this size

ASSUME RamAssumption ==
    /\ RamPayments \subseteq Nat /\ RamTrades \subseteq Nat \ {0}
    /\ FreeRam \in Nat \ {0} /\ RamQuote \in Nat \ {0}
    /\ RamSizes \subseteq Nat /\ RamRates \subseteq Nat /\ RamBound \in Nat

VARIABLES
    ram_balance,        \* the tokens of eosio.ram
    ram_fees,           \* the fees paid, in eosio.ramfee or passed on to REX
    market,             \* the balances of the connectors: base in bytes, quote in tokens
    max_ram_size,       \* the RAM of the chain
    ram_reserved,       \* total_ram_bytes_reserved
    total_ram_stake,    \* what was paid for the bytes reserved
    new_ram             \* rate per tick, and ticks since the last increase

ram_vars == <<ram_balance, ram_fees, market, max_ram_size, ram_reserved, total_ram_stake, new_ram>>

RamTypeOK ==
    /\ ram_balance \in Nat /\ ram_fees \in Nat
    /\ market \in [base : Nat \ {0}, quote : Nat \ {0}]
    /\ max_ram_size \in Nat
    /\ ram_reserved \in Nat
    /\ total_ram_stake \in Nat
    /\ new_ram \in [rate : Nat, age : Nat]

RamInit ==
    /\ ram_balance = 0 /\ ram_fees = 0
    /\ market = [base |-> FreeRam, quote |-> RamQuote]
    /\ max_ram_size = FreeRam /\ ram_reserved = 0 /\ total_ram_stake = 0
    /\ new_ram = [rate |-> 0, age |-> 0]

\* Faulty variant of get_bancor_output: the amount brought in is left out of the price.
get_bancor_output_flat(inp_reserve, out_reserve, inp) == (inp * out_reserve) \div inp_reserve

get_bancor_output(inp_reserve, out_reserve, inp) == (inp * out_reserve) \div (inp_reserve + inp)

get_bancor_input(out_reserve, inp_reserve, out) == (inp_reserve * out) \div (out_reserve - out)

fee_of(amount) == (amount + 199) \div 200

----------------------------------------------------------------------------
(* The supply                                                              *)

added == new_ram.rate * new_ram.age

\* Every trade first adds the bytes that are due since the last increase.
update_ram_supply ==
    /\ max_ram_size' = max_ram_size + added
    /\ new_ram' = [new_ram EXCEPT !.age = 0]

enlarged(size) == [market EXCEPT !.base = @ + (size - max_ram_size)]

setram(size) ==
    /\ max_ram_size < size /\ size > ram_reserved
    /\ market' = enlarged(size)
    /\ max_ram_size' = size
    /\ UNCHANGED <<staking_vars, ram_balance, ram_fees, ram_reserved, total_ram_stake, new_ram>>

setramrate(rate) ==
    /\ market' = enlarged(max_ram_size + added)
    /\ max_ram_size' = max_ram_size + added
    /\ new_ram' = [rate |-> rate, age |-> 0]
    /\ UNCHANGED <<staking_vars, ram_balance, ram_fees, ram_reserved, total_ram_stake>>

----------------------------------------------------------------------------
(* Buying and selling                                                      *)

\* What both trades change for the account whose bytes become these.
hold_bytes(account, bytes) ==
    /\ userres' = [userres EXCEPT ![account].ram = bytes]
    /\ limits' = IF <<account, "ram">> \in managed THEN limits
                 ELSE [limits EXCEPT ![account].ram = bytes + RamGift]
    /\ UNCHANGED <<managed, bandwidth_vars>>

\* Payments of one token leave nothing after the fee, and their transfer fails.
buyram(payer, receiver, quant) ==
    LET paid == quant - fee_of(quant)
        base == market.base + added
        bytes_out == get_bancor_output(market.quote, base, paid)
    IN  /\ paid > 0 /\ quant <= wallet[payer]
        /\ bytes_out > 0
        /\ update_ram_supply
        /\ wallet' = [wallet EXCEPT ![payer] = @ - quant]
        /\ ram_balance' = ram_balance + paid
        /\ ram_fees' = ram_fees + fee_of(quant)
        /\ market' = [base |-> base - bytes_out, quote |-> market.quote + paid]
        /\ ram_reserved' = ram_reserved + bytes_out
        /\ total_ram_stake' = total_ram_stake + paid
        /\ hold_bytes(receiver, userres[receiver].ram + bytes_out)

\* The payment is computed from the market as it is before the supply is updated.
buyrambytes(payer, receiver, bytes) ==
    /\ bytes < market.base
    /\ buyram(payer, receiver,
              (get_bancor_input(market.base, market.quote, bytes) * 1000) \div 995)

\* Faulty variant of paid_back: the tokens stay in the stake of RAM.
paid_back_not(tokens) == total_ram_stake

paid_back(tokens) == total_ram_stake - tokens

sellram(account, bytes) ==
    LET base == market.base + added
        tokens_out == get_bancor_output(base, market.quote, bytes)
    IN  /\ bytes <= userres[account].ram
        /\ tokens_out > 1 /\ tokens_out <= total_ram_stake
        /\ update_ram_supply
        /\ market' = [base |-> base + bytes, quote |-> market.quote - tokens_out]
        /\ ram_reserved' = ram_reserved - bytes
        /\ total_ram_stake' = paid_back(tokens_out)
        /\ hold_bytes(account, userres[account].ram - bytes)
        /\ tokens_out <= ram_balance
        /\ ram_balance' = ram_balance - tokens_out
        /\ wallet' = [wallet EXCEPT ![account] = @ + tokens_out - fee_of(tokens_out)]
        /\ ram_fees' = ram_fees + fee_of(tokens_out)

\* Blocks pass: RAM is due for them, up to the bound on its growth.
AgeRam ==
    /\ new_ram' = IF max_ram_size + added + new_ram.rate <= RamBound /\ new_ram.rate > 0
                  THEN [new_ram EXCEPT !.age = @ + 1] ELSE new_ram
    /\ UNCHANGED <<ram_balance, ram_fees, market, ram_reserved, total_ram_stake, max_ram_size>>

RamNext ==
    \/ \E payer, receiver \in Accounts :
           \/ \E quant \in RamPayments : buyram(payer, receiver, quant)
           \/ \E bytes \in RamTrades : buyrambytes(payer, receiver, bytes)
    \/ \E account \in Accounts, bytes \in RamTrades : sellram(account, bytes)
    \/ \E size \in RamSizes : setram(size)
    \/ \E rate \in RamRates : setramrate(rate)
=============================================================================
