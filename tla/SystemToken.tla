---------------------------- MODULE SystemToken ----------------------------
(***************************************************************************)
(* The token contract, for the core symbol.  Every other contract moves    *)
(* tokens with inline transfers: a transfer that fails undoes the whole    *)
(* transaction, so the callers use Payable as a guard of their own action. *)
(* A balance row that reaches zero is erased; a missing row reads as zero. *)
(***************************************************************************)
EXTENDS Integers, FiniteSets, FiniteSetsExt, Functions, Sequences, SequencesExt

CONSTANTS
    User,           \* accounts that hold tokens
    Issuer,         \* the user that may issue
    MaxSupply       \* max_supply of the core symbol

ASSUME TokenAssumption == Issuer \in User /\ MaxSupply \in Nat

VARIABLES
    balance,        \* [Account -> tokens]
    supply          \* tokens issued

\* Accounts of the system contract that only move tokens inside its actions.
Vault == {"eonio.stake", "eonio.bpstk", "eonio.prop", "eonio.ram",
          "eonio.ramfee", "eonio.names", "eonio.blkpay"}

Account == User \cup Vault

\* The checks of transfer and of sub_balance.
Payable(b, from, to, quantity) ==
    from # to /\ quantity > 0 /\ b[from] >= quantity

\* sub_balance, then add_balance.
Pay(b, from, to, quantity) ==
    [b EXCEPT ![from] = @ - quantity, ![to] = @ + quantity]

\* issue: to the issuer, and on to the receiver by an inline transfer.
Issue(to, quantity) ==
    /\ quantity > 0
    /\ quantity <= MaxSupply - supply
    /\ supply' = supply + quantity
    /\ LET issued == [balance EXCEPT ![Issuer] = @ + quantity] IN
       balance' = IF to = Issuer THEN issued ELSE Pay(issued, Issuer, to, quantity)

Transfer(from, to, quantity) ==
    /\ Payable(balance, from, to, quantity)
    /\ balance' = Pay(balance, from, to, quantity)
    /\ UNCHANGED supply

\* No contract creates or destroys a token: what the accounts hold is what was
\* issued, whatever chain of inline transfers moved it.
TokensConserved == SumFunction(balance) = supply /\ supply <= MaxSupply

=============================================================================
