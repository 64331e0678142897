----------------------------- MODULE RamMarket -----------------------------
(***************************************************************************)
(* The RAM market and the name auction of the system contract.             *)
(*                                                                         *)
(* exchange_state converts one connector into the other through the RAM    *)
(* core token in floating point.  The two exponents cancel: the result is  *)
(* the constant-product value, less what the truncations of the two steps  *)
(* lose, at most Truncation units.  Rounding errors of the doubles, far    *)
(* below one unit, are not modelled.                                       *)
(***************************************************************************)
EXTENDS SystemToken

CONSTANTS
    Truncation,     \* units that truncation may lose in one conversion
    FeeDivisor,     \* 200: the fee is 1/200, rounded up
    InitialRam,     \* max_ram_size at genesis
    InitialQuote,   \* system_token_supply / 1000 when the market was created
    Name            \* names that can be bid for

ASSUME RamAssumption ==
    /\ Truncation \in Nat /\ FeeDivisor \in Nat \ {0}
    /\ InitialRam \in Nat \ {0} /\ InitialQuote \in Nat \ {0}

VARIABLES
    market,         \* the two connectors: base (RAM) and quote (tokens)
    ram,            \* max, reserved and stake of the global state
    quota,          \* [User -> bytes]: ram_bytes of userres, the chain's limit
    bids            \* table of auctions: high bidder and high bid

ramVars == <<market, ram, quota, bids>>

\* A conversion that rounds in favour of the trader.
ConvertedUp(have, pool, in) ==
    LET exact == (pool * in + have + in - 1) \div (have + in)
    IN  {exact - lost : lost \in 0..Truncation} \cap Nat

\* exchange_state::convert, from the connector that holds "have" to the one that
\* holds "pool".
Converted(have, pool, in) ==
    LET exact == (pool * in) \div (have + in)
    IN  {exact - lost : lost \in 0..Truncation} \cap Nat

Fee(quantity) == (quantity + FeeDivisor - 1) \div FeeDivisor

\* Two inline transfers, in order.
PayableTwice(from, to, q, then, fee) ==
    Payable(balance, from, to, q) /\ Payable(Pay(balance, from, to, q), then, "eonio.ramfee", fee)

PayTwice(from, to, q, then, fee) == Pay(Pay(balance, from, to, q), then, "eonio.ramfee", fee)

BuyRam(payer, receiver, quantity) ==
    LET fee == Fee(quantity)
        in  == quantity - fee
    IN  /\ quantity > 0
        /\ PayableTwice(payer, "eonio.ram", in, payer, fee)
        /\ \E out \in Converted(market.quote, market.base, in) :
              /\ out > 0
              /\ market' = [base |-> market.base - out, quote |-> market.quote + in]
              /\ ram' = [ram EXCEPT !.reserved = @ + out, !.stake = @ + in]
              /\ quota' = [quota EXCEPT ![receiver] = @ + out]
        /\ balance' = PayTwice(payer, "eonio.ram", in, payer, fee)
        /\ UNCHANGED <<supply, bids>>

\* buyrambytes: the price of the bytes on a copy of the market, then buyram.
BuyRamBytes(payer, receiver, bytes) ==
    \E quantity \in Converted(market.base, market.quote, bytes) : BuyRam(payer, receiver, quantity)

SellRam(u, bytes) ==
    /\ bytes > 0
    /\ quota[u] >= bytes
    /\ \E out \in Converted(market.base, market.quote, bytes) :
          /\ out > 1
          /\ out <= ram.stake
          /\ PayableTwice("eonio.ram", u, out, u, Fee(out))
          /\ market' = [base |-> market.base + bytes, quote |-> market.quote - out]
          /\ ram' = [ram EXCEPT !.reserved = @ - bytes, !.stake = @ - out]
          /\ balance' = PayTwice("eonio.ram", u, out, u, Fee(out))
    /\ quota' = [quota EXCEPT ![u] = @ - bytes]
    /\ UNCHANGED <<supply, bids>>

\* setram
SetRam(max) ==
    /\ ram.max < max
    /\ max > ram.reserved
    /\ market' = [market EXCEPT !.base = @ + max - ram.max]
    /\ ram' = [ram EXCEPT !.max = max]
    /\ UNCHANGED <<balance, supply, quota, bids>>

\* bidname.  No auction is ever closed: onblock closes one only after
\* thresh_activated_stake_time is set, which nothing in the ABI does.
BidName(bidder, name, bid) ==
    /\ bid > 0
    /\ Payable(balance, bidder, "eonio.names", bid)
    /\ LET held == Pay(balance, bidder, "eonio.names", bid) IN
       IF name \notin DOMAIN bids THEN balance' = held
       ELSE /\ bid - bids[name].bid > bids[name].bid \div 10
            /\ bids[name].bidder # bidder
            /\ balance' = Pay(held, "eonio.names", bids[name].bidder, bids[name].bid)
    /\ bids' = [n \in DOMAIN bids \cup {name} |->
                   IF n = name THEN [bidder |-> bidder, bid |-> bid] ELSE bids[n]]
    /\ UNCHANGED <<supply, market, ram, quota>>

-----------------------------------------------------------------------------
\* RAM is neither created nor lost: what the accounts may use is what was reserved,
\* and with what the market still sells it is the maximum.
RamConserved ==
    /\ SumFunction(quota) = ram.reserved
    /\ market.base + ram.reserved = ram.max

\* The tokens paid for RAM are held, and the market's quote moved with them.
RamBacked ==
    /\ balance["eonio.ram"] = ram.stake
    /\ market.quote = InitialQuote + ram.stake

\* The market never owes more than it took: the product of its connectors does not
\* fall below the one it was created with (scaled when RAM is added), so selling
\* everything back never exceeds the stake and the assertion of sellram, "error,
\* attempt to unstake more tokens than previously staked", cannot fail.
MarketSolvent ==
    /\ market.base * market.quote >= InitialQuote * ram.max
    /\ \A bytes \in 1..ram.reserved :
          \A out \in Converted(market.base, market.quote, bytes) : out <= ram.stake

\* Every bidder that was outbid has the bid back: the tokens held for auctions are
\* the high bids.
BidsBacked ==
    balance["eonio.names"] = MapThenSumSet(LAMBDA n : bids[n].bid, DOMAIN bids)

=============================================================================
