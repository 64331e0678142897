--------------------------- MODULE ResourceLimits ---------------------------
(***************************************************************************)
(* resource_limits_manager: what accounts have used of RAM, network and    *)
(* CPU, what they may use, and the limits of a block.                      *)
(*                                                                         *)
(* An operation takes the tables rl and returns the tables after it.       *)
(* Network and CPU run through the same code, once each; kind says which.  *)
(* Of an accumulator the member consumed is left out: only reports use it. *)
(* All numbers stay below the block limits times the precision, far from   *)
(* 2^64, so the checks for overflow never fail.                            *)
(***************************************************************************)
EXTENDS Integers, FiniteSetsExt

CONSTANTS Account,     \* the accounts
          Precision,   \* rate_limiting_precision
          Window,      \* [Kind -> slots], the averaging window of an account
          MaxBlock,    \* [Kind -> units], the limit of a block
          Target,      \* [Kind -> units], above this average the limit contracts
          Periods,     \* [Kind -> blocks], the averaging window of the blocks
          Multiplier,  \* max_multiplier of the elastic limits
          Contract,    \* <<numerator, denominator>> of contract_rate
          Expand       \* <<numerator, denominator>> of expand_rate

Kind == {"net", "cpu"}

ASSUME ResourceAssumption ==
  /\ Precision \in Nat \ {0}
  /\ Window \in [Kind -> Nat \ {0}] /\ \A k \in Kind : Window[k] <= Precision
  /\ MaxBlock \in [Kind -> Nat] /\ Target \in [Kind -> Nat]
  /\ Periods \in [Kind -> Nat \ {0}] /\ Multiplier \in Nat \ {0}
  /\ Contract[2] \in Nat \ {0} /\ Expand[2] \in Nat \ {0}

-----------------------------------------------------------------------------
(* Moving averages.                                                         *)

(* integer_divide_ceil *)
DivideCeil(n, d) == n \div d + IF n % d > 0 THEN 1 ELSE 0

(* exponential_moving_average_accumulator *)
NewAverage == [value |-> 0, last |-> 0]

Decayed(average, ordinal, window) ==
  IF ordinal = average.last THEN average.value
  ELSE IF ordinal < average.last + window
       THEN (average.value * (window - (ordinal - average.last))) \div window
       ELSE 0

Add(average, units, ordinal, window) ==
  [value |-> Decayed(average, ordinal, window) + DivideCeil(units * Precision, window),
   last  |-> ordinal]

Average(average) == DivideCeil(average.value, Precision)

(* update_elastic_limit *)
UpdateElasticLimit(current, usage, kind) ==
  LET rate   == IF usage > Target[kind] THEN Contract ELSE Expand
      result == (current * rate[1]) \div rate[2]
  IN Min({Max({result, MaxBlock[kind]}), MaxBlock[kind] * Multiplier})

-----------------------------------------------------------------------------
(* Accounts.                                                                *)

NewUsage == [ram |-> 0, net |-> NewAverage, cpu |-> NewAverage]

(* get_account_limits: a pending change counts already; -1 is no limit. *)
AccountLimits(rl, a) == IF a \in DOMAIN rl.pending THEN rl.pending[a] ELSE rl.limits[a]

Limited(rl, a, kind) == AccountLimits(rl, a)[kind] >= 0 /\ rl.total[kind] > 0

MaxUse(rl, a, kind, capacity) ==
  (capacity * Window[kind] * AccountLimits(rl, a)[kind]) \div rl.total[kind]

(* What was used is rounded down. *)
AvailableRoundedDown(rl, a, kind, elastic) ==
  LET most == MaxUse(rl, a, kind, IF elastic THEN rl.virtual[kind] ELSE MaxBlock[kind])
      used == (rl.usage[a][kind].value * Window[kind]) \div Precision
  IN IF most <= used THEN 0 ELSE most - used

(* get_account_cpu_limit, get_account_net_limit for a limited account *)
Available(rl, a, kind, elastic) ==
  LET most == MaxUse(rl, a, kind, IF elastic THEN rl.virtual[kind] ELSE MaxBlock[kind])
      used == DivideCeil(rl.usage[a][kind].value * Window[kind], Precision)
  IN IF most <= used THEN 0 ELSE most - used

(* The check of add_transaction_usage. *)
WithinShare(rl, a, kind) ==
  Limited(rl, a, kind) =>
    (rl.usage[a][kind].value * Window[kind]) \div Precision
      <= MaxUse(rl, a, kind, rl.virtual[kind])

Charged(usage, net, cpu, slot) ==
  [ram |-> usage.ram, net |-> Add(usage.net, net, slot, Window["net"]),
                      cpu |-> Add(usage.cpu, cpu, slot, Window["cpu"])]

Used(rl, accounts, net, cpu, slot) ==
  [rl EXCEPT !.usage = [a \in Account |->
     IF a \in accounts THEN Charged(rl.usage[a], net, cpu, slot) ELSE rl.usage[a]]]

UpdateAccountUsage(rl, accounts, slot) == Used(rl, accounts, 0, 0, slot)

AddTransactionUsage(rl, accounts, cpu, net, slot) ==
  LET after == [Used(rl, accounts, net, cpu, slot) EXCEPT
                  !.block.net = @ + net, !.block.cpu = @ + cpu]
  IN [ok |-> /\ \A a \in accounts, k \in Kind : WithinShare(after, a, k)
             /\ \A k \in Kind : after.block[k] <= MaxBlock[k],
      rl |-> after]

AddPendingRamUsage(rl, a, delta) == [rl EXCEPT !.usage[a].ram = @ + delta]

VerifyRam(rl, a) ==
  AccountLimits(rl, a).ram >= 0 => rl.usage[a].ram <= AccountLimits(rl, a).ram

SetAccountLimits(rl, a, limits) ==
  [rl EXCEPT !.pending = [b \in DOMAIN @ \cup {a} |-> IF b = a THEN limits ELSE @[b]]]

(* Whether set_account_limits lowers the RAM of the account. *)
Decreases(rl, a, limits) ==
  limits.ram >= 0 /\ (AccountLimits(rl, a).ram < 0 \/ limits.ram < AccountLimits(rl, a).ram)

-----------------------------------------------------------------------------
(* Blocks.                                                                  *)

BlockLimit(rl, kind) == MaxBlock[kind] - rl.block[kind]

Positive(n) == IF n > 0 THEN n ELSE 0

ProcessAccountLimitUpdates(rl) ==
  LET Delta(k) == MapThenSumSet(LAMBDA a : Positive(rl.pending[a][k]) - Positive(rl.limits[a][k]),
                                DOMAIN rl.pending)
  IN [rl EXCEPT !.limits = [a \in Account |-> AccountLimits(rl, a)],
                !.total = [k \in DOMAIN @ |-> @[k] + Delta(k)],
                !.pending = <<>>]

ProcessBlockUsage(rl, num) ==
  LET average == [k \in Kind |-> Add(rl.average[k], rl.block[k], num, Periods[k])]
  IN [rl EXCEPT !.average = average,
                !.virtual = [k \in Kind |-> UpdateElasticLimit(@[k], Average(average[k]), k)],
                !.block = [k \in Kind |-> 0]]

NewTables(limits) ==
  [usage   |-> [a \in Account |-> NewUsage],
   limits  |-> limits,
   pending |-> <<>>,
   total   |-> [k \in {"ram", "net", "cpu"} |->
                  MapThenSumSet(LAMBDA a : Positive(limits[a][k]), Account)],
   block   |-> [k \in Kind |-> 0],
   average |-> [k \in Kind |-> NewAverage],
   virtual |-> MaxBlock]

-----------------------------------------------------------------------------
(* What the tables look like; the usage of a block and the elastic capacity *)
(* keep within their limits.                                                *)
Accumulator == [value : Nat, last : Nat]
Limits == [{"ram", "net", "cpu"} -> Int]
Tables(rl) ==
  /\ rl = [usage |-> rl.usage, limits |-> rl.limits, pending |-> rl.pending, total |-> rl.total,
           block |-> rl.block, average |-> rl.average, virtual |-> rl.virtual]
  /\ rl.usage \in [Account -> [ram : Nat, net : Accumulator, cpu : Accumulator]]
  /\ rl.limits \in [Account -> Limits]
  /\ rl.pending \in [DOMAIN rl.pending -> Limits] /\ DOMAIN rl.pending \subseteq Account
  /\ rl.total \in [{"ram", "net", "cpu"} -> Nat]
  /\ rl.block \in [Kind -> Nat]
  /\ rl.average \in [Kind -> Accumulator]
  /\ rl.virtual \in [Kind -> Nat]

TablesOK(rl, slot) ==
  /\ Tables(rl)
  /\ slot \in Nat
  /\ \A k \in Kind : /\ \A a \in Account : rl.usage[a][k].last <= slot
                     /\ rl.block[k] <= MaxBlock[k]
                     /\ MaxBlock[k] <= rl.virtual[k]
                     /\ rl.virtual[k] <= MaxBlock[k] * Multiplier
=============================================================================
