------------------------ MODULE ResourceLimitsProofs ------------------------
(* For all windows, precisions and limits: what an account may be billed    *)
(* leaves it within its share.                                              *)
EXTENDS Transactions, TLAPS

(* integer_divide_ceil returns the least number of which d times is n or    *)
(* more.                                                                    *)
LEMMA DivideCeilBounds ==
  ASSUME NEW n \in Nat, NEW d \in Nat \ {0}
  PROVE  /\ DivideCeil(n, d) \in Nat
         /\ DivideCeil(n, d) * d >= n
         /\ DivideCeil(n, d) * d <= n + d - 1
<1> DEFINE q == n \div d
           r == n % d
<1>1. q \in Nat /\ r \in 0..(d - 1) /\ n = q * d + r
  OBVIOUS
<1>2. CASE r > 0
  <2>1. DivideCeil(n, d) = q + 1
    BY <1>1, <1>2 DEF DivideCeil
  <2>2. (q + 1) * d = q * d + d
    BY <1>1
  <2> QED  BY <1>1, <1>2, <2>1, <2>2
<1>3. CASE r = 0
  <2>1. DivideCeil(n, d) = q
    BY <1>1, <1>3 DEF DivideCeil
  <2> QED  BY <1>1, <1>3, <2>1
<1> QED  BY <1>1, <1>2, <1>3

(* Adding units to a usage of v, both rounded up, keeps v below a maximum m *)
(* of which no more than m less the usage was added.                        *)
LEMMA RoundingFits ==
  ASSUME NEW v \in Nat, NEW units \in Nat, NEW m \in Nat,
         NEW w \in Nat \ {0}, NEW p \in Nat \ {0}, w <= p,
         units <= m - DivideCeil(v * w, p)
  PROVE  ((v + DivideCeil(units * p, w)) * w) \div p <= m
<1> DEFINE c == DivideCeil(v * w, p)
           e == DivideCeil(units * p, w)
<1>1. v * w \in Nat /\ units * p \in Nat
  OBVIOUS
<1>2. c \in Nat /\ c * p >= v * w
  BY <1>1, DivideCeilBounds
<1>3. e \in Nat /\ e * w <= units * p + w - 1
  BY <1>1, DivideCeilBounds
<1> HIDE DEF c, e
<1>4. (v + e) * w = v * w + e * w
  BY <1>3
<1>5. (c + units) * p = c * p + units * p
  BY <1>2
<1>6. (c + units) * p <= m * p
  <2>1. c + units <= m
    BY <1>2 DEF c
  <2> QED  BY <1>2, <2>1
<1>7. (v + e) * w < m * p + p
  <2>1. e * w \in Nat /\ c * p \in Nat /\ m * p \in Nat
    BY <1>2, <1>3
  <2> QED  BY <1>1, <1>2, <1>3, <1>4, <1>5, <1>6, <2>1
<1>8. m * p + p = (m + 1) * p
  OBVIOUS
<1>9. ((v + e) * w) \div p < m + 1
  <2> DEFINE x == (v + e) * w
  <2>1. x \in Nat /\ x < (m + 1) * p
    BY <1>3, <1>7, <1>8
  <2>2. x \div p \in Nat /\ (x \div p) * p <= x
    BY <2>1
  <2> HIDE DEF x
  <2>3. (x \div p) * p < (m + 1) * p
    BY <2>1, <2>2
  <2>4. ASSUME x \div p >= m + 1 PROVE FALSE
    <3>1. (x \div p) * p >= (m + 1) * p
      BY <2>2, <2>4
    <3> QED  BY <2>2, <2>3, <3>1
  <2> QED  BY <2>2, <2>4 DEF x
<1> QED
  <2>1. ((v + e) * w) \div p \in Nat
    BY <1>3
  <2> QED  BY <1>9, <2>1 DEF e

(* Decay and addition of an accumulator keep it one of natural numbers.     *)
LEMMA AddType ==
  ASSUME NEW average \in Accumulator, NEW units \in Nat, NEW slot \in Nat,
         NEW window \in Nat \ {0}, average.last <= slot
  PROVE  /\ Add(average, units, slot, window) \in Accumulator
         /\ Add(average, units, slot, window).last = slot
<1> DEFINE left_over == window - (slot - average.last)
<1>1. average.value \in Nat /\ average.last \in Nat
  BY DEF Accumulator
<1>2. Decayed(average, slot, window) \in Nat
  <2>1. CASE slot = average.last
    BY <1>1, <2>1 DEF Decayed
  <2>2. CASE slot # average.last /\ slot < average.last + window
    <3>1. left_over \in Nat
      BY <1>1, <2>2
    <3>2. average.value * left_over \in Nat
      BY <1>1, <3>1
    <3>3. (average.value * left_over) \div window \in Nat
      BY <3>2
    <3> QED  BY <2>2, <3>3 DEF Decayed
  <2>3. CASE slot # average.last /\ ~(slot < average.last + window)
    BY <2>3 DEF Decayed
  <2> QED  BY <2>1, <2>2, <2>3
<1>3. units * Precision \in Nat
  BY ResourceAssumption
<1>4. DivideCeil(units * Precision, window) \in Nat
  BY <1>3, DivideCeilBounds
<1> QED  BY <1>2, <1>4 DEF Add, Accumulator

(* Billing accounts, in a slot that is not before their last one, keeps the *)
(* tables in their types.                                                   *)
LEMMA UsedType ==
  ASSUME NEW rl, NEW accounts \in SUBSET Account, NEW net \in Nat, NEW cpu \in Nat, NEW slot,
         TablesOK(rl, slot)
  PROVE  /\ TablesOK(Used(rl, accounts, net, cpu, slot), slot)
         /\ \A a \in accounts :
              Used(rl, accounts, net, cpu, slot).usage[a] = Charged(rl.usage[a], net, cpu, slot)
<1> DEFINE charged(a) == Charged(rl.usage[a], net, cpu, slot)
           after == Used(rl, accounts, net, cpu, slot)
           Row_ == [ram : Nat, net : Accumulator, cpu : Accumulator]
<1>1. /\ Tables(rl) /\ slot \in Nat
      /\ rl.usage \in [Account -> Row_]
      /\ \A a \in Account : rl.usage[a]["net"].last <= slot /\ rl.usage[a]["cpu"].last <= slot
  BY DEF TablesOK, Tables, Kind
<1>2. /\ Window["net"] \in Nat \ {0} /\ Window["cpu"] \in Nat \ {0}
  BY ResourceAssumption DEF Kind
<1>3. ASSUME NEW a \in Account
      PROVE  /\ charged(a) \in Row_
             /\ charged(a).net.last = slot /\ charged(a).cpu.last = slot
  <2>1. /\ rl.usage[a].ram \in Nat
        /\ rl.usage[a].net \in Accumulator /\ rl.usage[a].net.last <= slot
        /\ rl.usage[a].cpu \in Accumulator /\ rl.usage[a].cpu.last <= slot
    BY <1>1, <1>3
  <2> QED  BY <1>1, <1>2, <2>1, AddType DEF Charged
<1>4. after.usage = [a \in Account |-> IF a \in accounts THEN charged(a) ELSE rl.usage[a]]
  BY <1>1 DEF Used, Tables
<1>5. after = [rl EXCEPT !.usage = after.usage]
  BY <1>1 DEF Used, Tables
<1> HIDE DEF charged, after
<1>6. after.usage \in [Account -> Row_]
  BY <1>1, <1>3, <1>4
<1>7. Tables(after)
  BY <1>1, <1>5, <1>6 DEF Tables
<1>8. \A a \in Account : /\ after.usage[a]["net"].last <= slot
                         /\ after.usage[a]["cpu"].last <= slot
  BY <1>1, <1>3, <1>4
<1>9. after.block = rl.block /\ after.virtual = rl.virtual
  BY <1>1, <1>5 DEF Tables
<1>10. TablesOK(after, slot)
  BY <1>1, <1>7, <1>8, <1>9 DEF TablesOK, Kind
<1> QED  BY <1>4, <1>10 DEF charged, after

(* The share of an account is a natural number, and its elastic share is no *)
(* smaller than the one a greylisted account gets.                          *)
LEMMA ShareGrows ==
  ASSUME NEW n \in Nat, NEW m \in Nat, n <= m, NEW w \in Nat, NEW l \in Nat,
         NEW t \in Nat \ {0}
  PROVE  /\ (n * w * l) \div t \in Nat
         /\ (m * w * l) \div t \in Nat
         /\ (n * w * l) \div t <= (m * w * l) \div t
<1>1. n * w \in Nat /\ m * w \in Nat /\ n * w <= m * w
  OBVIOUS
<1> DEFINE x == n * w * l
           y == m * w * l
<1>2. x \in Nat /\ y \in Nat /\ x <= y
  BY <1>1
<1> HIDE DEF x, y
<1> DEFINE q == x \div t
           r == y \div t
<1>3. q \in Nat /\ r \in Nat /\ q * t <= x /\ y < (r + 1) * t
  <2>1. q \in Nat /\ x = q * t + (x % t) /\ x % t \in 0..(t - 1)
    BY <1>2
  <2>2. r \in Nat /\ y = r * t + (y % t) /\ y % t \in 0..(t - 1)
    BY <1>2
  <2>3. (r + 1) * t = r * t + t
    BY <2>2
  <2> QED  BY <1>2, <2>1, <2>2, <2>3
<1> HIDE DEF q, r
<1>4. ASSUME q > r PROVE FALSE
  <2>1. q * t >= (r + 1) * t
    BY <1>3, <1>4
  <2>2. q * t \in Nat /\ (r + 1) * t \in Nat
    BY <1>3
  <2> QED  BY <1>2, <1>3, <2>1, <2>2
<1> QED  BY <1>3, <1>4 DEF q, r, x, y

(* AvailableFits holds of all tables in their types, whatever the windows,  *)
(* the precision and the limits, as long as no window has more slots than   *)
(* the precision: what max_bandwidth_billed_accounts_can_pay allows,        *)
(* add_transaction_usage accepts.                                           *)
THEOREM AvailableWithinShare == TablesOK(db.rl, db.slot) => AvailableFits
<1> SUFFICES ASSUME TablesOK(db.rl, db.slot),
                    NEW a \in Account, NEW k \in Kind, NEW elastic \in BOOLEAN
             PROVE  LET now   == UpdateAccountUsage(db.rl, Account, db.slot)
                        units == Available(now, a, k, elastic)
                    IN Limited(now, a, k) /\ units > 0 =>
                         WithinShare(Used(now, {a}, units, units, db.slot), a, k)
  BY DEF AvailableFits
<1> DEFINE slot  == db.slot
           now   == UpdateAccountUsage(db.rl, Account, slot)
           units == Available(now, a, k, elastic)
           after == Used(now, {a}, units, units, slot)
           most  == MaxUse(now, a, k, now.virtual[k])
           greyed == MaxUse(now, a, k, MaxBlock[k])
           value == now.usage[a][k].value
<1> SUFFICES ASSUME Limited(now, a, k), units > 0 PROVE WithinShare(after, a, k)
  OBVIOUS
<1>1. /\ TablesOK(now, slot)
      /\ now.usage[a] = Charged(db.rl.usage[a], 0, 0, slot)
  BY UsedType DEF UpdateAccountUsage
<1> HIDE DEF now
<1>2. /\ slot \in Nat /\ Tables(now)
      /\ now.usage[a][k] \in Accumulator /\ value \in Nat
      /\ now.usage[a][k].last = slot
  <2>1. Tables(now) /\ slot \in Nat
    BY <1>1 DEF TablesOK
  <2>2. now.usage[a][k] \in Accumulator
    BY <2>1 DEF Tables, Kind
  <2>3. now.usage[a][k].last = slot
    BY <1>1 DEF Charged, Add, Kind
  <2> QED  BY <2>1, <2>2, <2>3 DEF Accumulator
<1>3. /\ Window[k] \in Nat \ {0} /\ Precision \in Nat \ {0} /\ Window[k] <= Precision
      /\ MaxBlock[k] \in Nat
  BY ResourceAssumption
<1>4. /\ most \in Nat /\ greyed \in Nat /\ greyed <= most
  <2>1. /\ now.virtual[k] \in Nat /\ MaxBlock[k] <= now.virtual[k]
        /\ now.total[k] \in Nat /\ now.total[k] > 0
    BY <1>1, <1>2 DEF TablesOK, Tables, Limited, Kind
  <2>2. AccountLimits(now, a)[k] \in Nat
    <3>1. AccountLimits(now, a) \in Limits
      BY <1>2 DEF AccountLimits, Tables
    <3> QED  BY <3>1 DEF Limits, Limited, Kind
  <2> DEFINE n == MaxBlock[k]
             m == now.virtual[k]
             w == Window[k]
             l == AccountLimits(now, a)[k]
             t == now.total[k]
  <2>3. most = (m * w * l) \div t /\ greyed = (n * w * l) \div t
    BY DEF MaxUse
  <2>4. n \in Nat /\ m \in Nat /\ n <= m /\ w \in Nat /\ l \in Nat /\ t \in Nat \ {0}
    BY <1>3, <2>1, <2>2
  <2> HIDE DEF n, m, w, l, t, most, greyed
  <2>5. (n * w * l) \div t \in Nat /\ (m * w * l) \div t \in Nat
        /\ (n * w * l) \div t <= (m * w * l) \div t
    BY <2>4, ShareGrows
  <2> QED  BY <2>3, <2>5
<1>5. units \in Nat /\ units <= most - DivideCeil(value * Window[k], Precision)
  <2>1. value * Window[k] \in Nat
    BY <1>2, <1>3
  <2>2. DivideCeil(value * Window[k], Precision) \in Nat
    BY <1>3, <2>1, DivideCeilBounds
  <2>3. units = (IF elastic THEN most ELSE greyed) - DivideCeil(value * Window[k], Precision)
    <3>1. CASE elastic
      BY <3>1, <1>4, <2>2 DEF Available
    <3>2. CASE ~elastic
      BY <3>2, <1>4, <2>2 DEF Available
    <3> QED  BY <3>1, <3>2
  <2> HIDE DEF units, most, greyed
  <2> QED  BY <1>4, <2>2, <2>3
<1>6. after.usage[a] = Charged(now.usage[a], units, units, slot)
  BY <1>1, <1>5, UsedType
<1>7. after.usage[a][k].value = value + DivideCeil(units * Precision, Window[k])
  <2>1. after.usage[a][k] = Add(now.usage[a][k], units, slot, Window[k])
    BY <1>6 DEF Charged, Kind
  <2>2. Decayed(now.usage[a][k], slot, Window[k]) = value
    BY <1>2 DEF Decayed
  <2> HIDE DEF after, units, value, slot
  <2> QED  BY <2>1, <2>2 DEF Add
<1>8. MaxUse(after, a, k, after.virtual[k]) = most
  BY <1>2 DEF Used, MaxUse, AccountLimits, Tables
<1>9. (after.usage[a][k].value * Window[k]) \div Precision <= most
  BY <1>2, <1>3, <1>4, <1>5, <1>7, RoundingFits
<1> QED  BY <1>8, <1>9 DEF WithinShare
=============================================================================
