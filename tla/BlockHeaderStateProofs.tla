------------------------ MODULE BlockHeaderStateProofs ------------------------
(***************************************************************************)
(* Facts about the header-state functions, for every producer set and      *)
(* every value of the constants.                                           *)
(***************************************************************************)
EXTENDS BlockHeaderState, FiniteSetTheorems, WellFoundedInduction, SequenceTheorems, TLAPS

\* Every non-empty set of natural numbers has a least element.
LEMMA LeastNat ==
    ASSUME NEW T \in SUBSET Nat, T # {}
    PROVE  \E x \in T : \A y \in T : x <= y
<1> DEFINE R == {ss \in Nat \X Nat : ss[1] < ss[2]}
<1>1. IsWellFoundedOn(R, Nat)
  BY NatLessThanWellFounded, Zenon DEF OpToRel
<1>2. PICK x \in T : \A y \in T : ~(<<y, x>> \in R)
  <2> HIDE DEF R
  <2> QED
    BY <1>1, WFMin, Zenon
<1>3. \A y \in T : ~(y < x)
  BY <1>2
<1> QED
  BY <1>3

\* Every bounded non-empty set of natural numbers has a greatest element.
LEMMA GreatestNat ==
    ASSUME NEW T \in SUBSET Nat, T # {}, NEW B \in Nat, \A y \in T : y <= B
    PROVE  \E x \in T : \A y \in T : y <= x
<1> DEFINE D == {B - y : y \in T}
<1>1. D \in SUBSET Nat /\ D # {}
  <2>1. \A y \in T : y \in Nat /\ B - y \in Nat
    OBVIOUS
  <2>2. PICK t \in T : TRUE
    OBVIOUS
  <2>3. B - t \in D
    BY <2>2
  <2> QED
    BY <2>1, <2>3
<1>2. PICK d \in D : \A e \in D : d <= e
  <2> HIDE DEF D
  <2> QED
    BY <1>1, LeastNat
<1>3. PICK x \in T : d = B - x
  BY <1>2
<1>4. \A y \in T : B - x <= B - y
  BY <1>2, <1>3
<1> QED
  BY <1>4

\* The index used by calc_dpos_last_irreversible lies inside the vector.
LEMMA ThirdInRange ==
    ASSUME NEW S, IsFiniteSet(S), S # {}
    PROVE  Third(S) \in Nat /\ Third(S) < Cardinality(S)
<1>1. Cardinality(S) \in Nat /\ Cardinality(S) # 0
  BY FS_CardinalityType, FS_EmptySet
<1> QED
  BY <1>1 DEF Third

\* UpTo grows with its bound.
LEMMA UpToMonotone ==
    ASSUME NEW S, IsFiniteSet(S), NEW irb \in [S -> Nat], NEW v \in Nat, NEW w \in Nat, v <= w
    PROVE  /\ IsFiniteSet(UpTo(irb, v)) /\ IsFiniteSet(UpTo(irb, w))
           /\ UpTo(irb, v) \subseteq UpTo(irb, w)
           /\ Cardinality(UpTo(irb, v)) \in Nat /\ Cardinality(UpTo(irb, w)) \in Nat
           /\ Cardinality(UpTo(irb, v)) <= Cardinality(UpTo(irb, w))
<1>1. UpTo(irb, v) \subseteq UpTo(irb, w) /\ UpTo(irb, w) \subseteq S
  BY DEF UpTo
<1>2. IsFiniteSet(UpTo(irb, w))
  BY <1>1, FS_Subset
<1>3. IsFiniteSet(UpTo(irb, v)) /\ Cardinality(UpTo(irb, v)) <= Cardinality(UpTo(irb, w))
  BY <1>1, <1>2, FS_Subset
<1> QED
  BY <1>1, <1>2, <1>3, FS_CardinalityType

\* calc_dpos_last_irreversible returns the least number that more than a third
\* of the producers do not exceed, and that number is one of the implied
\* irreversible block numbers.
LEMMA CalcIsLeast ==
    ASSUME NEW S, IsFiniteSet(S), S # {}, NEW irb \in [S -> Nat],
           NEW B \in Nat, \A p \in S : irb[p] <= B
    PROVE  LET v == CalcDposLastIrreversible(irb)
           IN  /\ v \in Nat
               /\ v <= B
               /\ ReachesThird(irb, v)
               /\ \A w \in Nat : ReachesThird(irb, w) => v <= w
<1> DEFINE T == {w \in Nat : ReachesThird(irb, w)}
<1>0. DOMAIN irb = S
  OBVIOUS
<1>1. B \in T
  <2>1. UpTo(irb, B) = S
    BY DEF UpTo
  <2> QED
    BY <2>1, <1>0, ThirdInRange DEF ReachesThird
<1>2. PICK x \in T : \A y \in T : x <= y
  <2>1. T \in SUBSET Nat /\ T # {}
    BY <1>1
  <2> HIDE DEF T
  <2> QED
    BY <2>1, LeastNat
<1>3. x \in {irb[p] : p \in S}
  <2>1. SUFFICES ASSUME \A p \in S : irb[p] # x PROVE FALSE
    OBVIOUS
  <2>2. UpTo(irb, x) # {}
    <3>1. Cardinality(UpTo(irb, x)) > Third(S)
      BY <1>0 DEF ReachesThird
    <3> QED
      BY <3>1, FS_EmptySet, ThirdInRange
  <2>3. x > 0
    BY <2>1, <2>2 DEF UpTo
  <2>4. x - 1 \in Nat
    BY <2>3
  <2>5. UpTo(irb, x) = UpTo(irb, x - 1)
    BY <2>1, <2>4 DEF UpTo
  <2>6. ReachesThird(irb, x - 1)
    BY <2>5 DEF ReachesThird
  <2> QED
    BY <2>4, <2>6, <1>2
<1>4. /\ x \in {irb[p] : p \in DOMAIN irb}
      /\ ReachesThird(irb, x)
      /\ \A p \in DOMAIN irb : ReachesThird(irb, irb[p]) => x <= irb[p]
  BY <1>0, <1>2, <1>3
<1> DEFINE v == CalcDposLastIrreversible(irb)
<1>5. /\ v \in {irb[p] : p \in DOMAIN irb}
      /\ ReachesThird(irb, v)
      /\ \A p \in DOMAIN irb : ReachesThird(irb, irb[p]) => v <= irb[p]
  BY <1>0, <1>4 DEF CalcDposLastIrreversible
<1>6. v = x
  BY <1>0, <1>3, <1>4, <1>5
<1> QED
  BY <1>1, <1>2, <1>6

\* Integer division by a positive number.
LEMMA DivBound ==
    ASSUME NEW R \in Nat \ {0}, NEW n \in Nat, NEW m \in Nat, m < n * R
    PROVE  (m \div R) \in Nat /\ (m \div R) < n
<1> DEFINE q == m \div R
<1>1. q \in Int /\ R * q <= m /\ m < R * q + R
  OBVIOUS
<1> HIDE DEF q
<1>2. q >= 0
  <2>1. SUFFICES ASSUME q + 1 <= 0 PROVE FALSE
    BY <1>1
  <2>2. R * (q + 1) <= 0
    BY <1>1, <2>1
  <2> QED
    BY <1>1, <2>2
<1>3. q < n
  <2>1. SUFFICES ASSUME n <= q PROVE FALSE
    BY <1>1
  <2>2. R * n <= R * q
    BY <1>1, <2>1
  <2> QED
    BY <1>1, <2>2
<1> QED
  BY <1>1, <1>2, <1>3 DEF q

\* The slot's producer is one of the active schedule.
LEMMA ScheduledProducerIsActive ==
    ASSUME NEW hs, IsHeaderState(hs), hs.active_schedule.producers # <<>>, NEW slot \in Nat
    PROVE  /\ GetScheduledProducer(hs, slot) \in Names(hs.active_schedule)
           /\ GetScheduledProducer(hs, slot) \in Producer
<1> DEFINE ps == hs.active_schedule.producers
           n  == Len(ps)
           m  == slot % (n * Repetitions)
           i  == m \div Repetitions
<1>1. ps \in Seq(Producer)
  BY DEF IsHeaderState, HeaderStateOver, ScheduleType
<1>2. n \in Nat /\ n > 0 /\ DOMAIN ps = 1 .. n
  BY <1>1
<1>3. i + 1 \in 1 .. n
  <2>1. n * Repetitions \in Nat /\ n * Repetitions > 0
    BY <1>2, RepetitionsAssumption
  <2>2. m \in Nat /\ m < n * Repetitions
    BY <2>1
  <2>3. i \in Nat /\ i < n
    <3> HIDE DEF m, n
    <3> QED
      BY <1>2, <2>2, RepetitionsAssumption, DivBound
  <2> HIDE DEF i, n
  <2> QED
    BY <1>2, <2>3
<1>4. ps[i + 1] \in Producer /\ ps[i + 1] \in {ps[j] : j \in DOMAIN ps}
  BY <1>1, <1>2, <1>3
<1> QED
  BY <1>4 DEF GetScheduledProducer, Names, Members

\* Every block needs at least one confirmation.
LEMMA RequiredConfsPositive ==
    ASSUME NEW sched \in ScheduleType
    PROVE  RequiredConfs(sched) \in Nat \ {0}
<1> DEFINE n == Len(sched.producers)
<1>1. n \in Nat
  BY DEF ScheduleType
<1>2. /\ (n \div 2) + 1 \in Nat \ {0}
      /\ (n \div 3) + 1 \in Nat \ {0}
      /\ ((n * 2) \div 3) + 1 \in Nat \ {0}
  <2> HIDE DEF n
  <2> QED
    BY <1>1
<1> HIDE DEF n
<1> QED
  BY <1>2 DEF RequiredConfs, n

\* generate_next keeps a header state well formed, and its irreversible block
\* number is the one calc_dpos_last_irreversible computes.
LEMMA GenerateNextWellFormed ==
    ASSUME NEW hs, WellFormed(hs), NEW slot \in Nat
    PROVE  LET g == GenerateNext(hs, slot)
           IN  /\ WellFormed(g)
               /\ g.producer \in Names(hs.active_schedule)
               /\ g.producer \in Producer
               /\ g.last_implied_irb =
                      Assign(hs.last_implied_irb, g.producer, hs.dpos_proposed)
               /\ g.dpos_irreversible = CalcDposLastIrreversible(g.last_implied_irb)
               /\ g.active_schedule = hs.active_schedule
               /\ g.pending_schedule = hs.pending_schedule
               /\ g.block_num = hs.block_num + 1
<1> DEFINE prod == GetScheduledProducer(hs, slot)
           num  == hs.block_num + 1
           irb  == Assign(hs.last_implied_irb, prod, hs.dpos_proposed)
           prd  == Assign(hs.last_produced, prod, num)
           cc   == GrowConfirmCount(hs.confirm_count, RequiredConfs(hs.active_schedule))
           lib  == CalcDposLastIrreversible(irb)
           g    == GenerateNext(hs, slot)
<1>1. PICK S \in SUBSET Producer, T \in SUBSET Producer : hs \in HeaderStateOver(S, T)
  BY DEF WellFormed, IsHeaderState
<1>2. prod \in Producer /\ prod \in Names(hs.active_schedule)
  BY ScheduledProducerIsActive DEF WellFormed
<1>3. prd \in [S \cup {prod} -> Nat] /\ irb \in [T \cup {prod} -> Nat]
  BY <1>1, <1>2 DEF HeaderStateOver, Assign
<1>4. \A p \in T \cup {prod} : irb[p] <= hs.dpos_proposed
  BY <1>1, <1>2 DEF HeaderStateOver, Assign, WellFormed, Ordered
<1>5. lib \in Nat /\ lib <= hs.dpos_proposed
  <2>1. IsFiniteSet(T \cup {prod}) /\ T \cup {prod} # {}
    BY <1>2, ProducerAssumption, FS_Subset
  <2>2. hs.dpos_proposed \in Nat
    BY <1>1 DEF HeaderStateOver
  <2> HIDE DEF irb, prod
  <2> QED
    BY <1>3, <1>4, <2>1, <2>2, CalcIsLeast
<1>6. /\ cc \in Seq(Nat)
      /\ \A i \in DOMAIN cc : cc[i] > 0
      /\ Len(cc) <= Len(hs.confirm_count) + 1
  <2>1. RequiredConfs(hs.active_schedule) \in Nat \ {0}
    BY <1>1, RequiredConfsPositive DEF HeaderStateOver
  <2>2. hs.confirm_count \in Seq(Nat) /\ \A i \in DOMAIN hs.confirm_count : hs.confirm_count[i] > 0
    BY <1>1 DEF HeaderStateOver, WellFormed, Tracked
  <2> QED
    BY <2>1, <2>2, MaxTrackedAssumption DEF GrowConfirmCount
<1>7. g = [block_num |-> num, slot |-> slot, producer |-> prod,
           confirmed |-> 0, new_producers |-> EmptySchedule,
           dpos_proposed |-> hs.dpos_proposed, dpos_irreversible |-> lib,
           last_produced |-> prd, last_implied_irb |-> irb, confirm_count |-> cc,
           active_schedule |-> hs.active_schedule, pending_schedule |-> hs.pending_schedule,
           pending_lib_num |-> hs.pending_lib_num]
  BY DEF GenerateNext
<1>8. /\ g \in HeaderStateOver(S \cup {prod}, T \cup {prod})
      /\ g.block_num = num /\ g.last_implied_irb = irb /\ g.dpos_irreversible = lib
      /\ g.confirm_count = cc /\ g.dpos_proposed = hs.dpos_proposed
      /\ g.active_schedule = hs.active_schedule
      /\ g.pending_schedule = hs.pending_schedule
      /\ g.producer = prod
  <2>1. EmptySchedule \in ScheduleType
    BY DEF EmptySchedule, Schedule, ScheduleType, ConsensusType
  <2> HIDE DEF g, num, prod, prd, irb, lib, cc
  <2> QED
    BY <1>1, <1>2, <1>3, <1>5, <1>6, <1>7, <2>1 DEF HeaderStateOver, num
<1>9. IsHeaderState(g)
  BY <1>1, <1>2, <1>8 DEF IsHeaderState
<1>10. Ordered(g) /\ Tracked(g)
  <2>1. hs.block_num \in Nat /\ hs.dpos_proposed \in Nat /\ hs.dpos_proposed <= hs.block_num
    BY <1>1 DEF HeaderStateOver, WellFormed, Ordered
  <2>2. Len(hs.confirm_count) + hs.dpos_proposed <= hs.block_num /\ Len(hs.confirm_count) \in Nat
    BY <1>1 DEF HeaderStateOver, WellFormed, Tracked
  <2>3. DOMAIN irb = T \cup {prod} /\ Len(cc) \in Nat
    BY <1>3, <1>6
  <2> HIDE DEF g, prod, prd, irb, lib, cc
  <2> QED
    BY <1>4, <1>5, <1>6, <1>8, <2>1, <2>2, <2>3 DEF Ordered, Tracked
<1> QED
  BY <1>2, <1>8, <1>9, <1>10 DEF WellFormed

\* set_confirmed keeps a header state well formed: it only moves the proposed
\* irreversible block forward, and what stays tracked still waits for somebody.
LEMMA SetConfirmedWellFormed ==
    ASSUME NEW hs, WellFormed(hs), NEW c \in Nat
    PROVE  /\ WellFormed(SetConfirmed(hs, c))
           /\ SetConfirmed(hs, c).dpos_irreversible = hs.dpos_irreversible
           /\ SetConfirmed(hs, c).last_implied_irb = hs.last_implied_irb
           /\ SetConfirmed(hs, c).active_schedule = hs.active_schedule
           /\ SetConfirmed(hs, c).pending_schedule = hs.pending_schedule
           /\ SetConfirmed(hs, c).block_num = hs.block_num
           /\ SetConfirmed(hs, c).producer = hs.producer
<1> DEFINE cc  == hs.confirm_count
           len == Len(cc)
           r   == SetConfirmed(hs, c)
<1>1. PICK S \in SUBSET Producer, T \in SUBSET Producer : hs \in HeaderStateOver(S, T)
  BY DEF WellFormed, IsHeaderState
<1>2. /\ cc \in Seq(Nat) /\ len \in Nat /\ DOMAIN cc = 1 .. len
      /\ \A i \in 1 .. len : cc[i] \in Nat /\ cc[i] > 0
      /\ len + hs.dpos_proposed <= hs.block_num
  BY <1>1 DEF HeaderStateOver, WellFormed, Tracked
<1>3. CASE Completed(cc, c) = {}
  <2> DEFINE dd == [i \in 1 .. len |-> IF i \in Confirmed(cc, c) THEN cc[i] - 1 ELSE cc[i]]
  <2>1. r = [hs EXCEPT !.confirmed = c, !.confirm_count = dd]
    BY <1>3 DEF SetConfirmed
  <2>2. \A i \in 1 .. len : dd[i] \in Nat /\ dd[i] > 0
    BY <1>2, <1>3 DEF Completed
  <2>3. dd \in Seq(Nat) /\ Len(dd) = len /\ DOMAIN dd = 1 .. len
    BY <1>2, <2>2
  <2> HIDE DEF dd, cc, len, r
  <2>4. /\ r \in HeaderStateOver(S, T)
        /\ r.dpos_irreversible = hs.dpos_irreversible
        /\ r.dpos_proposed = hs.dpos_proposed
        /\ r.last_implied_irb = hs.last_implied_irb
        /\ r.active_schedule = hs.active_schedule
        /\ r.pending_schedule = hs.pending_schedule
        /\ r.block_num = hs.block_num
        /\ r.producer = hs.producer
        /\ r.confirm_count = dd
    BY <1>1, <2>1, <2>3 DEF HeaderStateOver
  <2>5. IsHeaderState(r) /\ Tracked(r) /\ Ordered(r)
    BY <1>1, <1>2, <2>2, <2>3, <2>4 DEF IsHeaderState, Tracked, Ordered, WellFormed
  <2> QED
    BY <2>4, <2>5 DEF WellFormed, r
<1>4. CASE Completed(cc, c) # {}
  <2> DEFINE last == CHOOSE i \in Completed(cc, c) : \A j \in Completed(cc, c) : j <= i
             dd   == [i \in 1 .. (len - last) |-> cc[last + i] - 1]
             prop == hs.block_num - (len - last)
  <2>1. /\ last \in Completed(cc, c)
        /\ \A j \in Completed(cc, c) : j <= last
    <3>1. Completed(cc, c) \in SUBSET Nat /\ \A j \in Completed(cc, c) : j <= len
      BY <1>2 DEF Completed, Confirmed
    <3>2. \E i \in Completed(cc, c) : \A j \in Completed(cc, c) : j <= i
      <4> HIDE DEF cc, len
      <4> QED
        BY <1>2, <1>4, <3>1, GreatestNat
    <3> QED
      BY <3>2
  <2>2. last \in 1 .. len /\ last + c >= len
    BY <1>2, <2>1 DEF Completed, Confirmed
  <2>3. r = [hs EXCEPT !.confirmed = c, !.dpos_proposed = prop, !.confirm_count = dd]
    BY <1>4 DEF SetConfirmed
  <2> HIDE DEF last
  <2>4. \A i \in 1 .. (len - last) : cc[last + i] \in Nat /\ cc[last + i] > 1
    <3>1. SUFFICES ASSUME NEW i \in 1 .. (len - last)
                   PROVE  cc[last + i] \in Nat /\ cc[last + i] > 1
      OBVIOUS
    <3>2. last + i \in 1 .. len /\ last + i + c >= len /\ last + i > last
      BY <1>2, <2>2
    <3>3. last + i \in Confirmed(cc, c)
      BY <1>2, <3>2 DEF Confirmed
    <3>4. cc[last + i] # 1
      BY <2>1, <2>2, <3>2, <3>3 DEF Completed
    <3> QED
      BY <1>2, <3>2, <3>4
  <2>5. /\ dd \in Seq(Nat) /\ Len(dd) = len - last /\ DOMAIN dd = 1 .. (len - last)
        /\ \A i \in 1 .. (len - last) : dd[i] > 0
    <3>1. len - last \in Nat
      BY <1>2, <2>2
    <3>2. \A i \in 1 .. (len - last) : dd[i] \in Nat /\ dd[i] > 0
      BY <2>4
    <3>3. dd \in [1 .. (len - last) -> Nat]
      BY <3>2
    <3> HIDE DEF dd, len
    <3> QED
      BY <3>1, <3>2, <3>3
  <2>6. hs.block_num \in Nat /\ hs.dpos_proposed \in Nat
    BY <1>1 DEF HeaderStateOver
  <2>7. /\ prop \in Nat /\ prop >= hs.dpos_proposed /\ prop <= hs.block_num
        /\ (len - last) + prop <= hs.block_num
    <3>1. len \in Nat /\ last \in Nat /\ last <= len /\ len + hs.dpos_proposed <= hs.block_num
      BY <1>2, <2>2
    <3> HIDE DEF len, cc
    <3> QED
      BY <2>6, <3>1
  <2> HIDE DEF dd, cc, len, r, prop
  <2>8. /\ r \in HeaderStateOver(S, T)
        /\ r.dpos_irreversible = hs.dpos_irreversible
        /\ r.dpos_proposed = prop
        /\ r.last_implied_irb = hs.last_implied_irb
        /\ r.active_schedule = hs.active_schedule
        /\ r.pending_schedule = hs.pending_schedule
        /\ r.block_num = hs.block_num
        /\ r.producer = hs.producer
        /\ r.confirm_count = dd
    BY <1>1, <2>3, <2>5, <2>7 DEF HeaderStateOver
  <2>9. Ordered(r)
    <3>1. /\ hs.dpos_irreversible \in Nat /\ hs.dpos_irreversible <= hs.dpos_proposed
          /\ hs.dpos_irreversible < hs.block_num
          /\ hs.last_implied_irb \in [T -> Nat]
          /\ \A p \in T : hs.last_implied_irb[p] <= hs.dpos_proposed
      BY <1>1 DEF HeaderStateOver, WellFormed, Ordered
    <3> QED
      BY <2>6, <2>7, <2>8, <3>1 DEF Ordered
  <2>10. Tracked(r)
    BY <2>5, <2>7, <2>8 DEF Tracked
  <2>11. IsHeaderState(r)
    BY <2>8 DEF IsHeaderState
  <2> QED
    BY <2>8, <2>9, <2>10, <2>11 DEF WellFormed, r
<1> QED
  BY <1>3, <1>4

\* The members of a schedule are producers.
LEMMA NamesAreProducers ==
    ASSUME NEW sched \in ScheduleType
    PROVE  /\ Names(sched) \subseteq Producer
           /\ IsFiniteSet(Names(sched))
           /\ sched.producers # <<>> => Names(sched) # {}
<1>1. sched.producers \in Seq(Producer)
  BY DEF ScheduleType
<1>2. Names(sched) \subseteq Producer
  BY <1>1 DEF Names, Members
<1>3. sched.producers # <<>> => Names(sched) # {}
  <2>1. SUFFICES ASSUME sched.producers # <<>> PROVE Names(sched) # {}
    OBVIOUS
  <2>2. 1 \in DOMAIN sched.producers
    BY <1>1, <2>1
  <2> QED
    BY <2>2 DEF Names, Members
<1> QED
  BY <1>2, <1>3, ProducerAssumption, FS_Subset

\* maybe_promote_pending keeps a header state well formed and changes neither
\* the irreversible nor the proposed irreversible block number.
LEMMA PromoteWellFormed ==
    ASSUME NEW hs, WellFormed(hs), hs.producer \in Producer, CanPromote(hs)
    PROVE  LET r == MaybePromotePending(hs)
           IN  /\ WellFormed(r)
               /\ r.dpos_irreversible = hs.dpos_irreversible
               /\ r.last_implied_irb =
                      Carry(hs.last_implied_irb, Names(hs.pending_schedule), hs.dpos_irreversible)
               /\ r.active_schedule = hs.pending_schedule
               /\ r.pending_schedule = [hs.pending_schedule EXCEPT !.producers = <<>>]
               /\ r.block_num = hs.block_num
               /\ r.producer = hs.producer
<1> DEFINE names == Names(hs.pending_schedule)
           irb == Carry(hs.last_implied_irb, names, hs.dpos_irreversible)
           prd == Assign(Carry(hs.last_produced, names, hs.dpos_irreversible),
                         hs.producer, hs.block_num)
           emp == [hs.pending_schedule EXCEPT !.producers = <<>>]
           r   == MaybePromotePending(hs)
<1>1. PICK S \in SUBSET Producer, T \in SUBSET Producer : hs \in HeaderStateOver(S, T)
  BY DEF WellFormed, IsHeaderState
<1>2. names \in SUBSET Producer /\ hs.pending_schedule.producers # <<>>
  BY <1>1, NamesAreProducers DEF HeaderStateOver, CanPromote
<1>3. /\ prd \in [names \cup {hs.producer} -> Nat]
      /\ irb \in [names -> Nat]
  BY <1>1 DEF HeaderStateOver, Carry, Assign
<1>4. \A p \in names : irb[p] <= hs.dpos_proposed
  BY <1>1 DEF HeaderStateOver, Carry, WellFormed, Ordered
<1>5. emp \in ScheduleType
  <2>1. hs.pending_schedule \in ScheduleType
    BY <1>1 DEF HeaderStateOver
  <2>2. <<>> \in Seq(Producer)
    BY EmptySeq
  <2> QED
    BY <2>1, <2>2 DEF ScheduleType
<1>6. r = [hs EXCEPT !.active_schedule = hs.pending_schedule,
                     !.pending_schedule = emp,
                     !.last_produced = prd,
                     !.last_implied_irb = irb]
  BY <1>1 DEF MaybePromotePending, HeaderStateOver
<1> HIDE DEF emp, prd, irb, names, r
<1>7. /\ r \in HeaderStateOver(names \cup {hs.producer}, names)
      /\ r.dpos_irreversible = hs.dpos_irreversible
      /\ r.dpos_proposed = hs.dpos_proposed
      /\ r.last_implied_irb = irb
      /\ r.active_schedule = hs.pending_schedule
      /\ r.pending_schedule = emp
      /\ r.block_num = hs.block_num
      /\ r.producer = hs.producer
      /\ r.confirm_count = hs.confirm_count
  BY <1>1, <1>3, <1>5, <1>6 DEF HeaderStateOver
<1>8. IsHeaderState(r)
  BY <1>2, <1>7 DEF IsHeaderState
<1>9. Ordered(r) /\ Tracked(r)
  BY <1>3, <1>4, <1>7 DEF Ordered, Tracked, WellFormed
<1> QED
  BY <1>2, <1>7, <1>8, <1>9 DEF WellFormed, r, irb, names, emp

\* set_new_producers keeps a header state well formed.
LEMMA SetNewProducersWellFormed ==
    ASSUME NEW hs, WellFormed(hs), NEW sched \in ScheduleType
    PROVE  LET r == SetNewProducers(hs, sched)
           IN  /\ WellFormed(r)
               /\ r.dpos_irreversible = hs.dpos_irreversible
               /\ r.last_implied_irb = hs.last_implied_irb
               /\ r.active_schedule = hs.active_schedule
               /\ r.pending_schedule = sched
               /\ r.block_num = hs.block_num
<1> DEFINE r == SetNewProducers(hs, sched)
<1>1. PICK S \in SUBSET Producer, T \in SUBSET Producer : hs \in HeaderStateOver(S, T)
  BY DEF WellFormed, IsHeaderState
<1>2. /\ r \in HeaderStateOver(S, T)
      /\ r.dpos_irreversible = hs.dpos_irreversible
      /\ r.dpos_proposed = hs.dpos_proposed
      /\ r.last_implied_irb = hs.last_implied_irb
      /\ r.active_schedule = hs.active_schedule
      /\ r.pending_schedule = sched
      /\ r.block_num = hs.block_num
      /\ r.confirm_count = hs.confirm_count
  BY <1>1 DEF HeaderStateOver, SetNewProducers
<1> HIDE DEF r
<1>3. IsHeaderState(r) /\ Ordered(r) /\ Tracked(r)
  BY <1>2 DEF IsHeaderState, Ordered, Tracked, WellFormed
<1> QED
  BY <1>2, <1>3 DEF WellFormed, r

\* The value calc_dpos_last_irreversible returns leaves no more producers behind
\* than the index it reads.
LEMMA CalcLeavesThirdBehind ==
    ASSUME NEW S, IsFiniteSet(S), S # {}, NEW irb \in [S -> Nat],
           NEW B \in Nat, \A p \in S : irb[p] <= B
    PROVE  Cardinality(Lagging(irb, CalcDposLastIrreversible(irb))) <= Third(S)
<1> DEFINE v == CalcDposLastIrreversible(irb)
<1>1. v \in Nat /\ \A w \in Nat : ReachesThird(irb, w) => v <= w
  BY CalcIsLeast
<1>2. Third(S) \in Nat
  BY ThirdInRange
<1> HIDE DEF v
<1>3. CASE v = 0
  <2>1. Lagging(irb, v) = {}
    BY <1>3 DEF Lagging
  <2> QED
    BY <2>1, <1>2, FS_EmptySet DEF v
<1>4. CASE v # 0
  <2>1. v - 1 \in Nat /\ ~(v <= v - 1)
    BY <1>1, <1>4
  <2>2. Lagging(irb, v) = UpTo(irb, v - 1)
    BY <1>1, <2>1 DEF Lagging, UpTo
  <2>3. ~ReachesThird(irb, v - 1)
    BY <1>1, <2>1
  <2>4. Cardinality(UpTo(irb, v - 1)) \in Nat
    BY <2>1, UpToMonotone
  <2>5. ~(Cardinality(UpTo(irb, v - 1)) > Third(S))
    BY <2>3 DEF ReachesThird
  <2> QED
    BY <1>2, <2>2, <2>4, <2>5 DEF v
<1> QED
  BY <1>3, <1>4

\* generate_next never lowers a supported irreversible block number.
LEMMA GenerateNextKeepsLib ==
    ASSUME NEW hs, WellFormed(hs), Supported(hs), NEW slot \in Nat
    PROVE  LET g == GenerateNext(hs, slot)
           IN  /\ hs.dpos_irreversible <= g.dpos_irreversible
               /\ Supported(g)
               /\ DOMAIN g.last_implied_irb # {}
<1> DEFINE g    == GenerateNext(hs, slot)
           irb  == g.last_implied_irb
           lib  == g.dpos_irreversible
           old  == hs.last_implied_irb
           S    == Names(hs.active_schedule)
<1>1. /\ WellFormed(g) /\ g.producer \in S /\ g.producer \in Producer
      /\ irb = Assign(old, g.producer, hs.dpos_proposed)
      /\ lib = CalcDposLastIrreversible(irb)
      /\ g.active_schedule = hs.active_schedule
  BY GenerateNextWellFormed
<1> HIDE DEF g
<1>2. PICK U \in SUBSET Producer, T \in SUBSET Producer : hs \in HeaderStateOver(U, T)
  BY DEF WellFormed, IsHeaderState
<1>3. /\ old \in [T -> Nat] /\ DOMAIN old = T
      /\ hs.dpos_irreversible \in Nat /\ hs.dpos_proposed \in Nat
      /\ hs.dpos_irreversible <= hs.dpos_proposed
      /\ \A p \in T : old[p] <= hs.dpos_proposed
      /\ hs.active_schedule \in ScheduleType
  BY <1>2 DEF HeaderStateOver, WellFormed, Ordered
<1>4. IsFiniteSet(S)
  BY <1>3, NamesAreProducers
<1>5. T \cup {g.producer} = S
  <2>1. CASE T = {}
    BY <1>1, <1>3, <2>1 DEF Supported
  <2>2. CASE T # {}
    BY <1>1, <1>3, <2>2 DEF Supported
  <2> QED
    BY <2>1, <2>2
<1> HIDE DEF S
<1>6. /\ irb \in [S -> Nat] /\ DOMAIN irb = S
      /\ \A p \in S : irb[p] <= hs.dpos_proposed
      /\ irb[g.producer] = hs.dpos_proposed
      /\ \A p \in T : p # g.producer => irb[p] = old[p]
  <2>1. irb = [p \in S |-> IF p = g.producer THEN hs.dpos_proposed ELSE old[p]]
    BY <1>1, <1>3, <1>5 DEF Assign
  <2> HIDE DEF irb, old
  <2> QED
    BY <1>1, <1>3, <1>5, <2>1
<1>7. /\ lib \in Nat /\ ReachesThird(irb, lib)
      /\ Cardinality(Lagging(irb, lib)) <= Third(S)
  <2>1. S # {}
    BY <1>1
  <2> HIDE DEF irb, lib
  <2> QED
    BY <1>1, <1>3, <1>4, <1>6, <2>1, CalcIsLeast, CalcLeavesThirdBehind
<1>8. hs.dpos_irreversible <= lib
  <2>1. CASE T = {}
    BY <1>3, <1>7, <2>1 DEF Supported
  <2>2. CASE T # {}
    <3>1. /\ T = S
          /\ Cardinality(Lagging(old, hs.dpos_irreversible)) <= Third(S)
      BY <1>3, <2>2 DEF Supported, S
    <3>2. SUFFICES ASSUME lib < hs.dpos_irreversible PROVE FALSE
      BY <1>3, <1>7
    <3>3. UpTo(irb, lib) \subseteq Lagging(old, hs.dpos_irreversible)
      <4>1. SUFFICES ASSUME NEW p \in S, irb[p] <= lib PROVE old[p] < hs.dpos_irreversible
        BY <1>3, <1>6, <3>1 DEF UpTo, Lagging
      <4>2. p # g.producer
        BY <1>3, <1>6, <1>7, <3>2, <4>1
      <4> HIDE DEF irb, old, lib
      <4> QED
        BY <1>3, <1>6, <1>7, <3>1, <3>2, <4>1, <4>2
    <3>4. Lagging(old, hs.dpos_irreversible) \subseteq S
      BY <1>3, <3>1 DEF Lagging
    <3>5. /\ Cardinality(UpTo(irb, lib)) <= Cardinality(Lagging(old, hs.dpos_irreversible))
          /\ Cardinality(UpTo(irb, lib)) \in Nat
          /\ Cardinality(Lagging(old, hs.dpos_irreversible)) \in Nat
      BY <1>4, <3>3, <3>4, FS_Subset, FS_CardinalityType
    <3>6. Third(S) \in Nat
      BY <1>1, <1>4, ThirdInRange
    <3> QED
      BY <1>6, <1>7, <3>1, <3>5, <3>6 DEF ReachesThird
  <2> QED
    BY <2>1, <2>2
<1>9. Supported(g)
  BY <1>1, <1>6, <1>7 DEF Supported, S
<1> QED
  BY <1>1, <1>6, <1>8, <1>9 DEF g

\* maybe_promote_pending keeps the irreversible block number supported when the
\* new schedule does not skip fewer producers than the old one.
LEMMA PromoteSupported ==
    ASSUME NEW hs, WellFormed(hs), hs.producer \in Producer, CanPromote(hs), Supported(hs),
           DOMAIN hs.last_implied_irb # {},
           Third(Names(hs.active_schedule)) <= Third(Names(hs.pending_schedule))
    PROVE  LET r == MaybePromotePending(hs)
           IN  Supported(r) /\ DOMAIN r.last_implied_irb # {}
<1> DEFINE r   == MaybePromotePending(hs)
           old == hs.last_implied_irb
           irb == r.last_implied_irb
           lib == hs.dpos_irreversible
           S   == Names(hs.active_schedule)
           N   == Names(hs.pending_schedule)
<1>1. /\ irb = Carry(old, N, lib)
      /\ r.dpos_irreversible = lib
      /\ r.active_schedule = hs.pending_schedule
  BY PromoteWellFormed
<1>2. PICK U \in SUBSET Producer, T \in SUBSET Producer : hs \in HeaderStateOver(U, T)
  BY DEF WellFormed, IsHeaderState
<1>3. /\ old \in [S -> Nat] /\ lib \in Nat
      /\ Cardinality(Lagging(old, lib)) <= Third(S)
      /\ hs.active_schedule \in ScheduleType /\ hs.pending_schedule \in ScheduleType
  BY <1>2 DEF HeaderStateOver, Supported
<1>4. IsFiniteSet(S) /\ S # {} /\ IsFiniteSet(N) /\ N # {}
  BY <1>3, NamesAreProducers DEF CanPromote, WellFormed
<1> HIDE DEF r, S, N
<1>5. DOMAIN irb = N /\ \A p \in N : irb[p] = IF p \in S THEN old[p] ELSE lib
  BY <1>1, <1>3 DEF Carry
<1>6. Lagging(irb, lib) \subseteq Lagging(old, lib) /\ Lagging(old, lib) \subseteq S
  BY <1>3, <1>5 DEF Lagging
<1>7. /\ Cardinality(Lagging(irb, lib)) <= Cardinality(Lagging(old, lib))
      /\ Cardinality(Lagging(irb, lib)) \in Nat /\ Cardinality(Lagging(old, lib)) \in Nat
  BY <1>4, <1>6, FS_Subset, FS_CardinalityType
<1>8. Third(S) \in Nat /\ Third(N) \in Nat /\ Third(S) <= Third(N)
  BY <1>4, ThirdInRange DEF S, N
<1>9. Cardinality(Lagging(irb, lib)) <= Third(N)
  BY <1>3, <1>7, <1>8
<1> QED
  BY <1>1, <1>4, <1>5, <1>9 DEF Supported, r, N
===============================================================================
