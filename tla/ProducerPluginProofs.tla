------------------------ MODULE ProducerPluginProofs ------------------------
(* For all schedules, repetitions, watermarks and times: the turn that      *)
(* calculate_next_block_time returns is the first open one.                 *)
EXTENDS ProducerPlugin, TLAPS

(* The turn a slot belongs to. *)
Turn(slot) == slot \div Repetitions

(* Quotient and remainder of a number that is given as both. *)
LEMMA Division ==
  ASSUME NEW d \in Nat \ {0}, NEW q \in Nat, NEW y \in 0..(d - 1)
  PROVE  (q * d + y) \div d = q /\ (q * d + y) % d = y
<1> DEFINE x == q * d + y
           p == x \div d
           z == x % d
<1>1. q * d \in Nat /\ x \in Nat
  OBVIOUS
<1>2. p \in Nat /\ z \in 0..(d - 1) /\ x = p * d + z
  BY <1>1
<1>3. p * d + z = q * d + y
  BY <1>2
<1> HIDE DEF p, z
<1>4. ASSUME p < q PROVE FALSE
  <2>1. q * d = p * d + (q - p) * d
    BY <1>2
  <2>2. (q - p) * d >= d
    BY <1>2, <1>4
  <2>3. p * d \in Nat
    BY <1>2
  <2> QED  BY <1>1, <1>2, <1>3, <2>1, <2>2, <2>3
<1>5. ASSUME q < p PROVE FALSE
  <2>1. p * d = q * d + (p - q) * d
    BY <1>2
  <2>2. (p - q) * d >= d
    BY <1>2, <1>5
  <2>3. p * d \in Nat
    BY <1>2
  <2> QED  BY <1>1, <1>2, <1>3, <2>1, <2>2, <2>3
<1>6. p = q
  BY <1>2, <1>4, <1>5
<1>7. z = y
  BY <1>1, <1>2, <1>3, <1>6
<1> QED  BY <1>6, <1>7 DEF p, z

(* A slot is its turn and its place in it. *)
LEMMA TurnOfSlot ==
  ASSUME NEW slot \in Nat
  PROVE  /\ Turn(slot) \in Nat
         /\ slot % Repetitions \in 0..(Repetitions - 1)
         /\ slot = Turn(slot) * Repetitions + (slot % Repetitions)
  BY RepetitionsAssumption DEF Turn

(* The place in the schedule that get_scheduled_producer computes depends   *)
(* on the turn alone.                                                       *)
LEMMA PlaceOfTurn ==
  ASSUME NEW size \in Nat \ {0}, NEW slot \in Nat
  PROVE  (slot % (size * Repetitions)) \div Repetitions = Turn(slot) % size
<1> DEFINE R == Repetitions
           t == slot \div R
           r == slot % R
           q == t \div size
           k == t % size
<1>1. R \in Nat \ {0}
  BY RepetitionsAssumption
<1> HIDE DEF R
<1>2. t \in Nat /\ r \in 0..(R - 1) /\ slot = t * R + r
  BY <1>1
<1> HIDE DEF t, r
<1>3. q \in Nat /\ k \in 0..(size - 1) /\ t = q * size + k
  BY <1>2
<1> HIDE DEF q, k
<1>4. size * R \in Nat \ {0}
  BY <1>1
<1>5. k * R \in Nat /\ k * R + R <= size * R
  <2>1. k * R \in Nat
    BY <1>1, <1>3
  <2>2. size * R = (k + 1) * R + (size - k - 1) * R
    BY <1>1, <1>3
  <2>3. (size - k - 1) * R \in Nat
    BY <1>1, <1>3
  <2>4. (k + 1) * R = k * R + R
    BY <1>1, <1>3
  <2> QED  BY <1>1, <2>1, <2>2, <2>3, <2>4
<1>6. k * R + r \in 0..(size * R - 1)
  BY <1>1, <1>2, <1>4, <1>5
<1>7. slot = q * (size * R) + (k * R + r)
  <2>1. (q * size + k) * R = q * (size * R) + k * R
    BY <1>1, <1>3
  <2> QED  BY <1>1, <1>2, <1>3, <1>4, <1>5, <2>1
<1>8. slot % (size * R) = k * R + r
  BY <1>3, <1>4, <1>6, <1>7, Division
<1>9. (k * R + r) \div R = k
  BY <1>1, <1>2, <1>3, Division
<1> QED  BY <1>8, <1>9 DEF Turn, R, t, k

(* Turns grow with slots. *)
LEMMA TurnsGrow ==
  ASSUME NEW slot \in Nat, NEW later \in Nat, slot <= later
  PROVE  Turn(slot) \in Nat /\ Turn(later) \in Nat /\ Turn(slot) <= Turn(later)
<1> DEFINE R == Repetitions
           t == slot \div R
           u == later \div R
<1>1. R \in Nat \ {0}
  BY RepetitionsAssumption
<1> HIDE DEF R
<1>2. t \in Nat /\ u \in Nat /\ t * R <= slot /\ later < u * R + R
  BY <1>1
<1> HIDE DEF t, u
<1>3. ASSUME u < t PROVE FALSE
  <2>1. t * R = (u + 1) * R + (t - u - 1) * R
    BY <1>1, <1>2
  <2>2. (t - u - 1) * R \in Nat
    BY <1>1, <1>2, <1>3
  <2>3. (u + 1) * R = u * R + R
    BY <1>1, <1>2
  <2>4. u * R \in Nat
    BY <1>1, <1>2
  <2> QED  BY <1>1, <1>2, <2>1, <2>2, <2>3, <2>4
<1> QED  BY <1>2, <1>3 DEF Turn, t, u, R

(* The number of places from j forward to i in a round. *)
Ahead(i, j, size) == IF i < j THEN i + size - j ELSE i - j

(* From a turn at place j, the first turn at another place i comes after    *)
(* i - j turns, or that many and a whole round.                             *)
LEMMA FirstTurnAt ==
  ASSUME NEW size \in Nat \ {0}, NEW turn \in Nat, NEW i \in 0..(size - 1), i # turn % size
  PROVE  /\ Ahead(i, turn % size, size) \in Nat \ {0}
         /\ (turn + Ahead(i, turn % size, size)) % size = i
         /\ \A u \in turn..(turn + Ahead(i, turn % size, size) - 1) : u % size # i
<1> DEFINE q    == turn \div size
           j    == turn % size
           more == Ahead(i, j, size)
<1>1. q \in Nat /\ j \in 0..(size - 1) /\ turn = q * size + j
  OBVIOUS
<1>2. i # j /\ more = IF i < j THEN i + size - j ELSE i - j
  BY DEF Ahead
<1> HIDE DEF q, j, more
<1>3. q * size \in Nat /\ (q + 1) * size = q * size + size
  BY <1>1
<1>4. ASSUME NEW k \in 0..(size - 1)
      PROVE  (q * size + k) % size = k /\ ((q + 1) * size + k) % size = k
  <2>1. (q * size + k) % size = k
    BY <1>1, Division
  <2>2. q + 1 \in Nat
    BY <1>1
  <2>3. ((q + 1) * size + k) % size = k
    BY <2>2, Division
  <2> QED  BY <2>1, <2>3
<1>5. more \in Nat \ {0}
  BY <1>1, <1>2
<1>6. (turn + more) % size = i
  <2>1. CASE i < j
    <3>1. turn + more = (q + 1) * size + i
      BY <1>1, <1>2, <1>3, <2>1
    <3> QED  BY <1>4, <3>1
  <2>2. CASE j < i
    <3>1. turn + more = q * size + i
      BY <1>1, <1>2, <1>3, <2>2
    <3> QED  BY <1>4, <3>1
  <2> QED  BY <1>1, <1>2, <2>1, <2>2
<1>7. ASSUME NEW u \in turn..(turn + more - 1) PROVE u % size # i
  <2> DEFINE e == u - turn
  <2>1. e \in 0..(more - 1) /\ u = q * size + (j + e)
    BY <1>1, <1>3, <1>5
  <2> HIDE DEF e
  <2>2. CASE j + e < size
    <3>1. j + e \in 0..(size - 1) /\ j + e # i
      BY <1>1, <1>2, <1>5, <2>1, <2>2
    <3> QED  BY <1>4, <2>1, <3>1
  <2>3. CASE j + e >= size
    <3>1. j + e - size \in 0..(size - 1) /\ j + e - size # i
      BY <1>1, <1>2, <1>5, <2>1, <2>3
    <3>2. u = (q + 1) * size + (j + e - size)
      BY <1>1, <1>3, <1>5, <2>1
    <3> QED  BY <1>4, <3>1, <3>2
  <2> QED  BY <1>1, <1>5, <2>1, <2>2, <2>3
<1> QED  BY <1>5, <1>6, <1>7 DEF j, more

(* The slot calculate_next_block_time returns is not before the first slot  *)
(* that the watermark leaves open, belongs to the producer, and no slot in  *)
(* between does, whatever the size of the schedule, the repetitions, the    *)
(* watermark and the place of the slot in its round.                        *)
THEOREM NextTurnIsFirst == Scheduling => FirstOpenTurn
<1> SUFFICES ASSUME Scheduling,
                    NEW p \in Local \cap ToSet(HeadBlock(node).active),
                    NEW cur \in PendingSlots(node)
             PROVE  LET least == MinimumSlot(node, p, cur)
                        slot  == NextBlockTime(node, p, cur)
                    IN  /\ slot >= least /\ Scheduled(HeadBlock(node).active, slot) = p
                        /\ \A s \in least..(slot - 1) : Scheduled(HeadBlock(node).active, s) # p
  BY DEF FirstOpenTurn
<1> DEFINE active == HeadBlock(node).active
           size   == Len(active)
           R      == Repetitions
           i      == CHOOSE k \in DOMAIN active : active[k] = p
           least  == MinimumSlot(node, p, cur)
           turn   == Turn(least)
           j      == turn % size
           more   == Ahead(i - 1, j, size)
           slot   == NextBlockTime(node, p, cur)
<1>1. R \in Nat \ {0}
  BY RepetitionsAssumption
<1>2. /\ size \in Nat \ {0} /\ DOMAIN active = 1..size
      /\ \A k, l \in DOMAIN active : active[k] = active[l] => k = l
  BY DEF Scheduling
<1>3. i \in 1..size /\ active[i] = p
  <2>1. \E k \in DOMAIN active : active[k] = p
    BY DEF ToSet
  <2> QED  BY <1>2, <2>1
<1>4. least \in Nat
  <2>1. cur \in Nat
    BY DEF PendingSlots, Scheduling
  <2>2. node.marks[p] \in Nat /\ Num(node) \in Nat
    BY DEF Scheduling
  <2> QED  BY <2>1, <2>2 DEF MinimumSlot
<1> HIDE DEF least
<1>5. turn \in Nat /\ least = turn * R + (least % R) /\ least % R \in 0..(R - 1)
  BY <1>4, TurnOfSlot
<1>6. \A s \in Nat : Scheduled(active, s) = active[(Turn(s) % size) + 1]
  BY <1>2, PlaceOfTurn DEF Scheduled
<1>7. j \in 0..(size - 1)
  BY <1>2, <1>5
<1>8. slot = IF i = j + 1 THEN least ELSE least - (least % R) + more * R
  <2> DEFINE k == ((least % (size * R)) \div R) + 1
  <2>1. k = j + 1
    BY <1>2, <1>4, PlaceOfTurn
  <2>2. slot = IF i = k THEN least
               ELSE least - (least % R) + (IF i < k THEN i + size - k ELSE i - k) * R
    BY DEF NextBlockTime, least
  <2> HIDE DEF k, i, size, j
  <2>3. (IF i < k THEN i + size - k ELSE i - k) = more
    BY <1>2, <1>3, <1>7, <2>1 DEF Ahead
  <2> QED  BY <2>1, <2>2, <2>3
<1> HIDE DEF active, size, i, least, j, slot, R
<1>9. CASE i = j + 1
  <2>1. slot = least
    BY <1>8, <1>9
  <2>2. Scheduled(active, slot) = p
    BY <1>3, <1>4, <1>6, <1>9, <2>1 DEF j
  <2> QED  BY <1>4, <2>1, <2>2 DEF active, least, slot
<1>10. CASE i # j + 1
  <2>1. /\ more \in Nat \ {0}
        /\ (turn + more) % size = i - 1
        /\ \A u \in turn..(turn + more - 1) : u % size # i - 1
    <3> DEFINE place == i - 1
    <3>1. place \in 0..(size - 1) /\ place # turn % size
      BY <1>2, <1>3, <1>7, <1>10 DEF j
    <3> HIDE DEF place, turn
    <3>2. /\ Ahead(place, turn % size, size) \in Nat \ {0}
          /\ (turn + Ahead(place, turn % size, size)) % size = place
          /\ \A u \in turn..(turn + Ahead(place, turn % size, size) - 1) : u % size # place
      BY <1>2, <1>5, <3>1, FirstTurnAt, Zenon
    <3> QED  BY <3>2, Zenon DEF place, j
  <2> HIDE DEF more, turn
  <2>2. slot = (turn + more) * R
    <3>1. (turn + more) * R = turn * R + more * R
      BY <1>1, <1>5, <2>1
    <3>2. turn * R \in Nat /\ more * R \in Nat
      BY <1>1, <1>5, <2>1
    <3> QED  BY <1>1, <1>4, <1>5, <1>8, <1>10, <3>1, <3>2
  <2>3. slot \in Nat /\ Turn(slot) = turn + more
    <3>1. turn + more \in Nat /\ 0 \in 0..(R - 1)
      BY <1>1, <1>5, <2>1
    <3>2. ((turn + more) * R + 0) \div R = turn + more
      BY <1>1, <3>1, Division
    <3>3. (turn + more) * R \in Nat
      BY <1>1, <3>1
    <3> QED  BY <2>2, <3>2, <3>3 DEF Turn, R
  <2>4. slot >= least
    <3>1. slot = turn * R + R + (more - 1) * R
      BY <1>1, <1>5, <2>1, <2>2
    <3>2. turn * R \in Nat /\ (more - 1) * R \in Nat
      BY <1>1, <1>5, <2>1
    <3> QED  BY <1>1, <1>4, <1>5, <3>1, <3>2
  <2>5. Scheduled(active, slot) = p
    BY <1>2, <1>3, <1>6, <2>1, <2>3
  <2>6. ASSUME NEW s \in least..(slot - 1) PROVE Scheduled(active, s) # p
    <3>1. s \in Nat /\ least <= s /\ s < slot
      BY <1>4, <2>3
    <3>2. Turn(s) \in Nat /\ turn <= Turn(s)
      BY <1>4, <3>1, TurnsGrow DEF turn
    <3>3. Turn(s) < turn + more
      <4>1. Turn(s) * R <= s
        BY <1>1, <3>1 DEF Turn, R
      <4>2. ASSUME Turn(s) >= turn + more PROVE FALSE
        <5>1. Turn(s) * R = (turn + more) * R + (Turn(s) - turn - more) * R
          BY <1>1, <1>5, <2>1, <3>2
        <5>2. (Turn(s) - turn - more) * R \in Nat
          BY <1>1, <1>5, <2>1, <3>2, <4>2
        <5> QED  BY <2>2, <2>3, <3>1, <4>1, <5>1, <5>2
      <4> QED  BY <1>5, <2>1, <3>2, <4>2
    <3>4. Turn(s) % size \in 0..(size - 1) /\ Turn(s) % size # i - 1
      <4>1. Turn(s) \in turn..(turn + more - 1)
        BY <1>5, <2>1, <3>2, <3>3
      <4>2. Turn(s) % size \in 0..(size - 1)
        BY <1>2, <3>2
      <4> QED  BY <2>1, <4>1, <4>2
    <3>5. (Turn(s) % size) + 1 \in DOMAIN active /\ (Turn(s) % size) + 1 # i
      BY <1>2, <1>3, <3>4
    <3> QED  BY <1>2, <1>3, <1>6, <3>1, <3>5
  <2> QED  BY <2>4, <2>5, <2>6 DEF active, least, slot
<1> QED  BY <1>9, <1>10
=============================================================================
