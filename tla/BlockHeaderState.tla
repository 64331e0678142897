--------------------------- MODULE BlockHeaderState ---------------------------
(***************************************************************************)
(* The DPoS header state of one block and the pure functions that derive   *)
(* the header state of its child: libraries/chain/block_header_state.cpp.  *)
(* Digests, signatures and keys are left out: no property depends on them. *)
(***************************************************************************)
EXTENDS Naturals, Sequences, FiniteSets

CONSTANTS
    Producer,       \* account names that may appear in a producer schedule
    NoProducer,     \* the empty account name in the genesis header
    Repetitions,    \* config::producer_repetitions
    MaxTracked      \* config::maximum_tracked_dpos_confirmations

ASSUME ProducerAssumption == IsFiniteSet(Producer)
ASSUME NoProducerAssumption == NoProducer \notin Producer
ASSUME RepetitionsAssumption == Repetitions \in Nat \ {0}
ASSUME MaxTrackedAssumption == MaxTracked \in Nat \ {0}

(***************************************************************************)
(* producer_schedule_type.  The wasm interface accepts only duplicate-free *)
(* producer lists; the empty list is accepted too.  Versions of proposed   *)
(* schedules start at 1, so EmptySchedule also stands for an absent one.   *)
(***************************************************************************)
ConsensusType == {0, 1, 2}

Members(ps) == {ps[i] : i \in DOMAIN ps}

Names(sched) == Members(sched.producers)

IsProducerList(ps) ==
    /\ ps \in Seq(Producer)
    /\ \A i, j \in DOMAIN ps : ps[i] = ps[j] => i = j

Schedule(ver, ctype, ps) ==
    [version |-> ver, consensus_type |-> ctype, producers |-> ps]

EmptySchedule == Schedule(0, 0, <<>>)

(***************************************************************************)
(* get_scheduled_producer: every producer owns Repetitions slots in turn.  *)
(***************************************************************************)
GetScheduledProducer(hs, slot) ==
    LET n == Len(hs.active_schedule.producers)
    IN  hs.active_schedule.producers[((slot % (n * Repetitions)) \div Repetitions) + 1]

(***************************************************************************)
(* calc_dpos_last_irreversible: the element at 0-based index (n-1)/3 of    *)
(* the sorted vector, i.e. the least value that more than (n-1)/3 of the   *)
(* producers do not exceed.                                                *)
(***************************************************************************)
UpTo(irb, v) == {p \in DOMAIN irb : irb[p] <= v}

Third(S) == (Cardinality(S) - 1) \div 3

ReachesThird(irb, v) == Cardinality(UpTo(irb, v)) > Third(DOMAIN irb)

CalcDposLastIrreversible(irb) ==
    IF DOMAIN irb = {}
    THEN 0
    ELSE CHOOSE v \in {irb[p] : p \in DOMAIN irb} :
            /\ ReachesThird(irb, v)
            /\ \A p \in DOMAIN irb : ReachesThird(irb, irb[p]) => v <= irb[p]

(***************************************************************************)
(* The number of distinct confirmations after which a block is proposed as *)
(* irreversible, by the consensus_type of the schedule that signs it.      *)
(***************************************************************************)
RequiredConfs(sched) ==
    LET n == Len(sched.producers)
    IN  CASE sched.consensus_type = 1 -> (n \div 2) + 1
          [] sched.consensus_type = 2 -> (n \div 3) + 1
          [] OTHER -> ((n * 2) \div 3) + 1

Assign(f, x, v) == [y \in DOMAIN f \cup {x} |-> IF y = x THEN v ELSE f[y]]

\* Mutant: a full vector is copied without the shift.
GrowConfirmCountUnshifted(cc, need) ==
    IF Len(cc) < MaxTracked THEN Append(cc, need) ELSE [cc EXCEPT ![Len(cc)] = need]

GrowConfirmCount(cc, need) ==
    IF Len(cc) < MaxTracked THEN Append(cc, need) ELSE Append(Tail(cc), need)

\* Mutant: a producer implies that the block it builds on is irreversible.
GenerateNextImplyingParent(hs, slot) ==
    LET prod == GetScheduledProducer(hs, slot)
        num  == hs.block_num + 1
        irb  == Assign(hs.last_implied_irb, prod, hs.block_num)
    IN  [hs EXCEPT !.block_num = num, !.slot = slot, !.producer = prod, !.confirmed = 0,
                   !.new_producers = EmptySchedule,
                   !.last_produced = Assign(@, prod, num),
                   !.last_implied_irb = irb,
                   !.dpos_irreversible = CalcDposLastIrreversible(irb),
                   !.confirm_count = GrowConfirmCount(@, RequiredConfs(hs.active_schedule))]

GenerateNext(hs, slot) ==
    LET prod == GetScheduledProducer(hs, slot)
        num  == hs.block_num + 1
        irb  == Assign(hs.last_implied_irb, prod, hs.dpos_proposed)
    IN  [block_num |-> num, slot |-> slot, producer |-> prod,
         confirmed |-> 0, new_producers |-> EmptySchedule,
         dpos_proposed |-> hs.dpos_proposed,
         dpos_irreversible |-> CalcDposLastIrreversible(irb),
         last_produced |-> Assign(hs.last_produced, prod, num),
         last_implied_irb |-> irb,
         confirm_count |-> GrowConfirmCount(hs.confirm_count, RequiredConfs(hs.active_schedule)),
         active_schedule |-> hs.active_schedule, pending_schedule |-> hs.pending_schedule,
         pending_lib_num |-> hs.pending_lib_num]

(***************************************************************************)
(* set_confirmed walks from the newest tracked block to older ones,        *)
(* confirming c predecessors and the block itself.  It stops at the first  *)
(* block whose count reaches zero: that block is proposed as irreversible  *)
(* and it and everything older stop being tracked.                         *)
(***************************************************************************)
Confirmed(cc, c) == {i \in DOMAIN cc : i + c >= Len(cc)}

Completed(cc, c) == {i \in Confirmed(cc, c) : cc[i] = 1}

\* Mutant: a completed block is proposed but stays tracked.
SetConfirmedUncut(hs, c) ==
    LET cc == hs.confirm_count
    IN  [hs EXCEPT !.confirmed = c,
                   !.dpos_proposed = IF Completed(cc, c) = {} THEN @ ELSE hs.block_num,
                   !.confirm_count = [i \in DOMAIN cc |->
                       IF i \in Confirmed(cc, c) THEN cc[i] - 1 ELSE cc[i]]]

SetConfirmed(hs, c) ==
    LET cc   == hs.confirm_count
        len  == Len(cc)
        last == CHOOSE i \in Completed(cc, c) : \A j \in Completed(cc, c) : j <= i
    IN  IF Completed(cc, c) = {}
        THEN [hs EXCEPT !.confirmed = c,
                        !.confirm_count = [i \in 1 .. len |->
                            IF i \in Confirmed(cc, c) THEN cc[i] - 1 ELSE cc[i]]]
        ELSE [hs EXCEPT !.confirmed = c,
                        !.dpos_proposed = hs.block_num - (len - last),
                        !.confirm_count = [i \in 1 .. (len - last) |-> cc[last + i] - 1]]

(***************************************************************************)
(* maybe_promote_pending: the pending schedule becomes active once the     *)
(* block that announced it is irreversible.  Producers that were not       *)
(* scheduled before start at the last irreversible block.                  *)
(***************************************************************************)
CanPromote(hs) ==
    /\ hs.pending_schedule.producers # <<>>
    /\ hs.dpos_irreversible >= hs.pending_lib_num

\* Mutant: producers that join the schedule start at zero.
CarryFromZero(f, S, start) == [p \in S |-> IF p \in DOMAIN f THEN f[p] ELSE 0]

Carry(f, S, start) == [p \in S |-> IF p \in DOMAIN f THEN f[p] ELSE start]

MaybePromotePending(hs) ==
    IF ~CanPromote(hs)
    THEN hs
    ELSE LET names == Names(hs.pending_schedule)
         IN  [hs EXCEPT
                !.active_schedule = hs.pending_schedule,
                !.pending_schedule.producers = <<>>,
                !.last_produced =
                    Assign(Carry(@, names, hs.dpos_irreversible), hs.producer, hs.block_num),
                !.last_implied_irb = Carry(@, names, hs.dpos_irreversible)]

SetNewProducersOk(hs, sched) ==
    /\ sched.version = hs.active_schedule.version + 1
    /\ hs.pending_schedule.producers = <<>>

SetNewProducers(hs, sched) ==
    [hs EXCEPT !.new_producers = sched,
               !.pending_schedule = sched,
               !.pending_lib_num = hs.block_num]

(***************************************************************************)
(* next: what a node derives from a received header h on top of hs.        *)
(* NextOk collects the assertions that reject the header.                  *)
(***************************************************************************)
\* The first confirmed block, result.block_num - h.confirmed, is a uint32: when
\* the header confirms more blocks than its own number the difference wraps to
\* a number above every block number, and the check passes.
Wraps(num, c) == c > num

\* Mutant: the range may reach the last block its producer confirmed.
NoDoubleConfirmOffByOne(hs, prod, c) ==
    prod \in DOMAIN hs.last_produced =>
        hs.last_produced[prod] + c <= hs.block_num + 1 \/ Wraps(hs.block_num + 1, c)

NoDoubleConfirm(hs, prod, c) ==
    prod \in DOMAIN hs.last_produced =>
        hs.last_produced[prod] + c < hs.block_num + 1 \/ Wraps(hs.block_num + 1, c)

Template(hs, h) == MaybePromotePending(SetConfirmed(GenerateNext(hs, h.slot), h.confirmed))

WasPromoted(hs, h) == CanPromote(SetConfirmed(GenerateNext(hs, h.slot), h.confirmed))

NextOk(hs, h) ==
    /\ h.slot > hs.slot
    /\ h.producer = GetScheduledProducer(hs, h.slot)
    /\ h.schedule_version = hs.active_schedule.version
    /\ NoDoubleConfirm(hs, h.producer, h.confirmed)
    /\ h.new_producers # EmptySchedule =>
          /\ ~WasPromoted(hs, h)
          /\ SetNewProducersOk(Template(hs, h), h.new_producers)

NextState(hs, h) ==
    IF h.new_producers = EmptySchedule
    THEN Template(hs, h)
    ELSE SetNewProducers(Template(hs, h), h.new_producers)

(***************************************************************************)
(* initialize_fork_db: the genesis header state.  Both schedules are the   *)
(* initial one, so the first block promotes it.                            *)
(***************************************************************************)
GenesisState(sched) ==
    [block_num |-> 1, slot |-> 0, producer |-> NoProducer,
     confirmed |-> 1, new_producers |-> EmptySchedule,
     dpos_proposed |-> 0, dpos_irreversible |-> 0,
     last_produced |-> [p \in {} |-> 0], last_implied_irb |-> [p \in {} |-> 0],
     confirm_count |-> <<>>,
     active_schedule |-> sched, pending_schedule |-> sched, pending_lib_num |-> 0]

-------------------------------------------------------------------------------
(***************************************************************************)
(* What the members of a header state may hold.                            *)
(***************************************************************************)
ScheduleType == [version : Nat, consensus_type : ConsensusType, producers : Seq(Producer)]

HeaderStateOver(S, T) ==
    [block_num : Nat \ {0}, slot : Nat, producer : Producer \cup {NoProducer},
     confirmed : Nat, new_producers : ScheduleType,
     dpos_proposed : Nat, dpos_irreversible : Nat,
     last_produced : [S -> Nat], last_implied_irb : [T -> Nat],
     confirm_count : Seq(Nat),
     active_schedule : ScheduleType, pending_schedule : ScheduleType,
     pending_lib_num : Nat]

IsHeaderState(hs) == \E S, T \in SUBSET Producer : hs \in HeaderStateOver(S, T)

(***************************************************************************)
(* Facts every reachable header state satisfies: the finality numbers are  *)
(* ordered, every tracked block still waits for a confirmation, and only   *)
(* blocks after the proposed irreversible one are tracked.                 *)
(***************************************************************************)
Ordered(hs) ==
    /\ hs.dpos_irreversible <= hs.dpos_proposed
    /\ hs.dpos_proposed <= hs.block_num
    /\ hs.dpos_irreversible < hs.block_num
    /\ \A p \in DOMAIN hs.last_implied_irb : hs.last_implied_irb[p] <= hs.dpos_proposed

Tracked(hs) ==
    /\ \A i \in DOMAIN hs.confirm_count : hs.confirm_count[i] > 0
    /\ Len(hs.confirm_count) + hs.dpos_proposed <= hs.block_num

WellFormed(hs) ==
    /\ IsHeaderState(hs)
    /\ hs.active_schedule.producers # <<>>
    /\ Ordered(hs)
    /\ Tracked(hs)

(***************************************************************************)
(* The irreversible block number of a header state is supported when no    *)
(* more producers lag behind it than calc_dpos_last_irreversible skips.    *)
(***************************************************************************)
Lagging(irb, lib) == {p \in DOMAIN irb : irb[p] < lib}

Supported(hs) ==
    LET S == DOMAIN hs.last_implied_irb
    IN  IF S = {}
        THEN hs.dpos_irreversible = 0 /\ \E p \in Producer : Names(hs.active_schedule) = {p}
        ELSE /\ S = Names(hs.active_schedule)
             /\ Cardinality(Lagging(hs.last_implied_irb, hs.dpos_irreversible)) <= Third(S)
===============================================================================
