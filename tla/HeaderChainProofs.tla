--------------------------- MODULE HeaderChainProofs ---------------------------
(***************************************************************************)
(* Invariance proofs for HeaderChain, for every producer set, every set of *)
(* proposals and every length of the branch.                               *)
(***************************************************************************)
EXTENDS HeaderChain, BlockHeaderStateProofs

(***************************************************************************)
(* The inductive invariant behind TypeOK and LibOrder.                     *)
(***************************************************************************)
ChainInv ==
    /\ WellFormed(head)
    /\ gpo \in ProposalType
    /\ \/ pending = NoPending
       \/ /\ DOMAIN pending = {"on", "hs", "gpo", "lists"}
          /\ pending.on = TRUE
          /\ WellFormed(pending.hs)
          /\ pending.gpo \in ProposalType
          /\ pending.lists \subseteq ProducerLists

\* The template of the next block is well formed.
LEMMA TemplateWellFormed ==
    ASSUME NEW hs, WellFormed(hs), NEW h, h.slot \in Nat, h.confirmed \in Nat
    PROVE  WellFormed(Template(hs, h))
<1> DEFINE g == GenerateNext(hs, h.slot)
           s == SetConfirmed(g, h.confirmed)
<1>1. WellFormed(g) /\ g.producer \in Producer
  BY GenerateNextWellFormed
<1> HIDE DEF g
<1>2. WellFormed(s) /\ s.producer \in Producer
  BY <1>1, SetConfirmedWellFormed
<1> HIDE DEF s
<1>3. WellFormed(MaybePromotePending(s))
  <2>1. CASE CanPromote(s)
    BY <1>2, <2>1, PromoteWellFormed
  <2>2. CASE ~CanPromote(s)
    BY <1>2, <2>2 DEF MaybePromotePending
  <2> QED
    BY <2>1, <2>2
<1> QED
  BY <1>3 DEF Template, g, s

\* Init establishes the invariant: the genesis header state is well formed.
LEMMA InitChainInv == Init => ChainInv
<1> SUFFICES ASSUME Init PROVE ChainInv
  OBVIOUS
<1> DEFINE sched == Schedule(0, 0, <<InitialProducer>>)
<1>1. sched \in ScheduleType /\ EmptySchedule \in ScheduleType /\ sched.producers # <<>>
  BY InitialProducerAssumption DEF Schedule, EmptySchedule, ScheduleType, ConsensusType
<1> HIDE DEF sched
<1>2. head = GenesisState(sched)
  BY DEF Init, sched
<1>3. head \in HeaderStateOver({}, {})
  BY <1>1, <1>2 DEF GenesisState, HeaderStateOver
<1>4. IsHeaderState(head)
  BY <1>3 DEF IsHeaderState
<1>5. WellFormed(head)
  BY <1>1, <1>2, <1>4 DEF WellFormed, GenesisState, Ordered, Tracked
<1>6. gpo \in ProposalType /\ pending = NoPending
  BY <1>1 DEF Init, NoProposal, ProposalType
<1> QED
  BY <1>5, <1>6 DEF ChainInv

\* Whatever a privileged call proposes has the type of a proposal.
LEMMA ProposeType ==
    ASSUME ChainInv, pending.on, NEW t \in ConsensusType, NEW ps \in Seq(Producer)
    PROVE  Propose(t, ps) \in ProposalType /\ BaseSchedule \in ScheduleType
<1>1. WellFormed(pending.hs) /\ WellFormed(head)
  BY DEF ChainInv, NoPending
<1>2. PICK S \in SUBSET Producer, T \in SUBSET Producer : head \in HeaderStateOver(S, T)
  BY <1>1 DEF WellFormed, IsHeaderState
<1>3. PICK U \in SUBSET Producer, V \in SUBSET Producer : pending.hs \in HeaderStateOver(U, V)
  BY <1>1 DEF WellFormed, IsHeaderState
<1>4. BaseSchedule \in ScheduleType
  BY <1>3 DEF HeaderStateOver, BaseSchedule
<1>5. head.block_num + 1 \in Nat
  BY <1>2 DEF HeaderStateOver
<1>6. BaseSchedule.version + 1 \in Nat
  BY <1>4 DEF ScheduleType
<1> QED
  BY <1>4, <1>5, <1>6 DEF Propose, Schedule, ProposalType, ScheduleType

\* Every step preserves the invariant.
LEMMA NextChainInv == ChainInv /\ [Next]_vars => ChainInv'
<1> SUFFICES ASSUME ChainInv, [Next]_vars PROVE ChainInv'
  OBVIOUS
<1>1. ASSUME NEW skip \in SlotSkips, NEW c \in Confirms, StartBlock(skip, c)
      PROVE  ChainInv'
  <2> DEFINE h  == Header(skip, c)
             hs == Template(head, h)
             up == ProposalReady(hs, WasPromoted(head, h))
  <2>1. h.slot \in Nat /\ h.confirmed \in Nat
    <3>1. head.slot \in Nat
      BY DEF ChainInv, WellFormed, IsHeaderState, HeaderStateOver
    <3> QED
      BY <3>1, SlotSkipsAssumption, ConfirmsAssumption DEF Header
  <2>2. WellFormed(hs)
    BY <2>1, TemplateWellFormed DEF ChainInv
  <2>3. gpo.schedule \in ScheduleType
    BY DEF ChainInv, ProposalType
  <2>4. NoProposal \in ProposalType
    BY EmptySeq DEF NoProposal, EmptySchedule, Schedule, ProposalType, ScheduleType, ConsensusType
  <2>5. /\ pending' = [on |-> TRUE,
                       hs |-> IF up THEN SetNewProducers(hs, gpo.schedule) ELSE hs,
                       gpo |-> IF up THEN NoProposal ELSE gpo,
                       lists |-> {}]
        /\ UNCHANGED <<head, gpo>>
    BY <1>1 DEF StartBlock
  <2> HIDE DEF h, hs, up
  <2>6. WellFormed(IF up THEN SetNewProducers(hs, gpo.schedule) ELSE hs)
    BY <2>2, <2>3, SetNewProducersWellFormed
  <2> QED
    BY <2>4, <2>5, <2>6 DEF ChainInv
<1>2. ASSUME NEW ps \in ProducerLists, SetProposedProducers(ps)
      PROVE  ChainInv'
  <2>1. pending.on /\ ps \in Seq(Producer)
    BY <1>2, ProducerListsAssumption DEF SetProposedProducers, IsProducerList
  <2>2. BaseSchedule \in ScheduleType
    BY <2>1, ProposeType DEF ConsensusType
  <2>3. Propose(BaseSchedule.consensus_type, ps) \in ProposalType
    BY <2>1, <2>2, ProposeType DEF ScheduleType
  <2>4. /\ pending' = [pending EXCEPT !.gpo = Propose(BaseSchedule.consensus_type, ps),
                                      !.lists = {ps}]
        /\ UNCHANGED <<head, gpo>>
    BY <1>2 DEF SetProposedProducers
  <2> QED
    BY <2>1, <2>3, <2>4 DEF ChainInv, NoPending
<1>3. ASSUME NEW t \in ConsensusTypes, SetConsensusType(t)
      PROVE  ChainInv'
  <2>1. pending.on /\ t \in ConsensusType
    BY <1>3, ConsensusTypesAssumption DEF SetConsensusType
  <2>2. BaseSchedule.producers \in Seq(Producer)
    <3>1. BaseSchedule \in ScheduleType
      BY <2>1, ProposeType, EmptySeq
    <3> QED
      BY <3>1 DEF ScheduleType
  <2>3. Propose(t, BaseSchedule.producers) \in ProposalType
    BY <2>1, <2>2, ProposeType
  <2>4. /\ pending' = [pending EXCEPT !.gpo = Propose(t, BaseSchedule.producers)]
        /\ UNCHANGED <<head, gpo>>
    BY <1>3 DEF SetConsensusType
  <2> QED
    BY <2>1, <2>3, <2>4 DEF ChainInv, NoPending
<1>4. CASE CommitBlock
  BY <1>4 DEF CommitBlock, ChainInv, NoPending
<1>5. CASE AbortBlock
  BY <1>5 DEF AbortBlock, ChainInv
<1>6. CASE UNCHANGED vars
  BY <1>6 DEF vars, ChainInv
<1> QED
  BY <1>1, <1>2, <1>3, <1>4, <1>5, <1>6 DEF Next

\* The invariant holds in every reachable state.
THEOREM ChainInvariant == Spec => []ChainInv
BY InitChainInv, NextChainInv, PTL DEF Spec

\* Type correctness of the header state, the proposal and the pending block, for
\* every schedule and every sequence of blocks and proposals.
THEOREM TypeCorrect == Spec => []TypeOK
<1>1. ChainInv => TypeOK
  BY DEF ChainInv, TypeOK, WellFormed
<1> QED
  BY <1>1, ChainInvariant, PTL

\* The finality numbers that generate_next and set_confirmed maintain stay
\* ordered in every block.
THEOREM LibOrderHolds == Spec => []LibOrder
<1>1. ChainInv => LibOrder
  BY DEF ChainInv, LibOrder, WellFormed, NoPending
<1> QED
  BY <1>1, ChainInvariant, PTL

-------------------------------------------------------------------------------
(***************************************************************************)
(* The irreversible block number never decreases as long as all proposed   *)
(* schedules make calc_dpos_last_irreversible skip equally many producers. *)
(* Every schedule in the pipeline then skips at least as many as the one   *)
(* it replaces.                                                            *)
(***************************************************************************)
SameThird ==
    \A ps, qs \in ProducerLists \ {<<>>} : Third(Members(ps)) = Third(Members(qs))

Offered == ProducerLists \cup {<<>>, <<InitialProducer>>}

NotSmaller(old, new) ==
    new.producers # <<>> => Third(Names(old)) <= Third(Names(new))

Base(hs) == IF hs.pending_schedule.producers = <<>>
            THEN hs.active_schedule ELSE hs.pending_schedule

Pipeline(hs, prop) ==
    /\ hs.active_schedule.producers \in Offered
    /\ hs.pending_schedule.producers \in Offered
    /\ prop.schedule.producers \in Offered
    /\ NotSmaller(hs.active_schedule, hs.pending_schedule)
    /\ prop.block_num # 0 => NotSmaller(Base(hs), prop.schedule)

LibInv ==
    /\ ChainInv
    /\ Supported(head)
    /\ Pipeline(head, gpo)
    /\ pending.on => /\ Supported(pending.hs)
                     /\ Pipeline(pending.hs, pending.gpo)
                     /\ head.dpos_irreversible <= pending.hs.dpos_irreversible

\* Under SameThird a proposed list never skips fewer producers than a schedule
\* already in the pipeline.
LEMMA OfferedNotSmaller ==
    ASSUME SameThird, NEW old \in Offered, old # <<>>, NEW new \in ProducerLists \ {<<>>}
    PROVE  Third(Members(old)) <= Third(Members(new))
<1>1. new \in Seq(Producer)
  BY ProducerListsAssumption DEF IsProducerList
<1>2. Schedule(0, 0, new) \in ScheduleType /\ Names(Schedule(0, 0, new)) = Members(new)
  BY <1>1 DEF Schedule, ScheduleType, ConsensusType, Names
<1>3. IsFiniteSet(Members(new)) /\ Members(new) # {}
  BY <1>2, NamesAreProducers DEF Schedule
<1>4. Third(Members(new)) \in Nat
  BY <1>3, ThirdInRange
<1>5. CASE old = <<InitialProducer>>
  <2>1. Members(old) = {InitialProducer}
    BY <1>5 DEF Members
  <2>2. Cardinality(Members(old)) = 1
    BY <2>1, FS_Singleton
  <2>3. Third(Members(old)) = 0
    BY <2>2 DEF Third
  <2> QED
    BY <1>4, <2>3
<1>6. CASE old \in ProducerLists
  BY <1>4, <1>6 DEF SameThird
<1> QED
  BY <1>5, <1>6 DEF Offered

\* The template of the next block keeps the irreversible block number, its
\* support and the pipeline.
LEMMA TemplateKeepsLib ==
    ASSUME NEW hs, WellFormed(hs), Supported(hs), NEW prop, Pipeline(hs, prop),
           NEW h, h.slot \in Nat, h.confirmed \in Nat
    PROVE  LET r == Template(hs, h)
           IN  /\ Supported(r)
               /\ Pipeline(r, prop)
               /\ hs.dpos_irreversible <= r.dpos_irreversible
<1> DEFINE g == GenerateNext(hs, h.slot)
           s == SetConfirmed(g, h.confirmed)
           r == MaybePromotePending(s)
<1>1. /\ WellFormed(g) /\ g.producer \in Producer
      /\ Supported(g) /\ DOMAIN g.last_implied_irb # {}
      /\ hs.dpos_irreversible <= g.dpos_irreversible
      /\ g.active_schedule = hs.active_schedule
      /\ g.pending_schedule = hs.pending_schedule
  BY GenerateNextWellFormed, GenerateNextKeepsLib
<1> HIDE DEF g
<1>2. /\ WellFormed(s) /\ s.producer \in Producer
      /\ s.last_implied_irb = g.last_implied_irb
      /\ s.dpos_irreversible = g.dpos_irreversible
      /\ s.active_schedule = g.active_schedule
      /\ s.pending_schedule = g.pending_schedule
  BY <1>1, SetConfirmedWellFormed
<1> HIDE DEF s
<1>3. Supported(s) /\ DOMAIN s.last_implied_irb # {}
  BY <1>1, <1>2 DEF Supported
<1>4. Pipeline(s, prop)
  BY <1>1, <1>2 DEF Pipeline, Base
<1>5. CASE CanPromote(s)
  <2>1. s.pending_schedule.producers # <<>>
    BY <1>5 DEF CanPromote
  <2>2. Third(Names(s.active_schedule)) <= Third(Names(s.pending_schedule))
    BY <1>4, <2>1 DEF Pipeline, NotSmaller
  <2>3. /\ r.dpos_irreversible = s.dpos_irreversible
        /\ r.active_schedule = s.pending_schedule
        /\ r.pending_schedule = [s.pending_schedule EXCEPT !.producers = <<>>]
    BY <1>2, <1>5, PromoteWellFormed
  <2>4. Supported(r)
    BY <1>2, <1>3, <1>5, <2>2, PromoteSupported
  <2>5. r.pending_schedule.producers = <<>>
    <3>1. s.pending_schedule \in ScheduleType
      BY <1>2 DEF WellFormed, IsHeaderState, HeaderStateOver
    <3> QED
      BY <2>3, <3>1 DEF ScheduleType
  <2> HIDE DEF r
  <2>6. Pipeline(r, prop)
    BY <1>4, <2>1, <2>3, <2>5 DEF Pipeline, Base, NotSmaller, Offered
  <2> QED
    BY <1>1, <1>2, <2>3, <2>4, <2>6 DEF Template, r, s, g
<1>6. CASE ~CanPromote(s)
  <2>1. r = s
    BY <1>6 DEF MaybePromotePending
  <2> HIDE DEF r
  <2> QED
    BY <1>1, <1>2, <1>3, <1>4, <2>1 DEF Template, r, s, g
<1> QED
  BY <1>5, <1>6

\* A privileged call leaves the pending header state alone and proposes a
\* schedule that skips at least as many producers as the one before it.
LEMMA ProposalKeepsLib ==
    ASSUME SameThird, LibInv, pending.on, NEW t \in ConsensusType,
           NEW ps \in (ProducerLists \cup {BaseSchedule.producers}),
           pending'.on, pending'.hs = pending.hs, pending'.gpo = Propose(t, ps),
           UNCHANGED <<head, gpo>>, ChainInv'
    PROVE  LibInv'
<1>1. /\ Pipeline(pending.hs, pending.gpo) /\ Supported(pending.hs)
      /\ head.dpos_irreversible <= pending.hs.dpos_irreversible
      /\ WellFormed(pending.hs)
  BY DEF LibInv, ChainInv, NoPending
<1>2. BaseSchedule = Base(pending.hs) /\ BaseSchedule.producers \in Offered
      /\ BaseSchedule.producers # <<>>
  BY <1>1 DEF BaseSchedule, Base, Pipeline, WellFormed
<1>3. pending'.gpo.schedule.producers = ps
  BY DEF Propose, Schedule
<1>4. ps # <<>> => Third(Members(BaseSchedule.producers)) <= Third(Members(ps))
  <2>1. CASE ps = BaseSchedule.producers
    <3>1. BaseSchedule \in ScheduleType
      BY ProposeType, EmptySeq DEF LibInv
    <3>2. IsFiniteSet(Names(BaseSchedule)) /\ Names(BaseSchedule) # {}
      BY <1>2, <3>1, NamesAreProducers
    <3>3. Third(Members(BaseSchedule.producers)) \in Nat
      BY <3>2, ThirdInRange DEF Names
    <3> QED
      BY <2>1, <3>3
  <2>2. CASE ps \in ProducerLists
    BY <1>2, <2>2, OfferedNotSmaller
  <2> QED
    BY <2>1, <2>2
<1>5. NotSmaller(Base(pending.hs), pending'.gpo.schedule)
  BY <1>2, <1>3, <1>4 DEF NotSmaller, Names
<1>6. Pipeline(pending.hs, pending'.gpo)
  BY <1>1, <1>2, <1>3, <1>5 DEF Pipeline, Offered
<1> QED
  BY <1>1, <1>6 DEF LibInv

\* Init establishes the stronger invariant.
LEMMA InitLibInv == Init => LibInv
<1> SUFFICES ASSUME Init PROVE LibInv
  OBVIOUS
<1>1. ChainInv
  BY InitChainInv
<1> DEFINE sched == Schedule(0, 0, <<InitialProducer>>)
<1>2. /\ DOMAIN head.last_implied_irb = {} /\ head.dpos_irreversible = 0
      /\ head.active_schedule = sched /\ head.pending_schedule = sched
      /\ gpo.block_num = 0 /\ gpo.schedule.producers = <<>> /\ ~pending.on
  BY DEF Init, GenesisState, NoProposal, EmptySchedule, Schedule, NoPending
<1>3. Names(sched) = {InitialProducer} /\ sched.producers = <<InitialProducer>>
  BY DEF Names, Members, Schedule
<1>4. Third({InitialProducer}) <= Third({InitialProducer})
  <2>1. Third({InitialProducer}) \in Nat
    BY FS_Singleton, ThirdInRange
  <2> QED
    BY <2>1
<1> HIDE DEF sched
<1>5. Supported(head)
  BY <1>2, <1>3, InitialProducerAssumption DEF Supported
<1>6. Pipeline(head, gpo)
  BY <1>2, <1>3, <1>4 DEF Pipeline, NotSmaller, Offered
<1> QED
  BY <1>1, <1>2, <1>5, <1>6 DEF LibInv

\* Every step preserves the stronger invariant.
LEMMA NextLibInv ==
    ASSUME SameThird
    PROVE  LibInv /\ [Next]_vars => LibInv'
<1> SUFFICES ASSUME LibInv, [Next]_vars PROVE LibInv'
  OBVIOUS
<1>0. ChainInv /\ ChainInv'
  BY NextChainInv DEF LibInv
<1>1. ASSUME NEW skip \in SlotSkips, NEW c \in Confirms, StartBlock(skip, c)
      PROVE  LibInv'
  <2> DEFINE h  == Header(skip, c)
             hs == Template(head, h)
             up == ProposalReady(hs, WasPromoted(head, h))
  <2>1. h.slot \in Nat /\ h.confirmed \in Nat
    <3>1. head.slot \in Nat
      BY <1>0 DEF ChainInv, WellFormed, IsHeaderState, HeaderStateOver
    <3> QED
      BY <3>1, SlotSkipsAssumption, ConfirmsAssumption DEF Header
  <2>2. /\ WellFormed(hs) /\ Supported(hs) /\ Pipeline(hs, gpo)
        /\ head.dpos_irreversible <= hs.dpos_irreversible
    BY <1>0, <2>1, TemplateWellFormed, TemplateKeepsLib DEF LibInv, ChainInv
  <2>3. /\ pending' = [on |-> TRUE,
                       hs |-> IF up THEN SetNewProducers(hs, gpo.schedule) ELSE hs,
                       gpo |-> IF up THEN NoProposal ELSE gpo,
                       lists |-> {}]
        /\ UNCHANGED <<head, gpo>>
    BY <1>1 DEF StartBlock
  <2>4. up => hs.pending_schedule.producers = <<>> /\ gpo.block_num # 0
    BY DEF ProposalReady
  <2> HIDE DEF h, hs, up
  <2>5. CASE ~up
    BY <1>0, <2>2, <2>3, <2>5 DEF LibInv
  <2>6. CASE up
    <3> DEFINE r == SetNewProducers(hs, gpo.schedule)
    <3>1. gpo.schedule \in ScheduleType
      BY <1>0 DEF ChainInv, ProposalType
    <3>2. /\ r.dpos_irreversible = hs.dpos_irreversible
          /\ r.last_implied_irb = hs.last_implied_irb
          /\ r.active_schedule = hs.active_schedule
          /\ r.pending_schedule = gpo.schedule
      BY <2>2, <3>1, SetNewProducersWellFormed
    <3> HIDE DEF r
    <3>3. Supported(r)
      BY <2>2, <3>2 DEF Supported
    <3>4. NotSmaller(hs.active_schedule, gpo.schedule)
      BY <2>2, <2>4, <2>6 DEF Pipeline, Base
    <3>5. NoProposal.block_num = 0 /\ NoProposal.schedule.producers = <<>>
      BY DEF NoProposal, EmptySchedule, Schedule
    <3>6. Pipeline(r, NoProposal)
      BY <2>2, <3>2, <3>4, <3>5 DEF Pipeline, Offered
    <3> QED
      BY <1>0, <2>2, <2>3, <2>6, <3>2, <3>3, <3>6 DEF LibInv, r
  <2> QED
    BY <2>5, <2>6
<1>2. ASSUME NEW ps \in ProducerLists, SetProposedProducers(ps)
      PROVE  LibInv'
  <2>1. pending.on /\ DOMAIN pending = {"on", "hs", "gpo", "lists"}
    BY <1>0, <1>2 DEF SetProposedProducers, ChainInv, NoPending
  <2>2. BaseSchedule \in ScheduleType
    BY <1>0, <2>1, ProposeType, EmptySeq DEF ConsensusType
  <2>3. BaseSchedule.consensus_type \in ConsensusType
    BY <2>2 DEF ScheduleType
  <2>4. /\ pending'.on /\ pending'.hs = pending.hs
        /\ pending'.gpo = Propose(BaseSchedule.consensus_type, ps)
        /\ UNCHANGED <<head, gpo>>
    BY <1>2, <2>1 DEF SetProposedProducers
  <2> QED
    BY <1>0, <2>1, <2>3, <2>4, ProposalKeepsLib
<1>3. ASSUME NEW t \in ConsensusTypes, SetConsensusType(t)
      PROVE  LibInv'
  <2>1. /\ pending.on /\ DOMAIN pending = {"on", "hs", "gpo", "lists"}
        /\ t \in ConsensusType
    BY <1>0, <1>3, ConsensusTypesAssumption DEF SetConsensusType, ChainInv, NoPending
  <2>2. /\ pending'.on /\ pending'.hs = pending.hs
        /\ pending'.gpo = Propose(t, BaseSchedule.producers)
        /\ UNCHANGED <<head, gpo>>
    BY <1>3, <2>1 DEF SetConsensusType
  <2> QED
    BY <1>0, <2>1, <2>2, ProposalKeepsLib
<1>4. CASE CommitBlock
  BY <1>0, <1>4 DEF CommitBlock, LibInv, NoPending
<1>5. CASE AbortBlock
  BY <1>0, <1>5 DEF AbortBlock, LibInv, NoPending
<1>6. CASE UNCHANGED vars
  BY <1>0, <1>6 DEF vars, LibInv
<1> QED
  BY <1>1, <1>2, <1>3, <1>4, <1>5, <1>6 DEF Next

\* commit_block's assertion on a node that knows one branch: when all proposed
\* schedules skip equally many producers, the irreversible block number never
\* decreases and every committed block becomes the head of the fork database.
THEOREM LibNeverDecreases ==
    ASSUME SameThird
    PROVE  Spec => CommittedBlockBecomesHead
<1>1. LibInv /\ [Next]_vars => [head'.dpos_irreversible >= head.dpos_irreversible]_vars
  <2> SUFFICES ASSUME LibInv, Next
               PROVE  head'.dpos_irreversible >= head.dpos_irreversible
    BY DEF vars
  <2>1. head.dpos_irreversible \in Nat
    BY DEF LibInv, ChainInv, WellFormed, IsHeaderState, HeaderStateOver
  <2>2. CASE CommitBlock
    <3>1. /\ head' = pending.hs /\ head.dpos_irreversible <= pending.hs.dpos_irreversible
          /\ WellFormed(pending.hs)
      BY <2>2 DEF CommitBlock, LibInv, ChainInv, NoPending
    <3>2. pending.hs.dpos_irreversible \in Nat
      BY <3>1 DEF WellFormed, IsHeaderState, HeaderStateOver
    <3> QED
      BY <2>1, <3>1, <3>2
  <2>3. CASE ~CommitBlock
    <3>1. head' = head
      BY <2>3 DEF Next, StartBlock, SetProposedProducers, SetConsensusType, AbortBlock
    <3> QED
      BY <2>1, <3>1
  <2> QED
    BY <2>2, <2>3
<1> QED
  BY <1>1, InitLibInv, NextLibInv, PTL DEF Spec, CommittedBlockBecomesHead
===============================================================================
