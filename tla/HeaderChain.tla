------------------------------ MODULE HeaderChain ------------------------------
(***************************************************************************)
(* One branch of the chain as the controller grows it: start_block builds  *)
(* the header state of a pending block on the head, privileged contract    *)
(* code in that block may propose a new schedule or consensus type, and    *)
(* the block is then committed or aborted.                                 *)
(*   head    header state of the head block                                *)
(*   gpo     proposed schedule in the global property object at the head   *)
(*   pending the pending block: its header state, its view of gpo and, as  *)
(*           history, the producer list it accepted last (if any)          *)
(*   votes   history: per block number from the last proposed irreversible *)
(*           block on, the confirmations the block needed when it was      *)
(*           created, the producers that confirmed it, and how often a     *)
(*           header that confirms more blocks than there are confirmed it  *)
(*           for one of them again                                         *)
(***************************************************************************)
EXTENDS BlockHeaderState

CONSTANTS
    InitialProducer,    \* the one producer of the genesis schedule
    ProducerLists,      \* lists passed to set_proposed_producers
    ConsensusTypes,     \* values passed to set_consensus_type
    SlotSkips,          \* how many slots after its parent a block may come
    Confirms,           \* values of header.confirmed
    MaxBlockNum         \* bound on the length of the branch

ASSUME InitialProducerAssumption == InitialProducer \in Producer
ASSUME ProducerListsAssumption == \A ps \in ProducerLists : IsProducerList(ps)
ASSUME ConsensusTypesAssumption == ConsensusTypes \subseteq ConsensusType
ASSUME SlotSkipsAssumption == SlotSkips \subseteq Nat \ {0}
ASSUME ConfirmsAssumption == Confirms \subseteq Nat
ASSUME MaxBlockNumAssumption == MaxBlockNum \in Nat

VARIABLES head, gpo, pending, votes

vars == <<head, gpo, pending, votes>>

NoProposal == [block_num |-> 0, schedule |-> EmptySchedule]

NoPending == [on |-> FALSE]

Init ==
    /\ head = GenesisState(Schedule(0, 0, <<InitialProducer>>))
    /\ gpo = NoProposal
    /\ pending = NoPending
    /\ votes = [n \in {1} |-> [need |-> 1, by |-> {}, again |-> 0]]

(***************************************************************************)
(* start_block.  A proposal made in a block that is now irreversible       *)
(* becomes the pending schedule if there is room for it and this block did *)
(* not itself promote the previous one.                                    *)
(***************************************************************************)
\* Mutant: a proposal becomes pending in the block that promotes the last one.
ProposalReadyOnPromotion(hs, promoted) ==
    /\ gpo.block_num # 0
    /\ gpo.block_num <= hs.dpos_irreversible
    /\ hs.pending_schedule.producers = <<>>

ProposalReady(hs, promoted) ==
    /\ gpo.block_num # 0
    /\ gpo.block_num <= hs.dpos_irreversible
    /\ hs.pending_schedule.producers = <<>>
    /\ ~promoted

Header(skip, c) == [slot |-> head.slot + skip, confirmed |-> c]

(***************************************************************************)
(* start_block itself does not look at the count it is given.  The count   *)
(* is that of a header which next() let into the fork database, or the one *)
(* of the producer plugin, which confirms nothing up to its watermark.     *)
(***************************************************************************)
Accepted(skip, c) ==
    NoDoubleConfirm(head, GetScheduledProducer(head, Header(skip, c).slot), c)

StartBlock(skip, c) ==
    LET h  == Header(skip, c)
        hs == Template(head, h)
        up == ProposalReady(hs, WasPromoted(head, h))
    IN  /\ ~pending.on
        /\ head.block_num < MaxBlockNum
        /\ pending' = [on |-> TRUE,
                       hs |-> IF up THEN SetNewProducers(hs, gpo.schedule) ELSE hs,
                       gpo |-> IF up THEN NoProposal ELSE gpo,
                       lists |-> {}]
        /\ UNCHANGED <<head, gpo, votes>>

(***************************************************************************)
(* The two privileged calls.  Both refuse while a proposal of an earlier   *)
(* block waits, and both write the whole proposal of this block.           *)
(***************************************************************************)

BaseSchedule == IF pending.hs.pending_schedule.producers = <<>>
                THEN pending.hs.active_schedule
                ELSE pending.hs.pending_schedule

Room == pending.gpo.block_num \in {0, head.block_num + 1}

Propose(ctype, ps) ==
    [block_num |-> head.block_num + 1,
     schedule |-> Schedule(BaseSchedule.version + 1, ctype, ps)]

SetProposedProducers(ps) ==
    /\ pending.on
    /\ Room
    /\ pending.gpo.block_num # 0 => ps # pending.gpo.schedule.producers
    /\ ps # BaseSchedule.producers
    /\ pending' = [pending EXCEPT !.gpo = Propose(BaseSchedule.consensus_type, ps),
                                  !.lists = {ps}]
    /\ UNCHANGED <<head, gpo, votes>>

SetConsensusType(t) ==
    /\ pending.on
    /\ Room
    /\ pending' = [pending EXCEPT !.gpo = Propose(t, BaseSchedule.producers)]
    /\ UNCHANGED <<head, gpo, votes>>

(***************************************************************************)
(* commit_block and abort_block.  The history variable records whom the    *)
(* committed header confirms: its own block and `confirmed' predecessors.  *)
(***************************************************************************)
Vote(hs) ==
    [n \in {m \in DOMAIN votes \cup {hs.block_num} : m >= hs.dpos_proposed} |->
        LET old == IF n = hs.block_num
                   THEN [need |-> RequiredConfs(head.active_schedule), by |-> {}, again |-> 0]
                   ELSE votes[n]
            twice == hs.producer \in old.by /\ Wraps(hs.block_num, hs.confirmed)
        IN  IF n + hs.confirmed >= hs.block_num
            THEN [old EXCEPT !.by = @ \cup {hs.producer},
                             !.again = IF twice THEN @ + 1 ELSE @]
            ELSE old]

CommitBlock ==
    /\ pending.on
    /\ head' = pending.hs
    /\ gpo' = pending.gpo
    /\ votes' = Vote(pending.hs)
    /\ pending' = NoPending

AbortBlock ==
    /\ pending.on
    /\ pending' = NoPending
    /\ UNCHANGED <<head, gpo, votes>>

Next ==
    \/ \E skip \in SlotSkips, c \in Confirms : Accepted(skip, c) /\ StartBlock(skip, c)
    \/ \E ps \in ProducerLists : SetProposedProducers(ps)
    \/ \E t \in ConsensusTypes : SetConsensusType(t)
    \/ CommitBlock
    \/ AbortBlock

Spec == Init /\ [][Next]_vars

-------------------------------------------------------------------------------
(***************************************************************************)
(* Properties                                                              *)
(***************************************************************************)
ProposalType == [block_num : Nat, schedule : ScheduleType]

\* Every variable holds a value of the type its C++ counterpart has.
TypeOK ==
    /\ IsHeaderState(head)
    /\ gpo \in ProposalType
    /\ \/ pending = NoPending
       \/ /\ DOMAIN pending = {"on", "hs", "gpo", "lists"}
          /\ pending.on = TRUE
          /\ IsHeaderState(pending.hs)
          /\ pending.gpo \in ProposalType
          /\ pending.lists \subseteq ProducerLists

\* The finality numbers of the head and of the pending block are ordered: what
\* is irreversible was proposed as irreversible before, and no block makes itself
\* irreversible (generate_next, set_confirmed).
LibOrder == Ordered(head) /\ (pending.on => Ordered(pending.hs))

\* confirm_count counts distinct producers: each tracked entry is what its block
\* needed minus the producers that confirmed it, also across schedule changes
\* that remove a producer and bring it back (maybe_promote_pending restarts it
\* at the last irreversible block).  The one exception is a header that confirms
\* more blocks than there are: the check of next() wraps around, and what it
\* confirms for its producer again is counted again.
ConfirmCountIsExact ==
    LET len == Len(head.confirm_count)
    IN  \A i \in 1 .. len :
            LET v == votes[head.block_num - len + i]
            IN  /\ head.confirm_count[i] > 0
                /\ head.confirm_count[i] + Cardinality(v.by) + v.again = v.need

\* A block that a header state proposes as irreversible was confirmed by the
\* number of distinct producers its consensus type requires (set_confirmed),
\* unless a header that confirms more blocks than there are made up the rest by
\* confirming it for the same producer again.
ProposedHasQuorum ==
    head.dpos_proposed > 0 =>
        LET v == votes[head.dpos_proposed]
        IN  Cardinality(v.by) + v.again >= v.need

HeaderOf(hs) == [slot |-> hs.slot, producer |-> hs.producer, confirmed |-> hs.confirmed,
                 schedule_version |-> head.active_schedule.version,
                 new_producers |-> hs.new_producers]

\* A node that only sees the header of a produced block accepts it and derives
\* the very header state its producer built (next against start_block).  That the
\* count of confirmations passes next is assumed, see Accepted.
HeaderDeterminesState ==
    pending.on => /\ NextOk(head, HeaderOf(pending.hs))
                  /\ NextState(head, HeaderOf(pending.hs)) = pending.hs

\* A committed block becomes the head of the fork database, which orders blocks
\* by irreversible block number first: the assertion of commit_block, on a node
\* that knows no other branch.
CommittedBlockBecomesHead ==
    [][head'.dpos_irreversible >= head.dpos_irreversible]_vars

\* A producer list that set_proposed_producers accepted in a block is the one
\* proposed when that block is committed, as privileged.h says of a successful
\* call.
AcceptedListIsProposed ==
    [][pending.on /\ head' # head =>
         \A ps \in pending.lists : gpo'.schedule.producers = ps]_vars
===============================================================================
