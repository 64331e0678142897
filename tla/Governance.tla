----------------------------- MODULE Governance -----------------------------
(***************************************************************************)
(* Governance nodes, proposals, votes, the election of producers and their *)
(* pay: voting.cpp and producer_pay.cpp of the system contract, with the   *)
(* two intrinsics of the controller they call.                             *)
(*                                                                         *)
(* voteproducer is not in the contract's ABI, so no voter ever lists       *)
(* producers or a proxy, every producer has zero votes, and the index by   *)
(* votes lists the producers by name.                                      *)
(***************************************************************************)
EXTENDS Staking

CONSTANTS
    NameOrder,          \* Seq of the users in the order of their names
    MinProducerSize,    \* min_producer_size
    FreeExecSize,       \* 7: with more producers voting must have ended
    VotePeriod,         \* time to vote
    ExecPeriod,         \* further time to execute
    UpdatePeriod,       \* 240 slots
    ClaimPeriod,        \* useconds_per_day
    GnodeFee, ProposalFee, RewardPerBlock,
    QuorumDivisor,      \* 10: yeas - nays must exceed this part of the stake
    NodeKey,            \* keys of governance nodes
    NoRowWeight,        \* the weights that voter->staked gives when there is no row
    NoSchedule          \* no schedule is proposed

ASSUME GovernanceAssumption ==
    /\ VotePeriod \in Nat /\ ExecPeriod \in Nat /\ UpdatePeriod \in Nat /\ ClaimPeriod \in Nat
    /\ GnodeFee \in Nat \ {0} /\ ProposalFee \in Nat \ {0} /\ RewardPerBlock \in Nat
    /\ NoRowWeight \subseteq Int

VARIABLES
    producers,      \* table of producers
    gnode,          \* table of governance nodes
    chain           \* the controller: active and proposed schedule, producer of the block

governanceVars == <<producers, gnode, chain>>

Active == {u \in DOMAIN producers : producers[u].isActive}

-----------------------------------------------------------------------------
(* The controller.  A schedule that became pending counts as active. *)

\* set_proposed_producers
ProposeProducers(ps) ==
    LET p == chain.proposed IN
    IF \/ p # NoSchedule /\ (p.at # now' \/ p.producers = ps)
       \/ ps = chain.active.producers
    THEN chain.proposed
    ELSE [producers |-> ps, type |-> chain.active.type, at |-> now']

\* set_consensus_type
ProposeConsensus(type) ==
    IF chain.proposed # NoSchedule /\ chain.proposed.at # now THEN chain.proposed
    ELSE [producers |-> chain.active.producers, type |-> type, at |-> now]

-----------------------------------------------------------------------------
(* Governance nodes. *)

StakeToGnode(payer, owner, key) ==
    /\ owner \notin DOMAIN gnode
    /\ Payable(balance, payer, "eonio.bpstk", GnodeFee)
    /\ balance' = Pay(balance, payer, "eonio.bpstk", GnodeFee)
    /\ gnode' = With(gnode, owner, [payer |-> payer, staked |-> GnodeFee,
                                     isBp |-> FALSE, key |-> key])
    /\ UNCHANGED <<supply, stakingVars, proposals, gstate, now, producers, chain>>

UnstakeGnode(owner) ==
    /\ owner \in DOMAIN gnode
    /\ ~gnode[owner].isBp
    /\ \A i \in DOMAIN proposals : Open(proposals[i]) => owner \notin {proposals[i].owner, proposals[i].account}
    /\ LET g == gnode[owner] IN
       /\ Payable(balance, "eonio.bpstk", g.payer, g.staked)
       /\ balance' = Pay(balance, "eonio.bpstk", g.payer, g.staked)
    /\ gnode' = Without(gnode, owner)
    /\ UNCHANGED <<supply, stakingVars, proposals, gstate, now, producers, chain>>

\* A key update that producers may make as well.
UpdateGnodeAnytime(owner, key) ==
    /\ owner \in DOMAIN gnode
    /\ gnode' = [gnode EXCEPT ![owner].key = key]
    /\ UNCHANGED <<balance, supply, stakingVars, proposals, gstate, now, producers, chain>>

UpdateGnode(owner, key) ==
    /\ owner \in DOMAIN gnode
    /\ ~gnode[owner].isBp
    /\ gnode' = [gnode EXCEPT ![owner].key = key]
    /\ UNCHANGED <<balance, supply, stakingVars, proposals, gstate, now, producers, chain>>

-----------------------------------------------------------------------------
(* Proposals: type 1 adds a producer, 2 removes one, 3 switches consensus. *)

NewProposal(owner, account, type, consensus) ==
    /\ owner \in DOMAIN gnode
    /\ type = 1 => owner = account
    /\ type = 3 => consensus \in {0, 1, 2}
    /\ Payable(balance, owner, "eonio.prop", ProposalFee)
    /\ balance' = Pay(balance, owner, "eonio.prop", ProposalFee)
    /\ proposals' = Append(proposals,
          [owner |-> owner, account |-> account, type |-> type, consensus |-> consensus,
           voteEnd |-> now + VotePeriod, execEnd |-> now + VotePeriod + ExecPeriod,
           yeas |-> 0, nays |-> 0, votes |-> <<>>, blind |-> FALSE,
           isExec |-> FALSE, isSatisfy |-> FALSE])
    /\ gstate' = [gstate EXCEPT !.proposalNum = @ + 1]
    /\ UNCHANGED <<supply, stakingVars, now, producers, gnode, chain>>

\* The weight a vote counts.  Without a voter row the contract reads the stake
\* through end(), an undefined value, which may even be negative.
VoteWeights(u) ==
    IF u \in DOMAIN voters THEN {Weight(voters, u)} ELSE NoRowWeight

\* A changed vote counts again and stays counted on the other side.
RecountTwice(p, u, yea, weight) ==
    LET up == IF u \in DOMAIN p.votes /\ p.votes[u] = yea THEN 0 ELSE weight
    IN  [p EXCEPT !.votes = With(@, u, yea),
                  !.yeas  = IF yea THEN @ + up ELSE @,
                  !.nays  = IF yea THEN @ ELSE @ + up]

\* A new vote counts, a changed one moves over, the same one again does nothing.
Recount(p, u, yea, weight) ==
    LET voted == u \in DOMAIN p.votes
        up    == IF voted /\ p.votes[u] = yea THEN 0 ELSE weight
        down  == IF voted /\ p.votes[u] # yea THEN weight ELSE 0
    IN  [p EXCEPT !.votes = With(@, u, yea),
                  !.yeas  = IF yea THEN @ + up ELSE @ - down,
                  !.nays  = IF yea THEN @ - down ELSE @ + up]

\* blind, which the code does not keep, tells that an undefined weight was counted.
VoteProposal(u, i, yea) ==
    /\ i \in DOMAIN proposals
    /\ Open(proposals[i])
    /\ \E weight \in VoteWeights(u) :
          proposals' = [proposals EXCEPT
              ![i] = [Recount(@, u, yea, weight) EXCEPT !.blind = @ \/ u \notin DOMAIN voters]]
    /\ UNCHANGED <<balance, supply, stakingVars, gstate, now, producers, gnode, chain>>

\* regproducer: a producer that registers again keeps its unpaid blocks.
Registered(u, key) ==
    IF u \in DOMAIN producers THEN [producers[u] EXCEPT !.isActive = TRUE, !.key = key]
    ELSE [isActive |-> TRUE, key |-> key, unpaid |-> 0, lastClaim |-> -ClaimPeriod - 1]

\* The type 1 branch of execproposal: add_elected_producers needs the authority of
\* the account itself.
AddProducer(p, auths) ==
    /\ p.account \in DOMAIN gnode
    /\ p.account \in auths
    /\ producers' = With(producers, p.account, Registered(p.account, gnode[p.account].key))
    /\ gnode' = [gnode EXCEPT ![p.account].isBp = TRUE]
    /\ gstate' = [gstate EXCEPT !.producerNum = @ + 1]
    /\ UNCHANGED chain

\* The type 2 branch: remove_elected_producers, with the same authority.
RemoveProducer(p, auths) ==
    /\ p.account \in DOMAIN gnode
    /\ p.account \in auths
    /\ p.account \in DOMAIN producers
    /\ producers' = [producers EXCEPT ![p.account].isActive = FALSE]
    /\ gnode' = [gnode EXCEPT ![p.account].isBp = FALSE]
    /\ gstate' = [gstate EXCEPT !.producerNum = @ - 1]
    /\ UNCHANGED chain

\* The type 3 branch; the result of set_consensus_type is not looked at.
SwitchConsensus(p) ==
    /\ chain' = [chain EXCEPT !.proposed = ProposeConsensus(p.consensus)]
    /\ UNCHANGED <<producers, gnode, gstate>>

Satisfied(p) == p.yeas - p.nays > gstate.totalProposalStake \div QuorumDivisor

\* auths: the accounts that authorized the action.
ExecProposal(owner, i, auths) ==
    /\ owner \in auths
    /\ owner \in DOMAIN gnode
    /\ i \in DOMAIN proposals
    /\ LET p == proposals[i] IN
       /\ Cardinality(DOMAIN producers) > FreeExecSize => now > p.voteEnd
       /\ now < p.execEnd
       /\ ~p.isExec
       /\ \/ Satisfied(p) /\ p.type = 1 /\ AddProducer(p, auths)
          \/ Satisfied(p) /\ p.type = 2 /\ RemoveProducer(p, auths)
          \/ Satisfied(p) /\ p.type = 3 /\ SwitchConsensus(p)
          \/ ~Satisfied(p) /\ UNCHANGED <<producers, gnode, gstate, chain>>
       /\ proposals' = [proposals EXCEPT ![i].isExec = TRUE, ![i].isSatisfy = Satisfied(p)]
    /\ UNCHANGED <<balance, supply, stakingVars, now>>

\* rmvproducer, called by the system account.
RmvProducer(u) ==
    /\ u \in DOMAIN producers
    /\ producers' = [producers EXCEPT ![u].isActive = FALSE]
    /\ UNCHANGED <<balance, supply, stakingVars, proposals, gstate, now, gnode, chain>>

\* regproxy.  propagate_weight_change has no producer to propagate to.
RegProxy(u, isProxy) ==
    /\ u \in DOMAIN voters => isProxy # voters[u].isProxy
    /\ voters' = With(voters, u,
          [staked |-> IF u \in DOMAIN voters THEN voters[u].staked ELSE 0, isProxy |-> isProxy])
    /\ UNCHANGED <<balance, supply, delband, userres, limits, refunds, deferred,
                   proposals, gstate, now, governanceVars>>

-----------------------------------------------------------------------------
(* Blocks and pay. *)

\* update_elected_producers: the first producerNum active producers.
Elected ==
    LET active == SelectSeq(NameOrder, LAMBDA u : u \in Active)
    IN  {active[k] : k \in {j \in DOMAIN active : j <= gstate.producerNum}}

Activated ==
    gstate.totalProposalStake >= MinProposalStake /\ gstate.producerNum >= MinProducerSize

\* The schedule is looked at from time to time; time is that of the previous block.
Due(time) == Activated /\ time - gstate.lastUpdate > UpdatePeriod

\* onblock, with the producer and the time in the header of the previous block;
\* StartBlock has its update_elected_producers.
OnBlock(producer, time) ==
    LET paid == Activated /\ producer \in DOMAIN producers IN
    /\ producers' = IF paid THEN [producers EXCEPT ![producer].unpaid = @ + 1] ELSE producers
    /\ gstate' = [gstate EXCEPT !.totalUnpaid = IF paid THEN @ + 1 ELSE @,
                                !.lastUpdate  = IF Due(time) THEN time ELSE @]

\* A block starts: its producer is one of the schedule, and its first transaction
\* is onblock for the block before it, which may propose a schedule.
StartBlock(producer) ==
    /\ producer \in chain.active.producers
    /\ now' = now + 1
    /\ OnBlock(chain.producer, now)
    /\ chain' = [chain EXCEPT !.producer = producer,
                              !.proposed = IF Due(now) THEN ProposeProducers(Elected) ELSE @]
    /\ UNCHANGED <<balance, supply, stakingVars, proposals, gnode>>

\* The proposed schedule is taken up once its block is irreversible.
PromoteSchedule ==
    /\ chain.proposed # NoSchedule
    /\ chain.proposed.at < now
    /\ chain' = [chain EXCEPT
          !.active = [producers |-> chain.proposed.producers, type |-> chain.proposed.type],
          !.proposed = NoSchedule]
    /\ UNCHANGED <<balance, supply, stakingVars, proposals, gstate, now, producers, gnode>>

ClaimRewards(u) ==
    /\ u \in Active
    /\ gstate.totalProposalStake >= MinProposalStake
    /\ now - producers[u].lastClaim > ClaimPeriod
    /\ LET pay == IF gstate.totalUnpaid > 0 THEN RewardPerBlock * producers[u].unpaid ELSE 0 IN
       /\ pay > 0 => Payable(balance, "eonio.blkpay", u, pay)
       /\ balance' = IF pay > 0 THEN Pay(balance, "eonio.blkpay", u, pay) ELSE balance
    /\ gstate' = [gstate EXCEPT !.totalUnpaid = @ - producers[u].unpaid]
    /\ producers' = [producers EXCEPT ![u].unpaid = 0, ![u].lastClaim = now]
    /\ UNCHANGED <<supply, stakingVars, proposals, now, gnode, chain>>

-----------------------------------------------------------------------------
\* An active producer keeps its bond: it is a governance node flagged as producer,
\* with the key it signs with, through re-registration, removal, key updates and
\* withdrawals of bonds in any order.
ActiveIsBonded ==
    \A u \in Active : u \in DOMAIN gnode /\ gnode[u].isBp /\ gnode[u].key = producers[u].key

\* The bonds that can be withdrawn are held.
BondsBacked ==
    balance["eonio.bpstk"] = MapThenSumSet(LAMBDA u : gnode[u].staked, DOMAIN gnode)

\* Blocks are paid once: the global count of unpaid blocks is the sum of the
\* producers' counts, so claimrewards never takes the unsigned total below zero.
UnpaidMatches ==
    gstate.totalUnpaid = MapThenSumSet(LAMBDA u : producers[u].unpaid, DOMAIN producers)

\* "if proposal 3 satisfies the condition, execute it" (producer_pay.cpp:129): a
\* step that executes a satisfied switch of the consensus hands its type to the
\* chain.
SwitchTakesEffect ==
    [][\A i \in DOMAIN proposals :
          (~proposals[i].isExec /\ proposals'[i].isSatisfy /\ proposals[i].type = 3)
          => chain'.proposed.type = proposals[i].consensus]_<<proposals, chain>>

=============================================================================
