-------------------------- MODULE SystemContract --------------------------
(***************************************************************************)
(* The system contract as a whole: staking, governance, the RAM market and *)
(* the name auction over one token.  A transaction of the contract is one  *)
(* action; what fails an assertion leaves no trace.  A scenario says which *)
(* actions may still happen and how often, so that one set of modules      *)
(* serves several situations.                                              *)
(***************************************************************************)
EXTENDS Governance, RamMarket

CONSTANTS
    Scenario,       \* the situations to start from, see Init
    Quantity,       \* [net, cpu] amounts that users stake and unstake
    Amount,         \* tokens that users transfer, bid or spend on RAM
    Bytes           \* bytes that users buy and sell

VARIABLES
    left,           \* [operation -> how often it may still happen]
    actor           \* the users that act in this scenario

vars == <<balance, supply, stakingVars, proposals, gstate, now, governanceVars, ramVars, left, actor>>

stakeAndGovern == <<stakingVars, proposals, gstate, now, governanceVars>>

Take(op) == left[op] > 0 /\ left' = [left EXCEPT ![op] = @ - 1] /\ UNCHANGED actor

Stake ==
    /\ \E u, r \in actor :
          \/ \E q \in Quantity, t \in BOOLEAN : Take("delegate") /\ DelegateBw(u, r, q, t)
          \/ \E q \in Quantity : Take("undelegate") /\ UndelegateBw(u, r, q)
    /\ UNCHANGED <<governanceVars, ramVars>>

ClaimRefund ==
    /\ \E u \in actor :
          \/ Take("refund") /\ Refund(u)
          \/ DeferredRefund(u) /\ UNCHANGED <<left, actor>>
    /\ UNCHANGED <<governanceVars, ramVars>>

Govern ==
    /\ \E u, v \in actor :
          \/ \E k \in NodeKey : Take("gnode") /\ StakeToGnode(u, v, k)
          \/ \E t \in {1, 2} : Take("propose") /\ NewProposal(u, v, t, 0)
          \/ \E i \in DOMAIN proposals : Take("exec") /\ ExecProposal(u, i, {u, v})
    /\ UNCHANGED ramVars

GovernAlone ==
    /\ \E u \in actor :
          \/ Take("ungnode") /\ UnstakeGnode(u)
          \/ \E k \in NodeKey : Take("key") /\ UpdateGnode(u, k)
          \/ \E c \in {1, 2} : Take("consensus") /\ NewProposal(u, u, 3, c)
          \/ \E i \in DOMAIN proposals, yea \in BOOLEAN : Take("vote") /\ VoteProposal(u, i, yea)
          \/ Take("rmv") /\ RmvProducer(u)
          \/ \E b \in BOOLEAN : Take("proxy") /\ RegProxy(u, b)
          \/ Take("claim") /\ ClaimRewards(u)
    /\ UNCHANGED ramVars

Block ==
    /\ Take("block")
    /\ \E p \in chain.active.producers : StartBlock(p)
    /\ UNCHANGED ramVars

Promote == PromoteSchedule /\ UNCHANGED <<ramVars, left, actor>>

Tokens ==
    /\ \E u, v \in actor, q \in Amount :
          \/ Take("issue") /\ Issue(v, q)
          \/ Take("transfer") /\ Transfer(u, v, q)
    /\ UNCHANGED <<stakeAndGovern, ramVars>>

Trade ==
    /\ \E u, v \in actor :
          \/ \E q \in Amount : Take("buy") /\ BuyRam(u, v, q)
          \/ \E b \in Bytes : Take("buybytes") /\ BuyRamBytes(u, v, b)
    /\ UNCHANGED stakeAndGovern

TradeAlone ==
    /\ \E u \in actor :
          \/ \E b \in Bytes : Take("sell") /\ SellRam(u, b)
          \/ \E n \in Name, q \in Amount : Take("bid") /\ BidName(u, n, q)
    /\ UNCHANGED stakeAndGovern

MoreRam ==
    /\ \E b \in Bytes : Take("setram") /\ SetRam(ram.max + b)
    /\ UNCHANGED stakeAndGovern

Operation == {"delegate", "undelegate", "refund", "gnode", "propose", "exec", "ungnode", "key",
              "consensus", "vote", "rmv", "proxy", "claim", "issue", "transfer",
              "buy", "buybytes", "sell", "bid", "setram", "block"}

\* A scenario gives the users their tokens, a first stake for themselves (as after
\* one delegatebw each) and the governance nodes that exist.
Init ==
    \E s \in Scenario :
        LET own(u) == [net |-> s.stake[u], cpu |-> 0] IN
        /\ balance = [a \in Account |->
                         IF a \in User THEN s.tokens
                         ELSE IF a = "eonio.stake" THEN SumFunction(s.stake)
                         ELSE IF a = "eonio.bpstk" THEN GnodeFee * Cardinality(s.gnodes)
                         ELSE IF a = "eonio.blkpay" THEN s.pay ELSE 0]
        /\ supply = SumFunction(balance)
        /\ delband = [u \in User |-> [v \in User |-> IF u = v THEN own(u) ELSE Zero]]
        /\ userres = [u \in User |-> own(u)]
        /\ limits = userres
        /\ voters = [u \in {v \in User : s.stake[v] > 0} |-> [staked |-> s.stake[u], isProxy |-> FALSE]]
        /\ refunds = <<>>
        /\ deferred = <<>>
        /\ proposals = <<>>
        /\ gstate = [totalProposalStake |-> MapThenSumSet(LAMBDA u : Weight(voters, u), DOMAIN voters),
                     proposalNum |-> 0, producerNum |-> 0, totalUnpaid |-> 0,
                     lastUpdate |-> -UpdatePeriod - 1]
        /\ now = 0
        /\ producers = <<>>
        /\ gnode = [u \in s.gnodes |-> [payer |-> u, staked |-> GnodeFee, isBp |-> FALSE,
                                        key |-> CHOOSE k \in NodeKey : TRUE]]
        /\ chain = [active |-> [producers |-> {"eonio"}, type |-> 0], proposed |-> NoSchedule,
                    producer |-> "eonio"]
        /\ market = [base |-> InitialRam, quote |-> InitialQuote]
        /\ ram = [max |-> InitialRam, reserved |-> 0, stake |-> 0]
        /\ quota = [u \in User |-> 0]
        /\ bids = <<>>
        /\ left = [op \in Operation |-> IF op \in DOMAIN s.left THEN s.left[op] ELSE 0]
        /\ actor = s.actor

Next ==
    \/ Stake \/ ClaimRefund \/ Govern \/ GovernAlone \/ Block \/ Promote
    \/ Tokens \/ Trade \/ TradeAlone \/ MoreRam

Spec == Init /\ [][Next]_vars

-----------------------------------------------------------------------------
\* The tables hold rows of their types, and the counters that are unsigned in the
\* code, or that it treats as sizes, never go below zero.
TypeOK ==
    /\ \A a \in Account : balance[a] >= 0
    /\ \A u, v \in User : delband[u][v].net >= 0 /\ delband[u][v].cpu >= 0
    /\ DOMAIN refunds \subseteq User /\ DOMAIN deferred \subseteq User
    /\ \A u \in DOMAIN refunds : refunds[u].net >= 0 /\ refunds[u].cpu >= 0
    /\ \A u \in DOMAIN voters : voters[u].staked >= 0
    /\ \A i \in DOMAIN proposals :
          proposals[i].blind \/ (proposals[i].yeas >= 0 /\ proposals[i].nays >= 0)
    /\ DOMAIN producers \subseteq User /\ DOMAIN gnode \subseteq User
    /\ gstate.totalUnpaid >= 0 /\ gstate.totalProposalStake >= 0
    /\ market.base > 0 /\ market.quote > 0
    /\ \A u \in User : quota[u] >= 0

\* Each system account holds exactly what the tables promise from it, and no token
\* is created or destroyed on the way: stakes and waiting refunds, bonds, what was
\* paid for RAM and the high bids can all be paid out, whatever mixture of
\* delegations, withdrawals, trades and inline transfers came before.
TokensBacked == TokensConserved /\ StakeBacked /\ BondsBacked /\ RamBacked /\ BidsBacked

\* Whatever is stored twice agrees, although each action changes the copies one by
\* one: limits and delegations, the tallies of a proposal that no account
\* without a voter row has voted on and the present stakes of its voters, the running
\* total of all votes, unpaid blocks, RAM quotas, and the time of a refund and of a
\* deferred transaction that claims it.
TablesAgree ==
    /\ TypeOK
    /\ StakeAccounts /\ TallyMatches /\ TotalMatches /\ UnpaidMatches
    /\ RamConserved /\ DeferredNotEarly

=============================================================================
