------------------------------ MODULE Staking ------------------------------
(***************************************************************************)
(* delegate_bandwidth.cpp of the system contract without the RAM market:   *)
(* delegating and undelegating bandwidth, the refund of what was           *)
(* undelegated, the deferred transaction that claims it, and the weights   *)
(* that votes on open proposals get from the stake.                        *)
(*                                                                         *)
(* A table is a function whose domain is the set of its rows.  Rows that   *)
(* the contract erases at zero (delband, userres) are total functions.     *)
(***************************************************************************)
EXTENDS SystemToken

CONSTANTS
    Unit,               \* 10'0000: the stake is first divided by it
    Decade,             \* 10: each further term of a weight divides by it
    RefundDelay,        \* refund_delay
    MinProposalStake    \* min_proposal_stake

ASSUME StakingAssumption ==
    /\ Unit \in Nat \ {0} /\ Decade \in Nat \ {0, 1}
    /\ RefundDelay \in Nat /\ MinProposalStake \in Nat

VARIABLES
    delband,        \* [User -> [User -> stake]]: delegated by one to another
    userres,        \* [User -> stake]: total delegated to the user
    limits,         \* [User -> stake]: set_resource_limits of the chain
    voters,         \* table: the row has the stake and the proxy flag
    refunds,        \* table: pending refund and its request time
    deferred,       \* table: when the user's deferred refund is due
    proposals,      \* Seq of proposals, with the votes cast on each
    gstate,         \* the global state row
    now             \* time of the pending block

stakingVars == <<delband, userres, limits, voters, refunds, deferred>>

Zero == [net |-> 0, cpu |-> 0]

Plus(s, t) == [net |-> s.net + t.net, cpu |-> s.cpu + t.cpu]

Minus(s) == [net |-> -s.net, cpu |-> -s.cpu]

Total(s) == s.net + s.cpu

Without(table, row) == Restrict(table, DOMAIN table \ {row})

With(table, row, value) ==
    [r \in DOMAIN table \cup {row} |-> IF r = row THEN value ELSE table[r]]

\* stake_to_proposal_votes: t/Decade + t/Decade^2 + ... of t units of stake.
Terms[t \in Nat] == IF t = 0 THEN 0 ELSE t \div Decade + Terms[t \div Decade]

StakeToProposalVotes(staked) == Terms[staked \div Unit]

Weight(rows, u) == IF u \in DOMAIN rows THEN StakeToProposalVotes(rows[u].staked) ELSE 0

Open(p) == now < p.voteEnd

\* update_proposal_votes, which only returns early when there is no proposal.
UpdateProposalVotes(ps, u, weight) ==
    [i \in DOMAIN ps |->
        IF ~Open(ps[i]) \/ u \notin DOMAIN ps[i].votes THEN ps[i]
        ELSE IF ps[i].votes[u] THEN [ps[i] EXCEPT !.yeas = @ + weight]
        ELSE [ps[i] EXCEPT !.nays = @ + weight]]

-----------------------------------------------------------------------------
(* The refund half of changebw. *)

\* What remains of a refund after a change of the stake, and what of the change
\* it does not cover.
Absorb(amount, delta) == IF amount < delta THEN 0 ELSE amount - delta

\* The whole change is charged although the refund shrinks as well.
UncoveredWhole(amount, delta) == IF delta > 0 THEN delta ELSE 0

Uncovered(amount, delta) == IF amount < delta THEN delta - amount ELSE 0

\* The refunds table after a change of the stake of u; an empty refund is erased.
RefundsAfter(u, delta) ==
    LET old  == IF u \in DOMAIN refunds THEN refunds[u]
                ELSE [net |-> 0, cpu |-> 0, time |-> now]
        rest == [net  |-> Absorb(old.net, delta.net),
                 cpu  |-> Absorb(old.cpu, delta.cpu),
                 time |-> IF Total(delta) < 0 THEN now ELSE old.time]
    IN  IF Total(rest) = 0 THEN Without(refunds, u) ELSE With(refunds, u, rest)

\* What the change takes from the payer's balance.
Charge(u, delta) ==
    IF u \in DOMAIN refunds
    THEN Uncovered(refunds[u].net, delta.net) + Uncovered(refunds[u].cpu, delta.cpu)
    ELSE Uncovered(0, delta.net) + Uncovered(0, delta.cpu)

SetResourceLimits(u, total) == [limits EXCEPT ![u] = total]

\* cancel_deferred, then send.
SendDeferred(u) == With(deferred, u, now + RefundDelay)

\* pvote_weight_new - pvote_weight_old of delegatebw and undelegatebw.
WeightChange(rows, u) == Weight(rows, u) - Weight(voters, u)

\* changebw.  payer is source_stake_from, from the owner of the stake, which a
\* transfer makes the receiver.
ChangeBw(payer, receiver, delta, transfer) ==
    LET from   == IF transfer THEN receiver ELSE payer
        stake  == Plus(delband[from][receiver], delta)
        total  == Plus(userres[receiver], delta)
        staked == IF from \in DOMAIN voters THEN voters[from].staked + Total(delta)
                  ELSE Total(delta)
        proxy  == from \in DOMAIN voters /\ voters[from].isProxy
        merges == (~transfer /\ from = receiver) \/ Total(delta) < 0
        charge == IF merges THEN Charge(from, delta) ELSE Total(delta)
    IN  /\ stake.net >= 0 /\ stake.cpu >= 0
        /\ total.net >= 0 /\ total.cpu >= 0
        /\ staked >= 0
        /\ charge > 0 => Payable(balance, payer, "eonio.stake", charge)
        /\ delband' = [delband EXCEPT ![from][receiver] = stake]
        /\ userres' = [userres EXCEPT ![receiver] = total]
        /\ limits' = SetResourceLimits(receiver, total)
        /\ refunds' = IF merges THEN RefundsAfter(from, delta) ELSE refunds
        /\ deferred' = IF merges /\ from \in DOMAIN refunds'
                       THEN SendDeferred(from)
                       ELSE Without(deferred, from)
        /\ balance' = IF charge > 0 THEN Pay(balance, payer, "eonio.stake", charge)
                      ELSE balance
        /\ voters' = With(voters, from, [staked |-> staked, isProxy |-> proxy])
        /\ LET weight == WeightChange(voters', from) IN
           /\ proposals' = UpdateProposalVotes(proposals, from, weight)
           /\ gstate' = [gstate EXCEPT !.totalProposalStake = @ + weight]
        /\ UNCHANGED <<supply, now>>

DelegateBw(from, receiver, quantity, transfer) ==
    /\ quantity.net >= 0 /\ quantity.cpu >= 0 /\ Total(quantity) > 0
    /\ transfer => from # receiver
    /\ ChangeBw(from, receiver, quantity, transfer)

UndelegateBw(from, receiver, quantity) ==
    /\ quantity.net >= 0 /\ quantity.cpu >= 0 /\ Total(quantity) > 0
    /\ gstate.totalProposalStake >= MinProposalStake
    /\ ChangeBw(from, receiver, Minus(quantity), FALSE)

Refundable(u) == u \in DOMAIN refunds /\ refunds[u].time + RefundDelay <= now

PayRefund(u) ==
    /\ Payable(balance, "eonio.stake", u, Total(refunds[u]))
    /\ balance' = Pay(balance, "eonio.stake", u, Total(refunds[u]))
    /\ refunds' = Without(refunds, u)

\* refund, called by the owner.
Refund(u) ==
    /\ Refundable(u)
    /\ PayRefund(u)
    /\ UNCHANGED <<supply, delband, userres, limits, voters, deferred, proposals, gstate, now>>

\* The deferred transaction runs refund once, and is gone if refund fails.
DeferredRefund(u) ==
    /\ u \in DOMAIN deferred /\ deferred[u] <= now
    /\ deferred' = Without(deferred, u)
    /\ IF Refundable(u) THEN PayRefund(u) ELSE UNCHANGED <<balance, refunds>>
    /\ UNCHANGED <<supply, delband, userres, limits, voters, proposals, gstate, now>>

-----------------------------------------------------------------------------
\* The tokens locked for staking are exactly the delegations and the refunds that
\* wait: whatever mixture of own and foreign delegations, transfers of stake,
\* merged refunds and late claims, every refund can be paid.
StakeBacked ==
    balance["eonio.stake"] =
        MapThenSumSet(LAMBDA u : MapThenSumSet(LAMBDA t : Total(delband[u][t]), User), User)
        + MapThenSumSet(LAMBDA u : Total(refunds[u]), DOMAIN refunds)

\* The limits the chain enforces for an account are what everybody together has
\* delegated to it, and the vote of an account is what it has delegated itself.
StakeAccounts ==
    \A u \in User :
        /\ limits[u].net = MapThenSumSet(LAMBDA f : delband[f][u].net, User)
        /\ limits[u].cpu = MapThenSumSet(LAMBDA f : delband[f][u].cpu, User)
        /\ MapThenSumSet(LAMBDA t : Total(delband[u][t]), User) =
              IF u \in DOMAIN voters THEN voters[u].staked ELSE 0

\* While a proposal is open its tallies are the present weights of those who voted
\* for and against it: a vote that was flipped after the stake had changed moves
\* the weight that was counted (voteproposal and update_proposal_votes agree).  It
\* is so only while every vote came from an account with a voter row: the weight of
\* any other is an undefined value (voting.cpp:132).
TallyMatches ==
    \A i \in DOMAIN proposals :
        LET p == proposals[i] IN
        Open(p) /\ ~p.blind =>
            /\ p.yeas = MapThenSumSet(LAMBDA u : Weight(voters, u), {u \in DOMAIN p.votes : p.votes[u]})
            /\ p.nays = MapThenSumSet(LAMBDA u : Weight(voters, u), {u \in DOMAIN p.votes : ~p.votes[u]})

\* The quorum is measured against the weights of all voters: rounding each change
\* of a stake to whole votes never makes the running total drift.
TotalMatches ==
    gstate.totalProposalStake = MapThenSumSet(LAMBDA u : Weight(voters, u), DOMAIN voters)

\* The deferred transaction that claims a refund is never due before the refund
\* is: merging a later undelegation restarts both clocks.
DeferredNotEarly ==
    \A u \in DOMAIN deferred \cap DOMAIN refunds : refunds[u].time + RefundDelay <= deferred[u]

\* "A transaction is scheduled to send the tokens back to 'from' after the staking
\* period has passed" (dimension.system.hpp:232): who waits for a refund that is
\* not due yet has a deferred transaction that will claim it.
RefundScheduled ==
    \A u \in DOMAIN refunds : ~Refundable(u) => u \in DOMAIN deferred

=============================================================================
