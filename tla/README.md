# A TLA+ verification of DimensionChain

DimensionChain is a delegated proof-of-stake blockchain node written in C++, derived from EOSIO.
This directory models how a node decides which blocks and transactions it accepts, applies, calls
final, keeps on disk and signs, how nodes fetch blocks from each other, and what the contracts that
govern the chain do with stake, votes, permissions and approvals. The modules are checked with TLC
on small instances; the theorems are checked with TLAPS for every value of the constants.
`PROJECT.json` maps every definition to the lines it models.

## 1. Inventory

### How the parts interact

    peers --> net plugin (sync manager)                system contract --> token contract
                  | blocks, transactions                    | set_proposed_producers,
                  v                                         v set_consensus_type, set_resource_limits
    producer plugin  --start / finalize / commit-->  controller  --next header--> block_header_state
      timer, watermarks,  <--accepted_block--          |  |  \
      queues of transactions                           |  |   add, remove, prune
                                                       |  |     v
                             undo / commit             |  |  fork database --irreversible--> on_irreversible
                     state database <------------------+  |                                     |
                                  reversible blocks <-----+---> block log <---------------------+
                                                       |
                            transaction execution: authorization, resource limits, deferred transactions
                                                       ^
                                                       | check_transaction_authorization, send_deferred
                                              multi-signature contract

Everything in a node runs in handlers of one thread (the application's io_service). Concurrency
therefore means the order of handlers, timers that expire at a bad moment, messages between nodes,
and crashes between two writes.

### Components

| Component | State | Operations | Hard behaviour | Modules |
|---|---|---|---|---|
| DPoS header state (`block_header_state.cpp`) | schedules, `confirm_count`, last produced and implied numbers, proposed and irreversible number | `generate_next`, `set_confirmed`, `maybe_promote_pending`, `set_new_producers`, `next` | counting confirmations across schedule changes, a full `confirm_count`, three quorums (`consensus_type`) | `BlockHeaderState` |
| Schedule proposals (`controller.cpp`) | proposed schedule in the global properties | `set_proposed_producers`, `set_consensus_type`, their use in `start_block` | several proposals in one block, promotion in the block that proposes | `HeaderChain` |
| Fork database (`fork_database.cpp`) | index of reversible blocks, head, flags | `add`, `remove`, `prune`, `set_validity`, `mark_in_current_chain`, `fetch_branch_from`, open, close | ties, pruning while on another branch, flags kept by hand | `ForkDatabase` |
| Controller (`controller.cpp`) | head, pending block, unapplied transactions, reversible blocks, state database | `push_block`, `maybe_switch_forks`, `start_block`, `commit_block`, `abort_block`, `on_irreversible`, `init`, `replay` | a fork switch that fails half way, crashes, restarts | `Controller`, `Ledger` |
| Block log (`block_log.cpp`) | `blocks.log`, `blocks.index`, head | `append`, `reset`, `open`, `construct_index`, `repair_log`, reads | torn writes, two files out of step | `BlockLog` |
| Producer plugin (`producer_plugin.cpp`) | mode, timer, correlation id, watermarks; incoming, persisted and unapplied transactions | production loop, incoming blocks and transactions, pause, resume, options, snapshot | queued timer handlers, forks and restarts of a signing node, transactions that move between four places | `ProducerPlugin` |
| Peer-to-peer network (`net_plugin.cpp`) | connections with their queues, sync state | handshakes, notices, requests, block spans, branches, relay, timeouts, reconnection | late answers, closed peers, crossed connections | `NetConnection`, `SyncManager`, `NetPlugin` |
| Resource limits (`resource_limits.cpp`) | moving averages, elastic limits, pending limits | usage, RAM, limits, end of a block | rounding in opposite directions | `ResourceLimits` |
| Transaction execution (`transaction_context.cpp`, `apply_context.cpp`, `controller.cpp`) | database, block under construction, deferred transactions | push, schedule, retire, onerror, commit, abort, validate | failures at every step, producer and validator that must agree | `Transactions` |
| Authorization (`authorization_manager.cpp`, `authority_checker.hpp`, `eosio_contract.cpp`) | permissions, links, delayed transactions | the recursive check, `updateauth`, `deleteauth`, `linkauth`, `unlinkauth`, `canceldelay` | cycles, depth, changes while a delayed transaction waits | `AuthorityChecker`, `Authorization` |
| Multi-signature contract (`dimension.msig`) | proposals and approvals | `propose`, `approve`, `unapprove`, `cancel`, `exec` | approvals withdrawn or permissions changed before `exec` | `MultiSig` |
| System contract (`dimension.system`) | stake, refunds, voters, proposals, governance nodes, producers, RAM market, bids | one action of the ABI each | totals kept beside their rows, weights of the moment, rounding | `Staking`, `Governance`, `RamMarket`, `SystemContract` |
| Token contract (`dimension.token`) | balances, supply | `issue`, `transfer` | | `SystemToken` |
| Chain plugin | options | replay, recovery of reversible blocks | starting from what a crash left | in `Controller` |
| State database (chainbase, a submodule that is not in the repository) | revisions | undo, commit | undo after commit | external, in `Controller` |
| bnet plugin, wallet, wasm engine, ABI serializer, history and HTTP plugins, programs | | | a second protocol, interpreters, conversions, observers, I/O | not modelled |

`PROJECT.json` lists the hazards of these parts with the line where each one bites, and the
properties that would catch it.

## 2. Plan

1. Header state and schedule pipeline, with proofs. Done.
2. Fork database and controller, refining the abstract `Ledger`. Done, except snapshots and the
   read mode IRREVERSIBLE.
3. Block log files. Done.
4. Producer plugin with its queues of transactions. Done, except the scheduled transactions.
5. Resource limits and transactions, with a proof about the rounding. Done.
6. Authority check, permissions, multi-signature contract. Done.
7. System contract. Done, except what section 6 lists.
8. Synchronisation of the net plugin. Done for up to three nodes.
9. Open: the bnet plugin and the state history log; several signing nodes on the header state of (1)
   and the confirmation rule of (4), to ask when two honest branches can both become final for each
   consensus type.
10. Open proofs: the fork database, the inductive invariant of `Controller` and its refinement of
    `Ledger`; `NoDoubleSigning` on a fixed schedule needs induction over a fold, which the prover
    does not have.

## 3. Modules

**BlockHeaderState** has one operator per function of `block_header_state`. A header state is a
record with the members of the C++ struct that decide anything; ids, digests, merkle roots and
signatures are left out. `confirm_count` holds at most `MaxTracked` entries (1024 in the code).
`CalcDposLastIrreversible` says which value `nth_element` picks without sorting.

**HeaderChain** drives it along one branch: `StartBlock` (with promotion of the proposal),
`SetProposedProducers`, `SetConsensusType`, `CommitBlock`, `AbortBlock`. The variable `votes` is a
history variable: who confirmed which block while being scheduled. The number of confirmed
predecessors is any member of `Confirms` for which `block_header_state::next` accepts the header;
that is the condition `Accepted` on the input of `StartBlock`, so no property shows that a producer
passes this check. The check subtracts unsigned numbers: with more confirmed blocks than there are
the difference wraps (`Wraps`), and the header passes although it confirms again what its producer
has confirmed before. `votes` counts these repetitions as `again`, and the properties about
confirmations state what the code guarantees: every confirmation of a header is counted once.

**ForkDatabase** is the ordered index and its operations. What a header fixes for ever is the frozen
variable `tree`: the chain of a block, its irreversible number, its transactions, and whether it
applies. `bft_irreversible_blocknum` is left out, because nothing adds a `header_confirmation`.

**Controller** adds the state of the controller and the disk. Handlers that apply several blocks are
split at every block (`job` is the rest of the handler: `Pop`, `Apply`, `Unwind`, `Restore`,
`ReplayBlock`), so that a crash can fall between any two; no other handler runs in between. A crash
keeps the block log and the reversible blocks and loses memory and state database (it is marked
dirty). `fault` names the first internal check that failed.

**Ledger** is the abstract specification: one chain is shown, a prefix of it is final and only grows,
and without crashes the chain is replaced only by one that ranks at least as high. `Controller`
implements it with `chain <- Shown`, the old head during a fork switch and the chain on disk while
the node is down.

**BlockLog** models the two files as sequences of tokens. A crash leaves any prefix of what an append
wrote to either file. Logs of version 1 are left out.

**ProducerPlugin** models the production loop in slots of time. Where the code compares times within a
slot the model allows both outcomes. Of the correlation id it keeps whether a handler holds the
latest one. Validation, forks and finality are those of `Controller`; here the head moves to any
chain of `Branches`, and a block of such a chain may be found invalid on the way (`OnRejectedBlock`).
The handlers are operators that take the state of the node and return the set of states they can
leave, since `start_block` and the loop are called from almost all of them. A transaction is in the queue of incoming ones, in the pending block, in an own block or among the
unapplied ones; a deadline, a failure or lack of room is a choice wherever the code asks for one. The
scheduled transactions of `start_block` appear only through what they leave to the incoming ones.

**NetConnection**, **SyncManager**, **NetPlugin** are the three classes of `net_plugin.cpp`. An
operator takes the state of one node and returns the state after it, together with what was handed
to the socket; `NetPlugin` connects the nodes by links that deliver in order and may break. A message,
a completed write, a response timeout, a reconnection, a new block and a new transaction are one
action each. The chain of a node is its head and the blocks it knows.

**ResourceLimits** has one operator per function of `resource_limits_manager`, over one record of
tables. **Transactions** executes transactions over these tables: what a contract does is a sequence
of operations (fail, send, cancel, set limits), how long it takes is a choice while producing and
said by the receipt while validating. `CommitBlock` is enabled as in the code; the property
`BlockValidates` runs the finished block again with the operators a validator uses.

**AuthorityChecker** is the recursive check, with the order of factors, the marking of keys and the
cache of visited levels; beside it stands what it should mean, a least fixed point (`GrantedBy`).
**Authorization** adds the tables and the native actions, with delayed transactions. **MultiSig** adds
the proposals; `exec` sends into the deferred transactions of `Authorization`.

**SystemToken**, **Staking**, **Governance**, **RamMarket** model the actions of the contracts over
shared balances, **SystemContract** composes them. An assertion that fails is a guard. `onblock` and
`start_block` are one step, so that schedules are proposed and promoted as the node does it; `onblock`
gets producer and time of the block before. The vote of an account without a voter row counts any
weight of `NoRowWeight`, because `voteproposal` then reads the stake through `end()`; the history flag
`blind` marks the proposals this has happened to.

**BlockHeaderStateProofs**, **HeaderChainProofs**, **ResourceLimitsProofs**, **ProducerPluginProofs**
hold the lemmas and theorems. The modules whose names begin with MC give the constants their values.
The networks, contracts, permissions and transactions have a *scenario*, chosen in the initial state:
a record that says who is there, what may happen and how often. One run thus covers several
situations, each of which would be too large together with the others.

## 4. Runs

### 4.1 Passing

| Run | Configuration | Shows | Bounds |
|---|---|---|---|
| `header_chain` | `MCHeaderChain.cfg` | `TypeOK`, `LibOrder`, `ConfirmCountIsExact`, `HeaderDeterminesState` | three producers, lists of 3, 1 and 0, types 0 and 2, seven blocks, two tracked blocks: `confirm_count` overflows and a schedule is promoted while the next is proposed; a header confirms 0, 1, 2 or 9 blocks, and 9 is more than there are |
| `schedule_changes` | `MCScheduleChanges.cfg`, `MCHeaderChain` | `ProposedHasQuorum`, `CommittedBlockBecomesHead` | two producers, twelve blocks: long enough for a producer to join, leave and come back; 0, 1, 2 or 14 confirmed blocks |
| `fork_switch` | `MCForkSwitch.cfg`, `MCController` | `IndexFollowsHead`, `FailedSwitchRestores`, `OwnTransactionsKept`, `ImplementsSteadyLedger`, `HeadCatchesUp` | all trees of six blocks with two branches and one invalid block, all assignments of finality, two transactions |
| `restart` | `MCRestart.cfg`, `MCController` | `ChecksHold`, `DatabaseIsAtHead`, `DiskHoldsChain`, `ImplementsLedger` | the same trees, crashes anywhere, one clean shutdown |
| `block_log` | `MCBlockLog.cfg` | `EveryBlockIsFound`, `AppendedBlocksStay`, `LogComesBack` | eight blocks, starts at genesis and at a snapshot, two truncations |
| `production` | `MCProduction.cfg`, `MCProducerPlugin` | `NoDoubleSigning`, `FirstOpenTurn` | one local producer, two repetitions, chains of up to four blocks without two missed slots in a row, own blocks up to number five, `ConfirmSpan` 2 in place of 2^16, so that the cut to 16 bits happens. `FewDisturbances` as below |
| `joining` | `MCJoining.cfg`, `MCProducerPlugin` | `OneLiveHandler`, `ExactlyOneAnswer`, `AcceptedStays` | the producer leaves and joins the schedule; every chain of two blocks that ends with the producer expected to join or stay, and one of three that carries the transaction; any of them may turn out invalid; one transaction (persisted or not) that expires with the last slot; restarts, snapshots, pauses. `FewDisturbances` leaves out states with two stale handlers, and those that are both paused and behind an old irreversible block |
| `net_sync` | `MCNetSync.cfg`, `MCNetPlugin` | `NoHoleInSync`, `NobodyLeftBehind`, `TwinsKeepOne`, `EveryoneHears`, `CatchesUp` | three nodes, six blocks, spans of two; scenarios: slow writes while the peer produces, a link that breaks twice, a fork, two sources with a timeout, two links between the same nodes, a transaction that goes round; left out are a link that breaks in `head_catchup` while the peer produces, and two peers of which only one is ahead in irreversible blocks (section 4.2) |
| `system_contract` | `MCSystemContract.cfg` | `TokensBacked`, `TablesAgree`, `ActiveIsBonded`, `MarketSolvent` | three accounts; scenarios: voting, refunding, electing, bonding, switching the consensus, trading RAM, bidding, with seven to fourteen actions each; a vote without a voter row counts -1, 0 or 3 |
| `authorization` | `MCAuthorization.cfg` | `PermissionTree`, `CheckerIsExact`, `OnlyHoldersChange`, `RunsAsApproved` | two accounts with five or six permissions, two keys; all tables of 6^4 combinations of authorities for the check itself; up to five transactions in the other scenarios: editing, linking, calling, delaying (three permissions, links and a delay, so that a parent is deleted before a delayed `updateauth` below it runs), proposing |
| `transactions` | `MCTransactions.cfg` | `AvailableFits`, `UsageMatches`, `BlockValidates`, `NeverAppliedTwice` | three accounts, three blocks, four attempts; scenarios: paying, greylisted, sending, delaying, limiting, over the limit, failing with and without a handler |

Some properties combine what belongs together: `IndexFollowsHead` says that the head of the fork
database is the preferred block and that the flags mark its chain; `TokensBacked` that the contract's
vaults hold what users have staked, bonded, bid and paid for RAM, and no token appears or vanishes;
`TablesAgree` that totals, tallies and counters equal what their rows say (tallies only of proposals
that no account without a voter row has voted on); `UsageMatches` the same for RAM, block usage and
the total weights. `OwnTransactionsKept` and `AcceptedStays` allow for one loss: the transaction that
makes a received block fail is erased from the unapplied ones (`controller.cpp:1096`) and does not come
back with the others. `OnlyHoldersChange` judges a delayed change when it is pushed, since nothing is
checked again when it runs. `BlockValidates` leaves out the blocks in which a deferred
transaction was retired at its own CPU limit, `ChecksHold` the replay with only the genesis block in
the log; section 4.2 describes both.

The trees of `MCController` satisfy three assumptions, which is what finality of honest producers
should give: irreversible numbers do not fall along a chain, chains agree on final blocks
(`FinalityAgrees`), and a branch is preferred before a block makes its fork final
(`DecidedBeforeFinal`). The run `shrink` and the configuration `MCPrunedFork.cfg` show that the code
does not guarantee the first and the third. All runs of `Controller` use the read mode SPECULATIVE.

`CHECK_DEADLOCK FALSE` stands where the model ends at a bound or a node may be stopped for good.
Fairness: the main thread goes on with the handler it is in (`Controller`); the operator opens the
log again and repairs it when that fails (`BlockLog`); as long as messages, writes or reconnections
are due, some of them happen (`NetPlugin`). Each is the io_service running what is ready; no fairness
between particular handlers or peers is assumed.

### 4.2 Disagreements between the code and what it says

The run `shrink` (`MCShrink.cfg`, `MCHeaderChain`) violates `CommittedBlockBecomesHead`: when the
schedule shrinks from four producers to two, the irreversible number falls and the assertion of
`commit_block` (`controller.cpp:708`) fails.

Further disagreements have a configuration that is not among the runs. Each can be seen with
`tlc -config <configuration> <module>`:

| Configuration, module | Property | What TLC finds |
|---|---|---|
| `MCLostProposal.cfg`, `MCHeaderChain` | `AcceptedListIsProposed` | `set_consensus_type` discards the producer list that was proposed earlier in the block, which `privileged.h:44` promises to promote |
| `MCPrunedFork.cfg`, `MCPrunedFork` | `NeverPopsFinal` | `add` prunes the fork point before the switch, and `pop_block` fails at `controller.cpp:160`; the header states are computed with `BlockHeaderState` for four producers in a partition |
| `MCReorder.cfg`, `MCController` | `DatabaseIsAtHead` | `forkdb.dat` is written in hash order, so blocks of equal rank may change places; a rejected block and a second restart then leave head and state database on different branches |
| `MCRejoin.cfg`, `MCProducerPlugin` | `NoDoubleSigning` | a watermark is lowered when the producer joins later on another branch (`producer_plugin.cpp:241`) |
| `MCCrashSign.cfg`, `MCProducerPlugin` | `NoDoubleSigning` | watermarks are lost in a restart (the comment at `producer_plugin.cpp:1084` asks whether to make them durable) |
| `MCNetUneven.cfg`, `MCNetPlugin` | `NobodyLeftBehind` | a node in `head_catchup` that learns of a peer with a higher irreversible block does not enter `lib_catchup`, unlike case 1 of the comment in `recv_handshake` |
| `MCNetBroken.cfg`, `MCNetPlugin` | `CatchesUp` | if the only link breaks during `head_catchup` while the peer produces, the node stays behind |
| `MCRefund.cfg`, `MCSystemContract` | `RefundScheduled` | delegating to another account leaves a waiting refund as it is and cancels the deferred transaction that would claim it (`delegate_bandwidth.cpp:347`) |
| `MCSwitch.cfg`, `MCSystemContract` | `SwitchTakesEffect` | `set_consensus_type` refuses while an earlier proposal waits (`controller.cpp:1978`), and `execproposal` does not look at the result (`producer_pay.cpp:135`) |
| `MCRequiredKeys.cfg`, `MCAuthorization` | `RequiredKeysSuffice` | keys of a failed authority are unmarked while the levels it satisfied stay cached, so the required keys may miss one (`authority_checker.hpp:183`) |
| `MCLinks.cfg`, `MCAuthorization` | `LinksResolve` | `linkauth` looks for the permission among all accounts (`eosio_contract.cpp:315`), so a link may name one the account does not have |
| `MCOverLimit.cfg`, `MCTransactions` | `ShouldNeverFail` | when the account is over its share, the billing of a hard failure throws where the comment says it should never fail (`controller.cpp:970`) |
| `MCOverrun.cfg`, `MCTransactions` | `EveryBlockValidates` | a deferred transaction that exceeds its own CPU limit and has a failing handler is retired as `hard_fail`, while the validator sees it succeed and rejects the receipt (`controller.cpp:1247`) |

`MCPrunedFork.cfg`, `MCRejoin.cfg` and `MCShrink.cfg` confine TLC to the behaviour that matters; a
constraint only removes behaviours.

Met while modelling, and visible in the definitions without a run of their own:

* A block counts as confirmed by its own producer (`block_header_state.cpp:206`), which the comment
  at `block_header.hpp:19` excludes. Popped blocks that came from a peer do not give their
  transactions back, unlike the comment at `controller.cpp:144`. With only the genesis block in the
  log, the replay that `controller.cpp:390` advises is refused by the same check.
* A log set up for a snapshot has a header and no block, and cannot be opened before its first block
  (`block_log.cpp:155`); `LogComesBack` leaves it out.
* The correlation id is not incremented when the loop sets no timer, so a handler that was queued
  before may call `produce_block` while not producing (`producer_plugin.cpp:1530`).
* In the net plugin: a write in progress keeps its queue across `close`; `rejected_block` in `in_sync`
  is ignored; with two sources that both produce, notices can make each other redundant; a fork at or
  below the peer's irreversible block with equal head numbers makes the two exchange handshakes for
  ever.
* In the system contract: a proposal of type 2 is not checked; `voteproposal` reads the stake of a
  voter without a row, so the tallies of a proposal may hold a weight nobody has; the name auctions never close; the schedule
  may have fewer producers than `min_producer_size` (`producer_pay.cpp:20`).
* An approval of a multi-signature proposal keeps counting after the authority of the level has
  changed: the contract remembers levels, not keys.

## 5. Proofs

Assumptions: producers form a finite set without `NoProducer`; the proposed lists are free of
duplicates (the wasm interface checks that); repetitions and tracked blocks are positive; windows of
the averages are positive and not larger than the precision (172800 and 1000000 in the code).

* `TypeCorrect`: `Spec => []TypeOK`, and `LibOrderHolds`: `Spec => []LibOrder`. Neither is inductive:
  the proof needs `ChainInv`, which says of head and pending block that the header state is
  `WellFormed`. Besides types this bounds every implied irreversible number by the proposed one, and
  says that every tracked block lies after the proposed one. One lemma per function of
  `block_header_state` shows that it keeps a header state well formed.
* `LibNeverDecreases`: if all proposed schedules have the same (n - 1) / 3, then
  `Spec => CommittedBlockBecomesHead`. The invariant `LibInv` adds `Supported` (no more producers lag
  behind the irreversible number than `calc_dpos_last_irreversible` skips) and `Pipeline` (no schedule
  on its way skips fewer producers than the one it replaces). `shrink` shows that the hypothesis is
  needed.
* `AvailableWithinShare`: in every state whose tables have their types, `AvailableFits`. What is
  offered is rounded down after a usage that was rounded up (`DivideCeilBounds`); what is billed is
  rounded up when it enters the average and down when it is compared. `RoundingFits` shows that the
  second rounding never exceeds what the first one left, which is where window <= precision is
  needed; `AddType`, `UsedType` and `ShareGrows` carry this through the decay of the average.
* `NextTurnIsFirst`: in every state with a schedule without duplicates and natural counters
  (`Scheduling`, a part of the type invariant), `FirstOpenTurn`. `PlaceOfTurn` reduces the place that
  `get_scheduled_producer` computes to the turn of the slot, `FirstTurnAt` finds the first turn of a
  producer after another, and `TurnsGrow` excludes the slots in between.

Only model-checked: liveness (`HeadCatchesUp`, `LogComesBack`, `CatchesUp`) and `CheckerIsExact`,
whose operators are recursive, are out of the prover's reach. So are the refinements and the
properties of `ForkDatabase`, `Controller`, `BlockLog`, the network and the contracts so far, and
that types are kept in `Transactions` and `ProducerPlugin`: both fold over sequences, and the prover
has no induction over data.

## 6. Not modelled

* Header state and controller: signatures, digests and merkle roots; `add_confirmation` and
  `set_bft_irreversible`, which nothing calls; snapshots other than the log they set up; the read
  modes READ_ONLY and IRREVERSIBLE.
* Producer plugin: which scheduled transactions run and the blacklist of those that failed; grey and
  white lists; a node without producers.
* Network: time messages, authentication and version checks, connection limits, the expiry of local
  transactions, large notices and fetch retries; the bnet plugin.
* Transactions: inline actions, notifications and table access, context-free actions, white and black
  lists, the pause of the billing timer, the transaction's own network limit, permission usage, limits
  of 64 and 128 bits (all numbers stay far below).
* Authorization: `newaccount`, `setcode`, `setabi`; of the multi-signature contract requests that name
  a level twice, and calls of the contract that are themselves delayed.
* System contract: `voteproducer` and what only it reaches (it is not in the ABI), `setparams`,
  `setpriv`, `newaccount`, the vesting of b1; creating tokens.
* Wasm engine, ABI serializer, wallet, history, HTTP and API plugins, programs: interpreters,
  conversions and I/O that no modelled property tells apart; the reasons are in `PROJECT.json`.

The definitions map about 8% of the repository's C and C++ lines. Of the rest, the wasm compiler
(22,000 lines), the contract library (11,500) and the programs (9,500) are nearly half; they keep no
state that blocks, transactions or peers share. The bnet plugin (1,600 lines) and the log of the
state history plugin do, and are the largest parts that could still be modelled.
