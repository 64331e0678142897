------------------------------ MODULE Controller ------------------------------
(***************************************************************************)
(* The controller of one node (libraries/chain/controller.cpp): it keeps   *)
(* the state database, the fork database, the database of reversible       *)
(* blocks and the block log in step while blocks are produced, received,   *)
(* rejected, switched between and made final, and brings them back in step *)
(* after a shutdown or a crash.                                            *)
(*                                                                         *)
(* The main thread runs one handler at a time.  The handlers that change   *)
(* the files in several steps are split into their steps, so that a crash  *)
(* can fall between any two of them; every other handler is one action.    *)
(* The read mode irreversible, which chain_plugin refuses, and snapshots   *)
(* are left out.                                                           *)
(***************************************************************************)
EXTENDS ForkDatabase

CONSTANTS
    Trx,         \* input transactions
    Speculative, \* whether read_mode is SPECULATIVE
    MaxShutdowns, \* how often the node is shut down cleanly
    MayCrash     \* whether the process may be killed

VARIABLES
    fdb,         \* the fork database
    head,        \* the member head: the last block applied
    db,          \* chainbase: applied, the blocks whose effects it holds in
                 \* order; base, the revision that can no longer be undone
    reversible,  \* the blocks of the reversible block database
    log,         \* the block log
    pending,     \* on: a pending block exists; trxs: what it holds so far
    unapplied,   \* unapplied_transactions
    job,         \* the handler under way and how far it got
    file,        \* forkdb.dat
    shutdowns,   \* the number of clean shutdowns so far
    fault        \* the first internal consistency check that failed

vars == <<tree, fdb, head, db, reversible, log, pending, unapplied, job, file, shutdowns, fault>>

Idle == [step |-> "idle", new |-> <<>>, old |-> <<>>, i |-> 0]

At(step) == job.step = step

Running == job.step \notin {"down", "crashed"}

NoFile == [saved |-> FALSE]

NoPending == [on |-> FALSE, trxs |-> {}]

ChainTrxs(blocks) == UNION {TrxsOf(b) : b \in ToSet(blocks)}

GenesisDb == [applied |-> <<Genesis>>, base |-> 1]

Revision == Len(db.applied)

-------------------------------------------------------------------------------
(* on_irreversible, and the calls of it from the fork database.            *)

\* A block beyond the log must be the next one and link to the last one.
LinksToLog(s) ==
    Num(s) > Len(log) => Num(s) = Len(log) + 1 /\ Prev(s) = Last(log)

\* Mutant: the next block is taken for one that the log already holds.
LoggedOffByOne(s) == IF Num(s) > Len(log) + 1 THEN Append(log, s) ELSE log

Logged(s) == IF Num(s) > Len(log) THEN Append(log, s) ELSE log

\* db.commit: the revisions up to n can no longer be undone.
CommitDb(d, n) ==
    [d EXCEPT !.base = Max({@, Min({n, Len(d.applied)})})]

\* The reversible blocks that on_irreversible keeps.
Trimmed(s) == {b \in reversible : Num(b) > Num(s)}

\* Mutant: the database is committed up to the added block.
AddBlockCommittingIt(fd, b) ==
    LET ins == Inserted(fd, b)
        h   == Oldest(ins)
    IN  IF PrunesOnAdd(ins) /\ LinksToLog(h)
        THEN [fdb |-> Prune(ins, h), db |-> CommitDb(db, Num(b)),
              log |-> Logged(h), reversible |-> Trimmed(h), ok |-> TRUE]
        ELSE [fdb |-> ins, db |-> db, log |-> log, reversible |-> reversible,
              ok |-> ~PrunesOnAdd(ins)]

\* fork_database::add of block b, with what on_irreversible does when the
\* oldest block is pruned.  A failed check leaves the index as inserted.
AddBlock(fd, b) ==
    LET ins == Inserted(fd, b)
        h   == Oldest(ins)
    IN  IF ~PrunesOnAdd(ins)
        THEN [fdb |-> ins, db |-> db, log |-> log, reversible |-> reversible,
              ok |-> TRUE]
        ELSE IF LinksToLog(h)
        THEN [fdb |-> Prune(ins, h), db |-> CommitDb(db, Num(h)),
              log |-> Logged(h), reversible |-> Trimmed(h), ok |-> TRUE]
        ELSE [fdb |-> ins, db |-> db, log |-> log, reversible |-> reversible,
              ok |-> FALSE]

-------------------------------------------------------------------------------
(* apply_block and pop_block.                                              *)

\* undo of chainbase does nothing when no session is left.
Undo(d) == IF Len(d.applied) > d.base THEN [d EXCEPT !.applied = Front(@)] ELSE d

\* apply_block of a valid block: its session is pushed, the block joins the
\* reversible blocks and its transactions leave the unapplied ones.
ApplyEffects(b) ==
    /\ db' = [db EXCEPT !.applied = Append(@, b)]
    /\ reversible' = reversible \cup {b}
    /\ unapplied' = unapplied \ TrxsOf(b)

\* What a block that fails while it is applied leaves in unapplied_transactions.
\* abort_block puts back the transactions that had been executed; one that
\* failed, for a reason that is not subjective, was erased and stays away.
Recaptured(b) ==
    UNION {{(unapplied \ (done \cup failed)) \cup (IF Speculative THEN done ELSE {}) :
               failed \in {f \in SUBSET (TrxsOf(b) \ done) : Cardinality(f) <= 1}} :
           done \in SUBSET TrxsOf(b)}

\* start_block refuses to work on a database that is not at the head.
CanStart == Revision = Num(head)

CanPop(fd) == Prev(head) \in Known(fd)

\* The transactions that pop_block puts back: head->trxs, which only a block
\* state made by this process while producing holds.
PoppedTrxs == IF Speculative /\ head \in fdb.recaptures THEN TrxsOf(head) ELSE {}

\* Mutant: the popped block stays in the reversible block database.
PopEffectsKeepReversible ==
    /\ head' = Prev(head)
    /\ reversible' = reversible
    /\ unapplied' = unapplied \cup PoppedTrxs
    /\ db' = Undo(db)

PopEffects ==
    /\ head' = Prev(head)
    /\ reversible' = {b \in reversible : Num(b) # Num(head)}
    /\ unapplied' = unapplied \cup PoppedTrxs
    /\ db' = Undo(db)

-------------------------------------------------------------------------------
(* Receiving a block: create_block_state_future, push_block and            *)
(* maybe_switch_forks.                                                     *)

\* The work maybe_switch_forks has to do for the head of fd.
SwitchTo(fd) ==
    LET n    == fd.head
        base == BranchBase(n, head)
    IN  IF Prev(n) = head THEN [step |-> "extend", new |-> <<n>>, old |-> <<>>, i |-> 1]
        ELSE IF n = head THEN Idle
        ELSE [step |-> "pop", new |-> BranchFrom(n, base), old |-> BranchFrom(head, base),
              i |-> Num(head) - base + 1]

\* Whether fetch_branch_from finds every block it looks up.
CanFetch(fd) ==
    fd.head # head /\ Prev(fd.head) # head => BranchesKnown(fd, fd.head, head)

\* push_block: the fork database takes the block, prunes at most one number,
\* and may then prefer another head than the one applied.
PushBlock(b) ==
    /\ At("idle") /\ ~pending.on
    /\ CanAdd(fdb, b)
    /\ LET res == AddBlock(fdb, b)
           go  == res.ok /\ CanFetch(res.fdb)
       IN  /\ fdb' = res.fdb
           /\ db' = res.db
           /\ log' = res.log
           /\ reversible' = res.reversible
           /\ job' = IF go THEN SwitchTo(res.fdb) ELSE job
           /\ fault' = IF ~res.ok THEN "unlinkable" ELSE IF ~go THEN "branch" ELSE fault
    /\ UNCHANGED <<tree, head, pending, unapplied, file, shutdowns>>

\* The preferred head continues the applied one: it is applied, or removed
\* from the fork database when that fails.
Extend ==
    /\ At("extend")
    /\ job' = Idle
    /\ LET n == job.new[1] IN
       \/ /\ CanStart /\ Valid(n)
          /\ ApplyEffects(n)
          /\ fdb' = MarkApplied(fdb, n)
          /\ head' = n
          /\ UNCHANGED fault
       \/ /\ CanStart /\ ~Valid(n)
          /\ fdb' = RemoveBranch(fdb, n)
          /\ unapplied' \in Recaptured(n)
          /\ UNCHANGED <<head, db, reversible, fault>>
       \/ /\ ~CanStart
          /\ fault' = "revision"
          /\ UNCHANGED <<fdb, head, db, reversible, unapplied>>
    /\ UNCHANGED <<tree, log, pending, file, shutdowns>>

\* A fork switch takes back the blocks of the old branch, newest first.
Pop ==
    /\ At("pop")
    /\ fdb' = MarkInCurrentChain(fdb, job.old[job.i], FALSE)
    /\ \/ /\ CanPop(fdb)
          /\ PopEffects
          /\ job' = [job EXCEPT !.step = IF job.i = 1 THEN "apply" ELSE @,
                                !.i    = IF job.i = 1 THEN 1 ELSE @ - 1]
          /\ fault' = IF job.i = 1 /\ Prev(head) # Prev(job.old[1]) THEN "sync" ELSE fault
       \/ /\ ~CanPop(fdb)
          /\ job' = Idle
          /\ fault' = "pop"
          /\ UNCHANGED <<head, reversible, unapplied, db>>
    /\ UNCHANGED <<tree, log, pending, file, shutdowns>>

\* It applies the new branch, oldest block first.  The first block that
\* fails is removed with everything built on it, and the switch is reversed.
Apply ==
    /\ At("apply")
    /\ LET n == job.new[job.i] IN
       \/ /\ CanStart /\ Valid(n)
          /\ ApplyEffects(n)
          /\ head' = n
          /\ fdb' = MarkApplied(fdb, n)
          /\ job' = IF job.i = Len(job.new) THEN Idle ELSE [job EXCEPT !.i = @ + 1]
          /\ UNCHANGED fault
       \/ /\ CanStart /\ ~Valid(n)
          /\ fdb' = RemoveBranch(fdb, n)
          /\ unapplied' \in Recaptured(n)
          /\ job' = [job EXCEPT !.step = IF job.i = 1 THEN "restore" ELSE "unwind",
                                !.i    = IF job.i = 1 THEN 1 ELSE @ - 1]
          /\ UNCHANGED <<head, db, reversible, fault>>
       \/ /\ ~CanStart
          /\ job' = Idle
          /\ fault' = "revision"
          /\ UNCHANGED <<fdb, head, db, reversible, unapplied>>
    /\ UNCHANGED <<tree, log, pending, file, shutdowns>>

\* The reversal pops what had been applied of the new branch.
Unwind ==
    /\ At("unwind")
    /\ fdb' = MarkInCurrentChain(fdb, job.new[job.i], FALSE)
    /\ \/ /\ CanPop(fdb)
          /\ PopEffects
          /\ job' = [job EXCEPT !.step = IF job.i = 1 THEN "restore" ELSE @,
                                !.i    = IF job.i = 1 THEN 1 ELSE @ - 1]
          /\ fault' = IF job.i = 1 /\ Prev(head) # Prev(job.old[1]) THEN "sync" ELSE fault
       \/ /\ ~CanPop(fdb)
          /\ job' = Idle
          /\ fault' = "pop"
          /\ UNCHANGED <<head, reversible, unapplied, db>>
    /\ UNCHANGED <<tree, log, pending, file, shutdowns>>

\* It then applies the old branch again, as previously validated blocks.
Restore ==
    /\ At("restore")
    /\ LET n == job.old[job.i] IN
       \/ /\ CanStart /\ Valid(n)
          /\ ApplyEffects(n)
          /\ head' = n
          /\ fdb' = MarkInCurrentChain(fdb, n, TRUE)
          /\ job' = IF job.i = Len(job.old) THEN Idle ELSE [job EXCEPT !.i = @ + 1]
          /\ UNCHANGED fault
       \/ /\ ~(CanStart /\ Valid(n))
          /\ job' = Idle
          /\ fault' = "restore"
          /\ UNCHANGED <<fdb, head, db, reversible, unapplied>>
    /\ UNCHANGED <<tree, log, pending, file, shutdowns>>

-------------------------------------------------------------------------------
(* Producing a block.                                                      *)

StartBlock ==
    /\ At("idle") /\ ~pending.on
    /\ pending' = IF CanStart THEN [on |-> TRUE, trxs |-> {}] ELSE pending
    /\ fault' = IF CanStart THEN fault ELSE "revision"
    /\ UNCHANGED <<tree, fdb, head, db, reversible, log, unapplied, job, file, shutdowns>>

\* push_transaction of an input transaction.  In the other read modes its
\* effects are undone at once and the pending block stays empty.  A
\* transaction that is already in the chain fails for good.
PushTransaction(t) ==
    /\ pending.on /\ t \notin pending.trxs
    /\ pending' = IF Speculative /\ t \notin ChainTrxs(db.applied)
                  THEN [pending EXCEPT !.trxs = @ \cup {t}] ELSE pending
    /\ unapplied' = unapplied \ {t}
    /\ UNCHANGED <<tree, fdb, head, db, reversible, log, job, file, shutdowns, fault>>

\* Mutant: the transactions of the pending block are dropped with it.
AbortPendingLosing ==
    /\ pending' = NoPending
    /\ UNCHANGED unapplied

\* abort_block, the call.
AbortPending ==
    /\ pending' = NoPending
    /\ unapplied' = IF Speculative THEN unapplied \cup pending.trxs ELSE unapplied

AbortBlock ==
    /\ At("idle") /\ pending.on
    /\ AbortPending
    /\ UNCHANGED <<tree, fdb, head, db, reversible, log, job, file, shutdowns, fault>>

\* The pending block becomes block b.
Produces(b) ==
    /\ At("idle") /\ pending.on /\ Speculative
    /\ b \notin Known(fdb) /\ Prev(b) = head
    /\ Valid(b) /\ TrxsOf(b) = pending.trxs

Produced(fd, b) ==
    [MarkApplied(fd, b) EXCEPT !.recaptures = @ \cup {b}]

\* finalize_block, sign_block and commit_block(true): the pending block joins
\* the fork database and must be preferred there.  head is assigned before
\* that is checked.
CommitBlock(b) ==
    /\ Produces(b)
    /\ LET res == AddBlock(Produced(fdb, b), b)
           ok  == res.ok /\ res.fdb.head = b
       IN  /\ fdb' = res.fdb
           /\ log' = res.log
           /\ head' = IF res.ok THEN res.fdb.head ELSE head
           /\ \/ /\ ok
                 /\ db' = [res.db EXCEPT !.applied = Append(@, b)]
                 /\ reversible' = res.reversible \cup {b}
                 /\ pending' = NoPending
                 /\ UNCHANGED <<unapplied, fault>>
              \/ /\ ~ok
                 /\ db' = res.db
                 /\ reversible' = res.reversible
                 /\ AbortPending
                 /\ fault' = IF res.ok THEN "commit" ELSE "unlinkable"
    /\ UNCHANGED <<tree, job, file, shutdowns>>

-------------------------------------------------------------------------------
(* Shutdown, crash and startup.                                            *)

\* What the process holds in memory is gone.
ForgetMemory ==
    /\ fdb' = SetGenesis
    /\ head' = Genesis
    /\ pending' = NoPending
    /\ unapplied' = {}

\* The destructors: the pending block is aborted, the fork database is
\* written out and then, in memory only, its oldest block may be pruned.
Shutdown ==
    /\ At("idle") /\ shutdowns < MaxShutdowns
    /\ shutdowns' = shutdowns + 1
    /\ file' = [saved |-> TRUE, blocks |-> Known(fdb), head |-> fdb.head,
                current |-> fdb.current, validated |-> fdb.validated]
    /\ LET h == Oldest(fdb) IN
       IF PrunesOnClose(fdb)
       THEN /\ db' = CommitDb(db, Num(h))
            /\ log' = Logged(h)
            /\ reversible' = Trimmed(h)
            /\ fault' = IF LinksToLog(h) THEN fault ELSE "unlinkable"
       ELSE UNCHANGED <<db, log, reversible, fault>>
    /\ ForgetMemory
    /\ job' = [Idle EXCEPT !.step = "down"]
    /\ UNCHANGED tree

\* A crash keeps the block log and the reversible blocks.  The state database
\* is marked dirty, so nothing of it is used again.
Crashed ==
    /\ ForgetMemory
    /\ db' = GenesisDb
    /\ file' = NoFile
    /\ job' = [Idle EXCEPT !.step = "crashed"]
    /\ UNCHANGED <<tree, shutdowns, fault>>

Crash ==
    /\ Running /\ MayCrash
    /\ Crashed
    /\ UNCHANGED <<log, reversible>>

\* A crash inside on_irreversible, after the block log has grown and before
\* the reversible blocks have shrunk.
CrashInIrreversible(b) ==
    /\ At("idle") /\ MayCrash /\ CanAdd(fdb, b)
    /\ pending.on => Produces(b)
    /\ AddBlock(fdb, b).log # log
    /\ log' = AddBlock(fdb, b).log
    /\ Crashed
    /\ UNCHANGED reversible

\* The consistency checks of init.
StartsUp(h, r, d) ==
    /\ IF r # {} THEN Num(h) = Max({Num(b) : b \in r}) ELSE Num(h) = Len(log)
    /\ Len(d.applied) >= Num(h)

\* The revisions beyond n that can be undone are.
UndoTo(d, n) ==
    [d EXCEPT !.applied = SubSeq(@, 1, Max({d.base, Min({n, Len(@)})}))]

\* The node runs, with the database undone to the head h, or gives up.
EndInit(h, r, d) ==
    /\ job' = IF StartsUp(h, r, d) THEN Idle ELSE [Idle EXCEPT !.step = "crashed"]
    /\ fault' = IF StartsUp(h, r, d) THEN fault ELSE "startup"
    /\ db' = UndoTo(d, Num(h))

\* init: replay, when the block log has blocks after the head h, and the checks.
BeginInit(h, r, d) ==
    IF Len(log) > Num(h)
    THEN job' = [Idle EXCEPT !.step = "replay"] /\ db' = d /\ UNCHANGED fault
    ELSE EndInit(h, r, d)

\* Startup after a clean shutdown.  forkdb.dat is read, in the order of a
\* hash table, and deleted.
Startup ==
    /\ At("down")
    /\ \E order \in Orders(file.blocks) :
           fdb' = [index |-> order, head |-> file.head, current |-> file.current,
                   validated |-> file.validated, recaptures |-> {}]
    /\ head' = file.head
    /\ file' = NoFile
    /\ BeginInit(file.head, reversible, db)
    /\ UNCHANGED <<tree, reversible, log, pending, unapplied, shutdowns>>

\* recover_reversible_blocks: the blocks up to the first gap.
Recovered(r) ==
    {b \in r : \A c \in r : \A n \in Num(c)..Num(b) : \E x \in r : Num(x) = n}

\* Startup with --replay-blockchain --fix-reversible-blocks: the state
\* directory, forkdb.dat included, is deleted.
StartReplay ==
    /\ ~Running
    /\ ForgetMemory
    /\ file' = NoFile
    /\ reversible' = Recovered(reversible)
    /\ BeginInit(Genesis, Recovered(reversible), GenesisDb)
    /\ UNCHANGED <<tree, log, shutdowns>>

\* The block that replay pushes next: from the log, then from the reversible
\* blocks.
ToReplay ==
    LET n == Num(head) + 1
    IN  IF n <= Len(log) THEN {log[n]} ELSE {b \in reversible : Num(b) = n}

\* replay_push_block.  Blocks of the log are applied without undo sessions.
ReplayBlock ==
    /\ At("replay")
    /\ \E b \in ToReplay :
          LET res == AddBlock(fdb, b)
              ok  == /\ CanAdd(fdb, b) /\ res.ok /\ res.fdb.head = b
                     /\ Prev(b) = head /\ Valid(b)
              d   == [res.db EXCEPT !.applied = Append(@, b)]
          IN  \/ /\ ok
                 /\ fdb' = MarkApplied(res.fdb, b)
                 /\ db' = IF Num(b) <= Len(log) THEN [d EXCEPT !.base = Num(b)] ELSE d
                 /\ log' = res.log
                 /\ reversible' = res.reversible
                 /\ head' = b
                 /\ UNCHANGED fault
              \/ /\ ~ok
                 /\ fault' = "replay"
                 /\ UNCHANGED <<fdb, db, log, reversible, head>>
    /\ UNCHANGED <<tree, pending, unapplied, job, file, shutdowns>>

\* replay has pushed everything there is; init ends with its checks.
ReplayDone ==
    /\ At("replay") /\ ToReplay = {}
    /\ EndInit(head, reversible, db)
    /\ UNCHANGED <<tree, fdb, head, reversible, log, pending, unapplied, file, shutdowns>>

-------------------------------------------------------------------------------

Init ==
    /\ tree \in Trees
    /\ fdb = SetGenesis
    /\ head = Genesis
    /\ db = GenesisDb
    /\ reversible = {}
    /\ log = <<Genesis>>
    /\ pending = NoPending
    /\ unapplied = {}
    /\ job = Idle
    /\ file = NoFile
    /\ shutdowns = 0
    /\ fault = "none"

\* The rest of a handler that has begun.
JobStep == Extend \/ Pop \/ Apply \/ Unwind \/ Restore \/ ReplayBlock \/ ReplayDone

Request ==
    \/ \E b \in Block : PushBlock(b) \/ CommitBlock(b)
    \/ \E t \in Trx : PushTransaction(t)
    \/ StartBlock
    \/ AbortBlock

Restart ==
    \/ Shutdown
    \/ Startup
    \/ StartReplay
    \/ Crash
    \/ \E b \in Block : CrashInIrreversible(b)

\* The model ends with the first check that fails.
Next == fault = "none" /\ (JobStep \/ Request \/ Restart)

\* The main thread goes on with the handler it is in.
Spec == Init /\ [][Next]_vars /\ WF_vars(fault = "none" /\ JobStep)

-------------------------------------------------------------------------------
(* Properties.                                                             *)

\* Every variable holds a value of its type; no block is twice in the index and
\* the database never undoes what it committed.
TypeOK ==
    /\ tree.valid \subseteq Block
    /\ Known(fdb) \subseteq Block /\ fdb.head \in Known(fdb)
    /\ fdb.current \cup fdb.validated \cup fdb.recaptures \subseteq Known(fdb)
    /\ IsInjective(fdb.index)
    /\ head \in Block
    /\ ToSet(db.applied) \subseteq Block /\ db.base \in 1..Len(db.applied)
    /\ reversible \subseteq Block /\ ToSet(log) \subseteq Block
    /\ pending.on \in BOOLEAN /\ pending.trxs \subseteq Trx
    /\ unapplied \subseteq Trx
    /\ job.step \in {"idle", "extend", "pop", "apply", "unwind", "restore",
                     "replay", "down", "crashed"}
    /\ file.saved \in BOOLEAN
    /\ shutdowns \in 0..MaxShutdowns

\* None of the internal checks of the controller ever fails: every final
\* block links to the block log (on_irreversible), fetch_branch_from finds its
\* blocks, a fork switch never pops beyond the last irreversible block
\* (pop_block) and ends where both branches meet (maybe_switch_forks), the
\* database is at the head when a block is started (start_block), a produced
\* block becomes the head (commit_block), blocks applied before can be applied
\* again, and init accepts the files it finds, unless the log holds nothing
\* but the genesis block.
ChecksHold == fault = "none" \/ (fault = "startup" /\ Len(log) = 1)

\* pop_block is never asked to "pop beyond last irreversible block", as its
\* assertion says: a fork switch finds the predecessor of every block it pops.
NeverPopsFinal == fault # "pop"

\* The state database always holds exactly the effects of the chain that ends
\* with head, in the middle of a fork switch or of a replay too: every undo
\* found the session it needed although commits of final blocks run between.
DatabaseIsAtHead == Running => db.applied = Path(head)

\* The fork database follows the head.  Between two handlers it prefers no block
\* to the one that is applied, whatever was received, rejected or reversed
\* before (it may hold one of the same rank as its head: a restart reorders
\* equals).  At every step in_current_chain marks exactly the applied blocks of
\* the index (the genesis block is never marked), and these are known to be
\* valid: prune relies on it to call the right block of a number irreversible.
IndexFollowsHead ==
    /\ TypeOK
    /\ At("idle") => \A b \in Known(fdb) : ~Before(b, head)
    /\ Running =>
          /\ fdb.current = (Ancestors(head) \cap Known(fdb)) \ {Genesis}
          /\ fdb.current \subseteq fdb.validated

\* The block log followed by the reversible blocks is the applied chain after
\* every step of every handler, so a crash between any two of them loses no
\* applied block.
DiskHoldsChain ==
    Running /\ ~At("replay") =>
        /\ IsPrefix(log, Path(head))
        /\ {b \in reversible : Num(b) > Len(log)} = Ancestors(head) \ ToSet(log)

\* A fork switch that meets an invalid block ends with the old head, and the
\* fork database prefers nothing to that head again.
FailedSwitchRestores ==
    [][At("restore") /\ job'.step = "idle"
         => head' = Last(job.old) /\ ~Before(fdb'.head, head')]_vars

\* The transactions that wait in the pending block, in unapplied_transactions or
\* in an applied block produced by this process.
OwnTransactions ==
    unapplied \cup pending.trxs
        \cup UNION {TrxsOf(b) : b \in ToSet(db.applied) \cap fdb.recaptures}

\* No step of a handler loses a transaction of the node's own: it keeps waiting
\* or is in the applied chain (push_transaction, abort_block, pop_block).  Only
\* the rejection of a block takes one away, the one that failed in that block.
\* A transaction that the block of another producer contains is no longer the
\* node's own once that block is applied: pop_block does not put it back.
OwnTransactionsKept ==
    [][job'.step \notin {"down", "crashed"} =>
         LET lost == OwnTransactions \ (unapplied' \cup pending'.trxs
                                          \cup ChainTrxs(db'.applied))
         IN  lost # {} => /\ job.step \in {"extend", "apply"} /\ head' = head
                          /\ lost \subseteq TrxsOf(job.new[job.i])
                          /\ Cardinality(lost) = 1]_vars

\* The preferred head is eventually applied, or found invalid, unless the
\* node stops first.
HeadCatchesUp ==
    (Running /\ Before(fdb.head, head)) ~> (~Running \/ ~Before(fdb.head, head))

-------------------------------------------------------------------------------
(* The controller implements the ledger.                                   *)

\* The chain on disk, which a restart shows again.
OnDisk ==
    LET top == {b \in ToSet(log) \cup reversible :
                   \A c \in ToSet(log) \cup reversible : Num(c) <= Num(b)}
    IN  CHOOSE b \in top : TRUE

\* The last block of the chain shown: a fork switch shows the old chain until
\* it is done or reversed.
Shown ==
    CASE job.step \in {"pop", "apply", "unwind", "restore"} -> Last(job.old)
      [] job.step \in {"replay", "down", "crashed"}         -> OnDisk
      [] OTHER                                              -> head

L == INSTANCE Ledger WITH chain <- Shown, final <- log

\* Every step of a node that is not killed shows a chain of valid blocks that
\* ranks at least as high as the one before and keeps every final block; a
\* rejected block or a reversed fork switch changes nothing.
ImplementsSteadyLedger == L!SteadySpec

\* With crashes, the node still never takes back a final block nor shows an
\* invalid one.
ImplementsLedger == L!LedgerSpec
===============================================================================
