---------------------------- MODULE Transactions ----------------------------
(***************************************************************************)
(* Transactions in a block: input transactions, delayed and deferred ones, *)
(* the onerror handler, billing, and what a validator makes of the receipts*)
(* (transaction_context.cpp, the transaction part of controller.cpp, the   *)
(* deferred transactions of apply_context.cpp).                            *)
(*                                                                         *)
(* An execution takes the database db and returns the one after it.  What  *)
(* a contract does is a sequence of operations; how long it takes is up to *)
(* the machine while producing, and said by the receipt while validating.  *)
(* Time is counted in slots, CPU time in units, network usage in words.    *)
(* The contract is privileged: it sets limits, and other accounts pay for  *)
(* the rows it schedules.  Authorization is modelled in Authorization,     *)
(* white and black lists are left out.                                     *)
(***************************************************************************)
EXTENDS ResourceLimits, SequencesExt

CONSTANTS System,      \* the system account, without limits
          Sender,      \* the contract that sends and cancels deferred transactions
          NoSender,    \* sender of a delayed input transaction
          MaxTrx,      \* [Kind -> units], the limits of one transaction
          MinCpu,      \* min_transaction_cpu_usage
          BaseNet,     \* words of an input transaction
          RetireNet,   \* words to retire a scheduled transaction
          NetLeeway,   \* net_usage_leeway
          RowSize,     \* RAM of a scheduled transaction
          ExpirationWindow, Lifetime,  \* deferred_trx_expiration_window, max_transaction_lifetime
          Unbounded,   \* a number above all limits
          NoBlock,     \* no block is pending
          Program,     \* name -> authorizing accounts, own CPU limit, operations
          Scenario     \* what may happen, see Init

ASSUME TransactionAssumption ==
  /\ {System, Sender} \subseteq Account /\ NoSender \notin Account
  /\ MaxTrx \in [Kind -> Nat]
  /\ {MinCpu, BaseNet, RetireNet, NetLeeway, RowSize, ExpirationWindow, Lifetime, Unbounded}
       \subseteq Nat

VARIABLES head,      \* database of the head block
          db,        \* database of the pending block
          block,     \* receipts of the pending block, or NoBlock
          included,  \* input transactions in blocks of this chain
          overrun,   \* a receipt of the block says hard_fail for the time alone
          last,      \* how the last transaction ended
          left       \* the scenario, and what of it may still happen

vars == <<head, db, block, included, overrun, last, left>>

(* A receipt holds an input transaction itself, a scheduled one by its id. *)
Receipt(packed, id, status, cpu, net) ==
  [packed |-> packed, trx |-> id, status |-> status, cpu |-> cpu, net |-> net]

-----------------------------------------------------------------------------
(* Limits.  A limit is a number and the exception that goes with it.        *)

Limit(most, code) == [most |-> most, code |-> code]

(* The deadline of an account that may not pay for more is taken as final. *)
SubjectiveButLeeway == {"block_net", "block_cpu", "grey", "deadline", "producing"}

(* failure_is_subjective *)
Subjective == {"block_net", "block_cpu", "grey", "deadline", "leeway", "producing"}

(* Executions say of themselves: explicit, with the CPU time billed; or     *)
(* timed, with the time they took, whether the timer stopped them, the      *)
(* deadline of the caller and the leeway.                                   *)
Explicit(cpu) ==
  [explicit |-> TRUE, billed |-> cpu, elapsed |-> 0, caught |-> FALSE,
   deadline |-> Unbounded, leeway |-> 0]

Timed(elapsed, caught, deadline, leeway) ==
  [explicit |-> FALSE, billed |-> 0, elapsed |-> elapsed, caught |-> caught,
   deadline |-> deadline, leeway |-> leeway]

(* update_billed_cpu_time *)
Billed(how) == IF how.explicit THEN how.billed ELSE Max({how.elapsed, MinCpu})

(* max_bandwidth_billed_accounts_can_pay *)
Elastic(a, how) == how.explicit \/ a \notin left.greylist

CanPay(rl, accounts, kind, how) ==
  Min({Unbounded} \cup {Available(rl, a, kind, Elastic(a, how)) :
                          a \in {b \in accounts : Limited(rl, b, kind)}})

Greyed(limit, tables, accounts, how) ==
  IF /\ limit.code \in {"tx_net", "tx_cpu"}
     /\ \E a \in accounts, rl \in tables :
          ~Elastic(a, how) /\ Limited(rl, a, IF limit.code = "tx_net" THEN "net" ELSE "cpu")
  THEN Limit(limit.most, "grey") ELSE limit

CpuLimit(rl, trx) ==
  LET ofBlock == BlockLimit(rl, "cpu")
      ofTrx   == IF MaxTrx["cpu"] <= ofBlock THEN Limit(MaxTrx["cpu"], "tx_cpu")
                                             ELSE Limit(ofBlock, "block_cpu")
  IN IF trx.cpuLimit > 0 /\ trx.cpuLimit <= ofTrx.most
     THEN Limit(trx.cpuLimit, "tx_cpu") ELSE ofTrx

NetLimit(rl) ==
  IF MaxTrx["net"] <= BlockLimit(rl, "net") THEN Limit(MaxTrx["net"], "tx_net")
                                            ELSE Limit(BlockLimit(rl, "net"), "block_net")

(* With what the accounts can pay and some leeway: eager_net_limit, and the *)
(* duration of the billing timer.                                           *)
EagerNetLimit(rl, accounts, how) ==
  LET pay == CanPay(rl, accounts, "net", how) + NetLeeway
  IN Greyed(IF pay < NetLimit(rl).most THEN Limit(pay, "tx_net") ELSE NetLimit(rl),
            {rl}, accounts, how)

BillingLimit(rl, trx, how) ==
  LET pay == CanPay(rl, trx.auth, "cpu", how) + how.leeway
  IN IF pay <= CpuLimit(rl, trx).most THEN Limit(pay, "leeway") ELSE CpuLimit(rl, trx)

(* The deadline of the timer that init starts. *)
TimerLimit(rl, trx, how) ==
  LET billing == BillingLimit(rl, trx, how)
  IN IF how.deadline < billing.most THEN Limit(how.deadline, "deadline")
     ELSE Greyed(billing, {rl}, trx.auth, how)

(* A limit lowered to what the accounts can pay is no longer the block's,   *)
(* nor is one that init had lowered.                                        *)
Lowered(limit, initial, pay, code) ==
  IF pay <= limit.most THEN Limit(pay, code)
  ELSE IF initial.code # limit.code THEN Limit(limit.most, code) ELSE limit

-----------------------------------------------------------------------------
(* Executing.  ctx has the database, the network usage, the accounts whose  *)
(* RAM is to be verified, and how it went so far.                           *)

Fail(ctx, code) == [ctx EXCEPT !.code = code]

AddNetUsage(ctx, words, eager) ==
  IF ctx.net + words > eager.most THEN Fail(ctx, eager.code)
                                  ELSE [ctx EXCEPT !.net = @ + words]

AddRamUsage(ctx, a, delta) ==
  [ctx EXCEPT !.db.rl = AddPendingRamUsage(@, a, delta),
              !.verify = IF delta > 0 THEN @ \cup {a} ELSE @]

Row(id, sender, senderId, payer, program, slot, delay) ==
  [id |-> id, sender |-> sender, senderId |-> senderId, payer |-> payer, program |-> program,
   delayUntil |-> slot + delay, expiration |-> slot + delay + ExpirationWindow]

CreateRow(ctx, row) ==
  IF \E g \in ctx.db.rows : g.id = row.id THEN Fail(ctx, "assert")
  ELSE AddRamUsage([ctx EXCEPT !.db.rows = @ \cup {row}], row.payer, RowSize)

RowsOf(d, sender, senderId) == {g \in d.rows : g.sender = sender /\ g.senderId = senderId}

(* schedule_deferred_transaction: replacing is refused while producing, and *)
(* a validator does not give the RAM of the replaced row back.              *)
ScheduleDeferred(ctx, op, eager, how) ==
  LET charged == AddNetUsage(ctx, RetireNet, eager)
      old     == RowsOf(ctx.db, Sender, op.id)
      row     == Row(<<op.program, ctx.db.slot, op.delay>>, Sender, op.id, op.payer, op.program,
                     ctx.db.slot, op.delay)
  IN IF charged.code # "ok" THEN charged
     ELSE IF old = {} THEN CreateRow(charged, row)
     ELSE IF ~op.replace THEN Fail(charged, "assert")
     ELSE IF ~how.explicit THEN Fail(charged, "producing")
     ELSE AddRamUsage(
            [charged EXCEPT !.db.rows = (@ \ old) \cup {[row EXCEPT !.id = g.id] : g \in old}],
            op.payer, RowSize)

(* The RAM is given back to the sender instead of the payer. *)
CancelDeferredToSender(ctx, senderId) ==
  LET old == RowsOf(ctx.db, Sender, senderId)
  IN IF old = {} THEN ctx
     ELSE AddRamUsage([ctx EXCEPT !.db.rows = @ \ old], Sender, -RowSize)

CancelDeferred(ctx, senderId) ==
  LET old == RowsOf(ctx.db, Sender, senderId)
  IN IF old = {} THEN ctx
     ELSE AddRamUsage([ctx EXCEPT !.db.rows = @ \ old], (CHOOSE g \in old : TRUE).payer, -RowSize)

SetLimits(ctx, a, limits) ==
  [ctx EXCEPT !.verify = IF Decreases(ctx.db.rl, a, limits) THEN @ \cup {a} ELSE @,
              !.db.rl = SetAccountLimits(@, a, limits)]

Operate(ctx, op, eager, how) ==
  CASE op.name = "send"    -> ScheduleDeferred(ctx, op, eager, how)
    [] op.name = "cancel"  -> CancelDeferred(ctx, op.id)
    [] op.name = "limits"  -> SetLimits(ctx, op.account, op.limits)
    [] op.name = "fail"    -> Fail(ctx, "assert")

(* exec: the operations of the actions, or a row for later. *)
Exec(ctx, trx, eager, how) ==
  IF trx.row # {} THEN CreateRow(ctx, CHOOSE row \in trx.row : TRUE)
  ELSE FoldLeft(LAMBDA c, op : IF c.code = "ok" THEN Operate(c, op, eager, how) ELSE c,
                ctx, trx.ops)

(* The checks of finalize, and the billing when all of them hold. *)
Concluded(ctx, billed, net, cpu, used) ==
  IF ctx.code # "ok" THEN ctx
  ELSE IF \E a \in ctx.verify : ~VerifyRam(ctx.db.rl, a) THEN Fail(ctx, "assert")
  ELSE IF ctx.net > net.most THEN Fail(ctx, net.code)
  ELSE IF billed < MinCpu THEN Fail(ctx, "assert")
  ELSE IF billed > cpu.most THEN Fail(ctx, cpu.code)
  ELSE IF ~used.ok THEN Fail(ctx, "usage")
  ELSE [ctx EXCEPT !.db.rl = used.rl]

(* finalize; before is what init saw. *)
Finalize(ctx, trx, before, how) ==
  LET rl   == ctx.db.rl
      net  == Greyed(Lowered(NetLimit(rl), EagerNetLimit(before, trx.auth, how),
                             CanPay(rl, trx.auth, "net", how), "tx_net"),
                     {before, rl}, trx.auth, how)
      cpu  == Greyed(Lowered(CpuLimit(rl, trx), BillingLimit(before, trx, how),
                             CanPay(rl, trx.auth, "cpu", how), "tx_cpu"),
                     {before, rl}, trx.auth, how)
  IN Concluded(ctx, Billed(how), net, cpu,
               AddTransactionUsage(rl, trx.auth, Billed(how), ctx.net, ctx.db.slot))

(* How a transaction_context ends: on failure the database is as before.    *)
(* One that fails early does not know whom to bill.                         *)
Ended(d, trx, early, ctx) ==
  [code   |-> ctx.code, db |-> IF ctx.code = "ok" THEN ctx.db ELSE d,
   billTo |-> IF early THEN {} ELSE trx.auth, net |-> ctx.net]

(* A transaction_context from its start, where it is charged for the size   *)
(* of the transaction, to finalize.                                         *)
Carried(begun, trx, rl, eager, timer, how) ==
  IF begun.code # "ok" THEN begun
  ELSE Finalize(IF how.caught /\ how.elapsed > timer.most THEN Fail(begun, timer.code)
                ELSE Exec(begun, trx, eager, how), trx, rl, how)

(* record_transaction, which finds duplicates; deferred and implicit        *)
(* transactions are not recorded.                                           *)
RecordTransaction(ctx, trx) ==
  IF ctx.code # "ok" THEN ctx
  ELSE IF \E s \in ctx.db.seen, r \in trx.record : s.id = r.id THEN Fail(ctx, "assert")
  ELSE [ctx EXCEPT !.db.seen = @ \cup trx.record]

(* All of it.  An execution billed explicitly for too much fails early.     *)
Attempt(d, trx, words, how) ==
  LET rl    == UpdateAccountUsage(d.rl, trx.auth, d.slot)
      eager == EagerNetLimit(rl, trx.auth, how)
      early == how.explicit /\ how.billed > CpuLimit(d.rl, trx).most
      start == [db |-> [d EXCEPT !.rl = rl], net |-> 0, verify |-> {}, code |-> "ok"]
      begun == RecordTransaction(AddNetUsage(start, words, eager), trx)
  IN Ended(d, trx, early,
           IF early THEN Fail(begun, CpuLimit(d.rl, trx).code)
           ELSE Carried(begun, trx, rl, eager, TimerLimit(rl, trx, how), how))

-----------------------------------------------------------------------------
(* The controller.                                                          *)

(* A transaction that is neither delayed nor recorded. *)
Acting(auth, cpuLimit, ops) ==
  [auth |-> auth, cpuLimit |-> cpuLimit, ops |-> ops, row |-> {}, record |-> {}]

Running(program) ==
  Acting(Program[program].auth, Program[program].cpuLimit, Program[program].ops)

(* The receipt of an input transaction. *)
Received(input, run, how) ==
  IF run.code # "ok" THEN [code |-> run.code, db |-> run.db, receipts |-> <<>>]
  ELSE [code     |-> "ok",
        db       |-> run.db,
        receipts |-> <<Receipt(TRUE, input.id, IF input.delay > 0 THEN "delayed" ELSE "executed",
                               Billed(how), run.net)>>]

(* push_transaction of an input transaction, with validate_expiration and   *)
(* schedule_transaction.                                                    *)
PushTransaction(d, input, how) ==
  LET later == Row(input.id, NoSender, input.id, Program[input.program].payer,
                   input.program, d.slot, input.delay)
      trx   == [Running(input.program) EXCEPT
                  !.row    = IF input.delay > 0 THEN {later} ELSE {},
                  !.record = {[id |-> input.id, expiration |-> input.expiration]}]
  IN IF ~(d.slot <= input.expiration /\ input.expiration <= d.slot + Lifetime)
     THEN [code |-> "assert", db |-> d, receipts |-> <<>>]
     ELSE Received(input,
                   Attempt(d, trx, BaseNet + IF input.delay > 0 THEN RetireNet ELSE 0, how), how)

RemoveScheduled(d, g) ==
  [d EXCEPT !.rows = @ \ {g}, !.rl = AddPendingRamUsage(@, g.payer, -RowSize)]

(* scheduled_failure_is_subjective, while producing. *)
FailureIsSubjective(code, how) ==
  code \in Subjective \/ (~how.explicit /\ code = "tx_cpu")

(* What a hard failure is billed: no more than the accounts can pay. *)
HardFailCpu(d, trx, how) ==
  IF how.explicit THEN Billed(how)
  ELSE Min({Billed(how), CpuLimit(d.rl, trx).most,
            CanPay(UpdateAccountUsage(d.rl, trx.auth, d.slot), trx.auth, "cpu", Explicit(0))})

(* The end of push_scheduled_transaction.  d is without the row of g; the   *)
(* caller puts it back when there is no receipt.                            *)
Retired(d, g, code, status, cpu, net) ==
  [code |-> code, db |-> d, receipts |-> <<Receipt(FALSE, g.id, status, cpu, net)>>]

BilledFailure(d, g, code, cpu, used) ==
  IF ~used.ok THEN [code |-> "usage", db |-> d, receipts |-> <<>>]
  ELSE Retired([d EXCEPT !.rl = used.rl], g, code, "hard_fail", cpu, 0)

FailedScheduled(d, g, trx, billTo, code, how) ==
  LET cpu == HardFailCpu(d, trx, how)
  IN IF FailureIsSubjective(code, how) THEN [code |-> code, db |-> d, receipts |-> <<>>]
     ELSE BilledFailure(d, g, code, cpu, AddTransactionUsage(d.rl, billTo, cpu, 0, d.slot))

(* apply_onerror, after the first execution failed. *)
HandledByOnerror(d, g, trx, billTo, onerror, handling) ==
  IF onerror.code = "ok"
  THEN Retired(onerror.db, g, "ok", "soft_fail", Billed(handling), onerror.net)
  ELSE FailedScheduled(d, g, trx, billTo, onerror.code, handling)

(* What follows the first execution. *)
AfterFirst(d, g, trx, first, how, handling) ==
  IF first.code = "ok" THEN Retired(first.db, g, "ok", "executed", Billed(how), first.net)
  ELSE IF g.sender = NoSender \/ first.code \in Subjective
       THEN FailedScheduled(d, g, trx, first.billTo, first.code, how)
  ELSE HandledByOnerror(d, g, trx, first.billTo,
         Attempt(d, Acting({g.sender}, 0, left.onerror), 0, handling), handling)

PutBackUnlessRetired(d, result) ==
  [result EXCEPT !.db = IF result.receipts = <<>> THEN d ELSE @]

(* push_scheduled_transaction: executed, handed to onerror, failed, expired,*)
(* or left for another block.  handling is the execution of apply_onerror,  *)
(* whose clock goes on from the start of the transaction.                   *)
PushScheduled(d, g, how, handling) ==
  LET removed == RemoveScheduled(d, g)
      trx     == Running(g.program)
  IN PutBackUnlessRetired(d,
       IF g.delayUntil > d.slot THEN [code |-> "assert", db |-> removed, receipts |-> <<>>]
       ELSE IF g.expiration < d.slot THEN Retired(removed, g, "ok", "expired", how.billed, 0)
       ELSE AfterFirst(removed, g, trx, Attempt(removed, trx, 0, how), how, handling))

(* A receipt says hard_fail although only the time of the first execution   *)
(* was too long.                                                            *)
Overran(d, g, how, result) ==
  /\ \E i \in DOMAIN result.receipts : result.receipts[i].status = "hard_fail"
  /\ Attempt(RemoveScheduled(d, g), Running(g.program), 0, how).code = "tx_cpu"

(* clear_expired_input_transactions in the block of the last slot. *)
StillSeenEarly(s, slot) == slot < s.expiration

StillSeen(s, slot) == slot <= s.expiration

(* start_block: the onblock transaction is billed the minimum. *)
Started(d, slot) ==
  LET fresh   == [d EXCEPT !.slot = slot]
      onblock == Attempt(fresh, Acting({System}, 0, <<>>), 0, Explicit(MinCpu))
  IN [onblock.db EXCEPT !.seen = {s \in @ : StillSeen(s, slot)}]

(* finalize_block *)
Finished(d) ==
  [d EXCEPT !.rl = ProcessBlockUsage(ProcessAccountLimitUpdates(@), d.num + 1), !.num = @ + 1]

(* apply_block: every receipt is made again and compared. *)
ApplyReceipt(state, receipt) ==
  LET inputs == {i \in left.inputs : receipt.packed /\ i.id = receipt.trx}
      rows   == {g \in state.db.rows : ~receipt.packed /\ g.id = receipt.trx}
      how    == Explicit(receipt.cpu)
      made   == IF inputs # {} THEN PushTransaction(state.db, CHOOSE i \in inputs : TRUE, how)
                ELSE PushScheduled(state.db, CHOOSE g \in rows : TRUE, how, how)
  IN IF ~state.ok \/ (inputs = {} /\ rows = {}) THEN [state EXCEPT !.ok = FALSE]
     ELSE [ok |-> made.receipts = <<receipt>>, db |-> made.db]

Validated(from, receipts) == FoldLeft(ApplyReceipt, [ok |-> TRUE, db |-> from], receipts)

-----------------------------------------------------------------------------
(* A producing node.                                                        *)

Produced(result) ==
  /\ db' = result.db
  /\ block' = block \o result.receipts
  /\ last' = result.code
  /\ left' = [left EXCEPT !.attempts = @ - 1]

StartBlock(gap) ==
  /\ block = NoBlock
  /\ left.blocks > 0
  /\ db' = Started(head, head.slot + gap)
  /\ block' = <<>>
  /\ overrun' = FALSE
  /\ last' = "ok"
  /\ left' = [left EXCEPT !.blocks = @ - 1]
  /\ UNCHANGED <<head, included>>

PushInput(input, elapsed, caught, deadline) ==
  /\ block # NoBlock /\ left.attempts > 0
  /\ \E result \in {PushTransaction(db, input, Timed(elapsed, caught, deadline, left.leeway))} :
        /\ Produced(result)
        /\ included' = IF result.receipts = <<>> THEN included ELSE included \cup {input.id}
  /\ UNCHANGED <<head, overrun>>

(* The clock of onerror goes on: it has taken at least as long. *)
RetireScheduled(g, elapsed, caught, deadline, total, caughtToo) ==
  /\ block # NoBlock /\ left.attempts > 0
  /\ elapsed <= total
  /\ \E how \in {Timed(elapsed, caught, deadline, 0)} :
     \E result \in {PushScheduled(db, g, how, Timed(total, caughtToo, deadline, left.leeway))} :
        /\ Produced(result)
        /\ overrun' = (overrun \/ Overran(db, g, how, result))
  /\ UNCHANGED <<head, included>>

(* finalize_block and commit_block *)
CommitBlock ==
  /\ block # NoBlock
  /\ head' = Finished(db)
  /\ db' = Finished(db)
  /\ block' = NoBlock
  /\ last' = "ok"
  /\ UNCHANGED <<included, overrun, left>>

AbortBlock ==
  /\ block # NoBlock
  /\ db' = head
  /\ block' = NoBlock
  /\ included' = included \ {block[i].trx : i \in {j \in DOMAIN block : block[j].packed}}
  /\ last' = "ok"
  /\ UNCHANGED <<head, overrun, left>>

Init ==
  /\ left \in Scenario
  /\ head = [slot |-> 0, num |-> 1, rows |-> {}, seen |-> {}, rl |-> NewTables(left.limits)]
  /\ db = head
  /\ block = NoBlock
  /\ included = {}
  /\ overrun = FALSE
  /\ last = "ok"

Next ==
  \/ \E gap \in left.gaps : StartBlock(gap)
  \/ \E elapsed \in left.times, caught \in BOOLEAN, deadline \in left.deadlines :
       \/ \E input \in left.inputs : PushInput(input, elapsed, caught, deadline)
       \/ \E g \in db.rows, total \in left.times, caughtToo \in BOOLEAN :
            RetireScheduled(g, elapsed, caught, deadline, total, caughtToo)
  \/ CommitBlock
  \/ AbortBlock

Spec == Init /\ [][Next]_vars

-----------------------------------------------------------------------------
(* Properties.                                                              *)

Sum(S, F(_)) == MapThenSumSet(F, S)

(* The tables have their types, and elastic limits stay in their bounds.    *)
TypeOK ==
  /\ TablesOK(db.rl, db.slot)
  /\ \A g \in db.rows : g.delayUntil <= g.expiration

(* What max_bandwidth_billed_accounts_can_pay allows, add_transaction_usage *)
(* accepts: with all the rounding, an account that may still use something  *)
(* stays within its share when it is billed that much.                      *)
AvailableFits ==
  LET now == UpdateAccountUsage(db.rl, Account, db.slot)
  IN \A a \in Account, k \in Kind, elastic \in BOOLEAN :
       LET units == Available(now, a, k, elastic)
       IN Limited(now, a, k) /\ units > 0 =>
            WithinShare(Used(now, {a}, units, units, db.slot), a, k)

(* "Should never fail": add_transaction_usage never throws when finalize or *)
(* a hard failure bills an account.                                         *)
ShouldNeverFail == last # "usage"

(* Each account is charged the RAM of the scheduled transactions it pays    *)
(* for, whichever way they are sent, cancelled, retired or put back.        *)
RamMatchesRows ==
  \A a \in Account : db.rl.usage[a].ram = RowSize * Cardinality({g \in db.rows : g.payer = a})

(* What the receipts of the block state, with the onblock transaction, is   *)
(* what process_block_usage will see: failed attempts leave nothing.        *)
BlockUsageMatches ==
  block # NoBlock =>
    /\ db.rl.block["cpu"] = MinCpu + Sum(DOMAIN block, LAMBDA i : block[i].cpu)
    /\ db.rl.block["net"] = Sum(DOMAIN block, LAMBDA i : block[i].net)

(* The totals that shares are taken of are the sums of the limits, once the *)
(* pending changes are applied at the end of the block.                     *)
TotalsMatch ==
  block = NoBlock => \A k \in {"ram", "net", "cpu"} :
    db.rl.total[k] = Sum(Account, LAMBDA a : Positive(db.rl.limits[a][k]))

(* Usage is counted once and given back once: RAM, the block's usage and    *)
(* the totals follow the rows, the receipts and the limits, although each   *)
(* is kept by hand and a failed attempt undoes only a part of them.         *)
UsageMatches == TypeOK /\ RamMatchesRows /\ BlockUsageMatches /\ TotalsMatch

(* An input transaction is applied once: it is remembered until it expires. *)
NeverAppliedTwice ==
  [][block # NoBlock /\ block' # NoBlock /\ block' # block =>
       LET receipt == block'[Len(block')] IN receipt.packed => receipt.trx \notin included]_vars

(* "receipt does not match": a validator makes the same receipts and the    *)
(* same database of every block that is produced.                           *)
EveryBlockValidates ==
  block # NoBlock =>
    LET result == Validated(Started(head, db.slot), block) IN result.ok /\ result.db = db

(* The same, unless a deferred transaction took too long and its onerror    *)
(* handler failed.                                                          *)
BlockValidates == ~overrun => EveryBlockValidates
=============================================================================
