---------------------------- MODULE ProducerPlugin ----------------------------
(***************************************************************************)
(* The production loop of a node (plugins/producer_plugin): when a node    *)
(* starts a pending block, whether it produces it or only speculates, the  *)
(* timer that wakes it up, the watermarks that keep its producers from     *)
(* signing twice, and the queue of incoming transactions.                  *)
(*                                                                         *)
(* Every handler of the application's io_service is one action.  Time is   *)
(* counted in block slots.  A block is its slot, its producer, the active  *)
(* schedule of its header state and the schedule that on_block expects to  *)
(* be active in the next block; a chain is the sequence of its blocks.     *)
(* Validation, forks and finality are those of Controller: here the head   *)
(* moves to any chain.  Of a timer handler only the question is kept       *)
(* whether it holds the latest _timer_corelation_id.                       *)
(***************************************************************************)
EXTENDS Integers, Sequences, FiniteSets, SequencesExt

CONSTANTS
    Local,           \* the producers configured on this node
    Schedules,       \* the producer schedules that can be active
    FirstSchedule,   \* the schedule of the first block
    FirstNext,       \* the schedule that may be active in the block after it
    NoProducer,      \* the producer of the first block
    Branches,        \* the chains whose last block the node may receive
    Repetitions,     \* config::producer_repetitions
    ConfirmSpan,     \* 2^16, the range of blocks_to_confirm
    Trx,             \* incoming transactions
    Expiration,      \* their expirations, in slots
    StaleProduction, \* the option enable-stale-production
    MayRestart,      \* whether the process may be restarted
    MaxHeadAge,      \* the five seconds of start_block, in slots
    MaxAhead,        \* the seven seconds of on_incoming_block, in slots
    MaxSlot,         \* bound on time
    MaxNum           \* bound on the length of a chain

ASSUME SchedulesAssumption ==
    FirstSchedule \in Schedules /\ FirstNext \in Schedules /\ <<>> \notin Schedules
ASSUME ExpirationAssumption == Expiration \in [Trx -> Nat]
ASSUME RepetitionsAssumption == Repetitions \in Nat \ {0} /\ ConfirmSpan \in Nat \ {0}

VARIABLES
    now,    \* the slot whose time has come
    node    \* the members of producer_plugin_impl and what it sees of the chain

vars == <<now, node>>

(***************************************************************************)
(* node.chain      the chain that ends with the head block                 *)
(* node.pending    the pending block of the controller                     *)
(* node.mode       _pending_block_mode                                     *)
(* node.enabled    _production_enabled                                     *)
(* node.paused     _pause_production                                       *)
(* node.libOld     the last irreversible block is older than the limit     *)
(* node.marks      _producer_watermarks, 0 for none                        *)
(* node.lastSigned _last_signed_block_num and _last_signed_block_time      *)
(* node.started    _start_time                                             *)
(* node.timer      the wait of _timer, if there is one                     *)
(* node.queued     handlers of expired waits that have not run yet         *)
(* node.incoming   _pending_incoming_transactions                          *)
(* node.persisted  _persistent_transactions                                *)
(* node.unapplied  unapplied_transactions of the controller                *)
(* node.own        the chains that end with a block of this process with   *)
(*                 transactions, which the controller gives back           *)
(* node.submitted, node.answered, node.signed, node.owed                   *)
(*                 history: the transactions received, how often each was  *)
(*                 answered, the blocks signed by this node, and the       *)
(*                 transactions it has accepted and neither seen in the    *)
(*                 block of another nor found invalid or expired since     *)
(* pending.cut says that not all unapplied transactions were tried.        *)
(***************************************************************************)
NoPending == [on |-> FALSE, slot |-> 0, confirmed |-> 0, trxs |-> {}, cut |-> FALSE]

HeadBlock(n) == Last(n.chain)

Num(n) == Len(n.chain)

-------------------------------------------------------------------------------
(* Chains.                                                                 *)

FirstBlock == [slot |-> 0, producer |-> NoProducer,
               active |-> FirstSchedule, next |-> FirstNext, trxs |-> {}]

Included(c) == UNION {c[i].trxs : i \in DOMAIN c}

\* get_scheduled_producer.
Scheduled(active, slot) ==
    active[((slot % (Len(active) * Repetitions)) \div Repetitions) + 1]

\* The blocks of a slot that can follow block b with some transactions.
BlocksAfter(b, slot, trxs) ==
    {[slot |-> slot, producer |-> Scheduled(b.active, slot), active |-> a, next |-> s,
      trxs |-> trxs] : a \in {b.active, b.next}, s \in Schedules}

\* The transactions that a block of a slot may have after chain c.
Open(c, slot) == {t \in Trx \ Included(c) : Expiration[t] >= slot}

IsChain(c) ==
    /\ c # <<>> /\ c[1] = FirstBlock
    /\ \A i \in 2..Len(c) :
          /\ c[i].slot > c[i - 1].slot
          /\ c[i] \in BlocksAfter(c[i - 1], c[i].slot, c[i].trxs)
          /\ c[i].trxs \subseteq Open(SubSeq(c, 1, i - 1), c[i].slot)

ASSUME BranchesAssumption == \A c \in Branches : IsChain(c)

-------------------------------------------------------------------------------
(* on_block, called for every block that is applied.                       *)

OnBlock(n, c) ==
    LET b     == Last(c)
        skips == b.slot <= n.lastSigned.slot \/ b.slot <= n.started \/ Len(c) <= n.lastSigned.num
        signs == (Local \cap ToSet(b.active)) \ {b.producer} # {}
        new   == (Local \cap ToSet(b.next)) \ ToSet(b.active)
    IN  IF skips THEN n
        ELSE [n EXCEPT !.lastSigned = IF signs THEN [num |-> Len(c), slot |-> b.slot] ELSE @,
                       !.marks = [p \in Local |-> IF p \in new THEN Len(c) ELSE @[p]]]

\* The number of the last block that c and the chain of n have in common.
Fork(n, c) ==
    Cardinality({i \in DOMAIN c \cap DOMAIN n.chain : SubSeq(c, 1, i) = SubSeq(n.chain, 1, i)})

\* The head moves to chain c: the blocks of the old chain are popped down to the
\* fork, which gives back the transactions of own blocks, and those of c are
\* applied.
Adopt(n, c) ==
    LET fork  == Fork(n, c)
        after == [i \in 1..(Len(c) - fork) |-> SubSeq(c, 1, fork + i)]
        back  == {Last(b).trxs : b \in {o \in n.own : IsPrefix(o, n.chain) /\ ~IsPrefix(o, c)}}
        other == {Last(b).trxs : b \in ToSet(after) \ n.own}
    IN  [FoldLeft(OnBlock, n, after) EXCEPT
            !.chain = c,
            !.unapplied = (@ \cup UNION back) \ Included(c),
            !.owed = @ \ UNION other]

-------------------------------------------------------------------------------
(* The next turn of a producer.                                            *)

\* calculate_pending_block_time: the next slot, or the one after it when the
\* next one is less than a tenth of a slot away.
PendingSlots(n) ==
    IF HeadBlock(n).slot > now THEN {HeadBlock(n).slot + 1} ELSE {now + 1, now + 2}

\* The first slot after cur that the watermark of p leaves open.
MinimumSlot(n, p, cur) ==
    LET num == IF n.pending.on THEN Num(n) + 1 ELSE Num(n)
    IN  cur + (IF n.marks[p] > num THEN n.marks[p] - num + 1 ELSE 1)

\* Mutant: the distance to the turn is counted from the slot itself.
NextBlockTimeUnaligned(n, p, cur) ==
    LET active == HeadBlock(n).active
        size   == Len(active)
        i      == CHOOSE k \in DOMAIN active : active[k] = p
        slot   == MinimumSlot(n, p, cur)
        j      == ((slot % (size * Repetitions)) \div Repetitions) + 1
    IN  slot + Repetitions * (IF i < j THEN i + size - j ELSE i - j)

\* calculate_next_block_time.
NextBlockTime(n, p, cur) ==
    LET active == HeadBlock(n).active
        size   == Len(active)
        i      == CHOOSE k \in DOMAIN active : active[k] = p
        slot   == MinimumSlot(n, p, cur)
        j      == ((slot % (size * Repetitions)) \div Repetitions) + 1
        turns  == IF i < j THEN i + size - j ELSE i - j
    IN  IF i = j THEN slot ELSE slot - (slot % Repetitions) + turns * Repetitions

-------------------------------------------------------------------------------
(* start_block and schedule_production_loop.  They take the state of the   *)
(* node and return the set of states they can leave.                       *)

Abort(n) == [n EXCEPT !.pending = NoPending, !.unapplied = @ \cup n.pending.trxs]

\* production_disabled_by_policy.
Disabled(n) == ~n.enabled \/ n.paused \/ n.libOld

\* Mutant: the watermark itself may be produced again.
MayProduceAgain(n, p) == n.marks[p] <= Num(n) + 1

\* The watermark leaves the next block of the head open to p.
MayProduce(n, p) == n.marks[p] < Num(n) + 1

ModeOf(n, slot) ==
    LET p == Scheduled(HeadBlock(n).active, slot)
    IN  IF p \in Local /\ ~Disabled(n) /\ MayProduce(n, p) THEN "producing" ELSE "speculating"

\* The number of predecessors that a new block of p confirms: those since the
\* last block of p, if this process knows it. The number is cut to its width
\* before it is limited to the largest of that width.
BlocksToConfirm(n, p) ==
    IF n.marks[p] # 0 /\ n.marks[p] < Num(n)
    THEN Min({ConfirmSpan - 1, (Num(n) - n.marks[p]) % ConfirmSpan}) ELSE 0

-------------------------------------------------------------------------------
(* The transactions of a pending block.  As for start_block, the operators *)
(* return the set of states they can leave.                                *)

Answered(n, t) == [n EXCEPT !.answered[t] = @ + 1]

\* push_transaction of the controller, when it succeeds and when it fails for good.
Pushed(n, t) == [n EXCEPT !.pending.trxs = @ \cup {t}, !.unapplied = @ \ {t}]

Failed(n, t) == [n EXCEPT !.unapplied = @ \ {t}, !.owed = @ \ {t}]

\* Mutant: a transaction that does not fit is forgotten.
PutBackForgotten(n, e) == n

\* A transaction that does not fit is put back at the end of the queue.
PutBack(n, e) == [n EXCEPT !.incoming = Append(@, e)]

Accepted(n, e) ==
    [Pushed(n, e.trx) EXCEPT
        !.persisted = IF e.persist THEN @ \cup {e.trx} ELSE @, !.owed = @ \cup {e.trx}]

\* on_incoming_transaction_async with a pending block: transactions that have
\* expired or are known are answered with an exception, the others are tried.
Incoming(n, e) ==
    IF Expiration[e.trx] < n.pending.slot \/ e.trx \in Included(n.chain) \cup n.pending.trxs
    THEN {Answered(n, e.trx)}
    ELSE {Answered(Accepted(n, e), e.trx), Answered(Failed(n, e.trx), e.trx), PutBack(n, e)}

\* Each transaction that waits is tried at most once per block; the deadline
\* may come first.
ProcessIncoming(n) ==
    LET next(m) == Incoming([m EXCEPT !.incoming = Tail(@)], Head(m.incoming))
        tried[k \in 0..Len(n.incoming)] ==
            IF k = 0 THEN {n} ELSE UNION {next(m) : m \in tried[k - 1]}
    IN  UNION {tried[k] : k \in DOMAIN tried}

Cut(n) == [n EXCEPT !.pending.cut = TRUE]

\* The persisted transactions that have expired are forgotten, all or up to the
\* deadline, in the order of their expiration.
ExpirePersisted(n) ==
    LET expired == {t \in n.persisted : Expiration[t] <= n.pending.slot}
        first   == {e \in SUBSET expired : \A t \in e, u \in expired \ e : Expiration[t] <= Expiration[u]}
    IN  {[n EXCEPT !.persisted = @ \ expired]} \cup
        {Cut([n EXCEPT !.persisted = @ \ e]) : e \in first \ {expired}}

\* Mutant: a node that is not producing drops what is not persisted.
WorthKeepingPersisted(n, t) == Expiration[t] >= n.pending.slot /\ t \in n.persisted

\* A node with producers drops an unapplied transaction only when it has expired.
WorthKeeping(n, t) == Expiration[t] >= n.pending.slot

Dropped(n, t) ==
    [n EXCEPT !.unapplied = @ \ {t},
              !.owed = {u \in @ : u # t \/ Expiration[u] >= n.pending.slot}]

\* One round of the loop over the unapplied transactions, unless it has ended.
Reapply(n, t) ==
    IF n.pending.cut THEN {n}
    ELSE {Cut(n)} \cup
         (IF ~WorthKeeping(n, t) THEN {Dropped(n, t)}
          ELSE IF t \in n.persisted \/ n.mode = "producing" THEN {Pushed(n, t), Failed(n, t)}
          ELSE {n})

ProcessUnapplied(n) ==
    FoldSet(LAMBDA t, states : UNION {Reapply(m, t) : m \in states}, {n}, n.unapplied)

\* When the unapplied transactions took all the time or room there is, incoming ones are
\* only tried between scheduled ones, which is while producing.
ProcessTransactions(n) ==
    LET ready == UNION {ProcessUnapplied(m) : m \in ExpirePersisted(n)}
    IN  UNION {IF m.pending.cut /\ m.mode = "speculating" THEN {m} ELSE ProcessIncoming(m) :
                  m \in ready}

\* The controller starts the pending block, or throws.
Begun(n, slot) ==
    LET p == Scheduled(HeadBlock(n).active, slot)
        c == IF n.mode = "producing" THEN BlocksToConfirm(n, p) ELSE 0
    IN  {[result |-> "failed", node |-> Abort(n)]} \cup
        {[result |-> "started", node |-> m] :
            m \in ProcessTransactions([Abort(n) EXCEPT
                     !.pending = [NoPending EXCEPT !.on = TRUE, !.slot = slot, !.confirmed = c]])}

StartBlock(n) ==
    UNION {LET m == [n EXCEPT !.mode = ModeOf(n, slot)]
           IN  IF m.mode = "speculating" /\ now >= HeadBlock(n).slot + MaxHeadAge
               THEN {[result |-> "waiting", node |-> m]}
               ELSE Begun(m, slot) :
           slot \in PendingSlots(n)}

\* async_wait with the next _timer_corelation_id.
Arm(n, at, kind) ==
    [n EXCEPT !.timer = {[at |-> at, kind |-> kind]},
              !.queued = {[q EXCEPT !.latest = FALSE] : q \in @}]

\* schedule_delayed_production_loop: wakes up one slot before the first turn.
Delayed(n, cur) ==
    LET turns == {NextBlockTime(n, p, cur) : p \in Local \cap ToSet(HeadBlock(n).active)}
    IN  IF turns = {} THEN n ELSE Arm(n, Min(turns) - 1, "loop")

\* What schedule_production_loop does after start_block.
Arranged(result, n) ==
    CASE result = "failed"  -> {Arm(n, now, "loop")}
      [] result = "waiting" -> IF Disabled(n) THEN {n}
                               ELSE {Delayed(n, slot) : slot \in PendingSlots(n)}
      [] result = "started" ->
            IF n.mode = "producing"
            THEN {Arm(n, at, "produce") : at \in {n.pending.slot - 1, n.pending.slot}}
            ELSE IF Disabled(n) THEN {n}
            ELSE {Delayed(n, n.pending.slot)}

\* Cancelling the timer does not reach a handler that is queued.
Loop(n) ==
    UNION {Arranged(r.result, r.node) : r \in StartBlock([n EXCEPT !.timer = {}])}

-------------------------------------------------------------------------------
(* Producing.                                                              *)

\* produce_block, up to the watermark, which follows the signals of
\* commit_block.
Produced(n) ==
    LET p == Scheduled(HeadBlock(n).active, n.pending.slot)
    IN  {LET c == Append(n.chain, b)
         IN  [Adopt([n EXCEPT !.pending = NoPending,
                               !.own = @ \cup {c : t \in n.pending.trxs}], c) EXCEPT
                 !.marks[p] = Len(c),
                 !.libOld = old,
                 !.signed = @ \cup {[chain |-> c, confirmed |-> n.pending.confirmed]}] :
            b \in BlocksAfter(HeadBlock(n), n.pending.slot, n.pending.trxs), old \in {n.libOld, FALSE}}

\* maybe_produce_block: produce_block succeeds or throws; the loop goes on.
MaybeProduce(n) ==
    UNION {Loop(m) : m \in {Abort(n)} \cup
        (IF n.mode = "producing" /\ n.pending.on THEN Produced(n) ELSE {})}

-------------------------------------------------------------------------------
(* The handlers.                                                           *)

Tick ==
    /\ now < MaxSlot
    /\ now' = now + 1
    /\ \E old \in {node.libOld, TRUE} : node' = [node EXCEPT !.libOld = old]

\* The wait of the timer ends: its handler is queued and cannot be cancelled.
Expire ==
    /\ \E t \in node.timer :
          /\ t.at <= now
          /\ node' = [node EXCEPT !.timer = {},
                                  !.queued = @ \cup {[kind |-> t.kind, latest |-> TRUE]}]
    /\ UNCHANGED now

\* A handler runs.  Without the latest _timer_corelation_id it does nothing.
RunHandler ==
    /\ \E q \in node.queued :
          LET n == [node EXCEPT !.queued = @ \ {q}]
          IN  node' \in IF ~q.latest THEN {n}
                        ELSE IF q.kind = "loop" THEN Loop(n) ELSE MaybeProduce(n)
    /\ Len(node'.chain) <= MaxNum
    /\ UNCHANGED now

\* The node is synced when the next slot of the head has not passed.
Synced(n) == [n EXCEPT !.enabled = @ \/ HeadBlock(n).slot >= now]

\* The blocks of c that this node would have signed are ones it did sign.
Known(c) ==
    \A i \in 2..Len(c) : c[i].producer \in Local =>
        \E s \in node.signed : s.chain = SubSeq(c, 1, i)

\* on_incoming_block goes on with the last block of c: it is not known and not
\* from the future.
Arrives(c) ==
    /\ Last(c).slot <= now + MaxAhead
    /\ ~IsPrefix(c, node.chain)
    /\ Last(c).producer \notin Local
    /\ Known(c)

\* on_incoming_block, when the block becomes the head.
OnIncomingBlock(c) ==
    /\ Arrives(c)
    /\ Len(c) <= MaxNum
    /\ \E old \in {node.libOld, FALSE} :
          node' \in Loop(Synced([Adopt(Abort(node), c) EXCEPT !.libOld = old]))
    /\ UNCHANGED now

\* The ways in which a chain that arrives can be found invalid: a block of it
\* after the fork fails, once the blocks before it have been applied.  On top of
\* the head only the new block is applied.
Failures ==
    UNION {{[before |-> SubSeq(c, 1, k - 1), trxs |-> c[k].trxs] :
               k \in {i \in (Fork(node, c) + 1)..Len(c) : c[i].producer \notin Local}} :
           c \in {d \in Branches :
                     Arrives(d) /\ (Fork(node, d) = Num(node) => Len(d) = Num(node) + 1)}}

\* A block with some transactions fails.  abort_block gives back those that had
\* been executed; the one that failed, if that is the reason, leaves the
\* unapplied ones for good.
Rejected(n, trxs) ==
    UNION {{[n EXCEPT !.unapplied = (@ \ failed) \cup done, !.owed = @ \ failed] :
               failed \in {f \in SUBSET (trxs \ done) : Cardinality(f) <= 1}} :
           done \in SUBSET trxs}

\* The blocks before it are then popped and the old chain is applied again.
Reversed(n, f) == {Adopt(m, n.chain) : m \in Rejected(Adopt(n, f.before), f.trxs)}

\* on_incoming_block, when the block would become the head and it or a block it
\* builds on is found invalid.
OnRejectedBlock ==
    /\ \E n \in UNION {Reversed(Abort(node), f) : f \in Failures} : node' \in Loop(n)
    /\ UNCHANGED now

\* on_incoming_block, when it joins another branch or its header is refused.
OnOtherBlock ==
    /\ \E n \in {Abort(node), Synced(Abort(node))} : node' \in Loop(n)
    /\ UNCHANGED now

\* on_incoming_transaction_async: without a pending block, or when it does not
\* fit, the transaction waits; otherwise it is answered.
OnIncomingTransaction(t, persist) ==
    /\ t \notin node.submitted
    /\ LET n == [node EXCEPT !.submitted = @ \cup {t}]
           e == [trx |-> t, persist |-> persist]
       IN  node' \in IF node.pending.on THEN Incoming(n, e)
                     ELSE {[n EXCEPT !.incoming = Append(@, e)]}
    /\ UNCHANGED now

Pause ==
    /\ node' = [node EXCEPT !.paused = TRUE]
    /\ UNCHANGED now

\* Mutant: the loop is left as it is.
ResumeOnly ==
    /\ node' = [node EXCEPT !.paused = FALSE]
    /\ UNCHANGED now

Resume ==
    /\ LET n == [node EXCEPT !.paused = FALSE]
       IN  node' \in IF n.mode = "speculating" THEN Loop(Abort(n)) ELSE {n}
    /\ UNCHANGED now

\* update_runtime_options with a new max_irreversible_block_age.
UpdateRuntimeOptions ==
    /\ \E old \in BOOLEAN :
          LET n == [node EXCEPT !.libOld = old]
          IN  node' \in IF n.mode = "speculating" THEN Loop(Abort(n)) ELSE {n}
    /\ UNCHANGED now

CreateSnapshot ==
    /\ node.pending.on
    /\ node' \in Loop(Abort(node))
    /\ UNCHANGED now

\* The process starts with the chain it has on disk: plugin_startup.
Booted(chain, signed) ==
    [chain |-> chain, pending |-> NoPending, mode |-> "speculating",
     enabled |-> StaleProduction, paused |-> FALSE, libOld |-> FALSE,
     marks |-> [p \in Local |-> 0], lastSigned |-> [num |-> 0, slot |-> 0],
     started |-> now, timer |-> {}, queued |-> {}, incoming |-> <<>>,
     persisted |-> {}, unapplied |-> {}, own |-> {}, owed |-> {},
     submitted |-> {}, answered |-> [t \in Trx |-> 0], signed |-> signed]

Restart ==
    /\ MayRestart
    /\ node' \in Loop(Booted(node.chain, node.signed))
    /\ UNCHANGED now

Init ==
    /\ now = 0
    /\ node \in Loop(Booted(<<FirstBlock>>, {}))

Next ==
    \/ Tick \/ Expire \/ RunHandler
    \/ \E c \in Branches : OnIncomingBlock(c)
    \/ OnRejectedBlock \/ OnOtherBlock
    \/ \E t \in Trx, persist \in BOOLEAN : OnIncomingTransaction(t, persist)
    \/ Pause \/ Resume \/ UpdateRuntimeOptions \/ CreateSnapshot
    \/ Restart

Spec == Init /\ [][Next]_vars

-------------------------------------------------------------------------------
(* Properties.                                                             *)

\* What the computation of the next turn takes for granted: a schedule without
\* duplicates, and counters that are natural numbers.
Scheduling ==
    /\ now \in Nat /\ HeadBlock(node).slot \in Nat /\ Num(node) \in Nat
    /\ node.marks \in [Local -> Nat]
    /\ LET active == HeadBlock(node).active
       IN  /\ Len(active) \in Nat \ {0} /\ DOMAIN active = 1..Len(active)
           /\ \A i, j \in DOMAIN active : active[i] = active[j] => i = j

\* Every variable holds a value of its type.
TypeOK ==
    /\ Scheduling
    /\ now \in 0..MaxSlot
    /\ node.chain[1] = FirstBlock
    /\ node.pending.on \in BOOLEAN /\ node.pending.slot \in Nat
    /\ node.pending.confirmed \in 0..MaxNum
    /\ node.mode \in {"producing", "speculating"}
    /\ node.marks \in [Local -> 0..MaxNum]
    /\ node.lastSigned \in [num : 0..MaxNum, slot : Nat]
    /\ node.timer \subseteq [at : Nat, kind : {"loop", "produce"}]
    /\ node.queued \subseteq [kind : {"loop", "produce"}, latest : BOOLEAN]
    /\ ToSet(node.incoming) \subseteq [trx : Trx, persist : BOOLEAN]
    /\ node.persisted \subseteq node.submitted
    /\ node.unapplied \cup node.pending.trxs \subseteq Trx
    /\ node.answered \in [Trx -> Nat]

\* The block numbers that a signed block vouches for: its own and those it
\* confirms.
Vouched(s) == (Len(s.chain) - s.confirmed)..Len(s.chain)

\* No producer of this node ever signs two blocks with overlapping ranges of
\* confirmed blocks, whatever branches the head moves between: what the comment
\* on block_header::confirmed calls a proof of byzantine behavior.
NoDoubleSigning ==
    \A s, t \in node.signed :
        s # t /\ Last(s.chain).producer = Last(t.chain).producer =>
            Vouched(s) \cap Vouched(t) = {}

\* Of all waits and queued handlers at most one can act, the one set last
\* (_timer_corelation_id), and a node that may produce has one: no order of
\* pauses, blocks, snapshots and failures makes two loops run side by side or
\* lets the node sleep for good.
OneLiveHandler ==
    LET live == Cardinality(node.timer) + Cardinality({q \in node.queued : q.latest})
    IN  /\ TypeOK
        /\ live <= 1
        /\ ~Disabled(node) /\ Local \cap ToSet(HeadBlock(node).active) # {} => live = 1

\* calculate_next_block_time returns the first slot of the producer's turns that
\* its watermark leaves open, also across the end of a round.
FirstOpenTurn ==
    \A p \in Local \cap ToSet(HeadBlock(node).active) : \A cur \in PendingSlots(node) :
        LET least == MinimumSlot(node, p, cur)
            slot  == NextBlockTime(node, p, cur)
        IN  /\ slot >= least /\ Scheduled(HeadBlock(node).active, slot) = p
            /\ \A s \in least..(slot - 1) : Scheduled(HeadBlock(node).active, s) # p

\* Every incoming transaction is answered exactly once or still waits: none is
\* lost or answered twice by retries, blocks or aborted blocks.
ExactlyOneAnswer ==
    \A t \in node.submitted :
        node.answered[t] + Cardinality({i \in DOMAIN node.incoming : node.incoming[i].trx = t}) = 1

\* A transaction the node has accepted is not lost before it expires, fails, or is
\* applied in the block of another producer: aborted blocks, forks, rejected blocks
\* and reversed switches, deadlines and the change between speculating and
\* producing leave it in the pending block, in an own block of the chain or among
\* the unapplied ones.  If it is persisted, every pending block that had the time
\* for it has it: "ensure its applied to all future speculative blocks as well".
AcceptedStays ==
    LET somewhere == node.pending.trxs \cup Included(node.chain)
    IN  \A t \in node.owed :
            /\ t \in somewhere \cup node.unapplied
            /\ t \in node.persisted /\ node.pending.on /\ ~node.pending.cut => t \in somewhere

===============================================================================
