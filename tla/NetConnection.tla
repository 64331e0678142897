--------------------------- MODULE NetConnection ---------------------------
(***************************************************************************)
(* A connection of the net plugin: its write queues, the blocks it serves  *)
(* to its peer and the messages it sends.                                  *)
(*                                                                         *)
(* An operation takes the state s of one node and returns the state after  *)
(* it.  s.conn[l] is the node's connection object for the link l, and      *)
(* s.out[l] the messages the current handler has handed to the socket.     *)
(* The chain of the node is abstracted to its head, the blocks it knows,   *)
(* and a fixed distance from a block to the last irreversible one.         *)
(***************************************************************************)
EXTENDS Integers, Sequences, FiniteSets, SequencesExt

CONSTANTS
    Node,           \* the nodes
    Link,           \* the TCP connections between them
    LinkOrder,      \* Link as a sequence: the order of net_plugin_impl::connections
    Initiator,      \* [Link -> Node], who dials
    Acceptor,       \* [Link -> Node], who listens
    ForkAt,         \* the number at which branch 1 leaves the main chain
    LibLag,         \* how far the last irreversible block is behind the head
    Span,           \* sync-fetch-span
    Times,          \* clock readings a handshake can carry
    NoLink          \* no connection

-----------------------------------------------------------------------------
(* Blocks *)

\* A block id is a number and a branch; branch 0 is the main chain.
NullId == <<0, 0>>

Num(id) == id[1]

\* The block with number k on the chain that ends with id.
IdAt(id, k) == IF k < ForkAt THEN <<k, 0>> ELSE <<k, id[2]>>

Previous(id) == IdAt(id, Num(id) - 1)

ChainOf(id) == {IdAt(id, k) : k \in 1..Num(id)}

LibNum(id) == IF Num(id) > LibLag THEN Num(id) - LibLag ELSE 1

LibId(id) == IdAt(id, LibNum(id))

\* fetch_block_by_number: only blocks of the chain that ends with the head.
OnChain(s, k) == k \in 1..Num(s.head)

-----------------------------------------------------------------------------
(* Connection objects and messages *)

\* What is kept of a handshake: its generation (1, or 2 for every later one), its
\* last irreversible block number and its clock reading.
NoHandshake == [gen |-> 0, lib |-> 0, time |-> 0]

NoRange == [start |-> 0, end |-> 0, last |-> 0]

\* _out_queue is abstracted to what its callbacks do: nothing, or close.
NewConnection(connecting) ==
    [open |-> FALSE, connecting |-> connecting, syncing |-> FALSE, recv |-> NoHandshake,
     sent |-> NoHandshake, requested |-> NoRange, timer |-> FALSE, forkHead |-> NullId,
     noRetry |-> FALSE, trx |-> {}, write |-> <<>>, sync |-> <<>>, outQueue |-> "empty", writing |-> FALSE]

Handshake(s, gen, time) ==
    [type |-> "handshake", gen |-> gen, lib |-> LibId(s.head), head |-> s.head, time |-> time]

BlockMsg(id) == [type |-> "block", id |-> id]

GoAway == [type |-> "go_away"]

SyncRequest(a, b) == [type |-> "sync_request", start |-> a, end |-> b]

\* The two fields of a notice or a request that matter: the mode for blocks and
\* the mode for transactions.
IrreversibleNotice(lib) == [type |-> "notice", blocks |-> "last_irr", trx |-> "last_irr",
                            pending |-> lib, id |-> NullId]

CatchUpNotice(id) == [type |-> "notice", blocks |-> "catch_up", trx |-> "none",
                      pending |-> Num(id), id |-> id]

PendingNotice(count) == [type |-> "notice", blocks |-> "none", trx |-> "catch_up",
                         pending |-> count, id |-> NullId]

Request(blocks, trx, ids) == [type |-> "request", blocks |-> blocks, trx |-> trx, ids |-> ids]

Eof == [type |-> "eof"]

Connected(s, l) == s.conn[l].open /\ ~s.conn[l].connecting

Current(s, l) == Connected(s, l) /\ ~s.conn[l].syncing

-----------------------------------------------------------------------------
(* The write queues *)

\* do_queue_write: a write is started when none is in progress, from the sync
\* queue if it holds anything, else from the other one.
DoQueueWrite(s, l) ==
    LET c     == s.conn[l]
        batch == IF c.sync # <<>> THEN c.sync ELSE c.write
    IN  IF c.outQueue # "empty" \/ batch = <<>> \/ ~c.open THEN s
        ELSE [s EXCEPT !.conn[l].outQueue = IF GoAway \in ToSet(batch) THEN "go_away" ELSE "messages",
                       !.conn[l].writing = TRUE,
                       !.conn[l].sync = <<>>,
                       !.conn[l].write = IF c.sync # <<>> THEN @ ELSE <<>>,
                       !.out[l] = @ \o batch]

\* enqueue and queue_write.
Enqueue(s, l, m) == DoQueueWrite([s EXCEPT !.conn[l].write = Append(@, m)], l)

EnqueueSync(s, l, m, triggerSend) ==
    LET queued == [s EXCEPT !.conn[l].sync = Append(@, m)]
    IN  IF triggerSend THEN DoQueueWrite(queued, l) ELSE queued

FlushQueues(s, l) == [s EXCEPT !.conn[l].write = <<>>, !.conn[l].sync = <<>>]

\* enqueue_sync_block: the next block of the range the peer asked for.
EnqueueSyncBlock(s, l) ==
    LET range == s.conn[l].requested
        num   == range.last + 1
        taken == [s EXCEPT !.conn[l].requested =
                      IF num = range.end THEN NoRange ELSE [range EXCEPT !.last = num]]
    IN  IF range = NoRange THEN s
        ELSE IF OnChain(s, num)
             THEN EnqueueSync(taken, l, BlockMsg(IdAt(s.head, num)), num = range.start)
             ELSE taken

\* send_handshake: what the peer is told is also what blk_send_branch goes by.
\* The clock is read; only one reading matters to this protocol, see IsDuplicate.
SendHandshake(s, l, time) ==
    LET gen == IF s.conn[l].sent.gen = 0 THEN 1 ELSE 2
        m   == Handshake(s, gen, time)
    IN  Enqueue([s EXCEPT !.conn[l].sent = [gen |-> gen, lib |-> Num(m.lib), time |-> time]], l, m)

\* Mutant: the branch ends one block early.
BlkSendBranchShort(s, l) ==
    LET c     == s.conn[l]
        lib   == IF c.sent.gen >= 1 THEN c.sent.lib ELSE LibNum(s.head)
        first == IF c.requested = NoRange THEN lib + 1
                 ELSE IF c.requested.last < lib THEN c.requested.last + 1 ELSE lib + 1
        last  == (IF c.requested.end > Num(s.head) THEN c.requested.end ELSE Num(s.head)) - 1
    IN  [EnqueueSyncBlock([s EXCEPT !.conn[l].requested =
             [start |-> first, end |-> last, last |-> first - 1]], l)
            EXCEPT !.conn[l].syncing = FALSE]

\* blk_send_branch: from the irreversible block of the last handshake to the head.
BlkSendBranch(s, l) ==
    LET c     == s.conn[l]
        lib   == IF c.sent.gen >= 1 THEN c.sent.lib ELSE LibNum(s.head)
        first == IF c.requested = NoRange THEN lib + 1
                 ELSE IF c.requested.last < lib THEN c.requested.last + 1 ELSE lib + 1
        last  == IF c.requested.end > Num(s.head) THEN c.requested.end ELSE Num(s.head)
    IN  [EnqueueSyncBlock([s EXCEPT !.conn[l].requested =
             [start |-> first, end |-> last, last |-> first - 1]], l)
            EXCEPT !.conn[l].syncing = FALSE]

\* The handler of a sync_request_message.
OnSyncRequest(s, l, m) ==
    IF m.end = 0 THEN FlushQueues([s EXCEPT !.conn[l].requested = NoRange], l)
    ELSE EnqueueSyncBlock([s EXCEPT !.conn[l].requested =
             [start |-> m.start, end |-> m.end, last |-> m.start - 1]], l)

=============================================================================
