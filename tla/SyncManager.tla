---------------------------- MODULE SyncManager ----------------------------
(***************************************************************************)
(* sync_manager of the net plugin: how a node that is behind fetches the   *)
(* blocks it misses.  Up to the last irreversible block it knows of it     *)
(* asks one peer at a time for ranges (lib_catchup); beyond that it asks a *)
(* peer for its branch (head_catchup); then it lives on what its peers     *)
(* broadcast (in_sync).                                                    *)
(***************************************************************************)
EXTENDS NetConnection

\* The node's connection objects, in the order of net_plugin_impl::connections.
Connections(s) == SelectSeq(LinkOrder, LAMBDA l : l \in DOMAIN s.conn)

\* sync_required.
SyncRequired(s) == s.lastRequested < s.knownLib \/ Num(s.head) < s.lastRequested

\* The peer request_next_chunk turns to: the one it is given, else the next
\* current one after the present source, going round the list once.
NextSource(s, l) ==
    LET all   == Connections(s)
        n     == Len(all)
        start == IF s.source = NoLink THEN 0
                 ELSE CHOOSE i \in 1..n : all[i] = s.source
        ring  == [i \in 1..n |-> all[((start + i - 1) % n) + 1]]
        ready == SelectSeq(ring, LAMBDA k : Current(s, k))
    IN  IF l # NoLink /\ Current(s, l) THEN l
        ELSE IF n = 1 THEN all[1]
        ELSE IF ready # <<>> THEN Head(ready) ELSE s.source

RequestNextChunk(s, l) ==
    LET source == NextSource(s, l)
        end    == IF s.nextExpected + Span - 1 > s.knownLib THEN s.knownLib
                  ELSE s.nextExpected + Span - 1
        chosen == [s EXCEPT !.source = source]
        asked  == Enqueue(chosen, source, SyncRequest(s.nextExpected, end))
    IN  IF /\ Num(s.head) < s.lastRequested
           /\ s.source # NoLink /\ Current(s, s.source)
        THEN s
        ELSE IF source = NoLink \/ ~Current(s, source)
        THEN [chosen EXCEPT !.knownLib = LibNum(s.head), !.lastRequested = 0, !.state = "in_sync"]
        ELSE IF s.lastRequested # s.knownLib /\ end > 0 /\ end >= s.nextExpected
        THEN [asked EXCEPT !.conn[source].timer = TRUE, !.lastRequested = end]
        ELSE chosen

\* reset_lib_num: a peer's last irreversible block is news, or the source is gone.
ResetLibNum(s, l) ==
    LET freed == IF s.state = "in_sync" THEN [s EXCEPT !.source = NoLink] ELSE s
    IN  IF Current(freed, l)
        THEN [freed EXCEPT !.knownLib = IF s.conn[l].recv.lib > @ THEN s.conn[l].recv.lib ELSE @]
        ELSE IF freed.source = l
        THEN RequestNextChunk([freed EXCEPT !.lastRequested = 0], NoLink)
        ELSE freed

\* close: forkHead, noRetry and the out queue stay as they are.
Close(s, l) ==
    LET c == s.conn[l]
        closed == [NewConnection(FALSE) EXCEPT
                       !.forkHead = c.forkHead, !.noRetry = c.noRetry,
                       !.outQueue = c.outQueue, !.writing = c.writing]
    IN  ResetLibNum([s EXCEPT !.conn[l] = closed,
                              !.out[l] = IF c.open THEN Append(@, Eof) ELSE @], l)

\* send_handshakes, to every current peer.
SendHandshakes(s, time) ==
    FoldLeft(LAMBDA t, l : IF Current(t, l) THEN SendHandshake(t, l, time) ELSE t,
             s, Connections(s))

\* Mutant: the first range starts behind the head, not behind the last
\* irreversible block, and one too late.
StartSyncLate(s, l, target) ==
    LET known == [s EXCEPT !.knownLib = IF target > @ THEN target ELSE @]
        begun == IF s.state = "in_sync"
                 THEN [known EXCEPT !.state = "lib_catchup", !.nextExpected = Num(s.head) + 2]
                 ELSE known
    IN  IF SyncRequired(known) THEN RequestNextChunk(begun, l) ELSE known

\* start_sync.
StartSync(s, l, target) ==
    LET known == [s EXCEPT !.knownLib = IF target > @ THEN target ELSE @]
        begun == IF s.state = "in_sync"
                 THEN [known EXCEPT !.state = "lib_catchup", !.nextExpected = LibNum(s.head) + 1]
                 ELSE known
    IN  IF SyncRequired(known) THEN RequestNextChunk(begun, l) ELSE known

\* reassign_fetch: the source did not answer in time; ask somebody else.
ReassignFetch(s, l) ==
    LET cancelled == Enqueue(FlushQueues([s EXCEPT !.conn[l].timer = FALSE], l), l, SyncRequest(0, 0))
    IN  IF s.source = l THEN RequestNextChunk([cancelled EXCEPT !.lastRequested = 0], NoLink)
        ELSE s

\* verify_catchup: fetch the peer's branch unless some peer is known to have
\* that block or a higher one.
VerifyCatchup(s, l, id) ==
    LET redundant == \E k \in DOMAIN s.conn :
            s.conn[k].forkHead = id \/ Num(s.conn[k].forkHead) > Num(id)
        noted     == [s EXCEPT !.conn[l].forkHead = id]
    IN  IF redundant
        THEN Enqueue([s EXCEPT !.conn[l].forkHead = NullId], l, Request("none", "none", {}))
        ELSE IF s.state = "lib_catchup" THEN noted
        ELSE Enqueue([noted EXCEPT !.state = "head_catchup"], l, Request("catch_up", "none", {}))

\* Mutant: a peer that is level is not told of pending transactions.
RecvHandshakeSilent(s, l, m) ==
    LET t       == [ResetLibNum(s, l) EXCEPT !.conn[l].syncing = FALSE]
        waiting == [t EXCEPT !.conn[l].syncing = TRUE]
    IN  IF s.head = m.head THEN t
        ELSE IF Num(s.head) < Num(m.lib) THEN t
        ELSE IF LibNum(s.head) > Num(m.head)
        THEN Enqueue(waiting, l, IrreversibleNotice(LibNum(s.head)))
        ELSE IF Num(s.head) <= Num(m.head) THEN VerifyCatchup(t, l, m.head)
        ELSE Enqueue(waiting, l, CatchUpNotice(s.head))

\* sync_manager::recv_handshake, the five sync checks.
RecvHandshake(s, l, m) ==
    LET t       == [ResetLibNum(s, l) EXCEPT !.conn[l].syncing = FALSE]
        waiting == [t EXCEPT !.conn[l].syncing = TRUE]
    IN  IF s.head = m.head THEN Enqueue(t, l, PendingNotice(Cardinality(s.local)))
        ELSE IF Num(s.head) < Num(m.lib) THEN t
        ELSE IF LibNum(s.head) > Num(m.head)
        THEN Enqueue(waiting, l, IrreversibleNotice(LibNum(s.head)))
        ELSE IF Num(s.head) <= Num(m.head) THEN VerifyCatchup(t, l, m.head)
        ELSE Enqueue(waiting, l, CatchUpNotice(s.head))

\* sync_manager::recv_notice.
RecvNotice(s, l, m) ==
    IF m.blocks = "catch_up" THEN VerifyCatchup(s, l, m.id)
    ELSE StartSync(ResetLibNum([s EXCEPT !.conn[l].recv.lib = m.pending], l), l, m.pending)

\* sync_manager::rejected_block.
RejectedBlock(s, l, time) ==
    IF s.state = "in_sync" THEN s
    ELSE SendHandshakes(
             [Close([s EXCEPT !.lastRequested = 0, !.source = NoLink], l) EXCEPT !.state = "in_sync"],
             time)

\* The head_catchup part of recv_block.  The loop looks for peers whose fork head
\* is reached; the entry it clears is that of the peer the block came from.
HeadCatchupStep(s, l, id) ==
    FoldLeft(LAMBDA t, k :
                 LET fork == t.conn[k].forkHead
                 IN  IF fork = NullId THEN t
                     ELSE IF fork = id \/ Num(fork) < Num(id)
                     THEN [t EXCEPT !.conn[l].forkHead = NullId]
                     ELSE [t EXCEPT !.state = "head_catchup"],
             [s EXCEPT !.source = NoLink, !.state = "in_sync"],
             Connections(s))

\* Mutant: no handshakes when the last irreversible block is reached.
SyncRecvBlockQuiet(s, l, id, time) ==
    LET next == [s EXCEPT !.nextExpected = Num(id) + 1]
    IN  IF s.state = "head_catchup" THEN HeadCatchupStep(s, l, id)
        ELSE IF s.state = "in_sync" THEN s
        ELSE IF Num(id) # s.nextExpected THEN Close(s, l)
        ELSE IF Num(id) = s.knownLib THEN [next EXCEPT !.state = "in_sync"]
        ELSE IF Num(id) = s.lastRequested THEN RequestNextChunk(next, NoLink)
        ELSE [next EXCEPT !.conn[l].timer = TRUE]

\* sync_manager::recv_block.
SyncRecvBlock(s, l, id, time) ==
    LET next == [s EXCEPT !.nextExpected = Num(id) + 1]
    IN  IF s.state = "head_catchup" THEN HeadCatchupStep(s, l, id)
        ELSE IF s.state = "in_sync" THEN s
        ELSE IF Num(id) # s.nextExpected THEN Close(s, l)
        ELSE IF Num(id) = s.knownLib THEN SendHandshakes([next EXCEPT !.state = "in_sync"], time)
        ELSE IF Num(id) = s.lastRequested THEN RequestNextChunk(next, NoLink)
        ELSE [next EXCEPT !.conn[l].timer = TRUE]

=============================================================================
