----------------------------- MODULE NetPlugin -----------------------------
(***************************************************************************)
(* The net plugin of several nodes that talk over TCP: handshakes,         *)
(* duplicate links, synchronisation, block and transaction relay, response *)
(* timeouts, broken connections and reconnection.                          *)
(*                                                                         *)
(* Every handler runs to completion on the application thread of its node, *)
(* so an action is one message, one write completion or one timer.  The    *)
(* validation of blocks is left out (Controller models it): every block is *)
(* valid, and is refused only when its predecessor is unknown.  Peers run  *)
(* the same build, of the same chain, and accept each other: large notices *)
(* (large_msg_notify is false), fetch retries and version or key checks    *)
(* do not occur between such peers.                                        *)
(***************************************************************************)
EXTENDS SyncManager

CONSTANTS
    Trx,            \* transactions
    Scenario,       \* the situations to start from, see Init
    MaxNum          \* the highest block number

VARIABLES
    node,           \* [Node -> state of the node]
    wire,           \* [Node -> [Link -> messages on their way to the node]]
    left            \* the scenario, and what of it may still happen

vars == <<node, wire, left>>

LinksOf(n) == {l \in Link : n \in {Initiator[l], Acceptor[l]}}

PeerOn(l, n) == IF Initiator[l] = n THEN Acceptor[l] ELSE Initiator[l]

-----------------------------------------------------------------------------
(* dispatch_manager *)

\* bcast_block: to every current peer the block did not come from.
BcastBlock(s, id) ==
    FoldLeft(LAMBDA t, l : IF <<id, l>> \notin s.received /\ Current(t, l)
                           THEN Enqueue(t, l, BlockMsg(id)) ELSE t,
             [s EXCEPT !.received = {r \in @ : r[1] # id}],
             Connections(s))

\* accept_block: on_incoming_block of the producer plugin, with the fork database
\* and the block log of the chain.  Every block that is applied is broadcast.
AcceptBlock(s, id) ==
    LET added   == [s EXCEPT !.known = @ \cup {id}]
        lib     == LibNum(id)
        moved   == [added EXCEPT !.head = id,
                        !.known = {k \in @ : Num(k) > lib \/ k \in ChainOf(id)}]
        applied == SelectSeq([k \in 1..Num(id) |-> IdAt(id, k)],
                             LAMBDA k : k \notin ChainOf(s.head))
    IN  IF Num(id) > Num(s.head) THEN FoldLeft(BcastBlock, moved, applied) ELSE added

\* The predecessor is in the fork database.
Linkable(s, id) == Previous(id) \in s.known /\ Num(id) > LibNum(s.head)

\* bcast_transaction.
BcastTransaction(s, t) ==
    LET skips == {r[2] : r \in {q \in s.receivedTrx : q[1] = t}}
        clean == [s EXCEPT !.receivedTrx = {r \in @ : r[1] # t}]
    IN  IF t \in s.local THEN clean
        ELSE FoldLeft(LAMBDA u, l : IF l \notin skips /\ Current(u, l) /\ t \notin u.conn[l].trx
                                    THEN Enqueue([u EXCEPT !.conn[l].trx = @ \cup {t}], l,
                                                 [type |-> "trx", id |-> t])
                                    ELSE u,
                      [clean EXCEPT !.local = @ \cup {t}],
                      Connections(s))

\* sync_manager::is_active.
IsActive(s, l) ==
    IF s.state = "head_catchup"
    THEN s.conn[l].forkHead # NullId /\ Num(s.conn[l].forkHead) < Num(s.head)
    ELSE s.state # "in_sync"

-----------------------------------------------------------------------------
(* Message handlers: the state of the node after it has handled m *)

\* Mutant: a tie drops the link, too.
IsDuplicateOnTie(n, s, l, m) ==
    /\ n = Acceptor[l] \/ s.conn[l].recv = NoHandshake
    /\ \E k \in DOMAIN s.conn \ {l} :
          /\ PeerOn(k, n) = PeerOn(l, n)
          /\ Connected(s, k) /\ s.conn[k].recv # NoHandshake
          /\ m.time + s.conn[l].sent.time >= s.conn[k].sent.time + s.conn[k].recv.time

\* Another link to the same peer wins when its two handshakes are older in sum.
IsDuplicate(n, s, l, m) ==
    /\ n = Acceptor[l] \/ s.conn[l].recv = NoHandshake
    /\ \E k \in DOMAIN s.conn \ {l} :
          /\ PeerOn(k, n) = PeerOn(l, n)
          /\ Connected(s, k) /\ s.conn[k].recv # NoHandshake
          /\ m.time + s.conn[l].sent.time > s.conn[k].sent.time + s.conn[k].recv.time

\* The peer's last irreversible block is not a block of this chain.
OnFork(s, m) == Num(m.lib) <= LibNum(s.head) /\ IdAt(s.head, Num(m.lib)) # m.lib

OnHandshake(n, s, l, m, time) ==
    LET heard    == [s EXCEPT !.conn[l].connecting = FALSE]
        answered == IF m.gen = 1 /\ heard.conn[l].sent.gen = 0
                    THEN SendHandshake(heard, l, time) ELSE heard
        kept     == [answered EXCEPT !.conn[l].recv =
                        [gen |-> m.gen, lib |-> Num(m.lib), time |-> m.time]]
    IN  IF m.gen = 1 /\ IsDuplicate(n, heard, l, m)
        THEN Enqueue([heard EXCEPT !.conn[l].noRetry = TRUE], l, GoAway)
        ELSE IF m.gen = 1 /\ OnFork(s, m) THEN Enqueue(heard, l, GoAway)
        ELSE RecvHandshake(kept, l, m)

OnGoAway(s, l) == Close([s EXCEPT !.conn[l].noRetry = TRUE], l)

OnNotice(s, l, m) ==
    LET heard == [s EXCEPT !.conn[l].connecting = FALSE]
        synced == IF m.blocks = "none" THEN heard ELSE RecvNotice(heard, l, m)
    IN  IF m.trx = "catch_up" /\ m.pending > 0
        THEN Enqueue(synced, l, Request("none", "catch_up", s.local))
        ELSE synced

OnRequest(s, l, m) ==
    LET branch == IF m.blocks = "catch_up" THEN BlkSendBranch(s, l) ELSE s
        unknown == SetToSeq(s.local \ m.ids)
    IN  CASE m.trx = "catch_up" ->
                 FoldLeft(LAMBDA t, x : Enqueue(t, l, [type |-> "trx", id |-> x]), branch, unknown)
          [] m.trx = "none" /\ m.blocks = "none" -> [branch EXCEPT !.conn[l].syncing = FALSE]
          [] OTHER -> branch

\* A signed_block.
OnBlock(s, l, id, time) ==
    LET heard    == [s EXCEPT !.conn[l].timer = FALSE]
        received == [heard EXCEPT !.received = @ \cup {<<id, l>>}]
        rejected == RejectedBlock(received, l, time)
    IN  IF id \in s.known THEN SyncRecvBlock(heard, l, id, time)
        ELSE IF Linkable(s, id) THEN SyncRecvBlock(AcceptBlock(received, id), l, id, time)
        ELSE [rejected EXCEPT !.received = {r \in @ : r[1] # id}]

\* A packed_transaction; the chain takes a transaction once.
OnTrx(s, l, t) ==
    LET heard    == [s EXCEPT !.conn[l].timer = FALSE]
        received == [heard EXCEPT !.receivedTrx = @ \cup {<<t, l>>}]
        rejected == [heard EXCEPT !.receivedTrx = {r \in @ : r[1] # t}]
    IN  IF IsActive(s, l) THEN s
        ELSE IF t \in s.local THEN heard
        ELSE IF t \in s.applied THEN rejected
        ELSE BcastTransaction([received EXCEPT !.applied = @ \cup {t}], t)

Handle(n, s, l, m, time) ==
    CASE m.type = "handshake"    -> OnHandshake(n, s, l, m, time)
      [] m.type = "go_away"      -> OnGoAway(s, l)
      [] m.type = "notice"       -> OnNotice(s, l, m)
      [] m.type = "request"      -> OnRequest(s, l, m)
      [] m.type = "sync_request" -> OnSyncRequest(s, l, m)
      [] m.type = "block"        -> OnBlock(s, l, m.id, time)
      [] m.type = "trx"          -> OnTrx(s, l, m.id)
      [] m.type = "eof"          -> Close(s, l)

-----------------------------------------------------------------------------
(* Actions *)

Quiet == [l \in Link |-> <<>>]

\* Node n moves to state s: what it sent is on the wire, unless the other end is
\* closed, and what was on its way to a connection it closed is lost.
MoveTo(n, s, incoming) ==
    /\ node' = [node EXCEPT ![n] = [s EXCEPT !.out = Quiet]]
    /\ wire' = [m \in Node |-> [l \in Link |->
           CASE m = n /\ l \in LinksOf(n) ->
                    IF s.conn[l].open THEN incoming[l] ELSE <<>>
             [] m # n /\ l \in LinksOf(m) \cap LinksOf(n) /\ node[m].conn[l].open ->
                    wire[m][l] \o s.out[l]
             [] OTHER -> wire[m][l]]]

\* The time a handshake of n over l would carry matters only if l has a twin.
ClockFor(n, l) ==
    IF \E k \in (LinksOf(n) \cap left.links) \ {l} : PeerOn(k, n) = PeerOn(l, n)
    THEN Times ELSE {0}

\* In a prompt scenario the socket takes what is written before anything else happens.
Prompt == left.prompt => \A n \in Node : \A l \in LinksOf(n) : ~node[n].conn[l].writing

CanReceive(n, l) == Prompt /\ node[n].conn[l].open /\ wire[n][l] # <<>>

\* start_read_message and process_next_message.
Receive(n, l) ==
    /\ CanReceive(n, l)
    /\ \E time \in ClockFor(n, l) :
          MoveTo(n, Handle(n, node[n], l, Head(wire[n][l]), time),
                 [wire[n] EXCEPT ![l] = Tail(@)])
    /\ UNCHANGED left

\* The callback of async_write when the write succeeded.
WriteDone(n, l) ==
    LET s     == node[n]
        done  == [s EXCEPT !.conn[l].writing = FALSE, !.conn[l].outQueue = "empty"]
    IN  /\ s.conn[l].open /\ s.conn[l].writing
        /\ MoveTo(n, IF s.conn[l].outQueue = "go_away" THEN Close(done, l)
                     ELSE DoQueueWrite(EnqueueSyncBlock(done, l), l),
                  wire[n])
        /\ UNCHANGED left

\* The callback of async_write when the connection was closed under it: the out
\* queue is not cleared.
WriteAborted(n, l) ==
    /\ ~node[n].conn[l].open /\ node[n].conn[l].writing
    /\ MoveTo(n, Close([node[n] EXCEPT !.conn[l].writing = FALSE], l), wire[n])
    /\ UNCHANGED left

CanConnect(l) ==
    /\ Prompt
    /\ \A n \in {Initiator[l], Acceptor[l]} : ~node[n].conn[l].open /\ ~node[n].conn[l].writing
    /\ ~node[Initiator[l]].conn[l].noRetry

\* connection_monitor, connect and start_listen_loop: a closed link is dialled
\* again by its initiator; the listener makes a new connection object.
Connect(l) ==
    LET a      == Initiator[l]
        b      == Acceptor[l]
        opened == [node[a] EXCEPT !.conn[l].open = TRUE, !.conn[l].connecting = TRUE]
    IN  /\ CanConnect(l)
        /\ \E time \in ClockFor(a, l) :
              LET s == SendHandshake(opened, l, time)
              IN  /\ node' = [node EXCEPT
                         ![a] = [s EXCEPT !.out = Quiet],
                         ![b].conn[l] = [NewConnection(TRUE) EXCEPT !.open = TRUE]]
                  /\ wire' = [wire EXCEPT ![a][l] = <<>>, ![b][l] = s.out[l]]
        /\ UNCHANGED left

\* connection_monitor also forgets the connections that others made and that are closed.
Forget(l) ==
    LET c == node[Acceptor[l]].conn[l]
    IN  /\ Prompt
        /\ ~c.open /\ ~c.connecting /\ ~c.writing /\ c # NewConnection(FALSE)
        /\ l \in left.links
        /\ node' = [node EXCEPT ![Acceptor[l]].conn[l] = NewConnection(FALSE)]
        /\ UNCHANGED <<wire, left>>

\* The network breaks a connection: what is on the wire is lost.
Break(l) ==
    /\ Prompt /\ left.breaks > 0
    /\ \A n \in {Initiator[l], Acceptor[l]} : node[n].conn[l].open
    /\ wire' = [wire EXCEPT ![Initiator[l]][l] = <<Eof>>, ![Acceptor[l]][l] = <<Eof>>]
    /\ left' = [left EXCEPT !.breaks = @ - 1]
    /\ UNCHANGED node

CanFeed(n) == Prompt /\ n \in left.feeders /\ Num(node[n].head) < MaxNum

\* A block reaches a node from its own producer or from outside.
NewBlock(n) ==
    LET s  == node[n]
        id == <<Num(s.head) + 1, s.head[2]>>
    IN  /\ CanFeed(n)
        /\ MoveTo(n, AcceptBlock(s, id), wire[n])
        /\ UNCHANGED left

\* A client hands a transaction to a node: transaction_ack broadcasts it.
NewTrx(n, t) ==
    /\ Prompt /\ t \in left.trx
    /\ MoveTo(n, BcastTransaction([node[n] EXCEPT !.applied = @ \cup {t}], t), wire[n])
    /\ left' = [left EXCEPT !.trx = @ \ {t}]

\* Nothing is on its way: no message, write, dial or block.
Still ==
    /\ \A n \in Node : \A l \in LinksOf(n) : ~CanReceive(n, l) /\ ~node[n].conn[l].writing
    /\ \A l \in Link : ~CanConnect(l)
    /\ \A n \in Node : ~CanFeed(n)

\* sync_timeout: because the peer is slow, or because no answer is coming.
SyncTimeout(n, l) ==
    /\ Prompt
    /\ node[n].conn[l].timer
    /\ left.timeouts > 0 \/ Still
    /\ MoveTo(n, ReassignFetch([node[n] EXCEPT !.conn[l].timer = FALSE], l), wire[n])
    /\ left' = IF Still THEN left ELSE [left EXCEPT !.timeouts = @ - 1]

Idle == Still /\ \A n \in Node : \A l \in LinksOf(n) : ~node[n].conn[l].timer

FirstNode(n, head) ==
    [head |-> head, known |-> ChainOf(head), state |-> "in_sync", source |-> NoLink,
     knownLib |-> 0, lastRequested |-> 0, nextExpected |-> 1,
     conn |-> [l \in LinksOf(n) |-> NewConnection(FALSE)],
     received |-> {}, local |-> {}, receivedTrx |-> {}, applied |-> {}, out |-> Quiet]

\* A scenario says where the heads are, which links are never made, and what
\* may happen besides the protocol itself.
Init ==
    \E c \in Scenario :
        /\ node = [n \in Node |->
              [FirstNode(n, c.head[n]) EXCEPT !.conn =
                  [l \in LinksOf(n) |-> [@[l] EXCEPT !.noRetry = l \notin c.links]]]]
        /\ wire = [n \in Node |-> Quiet]
        /\ left = [timeouts |-> c.timeouts, breaks |-> c.breaks, prompt |-> c.prompt,
                   feeders |-> c.feeders, trx |-> c.trx, links |-> c.links]

Next ==
    \/ \E n \in Node : \E l \in LinksOf(n) :
          \/ Receive(n, l)
          \/ WriteDone(n, l)
          \/ WriteAborted(n, l)
          \/ SyncTimeout(n, l)
    \/ \E l \in Link : Connect(l) \/ Forget(l) \/ Break(l)
    \/ \E n \in Node : NewBlock(n) \/ \E t \in Trx : NewTrx(n, t)

\* The system does not stop while there is something to do.
Fairness == []<>Idle \/ []<><<Next>>_vars

Spec == Init /\ [][Next]_vars /\ Fairness

-----------------------------------------------------------------------------
(* Properties *)

Ids == {<<k, b>> : k \in 0..MaxNum, b \in {0, 1}}

Kinds == {"handshake", "go_away", "notice", "request", "sync_request", "block", "trx", "eof"}

\* The state of every node has its type; nothing is left in the hands of a
\* handler, and nothing is queued for a socket that is closed.
TypeOK ==
    \A n \in Node :
        LET s == node[n]
        IN  /\ s.head \in s.known /\ s.known \subseteq Ids
            /\ s.state \in {"in_sync", "lib_catchup", "head_catchup"}
            /\ s.source \in LinksOf(n) \cup {NoLink}
            /\ {s.knownLib, s.lastRequested} \subseteq 0..MaxNum
            /\ s.nextExpected \in 1..MaxNum + 1
            /\ s.out = Quiet
            /\ \A l \in LinksOf(n) :
                  /\ \A i \in DOMAIN wire[n][l] : wire[n][l][i].type \in Kinds
                  /\ s.conn[l].requested.last \in 0..MaxNum
                  /\ s.conn[l].forkHead \in Ids
                  /\ ~s.conn[l].open => s.conn[l].write = <<>> /\ s.conn[l].sync = <<>>

\* In lib_catchup the node has every block below the one it expects next: no
\* block of the ranges request_next_chunk asked for was skipped, whichever peer
\* sent it and however often the source changed.
NoHoleInSync ==
    /\ TypeOK
    /\ \A n \in Node : node[n].state = "lib_catchup" =>
          \A k \in 1..(node[n].nextExpected - 1) : IdAt(node[n].head, k) \in node[n].known

\* Whoever is behind does not wait for something nobody will send: when nothing
\* is on its way any more and no response timer runs, the two ends of a link have
\* the same head, by the irreversible blocks that notices and sync requests
\* bring, the branch a catch-up request brings, and what is broadcast.
NobodyLeftBehind ==
    Idle => \A k \in left.links : node[Initiator[k]].head = node[Acceptor[k]].head

\* With a single peer catching up comes to an end: a node does not fetch the same
\* blocks and drop its peer for ever.
CatchesUp == Cardinality(left.links) = 1 => <>[](\A n \in Node : Num(node[n].head) = MaxNum)

\* Two nodes that dial each other end up with a link: of two connections between
\* them the handshake handlers of both sides never drop both for good.
TwinsKeepOne ==
    Idle => \A k \in left.links :
        \E l \in Link : /\ {Initiator[l], Acceptor[l]} = {Initiator[k], Acceptor[k]}
                        /\ Connected(node[Initiator[l]], l) /\ Connected(node[Acceptor[l]], l)

\* A transaction a client gave to one node is known to all when nothing is on its
\* way any more: by bcast_transaction, or by the notice of pending transactions
\* that ends a handshake if a connection was made or broken meanwhile.
EveryoneHears ==
    Idle => \A k \in left.links : node[Initiator[k]].applied = node[Acceptor[k]].applied

=============================================================================
