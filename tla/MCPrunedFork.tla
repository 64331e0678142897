---------------------------- MODULE MCPrunedFork ----------------------------
(***************************************************************************)
(* Controller on one block tree of four producers that a partition splits. *)
(* The header states of the tree are computed with BlockHeaderState: every *)
(* header follows the schedule, and every producer confirms what the       *)
(* producer plugin confirms after the blocks it has signed on any branch.  *)
(***************************************************************************)
EXTENDS Controller

H == INSTANCE BlockHeaderState WITH
        Producer <- {"P1", "P2", "P3", "P4"}, NoProducer <- "", Repetitions <- 6,
        MaxTracked <- 1024

\* Blocks are named by their place: the common trunk, then branches A and B.
Trunk == [n \in 1..8 |-> <<"T", n>>]

A == [i \in 1..16 |-> <<"A", 8 + i>>]

B == [i \in 1..11 |-> <<"B", 8 + i>>]

MCBlock == ToSet(Trunk) \cup ToSet(A) \cup ToSet(B)

MCPath ==
    [b \in MCBlock |->
        SubSeq(Trunk, 1, Min({8, b[2]})) \o
        CASE b[1] = "A" -> SubSeq(A, 1, b[2] - 8)
          [] b[1] = "B" -> SubSeq(B, 1, b[2] - 8)
          [] OTHER -> <<>>]

MCGenesis == Trunk[1]

MCNoBlock == <<"none", 0>>

\* Who signs a block.  The genesis producer hands over to the four producers
\* in block 4 and they take one turn, up to block 8, which P4 signs.  P4 is
\* then cut off and builds B alone, while the others begin A.  After the
\* fourth block of A the partition moves: P1 continues A alone, P2 and P3
\* join B, which is longer and has the same last irreversible block.
Signer(b) ==
    LET i == b[2] - 8
    IN  CASE b[1] = "T" -> IF b[2] <= 4 THEN "P1"
                           ELSE <<"P1", "P2", "P3", "P4">>[((b[2] - 5) % 4) + 1]
          [] b[1] = "A" -> IF i <= 4 THEN <<"P1", "P2", "P2", "P3">>[i] ELSE "P1"
          [] b[1] = "B" -> IF i <= 6 THEN "P4"
                           ELSE <<"P2", "P3", "P4", "P2", "P3">>[i - 6]

\* The order in which the blocks are made: P2 and P3 sign on A before on B.
MadeBefore(a, b) ==
    \/ a \in ToSet(MCPath[b]) /\ a # b
    \/ a[1] = "A" /\ a[2] <= 12 /\ b[1] = "B" /\ b[2] > 14

\* producer_plugin: everything since the last block the producer has signed.
Watermark(b) ==
    Max({0} \cup {a[2] : a \in {x \in MCBlock : MadeBefore(x, b) /\ Signer(x) = Signer(b)}})

Confirms(b) ==
    IF Watermark(b) \in 1..(b[2] - 1) THEN b[2] - 1 - Watermark(b) ELSE 0

\* The first slot of the signer after the parent.
SlotOf(hs, p) ==
    CHOOSE s \in (hs.slot + 1)..(hs.slot + 24) :
        /\ H!GetScheduledProducer(hs, s) = p
        /\ \A r \in (hs.slot + 1)..(s - 1) : H!GetScheduledProducer(hs, r) # p

Schedule4 == H!Schedule(1, 0, <<"P1", "P2", "P3", "P4">>)

HeaderOf(hs, b) ==
    [slot |-> SlotOf(hs, Signer(b)), producer |-> Signer(b), confirmed |-> Confirms(b),
     schedule_version |-> hs.active_schedule.version,
     new_producers |-> IF b = Trunk[3] THEN Schedule4 ELSE H!EmptySchedule]

\* The header states, number by number.
States ==
    LET upTo[n \in 1..24] ==
            IF n = 1
            THEN [b \in {Trunk[1]} |-> H!GenesisState(H!Schedule(0, 0, <<"P1">>))]
            ELSE LET old == upTo[n - 1]
                     new == {b \in MCBlock : b[2] = n}
                 IN  [b \in DOMAIN old \cup new |->
                         IF b \in DOMAIN old THEN old[b]
                         ELSE LET hs == old[MCPath[b][n - 1]]
                              IN  IF H!NextOk(hs, HeaderOf(hs, b))
                                  THEN H!NextState(hs, HeaderOf(hs, b)) ELSE hs]
    IN  upTo[24]

\* Every header passes the checks of block_header_state::next, P2 and
\* P3 prefer B6 to A4, and nobody signs for a slot before its last one.
Honest(states) ==
    /\ \A b \in MCBlock : states[b].block_num = b[2]
    /\ states[A[4]].dpos_irreversible = states[B[6]].dpos_irreversible
    /\ \A a, b \in MCBlock :
          MadeBefore(a, b) /\ Signer(a) = Signer(b) => states[a].slot < states[b].slot

MCTrees ==
    {[path  |-> MCPath,
      lib   |-> [b \in MCBlock |-> states[b].dpos_irreversible],
      trxs  |-> [b \in MCBlock |-> {}],
      valid |-> MCBlock] : states \in {s \in {States} : Honest(s)}}

\* The node produces nothing and receives the trunk, then A, then B.
Received == Trunk \o A \o B

InOrder ==
    /\ ~pending'.on
    /\ \A i \in DOMAIN Received :
          Received[i] \in Known(fdb') \ Known(fdb) =>
             \/ i = 2 /\ head = Trunk[1]
             \/ i > 2 /\ Received[i - 1] \in Known(fdb)
=============================================================================
