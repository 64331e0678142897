---------------------------- MODULE MCNetPlugin ----------------------------
(***************************************************************************)
(* A node N with two peers, P and Q.  N dials both; P dials N as well, so  *)
(* that N and P may have two connections to each other.                    *)
(***************************************************************************)
EXTENDS NetPlugin

CONSTANTS N, P, Q

MCLink == {"np", "nq", "pn"}
MCOrder == <<"np", "nq", "pn">>
MCInitiator == [l \in MCLink |-> IF l = "pn" THEN P ELSE N]
MCAcceptor == [l \in MCLink |-> CASE l = "np" -> P [] l = "nq" -> Q [] l = "pn" -> N]

Top == <<MaxNum, 0>>

\* Heads of N, P and Q, the links, timeouts, breaks, promptness, feeders, transactions.
Situation(hn, hp, hq, links, timeouts, breaks, prompt, feeders, trx) ==
    [head |-> [n \in Node |-> CASE n = N -> hn [] n = P -> hp [] n = Q -> hq],
     links |-> links, timeouts |-> timeouts, breaks |-> breaks, prompt |-> prompt,
     feeders |-> feeders, trx |-> trx]

\* One peer that produces while N catches up; writes complete at any time.
SlowWrites == Situation(<<1, 0>>, <<4, 0>>, Top, {"np"}, 0, 0, FALSE, {P}, {})
\* A link that breaks twice; the peer does not move meanwhile.
BadLink == Situation(<<1, 0>>, Top, Top, {"np"}, 0, 2, TRUE, {}, {})
\* N is on the losing branch of a fork.
Forked == Situation(<<5, 1>>, Top, Top, {"np"}, 0, 1, TRUE, {}, {})
\* Two peers to fetch from, a response that is late.
TwoSources == Situation(<<1, 0>>, Top, Top, {"np", "nq"}, 1, 0, TRUE, {}, {})
\* Two connections between the same nodes, neither of them behind.
Twins == Situation(Top, Top, Top, {"np", "pn"}, 0, 0, FALSE, {}, {})
\* Nobody is behind; a transaction goes round.
Gossip == Situation(Top, Top, Top, {"np", "nq"}, 0, 1, TRUE, {}, Trx)

Healthy == {SlowWrites, BadLink, Forked, TwoSources, Twins, Gossip}

\* The link breaks once while the only peer goes on producing.
Broken == {Situation(<<1, 0>>, <<4, 0>>, Top, {"np"}, 0, 1, TRUE, {P}, {})}

\* No faults: two peers that go on producing while N catches up.
Behind == {Situation(<<1, 0>>, <<4, 0>>, <<4, 0>>, {"np", "nq"}, 0, 0, TRUE, {P, Q}, {})}

\* N is behind one peer's irreversible block and level with the other.
Uneven == {Situation(<<1, 0>>, Top, <<3, 0>>, {"np", "nq"}, 0, 0, TRUE, {}, {})}

\* The link breaks while something is being written to it.
BreakInWrite == {Situation(<<1, 0>>, Top, Top, {"np"}, 0, 1, FALSE, {}, {})}

=============================================================================
