--------------------------- MODULE MCProducerPlugin ---------------------------
(***************************************************************************)
(* ProducerPlugin on a node with the producer P, next to Q and R.          *)
(***************************************************************************)
EXTENDS ProducerPlugin

CONSTANTS P, Q, R,
          MaxChain   \* length of the longest chain that is enumerated

Both == <<Q, P>>

Others == <<Q, R>>

First == <<P, Q>>

\* The schedule never changes, or P joins and leaves.
Fixed == {Both}

Alternating == {First}

Changing == {Others, Both}

Longer(chains) ==
    chains \cup
    UNION {UNION {{Append(c, b) : b \in UNION {BlocksAfter(Last(c), slot, ts) :
                                                  ts \in SUBSET Open(c, slot)}} :
                      slot \in (Last(c).slot + 1)..(MaxSlot + 1)} : c \in chains}

\* Every chain within the bounds.
AllChains ==
    FoldLeft(LAMBDA cs, i : Longer(cs), {<<FirstBlock>>}, [i \in 1..(MaxChain - 1) |-> i])

By(who, slot, active, next) ==
    [slot |-> slot, producer |-> who, active |-> active, next |-> next, trxs |-> {}]

\* Every chain within the bounds after which P is expected to join or to stay, and
\* one of Q and R whose first block has all the transactions: the node may apply
\* that block before it rejects the next.
JoiningAndTaken ==
    {c \in AllChains : P \in ToSet(Last(c).next)} \cup
    {<<FirstBlock, [By(Q, 2, Others, Others) EXCEPT !.trxs = Trx],
       By(R, 3, Others, Others)>>}

\* The chains that never miss two slots in a row.
DenseChains ==
    {c \in AllChains : \A i \in 2..Len(c) : c[i].slot <= c[i - 1].slot + 2}

\* P replaces Q and R at different heights of two branches: with the third block
\* of Q's branch, and with the fifth of R's branch, which is received later.
OnlyP == <<P>>

Replaced == {Others, OnlyP}

Early == <<FirstBlock, By(Q, 2, Others, OnlyP), By(Q, 4, OnlyP, OnlyP)>>

Late == <<FirstBlock, By(R, 3, Others, Others), By(R, 5, Others, Others),
          By(R, 7, Others, OnlyP), By(R, 9, OnlyP, OnlyP)>>

TwoBranches == {Early, Late}

\* Production is never disabled, and no handler is left behind.
Undisturbed ==
    ~node.paused /\ ~node.libOld /\ \A h \in node.queued : h.latest

\* At most one handler is left behind, and one reason disables production.
FewDisturbances ==
    /\ Cardinality({h \in node.queued : ~h.latest}) <= 1
    /\ ~(node.paused /\ node.libOld)

\* Transactions expire with the last slot that a received block can have.
Soon == [t \in Trx |-> MaxSlot + 1]
===============================================================================
