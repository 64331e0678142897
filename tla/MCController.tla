---------------------------- MODULE MCController ----------------------------
(***************************************************************************)
(* Controller on every small block tree that DPoS finality allows.         *)
(***************************************************************************)
EXTENDS Controller

CONSTANTS
    NumBlocks,      \* how many blocks exist
    MaxInvalid,     \* how many of them fail when they are applied
    MaxLeaves       \* how many branches there are

MCBlock == 1..NumBlocks

MCGenesis == 1

MCNoBlock == 0

MCTrx == {"t", "u"}

\* Trees up to the names of the blocks: in the order of breadth first search.
Shapes ==
    {p \in [MCBlock -> 1..(NumBlocks - 1)] :
        /\ p[1] = 1
        /\ \A b \in 2..NumBlocks : p[b] < b
        /\ \A b \in 2..(NumBlocks - 1) : p[b] <= p[b + 1]
        /\ NumBlocks - Cardinality({p[b] : b \in MCBlock}) <= MaxLeaves}

Later == [i \in 1..(NumBlocks - 1) |-> i + 1]

PathsOf(p) ==
    FoldLeft(LAMBDA path, b : Append(path, Append(path[p[b]], b)), <<<<1>>>>, Later)

\* Some blocks make their predecessor final, the others inherit.
LibsOf(p, path) ==
    {FoldLeft(LAMBDA lib, b : Append(lib, IF b \in finalizing THEN Len(path[b]) - 1
                                          ELSE lib[p[b]]), <<0>>, Later) :
        finalizing \in SUBSET (2..NumBlocks)}

\* Branches repeat the transaction of number 3 and differ in that of number 4.
TrxsAt(path) ==
    [b \in MCBlock |-> Trx \cap CASE Len(path[b]) = 3 -> {"t"}
                                  [] Len(path[b]) = 4 /\ b % 2 = 0 -> {"u"}
                                  [] OTHER -> {}]

Candidates ==
    UNION {{[path |-> PathsOf(p), lib |-> l, trxs |-> TrxsAt(PathsOf(p)), valid |-> {}] :
               l \in LibsOf(p, PathsOf(p))} : p \in Shapes}

ForkOf(t, a, b) == Cardinality(ToSet(t.path[a]) \cap ToSet(t.path[b]))

\* Chains agree on the blocks both of them call final.
FinalityAgrees(t) ==
    \A a, b \in MCBlock : t.lib[a] <= ForkOf(t, a, b) \/ t.lib[b] <= ForkOf(t, a, b)

\* When a block makes a fork final, its predecessor was already preferred to
\* the other branch.
DecidedBeforeFinal(t) ==
    \A a, b \in MCBlock \ {1} :
        LET fork == ForkOf(t, a, b)
            p    == t.path[b][Len(t.path[b]) - 1]
        IN  fork < Len(t.path[a]) /\ fork < t.lib[b] =>
               \/ t.lib[p] > t.lib[a]
               \/ t.lib[p] = t.lib[a] /\ Len(t.path[p]) > Len(t.path[a])

MCTrees ==
    {[t EXCEPT !.valid = MCBlock \ s] :
        t \in {c \in Candidates : FinalityAgrees(c) /\ DecidedBeforeFinal(c)},
        s \in {i \in SUBSET (MCBlock \ {1}) : Cardinality(i) <= MaxInvalid}}
=============================================================================
