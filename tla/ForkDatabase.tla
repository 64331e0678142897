----------------------------- MODULE ForkDatabase -----------------------------
(***************************************************************************)
(* The fork database of the chain library                                  *)
(* (libraries/chain/fork_database.cpp): the blocks that are not yet final, *)
(* ordered by preference, with one flag saying which of them are applied.  *)
(*                                                                         *)
(* A block is what its header fixes once and for all: its predecessor, its *)
(* number, the last irreversible block number its header state carries and *)
(* whether its transactions execute as it says.  These facts are the       *)
(* frozen variable tree; which trees a node can meet is the constant       *)
(* Trees.  bft_irreversible_blocknum is left out: no code of the           *)
(* repository adds a header_confirmation, so it stays 0 and never decides  *)
(* the order.                                                              *)
(*                                                                         *)
(* The state of the database is a record fd:                               *)
(*   index      the blocks in the order of the index by_lib_block_num,     *)
(*              whose first element is the preferred head; equal keys keep *)
(*              the order of insertion                                     *)
(*   head       the member head                                            *)
(*   current    the blocks with in_current_chain set                       *)
(*   validated  the blocks with validated set                              *)
(*   recaptures the block states that hold their transactions (trxs)       *)
(***************************************************************************)
EXTENDS Naturals, Sequences, FiniteSets, SequencesExt

CONSTANTS
    Block,      \* the blocks that exist
    Genesis,    \* the block every chain starts with
    NoBlock,    \* the null id, predecessor of Genesis
    Trees       \* the trees of blocks a node can meet, see IsTree

VARIABLE tree

\* path gives the chain from Genesis to a block, lib the last irreversible
\* block number of its header state, trxs the transactions of a block, valid
\* the blocks that apply; a valid block repeats no transaction of its chain.
IsTree(t) ==
    /\ DOMAIN t = {"path", "lib", "trxs", "valid"}
    /\ t.path[Genesis] = <<Genesis>>
    /\ \A b \in Block \ {Genesis} :
          \E p \in Block \ {b} :
             t.path[b] = Append(t.path[p], b) /\ t.lib[p] <= t.lib[b]
    /\ \A b \in Block : t.lib[b] \in Nat /\ t.lib[b] < Len(t.path[b])
    /\ \A b \in t.valid : \A i \in 1..(Len(t.path[b]) - 1) :
          t.trxs[b] \cap t.trxs[t.path[b][i]] = {}
    /\ Genesis \in t.valid

ASSUME TreesAssumption == \A t \in Trees : IsTree(t)

\* The blocks from Genesis to b, in order.
Path(b) == tree.path[b]

Num(b) == Len(Path(b))

Prev(b) == IF b = Genesis THEN NoBlock ELSE Path(b)[Num(b) - 1]

Lib(b) == tree.lib[b]

TrxsOf(b) == tree.trxs[b]

Valid(b) == b \in tree.valid

Ancestors(b) == ToSet(Path(b))

\* The number of the last block that the chains of a and b share.
ForkPoint(a, b) == Cardinality(Ancestors(a) \cap Ancestors(b))

-------------------------------------------------------------------------------
(* The order by_lib_block_num.                                             *)

\* a sorts before b whatever the order of insertion.
Before(a, b) ==
    \/ Lib(a) > Lib(b)
    \/ Lib(a) = Lib(b) /\ Num(a) > Num(b)

\* An element is inserted behind the elements with the same key.
Insert(index, b) ==
    LET ahead == {i \in DOMAIN index : ~Before(b, index[i])}
    IN  InsertAt(index, Cardinality(ahead) + 1, b)

\* The orders in which an index can hold the blocks of S.
Orders(S) ==
    {s \in SetToSeqs(S) :
        \A i, j \in DOMAIN s : i < j => ~Before(s[j], s[i])}

Known(fd) == ToSet(fd.index)

WithHead(fd, index) ==
    [fd EXCEPT !.index = index, !.head = index[1]]

-------------------------------------------------------------------------------
(* The operations.                                                         *)

\* set on an empty database: the genesis block of initialize_fork_db, which
\* is neither marked as in the current chain nor validated.
SetGenesis ==
    [index      |-> <<Genesis>>,
     head       |-> Genesis,
     current    |-> {},
     validated  |-> {},
     recaptures |-> {}]

\* The first element of by_block_num: lowest number, current chain first.
Oldest(fd) ==
    LET lowest == {b \in Known(fd) : \A c \in Known(fd) : Num(b) <= Num(c)}
        inChain == lowest \cap fd.current
        best == IF inChain # {} THEN inChain ELSE lowest
    IN  SelectSeq(fd.index, LAMBDA b : b \in best)[1]

Erase(fd, S) ==
    [fd EXCEPT !.index      = SelectSeq(@, LAMBDA b : b \notin S),
               !.current    = @ \ S,
               !.validated  = @ \ S,
               !.recaptures = @ \ S]

\* Mutant: the blocks built on the removed block stay.
RemoveOnly(fd, id) ==
    LET rest == Erase(fd, {id})
    IN  WithHead(rest, rest.index)

\* Mutant: the head is not recomputed.
RemoveKeepingHead(fd, id) == Erase(fd, {b \in Known(fd) : id \in Ancestors(b)})

\* remove: the block and everything built on it; the head is recomputed.
RemoveBranch(fd, id) ==
    LET rest == Erase(fd, {b \in Known(fd) : id \in Ancestors(b)})
    IN  WithHead(rest, rest.index)

\* prune of the oldest block h: h leaves the index, and with it every other
\* block of its number and what is built on those.  The caller emits
\* irreversible(h).
Prune(fd, h) ==
    LET rest   == Erase(fd, {h})
        rivals == {b \in Known(rest) : Num(b) = Num(h)}
        gone   == {b \in Known(rest) : Ancestors(b) \cap rivals # {}}
        kept   == Erase(rest, gone)
    IN  IF rivals = {} THEN rest ELSE WithHead(kept, kept.index)

\* Whether add and close prune, for the limit each of them applies.
PrunesOnAdd(fd) == Num(Oldest(fd)) < Lib(fd.head)

PrunesOnClose(fd) == Num(Oldest(fd)) <= Lib(fd.head)

\* The checks of add: the block is new and its predecessor is there.
CanAdd(fd, b) == b \notin Known(fd) /\ Prev(b) \in Known(fd)

\* Mutant: the block added last is the head.
InsertedAsHead(fd, b) == [fd EXCEPT !.index = Insert(@, b), !.head = b]

\* add, up to the call of prune: the block is in the index and the head is
\* the first element of the index.
Inserted(fd, b) ==
    LET index == Insert(fd.index, b) IN WithHead(fd, index)

\* set_validity(h, true) and mark_in_current_chain(h, true).
MarkApplied(fd, h) ==
    [fd EXCEPT !.current = @ \cup {h}, !.validated = @ \cup {h}]

\* Mutant: the flag is only ever set.
MarkInCurrentChainSticky(fd, h, flag) ==
    [fd EXCEPT !.current = IF flag THEN @ \cup {h} ELSE @]

\* mark_in_current_chain(h, in_current_chain).
MarkInCurrentChain(fd, h, flag) ==
    [fd EXCEPT !.current = IF flag THEN @ \cup {h} ELSE @ \ {h}]

-------------------------------------------------------------------------------
(* fetch_branch_from.                                                      *)

\* The lowest number the two branches hold: the loops stop at the highest
\* common number where both blocks have the same predecessor.
BranchBase(a, b) ==
    LET shared == {n \in 2..Num(a) : n <= Num(b) /\ n - 1 <= ForkPoint(a, b)}
    IN  CHOOSE n \in shared : \A m \in shared : m <= n

\* The part of a's chain from number n on, oldest block first.
BranchFrom(a, n) == SubSeq(Path(a), n, Num(a))

\* The blocks the loops look up are all there.
BranchesKnown(fd, a, b) ==
    LET base == BranchBase(a, b)
    IN  ToSet(BranchFrom(a, base)) \cup ToSet(BranchFrom(b, base)) \subseteq Known(fd)
===============================================================================
