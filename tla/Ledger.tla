-------------------------------- MODULE Ledger --------------------------------
(***************************************************************************)
(* What the controller promises to those who read the chain: the node      *)
(* shows one chain of blocks that can be applied.  A prefix of it is final *)
(* and only grows.  The chain is replaced only by one that ranks at least  *)
(* as high; only a crash may take blocks back, and never a final one.      *)
(***************************************************************************)
EXTENDS ForkDatabase

VARIABLES
    chain,  \* the last block of the chain the node shows
    final   \* the final blocks, in order

ledgerVars == <<tree, chain, final>>

Shows(b, f) ==
    /\ IsPrefix(f, Path(b))
    /\ \A i \in 1..Num(b) : Valid(Path(b)[i])

LedgerInit ==
    /\ IsTree(tree)
    /\ chain = Genesis
    /\ final = <<Genesis>>

\* A block is produced, received or switched to, and blocks become final.
Advance ==
    /\ IsPrefix(final, final')
    /\ Shows(chain', final')
    /\ ~Before(chain, chain')

\* A crash during a fork switch leaves a part of one of the branches.
Lose ==
    /\ IsPrefix(final, final')
    /\ Shows(chain', final')

LedgerNext == tree' = tree /\ (Advance \/ Lose)

\* Without crashes.
SteadyNext == tree' = tree /\ Advance

LedgerSpec == LedgerInit /\ [][LedgerNext]_ledgerVars

SteadySpec == LedgerInit /\ [][SteadyNext]_ledgerVars
===============================================================================
