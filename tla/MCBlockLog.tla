------------------------------ MODULE MCBlockLog ------------------------------
(***************************************************************************)
(* BlockLog for a node that starts at genesis, where reset is given the    *)
(* genesis block, or from a snapshot taken at block 2.                     *)
(***************************************************************************)
EXTENDS BlockLog

MCStarts == {[first |-> 1, block |-> TRUE], [first |-> 3, block |-> FALSE]}
===============================================================================
