------------------------- MODULE MCSystemContract -------------------------
(***************************************************************************)
(* Instances of the system contract.  Weights: Unit 1 and Decade 2, so     *)
(* that 2 tokens are worth 1 vote, 4 are worth 3 and rounding matters.     *)
(***************************************************************************)
EXTENDS SystemContract, TLC

CONSTANTS A, B, C

MCNameOrder == <<A, B, C>>

\* An open proposal, votes that flip, stake that changes in between.
Voting ==
    [actor |-> {A, B}, tokens |-> 5, stake |-> (A :> 4 @@ B :> 2 @@ C :> 0), gnodes |-> {A}, pay |-> 0,
     left |-> [propose |-> 1, vote |-> 3, delegate |-> 1, undelegate |-> 1, block |-> 2]]

\* Undelegations that merge, are taken back and are claimed.
Refunding ==
    [actor |-> {A, B}, tokens |-> 3, stake |-> (A :> 4 @@ B :> 2 @@ C :> 0), gnodes |-> {}, pay |-> 0,
     left |-> [delegate |-> 2, undelegate |-> 2, refund |-> 1, proxy |-> 1, block |-> 3]]

\* Producers come and go.
Electing ==
    [actor |-> {A, B}, tokens |-> 4, stake |-> (A :> 4 @@ B :> 2 @@ C :> 0), gnodes |-> {A}, pay |-> 3,
     left |-> [propose |-> 2, vote |-> 2, exec |-> 2, rmv |-> 1, claim |-> 1, block |-> 4]]

\* Bonds and keys while a proposal runs.
Bonding ==
    [actor |-> {A, B}, tokens |-> 4, stake |-> (A :> 4 @@ B :> 0 @@ C :> 0), gnodes |-> {A}, pay |-> 0,
     left |-> [propose |-> 1, vote |-> 1, exec |-> 1, ungnode |-> 2, gnode |-> 2, key |-> 1,
               rmv |-> 1, block |-> 2]]

\* A switch of the consensus beside an election.
Switching ==
    [actor |-> {A, B}, tokens |-> 4, stake |-> (A :> 4 @@ B :> 0 @@ C :> 0), gnodes |-> {A}, pay |-> 3,
     left |-> [propose |-> 1, consensus |-> 1, vote |-> 2, exec |-> 2, block |-> 3]]

\* RAM and the token.
Trading ==
    [actor |-> {A, B}, tokens |-> 9, stake |-> (A :> 0 @@ B :> 0 @@ C :> 0), gnodes |-> {}, pay |-> 0,
     left |-> [buy |-> 2, buybytes |-> 1, sell |-> 3, setram |-> 1]]

Bidding ==
    [actor |-> {A, B, C}, tokens |-> 6, stake |-> (A :> 0 @@ B :> 0 @@ C :> 0), gnodes |-> {}, pay |-> 0,
     left |-> [bid |-> 3, issue |-> 1, transfer |-> 1]]

All == {Voting, Refunding, Electing, Bonding, Switching, Trading, Bidding}
OnlyVoting == {Voting}
OnlyRefunding == {Refunding}
OnlyElecting == {Electing}
OnlySwitching == {Switching}
OnlyBonding == {Bonding}
OnlyTrading == {Trading}
OnlyBidding == {Bidding}

\* Less than no vote, none, and as many as all that B has.
MCNoRowWeight == {-1, 0, 3}

MCQuantity == {[net |-> 2, cpu |-> 0], [net |-> 1, cpu |-> 1]}
=============================================================================
