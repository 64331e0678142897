----------------------------- MODULE MCHeaderChain -----------------------------
(***************************************************************************)
(* HeaderChain on small sets of producers.                                 *)
(***************************************************************************)
EXTENDS HeaderChain

CONSTANTS a, b, c, d

\* Three producers, and lists that let every one of them leave the schedule and
\* come back.
Three == {a, b, c}
ThreeOneNone == {<<a, b, c>>, <<b>>, <<>>}
TwoTypes == {0, 2}

\* Two producers on a long branch: b joins, a leaves, a comes back.
Two == {a, b}
TwoOne == {<<a, b>>, <<b>>}

\* The schedule grows to four producers and then shrinks.
Four == {a, b, c, d}
FourTwo == {<<a, b, c, d>>, <<a, b>>}

\* A block confirms as many predecessors as its producer may confirm.
ConfirmsAll ==
    (pending'.on /\ ~pending.on) =>
        LET more == pending'.hs.confirmed + 1
        IN  more \in Confirms =>
                ~NoDoubleConfirm(head, pending'.hs.producer, more)
===============================================================================
