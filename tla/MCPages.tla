------------------------------ MODULE MCPages ------------------------------
(* A small instance of Pages: two hexagons, two phones on two networks,    *)
(* two cells, and amounts around every change of unit.                     *)
EXTENDS Pages, TLC

CONSTANTS h1, h2, d1, d2, n1, n2, n3

MCSimOf == (d1 :> n1) @@ (d2 :> n2)

Around(n, unit) ==
    {n + k * unit : k \in 0..8} \cup {n - k * unit : k \in {j \in 1..8 : j * unit <= n}}

\* The hexagons can be exchanged, and so can the phones with their networks.
SameCrew == (d1 :> d1) @@ (d2 :> d2) @@ (n1 :> n1) @@ (n2 :> n2)
OtherCrew == (d1 :> d2) @@ (d2 :> d1) @@ (n1 :> n2) @@ (n2 :> n1)
Symmetry == {p @@ q : p \in Permutations(Hexes), q \in {SameCrew, OtherCrew}}
            \cup Permutations(Asks) \cup Permutations(Cells)
            \cup Permutations(Executors)

MCAmounts ==
    Around(0, 1) \cup Around(100, 7) \cup Around(1000, 13) \cup Around(3600, 17)
    \cup Around(10000, 19) \cup Around(100000, 501) \cup Around(172800, 611)
    \cup Around(10000000, 337) \cup Around(5400, 30)

\* Near, just far enough to count, and further.
MCStops == {0, 2, 3}
MCMoments == {0, 2}
=============================================================================
