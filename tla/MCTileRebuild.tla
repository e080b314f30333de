---------------------------- MODULE MCTileRebuild ----------------------------
(* Small instances of TileRebuild, with two rebuilders whose transactions     *)
(* interleave statement by statement: one measurement that is removed again,  *)
(* and two measurements in hexagons of their own, received over several units *)
(* of time.                                                                   *)
EXTENDS TileRebuild, TLC

CONSTANTS m1, m2, h1, h2, p1, p2

OnlyOne  == m1 :> h1
OneEach  == (m1 :> h1) @@ (m2 :> h2)

(* The rebuilders are alike, and so are the measurements when each is         *)
(* exchanged together with its hexagon.                                       *)
Exchanged == (m1 :> m2) @@ (m2 :> m1) @@ (h1 :> h2) @@ (h2 :> h1)
Alike     == Permutations(Rebuilders) \cup {Exchanged}

=============================================================================
