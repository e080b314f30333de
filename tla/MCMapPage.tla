------------------------------ MODULE MCMapPage ------------------------------
(* A small instance of the dashboard's map page: its data, MapData, and    *)
(* its map, MapView, which share no state.  A behaviour follows one of     *)
(* the two, with its fairness, while the other stands still.               *)
EXTENDS MapData, MapView

CONSTANTS initial, data, district, elsewhere

(* The country is wider than the server allows, the data exactly as wide   *)
(* as is asked for, a district narrow.                                     *)
MCBox(p) ==
    CASE p = initial  -> [lat |-> [min |-> 280, max |-> 480], lon |-> [min |-> 2000, max |-> 2128]]
      [] p = data     -> [lat |-> [min |-> 300, max |-> 418], lon |-> [min |-> 2000, max |-> 2119]]
      [] p = district -> [lat |-> [min |-> 340, max |-> 360], lon |-> [min |-> 2040, max |-> 2052]]
      [] OTHER        -> [lat |-> [min |-> 200, max |-> 322], lon |-> [min |-> 2001, max |-> 2122]]

VARIABLE follows    \* "data" or "map"

MCInit ==
    /\ Init /\ MapViewInit
    /\ follows \in {"data", "map"} /\ (follows = "data" => link = Absent)
MCNext ==
    \/ follows = "data" /\ Next /\ UNCHANGED <<follows, mapVars>>
    \/ follows = "map" /\ MapViewNext /\ UNCHANGED <<follows, vars>>

MCSpec ==
    /\ MCInit /\ [][MCNext]_<<follows, vars, mapVars>>
    /\ \/ follows = "data" /\ Fairness
       \/ follows = "map" /\ MapViewFairness
=============================================================================
