------------------------------- MODULE Survey -------------------------------
(***************************************************************************)
(* What the server says about the ground once the tiles are rebuilt: the   *)
(* colour and state of a hexagon, of an area, of one network, and the      *)
(* figures of the header and of the dashboard (core/radio.py,              *)
(* services/aggregate.py, coverage.py, areas.py, api/v1/tiles.py,          *)
(* public.py, mine.py).                                                    *)
(*                                                                         *)
(* `readings` is the bag of readings taken, each known by its hexagon,     *)
(* handset, state and network.  `built` is what the tile tables were last  *)
(* rebuilt from, so the tables stand for TilesOf(built) while the counts   *)
(* of the header are taken from the readings themselves.  When and from what a rebuild runs  *)
(* is TileRebuild's subject; here it is one step.  Nothing in the          *)
(* repository writes a predicted tile, so there is none.                   *)
(* `FaultyMedianState`, `FaultyWorstState` and `FaultyInvestmentAction`    *)
(* are mistakes the properties catch.                                      *)
(***************************************************************************)
EXTENDS Naturals, Sequences, FiniteSets, SequencesExt

CONSTANTS
    Hexes,          \* the hexagons of one area
    Handsets,
    Networks,       \* NETWORK_NAMES
    SimOf,          \* the network of a handset's card
    MinDevices,     \* tile_min_devices
    MaxReadings,    \* bound: readings taken
    RankedAtMost,   \* `limit`: the dead zones a page asks for
    None

VARIABLES readings, built

tables == <<readings, built>>

\* The five radio states, worst first; a state's score is its place.
Ascending == <<"NO_CELL", "CELLS_VISIBLE_UNREGISTERED", "REGISTERED_2G_3G",
               "LTE_WEAK", "LTE_GOOD">>
States == Range(Ascending)

ASSUME SurveyAssumption ==
    /\ SimOf \in [Handsets -> Networks]
    /\ IsFiniteSet(Handsets)
    /\ MinDevices \in Nat /\ MaxReadings \in Nat /\ RankedAtMost \in Nat
    /\ None \notin Networks \cup States \cup Nat \cup Seq(Nat)

Score(state) == CHOOSE i \in DOMAIN Ascending : Ascending[i] = state

StateColour == [NO_CELL |-> "red", CELLS_VISIBLE_UNREGISTERED |-> "red_orange",
                REGISTERED_2G_3G |-> "orange", LTE_WEAK |-> "yellow",
                LTE_GOOD |-> "green"]

Actions == {"new_tower", "upgrade", "optimisation", "none"}

\* Cells the phone cannot attach to counted as a missing tower.
FaultyInvestmentAction(state) ==
    CASE state \in {"NO_CELL", "CELLS_VISIBLE_UNREGISTERED"} -> "new_tower"
      [] state = "REGISTERED_2G_3G" -> "upgrade"
      [] state = "LTE_WEAK" -> "optimisation"
      [] state = "LTE_GOOD" -> "none"

InvestmentAction(state) ==
    CASE state = "NO_CELL" -> "new_tower"
      [] state \in {"CELLS_VISIBLE_UNREGISTERED", "REGISTERED_2G_3G"} -> "upgrade"
      [] state = "LTE_WEAK" -> "optimisation"
      [] state = "LTE_GOOD" -> "none"

\* A phone that hears no cell can name no network, one that hears cells
\* without registering may, and a registered one does.
NetworkNamed(handset, state) ==
    CASE state = "NO_CELL" -> {None}
      [] state = "CELLS_VISIBLE_UNREGISTERED" -> {None, SimOf[handset]}
      [] OTHER -> {SimOf[handset]}

Kinds == UNION {{[hex |-> h, handset |-> d, state |-> s, network |-> n] :
                    n \in NetworkNamed(d, s)} :
                h \in Hexes, d \in Handsets, s \in States}

-----------------------------------------------------------------------------
(* One colour for many readings *)

\* Those of a bag of readings whose kind is in S.
Among(rs, S) == Restrict(rs, S \cap DOMAIN rs)

\* How many of the readings are in each state.
Counts(rs) ==
    [s \in States |-> BagCardinality(Among(rs, {k \in DOMAIN rs : k.state = s}))]

AtMost(counts, i) == SumFunctionOnSet(counts, {Ascending[j] : j \in 1..i})

\* Scanned from the worst state up, the first at which more than half of the
\* readings have been seen.
Middle(counts) ==
    LET total == SumFunction(counts)
    IN  IF total = 0 THEN None
        ELSE Ascending[Min({i \in DOMAIN Ascending : AtMost(counts, i) > total \div 2})]

\* The scan stops when half of the readings, rounded down, have been seen.
FaultyMedianState(counts) ==
    LET total == SumFunction(counts)
    IN  IF total = 0 THEN None
        ELSE Ascending[Min({i \in DOMAIN Ascending : AtMost(counts, i) >= total \div 2})]

\* The colour of a hexagon and the colour of an area are two functions.
MedianState(counts) == Middle(counts)
SummaryState(byState) == Middle(byState)

\* A collector's own page lists the readings, sorts them and takes the one
\* in the middle.
OwnMedianState(counts) ==
    LET sorted == FlattenSeq([i \in DOMAIN Ascending |->
                                 [n \in 1..counts[Ascending[i]] |-> Ascending[i]]])
    IN  IF sorted = <<>> THEN None ELSE sorted[Len(sorted) \div 2 + 1]

FaultyWorstState(counts) ==
    LET seen == {i \in DOMAIN Ascending : counts[Ascending[i]] > 0}
    IN  IF seen = {} THEN None ELSE Ascending[Max(seen)]

WorstState(counts) ==
    LET seen == {i \in DOMAIN Ascending : counts[Ascending[i]] > 0}
    IN  IF seen = {} THEN None ELSE Ascending[Min(seen)]

Colour(state) == IF state = None THEN "grey" ELSE StateColour[state]

-----------------------------------------------------------------------------
(* The tile tables *)

TakenBy(rs) == {k.handset : k \in DOMAIN rs}

TileOf(rs, state, worst) ==
    [state |-> state, colour |-> Colour(state), worst |-> worst,
     measurements |-> BagCardinality(rs), devices |-> Cardinality(TakenBy(rs))]
Tile(rs) == TileOf(rs, MedianState(Counts(rs)), WorstState(Counts(rs)))

On(rs, hex) == Among(rs, {k \in DOMAIN rs : k.hex = hex})

Measured(rs) == {k.hex : k \in DOMAIN rs}
TilesOf(rs) == [h \in Measured(rs) |-> Tile(On(rs, h))]

\* Readings that name no network are on no network's table.
OperatorTilesOf(rs) ==
    [t \in {<<k.hex, k.network>> : k \in {j \in DOMAIN rs : j.network # None}} |->
        Tile(Among(rs, {k \in DOMAIN rs : <<k.hex, k.network>> = t}))]

\* A hexagon as the signed-in map receives it: what would place a traveller
\* at a moment waits for enough separate contributors.
Feature(tile) ==
    LET detailed == tile.devices >= MinDevices
    IN  [state |-> tile.state, colour |-> tile.colour,
         measurements |-> tile.measurements,
         devices |-> IF detailed THEN tile.devices ELSE None,
         worst |-> IF detailed THEN tile.worst ELSE None,
         dated |-> detailed, lowConfidence |-> ~detailed]

OperatorFeature(tile) == Feature(tile)

\* And as the public map receives it.
PublicFeature(tile) == [state |-> tile.state, colour |-> tile.colour]

-----------------------------------------------------------------------------
(* The figures *)

ByState(tiles) ==
    [s \in States |-> Cardinality({h \in DOMAIN tiles : tiles[h].state = s})]

ByAction(byState) ==
    [a \in Actions |->
        SumFunctionOnSet(byState, {s \in States : InvestmentAction(s) = a})]

Good(byState) == byState["LTE_GOOD"]
Unusable(byState) == byState["NO_CELL"] + byState["CELLS_VISIBLE_UNREGISTERED"]

\* Readings and phones are counted as they are now, hexagons as they were
\* when the tables were built.
SummaryOf(byState) ==
    [measurements |-> BagCardinality(readings),
     devices |-> Cardinality(TakenBy(readings)),
     enrolled |-> Cardinality(Handsets),
     tiles |-> SumFunction(byState),
     noService |-> Counts(readings)["NO_CELL"],
     byState |-> byState, byAction |-> ByAction(byState)]
CoverageSummary == SummaryOf(ByState(TilesOf(built)))

\* One network's row of the dashboard.
RowOf(network, byState) ==
    [operator |-> network, tiles |-> SumFunction(byState),
     good |-> Good(byState), unusable |-> Unusable(byState)]
OperatorRow(network, tiles) ==
    RowOf(network, ByState(Restrict(tiles, {t \in DOMAIN tiles : t[2] = network})))

MeasuredNetworks == {t[2] : t \in DOMAIN OperatorTilesOf(built)}
OperatorBreakdown == {OperatorRow(n, OperatorTilesOf(built)) : n \in MeasuredNetworks}
NetworkCatalogue == [n \in Networks |-> n \in MeasuredNetworks]

\* The area all these hexagons lie in.  Its phones are those of the readings
\* as they are now, on the hexagons the table has.
CoverageOf(tiles, byState, state, devices) ==
    IF tiles = <<>> THEN [measured |-> FALSE]
    ELSE [measured |-> TRUE, state |-> state, colour |-> Colour(state), devices |-> devices,
          byAction |-> ByAction(byState),
          good |-> Good(byState), unusable |-> Unusable(byState),
          tiles |-> Cardinality(DOMAIN tiles),
          measurements |-> SumFunction([h \in DOMAIN tiles |-> tiles[h].measurements]),
          lowConfidence |-> devices < MinDevices]
AreaCoverageOf(tiles) ==
    CoverageOf(tiles, ByState(tiles), SummaryState(ByState(tiles)),
               Cardinality(UNION {TakenBy(On(readings, h)) : h \in DOMAIN tiles}))
AreaCoverage == AreaCoverageOf(TilesOf(built))

\* Dead zones: worst state first, then most readings, then most phones; those
\* that are as bad in each come in any order.
Worse(a, b) ==
    \/ Score(a.state) < Score(b.state)
    \/ /\ a.state = b.state
       /\ \/ a.measurements > b.measurements
          \/ a.measurements = b.measurements /\ a.devices > b.devices
DeadZones(tiles) == {h \in DOMAIN tiles : Score(tiles[h].state) <= 3}
WorstFirst(tiles) ==
    CHOOSE order \in SetToSeqs(DeadZones(tiles)) :
        \A i, j \in DOMAIN order : i < j => ~Worse(tiles[order[j]], tiles[order[i]])
RankedRow(rank, hex, tile) ==
    [rank |-> rank, hex |-> hex, state |-> tile.state,
     colour |-> Colour(tile.state), action |-> InvestmentAction(tile.state),
     measurements |-> tile.measurements, devices |-> tile.devices]
RankedRows(order, tiles) ==
    [i \in 1..Min({RankedAtMost, Len(order)}) |-> RankedRow(i, order[i], tiles[order[i]])]
Ranked(tiles) == RankedRows(WorstFirst(tiles), tiles)
PriorityAreas == Ranked(TilesOf(built))

\* What one collector's own handsets covered, from their readings alone.
Own(handset) == Among(readings, {k \in DOMAIN readings : k.handset = handset})
MySummary(handset) ==
    [measurements |-> BagCardinality(Own(handset)),
     hexagons |-> Measured(Own(handset)),
     byState |-> Counts(Own(handset)),
     networks |-> {k.network : k \in DOMAIN Own(handset)} \ {None}]
MyTile(handset, hex) ==
    LET state == OwnMedianState(Counts(On(Own(handset), hex)))
    IN  [state |-> state, colour |-> Colour(state)]

-----------------------------------------------------------------------------
SurveyInit == readings = EmptyBag /\ built = EmptyBag

Measure(r) ==
    /\ BagCardinality(readings) < MaxReadings
    /\ readings' = readings (+) SetToBag({r})
    /\ UNCHANGED built

RebuildTiles ==
    /\ built # readings
    /\ built' = readings
    /\ UNCHANGED readings

SurveyNext == (\E r \in Kinds : Measure(r)) \/ RebuildTiles

-----------------------------------------------------------------------------
\* Medians are taken by three functions of the server.  A hexagon's colour
\* is that of its middle reading: neither fewer than half of its readings,
\* nor more than half by one side, can move it past the rest; and a hexagon
\* only one phone has measured has the same state on that collector's own
\* page as on the map ("the two cannot disagree", mine.py 41).
MajorityDecides ==
    \A h \in Measured(built) :
        LET tile == Tile(On(built, h))
            at == Score(tile.state)
            worse == {k \in DOMAIN built : Score(k.state) < at}
            better == {k \in DOMAIN built : Score(k.state) > at}
        IN  /\ 2 * BagCardinality(Among(On(built, h), worse)) <= tile.measurements
            /\ 2 * BagCardinality(Among(On(built, h), better)) <= tile.measurements
            /\ built = readings /\ tile.devices = 1 =>
                   \A d \in TakenBy(On(built, h)) : MyTile(d, h).state = tile.state
================================================================================
