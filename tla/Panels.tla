------------------------------- MODULE Panels -------------------------------
(***************************************************************************)
(* What the two web clients make of those answers: the legend, the cards   *)
(* beside the map and the pages of the dashboard (coverage.ts, Legend,     *)
(* TileInspector, AreaSummary, Dashboard, MyCollection; PublicTileCard,    *)
(* PublicStateFilter and StatStrip of the public site).  The server knows  *)
(* states and colours, the clients words, remedies and colours: the same   *)
(* vocabulary written down twice, in two languages, and laid side by side  *)
(* on one screen.                                                          *)
(*                                                                         *)
(* A panel is what can be read off it.  A label stands for the text of its *)
(* state; a remedy for the text of the remedy.  `FaultyStateInfo` is a     *)
(* mistake the property catches.                                           *)
(***************************************************************************)
EXTENDS Survey

COLOUR_HEX == [c \in {"green", "yellow", "orange", "red_orange", "red", "grey"} |-> c]

ACTION_COLOUR == [new_tower |-> COLOUR_HEX["red"], upgrade |-> COLOUR_HEX["orange"],
                  optimisation |-> COLOUR_HEX["yellow"], none |-> COLOUR_HEX["green"]]

Entry(state, remedy, colour) == [label |-> state, remedy |-> remedy, colour |-> colour]

\* Two neighbouring colours taken for each other.
FaultyStateInfo(state) ==
    CASE state = "LTE_GOOD" -> Entry(state, "no action needed", "green")
      [] state = "LTE_WEAK" -> Entry(state, "optimisation", "yellow")
      [] state = "REGISTERED_2G_3G" -> Entry(state, "data capacity upgrade", "red_orange")
      [] state = "CELLS_VISIBLE_UNREGISTERED" ->
            Entry(state, "upgrade or repeater", "orange")
      [] state = "NO_CELL" -> Entry(state, "new tower", "red")

\* The words of a state, and the colour they go with.
StateInfo(state) ==
    CASE state = "LTE_GOOD" -> Entry(state, "no action needed", "green")
      [] state = "LTE_WEAK" -> Entry(state, "optimisation", "yellow")
      [] state = "REGISTERED_2G_3G" -> Entry(state, "data capacity upgrade", "orange")
      [] state = "CELLS_VISIBLE_UNREGISTERED" ->
            Entry(state, "upgrade or repeater", "red_orange")
      [] state = "NO_CELL" -> Entry(state, "new tower", "red")

\* Best service first.
LEGEND_ORDER == Reverse(Ascending)

ActionLabel(action) ==
    CASE action = "new_tower" -> "new tower needed"
      [] action = "upgrade" -> "upgrade or repeater needed"
      [] action = "optimisation" -> "optimisation needed"
      [] OTHER -> "no action needed"

\* Which kind of work a remedy is.
WorkOf(remedy) ==
    CASE remedy = "new tower" -> "new tower needed"
      [] remedy \in {"data capacity upgrade", "upgrade or repeater"} ->
            "upgrade or repeater needed"
      [] remedy = "optimisation" -> "optimisation needed"
      [] OTHER -> "no action needed"

Swatch(colour, label) == [colour |-> COLOUR_HEX[colour], label |-> label]

-----------------------------------------------------------------------------
(* The legend *)

\* Folded, it keeps the colours and drops the words.
Legend(open) ==
    [i \in DOMAIN LEGEND_ORDER |->
        LET entry == StateInfo(LEGEND_ORDER[i])
        IN  [colour |-> COLOUR_HEX[entry.colour],
             label |-> IF open THEN entry.label ELSE None,
             remedy |-> IF open THEN entry.remedy ELSE None]]

Key == {[colour |-> Legend(TRUE)[i].colour, label |-> Legend(TRUE)[i].label] :
            i \in DOMAIN LEGEND_ORDER}

\* The states a reader may narrow the map to: both pages list them in the
\* legend's order, with "all" before them.
StateFilter == <<None>> \o [i \in DOMAIN LEGEND_ORDER |-> StateInfo(LEGEND_ORDER[i]).label]

\* The public map narrows what it already holds.
ShownTiles(tiles, state) ==
    IF state = None THEN tiles
    ELSE [h \in {g \in DOMAIN tiles : tiles[g].state = state} |-> tiles[h]]

-----------------------------------------------------------------------------
(* One hexagon *)

ShowsDropouts(tile) == tile.worst # None /\ tile.worst # tile.state

TileInspector(tile) ==
    [head |-> Swatch(tile.colour, StateInfo(tile.state).label),
     remedy |-> StateInfo(tile.state).remedy,
     measurements |-> tile.measurements,
     devices |-> tile.devices,
     dated |-> tile.dated,
     thin |-> tile.lowConfidence,
     dropout |-> IF ShowsDropouts(tile) THEN tile.worst ELSE None]

PublicTileCard(tile) ==
    [head |-> Swatch(tile.colour, StateInfo(tile.state).label),
     remedy |-> StateInfo(tile.state).remedy]

-----------------------------------------------------------------------------
(* One area *)

AreaSummary(coverage) ==
    IF ~coverage.measured THEN [measured |-> FALSE]
    ELSE [measured |-> TRUE,
          head |-> Swatch(coverage.colour, StateInfo(coverage.state).label),
          remedy |-> StateInfo(coverage.state).remedy,
          good |-> coverage.good, unusable |-> coverage.unusable,
          devices |-> coverage.devices,
          detail |-> IF coverage.lowConfidence THEN None ELSE coverage.measurements]

-----------------------------------------------------------------------------
(* The dashboard *)

\* The five states as one bar and the list under it, each part at its place of
\* the legend: states no hexagon is in are left out.
StateBar(byState) ==
    LET part(state) ==
            [swatch |-> Swatch(StateInfo(state).colour, StateInfo(state).label),
             count |-> byState[state]]
    IN  [i \in {j \in DOMAIN LEGEND_ORDER : byState[LEGEND_ORDER[j]] > 0} |->
            part(LEGEND_ORDER[i])]

\* One card per kind of work, under its colour.
ActionCards(byAction) ==
    [a \in Actions |-> [colour |-> ACTION_COLOUR[a], label |-> ActionLabel(a),
                        count |-> byAction[a]]]

Overview(summary) ==
    IF summary.tiles = 0 THEN [empty |-> TRUE]
    ELSE [empty |-> FALSE, cards |-> ActionCards(summary.byAction),
          bar |-> StateBar(summary.byState)]

PriorityTable(areas) ==
    [i \in DOMAIN areas |->
        [rank |-> areas[i].rank, hex |-> areas[i].hex,
         head |-> Swatch(areas[i].colour, StateInfo(areas[i].state).label),
         action |-> ActionLabel(areas[i].action),
         evidence |-> <<areas[i].measurements, areas[i].devices>>]]

\* A measured network has figures and an unmeasured one says so; no row has
\* noughts for want of a finding.
NetworksTable(operators, catalogue) ==
    {[operator |-> row.operator, figures |-> <<row.tiles, row.good, row.unusable>>] :
        row \in operators}
    \cup {[operator |-> n, figures |-> None] :
        n \in {m \in Networks : ~catalogue[m]}}

\* The metrics above the map.  Enrolments are only mentioned when they
\* differ from the phones that have contributed.
Metrics(summary) ==
    [measurements |-> summary.measurements, tiles |-> summary.tiles,
     noService |-> summary.noService, devices |-> summary.devices,
     enrolled |-> IF summary.enrolled # summary.devices THEN summary.enrolled ELSE None]

\* The public strip carries no phones.
StatStrip(summary) ==
    [measurements |-> summary.measurements, tiles |-> summary.tiles,
     noService |-> summary.noService]

\* A collector's own states, as many readings in each.
MyStates(mine) ==
    [s \in {t \in States : mine.byState[t] > 0} |->
        [label |-> StateInfo(s).label, count |-> mine.byState[s]]]

-----------------------------------------------------------------------------
Card(h) == TileInspector(Feature(Tile(On(built, h))))

\* Wherever a colour and a state's name stand side by side, they are a line
\* of the legend: colours that come from the server beside names that come
\* from the client, and the other way round (coverage.ts 1-7: the legend, the
\* inspector and the dashboard "must never disagree about what a colour
\* means").  And a dead zone's remedy is the work its row is ranked under.
ColoursAgree(legend, tiles, layers, page, area, table) ==
    /\ \A t \in DOMAIN layers : TileInspector(OperatorFeature(layers[t])).head \in legend
    /\ \A h \in DOMAIN tiles :
          {TileInspector(Feature(tiles[h])).head, PublicTileCard(PublicFeature(tiles[h])).head}
              \subseteq legend
    /\ page.empty \/ \A i \in DOMAIN page.bar : page.bar[i].swatch \in legend
    /\ area.measured => area.head \in legend
    /\ \A i \in DOMAIN table :
          /\ table[i].head \in legend
          /\ table[i].action = WorkOf(TileInspector(Feature(tiles[table[i].hex])).remedy)
OneMeaningPerColour ==
    ColoursAgree(Key, TilesOf(built), OperatorTilesOf(built), Overview(CoverageSummary),
                 AreaSummary(AreaCoverage), PriorityTable(PriorityAreas))

\* The figures of one screen agree with each other: the cards count every
\* hexagon once, the bar's parts are the same hexagons, the ranked list is
\* the hexagons of the two dearest cards, as many as the page asked for and
\* none that is worse than one it was shown, an area that holds them all says
\* what the header says, and there is a reading behind every hexagon although
\* the header counts readings as they are now and hexagons as they were.
\* Every network has one row, and one with figures has hexagons of the map
\* behind them; narrowing the map to a state leaves the hexagons the bar
\* counts; and the collectors' own pages share out the header's readings.
RowsAgree(summary, rows) ==
    /\ \A n \in Networks : Cardinality({r \in rows : r.operator = n}) = 1
    /\ \A r \in rows : r.figures # None =>
          /\ r.figures[1] \in 1..summary.tiles
          /\ r.figures[2] + r.figures[3] <= r.figures[1]
OwnAgree(header, own) ==
    /\ SumFunction([d \in Handsets |-> own[d].measurements]) = header.measurements
    /\ \A d \in Handsets :
          LET parts == MyStates(own[d])
          IN  SumFunction([s \in DOMAIN parts |-> parts[s].count]) = own[d].measurements
FilterAgrees(summary, tiles) ==
    \A i \in DOMAIN StateFilter :
        Cardinality(DOMAIN ShownTiles(tiles, StateFilter[i]))
            = IF i = 1 THEN summary.tiles ELSE summary.byState[StateFilter[i]]
AreaAgrees(header, cards, area) ==
    /\ area.byAction = [a \in Actions |-> cards[a].count]
    /\ area.measurements <= header.measurements
    /\ area.devices >= 1 /\ header.devices >= area.devices
    /\ area.unusable <= cards["new_tower"].count + cards["upgrade"].count
PageAgrees(header, strip, page, area, ranked) ==
    IF page.empty THEN ranked = 0 /\ ~AreaSummary(area).measured
    ELSE /\ SumFunction([a \in Actions |-> page.cards[a].count]) = header.tiles
         /\ SumFunction([i \in DOMAIN page.bar |-> page.bar[i].count]) = strip.tiles
         /\ ranked = Min({RankedAtMost,
                          page.cards["new_tower"].count + page.cards["upgrade"].count})
         /\ page.cards["new_tower"].count <= header.noService
         /\ AreaAgrees(header, page.cards, area)
RankingAgrees(tiles, areas) ==
    LET ranked == {areas[i].hex : i \in DOMAIN areas}
    IN  /\ Cardinality(ranked) = Len(areas) /\ ranked \subseteq DeadZones(tiles)
        /\ \A h \in DeadZones(tiles) \ ranked, g \in ranked : ~Worse(tiles[h], tiles[g])
FiguresAgreeWith(summary) ==
    /\ RowsAgree(summary, NetworksTable(OperatorBreakdown, NetworkCatalogue))
    /\ OwnAgree(Metrics(summary), [d \in Handsets |-> MySummary(d)])
    /\ FilterAgrees(summary, TilesOf(built))
    /\ RankingAgrees(TilesOf(built), PriorityAreas)
    /\ PageAgrees(Metrics(summary), StatStrip(summary), Overview(summary),
                  AreaCoverage, Len(PriorityAreas))
FiguresAgree == FiguresAgreeWith(CoverageSummary)

\* The caveat that a hexagon sometimes drops to something worse is given when
\* and only when at least MinDevices phones have measured it and one of the
\* readings was worse than the state shown; it then names the worst one, and
\* a card that tells no drop tells no date or phone count either unless
\* there was none to tell (TileInspector 24, tiles.py _feature).
DropoutsAreTold ==
    \A h \in Measured(built) :
        LET card == Card(h)
            seen == {Score(k.state) : k \in DOMAIN On(built, h)}
            shared == Cardinality(TakenBy(On(built, h))) >= MinDevices
            at == Score(Tile(On(built, h)).state)
        IN  /\ (card.dropout # None) = (shared /\ \E s \in seen : s < at)
            /\ card.dropout # None => Score(card.dropout) = Min(seen)
            /\ shared = card.dated /\ shared = (card.devices # None)
=============================================================================
