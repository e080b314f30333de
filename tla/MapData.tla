------------------------------- MODULE MapData -------------------------------
(***************************************************************************)
(* The data hub of the dashboard, src/web/src/App.tsx: the filters a       *)
(* reader sets, the requests they start, and the state the answers land    *)
(* in.  React runs the effects of a click before the next browser task, so *)
(* a filter change and every effect it starts are one action; an answer, a *)
(* timer and a poll are actions of their own and come in any order.        *)
(*                                                                         *)
(* A collection is represented by the question it answers.  A request of   *)
(* an effect is cancelled by the effect's clean-up; a request of the poll  *)
(* is sent without a signal and cannot be cancelled.  Definitions whose    *)
(* names begin with Faulty are deliberate mistakes that no specification   *)
(* uses; they confirm that the properties notice them.                     *)
(***************************************************************************)
EXTENDS Naturals

CONSTANTS
    Operators,      \* the networks of the filter
    Areas,          \* administrative areas
    Shaded,         \* those whose level is at most CHOROPLETH_MAX_LEVEL
    TooLarge,       \* those whose hexagons the server refuses to list (400)
    Signals, Bands, \* the values of the signal filter and of the weak band
    Boxes, Home,    \* viewports, and the one a mounted map opens on
    Layers,         \* the layers of AllLayers this instance follows
    None,
    MaxSteps,       \* bound on what the reader does
    MaxFailures     \* bound on requests that fail although they are allowed

AllLayers == {"summary", "collectors", "networks", "cells", "weak"}

VARIABLES
    session, role,               \* who is signed in
    operator, area, sig, band,   \* the filters
    refiltered,                  \* history: sig changed since the area was asked for
    live,                        \* the poll's switch
    lastBounds, timer, viewport, \* loadTiles: its refs debounce and inFlight
    load, kids,                  \* the area effect: its requests
    orphans,                     \* refused answers still being read when they were cancelled
    mine,                        \* requests for the collector's own readings
    tiles, detail, children,     \* what is drawn of the tiles and of the area
    notice, error, loading,      \* the toasts
    drawn, asked, polled,        \* the other layers: shown, asked by an effect, by the poll
    steps, failures

filters   == <<operator, area, sig, band, refiltered>>
who       == <<session, role>>
request   == <<lastBounds, timer, viewport>>
areaVars  == <<load, kids, detail, children, notice>>
layerVars == <<drawn, asked, polled>>
counts    == <<steps, failures>>
vars == <<who, filters, live, request, areaVars, orphans, mine,
          tiles, error, loading, layerVars, counts>>

Roles == {"reader", "collector"}
OrNone(S) == S \cup {None}

(* A question that waits for its timer, one that is out, the load of an    *)
(* area, and what an area's border or shading answers.                     *)
Timers ==
    [box: Boxes, op: OrNone(Operators), sig: OrNone(Signals), silent: BOOLEAN]
Loads ==
    [area: Areas, op: OrNone(Operators), sig: OrNone(Signals),
     at: {"detail", "tiles", "refused"}]
Selections == Areas \X OrNone(Operators)

(* What a collection answers. *)
Query(kind, where, op, sg) == [kind |-> kind, where |-> where, op |-> op, sig |-> sg]
Nothing  == Query("none", None, None, None)
Mine     == Query("mine", None, None, None)
ViewOf(box, op, sg) == Query("view", box, op, sg)
AreaOf(a, op, sg)   == Query("area", a, op, sg)
Views == {ViewOf(b, o, s) : b \in Boxes, o \in OrNone(Operators), s \in OrNone(Signals)}
Queries ==
    {Nothing, Mine} \cup Views
      \cup {AreaOf(a, o, s) : a \in Areas, o \in OrNone(Operators), s \in OrNone(Signals)}
Viewports == [of: Views, refused: BOOLEAN, allowed: BOOLEAN]

(* What a layer is asked for: the masts follow the network, the marked     *)
(* hexagons the network, the area and the band, the rest nothing.          *)
Key(layer, op, a, b) ==
    CASE layer = "cells" -> <<op>>
      [] layer = "weak"  -> <<op, a, b>>
      [] OTHER           -> <<>>
CurrentKey(layer) == Key(layer, operator, area, band)
KeysOf(layer) ==
    {Key(layer, o, a, b) : o \in OrNone(Operators), a \in OrNone(Areas), b \in OrNone(Bands)}

(* None stands for null and undefined: it is none of the values. *)
ASSUME MapDataAssumption ==
    /\ Shaded \subseteq Areas
    /\ TooLarge \subseteq Areas
    /\ Layers \subseteq AllLayers
    /\ Home \in Boxes
    /\ None \notin Operators \cup Areas \cup Signals \cup Bands \cup Boxes
    /\ None \notin Timers \cup Loads
    /\ None \notin Viewports /\ None \notin Selections
    /\ \A l \in Layers : None \notin KeysOf(l)
    /\ MaxSteps \in Nat /\ MaxFailures \in Nat

IsCollector == session = "open" /\ role = "collector"
IsReader    == session = "open" /\ role = "reader"

ByLayer(f) == f = [l \in Layers |-> f[l]]

FiltersOK ==
    /\ session \in {"unknown", "closed", "open"} /\ role \in Roles
    /\ operator \in OrNone(Operators) /\ area \in OrNone(Areas)
    /\ sig \in OrNone(Signals) /\ band \in OrNone(Bands)
    /\ refiltered \in BOOLEAN
    /\ lastBounds \in OrNone(Boxes)
RequestsOK ==
    /\ timer \in OrNone(Timers) /\ viewport \in OrNone(Viewports)
    /\ load \in OrNone(Loads) /\ kids \in OrNone(Selections)
    /\ orphans \subseteq {"error", "tooLarge"}
    /\ mine \subseteq {"effect", "poll"}
    /\ tiles \in Queries
    /\ detail \in OrNone(Selections) /\ children \in OrNone(Selections)
SwitchesOK ==
    live \in BOOLEAN /\ notice \in BOOLEAN /\ error \in BOOLEAN /\ loading \in BOOLEAN
LayersOK ==
    /\ ByLayer(drawn) /\ ByLayer(asked) /\ ByLayer(polled)
    /\ \A l \in Layers : /\ drawn[l] \in OrNone(KeysOf(l))
                         /\ asked[l] \in OrNone(KeysOf(l))
                         /\ polled[l] \subseteq KeysOf(l)
CountsOK == steps \in 0..MaxSteps /\ failures \in 0..MaxFailures

TypeOK == FiltersOK /\ RequestsOK /\ SwitchesOK /\ LayersOK /\ CountsOK

(* The first render: the effects that do not wait for the session ask for  *)
(* the masts and the marked hexagons at once.                              *)
Init ==
    /\ session = "unknown" /\ role = "reader"
    /\ operator = None /\ area = None /\ sig = None /\ band = None
    /\ refiltered = FALSE /\ live = TRUE
    /\ lastBounds = None /\ timer = None /\ viewport = None
    /\ load = None /\ kids = None /\ orphans = {} /\ mine = {}
    /\ tiles = Nothing /\ detail = None /\ children = None
    /\ notice = FALSE /\ error = FALSE /\ loading = FALSE
    /\ drawn = [l \in Layers |-> None]
    /\ asked = [l \in Layers |-> IF l \in {"cells", "weak"} THEN CurrentKey(l) ELSE None]
    /\ polled = [l \in Layers |-> {}]
    /\ steps = 0 /\ failures = 0

(* The reader acts; a request that was allowed fails. *)
Step == steps < MaxSteps /\ steps' = steps + 1
Fail == failures < MaxFailures /\ failures' = failures + 1

-----------------------------------------------------------------------------
(* loadTiles *)

FaultyTimerAfter(box, op, a, sg, silent, collector) ==
    IF collector \/ a # None \/ box = None
    THEN timer
    ELSE [box |-> box, op |-> IF op = None THEN "" ELSE op, sig |-> sg, silent |-> silent]

(* The timer after loadTiles(box) of a render with these filters: a        *)
(* collector and a chosen area start nothing, anything else replaces the   *)
(* timer that was waiting.                                                 *)
TimerAfter(box, op, a, sg, silent, collector) ==
    IF collector \/ a # None \/ box = None
    THEN timer
    ELSE [box |-> box, op |-> op, sig |-> sg, silent |-> silent]

FaultyFilterEffect(op, a, sg) == timer

(* The effect that asks again for the current viewport when a filter       *)
(* changes, rather than waiting for the next pan.                          *)
FilterEffect(op, a, sg) == TimerAfter(lastBounds, op, a, sg, FALSE, IsCollector)

(* Cancelling the request in flight: one whose refusal is being read still *)
(* reports its error, since the reader of the body swallows the abort.     *)
ViewportOrphan == IF viewport # None /\ viewport.refused THEN {"error"} ELSE {}

TimerFires ==
    /\ timer # None
    /\ timer' = None
    /\ viewport' = [of |-> ViewOf(timer.box, timer.op, timer.sig),
                    refused |-> FALSE, allowed |-> IsReader]
    /\ orphans' = orphans \cup ViewportOrphan
    /\ loading' = (loading \/ ~timer.silent)
    /\ UNCHANGED <<who, filters, live, lastBounds, areaVars, mine, tiles,
                   error, layerVars, counts>>

ViewportAnswered ==
    /\ viewport # None /\ viewport.allowed /\ ~viewport.refused
    /\ viewport' = None
    /\ tiles' = viewport.of
    /\ error' = FALSE
    /\ loading' = FALSE
    /\ UNCHANGED <<who, filters, live, lastBounds, timer, areaVars, orphans,
                   mine, layerVars, counts>>

(* The status line of a refusal has arrived; its body is being read. *)
ViewportRefused ==
    /\ viewport # None /\ ~viewport.refused
    /\ IF viewport.allowed THEN Fail ELSE UNCHANGED failures
    /\ viewport' = [viewport EXCEPT !.refused = TRUE]
    /\ UNCHANGED <<who, filters, live, lastBounds, timer, areaVars, orphans,
                   mine, tiles, error, loading, layerVars, steps>>

FaultyViewportFails ==
    /\ viewport # None /\ viewport.refused
    /\ viewport' = None
    /\ error' = TRUE
    /\ UNCHANGED <<who, filters, live, lastBounds, timer, areaVars, orphans,
                   mine, tiles, loading, layerVars, counts>>

ViewportFails ==
    /\ viewport # None /\ viewport.refused
    /\ viewport' = None
    /\ error' = TRUE
    /\ loading' = FALSE
    /\ UNCHANGED <<who, filters, live, lastBounds, timer, areaVars, orphans,
                   mine, tiles, layerVars, counts>>

(* The map has come to rest: the reader moved it, or the page did to frame *)
(* the data, an area or a place.                                           *)
Pan(box) ==
    /\ session = "open" /\ box # lastBounds
    /\ Step
    /\ lastBounds' = box
    /\ timer' = TimerAfter(box, operator, area, sig, FALSE, IsCollector)
    /\ UNCHANGED <<who, filters, live, viewport, areaVars, orphans, mine, tiles,
                   error, loading, layerVars, failures>>

-----------------------------------------------------------------------------
(* The effects of a change of filter *)

(* Layers the effects ask for again: the earlier request is cancelled, and *)
(* asking while nobody is signed in is refused without a trace.            *)
Reask(changed, op, a, b) ==
    asked' = [l \in Layers |->
                IF l \notin changed THEN asked[l]
                ELSE IF IsReader THEN Key(l, op, a, b) ELSE None]

(* The clean-up of the area effect, and its next run for area a. *)
LoadOrphan == IF load # None /\ load.at = "refused" THEN {"tooLarge"} ELSE {}

FaultyAreaEffect(a, op, sg) ==
    /\ orphans' = orphans \cup LoadOrphan
    /\ notice' = FALSE
    /\ IF a = None
       THEN load' = None /\ detail' = None /\ children' = None /\ UNCHANGED <<loading, kids>>
       ELSE /\ load' = [area |-> a, op |-> op, sig |-> sg, at |-> "detail"]
            /\ loading' = TRUE
            /\ UNCHANGED <<detail, children, kids>>

AreaEffect(a, op, sg) ==
    /\ kids' = None
    /\ orphans' = orphans \cup LoadOrphan
    /\ notice' = FALSE
    /\ IF a = None
       THEN /\ load' = None
            /\ detail' = None /\ children' = None
            /\ UNCHANGED loading
       ELSE /\ load' = [area |-> a, op |-> op, sig |-> sg, at |-> "detail"]
            /\ loading' = TRUE
            /\ UNCHANGED <<detail, children>>

(* The network select is offered once the catalogue has arrived. *)
NetworksKnown ==
    IF "networks" \in Layers THEN drawn["networks"] # None ELSE role = "reader"

ChooseOperator(o) ==
    /\ session = "open" /\ NetworksKnown /\ o # operator
    /\ Step
    /\ operator' = o /\ refiltered' = FALSE
    /\ AreaEffect(area, o, sig)
    /\ timer' = FilterEffect(o, area, sig)
    /\ Reask({"cells", "weak"}, o, area, band)
    /\ UNCHANGED <<who, area, sig, band, live, lastBounds, viewport, mine, tiles,
                   error, drawn, polled, failures>>

(* The area select, a click on a shaded area, and the summary's clear button. *)
ChooseArea(a) ==
    /\ IsReader /\ a # area
    /\ Step
    /\ area' = a /\ refiltered' = FALSE
    /\ AreaEffect(a, operator, sig)
    /\ timer' = FilterEffect(operator, a, sig)
    /\ Reask({"weak"}, operator, a, band)
    /\ UNCHANGED <<who, operator, sig, band, live, lastBounds, viewport, mine,
                   tiles, error, drawn, polled, failures>>

(* The area effect does not depend on the state: nothing is asked for a    *)
(* chosen area.                                                            *)
ChooseSignal(s) ==
    /\ IsReader /\ s # sig
    /\ Step
    /\ sig' = s /\ refiltered' = (area # None)
    /\ timer' = FilterEffect(operator, area, s)
    /\ UNCHANGED <<who, operator, area, band, live, lastBounds, viewport,
                   areaVars, orphans, mine, tiles, error, loading, layerVars, failures>>

ChooseBand(b) ==
    /\ session = "open" /\ b # band
    /\ Step
    /\ band' = b
    /\ Reask({"weak"}, operator, area, b)
    /\ UNCHANGED <<who, operator, area, sig, refiltered, live, request, areaVars, orphans,
                   mine, tiles, error, loading, drawn, polled, failures>>

-----------------------------------------------------------------------------
(* The requests of an area *)

AreaDetailArrives ==
    /\ load # None /\ load.at = "detail"
    /\ load' = [load EXCEPT !.at = "tiles"]
    /\ detail' = <<load.area, load.op>>
    /\ IF load.area \in Shaded
       THEN kids' = <<load.area, load.op>> /\ UNCHANGED children
       ELSE children' = None /\ UNCHANGED kids
    /\ UNCHANGED <<who, filters, live, request, orphans, mine, tiles, notice,
                   error, loading, layerVars, counts>>

ChildrenArrive ==
    /\ kids # None
    /\ kids' = None
    /\ children' = kids
    /\ UNCHANGED <<who, filters, live, request, load, detail, orphans, mine,
                   tiles, notice, error, loading, layerVars, counts>>

ChildrenFail ==
    /\ kids # None /\ Fail
    /\ kids' = None
    /\ UNCHANGED <<who, filters, live, request, load, detail, children, orphans,
                   mine, tiles, notice, error, loading, layerVars, steps>>

AreaTilesArrive ==
    /\ load # None /\ load.at = "tiles" /\ load.area \notin TooLarge
    /\ load' = None
    /\ tiles' = AreaOf(load.area, load.op, load.sig)
    /\ error' = FALSE
    /\ loading' = FALSE
    /\ UNCHANGED <<who, filters, live, request, kids, detail, children, orphans,
                   mine, notice, layerVars, counts>>

AreaRefused ==
    /\ load # None /\ load.at = "tiles" /\ load.area \in TooLarge
    /\ load' = [load EXCEPT !.at = "refused"]
    /\ UNCHANGED <<who, filters, live, request, kids, detail, children, orphans,
                   mine, tiles, notice, error, loading, layerVars, counts>>

(* Too many hexagons to draw: nothing is drawn and the notice says so. *)
AreaTooLarge ==
    /\ load # None /\ load.at = "refused"
    /\ load' = None
    /\ tiles' = Nothing
    /\ notice' = TRUE
    /\ error' = FALSE
    /\ loading' = FALSE
    /\ UNCHANGED <<who, filters, live, request, kids, detail, children, orphans,
                   mine, layerVars, counts>>

FaultyAreaFails ==
    /\ load # None /\ load.at # "refused" /\ Fail
    /\ load' = None
    /\ loading' = FALSE
    /\ UNCHANGED <<who, filters, live, request, kids, detail, children, orphans,
                   mine, tiles, notice, error, layerVars, steps>>

AreaFails ==
    /\ load # None /\ load.at # "refused" /\ Fail
    /\ load' = None
    /\ error' = TRUE
    /\ loading' = FALSE
    /\ UNCHANGED <<who, filters, live, request, kids, detail, children, orphans,
                   mine, tiles, notice, layerVars, steps>>

(* The branch for a refusal does not look at the signal, so a cancelled    *)
(* load whose refusal was being read still empties the map and says so.    *)
OrphanSpeaks(k) ==
    /\ k \in orphans
    /\ orphans' = orphans \ {k}
    /\ IF k = "tooLarge"
       THEN tiles' = Nothing /\ notice' = TRUE /\ UNCHANGED error
       ELSE error' = TRUE /\ UNCHANGED <<tiles, notice>>
    /\ UNCHANGED <<who, filters, live, request, load, kids, detail, children,
                   mine, loading, layerVars, counts>>

-----------------------------------------------------------------------------
(* The layers that follow a filter or only the clock *)

LayerArrives(l) ==
    /\ asked[l] # None
    /\ drawn' = [drawn EXCEPT ![l] = asked[l]]
    /\ asked' = [asked EXCEPT ![l] = None]
    /\ UNCHANGED <<who, filters, live, request, areaVars, orphans, mine, tiles,
                   error, loading, polled, counts>>

LayerFails(l) ==
    /\ asked[l] # None /\ Fail
    /\ asked' = [asked EXCEPT ![l] = None]
    /\ UNCHANGED <<who, filters, live, request, areaVars, orphans, mine, tiles,
                   error, loading, drawn, polled, steps>>

PolledArrives(l, k) ==
    /\ k \in polled[l]
    /\ drawn' = [drawn EXCEPT ![l] = k]
    /\ polled' = [polled EXCEPT ![l] = @ \ {k}]
    /\ UNCHANGED <<who, filters, live, request, areaVars, orphans, mine, tiles,
                   error, loading, asked, counts>>

PolledFails(l, k) ==
    /\ k \in polled[l] /\ Fail
    /\ polled' = [polled EXCEPT ![l] = @ \ {k}]
    /\ UNCHANGED <<who, filters, live, request, areaVars, orphans, mine, tiles,
                   error, loading, drawn, asked, steps>>

FaultyRefresh ==
    /\ mine' = IF IsCollector THEN mine \cup {"poll"} ELSE mine
    /\ UNCHANGED <<polled, timer>>

(* refresh: a collector's map is its own readings; everybody else's is     *)
(* every layer but the catalogue, and the viewport when no area is chosen. *)
Refresh ==
    IF IsCollector
    THEN mine' = mine \cup {"poll"} /\ UNCHANGED <<polled, timer>>
    ELSE /\ polled' = [l \in Layers |->
                         IF l = "networks" THEN polled[l] ELSE polled[l] \cup {CurrentKey(l)}]
         /\ timer' = TimerAfter(lastBounds, operator, area, sig, TRUE, FALSE)
         /\ UNCHANGED mine

Poll ==
    /\ session = "open" /\ live
    /\ Refresh
    /\ UNCHANGED <<who, filters, live, lastBounds, viewport, areaVars, orphans,
                   tiles, error, loading, drawn, asked, counts>>

(* The switch sits in the figures, so it is there once they have arrived. *)
ToggleLive ==
    /\ session = "open" /\ ("summary" \in Layers => drawn["summary"] # None)
    /\ Step
    /\ live' = ~live
    /\ IF live THEN UNCHANGED <<mine, polled, timer>> ELSE Refresh
    /\ UNCHANGED <<who, filters, lastBounds, viewport, areaVars, orphans, tiles,
                   error, loading, drawn, asked, failures>>

MineArrives(w) ==
    /\ w \in mine
    /\ mine' = mine \ {w}
    /\ tiles' = Mine
    /\ error' = FALSE
    /\ UNCHANGED <<who, filters, live, request, areaVars, orphans, loading,
                   layerVars, counts>>

MineFails(w) ==
    /\ w \in mine /\ Fail
    /\ mine' = mine \ {w}
    /\ error' = TRUE
    /\ UNCHANGED <<who, filters, live, request, areaVars, orphans, tiles, loading,
                   layerVars, steps>>

-----------------------------------------------------------------------------
(* The session *)

(* The map is mounted and reports its first viewport, which only a reader  *)
(* is asked about; approval asks for the figures, the fleet and the        *)
(* catalogue; becoming a collector cancels the masts and the marked        *)
(* hexagons and asks for the account's own readings.                       *)
Opened(r) ==
    /\ session' = "open" /\ role' = r
    /\ lastBounds' = Home
    /\ timer' = TimerAfter(Home, operator, area, sig, FALSE, r = "collector")
    /\ IF r = "collector"
       THEN /\ asked' = [l \in Layers |-> None]
            /\ mine' = mine \cup {"effect"}
       ELSE /\ asked' = [l \in Layers |-> IF l \in {"cells", "weak"} THEN asked[l]
                                          ELSE CurrentKey(l)]
            /\ UNCHANGED mine

SessionKnown(r) ==
    /\ session = "unknown"
    /\ Opened(r)
    /\ UNCHANGED <<filters, live, viewport, areaVars, orphans, tiles, error,
                   loading, drawn, polled, counts>>

SessionClosed ==
    /\ session = "unknown"
    /\ session' = "closed"
    /\ asked' = [l \in Layers |-> None]
    /\ UNCHANGED <<role, filters, live, request, areaVars, orphans, mine, tiles,
                   error, loading, drawn, polled, counts>>

SignIn(r) ==
    /\ session = "closed"
    /\ Step
    /\ Opened(r)
    /\ UNCHANGED <<filters, live, viewport, areaVars, orphans, tiles, error,
                   loading, drawn, polled, failures>>

(* handleSignOut once the server has answered or failed: the account, the  *)
(* tiles, the figures and the area go.  The clean-ups cancel what belongs  *)
(* to the effects whose inputs changed, and loadTiles asks again when the  *)
(* area or the role did.                                                   *)
SignOut ==
    /\ session = "open"
    /\ Step
    /\ session' = "closed"
    /\ tiles' = Nothing
    /\ drawn' = [l \in Layers |-> IF l = "summary" THEN None ELSE drawn[l]]
    /\ area' = None /\ refiltered' = FALSE
    /\ mine' = mine \ {"effect"}
    /\ asked' = [l \in Layers |-> IF l = "cells" \/ (l = "weak" /\ area = None)
                                  THEN asked[l] ELSE None]
    /\ IF area = None
       THEN UNCHANGED <<areaVars, orphans, loading>>
       ELSE AreaEffect(None, operator, sig)
    /\ timer' = IF area # None \/ IsCollector
                THEN TimerAfter(lastBounds, operator, None, sig, FALSE, FALSE) ELSE timer
    /\ UNCHANGED <<role, operator, sig, band, live, lastBounds, viewport, error, polled,
                   failures>>

-----------------------------------------------------------------------------
Answers ==
    \/ ViewportAnswered \/ ViewportFails
    \/ AreaDetailArrives \/ ChildrenArrive \/ AreaTilesArrive \/ AreaTooLarge \/ AreaRefused
    \/ \E k \in orphans : OrphanSpeaks(k)
    \/ \E l \in Layers : LayerArrives(l)
    \/ \E l \in Layers : \E k \in polled[l] : PolledArrives(l, k)
    \/ \E w \in mine : MineArrives(w)

Failures ==
    \/ ViewportRefused \/ ChildrenFail \/ AreaFails
    \/ \E l \in Layers : LayerFails(l)
    \/ \E l \in Layers : \E k \in polled[l] : PolledFails(l, k)
    \/ \E w \in mine : MineFails(w)

Reader ==
    \/ \E box \in Boxes : Pan(box)
    \/ \E o \in OrNone(Operators) : ChooseOperator(o)
    \/ \E a \in OrNone(Areas) : ChooseArea(a)
    \/ \E s \in OrNone(Signals) : ChooseSignal(s)
    \/ \E b \in OrNone(Bands) : ChooseBand(b)
    \/ ToggleLive
    \/ \E r \in Roles : SignIn(r)
    \/ SignOut

Next ==
    \/ \E r \in Roles : SessionKnown(r)
    \/ SessionClosed
    \/ TimerFires \/ Poll \/ Answers \/ Failures \/ Reader

Spec == Init /\ [][Next]_vars

(* The browser delivers what is due: a timer fires, an answer arrives, an  *)
(* unauthorised request is refused, the interval of the poll ticks, the    *)
(* map loads.  Nothing is assumed of the reader or of failures.            *)
Fairness ==
    /\ \A r \in Roles : WF_vars(SessionKnown(r) \/ SessionClosed)
    /\ WF_vars(TimerFires) /\ WF_vars(Poll)
    /\ WF_vars(ViewportAnswered) /\ WF_vars(ViewportFails)
    /\ WF_vars(ViewportRefused /\ ~viewport.allowed)
    /\ WF_vars(AreaDetailArrives) /\ WF_vars(AreaTilesArrive)
    /\ WF_vars(AreaRefused) /\ WF_vars(AreaTooLarge)
    /\ \A k \in {"error", "tooLarge"} : WF_vars(OrphanSpeaks(k))
    /\ \A l \in Layers : /\ WF_vars(LayerArrives(l))
                         /\ \A k \in KeysOf(l) : WF_vars(PolledArrives(l, k))
    /\ \A w \in {"effect", "poll"} : WF_vars(MineArrives(w))

FairSpec == Spec /\ Fairness

-----------------------------------------------------------------------------
(* Properties *)

Shown == tiles.kind = "view" /\ area # None

(* What is drawn answers the filters. *)
TilesFit ==
    tiles = IF area = None THEN ViewOf(lastBounds, operator, sig)
            ELSE AreaOf(area, operator, sig)

(* What is drawn answers the area and the network, but a signal state that *)
(* has been changed since the area was asked for.                          *)
OtherSignal == refiltered /\ \E s \in OrNone(Signals) : tiles = AreaOf(area, operator, s)

(* A reader never looks at hexagons of other filters without a request on  *)
(* its way, an error or the notice on screen.  Three cases are left out:   *)
(* the viewport's answer over a chosen area, which AreaAnswerStands is     *)
(* about; a collector's answer that outlived a sign-out; and a signal      *)
(* state changed while an area is chosen, for which the code asks nothing  *)
(* and says nothing (SignalIsFollowed).                                    *)
StaleIsAnnounced ==
    IsReader /\ ~TilesFit /\ ~Shown /\ ~OtherSignal /\ tiles # Mine
      => \/ timer # None \/ viewport # None \/ load # None
         \/ error \/ notice

(* The spinner is up only while something is on its way that will take it  *)
(* down: a waiting timer, a request, or the load of an area.               *)
LoadingMeansWork == loading => timer # None \/ viewport # None \/ load # None

(* Once an area is given up, no answer of its cancelled requests brings    *)
(* its border or its shading back.                                         *)
NothingOfAClearedArea == area = None => detail = None /\ children = None /\ kids = None

(* The border and the totals on screen are those of the chosen area and    *)
(* network, unless the load is under way or failed.  The first two cases   *)
(* of StaleIsAnnounced are left out: there a late answer has taken the     *)
(* report of the failure off the screen.                                   *)
BorderIsTheSelection ==
    detail # None /\ detail # <<area, operator>>
      => load # None \/ error \/ notice \/ Shown \/ tiles = Mine

(* The load under way is of the chosen area and network, and of the signal *)
(* state unless that was changed since; past its first answer its border   *)
(* is the one on screen.                                                   *)
LoadIsTheSelection ==
    load # None => /\ area # None /\ load.area = area /\ load.op = operator
                   /\ refiltered \/ load.sig = sig
                   /\ load.at # "detail" => detail = <<load.area, load.op>>

(* Outside a chosen area, what a reader's map waits for is the hexagons of *)
(* its own bounds and filters: those of the timer, or, when none runs,     *)
(* those of the request.                                                   *)
RequestFollowsFilters ==
    IsReader /\ area = None =>
        /\ timer # None =>
             timer.box = lastBounds /\ timer.op = operator /\ timer.sig = sig
        /\ timer = None /\ viewport # None =>
             viewport.of = ViewOf(lastBounds, operator, sig)

(* An area is chosen only while somebody is signed in, and then the map    *)
(* has reported its bounds.                                                *)
SessionBoundsTheMap ==
    /\ session = "open" => lastBounds # None
    /\ session # "open" => area = None

(* The spinner goes away for good once the reader stops. *)
LoadingEnds == <>[]~loading

(* While the live switch is on, whatever was overtaken, lost or answered   *)
(* late, a reader's map ends up with the answer to its own filters.        *)
WatchedViewportHeals ==
    <>[](IsReader /\ live /\ area = None => TilesFit)

(* The same for the layers the poll refreshes. *)
WatchedLayersHeal ==
    <>[](IsReader /\ live => \A l \in Layers \ {"networks"} : drawn[l] = CurrentKey(l))

(* While an area is chosen, an answer for the viewport never replaces the  *)
(* area's hexagons.  The code does not keep this: see README, Disagreements. *)
AreaAnswerStands == [][area # None /\ area' = area => tiles' = tiles \/ tiles'.kind # "view"]_vars

(* The hexagons of an area are of the chosen signal state, once nothing is *)
(* under way.  The code does not keep this: see README, Disagreements.     *)
SignalIsFollowed ==
    IsReader /\ tiles.kind = "area" /\ tiles.where = area /\ load = None /\ ~error
      => tiles.sig = sig

(* What holds of every state of the page: its values have their types, the *)
(* spinner has a cause, nothing is left of an area that was given up or is *)
(* not the chosen one, and what is under way is for the filters.  Together *)
(* with StaleIsAnnounced it is inductive: MapProofs.                       *)
MapDataInv ==
    /\ TypeOK /\ SessionBoundsTheMap
    /\ LoadingMeansWork /\ NothingOfAClearedArea /\ BorderIsTheSelection
    /\ LoadIsTheSelection /\ RequestFollowsFilters

(* Whatever the poll refreshes heals, hexagons and layers alike. *)
WatchedMapHeals == WatchedViewportHeals /\ WatchedLayersHeal

=============================================================================
