------------------------------ MODULE MapProofs ------------------------------
(***************************************************************************)
(* The proofs about the dashboard's map: of its data hub (MapData), for    *)
(* any networks, areas, viewports, layers and bounds, and of the map that  *)
(* draws the data (MapView), for any sources, values, places, viewports    *)
(* and animations.                                                         *)
(*                                                                         *)
(* Of the hub, the conjunction of MapDataInv and StaleIsAnnounced is       *)
(* inductive as it stands: MapDataInv says of what is under way that it is *)
(* for the current filters, and that is what lets an answer replace what   *)
(* is drawn without leaving it stale and unannounced.  Types come first,   *)
(* one lemma per kind of action; then the other parts, one lemma per       *)
(* action that disturbs them.                                              *)
(*                                                                         *)
(* Of the map, the invariant MapHolds says which layers there are once a   *)
(* style has come and what may be hidden of them (Arranged), that only the *)
(* effects that are due stand between what the page has told and what is   *)
(* remembered and drawn (Remembered), and that a map at rest has reported  *)
(* where it is (ReportedHere).  The stack of layers is then a matter of    *)
(* sequences alone, and the viewport one of arithmetic.                    *)
(***************************************************************************)
EXTENDS MapData, MapView, TLAPS

-----------------------------------------------------------------------------
(* The hub: types *)

\* A timer set by loadTiles has the type of a timer.
LEMMA TimerAfterType ==
    ASSUME timer \in OrNone(Timers),
           NEW box \in OrNone(Boxes), NEW op \in OrNone(Operators), NEW a,
           NEW sg \in OrNone(Signals), NEW silent \in BOOLEAN, NEW collector
    PROVE  TimerAfter(box, op, a, sg, silent, collector) \in OrNone(Timers)
BY DEF TimerAfter, Timers, OrNone

\* A layer is asked with one of its keys.
LEMMA KeyType ==
    ASSUME NEW l, NEW o \in OrNone(Operators), NEW a \in OrNone(Areas), NEW b \in OrNone(Bands)
    PROVE  Key(l, o, a, b) \in KeysOf(l)
BY DEF KeysOf

\* The page starts with values of their types.
LEMMA TypeInit == Init => TypeOK
<1> SUFFICES ASSUME Init PROVE TypeOK
    OBVIOUS
<1>1. \A l \in Layers : CurrentKey(l) \in KeysOf(l)
    BY KeyType DEF CurrentKey, Init, OrNone
<1>2. \A l \in Layers : /\ drawn[l] \in OrNone(KeysOf(l))
                        /\ asked[l] \in OrNone(KeysOf(l)) /\ polled[l] \subseteq KeysOf(l)
    BY <1>1 DEF Init, OrNone
<1>3. ByLayer(drawn) /\ ByLayer(asked) /\ ByLayer(polled)
    BY DEF Init, ByLayer
<1>4. FiltersOK
    BY DEF Init, FiltersOK, OrNone, Roles
<1>5. RequestsOK
    BY DEF Init, RequestsOK, OrNone, Queries
<1>6. SwitchesOK
    BY Zenon DEF Init, SwitchesOK
<1>7. CountsOK
    BY MapDataAssumption DEF Init, CountsOK
<1> QED BY <1>2, <1>3, <1>4, <1>5, <1>6, <1>7 DEF TypeOK, LayersOK

\* No step gives a filter a value it does not offer.
LEMMA FiltersStep == FiltersOK /\ [Next]_vars => FiltersOK'
BY ZenonT(40), MapDataAssumption
   DEF FiltersOK, Next, vars, Answers, Failures, Reader, TimerFires, Poll, ToggleLive,
       ViewportAnswered, ViewportRefused, ViewportFails, AreaDetailArrives, ChildrenArrive,
       ChildrenFail, AreaTilesArrive, AreaRefused, AreaTooLarge, AreaFails, OrphanSpeaks,
       LayerArrives, LayerFails, PolledArrives, PolledFails, MineArrives, MineFails,
       Pan, ChooseOperator, ChooseArea, ChooseSignal, ChooseBand,
       SessionKnown, SessionClosed, SignIn, SignOut, Opened,
       who, filters, request, OrNone, Roles

\* No step sets a counter beyond its bound.
LEMMA CountsStep == CountsOK /\ [Next]_vars => CountsOK'
<1> SUFFICES ASSUME CountsOK, [Next]_vars PROVE CountsOK'
    OBVIOUS
<1>1. (steps' = steps \/ Step) /\ (failures' = failures \/ Fail)
    BY DEF Next, vars, Answers, Failures, Reader, TimerFires, Poll, ToggleLive,
       ViewportAnswered, ViewportRefused, ViewportFails, AreaDetailArrives, ChildrenArrive,
       ChildrenFail, AreaTilesArrive, AreaRefused, AreaTooLarge, AreaFails, OrphanSpeaks,
       LayerArrives, LayerFails, PolledArrives, PolledFails, MineArrives, MineFails,
       Pan, ChooseOperator, ChooseArea, ChooseSignal, ChooseBand,
       SessionKnown, SessionClosed, SignIn, SignOut, counts
<1> QED BY <1>1, MapDataAssumption DEF CountsOK, Step, Fail

\* A switch is on or off.
LEMMA SwitchesStep == SwitchesOK /\ [Next]_vars => SwitchesOK'
BY ZenonT(40)
   DEF SwitchesOK, Next, vars, Answers, Failures, Reader, TimerFires, Poll, ToggleLive,
       ViewportAnswered, ViewportRefused, ViewportFails, AreaDetailArrives, ChildrenArrive,
       ChildrenFail, AreaTilesArrive, AreaRefused, AreaTooLarge, AreaFails, OrphanSpeaks,
       LayerArrives, LayerFails, PolledArrives, PolledFails, MineArrives, MineFails,
       Pan, ChooseOperator, ChooseArea, ChooseSignal, ChooseBand,
       SessionKnown, SessionClosed, SignIn, SignOut, AreaEffect, areaVars

\* What an effect leaves of the layers' questions, and what the poll adds, are
\* keys of those layers.
LEMMA LayersStep == FiltersOK /\ LayersOK /\ [Next]_vars => LayersOK'
<1> SUFFICES ASSUME FiltersOK, LayersOK, [Next]_vars PROVE LayersOK'
    OBVIOUS
<1> USE DEF LayersOK, ByLayer, OrNone
<1>q. CASE UNCHANGED layerVars
    BY <1>q DEF layerVars
<1>k. \A l \in Layers : CurrentKey(l) \in KeysOf(l)
    BY KeyType DEF CurrentKey, FiltersOK
<1>1. ASSUME NEW o \in OrNone(Operators), ChooseOperator(o) PROVE LayersOK'
    <2>1. \A l \in Layers : Key(l, o, area, band) \in KeysOf(l)
        BY KeyType DEF FiltersOK
    <2> QED BY <1>1, <2>1 DEF ChooseOperator, Reask
<1>2. ASSUME NEW a \in OrNone(Areas), ChooseArea(a) PROVE LayersOK'
    <2>1. \A l \in Layers : Key(l, operator, a, band) \in KeysOf(l)
        BY KeyType DEF FiltersOK
    <2> QED BY <1>2, <2>1 DEF ChooseArea, Reask
<1>3. ASSUME NEW b \in OrNone(Bands), ChooseBand(b) PROVE LayersOK'
    <2>1. \A l \in Layers : Key(l, operator, area, b) \in KeysOf(l)
        BY KeyType DEF FiltersOK
    <2> QED BY <1>3, <2>1 DEF ChooseBand, Reask
<1>4. ASSUME NEW l \in Layers, LayerArrives(l) \/ LayerFails(l) PROVE LayersOK'
    BY <1>4 DEF LayerArrives, LayerFails
<1>5. ASSUME NEW l \in Layers, NEW k \in polled[l], PolledArrives(l, k) \/ PolledFails(l, k)
      PROVE  LayersOK'
    BY <1>5 DEF PolledArrives, PolledFails
<1>6. CASE Poll \/ ToggleLive
    <2>1. polled' = polled \/ polled' = [l \in Layers |->
             IF l = "networks" THEN polled[l] ELSE polled[l] \cup {CurrentKey(l)}]
        BY <1>6 DEF Poll, ToggleLive, Refresh
    <2>2. UNCHANGED <<drawn, asked>>
        BY <1>6 DEF Poll, ToggleLive
    <2>3. ByLayer(polled')
        BY <2>1 DEF ByLayer
    <2>4. \A l \in Layers : polled'[l] \subseteq KeysOf(l)
        BY <2>1, <1>k
    <2> QED BY <2>2, <2>3, <2>4
<1>7. ASSUME NEW r \in Roles, SessionKnown(r) \/ SignIn(r) PROVE LayersOK'
    BY ZenonT(40), <1>7, <1>k DEF SessionKnown, SignIn, Opened
<1>8. CASE SessionClosed \/ SignOut
    BY <1>8 DEF SessionClosed, SignOut
<1>9. ASSUME Next PROVE \/ UNCHANGED layerVars \/ Poll \/ ToggleLive
                        \/ SessionClosed \/ SignOut
                        \/ \E o \in OrNone(Operators) : ChooseOperator(o)
                        \/ \E a \in OrNone(Areas) : ChooseArea(a)
                        \/ \E b \in OrNone(Bands) : ChooseBand(b)
                        \/ \E l \in Layers : LayerArrives(l) \/ LayerFails(l)
                        \/ \E l \in Layers : \E k \in polled[l] :
                               PolledArrives(l, k) \/ PolledFails(l, k)
                        \/ \E r \in Roles : SessionKnown(r) \/ SignIn(r)
    BY <1>9 DEF Next, Answers, Failures, Reader, TimerFires,
       ViewportAnswered, ViewportRefused, ViewportFails, AreaDetailArrives, ChildrenArrive,
       ChildrenFail, AreaTilesArrive, AreaRefused, AreaTooLarge, AreaFails, OrphanSpeaks,
       MineArrives, MineFails, Pan, ChooseSignal, layerVars
<1> QED BY <1>q, <1>1, <1>2, <1>3, <1>4, <1>5, <1>6, <1>7, <1>8, <1>9 DEF vars

\* A timer that fires leaves a request for the view it was set for.
LEMMA TimerAsks ==
    ASSUME RequestsOK, TimerFires
    PROVE  viewport' \in Viewports /\ viewport'.of = ViewOf(timer.box, timer.op, timer.sig)
<1>1. ViewOf(timer.box, timer.op, timer.sig) \in Views
    BY DEF RequestsOK, OrNone, TimerFires, Timers, Views
<1> QED BY <1>1 DEF TimerFires, Viewports, IsReader

\* What is asked, loaded, drawn and left over keeps its type.
LEMMA RequestsStep ==
    FiltersOK /\ FiltersOK' /\ SwitchesOK /\ RequestsOK /\ [Next]_vars => RequestsOK'
<1> SUFFICES ASSUME FiltersOK, FiltersOK', SwitchesOK, RequestsOK, [Next]_vars
             PROVE  RequestsOK'
    OBVIOUS
<1> USE MapDataAssumption DEF RequestsOK, FiltersOK, OrNone, areaVars, request
<1>1. CASE TimerFires
    <2>2. viewport' \in Viewports
        BY <1>1, TimerAsks
    <2>3. orphans' \subseteq {"error", "tooLarge"}
        BY <1>1 DEF TimerFires, ViewportOrphan
    <2> QED BY <1>1, <2>2, <2>3 DEF TimerFires
<1>2. CASE ViewportAnswered \/ ViewportRefused \/ ViewportFails
    <2>1. viewport' \in OrNone(Viewports) /\ (tiles' = tiles \/ tiles' \in Views)
        BY <1>2 DEF ViewportAnswered, ViewportRefused, ViewportFails, Viewports
    <2>2. UNCHANGED <<timer, areaVars, orphans, mine>>
        BY <1>2 DEF ViewportAnswered, ViewportRefused, ViewportFails
    <2> QED BY <2>1, <2>2 DEF Queries
<1>3. CASE AreaDetailArrives
    <2>1. <<load.area, load.op>> \in Selections /\ load' \in Loads
        BY <1>3 DEF AreaDetailArrives, Loads, Selections
    <2> QED BY <1>3, <2>1 DEF AreaDetailArrives
<1>4. CASE AreaTilesArrive
    <2>1. AreaOf(load.area, load.op, load.sig) \in Queries
        BY <1>4 DEF AreaTilesArrive, Loads, Queries
    <2> QED BY <1>4, <2>1 DEF AreaTilesArrive
<1>5. CASE AreaRefused \/ AreaFails \/ AreaTooLarge
    BY <1>5 DEF AreaRefused, AreaFails, AreaTooLarge, Loads, Queries
<1>6. CASE ChildrenArrive \/ ChildrenFail
    BY <1>6 DEF ChildrenArrive, ChildrenFail
<1>7. ASSUME NEW k \in orphans, OrphanSpeaks(k) PROVE RequestsOK'
    BY <1>7 DEF OrphanSpeaks, Queries
<1>8. ASSUME NEW w \in mine, MineArrives(w) \/ MineFails(w) PROVE RequestsOK'
    <2>1. mine' \subseteq mine /\ (tiles' = tiles \/ tiles' = Mine)
        BY <1>8 DEF MineArrives, MineFails
    <2>2. UNCHANGED <<request, areaVars, orphans>>
        BY <1>8 DEF MineArrives, MineFails
    <2>3. Mine \in Queries
        BY DEF Queries
    <2> QED BY <2>1, <2>2, <2>3
<1>a. ASSUME NEW a \in OrNone(Areas), NEW op \in OrNone(Operators), NEW sg \in OrNone(Signals),
             AreaEffect(a, op, sg)
      PROVE  /\ load' \in OrNone(Loads) /\ kids' \in OrNone(Selections)
             /\ detail' \in OrNone(Selections) /\ children' \in OrNone(Selections)
             /\ orphans' \subseteq {"error", "tooLarge"}
    BY <1>a DEF AreaEffect, LoadOrphan, Loads
<1>9. ASSUME NEW o \in OrNone(Operators), ChooseOperator(o) PROVE RequestsOK'
    <2>1. timer' \in OrNone(Timers)
        BY <1>9, TimerAfterType DEF ChooseOperator, FilterEffect
    <2>2. AreaEffect(area, o, sig)
        BY <1>9 DEF ChooseOperator
    <2>3. UNCHANGED <<viewport, mine, tiles>>
        BY <1>9 DEF ChooseOperator
    <2> QED BY <1>a, <2>1, <2>2, <2>3
<1>10. ASSUME NEW a \in OrNone(Areas), ChooseArea(a) PROVE RequestsOK'
    <2>1. timer' \in OrNone(Timers)
        BY <1>10, TimerAfterType DEF ChooseArea, FilterEffect
    <2>2. AreaEffect(a, operator, sig)
        BY <1>10 DEF ChooseArea
    <2>3. UNCHANGED <<viewport, mine, tiles>>
        BY <1>10 DEF ChooseArea
    <2> QED BY <1>a, <2>1, <2>2, <2>3
<1>11. ASSUME NEW s \in OrNone(Signals), ChooseSignal(s) PROVE RequestsOK'
    BY <1>11, TimerAfterType DEF ChooseSignal, FilterEffect
<1>12. ASSUME NEW box \in Boxes, Pan(box) PROVE RequestsOK'
    BY <1>12, TimerAfterType DEF Pan
<1>13. CASE Poll \/ ToggleLive
    <2>1. \/ timer' = timer
          \/ timer' = TimerAfter(lastBounds, operator, area, sig, TRUE, FALSE)
        BY <1>13 DEF Poll, ToggleLive, Refresh
    <2>t. TimerAfter(lastBounds, operator, area, sig, TRUE, FALSE) \in OrNone(Timers)
        BY DEF TimerAfter, Timers
    <2>2. timer' \in OrNone(Timers)
        BY <2>1, <2>t
    <2>3. mine' \subseteq {"effect", "poll"}
        BY <1>13 DEF Poll, ToggleLive, Refresh
    <2>4. UNCHANGED <<viewport, areaVars, orphans, tiles>>
        BY <1>13 DEF Poll, ToggleLive
    <2> QED BY <2>2, <2>3, <2>4
<1>14. ASSUME NEW r \in Roles, SessionKnown(r) \/ SignIn(r) PROVE RequestsOK'
    <2>1. timer' = TimerAfter(Home, operator, area, sig, FALSE, r = "collector")
        BY <1>14 DEF SessionKnown, SignIn, Opened
    <2>2. timer' \in OrNone(Timers)
        BY <2>1 DEF TimerAfter, Timers
    <2>3. mine' \subseteq {"effect", "poll"}
        BY ZenonT(40), <1>14 DEF SessionKnown, SignIn, Opened
    <2>4. UNCHANGED <<viewport, areaVars, orphans, tiles>>
        BY <1>14 DEF SessionKnown, SignIn
    <2> QED BY <2>2, <2>3, <2>4
<1>15. CASE SignOut
    <2>1. timer' \in OrNone(Timers)
        BY <1>15, TimerAfterType DEF SignOut
    <2>2. \/ UNCHANGED <<areaVars, orphans>>
          \/ AreaEffect(None, operator, sig)
        BY <1>15 DEF SignOut
    <2>3. viewport' = viewport /\ mine' \subseteq mine /\ tiles' = Nothing
        BY <1>15 DEF SignOut
    <2>4. Nothing \in Queries
        BY DEF Queries
    <2> QED BY <1>a, <2>1, <2>2, <2>3, <2>4
<1>16. CASE UNCHANGED <<request, areaVars, orphans, mine, tiles>>
    BY <1>16
<1>17. ASSUME Next
       PROVE  \/ UNCHANGED <<request, areaVars, orphans, mine, tiles>>
              \/ TimerFires \/ ViewportAnswered \/ ViewportRefused \/ ViewportFails
              \/ AreaDetailArrives \/ AreaTilesArrive \/ AreaRefused \/ AreaFails
              \/ AreaTooLarge \/ ChildrenArrive \/ ChildrenFail
              \/ Poll \/ ToggleLive \/ SignOut
              \/ \E k \in orphans : OrphanSpeaks(k)
              \/ \E w \in mine : MineArrives(w) \/ MineFails(w)
              \/ \E o \in OrNone(Operators) : ChooseOperator(o)
              \/ \E a \in OrNone(Areas) : ChooseArea(a)
              \/ \E s \in OrNone(Signals) : ChooseSignal(s)
              \/ \E box \in Boxes : Pan(box)
              \/ \E r \in Roles : SessionKnown(r) \/ SignIn(r)
    BY <1>17 DEF Next, Answers, Failures, Reader, LayerArrives, LayerFails, PolledArrives,
                 PolledFails, ChooseBand, SessionClosed
<1> QED BY <1>1, <1>2, <1>3, <1>4, <1>5, <1>6, <1>7, <1>8, <1>9, <1>10, <1>11, <1>12,
           <1>13, <1>14, <1>15, <1>16, <1>17 DEF vars

\* Types are kept by every step.
LEMMA TypeStep == TypeOK /\ [Next]_vars => TypeOK'
BY FiltersStep, CountsStep, SwitchesStep, LayersStep, RequestsStep DEF TypeOK

-----------------------------------------------------------------------------
(* What is under way is for the filters *)

\* What the invariant says of the filters and the requests, beside the types.
Followed ==
    /\ SessionBoundsTheMap /\ LoadingMeansWork /\ NothingOfAClearedArea
    /\ BorderIsTheSelection /\ LoadIsTheSelection /\ RequestFollowsFilters
    /\ StaleIsAnnounced

\* A timer that loadTiles sets outside an area and for a reader is for the
\* box and the filters it was called with.
LEMMA TimerAfterIsCurrent ==
    ASSUME NEW box \in Boxes, NEW op \in OrNone(Operators), NEW sg \in OrNone(Signals),
           NEW silent \in BOOLEAN
    PROVE  /\ TimerAfter(box, op, None, sg, silent, FALSE) # None
           /\ TimerAfter(box, op, None, sg, silent, FALSE).box = box
           /\ TimerAfter(box, op, None, sg, silent, FALSE).op = op
           /\ TimerAfter(box, op, None, sg, silent, FALSE).sig = sg
BY MapDataAssumption DEF TimerAfter, Timers

\* The page opens with nothing under way.
LEMMA FollowedInit == Init => Followed
BY DEF Init, Followed, SessionBoundsTheMap, LoadingMeansWork, NothingOfAClearedArea,
       BorderIsTheSelection, LoadIsTheSelection, RequestFollowsFilters, StaleIsAnnounced,
       IsReader

\* Nobody signed in, no area; somebody signed in, a viewport.
LEMMA SessionStep == TypeOK /\ SessionBoundsTheMap /\ [Next]_vars => SessionBoundsTheMap'
BY MapDataAssumption
   DEF SessionBoundsTheMap, TypeOK, FiltersOK,
       Next, vars, Answers, Failures, Reader, TimerFires, Poll, ToggleLive,
       ViewportAnswered, ViewportRefused, ViewportFails, AreaDetailArrives, ChildrenArrive,
       ChildrenFail, AreaTilesArrive, AreaRefused, AreaTooLarge, AreaFails, OrphanSpeaks,
       LayerArrives, LayerFails, PolledArrives, PolledFails, MineArrives, MineFails,
       Pan, ChooseOperator, ChooseArea, ChooseSignal, ChooseBand, IsReader,
       SessionKnown, SessionClosed, SignIn, SignOut, Opened, who, filters, request

\* The load, and the border once it has arrived, are of the selection.
LEMMA LoadStep ==
    TypeOK /\ SessionBoundsTheMap /\ LoadIsTheSelection /\ [Next]_vars => LoadIsTheSelection'
<1> SUFFICES ASSUME TypeOK, SessionBoundsTheMap, LoadIsTheSelection, [Next]_vars
             PROVE  LoadIsTheSelection'
    OBVIOUS
<1>1. CASE AreaDetailArrives
    BY <1>1 DEF AreaDetailArrives, LoadIsTheSelection, TypeOK, RequestsOK, Loads, OrNone, filters
<1>2. CASE AreaRefused
    BY <1>2 DEF AreaRefused, LoadIsTheSelection, TypeOK, RequestsOK, Loads, OrNone, filters
<1>3. CASE ~AreaDetailArrives /\ ~AreaRefused
    <2>1. \/ load' = None
          \/ UNCHANGED <<load, area, operator, detail>>
             /\ ((refiltered' /\ area # None) \/ UNCHANGED <<sig, refiltered>>)
          \/ load = None /\ load' = None
          \/ load' = [area |-> area', op |-> operator', sig |-> sig', at |-> "detail"]
             /\ area' # None
        BY <1>3 DEF LoadIsTheSelection, SessionBoundsTheMap, Next, vars,
        Answers, Failures, Reader, TimerFires, Poll, ToggleLive,
        ViewportAnswered, ViewportRefused, ViewportFails, ChildrenArrive,
        ChildrenFail, AreaTilesArrive, AreaTooLarge, AreaFails, OrphanSpeaks,
        LayerArrives, LayerFails, PolledArrives, PolledFails, MineArrives, MineFails,
        Pan, ChooseOperator, ChooseArea, ChooseSignal, ChooseBand, AreaEffect,
        SessionKnown, SessionClosed, SignIn, SignOut, filters, areaVars
    <2> QED BY <2>1 DEF LoadIsTheSelection
<1> QED BY <1>1, <1>2, <1>3

\* A given-up area leaves nothing.
LEMMA ClearedStep ==
    TypeOK /\ LoadIsTheSelection /\ NothingOfAClearedArea /\ [Next]_vars
      => NothingOfAClearedArea'
BY MapDataAssumption
   DEF LoadIsTheSelection, NothingOfAClearedArea,
       Next, vars, Answers, Failures, Reader, TimerFires, Poll, ToggleLive,
       ViewportAnswered, ViewportRefused, ViewportFails, AreaDetailArrives, ChildrenArrive,
       ChildrenFail, AreaTilesArrive, AreaRefused, AreaTooLarge, AreaFails, OrphanSpeaks,
       LayerArrives, LayerFails, PolledArrives, PolledFails, MineArrives, MineFails,
       Pan, ChooseOperator, ChooseArea, ChooseSignal, ChooseBand, AreaEffect,
       SessionKnown, SessionClosed, SignIn, SignOut, filters, areaVars

\* The border is the selection's, or the screen says why not.
LEMMA BorderStep ==
    TypeOK /\ LoadIsTheSelection /\ NothingOfAClearedArea /\ BorderIsTheSelection /\ [Next]_vars
      => BorderIsTheSelection'
<1> SUFFICES ASSUME TypeOK, LoadIsTheSelection, NothingOfAClearedArea, BorderIsTheSelection,
                    [Next]_vars
             PROVE  BorderIsTheSelection'
    OBVIOUS
<1>1. CASE AreaDetailArrives \/ AreaRefused \/ AreaTilesArrive \/ AreaTooLarge \/ AreaFails
    BY <1>1, MapDataAssumption
       DEF AreaDetailArrives, AreaRefused, AreaTilesArrive, AreaTooLarge, AreaFails,
           BorderIsTheSelection, LoadIsTheSelection, TypeOK, RequestsOK, Loads, OrNone, filters
<1>2. CASE UNCHANGED <<area, operator, load, detail, tiles, error, notice>>
    BY <1>2 DEF BorderIsTheSelection, Shown
<1>3. CASE ViewportAnswered
    <2>1. viewport.of.kind = "view"
        BY <1>3 DEF ViewportAnswered, TypeOK, RequestsOK, OrNone, Viewports, Views, ViewOf, Query
    <2> QED BY <1>3, <2>1 DEF ViewportAnswered, BorderIsTheSelection, Shown,
                              NothingOfAClearedArea, filters, areaVars
<1>4. ASSUME NEW k \in orphans, OrphanSpeaks(k) PROVE BorderIsTheSelection'
    BY <1>4 DEF OrphanSpeaks, BorderIsTheSelection, Shown, filters
<1>5. ASSUME NEW w \in mine, MineArrives(w) \/ MineFails(w) PROVE BorderIsTheSelection'
    BY <1>5 DEF MineArrives, MineFails, BorderIsTheSelection
<1>6. CASE ViewportFails
    BY <1>6 DEF ViewportFails, BorderIsTheSelection
<1>a. ASSUME NEW a \in OrNone(Areas), NEW op \in OrNone(Operators), NEW sg \in OrNone(Signals),
             AreaEffect(a, op, sg)
      PROVE  detail' # None => load' # None
    BY <1>a, MapDataAssumption DEF AreaEffect, Loads, OrNone
<1>7. ASSUME NEW o \in OrNone(Operators), ChooseOperator(o) PROVE BorderIsTheSelection'
    BY <1>7, <1>a DEF ChooseOperator, BorderIsTheSelection, TypeOK, FiltersOK
<1>8. ASSUME NEW a \in OrNone(Areas), ChooseArea(a) PROVE BorderIsTheSelection'
    BY <1>8, <1>a DEF ChooseArea, BorderIsTheSelection, TypeOK, FiltersOK
<1>9. CASE SignOut
    BY <1>9 DEF SignOut, BorderIsTheSelection, AreaEffect, NothingOfAClearedArea, areaVars
<1>10. ASSUME Next
       PROVE  \/ UNCHANGED <<area, operator, load, detail, tiles, error, notice>>
              \/ ViewportAnswered \/ ViewportFails
              \/ AreaDetailArrives \/ AreaTilesArrive \/ AreaRefused \/ AreaFails
              \/ AreaTooLarge \/ SignOut
              \/ \E k \in orphans : OrphanSpeaks(k)
              \/ \E w \in mine : MineArrives(w) \/ MineFails(w)
              \/ \E o \in OrNone(Operators) : ChooseOperator(o)
              \/ \E a \in OrNone(Areas) : ChooseArea(a)
    BY <1>10 DEF Next, Answers, Failures, Reader, LayerArrives, LayerFails, PolledArrives,
                 PolledFails, ChooseBand, ChooseSignal, Pan, Poll, ToggleLive, ChildrenArrive,
                 ChildrenFail, ViewportRefused, TimerFires, SessionClosed, SessionKnown, SignIn,
                 areaVars, filters
<1> QED BY <1>1, <1>2, <1>3, <1>4, <1>5, <1>6, <1>7, <1>8, <1>9, <1>10, <1>2
        DEF vars, filters, areaVars

\* The spinner has a cause.
LEMMA LoadingStep ==
    TypeOK /\ SessionBoundsTheMap /\ LoadIsTheSelection /\ LoadingMeansWork /\ [Next]_vars
      => LoadingMeansWork'
<1> SUFFICES ASSUME TypeOK, SessionBoundsTheMap, LoadIsTheSelection, LoadingMeansWork,
                    [Next]_vars
             PROVE  LoadingMeansWork'
    OBVIOUS
<1>t. \A box \in Boxes, op \in OrNone(Operators), sg \in OrNone(Signals) :
          TimerAfter(box, op, None, sg, FALSE, FALSE) # None
    BY ZenonT(40), TimerAfterIsCurrent
<1>u. ASSUME NEW box, NEW op, NEW a, NEW sg, NEW silent, NEW collector,
             timer # None, op \in OrNone(Operators), sg \in OrNone(Signals), silent \in BOOLEAN,
             box \in OrNone(Boxes)
      PROVE  TimerAfter(box, op, a, sg, silent, collector) # None
    BY <1>u, MapDataAssumption DEF TimerAfter, Timers, OrNone
<1>1. CASE TimerFires
    BY <1>1, TimerAsks, MapDataAssumption DEF TypeOK, LoadingMeansWork
<1>2. CASE ViewportAnswered \/ ViewportFails \/ AreaTilesArrive \/ AreaTooLarge \/ AreaFails
    BY <1>2 DEF ViewportAnswered, ViewportFails, AreaTilesArrive, AreaTooLarge, AreaFails,
                LoadingMeansWork
<1>3. CASE AreaDetailArrives \/ AreaRefused
    <2>1. load' \in Loads
        BY <1>3 DEF AreaDetailArrives, AreaRefused, TypeOK, RequestsOK, Loads, OrNone
    <2> QED BY <2>1, MapDataAssumption DEF LoadingMeansWork
<1>r. CASE ViewportRefused
    <2>1. viewport' \in Viewports
        BY <1>r DEF ViewportRefused, TypeOK, RequestsOK, Viewports, OrNone
    <2> QED BY <2>1, MapDataAssumption DEF LoadingMeansWork
<1>q. CASE loading' = loading /\ UNCHANGED <<viewport, load>> /\ (timer # None => timer' # None)
    BY <1>q DEF LoadingMeansWork
<1>a. ASSUME NEW a \in OrNone(Areas), NEW op \in OrNone(Operators), NEW sg \in OrNone(Signals),
             AreaEffect(a, op, sg)
      PROVE  a # None => load' # None
    BY <1>a, MapDataAssumption DEF AreaEffect, Loads, OrNone
<1>4. ASSUME NEW o \in OrNone(Operators), ChooseOperator(o) PROVE LoadingMeansWork'
    BY <1>4, <1>a, <1>u DEF ChooseOperator, FilterEffect, AreaEffect, LoadingMeansWork,
       LoadIsTheSelection, TypeOK, FiltersOK
<1>5. ASSUME NEW a \in OrNone(Areas), ChooseArea(a) PROVE LoadingMeansWork'
    BY <1>5, <1>a, <1>t DEF ChooseArea, FilterEffect, LoadingMeansWork, SessionBoundsTheMap,
       TypeOK, FiltersOK, IsReader, IsCollector, OrNone
<1>6. CASE SignOut
    BY <1>6, <1>t, <1>u DEF SignOut, LoadingMeansWork, LoadIsTheSelection,
       SessionBoundsTheMap, TypeOK, FiltersOK, OrNone, areaVars
<1>7. CASE Poll \/ ToggleLive
    BY <1>7, <1>u, <1>q DEF Poll, ToggleLive, Refresh, TypeOK, FiltersOK, areaVars
<1>8. ASSUME NEW r \in Roles, SessionKnown(r) \/ SignIn(r) PROVE LoadingMeansWork'
    <2>2. \/ timer' = timer
          \/ timer' = [box |-> Home, op |-> operator, sig |-> sig, silent |-> FALSE]
        BY <1>8 DEF SessionKnown, SignIn, Opened, TimerAfter
    <2>3. [box |-> Home, op |-> operator, sig |-> sig, silent |-> FALSE] \in Timers
        BY MapDataAssumption DEF TypeOK, FiltersOK, Timers
    <2>1. timer # None => timer' # None
        BY <2>2, <2>3, MapDataAssumption
    <2> QED BY <1>8, <2>1, <1>q DEF SessionKnown, SignIn, areaVars
<1>9. ASSUME NEW box \in Boxes, Pan(box) PROVE LoadingMeansWork'
    BY <1>9, <1>u, <1>q DEF Pan, TypeOK, FiltersOK, areaVars, OrNone
<1>10. ASSUME NEW s \in OrNone(Signals), ChooseSignal(s) PROVE LoadingMeansWork'
    BY <1>10, <1>u, <1>q DEF ChooseSignal, FilterEffect, TypeOK, FiltersOK, areaVars
<1>11. ASSUME Next
       PROVE  \/ loading' = loading /\ UNCHANGED <<viewport, load, timer>>
              \/ TimerFires \/ ViewportAnswered \/ ViewportFails \/ ViewportRefused
              \/ AreaDetailArrives \/ AreaTilesArrive \/ AreaRefused \/ AreaFails
              \/ AreaTooLarge \/ SignOut \/ Poll \/ ToggleLive
              \/ \E o \in OrNone(Operators) : ChooseOperator(o)
              \/ \E a \in OrNone(Areas) : ChooseArea(a)
              \/ \E s \in OrNone(Signals) : ChooseSignal(s)
              \/ \E box \in Boxes : Pan(box)
              \/ \E r \in Roles : SessionKnown(r) \/ SignIn(r)
    BY <1>11 DEF Next, Answers, Failures, Reader, LayerArrives, LayerFails, PolledArrives,
                 PolledFails, ChooseBand, ChildrenArrive, ChildrenFail, OrphanSpeaks,
                 MineArrives, MineFails, SessionClosed, areaVars, request
<1> QED BY <1>1, <1>2, <1>3, <1>r, <1>4, <1>5, <1>6, <1>7, <1>8, <1>9, <1>10, <1>11, <1>q
        DEF vars, areaVars, request

\* What a reader's map waits for follows the filters.
LEMMA RequestStep ==
    TypeOK /\ SessionBoundsTheMap /\ RequestFollowsFilters /\ [Next]_vars
      => RequestFollowsFilters'
<1> SUFFICES ASSUME TypeOK, SessionBoundsTheMap, RequestFollowsFilters, [Next]_vars
             PROVE  RequestFollowsFilters'
    OBVIOUS
<1>t. ASSUME NEW box \in Boxes, NEW op \in OrNone(Operators), NEW sg \in OrNone(Signals),
             NEW silent \in BOOLEAN,
             timer' = TimerAfter(box, op, None, sg, silent, FALSE)
      PROVE  timer' # None /\ timer'.box = box /\ timer'.op = op /\ timer'.sig = sg
    <2>1. timer' = [box |-> box, op |-> op, sig |-> sg, silent |-> silent]
        BY <1>t, MapDataAssumption DEF TimerAfter
    <2>2. timer' \in Timers
        BY <2>1, <1>t DEF Timers
    <2> QED BY <2>1, <2>2, MapDataAssumption
<1>1. CASE TimerFires
    BY <1>1, TimerAsks DEF TimerFires, RequestFollowsFilters, IsReader, TypeOK, who, filters
<1>2. CASE ViewportAnswered \/ ViewportFails
    BY <1>2 DEF ViewportAnswered, ViewportFails, RequestFollowsFilters, IsReader, who, filters
<1>3. CASE ViewportRefused
    <2>1. viewport'.of = viewport.of
        BY <1>3 DEF ViewportRefused, TypeOK, RequestsOK, Viewports, OrNone
    <2> QED BY <1>3, <2>1 DEF ViewportRefused, RequestFollowsFilters, IsReader, who, filters
<1>q. CASE UNCHANGED <<who, operator, area, sig, request>>
    BY <1>q DEF who, request, RequestFollowsFilters, IsReader
<1>n. CASE ~IsReader' \/ area' # None
    BY <1>n DEF RequestFollowsFilters
<1>4. ASSUME NEW o \in OrNone(Operators), ChooseOperator(o), IsReader, area = None
      PROVE  RequestFollowsFilters'
    BY <1>4, <1>t DEF ChooseOperator, FilterEffect, IsReader, IsCollector, TypeOK, FiltersOK,
       SessionBoundsTheMap, RequestFollowsFilters, OrNone
<1>5. ASSUME NEW a \in OrNone(Areas), ChooseArea(a), a = None PROVE RequestFollowsFilters'
    BY <1>5, <1>t DEF ChooseArea, FilterEffect, IsReader, IsCollector, TypeOK, FiltersOK,
       SessionBoundsTheMap, RequestFollowsFilters, OrNone
<1>6. ASSUME NEW s \in OrNone(Signals), ChooseSignal(s), area = None
      PROVE  RequestFollowsFilters'
    BY <1>6, <1>t DEF ChooseSignal, FilterEffect, IsReader, IsCollector, TypeOK, FiltersOK,
       SessionBoundsTheMap, RequestFollowsFilters, OrNone
<1>7. ASSUME NEW box \in Boxes, Pan(box), IsReader, area = None PROVE RequestFollowsFilters'
    <2>1. timer' = TimerAfter(box, operator, None, sig, FALSE, FALSE)
        BY <1>7 DEF Pan, IsReader, IsCollector, TimerAfter
    <2>2. timer' # None /\ timer'.box = box /\ timer'.op = operator /\ timer'.sig = sig
        BY <2>1, <1>t DEF TypeOK, FiltersOK
    <2> QED BY <1>7, <2>2 DEF Pan, RequestFollowsFilters, filters
<1>8. ASSUME NEW r \in Roles, SessionKnown(r) \/ SignIn(r) PROVE RequestFollowsFilters'
    <2>1. area = None /\ session' = "open" /\ role' = r /\ UNCHANGED filters
          /\ timer' = TimerAfter(Home, operator, area, sig, FALSE, r = "collector")
          /\ lastBounds' = Home
        BY <1>8 DEF SessionKnown, SignIn, Opened, SessionBoundsTheMap
    <2>2. CASE r = "reader"
        <3>1. timer' = TimerAfter(Home, operator, None, sig, FALSE, FALSE)
            BY <2>1, <2>2 DEF TimerAfter
        <3>2. timer' # None /\ timer'.box = Home /\ timer'.op = operator /\ timer'.sig = sig
            BY <3>1, <1>t, MapDataAssumption DEF TypeOK, FiltersOK
        <3> QED BY <2>1, <3>2 DEF RequestFollowsFilters, filters
    <2>3. CASE r # "reader"
        BY <2>1, <2>3 DEF RequestFollowsFilters, IsReader
    <2> QED BY <2>2, <2>3
<1>9. CASE (Poll \/ ToggleLive) /\ IsReader /\ area = None
    BY <1>9, <1>t DEF Poll, ToggleLive, Refresh, IsReader, IsCollector, TypeOK, FiltersOK,
       SessionBoundsTheMap, RequestFollowsFilters, OrNone, filters, who
<1>10. ASSUME Next
       PROVE  \/ UNCHANGED <<who, operator, area, sig, request>> \/ ~IsReader' \/ area' # None
              \/ TimerFires \/ ViewportAnswered \/ ViewportFails \/ ViewportRefused
              \/ (Poll \/ ToggleLive) /\ IsReader /\ area = None
              \/ \E o \in OrNone(Operators) : ChooseOperator(o) /\ IsReader /\ area = None
              \/ \E a \in OrNone(Areas) : ChooseArea(a) /\ a = None
              \/ \E s \in OrNone(Signals) : ChooseSignal(s) /\ area = None
              \/ \E box \in Boxes : Pan(box) /\ IsReader /\ area = None
              \/ \E r \in Roles : SessionKnown(r) \/ SignIn(r)
    <2>1. \/ UNCHANGED <<who, operator, area, sig, request>>
          \/ TimerFires \/ ViewportAnswered \/ ViewportFails \/ ViewportRefused
          \/ Poll \/ ToggleLive \/ SessionClosed \/ SignOut
          \/ \E o \in OrNone(Operators) : ChooseOperator(o)
          \/ \E a \in OrNone(Areas) : ChooseArea(a)
          \/ \E s \in OrNone(Signals) : ChooseSignal(s)
          \/ \E box \in Boxes : Pan(box)
          \/ \E r \in Roles : SessionKnown(r) \/ SignIn(r)
        BY <1>10 DEF Next, Answers, Failures, Reader, LayerArrives, LayerFails, PolledArrives,
             PolledFails, ChildrenArrive, ChildrenFail, OrphanSpeaks, AreaDetailArrives,
             AreaTilesArrive, AreaRefused, AreaFails, AreaTooLarge, MineArrives, MineFails,
             ChooseBand, filters
    <2>2. (Poll \/ ToggleLive) => UNCHANGED <<who, area>>
        BY DEF Poll, ToggleLive, filters
    <2>3. SessionClosed \/ SignOut => ~IsReader'
        BY DEF SessionClosed, SignOut, IsReader
    <2>4. /\ \A o \in OrNone(Operators) : ChooseOperator(o) => UNCHANGED <<who, area>>
          /\ \A s \in OrNone(Signals) : ChooseSignal(s) => UNCHANGED <<who, area>>
          /\ \A box \in Boxes : Pan(box) => UNCHANGED <<who, area>>
          /\ \A a \in OrNone(Areas) : ChooseArea(a) => area' = a
        BY DEF ChooseOperator, ChooseSignal, Pan, ChooseArea, filters
    <2>5. UNCHANGED <<who, area>> => (IsReader /\ area = None) \/ ~IsReader' \/ area' # None
        BY DEF IsReader, who
    <2> QED BY <2>1, <2>2, <2>3, <2>4, <2>5
<1> QED BY <1>1, <1>2, <1>3, <1>q, <1>n, <1>4, <1>5, <1>6, <1>7, <1>8, <1>9, <1>10
        DEF vars, filters

\* What is stale on a reader's map is announced.
LEMMA StaleStep ==
    TypeOK /\ TypeOK' /\ Followed /\ RequestFollowsFilters' /\ [Next]_vars => StaleIsAnnounced'
<1> SUFFICES ASSUME TypeOK, TypeOK', Followed, RequestFollowsFilters', [Next]_vars
             PROVE  StaleIsAnnounced'
    OBVIOUS
<1> USE DEF Followed
<1>n. CASE ~IsReader' \/ timer' # None \/ viewport' # None \/ load' # None \/ error' \/ notice'
    BY <1>n DEF StaleIsAnnounced
<1> DEFINE chosen == <<operator, area, sig, refiltered>>
<1>q. CASE /\ UNCHANGED <<who, chosen, lastBounds, viewport, load, tiles, error, notice>>
           /\ timer # None => timer' # None
    BY <1>q DEF who, StaleIsAnnounced, TilesFit, OtherSignal, Shown, IsReader
<1>1. CASE TimerFires
    BY <1>1, <1>n, TimerAsks, MapDataAssumption DEF TypeOK
<1>2. CASE ViewportAnswered
    <2>1. viewport.of.kind = "view" /\ tiles' = viewport.of /\ timer' = timer
        BY <1>2 DEF ViewportAnswered, TypeOK, RequestsOK, OrNone, Viewports, Views, ViewOf, Query
    <2>2. UNCHANGED <<who, filters, lastBounds>>
        BY <1>2 DEF ViewportAnswered
    <2>3. viewport # None
        BY <1>2 DEF ViewportAnswered
    <2> QED BY <2>1, <2>2, <2>3
            DEF StaleIsAnnounced, TilesFit, Shown, IsReader, RequestFollowsFilters, who, filters
<1>3. CASE ViewportRefused
    <2>1. viewport' \in Viewports
        BY <1>3 DEF ViewportRefused, TypeOK, RequestsOK, Viewports, OrNone
    <2> QED BY <2>1, <1>n, MapDataAssumption
<1>4. CASE ViewportFails \/ AreaFails \/ AreaTooLarge
    BY <1>4 DEF ViewportFails, AreaFails, AreaTooLarge, StaleIsAnnounced
<1>5. CASE AreaDetailArrives \/ AreaRefused
    <2>1. load' \in Loads
        BY <1>5 DEF AreaDetailArrives, AreaRefused, TypeOK, RequestsOK, Loads, OrNone
    <2> QED BY <2>1, <1>n, MapDataAssumption
<1>6. CASE AreaTilesArrive
    <2>1. /\ area # None /\ load.area = area /\ load.op = operator
          /\ refiltered \/ load.sig = sig
          /\ load.sig \in OrNone(Signals)
        BY <1>6 DEF AreaTilesArrive, LoadIsTheSelection, TypeOK, RequestsOK, Loads, OrNone
    <2>2. tiles' = AreaOf(area, operator, load.sig) /\ UNCHANGED filters
        BY <1>6, <2>1 DEF AreaTilesArrive
    <2> QED BY <2>1, <2>2 DEF StaleIsAnnounced, TilesFit, OtherSignal, filters
<1>7. ASSUME NEW k \in orphans, OrphanSpeaks(k) PROVE StaleIsAnnounced'
    BY <1>7 DEF OrphanSpeaks, StaleIsAnnounced
<1>8. ASSUME NEW w \in mine, MineArrives(w) \/ MineFails(w) PROVE StaleIsAnnounced'
    BY <1>8 DEF MineArrives, MineFails, StaleIsAnnounced
<1>a. ASSUME NEW a \in OrNone(Areas), NEW op \in OrNone(Operators), NEW sg \in OrNone(Signals),
             AreaEffect(a, op, sg)
      PROVE  a # None => load' # None
    BY <1>a, MapDataAssumption DEF AreaEffect, Loads, OrNone
<1>t. ASSUME NEW box \in Boxes, NEW op \in OrNone(Operators), NEW sg \in OrNone(Signals),
             NEW silent \in BOOLEAN,
             timer' = TimerAfter(box, op, None, sg, silent, FALSE)
      PROVE  timer' # None
    <2>1. timer' = [box |-> box, op |-> op, sig |-> sg, silent |-> silent]
        BY <1>t, MapDataAssumption DEF TimerAfter
    <2>2. timer' \in Timers
        BY <2>1, <1>t DEF Timers
    <2> QED BY <2>2, MapDataAssumption
<1>9. ASSUME NEW o \in OrNone(Operators), ChooseOperator(o) PROVE StaleIsAnnounced'
    <2>1. CASE ~IsReader
        BY <1>9, <2>1, <1>n DEF ChooseOperator, IsReader, who
    <2>2. CASE IsReader /\ area = None
        BY <1>9, <2>2, <1>t, <1>n DEF ChooseOperator, FilterEffect, IsReader, IsCollector,
           TypeOK, FiltersOK, SessionBoundsTheMap, OrNone
    <2>3. CASE area # None
        BY <1>9, <2>3, <1>a, <1>n DEF ChooseOperator, TypeOK, FiltersOK
    <2> QED BY <2>1, <2>2, <2>3
<1>10. ASSUME NEW a \in OrNone(Areas), ChooseArea(a) PROVE StaleIsAnnounced'
    <2>1. CASE a = None
        BY <1>10, <2>1, <1>t, <1>n DEF ChooseArea, FilterEffect, IsReader, IsCollector,
           TypeOK, FiltersOK, SessionBoundsTheMap, OrNone
    <2>2. CASE a # None
        BY <1>10, <2>2, <1>a, <1>n DEF ChooseArea, TypeOK, FiltersOK
    <2> QED BY <2>1, <2>2
<1>11. ASSUME NEW s \in OrNone(Signals), ChooseSignal(s) PROVE StaleIsAnnounced'
    <2>1. CASE area = None
        BY <1>11, <2>1, <1>t, <1>n DEF ChooseSignal, FilterEffect, IsReader, IsCollector,
           TypeOK, FiltersOK, SessionBoundsTheMap, OrNone
    <2>2. CASE area # None
        <3>1. refiltered' /\ UNCHANGED <<who, operator, area, lastBounds, viewport, tiles, error>>
              /\ UNCHANGED <<load, notice, timer>>
            BY <1>11, <2>2 DEF ChooseSignal, FilterEffect, TimerAfter, areaVars
        <3>2. (TilesFit \/ OtherSignal) => OtherSignal'
            BY <3>1, <2>2 DEF TilesFit, OtherSignal, TypeOK, FiltersOK
        <3> QED BY <3>1, <3>2 DEF StaleIsAnnounced, Shown, IsReader, who
    <2> QED BY <2>1, <2>2
<1>12. ASSUME NEW box \in Boxes, Pan(box) PROVE StaleIsAnnounced'
    <2>1. CASE area = None /\ IsReader
        <3>1. timer' = TimerAfter(box, operator, None, sig, FALSE, FALSE)
            BY <1>12, <2>1 DEF Pan, IsReader, IsCollector, TimerAfter
        <3> QED BY <3>1, <1>t, <1>n DEF TypeOK, FiltersOK
    <2>2. CASE area # None
        BY <1>12, <2>2 DEF Pan, TimerAfter, areaVars, who, filters,
           StaleIsAnnounced, TilesFit, OtherSignal, Shown, IsReader
    <2>3. CASE ~IsReader
        BY <1>12, <2>3, <1>n DEF Pan, IsReader, who
    <2> QED BY <2>1, <2>2, <2>3
<1>13. CASE Poll \/ ToggleLive
    <2>1. \/ timer' = timer
          \/ timer' = TimerAfter(lastBounds, operator, area, sig, TRUE, FALSE)
        BY <1>13 DEF Poll, ToggleLive, Refresh
    <2>2. \/ timer' = timer
          \/ timer' = [box |-> lastBounds, op |-> operator, sig |-> sig, silent |-> TRUE]
             /\ lastBounds # None
        BY <2>1 DEF TimerAfter
    <2>3. lastBounds # None =>
             [box |-> lastBounds, op |-> operator, sig |-> sig, silent |-> TRUE] \in Timers
        BY DEF TypeOK, FiltersOK, Timers, OrNone
    <2>4. timer # None => timer' # None
        BY <2>2, <2>3, MapDataAssumption
    <2>5. UNCHANGED <<who, chosen, lastBounds, viewport, load, tiles, error, notice>>
        BY <1>13 DEF Poll, ToggleLive, filters, areaVars
    <2> QED BY <2>4, <2>5, <1>q
<1>14. ASSUME NEW r \in Roles, SessionKnown(r) \/ SignIn(r) PROVE StaleIsAnnounced'
    <2>1. area = None /\ role' = r
          /\ timer' = TimerAfter(Home, operator, area, sig, FALSE, r = "collector")
        BY <1>14 DEF SessionKnown, SignIn, Opened, SessionBoundsTheMap
    <2>2. CASE r = "reader"
        <3>1. timer' = TimerAfter(Home, operator, None, sig, FALSE, FALSE)
            BY <2>1, <2>2 DEF TimerAfter
        <3> QED BY <3>1, <1>t, <1>n, MapDataAssumption DEF TypeOK, FiltersOK
    <2>3. CASE r # "reader"
        BY <2>1, <2>3, <1>n DEF IsReader
    <2> QED BY <2>2, <2>3
<1>15. CASE SessionClosed \/ SignOut
    BY <1>15, <1>n DEF SessionClosed, SignOut, IsReader
<1>16. ASSUME Next
       PROVE  \/ UNCHANGED <<who, chosen, request, load, tiles, error, notice>>
              \/ TimerFires \/ ViewportAnswered \/ ViewportFails \/ ViewportRefused
              \/ AreaDetailArrives \/ AreaTilesArrive \/ AreaRefused \/ AreaFails
              \/ AreaTooLarge \/ SessionClosed \/ SignOut \/ Poll \/ ToggleLive
              \/ \E k \in orphans : OrphanSpeaks(k)
              \/ \E w \in mine : MineArrives(w) \/ MineFails(w)
              \/ \E o \in OrNone(Operators) : ChooseOperator(o)
              \/ \E a \in OrNone(Areas) : ChooseArea(a)
              \/ \E s \in OrNone(Signals) : ChooseSignal(s)
              \/ \E box \in Boxes : Pan(box)
              \/ \E r \in Roles : SessionKnown(r) \/ SignIn(r)
    BY <1>16 DEF Next, Answers, Failures, Reader, LayerArrives, LayerFails, PolledArrives,
                 PolledFails, ChooseBand, ChildrenArrive, ChildrenFail, filters, areaVars
<1> QED BY <1>q, <1>1, <1>2, <1>3, <1>4, <1>5, <1>6, <1>7, <1>8, <1>9, <1>10, <1>11, <1>12,
           <1>13, <1>14, <1>15, <1>16 DEF vars, filters, areaVars, request

\* Every step keeps the whole.
LEMMA HubStep == TypeOK /\ Followed /\ [Next]_vars => TypeOK' /\ Followed'
BY TypeStep, SessionStep, LoadStep, ClearedStep, BorderStep, LoadingStep, RequestStep,
   StaleStep DEF Followed

\* So every reachable state has it.
LEMMA HubHolds == Spec => [](TypeOK /\ Followed)
<1>1. Init => TypeOK /\ Followed
    BY TypeInit, FollowedInit
<1> QED BY <1>1, HubStep, PTL DEF Spec

-----------------------------------------------------------------------------

\* Whatever the order of clicks, answers, timers and polls (App.tsx 150-259,
\* 308-326): the values have their types, the spinner has a cause, nothing is
\* left of an area that was given up, the border is the selection's or the
\* screen says why not, and what is under way is for the current filters.
THEOREM HubIsSound == Spec => []MapDataInv
<1>1. TypeOK /\ Followed => MapDataInv
    BY DEF MapDataInv, Followed
<1> QED BY <1>1, HubHolds, PTL

\* A reader never looks at hexagons of other filters with nothing on its way
\* and nothing on the screen that says so (App.tsx 150-259), but in three
\* cases: an answer for the viewport over a chosen area, a collector's answer
\* after a sign-out, and a signal state changed while an area is chosen.
THEOREM StaleIsNeverSilent == Spec => []StaleIsAnnounced
<1>1. TypeOK /\ Followed => StaleIsAnnounced
    BY DEF Followed
<1> QED BY <1>1, HubHolds, PTL

-----------------------------------------------------------------------------
(* The map: its stack of layers *)

\* The layers of addLayers and of the two styles, as sets.
Grounds == {"areas-fill", "areas-line", "areas-point", "coverage-fill", "coverage-outline",
            "coverage-outline-predicted", "area-mask", "area-border",
            "area-border-approximate"}
Things  == {"collector-link-lines", "collector-link-labels", "weak-area-outline",
            "weak-area-rank", "observed-cell-pulse", "observed-cell-halo",
            "observed-cell-points", "collector-points", "collector-count"}
Styles  == {"land", "names", "buildings", "background"}
Drawn == Grounds \cup Things \cup Styles \cup {Satellite}

\* What a position of two sequences in a row holds.
LEMMA InARow ==
  ASSUME NEW S, NEW s \in Seq(S), NEW t \in Seq(S)
  PROVE  /\ s \o t \in Seq(S) /\ Len(s \o t) = Len(s) + Len(t)
         /\ \A i \in 1..Len(s) : (s \o t)[i] = s[i]
         /\ \A i \in 1..Len(t) : (s \o t)[Len(s) + i] = t[i]
OBVIOUS

\* The halves of two sequences in a row.
LEMMA Halves ==
  ASSUME NEW S, NEW s \in Seq(S), NEW t \in Seq(S)
  PROVE  /\ SubSeq(s \o t, 1, Len(s)) = s
         /\ SubSeq(s \o t, Len(s) + 1, Len(s) + Len(t)) = t
<1>1. SubSeq(s \o t, 1, Len(s)) = s
  OBVIOUS
<1>2. SubSeq(s \o t, Len(s) + 1, Len(s) + Len(t)) = t
  OBVIOUS
<1> QED BY <1>1, <1>2

\* What addLayers puts on the ground, bottom first.
LEMMA GroundLayers ==
  /\ Ground \in Seq(Drawn) /\ Len(Ground) = 9
  /\ Ground[1] = "areas-fill" /\ Ground[2] = "areas-line" /\ Ground[3] = "areas-point"
  /\ Ground[4] = "coverage-fill" /\ Ground[5] = "coverage-outline"
  /\ Ground[6] = "coverage-outline-predicted"
  /\ Ground[7] = "area-mask" /\ Ground[8] = "area-border"
  /\ Ground[9] = "area-border-approximate"
<1>1. AreaLayers \in Seq(Drawn) /\ Len(AreaLayers) = 3
  BY DEF AreaLayers, Drawn, Grounds
<1>2. CoverageLayers \in Seq(Drawn) /\ Len(CoverageLayers) = 3
  BY DEF CoverageLayers, Drawn, Grounds
<1>3. SelectionLayers \in Seq(Drawn) /\ Len(SelectionLayers) = 3
  BY DEF SelectionLayers, Drawn, Grounds
<1> DEFINE two == AreaLayers \o CoverageLayers
<1>4. /\ two \in Seq(Drawn) /\ Len(two) = Len(AreaLayers) + Len(CoverageLayers)
      /\ \A i \in 1..Len(AreaLayers) : two[i] = AreaLayers[i]
      /\ \A i \in 1..Len(CoverageLayers) : two[Len(AreaLayers) + i] = CoverageLayers[i]
  <2>1. AreaLayers \in Seq(Drawn) /\ CoverageLayers \in Seq(Drawn)
    BY <1>1, <1>2
  <2> QED BY <2>1, InARow
<1> HIDE DEF two
<1>5. /\ two[1] = AreaLayers[1] /\ two[2] = AreaLayers[2] /\ two[3] = AreaLayers[3]
      /\ two[4] = CoverageLayers[1] /\ two[5] = CoverageLayers[2] /\ two[6] = CoverageLayers[3]
      /\ Len(two) = 6
  <2>1. two[3 + 1] = CoverageLayers[1] /\ two[3 + 2] = CoverageLayers[2]
        /\ two[3 + 3] = CoverageLayers[3]
    BY <1>1, <1>2, <1>4
  <2> QED BY <1>1, <1>2, <1>4, <2>1
<1> DEFINE all == two \o SelectionLayers
<1>6. /\ all \in Seq(Drawn) /\ Len(all) = Len(two) + Len(SelectionLayers)
      /\ \A i \in 1..Len(two) : all[i] = two[i]
      /\ \A i \in 1..Len(SelectionLayers) : all[Len(two) + i] = SelectionLayers[i]
  <2>1. two \in Seq(Drawn) /\ SelectionLayers \in Seq(Drawn)
    BY <1>3, <1>4
  <2> QED BY <2>1, InARow
<1>7. Ground = all
  BY DEF Ground, two
<1> HIDE DEF all
<1>8. /\ all[1] = two[1] /\ all[2] = two[2] /\ all[3] = two[3]
      /\ all[4] = two[4] /\ all[5] = two[5] /\ all[6] = two[6]
      /\ all[7] = SelectionLayers[1] /\ all[8] = SelectionLayers[2]
      /\ all[9] = SelectionLayers[3] /\ Len(all) = 9
  <2>1. all[6 + 1] = SelectionLayers[1] /\ all[6 + 2] = SelectionLayers[2]
        /\ all[6 + 3] = SelectionLayers[3]
    BY <1>3, <1>5, <1>6
  <2> QED BY <1>3, <1>5, <1>6, <2>1
<1> QED BY <1>5, <1>6, <1>7, <1>8 DEF AreaLayers, CoverageLayers, SelectionLayers

\* The things in the world, bottom first.
LEMMA ObjectLayers ==
  /\ Objects \in Seq(Drawn) /\ Len(Objects) = 9
  /\ Objects[1] = "collector-link-lines" /\ Objects[2] = "collector-link-labels"
  /\ Objects[3] = "weak-area-outline" /\ Objects[4] = "weak-area-rank"
  /\ Objects[5] = "observed-cell-pulse" /\ Objects[6] = "observed-cell-halo"
  /\ Objects[7] = "observed-cell-points"
  /\ Objects[8] = "collector-points" /\ Objects[9] = "collector-count"
<1>1. LinkLayers \in Seq(Drawn) /\ Len(LinkLayers) = 2
  BY DEF LinkLayers, Drawn, Things
<1>2. WeakMarks \in Seq(Drawn) /\ Len(WeakMarks) = 2
  BY DEF WeakMarks, Drawn, Things
<1>3. CellLayers \in Seq(Drawn) /\ Len(CellLayers) = 3
  BY DEF CellLayers, Drawn, Things
<1>4. CollectorLayers \in Seq(Drawn) /\ Len(CollectorLayers) = 2
  BY DEF CollectorLayers, Drawn, Things
<1> DEFINE two == LinkLayers \o WeakMarks
           three == two \o CellLayers
           all == three \o CollectorLayers
<1>5. /\ two \in Seq(Drawn) /\ Len(two) = Len(LinkLayers) + Len(WeakMarks)
      /\ \A i \in 1..Len(LinkLayers) : two[i] = LinkLayers[i]
      /\ \A i \in 1..Len(WeakMarks) : two[Len(LinkLayers) + i] = WeakMarks[i]
  <2>1. LinkLayers \in Seq(Drawn) /\ WeakMarks \in Seq(Drawn)
    BY <1>1, <1>2
  <2> QED BY <2>1, InARow
<1>6. Objects = all
  BY DEF Objects
<1> HIDE DEF two
<1>7. /\ three \in Seq(Drawn) /\ Len(three) = Len(two) + Len(CellLayers)
      /\ \A i \in 1..Len(two) : three[i] = two[i]
      /\ \A i \in 1..Len(CellLayers) : three[Len(two) + i] = CellLayers[i]
  <2>1. two \in Seq(Drawn) /\ CellLayers \in Seq(Drawn)
    BY <1>3, <1>5
  <2> QED BY <2>1, InARow
<1> HIDE DEF three
<1>8. /\ all \in Seq(Drawn) /\ Len(all) = Len(three) + Len(CollectorLayers)
      /\ \A i \in 1..Len(three) : all[i] = three[i]
      /\ \A i \in 1..Len(CollectorLayers) : all[Len(three) + i] = CollectorLayers[i]
  <2>1. three \in Seq(Drawn) /\ CollectorLayers \in Seq(Drawn)
    BY <1>4, <1>7
  <2> QED BY <2>1, InARow
<1> HIDE DEF all
<1>9. /\ Len(two) = 4 /\ two[1] = LinkLayers[1] /\ two[2] = LinkLayers[2]
      /\ two[3] = WeakMarks[1] /\ two[4] = WeakMarks[2]
  <2>1. two[2 + 1] = WeakMarks[1] /\ two[2 + 2] = WeakMarks[2]
    BY <1>1, <1>2, <1>5
  <2> QED BY <1>1, <1>2, <1>5, <2>1
<1>10. /\ Len(three) = 7 /\ three[1] = two[1] /\ three[2] = two[2]
       /\ three[3] = two[3] /\ three[4] = two[4]
       /\ three[5] = CellLayers[1] /\ three[6] = CellLayers[2] /\ three[7] = CellLayers[3]
  <2>1. three[4 + 1] = CellLayers[1] /\ three[4 + 2] = CellLayers[2]
        /\ three[4 + 3] = CellLayers[3]
    BY <1>3, <1>7, <1>9
  <2> QED BY <1>3, <1>7, <1>9, <2>1
<1>11. /\ Len(all) = 9 /\ all[1] = three[1] /\ all[2] = three[2] /\ all[3] = three[3]
       /\ all[4] = three[4] /\ all[5] = three[5] /\ all[6] = three[6] /\ all[7] = three[7]
       /\ all[8] = CollectorLayers[1] /\ all[9] = CollectorLayers[2]
  <2>1. all[7 + 1] = CollectorLayers[1] /\ all[7 + 2] = CollectorLayers[2]
    BY <1>4, <1>8, <1>10
  <2> QED BY <1>4, <1>8, <1>10, <2>1
<1> QED BY <1>6, <1>8, <1>9, <1>10, <1>11
        DEF LinkLayers, WeakMarks, CellLayers, CollectorLayers

\* What the streets style ends in, and what holds no label.
EndsInNames(s) == Len(s) = 2 /\ s[1] = "names"
Nameless(s) == \A i \in 1..Len(s) : s[i] # "names"

\* Under the first label, of which the streets style has one.
LEMMA UnderTheNames ==
  \A below, new, two \in Seq(Drawn) :
     EndsInNames(two) /\ Nameless(below)
       => UnderLabels(below \o two, new) = (below \o new) \o two
<1> SUFFICES ASSUME NEW below \in Seq(Drawn), NEW new \in Seq(Drawn), NEW two \in Seq(Drawn),
                    EndsInNames(two), Nameless(below)
             PROVE  UnderLabels(below \o two, new) = (below \o new) \o two
  OBVIOUS
<1> USE DEF EndsInNames, Nameless
<1> DEFINE s == below \o two
           n == Len(below)
<1>1. /\ s \in Seq(Drawn) /\ Len(s) = n + Len(two)
      /\ \A i \in 1..n : s[i] = below[i]
      /\ \A i \in 1..Len(two) : s[n + i] = two[i]
  BY InARow
<1>2. SubSeq(s, 1, n) = below /\ SubSeq(s, n + 1, n + Len(two)) = two
  BY Halves
<1>3. n \in Nat
  OBVIOUS
<1> HIDE DEF s
<1>4. FirstLabel(s) = n + 1
  <2> HIDE DEF n
  <2>1. DOMAIN s = 1..(n + 2) /\ s[n + 1] = "names"
    BY <1>1, <1>3
  <2>2. \A i \in DOMAIN s : s[i] \in Labels /\ (\A j \in 1..(i - 1) : s[j] \notin Labels)
                              <=> i = n + 1
    <3>1. \A j \in 1..n : s[j] \notin Labels
      BY <1>1 DEF Labels, n
    <3>2. s[n + 1] \in Labels
      BY <2>1 DEF Labels
    <3>3. ASSUME NEW i \in DOMAIN s, s[i] \in Labels, \A j \in 1..(i - 1) : s[j] \notin Labels
          PROVE  i = n + 1
      <4>1. i \in Int /\ ~(i <= n) /\ 1 <= i
        BY <1>3, <2>1, <3>1, <3>3
      <4>2. ~(n + 1 <= i - 1)
        BY <1>3, <2>1, <3>2, <3>3, <4>1
      <4> QED BY <1>3, <4>1, <4>2
    <3> QED BY <1>3, <2>1, <3>1, <3>2, <3>3
  <2>3. SetOf(s) \cap Labels # {}
    BY <1>3, <2>1 DEF SetOf, Labels
  <2> QED BY <1>3, <2>1, <2>2, <2>3, SMTT(30) DEF FirstLabel
<1>5. Len(s) = n + 2 /\ SubSeq(s, n + 1, n + 2) = two
  BY <1>1, <1>2
<1>6. InsertAt(s, n + 1, new) = (SubSeq(s, 1, n) \o new) \o SubSeq(s, n + 1, n + 2)
  <2>1. (n + 1) - 1 = n
    BY <1>3
  <2> QED BY <1>5, <2>1 DEF InsertAt
<1> QED BY <1>2, <1>4, <1>5, <1>6 DEF UnderLabels, s

\* And on top where there is none.
LEMMA OnTop ==
  ASSUME NEW S, NEW below \in Seq(S), NEW new \in Seq(S),
         \A i \in 1..Len(below) : below[i] # "names"
  PROVE  UnderLabels(below, new) = below \o new
<1> DEFINE n == Len(below)
<1>1. SetOf(below) \cap Labels = {}
  BY DEF SetOf, Labels
<1>2. FirstLabel(below) = n + 1
  BY <1>1 DEF FirstLabel
<1>3. SubSeq(below, 1, n) = below /\ SubSeq(below, n + 1, n) = << >> /\ n \in Nat
  OBVIOUS
<1>4. (below \o new) \o << >> = below \o new
  OBVIOUS
<1>5. (n + 1) - 1 = n
  BY <1>3
<1>6. InsertAt(below, n + 1, new) = below \o new
  BY <1>3, <1>4, <1>5 DEF InsertAt
<1> QED BY <1>2, <1>6 DEF UnderLabels

\* A sequence is the values at its positions.
LEMMA Same ==
  ASSUME NEW S, NEW s \in Seq(S), NEW t \in Seq(S), NEW n \in Nat,
         Len(s) = n, Len(t) = n, \A i \in 1..n : s[i] = t[i]
  PROVE  s = t
OBVIOUS

\* Short sequences, one after the other.
LEMMA Pair ==
  ASSUME NEW S, NEW a \in S, NEW b \in S
  PROVE  <<a>> \o <<b>> = <<a, b>>
<1> DEFINE s == <<a>>
           t == <<b>>
           u == s \o t
           v == <<a, b>>
<1>1. /\ s \in Seq(S) /\ Len(s) = 1 /\ s[1] = a
      /\ t \in Seq(S) /\ Len(t) = 1 /\ t[1] = b
      /\ v \in Seq(S) /\ Len(v) = 2 /\ v[1] = a /\ v[2] = b
  OBVIOUS
<1> HIDE DEF s, t, v
<1>2. /\ u \in Seq(S) /\ Len(u) = Len(s) + Len(t)
      /\ \A i \in 1..Len(s) : u[i] = s[i]
      /\ \A i \in 1..Len(t) : u[Len(s) + i] = t[i]
  <2>1. s \in Seq(S) /\ t \in Seq(S)
    BY <1>1
  <2> QED BY <2>1, InARow
<1> HIDE DEF u
<1>3. Len(u) = 2 /\ u[1] = a /\ u[1 + 1] = b
  BY <1>1, <1>2
<1>4. u = v
  BY <1>1, <1>2, <1>3, Same
<1> QED BY <1>4 DEF s, t, u, v

LEMMA Triple ==
  ASSUME NEW S, NEW a \in S, NEW b \in S, NEW c \in S
  PROVE  <<a>> \o <<b, c>> = <<a, b, c>>
<1> DEFINE s == <<a>>
           t == <<b, c>>
           u == s \o t
           v == <<a, b, c>>
<1>1. /\ s \in Seq(S) /\ Len(s) = 1 /\ s[1] = a
      /\ t \in Seq(S) /\ Len(t) = 2 /\ t[1] = b /\ t[2] = c
      /\ v \in Seq(S) /\ Len(v) = 3 /\ v[1] = a /\ v[2] = b /\ v[3] = c
  OBVIOUS
<1> HIDE DEF s, t, v
<1>2. /\ u \in Seq(S) /\ Len(u) = Len(s) + Len(t)
      /\ \A i \in 1..Len(s) : u[i] = s[i]
      /\ \A i \in 1..Len(t) : u[Len(s) + i] = t[i]
  <2>1. s \in Seq(S) /\ t \in Seq(S)
    BY <1>1
  <2> QED BY <2>1, InARow
<1> HIDE DEF u
<1>3. Len(u) = 3 /\ u[1] = a /\ u[1 + 1] = b /\ u[1 + 2] = c
  BY <1>1, <1>2
<1>4. u = v
  BY <1>1, <1>2, <1>3, Same
<1> QED BY <1>4 DEF s, t, u, v

\* The ground of a style with the imagery and addLayers' ground over it.
LEMMA Imaged ==
  ASSUME NEW first \in Drawn, first # "names"
  PROVE  /\ <<first>> \in Seq(Drawn) /\ <<Satellite>> \in Seq(Drawn)
         /\ <<first>> \o <<Satellite>> \in Seq(Drawn)
         /\ Len(<<first>>) = 1 /\ Len(<<first>> \o <<Satellite>>) = 2
         /\ \A i \in 1..1 : <<first>>[i] # "names"
         /\ \A i \in 1..2 : (<<first>> \o <<Satellite>>)[i] # "names"
         /\ (<<first>> \o <<Satellite>>)[1] = first
         /\ (<<first>> \o <<Satellite>>)[2] = Satellite
<1>1. Satellite \in Drawn /\ Satellite # "names"
  BY DEF Drawn, Satellite
<1>2. <<first>> \in Seq(Drawn) /\ <<Satellite>> \in Seq(Drawn)
  BY <1>1
<1>3. <<first>> \o <<Satellite>> = <<first, Satellite>>
  BY <1>1, Pair
<1>4. <<first, Satellite>> \in Seq(Drawn)
  BY <1>1
<1> QED BY <1>1, <1>2, <1>3, <1>4

\* Where the imagery and the ground layers of addLayers are in a stack, and
\* where the objects begin.
GroundAt(s) ==
    /\ s[2] = Satellite
    /\ s[3] = "areas-fill" /\ s[4] = "areas-line" /\ s[5] = "areas-point"
    /\ s[6] = "coverage-fill" /\ s[7] = "coverage-outline"
    /\ s[8] = "coverage-outline-predicted"
    /\ s[9] = "area-mask" /\ s[10] = "area-border" /\ s[11] = "area-border-approximate"

Layered(s, n, objects) ==
    /\ s \in Seq(Drawn) /\ Len(s) = n
    /\ GroundAt(s)
    /\ \A i \in 1..9 : s[objects + i] = Objects[i]

\* The stack over the fallback style, which has no names.
LEMMA FallbackStack ==
  Layered(Stacked(StyleLayers("plain")), 20, 11)
    /\ Stacked(StyleLayers("plain"))[1] = "background"
<1> DEFINE first == <<"background">>
           low   == first \o <<Satellite>>
           mid   == low \o Ground
           s     == mid \o Objects
<1>1. "background" \in Drawn /\ "background" # "names"
  BY DEF Drawn, Styles
<1>2. /\ first \in Seq(Drawn) /\ <<Satellite>> \in Seq(Drawn) /\ low \in Seq(Drawn)
      /\ Len(first) = 1 /\ Len(low) = 2
      /\ \A i \in 1..1 : first[i] # "names"
      /\ \A i \in 1..2 : low[i] # "names"
      /\ low[1] = "background" /\ low[2] = Satellite
  BY <1>1, Imaged
<1>3. StyleLayers("plain") = first
  BY DEF StyleLayers
<1> HIDE DEF first
<1>4. UnderLabels(first, <<Satellite>>) = low
  BY <1>2, OnTop
<1> HIDE DEF low
<1>5. Ground \in Seq(Drawn) /\ Objects \in Seq(Drawn)
  BY GroundLayers, ObjectLayers
<1>6. UnderLabels(low, Ground) = mid
  BY <1>2, <1>5, OnTop
<1>7. Stacked(StyleLayers("plain")) = s
  BY <1>3, <1>4, <1>6 DEF Stacked
<1>8. /\ mid \in Seq(Drawn) /\ Len(mid) = Len(low) + Len(Ground)
      /\ \A i \in 1..Len(low) : mid[i] = low[i]
      /\ \A i \in 1..Len(Ground) : mid[Len(low) + i] = Ground[i]
  <2>1. low \in Seq(Drawn)
    BY <1>2
  <2> QED BY <1>5, <2>1, InARow
<1> HIDE DEF mid
<1>9. /\ s \in Seq(Drawn) /\ Len(s) = Len(mid) + Len(Objects)
      /\ \A i \in 1..Len(mid) : s[i] = mid[i]
      /\ \A i \in 1..Len(Objects) : s[Len(mid) + i] = Objects[i]
  <2>1. mid \in Seq(Drawn)
    BY <1>8
  <2> QED BY <1>5, <2>1, InARow
<1> HIDE DEF s
<1>10. Len(Ground) = 9 /\ Len(Objects) = 9
  BY GroundLayers, ObjectLayers
<1>11. Len(mid) = 11 /\ Len(s) = 20
  BY <1>2, <1>8, <1>9, <1>10
<1>12. /\ \A i \in 1..2 : mid[i] = low[i]
       /\ \A i \in 1..9 : mid[2 + i] = Ground[i]
       /\ \A i \in 1..11 : s[i] = mid[i]
       /\ \A i \in 1..9 : s[11 + i] = Objects[i]
  BY <1>2, <1>8, <1>9, <1>10, <1>11
<1>13. s[1] = "background" /\ s[2] = Satellite
  BY <1>2, <1>12
<1>14. \A i \in 1..9 : s[2 + i] = Ground[i]
  BY <1>12
<1>15. GroundAt(s)
  <2>1. /\ s[2 + 1] = Ground[1] /\ s[2 + 2] = Ground[2] /\ s[2 + 3] = Ground[3]
        /\ s[2 + 4] = Ground[4] /\ s[2 + 5] = Ground[5] /\ s[2 + 6] = Ground[6]
        /\ s[2 + 7] = Ground[7] /\ s[2 + 8] = Ground[8] /\ s[2 + 9] = Ground[9]
    BY <1>14
  <2> QED BY <1>13, <2>1, GroundLayers DEF GroundAt
<1>16. Layered(s, 20, 11)
  BY <1>9, <1>11, <1>12, <1>15 DEF Layered
<1> QED BY <1>7, <1>13, <1>16

\* The stack over the streets: the names and the buildings are between the
\* ground and the things.
LEMMA StreetsStack ==
  /\ Layered(Stacked(StyleLayers("streets")), 22, 13)
  /\ Stacked(StyleLayers("streets"))[1] = "land"
  /\ Stacked(StyleLayers("streets"))[12] = "names"
  /\ Stacked(StyleLayers("streets"))[13] = "buildings"
<1> DEFINE first == <<"land">>
           two   == <<"names", "buildings">>
           low   == first \o <<Satellite>>
           mid   == low \o Ground
           high  == mid \o two
           s     == high \o Objects
<1>1. "land" \in Drawn /\ "land" # "names"
  BY DEF Drawn, Styles
<1>2. /\ first \in Seq(Drawn) /\ <<Satellite>> \in Seq(Drawn) /\ low \in Seq(Drawn)
      /\ Len(first) = 1 /\ Len(low) = 2
      /\ \A i \in 1..1 : first[i] # "names"
      /\ \A i \in 1..2 : low[i] # "names"
      /\ low[1] = "land" /\ low[2] = Satellite
  BY <1>1, Imaged
<1>3. two \in Seq(Drawn) /\ Len(two) = 2 /\ two[1] = "names" /\ two[2] = "buildings"
  <2>1. "names" \in Drawn /\ "buildings" \in Drawn
    BY DEF Drawn, Styles
  <2>2. <<"names", "buildings">> \in Seq(Drawn)
    BY <2>1
  <2> QED BY <2>2
<1>4. StyleLayers("streets") = first \o two
  <2>1. StyleLayers("streets") = <<"land", "names", "buildings">>
    BY DEF StyleLayers
  <2>2. "land" \in Drawn /\ "names" \in Drawn /\ "buildings" \in Drawn
    BY DEF Drawn, Styles
  <2>3. <<"land">> \o <<"names", "buildings">> = <<"land", "names", "buildings">>
    BY <2>2, Triple, Zenon
  <2> QED BY <2>1, <2>3
<1> HIDE DEF first, two
<1>5. UnderLabels(first \o two, <<Satellite>>) = low \o two
  <2>1. /\ first \in Seq(Drawn) /\ <<Satellite>> \in Seq(Drawn) /\ two \in Seq(Drawn)
        /\ EndsInNames(two) /\ Nameless(first)
    BY <1>2, <1>3 DEF EndsInNames, Nameless
  <2> QED BY <2>1, UnderTheNames
<1> HIDE DEF low
<1>6. Ground \in Seq(Drawn) /\ Objects \in Seq(Drawn)
  BY GroundLayers, ObjectLayers
<1>7. UnderLabels(low \o two, Ground) = high
  <2>1. /\ low \in Seq(Drawn) /\ Ground \in Seq(Drawn) /\ two \in Seq(Drawn)
        /\ EndsInNames(two) /\ Nameless(low)
    BY <1>2, <1>3, <1>6 DEF EndsInNames, Nameless
  <2> QED BY <2>1, UnderTheNames
<1>8. Stacked(StyleLayers("streets")) = s
  BY <1>4, <1>5, <1>7 DEF Stacked
<1>9. /\ mid \in Seq(Drawn) /\ Len(mid) = Len(low) + Len(Ground)
      /\ \A i \in 1..Len(low) : mid[i] = low[i]
      /\ \A i \in 1..Len(Ground) : mid[Len(low) + i] = Ground[i]
  <2>1. low \in Seq(Drawn)
    BY <1>2
  <2> QED BY <1>6, <2>1, InARow
<1> HIDE DEF mid
<1>10. /\ high \in Seq(Drawn) /\ Len(high) = Len(mid) + Len(two)
       /\ \A i \in 1..Len(mid) : high[i] = mid[i]
       /\ \A i \in 1..Len(two) : high[Len(mid) + i] = two[i]
  <2>1. mid \in Seq(Drawn) /\ two \in Seq(Drawn)
    BY <1>3, <1>9
  <2> QED BY <2>1, InARow
<1> HIDE DEF high
<1>11. /\ s \in Seq(Drawn) /\ Len(s) = Len(high) + Len(Objects)
       /\ \A i \in 1..Len(high) : s[i] = high[i]
       /\ \A i \in 1..Len(Objects) : s[Len(high) + i] = Objects[i]
  <2>1. high \in Seq(Drawn)
    BY <1>10
  <2> QED BY <1>6, <2>1, InARow
<1> HIDE DEF s
<1>12. Len(Ground) = 9 /\ Len(Objects) = 9
  BY GroundLayers, ObjectLayers
<1>13. Len(mid) = 11 /\ Len(high) = 13 /\ Len(s) = 22
  BY <1>2, <1>3, <1>9, <1>10, <1>11, <1>12
<1>14. /\ \A i \in 1..2 : mid[i] = low[i]
       /\ \A i \in 1..9 : mid[2 + i] = Ground[i]
  BY <1>2, <1>9, <1>12
<1>15. /\ \A i \in 1..11 : high[i] = mid[i]
       /\ \A i \in 1..2 : high[11 + i] = two[i]
       /\ \A i \in 1..13 : s[i] = high[i]
       /\ \A i \in 1..9 : s[13 + i] = Objects[i]
  BY <1>3, <1>10, <1>11, <1>12, <1>13
<1>16. s[1] = "land" /\ s[2] = Satellite /\ s[12] = "names" /\ s[13] = "buildings"
  <2>1. high[11 + 1] = "names" /\ high[11 + 2] = "buildings"
    BY <1>3, <1>15
  <2> QED BY <1>2, <1>14, <1>15, <2>1, SMTT(30)
<1>17. \A i \in 1..9 : s[2 + i] = Ground[i]
  BY <1>14, <1>15
<1>18. GroundAt(s)
  <2>1. /\ s[2 + 1] = Ground[1] /\ s[2 + 2] = Ground[2] /\ s[2 + 3] = Ground[3]
        /\ s[2 + 4] = Ground[4] /\ s[2 + 5] = Ground[5] /\ s[2 + 6] = Ground[6]
        /\ s[2 + 7] = Ground[7] /\ s[2 + 8] = Ground[8] /\ s[2 + 9] = Ground[9]
    BY <1>17
  <2> QED BY <1>16, <2>1, GroundLayers DEF GroundAt
<1>19. s \in Seq(Drawn) /\ Len(s) = 22
  BY <1>11, <1>13
<1>20. Layered(s, 22, 13)
  BY <1>15, <1>18, <1>19 DEF Layered
<1> QED BY <1>8, <1>16, <1>20

-----------------------------------------------------------------------------
(* The map: its invariant *)

\* What the types say of the choices and the data, of the camera and of the
\* pointer.
DataTyped ==
    /\ mounted \in BOOLEAN
    /\ style \in {"fetching", "fallback", "streets", "plain"}
    /\ prop \in [Sources -> Values] /\ ref \in [Sources -> Values]
    /\ source \in [Sources -> OrAbsent(Values)]
    /\ pending \subseteq Sources
ChoicesTyped ==
    /\ basemap \in {"streets", "satellite"} /\ terrain \in BOOLEAN /\ marks \in BOOLEAN
    /\ relief \in BOOLEAN
    /\ fitted \in BOOLEAN /\ summary \in BOOLEAN
    /\ moves \in 0..MaxMoves
CameraTyped ==
    /\ link \in OrAbsent(Places) /\ camera \in Places
    /\ tilt \in {"flat", "tilted", "between"}
    /\ motion \in OrAbsent(Motions)
    /\ flyTo \in OrAbsent(Places) /\ fitTo \in OrAbsent(Places)
    /\ hash \in OrAbsent(Places) /\ reported \in OrAbsent(Clamped)
BeatTyped == beat \in [Animations -> Nat] /\ \A a \in Animations : beat[a] < Frames(a)
PointerTyped == over \subseteq Hovered /\ popups \subseteq Popups /\ cursor \in BOOLEAN
LayersTyped == hidden \subseteq SetOf(stack) /\ adopted \subseteq SetOf(stack)

\* Together they are the type invariant.
LEMMA TypesInParts ==
  MapViewTypeOK <=> /\ DataTyped /\ ChoicesTyped /\ CameraTyped
                    /\ BeatTyped /\ PointerTyped /\ LayersTyped
BY DEF MapViewTypeOK, DataTyped, ChoicesTyped, CameraTyped, BeatTyped, PointerTyped, LayersTyped

\* What a style brings and the toggles may hide of it.
Hideable(s) == {Satellite} \cup (Adopt(StyleLayers(s)) \ Labels) \cup WeakLayers
Arranged ==
    /\ mounted \/ style = "fetching"
    /\ style \in {"streets", "plain"} =>
         /\ stack = Stacked(StyleLayers(style)) /\ adopted = Adopt(StyleLayers(style))
         /\ hidden \subseteq Hideable(style)
    /\ style \in {"fetching", "fallback"} => stack = <<>> /\ adopted = {} /\ hidden = {}

\* What a ref remembers while an effect is due, and what is drawn when none is.
Remembered ==
    mounted => \A s \in Sources :
        /\ s \notin pending \cap LateRefs => ref[s] = prop[s]
        /\ Ready /\ s \notin pending => source[s] = prop[s]

ReportedHere == mounted /\ motion = Absent => reported = ClampBounds(camera)

\* What is typed, and the address bar, which the camera moves.
Steered ==
    DataTyped /\ ChoicesTyped /\ CameraTyped /\ PointerTyped /\ HashIsWhereItIs

\* Every action keeps it.
LEMMA SteeredStep == Steered /\ [MapViewNext]_mapVars => Steered'
<1> SUFFICES ASSUME Steered, [MapViewNext]_mapVars
             PROVE  Steered'
  OBVIOUS
<1> USE MapViewAssumption
    DEF Steered, DataTyped, ChoicesTyped, CameraTyped, PointerTyped, HashIsWhereItIs,
        told, toggles, layers, view, targets, pointer, OrAbsent, Motions, Tilts, Clamped,
        Acting, Opening, StoppedAt, StoppedTilt, Rest, Move, Tilt
<1>1. CASE Mount
  BY <1>1 DEF Mount
<1>2. CASE Unmount
  <2>1. DataTyped' /\ CameraTyped' /\ PointerTyped' /\ HashIsWhereItIs'
    BY <1>2 DEF Unmount
  <2>2. moves' \in 0..MaxMoves
    BY <1>2 DEF Unmount
  <2>3. /\ basemap' \in {"streets", "satellite"} /\ terrain' \in BOOLEAN
        /\ marks' \in BOOLEAN /\ relief' \in BOOLEAN
        /\ fitted' \in BOOLEAN /\ summary' \in BOOLEAN
    BY <1>2, Zenon DEF Unmount
  <2> QED BY <2>1, <2>2, <2>3
<1>3. CASE UseFallback
  BY <1>3 DEF UseFallback
<1>4. ASSUME NEW s \in {"streets", "plain"}, StyleLoads(s)
      PROVE  Steered'
  BY <1>4 DEF StyleLoads
<1>5. ASSUME NEW s \in Sources, NEW v \in Values, Render(s, v)
      PROVE  Steered'
  BY <1>5 DEF Render
<1>6. CASE RunEffects
  BY <1>6 DEF RunEffects
<1>7. CASE ToggleBasemap
  BY <1>7 DEF ToggleBasemap
<1>8. CASE ToggleMarks
  BY <1>8 DEF ToggleMarks
<1>9. CASE ToggleTerrain
  <2>1. DataTyped' /\ CameraTyped' /\ PointerTyped' /\ HashIsWhereItIs'
    BY <1>9 DEF ToggleTerrain
  <2>2. moves' \in 0..MaxMoves
    BY <1>9 DEF ToggleTerrain
  <2>3. /\ basemap' \in {"streets", "satellite"} /\ terrain' \in BOOLEAN
        /\ marks' \in BOOLEAN /\ relief' \in BOOLEAN
        /\ fitted' \in BOOLEAN /\ summary' \in BOOLEAN
    BY <1>9, Zenon DEF ToggleTerrain
  <2> QED BY <2>1, <2>2, <2>3
<1>10. CASE FitToData
  BY <1>10 DEF FitToData
<1>11. CASE MotionEnds
  BY <1>11 DEF MotionEnds
<1>12. ASSUME NEW at \in Places, FrameArea(at)
       PROVE  Steered'
  BY <1>12 DEF FrameArea
<1>13. ASSUME NEW at \in Places, FlyTo(at)
       PROVE  Steered'
  BY <1>13 DEF FlyTo
<1>14. ASSUME NEW at \in Places, Drag(at)
       PROVE  Steered'
  BY <1>14 DEF Drag
<1>15. ASSUME NEW a \in Animations, Tick(a)
       PROVE  Steered'
  BY <1>15 DEF Tick
<1>16. ASSUME NEW S \in SUBSET Hovered, PointerMoves(S)
       PROVE  Steered'
  BY <1>16 DEF PointerMoves
<1>17. CASE UNCHANGED mapVars
  BY <1>17 DEF mapVars
<1> QED
  BY <1>1, <1>2, <1>3, <1>4, <1>5, <1>6, <1>7, <1>8, <1>9, <1>10, <1>11, <1>12, <1>13, <1>14,
     <1>15, <1>16, <1>17 DEF MapViewNext

\* A frame is one of its animation's, whoever steps.
LEMMA BeatStep == BeatTyped /\ [MapViewNext]_mapVars => BeatTyped'
<1> SUFFICES ASSUME BeatTyped, [MapViewNext]_mapVars
             PROVE  BeatTyped'
  OBVIOUS
<1>1. ASSUME NEW a \in Animations, Tick(a)
      PROVE  BeatTyped'
  BY <1>1, MapViewAssumption DEF Tick, BeatTyped, Frames, AllAnimations
<1>2. ASSUME beat' = [a \in Animations |-> 0]
      PROVE  BeatTyped'
  BY <1>2 DEF BeatTyped, Frames
<1>3. CASE UNCHANGED beat
  BY <1>3 DEF BeatTyped
<1> QED
  BY <1>1, <1>2, <1>3 DEF MapViewNext, mapVars, Mount, Unmount, UseFallback,
       StyleLoads, Render, RunEffects, ToggleBasemap, ToggleMarks, ToggleTerrain, FitToData,
       MotionEnds, FrameArea, FlyTo, Drag, PointerMoves

\* The effects that are due are the only ones whose data is not drawn.
LEMMA RememberedStep ==
  DataTyped /\ Arranged /\ Remembered /\ [MapViewNext]_mapVars => Remembered'
BY ZenonT(40) DEF DataTyped, Arranged, Remembered, Ready, MapViewNext, mapVars, Mount, Unmount,
       UseFallback, StyleLoads, Render, RunEffects, ToggleBasemap, ToggleMarks, ToggleTerrain,
       FitToData, MotionEnds, FrameArea, FlyTo, Drag, Tick, PointerMoves, told

\* Every way of coming to rest reports where the map is.
LEMMA ReportedStep ==
  CameraTyped /\ ReportedHere /\ [MapViewNext]_mapVars => ReportedHere'
BY MapViewAssumption
   DEF CameraTyped, ReportedHere, MapViewNext, mapVars, Mount, Unmount, UseFallback,
       StyleLoads, Render, RunEffects, ToggleBasemap, ToggleMarks, ToggleTerrain, FitToData,
       MotionEnds, FrameArea, FlyTo, Drag, Tick, PointerMoves, view, targets, Move, Rest,
       Tilt, OrAbsent, Motions, Tilts

\* No style brings the imagery.
LEMMA StyleHasNoImagery ==
  \A s : Satellite \notin Adopt(StyleLayers(s))
<1> TAKE s
<1>1. CASE s = "streets"
  BY <1>1 DEF Adopt, StyleLayers, SetOf, Satellite
<1>2. CASE s # "streets"
  BY <1>2 DEF Adopt, StyleLayers, SetOf, Satellite
<1> QED BY <1>1, <1>2

\* Nor is it one of the weak marks.
LEMMA MarksAreNotImagery == Satellite \notin WeakLayers
BY DEF Satellite, WeakLayers, WeakMarks, SetOf

\* Painting and marking hide nothing but what may be hidden, and show the
\* chosen ground.
LEMMA PaintedOK ==
  ASSUME NEW st, NEW b \in {"streets", "satellite"}, NEW invisible \in SUBSET Hideable(st)
  PROVE  LET own == Adopt(StyleLayers(st)) IN
         /\ Painted(b, own, invisible) \subseteq Hideable(st)
         /\ (Satellite \notin Painted(b, own, invisible)) = (b = "satellite")
BY StyleHasNoImagery DEF Painted, Hideable

LEMMA MarkedOK ==
  ASSUME NEW st, NEW on \in BOOLEAN, NEW invisible \in SUBSET Hideable(st)
  PROVE  /\ Marked(on, invisible) \subseteq Hideable(st)
         /\ Satellite \in Marked(on, invisible) <=> Satellite \in invisible
BY MarksAreNotImagery DEF Marked, Hideable

\* Every action leaves the layers in order, the chosen ground and relief shown.
LEMMA ArrangedStep ==
  ChoicesTyped /\ DataTyped /\ Arranged /\ ChoicesAreApplied /\ [MapViewNext]_mapVars
     => Arranged' /\ ChoicesAreApplied'
<1> SUFFICES ASSUME ChoicesTyped, DataTyped, Arranged, ChoicesAreApplied, [MapViewNext]_mapVars
             PROVE  Arranged' /\ ChoicesAreApplied'
  OBVIOUS
<1> USE DEF layers, toggles
<1>1. CASE Mount
  BY <1>1 DEF Mount, Arranged, ChoicesAreApplied, Ready
<1>2. CASE Unmount
  BY <1>2 DEF Unmount, Arranged, ChoicesAreApplied, Ready
<1>3. CASE UseFallback
  BY <1>3 DEF UseFallback, Arranged, ChoicesAreApplied, Ready
<1>4. ASSUME NEW s \in {"streets", "plain"}, StyleLoads(s)
      PROVE  Arranged' /\ ChoicesAreApplied'
  <2> DEFINE own == Adopt(StyleLayers(s))
  <2>1. {Satellite} \cup WeakLayers \in SUBSET Hideable(s)
    BY DEF Hideable
  <2>2. hidden' = Painted(basemap, own, {Satellite} \cup WeakLayers)
    BY <1>4 DEF StyleLoads
  <2>3. /\ hidden' \subseteq Hideable(s)
        /\ (Satellite \notin hidden') = (basemap = "satellite")
    BY <2>1, <2>2, PaintedOK DEF ChoicesTyped
  <2>4. mounted' /\ style' = s /\ adopted' = own /\ stack' = Stacked(StyleLayers(s))
        /\ relief' = terrain /\ basemap' = basemap /\ terrain' = terrain
    BY <1>4 DEF StyleLoads
  <2> QED BY <2>3, <2>4 DEF Arranged, ChoicesAreApplied
<1>5. CASE ToggleBasemap
  <2> DEFINE b == IF basemap = "streets" THEN "satellite" ELSE "streets"
  <2>1. /\ mounted /\ basemap' = b /\ b \in {"streets", "satellite"}
        /\ hidden' = IF Ready THEN Painted(b, adopted, Marked(marks, hidden)) ELSE hidden
        /\ UNCHANGED <<mounted, style, adopted, stack, relief, terrain>>
    BY <1>5 DEF ToggleBasemap
  <2>2. CASE Ready
    <3>1. /\ style \in {"streets", "plain"} /\ hidden \in SUBSET Hideable(style)
          /\ adopted = Adopt(StyleLayers(style)) /\ stack = Stacked(StyleLayers(style))
      BY <2>2 DEF Ready, Arranged
    <3>2. Marked(marks, hidden) \in SUBSET Hideable(style)
      BY <3>1, MarkedOK DEF ChoicesTyped
    <3>3. /\ hidden' \subseteq Hideable(style)
          /\ (Satellite \notin hidden') = (b = "satellite")
      BY <2>1, <2>2, <3>1, <3>2, PaintedOK
    <3> HIDE DEF b
    <3> QED BY <2>1, <2>2, <3>1, <3>3 DEF Arranged, ChoicesAreApplied, Ready
  <2>3. CASE ~Ready
    BY <2>1, <2>3 DEF Arranged, ChoicesAreApplied, Ready
  <2> QED BY <2>2, <2>3
<1>6. CASE ToggleMarks
  <2>1. /\ mounted /\ marks' \in BOOLEAN
        /\ hidden' = IF Ready THEN Marked(marks', hidden) ELSE hidden
        /\ UNCHANGED <<mounted, style, adopted, stack, relief, terrain, basemap>>
    BY <1>6 DEF ToggleMarks
  <2>2. CASE Ready
    <3>1. /\ style \in {"streets", "plain"} /\ hidden \in SUBSET Hideable(style)
          /\ adopted = Adopt(StyleLayers(style)) /\ stack = Stacked(StyleLayers(style))
      BY <2>2 DEF Ready, Arranged
    <3>2. /\ hidden' \subseteq Hideable(style)
          /\ Satellite \in hidden' <=> Satellite \in hidden
      BY <2>1, <2>2, <3>1, MarkedOK
    <3> QED BY <2>1, <2>2, <3>1, <3>2 DEF Arranged, ChoicesAreApplied, Ready
  <2>3. CASE ~Ready
    BY <2>1, <2>3 DEF Arranged, ChoicesAreApplied, Ready
  <2> QED BY <2>2, <2>3
<1>7. CASE ToggleTerrain
  BY <1>7 DEF ToggleTerrain, Arranged, ChoicesAreApplied, Ready
<1>8. CASE UNCHANGED <<mounted, style, basemap, terrain, layers>>
  BY <1>8 DEF Arranged, ChoicesAreApplied, Ready
<1>9. ASSUME NEW s \in Sources, NEW v \in Values, Render(s, v)
      PROVE  UNCHANGED <<mounted, style, basemap, terrain, layers>>
  BY <1>9 DEF Render
<1> QED
  BY <1>1, <1>2, <1>3, <1>4, <1>5, <1>6, <1>7, <1>8, <1>9
     DEF MapViewNext, mapVars, RunEffects, FitToData, MotionEnds, FrameArea, FlyTo, Drag, Tick,
         PointerMoves

\* The inductive invariant of the map.
MapHolds ==
    /\ Steered /\ BeatTyped
    /\ Arranged /\ ChoicesAreApplied
    /\ Remembered /\ ReportedHere

\* It holds of the page before the map,
LEMMA MapHoldsInit == MapViewInit => MapHolds
<1> SUFFICES ASSUME MapViewInit
             PROVE  MapHolds
  OBVIOUS
<1> USE MapViewAssumption
<1>1. DataTyped
  BY DEF MapViewInit, DataTyped, OrAbsent
<1>2. ChoicesTyped
  <2>1. moves \in 0..MaxMoves
    BY DEF MapViewInit
  <2> QED BY <2>1, Zenon DEF MapViewInit, ChoicesTyped
<1>3. CameraTyped
  BY DEF MapViewInit, CameraTyped, OrAbsent, Opening
<1>4. PointerTyped /\ HashIsWhereItIs
  BY DEF MapViewInit, PointerTyped, HashIsWhereItIs
<1>5. BeatTyped
  BY DEF MapViewInit, BeatTyped, Frames
<1>6. Arranged /\ ChoicesAreApplied /\ Remembered /\ ReportedHere
  BY DEF MapViewInit, Arranged, ChoicesAreApplied, Remembered, ReportedHere, Ready
<1> QED BY <1>1, <1>2, <1>3, <1>4, <1>5, <1>6 DEF MapHolds, Steered

\* every action keeps it,
LEMMA MapHoldsStep == MapHolds /\ [MapViewNext]_mapVars => MapHolds'
BY SteeredStep, BeatStep, ArrangedStep, RememberedStep, ReportedStep DEF MapHolds, Steered

\* and so every reachable state has it.
LEMMA MapStands == MapViewSpec => []MapHolds
BY MapHoldsInit, MapHoldsStep, PTL DEF MapViewSpec

\* The layers as sets.
LEMMA Contents ==
  /\ SetOf(Ground) = Grounds /\ SetOf(Objects) = Things
  /\ WeakLayers = {"weak-area-outline", "weak-area-rank"}
<1>1. DOMAIN Ground = 1..9 /\ DOMAIN Objects = 1..9
  BY GroundLayers, ObjectLayers
<1>2. SetOf(Ground) = Grounds
  BY <1>1, GroundLayers DEF SetOf, Grounds
<1>3. SetOf(Objects) = Things
  BY <1>1, ObjectLayers DEF SetOf, Things
<1>4. WeakLayers = {"weak-area-outline", "weak-area-rank"}
  BY DEF WeakLayers, WeakMarks, SetOf
<1> QED BY <1>2, <1>3, <1>4

\* What each style brings of its own.
LEMMA Adopted ==
  /\ Adopt(StyleLayers("streets")) = {"land", "names", "buildings"}
  /\ Adopt(StyleLayers("plain")) = {"background"}
BY DEF Adopt, StyleLayers, SetOf

\* What may be hidden is in the stack.
LEMMA HideableIsThere ==
  ASSUME NEW st \in {"streets", "plain"}
  PROVE  /\ Hideable(st) \subseteq SetOf(Stacked(StyleLayers(st)))
         /\ Adopt(StyleLayers(st)) \subseteq SetOf(Stacked(StyleLayers(st)))
<1>1. CASE st = "streets"
  <2> DEFINE s == Stacked(StyleLayers("streets"))
  <2>1. /\ s \in Seq(Drawn) /\ Len(s) = 22 /\ s[1] = "land" /\ s[2] = Satellite
        /\ s[12] = "names" /\ s[13] = "buildings"
        /\ s[13 + 3] = "weak-area-outline" /\ s[13 + 4] = "weak-area-rank"
    <3>1. Layered(s, 22, 13) /\ s[1] = "land" /\ s[12] = "names" /\ s[13] = "buildings"
      BY StreetsStack
    <3> HIDE DEF s
    <3>2. s[13 + 3] = Objects[3] /\ s[13 + 4] = Objects[4]
      BY <3>1 DEF Layered
    <3> QED BY <3>1, <3>2, ObjectLayers DEF Layered, GroundAt
  <2> HIDE DEF s
  <2>2. DOMAIN s = 1..22
    BY <2>1
  <2>3. {"land", Satellite, "names", "buildings", "weak-area-outline", "weak-area-rank"}
           \subseteq SetOf(s)
    BY <2>1, <2>2 DEF SetOf
  <2> QED BY <1>1, <2>3, Contents, Adopted DEF Hideable, s
<1>2. CASE st = "plain"
  <2> DEFINE s == Stacked(StyleLayers("plain"))
  <2>1. /\ s \in Seq(Drawn) /\ Len(s) = 20 /\ s[1] = "background" /\ s[2] = Satellite
        /\ s[11 + 3] = "weak-area-outline" /\ s[11 + 4] = "weak-area-rank"
    <3>1. Layered(s, 20, 11) /\ s[1] = "background"
      BY FallbackStack
    <3> HIDE DEF s
    <3>2. s[11 + 3] = Objects[3] /\ s[11 + 4] = Objects[4]
      BY <3>1 DEF Layered
    <3> QED BY <3>1, <3>2, ObjectLayers DEF Layered, GroundAt
  <2> HIDE DEF s
  <2>2. DOMAIN s = 1..20
    BY <2>1
  <2>3. {"background", Satellite, "weak-area-outline", "weak-area-rank"} \subseteq SetOf(s)
    BY <2>1, <2>2 DEF SetOf
  <2> QED BY <1>2, <2>3, Contents, Adopted DEF Hideable, s
<1> QED BY <1>1, <1>2

\* So the invisible and the adopted layers exist.
LEMMA LayersAreThere == Arranged /\ DataTyped => LayersTyped
BY HideableIsThere DEF Arranged, DataTyped, LayersTyped

\* Nothing that is evidence, and no name, may be hidden.
LEMMA EvidenceShows == Arranged => CoverageAlwaysShows
<1> SUFFICES ASSUME Arranged, Ready
             PROVE  hidden \cap ((SetOf(Ground) \cup SetOf(Objects) \cup Labels) \ WeakLayers) = {}
  BY DEF CoverageAlwaysShows
<1>1. style \in {"streets", "plain"} /\ hidden \subseteq Hideable(style)
  BY DEF Ready, Arranged
<1>2. Hideable(style) \subseteq {Satellite, "land", "buildings", "background"} \cup WeakLayers
  BY <1>1, Adopted DEF Hideable, Labels
<1>3. {Satellite, "land", "buildings", "background"} \cap (Grounds \cup Things \cup Labels) = {}
  BY DEF Grounds, Things, Labels, Satellite
<1> QED BY <1>1, <1>2, <1>3, Contents

\* Of the layers that are ordered, each ground layer is at its place only,
\* and nothing below the twelfth is an object.
LEMMA LowLayers ==
  ASSUME NEW s, GroundAt(s), s[1] \in {"land", "background"}
  PROVE  \A j \in 1..11 :
            /\ s[j] = Satellite => j = 2
            /\ s[j] = "areas-fill" => j = 3
            /\ s[j] = "coverage-fill" => j = 6
            /\ s[j] = "area-mask" => j = 9
            /\ s[j] = "area-border" => j = 10
            /\ s[j] = "area-border-approximate" => j = 11
            /\ s[j] # "names" /\ s[j] \notin Things
<1> SUFFICES ASSUME NEW j \in 1..11
             PROVE  /\ s[j] = Satellite => j = 2
                    /\ s[j] = "areas-fill" => j = 3
                    /\ s[j] = "coverage-fill" => j = 6
                    /\ s[j] = "area-mask" => j = 9
                    /\ s[j] = "area-border" => j = 10
                    /\ s[j] = "area-border-approximate" => j = 11
                    /\ s[j] # "names" /\ s[j] \notin Things
  OBVIOUS
<1>1. CASE j = 1   BY <1>1 DEF Satellite, Things
<1>2. CASE j = 2   BY <1>2 DEF GroundAt, Satellite, Things
<1>3. CASE j = 3   BY <1>3 DEF GroundAt, Satellite, Things
<1>4. CASE j = 4   BY <1>4 DEF GroundAt, Satellite, Things
<1>5. CASE j = 5   BY <1>5 DEF GroundAt, Satellite, Things
<1>6. CASE j = 6   BY <1>6 DEF GroundAt, Satellite, Things
<1>7. CASE j = 7   BY <1>7 DEF GroundAt, Satellite, Things
<1>8. CASE j = 8   BY <1>8 DEF GroundAt, Satellite, Things
<1>9. CASE j = 9   BY <1>9 DEF GroundAt, Satellite, Things
<1>10. CASE j = 10  BY <1>10 DEF GroundAt, Satellite, Things
<1>11. CASE j = 11  BY <1>11 DEF GroundAt, Satellite, Things
<1> QED BY <1>1, <1>2, <1>3, <1>4, <1>5, <1>6, <1>7, <1>8, <1>9, <1>10, <1>11

\* The ordered ground layers are where GroundAt has them, for what is drawn.
LEMMA GroundPositions ==
  ASSUME NEW n \in {20, 22}, DOMAIN stack = 1..n, GroundAt(stack),
         stack[1] \in {"land", "background"},
         \A j \in 12..n : stack[j] \in {"buildings", "names"} \cup Things
  PROVE  /\ Position(Satellite) = 2 /\ Position("areas-fill") = 3
         /\ Position("coverage-fill") = 6 /\ Position("area-mask") = 9
         /\ Position("area-border") = 10 /\ Position("area-border-approximate") = 11
<1>1. ({"buildings", "names"} \cup Things)
         \cap {Satellite, "areas-fill", "coverage-fill", "area-mask", "area-border",
               "area-border-approximate"} = {}
  BY DEF Things, Satellite
<1>2. \A j \in 1..n :
          /\ stack[j] = Satellite => j = 2
          /\ stack[j] = "areas-fill" => j = 3
          /\ stack[j] = "coverage-fill" => j = 6
          /\ stack[j] = "area-mask" => j = 9
          /\ stack[j] = "area-border" => j = 10
          /\ stack[j] = "area-border-approximate" => j = 11
  <2> TAKE j \in 1..n
  <2>1. CASE j \in 1..11  BY <2>1, LowLayers
  <2>2. CASE j \in 12..n  BY <2>2, <1>1
  <2> QED BY <2>1, <2>2
<1>3. \A i \in {2, 3, 6, 9, 10, 11} : i \in 1..n
  OBVIOUS
<1>4. Position(Satellite) = 2       BY <1>2, <1>3 DEF Position, GroundAt
<1>5. Position("areas-fill") = 3    BY <1>2, <1>3 DEF Position, GroundAt
<1>6. Position("coverage-fill") = 6 BY <1>2, <1>3 DEF Position, GroundAt
<1>7. Position("area-mask") = 9     BY <1>2, <1>3 DEF Position, GroundAt
<1>8. Position("area-border") = 10  BY <1>2, <1>3 DEF Position, GroundAt
<1>9. Position("area-border-approximate") = 11
  BY <1>2, <1>3 DEF Position, GroundAt
<1> QED BY <1>4, <1>5, <1>6, <1>7, <1>8, <1>9

\* The positions of the layers are those of the style that is drawn.
LEMMA NamesAreOnTop == Arranged => NamesStayReadable
<1> SUFFICES ASSUME Arranged, Ready
             PROVE  NamesStayReadable
  BY DEF NamesStayReadable
<1>3. \A i \in 1..9 : Objects[i] \in Things
  BY Contents, ObjectLayers DEF SetOf
<1>1. CASE style = "streets"
  <2>1. /\ Layered(stack, 22, 13)
        /\ stack[1] = "land" /\ stack[12] = "names" /\ stack[13] = "buildings"
        /\ adopted = {"land", "names", "buildings"}
    BY <1>1, StreetsStack, Adopted DEF Arranged
  <2>2. DOMAIN stack = 1..22
    BY <2>1 DEF Layered
  <2>3. \A j \in 14..22 : stack[j] \in Things
    <3> TAKE j \in 14..22
    <3>1. j - 13 \in 1..9 /\ 13 + (j - 13) = j
      OBVIOUS
    <3>2. stack[13 + (j - 13)] = Objects[j - 13]
      BY <2>1, <3>1 DEF Layered
    <3> QED BY <1>3, <3>1, <3>2
  <2>4. \A j \in 12..22 : stack[j] \in {"buildings", "names"} \cup Things
    <3> TAKE j \in 12..22
    <3>1. j = 12 \/ j = 13 \/ j \in 14..22
      OBVIOUS
    <3> QED BY <2>1, <2>3, <3>1
  <2>5. /\ Position(Satellite) = 2 /\ Position("areas-fill") = 3
        /\ Position("coverage-fill") = 6 /\ Position("area-mask") = 9
        /\ Position("area-border") = 10 /\ Position("area-border-approximate") = 11
    BY <2>1, <2>2, <2>4, GroundPositions DEF Layered
  <2>6. \A j \in 1..11 : stack[j] # "names" /\ stack[j] \notin Things
    BY <2>1, LowLayers DEF Layered
  <2>7. "names" \notin Things /\ "buildings" \notin Things /\ "buildings" # "names"
    BY DEF Things
  <2>8. \A j \in 1..22 : /\ stack[j] = "names" => j = 12
                         /\ stack[j] \in Things => 12 < j
    <3> TAKE j \in 1..22
    <3>1. j \in 1..11 \/ j = 12 \/ j = 13 \/ j \in 14..22
      OBVIOUS
    <3> QED BY <2>1, <2>3, <2>6, <2>7, <3>1
  <2>9. Position("names") = 12
    BY <2>1, <2>2, <2>8 DEF Position
  <2>10. ASSUME NEW o \in SetOf(Objects)
         PROVE  12 < Position(o)
    <3>1. PICK i \in 1..9 : Objects[i] = o
      BY ObjectLayers DEF SetOf
    <3>2. stack[13 + i] = o /\ 13 + i \in 1..22
      BY <2>1, <3>1 DEF Layered
    <3>3. Position(o) \in 1..22 /\ stack[Position(o)] = o
      BY <2>2, <3>2 DEF Position
    <3>4. o \in Things
      BY Contents
    <3> QED BY <2>8, <3>3, <3>4
  <2> QED BY <2>1, <2>5, <2>9, <2>10 DEF NamesStayReadable, Labels
<1>2. CASE style = "plain"
  <2>1. /\ Layered(stack, 20, 11)
        /\ stack[1] = "background" /\ adopted = {"background"}
    BY <1>2, FallbackStack, Adopted DEF Arranged
  <2>2. DOMAIN stack = 1..20
    BY <2>1 DEF Layered
  <2>3. \A j \in 12..20 : stack[j] \in Things
    <3> TAKE j \in 12..20
    <3>1. j - 11 \in 1..9 /\ 11 + (j - 11) = j
      OBVIOUS
    <3>2. stack[11 + (j - 11)] = Objects[j - 11]
      BY <2>1, <3>1 DEF Layered
    <3> QED BY <1>3, <3>1, <3>2
  <2>4. /\ Position(Satellite) = 2 /\ Position("areas-fill") = 3
        /\ Position("coverage-fill") = 6 /\ Position("area-mask") = 9
        /\ Position("area-border") = 10 /\ Position("area-border-approximate") = 11
    BY <2>1, <2>2, <2>3, GroundPositions DEF Layered
  <2> QED BY <2>1, <2>4 DEF NamesStayReadable, Labels
<1> QED BY <1>1, <1>2 DEF Ready

\* clampBounds cuts a viewport to one the server answers, about its middle,
\* and leaves a viewport that is small enough as it is.
LEMMA ClampAnswers ==
  ASSUME NEW i \in Span
  PROVE  Answerable(Clamp(i), i)
<1>1. i.min \in Int /\ i.max \in Int /\ i.min < i.max
  BY DEF Span
<1>2. i = [min |-> i.min, max |-> i.max]
  BY DEF Span
<1> DEFINE c == (i.min + i.max) \div 2
           lo == Larger(i.min, c - 59)
           hi == Smaller(i.max, c + 59)
<1>3. c \in Int /\ 2 * c <= i.min + i.max /\ i.min + i.max < 2 * c + 2
  BY <1>1
<1>4. Clamp(i) = [min |-> lo, max |-> hi]
  BY DEF Clamp, MaxBbox
<1> HIDE DEF c
<1>5. /\ i.min <= lo /\ hi <= i.max /\ lo < hi /\ hi - lo <= 120
      /\ i.max - i.min <= 118 => lo = i.min /\ hi = i.max
  BY <1>1, <1>3 DEF Larger, Smaller
<1> HIDE DEF lo, hi
<1> QED BY <1>2, <1>4, <1>5 DEF Answerable, MaxBbox

\* What a map at rest has reported is an answerable part of what it shows.
LEMMA ReportAnswers == CameraTyped /\ ReportedHere => RestIsReported
BY MapViewAssumption, ClampAnswers DEF CameraTyped, ReportedHere, RestIsReported, ClampBounds

\* A map that is drawn draws the latest data.
LEMMA LatestIsDrawn == DataTyped /\ Remembered => DrawnIsLatest
BY DEF DataTyped, Remembered, DrawnIsLatest, Ready, OrAbsent

\* What holds of every map on screen (MapView.tsx): its values have their
\* types, toggles never hide the evidence, nothing covers the names, and the
\* address bar follows the map, for any sources, places and animations.
THEOREM MapIsSound == MapViewSpec => []MapViewInv
<1>1. MapHolds => MapViewInv
  BY TypesInParts, LayersAreThere, EvidenceShows, NamesAreOnTop
     DEF MapHolds, Steered, MapViewInv
<1> QED BY <1>1, MapStands, PTL

\* A settled map shows its latest data and the choices made, whether they came
\* before the mount, before the style or after it (MapView.tsx 594-722).
THEOREM TheMapIsCurrent == MapViewSpec => []MapIsCurrent
<1>1. MapHolds => MapIsCurrent
  BY LatestIsDrawn DEF MapHolds, Steered, MapIsCurrent
<1> QED BY <1>1, MapStands, PTL

\* At rest the page knows the viewport, cut to what the server answers
\* (MapView.tsx 551-571, 1571-1576), for any viewports.
THEOREM TheRestIsReported == MapViewSpec => []RestIsReported
<1>1. MapHolds => RestIsReported
  BY ReportAnswers DEF MapHolds, Steered
<1> QED BY <1>1, MapStands, PTL

=============================================================================
