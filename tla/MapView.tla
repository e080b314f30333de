------------------------------- MODULE MapView -------------------------------
(***************************************************************************)
(* The map of the dashboard, src/web/src/MapView.tsx: what the component   *)
(* is told (its properties), what its refs hold, and what the MapLibre map *)
(* behind it draws.  The map exists from the mount on, but it has neither  *)
(* sources nor layers before its style is loaded, and the style may never  *)
(* come.  A click renders and runs its effects at once; the render of an   *)
(* answer leaves its effects pending, and the style may load in between.   *)
(*                                                                         *)
(* Definitions whose names begin with Faulty are deliberate mistakes that  *)
(* no specification uses; they confirm that the properties notice them.    *)
(***************************************************************************)
EXTENDS Integers, Sequences

CONSTANTS
    Sources,        \* the sources of AllSources this instance follows
    Values, Empty,  \* what a source can hold; Empty before the first answer
    Places,         \* where the camera can be
    Initial,        \* INITIAL_CENTRE and INITIAL_ZOOM
    Data,           \* the bounds of the measured data
    Elsewhere,      \* where a drag or an interrupted flight ends
    Box(_),         \* the viewport of a place: [lat, lon] intervals
    Animations,     \* the animations of AllAnimations this instance follows
    ReducedMotion,  \* prefers-reduced-motion
    Hovered,        \* the layers of Hoverable this instance follows
    Absent,
    MaxMoves        \* bound on what the reader and the answers do

AllSources == {"areas", "tiles", "mask", "outline", "links", "weak", "cells", "collectors"}

(* The sources whose ref is assigned in an effect; the others' refs are    *)
(* assigned while rendering.                                               *)
LateRefs == {"areas", "tiles", "mask", "outline"}

AllAnimations == {"pulse", "links", "beacon"}
Frames(a) == CASE a = "pulse" -> 44 [] a = "links" -> 7 [] OTHER -> 2

Popups    == {"weak-area-outline", "observed-cell-points", "collector-points"}
Hoverable == Popups \cup {"coverage-fill"}

(* Where an animation leads and how it tilts the camera. *)
Tilts   == {"flat", "tilted"}
Motions == [to: Places \cup {Absent}, tilt: Tilts \cup {Absent}]

(* One axis of a viewport: never empty, however far in the reader zooms.   *)
Span == {i \in [min: Int, max: Int] : i.min < i.max}

(* Absent stands for null and undefined: it is none of the values.         *)
ASSUME MapViewAssumption ==
    /\ Sources \subseteq AllSources
    /\ Empty \in Values /\ Absent \notin Values \cup Places \cup Tilts \cup Motions
    /\ \A p \in Places : Box(p) \in [lat: Span, lon: Span]
    /\ {Initial, Data, Elsewhere} \subseteq Places
    /\ Animations \subseteq AllAnimations /\ Hovered \subseteq Hoverable
    /\ ReducedMotion \in BOOLEAN
    /\ MaxMoves \in Nat

VARIABLES
    mounted, style,              \* the component; the style of its map
    prop, ref, source, pending,  \* per source: told, remembered, drawn, effect due
    basemap, terrain, marks,     \* the toggles, kept by the page
    adopted, stack, hidden, relief, \* basemapLayers; the layers, bottom first; the invisible ones
    link,                        \* INITIAL_VIEW
    camera, tilt, motion,        \* where the map is, and the animation under way
    fitted, summary, flyTo, fitTo,
    hash, reported,              \* the address bar; the last onBoundsChange
    beat, over, popups, cursor,  \* animations and the pointer
    moves

told    == <<prop, ref, source, pending>>
toggles == <<basemap, terrain, marks>>
layers  == <<adopted, stack, hidden, relief>>
view    == <<camera, tilt, motion, hash, reported>>
targets == <<fitted, summary, flyTo, fitTo>>
pointer == <<over, popups, cursor>>
mapVars == <<mounted, style, told, toggles, layers, link, view, targets, beat, pointer, moves>>

OrAbsent(S) == S \cup {Absent}
Ready == mounted /\ style \in {"streets", "plain"}

-----------------------------------------------------------------------------
(* The layer stack *)

(* What the style brings: the basemap's ground and its place names, or     *)
(* only a background.                                                      *)
StyleLayers(s) == IF s = "streets" THEN <<"land", "names", "buildings">> ELSE <<"background">>
Labels == {"names"}

Satellite == "s2cloudless"

(* What addLayers adds, in its order: the ground first, then the things in *)
(* the world.                                                              *)
AreaLayers      == <<"areas-fill", "areas-line", "areas-point">>
CoverageLayers  == <<"coverage-fill", "coverage-outline", "coverage-outline-predicted">>
SelectionLayers == <<"area-mask", "area-border", "area-border-approximate">>
Ground          == AreaLayers \o CoverageLayers \o SelectionLayers

LinkLayers      == <<"collector-link-lines", "collector-link-labels">>
WeakMarks       == <<"weak-area-outline", "weak-area-rank">>
CellLayers      == <<"observed-cell-pulse", "observed-cell-halo", "observed-cell-points">>
CollectorLayers == <<"collector-points", "collector-count">>
Objects         == LinkLayers \o WeakMarks \o CellLayers \o CollectorLayers

SetOf(s) == {s[i] : i \in DOMAIN s}
FirstLabel(s) ==
    IF SetOf(s) \cap Labels = {} THEN Len(s) + 1
    ELSE CHOOSE i \in DOMAIN s : s[i] \in Labels /\ \A j \in 1..(i - 1) : s[j] \notin Labels
InsertAt(s, i, new) == SubSeq(s, 1, i - 1) \o new \o SubSeq(s, i, Len(s))

FaultyUnderLabels(s, new) == s \o new

(* addLayer with the first label as beforeId, for layers added in turn. *)
UnderLabels(s, new) == InsertAt(s, FirstLabel(s), new)

FaultyAdopt(s) == SetOf(UnderLabels(UnderLabels(s, <<Satellite>>), Ground)) \cup SetOf(Objects)

(* adoptStyle remembers the style's own layers before any other is added. *)
Adopt(s) == SetOf(s)

(* The imagery under the labels, the ground stack under them too and over  *)
(* the imagery, and the things in the world on top.                        *)
Stacked(s) == UnderLabels(UnderLabels(s, <<Satellite>>), Ground) \o Objects

(* applyBasemap: the imagery shows or the style's own ground does. *)
Painted(b, own, invisible) ==
    IF b = "satellite"
    THEN (invisible \ {Satellite}) \cup (own \ Labels)
    ELSE (invisible \ own) \cup {Satellite}

WeakLayers == SetOf(WeakMarks)
Marked(on, invisible) == IF on THEN invisible \ WeakLayers ELSE invisible \cup WeakLayers

-----------------------------------------------------------------------------
(* The camera *)

(* The widest viewport the server answers, in twentieths of a degree. *)
MaxBbox == 120

Larger(a, b)  == IF a > b THEN a ELSE b
Smaller(a, b) == IF a < b THEN a ELSE b

FaultyClamp(i) ==
    LET centre == (i.min + i.max) \div 2
    IN  [min |-> Larger(i.min, centre - MaxBbox), max |-> Smaller(i.max, centre + MaxBbox)]

(* clampBounds, on one axis. *)
Clamp(i) ==
    LET centre == (i.min + i.max) \div 2
        half   == (MaxBbox - 2) \div 2
    IN  [min |-> Larger(i.min, centre - half), max |-> Smaller(i.max, centre + half)]
ClampBounds(at) == [lat |-> Clamp(Box(at).lat), lon |-> Clamp(Box(at).lon)]

Opening == IF link # Absent THEN link ELSE Initial

(* Where an animation that is stopped leaves the map. *)
StoppedAt   == IF motion # Absent /\ motion.to # Absent THEN Elsewhere ELSE camera
StoppedTilt == IF motion # Absent /\ motion.tilt # Absent THEN "between" ELSE tilt

(* moveend: the viewport is reported, and the address bar follows unless   *)
(* the map still shows the default position.                               *)
Rest(at, tl, fit) ==
    /\ camera' = at /\ tilt' = tl
    /\ reported' = ClampBounds(at)
    /\ hash' = IF fit \/ link # Absent THEN at ELSE hash

(* A new animation stops the one under way. *)
Move(to, tl, fit) ==
    /\ motion' = [to |-> to, tilt |-> tl]
    /\ IF motion = Absent THEN UNCHANGED <<camera, tilt, hash, reported>>
       ELSE Rest(StoppedAt, StoppedTilt, fit)

(* applyTerrain tilts the camera with the landscape and levels it again. *)
Tilt(on) == Move(Absent, IF on THEN "tilted" ELSE "flat", fitted)

-----------------------------------------------------------------------------
Clamped == {ClampBounds(p) : p \in Places}

MapViewTypeOK ==
    /\ mounted \in BOOLEAN
    /\ style \in {"fetching", "fallback", "streets", "plain"}
    /\ prop \in [Sources -> Values] /\ ref \in [Sources -> Values]
    /\ source \in [Sources -> OrAbsent(Values)]
    /\ pending \subseteq Sources
    /\ basemap \in {"streets", "satellite"} /\ terrain \in BOOLEAN /\ marks \in BOOLEAN
    /\ relief \in BOOLEAN
    /\ hidden \subseteq SetOf(stack)
    /\ adopted \subseteq SetOf(stack)
    /\ link \in OrAbsent(Places) /\ camera \in Places
    /\ tilt \in {"flat", "tilted", "between"}
    /\ motion \in OrAbsent(Motions)
    /\ fitted \in BOOLEAN /\ summary \in BOOLEAN
    /\ flyTo \in OrAbsent(Places) /\ fitTo \in OrAbsent(Places)
    /\ hash \in OrAbsent(Places) /\ reported \in OrAbsent(Clamped)
    /\ beat \in [Animations -> Nat] /\ \A a \in Animations : beat[a] < Frames(a)
    /\ over \subseteq Hovered /\ popups \subseteq Popups /\ cursor \in BOOLEAN
    /\ moves \in 0..MaxMoves

(* The page before the map: the toggles have their first values, and the   *)
(* address bar may carry a shared position.                                *)
MapViewInit ==
    /\ mounted = FALSE /\ style = "fetching"
    /\ prop = [s \in Sources |-> Empty] /\ ref = prop
    /\ source = [s \in Sources |-> Absent] /\ pending = {}
    /\ basemap = "streets" /\ terrain = FALSE /\ marks = FALSE
    /\ adopted = {} /\ stack = <<>> /\ hidden = {} /\ relief = FALSE
    /\ link \in {Absent, Elsewhere}
    /\ camera = Opening /\ tilt = "flat" /\ motion = Absent
    /\ fitted = FALSE /\ summary = FALSE /\ flyTo = Absent /\ fitTo = Absent
    /\ hash = link /\ reported = Absent
    /\ beat = [a \in Animations |-> 0]
    /\ over = {} /\ popups = {} /\ cursor = FALSE
    /\ moves = 0

Acting == moves < MaxMoves /\ moves' = moves + 1

-----------------------------------------------------------------------------
(* Mounting and the style *)

(* The effects of the first render: the map is made and reports its        *)
(* viewport, every ref holds what it was told, and the place and the area  *)
(* the page last asked for are asked for again.                            *)
Mount ==
    /\ ~mounted
    /\ mounted' = TRUE
    /\ ref' = prop
    /\ camera' = Opening /\ tilt' = "flat"
    /\ reported' = ClampBounds(Opening)
    /\ fitted' = (fitTo # Absent)
    /\ motion' = IF fitTo # Absent THEN [to |-> fitTo, tilt |-> Absent]
                 ELSE IF flyTo # Absent THEN [to |-> flyTo, tilt |-> Absent] ELSE Absent
    /\ UNCHANGED <<style, prop, source, pending, toggles, layers, link, hash, summary,
                   flyTo, fitTo, beat, pointer, moves>>

(* Signing out takes the map away; the page keeps the toggles and the      *)
(* places it asked for, and forgets the figures.                           *)
Unmount ==
    /\ mounted /\ pending = {} /\ Acting
    /\ mounted' = FALSE /\ style' = "fetching"
    /\ source' = [s \in Sources |-> Absent]
    /\ adopted' = {} /\ stack' = <<>> /\ hidden' = {} /\ relief' = FALSE
    /\ motion' = Absent /\ fitted' = FALSE /\ summary' = FALSE
    /\ beat' = [a \in Animations |-> 0]
    /\ over' = {} /\ popups' = {} /\ cursor' = FALSE
    /\ UNCHANGED <<prop, ref, pending, toggles, link, camera, tilt, hash, reported, flyTo,
                   fitTo>>

FaultyUseFallback ==
    /\ mounted /\ style = "fetching"
    /\ UNCHANGED mapVars

(* useFallback: after STYLE_TIMEOUT_MS, or when the style cannot be read. *)
UseFallback ==
    /\ mounted /\ style = "fetching"
    /\ style' = "fallback"
    /\ UNCHANGED <<mounted, told, toggles, layers, link, view, targets, beat, pointer, moves>>

(* style.load: the style is adopted, every source is made from its ref,    *)
(* the weak marks start hidden, and the chosen relief and basemap are      *)
(* applied.                                                                *)
StyleLoads(s) ==
    /\ mounted
    /\ style = IF s = "streets" THEN "fetching" ELSE "fallback"
    /\ style' = s
    /\ adopted' = Adopt(StyleLayers(s))
    /\ stack' = Stacked(StyleLayers(s))
    /\ hidden' = Painted(basemap, adopted', {Satellite} \cup WeakLayers)
    /\ source' = ref
    /\ relief' = terrain
    /\ IF terrain THEN Tilt(TRUE) ELSE UNCHANGED view
    /\ UNCHANGED <<mounted, prop, ref, pending, toggles, link, targets, beat, pointer, moves>>

-----------------------------------------------------------------------------
(* Properties told by the page *)

(* An answer renders new data; effects still pending run first. *)
Render(s, v) ==
    /\ mounted /\ pending = {} /\ v # prop[s]
    /\ Acting
    /\ prop' = [prop EXCEPT ![s] = v]
    /\ ref' = IF s \in LateRefs THEN ref ELSE [ref EXCEPT ![s] = v]
    /\ pending' = {s}
    /\ UNCHANGED <<mounted, style, source, toggles, layers, link, view, targets, beat, pointer>>

FaultyRunEffects ==
    /\ mounted /\ pending # {}
    /\ source' = IF Ready THEN [s \in Sources |-> IF s \in pending THEN prop[s] ELSE source[s]]
                 ELSE source
    /\ pending' = {}
    /\ UNCHANGED <<mounted, style, prop, ref, toggles, layers, link, view, targets, beat,
                   pointer, moves>>

(* The effects of that render: a late ref is assigned, and a source that   *)
(* exists is given the new data.                                           *)
RunEffects ==
    /\ mounted /\ pending # {}
    /\ ref' = [s \in Sources |-> IF s \in pending \cap LateRefs THEN prop[s] ELSE ref[s]]
    /\ source' = IF Ready THEN [s \in Sources |-> IF s \in pending THEN prop[s] ELSE source[s]]
                 ELSE source
    /\ pending' = {}
    /\ UNCHANGED <<mounted, style, prop, toggles, layers, link, view, targets, beat, pointer,
                   moves>>

FaultyToggleBasemap ==
    /\ mounted /\ Acting
    /\ basemap' = IF basemap = "streets" THEN "satellite" ELSE "streets"
    /\ hidden' = IF Ready THEN Painted(basemap, adopted, Marked(marks, hidden)) ELSE hidden
    /\ UNCHANGED <<mounted, style, told, terrain, marks, adopted, stack, relief, link, view,
                   targets, beat, pointer>>

(* The basemap's effect, and the marks' effect, which depends on it too. *)
ToggleBasemap ==
    /\ mounted /\ Acting
    /\ basemap' = IF basemap = "streets" THEN "satellite" ELSE "streets"
    /\ hidden' = IF Ready THEN Painted(basemap', adopted, Marked(marks, hidden)) ELSE hidden
    /\ UNCHANGED <<mounted, style, told, terrain, marks, adopted, stack, relief, link, view,
                   targets, beat, pointer>>

ToggleMarks ==
    /\ mounted /\ Acting
    /\ marks' = ~marks
    /\ hidden' = IF Ready THEN Marked(marks', hidden) ELSE hidden
    /\ UNCHANGED <<mounted, style, told, basemap, terrain, adopted, stack, relief, link, view,
                   targets, beat, pointer>>

ToggleTerrain ==
    /\ mounted /\ Acting
    /\ terrain' = ~terrain
    /\ IF Ready THEN relief' = terrain' /\ Tilt(terrain') ELSE UNCHANGED <<relief, view>>
    /\ UNCHANGED <<mounted, style, told, basemap, marks, adopted, stack, hidden, link, targets,
                   beat, pointer>>

-----------------------------------------------------------------------------
(* The camera's actions *)

FaultyFitToData ==
    /\ mounted /\ ~summary
    /\ summary' = TRUE
    /\ fitted' = TRUE
    /\ IF fitted \/ link # Absent THEN UNCHANGED view
       ELSE motion' = Absent /\ Rest(Data, StoppedTilt, fitted)
    /\ UNCHANGED <<mounted, style, told, toggles, layers, link, flyTo, fitTo, beat, pointer,
                   moves>>

(* The figures arrive: the measured data is framed at once, unless the map *)
(* was framed before or a link said where to look.                         *)
FitToData ==
    /\ mounted /\ ~summary
    /\ summary' = TRUE
    /\ fitted' = TRUE
    /\ IF fitted \/ link # Absent THEN UNCHANGED view
       ELSE motion' = Absent /\ Rest(Data, StoppedTilt, TRUE)
    /\ UNCHANGED <<mounted, style, told, toggles, layers, link, flyTo, fitTo, beat, pointer,
                   moves>>

(* A chosen area is framed, and from then on the address bar is written. *)
FrameArea(at) ==
    /\ mounted /\ Acting
    /\ fitTo' = at
    /\ fitted' = TRUE
    /\ Move(at, Absent, TRUE)
    /\ UNCHANGED <<mounted, style, told, toggles, layers, link, summary, flyTo, beat, pointer>>

FlyTo(at) ==
    /\ mounted /\ Acting
    /\ flyTo' = at
    /\ Move(at, Absent, fitted)
    /\ UNCHANGED <<mounted, style, told, toggles, layers, link, fitted, summary, fitTo, beat,
                   pointer>>

MotionEnds ==
    /\ mounted /\ motion # Absent
    /\ motion' = Absent
    /\ Rest(IF motion.to # Absent THEN motion.to ELSE camera,
            IF motion.tilt # Absent THEN motion.tilt ELSE tilt, fitted)
    /\ UNCHANGED <<mounted, style, told, toggles, layers, link, targets, beat, pointer, moves>>

Drag(at) ==
    /\ mounted /\ Acting
    /\ motion' = Absent
    /\ Rest(at, StoppedTilt, fitted)
    /\ UNCHANGED <<mounted, style, told, toggles, layers, link, targets, beat, pointer>>

-----------------------------------------------------------------------------
(* Animations and the pointer *)

FaultyTick(a) ==
    /\ Ready /\ ~ReducedMotion
    /\ beat' = [beat EXCEPT ![a] = (@ + 1) % (Frames(a) + 1)]
    /\ UNCHANGED <<mounted, style, told, toggles, layers, link, view, targets, pointer, moves>>

(* An animation that is not stopped by prefers-reduced-motion moves on. *)
Tick(a) ==
    /\ Ready /\ ~ReducedMotion
    /\ beat' = [beat EXCEPT ![a] = (@ + 1) % Frames(a)]
    /\ UNCHANGED <<mounted, style, told, toggles, layers, link, view, targets, pointer, moves>>

(* The pointer moves over the layers S: a popup opens over an object and   *)
(* closes when it is left.  The listeners of the objects' leaving come     *)
(* last, so they have the last word on the cursor.                         *)
PointerMoves(S) ==
    /\ Ready /\ S \cap hidden = {} /\ S # over
    /\ over' = S
    /\ popups' = (popups \cup (S \cap Popups)) \ (over \ S)
    /\ cursor' = IF (over \ S) \cap Popups # {} THEN FALSE
                 ELSE IF S \cap Popups # {} \/ S \ over # {} THEN TRUE
                 ELSE FALSE
    /\ UNCHANGED <<mounted, style, told, toggles, layers, link, view, targets, beat, moves>>

-----------------------------------------------------------------------------
MapViewNext ==
    \/ Mount \/ Unmount \/ UseFallback
    \/ \E s \in {"streets", "plain"} : StyleLoads(s)
    \/ \E s \in Sources, v \in Values : Render(s, v)
    \/ RunEffects
    \/ ToggleBasemap \/ ToggleMarks \/ ToggleTerrain
    \/ FitToData \/ MotionEnds
    \/ \E at \in Places : FrameArea(at) \/ FlyTo(at) \/ Drag(at)
    \/ \E a \in Animations : Tick(a)
    \/ \E S \in SUBSET Hovered : PointerMoves(S)

MapViewSpec == MapViewInit /\ [][MapViewNext]_mapVars

(* The page mounts the map, the browser's timer fires and the fallback,    *)
(* which needs no network, loads.  The basemap itself may never answer.    *)
MapViewFairness ==
    /\ WF_mapVars(Mount) /\ WF_mapVars(UseFallback) /\ WF_mapVars(StyleLoads("plain"))
    /\ WF_mapVars(RunEffects)
MapViewFairSpec == MapViewSpec /\ MapViewFairness

-----------------------------------------------------------------------------
(* Properties *)

(* Whenever no effect is due, every source of a map whose style is loaded  *)
(* holds the data the component was last told, whether that came before    *)
(* the mount, before the style or after it.                                *)
DrawnIsLatest == Ready /\ pending = {} => source = prop

(* The basemap and the relief on screen are the chosen ones, also when     *)
(* they were chosen before the style or the late fallback arrived.         *)
ChoicesAreApplied ==
    Ready => /\ (Satellite \notin hidden) = (basemap = "satellite")
             /\ relief = terrain

(* No toggle hides the evidence: only the imagery, the basemap's own       *)
(* ground and the weak marks are ever invisible, and never the names.      *)
CoverageAlwaysShows ==
    Ready => hidden \cap ((SetOf(Ground) \cup SetOf(Objects) \cup Labels) \ WeakLayers) = {}

(* A settled map shows what it has and what was asked of it.               *)
MapIsCurrent == DrawnIsLatest /\ ChoicesAreApplied

(* The order the reader depends on: the imagery under the shaded areas,    *)
(* those under the hexagons, those under the mask and the border, all of   *)
(* them under the place names, and the things in the world above.          *)
Position(l) == CHOOSE i \in DOMAIN stack : stack[i] = l
NamesStayReadable ==
    Ready =>
      /\ Position(Satellite) < Position("areas-fill")
      /\ Position("areas-fill") < Position("coverage-fill")
      /\ Position("coverage-fill") < Position("area-mask")
      /\ Position("area-mask") < Position("area-border")
      /\ \A n \in Labels \cap adopted, o \in SetOf(Objects) :
            Position("area-border-approximate") < Position(n) /\ Position(n) < Position(o)

(* At rest, the viewport the page was told of lies inside the screen, is   *)
(* one the server answers, and is the screen itself when that is allowed.  *)
Answerable(r, i) ==
    /\ i.min <= r.min /\ r.max <= i.max
    /\ r.min < r.max /\ r.max - r.min <= MaxBbox
    /\ i.max - i.min <= MaxBbox - 2 => r = i
RestIsReported ==
    mounted /\ motion = Absent =>
      Answerable(reported.lat, Box(camera).lat) /\ Answerable(reported.lon, Box(camera).lon)

(* Once the page has framed something, or was opened by a link, the        *)
(* address bar carries the place the map has moved to.                     *)
HashIsWhereItIs ==
    mounted /\ motion = Absent /\ (fitted \/ link # Absent) /\ camera # Opening => hash = camera

(* A map that stays mounted is drawn, with or without a basemap. *)
EventuallyDrawn == <>[](mounted => Ready)

(* What holds of every map on screen: its values have their types, toggles *)
(* never hide the evidence, nothing covers the names, and the address bar  *)
(* follows the map.                                                        *)
MapViewInv ==
    MapViewTypeOK /\ CoverageAlwaysShows /\ NamesStayReadable /\ HashIsWhereItIs
=============================================================================
