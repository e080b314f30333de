----------------------------- MODULE PublicTiles -----------------------------
(***************************************************************************)
(* The hexagons of the public pages,                                       *)
(* src/client/src/components/usePublicTiles.ts: which box is asked for a   *)
(* viewport, what is kept of the answers, and what is shown while a        *)
(* debounced request, a request under way and a change of network cross.   *)
(*                                                                         *)
(* A coordinate is a number of 1/200 degrees, so that every half of the    *)
(* code is a whole number; a collection is represented by the box and the  *)
(* network it answers.  Definitions whose names begin with Faulty are      *)
(* deliberate mistakes that no specification uses; they confirm that the   *)
(* properties notice them.                                                 *)
(***************************************************************************)
EXTENDS Integers, Sequences

CONSTANTS
    Networks,       \* the networks of the filter
    Views,          \* the viewports the map may report
    Home,           \* the one a mounted map reports first
    CacheSize,      \* how many answers are kept
    None

Span(i) == i.max - i.min

(* A viewport is a pair of intervals, each with its centre on the grid. *)
IsInterval(i) == /\ i \in [min: Int, max: Int]
                 /\ i.min < i.max /\ (i.min + i.max) % 2 = 0
IsView(v) == v \in [lat: [min: Int, max: Int], lon: [min: Int, max: Int]]
                /\ IsInterval(v.lat) /\ IsInterval(v.lon)

VARIABLES
    operator,       \* the chosen network; None is all of them
    tiles,          \* what is shown; None before the first answer
    error,          \* the toast
    lastBounds,     \* the viewport last reported
    timer,          \* debounce: what fetchNow will be called with
    live,           \* the request under way that nothing has cancelled
    pending,        \* the key of the box being fetched
    cache           \* the answers kept, newest first

tileVars == <<operator, tiles, error, lastBounds, timer, live, pending, cache>>

OrNone(S) == S \cup {None}

-----------------------------------------------------------------------------
(* The box *)

(* PUBLIC_MAX_BBOX_DEGREES, and LIMIT. *)
MaxBbox == 600
Limit   == MaxBbox - 10

(* snapDegrees. *)
Grid(span) == IF span < 40 THEN 10 ELSE IF span < 100 THEN 20 ELSE 50

Smaller(a, b) == IF a < b THEN a ELSE b
Larger(a, b)  == IF a > b THEN a ELSE b

Down(x, step) == (x \div step) * step
Up(x, step)   == -Down(-x, step)

FaultyAxis(i, step) ==
    [min |-> Down(i.min - step, step), max |-> Up(i.max + step, step)]

(* axis: the interval clamped around its centre, padded, and rounded out   *)
(* to the grid unless that takes it past the limit.                        *)
Axis(i, step) ==
    LET centre  == (i.min + i.max) \div 2
        half    == Smaller(Span(i) \div 2, Limit \div 2)
        pad     == Smaller(step, Limit \div 2 - half)
        padded  == [min |-> centre - half - pad, max |-> centre + half + pad]
        snapped == [min |-> Down(padded.min, step), max |-> Up(padded.max, step)]
    IN  IF Span(snapped) <= Limit THEN snapped ELSE padded

(* toPublicBounds. *)
Ask(v) ==
    LET step == Grid(Larger(Span(v.lat), Span(v.lon)))
    IN  [lat |-> Axis(v.lat, step), lon |-> Axis(v.lon, step)]

Holds(outer, inner) == outer.min <= inner.min /\ inner.max <= outer.max
Contains(box, v)    == Holds(box.lat, v.lat) /\ Holds(box.lon, v.lon)

(* The box of every viewport, and the request for one. *)
BoxOf == [v \in Views |-> Ask(v)]
Key(v, op) == [box |-> BoxOf[v], op |-> op]

-----------------------------------------------------------------------------
Keys   == {Key(v, o) : v \in Views, o \in OrNone(Networks)}
Timers == [view: Views, op: OrNone(Networks)]

(* None stands for null: it is none of the values. *)
ASSUME PublicTilesAssumption ==
    /\ \A v \in Views : IsView(v)
    /\ Home \in Views
    /\ CacheSize \in Nat \ {0}
    /\ None \notin Networks \cup Views
    /\ None \notin Keys /\ None \notin Timers

TilesTypeOK ==
    /\ operator \in OrNone(Networks)
    /\ tiles \in OrNone(Keys)
    /\ error \in BOOLEAN
    /\ lastBounds \in OrNone(Views)
    /\ timer \in OrNone(Timers)
    /\ live \in OrNone(Keys)
    /\ pending \in OrNone(Keys)
    /\ cache \in Seq(Keys) /\ Len(cache) <= CacheSize

-----------------------------------------------------------------------------
(* fetchNow and loadTiles *)

Covering(v, kept) == {i \in DOMAIN kept : Contains(kept[i].box, v)}

FaultyHeld(v, kept) == IF kept = <<>> THEN None ELSE kept[1]

(* held: the newest answer kept that covers the viewport. *)
Held(v, kept) ==
    IF Covering(v, kept) = {} THEN None
    ELSE kept[CHOOSE i \in Covering(v, kept) : \A j \in Covering(v, kept) : i <= j]

(* The request before is cancelled and the new one remembered. *)
Request(key) == live' = key /\ pending' = key

(* fetchNow, with the network its closure was made with: an answer kept is *)
(* shown at once, a box being fetched is not asked for again, and any      *)
(* other request is replaced.                                              *)
FetchNow(v, op, kept) ==
    IF Held(v, kept) # None
    THEN tiles' = Held(v, kept) /\ error' = FALSE /\ UNCHANGED <<live, pending>>
    ELSE /\ IF pending = Key(v, op) THEN UNCHANGED <<live, pending>> ELSE Request(Key(v, op))
         /\ UNCHANGED <<tiles, error>>

(* A page with a map: the map reports its first viewport, which waits      *)
(* behind the debounce, and the hook's own effect asks for it at once.     *)
FreshTiles ==
    /\ operator' = None /\ tiles' = None /\ error' = FALSE /\ cache' = <<>>
    /\ lastBounds' = Home
    /\ timer' = [view |-> Home, op |-> None]
    /\ Request(Key(Home, None))

(* A page without one, or one that has been left. *)
NoTiles ==
    /\ operator' = None /\ tiles' = None /\ error' = FALSE /\ cache' = <<>>
    /\ lastBounds' = None /\ timer' = None /\ live' = None /\ pending' = None

FaultyPan(v) ==
    /\ lastBounds # None
    /\ lastBounds' = v
    /\ IF Held(v, cache) # None
       THEN timer' = None /\ tiles' = Held(v, cache) /\ error' = FALSE
       ELSE timer' = [view |-> v, op |-> None] /\ UNCHANGED <<tiles, error>>
    /\ UNCHANGED <<operator, live, pending, cache>>

(* loadTiles: the map comes to rest somewhere else. *)
Pan(v) ==
    /\ lastBounds # None
    /\ lastBounds' = v
    /\ IF Held(v, cache) # None
       THEN timer' = None /\ tiles' = Held(v, cache) /\ error' = FALSE
       ELSE timer' = [view |-> v, op |-> operator] /\ UNCHANGED <<tiles, error>>
    /\ UNCHANGED <<operator, live, pending, cache>>

FaultyTimerFires ==
    /\ timer # None
    /\ FetchNow(timer.view, timer.op, cache)
    /\ UNCHANGED <<operator, lastBounds, timer, cache>>

(* The debounce is over. *)
TimerFires ==
    /\ timer # None
    /\ timer' = None
    /\ FetchNow(timer.view, timer.op, cache)
    /\ UNCHANGED <<operator, lastBounds, cache>>

(* Another network: the effect drops every answer kept and asks for the    *)
(* viewport again, without a debounce.                                     *)
ChooseNetwork(op) ==
    /\ lastBounds # None /\ op # operator
    /\ operator' = op
    /\ cache' = <<>>
    /\ FetchNow(lastBounds, op, <<>>)
    /\ UNCHANGED <<lastBounds, timer>>

FaultyKept(key) == <<key>> \o cache

Kept(key) == SubSeq(<<key>> \o cache, 1, Smaller(CacheSize, Len(cache) + 1))

(* The answer is shown and kept. *)
Answered ==
    /\ live # None
    /\ cache' = Kept(live)
    /\ tiles' = live /\ error' = FALSE
    /\ live' = None
    /\ pending' = IF pending = live THEN None ELSE pending
    /\ UNCHANGED <<operator, lastBounds, timer>>

FaultyFails ==
    /\ live # None
    /\ error' = TRUE
    /\ live' = None
    /\ UNCHANGED <<operator, tiles, lastBounds, timer, pending, cache>>

(* The request fails: what was shown stays, under the toast. *)
Fails ==
    /\ live # None
    /\ error' = TRUE
    /\ live' = None
    /\ pending' = IF pending = live THEN None ELSE pending
    /\ UNCHANGED <<operator, tiles, lastBounds, timer, cache>>

(* CACHE_MS after it came, the oldest answer is no longer used. *)
Expire ==
    /\ cache # <<>>
    /\ cache' = SubSeq(cache, 1, Len(cache) - 1)
    /\ UNCHANGED <<operator, tiles, error, lastBounds, timer, live, pending>>

-----------------------------------------------------------------------------
(* What the box promises *)

(* On one axis: never wider than the server answers, all of the viewport   *)
(* unless it is too wide itself, and a grid step of margin on either side  *)
(* where there is room for it.                                             *)
AxisFits(i, step) ==
    LET box == Axis(i, step)
    IN  /\ Span(box) <= Limit
        /\ Span(i) <= Limit => Holds(box, i)
        /\ Span(i) + 2 * step <= Limit => box.min <= i.min - step /\ i.max + step <= box.max

BoxFits(v) ==
    LET step == Grid(Larger(Span(v.lat), Span(v.lon)))
    IN  AxisFits(v.lat, step) /\ AxisFits(v.lon, step)
=============================================================================
