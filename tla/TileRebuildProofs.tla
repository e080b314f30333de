-------------------------- MODULE TileRebuildProofs --------------------------
(***************************************************************************)
(* Theorems about TileRebuild, for every set of measurements, hexagons and *)
(* rebuilders and every value of the limits.                               *)
(***************************************************************************)
EXTENDS TileRebuild, TLAPS

-----------------------------------------------------------------------------
(* Type correctness *)

Steps == {"idle", "dirty", "counts", "metrics", "load", "fill", "flush", "doom", "drop",
          "commit"}

Runs ==
  [pc : Steps,
   layer : Layers, started : Times \cup {-1}, since : Int, full : BOOLEAN,
   scope : SUBSET Hexes, counts : SUBSET Measurements, metrics : SUBSET Measurements,
   loaded : [Hexes -> Tiles], stamp : Times \cup {-1}, written : SUBSET Hexes,
   rows : [Hexes -> Tiles], dropping : Layers, doomed : SUBSET Hexes,
   dropped : SUBSET (Layers \X Hexes)]

LEMMA RunType == TypeOK => run \in [Rebuilders -> Runs]
BY DEF TypeOK, Runs, Steps

LEMMA IdleType == NoTile \in Tiles /\ NoRows \in [Hexes -> Tiles] /\ Idle \in Runs
<1>1. NoTile \in Tiles
  BY ConstantsAssumption DEF NoTile, Tiles, Times
<1>2. NoRows \in [Hexes -> Tiles]
  BY <1>1 DEF NoRows
<1>3. Idle \in Runs
  BY <1>2, ConstantsAssumption DEF Idle, Runs, Steps, Layers, Times
<1> QED
  BY <1>1, <1>2, <1>3

\* A step of one rebuild that only reads the tables.
LEMMA GotoStep ==
  ASSUME TypeOK, NEW p \in Rebuilders, NEW pc \in Steps, NEW r \in Runs, Goto(p, pc, r)
  PROVE  /\ TypeOK'
         /\ run'[p] = [r EXCEPT !.pc = pc]
         /\ \A q \in Rebuilders \ {p} : run'[q] = run[q]
         /\ UNCHANGED <<now, phase, received, tile>>
<1>1. run' = [run EXCEPT ![p] = [r EXCEPT !.pc = pc]]
      /\ UNCHANGED <<now, phase, received, tile, crashes>>
  BY DEF Goto
<1>2. [r EXCEPT !.pc = pc] \in Runs
  BY DEF Runs
<1>3. run' \in [Rebuilders -> Runs]
  BY <1>1, <1>2, RunType
<1>4. TypeOK'
  BY <1>1, <1>3 DEF TypeOK, Runs, Steps
<1> QED
  BY <1>1, <1>4, RunType

\* What each statement leaves in the rebuild's memory is of the right type.
LEMMA StepType ==
  ASSUME TypeOK, NEW p \in Rebuilders
  PROVE  /\ \A s \in Int : [Idle EXCEPT !.started = now, !.since = s] \in Runs
         /\ [Idle EXCEPT !.started = now, !.full = TRUE] \in Runs
         /\ \A S \in SUBSET Hexes : [run[p] EXCEPT !.scope = S, !.since = -1] \in Runs
         /\ [run[p] EXCEPT !.full = TRUE, !.since = -1] \in Runs
         /\ [run[p] EXCEPT !.counts = Seen(p)] \in Runs
         /\ [run[p] EXCEPT !.metrics = Seen(p)] \in Runs
         /\ [run[p] EXCEPT !.stamp = now] \in Runs
<1> run[p] \in Runs /\ now \in Times /\ Idle \in Runs
  BY RunType, IdleType DEF TypeOK
<1> Seen(p) \subseteq Measurements
  BY DEF Seen, visible
<1>1. \A s \in Int : [Idle EXCEPT !.started = now, !.since = s] \in Runs
  BY DEF Runs
<1>2. [Idle EXCEPT !.started = now, !.full = TRUE] \in Runs
  BY DEF Runs
<1>0. ASSUME NEW r \in Runs PROVE [r EXCEPT !.since = -1] \in Runs
  BY DEF Runs
<1>3. ASSUME NEW S \in SUBSET Hexes PROVE [run[p] EXCEPT !.scope = S, !.since = -1] \in Runs
  <2> [run[p] EXCEPT !.scope = S] \in Runs
    BY DEF Runs
  <2> QED
    BY <1>0
<1>4. [run[p] EXCEPT !.full = TRUE, !.since = -1] \in Runs
  <2> [run[p] EXCEPT !.full = TRUE] \in Runs
    BY DEF Runs
  <2> QED
    BY <1>0
<1>5. [run[p] EXCEPT !.counts = Seen(p)] \in Runs
  BY DEF Runs
<1>6. [run[p] EXCEPT !.metrics = Seen(p)] \in Runs
  BY DEF Runs
<1>7. [run[p] EXCEPT !.stamp = now] \in Runs
  BY DEF Runs
<1> QED
  BY <1>1, <1>2, <1>3, <1>4, <1>5, <1>6, <1>7

LEMMA WrittenType ==
  ASSUME TypeOK, NEW p \in Rebuilders, NEW h \in Hexes
  PROVE  Written(p, h) \in Tiles
<1>1. run[p] \in Runs /\ tile \in [Layers -> [Hexes -> Tiles]]
  BY RunType DEF TypeOK
<1>2. In(h, run[p].counts) \subseteq Measurements /\ In(h, run[p].metrics) \subseteq Measurements
  BY <1>1 DEF In, Runs
<1>3. tile[run[p].layer][h] \in Tiles
  BY <1>1 DEF Runs
<1>4. run[p].stamp \in Times \cup {-1}
  BY <1>1 DEF Runs
<1> QED
  BY <1>2, <1>3, <1>4 DEF Written, Tiles

LEMMA LoadType ==
  ASSUME TypeOK, NEW p \in Rebuilders
  PROVE  [run[p] EXCEPT !.loaded = [h \in Hexes |->
            IF h \in Targets(p) THEN tile[run[p].layer][h] ELSE NoTile]] \in Runs
<1>1. run[p] \in Runs /\ tile \in [Layers -> [Hexes -> Tiles]]
  BY RunType DEF TypeOK
<1>2. run[p].layer \in Layers
  BY <1>1 DEF Runs
<1>3. [h \in Hexes |-> IF h \in Targets(p) THEN tile[run[p].layer][h] ELSE NoTile]
        \in [Hexes -> Tiles]
  BY <1>1, <1>2, IdleType
<1> QED
  BY <1>1, <1>3 DEF Runs

LEMMA FlushType ==
  ASSUME TypeOK, NEW p \in Rebuilders
  PROVE  [run[p] EXCEPT
            !.layer = "operator", !.written = Targets(p),
            !.rows = [h \in Hexes |-> IF h \in Targets(p) THEN Written(p, h) ELSE NoTile],
            !.counts = {}, !.metrics = {}, !.loaded = NoRows] \in Runs
<1>1. run[p] \in Runs
  BY RunType
<1>2. Targets(p) \subseteq Hexes
  BY <1>1, ConstantsAssumption DEF Targets, Runs
<1>3. [h \in Hexes |-> IF h \in Targets(p) THEN Written(p, h) ELSE NoTile] \in [Hexes -> Tiles]
  BY WrittenType, IdleType
<1> QED
  BY <1>1, <1>2, <1>3, IdleType DEF Runs, Layers

LEMMA DeleteType ==
  ASSUME TypeOK, NEW p \in Rebuilders, NEW S \in SUBSET (Layers \X Hexes)
  PROVE  /\ [run[p] EXCEPT !.doomed = Unsupported(p, run[p].dropping)] \in Runs
         /\ [run[p] EXCEPT !.dropped = @ \cup S, !.doomed = {}, !.dropping = "operator"] \in Runs
<1>1. run[p] \in Runs
  BY RunType
<1>2. Unsupported(p, run[p].dropping) \subseteq Hexes
  BY DEF Unsupported
<1> QED
  BY <1>1, <1>2 DEF Runs, Layers

\* The steps of a rebuild that only read, each with its memory afterwards.
LEMMA LocalType ==
  ASSUME TypeOK, NEW p \in Rebuilders,
         \/ StartIncremental(p) \/ StartFull(p) \/ ReadDirty(p) \/ StateCounts(p)
         \/ TileMetrics(p) \/ LoadExisting(p) \/ Fill(p) \/ Flush(p) \/ Doom(p) \/ Drop(p)
  PROVE  /\ TypeOK'
         /\ \A q \in Rebuilders \ {p} : run'[q] = run[q]
         /\ UNCHANGED <<now, phase, received, tile>>
<1> DEFINE Result == /\ TypeOK'
                     /\ \A q \in Rebuilders \ {p} : run'[q] = run[q]
                     /\ UNCHANGED <<now, phase, received, tile>>
<1>0. ASSUME NEW pc \in Steps, NEW r \in Runs, Goto(p, pc, r)
      PROVE  Result
  BY <1>0, GotoStep
<1> SUFFICES Result
  OBVIOUS
<1> HIDE DEF Result
<1> USE DEF Steps
<1>1. CASE StartIncremental(p)
  <2> \A w \in Times \cup {-1} : w - Overlap \in Int
    BY ConstantsAssumption DEF Times
  <2> QED
    BY <1>0, <1>1, StepType DEF StartIncremental
<1>2. CASE StartFull(p)
  BY <1>0, <1>2, StepType DEF StartFull
<1>3. CASE ReadDirty(p)
  <2> DirtyIndexes(run[p].since) \in SUBSET Hexes
    BY ConstantsAssumption DEF DirtyIndexes, visible
  <2> QED
    BY <1>0, <1>3, StepType, IdleType DEF ReadDirty
<1>4. CASE StateCounts(p)
  BY <1>0, <1>4, StepType DEF StateCounts
<1>5. CASE TileMetrics(p)
  BY <1>0, <1>5, StepType DEF TileMetrics
<1>6. CASE LoadExisting(p)
  BY <1>0, <1>6, LoadType DEF LoadExisting
<1>7. CASE Fill(p)
  <2> AfterFill(p) \in Steps
    BY DEF AfterFill
  <2> QED
    BY <1>0, <1>7, StepType DEF Fill
<1>8. CASE Flush(p)
  BY <1>0, <1>8, FlushType, IdleType DEF Flush
<1>9. CASE Doom(p)
  BY <1>0, <1>9, DeleteType DEF Doom
<1>10. CASE Drop(p)
  <2> DEFINE layer == run[p].dropping
             gone == {<<layer, h>> : h \in {x \in run[p].doomed :
                        Present(tile[layer][x]) \/ (layer = "combined" /\ x \in run[p].written)}}
  <2>1. gone \in SUBSET (Layers \X Hexes)
    BY RunType DEF Runs
  <2>2. Goto(p, IF layer = "combined" THEN "doom" ELSE "commit",
                [run[p] EXCEPT !.dropped = @ \cup gone, !.doomed = {}, !.dropping = "operator"])
    BY <1>10 DEF Drop
  <2> HIDE DEF gone
  <2>3. [run[p] EXCEPT !.dropped = @ \cup gone, !.doomed = {}, !.dropping = "operator"] \in Runs
    BY <2>1, DeleteType
  <2> QED
    BY <1>0, <2>2, <2>3
<1> QED
  BY <1>1, <1>2, <1>3, <1>4, <1>5, <1>6, <1>7, <1>8, <1>9, <1>10

LEMMA CommitType ==
  ASSUME TypeOK, NEW p \in Rebuilders, Commit(p)
  PROVE  TypeOK'
<1>1. \A l \in Layers, h \in Hexes : Committed(p, l, h) \in Tiles
  <2> SUFFICES ASSUME NEW l \in Layers, NEW h \in Hexes PROVE Committed(p, l, h) \in Tiles
    OBVIOUS
  <2>1. run[p].rows[h] \in Tiles /\ tile[l][h] \in Tiles
    BY RunType DEF Runs, TypeOK
  <2> QED
    BY <2>1, WrittenType, IdleType DEF Committed
<1>2. tile' \in [Layers -> [Hexes -> Tiles]]
  <2>1. tile' = tile \/ tile' = [l \in Layers |-> [h \in Hexes |-> Committed(p, l, h)]]
    BY DEF Commit
  <2> QED
    BY <1>1, <2>1 DEF TypeOK
<1>3. run' \in [Rebuilders -> Runs]
  BY RunType, IdleType DEF Commit
<1> QED
  BY <1>2, <1>3 DEF Commit, TypeOK, Runs, Steps

LEMMA CrashType ==
  ASSUME TypeOK, NEW p \in Rebuilders, Crash(p)
  PROVE  TypeOK'
<1>1. run' \in [Rebuilders -> Runs]
  BY RunType, IdleType DEF Crash
<1>2. crashes' \in 0 .. MaxCrashes
  BY ConstantsAssumption DEF Crash, TypeOK
<1> QED
  BY <1>1, <1>2 DEF Crash, TypeOK, Runs, Steps

LEMMA ArrivalType ==
  ASSUME TypeOK,
         Tick \/ \E m \in Measurements : Stamp(m) \/ CommitMeasurement(m) \/ Remove(m)
  PROVE  TypeOK'
<1>1. phase' \in [Measurements -> {"new", "stamped", "visible", "removed"}]
  BY DEF Tick, Stamp, CommitMeasurement, Remove, TypeOK
<1>2. received' \in [Measurements -> Times \cup {-1}] /\ now' \in Times
  BY ConstantsAssumption DEF Tick, Stamp, CommitMeasurement, Remove, TypeOK, Times
<1>3. UNCHANGED <<tile, run, crashes>>
  BY DEF Tick, Stamp, CommitMeasurement, Remove
<1> QED
  BY <1>1, <1>2, <1>3 DEF TypeOK

LEMMA InitType == Init => TypeOK
<1> SUFFICES ASSUME Init PROVE TypeOK
  OBVIOUS
<1>1. run \in [Rebuilders -> Runs] /\ tile \in [Layers -> [Hexes -> Tiles]]
  BY IdleType DEF Init
<1> QED
  BY <1>1, ConstantsAssumption DEF Init, TypeOK, Runs, Steps, Times

LEMMA NextType == TypeOK /\ [Next]_vars => TypeOK'
<1> SUFFICES ASSUME TypeOK, [Next]_vars PROVE TypeOK'
  OBVIOUS
<1>1. CASE UNCHANGED vars
  BY <1>1 DEF vars, TypeOK
<1> QED
  BY <1>1, LocalType, CommitType, CrashType, ArrivalType DEF Next, Continue

\* Every column, row and rebuild keeps its type.
THEOREM TypeCorrect == Spec => []TypeOK
BY InitType, NextType, PTL DEF Spec

-----------------------------------------------------------------------------
(* Why no measurement is missed.  Once a measurement has committed, a      *)
(* rebuild that started later reads it: it is fresh for that measurement.  *)
(* While others that started earlier may still commit, what it read can be *)
(* overwritten; a rebuild that started after those have ended is settled.  *)
(* The first watermark a settled rebuild can set is the first that matters.*)

EnoughOverlap == CommitDelay + 2 * RunTime <= Overlap

Deadline(m) == received[m] + CommitDelay

Fresh(p, m) == run[p].pc # "idle" /\ run[p].started > Deadline(m)

Settled(p, m) == run[p].pc # "idle" /\ run[p].started > Deadline(m) + RunTime

Covers(p, m) ==
  IF run[p].pc = "dirty" THEN run[p].since <= received[m]
  ELSE run[p].full \/ HexOf[m] \in run[p].scope

AfterMetrics == {"load", "fill", "flush", "doom", "drop", "commit"}
AfterCounts == AfterMetrics \cup {"metrics"}
AfterLoad == AfterMetrics \ {"load"}

\* Transactions are as short as CommitDelay says, and no row is from the future.
TimesOK ==
  /\ \A m \in Measurements : received[m] <= now
  /\ \A m \in Measurements : phase[m] = "stamped" => now <= Deadline(m)
  /\ \A l \in Layers, h \in Hexes : tile[l][h].updated <= now

\* Rebuilds are as short as RunTime says.
RunTimes(p) ==
  /\ run[p].pc # "idle" =>
       /\ run[p].started <= now /\ now <= run[p].started + RunTime
       /\ run[p].stamp <= now
  /\ \A h \in Hexes : run[p].rows[h].updated <= now

\* Where a rebuild is tells what it holds.
Shape(p) ==
  /\ run[p].pc \in {"dirty", "flush"} => run[p].layer = "combined"
  /\ run[p].pc \in {"doom", "drop", "commit"} => run[p].layer = "operator"
  /\ run[p].pc = "dirty" => run[p].metrics = {}
  /\ run[p].layer = "combined" => run[p].written = {}
  /\ run[p].pc \notin {"doom", "drop", "commit"} => run[p].dropped = {}
  /\ \A h \in Targets(p) \cup run[p].written : run[p].full \/ h \in run[p].scope

\* Rebuild q touches no row that p has written.
Apart(p, q) ==
  \A h \in run[p].written : h \notin run[q].written /\ <<"combined", h>> \notin run[q].dropped

\* A fresh rebuild reads a measurement that it covers, and deletes none of its rows.
ReadsOK(p, m) ==
  /\ Covers(p, m) /\ m \in About(run[p].layer) =>
       /\ run[p].pc \in AfterCounts => m \in run[p].counts
       /\ run[p].pc \in AfterMetrics => m \in run[p].metrics
  /\ Covers(p, m) /\ run[p].layer = "operator" => HexOf[m] \in run[p].written
  /\ \A l \in Layers : m \in About(l) =>
       /\ <<l, HexOf[m]>> \notin run[p].dropped
       /\ l = run[p].dropping => HexOf[m] \notin run[p].doomed

\* The rows a fresh rebuild is about to commit show what the tiles show.
RowsOK(p, m) ==
  HexOf[m] \in run[p].written =>
    /\ m \in tile["combined"][HexOf[m]].counts => m \in run[p].rows[HexOf[m]].counts
    /\ m \in tile["combined"][HexOf[m]].metrics => m \in run[p].rows[HexOf[m]].metrics

\* A settled rebuild covers a measurement that is not on the map yet, its rows show it,
\* and no row it has loaded loses it.
SettledOK(p, m) ==
  /\ Reflected(m) \/ Covers(p, m)
  /\ HexOf[m] \in run[p].written =>
       m \in run[p].rows[HexOf[m]].counts /\ m \in run[p].rows[HexOf[m]].metrics
  /\ run[p].pc \in AfterLoad /\ HexOf[m] \in Targets(p) /\ m \in About(run[p].layer) =>
       /\ m \in run[p].loaded[HexOf[m]].counts => m \in tile[run[p].layer][HexOf[m]].counts
       /\ m \in run[p].loaded[HexOf[m]].metrics => m \in tile[run[p].layer][HexOf[m]].metrics

Safe(p, m) ==
  /\ Fresh(p, m) => ReadsOK(p, m) /\ RowsOK(p, m)
  /\ Settled(p, m) => SettledOK(p, m)

IInv ==
  /\ TimesOK
  /\ \A p \in Rebuilders : RunTimes(p) /\ Shape(p)
  /\ \A p \in Rebuilders, q \in Rebuilders : p # q => Apart(p, q)
  /\ \A p \in Rebuilders, m \in visible : Safe(p, m)
  /\ NeverMissed

-----------------------------------------------------------------------------
(* The steps of one rebuild *)

\* What one rebuild does to itself disturbs no other.
LEMMA LocalStep ==
  ASSUME TypeOK, IInv, NEW p \in Rebuilders,
         UNCHANGED <<now, phase, received, tile>>,
         \A q \in Rebuilders \ {p} : run'[q] = run[q],
         RunTimes(p)', Shape(p)',
         \A q \in Rebuilders \ {p} : Apart(p, q)' /\ Apart(q, p)',
         \A m \in visible : Safe(p, m)'
  PROVE  IInv'
<1>1. visible' = visible
  BY DEF visible
<1>2. TimesOK'
  BY DEF IInv, TimesOK, Deadline
<1>3. ASSUME NEW q \in Rebuilders PROVE RunTimes(q)' /\ Shape(q)'
  BY DEF IInv, RunTimes, Shape, Targets
<1>4. ASSUME NEW q \in Rebuilders, NEW r \in Rebuilders, q # r PROVE Apart(q, r)'
  BY <1>4 DEF IInv, Apart
<1>5. ASSUME NEW q \in Rebuilders, NEW m \in visible PROVE Safe(q, m)'
  <2>1. CASE q = p
    BY <2>1
  <2>2. CASE q # p
    <3>1. run'[q] = run[q] /\ Safe(q, m)
      BY <2>2 DEF IInv
    <3> QED
      BY <3>1 DEF Safe, Fresh, Settled, Deadline, ReadsOK, RowsOK, SettledOK, Covers, Targets,
                  Reflected
  <2> QED
    BY <2>1, <2>2
<1>6. NeverMissed'
  BY <1>1 DEF IInv, NeverMissed, Reflected
<1> QED
  BY <1>1, <1>2, <1>3, <1>4, <1>5, <1>6 DEF IInv

\* Locks are not affected by a step that keeps or drops them.
LEMMA KeptApart ==
  ASSUME IInv, NEW p \in Rebuilders, NEW q \in Rebuilders \ {p}, run'[q] = run[q],
         run'[p].written \in {run[p].written, {}}, run'[p].dropped \in {run[p].dropped, {}}
  PROVE  Apart(p, q)' /\ Apart(q, p)'
BY DEF IInv, Apart

\* A rebuild that is over is safe.
LEMMA OverStep ==
  ASSUME TypeOK, IInv, NEW p \in Rebuilders,
         UNCHANGED <<now, phase, received, tile>>,
         \A q \in Rebuilders \ {p} : run'[q] = run[q],
         run'[p] = Idle
  PROVE  IInv'
<1>1. RunTimes(p)'
  BY ConstantsAssumption DEF RunTimes, Idle, NoRows, NoTile, TypeOK, Times
<1>2. Shape(p)'
  BY DEF Shape, Targets, Idle
<1>3. \A q \in Rebuilders \ {p} : Apart(p, q)' /\ Apart(q, p)'
  BY KeptApart DEF Idle
<1>4. \A m \in visible : Safe(p, m)'
  BY DEF Safe, Fresh, Settled, Idle
<1> QED
  BY <1>1, <1>2, <1>3, <1>4, LocalStep

\* The measurement's deadline is a number, and stays where it is.
LEMMA Deadlines ==
  ASSUME TypeOK, NEW m \in Measurements
  PROVE  received[m] \in Int /\ Deadline(m) \in Int /\ HexOf[m] \in Hexes
BY ConstantsAssumption DEF TypeOK, Deadline, Times

\* A rebuild that starts takes a window that reaches back to every measurement the map
\* does not show.
LEMMA StartStep ==
  ASSUME TypeOK, IInv, NEW p \in Rebuilders, StartIncremental(p) \/ StartFull(p)
  PROVE  IInv'
<1>0. /\ UNCHANGED <<now, phase, received, tile>>
      /\ \A q \in Rebuilders \ {p} : run'[q] = run[q]
  BY LocalType
<1>1. \/ run'[p] = [Idle EXCEPT !.started = now, !.full = TRUE, !.pc = "counts"]
      \/ \E w \in Times \cup {-1} :
           /\ IsWatermark(w)
           /\ w # -1
           /\ run'[p] = [Idle EXCEPT !.started = now, !.since = w - Overlap, !.pc = "dirty"]
  BY RunType DEF StartIncremental, StartFull, Goto, Runs
<1>2. /\ run'[p].pc \in {"dirty", "counts"} /\ run'[p].layer = "combined"
      /\ run'[p].started = now /\ run'[p].stamp = -1 /\ run'[p].rows = NoRows
      /\ run'[p].metrics = {} /\ run'[p].written = {} /\ run'[p].dropped = {}
      /\ run'[p].doomed = {}
  BY ZenonT(40), <1>1 DEF Idle
<1>3. RunTimes(p)'
  BY <1>0, <1>2, ConstantsAssumption DEF RunTimes, NoRows, NoTile, TypeOK, Times
<1>4. Shape(p)'
  BY <1>2 DEF Shape, Targets
<1>5. \A q \in Rebuilders \ {p} : Apart(p, q)' /\ Apart(q, p)'
  BY <1>0, <1>2, KeptApart
<1>6. ASSUME NEW m \in visible PROVE Safe(p, m)'
  <2>1. ReadsOK(p, m)'
    BY <1>2 DEF ReadsOK, AfterCounts, AfterMetrics
  <2>2. RowsOK(p, m)'
    BY <1>2 DEF RowsOK
  <2>3. Reflected(m)' \/ Covers(p, m)'
    <3>1. CASE run'[p].pc = "counts"
      BY <1>1, <3>1 DEF Covers, Idle
    <3>2. CASE run'[p].pc = "dirty"
      <4>1. PICK w \in Times \cup {-1} :
              IsWatermark(w) /\ w # -1 /\ run'[p].since = w - Overlap
        BY <1>1, <3>2 DEF Idle
      <4>2. PICK h \in Hexes : w = tile["combined"][h].updated
        BY <4>1 DEF IsWatermark
      <4>3. Reflected(m) \/ received[m] >= w - Overlap
        BY <4>2 DEF IInv, NeverMissed
      <4>4. m \in Measurements
        BY DEF visible
      <4>5. received[m] \in Int /\ w - Overlap \in Int
        BY <4>4, Deadlines, ConstantsAssumption DEF Times
      <4>6. CASE Reflected(m)
        BY <1>0, <4>6 DEF Reflected
      <4>7. CASE received[m] >= w - Overlap
        <5> run'[p].since <= received'[m]
          BY <1>0, <4>1, <4>5, <4>7
        <5> QED
          BY <3>2 DEF Covers
      <4> QED
        BY <4>3, <4>6, <4>7
    <3> QED
      BY <1>2, <3>1, <3>2
  <2>4. SettledOK(p, m)'
    BY <1>2, <2>3 DEF SettledOK, AfterLoad, AfterMetrics
  <2> QED
    BY <2>1, <2>2, <2>4 DEF Safe
<1> QED
  BY <1>0, <1>3, <1>4, <1>5, <1>6, LocalStep

\* The measurements' layers and queries: what a fresh rebuild's statement sees.
LEMMA SeenCovered ==
  ASSUME NEW p \in Rebuilders, NEW m \in visible, m \in About(run[p].layer),
         run[p].full \/ HexOf[m] \in run[p].scope
  PROVE  m \in Seen(p)
BY DEF Seen

LEMMA DirtyStep ==
  ASSUME TypeOK, IInv, NEW p \in Rebuilders, ReadDirty(p)
  PROVE  IInv'
<1>0. /\ UNCHANGED <<now, phase, received, tile>>
      /\ \A q \in Rebuilders \ {p} : run'[q] = run[q]
  BY LocalType
<1> DEFINE dirty == DirtyIndexes(run[p].since)
<1>1. CASE run'[p] = Idle
  BY <1>0, <1>1, OverStep
<1>2. CASE \/ dirty # {} /\ run'[p] = [run[p] EXCEPT !.scope = dirty, !.since = -1, !.pc = "counts"]
           \/ run'[p] = [run[p] EXCEPT !.full = TRUE, !.since = -1, !.pc = "counts"]
  <2> HIDE DEF dirty
  <2>0. run[p] \in Runs /\ run[p].pc = "dirty"
    BY RunType DEF ReadDirty
  <2>1. /\ run'[p].pc = "counts" /\ run'[p].layer = run[p].layer
        /\ run'[p].started = run[p].started /\ run'[p].stamp = run[p].stamp
        /\ run'[p].rows = run[p].rows /\ run'[p].metrics = run[p].metrics
        /\ run'[p].written = run[p].written /\ run'[p].dropped = run[p].dropped
        /\ run'[p].doomed = run[p].doomed /\ run'[p].dropping = run[p].dropping
    BY <1>2, <2>0 DEF Runs
  <2>2. run'[p].full \/ run'[p].scope = dirty
    BY <1>2, <2>0 DEF Runs
  <2>3. run[p].layer = "combined" /\ run[p].written = {} /\ run[p].dropped = {}
    BY <2>0 DEF IInv, Shape
  <2>4. RunTimes(p)'
    BY <1>0, <2>0, <2>1 DEF IInv, RunTimes
  <2>5. Shape(p)'
    <3> run[p].metrics = {}
      BY <2>0 DEF IInv, Shape
    <3> QED
      BY <2>1, <2>3 DEF Shape, Targets
  <2>6. \A q \in Rebuilders \ {p} : Apart(p, q)' /\ Apart(q, p)'
    BY <1>0, <2>1, KeptApart
  <2>7. ASSUME NEW m \in visible PROVE Safe(p, m)'
    <3>1. /\ Fresh(p, m)' => Fresh(p, m)
          /\ Settled(p, m)' => Settled(p, m)
      BY <1>0, <2>0, <2>1 DEF Fresh, Settled, Deadline
    <3>2. Fresh(p, m) => ReadsOK(p, m)'
      BY <1>0, <2>1, <2>3 DEF IInv, Safe, ReadsOK, AfterCounts, AfterMetrics
    <3>3. RowsOK(p, m)'
      BY <2>1, <2>3 DEF RowsOK
    <3>4. Settled(p, m) => SettledOK(p, m)'
      <4>1. Settled(p, m) => Reflected(m) \/ run[p].since <= received[m]
        BY <2>0 DEF IInv, Safe, SettledOK, Covers
      <4>2. run[p].since <= received[m] => HexOf[m] \in dirty
        BY DEF DirtyIndexes, visible, dirty
      <4>3. Settled(p, m) => Reflected(m)' \/ Covers(p, m)'
        BY <1>0, <2>1, <2>2, <4>1, <4>2 DEF Reflected, Covers
      <4> QED
        BY <2>1, <2>3, <4>3 DEF SettledOK, AfterLoad, AfterMetrics
    <3> QED
      BY <3>1, <3>2, <3>3, <3>4 DEF Safe
  <2> QED
    BY <1>0, <2>4, <2>5, <2>6, <2>7, LocalStep
<1>3. \/ dirty = {} /\ Goto(p, "idle", Idle)
      \/ dirty # {} /\ Goto(p, "counts", [run[p] EXCEPT !.scope = dirty, !.since = -1])
      \/ Goto(p, "counts", [run[p] EXCEPT !.full = TRUE, !.since = -1])
  BY DEF ReadDirty
<1>4. CASE Goto(p, "idle", Idle)
  BY <1>1, <1>4, RunType DEF Goto, Idle
<1>5. CASE dirty # {} /\ Goto(p, "counts", [run[p] EXCEPT !.scope = dirty, !.since = -1])
  BY <1>2, <1>5, RunType DEF Goto
<1>6. CASE Goto(p, "counts", [run[p] EXCEPT !.full = TRUE, !.since = -1])
  BY <1>2, <1>6, RunType DEF Goto
<1> QED
  BY <1>3, <1>4, <1>5, <1>6

\* The two queries and the load of the existing rows.
LEMMA ReadStep ==
  ASSUME TypeOK, IInv, NEW p \in Rebuilders, StateCounts(p) \/ TileMetrics(p)
  PROVE  IInv'
<1>0. /\ UNCHANGED <<now, phase, received, tile>>
      /\ \A q \in Rebuilders \ {p} : run'[q] = run[q]
      /\ run[p] \in Runs
  BY LocalType, RunType
<1>1. /\ \/ /\ run[p].pc = "counts" /\ run'[p].pc = "metrics"
            /\ run'[p].counts = Seen(p) /\ run'[p].metrics = run[p].metrics
         \/ /\ run[p].pc = "metrics" /\ run'[p].pc = "load"
            /\ run'[p].metrics = Seen(p) /\ run'[p].counts = run[p].counts
      /\ run'[p].layer = run[p].layer /\ run'[p].started = run[p].started
      /\ run'[p].stamp = run[p].stamp /\ run'[p].rows = run[p].rows
      /\ run'[p].full = run[p].full /\ run'[p].scope = run[p].scope
      /\ run'[p].written = run[p].written /\ run'[p].dropped = run[p].dropped
      /\ run'[p].doomed = run[p].doomed /\ run'[p].dropping = run[p].dropping
  <2>1. CASE StateCounts(p)
    BY <1>0, <2>1, RunType DEF StateCounts, Goto, Runs
  <2>2. CASE TileMetrics(p)
    BY <1>0, <2>2, RunType DEF TileMetrics, Goto, Runs
  <2> QED
    BY <2>1, <2>2
<1>2. RunTimes(p)'
  BY <1>0, <1>1 DEF IInv, RunTimes
<1>3. Shape(p)'
  <2>1. \A h \in Targets(p)' : run[p].full \/ h \in run[p].scope
    BY <1>1 DEF IInv, Shape, Targets, Seen
  <2> QED
    BY <1>0, <1>1, <2>1 DEF IInv, Shape
<1>4. \A q \in Rebuilders \ {p} : Apart(p, q)' /\ Apart(q, p)'
  BY <1>0, <1>1, KeptApart
<1>5. ASSUME NEW m \in visible PROVE Safe(p, m)'
  <2>1. /\ Fresh(p, m)' => Fresh(p, m)
        /\ Settled(p, m)' => Settled(p, m)
        /\ Covers(p, m)' <=> Covers(p, m)
    BY <1>0, <1>1 DEF Fresh, Settled, Deadline, Covers
  <2>2. Fresh(p, m) => ReadsOK(p, m)'
    <3>1. Covers(p, m) /\ m \in About(run[p].layer) => m \in Seen(p)
      BY <1>1, SeenCovered DEF Covers
    <3> QED
      BY <1>0, <1>1, <2>1, <3>1 DEF IInv, Safe, ReadsOK, AfterCounts, AfterMetrics, About
  <2>3. Fresh(p, m) => RowsOK(p, m)'
    BY <1>0, <1>1 DEF IInv, Safe, RowsOK
  <2>4. Settled(p, m) => SettledOK(p, m)'
    <3>1. Settled(p, m) => Reflected(m)' \/ Covers(p, m)'
      BY <1>0, <2>1 DEF IInv, Safe, SettledOK, Reflected
    <3> QED
      BY <1>0, <1>1, <3>1 DEF IInv, Safe, SettledOK, AfterLoad, AfterMetrics
  <2> QED
    BY <2>1, <2>2, <2>3, <2>4 DEF Safe
<1> QED
  BY <1>0, <1>2, <1>3, <1>4, <1>5, LocalStep

\* Loading the rows that are there, then filling and stamping them.
LEMMA FillStep ==
  ASSUME TypeOK, IInv, NEW p \in Rebuilders, LoadExisting(p) \/ Fill(p)
  PROVE  IInv'
<1>0. /\ UNCHANGED <<now, phase, received, tile>>
      /\ \A q \in Rebuilders \ {p} : run'[q] = run[q]
      /\ run[p] \in Runs
  BY LocalType, RunType
<1>1. /\ \/ /\ run[p].pc = "load" /\ run'[p].pc = "fill"
            /\ run'[p].loaded = [h \in Hexes |-> IF h \in Targets(p) THEN tile[run[p].layer][h]
                                                 ELSE NoTile]
            /\ run'[p].stamp = run[p].stamp
         \/ /\ run[p].pc = "fill" /\ run'[p].pc = AfterFill(p)
            /\ run'[p].loaded = run[p].loaded
            /\ run'[p].stamp = now
      /\ run'[p].layer = run[p].layer /\ run'[p].started = run[p].started
      /\ run'[p].rows = run[p].rows
      /\ run'[p].counts = run[p].counts /\ run'[p].metrics = run[p].metrics
      /\ run'[p].full = run[p].full /\ run'[p].scope = run[p].scope
      /\ run'[p].written = run[p].written /\ run'[p].dropped = run[p].dropped
      /\ run'[p].doomed = run[p].doomed /\ run'[p].dropping = run[p].dropping
  <2>1. CASE LoadExisting(p)
    BY <1>0, <2>1, RunType DEF LoadExisting, Goto, Runs
  <2>2. CASE Fill(p)
    BY <1>0, <2>2, RunType DEF Fill, Goto, Runs
  <2> QED
    BY <2>1, <2>2
<1>2. /\ run[p].layer = "combined" => AfterFill(p) = "flush"
      /\ run[p].layer = "operator" => AfterFill(p) \in {"doom", "commit"}
      /\ run[p].layer \in {"combined", "operator"}
  BY <1>0 DEF AfterFill, Runs, Layers
<1>3. run[p].pc \in AfterMetrics /\ run'[p].pc \in AfterMetrics /\ Targets(p)' = Targets(p)
  BY <1>1, <1>2 DEF AfterMetrics, Targets
<1>4. RunTimes(p)'
  <2> now \in Int
    BY DEF TypeOK, Times
  <2> QED
    BY <1>0, <1>1 DEF IInv, RunTimes
<1>5. Shape(p)'
  BY <1>0, <1>1, <1>2, <1>3 DEF IInv, Shape
<1>6. \A q \in Rebuilders \ {p} : Apart(p, q)' /\ Apart(q, p)'
  BY <1>0, <1>1, KeptApart
<1>7. ASSUME NEW m \in visible PROVE Safe(p, m)'
  <2>1. /\ Fresh(p, m)' => Fresh(p, m)
        /\ Settled(p, m)' => Settled(p, m)
        /\ Covers(p, m)' <=> Covers(p, m)
    BY <1>0, <1>1, <1>3 DEF Fresh, Settled, Deadline, Covers, AfterMetrics
  <2>2. Fresh(p, m) => ReadsOK(p, m)'
    BY <1>0, <1>1, <1>3, <2>1 DEF IInv, Safe, ReadsOK, AfterCounts
  <2>3. Fresh(p, m) => RowsOK(p, m)'
    BY <1>0, <1>1 DEF IInv, Safe, RowsOK
  <2>4. Settled(p, m) => SettledOK(p, m)'
    <3>1. Settled(p, m) => Reflected(m)' \/ Covers(p, m)'
      BY <1>0, <2>1 DEF IInv, Safe, SettledOK, Reflected
    <3>2. Settled(p, m) => SettledOK(p, m)
      BY DEF IInv, Safe
    <3>3. CASE run[p].pc = "load"
      <4>1. HexOf[m] \in Targets(p) => run'[p].loaded[HexOf[m]] = tile[run[p].layer][HexOf[m]]
        BY <1>1, <3>3, Deadlines DEF visible
      <4> QED
        BY <1>0, <1>1, <1>3, <3>1, <3>2, <4>1 DEF SettledOK
    <3>4. CASE run[p].pc = "fill"
      BY <1>0, <1>1, <1>3, <3>1, <3>2, <3>4 DEF SettledOK, AfterLoad, AfterMetrics
    <3> QED
      BY <1>1, <3>3, <3>4
  <2> QED
    BY <2>1, <2>2, <2>3, <2>4 DEF Safe
<1> QED
  BY <1>0, <1>4, <1>5, <1>6, <1>7, LocalStep

\* The row a fresh rebuild writes shows a measurement that it read: if the column is
\* unchanged because the row loaded shows it, then so does the row by now.
LEMMA WrittenShows ==
  ASSUME TypeOK, NEW p \in Rebuilders, NEW m \in Measurements,
         m \in run[p].counts, m \in run[p].metrics
  PROVE  LET h == HexOf[m]
             l == run[p].layer
         IN /\ m \in tile[l][h].counts => m \in Written(p, h).counts
            /\ m \in tile[l][h].metrics => m \in Written(p, h).metrics
            /\ (m \in run[p].loaded[h].counts => m \in tile[l][h].counts)
                 => m \in Written(p, h).counts
            /\ (m \in run[p].loaded[h].metrics => m \in tile[l][h].metrics)
                 => m \in Written(p, h).metrics
<1>1. m \in In(HexOf[m], run[p].counts) /\ m \in In(HexOf[m], run[p].metrics)
  BY DEF In
<1> QED
  BY <1>1 DEF Written

\* The flush of the combined tiles, which waits for the locks and then holds them.
LEMMA FlushStep ==
  ASSUME TypeOK, IInv, NEW p \in Rebuilders, Flush(p)
  PROVE  IInv'
<1>0. /\ UNCHANGED <<now, phase, received, tile>>
      /\ \A q \in Rebuilders \ {p} : run'[q] = run[q]
      /\ run[p] \in Runs /\ run[p].pc = "flush"
  BY LocalType, RunType DEF Flush
<1>1. CASE RowsMoved(p)
  <2> run'[p] = Idle
    BY <1>1, RunType DEF Flush, Goto, Idle
  <2> QED
    BY <1>0, OverStep
<1>2. CASE ~RowsMoved(p)
  <2>1. /\ run'[p].pc = "counts" /\ run'[p].layer = "operator"
        /\ run'[p].written = Targets(p) /\ run'[p].metrics = {}
        /\ run'[p].rows = [h \in Hexes |-> IF h \in Targets(p) THEN Written(p, h) ELSE NoTile]
        /\ run'[p].started = run[p].started /\ run'[p].stamp = run[p].stamp
        /\ run'[p].full = run[p].full /\ run'[p].scope = run[p].scope
        /\ run'[p].dropped = run[p].dropped
        /\ run'[p].doomed = run[p].doomed /\ run'[p].dropping = run[p].dropping
    <3> DEFINE rows == [h \in Hexes |-> IF h \in Targets(p) THEN Written(p, h) ELSE NoTile]
               r == [run[p] EXCEPT
                       !.layer = "operator", !.written = Targets(p), !.rows = rows,
                       !.counts = {}, !.metrics = {}, !.loaded = NoRows]
    <3>1. Goto(p, "counts", r)
      BY <1>2 DEF Flush
    <3> HIDE DEF rows
    <3>2. run'[p] = [r EXCEPT !.pc = "counts"]
      BY <3>1, RunType DEF Goto
    <3>3. run'[p].rows = rows
      BY <1>0, <3>2 DEF Runs
    <3> QED
      BY <1>0, <3>2, <3>3 DEF Runs, rows
  <2>2. run[p].layer = "combined" /\ run[p].dropped = {} /\ Targets(p) \subseteq Hexes
    BY <1>0, ConstantsAssumption DEF IInv, Shape, Targets, Runs
  <2>3. RunTimes(p)'
    <3>1. ASSUME NEW h \in Hexes PROVE run'[p].rows[h].updated <= now
      <4>1. now \in 0 .. MaxTime /\ run[p].stamp <= now
        BY <1>0 DEF IInv, RunTimes, TypeOK, Times
      <4>2. Written(p, h).updated = run[p].stamp /\ NoTile.updated = -1
        BY DEF Written, NoTile
      <4> QED
        BY <2>1, <4>1, <4>2, ConstantsAssumption
    <3> QED
      BY <1>0, <2>1, <3>1 DEF IInv, RunTimes
  <2>4. Shape(p)'
    <3>1. Targets(p)' = {}
      BY <2>1 DEF Targets
    <3> QED
      BY <1>0, <2>1, <2>2, <3>1 DEF IInv, Shape
  <2>5. \A q \in Rebuilders \ {p} : Apart(p, q)' /\ Apart(q, p)'
    <3>1. ASSUME NEW q \in Rebuilders \ {p}, NEW h \in Targets(p)
          PROVE  h \notin run[q].written /\ <<"combined", h>> \notin run[q].dropped
      <4>1. h \in ToFlush(p)
        BY <2>2 DEF ToFlush
      <4> QED
        BY <4>1 DEF Flush, Locked
    <3> QED
      BY <1>0, <2>1, <2>2, <3>1 DEF Apart
  <2>6. ASSUME NEW m \in visible PROVE Safe(p, m)'
    <3> m \in Measurements /\ HexOf[m] \in Hexes
      BY Deadlines DEF visible
    <3>1. /\ Fresh(p, m)' => Fresh(p, m)
          /\ Settled(p, m)' => Settled(p, m) /\ Fresh(p, m)
          /\ Covers(p, m)' <=> Covers(p, m)
      <4> RunTime \in Nat /\ Deadline(m) \in Int /\ run[p].started \in Int
        BY <1>0, ConstantsAssumption, Deadlines DEF Runs, Times
      <4> QED
        BY <1>0, <2>1 DEF Fresh, Settled, Deadline, Covers
    <3>2. Fresh(p, m) /\ Covers(p, m) => /\ m \in run[p].counts /\ m \in run[p].metrics
                                        /\ HexOf[m] \in Targets(p)
      BY <1>0, <2>2 DEF IInv, Safe, ReadsOK, AfterCounts, AfterMetrics, About, Targets
    <3>3. HexOf[m] \in Targets(p) => Covers(p, m)
      BY <1>0 DEF IInv, Shape, Covers
    <3>4. HexOf[m] \in Targets(p) => run'[p].rows[HexOf[m]] = Written(p, HexOf[m])
      BY <2>1
    <3>5. Fresh(p, m) => ReadsOK(p, m)'
      BY <1>0, <2>1, <3>1, <3>2 DEF IInv, Safe, ReadsOK, AfterCounts, AfterMetrics
    <3>6. Fresh(p, m) => RowsOK(p, m)'
      BY <1>0, <2>1, <2>2, <3>2, <3>3, <3>4, WrittenShows DEF RowsOK
    <3>7. Settled(p, m) /\ Fresh(p, m) => SettledOK(p, m)'
      <4>1. Settled(p, m) => Reflected(m)' \/ Covers(p, m)'
        BY <1>0, <3>1 DEF IInv, Safe, SettledOK, Reflected
      <4>2. Settled(p, m) /\ HexOf[m] \in Targets(p) =>
              /\ m \in run[p].loaded[HexOf[m]].counts => m \in tile[run[p].layer][HexOf[m]].counts
              /\ m \in run[p].loaded[HexOf[m]].metrics => m \in tile[run[p].layer][HexOf[m]].metrics
        BY <1>0, <2>2 DEF IInv, Safe, SettledOK, AfterLoad, AfterMetrics, About
      <4>3. Settled(p, m) /\ Fresh(p, m) /\ HexOf[m] \in Targets(p) =>
              /\ m \in run'[p].rows[HexOf[m]].counts
              /\ m \in run'[p].rows[HexOf[m]].metrics
        BY <3>2, <3>3, <3>4, <4>2, WrittenShows
      <4> QED
        BY <2>1, <4>1, <4>3 DEF SettledOK, AfterLoad, AfterMetrics
    <3> QED
      BY <3>1, <3>5, <3>6, <3>7 DEF Safe
  <2> QED
    BY <1>0, <2>3, <2>4, <2>5, <2>6, LocalStep
<1> QED
  BY <1>1, <1>2

\* The two DELETEs: they pick rows that no measurement supports and wait for their locks.
LEMMA DeleteStep ==
  ASSUME TypeOK, IInv, NEW p \in Rebuilders, Doom(p) \/ Drop(p)
  PROVE  IInv'
<1>0. /\ UNCHANGED <<now, phase, received, tile>>
      /\ \A q \in Rebuilders \ {p} : run'[q] = run[q]
      /\ run[p] \in Runs
  BY LocalType, RunType
<1> DEFINE d == run[p].dropping
           gone == {<<d, h>> : h \in {x \in run[p].doomed :
                      Present(tile[d][x]) \/ (d = "combined" /\ x \in run[p].written)}}
<1>1. /\ \/ /\ run[p].pc = "doom" /\ run'[p].pc = "drop"
            /\ run'[p].doomed = Unsupported(p, d)
            /\ run'[p].dropping = d /\ run'[p].dropped = run[p].dropped
         \/ /\ run[p].pc = "drop" /\ run'[p].pc \in {"doom", "commit"}
            /\ run'[p].doomed = {}
            /\ run'[p].dropped = run[p].dropped \cup gone
      /\ run'[p].layer = run[p].layer /\ run'[p].started = run[p].started
      /\ run'[p].stamp = run[p].stamp /\ run'[p].rows = run[p].rows
      /\ run'[p].counts = run[p].counts /\ run'[p].metrics = run[p].metrics
      /\ run'[p].loaded = run[p].loaded
      /\ run'[p].full = run[p].full /\ run'[p].scope = run[p].scope
      /\ run'[p].written = run[p].written
  <2>1. CASE Doom(p)
    BY <1>0, <2>1, RunType DEF Doom, Goto, Runs
  <2>2. CASE Drop(p)
    <3>1. /\ run[p].pc = "drop"
          /\ Goto(p, IF d = "combined" THEN "doom" ELSE "commit",
                  [run[p] EXCEPT !.dropped = @ \cup gone, !.doomed = {}, !.dropping = "operator"])
      BY <2>2 DEF Drop
    <3> HIDE DEF gone
    <3>2. run'[p] = [[run[p] EXCEPT !.dropped = @ \cup gone, !.doomed = {}, !.dropping = "operator"]
                       EXCEPT !.pc = IF d = "combined" THEN "doom" ELSE "commit"]
      BY <3>1, RunType DEF Goto
    <3> QED
      BY <1>0, <3>1, <3>2 DEF Runs
  <2> QED
    BY <2>1, <2>2
<1>2. Drop(p) => \A h \in run[p].doomed : ~Locked(p, d, h)
  BY DEF Drop
<1>3. gone \subseteq {<<d, h>> : h \in run[p].doomed}
  OBVIOUS
<1> HIDE DEF gone
<1>4. run[p].pc \in AfterMetrics /\ run'[p].pc \in AfterMetrics /\ run[p].layer = "operator"
      /\ Targets(p)' = Targets(p)
  BY <1>1 DEF AfterMetrics, IInv, Shape, Targets
<1>5. RunTimes(p)'
  BY <1>0, <1>1 DEF IInv, RunTimes
<1>6. Shape(p)'
  BY <1>0, <1>1, <1>4 DEF IInv, Shape
<1>7. ASSUME NEW q \in Rebuilders \ {p} PROVE Apart(p, q)' /\ Apart(q, p)'
  <2>1. Apart(p, q)'
    BY <1>0, <1>1 DEF IInv, Apart
  <2>2. Apart(q, p)'
    <3>1. CASE run'[p].dropped = run[p].dropped
      BY <1>0, <1>1, <3>1 DEF IInv, Apart
    <3>2. CASE Drop(p) /\ run'[p].dropped = run[p].dropped \cup gone
      <4>1. ASSUME NEW h \in run[q].written PROVE <<"combined", h>> \notin gone
        BY <1>2, <1>3, <3>2 DEF Locked
      <4> QED
        BY <1>0, <1>1, <3>2, <4>1 DEF IInv, Apart
    <3>3. Drop(p) \/ run[p].pc = "doom"
      BY DEF Doom
    <3>4. Drop(p) => run[p].pc = "drop"
      BY DEF Drop
    <3> QED
      BY <1>1, <3>1, <3>2, <3>3, <3>4
  <2> QED
    BY <2>1, <2>2
<1>8. ASSUME NEW m \in visible PROVE Safe(p, m)'
  <2>1. /\ Fresh(p, m)' => Fresh(p, m)
        /\ Settled(p, m)' => Settled(p, m)
        /\ Covers(p, m)' <=> Covers(p, m)
    BY <1>0, <1>1, <1>4 DEF Fresh, Settled, Deadline, Covers, AfterMetrics
  <2>2. Fresh(p, m) => ReadsOK(p, m)'
    <3>1. Fresh(p, m) => ReadsOK(p, m)
      BY DEF IInv, Safe
    <3>2. ASSUME Fresh(p, m), NEW l \in Layers, m \in About(l)
          PROVE  /\ <<l, HexOf[m]>> \notin run'[p].dropped
                 /\ l = run'[p].dropping => HexOf[m] \notin run'[p].doomed
      <4>1. /\ <<l, HexOf[m]>> \notin run[p].dropped
            /\ l = run[p].dropping => HexOf[m] \notin run[p].doomed
        BY <3>1, <3>2 DEF ReadsOK
      <4>2. HexOf[m] \notin Unsupported(p, l)
        BY <3>2 DEF Unsupported, In
      <4>3. <<l, HexOf[m]>> \notin gone
        BY <1>3, <4>1
      <4> QED
        BY <1>1, <4>1, <4>2, <4>3
    <3> QED
      BY <1>1, <1>4, <2>1, <3>1, <3>2 DEF ReadsOK, AfterCounts, About
  <2>3. Fresh(p, m) => RowsOK(p, m)'
    BY <1>0, <1>1 DEF IInv, Safe, RowsOK
  <2>4. Settled(p, m) => SettledOK(p, m)'
    <3>1. Settled(p, m) => Reflected(m)' \/ Covers(p, m)'
      BY <1>0, <2>1 DEF IInv, Safe, SettledOK, Reflected
    <3>2. Settled(p, m) => SettledOK(p, m)
      BY DEF IInv, Safe
    <3>3. run[p].pc \in AfterLoad
      BY <1>1 DEF AfterLoad, AfterMetrics
    <3> QED
      BY <1>0, <1>1, <1>4, <3>1, <3>2, <3>3 DEF SettledOK
  <2> QED
    BY <2>1, <2>2, <2>3, <2>4 DEF Safe
<1> QED
  BY <1>0, <1>5, <1>6, <1>7, <1>8, LocalStep

-----------------------------------------------------------------------------
(* The commit *)

\* A fresh rebuild takes no measurement off the map.
LEMMA CommitKeeps ==
  ASSUME TypeOK, IInv, NEW p \in Rebuilders, Commit(p),
         NEW m \in visible, Fresh(p, m), NEW l \in Layers, m \in About(l)
  PROVE  /\ m \in tile[l][HexOf[m]].counts => m \in tile'[l][HexOf[m]].counts
         /\ m \in tile[l][HexOf[m]].metrics => m \in tile'[l][HexOf[m]].metrics
<1> DEFINE h == HexOf[m]
<1> m \in Measurements /\ h \in Hexes
  BY Deadlines DEF visible
<1> HIDE DEF h
<1>1. run[p].pc = "commit" /\ run[p].layer = "operator"
  BY DEF Commit, IInv, Shape
<1>2. ReadsOK(p, m) /\ RowsOK(p, m)
  BY DEF IInv, Safe
<1>3. CASE RowsMoved(p)
  BY <1>3 DEF Commit
<1>4. CASE ~RowsMoved(p)
  <2>1. tile'[l][h] = Committed(p, l, h)
    BY <1>4 DEF Commit
  <2>2. <<l, h>> \notin run[p].dropped
    BY <1>2 DEF ReadsOK, h
  <2>3. CASE l = "combined" /\ h \in run[p].written
    <3>1. tile'[l][h] = run[p].rows[h]
      BY <2>1, <2>2, <2>3 DEF Committed
    <3> QED
      BY <1>2, <2>3, <3>1 DEF RowsOK, h
  <2>4. CASE l = "operator" /\ h \in Targets(p)
    <3>1. tile'[l][h] = Written(p, h)
      BY <2>1, <2>2, <2>4 DEF Committed
    <3>2. Covers(p, m)
      BY <1>1, <2>4 DEF IInv, Shape, Covers, h
    <3>3. m \in run[p].counts /\ m \in run[p].metrics
      BY <1>1, <1>2, <2>4, <3>2 DEF ReadsOK, AfterCounts, AfterMetrics
    <3> QED
      BY <1>1, <2>4, <3>1, <3>3, WrittenShows DEF h
  <2>5. CASE ~(l = "combined" /\ h \in run[p].written) /\ ~(l = "operator" /\ h \in Targets(p))
    BY <2>1, <2>2, <2>5 DEF Committed, h
  <2> QED
    BY <2>3, <2>4, <2>5
<1> QED
  BY <1>3, <1>4

\* A settled rebuild that covers a measurement puts it on the map.
LEMMA CommitShows ==
  ASSUME TypeOK, IInv, NEW p \in Rebuilders, Commit(p), ~RowsMoved(p),
         NEW m \in visible, Fresh(p, m), Settled(p, m), Covers(p, m)
  PROVE  Reflected(m)'
<1> DEFINE h == HexOf[m]
<1> m \in Measurements /\ h \in Hexes
  BY Deadlines DEF visible
<1> HIDE DEF h
<1>1. run[p].pc = "commit" /\ run[p].layer = "operator"
  BY DEF Commit, IInv, Shape
<1>2. ReadsOK(p, m) /\ SettledOK(p, m)
  BY DEF IInv, Safe
<1> SUFFICES ASSUME NEW l \in Layers, m \in About(l)
             PROVE  m \in tile'[l][h].counts /\ m \in tile'[l][h].metrics
  BY DEF Reflected, h, About
<1>3. tile'[l][h] = Committed(p, l, h) /\ <<l, h>> \notin run[p].dropped
  BY <1>2 DEF Commit, ReadsOK, h
<1>4. CASE l = "combined"
  <2>1. h \in run[p].written
    BY <1>1, <1>2 DEF ReadsOK, h
  <2>2. tile'[l][h] = run[p].rows[h]
    BY <1>3, <1>4, <2>1 DEF Committed
  <2> QED
    BY <1>2, <2>1, <2>2 DEF SettledOK, h
<1>5. CASE l = "operator"
  <2>1. m \in run[p].counts /\ m \in run[p].metrics
    BY <1>1, <1>2, <1>5 DEF ReadsOK, AfterCounts, AfterMetrics
  <2>2. h \in Targets(p)
    BY <2>1 DEF Targets, h
  <2>3. tile'[l][h] = Written(p, h)
    BY <1>3, <1>5, <2>2 DEF Committed
  <2>4. /\ m \in run[p].loaded[h].counts => m \in tile[l][h].counts
        /\ m \in run[p].loaded[h].metrics => m \in tile[l][h].metrics
    BY <1>1, <1>2, <1>5, <2>2 DEF SettledOK, AfterLoad, AfterMetrics, h
  <2> QED
    BY <1>1, <1>5, <2>1, <2>3, <2>4, WrittenShows DEF h
<1> QED
  BY <1>4, <1>5 DEF Layers

\* While a settled rebuild runs, no other is stale.
LEMMA SettledThenFresh ==
  ASSUME TypeOK, IInv, NEW p \in Rebuilders, run[p].pc # "idle", NEW q \in Rebuilders,
         NEW m \in Measurements, Settled(q, m)
  PROVE  Fresh(p, m)
<1>1. /\ run[q].started \in Int /\ run[p].started \in Int /\ now \in Int
      /\ Deadline(m) \in Int /\ RunTime \in Int
  BY RunType, Deadlines, ConstantsAssumption DEF Runs, Times, TypeOK
<1>2. run[q].started <= now /\ now <= run[p].started + RunTime
  BY DEF IInv, RunTimes, Settled
<1> QED
  BY <1>1, <1>2 DEF Settled, Fresh

\* After a commit a measurement is on the map, or young enough for the next window.
LEMMA CommitStep ==
  ASSUME EnoughOverlap, TypeOK, IInv, NEW p \in Rebuilders, Commit(p)
  PROVE  IInv'
<1>0. /\ UNCHANGED <<now, phase, received>>
      /\ \A q \in Rebuilders \ {p} : run'[q] = run[q]
      /\ run'[p] = Idle
      /\ run[p] \in Runs /\ run[p].pc = "commit"
  BY RunType DEF Commit
<1>1. CASE RowsMoved(p)
  BY <1>0, <1>1, OverStep DEF Commit
<1>2. CASE ~RowsMoved(p)
  <2>0. visible' = visible
    BY <1>0 DEF visible
  <2>1. \A l \in Layers, h \in Hexes : tile'[l][h] = Committed(p, l, h)
    BY <1>2 DEF Commit
  <2>2. ASSUME NEW l \in Layers, NEW h \in Hexes PROVE tile'[l][h].updated <= now
    <3>1. now \in 0 .. MaxTime
      BY DEF TypeOK, Times
    <3>2. /\ run[p].stamp <= now /\ run[p].rows[h].updated <= now
          /\ tile[l][h].updated <= now
      BY <1>0 DEF IInv, RunTimes, TimesOK
    <3>3. Written(p, h).updated = run[p].stamp /\ NoTile.updated = -1
      BY DEF Written, NoTile
    <3>4. Committed(p, l, h) \in {NoTile, run[p].rows[h], Written(p, h), tile[l][h]}
      BY DEF Committed
    <3> QED
      BY <2>1, <3>1, <3>2, <3>3, <3>4, ConstantsAssumption
  <2>3. TimesOK'
    BY <1>0, <2>2 DEF IInv, TimesOK, Deadline
  <2>4. RunTimes(p)' /\ Shape(p)'
    BY <1>0, ConstantsAssumption
    DEF RunTimes, Shape, Targets, Idle, NoRows, NoTile, TypeOK, Times
  <2>5. ASSUME NEW q \in Rebuilders PROVE RunTimes(q)' /\ Shape(q)'
    <3>1. CASE q # p
      BY <1>0, <3>1 DEF IInv, RunTimes, Shape, Targets
    <3> QED
      BY <2>4, <3>1
  <2>6. ASSUME NEW q \in Rebuilders, NEW r \in Rebuilders, q # r PROVE Apart(q, r)'
    <3>1. run'[q].written \subseteq run[q].written /\ run'[r].written \subseteq run[r].written
          /\ run'[r].dropped \subseteq run[r].dropped
      BY <1>0 DEF Idle
    <3> QED
      BY <2>6, <3>1 DEF IInv, Apart
  <2>7. ASSUME NEW q \in Rebuilders, NEW m \in visible PROVE Safe(q, m)'
    <3> m \in Measurements /\ HexOf[m] \in Hexes
      BY Deadlines DEF visible
    <3>1. CASE q = p
      BY <1>0, <3>1 DEF Safe, Fresh, Settled, Idle
    <3>2. CASE q # p
      <4>1. run'[q] = run[q] /\ Safe(q, m) /\ Apart(q, p)
        BY <1>0, <3>2 DEF IInv
      <4>2. /\ Fresh(q, m)' <=> Fresh(q, m)
            /\ Settled(q, m)' <=> Settled(q, m)
            /\ Covers(q, m)' <=> Covers(q, m)
            /\ Targets(q)' = Targets(q)
        BY <1>0, <4>1 DEF Fresh, Settled, Deadline, Covers, Targets
      <4>3. Fresh(q, m) => ReadsOK(q, m)'
        BY <4>1, <4>2 DEF Safe, ReadsOK
      <4>4. Fresh(q, m) => RowsOK(q, m)'
        <5>1. HexOf[m] \in run[q].written =>
                tile'["combined"][HexOf[m]] = tile["combined"][HexOf[m]]
          <6>1. HexOf[m] \in run[q].written =>
                  HexOf[m] \notin run[p].written /\ <<"combined", HexOf[m]>> \notin run[p].dropped
            BY <3>2 DEF IInv, Apart
          <6>2. "combined" \in Layers
            BY DEF Layers
          <6> QED
            BY <2>1, <6>1, <6>2 DEF Committed
        <5> QED
          BY <4>1, <5>1 DEF Safe, RowsOK
      <4>5. Settled(q, m) => SettledOK(q, m)'
        <5> SUFFICES ASSUME Settled(q, m) PROVE SettledOK(q, m)'
          OBVIOUS
        <5>1. Fresh(p, m)
          BY <1>0, SettledThenFresh
        <5>2. \A l \in Layers : m \in About(l) =>
                /\ m \in tile[l][HexOf[m]].counts => m \in tile'[l][HexOf[m]].counts
                /\ m \in tile[l][HexOf[m]].metrics => m \in tile'[l][HexOf[m]].metrics
          BY <5>1, CommitKeeps
        <5>3. SettledOK(q, m)
          BY <4>1 DEF Safe
        <5>4. Reflected(m)' \/ Covers(q, m)'
          BY <4>2, <5>2, <5>3 DEF SettledOK, Reflected, About
        <5>5. run[q].layer \in Layers
          BY RunType DEF Runs
        <5> QED
          BY <4>1, <4>2, <5>2, <5>3, <5>4, <5>5 DEF SettledOK, About
      <4> QED
        BY <4>2, <4>3, <4>4, <4>5 DEF Safe
    <3> QED
      BY <3>1, <3>2
  <2>8. ASSUME NEW m \in visible
        PROVE  \/ Reflected(m)'
               \/ \A h \in Hexes : received'[m] >= tile'["combined"][h].updated - Overlap
    <3>0. m \in Measurements
      BY DEF visible
    <3>1. CASE Settled(p, m)
      <4>1. Fresh(p, m)
        BY <1>0, <3>0, <3>1, SettledThenFresh
      <4>2. Reflected(m) \/ Covers(p, m)
        BY <3>1 DEF IInv, Safe, SettledOK
      <4>3. CASE Covers(p, m)
        BY <1>2, <3>1, <4>1, <4>3, CommitShows
      <4>4. CASE Reflected(m)
        BY <4>1, <4>4, CommitKeeps DEF Reflected, About
      <4> QED
        BY <4>2, <4>3, <4>4
    <3>2. CASE ~Settled(p, m)
      <4>1. /\ run[p].started \in Int /\ now \in Int /\ received[m] \in Int
            /\ Overlap \in Int /\ CommitDelay \in Int /\ RunTime \in Int
        BY <1>0, <3>0, Deadlines, ConstantsAssumption DEF Runs, Times, TypeOK
      <4>2. now <= run[p].started + RunTime
        BY <1>0 DEF IInv, RunTimes
      <4>3. run[p].started <= received[m] + CommitDelay + RunTime
        BY <1>0, <3>2, <4>1 DEF Settled, Deadline
      <4>4. now - Overlap <= received[m]
        BY <4>1, <4>2, <4>3 DEF EnoughOverlap
      <4>5. ASSUME NEW h \in Hexes
            PROVE  received'[m] >= tile'["combined"][h].updated - Overlap
        <5>1. tile'["combined"][h].updated <= now
          BY <2>2 DEF Layers
        <5>2. tile'["combined"][h].updated \in Int
          BY CommitType DEF TypeOK, Tiles, Layers, Times
        <5> QED
          BY <1>0, <4>1, <4>4, <5>1, <5>2
      <4> QED
        BY <4>5
    <3> QED
      BY <3>1, <3>2
  <2> QED
    BY <2>0, <2>3, <2>5, <2>6, <2>7, <2>8 DEF IInv, NeverMissed
<1> QED
  BY <1>1, <1>2

-----------------------------------------------------------------------------
(* The rest *)

LEMMA CrashStep ==
  ASSUME TypeOK, IInv, NEW p \in Rebuilders, Crash(p)
  PROVE  IInv'
BY RunType, OverStep DEF Crash

LEMMA TickStep ==
  ASSUME TypeOK, IInv, Tick
  PROVE  IInv'
<1>1. /\ now \in Int /\ now' = now + 1
      /\ UNCHANGED <<phase, received, tile, run>> /\ visible' = visible
  BY DEF Tick, TypeOK, Times, visible
<1>2. TimesOK'
  <2>1. ASSUME NEW m \in Measurements
        PROVE  received'[m] <= now' /\ (phase'[m] = "stamped" => now' <= Deadline(m)')
    <3>1. received[m] \in Int /\ CommitDelay \in Int
      BY Deadlines, ConstantsAssumption
    <3>2. phase[m] = "stamped" => now < received[m] + CommitDelay
      BY DEF Tick
    <3> QED
      BY <1>1, <3>1, <3>2 DEF IInv, TimesOK, Deadline
  <2>2. ASSUME NEW l \in Layers, NEW h \in Hexes PROVE tile'[l][h].updated <= now'
    <3> tile[l][h].updated \in Int
      BY DEF TypeOK, Tiles, Times
    <3> QED
      BY <1>1 DEF IInv, TimesOK
  <2> QED
    BY <2>1, <2>2 DEF TimesOK
<1>3. ASSUME NEW p \in Rebuilders PROVE RunTimes(p)' /\ Shape(p)'
  <2>1. /\ run[p].started \in Int /\ run[p].stamp \in Int
        /\ \A h \in Hexes : run[p].rows[h].updated \in Int
        /\ RunTime \in Int
    BY RunType, ConstantsAssumption DEF Runs, Tiles, Times
  <2>2. run[p].pc # "idle" => now < run[p].started + RunTime
    BY DEF Tick
  <2>3. RunTimes(p)'
    BY <1>1, <2>1, <2>2 DEF IInv, RunTimes
  <2>4. Shape(p)'
    BY <1>1 DEF IInv, Shape, Targets
  <2> QED
    BY <2>3, <2>4
<1>4. ASSUME NEW p \in Rebuilders, NEW m \in visible PROVE Safe(p, m)'
  BY <1>1 DEF IInv, Safe, Fresh, Settled, Deadline, ReadsOK, RowsOK, SettledOK, Covers,
              Targets, Reflected
<1>5. \A p \in Rebuilders, q \in Rebuilders : p # q => Apart(p, q)'
  BY <1>1 DEF IInv, Apart
<1>6. NeverMissed'
  BY <1>1 DEF IInv, NeverMissed, Reflected
<1> QED
  BY <1>1, <1>2, <1>3, <1>4, <1>5, <1>6 DEF IInv

\* A measurement that commits is younger than any rebuild in progress may assume.
LEMMA ArrivalStep ==
  ASSUME EnoughOverlap, TypeOK, IInv, NEW m \in Measurements,
         Stamp(m) \/ CommitMeasurement(m) \/ Remove(m)
  PROVE  IInv'
<1>0. UNCHANGED <<now, tile, run>>
  BY DEF Stamp, CommitMeasurement, Remove
<1>1. now \in Int /\ CommitDelay \in Nat /\ RunTime \in Nat /\ Overlap \in Nat
  BY ConstantsAssumption DEF TypeOK, Times
<1>2. TimesOK'
  <2>1. ASSUME NEW x \in Measurements
        PROVE  received'[x] <= now' /\ (phase'[x] = "stamped" => now' <= Deadline(x)')
    <3>1. CASE Stamp(m) /\ x = m
      <4> received'[x] = now
        BY <3>1 DEF Stamp, TypeOK
      <4> QED
        BY <1>0, <1>1 DEF Deadline
    <3>2. CASE ~(Stamp(m) /\ x = m)
      <4>1. received'[x] = received[x] /\ (phase'[x] = "stamped" => phase[x] = "stamped")
        BY <3>2 DEF Stamp, CommitMeasurement, Remove, TypeOK
      <4> QED
        BY <1>0, <4>1 DEF IInv, TimesOK, Deadline
    <3> QED
      BY <3>1, <3>2
  <2> QED
    BY <1>0, <2>1 DEF IInv, TimesOK
<1>3. ASSUME NEW p \in Rebuilders PROVE RunTimes(p)' /\ Shape(p)'
  BY <1>0 DEF IInv, RunTimes, Shape, Targets
<1>4. \A p \in Rebuilders, q \in Rebuilders : p # q => Apart(p, q)'
  BY <1>0 DEF IInv, Apart
<1>5. ASSUME NEW x \in visible'
      PROVE  /\ x \in Measurements /\ received'[x] = received[x]
             /\ x \in visible \/ (x = m /\ CommitMeasurement(m))
  BY DEF visible, Stamp, CommitMeasurement, Remove, TypeOK
<1>6. ASSUME NEW x \in visible', x \notin visible
      PROVE  now <= Deadline(x)
  BY <1>5, <1>6 DEF CommitMeasurement, IInv, TimesOK
<1>7. ASSUME NEW p \in Rebuilders, NEW x \in visible' PROVE Safe(p, x)'
  <2>1. CASE x \in visible
    BY <1>0, <1>5, <2>1 DEF IInv, Safe, Fresh, Settled, Deadline, ReadsOK, RowsOK, SettledOK,
                            Covers, Targets, Reflected
  <2>2. CASE x \notin visible
    <3>1. /\ run[p].started \in Int /\ Deadline(x) \in Int /\ Deadline(x)' = Deadline(x)
      BY <1>5, RunType, Deadlines DEF Runs, Times, Deadline
    <3>2. run[p].pc # "idle" => run[p].started <= now
      BY DEF IInv, RunTimes
    <3>3. now <= Deadline(x)
      BY <1>6, <2>2
    <3> QED
      BY <1>0, <1>1, <3>1, <3>2, <3>3 DEF Safe, Fresh, Settled
  <2> QED
    BY <2>1, <2>2
<1>8. ASSUME NEW x \in visible'
      PROVE  \/ Reflected(x)'
             \/ \A h \in Hexes : received'[x] >= tile'["combined"][h].updated - Overlap
  <2>1. CASE x \in visible
    BY <1>0, <1>5, <2>1 DEF IInv, NeverMissed, Reflected
  <2>2. CASE x \notin visible
    <3>1. received[x] \in Int /\ now <= received[x] + CommitDelay
      BY <1>5, <1>6, <2>2, Deadlines DEF Deadline
    <3>2. ASSUME NEW h \in Hexes PROVE received[x] >= tile["combined"][h].updated - Overlap
      <4> tile["combined"][h].updated \in Int /\ tile["combined"][h].updated <= now
        BY DEF IInv, TimesOK, Layers, TypeOK, Tiles, Times
      <4> QED
        BY <1>1, <3>1 DEF EnoughOverlap
    <3> QED
      BY <1>0, <1>5, <3>2
  <2> QED
    BY <2>1, <2>2
<1> QED
  BY <1>2, <1>3, <1>4, <1>7, <1>8 DEF IInv, NeverMissed

LEMMA InitSafe == Init => IInv
<1> SUFFICES ASSUME Init PROVE IInv
  OBVIOUS
<1>1. visible = {}
  BY DEF Init, visible
<1>2. TimesOK
  BY DEF Init, TimesOK, NoRows, NoTile
<1>3. ASSUME NEW p \in Rebuilders PROVE RunTimes(p) /\ Shape(p)
  BY DEF Init, RunTimes, Shape, Targets, Idle, NoRows, NoTile
<1>4. \A p \in Rebuilders, q \in Rebuilders : Apart(p, q)
  BY DEF Init, Apart, Idle
<1> QED
  BY <1>1, <1>2, <1>3, <1>4 DEF IInv, NeverMissed

LEMMA NextSafe ==
  ASSUME EnoughOverlap, TypeOK, IInv, [Next]_vars
  PROVE  IInv'
<1>1. CASE UNCHANGED vars
  <2> UNCHANGED <<now, phase, received, tile, run>> /\ visible' = visible
    BY <1>1 DEF vars, visible
  <2>1. TimesOK' /\ \A p \in Rebuilders : RunTimes(p)' /\ Shape(p)'
    BY DEF IInv, TimesOK, Deadline, RunTimes, Shape, Targets
  <2>2. \A p \in Rebuilders, q \in Rebuilders : p # q => Apart(p, q)'
    BY DEF IInv, Apart
  <2>3. ASSUME NEW p \in Rebuilders, NEW m \in visible PROVE Safe(p, m)'
    BY DEF IInv, Safe, Fresh, Settled, Deadline, ReadsOK, RowsOK, SettledOK, Covers, Targets,
           Reflected
  <2>4. NeverMissed'
    BY DEF IInv, NeverMissed, Reflected
  <2> QED
    BY <2>1, <2>2, <2>3, <2>4 DEF IInv
<1>2. CASE Tick
  BY <1>2, TickStep
<1>3. CASE \E m \in Measurements : Stamp(m) \/ CommitMeasurement(m) \/ Remove(m)
  BY <1>3, ArrivalStep
<1>4. CASE \E p \in Rebuilders : StartIncremental(p) \/ StartFull(p) \/ Continue(p) \/ Crash(p)
  BY <1>4, StartStep, DirtyStep, ReadStep, FillStep, FlushStep, DeleteStep, CommitStep, CrashStep
  DEF Continue
<1> QED
  BY <1>1, <1>2, <1>3, <1>4 DEF Next

\* If the overlap covers a transaction and two rebuilds, the window of the next
\* incremental rebuild reaches back to every measurement that the map does not show,
\* however many rebuilds overlap, whatever is removed and whichever of them die.
THEOREM NothingMissed == EnoughOverlap /\ Spec => []NeverMissed
<1>1. Init => IInv
  BY InitSafe
<1>2. EnoughOverlap /\ TypeOK /\ IInv /\ [Next]_vars => IInv'
  BY NextSafe
<1>3. IInv => NeverMissed
  BY DEF IInv
<1>4. EnoughOverlap => [](EnoughOverlap)
  <2>1. EnoughOverlap => EnoughOverlap'
    BY DEF EnoughOverlap
  <2> QED
    BY <2>1, PTL
<1> QED
  BY <1>1, <1>2, <1>3, <1>4, TypeCorrect, PTL DEF Spec

=============================================================================
