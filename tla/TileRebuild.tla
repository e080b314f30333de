----------------------------- MODULE TileRebuild -----------------------------
(***************************************************************************)
(* Measurements arriving, and the rebuilds that turn them into map tiles   *)
(* (services/aggregate.py, workers/tasks.py).                              *)
(*                                                                         *)
(* The database runs at READ COMMITTED: every statement of a rebuild sees  *)
(* what had committed when that statement began, so one rebuild combines   *)
(* several snapshots.  A rebuild's own writes lock the rows they touch     *)
(* from the flush to the commit.  A rebuild makes two passes over the same *)
(* statements, one per layer: the combined tiles (h3_tiles) and the tiles  *)
(* of one operator (h3_tile_operators).  The session does not autoflush,   *)
(* so the second layer's rows are written only when the commit flushes.    *)
(*                                                                         *)
(* A count, an average or a median is modelled by the set of measurements  *)
(* it was computed from: "counts" stands for the columns derived from the  *)
(* state counts (colour, score, median, worst), "metrics" for the columns  *)
(* of the metrics query (measurement_count, device_count, averages).       *)
(*                                                                         *)
(* Definitions whose names begin with Faulty are deliberate mistakes that  *)
(* no specification uses; they confirm that the properties notice them.    *)
(***************************************************************************)
EXTENDS Integers, FiniteSets

CONSTANTS
  Measurements,
  Hexes,
  HexOf,          \* the hexagon of a measurement
  Identified,     \* measurements with an operator identity
  Rebuilders,     \* processes that run rebuilds: Celery workers, the admin endpoint
  Overlap,        \* WATERMARK_OVERLAP
  Ceiling,        \* INCREMENTAL_CEILING
  MaxTime,        \* bound: the clock
  CommitDelay,    \* assumed: longest time from received_at to commit
  RunTime,        \* assumed: longest time from a rebuild's first read to its commit
  CanRemove,      \* whether somebody may delete measurements
  MaxCrashes      \* bound: rebuilds that die half way

ASSUME ConstantsAssumption ==
  /\ HexOf \in [Measurements -> Hexes]
  /\ Identified \subseteq Measurements
  /\ Overlap \in Nat
  /\ Ceiling \in Nat
  /\ MaxTime \in Nat
  /\ CommitDelay \in Nat
  /\ RunTime \in Nat
  /\ CanRemove \in BOOLEAN
  /\ MaxCrashes \in Nat

VARIABLES
  now,
  phase,          \* of a measurement: new, stamped (in an open transaction), visible, removed
  received,       \* received_at; -1 before it is stamped
  tile,           \* per layer and hexagon; a row with metrics = {} is no row
  run,            \* the rebuild each process is in
  crashes

vars == <<now, phase, received, tile, run, crashes>>

Layers == {"combined", "operator"}

Times == 0 .. MaxTime

NoTile == [counts |-> {}, metrics |-> {}, updated |-> -1]

Tiles == [counts : SUBSET Measurements, metrics : SUBSET Measurements,
          updated : Times \cup {-1}]

NoRows == [h \in Hexes |-> NoTile]

Idle == [pc |-> "idle", layer |-> "combined", started |-> -1, since |-> -1, full |-> FALSE,
         scope |-> {}, counts |-> {}, metrics |-> {}, loaded |-> NoRows, stamp |-> -1,
         written |-> {}, rows |-> NoRows, dropping |-> "combined", doomed |-> {}, dropped |-> {}]

visible == {m \in Measurements : phase[m] = "visible"}

In(h, S) == {m \in S : HexOf[m] = h}

\* The measurements a layer is about: has_operator_identity for the second.
About(layer) == IF layer = "operator" THEN Identified ELSE Measurements

Present(row) == row.metrics # {}

\* select(func.max(H3Tile.updated_at)); -1 stands for NULL.
IsWatermark(w) ==
  LET stamps == {tile["combined"][h].updated : h \in Hexes} \cup {-1}
  IN w \in stamps /\ \A x \in stamps : x <= w

-----------------------------------------------------------------------------
Init ==
  /\ now = 0
  /\ phase = [m \in Measurements |-> "new"]
  /\ received = [m \in Measurements |-> -1]
  /\ tile = [l \in Layers |-> NoRows]
  /\ run = [p \in Rebuilders |-> Idle]
  /\ crashes = 0

-----------------------------------------------------------------------------
(* Measurements arrive: process_batch stamps received_at at its start and   *)
(* commits at its end.                                                      *)

Stamp(m) ==
  /\ phase[m] = "new"
  /\ phase' = [phase EXCEPT ![m] = "stamped"]
  /\ received' = [received EXCEPT ![m] = now]
  /\ UNCHANGED <<now, tile, run, crashes>>

CommitMeasurement(m) ==
  /\ phase[m] = "stamped"
  /\ phase' = [phase EXCEPT ![m] = "visible"]
  /\ UNCHANGED <<now, received, tile, run, crashes>>

\* Measurements are deleted by hand, the simulated pilot data for one.
Remove(m) ==
  /\ CanRemove
  /\ phase[m] = "visible"
  /\ phase' = [phase EXCEPT ![m] = "removed"]
  /\ UNCHANGED <<now, received, tile, run, crashes>>

\* Time passes, but not beyond what a transaction or a rebuild may take.
Tick ==
  /\ now < MaxTime
  /\ \A m \in Measurements : phase[m] = "stamped" => now < received[m] + CommitDelay
  /\ \A p \in Rebuilders : run[p].pc # "idle" => now < run[p].started + RunTime
  /\ now' = now + 1
  /\ UNCHANGED <<phase, received, tile, run, crashes>>

-----------------------------------------------------------------------------
(* One rebuild, statement by statement *)

\* Process p goes on at pc with its local state changed to r.
Goto(p, pc, r) ==
  /\ run' = [run EXCEPT ![p] = [r EXCEPT !.pc = pc]]
  /\ UNCHANGED <<now, phase, received, tile, crashes>>

\* Mistake: the window begins at the watermark.
FaultyStartIncremental(p) ==
  /\ run[p].pc = "idle"
  /\ \E w \in Times \cup {-1} :
       /\ IsWatermark(w)
       /\ IF w = -1
          THEN Goto(p, "counts", [Idle EXCEPT !.started = now, !.full = TRUE])
          ELSE Goto(p, "dirty", [Idle EXCEPT !.started = now, !.since = w])

\* _incremental reads the watermark; without one the rebuild is a full one.
StartIncremental(p) ==
  /\ run[p].pc = "idle"
  /\ \E w \in Times \cup {-1} :
       /\ IsWatermark(w)
       /\ IF w = -1
          THEN Goto(p, "counts", [Idle EXCEPT !.started = now, !.full = TRUE])
          ELSE Goto(p, "dirty", [Idle EXCEPT !.started = now, !.since = w - Overlap])

\* _full, and the admin endpoint.
StartFull(p) ==
  /\ run[p].pc = "idle"
  /\ Goto(p, "counts", [Idle EXCEPT !.started = now, !.full = TRUE])

\* Mistake: what was received at the edge of the window is left out.
FaultyDirtyIndexes(since) == {HexOf[m] : m \in {x \in visible : received[x] > since}}

\* The hexagons that anything reached in the window (_dirty_indexes).
DirtyIndexes(since) == {HexOf[m] : m \in {x \in visible : received[x] >= since}}

ReadDirty(p) ==
  /\ run[p].pc = "dirty"
  /\ LET dirty == DirtyIndexes(run[p].since)
     IN \/ dirty = {} /\ Goto(p, "idle", Idle)
        \/ /\ dirty # {} /\ Cardinality(dirty) <= Ceiling
           /\ Goto(p, "counts", [run[p] EXCEPT !.scope = dirty, !.since = -1])
        \/ /\ Cardinality(dirty) > Ceiling
           /\ Goto(p, "counts", [run[p] EXCEPT !.full = TRUE, !.since = -1])

\* Mistake: the second layer is rebuilt for the dirty hexagons only, in a full
\* rebuild too.
FaultySeen(p) ==
  {m \in visible \cap About(run[p].layer) :
     \/ run[p].full /\ run[p].layer = "combined"
     \/ HexOf[m] \in run[p].scope}

\* The measurements a query of this rebuild aggregates.  The scope restricts
\* the hexagons, never the history they are computed from.
Seen(p) ==
  {m \in visible \cap About(run[p].layer) : run[p].full \/ HexOf[m] \in run[p].scope}

StateCounts(p) ==
  /\ run[p].pc = "counts"
  /\ Goto(p, "metrics", [run[p] EXCEPT !.counts = Seen(p)])

TileMetrics(p) ==
  /\ run[p].pc = "metrics"
  /\ Goto(p, "load", [run[p] EXCEPT !.metrics = Seen(p)])

Targets(p) == {HexOf[m] : m \in run[p].metrics}

\* Mistake: nothing is ever deleted.
FaultyAfterFill(p) == IF run[p].layer = "combined" THEN "flush" ELSE "commit"

\* Where a rebuild goes after its second layer's loop.
AfterFill(p) ==
  CASE run[p].layer = "combined" -> "flush"
    [] run[p].layer = "operator" /\ run[p].full -> "doom"
    [] OTHER -> "commit"

LoadExisting(p) ==
  /\ run[p].pc = "load"
  /\ Goto(p, "fill", [run[p] EXCEPT !.loaded =
       [h \in Hexes |-> IF h \in Targets(p) THEN tile[run[p].layer][h] ELSE NoTile]])

\* The loop: the rows are filled in memory and stamped with the time.
Fill(p) ==
  /\ run[p].pc = "fill"
  /\ Goto(p, AfterFill(p), [run[p] EXCEPT !.stamp = now])

\* A row this transaction has itself deleted leaves the session.
ToFlush(p) == {h \in Targets(p) : <<run[p].layer, h>> \notin run[p].dropped}

Locked(p, layer, h) ==
  \E q \in Rebuilders \ {p} :
    \/ layer = "combined" /\ h \in run[q].written
    \/ <<layer, h>> \in run[q].dropped

\* A row that was there when it was loaded is gone, or the other way round:
\* StaleDataError or a primary key conflict, and the transaction rolls back.
RowsMoved(p) ==
  \E h \in ToFlush(p) : Present(tile[run[p].layer][h]) # Present(run[p].loaded[h])

\* The row as this transaction leaves it.  The ORM writes the columns whose value
\* differs from the one loaded; updated_at always does.
Written(p, h) ==
  LET current == tile[run[p].layer][h]
      loaded == run[p].loaded[h]
      Column(old, was, computed) == IF computed = was THEN old ELSE computed
  IN [counts  |-> Column(current.counts, loaded.counts, In(h, run[p].counts)),
      metrics |-> Column(current.metrics, loaded.metrics, In(h, run[p].metrics)),
      updated |-> run[p].stamp]

\* await session.flush(): waits for the rows' locks, then holds them.
Flush(p) ==
  /\ run[p].pc = "flush"
  /\ \A h \in ToFlush(p) : ~Locked(p, "combined", h)
  /\ IF RowsMoved(p)
     THEN Goto(p, "idle", Idle)
     ELSE Goto(p, "counts", [run[p] EXCEPT
            !.layer = "operator", !.written = Targets(p),
            !.rows = [h \in Hexes |-> IF h \in Targets(p) THEN Written(p, h) ELSE NoTile],
            !.counts = {}, !.metrics = {}, !.loaded = NoRows])

\* The rows of a layer that this transaction sees, and that no measurement it sees
\* supports: the DELETE takes its snapshot when it begins.
Unsupported(p, layer) ==
  {h \in Hexes :
     /\ Present(tile[layer][h]) \/ (layer = "combined" /\ h \in run[p].written)
     /\ In(h, visible \cap About(layer)) = {}}

\* _drop_stale_tiles, then _drop_stale_operator_tiles: a DELETE picks its rows ...
Doom(p) ==
  /\ run[p].pc = "doom"
  /\ Goto(p, "drop", [run[p] EXCEPT !.doomed = Unsupported(p, run[p].dropping)])

\* ... and waits for their locks; a row that has gone meanwhile is passed over.
Drop(p) ==
  /\ run[p].pc = "drop"
  /\ LET layer == run[p].dropping
         gone == {<<layer, h>> : h \in {x \in run[p].doomed :
                    Present(tile[layer][x]) \/ (layer = "combined" /\ x \in run[p].written)}}
     IN /\ \A h \in run[p].doomed : ~Locked(p, layer, h)
        /\ Goto(p, IF layer = "combined" THEN "doom" ELSE "commit",
                [run[p] EXCEPT !.dropped = @ \cup gone, !.doomed = {}, !.dropping = "operator"])

\* The second layer is flushed by the commit itself.
Committed(p, layer, h) ==
  IF <<layer, h>> \in run[p].dropped THEN NoTile
  ELSE CASE layer = "combined" /\ h \in run[p].written -> run[p].rows[h]
         [] layer = "operator" /\ h \in Targets(p) -> Written(p, h)
         [] OTHER -> tile[layer][h]

Commit(p) ==
  /\ run[p].pc = "commit"
  /\ \A h \in ToFlush(p) : ~Locked(p, "operator", h)
  /\ tile' = IF RowsMoved(p) THEN tile
              ELSE [l \in Layers |-> [h \in Hexes |-> Committed(p, l, h)]]
  /\ run' = [run EXCEPT ![p] = Idle]
  /\ UNCHANGED <<now, phase, received, crashes>>

\* The process dies or the connection drops: the transaction rolls back.
Crash(p) ==
  /\ crashes < MaxCrashes
  /\ run[p].pc # "idle"
  /\ run' = [run EXCEPT ![p] = Idle]
  /\ crashes' = crashes + 1
  /\ UNCHANGED <<now, phase, received, tile>>

-----------------------------------------------------------------------------
\* What a process does when it is scheduled to go on.
Continue(p) ==
  \/ ReadDirty(p) \/ StateCounts(p) \/ TileMetrics(p) \/ LoadExisting(p) \/ Fill(p)
  \/ Flush(p) \/ Doom(p) \/ Drop(p) \/ Commit(p)

Next ==
  \/ \E m \in Measurements : Stamp(m) \/ CommitMeasurement(m) \/ Remove(m)
  \/ Tick
  \/ \E p \in Rebuilders : StartIncremental(p) \/ StartFull(p) \/ Continue(p) \/ Crash(p)

Spec == Init /\ [][Next]_vars

\* The API commits what it has stamped, a scheduled process goes on (Postgres queues
\* the waiters of a row lock, hence SF), and beat schedules an incremental rebuild
\* every minute.
MinuteSpec ==
  /\ Spec
  /\ \A m \in Measurements : WF_vars(CommitMeasurement(m))
  /\ \A p \in Rebuilders : SF_vars(Continue(p)) /\ WF_vars(StartIncremental(p))

\* With the nightly full rebuild as well, which may wait for the others but is
\* not kept from starting for ever.
NightlySpec == MinuteSpec /\ \A p \in Rebuilders : SF_vars(StartFull(p))

-----------------------------------------------------------------------------
(* Properties *)

\* The type invariant.
TypeOK ==
  /\ now \in Times
  /\ phase \in [Measurements -> {"new", "stamped", "visible", "removed"}]
  /\ received \in [Measurements -> Times \cup {-1}]
  /\ tile \in [Layers -> [Hexes -> Tiles]]
  /\ crashes \in 0 .. MaxCrashes
  /\ run \in [Rebuilders ->
       [pc : {"idle", "dirty", "counts", "metrics", "load", "fill", "flush", "doom", "drop",
              "commit"},
        layer : Layers, started : Times \cup {-1}, since : Int, full : BOOLEAN,
        scope : SUBSET Hexes, counts : SUBSET Measurements, metrics : SUBSET Measurements,
        loaded : [Hexes -> Tiles], stamp : Times \cup {-1}, written : SUBSET Hexes,
        rows : [Hexes -> Tiles], dropping : Layers, doomed : SUBSET Hexes,
        dropped : SUBSET (Layers \X Hexes)]]

\* Measurement m is in every column of the rows it belongs to.
Reflected(m) ==
  \A l \in Layers : m \in About(l) =>
    m \in tile[l][HexOf[m]].counts \cap tile[l][HexOf[m]].metrics

\* A stored measurement that the map does not show yet is still in the window of the
\* next incremental rebuild: "missing one is not [free]" (workers/tasks.py:19-24).
NeverMissed ==
  \A m \in visible :
    \/ Reflected(m)
    \/ \A h \in Hexes : received[m] >= tile["combined"][h].updated - Overlap

\* Each tile ends up made of exactly the stored measurements of its hexagon, its whole
\* history and in both layers; with measurements being removed this takes the nightly
\* full rebuild (services/aggregate.py:170-171, workers/tasks.py:62-66).
EventuallyExact ==
  <>[](\A l \in Layers, h \in Hexes :
         /\ tile[l][h].counts = In(h, visible \cap About(l))
         /\ tile[l][h].metrics = In(h, visible \cap About(l)))

=============================================================================
