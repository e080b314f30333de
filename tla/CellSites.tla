----------------------------- MODULE CellSites -----------------------------
(***************************************************************************)
(* The table of observed cells and the passes that replace it              *)
(* (scripts/estimate_cell_sites.py, models/cell.py).  A pass reads the     *)
(* whole history in a session of its own, works the estimates out, and     *)
(* deletes and inserts in one transaction.  It is started every two        *)
(* minutes on either of two workers, whether or not the last one has       *)
(* ended, and can be started by hand besides, so passes overlap.           *)
(*                                                                         *)
(* A row is known by its cell and by the pass that wrote it: where a cell  *)
(* is placed is a function of what that pass read.  The database runs at   *)
(* PostgreSQL's default isolation: a statement sees the rows committed     *)
(* when it began, waits for a transaction that holds one of them, and      *)
(* skips those which that transaction deleted.                             *)
(* `FaultyInsertCell` and `FaultyDeleteRows` are mistakes the properties   *)
(* catch.                                                                  *)
(***************************************************************************)
EXTENDS Naturals, Sequences, FiniteSets

CONSTANTS
    Cells,              \* (mcc, mnc, lac_tac, cid)
    MinObservations,    \* MIN_OBSERVATIONS
    MaxHeard,           \* bound: readings of one cell
    MaxPasses           \* bound: passes

ASSUME CellSitesAssumption ==
    /\ IsFiniteSet(Cells)
    /\ MinObservations \in Nat \ {0} /\ MaxHeard \in Nat /\ MaxPasses \in Nat

VARIABLES
    heard,      \* how many readings name each cell
    rows,       \* observed_cells, as committed
    passes      \* every pass so far, in the order they read

cellSites == <<heard, rows, passes>>

Histories == [Cells -> 0..MaxHeard]
CellRows == [cell : Cells, pass : 1..MaxPasses]
Passes == [read : Histories, step : {"estimated", "deleting", "inserting", "written", "failed"},
           seen : SUBSET CellRows, gone : SUBSET CellRows, added : SUBSET Cells]

CellSitesInit == heard = [c \in Cells |-> 0] /\ rows = {} /\ passes = <<>>

\* The cells heard often enough to be considered at all.
Estimates(history) == {c \in Cells : history[c] >= MinObservations}

RowsOf(p) == [cell : Estimates(passes[p].read), pass : {p}]

PassAt(p, step) == passes[p].step = step
Others(p) == DOMAIN passes \ {p}

\* A reading that names the cell arrives; nothing deletes one.
HearCell(c) ==
    /\ heard[c] < MaxHeard
    /\ heard' = [heard EXCEPT ![c] = @ + 1]
    /\ UNCHANGED <<rows, passes>>

ReadHistory ==
    /\ Len(passes) < MaxPasses
    /\ passes' = Append(passes, [read |-> heard, step |-> "estimated", seen |-> {},
                                 gone |-> {}, added |-> {}])
    /\ UNCHANGED <<heard, rows>>

BeginDelete(p) ==
    /\ PassAt(p, "estimated")
    /\ passes' = [passes EXCEPT ![p].step = "deleting", ![p].seen = rows]
    /\ UNCHANGED <<heard, rows>>

\* The deletion is committed by itself, before the insertion.
FaultyDeleteRows(p) ==
    /\ PassAt(p, "deleting")
    /\ \A q \in Others(p) : passes[q].gone \cap passes[p].seen = {}
    /\ rows' = rows \ passes[p].seen
    /\ passes' = [passes EXCEPT ![p].step = "inserting"]
    /\ UNCHANGED heard

DeleteRows(p) ==
    /\ PassAt(p, "deleting")
    /\ \A q \in Others(p) : passes[q].gone \cap passes[p].seen = {}
    /\ passes' = [passes EXCEPT ![p].step = "inserting",
                                ![p].gone = passes[p].seen \cap rows]
    /\ UNCHANGED <<heard, rows>>

Unwritten(p) == Estimates(passes[p].read) \ passes[p].added

\* The identity of a cell is not unique in the table.
FaultyInsertCell(p, c) ==
    /\ PassAt(p, "inserting") /\ c \in Unwritten(p)
    /\ passes' = [passes EXCEPT ![p].added = @ \cup {c}]
    /\ UNCHANGED <<heard, rows>>

\* ix_observed_cells_identity: the insertion waits for a transaction that
\* is inserting or deleting the same cell, and is refused when the table
\* keeps a row of it; a refused pass fails (Abandon), as it does when two
\* passes wait for each other.
InsertCell(p, c) ==
    /\ PassAt(p, "inserting") /\ c \in Unwritten(p)
    /\ \A q \in Others(p) : c \notin passes[q].added
    /\ ~ \E row \in rows \ passes[p].gone : row.cell = c
    /\ passes' = [passes EXCEPT ![p].added = @ \cup {c}]
    /\ UNCHANGED <<heard, rows>>

Ended(p, step) ==
    [passes EXCEPT ![p] = [@ EXCEPT !.step = step, !.seen = {}, !.gone = {}, !.added = {}]]

CommitRows(p) ==
    /\ PassAt(p, "inserting") /\ Unwritten(p) = {}
    /\ rows' = (rows \ passes[p].gone) \cup [cell : passes[p].added, pass : {p}]
    /\ passes' = Ended(p, "written")
    /\ UNCHANGED heard

\* The pass is refused, killed or a dry run: its transaction is undone.
Abandon(p) ==
    /\ passes[p].step \notin {"written", "failed"}
    /\ passes' = Ended(p, "failed")
    /\ UNCHANGED <<heard, rows>>

CellSitesNext ==
    \/ \E c \in Cells : HearCell(c)
    \/ ReadHistory
    \/ \E p \in DOMAIN passes :
        \/ BeginDelete(p) \/ DeleteRows(p) \/ CommitRows(p) \/ Abandon(p)
        \/ \E c \in Cells : InsertCell(p, c)

-----------------------------------------------------------------------------
\* Whoever reads the table sees all the rows of one pass and no others,
\* whichever passes overlapped, clashed or died: the promise of
\* estimate_cell_sites_task's docstring, that a reader sees the previous set
\* or the new one.  The rows are kept apart only by the unique index and by
\* any two passes that place a cell at all placing one in common.
CellsAreOfOnePass ==
    \/ rows = {} /\ \A p \in DOMAIN passes : ~PassAt(p, "written")
    \/ \E p \in DOMAIN passes : PassAt(p, "written") /\ rows = RowsOf(p)

CellSitesTypeOK ==
    heard \in Histories /\ rows \subseteq CellRows /\ passes \in Seq(Passes)
=============================================================================
