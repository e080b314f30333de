----------------------------- MODULE Trajectory -----------------------------
(***************************************************************************)
(* How the server judges the records of one upload against each other      *)
(* (services/validation.py, services/ingest.py): the journey they describe *)
(* must be physically possible.                                            *)
(*                                                                         *)
(* Stops are points on a line and times are integers: the code uses the    *)
(* distance between two places and the time between two readings, nothing  *)
(* else.  Whether a record passes validate_record on its own is its field  *)
(* "sound".  Within an upload record ids are distinct (they are the        *)
(* primary key of the phone's queue), so the position in the upload stands *)
(* for the id.                                                             *)
(*                                                                         *)
(* Definitions whose names begin with Faulty are deliberate mistakes that  *)
(* no specification uses; they confirm that the properties notice them.    *)
(***************************************************************************)
EXTENDS Integers, Sequences, FiniteSets, SequencesExt

CONSTANTS
  Stops,          \* where a reading can be taken, in units of distance along a line
  Moments,
  MinDistance,    \* TRAJECTORY_MIN_DISTANCE_M
  MaxSpeed,       \* max_plausible_speed_mps
  MaxRecords      \* bound: records in one upload (250 in the app, 1000 in the schema)

ASSUME TrajectoryAssumption ==
  /\ Stops \subseteq Int
  /\ Moments \subseteq Int
  /\ MinDistance \in Nat
  /\ MaxSpeed \in Nat
  /\ MaxRecords \in Nat

VARIABLE batch

Records == [at : Moments, place : Stops, sound : BOOLEAN]

Distance(r, s) == IF r.place < s.place THEN s.place - r.place ELSE r.place - s.place

\* The phone can have gone from reading r to the later reading s.
Feasible(r, s) ==
  \/ Distance(r, s) < MinDistance
  \/ s.at > r.at /\ Distance(r, s) <= MaxSpeed * (s.at - r.at)

\* i comes before j in sorted(batch.records, key=captured_at), which is stable.
Before(b, i, j) == b[i].at < b[j].at \/ (b[i].at = b[j].at /\ i < j)

InOrder(b) ==
  [n \in DOMAIN b |->
     CHOOSE i \in DOMAIN b : Cardinality({j \in DOMAIN b : Before(b, j, i)}) = n - 1]

\* Mistake: the reference moves to every record, also to a rejected one.
FaultyCheckTrajectory(b) ==
  LET Judge(acc, i) ==
        [previous |-> i,
         rejected |-> IF acc.previous = 0 \/ Feasible(b[acc.previous], b[i])
                      THEN acc.rejected ELSE acc.rejected \cup {i}]
  IN FoldLeft(Judge, [previous |-> 0, rejected |-> {}], InOrder(b)).rejected

\* check_trajectory: the positions it rejects.  previous is 0 before the first one.
CheckTrajectory(b) ==
  LET Judge(acc, i) ==
        IF acc.previous = 0 \/ Feasible(b[acc.previous], b[i])
        THEN [acc EXCEPT !.previous = i]
        ELSE [acc EXCEPT !.rejected = @ \cup {i}]
  IN FoldLeft(Judge, [previous |-> 0, rejected |-> {}], InOrder(b)).rejected

\* Mistake: only the records that are new are checked for their journey.
FaultyProcessBatch(b, stored) ==
  LET fresh == SetToSortSeq(DOMAIN b \ stored, <)
      jumps == {fresh[k] : k \in CheckTrajectory([k \in DOMAIN fresh |-> b[fresh[k]]])}
      rejected == (jumps \cup {i \in DOMAIN b : ~b[i].sound}) \ stored
  IN [duplicates |-> stored \cap DOMAIN b,
      rejected |-> rejected,
      accepted |-> DOMAIN b \ (rejected \cup stored)]

\* process_batch, when the positions in "stored" are already in the database: the
\* journey is checked over the whole upload, duplicates are passed over, and the
\* rest are judged on their own.
ProcessBatch(b, stored) ==
  LET rejected == (CheckTrajectory(b) \cup {i \in DOMAIN b : ~b[i].sound}) \ stored
  IN [duplicates |-> stored \cap DOMAIN b,
      rejected |-> rejected,
      accepted |-> DOMAIN b \ (rejected \cup stored)]

-----------------------------------------------------------------------------
TrajectoryInit == batch = <<>>

\* Any upload is built record by record.
AddRecord ==
  /\ Len(batch) < MaxRecords
  /\ \E r \in Records : batch' = Append(batch, r)

-----------------------------------------------------------------------------
(* Properties *)

\* S keeps a record exactly if the phone can have come to it from the record that S
\* keeps last before it; the first record is always kept.
KeptByRule(b, S) ==
  \A i \in DOMAIN b :
    i \in S <=> \A j \in S : /\ Before(b, j, i)
                             /\ ~\E k \in S : Before(b, j, k) /\ Before(b, k, i)
                             => Feasible(b[j], b[i])

\* What check_trajectory keeps is the one set of records that follows the rule of its
\* docstring, whatever the order of the upload (services/validation.py:115-123).
KeepsWhatTheRuleSays ==
  \A S \in SUBSET DOMAIN batch :
    KeptByRule(batch, S) <=> S = DOMAIN batch \ CheckTrajectory(batch)

\* An upload whose answer was lost is sent again and judged again, next to what the
\* first attempt stored: it gets the same rejections and stores nothing more
\* (services/ingest.py:155-171).
ResendChangesNothing ==
  LET first == ProcessBatch(batch, {})
      second == ProcessBatch(batch, first.accepted)
  IN /\ second.accepted = {}
     /\ second.rejected = first.rejected
     /\ second.duplicates = first.accepted

=============================================================================
