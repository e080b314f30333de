------------------------------- MODULE Pages -------------------------------
(***************************************************************************)
(* The pages of the web clients, one at a time: the methods note as it is  *)
(* edited, an amount as it grows, the fleet as it reports, the survey as   *)
(* it is measured and rebuilt, and the dashboard pages as they are opened; *)
(* the screen of the phone that registers and the allowance of its speed   *)
(* test; and, behind the survey, the judging of one upload and the passes  *)
(* that place the cells.  `sheet` is the part this behaviour is about; the *)
(* parts share no state, so the others stay as they began.                 *)
(***************************************************************************)
EXTENDS Panels, MethodText, Figures, Fleet, Fetched, Trajectory, Enrolment,
        CellSites, SpeedTest

CONSTANTS
    Sheets,         \* which pages are followed
    MaxLines,       \* bound: lines of the document
    MaxMarks,       \* bound: marks and words of a text
    Amounts         \* the amounts that are printed

AllSheets == {"method", "figure", "fleet", "survey", "dashboard", "upload",
              "phone", "cells", "speedtest"}

ASSUME PagesAssumption ==
    /\ Sheets \subseteq AllSheets
    /\ MaxLines \in Nat /\ MaxMarks \in Nat
    /\ Amounts \subseteq Nat /\ 0 \in Amounts

VARIABLES sheet, doc, text, amount

written == <<doc, text>>
vars == <<sheet, written, amount, crew, tables, fetched, batch, enrolment,
          cellSites, allowance>>

\* The note gains a line, or a text of it a mark or a word.
WriteLine == \E kind \in LineKinds :
    Len(doc) < MaxLines /\ doc' = Append(doc, kind) /\ UNCHANGED text
WriteMark == \E token \in Marks \cup {"word", "other"} :
    Len(text) < MaxMarks /\ text' = Append(text, token) /\ UNCHANGED doc

Grow == \E n \in Amounts : n > amount /\ amount' = n

Init ==
    /\ sheet \in Sheets
    /\ doc = <<>> /\ text = <<>> /\ amount = 0
    /\ FleetInit /\ SurveyInit /\ FetchedInit /\ TrajectoryInit
    /\ EnrolmentInit /\ CellSitesInit /\ SpeedTestInit

EditMethod ==
    /\ sheet = "method"
    /\ \/ text = <<>> /\ WriteLine
       \/ doc = <<>> /\ WriteMark
    /\ UNCHANGED <<sheet, amount, crew, tables, fetched, batch, enrolment, cellSites, allowance>>
PrintFigure ==
    /\ sheet = "figure" /\ Grow
    /\ UNCHANGED <<sheet, written, crew, tables, fetched, batch, enrolment, cellSites, allowance>>
WorkFleet ==
    /\ sheet = "fleet" /\ FleetNext
    /\ UNCHANGED <<sheet, written, amount, tables, fetched, batch, enrolment, cellSites, allowance>>
WorkSurvey ==
    /\ sheet = "survey" /\ SurveyNext
    /\ UNCHANGED <<sheet, written, amount, crew, fetched, batch, enrolment, cellSites, allowance>>
UseDashboard ==
    /\ sheet = "dashboard" /\ FetchedNext
    /\ UNCHANGED <<sheet, written, amount, crew, tables, batch, enrolment, cellSites, allowance>>
JudgeUpload ==
    /\ sheet = "upload" /\ AddRecord
    /\ UNCHANGED <<sheet, written, amount, crew, tables, fetched, enrolment, cellSites, allowance>>

\* Nothing is said of a phone after a registration was overtaken, so it is
\* not followed further.
RegisterPhone ==
    /\ sheet = "phone" /\ ~crossed /\ EnrolmentNext
    /\ UNCHANGED <<sheet, written, amount, crew, tables, fetched, batch, cellSites, allowance>>
PlaceCells ==
    /\ sheet = "cells" /\ CellSitesNext
    /\ UNCHANGED <<sheet, written, amount, crew, tables, fetched, batch, enrolment, allowance>>
\* Nor is anything said of the allowance once a charge was misplaced.
TestSpeed ==
    /\ sheet = "speedtest" /\ ~misplaced /\ SpeedTestNext
    /\ UNCHANGED <<sheet, written, amount, crew, tables, fetched, batch, enrolment, cellSites>>

Next ==
    \/ EditMethod \/ PrintFigure \/ WorkFleet \/ WorkSurvey \/ UseDashboard
    \/ JudgeUpload \/ RegisterPhone \/ PlaceCells \/ TestSpeed

Spec == Init /\ [][Next]_vars

-----------------------------------------------------------------------------
PagesTypeOK ==
    /\ sheet \in Sheets
    /\ doc \in Seq(LineKinds) /\ text \in Seq(Marks \cup {"word", "other"})
    /\ amount \in Amounts
    /\ crew \in Seq([place: Places \cup {Nowhere}, reporting: BOOLEAN, judged: BOOLEAN,
                     mast: [metres: Nat, give: Nat]])
    /\ Len(crew) <= MaxCrew /\ Len(batch) <= MaxRecords
    /\ server \in [measured: SUBSET Operators, dead: BOOLEAN, fleet: BOOLEAN, linked: BOOLEAN]
    /\ open \in DOMAIN PageRequests /\ region \in Regions /\ turn \in 0..MaxTurns
    /\ CellSitesTypeOK /\ SpeedTestTypeOK

\* The values of every page have their types, and no page takes an answer that
\* was asked for by another.
PagesInv == PagesTypeOK /\ PagesHearTheirOwn

\* What is written is shown.  Nothing of the methods note is swallowed: every
\* line is on the page once and in order, and every word of a line is shown
\* (Method.tsx 18-24).
TextIsKept == LinesAreKept(doc) /\ WordsAreKept(text)

\* A larger amount is never printed as a smaller one, and a share is printed
\* as nothing only when it is (coverage.ts 94-156).
FiguresKeepOrder ==
    [][OrderKept(amount, amount') /\ ShareIsHonest(amount')]_amount

\* The tables are built from readings that were taken.
SurveyTypeOK ==
    /\ IsABag(readings) /\ DOMAIN readings \subseteq Kinds /\ IsABag(built)
    /\ built \sqsubseteq readings /\ BagCardinality(readings) <= MaxReadings

\* An upload is judged by the rule of check_trajectory's docstring, and judged
\* the same when it has to be sent again (validation.py 115-150).
UploadIsJudgedByRule == KeepsWhatTheRuleSays /\ ResendChangesNothing

\* The server judges an upload by its rule, and what it makes of the readings
\* it kept is one story: the colours, the figures, the middle reading and the
\* drop below it agree between the map, the inspector, the dashboard and the
\* collector's own page, and the map shows each phone where it reported.
SurveyIsTold ==
    /\ SurveyTypeOK /\ UploadIsJudgedByRule
    /\ OneMeaningPerColour /\ FiguresAgree /\ MajorityDecides /\ DropoutsAreTold
    /\ FleetIsShown

\* What the speed test may spend in a day is kept, and what it spends is told
\* (CollectorPrefs.kt 136-181).
AllowanceIsKept == CeilingHolds /\ TodayIsCharged

=============================================================================
