------------------------------- MODULE Fleet -------------------------------
(***************************************************************************)
(* The fleet on the map and in the table: MapView.tsx's markers and the    *)
(* lines to the serving masts, and Collectors.tsx.                         *)
(*                                                                         *)
(* `crew` is the list the server answers with, one row per identity that   *)
(* ever enrolled: where it last reported from (None before its first       *)
(* reading), whether it has uploaded within the reporting window, whether  *)
(* any of its records was ever judged, and the estimated distance to the   *)
(* mast that served it, with what the two estimates may be off by.  The    *)
(* rows come in the order of their last contact.  `FaultyUpload`,          *)
(* `FaultyGrouped` and `FaultyLinkLabel` are mistakes the properties       *)
(* catch.                                                                  *)
(***************************************************************************)
EXTENDS Naturals, Sequences, FiniteSets, SequencesExt

CONSTANTS
    Places,         \* hexagon centres
    Distances,      \* metres a phone may be from its mast
    Gives,          \* what a distance may be off by
    MaxCrew,        \* bound: identities enrolled, of which the server lists 200
    Nowhere

\* The server adds half the width of a hexagon to what a mast may be off by:
\* this much where one covers 0.01 km2, and they are larger.  And it answers
\* with so many rows.
HalfAHexagon == 50
ListedAtMost == 200

ASSUME FleetAssumption ==
    /\ Distances \subseteq Nat
    /\ Gives \subseteq Nat /\ \A g \in Gives : g >= HalfAHexagon
    /\ MaxCrew \in 0..ListedAtMost /\ Nowhere \notin Places

VARIABLE crew

Mast(metres, give) == [metres |-> metres, give |-> give]
NoMast == Mast(0, 0)

\* A phone enrols: an identity with neither readings nor a place.  A phone
\* that is reinstalled cannot resume its identity and enrols another.
Enrol ==
    /\ Len(crew) < MaxCrew
    /\ crew' = <<[place |-> Nowhere, reporting |-> TRUE, judged |-> FALSE,
                  mast |-> NoMast]>> \o crew

\* The upload adds a row.
FaultyUpload(i, place, mast) ==
    crew' = <<[place |-> place, reporting |-> TRUE, judged |-> TRUE, mast |-> mast]>> \o crew

\* It uploads from a hexagon, and comes first in the list.
Upload(i, place, mast) ==
    crew' = <<[place |-> place, reporting |-> TRUE, judged |-> TRUE, mast |-> mast]>>
            \o RemoveAt(crew, i)

\* Every record of an upload is refused: the place is not a newer one.
UploadRefused(i) ==
    crew' = <<[crew[i] EXCEPT !.reporting = TRUE, !.judged = TRUE]>> \o RemoveAt(crew, i)

\* A phone that kept its key enrols again under the same identity.
EnrolAgain(i) == crew' = <<[crew[i] EXCEPT !.reporting = TRUE]>> \o RemoveAt(crew, i)

\* The reporting window passes; the place stays.
FallSilent(i) ==
    /\ crew[i].reporting
    /\ crew' = [crew EXCEPT ![i].reporting = FALSE]

FleetInit == crew = <<>>
FleetNext ==
    \/ Enrol
    \/ \E i \in DOMAIN crew :
          \/ FallSilent(i) \/ UploadRefused(i) \/ EnrolAgain(i)
          \/ \E place \in Places :
                \/ Upload(i, place, NoMast)
                \/ \E m \in Distances, g \in Gives : Upload(i, place, Mast(m, g))

\* The marker takes after the last phone of its place.
FaultyGrouped(grouped, row) ==
    LET here == IF row.reporting THEN 1 ELSE 0
    IN  IF row.place = Nowhere THEN grouped
        ELSE IF row.place \in DOMAIN grouped
             THEN [grouped EXCEPT
                      ![row.place] = [count |-> @.count + here,
                                      live |-> row.reporting]]
             ELSE [p \in DOMAIN grouped \cup {row.place} |->
                      IF p = row.place THEN [count |-> here, live |-> row.reporting]
                      ELSE grouped[p]]

-----------------------------------------------------------------------------
\* One step of the reduce in `collectorPoints`: `grouped` is a function from
\* places to markers.
Grouped(grouped, row) ==
    LET here == IF row.reporting THEN 1 ELSE 0
    IN  IF row.place = Nowhere THEN grouped
        ELSE IF row.place \in DOMAIN grouped
             THEN [grouped EXCEPT
                      ![row.place] = [count |-> @.count + here,
                                      live |-> @.live \/ row.reporting]]
             ELSE [p \in DOMAIN grouped \cup {row.place} |->
                      IF p = row.place THEN [count |-> here, live |-> row.reporting]
                      ELSE grouped[p]]

CollectorPoints == FoldLeft(LAMBDA grouped, row : Grouped(grouped, row), <<>>, crew)

\* Rounded to the nearest multiple of `unit`, halves up.
Rounded(n, unit) == ((2 * n + unit) \div (2 * unit)) * unit

Unclear == Mast(0, 0)

\* The distance is printed whatever it may be off by.
FaultyLinkLabel(mast) ==
    IF mast.metres >= 1000
    THEN Mast(Rounded(mast.metres, 100), Rounded(mast.give, 100))
    ELSE Mast(Rounded(mast.metres, 50), Rounded(mast.give, 50))

\* Kilometres with one decimal from 1000 m up, fifties of metres below; no
\* figure at all when the estimate may be off by as much as it says.
LinkLabel(mast) ==
    IF mast.give >= mast.metres THEN Unclear
    ELSE IF mast.metres >= 1000
         THEN Mast(Rounded(mast.metres, 100), Rounded(mast.give, 100))
         ELSE Mast(Rounded(mast.metres, 50), Rounded(mast.give, 50))

\* Drawn at full strength below this, faint above.
VagueUncertainty == 2000
Vague(mast) == mast.give >= VagueUncertainty

Links ==
    {[from |-> crew[i].place, label |-> LinkLabel(crew[i].mast),
      vague |-> Vague(crew[i].mast)] :
        i \in {j \in DOMAIN crew : crew[j].place # Nowhere /\ crew[j].mast # NoMast}}

\* The table keeps apart the identities that have never sent a reading.
Sent(row) == row.judged
Reporting == {i \in DOMAIN crew : Sent(crew[i])}
Dormant == {i \in DOMAIN crew : ~Sent(crew[i])}

-----------------------------------------------------------------------------
At(place) == {i \in DOMAIN crew : crew[i].place = place}

\* One marker per hexagon some phone last reported from.  Its number is that
\* of the phones there that still report, it is hollow exactly when none
\* does, and together the markers count every reporting phone that has a
\* place, however many identities a reinstalled phone has left behind and in
\* whatever order the rows come (MapView.tsx 622-670).  No identity the table
\* sets apart as dormant stands under a marker (Collectors.tsx 39-48).
MarkersShowTheFleet ==
    LET points == CollectorPoints
        live(S) == {i \in S : crew[i].reporting}
    IN  /\ DOMAIN points = {p \in Places : At(p) # {}}
        /\ \A p \in DOMAIN points :
              /\ points[p].count = Cardinality(live(At(p)))
              /\ points[p].live = (points[p].count > 0)
        /\ SumFunction([p \in DOMAIN points |-> points[p].count])
             = Cardinality(live({i \in DOMAIN crew : crew[i].place # Nowhere}))
        /\ \A i \in Dormant : \A p \in DOMAIN points : crew[i].place # p

\* A distance printed beside a line never claims more than is known: it is
\* more than it may be off by as printed too, or at least as much, it is
\* never "± 0", and what is printed covers what was estimated to within the
\* last figure printed (linkLabel; coverage.py adds half a hexagon to every
\* uncertainty, so `Gives` holds no value below that).
LabelsStayModest ==
    \A link \in Links :
        link.label # Unclear =>
            /\ 0 < link.label.give /\ link.label.give <= link.label.metres
            /\ \E i \in At(link.from) :
                  /\ LinkLabel(crew[i].mast) = link.label
                  /\ crew[i].mast.give < crew[i].mast.metres

\* The layer of the collectors shows the fleet as it is, and no more exactly
\* than it is known.
FleetIsShown == MarkersShowTheFleet /\ LabelsStayModest

=============================================================================
