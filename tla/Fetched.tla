------------------------------ MODULE Fetched ------------------------------
(***************************************************************************)
(* The pages of the dashboard that fetch for themselves: Networks, with    *)
(* the Towers table under it, Priority, Collectors and MyCollection.  A    *)
(* page asks when it opens and aborts what it asked when it closes; Towers *)
(* asks again when another area is chosen, and keeps its rows meanwhile.   *)
(* What a request found is kept apart from whether it was answered,        *)
(* because most of these pages swallow a failure and cannot tell it from   *)
(* an empty answer.                                                        *)
(*                                                                         *)
(* The server is what its tables hold, and it changes as the fleet works.  *)
(* `FaultyClosed` is a mistake the property catches.                       *)
(***************************************************************************)
EXTENDS Naturals, FiniteSets

CONSTANTS
    Operators,      \* the networks of the country
    Regions,        \* what the towers can be narrowed to, the country included
    Country,
    MaxTurns        \* bound: openings and choices of an area

ASSUME FetchedAssumption == Country \in Regions /\ MaxTurns \in Nat

VARIABLES
    server,         \* networks with hexagons, dead zones, phones, my phones
    open,           \* the page, or "map"
    region,         \* the area chosen on the map
    asked,          \* requests under way, each with the turn it was sent in
    got,            \* what the open page holds of each request
    turn            \* openings and choices so far

fetched == <<server, open, region, asked, got, turn>>

PageRequests ==
    [map |-> {}, networks |-> {"operators", "catalogue", "towers"},
     priority |-> {"priority"}, collectors |-> {"collectors"},
     mine |-> {"devices", "summary"}]
Requests == {"operators", "catalogue", "towers", "priority", "collectors",
             "devices", "summary"}

\* A page starts with nothing; "of" is the turn and the area asked about.
Nothing == [is |-> "nothing"]
Failed == [is |-> "failed"]
Answer(rows, of) == [is |-> "answer", rows |-> rows, of |-> of]

\* The server's answer, from its tables as they are.
AnswerTo(request) ==
    CASE request = "operators" -> server.measured
      [] request = "catalogue" -> server.measured
      [] request = "towers" -> Operators
      [] request = "priority" -> IF server.dead THEN {"hexagon"} ELSE {}
      [] request = "collectors" -> IF server.fleet THEN {"phone"} ELSE {}
      [] request = "devices" -> IF server.linked THEN {"phone"} ELSE {}
      [] request = "summary" -> IF server.linked THEN {"figures"} ELSE {}

Ask(requests, area) == {[request |-> r, turn |-> turn + 1, area |-> area] : r \in requests}

FaultyClosed(ongoing) == ongoing

\* What stays under way when the page closes: nothing, they are aborted.
Closed(ongoing) == {}

\* What stays under way when another area is asked about.
Superseded(ongoing) == {a \in ongoing : a.request # "towers"}

Empty == [r \in Requests |-> Nothing]

\* The page is opened, and the one that was open is unmounted with what it
\* held.
Open(page) ==
    /\ turn < MaxTurns /\ page # open
    /\ open' = page
    /\ got' = Empty
    /\ asked' = Closed(asked) \cup Ask(PageRequests[page], region)
    /\ turn' = turn + 1
    /\ UNCHANGED <<server, region>>

\* Another area is chosen, on the map or from the page's own filter.
Choose(area) ==
    /\ turn < MaxTurns /\ area # region
    /\ region' = area
    /\ turn' = turn + 1
    /\ asked' = IF open = "networks"
                THEN Superseded(asked) \cup Ask({"towers"}, area)
                ELSE asked
    /\ UNCHANGED <<server, open, got>>

\* An answer arrives and is put in its place.
Answered(a) ==
    /\ a \in asked
    /\ asked' = asked \ {a}
    /\ got' = [got EXCEPT ![a.request] = Answer(AnswerTo(a.request), [turn |-> a.turn, area |-> a.area])]
    /\ UNCHANGED <<server, open, region, turn>>

\* A request fails.  Only the phones of one's own page are then emptied; any
\* other page keeps what it had.
Refused(a) ==
    /\ a \in asked
    /\ asked' = asked \ {a}
    /\ got' = [got EXCEPT ![a.request] =
                  IF a.request = "devices" \/ @ = Nothing THEN Failed ELSE @]
    /\ UNCHANGED <<server, open, region, turn>>

\* The fleet measures, enrols, is assigned: the tables only gain.
ServerGains ==
    /\ \/ \E n \in Operators \ server.measured :
             server' = [server EXCEPT !.measured = @ \cup {n}]
       \/ ~server.dead /\ server' = [server EXCEPT !.dead = TRUE]
       \/ ~server.fleet /\ server' = [server EXCEPT !.fleet = TRUE]
       \/ server.fleet /\ ~server.linked /\ server' = [server EXCEPT !.linked = TRUE]
    /\ UNCHANGED <<open, region, asked, got, turn>>

FetchedInit ==
    /\ server = [measured |-> {}, dead |-> FALSE, fleet |-> FALSE, linked |-> FALSE]
    /\ open = "map" /\ region = Country /\ asked = {} /\ got = Empty /\ turn = 0

FetchedNext ==
    \/ \E page \in DOMAIN PageRequests : Open(page)
    \/ \E area \in Regions : Choose(area)
    \/ \E a \in asked : Answered(a) \/ Refused(a)
    \/ ServerGains

-----------------------------------------------------------------------------
(* What the pages show *)

Rows(request) == IF got[request].is = "answer" THEN got[request].rows ELSE {}

\* The networks with figures, then the known ones without.
MeasuredRows == Rows("operators")
UnmeasuredRows ==
    IF got["catalogue"].is = "answer" THEN Operators \ Rows("catalogue") ELSE {}

\* "No phone is linked to this account", as opposed to a table.
MineSaysNone == got["devices"] # Nothing /\ Rows("devices") = {}

-----------------------------------------------------------------------------
\* An open page holds answers to its own requests only, none is under way for
\* a page that is closed, and the towers it shows, when nothing is under way
\* and the last request did not fail, are those of the area chosen last: an
\* answer that was asked for earlier never lands on top of a later one
\* (the abort in every page's effect, Towers.tsx 23-31).
PagesHearTheirOwn ==
    /\ \A r \in Requests : got[r] # Nothing => r \in PageRequests[open]
    /\ \A a \in asked : a.request \in PageRequests[open]
    /\ \A a, b \in asked : a.request = b.request => a = b
    /\ \A a \in asked : a.request = "towers" => a.area = region
    /\ got["towers"].is = "answer" =>
          \A a \in asked : a.request = "towers" => a.turn > got["towers"].of.turn

\* "No phone is linked to this account" is said only when the server has
\* answered that none is (MyCollection.tsx 41: "Not an error.").  The code does
\* not keep this: see README, Disagreements.
NoPhonesIsAnAnswer ==
    open = "mine" /\ MineSaysNone => got["devices"].is = "answer"
=============================================================================
