------------------------------ MODULE Console -------------------------------
(***************************************************************************)
(* The dashboard as one page: the door, the menu, and the views it leads   *)
(* to.  The session decides what is offered and the view decides what is   *)
(* mounted: the area filter of the map, the approval queue, or a page that *)
(* asks its questions when it is opened and drops the answers when it is   *)
(* left.  Composes Door, AreaFilter and UsersPage; the map itself is in    *)
(* MapView, its data in MapData.  Definitions whose names begin with       *)
(* Faulty are deliberate mistakes that no specification uses.              *)
(***************************************************************************)
EXTENDS Door, AreaFilter, UsersPage

VARIABLES
    view,           \* the page of the menu that is shown
    parts,          \* the questions of that page
    shortcut        \* requests for the worst area, by which the map is shown

pageVars == <<view, parts, shortcut>>
consoleVars == <<doorVars, filterVars, usersVars, pageVars, budget>>

Views == {"map", "overview", "priority", "networks", "collectors", "method", "mine", "users"}

(* The menu: what each role is offered. *)
Offered(role) ==
    CASE role = "collector" -> {"map", "mine"}
      [] role = "operator"  -> {"map", "networks", "method"}
      [] OTHER -> {"map", "overview", "priority", "networks", "collectors", "method"}
                    \cup IF role = "super_admin" THEN {"users"} ELSE {}

(* The questions a page asks when it is opened: OperatorCoverage, Networks *)
(* and the towers of the area chosen on the map; the priority list; the    *)
(* fleet; a collector's own handsets and figures.                          *)
AllParts == {"operators", "networks", "towers", "priority", "fleet", "devices", "figures"}
PartsOf(v) ==
    CASE v = "networks"   -> {"operators", "networks", "towers"}
      [] v = "priority"   -> {"priority"}
      [] v = "collectors" -> {"fleet"}
      [] v = "mine"       -> {"devices", "figures"}
      [] OTHER            -> {}
Answers == {"idle", "waiting", "rows", "none", "failed"}

PagesTypeOK ==
    /\ view \in Views
    /\ parts \in [AllParts -> Answers]
    /\ shortcut \in Nat
    /\ \A p \in AllParts : parts[p] # "idle" => session.at = "in" /\ p \in PartsOf(view)

ConsoleTypeOK ==
    DoorTypeOK /\ FilterTypeOK /\ UsersTypeOK /\ PagesTypeOK /\ BudgetOK

Init ==
    /\ DoorInit /\ FilterInit /\ UsersInit /\ BudgetInit
    /\ view = "map"
    /\ parts = [p \in AllParts |-> "idle"]
    /\ shortcut = 0

-----------------------------------------------------------------------------
(* What is mounted for a session and a view *)

FilterShown(s, v) == s.at = "in" /\ v = "map" /\ s.role # "collector"
UsersShown(s, v)  == s.at = "in" /\ v = "users"

ShowFilter(show) ==
    CASE show /\ ~mounted -> Mount
      [] ~show /\ mounted -> Unmount
      [] OTHER            -> UNCHANGED filterVars

ShowUsers(show) ==
    CASE show /\ ~opened -> OpenUsers
      [] ~show /\ opened -> LeaveUsers
      [] OTHER           -> UNCHANGED usersVars

FaultyShowParts(s, v) ==
    parts' = [p \in AllParts |->
                IF s.at = "in" /\ p \in PartsOf(v) /\ parts[p] = "idle" THEN "waiting"
                ELSE parts[p]]

(* A page that stays keeps its answers; one that is opened asks.           *)
ShowParts(s, v) ==
    parts' = [p \in AllParts |->
                IF s.at # "in" \/ p \notin PartsOf(v) THEN "idle"
                ELSE IF session.at = "in" /\ v = view THEN parts[p]
                ELSE "waiting"]

Show(s, v) ==
    /\ view' = v
    /\ ShowFilter(FilterShown(s, v))
    /\ ShowUsers(UsersShown(s, v))
    /\ ShowParts(s, v)

(* The session is known, or somebody has signed in: the view stays.        *)
Admit(s) ==
    /\ SessionArrives(s) \/ SignInArrives(s)
    /\ Show(s, view)
    /\ UNCHANGED shortcut

Refuse ==
    /\ SessionFails
    /\ UNCHANGED <<filterVars, usersVars, pageVars>>

FaultyLeave ==
    /\ SignOutEnds
    /\ Forget
    /\ ShowUsers(FALSE)
    /\ ShowParts(Nobody, view)
    /\ UNCHANGED <<view, shortcut>>

(* handleSignOut, once the server has answered: the chosen area is         *)
(* forgotten, and whoever comes next begins at the map.                    *)
Leave ==
    /\ SignOutEnds
    /\ Forget
    /\ ShowUsers(FALSE)
    /\ view' = "map"
    /\ ShowParts(Nobody, "map")
    /\ UNCHANGED shortcut

(* An item of the menu. *)
Select(v) ==
    /\ session.at = "in" /\ v \in Offered(session.role) /\ v # view
    /\ Step
    /\ Show(session, v)
    /\ UNCHANGED <<doorVars, shortcut>>

(* "Show on map" beside a row of the priority list. *)
ShowOnMap ==
    /\ session.at = "in" /\ view = "priority" /\ parts["priority"] = "rows"
    /\ Step
    /\ Show(session, "map")
    /\ UNCHANGED <<doorVars, shortcut>>

(* The count of places without service leads to the worst of them: the map *)
(* is shown when the answer comes, wherever the reader is by then.         *)
ClickWorst ==
    /\ session.at = "in" /\ session.role # "collector"
    /\ Step
    /\ shortcut' = shortcut + 1
    /\ UNCHANGED <<doorVars, filterVars, usersVars, view, parts>>

WorstArrives(found) ==
    /\ shortcut > 0
    /\ shortcut' = shortcut - 1
    /\ IF found THEN Show(session, "map") ELSE UNCHANGED <<filterVars, usersVars, view, parts>>
    /\ UNCHANGED <<doorVars, budget>>

PartArrives(p) ==
    /\ parts[p] = "waiting"
    /\ \E answer \in {"rows", "none"} : parts' = [parts EXCEPT ![p] = answer]
    /\ UNCHANGED <<doorVars, filterVars, usersVars, view, shortcut, budget>>

PartFails(p) ==
    /\ parts[p] = "waiting" /\ Fail
    /\ parts' = [parts EXCEPT ![p] = "failed"]
    /\ UNCHANGED <<doorVars, filterVars, usersVars, view, shortcut>>

-----------------------------------------------------------------------------
Navigate ==
    \/ \E s \in Visitors \cup {Nobody, OpenHouse} : Admit(s)
    \/ Refuse \/ Leave
    \/ \E v \in Views : Select(v)
    \/ ShowOnMap \/ ClickWorst
    \/ \E found \in BOOLEAN : WorstArrives(found)
    \/ \E p \in AllParts : PartArrives(p) \/ PartFails(p)

Next ==
    \/ Navigate
    \/ DoorStays /\ UNCHANGED <<filterVars, usersVars, pageVars>>
    \/ (FilterAnswers \/ FilterChoices) /\ UNCHANGED <<doorVars, usersVars, pageVars>>
    \/ (UsersAnswers \/ UsersChoices) /\ UNCHANGED <<doorVars, filterVars, pageVars>>

Spec == Init /\ [][Next]_consoleVars

-----------------------------------------------------------------------------
(* The page on the screen is one the menu of this session offers, whoever  *)
(* was signed in before and however long a sign-out or the worst area took *)
(* - unless a second sign-in was begun before the first was answered: then *)
(* the later answer changes the session under an open page.                *)
ViewIsOffered ==
    session.at = "in" /\ ~crossed => view \in Offered(session.role)

(* The filter and the approval queue are on the page exactly while the     *)
(* session and the view call for them: no session inherits the queue, with *)
(* what it holds, from the one before.                                     *)
OnlyWhatIsShown ==
    /\ mounted = FilterShown(session, view)
    /\ opened = UsersShown(session, view)

(* The values of the page have their types, what belongs to another view   *)
(* is neither asked for nor mounted, and the door is never mute.           *)
ConsoleInv == ConsoleTypeOK /\ OnlyWhatIsShown /\ DoorSpeaks

=============================================================================
