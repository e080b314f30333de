---------------------------- MODULE ConsoleProofs ----------------------------
(***************************************************************************)
(* Proofs about the dashboard as one page, for any accounts, areas,        *)
(* handsets and bounds.                                                    *)
(*                                                                         *)
(* The page on the screen is one the menu of the session offers: the view  *)
(* and the session change in different places and at different times, so   *)
(* the invariant says what joins them - whenever nobody is let in the view *)
(* is back at the map, and no sign-in is still awaited once somebody is    *)
(* let in, as long as no second sign-in was begun beside the first.        *)
(*                                                                         *)
(* Each part of the page then has an invariant of its own, kept by its own *)
(* actions and by being opened and left: what the door says, how the chain *)
(* of the area filter descends to the chosen area, and what the rows, the  *)
(* list and the changes under way say of the accounts.  They are joined at *)
(* the end.                                                                *)
(***************************************************************************)
EXTENDS Console, FiniteSetTheorems, TLAPS

-----------------------------------------------------------------------------
(* The menu *)

(* Until the session is known no sign-in has begun.                        *)
NoneBegun == session.at = "unknown" => signing = {}

(* Without crossing, one sign-in is awaited at most, and none by somebody  *)
(* who is in.                                                              *)
OneAwaited ==
    ~crossed => /\ \A s, t \in signing : s = t
                /\ session.at = "in" => signing = {}

(* Outside, the view is the map: whoever comes in next begins there.       *)
OutsideAtTheMap == ~crossed /\ session.at # "in" => view = "map"

Inv == NoneBegun /\ OneAwaited /\ OutsideAtTheMap /\ ViewIsOffered

(* The map is offered to every role, and to an open house.                 *)
LEMMA MapIsOffered == ASSUME NEW role PROVE "map" \in Offered(role)
  BY DEF Offered

(* What is answered about a session says more than "unknown".              *)
LEMMA AnswersAreKnown ==
  ASSUME NEW s \in Visitors \cup {Nobody, OpenHouse}
  PROVE  s.at # "unknown"
  BY DoorAssumption DEF Nobody, OpenHouse

LEMMA InvInit == Init => Inv
  BY DEF Init, DoorInit, Unknown, Inv, NoneBegun, OneAwaited, OutsideAtTheMap, ViewIsOffered

(* What the invariant reads is left alone by the controls of a page.       *)
LEMMA InvKept ==
  ASSUME Inv, UNCHANGED <<session, signing, crossed, view>>
  PROVE  Inv'
  BY DEF Inv, NoneBegun, OneAwaited, OutsideAtTheMap, ViewIsOffered

(* The session is known: nobody was in, so the view is still the map.      *)
LEMMA InvSessionArrives ==
  ASSUME Inv, NEW s, SessionArrives(s), Show(s, view)
  PROVE  Inv'
<1>1. /\ session' = s /\ view' = view
      /\ UNCHANGED <<signing, crossed>>
      /\ session.at = "unknown"
      /\ s \in Visitors \cup {Nobody, OpenHouse}
  BY DEF SessionArrives, Becomes, Show, Unknown
<1>2. signing' = {} /\ s.at # "unknown"
  BY <1>1, AnswersAreKnown DEF Inv, NoneBegun
<1>3. ~crossed => view' = "map"
  BY <1>1 DEF Inv, OutsideAtTheMap
<1>4. "map" \in Offered(s.role)
  BY MapIsOffered
<1> QED
  BY <1>1, <1>2, <1>3, <1>4 DEF Inv, NoneBegun, OneAwaited, OutsideAtTheMap, ViewIsOffered

(* A sign-in is answered: without crossing it was the one awaited, and     *)
(* nobody was in.                                                          *)
LEMMA InvSignInArrives ==
  ASSUME Inv, NEW s, SignInArrives(s), Show(s, view), signing \subseteq Visitors
  PROVE  Inv'
<1>1. /\ session' = s /\ view' = view
      /\ s \in signing /\ signing' = signing \ {s}
      /\ UNCHANGED crossed
  BY DEF SignInArrives, Becomes, Show
<1>2. s.at # "unknown"
  BY <1>1, AnswersAreKnown
<1>3. ~crossed => signing' = {} /\ session.at # "in"
  BY <1>1 DEF Inv, OneAwaited
<1>4. ~crossed => view' = "map"
  BY <1>1, <1>3 DEF Inv, OutsideAtTheMap
<1>5. "map" \in Offered(s.role)
  BY MapIsOffered
<1> QED
  BY <1>1, <1>2, <1>3, <1>4, <1>5 DEF Inv, NoneBegun, OneAwaited, OutsideAtTheMap, ViewIsOffered

(* Signing out leads to the map, whoever was in.                           *)
LEMMA InvLeave == Inv /\ Leave => Inv'
<1> SUFFICES ASSUME Inv, Leave PROVE Inv'
  OBVIOUS
<1>1. session' = Nobody /\ view' = "map" /\ UNCHANGED <<signing, crossed>>
  BY DEF Leave, SignOutEnds, Becomes
<1>2. session'.at = "out"
  BY <1>1 DEF Nobody
<1> QED
  BY <1>1, <1>2 DEF Inv, NoneBegun, OneAwaited, OutsideAtTheMap, ViewIsOffered

LEMMA InvRefuse == Inv /\ Refuse => Inv'
<1> SUFFICES ASSUME Inv, Refuse PROVE Inv'
  OBVIOUS
<1>1. session = Unknown /\ session' = Nobody /\ UNCHANGED <<view, signing, crossed>>
  BY DEF Refuse, SessionFails, Becomes, pageVars
<1>2. session.at = "unknown" /\ session'.at = "out"
  BY <1>1 DEF Unknown, Nobody
<1> QED
  BY <1>1, <1>2 DEF Inv, NoneBegun, OneAwaited, OutsideAtTheMap, ViewIsOffered

(* While the session stays the view becomes the map or what is offered.    *)
LEMMA InvViewChanges ==
  ASSUME Inv, NEW v, v \in Offered(session.role), session.at = "in" \/ v = "map",
         UNCHANGED doorVars, view' = v
  PROVE  Inv'
<1>1. UNCHANGED <<session, signing, crossed>>
  BY DEF doorVars
<1> QED
  BY <1>1 DEF Inv, NoneBegun, OneAwaited, OutsideAtTheMap, ViewIsOffered

LEMMA InvDoorStays ==
  ASSUME Inv, DoorStays, UNCHANGED view
  PROVE  Inv'
<1>1. CASE ScriptLoads \/ ScriptFails \/ ClickSignOut
  <2>1. UNCHANGED <<session, signing, crossed, view>>
    BY <1>1 DEF ScriptLoads, ScriptFails, ClickSignOut
  <2> QED
    BY <2>1, InvKept
<1>2. ASSUME NEW s \in Visitors, Credential(s) PROVE Inv'
  <2>1. /\ session.at = "out" /\ UNCHANGED <<session, view>>
        /\ signing' = signing \cup {s}
        /\ crossed' = (crossed \/ signing # {})
    BY <1>2 DEF Credential
  <2>2. ~crossed' => ~crossed /\ signing' = {s}
    BY <2>1
  <2> QED
    BY <2>1, <2>2 DEF Inv, NoneBegun, OneAwaited, OutsideAtTheMap, ViewIsOffered
<1>3. ASSUME NEW s \in Visitors, SignInFails(s) PROVE Inv'
  <2>1. UNCHANGED <<session, crossed, view>> /\ signing' = signing \ {s}
    BY <1>3 DEF SignInFails
  <2>2. signing' \subseteq signing
    BY <2>1
  <2> QED
    BY <2>1, <2>2 DEF Inv, NoneBegun, OneAwaited, OutsideAtTheMap, ViewIsOffered
<1> QED
  BY <1>1, <1>2, <1>3 DEF DoorStays

-----------------------------------------------------------------------------
(* The requests awaited are those of accounts.                             *)
Awaited == signing \subseteq Visitors

LEMMA AwaitedNext == Awaited /\ [Next]_consoleVars => Awaited'
<1> SUFFICES ASSUME Awaited, [Next]_consoleVars PROVE Awaited'
  OBVIOUS
<1>1. CASE Navigate
  <2>1. ASSUME NEW s, Admit(s) PROVE Awaited'
    BY <2>1 DEF Admit, SessionArrives, SignInArrives, Awaited
  <2>2. CASE Refuse \/ Leave
    BY <2>2 DEF Refuse, SessionFails, Leave, SignOutEnds, Awaited
  <2>3. CASE UNCHANGED doorVars
    BY <2>3 DEF doorVars, Awaited
  <2> QED
    BY <1>1, <2>1, <2>2, <2>3 DEF Navigate, Select, ShowOnMap, ClickWorst, WorstArrives,
                                  PartArrives, PartFails
<1>2. CASE DoorStays
  BY <1>2 DEF DoorStays, ScriptLoads, ScriptFails, ClickSignOut, Credential, SignInFails, Awaited
<1>3. CASE UNCHANGED doorVars
  BY <1>3 DEF doorVars, Awaited
<1> QED
  BY <1>1, <1>2, <1>3 DEF Next, consoleVars

LEMMA InvNavigate ==
  ASSUME Inv, Awaited, Navigate
  PROVE  Inv'
<1>1. ASSUME NEW s, Admit(s) PROVE Inv'
  BY <1>1, InvSessionArrives, InvSignInArrives DEF Admit, Awaited
<1>2. CASE Refuse \/ Leave
  BY <1>2, InvRefuse, InvLeave
<1>3. ASSUME NEW v \in Views, Select(v) PROVE Inv'
  BY <1>3, InvViewChanges DEF Select, Show
<1>4. CASE ShowOnMap
  BY <1>4, InvViewChanges, MapIsOffered DEF ShowOnMap, Show
<1>5. CASE ClickWorst
  BY <1>5, InvKept DEF ClickWorst, doorVars
<1>6. ASSUME NEW found \in BOOLEAN, WorstArrives(found) PROVE Inv'
  <2>1. CASE found
    BY <1>6, <2>1, InvViewChanges, MapIsOffered DEF WorstArrives, Show
  <2>2. CASE ~found
    BY <1>6, <2>2, InvKept DEF WorstArrives, doorVars
  <2> QED
    BY <2>1, <2>2
<1>7. ASSUME NEW p \in AllParts, PartArrives(p) \/ PartFails(p) PROVE Inv'
  BY <1>7, InvKept DEF PartArrives, PartFails, doorVars
<1> QED
  BY <1>1, <1>2, <1>3, <1>4, <1>5, <1>6, <1>7 DEF Navigate

LEMMA InvNext == Inv /\ Awaited /\ [Next]_consoleVars => Inv'
<1> SUFFICES ASSUME Inv, Awaited, [Next]_consoleVars PROVE Inv'
  OBVIOUS
<1>1. CASE Navigate
  BY <1>1, InvNavigate
<1>2. CASE DoorStays /\ UNCHANGED <<filterVars, usersVars, pageVars>>
  BY <1>2, InvDoorStays DEF pageVars
<1>3. CASE UNCHANGED doorVars /\ UNCHANGED pageVars
  BY <1>3, InvKept DEF doorVars, pageVars
<1> QED
  BY <1>1, <1>2, <1>3 DEF Next, consoleVars

(* Whoever signs out and in, and whatever answers late: the page on the    *)
(* screen is one of the menu beside it, unless two sign-ins crossed.       *)
THEOREM ThePageIsOffered == Spec => []ViewIsOffered
<1>1. Init => Awaited
  BY DEF Init, DoorInit, Awaited
<1>2. Inv => ViewIsOffered
  BY DEF Inv
<1> QED
  BY <1>1, <1>2, InvInit, InvNext, AwaitedNext, PTL DEF Spec

-----------------------------------------------------------------------------
(* The door *)

(* While Google's script is not there, no sign-in is under way and no      *)
(* button is drawn; it is awaited, or has failed, only before somebody who *)
(* is signed out, and its failure stays said.                              *)
ScriptIsSaid ==
    /\ script # "ready" => signing = {} /\ button = FALSE
    /\ script \in {"loading", "failed"} => session.at = "out"
    /\ script = "failed" => doorError # None

DoorInv == DoorTypeOK /\ DoorSpeaks /\ ScriptIsSaid

LEMMA DoorHolds == Init => DoorInv
<1>1. Unknown \in Session /\ Unknown.at = "unknown"
  BY DEF Unknown, Session, OrNone
<1>2. ASSUME DoorInit PROVE DoorTypeOK
  BY <1>1, <1>2 DEF DoorInit, DoorTypeOK, OrNone
<1>3. ASSUME DoorInit PROVE DoorSpeaks /\ ScriptIsSaid
  <2>1. session.at = "unknown" /\ script = "absent" /\ signing = {} /\ button = FALSE
    BY <1>1, <1>3 DEF DoorInit
  <2> QED
    BY <2>1 DEF DoorSpeaks, ScriptIsSaid
<1> QED
  BY <1>2, <1>3 DEF Init, DoorInv

LEMMA Sessions ==
  /\ Visitors \cup {Nobody, OpenHouse, Unknown} \subseteq Session
  /\ \A s \in Visitors : s.at # "out"
  BY DoorAssumption DEF Nobody, OpenHouse, Unknown, Session, OrNone

(* The session becomes another: with somebody to be let in, the script has *)
(* not failed and is not awaited.                                          *)
LEMMA DoorBecomes ==
  ASSUME DoorInv, NEW s \in Session, NEW id \in BOOLEAN, NEW heard \in BOOLEAN,
         Becomes(s, id, heard),
         s.at # "out" => script \notin {"loading", "failed"},
         signing' \subseteq signing, leaving' \in Nat, UNCHANGED crossed
  PROVE  DoorInv'
<1> USE DEF DoorInv
<1>0. /\ None \notin Errors
      /\ Said \in OrNone(Errors)
      /\ {"notConfigured", "unreachable"} \subseteq Errors
  BY DoorAssumption DEF Said, DoorTypeOK, Errors, OrNone
<1>1. /\ session' = s /\ clientId' = id /\ reachable' = heard /\ Opens(s, id, heard)
  BY DEF Becomes
<1>2. CASE s.at # "out"
  <2>1. button' = FALSE /\ doorError' = Said /\ script' = script
    BY <1>1, <1>2 DEF Opens
  <2>2. script' \in {"absent", "ready"}
    BY <1>2, <2>1 DEF DoorTypeOK
  <2>3. DoorTypeOK'
    BY <1>0, <1>1, <2>1, <2>2 DEF DoorTypeOK
  <2>4. script' # "ready" => signing' = {}
    BY <2>1 DEF ScriptIsSaid
  <2> QED
    BY <1>1, <1>2, <2>1, <2>2, <2>3, <2>4 DEF ScriptIsSaid, DoorSpeaks
<1>3. CASE s.at = "out" /\ ~id
  <2>1. button' = FALSE /\ doorError' \in Errors /\ script' = script
    BY <1>0, <1>1, <1>3 DEF Opens
  <2>3. DoorTypeOK'
    BY <1>1, <2>1 DEF DoorTypeOK, OrNone
  <2>4. script' # "ready" => signing' = {}
    BY <2>1 DEF ScriptIsSaid
  <2> QED
    BY <1>0, <1>1, <1>3, <2>1, <2>3, <2>4 DEF ScriptIsSaid, DoorSpeaks
<1>4. CASE s.at = "out" /\ id
  <2>1. /\ button' = (script = "ready") /\ doorError' = Said
        /\ script' = IF script = "absent" THEN "loading" ELSE script
    BY <1>1, <1>4 DEF Opens
  <2>2. script' \in {"loading", "ready", "failed"} /\ button' \in BOOLEAN
    BY <2>1 DEF DoorTypeOK
  <2>3. DoorTypeOK'
    BY <1>0, <1>1, <2>1, <2>2 DEF DoorTypeOK
  <2>4. script' # "ready" => signing' = {} /\ button' = FALSE
    <3>1. script' # "ready" => script # "ready"
      BY <2>1
    <3>2. script # "ready" => button' = FALSE
      BY <2>1
    <3> QED
      BY <3>1, <3>2 DEF ScriptIsSaid
  <2>5. script' = "failed" => doorError' # None
    BY <2>1, <2>2 DEF ScriptIsSaid, Said, AtTheDoor
  <2>6. script' = "ready" => button'
    BY <2>1
  <2> QED
    BY <1>1, <1>4, <2>2, <2>3, <2>4, <2>5, <2>6 DEF ScriptIsSaid, DoorSpeaks
<1> QED
  BY <1>2, <1>3, <1>4

LEMMA DoorSession ==
  ASSUME DoorInv, NEW s, SessionArrives(s) \/ SignInArrives(s)
  PROVE  DoorInv'
<1> USE DEF DoorInv
<1>1. CASE SessionArrives(s)
  <2>1. /\ s \in Session /\ session.at # "out" /\ Configured \in BOOLEAN
        /\ Becomes(s, Configured, TRUE) /\ UNCHANGED <<signing, leaving, crossed>>
    BY <1>1, Sessions, DoorAssumption DEF SessionArrives, Unknown
  <2>2. script \notin {"loading", "failed"} /\ leaving' \in Nat /\ signing' \subseteq signing
    BY <2>1 DEF ScriptIsSaid, DoorTypeOK
  <2> QED
    BY <2>1, <2>2, DoorBecomes
<1>2. CASE SignInArrives(s)
  <2>1. /\ s \in Session /\ signing # {} /\ reachable \in BOOLEAN
        /\ Becomes(s, FALSE, reachable) /\ signing' \subseteq signing
        /\ UNCHANGED <<leaving, crossed>>
    BY <1>2, Sessions DEF SignInArrives, DoorTypeOK
  <2>2. script \notin {"loading", "failed"} /\ leaving' \in Nat
    BY <2>1 DEF ScriptIsSaid, DoorTypeOK
  <2> QED
    BY <2>1, <2>2, DoorBecomes
<1> QED
  BY <1>1, <1>2

LEMMA DoorNobody ==
  ASSUME DoorInv, SessionFails \/ SignOutEnds
  PROVE  DoorInv'
<1> USE DEF DoorInv
<1>0. Nobody \in Session /\ Nobody.at = "out"
  BY Sessions DEF Nobody
<1>1. CASE SessionFails
  <2>1. Becomes(Nobody, FALSE, FALSE) /\ signing' \subseteq signing /\ leaving' \in Nat /\ UNCHANGED crossed
    BY <1>1 DEF SessionFails, DoorTypeOK
  <2> QED
    BY <1>0, <2>1, DoorBecomes
<1>2. CASE SignOutEnds
  <2>1. /\ Becomes(Nobody, clientId, reachable) /\ signing' \subseteq signing
        /\ leaving' \in Nat /\ UNCHANGED crossed
    BY <1>2 DEF SignOutEnds, DoorTypeOK
  <2>2. clientId \in BOOLEAN /\ reachable \in BOOLEAN
    BY DEF DoorTypeOK
  <2> QED
    BY <1>0, <2>1, <2>2, DoorBecomes
<1> QED
  BY <1>1, <1>2

LEMMA DoorAlone ==
  ASSUME DoorInv, DoorStays
  PROVE  DoorInv' /\ UNCHANGED session
<1> USE DEF DoorInv
<1>0. None \notin Errors /\ {"script", "signIn"} \subseteq Errors
  BY DoorAssumption DEF Errors
<1>1. CASE ScriptLoads
  <2>1. /\ session.at = "out" /\ script' = "ready" /\ button' = (session.at = "out")
        /\ UNCHANGED <<session, clientId, reachable, doorError, signing, leaving, crossed>>
    BY <1>1 DEF ScriptLoads, ScriptIsSaid
  <2>2. button' = TRUE
    BY <2>1
  <2> QED
    BY <2>1, <2>2 DEF DoorTypeOK, DoorSpeaks, ScriptIsSaid
<1>2. CASE ScriptFails
  <2>1. /\ session.at = "out" /\ script' = "failed" /\ doorError' = "script"
        /\ UNCHANGED <<session, clientId, reachable, button, signing, leaving, crossed>>
    BY <1>2 DEF ScriptFails, ScriptIsSaid, AtTheDoor
  <2> QED
    BY <1>0, <1>2, <2>1 DEF ScriptFails, DoorTypeOK, DoorSpeaks, ScriptIsSaid, OrNone
<1>3. CASE ClickSignOut
  BY <1>3 DEF ClickSignOut, DoorTypeOK, DoorSpeaks, ScriptIsSaid
<1>4. ASSUME NEW s \in Visitors, Credential(s) PROVE DoorInv' /\ UNCHANGED session
  <2>1. /\ session.at = "out" /\ button /\ signing' \subseteq Visitors /\ doorError' = None
        /\ crossed' \in BOOLEAN
        /\ UNCHANGED <<session, clientId, reachable, script, button, leaving>>
    BY <1>4 DEF Credential, DoorTypeOK
  <2>2. script = "ready" /\ button' = TRUE
    BY <2>1 DEF ScriptIsSaid, DoorTypeOK
  <2> QED
    BY <2>1, <2>2 DEF DoorTypeOK, DoorSpeaks, ScriptIsSaid, OrNone
<1>5. ASSUME NEW s \in Visitors, SignInFails(s) PROVE DoorInv' /\ UNCHANGED session
  <2>1. /\ script = "ready" /\ signing' \subseteq Visitors /\ doorError' \in {"signIn", doorError}
        /\ doorError' = None => doorError = None
        /\ UNCHANGED <<session, clientId, reachable, script, button, leaving, crossed>>
    BY <1>0, <1>5 DEF SignInFails, DoorTypeOK, ScriptIsSaid
  <2> QED
    BY <1>0, <2>1 DEF DoorTypeOK, DoorSpeaks, ScriptIsSaid, OrNone
<1> QED
  BY <1>1, <1>2, <1>3, <1>4, <1>5 DEF DoorStays

-----------------------------------------------------------------------------
(* The area filter *)

(* What is asked of the server is about the chosen area, its answer before *)
(* the shading; and without a chosen area nothing of one is kept.          *)
AskedIsChosen ==
    /\ load # None => load = areaCode /\ kids = None
    /\ kids # None => kids = areaCode
    /\ areaCode = None => detail = None /\ shaded = None

(* The chain descends level by level, and what was followed lies on it.    *)
ChainDescends ==
    /\ \A d \in Depths : chain[d] # None =>
          Level[chain[d]] = d /\ (d # 0 => Parent[chain[d]] = chain[d - 1])
    /\ following # None => following \in Members(chain)

(* The chain ends at the chosen area - or, until its answer comes, at the  *)
(* parent whose shaded child was clicked.                                  *)
EndsAt(a) == chain[Level[a]] = a /\ \A d \in Depths : d > Level[a] => chain[d] = None
EndsAbove(a) ==
    /\ load = a /\ shaded # a /\ Parent[a] # None
    /\ chain[Level[a] - 1] = Parent[a]
    /\ \A d \in Depths : d >= Level[a] => chain[d] = None
ChainEnds ==
    /\ areaCode = None => \A d \in Depths \ {0} : chain[d] = None
    /\ areaCode # None => EndsAt(areaCode) \/ EndsAbove(areaCode)

(* Before the countries are known there is nothing to choose.              *)
NothingYet ==
    /\ roots => areaCode = None /\ options = NoOptions /\ chain = NoChain
    /\ options[0] \subseteq Roots

Agreement ==
    mounted /\ spoiled = {} => ChainDescends /\ ChainEnds /\ NothingYet /\ OffersOnlyChildren

FilterInv == FilterTypeOK /\ AskedIsChosen /\ Agreement

LEMMA Levels ==
  \A a \in Areas : /\ Level[a] \in Depths /\ Level[a] \in Nat
                   /\ Parent[a] = None <=> Level[a] = 0
                   /\ Parent[a] # None => /\ Parent[a] \in Areas
                                          /\ Level[a] = Level[Parent[a]] + 1
                                          /\ Level[a] - 1 \in Depths
  BY AreaFilterAssumption DEF OrNone, Depths

LEMMA NotAnArea == None \notin Areas
  BY AreaFilterAssumption

(* The control agrees where its invariant holds.                           *)
LEMMA AgreementShows == FilterInv => ControlAgrees
<1> SUFFICES ASSUME FilterInv, mounted, spoiled = {}
             PROVE  /\ OffersOnlyChildren
                    /\ load = None => ChainReaches(areaCode)
  BY DEF ControlAgrees
<1>1. /\ ChainDescends /\ ChainEnds /\ OffersOnlyChildren
      /\ chain \in [Depths -> OrNone(Areas)] /\ areaCode \in OrNone(Areas)
  BY DEF FilterInv, Agreement, FilterTypeOK
<1>2. ASSUME load = None PROVE ChainReaches(areaCode)
  <2>1. \A d \in Depths \ {0} : chain[d] # None => Parent[chain[d]] = chain[d - 1]
    BY <1>1 DEF ChainDescends
  <2>2. CASE areaCode = None
    <3>1. ASSUME NEW b \in Members(chain) PROVE b \in Roots
      <4>1. PICK d \in Depths : chain[d] = b /\ b # None
        BY DEF Members
      <4>2. d = 0 /\ b \in Areas /\ Level[b] = 0
        BY <1>1, <2>2, <4>1 DEF ChainEnds, ChainDescends, OrNone
      <4> QED
        BY <4>2, Levels DEF Roots, Children
    <3> QED
      BY <2>1, <2>2, <3>1 DEF ChainReaches
  <2>3. CASE areaCode # None
    <3>1. areaCode \in Areas /\ EndsAt(areaCode)
      BY <1>1, <1>2, <2>3 DEF ChainEnds, EndsAbove, OrNone
    <3>2. areaCode \in Members(chain)
      BY <2>3, <3>1, Levels DEF EndsAt, Members
    <3>3. ASSUME NEW b \in Members(chain) PROVE Level[b] <= Level[areaCode]
      <4>1. PICK d \in Depths : chain[d] = b /\ b # None
        BY DEF Members
      <4>2. Level[b] = d
        BY <1>1, <4>1 DEF ChainDescends
      <4>3. ~(d > Level[areaCode])
        BY <3>1, <4>1 DEF EndsAt
      <4>4. d \in Nat /\ Level[areaCode] \in Nat
        BY <3>1, Levels DEF Depths
      <4> QED
        BY <4>2, <4>3, <4>4
    <3> QED
      BY <2>1, <2>3, <3>2, <3>3 DEF ChainReaches
  <2> QED
    BY <2>2, <2>3
<1> QED
  BY <1>1, <1>2

LEMMA PlainTypes ==
  /\ NoChain \in [Depths -> OrNone(Areas)] /\ NoOptions \in [Depths -> SUBSET Areas]
  /\ NoAsks \in [Areas -> 0..MaxAsks]
  /\ \A a : Children(a) \subseteq Areas
  /\ 0 \in Depths
  BY AreaFilterAssumption DEF NoChain, NoOptions, NoAsks, Children, OrNone, Depths

LEMMA FilterHolds == FilterInit => FilterInv
<1> SUFFICES ASSUME FilterInit PROVE FilterInv
  OBVIOUS
<1>1. FilterTypeOK
  BY PlainTypes DEF FilterInit, FilterTypeOK, OrNone
<1>2. AskedIsChosen /\ ~mounted
  BY DEF FilterInit, AskedIsChosen
<1> QED
  BY <1>1, <1>2 DEF FilterInv, Agreement

-----------------------------------------------------------------------------
(* App *)

AppTypeOK ==
    /\ areaCode \in OrNone(Areas) /\ detail \in OrNone(Areas)
    /\ shaded \in OrNone(Areas)
    /\ load \in OrNone(Areas) /\ kids \in OrNone(Areas)

LEMMA AreaIsSet ==
  ASSUME AppTypeOK, AskedIsChosen, NEW a \in OrNone(Areas), SetArea(a)
  PROVE  /\ AppTypeOK' /\ AskedIsChosen' /\ areaCode' = a
         /\ a # areaCode => load' = a
         /\ a # None => UNCHANGED shaded
  BY DEF SetArea, AppTypeOK, AskedIsChosen, OrNone, app

(* One more question about the children of an area, or one less.           *)
LEMMA AskMore ==
  ASSUME asks \in [Areas -> 0..MaxAsks], NEW a \in Areas, Expand(a)
  PROVE  asks' \in [Areas -> 0..MaxAsks] /\ busy' \in BOOLEAN
  BY AreaFilterAssumption DEF Expand

LEMMA AskLess ==
  ASSUME asks \in [Areas -> 0..MaxAsks], NEW a \in Areas, asks[a] > 0,
         asks' = [asks EXCEPT ![a] = @ - 1]
  PROVE  asks' \in [Areas -> 0..MaxAsks]
  BY AreaFilterAssumption

LEMMA SpoilType ==
  ASSUME spoiled \subseteq Reasons, NEW reason \in Reasons, NEW when, Spoil(reason, when)
  PROVE  spoiled' \subseteq Reasons /\ (spoiled' = {} => spoiled = {} /\ ~when)
  BY DEF Spoil

(* The first lists, and the chain above a depth.                           *)
LEMMA ListsType ==
  ASSUME NEW opts \in [Depths -> SUBSET Areas], NEW n
  PROVE  Lists(opts, n) \in [Depths -> SUBSET Areas]
  BY DEF Lists
LEMMA PathType ==
  ASSUME NEW ch \in [Depths -> OrNone(Areas)], NEW n, NEW k, NEW a \in OrNone(Areas)
  PROVE  /\ Path(ch, n) \in [Depths -> OrNone(Areas)]
         /\ [Path(ch, n) EXCEPT ![k] = a] \in [Depths -> OrNone(Areas)]
  BY DEF Path, OrNone

(* What an action leaves of the control, and what it leaves of App.        *)
LEMMA FilterFromParts ==
  ASSUME FilterInv,
         mounted' \in BOOLEAN, busy' \in BOOLEAN, roots' \in BOOLEAN,
         options' \in [Depths -> SUBSET Areas], chain' \in [Depths -> OrNone(Areas)],
         following' \in OrNone(Areas), asks' \in [Areas -> 0..MaxAsks],
         AppTypeOK', AskedIsChosen', spoiled' \subseteq Reasons,
         mounted' /\ spoiled' = {} =>
            ChainDescends' /\ ChainEnds' /\ NothingYet' /\ OffersOnlyChildren'
  PROVE  FilterInv'
  BY DEF FilterInv, FilterTypeOK, AppTypeOK, Agreement

(* Pointwise: what a choice at a depth leaves.                             *)
LEMMA CutPath ==
  ASSUME NEW ch \in [Depths -> OrNone(Areas)], NEW n \in Depths, NEW a
  PROVE  \A d \in Depths : [Path(ch, n) EXCEPT ![n] = a][d] =
            IF d < n THEN ch[d] ELSE IF d = n THEN a ELSE None
  BY DEF Path, Depths

-----------------------------------------------------------------------------
LEMMA FilterRoots ==
  ASSUME FilterInv, RootsArrive \/ RootsFail
  PROVE  FilterInv'
<1> USE DEF FilterInv
<1>0. /\ FilterTypeOK /\ roots /\ roots' = FALSE
      /\ UNCHANGED <<mounted, following, app, spoiled>>
  BY DEF RootsArrive, RootsFail
<1>1. AppTypeOK' /\ AskedIsChosen'
  BY <1>0 DEF FilterTypeOK, AppTypeOK, AskedIsChosen, app
<1>2. CASE RootsArrive /\ Cardinality(Roots) = 1
  <2>1. PICK r \in Roots : chain' = [NoChain EXCEPT ![0] = r] /\ Expand(r)
    BY <1>2 DEF RootsArrive
  <2>2. r \in Areas /\ Parent[r] = None /\ Level[r] = 0 /\ r # None /\ Roots \subseteq Areas
    BY NotAnArea, Levels DEF Roots, Children
  <2>3. /\ options' = [NoOptions EXCEPT ![0] = Roots]
        /\ chain' \in [Depths -> OrNone(Areas)] /\ options' \in [Depths -> SUBSET Areas]
    BY <1>2, <2>1, <2>2, PlainTypes DEF RootsArrive, OrNone
  <2>4. /\ \A d \in Depths : options'[d] = IF d = 0 THEN Roots ELSE {}
        /\ \A d \in Depths : chain'[d] = IF d = 0 THEN r ELSE None
    BY <2>1, <2>3, PlainTypes DEF NoOptions, NoChain
  <2>5. asks' \in [Areas -> 0..MaxAsks] /\ busy' \in BOOLEAN
    BY <1>0, <2>1, <2>2, AskMore DEF FilterTypeOK
  <2>6. ASSUME mounted', spoiled' = {}
        PROVE  ChainDescends' /\ ChainEnds' /\ NothingYet' /\ OffersOnlyChildren'
    <3>1. areaCode = None /\ areaCode' = None /\ following' = following /\ ChainDescends /\ chain = NoChain
      BY <1>0, <2>6 DEF Agreement, NothingYet, app
    <3>2. following' = None
      BY <3>1 DEF ChainDescends, Members, NoChain
    <3> QED
      BY <1>0, <2>2, <2>4, <3>1, <3>2, PlainTypes DEF ChainDescends, ChainEnds, NothingYet, OffersOnlyChildren
  <2> QED
    BY <1>0, <1>1, <2>3, <2>5, <2>6, FilterFromParts DEF FilterTypeOK
<1>3. CASE UNCHANGED <<chain, asks, busy>> /\ options' \in {[NoOptions EXCEPT ![0] = Roots], NoOptions}
  <2>1. Roots \subseteq Areas
    BY DEF Roots, Children
  <2>2. options' \in [Depths -> SUBSET Areas]
    BY <1>3, <2>1, PlainTypes
  <2>3. /\ \A d \in Depths \ {0} : options'[d] = {}
        /\ options'[0] \subseteq Roots
    BY <1>3, PlainTypes DEF NoOptions
  <2>4. ASSUME mounted', spoiled' = {}
        PROVE  ChainDescends' /\ ChainEnds' /\ NothingYet' /\ OffersOnlyChildren'
    <3>1. /\ areaCode = None /\ areaCode' = None /\ following' = following /\ chain' = chain
          /\ ChainDescends /\ ChainEnds
      BY <1>0, <1>3, <2>4 DEF Agreement, NothingYet, app
    <3> QED
      BY <1>0, <2>3, <3>1 DEF ChainDescends, ChainEnds, NothingYet, OffersOnlyChildren
  <2> QED
    BY <1>0, <1>1, <1>3, <2>2, <2>4, FilterFromParts DEF FilterTypeOK
<1>4. RootsArrive /\ Cardinality(Roots) # 1 => UNCHANGED <<chain, asks, busy>>
  BY DEF RootsArrive
<1>5. /\ RootsArrive => options' = [NoOptions EXCEPT ![0] = Roots]
      /\ RootsFail => options' = NoOptions /\ UNCHANGED <<chain, asks, busy>>
  BY DEF RootsArrive, RootsFail
<1> QED
  BY <1>2, <1>3, <1>4, <1>5

(* The children of an area, listed or not: the lists above stay, the next  *)
(* is that of the area, and nothing deeper.                                *)
LEMMA FilterListing ==
  ASSUME FilterInv, NEW a \in Areas, ChildrenListed(a) \/ ListingFails(a)
  PROVE  FilterInv'
<1> USE DEF FilterInv
<1>0. /\ FilterTypeOK /\ busy' = FALSE /\ asks[a] > 0 /\ asks' = [asks EXCEPT ![a] = @ - 1]
      /\ Spoil("late", chain[Level[a]] # a)
      /\ UNCHANGED <<mounted, chain, following, roots, app>>
  BY DEF ChildrenListed, ListingFails
<1>1. AppTypeOK' /\ AskedIsChosen'
  BY <1>0 DEF FilterTypeOK, AppTypeOK, AskedIsChosen, app
<1>2. asks' \in [Areas -> 0..MaxAsks]
  BY <1>0, AskLess DEF FilterTypeOK
<1>3. spoiled' \subseteq Reasons /\ (spoiled' = {} => spoiled = {} /\ chain[Level[a]] = a)
  BY <1>0 DEF FilterTypeOK, Spoil, Reasons
<1>4. /\ Level[a] \in Depths /\ Level[a] \in Nat /\ a # None
  BY Levels, NotAnArea
<1>5. /\ options' \in [Depths -> SUBSET Areas]
      /\ \A d \in Depths : options'[d] \in {{}} \cup (IF d = Level[a] + 1 THEN {Children(a)} ELSE {})
                                \cup (IF d < Level[a] + 1 THEN {options[d]} ELSE {})
  <2>1. CASE ChildrenListed(a)
    <3>1. options' = Listed(a)
      BY <2>1 DEF ChildrenListed
    <3> QED
      BY <1>0, <3>1, PlainTypes DEF Listed, Lists, FilterTypeOK
  <2>2. CASE ListingFails(a)
    <3>1. options' = Lists(options, Level[a] + 1)
      BY <2>2 DEF ListingFails
    <3> QED
      BY <1>0, <3>1, PlainTypes DEF Lists, FilterTypeOK
  <2> QED
    BY <2>1, <2>2
<1>6. ASSUME mounted', spoiled' = {}
      PROVE  ChainDescends' /\ ChainEnds' /\ NothingYet' /\ OffersOnlyChildren'
  <2>1. /\ ChainDescends /\ ChainEnds /\ NothingYet /\ OffersOnlyChildren /\ chain[Level[a]] = a
    BY <1>0, <1>3, <1>6 DEF Agreement
  <2>2. chain # NoChain /\ ~roots
    BY <1>4, <2>1 DEF NoChain, NothingYet
  <2>3. ChainDescends' /\ ChainEnds'
    BY <1>0, <2>1 DEF ChainDescends, ChainEnds, EndsAt, EndsAbove, app
  <2>4. options'[0] \subseteq Roots
    BY <1>4, <1>5, <2>1, PlainTypes DEF NothingYet
  <2>5. ASSUME NEW d \in Depths \ {0}, options'[d] # {}
        PROVE  chain'[d - 1] # None /\ options'[d] \subseteq Children(chain'[d - 1])
    <3>1. CASE d = Level[a] + 1 /\ options'[d] = Children(a)
      BY <1>0, <1>4, <2>1, <3>1
    <3>2. CASE options'[d] = options[d]
      BY <1>0, <2>1, <2>5, <3>2 DEF OffersOnlyChildren
    <3> QED
      BY <1>5, <2>5, <3>1, <3>2
  <2> QED
    BY <1>0, <2>2, <2>3, <2>4, <2>5 DEF NothingYet, OffersOnlyChildren
<1> QED
  BY <1>0, <1>1, <1>2, <1>3, <1>5, <1>6, FilterFromParts DEF FilterTypeOK

(* The answer about the chosen area: a child that was clicked takes its    *)
(* place below its parent.                                                 *)
LEMMA FilterDetail ==
  ASSUME FilterInv, DetailArrives
  PROVE  FilterInv'
<1> USE DEF FilterInv
<1>0. /\ FilterTypeOK /\ load # None /\ load' = None /\ detail' = load
      /\ load \in Areas /\ areaCode = load /\ areaCode \in Areas /\ kids = None
      /\ UNCHANGED <<mounted, options, roots, areaCode, spoiled>>
  BY DEF DetailArrives, AskedIsChosen, FilterTypeOK, OrNone
<1>1. kids' \in {None, load} /\ shaded' \in {None, shaded}
  BY <1>0 DEF DetailArrives
<1>2. AppTypeOK' /\ AskedIsChosen'
  BY <1>0, <1>1, NotAnArea DEF FilterTypeOK, AppTypeOK, AskedIsChosen, OrNone
<1>3. /\ Level[load] \in Depths /\ Level[load] \in Nat /\ load # None
      /\ Parent[load] # None => Level[load] - 1 \in Depths
  BY <1>0, Levels
<1>4. CASE mounted /\ ~(load = following \/ load \in Members(chain))
  <2>1. /\ following' = load
        /\ chain' = [Path(chain, Level[load]) EXCEPT ![Level[load]] = load]
        /\ Expand(load)
    BY <1>4 DEF DetailArrives, Follow
  <2>2. chain' \in [Depths -> OrNone(Areas)] /\ asks' \in [Areas -> 0..MaxAsks] /\ busy' \in BOOLEAN
    BY <1>0, <2>1, PathType, AskMore DEF FilterTypeOK, OrNone
  <2>3. \A d \in Depths : chain'[d] = IF d < Level[load] THEN chain[d]
                                     ELSE IF d = Level[load] THEN load ELSE None
    <3>1. chain \in [Depths -> OrNone(Areas)] /\ Level[load] \in Depths
      BY <1>0, <1>3 DEF FilterTypeOK
    <3>2. chain' = [Path(chain, Level[load]) EXCEPT ![Level[load]] = load]
      BY <2>1
    <3> QED
      BY <3>1, <3>2 DEF Path, Depths
  <2>4. ASSUME mounted', spoiled' = {}
        PROVE  ChainDescends' /\ ChainEnds' /\ NothingYet' /\ OffersOnlyChildren'
    <3>1. /\ ChainDescends /\ ChainEnds /\ NothingYet /\ OffersOnlyChildren
      BY <1>0, <2>4 DEF Agreement
    <3>2. EndsAbove(load)
      <4>1. ~EndsAt(load)
        BY <1>3, <1>4 DEF EndsAt, Members
      <4> QED
        BY <1>0, <1>3, <3>1, <4>1 DEF ChainEnds
    <3>3. /\ Parent[load] # None /\ chain[Level[load] - 1] = Parent[load]
          /\ \A d \in Depths : d >= Level[load] => chain[d] = None
      BY <3>2 DEF EndsAbove
    <3>4. chain'[Level[load]] = load
      BY <1>3, <2>3
    <3>5. ASSUME NEW d \in Depths, chain'[d] # None
          PROVE  Level[chain'[d]] = d /\ (d # 0 => Parent[chain'[d]] = chain'[d - 1])
      <4>1. CASE d = Level[load]
        <5>1. d # 0 => chain'[d - 1] = chain[Level[load] - 1]
          BY <1>3, <2>3, <3>3, <4>1 DEF Depths
        <5> QED
          BY <3>3, <3>4, <4>1, <5>1
      <4>2. CASE d < Level[load]
        <5>1. d # 0 => d - 1 \in Depths /\ d - 1 < Level[load]
          BY <1>3, <4>2 DEF Depths
        <5> QED
          BY <2>3, <3>1, <3>5, <4>2, <5>1 DEF ChainDescends
      <4> QED
        BY <2>3, <3>5, <4>1, <4>2
    <3>6. ChainDescends'
      BY <1>3, <2>1, <3>4, <3>5 DEF ChainDescends, Members
    <3>7. ChainEnds'
      BY <1>0, <1>3, <2>3, <3>4 DEF ChainEnds, EndsAt, Depths
    <3>8. OffersOnlyChildren'
      <4>1. ASSUME NEW d \in Depths \ {0}, options'[d] # {}
            PROVE  chain'[d - 1] # None /\ options'[d] \subseteq Children(chain'[d - 1])
        <5>1. d - 1 \in Depths /\ chain[d - 1] # None /\ options[d] \subseteq Children(chain[d - 1])
          BY <1>0, <3>1, <4>1 DEF OffersOnlyChildren, Depths
        <5>2. d - 1 < Level[load]
          BY <1>3, <3>3, <5>1 DEF Depths
        <5> QED
          BY <1>0, <2>3, <5>1, <5>2
      <4> QED
        BY <4>1 DEF OffersOnlyChildren
    <3>9. NothingYet'
      BY <1>0, <1>3, <3>1 DEF NothingYet
    <3> QED
      BY <3>6, <3>7, <3>8, <3>9
  <2> QED
    BY <1>0, <1>2, <2>1, <2>2, <2>4, FilterFromParts DEF FilterTypeOK, OrNone
<1>5. CASE ~(mounted /\ ~(load = following \/ load \in Members(chain)))
  <2>1. /\ UNCHANGED <<chain, asks, busy>>
        /\ following' \in {following, load}
        /\ mounted => following' = load /\ (load = following \/ load \in Members(chain))
    BY <1>5 DEF DetailArrives, Follow
  <2>2. ASSUME mounted', spoiled' = {}
        PROVE  ChainDescends' /\ ChainEnds' /\ NothingYet' /\ OffersOnlyChildren'
    <3>1. /\ ChainDescends /\ ChainEnds /\ NothingYet /\ OffersOnlyChildren
      BY <1>0, <2>2 DEF Agreement
    <3>2. load \in Members(chain) /\ following' = load
      BY <1>0, <1>3, <2>1, <2>2, <3>1 DEF ChainDescends
    <3>3. chain[Level[load]] = load
      BY <1>0, <3>1, <3>2 DEF Members, ChainDescends
    <3>4. EndsAt(load)
      BY <1>0, <1>3, <3>1, <3>3 DEF ChainEnds, EndsAbove
    <3>5. ChainDescends' /\ ChainEnds'
      BY <1>0, <1>3, <2>1, <3>1, <3>2, <3>4 DEF ChainDescends, ChainEnds, EndsAt, Members
    <3>6. NothingYet' /\ OffersOnlyChildren'
      BY <1>0, <1>3, <2>1, <3>1 DEF NothingYet, OffersOnlyChildren
    <3> QED
      BY <3>5, <3>6
  <2> QED
    BY <1>0, <1>2, <2>1, <2>2, FilterFromParts DEF FilterTypeOK, OrNone
<1> QED
  BY <1>4, <1>5

(* What else App hears: the control is left alone, and the answer that     *)
(* fails spoils it.                                                        *)
LEMMA FilterApp ==
  ASSUME FilterInv, DetailFails \/ ShadingArrives \/ ShadingFails
  PROVE  FilterInv'
<1> USE DEF FilterInv
<1>0. FilterTypeOK /\ UNCHANGED control /\ areaCode' = areaCode
  BY DEF DetailFails, ShadingArrives, ShadingFails
<1>1. CASE DetailFails
  <2>1. spoiled' # {} /\ spoiled' \subseteq Reasons
    BY <1>0, <1>1 DEF DetailFails, Spoil, FilterTypeOK, Reasons
  <2>2. AppTypeOK' /\ AskedIsChosen'
    BY <1>0, <1>1 DEF DetailFails, FilterTypeOK, AppTypeOK, AskedIsChosen, OrNone
  <2> QED
    BY <1>0, <2>1, <2>2, FilterFromParts DEF FilterTypeOK, control
<1>2. CASE ShadingArrives \/ ShadingFails
  <2>1. UNCHANGED <<detail, load, spoiled>> /\ kids' = None /\ kids # None /\ shaded' \in {kids, shaded}
    BY <1>2 DEF ShadingArrives, ShadingFails
  <2>2. load = None /\ load' = None
    BY <2>1 DEF AskedIsChosen
  <2>3. AppTypeOK' /\ AskedIsChosen'
    BY <1>0, <2>1, <2>2 DEF FilterTypeOK, AppTypeOK, AskedIsChosen, OrNone
  <2>4. ASSUME mounted', spoiled' = {}
        PROVE  ChainDescends' /\ ChainEnds' /\ NothingYet' /\ OffersOnlyChildren'
    <3>1. /\ ChainDescends /\ ChainEnds /\ NothingYet /\ OffersOnlyChildren
      BY <1>0, <2>1, <2>4 DEF Agreement, control
    <3>2. areaCode # None => EndsAt(areaCode)
      BY <2>2, <3>1 DEF ChainEnds, EndsAbove
    <3> QED
      BY <1>0, <2>1, <3>1, <3>2 DEF control, ChainDescends, ChainEnds, EndsAt, NothingYet, OffersOnlyChildren
  <2> QED
    BY <1>0, <2>1, <2>3, <2>4, FilterFromParts DEF FilterTypeOK, control
<1> QED
  BY <1>1, <1>2

(* A select: the area chosen, or for "all" the one above, ends the chain.  *)
LEMMA FilterChoose ==
  ASSUME FilterInv, NEW d \in Depths, NEW a \in OrNone(Areas), Choose(d, a)
  PROVE  FilterInv'
<1> USE DEF FilterInv
<1> DEFINE e == Effective(d, a)
<1>0. /\ FilterTypeOK /\ AppTypeOK /\ mounted /\ options[d] # {} /\ a \in OrNone(options[d])
      /\ chain' = [Path(chain, d) EXCEPT ![d] = a]
      /\ options' = Lists(options, d + 1)
      /\ following' = e /\ SetArea(e)
      /\ IF a # None THEN Expand(a) ELSE UNCHANGED <<asks, busy>>
      /\ UNCHANGED <<mounted, roots, spoiled>>
  BY DEF Choose, ChosenChain, Drawn, FilterTypeOK, AppTypeOK
<1>1. /\ d \in Nat /\ (d # 0 => d - 1 \in Depths) /\ chain \in [Depths -> OrNone(Areas)]
      /\ a # None => a \in Areas
  BY <1>0 DEF FilterTypeOK, Depths, OrNone
<1>2. e \in OrNone(Areas) /\ e = IF a # None \/ d = 0 THEN a ELSE chain[d - 1]
  BY <1>1 DEF Effective
<1>3. chain' \in [Depths -> OrNone(Areas)] /\ options' \in [Depths -> SUBSET Areas]
  BY <1>0, <1>1, PathType, ListsType DEF FilterTypeOK
<1>4. /\ \A x \in Depths : chain'[x] = IF x < d THEN chain[x] ELSE IF x = d THEN a ELSE None
      /\ \A x \in Depths : options'[x] = IF x < d + 1 THEN options[x] ELSE {}
  <2>1. \A x \in Depths : Lists(options, d + 1)[x] = IF x < d + 1 THEN options[x] ELSE {}
    BY DEF Lists
  <2> QED
    BY <1>0, <1>1, <2>1 DEF Path, Depths
<1>5. asks' \in [Areas -> 0..MaxAsks] /\ busy' \in BOOLEAN
  BY <1>0, <1>1, AskMore DEF FilterTypeOK
<1>6. /\ AppTypeOK' /\ AskedIsChosen' /\ areaCode' = e
  BY <1>0, <1>2, AreaIsSet
<1>7. ASSUME mounted', spoiled' = {}
      PROVE  ChainDescends' /\ ChainEnds' /\ NothingYet' /\ OffersOnlyChildren'
  <2>1. /\ ChainDescends /\ ChainEnds /\ NothingYet /\ OffersOnlyChildren
    BY <1>0, <1>7 DEF Agreement
  <2>2. d # 0 => chain[d - 1] \in Areas /\ chain[d - 1] # None /\ Level[chain[d - 1]] = d - 1
    BY <1>0, <1>1, <2>1 DEF OffersOnlyChildren, ChainDescends, OrNone
  <2>3. a # None => /\ Level[a] = d
                    /\ d # 0 => Parent[a] = chain[d - 1]
    <3>1. CASE a # None /\ d = 0
      <4>1. Parent[a] = None
        BY <1>0, <2>1, <3>1 DEF NothingYet, Roots, Children, OrNone
      <4> QED
        BY <1>1, <3>1, <4>1, Levels
    <3>2. CASE a # None /\ d # 0
      <4>1. Parent[a] = chain[d - 1]
        BY <1>0, <2>1, <3>2 DEF OffersOnlyChildren, Children, OrNone
      <4>2. Level[a] = Level[chain[d - 1]] + 1
        BY <1>1, <2>2, <3>2, <4>1, Levels
      <4> QED
        BY <1>1, <2>2, <3>2, <4>1, <4>2
    <3> QED
      BY <3>1, <3>2
  <2>4. ~roots
    BY <1>0, <2>1 DEF NothingYet, NoOptions
  <2>5. ASSUME NEW x \in Depths, chain'[x] # None
        PROVE  Level[chain'[x]] = x /\ (x # 0 => Parent[chain'[x]] = chain'[x - 1])
    <3>1. x \in Nat /\ (x # 0 => x - 1 \in Depths /\ x - 1 < x)
      BY DEF Depths
    <3>2. CASE x < d
      BY <1>1, <1>4, <2>1, <2>5, <3>1, <3>2 DEF ChainDescends
    <3>3. CASE x = d
      BY <1>1, <1>4, <2>3, <2>5, <3>1, <3>3
    <3> QED
      BY <1>1, <1>4, <2>5, <3>1, <3>2, <3>3
  <2>6. e # None => /\ e \in Areas /\ Level[e] \in Depths /\ chain'[Level[e]] = e
                    /\ \A x \in Depths : x > Level[e] => chain'[x] = None
    <3>1. CASE a # None
      BY <1>1, <1>2, <1>4, <2>3, <3>1 DEF Depths
    <3>2. CASE a = None
      <4>1. e # None => d # 0 /\ e = chain[d - 1] /\ Level[e] = d - 1 /\ e \in Areas
        BY <1>2, <2>2, <3>2
      <4> QED
        BY <1>1, <1>4, <3>2, <4>1 DEF Depths
    <3> QED
      BY <3>1, <3>2
  <2>7. e = None => d = 0 /\ a = None
    BY <1>2, <2>2
  <2>8. ChainDescends'
    BY <1>0, <2>5, <2>6 DEF ChainDescends, Members
  <2>9. ChainEnds'
    BY <1>4, <1>6, <2>6, <2>7 DEF ChainEnds, EndsAt, Depths
  <2>10. OffersOnlyChildren'
    <3>1. ASSUME NEW x \in Depths \ {0}, options'[x] # {}
          PROVE  chain'[x - 1] # None /\ options'[x] \subseteq Children(chain'[x - 1])
      <4>1. x < d + 1 /\ x - 1 \in Depths /\ x - 1 < d /\ options'[x] = options[x]
        BY <1>1, <1>4, <3>1 DEF Depths
      <4> QED
        BY <1>4, <2>1, <3>1, <4>1 DEF OffersOnlyChildren
    <3> QED
      BY <3>1 DEF OffersOnlyChildren
  <2>11. NothingYet'
    <3>1. options'[0] = options[0]
      BY <1>1, <1>4, PlainTypes
    <3> QED
      BY <1>0, <2>1, <2>4, <3>1 DEF NothingYet
  <2> QED
    BY <2>8, <2>9, <2>10, <2>11
<1> HIDE DEF e
<1> QED
  BY <1>0, <1>2, <1>3, <1>5, <1>6, <1>7, FilterFromParts DEF FilterTypeOK

(* A click on the map: unspoiled, it is on a child of the chosen area.     *)
LEMMA FilterClick ==
  ASSUME FilterInv, NEW a \in Areas, ClickShaded(a)
  PROVE  FilterInv'
<1> USE DEF FilterInv
<1>0. /\ FilterTypeOK /\ AppTypeOK /\ shaded # None /\ Parent[a] = shaded /\ SetArea(a)
      /\ Spoil("stale", shaded # areaCode) /\ UNCHANGED control
      /\ a # None /\ a \in OrNone(Areas)
  BY NotAnArea DEF ClickShaded, Children, FilterTypeOK, AppTypeOK, OrNone
<1>1. /\ AppTypeOK' /\ AskedIsChosen' /\ areaCode' = a
      /\ a # areaCode => load' = a
      /\ shaded' = shaded
  BY <1>0, AreaIsSet
<1>2. spoiled' \subseteq Reasons /\ (spoiled' = {} => spoiled = {} /\ shaded = areaCode)
  BY <1>0 DEF Spoil, FilterTypeOK, Reasons
<1>3. ASSUME mounted', spoiled' = {}
      PROVE  ChainDescends' /\ ChainEnds' /\ NothingYet' /\ OffersOnlyChildren'
  <2>1. /\ ChainDescends /\ ChainEnds /\ NothingYet /\ OffersOnlyChildren
        /\ areaCode = shaded /\ areaCode # None /\ areaCode \in Areas
    BY <1>0, <1>2, <1>3 DEF Agreement, control, FilterTypeOK, OrNone
  <2>2. EndsAt(areaCode)
    BY <2>1 DEF ChainEnds, EndsAbove
  <2>3. Level[a] = Level[areaCode] + 1 /\ Level[areaCode] \in Nat /\ a # areaCode
    BY <1>0, <2>1, Levels
  <2>4. chain[Level[a] - 1] = areaCode
    <3>1. Level[a] - 1 = Level[areaCode]
      BY <2>3
    <3> QED
      BY <2>2, <3>1 DEF EndsAt
  <2>5. \A d \in Depths : d >= Level[a] => chain[d] = None
    BY <2>2, <2>3 DEF EndsAt, Depths
  <2>6. chain' = chain
    BY <1>0 DEF control
  <2>7. EndsAbove(a)'
    BY <1>0, <1>1, <2>1, <2>3, <2>4, <2>5, <2>6 DEF EndsAbove
  <2>8. ~roots
    BY <2>1 DEF NothingYet
  <2> QED
    BY <1>0, <1>1, <2>1, <2>7, <2>8 DEF control, ChainDescends, ChainEnds, NothingYet, OffersOnlyChildren
<1> QED
  BY <1>0, <1>1, <1>2, <1>3, FilterFromParts DEF FilterTypeOK, control

LEMMA FilterClear ==
  ASSUME FilterInv, ClearArea
  PROVE  FilterInv'
<1> USE DEF FilterInv
<1>0. /\ FilterTypeOK /\ AppTypeOK /\ SetArea(None) /\ following' = None /\ None \in OrNone(Areas)
      /\ chain' \in {chain, Path(chain, 1)}
      /\ spoiled' = spoiled \cup {"cleared"}
      /\ UNCHANGED <<mounted, options, busy, roots, asks>>
  BY DEF ClearArea, Spoil, FilterTypeOK, AppTypeOK, OrNone
<1>1. AppTypeOK' /\ AskedIsChosen'
  BY <1>0, AreaIsSet
<1>2. chain' \in [Depths -> OrNone(Areas)]
  BY <1>0, PathType DEF FilterTypeOK
<1>3. spoiled' \subseteq Reasons /\ spoiled' # {}
  BY <1>0 DEF FilterTypeOK, Reasons
<1> QED
  BY <1>0, <1>1, <1>2, <1>3, FilterFromParts DEF FilterTypeOK

(* The control is put on the page; it agrees if no area is chosen yet.     *)
LEMMA FilterMounts ==
  ASSUME FilterInv, Mount
  PROVE  FilterInv' /\ mounted' = TRUE
<1> USE DEF FilterInv
<1>0. /\ FilterTypeOK /\ mounted' = TRUE /\ options' = NoOptions /\ roots' = TRUE
      /\ following' = detail /\ Spoil("remounted", areaCode # None) /\ UNCHANGED app
  BY DEF Mount
<1>1. AppTypeOK' /\ AskedIsChosen' /\ detail \in OrNone(Areas)
  BY <1>0 DEF FilterTypeOK, AppTypeOK, AskedIsChosen, app
<1>2. spoiled' \subseteq Reasons /\ (spoiled' = {} => areaCode = None)
  BY <1>0 DEF Spoil, FilterTypeOK, Reasons
<1>3. /\ chain' \in [Depths -> OrNone(Areas)] /\ asks' \in [Areas -> 0..MaxAsks] /\ busy' \in BOOLEAN
      /\ detail = None => chain' = NoChain
  <2>1. CASE detail = None
    BY <2>1, PlainTypes DEF Mount
  <2>2. CASE detail # None
    <3>1. detail \in Areas /\ 1 \in 0..MaxAsks
      BY <1>1, <2>2, AreaFilterAssumption DEF OrNone
    <3>2. /\ chain' = [NoChain EXCEPT ![Level[detail]] = detail]
          /\ asks' = [NoAsks EXCEPT ![detail] = 1] /\ busy' = TRUE
      BY <2>2 DEF Mount
    <3> QED
      BY <1>1, <2>2, <3>1, <3>2, PlainTypes
  <2> QED
    BY <2>1, <2>2
<1>4. ASSUME spoiled' = {}
      PROVE  ChainDescends' /\ ChainEnds' /\ NothingYet' /\ OffersOnlyChildren'
  <2>1. areaCode' = None /\ following' = None /\ chain' = NoChain
    BY <1>0, <1>2, <1>3, <1>4 DEF AskedIsChosen, app
  <2>2. \A d \in Depths : chain'[d] = None /\ options'[d] = {}
    BY <1>0, <2>1 DEF NoChain, NoOptions
  <2> QED
    BY <1>0, <2>1, <2>2, PlainTypes DEF ChainDescends, ChainEnds, NothingYet, OffersOnlyChildren
<1>5. mounted' \in BOOLEAN /\ roots' \in BOOLEAN /\ options' \in [Depths -> SUBSET Areas]
  BY <1>0, PlainTypes
<1> QED
  BY <1>0, <1>1, <1>2, <1>3, <1>4, <1>5, FilterFromParts

(* Off the page it agrees with nothing.                                    *)
LEMMA FilterVanishes ==
  ASSUME FilterInv, Unmount \/ Forget
  PROVE  FilterInv' /\ mounted' = FALSE
<1> USE DEF FilterInv
<1>0. FilterTypeOK /\ AppTypeOK /\ Vanish /\ spoiled' = spoiled /\ mounted' = FALSE /\ None \in OrNone(Areas)
  BY DEF Unmount, Forget, FilterTypeOK, AppTypeOK, OrNone, Vanish
<1>1. CASE Unmount
  BY <1>0, <1>1, PlainTypes DEF Unmount, Vanish, FilterTypeOK, AskedIsChosen, Agreement, app, OrNone
<1>2. CASE Forget
  <2>1. AppTypeOK' /\ AskedIsChosen'
    BY <1>0, <1>2, AreaIsSet DEF Forget
  <2> QED
    BY <1>0, <2>1, PlainTypes, FilterFromParts DEF Vanish, FilterTypeOK
<1> QED
  BY <1>1, <1>2

LEMMA FilterKept == FilterInv /\ UNCHANGED filterVars => FilterInv' /\ mounted' = mounted
<1> SUFFICES ASSUME FilterInv, UNCHANGED filterVars PROVE FilterInv' /\ mounted' = mounted
  OBVIOUS
<1>1. UNCHANGED <<mounted, options, chain, busy, following, roots, asks,
                  areaCode, detail, shaded, load, kids, spoiled>>
  BY DEF filterVars, control, app
<1> QED
  BY <1>1 DEF FilterInv, FilterTypeOK, AskedIsChosen, Agreement, ChainDescends, ChainEnds,
              EndsAt, EndsAbove, NothingYet, OffersOnlyChildren

LEMMA FilterNext ==
  ASSUME FilterInv, FilterAnswers \/ FilterChoices
  PROVE  FilterInv'
  BY FilterRoots, FilterListing, FilterDetail, FilterApp, FilterChoose, FilterClick, FilterClear
     DEF FilterAnswers, FilterChoices
LEMMA FilterStays == FilterAnswers \/ FilterChoices => UNCHANGED mounted
  BY DEF FilterAnswers, FilterChoices, RootsArrive, RootsFail, ChildrenListed, ListingFails,
         DetailArrives, DetailFails, ShadingArrives, ShadingFails, Choose, ClickShaded, ClearArea,
         control

-----------------------------------------------------------------------------
(* The approval queue *)

TablesOK ==
    /\ server \in Table /\ holder \in Holders /\ rows \in Table
    /\ elsewhere \subseteq People
    /\ opened \in BOOLEAN /\ loaded \in BOOLEAN /\ failed \in BOOLEAN
    /\ badge \in Nat
    /\ busyId \in OrNone(People)
    /\ list \in OrNone(Listings)
    /\ doubt \subseteq {"crossed", "lost", "left"}

(* A change is about an account that exists, and says what its kind says;  *)
(* one that was served carries the account of its answer.                  *)
WritesOK ==
    /\ write \in [Slots -> OrNone(Writes)]
    /\ \A s \in Slots : write[s] # None =>
          /\ write[s].body \in Body(write[s].kind)
          /\ server[write[s].id] # None
          /\ write[s].at = "served" => write[s].answer # None
          /\ doubt = {} => write[s].watched

(* So are the dialogs and what is asked for them.                          *)
DialogsOK ==
    /\ asksDevices \subseteq (People \X OrNone(Holders))
    /\ \A q \in asksDevices : server[q[1]] # None
    /\ choosing \in OrNone(Dialogs) /\ assignable \in OrNone(Holders)
    /\ choosing # None => server[choosing.id] # None /\ assignable # None
    /\ naming \in OrNone(People)
    /\ naming # None => server[naming] # None

(* Whoever is listed exists.                                               *)
RowsExist ==
    /\ \A u \in People : rows[u] # None => server[u] # None
    /\ list # None /\ list.table # None =>
          \A u \in People : list.table[u] # None => server[u] # None

(* Until the first list arrives the page is blank: nothing can be changed, *)
(* and what was changed before is in doubt.                                *)
Blank ==
    /\ rows = NoRows /\ asksDevices = {} /\ choosing = None /\ naming = None
    /\ doubt = {} => \A s \in Slots : write[s] = None
BlankUntilListed ==
    /\ ~opened => Blank /\ list = None
    /\ list # None => Blank

(* Without doubt the changes under way are about different accounts; and   *)
(* where nobody else has changed the account, an answer is the account as  *)
(* it is, and so is every row whose change has not been served.            *)
OneEach ==
    \A s, r \in Slots : write[s] # None /\ write[r] # None /\ write[s].id = write[r].id => s = r
AnswersAreTrue ==
    \A s \in Slots : write[s] # None /\ write[s].at = "served" /\ write[s].id \notin elsewhere =>
       write[s].answer = server[write[s].id]
Unserved(u) ==
    \A s \in Slots : write[s] # None /\ write[s].id = u => write[s].at # "served"
RowsAreTrue ==
    \A u \in People \ elsewhere : rows[u] # None /\ Unserved(u) => rows[u] = server[u]
ListIsTrue ==
    list # None /\ list.table # None =>
       \A u \in People \ elsewhere : list.table[u] # None => list.table[u] = server[u]
Faithful == doubt = {} => OneEach /\ AnswersAreTrue /\ RowsAreTrue /\ ListIsTrue

QueueInv ==
    /\ TablesOK /\ WritesOK /\ DialogsOK /\ RowsExist /\ BlankUntilListed /\ Faithful
    /\ BadgeNeverOverstates /\ TakenStaysTaken

-----------------------------------------------------------------------------
LEMMA NotNone ==
  None \notin People /\ None \notin Account /\ None \notin Table /\ None \notin Holders
  /\ None \notin Writes /\ None \notin Listings /\ None \notin Dialogs
  BY UsersAssumption

LEMMA QueueTypes == QueueInv => UsersTypeOK
<1> SUFFICES ASSUME QueueInv PROVE UsersTypeOK
  OBVIOUS
<1>1. badge \in 0..Cardinality(People)
  <2>1. Waiting(rows) \subseteq People /\ IsFiniteSet(People)
    BY UsersAssumption DEF Waiting
  <2>2. Cardinality(Waiting(rows)) \in Nat /\ Cardinality(People) \in Nat
        /\ Cardinality(Waiting(rows)) <= Cardinality(People)
    BY <2>1, FS_Subset, FS_CardinalityType
  <2> QED
    BY <2>2 DEF QueueInv, TablesOK, BadgeNeverOverstates
<1>2. ASSUME NEW s \in Slots, write[s] # None
      PROVE  /\ DOMAIN write[s] = {"id", "kind", "body", "at", "answer", "watched"}
             /\ write[s].id \in People /\ write[s].answer \in OrNone(Account)
             /\ write[s].kind \in Kinds /\ write[s].body \in Body(write[s].kind)
             /\ write[s].at \in Phases
  <2>1. write[s] \in Writes /\ write[s].body \in Body(write[s].kind)
    BY <1>2 DEF QueueInv, WritesOK, OrNone
  <2> QED
    BY <2>1 DEF Writes
<1> QED
  BY <1>1, <1>2 DEF QueueInv, TablesOK, DialogsOK, UsersTypeOK

LEMMA QueueShows == QueueInv => UsersInv
<1> SUFFICES ASSUME QueueInv PROVE UsersInv
  OBVIOUS
<1>1. RowsAreTheAccounts
  BY DEF QueueInv, Faithful, RowsAreTheAccounts, RowsAreTrue, Unserved
<1> QED
  BY <1>1 DEF QueueInv, UsersInv

LEMMA NobodyWaits == Waiting(NoRows) = {} /\ Cardinality(Waiting(NoRows)) = 0
<1>1. Waiting(NoRows) = {}
  BY DEF Waiting, NoRows
<1> QED
  BY <1>1, FS_EmptySet

LEMMA QueueInit == UsersInit => QueueInv
<1> SUFFICES ASSUME UsersInit PROVE QueueInv
  OBVIOUS
<1>1. NoRows \in Table
  BY DEF NoRows, Table, OrNone
<1>2. TablesOK
  BY <1>1, UsersAssumption DEF UsersInit, TablesOK, OrNone
<1>3. WritesOK
  BY DEF UsersInit, WritesOK, OrNone
<1>4. DialogsOK /\ TakenStaysTaken
  BY DEF UsersInit, DialogsOK, TakenStaysTaken, OrNone
<1>5. \A s \in Slots : write[s] = None
  BY DEF UsersInit
<1>6. \A u \in People : rows[u] = None
  BY DEF UsersInit, NoRows
<1>7. RowsExist /\ BlankUntilListed /\ Faithful
  BY <1>5, <1>6 DEF UsersInit, RowsExist, BlankUntilListed, Blank, Faithful, OneEach, AnswersAreTrue,
                    RowsAreTrue, ListIsTrue
<1>8. BadgeNeverOverstates
  BY NobodyWaits DEF UsersInit, BadgeNeverOverstates
<1> QED
  BY <1>2, <1>3, <1>4, <1>7, <1>8 DEF QueueInv

-----------------------------------------------------------------------------
(* An account is never removed.                                            *)
SameAccounts == \A u \in People : server[u] # None => server'[u] # None

LEMMA DialogsKept ==
  ASSUME DialogsOK, TakenStaysTaken, SameAccounts, server \in Table, UNCHANGED <<asksDevices, dialog>>
  PROVE  DialogsOK' /\ TakenStaysTaken'
<1>1. UNCHANGED <<asksDevices, choosing, assignable, naming>>
  BY DEF dialog
<1>2. TakenStaysTaken'
  BY <1>1 DEF TakenStaysTaken
<1>3. \A q \in asksDevices : q[1] \in People
  BY DEF DialogsOK
<1>4. choosing # None => choosing.id \in People
  BY DEF DialogsOK, OrNone, Dialogs
<1> QED
  BY <1>1, <1>2, <1>3, <1>4 DEF DialogsOK, SameAccounts, OrNone

(* An account changes without this page: by a sign-in, or by a super admin *)
(* elsewhere.                                                              *)
LEMMA QueueElsewhere ==
  ASSUME QueueInv, NEW u \in People, NEW acc \in Account,
         server' = [server EXCEPT ![u] = acc], holder' \in Holders, Notice,
         UNCHANGED <<opened, rows, badge, loaded, failed, busyId, list, asksDevices,
                     dialog, write, doubt>>
  PROVE  QueueInv'
<1>1. acc # None /\ server \in Table
  BY NotNone DEF QueueInv, TablesOK
<1>2. /\ server' \in Table /\ SameAccounts
      /\ elsewhere \subseteq elsewhere' /\ elsewhere' \subseteq People
      /\ \A v \in People \ elsewhere' : server'[v] = server[v]
  BY <1>1 DEF Table, SameAccounts, OrNone, Notice, QueueInv, TablesOK
<1>3. TablesOK'
  BY <1>2 DEF QueueInv, TablesOK
<1>4. DialogsOK' /\ TakenStaysTaken'
  BY <1>1, <1>2, DialogsKept DEF QueueInv
<1>5. \A s \in Slots : write[s] # None => write[s].id \in People
  BY DEF QueueInv, WritesOK, Writes, OrNone
<1>6. WritesOK'
  BY <1>2, <1>5 DEF QueueInv, WritesOK, SameAccounts
<1>7. RowsExist' /\ BlankUntilListed' /\ BadgeNeverOverstates'
  BY <1>2 DEF QueueInv, RowsExist, SameAccounts, BlankUntilListed, Blank, BadgeNeverOverstates, dialog
<1>8. Faithful'
  <2> SUFFICES ASSUME doubt = {} PROVE OneEach' /\ AnswersAreTrue' /\ RowsAreTrue' /\ ListIsTrue'
    BY DEF Faithful
  <2>1. OneEach /\ AnswersAreTrue /\ RowsAreTrue /\ ListIsTrue
    BY DEF QueueInv, Faithful
  <2>2. OneEach'
    BY <2>1 DEF OneEach
  <2>3. AnswersAreTrue'
    BY <1>2, <1>5, <2>1 DEF AnswersAreTrue
  <2>4. RowsAreTrue'
    BY <1>2, <2>1 DEF RowsAreTrue, Unserved
  <2>5. ListIsTrue'
    BY <1>2, <2>1 DEF ListIsTrue
  <2> QED
    BY <2>2, <2>3, <2>4, <2>5
<1> QED
  BY <1>3, <1>4, <1>6, <1>7, <1>8 DEF QueueInv

LEMMA QueueSignsIn ==
  ASSUME QueueInv, NEW u \in People, SignsIn(u)
  PROVE  QueueInv'
<1> DEFINE new == [status |-> "pending", role |-> "admin", credit |-> FALSE]
           lifted == [status |-> "approved", role |-> "super_admin",
                      credit |-> server[u] # None /\ server[u].credit]
<1>1. /\ Notice /\ holder' \in Holders
      /\ UNCHANGED <<opened, rows, badge, loaded, failed, busyId, list, asksDevices,
                     dialog, write, doubt>>
  BY DEF SignsIn, page, QueueInv, TablesOK
<1>2. CASE u \notin Bootstrap
  <2>1. server' = [server EXCEPT ![u] = new]
    BY <1>2 DEF SignsIn
  <2>2. new \in Account
    BY DEF Account, Statuses, Plain
  <2> HIDE DEF new
  <2> QED
    BY <1>1, <2>1, <2>2, QueueElsewhere
<1>3. CASE u \in Bootstrap
  <2>1. server' = [server EXCEPT ![u] = lifted]
    BY <1>3 DEF SignsIn
  <2>2. server[u] = None \/ (server[u] # None /\ server[u] \in Account)
    BY DEF QueueInv, TablesOK, Table, OrNone
  <2>3. (server[u] # None /\ server[u].credit) \in BOOLEAN
    BY <2>2 DEF Account
  <2>4. lifted \in Account
    BY <2>3 DEF Account, Statuses, Plain
  <2> HIDE DEF lifted
  <2> QED
    BY <1>1, <2>1, <2>4, QueueElsewhere
<1> QED
  BY <1>2, <1>3

(* What the server makes of a change it does not refuse.                   *)
LEMMA ServedIsAnAccount ==
  ASSUME server \in Table, NEW w, w.id \in People, w.kind \in Kinds, w.body \in Body(w.kind),
         server[w.id] # None
  PROVE  server[w.id] \in Account /\ Served(w) \in Account
<1>1. server[w.id] \in Account
  BY DEF Table, OrNone
<1>2. CASE w.kind = "decide"
  <2>1. w.body \in Statuses /\ Served(w) = [server[w.id] EXCEPT !.status = w.body]
    BY <1>2 DEF Body, Served
  <2> QED
    BY <1>1, <2>1 DEF Account
<1>3. CASE w.kind = "role"
  <2>1. w.body \in Plain \cup Networks /\ Served(w) = [server[w.id] EXCEPT !.role = w.body]
    BY <1>3 DEF Body, Served
  <2> QED
    BY <1>1, <2>1 DEF Account
<1>4. CASE w.kind = "credit"
  <2>1. w.body \in BOOLEAN /\ Served(w) = [server[w.id] EXCEPT !.credit = w.body]
    BY <1>4 DEF Body, Served
  <2> QED
    BY <1>1, <2>1 DEF Account
<1>5. CASE w.kind = "devices"
  BY <1>1, <1>5 DEF Served
<1> QED
  BY <1>1, <1>2, <1>3, <1>4, <1>5 DEF Kinds

LEMMA HeldIsHolders ==
  ASSUME holder \in Holders, NEW w, w.id \in People
  PROVE  Held(w) \in Holders
  BY DEF Held, Holders, OrNone

LEMMA WriteIsServed ==
  ASSUME QueueInv, NEW s \in Slots, write[s] # None
  PROVE  /\ write[s] \in Writes /\ write[s].id \in People /\ server[write[s].id] \in Account
         /\ Served(write[s]) \in Account /\ Held(write[s]) \in Holders
<1>1. /\ server \in Table /\ holder \in Holders /\ write[s] \in Writes
      /\ write[s].id \in People /\ write[s].kind \in Kinds
      /\ write[s].body \in Body(write[s].kind) /\ server[write[s].id] # None
  BY DEF QueueInv, WritesOK, TablesOK, Writes, OrNone
<1> QED
  BY <1>1, ServedIsAnAccount, HeldIsHolders

LEMMA QueueChanges ==
  ASSUME QueueInv, NEW actor \in People, NEW u \in People, NEW kind \in Kinds, NEW body \in Body(kind),
         ChangesElsewhere(actor, [id |-> u, kind |-> kind, body |-> body])
  PROVE  QueueInv'
<1> DEFINE w == [id |-> u, kind |-> kind, body |-> body]
<1>1. w.id = u /\ w.kind = kind /\ w.body = body
  OBVIOUS
<1> HIDE DEF w
<1>2. ChangesElsewhere(actor, w)
  BY DEF w
<1>3. server[u] # None /\ server \in Table /\ holder \in Holders
  BY <1>1, <1>2 DEF ChangesElsewhere, QueueInv, TablesOK
<1>4. Served(w) \in Account /\ Held(w) \in Holders
  BY <1>1, <1>3, ServedIsAnAccount, HeldIsHolders
<1>5. /\ server' = [server EXCEPT ![u] = Served(w)] /\ holder' \in Holders /\ Notice
      /\ UNCHANGED <<opened, rows, badge, loaded, failed, busyId, list, asksDevices,
                     dialog, write, doubt>>
  BY <1>1, <1>2, <1>3, <1>4 DEF ChangesElsewhere, page
<1> QED
  BY <1>4, <1>5, QueueElsewhere

(* One change of the list of changes.                                      *)
LEMMA OneWrite ==
  ASSUME write \in [Slots -> OrNone(Writes)], NEW s \in Slots, NEW w \in OrNone(Writes),
         write' = [write EXCEPT ![s] = w]
  PROVE  /\ write' \in [Slots -> OrNone(Writes)] /\ write'[s] = w
         /\ \A r \in Slots : r # s => write'[r] = write[r]
  BY DEF OrNone

(* The server refuses a change, or does what it says.                      *)
LEMMA QueueServe ==
  ASSUME QueueInv, NEW s \in Slots, ServeWrite(s)
  PROVE  QueueInv'
<1> DEFINE w == write[s]
<1>1. /\ w # None /\ w.at = "sent" /\ write \in [Slots -> OrNone(Writes)] /\ server \in Table
      /\ UNCHANGED <<opened, rows, badge, loaded, failed, busyId, list, asksDevices, dialog, doubt>>
  BY DEF ServeWrite, page, QueueInv, WritesOK, TablesOK
<1>2. /\ w \in Writes /\ w.id \in People /\ w.body \in Body(w.kind) /\ w.kind \in Kinds
      /\ server[w.id] \in Account /\ server[w.id] # None
      /\ Served(w) \in Account /\ Served(w) # None /\ Held(w) \in Holders
      /\ w.watched \in BOOLEAN /\ (doubt = {} => w.watched)
  BY <1>1, WriteIsServed, NotNone DEF QueueInv, WritesOK, Writes
<1>3. CASE Refuses(Me, w)
  <2>1. /\ UNCHANGED <<server, holder, elsewhere>>
        /\ write' = [write EXCEPT ![s] = IF w.watched THEN [w EXCEPT !.at = "refused"] ELSE None]
    BY <1>3 DEF ServeWrite
  <2> DEFINE new == IF w.watched THEN [w EXCEPT !.at = "refused"] ELSE None
  <2>2. /\ new \in OrNone(Writes)
        /\ new # None =>
             /\ new \in Writes /\ new.id = w.id /\ new.kind = w.kind /\ new.body = w.body
             /\ new.at = "refused" /\ new.watched
        /\ doubt = {} => new # None
    BY <1>2, NotNone DEF Writes, Phases, OrNone
  <2>3. /\ write' \in [Slots -> OrNone(Writes)] /\ write'[s] = new
        /\ \A r \in Slots : r # s => write'[r] = write[r]
    BY <1>1, <2>1, <2>2, OneWrite
  <2> HIDE DEF new, w
  <2>4. TablesOK'
    BY <1>1, <2>1 DEF QueueInv, TablesOK
  <2>5. DialogsOK' /\ TakenStaysTaken'
    BY <1>1, <2>1, DialogsKept DEF QueueInv, SameAccounts
  <2>6. WritesOK'
    BY <1>1, <1>2, <2>1, <2>2, <2>3 DEF QueueInv, WritesOK
  <2>7. RowsExist' /\ BadgeNeverOverstates'
    BY <1>1, <2>1 DEF QueueInv, RowsExist, BadgeNeverOverstates
  <2>8. BlankUntilListed'
    BY <1>1, <2>1, <2>3 DEF QueueInv, BlankUntilListed, Blank, dialog, w
  <2>9. Faithful'
    <3> SUFFICES ASSUME doubt = {} PROVE OneEach' /\ AnswersAreTrue' /\ RowsAreTrue' /\ ListIsTrue'
      BY <1>1 DEF Faithful
    <3>1. OneEach /\ AnswersAreTrue /\ RowsAreTrue /\ ListIsTrue
      BY DEF QueueInv, Faithful
    <3>2. OneEach'
      BY <1>1, <2>2, <2>3, <3>1 DEF OneEach, w
    <3>3. AnswersAreTrue'
      BY <2>1, <2>2, <2>3, <3>1 DEF AnswersAreTrue
    <3>4. RowsAreTrue'
      BY <1>1, <2>1, <2>2, <2>3, <3>1 DEF RowsAreTrue, Unserved, w
    <3>5. ListIsTrue'
      BY <1>1, <2>1, <3>1 DEF ListIsTrue
    <3> QED
      BY <3>2, <3>3, <3>4, <3>5
  <2> QED
    BY <2>4, <2>5, <2>6, <2>7, <2>8, <2>9 DEF QueueInv
<1>4. CASE ~Refuses(Me, w)
  <2> DEFINE new == IF ~w.watched THEN None
                    ELSE IF w.kind = "devices" THEN [w EXCEPT !.at = "refetch"]
                    ELSE [w EXCEPT !.at = "served", !.answer = Served(w)]
  <2>1. /\ server' = [server EXCEPT ![w.id] = Served(w)]
        /\ holder' = IF w.kind = "devices" THEN Held(w) ELSE holder
        /\ elsewhere' = IF w.kind = "devices" THEN elsewhere ELSE elsewhere \ {w.id}
        /\ write' = [write EXCEPT ![s] = new]
    BY <1>4 DEF ServeWrite
  <2>2. /\ new \in OrNone(Writes)
        /\ new # None =>
             /\ new \in Writes /\ new.id = w.id /\ new.kind = w.kind /\ new.body = w.body
             /\ new.at \in {"served", "refetch"} /\ new.watched
             /\ new.at = "served" => new.answer = Served(w)
             /\ new.at = "refetch" => w.kind = "devices"
        /\ doubt = {} => new # None
    <3>1. CASE ~w.watched
      BY <1>2, <3>1 DEF OrNone
    <3>2. CASE w.watched /\ w.kind = "devices"
      <4>1. new = [w EXCEPT !.at = "refetch"]
        BY <3>2
      <4>2. /\ new \in Writes /\ new.id = w.id /\ new.kind = w.kind /\ new.body = w.body
            /\ new.at = "refetch" /\ new.watched
        BY <1>2, <3>2, <4>1 DEF Writes, Phases
      <4> HIDE DEF new
      <4> QED
        BY <3>2, <4>2, NotNone DEF OrNone
    <3>3. CASE w.watched /\ w.kind # "devices"
      <4>1. new = [w EXCEPT !.at = "served", !.answer = Served(w)]
        BY <3>3
      <4>2. /\ new \in Writes /\ new.id = w.id /\ new.kind = w.kind /\ new.body = w.body
            /\ new.at = "served" /\ new.watched /\ new.answer = Served(w)
        BY <1>2, <3>3, <4>1 DEF Writes, Phases, OrNone
      <4> HIDE DEF new
      <4> QED
        BY <4>2, NotNone DEF OrNone
    <3> QED
      BY <3>1, <3>2, <3>3
  <2>3. /\ write' \in [Slots -> OrNone(Writes)] /\ write'[s] = new
        /\ \A r \in Slots : r # s => write'[r] = write[r]
    BY <1>1, <2>1, <2>2, OneWrite
  <2> HIDE DEF new, w
  <2>4. /\ server' \in Table /\ server'[w.id] = Served(w) /\ SameAccounts
        /\ \A v \in People : v # w.id => server'[v] = server[v]
        /\ holder' \in Holders
        /\ elsewhere' \subseteq elsewhere /\ elsewhere \subseteq elsewhere' \cup {w.id}
    BY <1>1, <1>2, <2>1 DEF Table, SameAccounts, OrNone, QueueInv, TablesOK
  <2>12. w.kind = "devices" => server'[w.id] = server[w.id] /\ elsewhere' = elsewhere
    BY <1>2, <2>1, <2>4 DEF Served, Kinds
  <2>5. TablesOK'
    BY <1>1, <2>4 DEF QueueInv, TablesOK
  <2>6. DialogsOK' /\ TakenStaysTaken'
    BY <1>1, <2>4, DialogsKept DEF QueueInv
  <2>7. \A r \in Slots : write[r] # None => write[r].id \in People
    BY DEF QueueInv, WritesOK, OrNone, Writes
  <2>8. WritesOK'
    BY <1>1, <1>2, <2>2, <2>3, <2>4, <2>7 DEF QueueInv, WritesOK, SameAccounts
  <2>9. RowsExist' /\ BadgeNeverOverstates'
    BY <1>1, <2>4 DEF QueueInv, RowsExist, BadgeNeverOverstates, SameAccounts
  <2>10. BlankUntilListed'
    BY <1>1, <2>3 DEF QueueInv, BlankUntilListed, Blank, dialog, w
  <2>11. Faithful'
    <3> SUFFICES ASSUME doubt = {} PROVE OneEach' /\ AnswersAreTrue' /\ RowsAreTrue' /\ ListIsTrue'
      BY <1>1 DEF Faithful
    <3>1. OneEach /\ AnswersAreTrue /\ RowsAreTrue /\ ListIsTrue /\ new # None
      BY <2>2 DEF QueueInv, Faithful
    <3>2. \A r \in Slots : r # s /\ write[r] # None => write[r].id # w.id
      BY <1>1, <3>1 DEF OneEach, w
    <3>3. OneEach'
      BY <2>2, <2>3, <3>1, <3>2 DEF OneEach
    <3>4. AnswersAreTrue'
      BY <2>2, <2>3, <2>4, <2>7, <3>1, <3>2 DEF AnswersAreTrue
    <3>5. RowsAreTrue'
      <4>1. ASSUME NEW u \in People \ elsewhere', rows'[u] # None, Unserved(u)'
            PROVE  rows'[u] = server'[u]
        <5>1. u = w.id => w.kind = "devices"
          BY <2>2, <2>3, <3>1, <4>1 DEF Unserved
        <5>2. Unserved(u)
          BY <1>1, <2>3, <4>1 DEF Unserved, w
        <5>3. u \notin elsewhere /\ server'[u] = server[u]
          BY <2>4, <2>12, <4>1, <5>1
        <5> QED
          BY <1>1, <3>1, <4>1, <5>2, <5>3 DEF RowsAreTrue
      <4> QED
        BY <4>1 DEF RowsAreTrue
    <3>6. ListIsTrue'
      <4>1. list = None
        BY <1>1 DEF QueueInv, BlankUntilListed, Blank, w
      <4> QED
        BY <1>1, <4>1 DEF ListIsTrue
    <3> QED
      BY <3>3, <3>4, <3>5, <3>6
  <2> QED
    BY <2>5, <2>6, <2>8, <2>9, <2>10, <2>11 DEF QueueInv
<1> QED
  BY <1>3, <1>4

LEMMA QueueRefetch ==
  ASSUME QueueInv, NEW s \in Slots, ServeRefetch(s)
  PROVE  QueueInv'
<1> DEFINE w == write[s]
           new == IF Forbidden THEN [w EXCEPT !.at = "refused"]
                  ELSE [w EXCEPT !.at = "served", !.answer = server[w.id]]
<1>1. /\ w # None /\ w.at = "refetch" /\ write \in [Slots -> OrNone(Writes)]
      /\ UNCHANGED <<server, holder, opened, rows, badge, loaded, failed, busyId, list, asksDevices,
                     dialog, doubt>>
  BY DEF ServeRefetch, page, QueueInv, WritesOK
<1>2. /\ w \in Writes /\ w.id \in People /\ server[w.id] \in Account /\ server[w.id] # None
      /\ (doubt = {} => w.watched) /\ w.body \in Body(w.kind)
  BY <1>1, WriteIsServed, NotNone DEF QueueInv, WritesOK
<1>3. /\ new \in Writes /\ new.id = w.id /\ new.kind = w.kind /\ new.body = w.body
      /\ new.at \in {"served", "refused"} /\ new.watched = w.watched
      /\ new.at = "served" => new.answer = server[w.id]
  <2>1. CASE Forbidden
    BY <1>2, <2>1 DEF Writes, Phases
  <2>2. CASE ~Forbidden
    BY <1>2, <2>2 DEF Writes, Phases, OrNone
  <2> QED
    BY <2>1, <2>2
<1>4. /\ write' \in [Slots -> OrNone(Writes)] /\ write'[s] = new
      /\ \A r \in Slots : r # s => write'[r] = write[r]
  <2>1. CASE Forbidden
    BY <1>1, <1>3, <2>1 DEF ServeRefetch, OrNone
  <2>2. CASE ~Forbidden
    BY <1>1, <1>3, <2>2 DEF ServeRefetch, OrNone
  <2> QED
    BY <2>1, <2>2
<1>12. /\ elsewhere' \subseteq elsewhere
       /\ \A u \in elsewhere \ elsewhere' : u = w.id /\ new.at = "served"
  <2>1. CASE Forbidden
    BY <2>1 DEF ServeRefetch
  <2>2. CASE ~Forbidden
    BY <1>2, <2>2 DEF ServeRefetch
  <2> QED
    BY <2>1, <2>2
<1>5. new # None
  BY <1>3, NotNone
<1> HIDE DEF new, w
<1>6. TablesOK'
  BY <1>1, <1>12 DEF QueueInv, TablesOK
<1>7. DialogsOK' /\ TakenStaysTaken'
  BY <1>1, DialogsKept DEF QueueInv, TablesOK, SameAccounts
<1>8. WritesOK'
  BY <1>1, <1>2, <1>3, <1>4, <1>5 DEF QueueInv, WritesOK
<1>9. RowsExist' /\ BadgeNeverOverstates'
  BY <1>1 DEF QueueInv, RowsExist, BadgeNeverOverstates
<1>10. BlankUntilListed'
  BY <1>1, <1>4 DEF QueueInv, BlankUntilListed, Blank, dialog, w
<1>11. Faithful'
  <2> SUFFICES ASSUME doubt = {} PROVE OneEach' /\ AnswersAreTrue' /\ RowsAreTrue' /\ ListIsTrue'
    BY <1>1 DEF Faithful
  <2>1. OneEach /\ AnswersAreTrue /\ RowsAreTrue /\ ListIsTrue
    BY DEF QueueInv, Faithful
  <2>2. OneEach'
    BY <1>1, <1>3, <1>4, <2>1 DEF OneEach, w
  <2>6. \A r \in Slots : r # s /\ write[r] # None => write[r].id # w.id
    BY <1>1, <2>1 DEF OneEach, w
  <2>3. AnswersAreTrue'
    BY <1>1, <1>3, <1>4, <1>12, <2>1, <2>6 DEF AnswersAreTrue
  <2>4. RowsAreTrue'
    <3>1. ASSUME NEW u \in People \ elsewhere', rows'[u] # None, Unserved(u)'
          PROVE  rows'[u] = server'[u]
      <4>1. u \notin elsewhere
        BY <1>3, <1>4, <1>5, <1>12, <3>1 DEF Unserved
      <4>2. Unserved(u)
        BY <1>1, <1>4, <3>1 DEF Unserved, w
      <4> QED
        BY <1>1, <2>1, <3>1, <4>1, <4>2 DEF RowsAreTrue
    <3> QED
      BY <3>1 DEF RowsAreTrue
  <2>5. ListIsTrue'
    <3>1. list = None
      BY <1>1 DEF QueueInv, BlankUntilListed, Blank, w
    <3> QED
      BY <1>1, <3>1 DEF ListIsTrue
  <2> QED
    BY <2>2, <2>3, <2>4, <2>5
<1> QED
  BY <1>6, <1>7, <1>8, <1>9, <1>10, <1>11 DEF QueueInv

(* What the page only asks for, and what it is sent, changes no account.   *)
LEMMA QueueServeList ==
  ASSUME QueueInv, ServeList
  PROVE  QueueInv'
<1>1. /\ list # None /\ list' = [table |-> server] /\ server \in Table /\ elsewhere' = {}
      /\ UNCHANGED <<server, holder, opened, rows, badge, loaded, failed, busyId, asksDevices,
                     dialog, write, doubt>>
  BY DEF ServeList, page, QueueInv, TablesOK
<1>2. list' \in Listings /\ list' # None /\ list'.table = server
  BY <1>1, NotNone DEF Listings, OrNone
<1>3. TablesOK'
  BY <1>1, <1>2 DEF QueueInv, TablesOK, OrNone
<1>4. DialogsOK' /\ TakenStaysTaken'
  BY <1>1, DialogsKept DEF QueueInv, TablesOK, SameAccounts
<1>5. WritesOK' /\ BadgeNeverOverstates'
  BY <1>1 DEF QueueInv, WritesOK, BadgeNeverOverstates
<1>6. RowsExist' /\ BlankUntilListed'
  BY <1>1, <1>2 DEF QueueInv, RowsExist, BlankUntilListed, Blank, dialog
<1>7. Faithful'
  <2> SUFFICES ASSUME doubt = {} PROVE OneEach' /\ AnswersAreTrue' /\ RowsAreTrue' /\ ListIsTrue'
    BY <1>1 DEF Faithful
  <2>1. rows = NoRows /\ \A s \in Slots : write[s] = None
    BY <1>1 DEF QueueInv, BlankUntilListed, Blank
  <2>2. OneEach' /\ AnswersAreTrue' /\ RowsAreTrue'
    BY <1>1, <2>1 DEF OneEach, AnswersAreTrue, RowsAreTrue, NoRows
  <2>3. ListIsTrue'
    BY <1>1, <1>2 DEF ListIsTrue
  <2> QED
    BY <2>2, <2>3
<1> QED
  BY <1>3, <1>4, <1>5, <1>6, <1>7 DEF QueueInv

LEMMA QueueList ==
  ASSUME QueueInv, ListArrives \/ ListFails
  PROVE  QueueInv'
<1>1. /\ list # None /\ list' = None /\ opened /\ loaded' = TRUE /\ failed' \in BOOLEAN
      /\ UNCHANGED <<server, holder, elsewhere, opened, busyId, asksDevices, dialog, write, doubt>>
  BY DEF ListArrives, ListFails, QueueInv, BlankUntilListed, TablesOK
<1>2. list \in Listings
  BY <1>1 DEF QueueInv, TablesOK, OrNone
<1>3. DialogsOK' /\ TakenStaysTaken'
  BY <1>1, DialogsKept DEF QueueInv, TablesOK, SameAccounts
<1>4. WritesOK'
  BY <1>1 DEF QueueInv, WritesOK
<1>5. BlankUntilListed'
  BY <1>1 DEF BlankUntilListed
<1>6. CASE ListArrives
  <2>1. /\ rows' = list.table /\ badge' = Cardinality(Waiting(list.table)) /\ list.table \in Table
    BY <1>2, <1>6 DEF ListArrives, Listings, OrNone
  <2>2. badge' \in Nat /\ badge' <= Cardinality(Waiting(rows'))
    <3>1. Waiting(list.table) \subseteq People /\ IsFiniteSet(People)
      BY UsersAssumption DEF Waiting
    <3>2. Cardinality(Waiting(list.table)) \in Nat
      BY <3>1, FS_Subset, FS_CardinalityType
    <3> QED
      BY <2>1, <3>2
  <2>3. TablesOK'
    BY <1>1, <2>1, <2>2 DEF QueueInv, TablesOK, OrNone
  <2>4. BadgeNeverOverstates'
    BY <2>1, <2>2 DEF BadgeNeverOverstates, Waiting
  <2>5. RowsExist'
    BY <1>1, <1>6, <2>1 DEF ListArrives, QueueInv, RowsExist
  <2>6. Faithful'
    BY <1>1, <1>6, <2>1 DEF ListArrives, QueueInv, Faithful, OneEach, AnswersAreTrue, RowsAreTrue, ListIsTrue
  <2> QED
    BY <1>3, <1>4, <1>5, <2>3, <2>4, <2>5, <2>6 DEF QueueInv
<1>7. CASE ListFails
  <2>1. UNCHANGED <<rows, badge>>
    BY <1>7 DEF ListFails
  <2>2. TablesOK' /\ BadgeNeverOverstates' /\ RowsExist'
    BY <1>1, <2>1 DEF QueueInv, TablesOK, OrNone, BadgeNeverOverstates, RowsExist
  <2>3. Faithful'
    BY <1>1, <2>1 DEF QueueInv, Faithful, OneEach, AnswersAreTrue, RowsAreTrue, Unserved, ListIsTrue
  <2> QED
    BY <1>3, <1>4, <1>5, <2>2, <2>3 DEF QueueInv
<1> QED
  BY <1>6, <1>7

(* What the page reads besides the dialogs.                                *)
QueueRest == <<server, holder, elsewhere, opened, rows, badge, loaded, failed, busyId, list, write, doubt>>

LEMMA QueueRestKept ==
  ASSUME QueueInv, UNCHANGED QueueRest
  PROVE  /\ TablesOK' /\ WritesOK' /\ RowsExist' /\ Faithful' /\ BadgeNeverOverstates'
         /\ ~opened' => list' = None
<1>1. UNCHANGED <<server, holder, elsewhere, opened, rows, badge, loaded, failed, busyId, list, write, doubt>>
  BY DEF QueueRest
<1>2. TablesOK' /\ WritesOK' /\ RowsExist' /\ BadgeNeverOverstates'
  BY <1>1 DEF QueueInv, TablesOK, WritesOK, RowsExist, BadgeNeverOverstates
<1>3. Faithful'
  BY <1>1 DEF QueueInv, Faithful, OneEach, AnswersAreTrue, RowsAreTrue, Unserved, ListIsTrue
<1> QED
  BY <1>1, <1>2, <1>3 DEF QueueInv, BlankUntilListed

LEMMA QueueDevices ==
  ASSUME QueueInv, NEW u \in People,
         \/ ServeDevices(u)
         \/ \E held \in OrNone(Holders) : DevicesArrive(u, held) \/ DevicesFail(u, held)
  PROVE  QueueInv'
<1>1. UNCHANGED QueueRest /\ asksDevices # {}
  BY DEF ServeDevices, DevicesArrive, DevicesFail, QueueRest, page
<1>2. opened /\ list = None
  BY <1>1 DEF QueueInv, BlankUntilListed, Blank
<1>3. BlankUntilListed'
  BY <1>1, <1>2 DEF BlankUntilListed, QueueRest
<1>4. CASE ServeDevices(u)
  <2>1. /\ <<u, None>> \in asksDevices /\ UNCHANGED dialog
        /\ asksDevices' = (asksDevices \ {<<u, None>>}) \cup {<<u, holder>>}
    BY <1>4 DEF ServeDevices
  <2>2. server[u] # None /\ holder \in Holders
    BY <2>1 DEF QueueInv, DialogsOK, TablesOK
  <2>3. UNCHANGED <<choosing, assignable, naming, server>>
    BY <1>1, <2>1 DEF dialog, QueueRest
  <2>4. /\ asksDevices' \subseteq (People \X OrNone(Holders))
        /\ \A q \in asksDevices' : server[q[1]] # None
    BY <2>1, <2>2 DEF QueueInv, DialogsOK, OrNone
  <2>5. DialogsOK' /\ TakenStaysTaken'
    BY <2>3, <2>4 DEF QueueInv, DialogsOK, TakenStaysTaken
  <2> QED
    BY <1>1, <1>3, <2>5, QueueRestKept DEF QueueInv
<1>5. ASSUME NEW held \in OrNone(Holders), DevicesArrive(u, held) PROVE QueueInv'
  <2> DEFINE d == [id |-> u, chosen |-> {x \in Devices : held[x] = u}]
  <2>1. /\ <<u, held>> \in asksDevices /\ held # None /\ held \in Holders
        /\ asksDevices' \subseteq asksDevices
        /\ assignable' = held /\ choosing' = d /\ UNCHANGED <<naming, server>>
    BY <1>1, <1>5 DEF DevicesArrive, OrNone, QueueRest
  <2>2. server[u] # None /\ d \in Dialogs /\ d # None /\ d.id = u
    <3>1. d \in Dialogs /\ d.id = u
      BY DEF Dialogs
    <3> QED
      BY <2>1, <3>1, NotNone DEF QueueInv, DialogsOK
  <2>3. \A x \in d.chosen : held[x] = u
    OBVIOUS
  <2> HIDE DEF d
  <2>4. DialogsOK'
    BY <2>1, <2>2 DEF QueueInv, DialogsOK, OrNone
  <2>5. TakenStaysTaken'
    BY <2>1, <2>2, <2>3 DEF TakenStaysTaken
  <2> QED
    BY <1>1, <1>3, <2>4, <2>5, QueueRestKept DEF QueueInv
<1>6. ASSUME NEW held \in OrNone(Holders), DevicesFail(u, held) PROVE QueueInv'
  <2>1. asksDevices' \subseteq asksDevices /\ UNCHANGED <<choosing, assignable, naming, server>>
    BY <1>1, <1>6 DEF DevicesFail, dialog, QueueRest
  <2>2. DialogsOK' /\ TakenStaysTaken'
    BY <2>1 DEF QueueInv, DialogsOK, TakenStaysTaken
  <2> QED
    BY <1>1, <1>3, <2>2, QueueRestKept DEF QueueInv
<1> QED
  BY <1>4, <1>5, <1>6

(* A change that ends frees its slot; what it leaves of the rows and the   *)
(* doubt has to be true of the accounts without it.                        *)
LEMMA QueueEnds ==
  ASSUME QueueInv, NEW s \in Slots, write[s] # None, write' = [write EXCEPT ![s] = None],
         UNCHANGED <<server, holder, elsewhere, opened, loaded, list, asksDevices, dialog>>,
         TablesOK', BadgeNeverOverstates',
         \A u \in People : rows'[u] # None => server[u] # None,
         rows' # NoRows => rows # NoRows, doubt \subseteq doubt', 
         doubt' = {} => \A u \in People : 
            rows'[u] # None => \/ rows'[u] = server[u] \/ u \in elsewhere
                               \/ u # write[s].id /\ rows'[u] = rows[u]
  PROVE  QueueInv'
<1>1. /\ write \in [Slots -> OrNone(Writes)] /\ write' \in [Slots -> OrNone(Writes)] /\ write'[s] = None
      /\ \A r \in Slots : r # s => write'[r] = write[r]
  BY DEF QueueInv, WritesOK, OrNone
<1>2. DialogsOK' /\ TakenStaysTaken'
  BY DialogsKept DEF QueueInv, TablesOK, SameAccounts
<1>3. WritesOK'
  BY <1>1 DEF QueueInv, WritesOK
<1>4. RowsExist'
  BY DEF QueueInv, RowsExist
<1>5. BlankUntilListed'
  BY <1>1 DEF QueueInv, BlankUntilListed, Blank, dialog
<1>6. Faithful'
  <2> SUFFICES ASSUME doubt' = {} PROVE OneEach' /\ AnswersAreTrue' /\ RowsAreTrue' /\ ListIsTrue'
    BY DEF Faithful
  <2>1. OneEach /\ AnswersAreTrue /\ RowsAreTrue /\ ListIsTrue
    BY DEF QueueInv, Faithful
  <2>2. OneEach' /\ AnswersAreTrue' /\ ListIsTrue'
    BY <1>1, <2>1 DEF OneEach, AnswersAreTrue, ListIsTrue
  <2>3. ASSUME NEW u \in People \ elsewhere', rows'[u] # None, Unserved(u)' PROVE rows'[u] = server'[u]
    <3>1. CASE u # write[s].id /\ rows'[u] = rows[u]
      <4>1. Unserved(u)
        BY <1>1, <2>3, <3>1 DEF Unserved
      <4> QED
        BY <2>1, <2>3, <3>1, <4>1 DEF RowsAreTrue
    <3> QED
      BY <2>3, <3>1
  <2> QED
    BY <2>2, <2>3 DEF RowsAreTrue
<1> QED
  BY <1>2, <1>3, <1>4, <1>5, <1>6 DEF QueueInv

(* One row fewer may wait after an answer: the badge counts one down.      *)
LEMMA QueueLands ==
  ASSUME QueueInv, NEW s \in Slots, WriteLands(s)
  PROVE  QueueInv'
<1> DEFINE w == write[s]
<1>1. /\ w # None /\ w.at = "served" /\ rows' = RowsAfter(w) /\ badge' = BadgeAfter(w.answer)
      /\ failed' = FALSE /\ busyId' = None /\ write' = [write EXCEPT ![s] = None]
      /\ UNCHANGED <<server, holder, elsewhere, opened, loaded, list, asksDevices, dialog, doubt>>
  BY DEF WriteLands
<1>2. /\ w \in Writes /\ w.id \in People /\ server[w.id] # None /\ w.answer # None
      /\ w.answer \in Account
      /\ rows \in Table /\ badge \in Nat
  BY <1>1, WriteIsServed DEF QueueInv, WritesOK, TablesOK, Writes, OrNone
<1>3. rows' = [u \in People |-> IF u = w.id /\ rows[u] # None THEN w.answer ELSE rows[u]]
  BY <1>1 DEF RowsAfter
<1> HIDE DEF w
<1>4. /\ rows' \in Table
      /\ \A u \in People : rows'[u] = IF u = w.id /\ rows[u] # None THEN w.answer ELSE rows[u]
  BY <1>2, <1>3 DEF Table, OrNone
<1>5. badge' \in Nat /\ BadgeNeverOverstates'
  <2>1. /\ IsFiniteSet(Waiting(rows)) /\ IsFiniteSet(Waiting(rows'))
        /\ Cardinality(Waiting(rows)) \in Nat /\ Cardinality(Waiting(rows')) \in Nat
    <3>1. Waiting(rows) \subseteq People /\ Waiting(rows') \subseteq People /\ IsFiniteSet(People)
      BY UsersAssumption DEF Waiting
    <3> QED
      BY <3>1, FS_Subset, FS_CardinalityType
  <2>2. badge <= Cardinality(Waiting(rows))
    BY DEF QueueInv, BadgeNeverOverstates
  <2>3. CASE w.answer.status = "pending"
    <3>1. badge' = badge
      BY <1>1, <2>3 DEF BadgeAfter
    <3>2. Waiting(rows) \subseteq Waiting(rows')
      BY <1>2, <1>4, <2>3 DEF Waiting
    <3>3. Cardinality(Waiting(rows)) <= Cardinality(Waiting(rows'))
      BY <2>1, <3>2, FS_Subset
    <3> QED
      BY <1>2, <2>1, <2>2, <3>1, <3>3 DEF BadgeNeverOverstates, Waiting
  <2>4. CASE w.answer.status # "pending"
    <3>1. badge' = IF badge = 0 THEN 0 ELSE badge - 1
      BY <1>1, <2>4 DEF BadgeAfter
    <3>2. Waiting(rows) \ {w.id} \subseteq Waiting(rows')
      BY <1>2, <1>4 DEF Waiting
    <3>3. Cardinality(Waiting(rows) \ {w.id}) <= Cardinality(Waiting(rows'))
      BY <2>1, <3>2, FS_Subset
    <3>4. Cardinality(Waiting(rows) \ {w.id}) >= Cardinality(Waiting(rows)) - 1
      BY <2>1, FS_RemoveElement
    <3> DEFINE left == Cardinality(Waiting(rows) \ {w.id})
    <3>5. left \in Nat
      BY <2>1, FS_RemoveElement, FS_CardinalityType
    <3>6. badge' \in Nat /\ badge' <= Cardinality(Waiting(rows'))
      BY <1>2, <2>1, <2>2, <3>1, <3>3, <3>4, <3>5
    <3> QED
      BY <3>6 DEF BadgeNeverOverstates, Waiting
  <2> QED
    BY <2>3, <2>4
<1>6. TablesOK'
  BY <1>1, <1>4, <1>5 DEF QueueInv, TablesOK, OrNone
<1>7. \A u \in People : rows'[u] # None => server[u] # None
  BY <1>2, <1>4 DEF QueueInv, RowsExist
<1>8. rows' # NoRows => rows # NoRows
  BY <1>3 DEF NoRows
<1>9. doubt' = {} => \A u \in People :
        rows'[u] # None => rows'[u] = server[u] \/ u \in elsewhere
                           \/ (u # w.id /\ rows'[u] = rows[u])
  BY <1>1, <1>4 DEF QueueInv, Faithful, AnswersAreTrue, w
<1> QED
  BY <1>1, <1>5, <1>6, <1>7, <1>8, <1>9, QueueEnds DEF w

(* Refused, or lost: without doubt the account is as the row has it.       *)
LEMMA QueueLost ==
  ASSUME QueueInv, NEW s \in Slots, WriteRefused(s) \/ WriteFails(s)
  PROVE  QueueInv'
<1> DEFINE w == write[s]
<1>1. /\ w # None /\ failed' = TRUE /\ busyId' = None /\ write' = [write EXCEPT ![s] = None]
      /\ UNCHANGED <<server, holder, elsewhere, opened, rows, badge, loaded, list, asksDevices, dialog>>
      /\ doubt' = doubt \/ doubt' = doubt \cup {"lost"}
      /\ w.at = "served" => doubt' = doubt \cup {"lost"}
  BY DEF WriteRefused, WriteFails
<1>2. TablesOK'
  BY <1>1 DEF QueueInv, TablesOK, OrNone
<1>3. BadgeNeverOverstates' /\ \A u \in People : rows'[u] # None => server[u] # None
  BY <1>1 DEF QueueInv, BadgeNeverOverstates, RowsExist
<1>4. ASSUME doubt' = {}, NEW u \in People, rows'[u] # None
      PROVE  rows'[u] = server[u] \/ u \in elsewhere \/ (u # w.id /\ rows'[u] = rows[u])
  <2>1. doubt = {} /\ w.at # "served"
    BY <1>1, <1>4
  <2>2. OneEach /\ RowsAreTrue
    BY <2>1 DEF QueueInv, Faithful
  <2>3. u = w.id => Unserved(u)
    BY <1>1, <2>1, <2>2 DEF Unserved, OneEach
  <2> QED
    BY <1>1, <1>4, <2>2, <2>3 DEF RowsAreTrue
<1>5. doubt \subseteq doubt'
  BY <1>1
<1> HIDE DEF w
<1>6. doubt' = {} => \A u \in People :
        rows'[u] # None => rows'[u] = server[u] \/ u \in elsewhere
                           \/ (u # w.id /\ rows'[u] = rows[u])
  BY <1>4
<1> QED
  BY <1>1, <1>2, <1>3, <1>5, <1>6, QueueEnds DEF w

(* What the super admin does leaves the accounts, and what the page shows  *)
(* of them.                                                                *)
QueueShown == <<server, holder, elsewhere, opened, rows, badge, loaded, failed, list>>

(* A change is sent: it is the only one about its account, or in doubt.    *)
LEMMA QueueApply ==
  ASSUME QueueInv, NEW u \in People, NEW kind \in Kinds, NEW body \in Body(kind),
         server[u] # None, opened, list = None, Apply(u, kind, body),
         UNCHANGED QueueShown, DialogsOK', TakenStaysTaken'
  PROVE  QueueInv'
<1> DEFINE new == [id |-> u, kind |-> kind, body |-> body, at |-> "sent", answer |-> None, watched |-> TRUE]
<1>1. /\ UNCHANGED <<server, holder, elsewhere, opened, rows, badge, loaded, failed, list>>
      /\ busyId' = u
      /\ doubt' = IF \E s \in Slots : write[s] # None /\ write[s].id = u
                  THEN doubt \cup {"crossed"} ELSE doubt
  BY DEF QueueShown, Apply
<1>2. PICK s \in Slots : write[s] = None /\ write' = [write EXCEPT ![s] = new]
  BY DEF Apply
<1>3. new \in Writes /\ new.id = u /\ new.kind = kind /\ new.body = body /\ new.at = "sent" /\ new.watched = TRUE
  BY DEF Writes, Phases, OrNone
<1>4. new # None
  BY <1>3, NotNone
<1> HIDE DEF new
<1>5. /\ write' \in [Slots -> OrNone(Writes)] /\ write'[s] = new
      /\ \A r \in Slots : r # s => write'[r] = write[r]
  BY <1>2, <1>3 DEF QueueInv, WritesOK, OrNone
<1>6. TablesOK'
  BY <1>1 DEF QueueInv, TablesOK, OrNone
<1>7. WritesOK'
  BY <1>1, <1>3, <1>4, <1>5 DEF QueueInv, WritesOK
<1>8. RowsExist' /\ BadgeNeverOverstates' /\ BlankUntilListed'
  BY <1>1 DEF QueueInv, RowsExist, BadgeNeverOverstates, BlankUntilListed
<1>9. ASSUME doubt' = {} PROVE OneEach' /\ AnswersAreTrue' /\ RowsAreTrue' /\ ListIsTrue'
  <2>1. doubt = {} /\ \A r \in Slots : write[r] # None => write[r].id # u
    BY <1>1, <1>9
  <2>2. OneEach /\ AnswersAreTrue /\ RowsAreTrue /\ ListIsTrue
    BY <2>1 DEF QueueInv, Faithful
  <2>3. OneEach'
    BY <1>3, <1>4, <1>5, <2>1, <2>2 DEF OneEach
  <2>4. AnswersAreTrue' /\ ListIsTrue'
    BY <1>1, <1>3, <1>5, <2>2 DEF AnswersAreTrue, ListIsTrue
  <2>5. ASSUME NEW v \in People, Unserved(v)' PROVE Unserved(v)
    BY <1>2, <1>5, <2>5 DEF Unserved
  <2>6. RowsAreTrue'
    BY <1>1, <2>2, <2>5 DEF RowsAreTrue
  <2> QED
    BY <2>3, <2>4, <2>6
<1> QED
  BY <1>6, <1>7, <1>8, <1>9 DEF QueueInv, Faithful

(* Where something can be done, the page is open and was listed.           *)
LEMMA QueueIsListed ==
  ASSUME QueueInv, \/ \E u \in People : rows[u] # None
                   \/ choosing # None \/ naming # None
  PROVE  opened /\ list = None
  BY DEF QueueInv, BlankUntilListed, Blank, NoRows, TablesOK

(* The dialogs may be closed, or the one for a network opened for an       *)
(* account that is listed.                                                 *)
LEMMA QueueDialogs ==
  ASSUME QueueInv, UNCHANGED <<server, asksDevices, assignable>>,
         choosing' \in {choosing, None},
         naming' \in {naming, None} \/ (naming' \in People /\ rows[naming'] # None)
  PROVE  DialogsOK' /\ TakenStaysTaken'
  BY DEF QueueInv, DialogsOK, TakenStaysTaken, RowsExist, OrNone

LEMMA QueueOnlyDialogs ==
  ASSUME QueueInv, UNCHANGED QueueRest, DialogsOK', TakenStaysTaken', opened, list = None
  PROVE  QueueInv'
<1>1. BlankUntilListed'
  BY DEF BlankUntilListed, QueueRest
<1> QED
  BY <1>1, QueueRestKept DEF QueueInv

LEMMA QueueRows ==
  ASSUME QueueInv, NEW u \in People, ClickDecide(u) \/ SelectRole(u) \/ ChangeCredit(u) \/ OpenDevices(u)
  PROVE  QueueInv'
<1>1. /\ rows[u] # None /\ server[u] # None /\ opened /\ list = None
  BY QueueIsListed DEF ClickDecide, SelectRole, ChangeCredit, OpenDevices, QueueInv, RowsExist
<1>2. CASE ClickDecide(u)
  <2>1. PICK verdict \in {"approved", "rejected"} : Apply(u, "decide", verdict)
    BY <1>2 DEF ClickDecide
  <2>2. UNCHANGED QueueShown /\ UNCHANGED <<server, asksDevices, choosing, assignable, naming>>
    BY <1>2 DEF ClickDecide, QueueShown, dialog
  <2>3. DialogsOK' /\ TakenStaysTaken'
    BY <2>2, QueueDialogs
  <2>4. "decide" \in Kinds /\ verdict \in Body("decide")
    BY DEF Kinds, Body, Statuses
  <2> QED
    BY <1>1, <2>1, <2>2, <2>3, <2>4, QueueApply
<1>3. CASE SelectRole(u)
  <2>1. /\ UNCHANGED QueueShown /\ UNCHANGED <<server, asksDevices, choosing, assignable>>
        /\ naming' \in {naming, u}
    BY <1>3 DEF SelectRole, QueueShown
  <2>2. DialogsOK' /\ TakenStaysTaken'
    BY <1>1, <2>1, QueueDialogs
  <2>3. ASSUME NEW role \in Plain, Apply(u, "role", role) PROVE QueueInv'
    <3>1. "role" \in Kinds /\ role \in Body("role")
      BY DEF Kinds, Body
    <3> QED
      BY <1>1, <2>1, <2>2, <2>3, <3>1, QueueApply
  <2>4. ASSUME UNCHANGED <<write, busyId, doubt>> PROVE QueueInv'
    BY <1>1, <2>1, <2>2, <2>4, QueueOnlyDialogs DEF QueueShown, QueueRest
  <2> QED
    BY <1>3, <2>3, <2>4 DEF SelectRole
<1>4. CASE ChangeCredit(u)
  <2>1. PICK show \in BOOLEAN : Apply(u, "credit", show)
    BY <1>4 DEF ChangeCredit
  <2>2. UNCHANGED QueueShown /\ UNCHANGED <<server, asksDevices, choosing, assignable, naming>>
    BY <1>4 DEF ChangeCredit, QueueShown, dialog
  <2>3. DialogsOK' /\ TakenStaysTaken'
    BY <2>2, QueueDialogs
  <2>4. "credit" \in Kinds /\ show \in Body("credit")
    BY DEF Kinds, Body
  <2> QED
    BY <1>1, <2>1, <2>2, <2>3, <2>4, QueueApply
<1>5. CASE OpenDevices(u)
  <2>1. UNCHANGED QueueRest /\ asksDevices' = asksDevices \cup {<<u, None>>}
        /\ UNCHANGED <<server, choosing, assignable, naming>>
    BY <1>5 DEF OpenDevices, QueueRest, page, dialog
  <2>2. DialogsOK' /\ TakenStaysTaken'
    BY <1>1, <2>1 DEF QueueInv, DialogsOK, TakenStaysTaken, OrNone
  <2> QED
    BY <1>1, <2>1, <2>2, QueueOnlyDialogs
<1> QED
  BY <1>2, <1>3, <1>4, <1>5

LEMMA QueueNetwork ==
  ASSUME QueueInv, ChooseNetwork
  PROVE  QueueInv'
<1>1. /\ naming # None /\ opened /\ list = None /\ naming \in People /\ server[naming] # None
  BY QueueIsListed DEF ChooseNetwork, QueueInv, DialogsOK, OrNone
<1>2. UNCHANGED QueueShown /\ UNCHANGED <<server, asksDevices, choosing, assignable>> /\ naming' = None
  BY DEF ChooseNetwork, QueueShown
<1>3. DialogsOK' /\ TakenStaysTaken'
  BY <1>2, QueueDialogs
<1>4. ASSUME NEW n \in Networks, Apply(naming, "role", n) PROVE QueueInv'
  <2>1. "role" \in Kinds /\ n \in Body("role")
    BY DEF Kinds, Body
  <2> QED
    BY <1>1, <1>2, <1>3, <1>4, <2>1, QueueApply
<1>5. ASSUME UNCHANGED <<write, busyId, doubt>> PROVE QueueInv'
  BY <1>1, <1>2, <1>3, <1>5, QueueOnlyDialogs DEF QueueShown, QueueRest
<1> QED
  BY <1>4, <1>5 DEF ChooseNetwork

LEMMA QueueHandsets ==
  ASSUME QueueInv, SaveDevices \/ \E d \in Devices : TickDevice(d)
  PROVE  QueueInv'
<1>1. choosing # None /\ opened /\ list = None
  BY QueueIsListed DEF SaveDevices, TickDevice
<1>2. choosing \in Dialogs /\ choosing.id \in People /\ choosing.chosen \subseteq Devices
      /\ server[choosing.id] # None
  BY <1>1 DEF QueueInv, DialogsOK, Dialogs, OrNone
<1>3. CASE SaveDevices
  <2>1. UNCHANGED QueueShown /\ UNCHANGED <<server, asksDevices, assignable, naming>> /\ choosing' = None
    BY <1>3 DEF SaveDevices, QueueShown
  <2>2. DialogsOK' /\ TakenStaysTaken'
    BY <2>1, QueueDialogs
  <2>3. ASSUME Apply(choosing.id, "devices", choosing.chosen) PROVE QueueInv'
    <3>1. "devices" \in Kinds /\ choosing.chosen \in Body("devices")
      BY <1>2 DEF Kinds, Body
    <3> QED
      BY <1>1, <1>2, <2>1, <2>2, <2>3, <3>1, QueueApply
  <2>4. ASSUME UNCHANGED <<write, busyId, doubt>> PROVE QueueInv'
    BY <1>1, <2>1, <2>2, <2>4, QueueOnlyDialogs DEF QueueShown, QueueRest
  <2> QED
    BY <1>3, <2>3, <2>4 DEF SaveDevices
<1>4. ASSUME NEW d \in Devices, TickDevice(d) PROVE QueueInv'
  <2> DEFINE ticked == IF d \in choosing.chosen THEN choosing.chosen \ {d} ELSE choosing.chosen \cup {d}
  <2>1. /\ Tickable(d) /\ choosing' = [choosing EXCEPT !.chosen = ticked]
        /\ UNCHANGED QueueRest /\ UNCHANGED <<server, asksDevices, assignable, naming>>
    BY <1>4 DEF TickDevice, QueueRest, page
  <2>2. ticked \subseteq Devices /\ ticked \subseteq choosing.chosen \cup {d}
    BY <1>2
  <2> HIDE DEF ticked
  <2>3. choosing' \in Dialogs /\ choosing'.id = choosing.id /\ choosing'.chosen = ticked
    BY <1>2, <2>1, <2>2 DEF Dialogs
  <2>4. DialogsOK'
    BY <1>1, <1>2, <2>1, <2>3 DEF QueueInv, DialogsOK, OrNone
  <2>5. TakenStaysTaken'
    BY <1>1, <2>1, <2>2, <2>3 DEF QueueInv, TakenStaysTaken, Tickable
  <2> QED
    BY <1>1, <2>1, <2>4, <2>5, QueueOnlyDialogs
<1> QED
  BY <1>3, <1>4

-----------------------------------------------------------------------------
(* The page is opened: blank until its list arrives.                       *)
LEMMA QueueOpens ==
  ASSUME QueueInv, OpenUsers
  PROVE  QueueInv' /\ opened' = TRUE
<1>1. /\ ~opened /\ opened' = TRUE /\ list' = [table |-> None]
      /\ UNCHANGED <<server, holder, elsewhere, rows, badge, loaded, failed, busyId, asksDevices, choosing,
                     assignable, naming, write, doubt>>
  BY DEF OpenUsers, dialog
<1>2. list' \in Listings /\ list'.table = None
  BY <1>1 DEF Listings, OrNone
<1>3. TablesOK'
  BY <1>1, <1>2 DEF QueueInv, TablesOK, OrNone
<1>4. DialogsOK' /\ TakenStaysTaken' /\ WritesOK' /\ BadgeNeverOverstates'
  BY <1>1 DEF QueueInv, DialogsOK, TakenStaysTaken, WritesOK, BadgeNeverOverstates
<1>5. RowsExist' /\ BlankUntilListed'
  BY <1>1, <1>2 DEF QueueInv, RowsExist, BlankUntilListed, Blank
<1>6. Faithful'
  BY <1>1, <1>2 DEF QueueInv, Faithful, OneEach, AnswersAreTrue, RowsAreTrue, Unserved, ListIsTrue
<1> QED
  BY <1>1, <1>3, <1>4, <1>5, <1>6 DEF QueueInv

(* The page is left: what has not reached the server is in doubt, and goes *)
(* on unwatched.                                                           *)
LEMMA QueueCloses ==
  ASSUME QueueInv, LeaveUsers
  PROVE  QueueInv' /\ opened' = FALSE
<1> DEFINE Kept(s) == write[s] # None /\ write[s].at = "sent"
<1>1. /\ opened' = FALSE /\ elsewhere' = {} /\ UNCHANGED <<server, holder>>
      /\ rows' = NoRows /\ badge' = 0 /\ loaded' = FALSE /\ failed' = FALSE /\ busyId' = None
      /\ choosing' = None /\ assignable' = None /\ naming' = None
      /\ list' = None /\ asksDevices' = {}
      /\ write' = [s \in Slots |-> IF Kept(s) THEN [write[s] EXCEPT !.watched = FALSE] ELSE None]
      /\ doubt' = IF \E s \in Slots : Kept(s) THEN doubt \cup {"left"} ELSE doubt
  BY DEF LeaveUsers
<1>2. NoRows \in Table /\ \A u \in People : NoRows[u] = None
  BY DEF NoRows, Table, OrNone
<1>3. TablesOK'
  BY <1>1, <1>2 DEF QueueInv, TablesOK, OrNone
<1>4. DialogsOK' /\ TakenStaysTaken'
  BY <1>1 DEF DialogsOK, TakenStaysTaken, OrNone
<1>5. ASSUME NEW s \in Slots
      PROVE  /\ write'[s] \in OrNone(Writes)
             /\ ~Kept(s) => write'[s] = None
             /\ Kept(s) => /\ write'[s].id = write[s].id /\ write'[s].kind = write[s].kind
                            /\ write'[s].body = write[s].body /\ write'[s].at = "sent"
  <2>1. write[s] \in OrNone(Writes)
    BY DEF QueueInv, WritesOK
  <2>2. CASE Kept(s)
    <3>1. write[s] \in Writes /\ write'[s] = [write[s] EXCEPT !.watched = FALSE]
      BY <1>1, <2>1, <2>2 DEF OrNone
    <3> QED
      BY <2>2, <3>1 DEF Writes, OrNone
  <2>3. CASE ~Kept(s)
    BY <1>1, <2>3 DEF OrNone
  <2> QED
    BY <2>2, <2>3
<1>6. doubt' = {} => \A s \in Slots : write'[s] = None
  BY <1>1, <1>5
<1>7. WritesOK'
  <2>1. write' \in [Slots -> OrNone(Writes)]
    BY <1>1, <1>5
  <2>2. ASSUME NEW s \in Slots, write'[s] # None
        PROVE  /\ write'[s].body \in Body(write'[s].kind)
               /\ server'[write'[s].id] # None
               /\ write'[s].at = "sent"
    <3>1. Kept(s)
      BY <1>5, <2>2
    <3>2. write[s].body \in Body(write[s].kind) /\ server[write[s].id] # None
      BY <3>1 DEF QueueInv, WritesOK
    <3>3. server' = server
      BY <1>1
    <3> HIDE DEF Kept
    <3> QED
      BY <1>5, <3>1, <3>2, <3>3
  <2>3. doubt' = {} => \A s \in Slots : write'[s] # None => write'[s].watched
    BY <1>6
  <2> QED
    BY <2>1, <2>2, <2>3 DEF WritesOK
<1>8. RowsExist' /\ BlankUntilListed'
  BY <1>1, <1>2, <1>6 DEF RowsExist, BlankUntilListed, Blank
<1>9. BadgeNeverOverstates'
  <2>1. Waiting(rows') = Waiting(NoRows)
    BY <1>1
  <2> QED
    BY <1>1, <2>1, NobodyWaits DEF BadgeNeverOverstates, Waiting
<1>10. Faithful'
  BY <1>1, <1>2, <1>6 DEF Faithful, OneEach, AnswersAreTrue, RowsAreTrue, ListIsTrue
<1> QED
  BY <1>1, <1>3, <1>4, <1>7, <1>8, <1>9, <1>10 DEF QueueInv

LEMMA QueueKept == QueueInv /\ UNCHANGED usersVars => QueueInv' /\ opened' = opened
<1> SUFFICES ASSUME QueueInv, UNCHANGED usersVars PROVE QueueInv' /\ opened' = opened
  OBVIOUS
<1>1. UNCHANGED QueueRest /\ UNCHANGED <<asksDevices, choosing, assignable, naming, server, opened>>
  BY DEF usersVars, page, dialog, QueueRest
<1>2. DialogsOK' /\ TakenStaysTaken' /\ BlankUntilListed'
  BY <1>1 DEF QueueInv, DialogsOK, TakenStaysTaken, BlankUntilListed, Blank, QueueRest
<1> QED
  BY <1>1, <1>2, QueueRestKept DEF QueueInv

LEMMA QueueNext ==
  ASSUME QueueInv, UsersAnswers \/ UsersChoices
  PROVE  QueueInv'
  BY QueueServeList, QueueList, QueueServe, QueueRefetch, QueueLands, QueueLost, QueueSignsIn, QueueChanges,
     QueueDevices, QueueRows, QueueNetwork, QueueHandsets
     DEF UsersAnswers, UsersChoices

LEMMA QueueStays == UsersAnswers \/ UsersChoices => UNCHANGED opened
  BY DEF UsersAnswers, UsersChoices, ServeList, ListArrives, ListFails, ServeWrite, ServeRefetch,
         WriteLands, WriteRefused, WriteFails, SignsIn, ChangesElsewhere, Denied, ServeDevices, DevicesArrive, DevicesFail,
         ClickDecide, SelectRole, ChangeCredit, OpenDevices, ChooseNetwork, TickDevice, SaveDevices, page

-----------------------------------------------------------------------------
(* The page: every step keeps the budget, and what the view shows is what  *)
(* is mounted.                                                             *)

LEMMA BudgetKept ==
  ASSUME BudgetOK, Step \/ Fail \/ UNCHANGED budget
  PROVE  BudgetOK'
  BY ReaderAssumption DEF BudgetOK, Step, Fail, budget

LEMMA BudgetNext == [Next]_consoleVars => Step \/ Fail \/ UNCHANGED budget
<1>1. Navigate => Step \/ Fail \/ UNCHANGED budget
  BY DEF Navigate, Admit, SessionArrives, SignInArrives, Refuse, SessionFails, Leave, SignOutEnds,
         Select, ShowOnMap, ClickWorst, WorstArrives, PartArrives, PartFails
<1>2. DoorStays => Step \/ Fail \/ UNCHANGED budget
  BY DEF DoorStays, ScriptLoads, ScriptFails, ClickSignOut, Credential, SignInFails
<1>3. FilterAnswers \/ FilterChoices => Step \/ Fail \/ UNCHANGED budget
  BY DEF FilterAnswers, FilterChoices, RootsArrive, RootsFail, ChildrenListed, ListingFails,
         DetailArrives, DetailFails, ShadingArrives, ShadingFails, Choose, ClickShaded, ClearArea
<1>4. UsersAnswers \/ UsersChoices => Step \/ Fail \/ UNCHANGED budget
  BY DEF UsersAnswers, UsersChoices, ServeList, ListArrives, ListFails, ServeWrite, ServeRefetch,
         WriteLands, WriteRefused, WriteFails, SignsIn, ChangesElsewhere, Denied, ServeDevices, DevicesArrive, DevicesFail,
         ClickDecide, SelectRole, ChangeCredit, OpenDevices, ChooseNetwork, TickDevice, SaveDevices
<1> QED
  BY <1>1, <1>2, <1>3, <1>4 DEF Next, consoleVars

PageInv == FilterInv /\ QueueInv /\ PagesTypeOK /\ OnlyWhatIsShown

LEMMA FilterIsShown ==
  ASSUME FilterInv, NEW s, NEW v, ShowFilter(FilterShown(s, v))
  PROVE  FilterInv' /\ mounted' = FilterShown(s, v)
<1>1. mounted \in BOOLEAN
  BY DEF FilterInv, FilterTypeOK
<1>2. CASE FilterShown(s, v) /\ ~mounted
  BY <1>2, FilterMounts DEF ShowFilter, FilterShown
<1>3. CASE ~FilterShown(s, v) /\ mounted
  BY <1>3, FilterVanishes DEF ShowFilter, FilterShown
<1>4. CASE FilterShown(s, v) /\ mounted
  BY <1>1, <1>4, FilterKept DEF ShowFilter, FilterShown
<1>5. CASE ~FilterShown(s, v) /\ ~mounted
  BY <1>1, <1>5, FilterKept DEF ShowFilter, FilterShown
<1> QED
  BY <1>2, <1>3, <1>4, <1>5

LEMMA QueueIsShown ==
  ASSUME QueueInv, NEW s, NEW v, ShowUsers(UsersShown(s, v))
  PROVE  QueueInv' /\ opened' = UsersShown(s, v)
<1>1. opened \in BOOLEAN
  BY DEF QueueInv, TablesOK
<1>2. CASE UsersShown(s, v) /\ ~opened
  BY <1>2, QueueOpens DEF ShowUsers, UsersShown
<1>3. CASE ~UsersShown(s, v) /\ opened
  BY <1>3, QueueCloses DEF ShowUsers, UsersShown
<1>4. CASE UsersShown(s, v) /\ opened
  BY <1>1, <1>4, QueueKept DEF ShowUsers, UsersShown
<1>5. CASE ~UsersShown(s, v) /\ ~opened
  BY <1>1, <1>5, QueueKept DEF ShowUsers, UsersShown
<1> QED
  BY <1>2, <1>3, <1>4, <1>5

LEMMA PartsAreShown ==
  ASSUME parts \in [AllParts -> Answers], NEW s, NEW v, ShowParts(s, v)
  PROVE  /\ parts' \in [AllParts -> Answers]
         /\ \A p \in AllParts : parts'[p] # "idle" => s.at = "in" /\ p \in PartsOf(v)
  BY DEF ShowParts, Answers

(* The page after a session and a view.                                    *)
LEMMA PageShown ==
  ASSUME PageInv, NEW s, NEW v \in Views, session' = s, Show(s, v), shortcut' \in Nat
  PROVE  PageInv'
<1>1. /\ FilterInv' /\ mounted' = FilterShown(s, v)
      /\ QueueInv' /\ opened' = UsersShown(s, v) /\ view' = v
  BY FilterIsShown, QueueIsShown DEF Show, PageInv
<1>2. OnlyWhatIsShown'
  BY <1>1 DEF OnlyWhatIsShown, FilterShown, UsersShown
<1>3. PagesTypeOK'
  BY <1>1, PartsAreShown DEF Show, PageInv, PagesTypeOK
<1> QED
  BY <1>1, <1>2, <1>3 DEF PageInv

(* Nothing of what is shown changes.                                       *)
LEMMA PageStays ==
  ASSUME PageInv, UNCHANGED <<session, view>>, FilterInv', QueueInv', UNCHANGED <<mounted, opened>>,
         UNCHANGED parts, shortcut' \in Nat
  PROVE  PageInv'
<1>1. OnlyWhatIsShown'
  BY DEF PageInv, OnlyWhatIsShown, FilterShown, UsersShown
<1>2. PagesTypeOK'
  BY DEF PageInv, PagesTypeOK
<1> QED
  BY <1>1, <1>2 DEF PageInv

LEMMA PageNavigates ==
  ASSUME PageInv, Navigate
  PROVE  PageInv'
<1>0. FilterInv /\ QueueInv /\ PagesTypeOK /\ view \in Views /\ shortcut \in Nat /\ "map" \in Views
  BY DEF PageInv, PagesTypeOK, Views
<1>1. ASSUME NEW s, Admit(s) PROVE PageInv'
  <2>1. session' = s /\ Show(s, view) /\ shortcut' = shortcut
    BY <1>1 DEF Admit, SessionArrives, SignInArrives, Becomes
  <2> QED
    BY <1>0, <2>1, PageShown
<1>2. CASE Refuse
  <2>1. /\ session = Unknown /\ session' = Nobody /\ UNCHANGED filterVars /\ UNCHANGED usersVars
        /\ UNCHANGED <<view, parts, shortcut>>
    BY <1>2 DEF Refuse, SessionFails, Becomes, pageVars
  <2>2. session.at = "unknown" /\ session'.at = "out"
    BY <2>1 DEF Unknown, Nobody
  <2>3. FilterInv' /\ QueueInv' /\ mounted' = mounted /\ opened' = opened
    BY <1>0, <2>1, FilterKept, QueueKept
  <2>4. PagesTypeOK'
    BY <1>0, <2>1, <2>2 DEF PagesTypeOK
  <2>5. OnlyWhatIsShown'
    BY <2>2, <2>3 DEF PageInv, OnlyWhatIsShown, FilterShown, UsersShown
  <2> QED
    BY <2>3, <2>4, <2>5 DEF PageInv
<1>3. CASE Leave
  <2>1. /\ session' = Nobody /\ view' = "map" /\ shortcut' = shortcut
        /\ Forget /\ ShowUsers(FALSE) /\ ShowParts(Nobody, "map")
    BY <1>3 DEF Leave, SignOutEnds, Becomes
  <2>2. Nobody.at = "out"
    BY DEF Nobody
  <2>3. FilterInv' /\ mounted' = FALSE
    BY <1>0, <2>1, FilterVanishes
  <2>4. QueueInv' /\ opened' = FALSE
    <3>1. opened \in BOOLEAN /\ (LeaveUsers \/ (~opened /\ UNCHANGED usersVars))
      BY <1>0, <2>1 DEF ShowUsers, QueueInv, TablesOK
    <3>2. CASE LeaveUsers
      BY <1>0, <3>2, QueueCloses
    <3>3. CASE ~opened /\ UNCHANGED usersVars
      BY <1>0, <3>1, <3>3, QueueKept
    <3> QED
      BY <3>1, <3>2, <3>3
  <2>5. OnlyWhatIsShown'
    BY <2>1, <2>2, <2>3, <2>4 DEF OnlyWhatIsShown, FilterShown, UsersShown
  <2>6. PagesTypeOK'
    BY <1>0, <2>1, PartsAreShown DEF PagesTypeOK
  <2> QED
    BY <2>3, <2>4, <2>5, <2>6 DEF PageInv
<1>4. ASSUME NEW v \in Views, Select(v) PROVE PageInv'
  <2>1. session' = session /\ Show(session, v) /\ shortcut' = shortcut
    BY <1>4 DEF Select, doorVars
  <2> QED
    BY <1>0, <2>1, PageShown
<1>5. CASE ShowOnMap
  <2>1. session' = session /\ Show(session, "map") /\ shortcut' = shortcut
    BY <1>5 DEF ShowOnMap, doorVars
  <2> QED
    BY <1>0, <2>1, PageShown
<1>6. ASSUME UNCHANGED <<filterVars, usersVars, view, parts>>, UNCHANGED doorVars, shortcut' \in Nat
      PROVE  PageInv'
  <2>1. FilterInv' /\ QueueInv' /\ mounted' = mounted /\ opened' = opened
    BY <1>0, <1>6, FilterKept, QueueKept
  <2>2. UNCHANGED session
    BY <1>6 DEF doorVars
  <2> QED
    BY <1>6, <2>1, <2>2, PageStays
<1>7. CASE ClickWorst
  BY <1>0, <1>6, <1>7 DEF ClickWorst
<1>8. ASSUME NEW found \in BOOLEAN, WorstArrives(found) PROVE PageInv'
  <2>1. UNCHANGED doorVars /\ session' = session /\ shortcut' \in Nat
    BY <1>0, <1>8 DEF WorstArrives, doorVars
  <2>2. CASE found
    <3>1. Show(session, "map")
      BY <1>8, <2>2 DEF WorstArrives
    <3> QED
      BY <1>0, <2>1, <3>1, PageShown
  <2>3. CASE ~found
    BY <1>6, <1>8, <2>1, <2>3 DEF WorstArrives
  <2> QED
    BY <2>2, <2>3
<1>9. ASSUME NEW p \in AllParts, PartArrives(p) \/ PartFails(p) PROVE PageInv'
  <2>1. PICK answer \in {"rows", "none", "failed"} : parts' = [parts EXCEPT ![p] = answer]
    BY <1>9 DEF PartArrives, PartFails
  <2>2. /\ parts[p] = "waiting" /\ UNCHANGED filterVars /\ UNCHANGED usersVars
        /\ UNCHANGED <<session, view, shortcut>>
    BY <1>9 DEF PartArrives, PartFails, doorVars
  <2>3. FilterInv' /\ QueueInv' /\ mounted' = mounted /\ opened' = opened
    BY <1>0, <2>2, FilterKept, QueueKept
  <2>4. PagesTypeOK'
    BY <1>0, <2>1, <2>2 DEF PagesTypeOK, Answers
  <2>5. OnlyWhatIsShown'
    BY <2>2, <2>3 DEF PageInv, OnlyWhatIsShown, FilterShown, UsersShown
  <2> QED
    BY <2>3, <2>4, <2>5 DEF PageInv
<1> QED
  BY <1>1, <1>2, <1>3, <1>4, <1>5, <1>7, <1>8, <1>9 DEF Navigate

Whole == DoorInv /\ PageInv /\ BudgetOK

LEMMA WholeInit == Init => Whole
<1> SUFFICES ASSUME Init PROVE Whole
  OBVIOUS
<1>1. DoorInv /\ FilterInv /\ QueueInv
  BY DoorHolds, FilterHolds, QueueInit DEF Init
<1>2. PagesTypeOK /\ BudgetOK
  BY ReaderAssumption DEF Init, PagesTypeOK, Views, Answers, BudgetInit, BudgetOK
<1>3. mounted = FALSE /\ opened = FALSE /\ session.at = "unknown"
  BY DEF Init, FilterInit, UsersInit, DoorInit, Unknown
<1> QED
  BY <1>1, <1>2, <1>3 DEF Whole, PageInv, OnlyWhatIsShown, FilterShown, UsersShown

LEMMA DoorNext == DoorInv /\ [Next]_consoleVars => DoorInv'
<1> SUFFICES ASSUME DoorInv, [Next]_consoleVars PROVE DoorInv'
  OBVIOUS
<1>1. ASSUME UNCHANGED doorVars PROVE DoorInv'
  BY <1>1 DEF doorVars, DoorInv, DoorTypeOK, DoorSpeaks, ScriptIsSaid
<1>2. CASE Navigate
  <2>1. ASSUME NEW s, Admit(s) PROVE DoorInv'
    BY <2>1, DoorSession DEF Admit
  <2>2. CASE Refuse \/ Leave
    BY <2>2, DoorNobody DEF Refuse, Leave
  <2> QED
    BY <1>1, <1>2, <2>1, <2>2 DEF Navigate, Select, ShowOnMap, ClickWorst, WorstArrives,
                                  PartArrives, PartFails
<1>3. CASE DoorStays
  BY <1>3, DoorAlone
<1> QED
  BY <1>1, <1>2, <1>3 DEF Next, consoleVars

LEMMA PageNext == DoorInv /\ PageInv /\ [Next]_consoleVars => PageInv'
<1> SUFFICES ASSUME DoorInv, PageInv, [Next]_consoleVars PROVE PageInv'
  OBVIOUS
<1>0. FilterInv /\ QueueInv /\ shortcut \in Nat
  BY DEF PageInv, PagesTypeOK
<1>1. CASE Navigate
  BY <1>1, PageNavigates
<1>2. CASE UNCHANGED session /\ UNCHANGED <<filterVars, usersVars, pageVars>>
  <2>1. FilterInv' /\ QueueInv' /\ mounted' = mounted /\ opened' = opened
    BY <1>0, <1>2, FilterKept, QueueKept
  <2> QED
    BY <1>0, <1>2, <2>1, PageStays DEF pageVars
<1>3. CASE (FilterAnswers \/ FilterChoices) /\ UNCHANGED <<doorVars, usersVars, pageVars>>
  <2>1. FilterInv' /\ QueueInv' /\ mounted' = mounted /\ opened' = opened
    BY <1>0, <1>3, FilterNext, FilterStays, QueueKept
  <2> QED
    BY <1>0, <1>3, <2>1, PageStays DEF pageVars, doorVars
<1>4. CASE (UsersAnswers \/ UsersChoices) /\ UNCHANGED <<doorVars, filterVars, pageVars>>
  <2>1. FilterInv' /\ QueueInv' /\ mounted' = mounted /\ opened' = opened
    BY <1>0, <1>4, QueueNext, QueueStays, FilterKept
  <2> QED
    BY <1>0, <1>4, <2>1, PageStays DEF pageVars, doorVars
<1>5. DoorStays => UNCHANGED session
  BY DoorAlone
<1> QED
  BY <1>1, <1>2, <1>3, <1>4, <1>5 DEF Next, consoleVars, doorVars

LEMMA WholeHolds == Spec => []Whole
<1>1. Whole /\ [Next]_consoleVars => Whole'
  BY DoorNext, PageNext, BudgetNext, BudgetKept DEF Whole
<1> QED
  BY <1>1, WholeInit, PTL DEF Spec

(* The page is sound: every value has its type, what belongs to another    *)
(* view is neither asked for nor mounted, and somebody signed out is never *)
(* left before an empty card - in every order of answers, failures, sign-  *)
(* ins and sign-outs.                                                      *)
THEOREM ConsoleIsSound == Spec => []ConsoleInv
<1>1. Whole => ConsoleInv
  BY QueueTypes DEF Whole, DoorInv, PageInv, FilterInv, ConsoleInv, ConsoleTypeOK
<1> QED
  BY <1>1, WholeHolds, PTL

(* The area filter offers only what belongs together, and shows the area   *)
(* whose coverage is on the page once that has loaded, unless one of the   *)
(* five things that spoil it has happened: for a country of any areas.     *)
THEOREM TheControlAgrees == Spec => []ControlAgrees
<1>1. Whole => ControlAgrees
  BY AgreementShows DEF Whole, PageInv
<1> QED
  BY <1>1, WholeHolds, PTL

(* The approval queue tells the truth, however many accounts, changes and  *)
(* handsets there are, in whatever order the answers come, and whatever    *)
(* sign-ins and other super admins do to the accounts meanwhile.           *)
THEOREM TheQueueIsTrue == Spec => []UsersInv
<1>1. Whole => UsersInv
  BY QueueShows DEF Whole, PageInv
<1> QED
  BY <1>1, WholeHolds, PTL

(* The approval queue is on the page only for a super admin, unless two    *)
(* sign-ins crossed.                                                       *)
THEOREM TheQueueIsTheSuperAdmins ==
  Spec => [](opened /\ ~crossed => session.at = "in" /\ session.role = "super_admin")
<1>1. Whole /\ ViewIsOffered => (opened /\ ~crossed => session.at = "in" /\ session.role = "super_admin")
  BY DEF Whole, PageInv, OnlyWhatIsShown, UsersShown, ViewIsOffered, Offered
<1> QED
  BY <1>1, WholeHolds, ThePageIsOffered, PTL
=============================================================================
