----------------------------- MODULE PublicSite -----------------------------
(***************************************************************************)
(* The public site, src/client: its pages, the map each of two of them     *)
(* holds, the filters above the map, and the sign-in card.  The session    *)
(* lives above the router; everything else of a page is gone when it is    *)
(* left, although its requests may still be under way.                     *)
(***************************************************************************)
EXTENDS PublicTiles

CONSTANTS
    Provinces,      \* what the province filter offers
    ViewOf(_),      \* the viewport a province is framed in
    Configured,     \* GOOGLE_CLIENT_ID is set on the server
    Firebase,       \* firebaseConfigured: the build has a Firebase project
    Overlap,        \* bound on sign-ins, and on sign-outs, under way at once
    Pages           \* the pages of AllPages this instance follows

AllPages == {"/", "/map", "/method", "/signin", "/pending"}
Doors    == {"/signin", "/pending"}
MapPages == {"/", "/map"}
Errors   == {"notConfigured", "unreachable", "scriptFailed", "failed"}

ASSUME PublicSiteAssumption ==
    /\ \A p \in Provinces : ViewOf(p) \in Views
    /\ None \notin Provinces \cup Errors
    /\ None \notin [client: BOOLEAN, authenticated: BOOLEAN]
    /\ Configured \in BOOLEAN /\ Firebase \in BOOLEAN /\ Overlap \in Nat
    /\ Pages \subseteq AllPages /\ "/map" \in Pages

VARIABLES
    route,                  \* the page
    session, reachable,     \* useSession
    cookie,                 \* what the server would say of this browser
    leaving,                \* sign-outs under way
    lapsed,                 \* history: the session of whoever is shown ended elsewhere
    card, script, signing,  \* Login; Google's script; the sign-ins under way
    offers,                 \* the filters whose options have come
    province                \* the province being looked up

who   == <<session, reachable, cookie, leaving, lapsed>>
door  == <<card, script, signing>>
page  == <<offers, province>>
vars  == <<route, who, door, page, tileVars>>

(* What the card shows, and how many of the sign-ins under way are its own.*)
NoCard == [shown |-> FALSE, button |-> FALSE, error |-> None, busy |-> FALSE, own |-> 0]

WhoOK ==
    /\ session \in OrNone([client: BOOLEAN, authenticated: BOOLEAN])
    /\ reachable \in BOOLEAN /\ cookie \in BOOLEAN /\ lapsed \in BOOLEAN
    /\ leaving \in 0..Overlap
DoorOK ==
    /\ card \in [shown: BOOLEAN, button: BOOLEAN, error: OrNone(Errors), busy: BOOLEAN,
                 own: 0..Overlap]
    /\ script \in {"absent", "loading", "loaded", "failed"}
    /\ signing \in 0..Overlap /\ card.own <= signing
    /\ route \notin Doors => card = NoCard
PageOK ==
    /\ route \in Pages
    /\ offers \subseteq {"provinces", "networks"}
    /\ province \in OrNone(Provinces)
    /\ lastBounds # None <=> route \in MapPages

TypeOK == TilesTypeOK /\ WhoOK /\ DoorOK /\ PageOK

-----------------------------------------------------------------------------
(* The sign-in card *)

SignedIn(s) == s # None /\ s.authenticated

(* The card and its effect: with Firebase a button of its own; without a   *)
(* client id an explanation; otherwise Google's script, whose failure      *)
(* before this card was there is announced to nobody.                      *)
CardFor(s, heard) ==
    IF s = None THEN card' = NoCard /\ UNCHANGED script
    ELSE LET wants == ~Firebase /\ s.client
         IN  /\ card' = [NoCard EXCEPT
                   !.shown  = TRUE,
                   !.button = Firebase \/ (s.client /\ script = "loaded"),
                   !.error  = IF Firebase \/ s.client THEN None
                              ELSE IF heard THEN "notConfigured" ELSE "unreachable"]
             /\ script' = IF wants /\ script = "absent" THEN "loading" ELSE script

(* Another session for a card that stays: its effect runs again. *)
CardAgain(s, heard) ==
    /\ card' = IF Firebase \/ s.client THEN card
               ELSE [card EXCEPT !.button = FALSE,
                                 !.error  = IF heard THEN "notConfigured" ELSE "unreachable"]
    /\ UNCHANGED <<route, script, tileVars, page>>

FaultyArrive(r, s, heard) ==
    /\ route' = r
    /\ IF r \in Doors THEN CardFor(s, heard) ELSE card' = NoCard /\ UNCHANGED script
    /\ IF r \in MapPages THEN FreshTiles ELSE NoTiles

(* A page is entered: whoever is signed in is sent on from the sign-in     *)
(* page to the map, and nothing of the page before is kept.                *)
Arrive(r, s, heard) ==
    LET to == IF r \in Doors /\ SignedIn(s) THEN "/map" ELSE r
    IN  /\ route' = to
        /\ IF to \in Doors THEN CardFor(s, heard) ELSE card' = NoCard /\ UNCHANGED script
        /\ IF to \in MapPages THEN FreshTiles ELSE NoTiles

NewPage == offers' = {} /\ province' = None

Init ==
    /\ route \in Pages
    /\ session = None /\ reachable = TRUE /\ cookie \in BOOLEAN
    /\ leaving = 0 /\ lapsed = FALSE
    /\ card = NoCard /\ script = "absent" /\ signing = 0
    /\ offers = {} /\ province = None
    /\ operator = None /\ tiles = None /\ error = FALSE /\ cache = <<>>
    /\ IF route \in MapPages
       THEN /\ lastBounds = Home /\ timer = [view |-> Home, op |-> None]
            /\ live = Key(Home, None) /\ pending = live
       ELSE lastBounds = None /\ timer = None /\ live = None /\ pending = None

(* Following a link, going back, or typing a path of this site.  A sign-in *)
(* outlives the card it was started from.                                  *)
Go(r) ==
    /\ r # route
    /\ Arrive(r, session, reachable)
    /\ NewPage
    /\ UNCHANGED <<who, signing>>

(* A change of the session: the open page stays, unless it is the sign-in  *)
(* page and somebody is now signed in.                                     *)
Becomes(s, heard) ==
    /\ session' = s /\ reachable' = heard /\ lapsed' = FALSE
    /\ IF route \notin Doors THEN UNCHANGED <<route, card, script, tileVars, page>>
       ELSE IF card.shown /\ ~SignedIn(s) THEN CardAgain(s, heard)
       ELSE Arrive(route, s, heard) /\ NewPage

(* fetchSession answers what the browser's cookie stands for. *)
SessionArrives ==
    /\ session = None
    /\ Becomes([client |-> Configured, authenticated |-> cookie], TRUE)
    /\ UNCHANGED <<cookie, leaving, signing>>

SessionFails ==
    /\ session = None
    /\ Becomes([client |-> FALSE, authenticated |-> FALSE], FALSE)
    /\ UNCHANGED <<cookie, leaving, signing>>

ScriptLoads ==
    /\ script = "loading"
    /\ script' = "loaded"
    /\ card' = IF card.shown THEN [card EXCEPT !.button = TRUE] ELSE card
    /\ UNCHANGED <<route, who, signing, page, tileVars>>

ScriptFails ==
    /\ script = "loading"
    /\ script' = "failed"
    /\ card' = IF card.shown THEN [card EXCEPT !.error = "scriptFailed"] ELSE card
    /\ UNCHANGED <<route, who, signing, page, tileVars>>

(* The button: a token is got and sent to /auth/google.  Only the button   *)
(* of Firebase is disabled meanwhile; Google calls back for every account  *)
(* that is chosen.                                                         *)
StartSignIn ==
    /\ card.button /\ (Firebase => ~card.busy) /\ signing < Overlap
    /\ card' = [card EXCEPT !.busy = TRUE, !.error = None, !.own = @ + 1]
    /\ signing' = signing + 1
    /\ UNCHANGED <<route, who, script, page, tileVars>>

(* Signed in: the answer carries no client id and is laid over the session.*)
SignInAnswers ==
    /\ signing > 0
    /\ cookie' = TRUE /\ signing' = signing - 1
    /\ Becomes([client |-> FALSE, authenticated |-> TRUE], reachable)
    /\ UNCHANGED leaving

(* Refused or unanswered; a popup that was closed says nothing.  It frees  *)
(* the card it came from, whatever else that card has under way, and says  *)
(* nothing on another.                                                     *)
SignInFails(quietly, here) ==
    /\ signing > 0 /\ (quietly => Firebase)
    /\ IF here THEN card.own > 0 ELSE card.own < signing
    /\ signing' = signing - 1
    /\ card' = IF ~here THEN card
               ELSE [card EXCEPT !.busy = FALSE, !.own = @ - 1,
                                 !.error = IF quietly THEN @ ELSE "failed"]
    /\ UNCHANGED <<route, who, script, page, tileVars>>

(* The header's button is not disabled while a sign-out is under way. *)
StartSignOut ==
    /\ SignedIn(session) /\ route \notin Doors /\ leaving < Overlap
    /\ leaving' = leaving + 1
    /\ UNCHANGED <<route, session, reachable, cookie, lapsed, door, page, tileVars>>

FaultySignOutEnds(heard) ==
    /\ leaving > 0
    /\ leaving' = leaving - 1
    /\ cookie' = IF heard THEN FALSE ELSE cookie
    /\ UNCHANGED <<route, session, reachable, lapsed, door, page, tileVars>>

(* /auth/logout answers or fails: either way the page shows nobody. *)
SignOutEnds(heard) ==
    /\ leaving > 0
    /\ leaving' = leaving - 1
    /\ cookie' = IF heard THEN FALSE ELSE cookie
    /\ Becomes([session EXCEPT !.authenticated = FALSE], reachable)
    /\ UNCHANGED signing

(* The session ends at its expiry, or by another tab's or the dashboard's  *)
(* sign-out; or another tab signs in.  This page is not told, nor does it  *)
(* ask again.                                                              *)
ChangesElsewhere ==
    /\ cookie' = ~cookie
    /\ lapsed' = (SignedIn(session) /\ cookie)
    /\ UNCHANGED <<route, session, reachable, leaving, door, page, tileVars>>

(* The page is loaded again. *)
Reload ==
    /\ session # None
    /\ session' = None /\ reachable' = TRUE /\ leaving' = 0 /\ lapsed' = FALSE
    /\ card' = NoCard /\ script' = "absent" /\ signing' = 0
    /\ IF route \in MapPages THEN FreshTiles ELSE NoTiles
    /\ NewPage
    /\ UNCHANGED <<route, cookie>>

-----------------------------------------------------------------------------
(* The map page *)

Elsewhere == <<route, who, door>>

OptionsArrive(f) ==
    /\ route = "/map" /\ f \notin offers
    /\ offers' = offers \cup {f}
    /\ UNCHANGED <<Elsewhere, province, tileVars>>

(* A network is chosen; the answer of a province stays awaited. *)
PickNetwork(op) ==
    /\ route = "/map" /\ "networks" \in offers
    /\ ChooseNetwork(op)
    /\ UNCHANGED <<Elsewhere, page>>

PickProvince(p) ==
    /\ route = "/map" /\ "provinces" \in offers /\ province = None
    /\ province' = p
    /\ UNCHANGED <<Elsewhere, offers, tileVars>>

(* The province's bounds come and the map flies there. *)
ProvinceArrives ==
    /\ province # None
    /\ Pan(ViewOf(province))
    /\ province' = None
    /\ UNCHANGED <<Elsewhere, offers>>

ProvinceFails ==
    /\ province # None
    /\ province' = None
    /\ UNCHANGED <<Elsewhere, offers, tileVars>>

MovesTo(v) == Pan(v) /\ UNCHANGED <<Elsewhere, page>>
Debounced  == TimerFires /\ UNCHANGED <<Elsewhere, page>>
TilesCome  == Answered /\ UNCHANGED <<Elsewhere, page>>
TilesFail  == Fails /\ UNCHANGED <<Elsewhere, page>>
TimePasses == Expire /\ UNCHANGED <<Elsewhere, page>>

-----------------------------------------------------------------------------
Next ==
    \/ \E r \in Pages : Go(r)
    \/ SessionArrives \/ SessionFails \/ ChangesElsewhere \/ Reload
    \/ ScriptLoads \/ ScriptFails \/ StartSignIn \/ SignInAnswers
    \/ \E b, here \in BOOLEAN : SignInFails(b, here)
    \/ \E b \in BOOLEAN : SignOutEnds(b)
    \/ StartSignOut
    \/ \E f \in {"provinces", "networks"} : OptionsArrive(f)
    \/ \E o \in OrNone(Networks) : PickNetwork(o)
    \/ \E p \in Provinces : PickProvince(p)
    \/ ProvinceArrives \/ ProvinceFails
    \/ \E v \in Views : MovesTo(v)
    \/ Debounced \/ TilesCome \/ TilesFail \/ TimePasses

Spec == Init /\ [][Next]_vars

(* The browser's timers fire, requests end, answers grow old. *)
Fairness == WF_vars(Debounced) /\ WF_vars(TilesCome \/ TilesFail) /\ WF_vars(TimePasses)
FairSpec == Spec /\ Fairness

-----------------------------------------------------------------------------
(* Properties *)

(* No key is remembered without a request behind it, so no viewport is     *)
(* refused for being under way when nothing is.                            *)
PendingIsUnderWay == pending = live

(* The box asked for is one the server answers, and holds the viewport     *)
(* whenever that is possible.                                              *)
BoxesFit ==
    \A v \in Views : lastBounds = v \/ (timer # None /\ timer.view = v) => BoxFits(v)

(* A viewport that is not put behind the debounce is covered by the answer *)
(* shown for it.                                                           *)
HitsCover ==
    [][lastBounds' \notin {None, lastBounds} /\ timer' = None =>
         tiles' # None /\ Contains(tiles'.box, lastBounds')]_vars

(* Whoever is signed in is not kept at the sign-in page. *)
SignedInLeavesTheDoor == SignedIn(session) => route \notin Doors

(* However this tab's sign-ins and sign-outs overlap and are answered, the *)
(* header shows nobody whose session has ended; but it goes on showing     *)
(* whoever's session has ended elsewhere, by expiry or in another tab.     *)
NobodyIsShownWithoutASession == SignedIn(session) => cookie \/ lapsed

(* Only somebody the page knows of is being signed out. *)
SomebodyIsLeaving == leaving > 0 => session # None

(* A reader who is not signed in stays on the map page. *)
StaysOnTheMap == <>[](route = "/map" /\ session # None /\ ~SignedIn(session))

(* However a change of network and the waiting debounce crossed, a reader  *)
(* who stays, keeps the network and keeps moving the map is in the end     *)
(* shown that network only, or told that it cannot be loaded.              *)
NetworkHeals ==
    StaysOnTheMap /\ (\A v \in Views : []<>(lastBounds = v)) =>
    \A n \in OrNone(Networks) :
        <>[](operator = n /\ ~error) => <>[](tiles # None /\ tiles.op = n)

(* A reader who rests is answered: no request waits or is under way.       *)
RestIsQuiet ==
    StaysOnTheMap /\ <>[][operator' = operator /\ timer' \in {timer, None}]_vars
      => <>[](timer = None /\ live = None)

(* What holds of every page of the site: its values have their types, a    *)
(* remembered key has its request, whoever is shown as signed in has left  *)
(* the sign-in page and has a session, unless that has ended elsewhere.    *)
SiteInv ==
    /\ TypeOK /\ PendingIsUnderWay
    /\ SignedInLeavesTheDoor /\ NobodyIsShownWithoutASession /\ SomebodyIsLeaving

=============================================================================
