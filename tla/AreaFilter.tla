----------------------------- MODULE AreaFilter -----------------------------
(***************************************************************************)
(* The cascade of selects Country, Province, District, Village             *)
(* (AreaFilter.tsx) and the part of App.tsx it talks to: the chosen area,  *)
(* the answer about it, and the shaded children on the map, which are a    *)
(* second way to choose.  Every level is filled by a request of its own,   *)
(* and these answers are neither ordered nor cancelled by a new choice.    *)
(*                                                                         *)
(* The control forgets everything when it is taken off the page; App keeps *)
(* the chosen area.  Definitions whose names begin with Faulty are         *)
(* deliberate mistakes that no specification uses.                         *)
(***************************************************************************)
EXTENDS Reader, FiniteSets

CONSTANTS
    Areas,          \* administrative areas
    Parent,         \* the area each belongs to, None for a country
    Level,          \* 0 country, 1 province, 2 district, 3 village
    MaxShaded,      \* CHOROPLETH_MAX_LEVEL
    MaxAsks         \* bound on unanswered requests for the children of one area

Depths == 0..3

(* The areas are a forest, one level apart, as their import leaves them    *)
(* when it finds every parent.                                             *)
ASSUME AreaFilterAssumption ==
    /\ None \notin Areas
    /\ Parent \in [Areas -> OrNone(Areas)]
    /\ Level \in [Areas -> Depths]
    /\ \A a \in Areas : Level[a] = IF Parent[a] = None THEN 0 ELSE Level[Parent[a]] + 1
    /\ MaxShaded \in Nat /\ MaxAsks \in Nat \ {0}

Children(a) == {b \in Areas : Parent[b] = a}
Roots == Children(None)

VARIABLES
    mounted,                        \* whether the control is on the page
    options, chain, busy, following, \* its state
    roots, asks,                    \* its requests: the countries, the children of an area
    areaCode, detail, shaded,       \* App: the choice, its answer, whose children are shaded
    load, kids,                     \* App: the requests for the answer and for the children
    spoiled                         \* history: what has made the control disagree

control == <<mounted, options, chain, busy, following, roots, asks>>
app     == <<areaCode, detail, shaded, load, kids>>
filterVars == <<control, app, spoiled>>

Reasons == {"late", "stale", "cleared", "remounted", "failed"}

FilterTypeOK ==
    /\ mounted \in BOOLEAN /\ busy \in BOOLEAN /\ roots \in BOOLEAN
    /\ options \in [Depths -> SUBSET Areas]
    /\ chain \in [Depths -> OrNone(Areas)]
    /\ following \in OrNone(Areas)
    /\ asks \in [Areas -> 0..MaxAsks]
    /\ areaCode \in OrNone(Areas) /\ detail \in OrNone(Areas)
    /\ shaded \in OrNone(Areas)
    /\ load \in OrNone(Areas) /\ kids \in OrNone(Areas)
    /\ spoiled \subseteq Reasons

(* current.slice(0, n) of the choices and of the chain *)
NoOptions == [d \in Depths |-> {}]
NoChain   == [d \in Depths |-> None]
Lists(opts, n) == [d \in Depths |-> IF d < n THEN opts[d] ELSE {}]
Path(ch, n)      == [d \in Depths |-> IF d < n THEN ch[d] ELSE None]
Members(ch)      == {ch[d] : d \in Depths} \ {None}
NoAsks == [a \in Areas |-> 0]

FilterInit ==
    /\ mounted = FALSE
    /\ options = NoOptions /\ chain = NoChain
    /\ busy = FALSE /\ following = None
    /\ roots = FALSE /\ asks = NoAsks
    /\ areaCode = None /\ detail = None /\ shaded = None
    /\ load = None /\ kids = None
    /\ spoiled = {}

Spoil(reason, when) == spoiled' = IF when THEN spoiled \cup {reason} ELSE spoiled

-----------------------------------------------------------------------------
(* Requests of the control *)

(* expand: the children of a are asked for. *)
Expand(a) ==
    /\ asks[a] < MaxAsks
    /\ asks' = [asks EXCEPT ![a] = @ + 1]
    /\ busy' = TRUE

RootsArrive ==
    /\ roots
    /\ roots' = FALSE
    /\ options' = [NoOptions EXCEPT ![0] = Roots]
    /\ IF Cardinality(Roots) = 1
       THEN \E r \in Roots : chain' = [NoChain EXCEPT ![0] = r] /\ Expand(r)
       ELSE UNCHANGED <<chain, asks, busy>>
    /\ UNCHANGED <<mounted, following, app, spoiled, budget>>

RootsFail ==
    /\ roots /\ Fail
    /\ roots' = FALSE
    /\ options' = NoOptions
    /\ UNCHANGED <<mounted, chain, busy, following, asks, app, spoiled>>

(* The choices after the children of a were listed: one level below a, and *)
(* nothing deeper.                                                         *)
Listed(a) ==
    [d \in Depths |->
       IF d = Level[a] + 1 THEN Children(a) ELSE Lists(options, Level[a] + 1)[d]]

ChildrenListed(a) ==
    /\ asks[a] > 0
    /\ asks' = [asks EXCEPT ![a] = @ - 1]
    /\ options' = Listed(a)
    /\ busy' = FALSE
    /\ Spoil("late", chain[Level[a]] # a)
    /\ UNCHANGED <<mounted, chain, following, roots, app, budget>>

ListingFails(a) ==
    /\ asks[a] > 0 /\ Fail
    /\ asks' = [asks EXCEPT ![a] = @ - 1]
    /\ options' = Lists(options, Level[a] + 1)
    /\ busy' = FALSE
    /\ Spoil("late", chain[Level[a]] # a)
    /\ UNCHANGED <<mounted, chain, following, roots, app>>

-----------------------------------------------------------------------------
(* App: the area a choice stands for *)

(* setAreaCode and the effect that follows: the requests about the area    *)
(* before are cancelled, and choosing nothing forgets its answer.          *)
SetArea(a) ==
    IF a = areaCode THEN UNCHANGED app
    ELSE /\ areaCode' = a
         /\ load' = a /\ kids' = None
         /\ IF a = None THEN detail' = None /\ shaded' = None
            ELSE UNCHANGED <<detail, shaded>>

(* The effect of the control on the answer it is shown: a choice made      *)
(* elsewhere is put where it belongs in the chain.                         *)
Follow(a) ==
    /\ following' = a
    /\ IF a = following \/ a \in Members(chain)
       THEN UNCHANGED <<chain, asks, busy>>
       ELSE /\ chain' = [Path(chain, Level[a]) EXCEPT ![Level[a]] = a]
            /\ Expand(a)

(* The answer that describes the area; a wide one has its children shaded. *)
DetailArrives ==
    /\ load # None
    /\ load' = None
    /\ detail' = load
    /\ IF Level[load] <= MaxShaded THEN kids' = load /\ UNCHANGED shaded
       ELSE shaded' = None /\ UNCHANGED kids
    /\ IF mounted THEN Follow(load) ELSE UNCHANGED <<chain, asks, busy, following>>
    /\ UNCHANGED <<mounted, options, roots, areaCode, spoiled, budget>>

DetailFails ==
    /\ load # None /\ Fail
    /\ load' = None
    /\ Spoil("failed", TRUE)
    /\ UNCHANGED <<control, areaCode, detail, shaded, kids>>

ShadingArrives ==
    /\ kids # None
    /\ shaded' = kids /\ kids' = None
    /\ UNCHANGED <<control, areaCode, detail, load, spoiled, budget>>

ShadingFails ==
    /\ kids # None /\ Fail
    /\ kids' = None
    /\ UNCHANGED <<control, areaCode, detail, shaded, load, spoiled>>

-----------------------------------------------------------------------------
(* What the reader does *)

(* The select of a depth is drawn when there is something to choose.       *)
Drawn(d) == options[d] # {} /\ (d = 0 => Cardinality(options[0]) > 1)

FaultyChosenChain(d, a) == [chain EXCEPT ![d] = a]

ChosenChain(d, a) == [Path(chain, d) EXCEPT ![d] = a]

(* "All" at a depth means the area above it. *)
Effective(d, a) == IF a # None \/ d = 0 THEN a ELSE chain[d - 1]

Choose(d, a) ==
    /\ mounted /\ Drawn(d) /\ a \in OrNone(options[d]) /\ a # chain[d]
    /\ Step
    /\ chain' = ChosenChain(d, a)
    /\ options' = Lists(options, d + 1)
    /\ following' = Effective(d, a)
    /\ SetArea(Effective(d, a))
    /\ IF a # None THEN Expand(a) ELSE UNCHANGED <<asks, busy>>
    /\ UNCHANGED <<mounted, roots, spoiled>>

(* A shaded child is clicked, perhaps one of an area no longer chosen. *)
ClickShaded(a) ==
    /\ mounted /\ shaded # None /\ a \in Children(shaded)
    /\ Step
    /\ SetArea(a)
    /\ Spoil("stale", shaded # areaCode)
    /\ UNCHANGED control

(* The clear button of the area's summary: the chain goes back to the      *)
(* country, the lists stay.                                                *)
ClearArea ==
    /\ mounted /\ detail # None
    /\ Step
    /\ SetArea(None)
    /\ following' = None
    /\ chain' = IF following = None THEN chain ELSE Path(chain, 1)
    /\ Spoil("cleared", TRUE)
    /\ UNCHANGED <<mounted, options, busy, roots, asks>>

(* Mounting: the countries are asked for, and an answer App still holds is *)
(* followed although no level is known.                                    *)
Mount ==
    /\ ~mounted
    /\ mounted' = TRUE
    /\ options' = NoOptions
    /\ roots' = TRUE
    /\ following' = detail
    /\ IF detail = None
       THEN chain' = NoChain /\ asks' = NoAsks /\ busy' = FALSE
       ELSE /\ chain' = [NoChain EXCEPT ![Level[detail]] = detail]
            /\ asks' = [NoAsks EXCEPT ![detail] = 1]
            /\ busy' = TRUE
    /\ Spoil("remounted", areaCode # None)
    /\ UNCHANGED app

(* Off the page: nothing that is still under way can reach it. *)
Vanish ==
    /\ mounted' = FALSE
    /\ options' = NoOptions /\ chain' = NoChain
    /\ busy' = FALSE /\ following' = None
    /\ roots' = FALSE /\ asks' = NoAsks

Unmount == mounted /\ Vanish /\ UNCHANGED <<app, spoiled>>

(* Signing out takes the control off the page and forgets the area. *)
Forget == Vanish /\ SetArea(None) /\ UNCHANGED spoiled

(* What the network does to it, and what the reader does with it. *)
FilterAnswers ==
    \/ RootsArrive \/ RootsFail
    \/ \E a \in Areas : ChildrenListed(a) \/ ListingFails(a)
    \/ DetailArrives \/ DetailFails \/ ShadingArrives \/ ShadingFails

FilterChoices ==
    \/ \E d \in Depths, a \in OrNone(Areas) : Choose(d, a)
    \/ \E a \in Areas : ClickShaded(a)
    \/ ClearArea

-----------------------------------------------------------------------------
(* Every select lists children of what is chosen in the one above it, as   *)
(* the header of AreaFilter.tsx says.                                      *)
OffersOnlyChildren ==
    \A d \in Depths \ {0} :
       options[d] # {} => /\ chain[d - 1] # None
                          /\ options[d] \subseteq Children(chain[d - 1])

(* The chain is a path from a country down to the chosen area.             *)
ChainReaches(a) ==
    /\ \A d \in Depths \ {0} : chain[d] # None => Parent[chain[d]] = chain[d - 1]
    /\ IF a = None THEN Members(chain) \subseteq Roots
       ELSE a \in Members(chain) /\ \A b \in Members(chain) : Level[b] <= Level[a]

(* Choosing level by level, and clicking children of the chosen area, the  *)
(* control always offers what belongs together, and once the chosen area   *)
(* has loaded it shows the area whose coverage is on the page.  What can   *)
(* spoil it is an answer that comes after the next choice, a click on      *)
(* children of an area left behind, clearing the area, coming back to the  *)
(* map with an area still chosen, and an area that would not load: nothing *)
(* else.                                                                   *)
ControlAgrees ==
    mounted /\ spoiled = {} =>
      /\ OffersOnlyChildren
      /\ load = None => ChainReaches(areaCode)

=============================================================================
