-------------------------- MODULE PublicSiteProofs --------------------------
(***************************************************************************)
(* What is proved of the public site: that the box asked for fits every    *)
(* viewport, not only those of an instance; that the answer shown holds    *)
(* the viewport where the page does not wait; and SiteInv, that what the   *)
(* page remembers of its request and of its visitor is true.               *)
(***************************************************************************)
EXTENDS PublicSite, SequenceTheorems, WellFoundedInduction, TLAPS

Steps == {10, 20, 50}

(* snapDegrees knows three grids. *)
LEMMA GridSteps == ASSUME NEW span \in Int PROVE Grid(span) \in Steps
  BY DEF Grid, Steps

(* Rounding down to a grid, and up. *)
LEMMA DownFits ==
  ASSUME NEW x \in Int, NEW step \in Steps
  PROVE  Down(x, step) \in Int /\ Down(x, step) <= x
<1>1. CASE step = 10  BY <1>1 DEF Down
<1>2. CASE step = 20  BY <1>2 DEF Down
<1>3. CASE step = 50  BY <1>3 DEF Down
<1>. QED  BY <1>1, <1>2, <1>3 DEF Steps

LEMMA UpFits ==
  ASSUME NEW x \in Int, NEW step \in Steps
  PROVE  Up(x, step) \in Int /\ x <= Up(x, step)
<1>1. Down(-x, step) \in Int /\ Down(-x, step) <= -x
  BY DownFits
<1>. QED  BY <1>1 DEF Up

(* axis keeps within the limit and around the interval. *)
LEMMA AxisIsFit ==
  ASSUME NEW i, IsInterval(i), NEW step \in Steps
  PROVE  AxisFits(i, step)
<1>. DEFINE centre  == (i.min + i.max) \div 2
            half    == Smaller(Span(i) \div 2, Limit \div 2)
            pad     == Smaller(step, Limit \div 2 - half)
            padded  == [min |-> centre - half - pad, max |-> centre + half + pad]
            snapped == [min |-> Down(padded.min, step), max |-> Up(padded.max, step)]
<1>1. /\ i.min \in Int /\ i.max \in Int /\ i.min < i.max
      /\ 2 * centre = i.min + i.max /\ centre \in Int
      /\ 2 * (Span(i) \div 2) = i.max - i.min /\ Span(i) = i.max - i.min
  BY DEF IsInterval, Span
<1>2. /\ half \in Int /\ 0 < half /\ half <= 295
      /\ Span(i) <= 590 => 2 * half = i.max - i.min
  BY <1>1 DEF Smaller, Limit, MaxBbox
<1>3. /\ pad \in Int /\ 0 <= pad /\ half + pad <= 295
      /\ Span(i) + 2 * step <= 590 => pad = step
  BY <1>1, <1>2 DEF Smaller, Limit, MaxBbox, Steps
<1>. HIDE DEF centre, half, pad
<1>4. /\ padded.min \in Int /\ padded.max \in Int
      /\ padded.max - padded.min <= 590
      /\ Span(i) <= 590 => padded.min <= i.min /\ i.max <= padded.max
      /\ Span(i) + 2 * step <= 590 => padded.min <= i.min - step /\ i.max + step <= padded.max
  BY <1>1, <1>2, <1>3 DEF Steps
<1>. HIDE DEF padded
<1>5. /\ snapped.min \in Int /\ snapped.max \in Int
      /\ snapped.min <= padded.min /\ padded.max <= snapped.max
  BY <1>4, DownFits, UpFits
<1>6. Axis(i, step) = IF Span(snapped) <= Limit THEN snapped ELSE padded
  BY DEF Axis, centre, half, pad, padded
<1>. HIDE DEF snapped
<1>7. CASE Span(snapped) <= Limit
  BY <1>1, <1>4, <1>5, <1>6, <1>7 DEF AxisFits, Holds, Limit, MaxBbox, Steps
<1>8. CASE ~(Span(snapped) <= Limit)
  BY <1>1, <1>4, <1>6, <1>8 DEF AxisFits, Holds, Span, Limit, MaxBbox, Steps
<1>. QED  BY <1>7, <1>8

(* Whatever viewport the map reports, the box asked for is one the server  *)
(* answers, holds all of the viewport that is possible, and leaves the     *)
(* margin that makes a small pan free.                                     *)
THEOREM AnyBoxFits == ASSUME NEW v, IsView(v) PROVE BoxFits(v)
<1>1. Grid(Larger(Span(v.lat), Span(v.lon))) \in Steps
  <2>1. Larger(Span(v.lat), Span(v.lon)) \in Int
    BY DEF Larger, Span, IsView, IsInterval
  <2>. QED  BY <2>1, GridSteps
<1>2. IsInterval(v.lat) /\ IsInterval(v.lon)
  BY DEF IsView
<1>. QED  BY <1>1, <1>2, AxisIsFit DEF BoxFits

-----------------------------------------------------------------------------
(* In every instance, the box of the viewport shown and of the one behind  *)
(* the debounce fits.                                                      *)
THEOREM EveryBoxFits == Spec => []BoxesFit
<1>1. BoxesFit
  BY AnyBoxFits, PublicTilesAssumption DEF BoxesFit
<1>. QED  BY <1>1, PTL

-----------------------------------------------------------------------------
(* Entering a page starts its map with one request, or leaves none. *)
LEMMA ArriveKeepsPending ==
  ASSUME NEW r, NEW s, NEW heard, Arrive(r, s, heard)
  PROVE  PendingIsUnderWay'
  BY DEF Arrive, FreshTiles, NoTiles, Request, PendingIsUnderWay

LEMMA BecomesKeepsPending ==
  ASSUME NEW s, NEW heard, Becomes(s, heard), PendingIsUnderWay
  PROVE  PendingIsUnderWay'
  BY ArriveKeepsPending DEF Becomes, CardAgain, tileVars, PendingIsUnderWay

(* Asking for a box replaces the request and its key together. *)
LEMMA FetchKeepsPending ==
  ASSUME NEW v, NEW op, NEW kept, FetchNow(v, op, kept), PendingIsUnderWay
  PROVE  PendingIsUnderWay'
  BY DEF FetchNow, Request, PendingIsUnderWay

(* The key remembered is that of the request under way, and of none when   *)
(* none is: no viewport is refused because of a request that has ended.    *)
THEOREM PendingNamesTheRequest == Spec => []PendingIsUnderWay
<1>1. Init => PendingIsUnderWay
  BY DEF Init, PendingIsUnderWay
<1>2. PendingIsUnderWay /\ [Next]_vars => PendingIsUnderWay'
  <2>. SUFFICES ASSUME PendingIsUnderWay, [Next]_vars PROVE PendingIsUnderWay'
    OBVIOUS
  <2>1. ASSUME NEW r \in Pages, Go(r) PROVE PendingIsUnderWay'
    BY <2>1, ArriveKeepsPending DEF Go
  <2>2. CASE SessionArrives
    BY <2>2, BecomesKeepsPending DEF SessionArrives
  <2>3. CASE SessionFails
    BY <2>3, BecomesKeepsPending DEF SessionFails
  <2>4. CASE Reload
    BY <2>4 DEF Reload, FreshTiles, NoTiles, Request, PendingIsUnderWay
  <2>5. CASE SignInAnswers
    BY <2>5, BecomesKeepsPending DEF SignInAnswers
  <2>6. ASSUME NEW b \in BOOLEAN, SignOutEnds(b) PROVE PendingIsUnderWay'
    BY <2>6, BecomesKeepsPending DEF SignOutEnds
  <2>7. ASSUME NEW b, NEW here, SignInFails(b, here) PROVE PendingIsUnderWay'
    BY <2>7 DEF SignInFails, tileVars, PendingIsUnderWay
  <2>8. CASE ScriptLoads \/ ScriptFails \/ StartSignIn \/ StartSignOut \/ ChangesElsewhere
    BY <2>8 DEF ScriptLoads, ScriptFails, StartSignIn, StartSignOut, ChangesElsewhere,
       tileVars, PendingIsUnderWay
  <2>9. ASSUME NEW f, OptionsArrive(f) PROVE PendingIsUnderWay'
    BY <2>9 DEF OptionsArrive, tileVars, PendingIsUnderWay
  <2>10. ASSUME NEW o \in OrNone(Networks), PickNetwork(o) PROVE PendingIsUnderWay'
    BY <2>10, FetchKeepsPending DEF PickNetwork, ChooseNetwork
  <2>11. ASSUME NEW p \in Provinces, PickProvince(p) PROVE PendingIsUnderWay'
    BY <2>11 DEF PickProvince, tileVars, PendingIsUnderWay
  <2>12. CASE ProvinceArrives \/ ProvinceFails
    BY <2>12 DEF ProvinceArrives, ProvinceFails, Pan, tileVars, PendingIsUnderWay
  <2>13. ASSUME NEW v \in Views, MovesTo(v) PROVE PendingIsUnderWay'
    BY <2>13 DEF MovesTo, Pan, PendingIsUnderWay
  <2>14. CASE Debounced
    BY <2>14, FetchKeepsPending DEF Debounced, TimerFires
  <2>15. CASE TilesCome \/ TilesFail \/ TimePasses
    BY <2>15 DEF TilesCome, TilesFail, TimePasses, Answered, Fails, Expire, PendingIsUnderWay
  <2>16. CASE UNCHANGED vars
    BY <2>16 DEF vars, tileVars, PendingIsUnderWay
  <2>. QED
    BY <2>1, <2>2, <2>3, <2>4, <2>5, <2>6, <2>7, <2>8, <2>9, <2>10, <2>11, <2>12,
       <2>13, <2>14, <2>15, <2>16 DEF Next
<1>. QED  BY <1>1, <1>2, PTL DEF Spec

-----------------------------------------------------------------------------
LEMMA ArriveLeavesTheDoor ==
  ASSUME NEW r, NEW s, NEW heard, Arrive(r, s, heard)
  PROVE  SignedIn(s) => route' \notin Doors
  BY DEF Arrive, Doors

LEMMA BecomesLeavesTheDoor ==
  ASSUME NEW s, NEW heard, Becomes(s, heard)
  PROVE  SignedInLeavesTheDoor'
<1>1. session' = s
  BY DEF Becomes
<1>2. CASE ~SignedIn(s)
  BY <1>1, <1>2 DEF SignedInLeavesTheDoor, SignedIn
<1>3. CASE SignedIn(s) /\ route \in Doors
  BY <1>1, <1>3, ArriveLeavesTheDoor DEF Becomes, SignedInLeavesTheDoor, SignedIn
<1>4. CASE route \notin Doors
  BY <1>4 DEF Becomes, SignedInLeavesTheDoor
<1>. QED  BY <1>2, <1>3, <1>4

(* Whoever is signed in, by whichever answer and on whichever page it      *)
(* arrives, is not kept at the sign-in page.                               *)
THEOREM TheDoorIsLeft == Spec => []SignedInLeavesTheDoor
<1>1. Init => SignedInLeavesTheDoor
  BY DEF Init, SignedInLeavesTheDoor, SignedIn
<1>2. SignedInLeavesTheDoor /\ [Next]_vars => SignedInLeavesTheDoor'
  <2>. SUFFICES ASSUME SignedInLeavesTheDoor, [Next]_vars PROVE SignedInLeavesTheDoor'
    OBVIOUS
  <2>1. ASSUME NEW r \in Pages, Go(r) PROVE SignedInLeavesTheDoor'
    <3>1. SignedIn(session) => route' \notin Doors
      BY <2>1, ArriveLeavesTheDoor DEF Go
    <3>. QED  BY <2>1, <3>1 DEF Go, who, SignedInLeavesTheDoor, SignedIn
  <2>2. CASE SessionArrives
    BY <2>2, BecomesLeavesTheDoor DEF SessionArrives
  <2>3. CASE SessionFails
    BY <2>3, BecomesLeavesTheDoor DEF SessionFails
  <2>4. CASE Reload
    BY <2>4 DEF Reload, SignedInLeavesTheDoor, SignedIn
  <2>5. CASE SignInAnswers
    BY <2>5, BecomesLeavesTheDoor DEF SignInAnswers
  <2>6. ASSUME NEW b \in BOOLEAN, SignOutEnds(b) PROVE SignedInLeavesTheDoor'
    BY <2>6, BecomesLeavesTheDoor DEF SignOutEnds
  <2>7. CASE UNCHANGED <<route, session>>
    BY <2>7 DEF SignedInLeavesTheDoor, SignedIn
  <2>8. ASSUME NEW b, NEW here, SignInFails(b, here) PROVE UNCHANGED <<route, session>>
    BY <2>8 DEF SignInFails, who
  <2>9. ASSUME ScriptLoads \/ ScriptFails \/ StartSignIn \/ StartSignOut \/ ChangesElsewhere
        PROVE  UNCHANGED <<route, session>>
    BY <2>9 DEF ScriptLoads, ScriptFails, StartSignIn, StartSignOut, ChangesElsewhere, who
  <2>10. ASSUME NEW f, OptionsArrive(f) PROVE UNCHANGED <<route, session>>
    BY <2>10 DEF OptionsArrive, Elsewhere, who
  <2>11. ASSUME NEW o \in OrNone(Networks), PickNetwork(o) PROVE UNCHANGED <<route, session>>
    BY <2>11 DEF PickNetwork, Elsewhere, who
  <2>12. ASSUME NEW p \in Provinces, PickProvince(p) PROVE UNCHANGED <<route, session>>
    BY <2>12 DEF PickProvince, Elsewhere, who
  <2>13. ASSUME ProvinceArrives \/ ProvinceFails PROVE UNCHANGED <<route, session>>
    BY <2>13 DEF ProvinceArrives, ProvinceFails, Elsewhere, who
  <2>14. ASSUME NEW v \in Views, MovesTo(v) PROVE UNCHANGED <<route, session>>
    BY <2>14 DEF MovesTo, Elsewhere, who
  <2>15. ASSUME Debounced \/ TilesCome \/ TilesFail \/ TimePasses
         PROVE  UNCHANGED <<route, session>>
    BY <2>15 DEF Debounced, TilesCome, TilesFail, TimePasses, Elsewhere, who
  <2>16. UNCHANGED vars => UNCHANGED <<route, session>>
    BY DEF vars, who
  <2>. QED
    BY <2>1, <2>2, <2>3, <2>4, <2>5, <2>6, <2>7, <2>8, <2>9, <2>10, <2>11, <2>12,
       <2>13, <2>14, <2>15, <2>16 DEF Next
<1>. QED  BY <1>1, <1>2, PTL DEF Spec

-----------------------------------------------------------------------------
(* What is kept of the answers *)

(* Of some places in a sequence one is the first. *)
LEMMA FirstPlace ==
  ASSUME NEW T, T \subseteq Nat, T # {}
  PROVE  \E i \in T : \A j \in T : i <= j
<1>1. \E i \in T : \A j \in T : ~(<<j, i>> \in OpToRel(<, Nat))
  BY WFMin, NatLessThanWellFounded
<1>2. PICK i \in T : \A j \in T : ~(<<j, i>> \in OpToRel(<, Nat))
  BY <1>1
<1>3. ASSUME NEW j \in T PROVE i <= j
  <2>1. ~(j < i)
    BY <1>2 DEF OpToRel
  <2>. QED  BY <2>1
<1>. QED  BY <1>3

(* What is held for a viewport is an answer kept that covers it. *)
LEMMA HeldCovers ==
  ASSUME NEW v, NEW kept \in Seq(Keys), Covering(v, kept) # {}
  PROVE  Held(v, kept) \in Keys /\ Contains(Held(v, kept).box, v)
<1>1. Covering(v, kept) \subseteq DOMAIN kept /\ DOMAIN kept \subseteq Nat
  BY DEF Covering
<1>2. PICK i \in Covering(v, kept) : \A j \in Covering(v, kept) : i <= j
  BY <1>1, FirstPlace
<1>. DEFINE first == CHOOSE k \in Covering(v, kept) : \A j \in Covering(v, kept) : k <= j
<1>3. first \in Covering(v, kept)
  BY <1>2
<1>4. Held(v, kept) = kept[first]
  BY DEF Held
<1>. HIDE DEF first
<1>5. first \in DOMAIN kept /\ Contains(kept[first].box, v)
  BY <1>3 DEF Covering
<1>. QED  BY <1>4, <1>5

(* An answer put in front leaves at most CacheSize, and answers only. *)
LEMMA KeptType ==
  ASSUME NEW key \in Keys, cache \in Seq(Keys)
  PROVE  Kept(key) \in Seq(Keys) /\ Len(Kept(key)) <= CacheSize
<1>. DEFINE all == <<key>> \o cache
            n   == Smaller(CacheSize, Len(cache) + 1)
<1>1. all \in Seq(Keys) /\ Len(all) = Len(cache) + 1
  <2>1. <<key>> \in Seq(Keys) /\ Len(<<key>>) = 1
    OBVIOUS
  <2>2. Len(cache) \in Nat
    OBVIOUS
  <2>3. all \in Seq(Keys) /\ Len(all) = Len(<<key>>) + Len(cache)
    BY <2>1, ConcatProperties, Zenon
  <2>. QED  BY <2>1, <2>2, <2>3
<1>2. n \in Nat /\ n <= CacheSize /\ n <= Len(all) /\ 1 <= n
  <2>1. Len(cache) \in Nat
    OBVIOUS
  <2>. QED  BY <1>1, <2>1, PublicTilesAssumption DEF Smaller
<1>. HIDE DEF all, n
<1>3. \A i \in 1 .. n : all[i] \in Keys
  BY <1>1, <1>2
<1>4. SubSeq(all, 1, n) \in Seq(Keys) /\ Len(SubSeq(all, 1, n)) = IF 1 <= n THEN n - 1 + 1 ELSE 0
  BY <1>2, <1>3, SubSeqProperties
<1>5. Kept(key) = SubSeq(all, 1, n)
  BY DEF Kept, all, n
<1>. QED  BY <1>2, <1>4, <1>5

(* So does dropping the last. *)
LEMMA ExpireType ==
  ASSUME cache \in Seq(Keys), cache # <<>>
  PROVE  LET fewer == SubSeq(cache, 1, Len(cache) - 1)
         IN  fewer \in Seq(Keys) /\ Len(fewer) <= Len(cache)
<1>. DEFINE n == Len(cache) - 1
<1>1. Len(cache) \in Nat /\ Len(cache) # 0
  OBVIOUS
<1>2. n \in Nat /\ n <= Len(cache)
  BY <1>1
<1>. HIDE DEF n
<1>3. \A i \in 1 .. n : cache[i] \in Keys
  BY <1>1, <1>2
<1>4. SubSeq(cache, 1, n) \in Seq(Keys) /\ Len(SubSeq(cache, 1, n)) = IF 1 <= n THEN n - 1 + 1 ELSE 0
  BY <1>2, <1>3, SubSeqProperties
<1>. QED  BY <1>1, <1>2, <1>4 DEF n

-----------------------------------------------------------------------------
(* Types *)

(* A key is made of a viewport the map reports and a network. *)
LEMMA KeyType ==
  ASSUME NEW v \in Views, NEW op \in OrNone(Networks)
  PROVE  Key(v, op) \in Keys
  BY DEF Keys

LEMMA HeldType ==
  ASSUME NEW v, NEW kept \in Seq(Keys)
  PROVE  Held(v, kept) # None => Held(v, kept) \in Keys
  BY HeldCovers DEF Held

(* What asking changes of the tiles. *)
LEMMA FetchNowType ==
  ASSUME NEW v \in Views, NEW op \in OrNone(Networks), NEW kept \in Seq(Keys),
         TilesTypeOK, FetchNow(v, op, kept)
  PROVE  /\ tiles' \in OrNone(Keys) /\ error' \in BOOLEAN
         /\ live' \in OrNone(Keys) /\ pending' \in OrNone(Keys)
<1>1. CASE Held(v, kept) # None
  <2>1. tiles' \in Keys /\ error' = FALSE /\ UNCHANGED <<live, pending>>
    BY <1>1, HeldType DEF FetchNow
  <2>. QED  BY <2>1 DEF TilesTypeOK, OrNone
<1>2. CASE Held(v, kept) = None
  <2>1. UNCHANGED <<tiles, error>>
    BY <1>2 DEF FetchNow
  <2>2. live' \in OrNone(Keys) /\ pending' \in OrNone(Keys)
    BY <1>2, KeyType DEF FetchNow, Request, TilesTypeOK, OrNone
  <2>. QED  BY <2>1, <2>2 DEF TilesTypeOK
<1>. QED  BY <1>1, <1>2

(* Moving the map changes what is shown and what waits. *)
LEMMA PanType ==
  ASSUME NEW v \in Views, TilesTypeOK, Pan(v)
  PROVE  TilesTypeOK'
<1>1. CASE Held(v, cache) # None
  <2>1. tiles' \in Keys /\ error' = FALSE /\ timer' = None
    BY <1>1, HeldType DEF Pan, TilesTypeOK
  <2>2. lastBounds' = v /\ UNCHANGED <<operator, live, pending, cache>>
    BY DEF Pan
  <2>3. error' \in BOOLEAN
    BY <2>1
  <2>4. tiles' \in OrNone(Keys) /\ timer' \in OrNone(Timers) /\ lastBounds' \in OrNone(Views)
    BY <2>1, <2>2 DEF OrNone
  <2>. QED  BY <2>2, <2>3, <2>4 DEF TilesTypeOK
<1>2. CASE Held(v, cache) = None
  <2>1. timer' = [view |-> v, op |-> operator] /\ UNCHANGED <<tiles, error>>
    BY <1>2 DEF Pan
  <2>2. lastBounds' = v /\ UNCHANGED <<operator, live, pending, cache>>
    BY DEF Pan
  <2>3. timer' \in OrNone(Timers) /\ lastBounds' \in OrNone(Views)
    BY <2>1, <2>2 DEF OrNone, Timers, TilesTypeOK
  <2>. QED  BY <2>1, <2>2, <2>3 DEF TilesTypeOK
<1>. QED  BY <1>1, <1>2

(* A fresh map, or none. *)
LEMMA FreshTilesType == FreshTiles => TilesTypeOK' /\ lastBounds' # None
<1>. SUFFICES ASSUME FreshTiles PROVE TilesTypeOK' /\ lastBounds' # None
  OBVIOUS
<1>1. Key(Home, None) \in Keys /\ Home \in Views
  BY KeyType, PublicTilesAssumption DEF OrNone
<1>2. error' \in BOOLEAN
  BY DEF FreshTiles
<1>3. /\ operator' = None /\ tiles' = None /\ cache' = <<>> /\ lastBounds' = Home
      /\ timer' = [view |-> Home, op |-> None] /\ live' = Key(Home, None) /\ pending' = live'
  BY DEF FreshTiles, Request
<1>4. Len(cache') <= CacheSize /\ cache' \in Seq(Keys)
  BY <1>3, PublicTilesAssumption
<1>5. timer' \in Timers
  BY <1>1, <1>3 DEF Timers, OrNone
<1>. QED  BY <1>1, <1>2, <1>3, <1>4, <1>5, PublicTilesAssumption DEF TilesTypeOK, OrNone

LEMMA NoTilesType == NoTiles => TilesTypeOK' /\ lastBounds' = None
<1>. SUFFICES ASSUME NoTiles PROVE TilesTypeOK' /\ lastBounds' = None
  OBVIOUS
<1>1. error' \in BOOLEAN
  BY DEF NoTiles
<1>2. /\ operator' = None /\ tiles' = None /\ cache' = <<>> /\ lastBounds' = None
      /\ timer' = None /\ live' = None /\ pending' = None
  BY DEF NoTiles
<1>3. Len(cache') <= CacheSize /\ cache' \in Seq(Keys)
  BY <1>2, PublicTilesAssumption
<1>. QED  BY <1>1, <1>2, <1>3 DEF TilesTypeOK, OrNone

(* A page entered has a map or none, as its route says. *)
LEMMA ArriveType ==
  ASSUME NEW r \in Pages, NEW s, NEW heard, Arrive(r, s, heard)
  PROVE  route' \in Pages /\ TilesTypeOK' /\ (lastBounds' # None <=> route' \in MapPages)
<1>1. route' \in Pages
  BY PublicSiteAssumption DEF Arrive
<1>2. CASE route' \in MapPages
  <2>1. FreshTiles
    BY <1>2 DEF Arrive
  <2>. QED  BY <1>1, <1>2, <2>1, FreshTilesType
<1>3. CASE route' \notin MapPages
  <2>1. NoTiles
    BY <1>3 DEF Arrive
  <2>. QED  BY <1>1, <1>3, <2>1, NoTilesType
<1>. QED  BY <1>2, <1>3

LEMMA BecomesType ==
  ASSUME NEW s, NEW heard, Becomes(s, heard), TilesTypeOK, PageOK
  PROVE  TilesTypeOK' /\ PageOK'
<1>1. CASE route \in Doors /\ ~(card.shown /\ ~SignedIn(s))
  <2>1. Arrive(route, s, heard) /\ NewPage
    BY <1>1 DEF Becomes
  <2>2. route' \in Pages /\ TilesTypeOK' /\ (lastBounds' # None <=> route' \in MapPages)
    BY <2>1, ArriveType DEF PageOK
  <2>. QED  BY <2>1, <2>2 DEF NewPage, PageOK, OrNone
<1>2. CASE route \notin Doors \/ (card.shown /\ ~SignedIn(s))
  BY <1>2 DEF Becomes, CardAgain, tileVars, page, TilesTypeOK, PageOK
<1>. QED  BY <1>1, <1>2

(* The tiles and the page keep their types. *)
LEMMA PagesStep == TilesTypeOK /\ PageOK /\ [Next]_vars => TilesTypeOK' /\ PageOK'
<1>. SUFFICES ASSUME TilesTypeOK, PageOK, [Next]_vars PROVE TilesTypeOK' /\ PageOK'
  OBVIOUS
<1>1. ASSUME NEW r \in Pages, Go(r) PROVE TilesTypeOK' /\ PageOK'
  BY <1>1, ArriveType DEF Go, NewPage, PageOK, OrNone
<1>2. CASE SessionArrives \/ SessionFails
  BY <1>2, BecomesType DEF SessionArrives, SessionFails
<1>3. CASE SignInAnswers
  BY <1>3, BecomesType DEF SignInAnswers
<1>4. ASSUME NEW b \in BOOLEAN, SignOutEnds(b) PROVE TilesTypeOK' /\ PageOK'
  BY <1>4, BecomesType DEF SignOutEnds
<1>5. CASE Reload
  BY <1>5, FreshTilesType, NoTilesType DEF Reload, NewPage, PageOK, OrNone
<1>6. CASE UNCHANGED <<route, page, tileVars>>
  BY <1>6 DEF page, tileVars, TilesTypeOK, PageOK
<1>7. ASSUME NEW b, NEW here, SignInFails(b, here) PROVE UNCHANGED <<route, page, tileVars>>
  BY <1>7 DEF SignInFails
<1>8. ASSUME \/ ScriptLoads \/ ScriptFails \/ StartSignIn \/ StartSignOut
             \/ ChangesElsewhere \/ UNCHANGED vars
      PROVE  UNCHANGED <<route, page, tileVars>>
  BY <1>8 DEF ScriptLoads, ScriptFails, StartSignIn, StartSignOut, ChangesElsewhere, vars
<1>9. ASSUME NEW f \in {"provinces", "networks"}, OptionsArrive(f) PROVE TilesTypeOK' /\ PageOK'
  BY <1>9 DEF OptionsArrive, Elsewhere, tileVars, TilesTypeOK, PageOK
<1>10. ASSUME NEW p \in Provinces, PickProvince(p) PROVE TilesTypeOK' /\ PageOK'
  BY <1>10 DEF PickProvince, Elsewhere, tileVars, TilesTypeOK, PageOK, OrNone
<1>11. CASE ProvinceFails
  BY <1>11 DEF ProvinceFails, Elsewhere, tileVars, TilesTypeOK, PageOK, OrNone
<1>12. ASSUME NEW o \in OrNone(Networks), PickNetwork(o) PROVE TilesTypeOK' /\ PageOK'
  <2>1. lastBounds \in Views /\ <<>> \in Seq(Keys) /\ FetchNow(lastBounds, o, <<>>)
    BY <1>12 DEF PickNetwork, ChooseNetwork, TilesTypeOK, OrNone
  <2>2. /\ tiles' \in OrNone(Keys) /\ error' \in BOOLEAN
        /\ live' \in OrNone(Keys) /\ pending' \in OrNone(Keys)
    BY <2>1, FetchNowType
  <2>3. operator' = o /\ cache' = <<>> /\ UNCHANGED <<lastBounds, timer, Elsewhere, page>>
    BY <1>12 DEF PickNetwork, ChooseNetwork
  <2>4. Len(cache') <= CacheSize /\ cache' \in Seq(Keys)
    BY <2>3, PublicTilesAssumption
  <2>. QED  BY <2>2, <2>3, <2>4 DEF TilesTypeOK, PageOK, Elsewhere, page
<1>13. CASE ProvinceArrives
  <2>1. TilesTypeOK' /\ lastBounds # None /\ lastBounds' # None
    BY <1>13, PanType, PublicSiteAssumption, PublicTilesAssumption
       DEF ProvinceArrives, Pan, PageOK, OrNone
  <2>. QED  BY <1>13, <2>1 DEF ProvinceArrives, Elsewhere, PageOK, OrNone
<1>14. ASSUME NEW v \in Views, MovesTo(v) PROVE TilesTypeOK' /\ PageOK'
  <2>1. TilesTypeOK' /\ lastBounds # None /\ lastBounds' # None
    BY <1>14, PanType, PublicTilesAssumption DEF MovesTo, Pan
  <2>. QED  BY <1>14, <2>1 DEF MovesTo, Elsewhere, page, PageOK
<1>15. CASE Debounced
  <2>1. timer \in Timers /\ FetchNow(timer.view, timer.op, cache)
    BY <1>15 DEF Debounced, TimerFires, TilesTypeOK, OrNone
  <2>2. timer.view \in Views /\ timer.op \in OrNone(Networks) /\ cache \in Seq(Keys)
    BY <2>1 DEF Timers, TilesTypeOK
  <2>3. /\ tiles' \in OrNone(Keys) /\ error' \in BOOLEAN
        /\ live' \in OrNone(Keys) /\ pending' \in OrNone(Keys)
    BY <2>1, <2>2, FetchNowType
  <2>4. timer' = None /\ UNCHANGED <<operator, lastBounds, cache, Elsewhere, page>>
    BY <1>15 DEF Debounced, TimerFires
  <2>. QED  BY <2>3, <2>4 DEF TilesTypeOK, PageOK, Elsewhere, page, OrNone
<1>16. CASE TilesCome
  <2>1. live \in Keys
    BY <1>16 DEF TilesCome, Answered, TilesTypeOK, OrNone
  <2>2. cache' \in Seq(Keys) /\ Len(cache') <= CacheSize
    BY <1>16, <2>1, KeptType DEF TilesCome, Answered, TilesTypeOK
  <2>3. error' \in BOOLEAN
    BY <1>16 DEF TilesCome, Answered
  <2>4. tiles' = live /\ live' = None /\ (pending' = None \/ pending' = pending)
        /\ UNCHANGED <<operator, lastBounds, timer, Elsewhere, page>>
    BY <1>16 DEF TilesCome, Answered
  <2>. QED  BY <2>1, <2>2, <2>3, <2>4 DEF TilesTypeOK, PageOK, Elsewhere, page, OrNone
<1>17. CASE TilesFail
  <2>1. error' \in BOOLEAN
    BY <1>17 DEF TilesFail, Fails
  <2>2. live' = None /\ (pending' = None \/ pending' = pending)
        /\ UNCHANGED <<operator, tiles, lastBounds, timer, cache, Elsewhere, page>>
    BY <1>17 DEF TilesFail, Fails
  <2>. QED  BY <2>1, <2>2 DEF TilesTypeOK, PageOK, Elsewhere, page, OrNone
<1>18. CASE TimePasses
  <2>1. cache' \in Seq(Keys) /\ Len(cache') <= Len(cache)
    BY <1>18, ExpireType DEF TimePasses, Expire, TilesTypeOK
  <2>2. Len(cache') <= CacheSize
    BY <2>1, PublicTilesAssumption DEF TilesTypeOK
  <2>3. UNCHANGED <<operator, tiles, error, lastBounds, timer, live, pending, Elsewhere, page>>
    BY <1>18 DEF TimePasses, Expire
  <2>. QED  BY <2>1, <2>2, <2>3 DEF TilesTypeOK, PageOK, Elsewhere, page
<1>. QED
  BY <1>1, <1>2, <1>3, <1>4, <1>5, <1>6, <1>7, <1>8, <1>9, <1>10, <1>11, <1>12, <1>13, <1>14,
     <1>15, <1>16, <1>17, <1>18 DEF Next

(* Who is signed in, and what the header says of it. *)
Header == WhoOK /\ NobodyIsShownWithoutASession /\ SomebodyIsLeaving

(* None is a number of sign-ins or sign-outs an instance follows. *)
LEMMA NoneUnderWay == 0 \in 0..Overlap /\ ~(0 > 0)
  BY PublicSiteAssumption

(* Every step of the site keeps what the header says. *)
LEMMA HeaderStep == Header /\ [Next]_vars => Header'
<1>. SUFFICES ASSUME Header, [Next]_vars PROVE Header'
  OBVIOUS
<1>. DEFINE Sessions == [client: BOOLEAN, authenticated: BOOLEAN]
<1>b. ASSUME NEW s \in Sessions, NEW heard \in BOOLEAN, Becomes(s, heard)
      PROVE  /\ session' = s /\ session' # None /\ session' \in OrNone(Sessions)
             /\ reachable' \in BOOLEAN /\ lapsed' = FALSE
  BY <1>b, PublicSiteAssumption DEF Becomes, OrNone
<1>1. CASE SessionArrives
  <2>1. [client |-> Configured, authenticated |-> cookie] \in Sessions
    BY PublicSiteAssumption DEF Header, WhoOK
  <2>2. /\ session' = [client |-> Configured, authenticated |-> cookie]
        /\ session' # None /\ session' \in OrNone(Sessions)
        /\ reachable' \in BOOLEAN /\ lapsed' = FALSE
    BY <1>1, <1>b, <2>1 DEF SessionArrives
  <2>3. UNCHANGED <<cookie, leaving>>
    BY <1>1 DEF SessionArrives
  <2>4. NobodyIsShownWithoutASession'
    BY <2>2, <2>3 DEF NobodyIsShownWithoutASession, SignedIn
  <2>. QED  BY <2>2, <2>3, <2>4 DEF Header, WhoOK, SomebodyIsLeaving
<1>2. CASE SessionFails
  <2>1. [client |-> FALSE, authenticated |-> FALSE] \in Sessions
    OBVIOUS
  <2>2. /\ session' = [client |-> FALSE, authenticated |-> FALSE]
        /\ session' # None /\ session' \in OrNone(Sessions)
        /\ reachable' \in BOOLEAN /\ lapsed' = FALSE
    BY <1>2, <1>b, <2>1 DEF SessionFails
  <2>3. UNCHANGED <<cookie, leaving>>
    BY <1>2 DEF SessionFails
  <2>4. NobodyIsShownWithoutASession'
    BY <2>2 DEF NobodyIsShownWithoutASession, SignedIn
  <2>. QED  BY <2>2, <2>3, <2>4 DEF Header, WhoOK, SomebodyIsLeaving
<1>3. CASE SignInAnswers
  <2>1. [client |-> FALSE, authenticated |-> TRUE] \in Sessions /\ reachable \in BOOLEAN
    BY DEF Header, WhoOK
  <2>2. /\ session' # None /\ session' \in OrNone(Sessions)
        /\ reachable' \in BOOLEAN /\ lapsed' = FALSE
    BY <1>3, <1>b, <2>1 DEF SignInAnswers
  <2>3. cookie' = TRUE /\ leaving' = leaving
    BY <1>3 DEF SignInAnswers
  <2>. QED  BY <2>2, <2>3 DEF Header, WhoOK, SomebodyIsLeaving, NobodyIsShownWithoutASession
<1>4. ASSUME NEW heard \in BOOLEAN, SignOutEnds(heard) PROVE Header'
  <2>1. session \in Sessions /\ reachable \in BOOLEAN
    BY <1>4 DEF SignOutEnds, Header, WhoOK, SomebodyIsLeaving, OrNone
  <2>2. [session EXCEPT !.authenticated = FALSE] \in Sessions
        /\ [session EXCEPT !.authenticated = FALSE].authenticated = FALSE
    BY <2>1
  <2>3. /\ session' = [session EXCEPT !.authenticated = FALSE]
        /\ session' # None /\ session' \in OrNone(Sessions)
        /\ reachable' \in BOOLEAN /\ lapsed' = FALSE
    BY <1>4, <1>b, <2>1, <2>2 DEF SignOutEnds
  <2>4. leaving' \in 0..Overlap /\ cookie' \in BOOLEAN
    <3>1. leaving \in 0..Overlap /\ Overlap \in Nat /\ leaving > 0 /\ leaving' = leaving - 1
      BY <1>4, PublicSiteAssumption DEF SignOutEnds, Header, WhoOK
    <3>2. cookie' \in BOOLEAN
      BY <1>4 DEF SignOutEnds, Header, WhoOK
    <3>. QED  BY <3>1, <3>2
  <2>5. NobodyIsShownWithoutASession'
    BY <2>2, <2>3 DEF NobodyIsShownWithoutASession, SignedIn
  <2>. QED  BY <2>3, <2>4, <2>5 DEF Header, WhoOK, SomebodyIsLeaving
<1>5. CASE Reload
  <2>1. session' = None /\ reachable' = TRUE /\ leaving' = 0 /\ lapsed' = FALSE
        /\ cookie' = cookie
    BY <1>5 DEF Reload
  <2>. QED
    BY <2>1, NoneUnderWay DEF Header, WhoOK, SomebodyIsLeaving,
       NobodyIsShownWithoutASession, SignedIn, OrNone
<1>6. CASE StartSignOut
  <2>1. leaving' \in 0..Overlap /\ session # None
        /\ UNCHANGED <<session, reachable, cookie, lapsed>>
    BY <1>6, PublicSiteAssumption DEF StartSignOut, Header, WhoOK, SignedIn
  <2>. QED
    BY <2>1 DEF Header, WhoOK, SomebodyIsLeaving, NobodyIsShownWithoutASession, SignedIn
<1>7. CASE ChangesElsewhere
  <2>1. cookie' \in BOOLEAN /\ lapsed' \in BOOLEAN /\ UNCHANGED <<session, reachable, leaving>>
    BY <1>7 DEF ChangesElsewhere
  <2>2. NobodyIsShownWithoutASession'
    BY <1>7, Zenon DEF ChangesElsewhere, NobodyIsShownWithoutASession, SignedIn
  <2>. QED  BY <2>1, <2>2 DEF Header, WhoOK, SomebodyIsLeaving
<1>8. CASE UNCHANGED who
  BY <1>8 DEF who, Header, WhoOK, SomebodyIsLeaving, NobodyIsShownWithoutASession, SignedIn
<1>9. ASSUME Next
      PROVE  \/ UNCHANGED who \/ SessionArrives \/ SessionFails \/ SignInAnswers
             \/ Reload \/ StartSignOut \/ ChangesElsewhere
             \/ \E b \in BOOLEAN : SignOutEnds(b)
  BY <1>9 DEF Next, Go, ScriptLoads, ScriptFails, StartSignIn, SignInFails, OptionsArrive,
     PickNetwork, PickProvince, ProvinceArrives, ProvinceFails, MovesTo, Debounced, TilesCome,
     TilesFail, TimePasses, Elsewhere
<1>. QED  BY <1>1, <1>2, <1>3, <1>4, <1>5, <1>6, <1>7, <1>8, <1>9 DEF vars

(* The card of a page that is entered: a new one, none of whose sign-ins   *)
(* are under way, or none.                                                 *)
Cards == [shown: BOOLEAN, button: BOOLEAN, error: OrNone(Errors), busy: BOOLEAN, own: 0..Overlap]
Scripts == {"absent", "loading", "loaded", "failed"}

LEMMA NoCardIsACard == NoCard \in Cards /\ NoCard.own = 0
  BY PublicSiteAssumption DEF NoCard, Cards, OrNone

LEMMA ArriveDoorType ==
  ASSUME NEW r, NEW s, NEW heard, Arrive(r, s, heard), DoorOK
  PROVE  /\ card' \in Cards /\ card'.own = 0 /\ script' \in Scripts
         /\ route' \notin Doors => card' = NoCard
         /\ SignedIn(s) => card' = NoCard
<1>1. CASE card' = NoCard /\ UNCHANGED script
  BY <1>1, NoCardIsACard DEF DoorOK, Scripts
<1>2. CASE route' \in Doors /\ CardFor(s, heard) /\ s # None
  <2>1. card'.own = 0 /\ card' \in Cards
    BY <1>2, NoneUnderWay, PublicSiteAssumption DEF CardFor, NoCard, Cards, OrNone, Errors
  <2>2. script' \in Scripts
    BY <1>2 DEF CardFor, DoorOK, Scripts
  <2>3. ~SignedIn(s)
    BY <1>2 DEF Arrive, Doors
  <2>. QED  BY <1>2, <2>1, <2>2, <2>3
<1>. QED  BY <1>1, <1>2 DEF Arrive, CardFor

(* Another session frees no sign-in, and leaves no card to whoever is      *)
(* signed in.                                                              *)
LEMMA BecomesDoorType ==
  ASSUME NEW s, NEW heard \in BOOLEAN, Becomes(s, heard), DoorOK
  PROVE  /\ card' \in Cards /\ script' \in Scripts
         /\ card'.own <= signing /\ (SignedIn(s) => card'.own = 0)
         /\ route' \notin Doors => card' = NoCard
<1>. card \in Cards /\ script \in Scripts /\ signing \in 0..Overlap /\ card.own <= signing
  BY DEF DoorOK, Cards, Scripts
<1>1. CASE route \notin Doors
  <2>1. card' = NoCard /\ UNCHANGED <<route, script>>
    BY <1>1 DEF Becomes, DoorOK
  <2>. QED  BY <2>1, NoCardIsACard, PublicSiteAssumption
<1>2. CASE route \in Doors /\ card.shown /\ ~SignedIn(s)
  <2>1. CardAgain(s, heard)
    BY <1>2 DEF Becomes
  <2>2. card'.own = card.own /\ card' \in Cards
    BY <2>1 DEF CardAgain, Cards, OrNone, Errors
  <2>3. UNCHANGED <<route, script>>
    BY <2>1 DEF CardAgain
  <2>. QED  BY <1>2, <2>2, <2>3
<1>3. CASE route \in Doors /\ ~(card.shown /\ ~SignedIn(s))
  <2>1. Arrive(route, s, heard)
    BY <1>3 DEF Becomes
  <2>2. card' \in Cards /\ card'.own = 0 /\ script' \in Scripts
        /\ (route' \notin Doors => card' = NoCard)
    BY <2>1, ArriveDoorType
  <2>. QED  BY <2>2, PublicSiteAssumption
<1>. QED  BY <1>1, <1>2, <1>3

(* The card, its script and the sign-ins keep their types: the card's own  *)
(* are among those under way, and without its page there is none.          *)
LEMMA DoorStep == DoorOK /\ Header /\ [Next]_vars => DoorOK'
<1>. SUFFICES ASSUME DoorOK, Header, [Next]_vars PROVE DoorOK'
  OBVIOUS
<1>0. /\ card \in Cards /\ card.own \in 0..Overlap /\ script \in Scripts
      /\ signing \in 0..Overlap /\ card.own <= signing /\ Overlap \in Nat
      /\ route \notin Doors => card = NoCard
      /\ reachable \in BOOLEAN
  BY PublicSiteAssumption DEF DoorOK, Cards, Scripts, Header, WhoOK
<1>d. ASSUME card' \in Cards, script' \in Scripts, signing' \in 0..Overlap,
             card'.own <= signing', route' \notin Doors => card' = NoCard
      PROVE  DoorOK'
  BY <1>d DEF DoorOK, Cards, Scripts
<1>b. ASSUME NEW s, NEW heard \in BOOLEAN, Becomes(s, heard), signing' = signing
      PROVE  DoorOK'
  BY <1>0, <1>b, <1>d, BecomesDoorType
<1>1. ASSUME NEW r \in Pages, Go(r) PROVE DoorOK'
  BY <1>0, <1>1, <1>d, ArriveDoorType DEF Go
<1>2. CASE SessionArrives
  BY <1>2, <1>b DEF SessionArrives
<1>3. CASE SessionFails
  BY <1>3, <1>b DEF SessionFails
<1>4. CASE SignInAnswers
  <2>1. SignedIn([client |-> FALSE, authenticated |-> TRUE])
    <3>1. [client |-> FALSE, authenticated |-> TRUE] \in [client: BOOLEAN, authenticated: BOOLEAN]
      OBVIOUS
    <3>. QED  BY <3>1, PublicSiteAssumption DEF SignedIn
  <2>2. /\ card' \in Cards /\ script' \in Scripts /\ card'.own = 0
        /\ route' \notin Doors => card' = NoCard
    BY <1>0, <1>4, <2>1, BecomesDoorType DEF SignInAnswers
  <2>3. signing' \in 0..Overlap
    BY <1>0, <1>4 DEF SignInAnswers
  <2>. QED  BY <1>d, <2>2, <2>3
<1>5. ASSUME NEW heard \in BOOLEAN, SignOutEnds(heard) PROVE DoorOK'
  BY <1>0, <1>5, <1>b DEF SignOutEnds
<1>6. CASE Reload
  <2>1. card' = NoCard /\ script' \in Scripts /\ signing' = 0
    BY <1>6 DEF Reload, Scripts
  <2>. QED  BY <1>0, <1>d, <2>1, NoCardIsACard
<1>7. CASE ScriptLoads \/ ScriptFails
  <2>1. card' \in Cards /\ card'.own = card.own
    BY <1>0, <1>7 DEF ScriptLoads, ScriptFails, Cards, OrNone, Errors
  <2>2. script' \in Scripts /\ UNCHANGED <<signing, route>>
    BY <1>7 DEF ScriptLoads, ScriptFails, Scripts
  <2>3. card = NoCard => card' = NoCard
    BY <1>7 DEF ScriptLoads, ScriptFails, NoCard
  <2>. QED  BY <1>0, <1>d, <2>1, <2>2, <2>3
<1>8. CASE StartSignIn
  <2>1. card.button /\ signing < Overlap /\ signing' = signing + 1
        /\ card' = [card EXCEPT !.busy = TRUE, !.error = None, !.own = @ + 1]
        /\ UNCHANGED <<route, script>>
    BY <1>8 DEF StartSignIn
  <2>2. card.own + 1 \in 0..Overlap /\ signing' \in 0..Overlap
    BY <1>0, <2>1
  <2>3. card' \in Cards /\ card'.own = card.own + 1
    BY <1>0, <2>1, <2>2 DEF Cards, OrNone
  <2>4. card # NoCard
    BY <2>1 DEF NoCard
  <2>. QED  BY <1>0, <1>d, <2>1, <2>2, <2>3, <2>4
<1>9. ASSUME NEW b, NEW here \in BOOLEAN, SignInFails(b, here) PROVE DoorOK'
  <2>1. signing > 0 /\ signing' = signing - 1 /\ signing' \in 0..Overlap
        /\ UNCHANGED <<route, script>>
    BY <1>0, <1>9 DEF SignInFails
  <2>2. CASE here
    <3>1. card.own > 0 /\ card' = [card EXCEPT !.busy = FALSE, !.own = @ - 1,
                                              !.error = IF b THEN @ ELSE "failed"]
      BY <1>9, <2>2 DEF SignInFails
    <3>2. card.own - 1 \in 0..Overlap
      BY <1>0, <3>1
    <3>3. card' \in Cards /\ card'.own = card.own - 1
      BY <1>0, <3>1, <3>2 DEF Cards, OrNone, Errors
    <3>4. card # NoCard
      BY <3>1, NoCardIsACard
    <3>. QED  BY <1>0, <1>d, <2>1, <3>3, <3>4
  <2>3. CASE ~here
    <3>1. card.own < signing /\ card' = card
      BY <1>9, <2>3 DEF SignInFails
    <3>. QED  BY <1>0, <1>d, <2>1, <3>1
  <2>. QED  BY <2>2, <2>3
<1>10. CASE UNCHANGED <<door, route>>
  BY <1>10 DEF door, DoorOK
<1>11. ASSUME Next
       PROVE  \/ UNCHANGED <<door, route>> \/ SessionArrives \/ SessionFails \/ SignInAnswers
              \/ Reload \/ ScriptLoads \/ ScriptFails \/ StartSignIn
              \/ \E b \in BOOLEAN : SignOutEnds(b)
              \/ \E b, here \in BOOLEAN : SignInFails(b, here)
              \/ \E r \in Pages : Go(r)
  BY <1>11 DEF Next, StartSignOut, ChangesElsewhere, OptionsArrive,
     PickNetwork, PickProvince, ProvinceArrives, ProvinceFails, MovesTo, Debounced, TilesCome,
     TilesFail, TimePasses, Elsewhere
<1>. QED
  BY <1>1, <1>2, <1>3, <1>4, <1>5, <1>6, <1>7, <1>8, <1>9, <1>10, <1>11 DEF vars, door

(* A page loaded for the first time. *)
LEMMA SiteInit == Init => TypeOK /\ Header
<1>. SUFFICES ASSUME Init PROVE TypeOK /\ Header
  OBVIOUS
<1>1. Header
  BY NoneUnderWay DEF Init, Header, WhoOK, SomebodyIsLeaving,
     NobodyIsShownWithoutASession, SignedIn, OrNone
<1>2. DoorOK
  BY NoCardIsACard, PublicSiteAssumption DEF Init, DoorOK, Cards
<1>3. /\ Key(Home, None) \in Keys /\ Home \in Views
      /\ [view |-> Home, op |-> None] \in Timers
  BY KeyType, PublicTilesAssumption DEF OrNone, Timers
<1>4. error \in BOOLEAN
  BY DEF Init
<1>5. cache \in Seq(Keys) /\ Len(cache) <= CacheSize
  BY PublicTilesAssumption DEF Init
<1>6. TilesTypeOK
  <2>1. operator = None /\ tiles = None
    BY DEF Init
  <2>2. CASE route \in MapPages
    BY <1>3, <1>4, <1>5, <2>1, <2>2 DEF Init, TilesTypeOK, OrNone
  <2>3. CASE route \notin MapPages
    BY <1>4, <1>5, <2>1, <2>3 DEF Init, TilesTypeOK, OrNone
  <2>. QED  BY <2>2, <2>3
<1>7. PageOK
  BY <1>3, PublicTilesAssumption DEF Init, PageOK, OrNone
<1>. QED  BY <1>1, <1>2, <1>6, <1>7 DEF TypeOK, Header

(* Wherever a visitor goes and whatever is answered late, fails or is      *)
(* reloaded: the values have their types and the cache its size, a         *)
(* remembered key has its request, whoever is signed in has left the       *)
(* sign-in page, and the header shows nobody whose session has ended,      *)
(* unless it ended elsewhere: at its expiry or in another tab.             *)
THEOREM SiteIsSound == Spec => []SiteInv
<1>1. TypeOK /\ Header /\ [Next]_vars => TypeOK' /\ Header'
  BY PagesStep, HeaderStep, DoorStep DEF TypeOK, Header
<1>2. Spec => [](TypeOK /\ Header)
  BY SiteInit, <1>1, PTL DEF Spec
<1>3. TypeOK /\ Header /\ PendingIsUnderWay /\ SignedInLeavesTheDoor => SiteInv
  BY DEF SiteInv, Header
<1>. QED  BY <1>2, <1>3, PendingNamesTheRequest, TheDoorIsLeft, PTL

(* A viewport that is not put behind the debounce is covered by the answer *)
(* shown for it: the first answer kept that holds all of it.               *)
THEOREM CoveredAtOnce == Spec => HitsCover
<1>. DEFINE Hit == lastBounds' \notin {None, lastBounds} /\ timer' = None
                     => tiles' # None /\ Contains(tiles'.box, lastBounds')
<1>1. TypeOK /\ [Next]_vars => [Hit]_vars
  <2>. SUFFICES ASSUME TypeOK, Next PROVE Hit
    OBVIOUS
  <2>p. ASSUME NEW v \in Views, Pan(v) PROVE Hit
    <3>1. cache \in Seq(Keys) /\ operator \in OrNone(Networks)
      BY DEF TypeOK, TilesTypeOK
    <3>2. CASE Covering(v, cache) # {}
      <4>1. Held(v, cache) \in Keys /\ Contains(Held(v, cache).box, v)
        BY <3>1, <3>2, HeldCovers
      <4>2. tiles' = Held(v, cache) /\ lastBounds' = v
        BY <2>p, <4>1, PublicTilesAssumption DEF Pan
      <4>. QED  BY <4>1, <4>2, PublicTilesAssumption
    <3>3. CASE Covering(v, cache) = {}
      <4>1. timer' = [view |-> v, op |-> operator]
        BY <2>p, <3>3 DEF Pan, Held
      <4>2. timer' \in Timers
        BY <3>1, <4>1 DEF Timers
      <4>. QED  BY <4>2, PublicTilesAssumption
    <3>. QED  BY <3>2, <3>3
  <2>f. FreshTiles => timer' # None
    <3>1. [view |-> Home, op |-> None] \in Timers
      BY PublicTilesAssumption DEF Timers, OrNone
    <3>. QED  BY <3>1, PublicTilesAssumption DEF FreshTiles
  <2>n. NoTiles => lastBounds' = None
    BY DEF NoTiles
  <2>q. CASE lastBounds' = lastBounds \/ FreshTiles \/ NoTiles
    BY <2>q, <2>f, <2>n
  <2>a. ASSUME NEW r, NEW s, NEW heard, Arrive(r, s, heard) PROVE FreshTiles \/ NoTiles
    BY <2>a DEF Arrive
  <2>b. ASSUME NEW s, NEW heard, Becomes(s, heard)
        PROVE  lastBounds' = lastBounds \/ FreshTiles \/ NoTiles
    BY <2>a, <2>b DEF Becomes, CardAgain, tileVars
  <2>1. ASSUME NEW r \in Pages, Go(r) PROVE FreshTiles \/ NoTiles
    BY <2>1, <2>a DEF Go
  <2>2. ASSUME SessionArrives \/ SessionFails \/ SignInAnswers
               \/ \E b \in BOOLEAN : SignOutEnds(b)
        PROVE  lastBounds' = lastBounds \/ FreshTiles \/ NoTiles
    BY <2>2, <2>b DEF SessionArrives, SessionFails, SignInAnswers, SignOutEnds
  <2>3. CASE ProvinceArrives
    BY <2>3, <2>p, PublicSiteAssumption DEF ProvinceArrives, TypeOK, PageOK, OrNone
  <2>4. ASSUME NEW v \in Views, MovesTo(v) PROVE Hit
    BY <2>4, <2>p DEF MovesTo
  <2>5. \/ lastBounds' = lastBounds \/ FreshTiles \/ NoTiles
        \/ ProvinceArrives \/ \E r \in Pages : Go(r)
        \/ SessionArrives \/ SessionFails \/ SignInAnswers
        \/ \E b \in BOOLEAN : SignOutEnds(b)
        \/ \E v \in Views : MovesTo(v)
    BY DEF Next, Reload, ScriptLoads, ScriptFails, StartSignIn, StartSignOut, SignInFails,
       ChangesElsewhere, OptionsArrive, PickNetwork, ChooseNetwork, PickProvince, ProvinceFails, Debounced,
       TimerFires, TilesCome, Answered, TilesFail, Fails, TimePasses, Expire, tileVars
  <2>. HIDE DEF Hit
  <2>. QED  BY <2>q, <2>1, <2>2, <2>3, <2>4, <2>5
<1>2. TypeOK /\ Header /\ [Next]_vars => TypeOK' /\ Header'
  BY PagesStep, HeaderStep, DoorStep DEF TypeOK, Header
<1>. QED  BY <1>1, <1>2, SiteInit, PTL DEF Spec, HitsCover
=============================================================================
