---------------------------- MODULE PagesProofs ----------------------------
(***************************************************************************)
(* Theorems about Pages and its parts, for any servers, registrations,     *)
(* executors, cells, passes, regions, amounts, texts, readings, phones and *)
(* uploads: what the phone claims and its server knows, what a day of      *)
(* speed tests is charged, whose cells the table holds, how figures are    *)
(* printed, whose answers a page shows, what of the note is on the page,   *)
(* and what the pages say of the readings, the fleet and the upload.  Each *)
(* part has an inductive invariant of its own, since the parts share no    *)
(* state; the last section brings them together.  What a loop or a sum     *)
(* computes is shown turn by turn, or one element at a time: the set of    *)
(* the turns after which a fact holds begins at the start and is closed    *)
(* under one turn more, so it is all of them (TurnByTurn, OneByOne).       *)
(***************************************************************************)
EXTENDS Pages, FiniteSetTheorems, WellFoundedInduction, TLAPS

-----------------------------------------------------------------------------
(* Least and greatest, and loops.                                          *)

\* Of some naturals one is the least.
LEMMA LeastOf ==
  ASSUME NEW T, T \subseteq Nat, T # {}
  PROVE  Min(T) \in T /\ \A t \in T : Min(T) <= t
<1>1. \E x \in T : \A y \in T : ~(<<y, x>> \in OpToRel(<, Nat))
  BY WFMin, NatLessThanWellFounded
<1>2. PICK x \in T : \A y \in T : ~(<<y, x>> \in OpToRel(<, Nat))
  BY <1>1
<1>3. ASSUME NEW y \in T PROVE x <= y
  <2>1. ~(y < x)
    BY <1>2 DEF OpToRel
  <2> QED
    BY <2>1
<1> QED
  BY <1>3 DEF Min

\* Of some naturals up to a bound one is the greatest.
LEMMA GreatestOf ==
  ASSUME NEW T, T \subseteq Nat, T # {}, NEW top \in Nat, \A t \in T : t <= top
  PROVE  Max(T) \in T /\ \A t \in T : t <= Max(T)
<1> DEFINE below == {top - t : t \in T}
<1>1. below \subseteq Nat
  OBVIOUS
<1>2. below # {}
  OBVIOUS
<1>. HIDE DEF below
<1>5. PICK b \in below : \A c \in below : b <= c
  BY <1>1, <1>2, LeastOf
<1>. USE DEF below
<1>3. PICK x \in T : b = top - x
  BY <1>5
<1>4. \A t \in T : t <= x
  <2> SUFFICES ASSUME NEW t \in T PROVE t <= x
    OBVIOUS
  <2>1. b <= top - t
    BY <1>5
  <2> QED
    BY <1>3, <2>1
<1> QED
  BY <1>3, <1>4 DEF Max

\* What holds at the start and after each of N turns holds after all of them.
LEMMA TurnByTurn ==
  ASSUME NEW T, NEW N \in Nat, 0 \in T, \A n \in 0 .. N - 1 : n \in T => n + 1 \in T
  PROVE  \A n \in 0 .. N : n \in T
<1> DEFINE off == {n \in 0 .. N : n \notin T}
<1> SUFFICES ASSUME off # {} PROVE FALSE
  OBVIOUS
<1>. HIDE DEF off
<1>3. off \subseteq Nat
  BY DEF off
<1>1. PICK n \in off : \A m \in off : n <= m
  BY <1>3, LeastOf
<1>. USE DEF off
<1>2. n # 0 /\ n - 1 \in 0 .. N - 1 /\ n - 1 \notin off
  BY <1>1
<1> QED
  BY <1>2

\* What a loop's variables hold after each of N turns, when step says where a turn
\* leads: there is such a course.
Courses(N, V, start, step) ==
  {f \in [0 .. N -> V] :
     f[0] = start /\ \A n \in 1 .. N : f[n] = step[f[n - 1]]}

LEMMA ACourse ==
  ASSUME NEW N \in Nat, NEW V, NEW start \in V, NEW step \in [V -> V]
  PROVE  Courses(N, V, start, step) # {}
<1> DEFINE UpTo(m) == {g \in [0 .. N -> V] :
                         g[0] = start /\ \A n \in 1 .. N : n <= m => g[n] = step[g[n - 1]]}
           T == {m \in 0 .. N : UpTo(m) # {}}
<1>1. 0 \in T
  <2> DEFINE g == [n \in 0 .. N |-> start]
  <2>1. g \in UpTo(0)
    OBVIOUS
  <2> QED
    BY <2>1
<1>2. ASSUME NEW m \in 0 .. N - 1, m \in T PROVE m + 1 \in T
  <2>1. PICK g \in UpTo(m) : TRUE
    BY <1>2
  <2> DEFINE h == [g EXCEPT ![m + 1] = step[g[m]]]
  <2>2. h \in [0 .. N -> V] /\ h[0] = start
    BY <2>1
  <2>3. ASSUME NEW n \in 1 .. N, n <= m + 1
        PROVE  h[n] = step[h[n - 1]]
    <3>1. CASE n <= m
      <4>1. n - 1 \in 0 .. N /\ n - 1 # m + 1 /\ n # m + 1
        BY <3>1
      <4>2. h[n - 1] = g[n - 1] /\ h[n] = g[n]
        BY <2>1, <4>1
      <4> QED
        BY <2>1, <3>1, <4>2
    <3>2. CASE n = m + 1
      <4>1. n - 1 = m /\ m # m + 1
        BY <3>2
      <4>2. h[n - 1] = g[m] /\ h[n] = step[g[m]]
        BY <2>1, <3>2, <4>1
      <4> QED
        BY <4>2
    <3> QED
      BY <2>3, <3>1, <3>2
  <2>4. h \in UpTo(m + 1) /\ m + 1 \in 0 .. N
    BY <2>2, <2>3
  <2> QED
    BY <2>4
<1> HIDE DEF T
<1>3. N \in T
  BY <1>1, <1>2, TurnByTurn
<1>4. PICK g \in UpTo(N) : TRUE
  BY <1>3 DEF T
<1>5. g \in Courses(N, V, start, step)
  BY <1>4 DEF Courses
<1> QED
  BY <1>5

-----------------------------------------------------------------------------
(* The registration of the phone.                                          *)

\* What was posted was posted to a server.
AtServer == {"sent", "new", "ok", "conflict", "failed"}
Posted(ask) == ask.step \in AtServer => ask.to \in Servers

OneKeyEach == \A d, e \in registry : d.at = e.at /\ d.id = e.id => d = e

\* The type invariant made inductive.
Typed ==
    /\ EnrolmentTypeOK
    /\ \A a \in Asks : Posted(asks[a])
    /\ OneKeyEach

LEMMA NoAskType == NoAsk \in AskRecords /\ Posted(NoAsk)
BY DEF NoAsk, AskRecords, Steps, Posted, AtServer

LEMMA InitTyped == EnrolmentInit => Typed
<1> SUFFICES ASSUME EnrolmentInit PROVE Typed
  OBVIOUS
<1>1. asks \in [Asks -> AskRecords] /\ \A a \in Asks : Posted(asks[a])
  BY NoAskType DEF EnrolmentInit
<1>2. phone \in Phones
  BY EnrolmentAssumption DEF EnrolmentInit, Phones
<1> QED
  BY <1>1, <1>2 DEF EnrolmentInit, Typed, EnrolmentTypeOK, OneKeyEach

\* One registration goes on and the others stay where they are.
LEMMA OneGoesOn ==
    ASSUME Typed, NEW a \in Asks, NEW ask \in AskRecords, Posted(ask),
           asks' = [asks EXCEPT ![a] = ask]
    PROVE  /\ asks' \in [Asks -> AskRecords]
           /\ \A b \in Asks : Posted(asks'[b])
BY DEF Typed, EnrolmentTypeOK

LEMMA AskTyped ==
    ASSUME Typed, NEW a \in Asks, AskStep(a)
    PROVE  Typed'
<1>0. asks[a] \in AskRecords /\ Posted(asks[a]) /\ phone \in Phones
  BY DEF Typed, EnrolmentTypeOK
<1>1. ASSUME NEW kind \in {"start", "check"}, Register(a, kind) PROVE Typed'
  <2>1. [NoAsk EXCEPT !.step = "key", !.kind = kind, !.heard = TRUE] \in AskRecords
    BY NoAskType DEF AskRecords, Steps
  <2>2. Posted([NoAsk EXCEPT !.step = "key", !.kind = kind, !.heard = TRUE])
    BY DEF Posted, AtServer, NoAsk
  <2> QED
    BY <1>1, <2>1, <2>2, OneGoesOn DEF Register, Typed, EnrolmentTypeOK, OneKeyEach
<1>2. CASE FindKey(a)
  BY <1>0, <1>2, NoAskType, OneGoesOn
     DEF FindKey, Typed, EnrolmentTypeOK, OneKeyEach, AskRecords, Phones, Steps, Posted,
         AtServer
<1>3. CASE MakeKey(a)
  BY <1>0, <1>3, NoAskType, OneGoesOn
     DEF MakeKey, Typed, EnrolmentTypeOK, OneKeyEach, AskRecords, Phones, Steps, Posted,
         AtServer
<1>4. CASE FindId(a)
  BY <1>0, <1>4, NoAskType, OneGoesOn
     DEF FindId, Typed, EnrolmentTypeOK, OneKeyEach, AskRecords, Phones, Steps, Posted,
         AtServer
<1>5. CASE MakeId(a)
  BY <1>0, <1>5, NoAskType, OneGoesOn, SMTT(30)
     DEF MakeId, Typed, EnrolmentTypeOK, OneKeyEach, AskRecords, Phones, Steps, Posted,
         AtServer
<1>6. CASE ReadAddress(a)
  BY <1>0, <1>6, NoAskType, OneGoesOn
     DEF ReadAddress, Typed, EnrolmentTypeOK, OneKeyEach, AskRecords, Phones, Steps, Posted,
         AtServer
<1>7. CASE Post(a)
  BY <1>0, <1>7, NoAskType, OneGoesOn
     DEF Post, Typed, EnrolmentTypeOK, OneKeyEach, AskRecords, Phones, Steps, Posted,
         AtServer
<1>8. CASE Unhealthy(a)
  BY <1>0, <1>8, NoAskType, OneGoesOn
     DEF Unhealthy, Typed, EnrolmentTypeOK, OneKeyEach, AskRecords, Phones, Steps, Posted,
         AtServer
<1>9. CASE Hear(a)
  BY <1>0, <1>9, NoAskType, OneGoesOn, ZenonT(40)
     DEF Hear, Typed, EnrolmentTypeOK, OneKeyEach, AskRecords, Phones, Steps, Posted,
         AtServer
<1>10. CASE Look(a)
  BY <1>0, <1>10, NoAskType, OneGoesOn
     DEF Look, Typed, EnrolmentTypeOK, OneKeyEach, AskRecords, Phones, Steps, Posted,
         AtServer
<1>11. CASE Insert(a)
  <2>1. [asks[a] EXCEPT !.step = IF Taken(asks[a]) THEN "failed" ELSE "ok"] \in AskRecords
    BY <1>0 DEF AskRecords, Steps
  <2>2. Posted([asks[a] EXCEPT !.step = IF Taken(asks[a]) THEN "failed" ELSE "ok"])
    BY <1>0, <1>11 DEF Posted, AtServer, Insert, AskRecords
  <2>3. asks' = [asks EXCEPT ![a] =
                    [asks[a] EXCEPT !.step = IF Taken(asks[a]) THEN "failed" ELSE "ok"]]
    BY <1>11 DEF Insert, Typed, EnrolmentTypeOK
  <2>4. /\ asks' \in [Asks -> AskRecords]
        /\ \A b \in Asks : Posted(asks'[b])
    BY <2>1, <2>2, <2>3, OneGoesOn
  <2>5. Sought(asks[a]) \in [at: Servers, id: Nat, key: Nat]
    BY <1>0, <1>11 DEF Insert, Posted, AtServer, AskRecords, Sought, Device
  <2>6. OneKeyEach'
    BY <1>11 DEF Insert, Typed, EnrolmentTypeOK, OneKeyEach, Taken, Sought, Device
  <2> QED
    BY <1>11, <2>4, <2>5, <2>6 DEF Insert, Typed, EnrolmentTypeOK
<1>12. CASE Lose(a)
  BY <1>0, <1>12, NoAskType, OneGoesOn
     DEF Lose, Typed, EnrolmentTypeOK, OneKeyEach, AskRecords, Phones, Steps, Posted,
         AtServer
<1>13. CASE GiveUp(a)
  BY <1>0, <1>13, NoAskType, OneGoesOn, ZenonT(40)
     DEF GiveUp, Typed, EnrolmentTypeOK, OneKeyEach, AskRecords, Phones, Steps, Posted,
         AtServer
<1> QED
  BY <1>1, <1>2, <1>3, <1>4, <1>5, <1>6, <1>7, <1>8, <1>9, <1>10, <1>11, <1>12, <1>13 DEF AskStep

LEMMA PhoneTyped ==
    ASSUME Typed, PhoneStep
    PROVE  Typed'
<1>0. phone \in Phones /\ asks \in [Asks -> AskRecords]
  BY DEF Typed, EnrolmentTypeOK
<1>1. CASE Recreate
  BY <1>0, <1>1, NoAskType
     DEF Recreate, Typed, EnrolmentTypeOK, OneKeyEach, AskRecords, Phones, Posted, AtServer
<1>2. CASE PressStart
  BY <1>0, <1>2, NoAskType
     DEF PressStart, Typed, EnrolmentTypeOK, OneKeyEach, AskRecords, Phones, Posted, AtServer
<1>3. CASE Resume
  BY <1>0, <1>3, NoAskType
     DEF Resume, Typed, EnrolmentTypeOK, OneKeyEach, AskRecords, Phones, Posted, AtServer
<1>4. CASE StartCollecting
  BY <1>0, <1>4, NoAskType
     DEF StartCollecting, Typed, EnrolmentTypeOK, OneKeyEach, AskRecords, Phones, Posted, AtServer
<1>5. CASE StopCollecting
  BY <1>0, <1>5, NoAskType
     DEF StopCollecting, Typed, EnrolmentTypeOK, OneKeyEach, AskRecords, Phones, Posted, AtServer
<1>6. CASE Die
  <2>1. \A a \in Asks : asks'[a] \in {[asks[a] EXCEPT !.heard = FALSE], NoAsk}
    BY <1>6 DEF Die
  <2>2. \A a \in Asks : [asks[a] EXCEPT !.heard = FALSE] \in AskRecords
                       /\ Posted([asks[a] EXCEPT !.heard = FALSE])
    BY <1>0 DEF Typed, AskRecords, Posted, AtServer
  <2>3. /\ asks' \in [Asks -> AskRecords]
        /\ \A a \in Asks : Posted(asks'[a])
    BY <2>1, <2>2, <1>6, NoAskType DEF Die
  <2> QED
    BY <1>0, <1>6, <2>3 DEF Die, Typed, EnrolmentTypeOK, OneKeyEach, Phones
<1>7. ASSUME NEW s \in Servers, SaveServer(s) PROVE Typed'
  BY <1>0, <1>7 DEF SaveServer, Overtaken, Typed, EnrolmentTypeOK, OneKeyEach, Phones, Posted
<1>8. CASE ResetServer
  BY <1>0, <1>8, EnrolmentAssumption
     DEF ResetServer, Overtaken, Typed, EnrolmentTypeOK, OneKeyEach, Phones, Posted
<1> QED
  BY <1>1, <1>2, <1>3, <1>4, <1>5, <1>6, <1>7, <1>8 DEF PhoneStep

LEMMA TypedStep == Typed /\ [EnrolmentNext]_enrolment => Typed'
<1> SUFFICES ASSUME Typed, [EnrolmentNext]_enrolment PROVE Typed'
  OBVIOUS
<1>1. CASE EnrolmentNext
  BY <1>1, AskTyped, PhoneTyped DEF EnrolmentNext
<1>2. CASE UNCHANGED enrolment
  BY <1>2 DEF enrolment, Typed, EnrolmentTypeOK, OneKeyEach, Posted
<1> QED
  BY <1>1, <1>2

\* The type invariant, for any servers and any number of registrations: what is
\* at a server is addressed to it, and no server knows two keys of one phone.
THEOREM TypeCorrect == EnrolmentSpec => []Typed
BY InitTyped, TypedStep, PTL DEF EnrolmentSpec

-----------------------------------------------------------------------------
(* What holds until a registration is overtaken.                           *)

\* A registration carries the phone's one id and key, and is addressed to its
\* server if it will be heard; what it was told is so.
Fits(ask) ==
    /\ ask.step = "idle" => ask.id = 0
    /\ ask.step = "make" => phone.key = 0
    /\ ask.step = "name" => phone.id = 0
    /\ ask.id # 0 => ask.id = phone.id
    /\ ask.step \in {"ready", "name"} \cup AtServer => phone.key # 0
    /\ ask.step \in AtServer => ask.id # 0 /\ ask.key = phone.key
    /\ ask.heard /\ ask.to # Unset => ask.to = phone.address
    /\ ask.step = "ok" => Sought(ask) \in registry
    /\ ask.step # "conflict"

\* Only one registration can be making the key or the id.
FirstIsAlone ==
    phone.key = 0 \/ phone.id = 0 =>
        \A a, b \in Asks : asks[a].step # "idle" /\ asks[b].step # "idle" => a = b

OnlyThisPhone ==
    \A d \in registry : d.id = phone.id /\ d.key = phone.key /\ d.id # 0 /\ d.key # 0

Straight ==
    /\ \A a \in Asks : Fits(asks[a])
    /\ FirstIsAlone
    /\ OnlyThisPhone
    /\ phone.enrolled \/ phone.asked \/ phone.running => Known

IInv == Typed /\ (~crossed => Straight)

LEMMA InitIInv == EnrolmentInit => IInv
<1> SUFFICES ASSUME EnrolmentInit PROVE IInv
  OBVIOUS
<1>1. Fits(NoAsk)
  BY DEF Fits, NoAsk, AtServer
<1>2. \A a \in Asks : asks[a] = NoAsk
  BY DEF EnrolmentInit
<1>3. FirstIsAlone
  BY <1>2 DEF FirstIsAlone, NoAsk
<1> QED
  BY <1>1, <1>2, <1>3, InitTyped DEF IInv, Straight, EnrolmentInit, OnlyThisPhone

LEMMA AskStraight ==
    ASSUME Typed, Straight, NEW a \in Asks, AskStep(a), ~crossed'
    PROVE  Straight'
<1>0. /\ phone \in Phones /\ asks \in [Asks -> AskRecords]
      /\ made \in [key: Nat, id: Nat] /\ Posted(asks[a])
      /\ registry \subseteq [at: Servers, id: Nat, key: Nat]
  BY DEF Typed, EnrolmentTypeOK
<1> USE <1>0 DEF AtServer
<1>a. /\ \A b \in Asks : Fits(asks[b])
      /\ FirstIsAlone /\ OnlyThisPhone
      /\ phone.enrolled \/ phone.asked \/ phone.running => Known
  BY DEF Straight
<1>1. ASSUME NEW kind \in {"start", "check"}, Register(a, kind) PROVE Straight'
  <2>1. \A b \in Asks : Fits(asks[b])'
    BY <1>a, <1>1
       DEF Register, Fits, Sought, Device, NoAsk, AskRecords, Phones, FirstIsAlone,
           OnlyThisPhone, Taken, Typed, OneKeyEach, Posted
  <2>2. FirstIsAlone'
    BY <1>a, <1>1 DEF Register, FirstIsAlone, NoAsk, AskRecords, Phones, Fits
  <2>3. OnlyThisPhone' /\ (phone.enrolled \/ phone.asked \/ phone.running => Known)'
    BY <1>a, <1>1 DEF Register, OnlyThisPhone, Known
  <2> QED
    BY <2>1, <2>2, <2>3 DEF Straight
<1>2. CASE FindKey(a)
  <2>1. \A b \in Asks : Fits(asks[b])'
    BY <1>a, <1>2
       DEF FindKey, Fits, Sought, Device, NoAsk, AskRecords, Phones, FirstIsAlone,
           OnlyThisPhone, Taken, Typed, OneKeyEach, Posted
  <2>2. FirstIsAlone'
    BY <1>a, <1>2 DEF FindKey, FirstIsAlone, NoAsk, AskRecords, Phones, Fits
  <2>3. OnlyThisPhone' /\ (phone.enrolled \/ phone.asked \/ phone.running => Known)'
    BY <1>a, <1>2 DEF FindKey, OnlyThisPhone, Known
  <2> QED
    BY <2>1, <2>2, <2>3 DEF Straight
<1>3. CASE MakeKey(a)
  <2>a. \A b \in Asks : asks'[b] =
            IF b = a THEN [asks[a] EXCEPT !.step = "ready"]
            ELSE asks[b]
    BY <1>3 DEF MakeKey
  <2>e. \A b \in Asks : b # a => asks[b].step = "idle"
    BY <1>a, <1>3 DEF MakeKey, FirstIsAlone, Fits
  <2>f. \A b \in Asks : b # a => asks[b].id = 0
    BY <1>a, <2>e DEF Fits
  <2>b. asks[a].step # "ok" /\ asks[a].step \notin AtServer /\ asks[a] \in AskRecords
    BY <1>3 DEF MakeKey
  <2>c. Fits(asks[a])'
    BY <1>a, <1>3, <2>a, <2>b, <2>e, <2>f DEF MakeKey, Fits, AskRecords, Phones
  <2>d. \A b \in Asks : b # a => Fits(asks[b])'
    BY <1>a, <1>3, <2>a, <2>e, <2>f DEF MakeKey, Fits, AskRecords, Phones, Sought, Device
  <2>1. \A b \in Asks : Fits(asks[b])'
    BY <2>c, <2>d
  <2>2. FirstIsAlone'
    BY <1>a, <1>3 DEF MakeKey, FirstIsAlone, NoAsk, AskRecords, Phones, Fits
  <2>3. OnlyThisPhone'
    BY <1>a, <1>3 DEF MakeKey, FirstIsAlone, OnlyThisPhone, Fits, Sought, Device, AskRecords, Phones
  <2>4. (phone.enrolled \/ phone.asked \/ phone.running => Known)'
    BY <1>a, <1>3, EnrolmentAssumption
       DEF MakeKey, Posted, Known, Device, Fits, Sought, OnlyThisPhone, AskRecords, Phones
  <2> QED
    BY <2>1, <2>2, <2>3, <2>4 DEF Straight
<1>4. CASE FindId(a)
  <2>a. \A b \in Asks : asks'[b] =
            IF b = a THEN [asks[a] EXCEPT !.id = phone.id,
                                          !.step = IF phone.id = 0 THEN "name" ELSE @]
            ELSE asks[b]
    BY <1>4 DEF FindId
  <2>b. asks[a].step # "ok" /\ asks[a].step \notin AtServer /\ asks[a] \in AskRecords
    BY <1>4 DEF FindId
  <2>c. Fits(asks[a])'
    BY <1>a, <1>4, <2>a, <2>b DEF FindId, Fits, AskRecords, Phones
  <2>d. \A b \in Asks : b # a => Fits(asks[b])'
    BY <1>a, <1>4, <2>a DEF FindId, Fits, AskRecords, Phones, Sought, Device
  <2>1. \A b \in Asks : Fits(asks[b])'
    BY <2>c, <2>d
  <2>2. FirstIsAlone'
    BY <1>a, <1>4 DEF FindId, FirstIsAlone, NoAsk, AskRecords, Phones, Fits
  <2>3. OnlyThisPhone' /\ (phone.enrolled \/ phone.asked \/ phone.running => Known)'
    BY <1>a, <1>4 DEF FindId, OnlyThisPhone, Known
  <2> QED
    BY <2>1, <2>2, <2>3 DEF Straight
<1>5. CASE MakeId(a)
  <2>1. \A b \in Asks : Fits(asks[b])'
    BY <1>a, <1>5
       DEF MakeId, Fits, Sought, Device, NoAsk, AskRecords, Phones, FirstIsAlone,
           OnlyThisPhone, Taken, Typed, OneKeyEach, Posted
  <2>2. FirstIsAlone'
    BY <1>a, <1>5 DEF MakeId, FirstIsAlone, NoAsk, AskRecords, Phones, Fits
  <2>3. OnlyThisPhone'
    BY <1>a, <1>5 DEF MakeId, FirstIsAlone, OnlyThisPhone, Fits, Sought, Device, AskRecords, Phones
  <2>4. (phone.enrolled \/ phone.asked \/ phone.running => Known)'
    BY <1>a, <1>5, EnrolmentAssumption
       DEF MakeId, Posted, Known, Device, Fits, Sought, OnlyThisPhone, AskRecords, Phones
  <2> QED
    BY <2>1, <2>2, <2>3, <2>4 DEF Straight
<1>6. CASE ReadAddress(a)
  <2>a. \A b \in Asks : asks'[b] =
            IF b = a THEN [asks[a] EXCEPT !.to = phone.address]
            ELSE asks[b]
    BY <1>6 DEF ReadAddress
  <2>b. asks[a].step # "ok" /\ asks[a].step \notin AtServer /\ asks[a] \in AskRecords
    BY <1>6 DEF ReadAddress
  <2>c. Fits(asks[a])'
    BY <1>a, <1>6, <2>a, <2>b DEF ReadAddress, Fits, AskRecords, Phones
  <2>d. \A b \in Asks : b # a => Fits(asks[b])'
    BY <1>a, <1>6, <2>a DEF ReadAddress, Fits, AskRecords, Phones, Sought, Device
  <2>1. \A b \in Asks : Fits(asks[b])'
    BY <2>c, <2>d
  <2>2. FirstIsAlone'
    BY <1>a, <1>6 DEF ReadAddress, FirstIsAlone, NoAsk, AskRecords, Phones, Fits
  <2>3. OnlyThisPhone' /\ (phone.enrolled \/ phone.asked \/ phone.running => Known)'
    BY <1>a, <1>6 DEF ReadAddress, OnlyThisPhone, Known
  <2> QED
    BY <2>1, <2>2, <2>3 DEF Straight
<1>7. CASE Post(a)
  <2>1. \A b \in Asks : Fits(asks[b])'
    BY <1>a, <1>7
       DEF Post, Fits, Sought, Device, NoAsk, AskRecords, Phones, FirstIsAlone,
           OnlyThisPhone, Taken, Typed, OneKeyEach, Posted
  <2>2. FirstIsAlone'
    BY <1>a, <1>7 DEF Post, FirstIsAlone, NoAsk, AskRecords, Phones, Fits
  <2>3. OnlyThisPhone' /\ (phone.enrolled \/ phone.asked \/ phone.running => Known)'
    BY <1>a, <1>7 DEF Post, OnlyThisPhone, Known
  <2> QED
    BY <2>1, <2>2, <2>3 DEF Straight
<1>8. CASE Unhealthy(a)
  <2>1. \A b \in Asks : Fits(asks[b])'
    BY <1>a, <1>8
       DEF Unhealthy, Fits, Sought, Device, NoAsk, AskRecords, Phones, FirstIsAlone,
           OnlyThisPhone, Taken, Typed, OneKeyEach, Posted
  <2>2. FirstIsAlone'
    BY <1>a, <1>8 DEF Unhealthy, FirstIsAlone, NoAsk, AskRecords, Phones, Fits
  <2>3. OnlyThisPhone' /\ (phone.enrolled \/ phone.asked \/ phone.running => Known)'
    BY <1>a, <1>8 DEF Unhealthy, OnlyThisPhone, Known
  <2> QED
    BY <2>1, <2>2, <2>3 DEF Straight
<1>9. CASE Hear(a)
  <2>1. \A b \in Asks : Fits(asks[b])'
    BY <1>a, <1>9
       DEF Hear, Fits, Sought, Device, NoAsk, AskRecords, Phones, FirstIsAlone,
           OnlyThisPhone, Taken, Typed, OneKeyEach, Posted
  <2>2. FirstIsAlone'
    BY <1>a, <1>9 DEF Hear, FirstIsAlone, NoAsk, AskRecords, Phones, Fits
  <2>3. OnlyThisPhone'
    BY <1>a, <1>9 DEF Hear, FirstIsAlone, OnlyThisPhone, Fits, Sought, Device, AskRecords, Phones
  <2>4. (phone.enrolled \/ phone.asked \/ phone.running => Known)'
    BY <1>a, <1>9, EnrolmentAssumption
       DEF Hear, Posted, Known, Device, Fits, Sought, OnlyThisPhone, AskRecords, Phones
  <2> QED
    BY <2>1, <2>2, <2>3, <2>4 DEF Straight
<1>10. CASE Look(a)
  <2>1. \A b \in Asks : Fits(asks[b])'
    BY <1>a, <1>10
       DEF Look, Fits, Sought, Device, NoAsk, AskRecords, Phones, FirstIsAlone,
           OnlyThisPhone, Taken, Typed, OneKeyEach, Posted
  <2>2. FirstIsAlone'
    BY <1>a, <1>10 DEF Look, FirstIsAlone, NoAsk, AskRecords, Phones, Fits
  <2>3. OnlyThisPhone' /\ (phone.enrolled \/ phone.asked \/ phone.running => Known)'
    BY <1>a, <1>10 DEF Look, OnlyThisPhone, Known
  <2> QED
    BY <2>1, <2>2, <2>3 DEF Straight
<1>11. CASE Insert(a)
  <2>1. \A b \in Asks : Fits(asks[b])'
    BY <1>a, <1>11
       DEF Insert, Fits, Sought, Device, NoAsk, AskRecords, Phones, FirstIsAlone,
           OnlyThisPhone, Taken, Typed, OneKeyEach, Posted
  <2>2. FirstIsAlone'
    BY <1>a, <1>11 DEF Insert, FirstIsAlone, NoAsk, AskRecords, Phones, Fits
  <2>3. OnlyThisPhone'
    BY <1>a, <1>11 DEF Insert, FirstIsAlone, OnlyThisPhone, Fits, Sought, Device, AskRecords, Phones
  <2>4. (phone.enrolled \/ phone.asked \/ phone.running => Known)'
    BY <1>a, <1>11, EnrolmentAssumption
       DEF Insert, Posted, Known, Device, Fits, Sought, OnlyThisPhone, AskRecords, Phones
  <2> QED
    BY <2>1, <2>2, <2>3, <2>4 DEF Straight
<1>12. CASE Lose(a)
  <2>1. \A b \in Asks : Fits(asks[b])'
    BY <1>a, <1>12
       DEF Lose, Fits, Sought, Device, NoAsk, AskRecords, Phones, FirstIsAlone,
           OnlyThisPhone, Taken, Typed, OneKeyEach, Posted
  <2>2. FirstIsAlone'
    BY <1>a, <1>12 DEF Lose, FirstIsAlone, NoAsk, AskRecords, Phones, Fits
  <2>3. OnlyThisPhone' /\ (phone.enrolled \/ phone.asked \/ phone.running => Known)'
    BY <1>a, <1>12 DEF Lose, OnlyThisPhone, Known
  <2> QED
    BY <2>1, <2>2, <2>3 DEF Straight
<1>13. CASE GiveUp(a)
  <2>1. \A b \in Asks : Fits(asks[b])'
    BY <1>a, <1>13
       DEF GiveUp, Fits, Sought, Device, NoAsk, AskRecords, Phones, FirstIsAlone,
           OnlyThisPhone, Taken, Typed, OneKeyEach, Posted
  <2>2. FirstIsAlone'
    BY <1>a, <1>13 DEF GiveUp, FirstIsAlone, NoAsk, AskRecords, Phones, Fits
  <2>3. OnlyThisPhone' /\ (phone.enrolled \/ phone.asked \/ phone.running => Known)'
    BY <1>a, <1>13 DEF GiveUp, OnlyThisPhone, Known
  <2> QED
    BY <2>1, <2>2, <2>3 DEF Straight
<1> QED
  BY <1>1, <1>2, <1>3, <1>4, <1>5, <1>6, <1>7, <1>8, <1>9, <1>10, <1>11, <1>12, <1>13 DEF AskStep

LEMMA PhoneStraight ==
    ASSUME Typed, Straight, PhoneStep, ~crossed'
    PROVE  Straight'
<1>0. /\ phone \in Phones /\ asks \in [Asks -> AskRecords]
      /\ \A b \in Asks : Posted(asks[b])
  BY DEF Typed, EnrolmentTypeOK
<1>a. /\ \A b \in Asks : Fits(asks[b])
      /\ FirstIsAlone /\ OnlyThisPhone
      /\ phone.enrolled \/ phone.asked \/ phone.running => Known
  BY DEF Straight
<1> USE <1>0 DEF AtServer
<1>1. CASE Recreate
  <2>1. \A b \in Asks : asks'[b] \in {[asks[b] EXCEPT !.heard = FALSE]}
    BY <1>1 DEF Recreate
  <2>2. \A ask \in AskRecords : Fits(ask) => Fits([ask EXCEPT !.heard = FALSE])'
    BY <1>a, <1>1 DEF Recreate, Fits, AskRecords, Phones, Sought, Device
  <2>3. Fits(NoAsk)'
    BY DEF Fits, NoAsk
  <2>4. (\A b \in Asks : Fits(asks[b]))'
    BY <1>a, <2>1, <2>2, <2>3
  <2>5. \A b \in Asks : asks'[b].step \in {asks[b].step, "idle"}
    BY <2>1 DEF NoAsk, AskRecords
  <2>6. FirstIsAlone'
    BY <1>a, <1>1, <2>5 DEF Recreate, FirstIsAlone, Phones
  <2>7. OnlyThisPhone'
    BY <1>a, <1>1 DEF Recreate, OnlyThisPhone, Phones
  <2>8. (phone.enrolled \/ phone.asked \/ phone.running => Known)'
    BY <1>a, <1>1 DEF Recreate, Known, Phones
  <2> QED
    BY <2>4, <2>6, <2>7, <2>8 DEF Straight
<1>2. CASE PressStart
  <2>1. (\A b \in Asks : Fits(asks[b]))'
    BY <1>a, <1>2, EnrolmentAssumption
       DEF PressStart, Fits, AskRecords, Phones, Sought, Device
  <2>2. FirstIsAlone' /\ OnlyThisPhone'
    BY <1>a, <1>2 DEF PressStart, FirstIsAlone, OnlyThisPhone, Phones
  <2>3. (phone.enrolled \/ phone.asked \/ phone.running => Known)'
    BY <1>a, <1>2, EnrolmentAssumption DEF PressStart, Known, Phones
  <2> QED
    BY <2>1, <2>2, <2>3 DEF Straight
<1>3. CASE Resume
  <2>1. (\A b \in Asks : Fits(asks[b]))'
    BY <1>a, <1>3, EnrolmentAssumption
       DEF Resume, Fits, AskRecords, Phones, Sought, Device
  <2>2. FirstIsAlone' /\ OnlyThisPhone'
    BY <1>a, <1>3 DEF Resume, FirstIsAlone, OnlyThisPhone, Phones
  <2>3. (phone.enrolled \/ phone.asked \/ phone.running => Known)'
    BY <1>a, <1>3, EnrolmentAssumption DEF Resume, Known, Phones
  <2> QED
    BY <2>1, <2>2, <2>3 DEF Straight
<1>4. CASE StartCollecting
  <2>1. (\A b \in Asks : Fits(asks[b]))'
    BY <1>a, <1>4, EnrolmentAssumption
       DEF StartCollecting, Fits, AskRecords, Phones, Sought, Device
  <2>2. FirstIsAlone' /\ OnlyThisPhone'
    BY <1>a, <1>4 DEF StartCollecting, FirstIsAlone, OnlyThisPhone, Phones
  <2>3. (phone.enrolled \/ phone.asked \/ phone.running => Known)'
    BY <1>a, <1>4, EnrolmentAssumption DEF StartCollecting, Known, Phones
  <2> QED
    BY <2>1, <2>2, <2>3 DEF Straight
<1>5. CASE StopCollecting
  <2>1. (\A b \in Asks : Fits(asks[b]))'
    BY <1>a, <1>5, EnrolmentAssumption
       DEF StopCollecting, Fits, AskRecords, Phones, Sought, Device
  <2>2. FirstIsAlone' /\ OnlyThisPhone'
    BY <1>a, <1>5 DEF StopCollecting, FirstIsAlone, OnlyThisPhone, Phones
  <2>3. (phone.enrolled \/ phone.asked \/ phone.running => Known)'
    BY <1>a, <1>5, EnrolmentAssumption DEF StopCollecting, Known, Phones
  <2> QED
    BY <2>1, <2>2, <2>3 DEF Straight
<1>6. CASE Die
  <2>1. \A b \in Asks : asks'[b] \in {[asks[b] EXCEPT !.heard = FALSE], NoAsk}
    BY <1>6 DEF Die
  <2>2. \A ask \in AskRecords : Fits(ask) => Fits([ask EXCEPT !.heard = FALSE])'
    BY <1>a, <1>6 DEF Die, Fits, AskRecords, Phones, Sought, Device
  <2>3. Fits(NoAsk)'
    BY DEF Fits, NoAsk
  <2>4. (\A b \in Asks : Fits(asks[b]))'
    BY <1>a, <2>1, <2>2, <2>3
  <2>5. \A b \in Asks : asks'[b].step \in {asks[b].step, "idle"}
    BY <2>1 DEF NoAsk, AskRecords
  <2>6. FirstIsAlone'
    BY <1>a, <1>6, <2>5 DEF Die, FirstIsAlone, Phones
  <2>7. OnlyThisPhone'
    BY <1>a, <1>6 DEF Die, OnlyThisPhone, Phones
  <2>8. (phone.enrolled \/ phone.asked \/ phone.running => Known)'
    BY <1>a, <1>6 DEF Die, Known, Phones
  <2> QED
    BY <2>4, <2>6, <2>7, <2>8 DEF Straight
<1>7. ASSUME NEW s \in Servers, SaveServer(s) PROVE Straight'
  <2>1. (\A b \in Asks : Fits(asks[b]))'
    BY <1>a, <1>7, EnrolmentAssumption
       DEF SaveServer, Overtaken, Fits, AskRecords, Phones, Sought, Device
  <2>2. FirstIsAlone' /\ OnlyThisPhone'
    BY <1>a, <1>7 DEF SaveServer, FirstIsAlone, OnlyThisPhone, Phones
  <2>3. (phone.enrolled \/ phone.asked \/ phone.running => Known)'
    BY <1>a, <1>7, EnrolmentAssumption DEF SaveServer, Overtaken, Known, Phones
  <2> QED
    BY <2>1, <2>2, <2>3 DEF Straight
<1>8. CASE ResetServer
  <2>1. (\A b \in Asks : Fits(asks[b]))'
    BY <1>a, <1>8, EnrolmentAssumption
       DEF ResetServer, Overtaken, Fits, AskRecords, Phones, Sought, Device
  <2>2. FirstIsAlone' /\ OnlyThisPhone'
    BY <1>a, <1>8 DEF ResetServer, FirstIsAlone, OnlyThisPhone, Phones
  <2>3. (phone.enrolled \/ phone.asked \/ phone.running => Known)'
    BY <1>a, <1>8, EnrolmentAssumption DEF ResetServer, Overtaken, Known, Phones
  <2> QED
    BY <2>1, <2>2, <2>3 DEF Straight
<1> QED
  BY <1>1, <1>2, <1>3, <1>4, <1>5, <1>6, <1>7, <1>8 DEF PhoneStep

\* Whatever overtook a registration is remembered.
LEMMA CrossedStays == EnrolmentNext /\ crossed => crossed'
<1> SUFFICES ASSUME EnrolmentNext, crossed PROVE crossed'
  OBVIOUS
<1>1. ASSUME NEW a \in Asks, AskStep(a) PROVE crossed'
  BY <1>1 DEF AskStep, Register, FindKey, MakeKey, FindId, MakeId, ReadAddress, Post, Unhealthy,
     Hear, Look, Insert, Lose, GiveUp
<1>2. CASE PhoneStep
  BY <1>2 DEF PhoneStep, Recreate, PressStart, Resume, StartCollecting, StopCollecting, Die,
     SaveServer, ResetServer
<1> QED
  BY <1>1, <1>2 DEF EnrolmentNext

LEMMA IInvStep == IInv /\ [EnrolmentNext]_enrolment => IInv'
<1> SUFFICES ASSUME IInv, [EnrolmentNext]_enrolment PROVE IInv'
  OBVIOUS
<1>1. Typed'
  BY TypedStep DEF IInv
<1>2. ASSUME EnrolmentNext, ~crossed' PROVE Straight'
  BY <1>2, CrossedStays, AskStraight, PhoneStraight DEF EnrolmentNext, IInv
<1>3. ASSUME UNCHANGED enrolment, ~crossed' PROVE Straight'
  BY <1>3 DEF IInv, enrolment, Straight, Fits, FirstIsAlone, OnlyThisPhone, Known, Sought, Device
<1> QED
  BY <1>1, <1>2, <1>3 DEF IInv

LEMMA IInvSuffices == IInv => EnrolmentInv
<1> SUFFICES ASSUME IInv PROVE EnrolmentInv
  OBVIOUS
<1>1. EnrolledIsKnown /\ CollectsWhereKnown
  BY DEF IInv, Straight, EnrolledIsKnown, CollectsWhereKnown
<1>2. OwnKeyIsAccepted
  BY DEF IInv, Straight, Fits, OwnKeyIsAccepted
<1> QED
  BY <1>1, <1>2 DEF IInv, Typed, EnrolmentInv

\* Unless the address changes under a registration or two first registrations
\* meet, a phone that is enrolled or collects is known, by the key it signs
\* with, to the server it is set to, and is never refused as somebody else:
\* for any servers and any number of registrations, lost, repeated, abandoned.
THEOREM PhoneIsKnown == EnrolmentSpec => []EnrolmentInv
BY InitIInv, IInvStep, IInvSuffices, PTL DEF EnrolmentSpec

-----------------------------------------------------------------------------
(* What a server promises, overtaken or not.                               *)

LEMMA RegistryGrows == [EnrolmentNext]_enrolment => registry \subseteq registry'
<1> SUFFICES ASSUME EnrolmentNext PROVE registry \subseteq registry'
  BY DEF enrolment
<1>1. ASSUME NEW a \in Asks, AskStep(a) PROVE registry \subseteq registry'
  BY <1>1 DEF AskStep, Register, FindKey, MakeKey, FindId, MakeId, ReadAddress, Post, Unhealthy,
     Hear, Look, Insert, Lose, GiveUp
<1>2. CASE PhoneStep
  BY <1>2 DEF PhoneStep, Recreate, PressStart, Resume, StartCollecting, StopCollecting, Die,
     SaveServer, ResetServer
<1> QED
  BY <1>1, <1>2 DEF EnrolmentNext

\* A server never forgets an installation and never knows two keys for one,
\* however many registrations look before any has inserted.
THEOREM NoKeyIsRotated == EnrolmentSpec => KeysAreKept
<1>1. Typed /\ Typed' /\ [EnrolmentNext]_enrolment =>
        [/\ registry \subseteq registry'
         /\ \A d, e \in registry' : d.at = e.at /\ d.id = e.id => d = e]_enrolment
  BY RegistryGrows DEF Typed, OneKeyEach
<1> QED
  BY <1>1, TypeCorrect, PTL DEF EnrolmentSpec, KeysAreKept

-----------------------------------------------------------------------------
(* The allowance of the speed test.                                        *)

\* A day is never ahead of the clock, and no more was spent by a test than it
\* has measured.
LedgerTyped ==
    /\ SpeedTestTypeOK
    /\ ledger.day <= today
    /\ ledger.day # today => spentToday = 0
    /\ \A e \in Executors :
          /\ trials[e].step \in {"none", "latency"} => trials[e].spent = 0
          /\ trials[e].step = "download" => trials[e].spent <= Attempts * Ping
          /\ trials[e].step = "charging" => trials[e].read.day <= ledger.day

\* One test at a time is started within the allowance and charged to the day
\* it read.
OneAtATime ==
    /\ misplaced = FALSE
    /\ \A e, f \in Testing : e = f
    /\ \A e \in Testing : ledger.bytes + Reserve <= Budget
    /\ ledger.bytes + Reserve <= Budget + TestCost
    /\ \A e \in Executors : trials[e].step = "charging" => trials[e].read = ledger
    /\ ledger.day = today => ledger.bytes = spentToday

\* What a test has read and may still be added to.
StillToday(e) == trials[e].step = "charging" /\ trials[e].read.day = ledger.day

\* Of two, the more tests are under way the less is charged; and what one has
\* read is what is charged, or from before the other was started.
TwoAtMost ==
    /\ ledger.bytes + Reserve <= Budget + 2 * TestCost
    /\ \A e \in Testing : ledger.bytes + Reserve <= Budget + TestCost
    /\ \A e, f \in Testing : e # f => ledger.bytes + Reserve <= Budget
    /\ \A e \in Executors : StillToday(e) =>
          /\ trials[e].read.bytes + Reserve <= Budget + TestCost
          /\ \A f \in Testing : f # e => trials[e].read.bytes + Reserve <= Budget
          /\ trials[e].read.bytes + Reserve <= Budget \/ ledger.bytes = trials[e].read.bytes

Pair == \A x, y, z \in Executors : x = y \/ y = z \/ x = z

Spending ==
    /\ LedgerTyped
    /\ overlapped = FALSE => OneAtATime
    /\ misplaced = FALSE /\ Pair => TwoAtMost

LEMMA CostIsNatural ==
    /\ TestCost \in Nat /\ Attempts * Ping \in Nat
    /\ \A n \in 0..Attempts : n * Ping \in 0..(Attempts * Ping)
<1>1. Attempts * Ping \in Nat /\ \A n \in 0..Attempts : n * Ping \in Nat /\ n * Ping <= Attempts * Ping
  BY SpeedTestAssumption, SMTT(30)
<1> QED
  BY <1>1, SpeedTestAssumption DEF TestCost

\* What the pings of a test have cost leaves room for its payload.
LEMMA CostsFit ==
    \A n \in Nat : n <= Attempts * Ping => n \in 0..TestCost /\ n + Payload \in 0..TestCost
<1>1. Attempts * Ping \in Nat
  BY CostIsNatural
<1>2. \A top, n \in Nat : n <= top => n \in 0..(top + Payload) /\ n + Payload \in 0..(top + Payload)
  BY SpeedTestAssumption
<1> QED
  BY <1>1, <1>2 DEF TestCost

TrialRecords ==
    [step : {"none", "latency", "download", "measured", "charging"},
     spent : 0..TestCost, read : [day : 0..MaxDay, bytes : Nat]]

LEMMA NoTrialType == NoTrial \in TrialRecords
BY CostIsNatural, SpeedTestAssumption DEF NoTrial, TrialRecords

\* The ledger when it is asked for: today's.
LEMMA RolledIsToday ==
    ASSUME LedgerTyped
    PROVE  /\ Rolled \in [day : 0..MaxDay, bytes : Nat] /\ Rolled.day = today
           /\ Rolled = ledger \/ (ledger.day < today /\ Rolled.bytes = 0)
BY SpeedTestAssumption DEF LedgerTyped, SpeedTestTypeOK, Rolled

\* One test goes on and the others stay where they are.
LEMMA OneTrial ==
    ASSUME LedgerTyped, NEW e \in Executors, NEW trial \in TrialRecords,
           trials' = [trials EXCEPT ![e] = trial]
    PROVE  /\ trials' \in [Executors -> TrialRecords]
           /\ \A f \in Executors : trials'[f] = IF f = e THEN trial ELSE trials[f]
BY DEF LedgerTyped, SpeedTestTypeOK, TrialRecords

LEMMA LedgerTypedStep ==
    ASSUME LedgerTyped, SpeedTestNext
    PROVE  LedgerTyped'
<1> USE CostIsNatural, SpeedTestAssumption
<1>0. /\ today \in 1..MaxDay /\ rested \subseteq Executors /\ spentToday \in Nat
      /\ overlapped \in BOOLEAN /\ misplaced \in BOOLEAN
      /\ ledger \in [day : 0..MaxDay, bytes : Nat]
      /\ trials \in [Executors -> TrialRecords]
  BY DEF LedgerTyped, SpeedTestTypeOK, TrialRecords
<1>1. ASSUME NEW e \in Executors, NEW backlog \in BOOLEAN, MaybeMeasureSpeed(e, backlog)
      PROVE  LedgerTyped'
  <2>1. CASE SpeedTestAllowed /\ ~backlog
    <3>1. trials[e].step = "none"
          /\ trials' = [trials EXCEPT ![e] = [trials[e] EXCEPT !.step = "latency"]]
      BY <1>0, <1>1, <2>1 DEF MaybeMeasureSpeed, TestStep, TrialRecords
    <3>2. [trials[e] EXCEPT !.step = "latency"] \in TrialRecords
      BY <1>0 DEF TrialRecords
    <3>3. /\ trials' \in [Executors -> TrialRecords]
          /\ \A f \in Executors : trials'[f] =
                IF f = e THEN [trials[e] EXCEPT !.step = "latency"] ELSE trials[f]
      BY <3>1, <3>2, OneTrial
    <3> QED
      BY <1>0, <1>1, <2>1, <3>1, <3>3, RolledIsToday
         DEF MaybeMeasureSpeed, LedgerTyped, SpeedTestTypeOK, TrialRecords
  <2>2. CASE ~(SpeedTestAllowed /\ ~backlog)
    BY <1>0, <1>1, <2>2, RolledIsToday
       DEF MaybeMeasureSpeed, LedgerTyped, SpeedTestTypeOK, TrialRecords
  <2> QED
    BY <2>1, <2>2
<1>2. ASSUME NEW e \in Executors, MeasureLatency(e) PROVE LedgerTyped'
  <2>1. PICK answered \in 0..Attempts : TestStep(e, "latency", "download", answered * Ping)
    BY <1>2 DEF MeasureLatency
  <2> DEFINE new == [trials[e] EXCEPT !.step = "download", !.spent = @ + answered * Ping]
  <2>2. trials[e].spent = 0 /\ answered * Ping \in 0..(Attempts * Ping)
    BY <2>1 DEF TestStep, LedgerTyped
  <2>a. 0 + answered * Ping \in 0..TestCost /\ 0 + answered * Ping <= Attempts * Ping
    BY <2>2, CostsFit, SMTT(30)
  <2>3. new \in TrialRecords /\ new.spent <= Attempts * Ping
    BY <1>0, <2>2, <2>a DEF TrialRecords
  <2>4. trials' = [trials EXCEPT ![e] = new]
    BY <2>1 DEF TestStep
  <2>5. new.step = "download"
    BY <1>0 DEF TrialRecords
  <2> HIDE DEF new
  <2>6. /\ trials' \in [Executors -> TrialRecords]
        /\ \A f \in Executors : trials'[f] = IF f = e THEN new ELSE trials[f]
    BY <2>3, <2>4, OneTrial
  <2> QED
    BY <1>0, <1>2, <2>3, <2>5, <2>6 DEF MeasureLatency, LedgerTyped, SpeedTestTypeOK, TrialRecords
<1>3. ASSUME NEW e \in Executors, MeasureDownload(e) PROVE LedgerTyped'
  <2>1. PICK read \in {0, Payload} : TestStep(e, "download", "measured", read)
    BY <1>3 DEF MeasureDownload
  <2> DEFINE new == [trials[e] EXCEPT !.step = "measured", !.spent = @ + read]
  <2>2. trials[e].spent <= Attempts * Ping
    BY <2>1 DEF TestStep, LedgerTyped
  <2>a. trials[e].spent \in Nat /\ trials[e].spent + read \in 0..TestCost
    BY <1>0, <2>2, CostsFit DEF TrialRecords
  <2>3. new \in TrialRecords /\ new.step = "measured"
    BY <1>0, <2>a DEF TrialRecords
  <2>4. trials' = [trials EXCEPT ![e] = new]
    BY <2>1 DEF TestStep
  <2> HIDE DEF new
  <2>6. /\ trials' \in [Executors -> TrialRecords]
        /\ \A f \in Executors : trials'[f] = IF f = e THEN new ELSE trials[f]
    BY <2>3, <2>4, OneTrial
  <2> QED
    BY <1>0, <1>3, <2>3, <2>6 DEF MeasureDownload, LedgerTyped, SpeedTestTypeOK, TrialRecords
<1>4. ASSUME NEW e \in Executors, ReadForCharge(e) PROVE LedgerTyped'
  <2> DEFINE new == [trials[e] EXCEPT !.step = "charging", !.read = Rolled]
  <2>3. new \in TrialRecords /\ new.step = "charging" /\ new.read = Rolled
    BY <1>0, RolledIsToday DEF TrialRecords
  <2>4. trials' = [trials EXCEPT ![e] = new]
    BY <1>4 DEF ReadForCharge
  <2> HIDE DEF new
  <2>6. /\ trials' \in [Executors -> TrialRecords]
        /\ \A f \in Executors : trials'[f] = IF f = e THEN new ELSE trials[f]
    BY <2>3, <2>4, OneTrial
  <2> QED
    BY <1>0, <1>4, <2>3, <2>6, RolledIsToday
       DEF ReadForCharge, LedgerTyped, SpeedTestTypeOK, TrialRecords
<1>5. ASSUME NEW e \in Executors, WriteCharge(e) PROVE LedgerTyped'
  <2>1. /\ trials' \in [Executors -> TrialRecords]
        /\ \A f \in Executors : trials'[f] = IF f = e THEN NoTrial ELSE trials[f]
    BY <1>5, NoTrialType, OneTrial DEF WriteCharge
  <2>2. /\ ledger' \in [day : 0..MaxDay, bytes : Nat] /\ ledger'.day = ledger.day
        /\ spentToday' \in Nat
    BY <1>0, <1>5 DEF WriteCharge, TrialRecords
  <2>3. ledger.day # today => spentToday' = 0
    BY <1>0, <1>5 DEF WriteCharge, LedgerTyped, TrialRecords
  <2>4. misplaced' \in BOOLEAN
    BY <1>5 DEF WriteCharge
  <2> QED
    BY <1>0, <1>5, <2>1, <2>2, <2>3, <2>4
       DEF WriteCharge, LedgerTyped, SpeedTestTypeOK, TrialRecords, NoTrial
<1>6. ASSUME NEW e \in Executors, Recover(e) PROVE LedgerTyped'
  BY <1>0, <1>6 DEF Recover, LedgerTyped, SpeedTestTypeOK
<1>7. CASE Midnight
  BY <1>0, <1>7 DEF Midnight, LedgerTyped, SpeedTestTypeOK
<1>8. CASE LoseTests
  BY <1>0, <1>8, NoTrialType
     DEF LoseTests, LedgerTyped, SpeedTestTypeOK, TrialRecords, NoTrial
<1> QED
  BY <1>1, <1>2, <1>3, <1>4, <1>5, <1>6, <1>7, <1>8 DEF SpeedTestNext

LEMMA InitSpending == SpeedTestInit => Spending
<1> SUFFICES ASSUME SpeedTestInit PROVE Spending
  OBVIOUS
<1> USE CostIsNatural, SpeedTestAssumption
<1>1. trials \in [Executors -> TrialRecords] /\ \A e \in Executors : trials[e] = NoTrial
  BY NoTrialType DEF SpeedTestInit
<1>2. ledger = [day |-> 0, bytes |-> 0] /\ today = 1 /\ MaxDay \in Nat
  BY DEF SpeedTestInit, NoTrial
<1>3. \A e \in Executors : trials[e].step = "none" /\ trials[e].spent = 0
  BY <1>1 DEF NoTrial
<1>4. Testing = {}
  BY <1>3 DEF Testing
<1>5. LedgerTyped
  <2>1. SpeedTestTypeOK
    <3>1. today \in 1..MaxDay /\ spentToday \in Nat /\ rested \subseteq Executors
      BY <1>2 DEF SpeedTestInit
    <3>2. ledger \in [day : 0..MaxDay, bytes : Nat]
      BY <1>2
    <3> QED
      BY <1>1, <3>1, <3>2 DEF SpeedTestInit, SpeedTestTypeOK, TrialRecords
  <2> QED
    BY <1>2, <1>3, <2>1 DEF SpeedTestInit, LedgerTyped
<1>6. OneAtATime /\ TwoAtMost
  BY <1>2, <1>3, <1>4 DEF SpeedTestInit, OneAtATime, TwoAtMost, StillToday
<1> QED
  BY <1>5, <1>6 DEF Spending

LEMMA TypesOfTheLedger ==
    ASSUME LedgerTyped
    PROVE  /\ today \in Nat /\ spentToday \in Nat
           /\ overlapped \in BOOLEAN /\ misplaced \in BOOLEAN
           /\ ledger \in [day : 0..MaxDay, bytes : Nat]
           /\ trials \in [Executors -> TrialRecords]
BY SpeedTestAssumption DEF LedgerTyped, SpeedTestTypeOK, TrialRecords

LEMMA OneAtATimeStep ==
    ASSUME LedgerTyped, overlapped = FALSE, OneAtATime, SpeedTestNext, overlapped' = FALSE
    PROVE  OneAtATime'
<1> USE CostIsNatural, SpeedTestAssumption
<1>0. /\ today \in Nat /\ spentToday \in Nat /\ misplaced = FALSE
      /\ ledger \in [day : 0..MaxDay, bytes : Nat]
      /\ trials \in [Executors -> TrialRecords]
      /\ ledger.day <= today
      /\ ledger.day # today => spentToday = 0
  BY TypesOfTheLedger DEF LedgerTyped, OneAtATime
<1>1. ASSUME NEW e \in Executors, NEW backlog \in BOOLEAN, MaybeMeasureSpeed(e, backlog)
      PROVE  OneAtATime'
  <2>1. Testing = {}
    BY <1>1, Zenon DEF MaybeMeasureSpeed
  <2>2. \A f \in Executors : trials[f].step = "none"
    BY <2>1 DEF Testing
  <2>3. ledger' = Rolled /\ misplaced' = misplaced /\ today' = today /\ spentToday' = spentToday
    BY <1>1 DEF MaybeMeasureSpeed
  <2>4. ledger'.bytes + Reserve <= Budget + TestCost
        /\ (ledger'.day = today => ledger'.bytes = spentToday)
    BY <1>0, <2>3, RolledIsToday DEF OneAtATime
  <2>5. CASE SpeedTestAllowed /\ ~backlog
    <3>1. \A f \in Executors : trials'[f].step = IF f = e THEN "latency" ELSE "none"
      BY <1>0, <1>1, <2>2, <2>5 DEF MaybeMeasureSpeed, TestStep, TrialRecords
    <3>2. Testing' = {e}
      BY <3>1 DEF Testing
    <3>3. ledger'.bytes + Reserve <= Budget
      BY <2>3, <2>5 DEF SpeedTestAllowed
    <3> QED
      BY <1>0, <2>3, <2>4, <3>1, <3>2, <3>3 DEF OneAtATime
  <2>6. CASE ~(SpeedTestAllowed /\ ~backlog)
    <3>1. trials' = trials
      BY <1>1, <2>6 DEF MaybeMeasureSpeed
    <3>2. Testing' = {}
      BY <2>1, <3>1 DEF Testing
    <3> QED
      BY <1>0, <2>2, <2>3, <2>4, <3>1, <3>2 DEF OneAtATime
  <2> QED
    BY <2>5, <2>6
<1>2. ASSUME NEW e \in Executors, MeasureLatency(e) \/ MeasureDownload(e) PROVE OneAtATime'
  <2>1. PICK to \in {"download", "measured"}, n \in Nat :
           /\ trials[e].step \in {"latency", "download"}
           /\ trials' = [trials EXCEPT ![e].step = to, ![e].spent = @ + n]
    BY <1>2 DEF MeasureLatency, MeasureDownload, TestStep
  <2>2. \A f \in Executors : trials'[f].step = IF f = e THEN to ELSE trials[f].step
    BY <1>0, <2>1 DEF TrialRecords
  <2>3. \A f \in Executors : f # e => trials'[f] = trials[f]
    BY <1>0, <2>1
  <2>4. Testing' = Testing
    BY <2>1, <2>2 DEF Testing
  <2>5. ledger' = ledger /\ misplaced' = misplaced /\ today' = today /\ spentToday' = spentToday
    BY <1>2 DEF MeasureLatency, MeasureDownload
  <2> QED
    BY <1>0, <2>2, <2>3, <2>4, <2>5 DEF OneAtATime
<1>3. ASSUME NEW e \in Executors, ReadForCharge(e) PROVE OneAtATime'
  <2>1. trials[e].step = "measured" /\ e \in Testing
    BY <1>3 DEF ReadForCharge, Testing
  <2>2. \A f \in Executors : trials'[f].step = IF f = e THEN "charging" ELSE trials[f].step
    BY <1>0, <1>3 DEF ReadForCharge, TrialRecords
  <2>3. Testing' = Testing
    BY <2>1, <2>2 DEF Testing
  <2>4. \A f \in Executors : f # e => f \notin Testing
    BY <2>1 DEF OneAtATime
  <2>5. \A f \in Executors : f # e => trials[f].step = "none"
    BY <2>4 DEF Testing
  <2>6. trials'[e].read = Rolled /\ ledger' = Rolled
    BY <1>0, <1>3 DEF ReadForCharge, TrialRecords
  <2>7. misplaced' = misplaced /\ today' = today /\ spentToday' = spentToday
    BY <1>3 DEF ReadForCharge
  <2> QED
    BY <1>0, <2>1, <2>2, <2>3, <2>5, <2>6, <2>7, RolledIsToday DEF OneAtATime
<1>4. ASSUME NEW e \in Executors, WriteCharge(e) PROVE OneAtATime'
  <2>1. trials[e].step = "charging" /\ e \in Testing /\ trials[e].read = ledger
    BY <1>4 DEF WriteCharge, Testing, OneAtATime
  <2>2. \A f \in Executors : f # e => trials[f].step = "none"
    BY <2>1 DEF OneAtATime, Testing
  <2>3. \A f \in Executors : trials'[f].step = "none"
    BY <1>0, <1>4, <2>2 DEF WriteCharge, NoTrial
  <2>4. Testing' = {}
    BY <2>3 DEF Testing
  <2>5. ledger' = [ledger EXCEPT !.bytes = ledger.bytes + trials[e].spent] /\ today' = today
    BY <1>4, <2>1 DEF WriteCharge
  <2>6. trials[e].spent \in 0..TestCost /\ ledger.bytes + Reserve <= Budget
    BY <1>0, <2>1 DEF TrialRecords, OneAtATime
  <2>7. ledger'.bytes + Reserve <= Budget + TestCost /\ ledger'.day = ledger.day
        /\ ledger'.bytes = ledger.bytes + trials[e].spent
    BY <1>0, <2>5, <2>6
  <2>8. misplaced' = FALSE
    BY <1>0, <1>4, <2>1 DEF WriteCharge
  <2>9. ledger.day = today => spentToday' = spentToday + trials[e].spent
    BY <1>4, <2>1 DEF WriteCharge
  <2> QED
    BY <1>0, <2>3, <2>4, <2>5, <2>7, <2>8, <2>9 DEF OneAtATime
<1>5. ASSUME NEW e \in Executors, Recover(e) PROVE OneAtATime'
  BY <1>0, <1>5 DEF Recover, OneAtATime, Testing
<1>6. CASE Midnight
  BY <1>0, <1>6 DEF Midnight, OneAtATime, Testing
<1>7. CASE LoseTests
  <2>1. \A f \in Executors : trials'[f].step = "none"
    BY <1>7 DEF LoseTests, NoTrial
  <2>2. Testing' = {}
    BY <2>1 DEF Testing
  <2> QED
    BY <1>0, <1>7, <2>1, <2>2 DEF LoseTests, OneAtATime
<1> QED
  BY <1>1, <1>2, <1>3, <1>4, <1>5, <1>6, <1>7 DEF SpeedTestNext

LEMMA TwoAtMostStep ==
    ASSUME LedgerTyped, misplaced = FALSE, Pair, TwoAtMost, SpeedTestNext, misplaced' = FALSE
    PROVE  TwoAtMost'
<1> USE CostIsNatural, SpeedTestAssumption
<1>0. /\ today \in Nat
      /\ ledger \in [day : 0..MaxDay, bytes : Nat]
      /\ trials \in [Executors -> TrialRecords]
      /\ ledger.day <= today
      /\ \A e \in Executors : trials[e].step = "charging" => trials[e].read.day <= ledger.day
  BY TypesOfTheLedger DEF LedgerTyped
<1>a. \A f \in Executors : trials[f].read.bytes \in Nat /\ trials[f].read.day \in Nat
                           /\ trials[f].spent \in 0..TestCost
  BY <1>0 DEF TrialRecords
\* Asking leaves the day's bytes as they were or starts another day, on which
\* nothing that was read before is still charged.
<1>b. \/ Rolled = ledger
      \/ Rolled.bytes = 0 /\ \A f \in Executors : trials[f].step = "charging" =>
                                                     trials[f].read.day # Rolled.day
  BY <1>0, <1>a, RolledIsToday
<1>c. Rolled.bytes \in Nat /\ Rolled.bytes <= ledger.bytes
  BY <1>0, RolledIsToday
<1>1. ASSUME NEW e \in Executors, NEW backlog \in BOOLEAN, MaybeMeasureSpeed(e, backlog)
      PROVE  TwoAtMost'
  <2>1. ledger' = Rolled
    BY <1>1 DEF MaybeMeasureSpeed
  <2>2. CASE SpeedTestAllowed /\ ~backlog
    <3>1. \A f \in Executors : /\ f # e => trials'[f] = trials[f]
                               /\ trials'[f].read = trials[f].read
                               /\ trials'[f].step = IF f = e THEN "latency" ELSE trials[f].step
      BY <1>0, <1>1, <2>2 DEF MaybeMeasureSpeed, TestStep, TrialRecords
    <3>2. Rolled.bytes + Reserve <= Budget
      BY <2>2 DEF SpeedTestAllowed
    <3>3. \A f \in Executors : StillToday(f)' =>
             StillToday(f) /\ Rolled = ledger
      BY <1>b, <2>1, <3>1 DEF StillToday
    <3> QED
      BY <1>0, <1>a, <1>b, <1>c, <2>1, <3>1, <3>2, <3>3 DEF TwoAtMost
  <2>3. CASE ~(SpeedTestAllowed /\ ~backlog)
    <3>1. trials' = trials
      BY <1>1, <2>3 DEF MaybeMeasureSpeed
    <3>2. Testing' = Testing
      BY <3>1 DEF Testing
    <3>3. \A f \in Executors : StillToday(f)' => StillToday(f) /\ Rolled = ledger
      BY <1>b, <2>1, <3>1 DEF StillToday
    <3> QED
      BY <1>0, <1>a, <1>b, <1>c, <2>1, <3>1, <3>2, <3>3 DEF TwoAtMost
  <2> QED
    BY <2>2, <2>3
<1>2. ASSUME NEW e \in Executors, MeasureLatency(e) \/ MeasureDownload(e) PROVE TwoAtMost'
  <2>1. PICK to \in {"download", "measured"}, n \in Nat :
           /\ trials[e].step \in {"latency", "download"}
           /\ trials' = [trials EXCEPT ![e].step = to, ![e].spent = @ + n]
    BY <1>2 DEF MeasureLatency, MeasureDownload, TestStep
  <2>2. \A f \in Executors : /\ trials'[f].step = IF f = e THEN to ELSE trials[f].step
                             /\ trials'[f].read = trials[f].read
    BY <1>0, <2>1 DEF TrialRecords
  <2>3. Testing' = Testing
    BY <2>1, <2>2 DEF Testing
  <2>4. ledger' = ledger
    BY <1>2 DEF MeasureLatency, MeasureDownload
  <2>5. \A f \in Executors : StillToday(f)' => StillToday(f)
    BY <2>1, <2>2, <2>4 DEF StillToday
  <2> QED
    BY <1>0, <1>a, <2>2, <2>3, <2>4, <2>5 DEF TwoAtMost
<1>3. ASSUME NEW e \in Executors, ReadForCharge(e) PROVE TwoAtMost'
  <2>1. trials[e].step = "measured" /\ e \in Testing /\ ledger' = Rolled
    BY <1>3 DEF ReadForCharge, Testing
  <2>2. \A f \in Executors : /\ trials'[f].step = IF f = e THEN "charging" ELSE trials[f].step
                             /\ trials'[f].read = IF f = e THEN Rolled ELSE trials[f].read
    BY <1>0, <1>3 DEF ReadForCharge, TrialRecords
  <2>3. Testing' = Testing
    BY <2>1, <2>2 DEF Testing
  <2>4. \A f \in Executors : f # e /\ StillToday(f)' => StillToday(f) /\ Rolled = ledger
    BY <1>b, <2>1, <2>2 DEF StillToday
  <2>5. /\ Rolled.bytes + Reserve <= Budget + TestCost
        /\ \A f \in Testing : f # e => Rolled.bytes + Reserve <= Budget
    BY <1>0, <1>c, <2>1 DEF TwoAtMost
  <2>6. \A f \in Executors : StillToday(f) =>
          /\ trials[f].read.bytes + Reserve <= Budget + TestCost
          /\ \A g \in Testing : g # f => trials[f].read.bytes + Reserve <= Budget
          /\ trials[f].read.bytes + Reserve <= Budget \/ ledger.bytes = trials[f].read.bytes
    BY DEF TwoAtMost
  <2>7. \A f \in Executors : StillToday(f)' =>
          /\ trials'[f].read.bytes + Reserve <= Budget + TestCost
          /\ \A g \in Testing' : g # f => trials'[f].read.bytes + Reserve <= Budget
          /\ trials'[f].read.bytes + Reserve <= Budget \/ ledger'.bytes = trials'[f].read.bytes
    BY <2>1, <2>2, <2>3, <2>4, <2>5, <2>6
  <2>8. /\ ledger'.bytes + Reserve <= Budget + 2 * TestCost
        /\ \A f \in Testing' : ledger'.bytes + Reserve <= Budget + TestCost
        /\ \A f, g \in Testing' : f # g => ledger'.bytes + Reserve <= Budget
    BY <1>0, <1>c, <2>1, <2>3 DEF TwoAtMost
  <2> QED
    BY <2>7, <2>8 DEF TwoAtMost
<1>4. ASSUME NEW e \in Executors, WriteCharge(e) PROVE TwoAtMost'
  <2>1. trials[e].step = "charging" /\ e \in Testing /\ trials[e].read.day = ledger.day
    BY <1>0, <1>4 DEF WriteCharge, Testing
  <2>2. StillToday(e)
    BY <2>1 DEF StillToday
  <2>3. \A f \in Executors : /\ trials'[f].step = IF f = e THEN "none" ELSE trials[f].step
                             /\ f # e => trials'[f].read = trials[f].read
    BY <1>0, <1>4 DEF WriteCharge, NoTrial
  <2>4. Testing' = Testing \ {e}
    BY <2>3 DEF Testing
  <2>5. ledger'.bytes = trials[e].read.bytes + trials[e].spent /\ ledger'.day = ledger.day
    BY <1>0, <1>4 DEF WriteCharge
  <2>6. \A f \in Executors : StillToday(f)' => f # e /\ StillToday(f)
    BY <2>3, <2>5 DEF StillToday
  <2>7. /\ trials[e].read.bytes + Reserve <= Budget + TestCost
        /\ \A f \in Testing' : trials[e].read.bytes + Reserve <= Budget
    BY <2>2, <2>4 DEF TwoAtMost
  <2>8. \A f \in Executors : StillToday(f)' =>
            trials[f].read.bytes + Reserve <= Budget
    BY <2>1, <2>6 DEF TwoAtMost
  <2>9. \A f, g \in Executors \ {e} : f = g
    BY DEF Pair
  <2>10. /\ ledger'.bytes + Reserve <= Budget + 2 * TestCost
         /\ \A f \in Testing' : ledger'.bytes + Reserve <= Budget + TestCost
    BY <1>a, <2>5, <2>7
  <2>11. \A f, g \in Testing' : f = g
    BY <2>4, <2>9 DEF Testing
  <2>12. \A f \in Executors : StillToday(f)' => trials'[f].read.bytes + Reserve <= Budget
                                                /\ \A g \in Testing' : g = f
    BY <2>3, <2>4, <2>6, <2>8, <2>9 DEF Testing
  <2>13. \A f \in Executors : f # e => trials'[f].read.bytes \in Nat
    BY <1>a, <2>3
  <2> QED
    BY <2>6, <2>10, <2>11, <2>12, <2>13 DEF TwoAtMost
<1>5. ASSUME NEW e \in Executors, Recover(e) PROVE TwoAtMost'
  BY <1>0, <1>5 DEF Recover, TwoAtMost, Testing, StillToday
<1>6. CASE Midnight
  BY <1>0, <1>6 DEF Midnight, TwoAtMost, Testing, StillToday
<1>7. CASE LoseTests
  <2>1. \A f \in Executors : trials'[f].step = "none"
    BY <1>7 DEF LoseTests, NoTrial
  <2>2. Testing' = {} /\ \A f \in Executors : ~StillToday(f)'
    BY <2>1 DEF Testing, StillToday
  <2> QED
    BY <1>0, <1>7, <2>2 DEF LoseTests, TwoAtMost
<1> QED
  BY <1>1, <1>2, <1>3, <1>4, <1>5, <1>6, <1>7 DEF SpeedTestNext

\* Of two executors any three are not all different.
LEMMA TwoAreAPair == Cardinality(Executors) <= 2 => Pair
<1> SUFFICES ASSUME Cardinality(Executors) <= 2,
                    NEW x \in Executors, NEW y \in Executors, NEW z \in Executors,
                    x # y, y # z, x # z
             PROVE  FALSE
  BY DEF Pair
<1>1. IsFiniteSet({x}) /\ Cardinality({x}) = 1
  BY FS_Singleton
<1>2. IsFiniteSet({x} \cup {y}) /\ Cardinality({x} \cup {y}) = 2
  BY <1>1, FS_AddElement
<1>3. IsFiniteSet({x} \cup {y} \cup {z}) /\ Cardinality({x} \cup {y} \cup {z}) = 3
  BY <1>2, FS_AddElement
<1>4. Cardinality({x} \cup {y} \cup {z}) <= Cardinality(Executors) /\ Cardinality(Executors) \in Nat
  BY SpeedTestAssumption, FS_Subset, FS_CardinalityType
<1> QED
  BY <1>3, <1>4

LEMMA SpendingStep == Spending /\ [misplaced = FALSE /\ SpeedTestNext]_allowance => Spending'
<1> SUFFICES ASSUME Spending, [misplaced = FALSE /\ SpeedTestNext]_allowance PROVE Spending'
  OBVIOUS
<1>1. CASE misplaced = FALSE /\ SpeedTestNext
  <2>1. LedgerTyped /\ LedgerTyped'
    BY <1>1, LedgerTypedStep DEF Spending
  <2>2. overlapped' = FALSE => overlapped = FALSE
    BY <1>1, <2>1, TypesOfTheLedger
       DEF SpeedTestNext, MaybeMeasureSpeed, MeasureLatency, MeasureDownload, ReadForCharge,
           WriteCharge, Recover, Midnight, LoseTests
  <2>3. overlapped' = FALSE => OneAtATime'
    BY <1>1, <2>1, <2>2, OneAtATimeStep DEF Spending
  <2>4. misplaced' = FALSE /\ Pair => TwoAtMost'
    BY <1>1, <2>1, TwoAtMostStep DEF Spending
  <2> QED
    BY <2>1, <2>3, <2>4 DEF Spending, Pair
<1>2. CASE UNCHANGED allowance
  BY <1>2 DEF allowance, Spending, LedgerTyped, SpeedTestTypeOK, OneAtATime, TwoAtMost, Pair,
              Testing, StillToday
<1> QED
  BY <1>1, <1>2

LEMMA SpendingSuffices == Spending => SpeedTestTypeOK /\ CeilingHolds /\ TodayIsCharged
<1> SUFFICES ASSUME Spending PROVE SpeedTestTypeOK /\ CeilingHolds /\ TodayIsCharged
  OBVIOUS
<1> USE CostIsNatural, SpeedTestAssumption
<1>1. LedgerTyped
  BY DEF Spending
<1>2. ledger.bytes \in Nat /\ overlapped \in BOOLEAN /\ misplaced \in BOOLEAN
  BY <1>1, TypesOfTheLedger
<1>3. ~overlapped => OneAtATime
  BY <1>2 DEF Spending
<1>4. ~misplaced /\ Cardinality(Executors) <= 2 => TwoAtMost
  BY <1>2, TwoAreAPair DEF Spending
<1>5. ~overlapped => ledger.bytes <= Budget
  BY <1>2, <1>3 DEF OneAtATime
<1>6. ~misplaced /\ Cardinality(Executors) <= 2 => ledger.bytes <= Budget - Reserve + 2 * TestCost
  BY <1>2, <1>4 DEF TwoAtMost
<1> QED
  BY <1>1, <1>3, <1>5, <1>6 DEF LedgerTyped, CeilingHolds, TodayIsCharged, OneAtATime

-----------------------------------------------------------------------------
(* The table of observed cells.                                            *)

\* The later a pass reads the more it reads, since nothing deletes a reading;
\* so of what two passes place the one set lies in the other.
ReadsGrow ==
    /\ \A p \in DOMAIN passes, c \in Cells : passes[p].read[c] <= heard[c]
    /\ \A p, q \in DOMAIN passes, c \in Cells : p < q => passes[p].read[c] <= passes[q].read[c]

\* What the table was once, and will be if no later pass is written.
OnceTheTable(set) ==
    set = {} \/ \E q \in DOMAIN passes : PassAt(q, "written") /\ set = RowsOf(q)

\* A pass deletes all of the table or nothing of it, and leaves no row of the
\* cells that it has inserted.
Clears(p) ==
    LET pass == passes[p]
    IN  /\ OnceTheTable(pass.seen)
        /\ pass.gone # {} => pass.gone = rows
        /\ pass.added \subseteq Estimates(pass.read)
        /\ pass.step \in {"estimated", "deleting"} => pass.gone = {} /\ pass.added = {}
        /\ \A row \in rows \ pass.gone : row.cell \notin pass.added

Apart(p, q) ==
    passes[p].gone \cap passes[q].gone = {} /\ passes[p].added \cap passes[q].added = {}

PassesTyped == CellSitesTypeOK /\ Len(passes) <= MaxPasses

Placing ==
    /\ PassesTyped
    /\ ReadsGrow
    /\ \A p \in DOMAIN passes : Clears(p)
    /\ \A p, q \in DOMAIN passes : p # q => Apart(p, q)
    /\ CellsAreOfOnePass

LEMMA APass ==
    ASSUME PassesTyped, NEW p \in DOMAIN passes
    PROVE  /\ p \in 1..MaxPasses /\ passes[p] \in Passes
           /\ passes[p].read \in Histories
<1>1. passes \in Seq(Passes) /\ Len(passes) <= MaxPasses /\ p \in 1..Len(passes)
  BY DEF PassesTyped, CellSitesTypeOK
<1>2. p \in 1..MaxPasses /\ passes[p] \in Passes
  BY <1>1, CellSitesAssumption
<1> QED
  BY <1>2 DEF Passes

LEMMA ReadsNest ==
    ASSUME PassesTyped, ReadsGrow, NEW p \in DOMAIN passes, NEW q \in DOMAIN passes
    PROVE  \/ Estimates(passes[p].read) \subseteq Estimates(passes[q].read)
           \/ Estimates(passes[q].read) \subseteq Estimates(passes[p].read)
<1>1. /\ p \in Nat /\ q \in Nat
      /\ passes[p].read \in Histories /\ passes[q].read \in Histories
  BY APass
<1>2. \A c \in Cells : passes[p].read[c] \in Nat /\ passes[q].read[c] \in Nat
  BY <1>1 DEF Histories
<1>3. CASE p <= q
  BY <1>1, <1>2, <1>3, CellSitesAssumption DEF ReadsGrow, Estimates
<1>4. CASE q <= p
  BY <1>1, <1>2, <1>4, CellSitesAssumption DEF ReadsGrow, Estimates
<1> QED
  BY <1>1, <1>3, <1>4

LEMMA RowsAreTagged ==
    ASSUME NEW p \in DOMAIN passes
    PROVE  /\ RowsOf(p) = {} <=> Estimates(passes[p].read) = {}
           /\ \A row \in RowsOf(p) : row.pass = p /\ row.cell \in Estimates(passes[p].read)
           /\ \A c \in Estimates(passes[p].read) : [cell |-> c, pass |-> p] \in RowsOf(p)
<1>1. \A row \in RowsOf(p) : row.pass = p /\ row.cell \in Estimates(passes[p].read)
  BY DEF RowsOf
<1>2. \A c \in Estimates(passes[p].read) : [cell |-> c, pass |-> p] \in RowsOf(p)
  BY DEF RowsOf
<1>3. RowsOf(p) = {} <=> Estimates(passes[p].read) = {}
  BY <1>1, <1>2
<1> QED
  BY <1>1, <1>2, <1>3

\* Rows of different passes are different, so two sets that were once the
\* table are the same or have no row in common.
LEMMA OneSetOrTheOther ==
    ASSUME NEW s, NEW t, OnceTheTable(s), OnceTheTable(t), s \cap t # {}
    PROVE  s = t
BY RowsAreTagged DEF OnceTheTable

\* One pass goes on and the others stay where they are.
LEMMA OnePass ==
    ASSUME PassesTyped, NEW p \in DOMAIN passes, NEW pass \in Passes,
           passes' = [passes EXCEPT ![p] = pass]
    PROVE  /\ passes' \in Seq(Passes) /\ Len(passes') <= MaxPasses
           /\ DOMAIN passes' = DOMAIN passes
           /\ \A q \in DOMAIN passes : passes'[q] = IF q = p THEN pass ELSE passes[q]
BY DEF PassesTyped, CellSitesTypeOK

\* Where every pass keeps what it read and the written ones stay written, what
\* was once the table still was.
LEMMA OnceStaysOnce ==
    ASSUME DOMAIN passes \subseteq DOMAIN passes', NEW set, OnceTheTable(set),
           \A q \in DOMAIN passes : passes'[q].read = passes[q].read
                                    /\ (PassAt(q, "written") => PassAt(q, "written")')
    PROVE  OnceTheTable(set)'
BY DEF OnceTheTable, RowsOf

LEMMA InitPlacing == CellSitesInit => Placing
<1> SUFFICES ASSUME CellSitesInit PROVE Placing
  OBVIOUS
<1>1. heard \in Histories
  BY CellSitesAssumption DEF CellSitesInit, Histories
<1>2. passes \in Seq(Passes) /\ Len(passes) = 0 /\ DOMAIN passes = {}
  BY DEF CellSitesInit
<1> QED
  BY <1>1, <1>2, CellSitesAssumption
     DEF CellSitesInit, Placing, PassesTyped, CellSitesTypeOK, ReadsGrow, CellsAreOfOnePass

LEMMA HearCellPlacing ==
    ASSUME Placing, NEW c \in Cells, HearCell(c)
    PROVE  Placing'
<1>1. heard \in Histories /\ \A p \in DOMAIN passes : passes[p].read \in Histories
  BY APass DEF Placing, PassesTyped, CellSitesTypeOK
<1>2. heard' \in Histories /\ \A d \in Cells : heard[d] <= heard'[d]
  BY <1>1, CellSitesAssumption DEF HearCell, Histories
<1>3. \A p \in DOMAIN passes, d \in Cells : passes[p].read[d] \in Nat /\ heard[d] \in Nat /\ heard'[d] \in Nat
  BY <1>1, <1>2 DEF Histories
<1>4. ReadsGrow'
  BY <1>2, <1>3 DEF HearCell, Placing, ReadsGrow
<1> QED
  BY <1>2, <1>4 DEF HearCell, Placing, PassesTyped, CellSitesTypeOK, Clears, OnceTheTable, Apart,
     CellsAreOfOnePass, RowsOf, PassAt

LEMMA ReadHistoryPlacing ==
    ASSUME Placing, ReadHistory
    PROVE  Placing'
<1> DEFINE new == [read |-> heard, step |-> "estimated", seen |-> {}, gone |-> {}, added |-> {}]
           last == Len(passes) + 1
<1>1. heard \in Histories /\ passes \in Seq(Passes) /\ Len(passes) < MaxPasses
  BY DEF Placing, PassesTyped, CellSitesTypeOK, ReadHistory
<1>2. new \in Passes
  BY <1>1 DEF Passes
<1>3. passes' = Append(passes, new) /\ rows' = rows /\ heard' = heard
  BY DEF ReadHistory
<1>4. /\ passes' \in Seq(Passes) /\ Len(passes') <= MaxPasses
      /\ DOMAIN passes' = DOMAIN passes \cup {last}
      /\ \A q \in DOMAIN passes : passes'[q] = passes[q] /\ q < last
      /\ passes'[last] = new
  BY <1>1, <1>2, <1>3, CellSitesAssumption
<1>5. PassesTyped'
  BY <1>1, <1>3, <1>4 DEF Placing, PassesTyped, CellSitesTypeOK
<1>6. new.read = heard /\ new.seen = {} /\ new.gone = {} /\ new.added = {} /\ new.step = "estimated"
  OBVIOUS
<1> HIDE DEF new
<1>7. ReadsGrow'
  <2>2. \A c \in Cells : heard[c] \in Nat
    BY <1>1 DEF Histories
  <2>3. \A p \in DOMAIN passes', c \in Cells : passes'[p].read[c] <= heard'[c]
    BY <1>3, <1>4, <1>6, <2>2 DEF Placing, ReadsGrow
  <2>4. \A p, q \in DOMAIN passes', c \in Cells : p < q => passes'[p].read[c] <= passes'[q].read[c]
    BY <1>1, <1>3, <1>4, <1>6, <2>2 DEF Placing, ReadsGrow
  <2> QED
    BY <2>3, <2>4 DEF ReadsGrow
<1>8. \A set : OnceTheTable(set) => OnceTheTable(set)'
  BY <1>4, OnceStaysOnce DEF PassAt
<1>9. \A p \in DOMAIN passes' : Clears(p)'
  <2>1. ASSUME NEW p \in DOMAIN passes PROVE Clears(p)'
    BY <1>3, <1>4, <1>8, <2>1 DEF Placing, Clears
  <2>2. ASSUME NEW p, p = last PROVE Clears(p)'
    <3>1. /\ passes'[p].seen = {} /\ passes'[p].gone = {} /\ passes'[p].added = {}
      BY <1>4, <1>6, <2>2
    <3>2. OnceTheTable({})'
      BY DEF OnceTheTable
    <3> QED
      BY <3>1, <3>2 DEF Clears
  <2> QED
    BY <1>4, <2>1, <2>2
<1>10. \A p, q \in DOMAIN passes' : p # q => Apart(p, q)'
  BY <1>4, <1>6 DEF Placing, Apart
<1>11. CellsAreOfOnePass'
  BY <1>3, <1>4, <1>6 DEF Placing, CellsAreOfOnePass, RowsOf, PassAt
<1> QED
  BY <1>5, <1>7, <1>9, <1>10, <1>11 DEF Placing

\* A step of one pass that leaves the table alone.
LEMMA PassPlacing ==
    ASSUME Placing, NEW p \in DOMAIN passes, NEW pass \in Passes,
           passes' = [passes EXCEPT ![p] = pass], UNCHANGED <<heard, rows>>,
           passes[p].step # "written", pass.step # "written", pass.read = passes[p].read,
           OnceTheTable(pass.seen),
           pass.gone # {} => pass.gone = rows,
           pass.added \subseteq Estimates(pass.read),
           pass.step \in {"estimated", "deleting"} => pass.gone = {} /\ pass.added = {},
           \A row \in rows \ pass.gone : row.cell \notin pass.added,
           \A q \in DOMAIN passes : q # p => passes[q].gone \cap pass.gone = {}
                                             /\ passes[q].added \cap pass.added = {}
    PROVE  Placing'
<1>1. /\ passes' \in Seq(Passes) /\ Len(passes') <= MaxPasses
      /\ DOMAIN passes' = DOMAIN passes
      /\ \A q \in DOMAIN passes : passes'[q] = IF q = p THEN pass ELSE passes[q]
  BY OnePass DEF Placing
<1>2. PassesTyped'
  BY <1>1 DEF Placing, PassesTyped, CellSitesTypeOK
<1>3. \A q \in DOMAIN passes : passes'[q].read = passes[q].read
                               /\ (PassAt(q, "written")' <=> PassAt(q, "written"))
  BY <1>1 DEF PassAt
<1>4. ReadsGrow'
  BY <1>1, <1>3 DEF Placing, ReadsGrow
<1>5. \A set : OnceTheTable(set) => OnceTheTable(set)'
  BY <1>1, <1>3, OnceStaysOnce
<1>6. ASSUME NEW q \in DOMAIN passes' PROVE Clears(q)'
  <2>1. CASE q = p
    <3>1. passes'[q] = pass
      BY <1>1, <2>1
    <3> QED
      BY <1>5, <3>1 DEF Clears
  <2>2. CASE q # p
    <3>1. passes'[q] = passes[q] /\ Clears(q)
      BY <1>1, <2>2 DEF Placing
    <3> QED
      BY <1>5, <3>1 DEF Clears
  <2> QED
    BY <2>1, <2>2
<1>7. \A q, r \in DOMAIN passes' : q # r => Apart(q, r)'
  BY <1>1 DEF Placing, Apart
<1>8. CellsAreOfOnePass'
  BY <1>1, <1>3 DEF Placing, CellsAreOfOnePass, RowsOf
<1> QED
  BY <1>2, <1>4, <1>6, <1>7, <1>8 DEF Placing

\* What the table is now, it was once.
LEMMA TheTableIsOnce == CellsAreOfOnePass => OnceTheTable(rows)
BY DEF CellsAreOfOnePass, OnceTheTable

LEMMA BeginDeletePlacing ==
    ASSUME Placing, NEW p \in DOMAIN passes, BeginDelete(p)
    PROVE  Placing'
<1> DEFINE new == [passes[p] EXCEPT !.step = "deleting", !.seen = rows]
<1>1. passes[p] \in Passes /\ rows \subseteq CellRows /\ passes[p].step = "estimated"
  BY APass DEF Placing, PassesTyped, CellSitesTypeOK, BeginDelete, PassAt
<1>2. new \in Passes
  BY <1>1 DEF Passes
<1>3. passes' = [passes EXCEPT ![p] = new] /\ UNCHANGED <<heard, rows>>
  BY DEF BeginDelete
<1>4. /\ new.step = "deleting" /\ new.seen = rows /\ new.read = passes[p].read
      /\ new.gone = passes[p].gone /\ new.added = passes[p].added
  BY <1>1 DEF Passes
<1>5. Clears(p) /\ OnceTheTable(rows)
  BY TheTableIsOnce DEF Placing
<1>6. \A q \in DOMAIN passes : q # p => Apart(q, p)
  BY DEF Placing
<1> HIDE DEF new
<1> QED
  BY <1>1, <1>2, <1>3, <1>4, <1>5, <1>6, PassPlacing DEF Clears, Apart

LEMMA DeleteRowsPlacing ==
    ASSUME Placing, NEW p \in DOMAIN passes, DeleteRows(p)
    PROVE  Placing'
<1> DEFINE new == [passes[p] EXCEPT !.step = "inserting", !.gone = passes[p].seen \cap rows]
<1>1. passes[p] \in Passes /\ rows \subseteq CellRows /\ passes[p].step = "deleting"
  BY APass DEF Placing, PassesTyped, CellSitesTypeOK, DeleteRows, PassAt
<1>2. new \in Passes
  BY <1>1 DEF Passes
<1>3. passes' = [passes EXCEPT ![p] = new] /\ UNCHANGED <<heard, rows>>
  BY DEF DeleteRows
<1>4. /\ new.step = "inserting" /\ new.seen = passes[p].seen /\ new.read = passes[p].read
      /\ new.gone = passes[p].seen \cap rows /\ new.added = passes[p].added
  BY <1>1 DEF Passes
<1>5. Clears(p) /\ OnceTheTable(rows)
  BY TheTableIsOnce DEF Placing
<1>6. OnceTheTable(new.seen) /\ new.added = {}
  BY <1>1, <1>4, <1>5 DEF Clears
<1>7. new.gone # {} => new.gone = rows
  BY <1>4, <1>5, <1>6, OneSetOrTheOther
<1>8. \A q \in DOMAIN passes : q # p => passes[q].gone \cap new.gone = {}
  BY <1>4 DEF DeleteRows, Others
<1> HIDE DEF new
<1>9. /\ new.step # "written" /\ new.step \notin {"estimated", "deleting"}
      /\ passes[p].step # "written"
  BY <1>1, <1>4
<1>10. /\ new.added \subseteq Estimates(new.read)
       /\ \A row \in rows \ new.gone : row.cell \notin new.added
       /\ \A q \in DOMAIN passes : q # p => passes[q].gone \cap new.gone = {}
                                          /\ passes[q].added \cap new.added = {}
  BY <1>6, <1>8
<1> QED
  BY <1>2, <1>3, <1>4, <1>6, <1>7, <1>9, <1>10, PassPlacing

LEMMA InsertCellPlacing ==
    ASSUME Placing, NEW p \in DOMAIN passes, NEW c \in Cells, InsertCell(p, c)
    PROVE  Placing'
<1> DEFINE new == [passes[p] EXCEPT !.added = @ \cup {c}]
<1>1. passes[p] \in Passes /\ passes[p].step = "inserting" /\ c \in Estimates(passes[p].read)
  BY APass DEF Placing, InsertCell, PassAt, Unwritten
<1>2. new \in Passes
  BY <1>1 DEF Passes
<1>3. passes' = [passes EXCEPT ![p] = new] /\ UNCHANGED <<heard, rows>>
  BY DEF InsertCell
<1>4. /\ new.step = "inserting" /\ new.seen = passes[p].seen /\ new.read = passes[p].read
      /\ new.gone = passes[p].gone /\ new.added = passes[p].added \cup {c}
  BY <1>1 DEF Passes
<1>5. Clears(p)
  BY DEF Placing
<1>6. \A q \in DOMAIN passes : q # p => Apart(q, p) /\ c \notin passes[q].added
  BY DEF Placing, InsertCell, Others
<1>7. \A row \in rows \ passes[p].gone : row.cell # c
  BY DEF InsertCell
<1> HIDE DEF new
<1>8. \A row \in rows \ new.gone : row.cell \notin new.added
  BY <1>4, <1>5, <1>7 DEF Clears
<1>9. \A q \in DOMAIN passes : q # p => passes[q].gone \cap new.gone = {}
                                        /\ passes[q].added \cap new.added = {}
  BY <1>4, <1>6 DEF Apart
<1>10. /\ OnceTheTable(new.seen) /\ (new.gone # {} => new.gone = rows)
       /\ new.added \subseteq Estimates(new.read)
  BY <1>1, <1>4, <1>5 DEF Clears
<1> QED
  BY <1>1, <1>2, <1>3, <1>4, <1>8, <1>9, <1>10, PassPlacing

\* A pass that has ended keeps what it read and nothing else.
LEMMA EndedPass ==
    ASSUME PassesTyped, NEW p \in DOMAIN passes, NEW step \in {"written", "failed"},
           passes' = Ended(p, step)
    PROVE  \E pass \in Passes :
              /\ passes' = [passes EXCEPT ![p] = pass]
              /\ pass.step = step /\ pass.read = passes[p].read
              /\ pass.seen = {} /\ pass.gone = {} /\ pass.added = {}
<1> DEFINE new == [passes[p] EXCEPT !.step = step, !.seen = {}, !.gone = {}, !.added = {}]
<1>1. passes[p] \in Passes
  BY APass
<1>2. new \in Passes
  BY <1>1 DEF Passes
<1>3. /\ new.step = step /\ new.read = passes[p].read
      /\ new.seen = {} /\ new.gone = {} /\ new.added = {}
  BY <1>1 DEF Passes
<1>4. passes' = [passes EXCEPT ![p] = new]
  BY DEF Ended
<1> QED
  BY <1>2, <1>3, <1>4

LEMMA AbandonPlacing ==
    ASSUME Placing, NEW p \in DOMAIN passes, Abandon(p)
    PROVE  Placing'
<1>1. PICK pass \in Passes :
         /\ passes' = [passes EXCEPT ![p] = pass]
         /\ pass.step = "failed" /\ pass.read = passes[p].read
         /\ pass.seen = {} /\ pass.gone = {} /\ pass.added = {}
  BY EndedPass DEF Placing, Abandon
<1>2. passes[p].step # "written" /\ UNCHANGED <<heard, rows>>
  BY DEF Abandon
<1> QED
  BY <1>1, <1>2, PassPlacing DEF OnceTheTable

LEMMA CommitRowsPlacing ==
    ASSUME Placing, NEW p \in DOMAIN passes, CommitRows(p)
    PROVE  Placing'
<1>1. PICK pass \in Passes :
         /\ passes' = [passes EXCEPT ![p] = pass]
         /\ pass.step = "written" /\ pass.read = passes[p].read
         /\ pass.seen = {} /\ pass.gone = {} /\ pass.added = {}
  BY EndedPass DEF Placing, CommitRows
<1>2. /\ passes' \in Seq(Passes) /\ Len(passes') <= MaxPasses
      /\ DOMAIN passes' = DOMAIN passes
      /\ \A q \in DOMAIN passes : passes'[q] = IF q = p THEN pass ELSE passes[q]
  BY <1>1, OnePass DEF Placing
<1>3. /\ Clears(p) /\ passes[p].step = "inserting" /\ heard' = heard
      /\ passes[p].added = Estimates(passes[p].read)
  BY DEF Placing, CommitRows, PassAt, Unwritten, Clears
<1>4. rows' = (rows \ passes[p].gone) \cup RowsOf(p)
  BY <1>3 DEF CommitRows, RowsOf
<1>5. \A q \in DOMAIN passes : passes'[q].read = passes[q].read
                               /\ (PassAt(q, "written") => PassAt(q, "written")')
                               /\ RowsOf(q)' = RowsOf(q)
  BY <1>1, <1>2 DEF PassAt, RowsOf
<1>6. PassAt(p, "written")'
  BY <1>1, <1>2 DEF PassAt
\* What the pass leaves in the table is nothing, or else it inserted nothing.
<1>7. \/ rows \ passes[p].gone = {}
      \/ rows' = rows /\ Estimates(passes[p].read) = {}
  <2>1. CASE passes[p].gone # {}
    BY <1>3, <2>1 DEF Clears
  <2>2. CASE passes[p].gone = {} /\ rows # {}
    <3>1. PICK q \in DOMAIN passes : PassAt(q, "written") /\ rows = RowsOf(q)
      BY <2>2 DEF Placing, CellsAreOfOnePass
    <3>2. Estimates(passes[q].read) # {}
      BY <2>2, <3>1, RowsAreTagged
    <3>3. \A c \in Estimates(passes[q].read) : c \notin passes[p].added
      <4> TAKE c \in Estimates(passes[q].read)
      <4>1. [cell |-> c, pass |-> q] \in rows
        BY <3>1, RowsAreTagged
      <4> QED
        BY <1>3, <2>2, <4>1 DEF Clears
    <3>4. Estimates(passes[p].read) = {}
      BY <1>3, <3>2, <3>3, ReadsNest DEF Placing
    <3>5. RowsOf(p) = {}
      BY <3>4, RowsAreTagged
    <3> QED
      BY <1>4, <2>2, <3>4, <3>5
  <2> QED
    BY <2>1, <2>2
<1>8. rows' = RowsOf(p) \/ rows' = rows
  BY <1>4, <1>7
<1>9. PassesTyped'
  <2>1. RowsOf(p) \subseteq CellRows
    BY APass DEF Placing, RowsOf, CellRows, Estimates
  <2> QED
    BY <1>2, <1>3, <1>8, <2>1 DEF Placing, PassesTyped, CellSitesTypeOK
<1>10. ReadsGrow'
  BY <1>2, <1>3, <1>5 DEF Placing, ReadsGrow
<1>11. CellsAreOfOnePass'
  <2>1. CASE rows' = RowsOf(p)
    BY <1>2, <1>5, <1>6, <2>1 DEF CellsAreOfOnePass
  <2>2. CASE rows' = rows /\ rows # {}
    BY <1>2, <1>5, <2>2 DEF Placing, CellsAreOfOnePass
  <2>3. CASE rows' = rows /\ rows = {}
    <3>1. RowsOf(p) = {}
      BY <1>4, <2>3
    <3> QED
      BY <1>2, <1>5, <1>6, <2>3, <3>1 DEF CellsAreOfOnePass
  <2> QED
    BY <1>8, <2>1, <2>2, <2>3
<1>12. \A set : OnceTheTable(set) => OnceTheTable(set)'
  BY <1>2, <1>5, OnceStaysOnce
<1>13. \A q, r \in DOMAIN passes' : q # r => Apart(q, r)'
  BY <1>1, <1>2 DEF Placing, Apart
<1>14. ASSUME NEW q \in DOMAIN passes', q # p PROVE Clears(q)'
  <2>1. passes'[q] = passes[q] /\ Clears(q) /\ Apart(q, p)
    BY <1>2, <1>14 DEF Placing
  <2>2. passes[q].gone # {} => passes[q].gone = rows'
    <3> SUFFICES ASSUME passes[q].gone # {} PROVE rows' = rows
      BY <2>1 DEF Clears
    <3>1. passes[q].gone = rows /\ passes[p].gone \cap rows = {}
      BY <2>1 DEF Clears, Apart
    <3>2. rows \ passes[p].gone # {}
      BY <3>1
    <3> QED
      BY <1>7, <3>2
  <2>3. \A row \in rows' \ passes[q].gone : row.cell \notin passes[q].added
    BY <1>3, <1>4, <2>1, RowsAreTagged DEF Clears, Apart
  <2> QED
    BY <1>12, <2>1, <2>2, <2>3 DEF Clears
<1>15. Clears(p)'
  <2>1. passes'[p] = pass
    BY <1>2
  <2> QED
    BY <1>1, <2>1 DEF Clears, OnceTheTable
<1> QED
  BY <1>2, <1>9, <1>10, <1>11, <1>13, <1>14, <1>15 DEF Placing

LEMMA PlacingStep == Placing /\ [CellSitesNext]_cellSites => Placing'
<1> SUFFICES ASSUME Placing, [CellSitesNext]_cellSites PROVE Placing'
  OBVIOUS
<1>1. CASE CellSitesNext
  BY <1>1, HearCellPlacing, ReadHistoryPlacing, BeginDeletePlacing, DeleteRowsPlacing,
     CommitRowsPlacing, AbandonPlacing, InsertCellPlacing DEF CellSitesNext
<1>2. CASE UNCHANGED cellSites
  BY <1>2 DEF cellSites, Placing, PassesTyped, CellSitesTypeOK, ReadsGrow, Clears, OnceTheTable,
     Apart, CellsAreOfOnePass, RowsOf, PassAt
<1> QED
  BY <1>1, <1>2

-----------------------------------------------------------------------------
(* The figures.                                                            *)

\* The units of the formats.
Units == {10, 60, 100, 1000, 3600, 10000, 86400}

\* Of two amounts the smaller lies in the same multiple of a unit or in an
\* earlier one.
LEMMA Multiples ==
    ASSUME NEW u \in Units, NEW m \in Nat, NEW n \in Nat, m <= n
    PROVE  /\ (m \div u) * u \in Nat
           /\ (m \div u) * u <= m /\ m < (m \div u) * u + u
           /\ \/ (m \div u) * u = (n \div u) * u
              \/ (m \div u) * u + u <= (n \div u) * u
<1>1. CASE u = 10
  BY <1>1, SMT
<1>2. CASE u = 60
  BY <1>2, SMT
<1>3. CASE u = 100
  BY <1>3, SMT
<1>4. CASE u = 1000
  BY <1>4, SMT
<1>5. CASE u = 3600
  BY <1>5, SMT
<1>6. CASE u = 10000
  BY <1>6, SMT
<1>7. CASE u = 86400
  BY <1>7, SMT
<1> QED
  BY <1>1, <1>2, <1>3, <1>4, <1>5, <1>6, <1>7 DEF Units

LEMMA NearestIsNear ==
    ASSUME NEW u \in Units, NEW n \in Nat, NEW x \in ToNearest(n, u)
    PROVE  /\ x \in Nat /\ 2 * x <= 2 * n + u /\ 2 * n <= 2 * x + u
           /\ x = (n \div u) * u \/ x = (n \div u) * u + u
<1>1. (n \div u) * u \in Nat /\ u \in Nat
  BY Multiples DEF Units
<1> QED
  BY <1>1 DEF ToNearest

LEMMA NearestKeepsOrder ==
    ASSUME NEW u \in Units, NEW m \in Nat, NEW n \in Nat, m < n,
           NEW x \in ToNearest(m, u), NEW y \in ToNearest(n, u)
    PROVE  x <= y
<1>1. /\ x \in Nat /\ 2 * x <= 2 * m + u /\ (x = (m \div u) * u \/ x = (m \div u) * u + u)
      /\ y \in Nat /\ 2 * n <= 2 * y + u /\ (y = (n \div u) * u \/ y = (n \div u) * u + u)
  BY NearestIsNear
<1>2. /\ (m \div u) * u \in Nat /\ (n \div u) * u \in Nat /\ u \in Nat
      /\ \/ (m \div u) * u = (n \div u) * u
         \/ (m \div u) * u + u <= (n \div u) * u
  BY Multiples DEF Units
<1> DEFINE a == (m \div u) * u
           b == (n \div u) * u
<1>3. /\ a \in Nat /\ b \in Nat /\ u \in Nat
      /\ x = a \/ x = a + u
      /\ y = b \/ y = b + u
      /\ a = b \/ a + u <= b
  BY <1>1, <1>2
<1> HIDE DEF a, b
<1> QED
  BY <1>1, <1>3

\* Rounding halves up keeps the order, and what is a whole number of units.
LEMMA HalfUpKeepsOrder ==
    ASSUME NEW u \in Units, NEW m \in Nat, NEW n \in Nat, m <= n
    PROVE  HalfUp(m, u) \in Nat /\ HalfUp(m, u) <= HalfUp(n, u)
<1>1. CASE u = 10
  BY <1>1, SMT DEF HalfUp
<1>2. CASE u = 60
  BY <1>2, SMT DEF HalfUp
<1>3. CASE u = 100
  BY <1>3, SMT DEF HalfUp
<1>4. CASE u = 1000
  BY <1>4, SMT DEF HalfUp
<1>5. CASE u = 3600
  BY <1>5, SMT DEF HalfUp
<1>6. CASE u = 10000
  BY <1>6, SMT DEF HalfUp
<1>7. CASE u = 86400
  BY <1>7, SMT DEF HalfUp
<1> QED
  BY <1>1, <1>2, <1>3, <1>4, <1>5, <1>6, <1>7 DEF Units

LEMMA WholeUnits ==
    /\ HalfUp(9999, 10) = 10000 /\ HalfUp(9999, 100) = 10000
    /\ HalfUp(10000000, 10000) = 10000000
    /\ HalfUp(Hour, Hour) = Hour /\ HalfUp(2 * Day, Day) = 2 * Day
    /\ Minute = 60 /\ Hour = 3600 /\ Day = 86400
BY SMT DEF HalfUp, Hour, Day, Minute

LEMMA NearestAbove ==
    ASSUME NEW n \in Nat
    PROVE  /\ n >= 10000 => \A x \in ToNearest(n, 1000) : x \in Nat /\ x >= 10000
           /\ n >= 100000 => \A x \in ToNearest(n, 10000) : x \in Nat /\ x >= 100000
           /\ n >= 100 => \A x \in ToNearest(n, 100) : x \in Nat /\ x >= 100
           /\ n < 10000000 => \A x \in ToNearest(n, 1000) : x <= 10000000
           /\ n < 100000 => \A x \in ToNearest(n, 1000) : x <= 100000
           /\ n < 10000 => \A x \in ToNearest(n, 100) : x <= 10000
BY SMT DEF ToNearest

LEMMA SpeedKeepsOrder ==
    ASSUME NEW m \in Nat, NEW n \in Nat, m < n, NEW x \in FormatSpeed(m), NEW y \in FormatSpeed(n)
    PROVE  x <= y
<1>1. CASE m >= 10000
  BY <1>1, NearestKeepsOrder DEF FormatSpeed, Units
<1>2. CASE n < 10000
  BY <1>2, HalfUpKeepsOrder DEF FormatSpeed, Units
<1>3. CASE m < 10000 /\ n >= 10000
  <2>1. x = HalfUp(m, 10) /\ m <= 9999
    BY <1>3 DEF FormatSpeed
  <2>2. x \in Nat /\ x <= 10000
    BY <2>1, HalfUpKeepsOrder, WholeUnits DEF Units
  <2>3. y \in Nat /\ y >= 10000
    BY <1>3, NearestAbove DEF FormatSpeed
  <2> QED
    BY <2>2, <2>3
<1> QED
  BY <1>1, <1>2, <1>3

LEMMA AreaKeepsOrder ==
    ASSUME NEW m \in Nat, NEW n \in Nat, m < n, NEW x \in FormatArea(m), NEW y \in FormatArea(n)
    PROVE  x <= y
<1>1. CASE m >= 10000000
  BY <1>1, HalfUpKeepsOrder DEF FormatArea, Units
<1>2. CASE m >= 10000 /\ m < 10000000 /\ n < 10000000
  BY <1>2, NearestKeepsOrder DEF FormatArea, Units
<1>3. CASE n < 10000
  BY <1>3, HalfUpKeepsOrder DEF FormatArea, Units
<1>4. CASE m >= 10000 /\ m < 10000000 /\ n >= 10000000
  <2>1. x \in Nat /\ x <= 10000000
    BY <1>4, NearestAbove DEF FormatArea
  <2>2. y = HalfUp(n, 10000)
    BY <1>4 DEF FormatArea
  <2>3. y \in Nat /\ y >= 10000000
    BY <1>4, <2>2, HalfUpKeepsOrder, WholeUnits DEF Units
  <2> QED
    BY <2>1, <2>3
<1>5. CASE m < 10000 /\ n >= 10000
  <2>1. x = HalfUp(m, 100) /\ m <= 9999
    BY <1>5 DEF FormatArea
  <2>2. x \in Nat /\ x <= 10000
    BY <2>1, HalfUpKeepsOrder, WholeUnits DEF Units
  <2>3. CASE n < 10000000
    BY <1>5, <2>2, <2>3, NearestAbove DEF FormatArea
  <2>4. CASE n >= 10000000
    <3>1. y = HalfUp(n, 10000)
      BY <2>4 DEF FormatArea
    <3>2. y \in Nat /\ y >= 10000000
      BY <2>4, <3>1, HalfUpKeepsOrder, WholeUnits DEF Units
    <3> QED
      BY <2>2, <3>2
  <2> QED
    BY <2>3, <2>4
<1> QED
  BY <1>1, <1>2, <1>3, <1>4, <1>5

LEMMA ShareKeepsOrder ==
    ASSUME NEW m \in Nat, NEW n \in Nat, m < n, NEW x \in FormatShare(m), NEW y \in FormatShare(n)
    PROVE  x <= y
<1>1. CASE m >= 100000
  BY <1>1, NearestKeepsOrder DEF FormatShare, Units
<1>2. CASE m >= 10000 /\ m < 100000 /\ n < 100000
  BY <1>2, NearestKeepsOrder DEF FormatShare, Units
<1>3. CASE m >= 100 /\ m < 10000 /\ n < 10000
  BY <1>3, NearestKeepsOrder DEF FormatShare, Units
<1>4. CASE m >= 10000 /\ m < 100000 /\ n >= 100000
  <2>1. x \in Nat /\ x <= 100000
    BY <1>4, NearestIsNear, NearestAbove DEF FormatShare, Units
  <2>2. y \in Nat /\ y >= 100000
    BY <1>4, NearestAbove DEF FormatShare
  <2> QED
    BY <2>1, <2>2
<1>5. CASE m >= 100 /\ m < 10000 /\ n >= 10000
  <2>1. x \in Nat /\ x <= 10000
    BY <1>5, NearestAbove DEF FormatShare
  <2>2. y \in Nat /\ y >= 10000
    BY <1>5, NearestAbove DEF FormatShare
  <2> QED
    BY <2>1, <2>2
<1>6. CASE m < 100
  <2>1. x \in {0, Trace}
    BY <1>6 DEF FormatShare
  <2>2. CASE n < 100
    BY <2>1, <2>2 DEF FormatShare, Trace
  <2>3. CASE n >= 100
    <3>1. y \in Nat /\ y >= 100
      BY <2>3, NearestAbove DEF FormatShare
    <3> QED
      BY <2>1, <3>1 DEF Trace
  <2> QED
    BY <2>2, <2>3
<1> QED
  BY <1>1, <1>2, <1>3, <1>4, <1>5, <1>6

LEMMA AgeKeepsOrder ==
    ASSUME NEW m \in Nat, NEW n \in Nat, m < n, NEW x \in FormatAge(m), NEW y \in FormatAge(n)
    PROVE  x <= y
<1> DEFINE minutes(s) == HalfUp(s, Minute)
           hours(s) == HalfUp(minutes(s), Hour)
           days(s) == HalfUp(hours(s), Day)
<1>1. minutes(m) \in Nat /\ minutes(n) \in Nat /\ minutes(m) <= minutes(n)
  BY HalfUpKeepsOrder, WholeUnits DEF Units
<1>2. hours(m) \in Nat /\ hours(n) \in Nat /\ hours(m) <= hours(n)
  BY <1>1, HalfUpKeepsOrder, WholeUnits DEF Units
<1>3. days(m) \in Nat /\ days(n) \in Nat /\ days(m) <= days(n)
  BY <1>2, HalfUpKeepsOrder, WholeUnits DEF Units
<1>4. \A k \in Nat : k >= Hour => HalfUp(k, Hour) >= Hour
  BY HalfUpKeepsOrder, WholeUnits DEF Units
<1>5. \A k \in Nat : k >= 2 * Day => HalfUp(k, Day) >= 2 * Day
  BY HalfUpKeepsOrder, WholeUnits DEF Units
<1>6. minutes(n) >= Hour => hours(n) >= Hour
  BY <1>1, <1>4
<1>7. hours(n) >= 2 * Day => days(n) >= 2 * Day
  BY <1>2, <1>5
<1>8. /\ x = IF minutes(m) < Hour THEN minutes(m)
             ELSE IF hours(m) < 2 * Day THEN hours(m) ELSE days(m)
      /\ y = IF minutes(n) < Hour THEN minutes(n)
             ELSE IF hours(n) < 2 * Day THEN hours(n) ELSE days(n)
  BY DEF FormatAge
<1> HIDE DEF minutes, hours, days
<1> QED
  BY <1>1, <1>2, <1>3, <1>6, <1>7, <1>8, WholeUnits

\* The formats of coverage.ts keep the order of any two amounts and print a
\* share as nothing only when it is.
LEMMA FiguresAreInOrder == \A m, n \in Nat : OrderKept(m, n) /\ ShareIsHonest(n)
<1> SUFFICES ASSUME NEW m \in Nat, NEW n \in Nat PROVE OrderKept(m, n) /\ ShareIsHonest(n)
  OBVIOUS
<1>1. OrderKept(m, n)
  <2> SUFFICES ASSUME m < n, NEW f \in Formats, NEW x \in Printed(f, m), NEW y \in Printed(f, n)
               PROVE  x <= y
    BY DEF OrderKept
  <2>1. CASE f = "speed"
    BY <2>1, SpeedKeepsOrder DEF Printed
  <2>2. CASE f = "area"
    BY <2>2, AreaKeepsOrder DEF Printed
  <2>3. CASE f = "share"
    BY <2>3, ShareKeepsOrder DEF Printed
  <2>4. CASE f = "age"
    BY <2>4, AgeKeepsOrder DEF Printed
  <2> QED
    BY <2>1, <2>2, <2>3, <2>4 DEF Formats
<1>2. 0 \in FormatShare(n) <=> n = 0
  <2>1. CASE n = 0
    BY <2>1 DEF FormatShare
  <2>2. CASE n > 0 /\ n < 100
    BY <2>2 DEF FormatShare, Trace
  <2>3. CASE n >= 100
    <3>1. \A x \in FormatShare(n) : x \in Nat /\ x >= 100
      BY <2>3, NearestAbove DEF FormatShare
    <3> QED
      BY <2>3, <3>1
  <2> QED
    BY <2>1, <2>2, <2>3
<1>3. ASSUME n >= 1000, NEW x \in FormatShare(n)
      PROVE  20 * (IF x >= n THEN x - n ELSE n - x) <= n
  <2>1. CASE n < 10000
    BY <1>3, <2>1, NearestIsNear DEF FormatShare, Units
  <2>2. CASE n >= 10000 /\ n < 100000
    BY <1>3, <2>2, NearestIsNear DEF FormatShare, Units
  <2>3. CASE n >= 100000
    BY <1>3, <2>3, NearestIsNear DEF FormatShare, Units
  <2> QED
    BY <2>1, <2>2, <2>3
<1> QED
  BY <1>1, <1>2, <1>3 DEF ShareIsHonest

-----------------------------------------------------------------------------
(* The dashboard pages.                                                    *)

ServerTyped ==
    server \in [measured: SUBSET Operators, dead: BOOLEAN, fleet: BOOLEAN, linked: BOOLEAN]

Asked == [request : Requests, turn : Nat, area : Regions]

\* What is under way was asked no later than the present turn, and so was what
\* the towers' answer was asked for.
InTurn ==
    /\ open \in DOMAIN PageRequests /\ region \in Regions /\ turn \in 0..MaxTurns
    /\ asked \subseteq Asked /\ \A a \in asked : a.turn <= turn
    /\ got = [r \in Requests |-> got[r]]
    /\ got["towers"].is = "answer" =>
          got["towers"].of.turn \in Nat /\ got["towers"].of.turn <= turn

Hearing == ServerTyped /\ InTurn /\ PagesHearTheirOwn

LEMMA RequestsOfPages ==
    \A page \in DOMAIN PageRequests : PageRequests[page] \subseteq Requests
BY DEF PageRequests, Requests

LEMMA InitHearing == FetchedInit => Hearing
<1> SUFFICES ASSUME FetchedInit PROVE Hearing
  OBVIOUS
<1>1. \A r \in Requests : got[r] = Nothing
  BY DEF FetchedInit, Empty
<1>2. got["towers"].is # "answer"
  BY <1>1 DEF Requests, Nothing
<1>3. open \in DOMAIN PageRequests
  BY DEF FetchedInit, PageRequests
<1> QED
  BY <1>1, <1>2, <1>3, FetchedAssumption
     DEF FetchedInit, Hearing, ServerTyped, InTurn, PagesHearTheirOwn, Empty

LEMMA OpenHearing ==
    ASSUME Hearing, NEW page \in DOMAIN PageRequests, Open(page)
    PROVE  Hearing'
<1>1. /\ open' = page /\ region' = region /\ turn' = turn + 1 /\ server' = server /\ got' = Empty
      /\ asked' = {[request |-> r, turn |-> turn + 1, area |-> region] : r \in PageRequests[page]}
  BY DEF Open, Ask, Closed
<1>2. turn \in Nat /\ turn + 1 \in 0..MaxTurns /\ region \in Regions
  BY FetchedAssumption DEF Hearing, InTurn, Open
<1>3. \A a \in asked' : /\ a.request \in PageRequests[page] /\ a.turn = turn + 1 /\ a.area = region
                        /\ a \in Asked
  BY <1>1, <1>2, RequestsOfPages DEF Asked
<1>4. \A a, b \in asked' : a.request = b.request => a = b
  BY <1>1
<1>5. \A r \in Requests : got'[r] = Nothing
  BY <1>1 DEF Empty
<1>6. got'["towers"].is # "answer"
  BY <1>5 DEF Requests, Nothing
<1>7. InTurn'
  BY <1>1, <1>2, <1>3, <1>6 DEF InTurn, Empty
<1>8. PagesHearTheirOwn'
  BY <1>1, <1>3, <1>4, <1>5, <1>6 DEF PagesHearTheirOwn
<1> QED
  BY <1>1, <1>7, <1>8 DEF Hearing, ServerTyped

LEMMA ChooseHearing ==
    ASSUME Hearing, NEW area \in Regions, Choose(area)
    PROVE  Hearing'
<1>1. region' = area /\ turn' = turn + 1 /\ server' = server /\ open' = open /\ got' = got
  BY DEF Choose
<1>2. turn \in Nat /\ turn + 1 \in 0..MaxTurns
  BY FetchedAssumption DEF Hearing, InTurn, Choose
<1> DEFINE new == [request |-> "towers", turn |-> turn + 1, area |-> area]
<1>3. new \in Asked /\ new.request = "towers" /\ new.turn = turn + 1 /\ new.area = area
  BY <1>2 DEF Asked, Requests
<1>4. \/ /\ open = "networks" /\ asked' = {a \in asked : a.request # "towers"} \cup {new}
         /\ "towers" \in PageRequests[open]
      \/ /\ open # "networks" /\ asked' = asked /\ "towers" \notin PageRequests[open]
  <2>1. open = "networks" => "towers" \in PageRequests[open]
    BY DEF PageRequests
  <2>2. open # "networks" => "towers" \notin PageRequests[open]
    BY DEF PageRequests, Hearing, InTurn
  <2>3. open = "networks" => asked' = {a \in asked : a.request # "towers"} \cup {new}
    BY DEF Choose, Superseded, Ask
  <2>4. open # "networks" => asked' = asked
    BY DEF Choose
  <2> QED
    BY <2>1, <2>2, <2>3, <2>4
<1> HIDE DEF new
<1>5. /\ \A a \in asked : a.request \in PageRequests[open] /\ a \in Asked /\ a.turn <= turn
      /\ \A a, b \in asked : a.request = b.request => a = b
  BY DEF Hearing, InTurn, PagesHearTheirOwn
<1>6. \A a \in asked' : /\ a \in Asked /\ a.turn <= turn + 1
                        /\ a.request \in PageRequests[open]
                        /\ a.request = "towers" => a = new
  BY <1>2, <1>3, <1>4, <1>5 DEF Asked
<1>7. \A a, b \in asked' : a.request = b.request => a = b
  BY <1>3, <1>4, <1>5
<1>8. InTurn'
  BY <1>1, <1>2, <1>6 DEF Hearing, InTurn
<1>9. PagesHearTheirOwn'
  BY <1>1, <1>2, <1>3, <1>6, <1>7 DEF Hearing, InTurn, PagesHearTheirOwn
<1> QED
  BY <1>1, <1>8, <1>9 DEF Hearing, ServerTyped

LEMMA EndedHearing ==
    ASSUME Hearing, NEW a \in asked, Answered(a) \/ Refused(a)
    PROVE  Hearing'
<1>1. /\ asked' = asked \ {a} /\ UNCHANGED <<server, open, region, turn>>
      /\ a \in Asked /\ a.turn <= turn /\ a.request \in PageRequests[open]
  BY DEF Hearing, InTurn, PagesHearTheirOwn, Answered, Refused
<1>2. PICK value :
         /\ got' = [got EXCEPT ![a.request] = value]
         /\ \/ value = Answer(AnswerTo(a.request), [turn |-> a.turn, area |-> a.area])
            \/ value = Failed \/ value = got[a.request]
  BY DEF Answered, Refused
<1>3. /\ got' = [r \in Requests |-> got'[r]]
      /\ \A r \in Requests : got'[r] = IF r = a.request THEN value ELSE got[r]
  BY <1>1, <1>2 DEF Hearing, InTurn, Asked
<1>4. \A b \in asked' : b.request # a.request
  BY <1>1 DEF Hearing, PagesHearTheirOwn
<1>5. value.is = "answer" => value = got[a.request] \/ value.of.turn = a.turn
  BY <1>2 DEF Answer, Failed
<1>6. got'["towers"].is = "answer" =>
         /\ got'["towers"].of.turn \in Nat /\ got'["towers"].of.turn <= turn
         /\ \A b \in asked' : b.request = "towers" => b.turn > got'["towers"].of.turn
  <2>1. CASE a.request = "towers"
    BY <1>1, <1>3, <1>4, <1>5, <2>1 DEF Hearing, InTurn, Asked, Requests
  <2>2. CASE a.request # "towers"
    BY <1>1, <1>3, <2>2 DEF Hearing, InTurn, PagesHearTheirOwn, Requests
  <2> QED
    BY <2>1, <2>2
<1>7. InTurn'
  BY <1>1, <1>3, <1>6 DEF Hearing, InTurn
<1>8. \A r \in Requests : got'[r] # Nothing => r \in PageRequests[open]
  BY <1>1, <1>3 DEF Hearing, PagesHearTheirOwn
<1>9. PagesHearTheirOwn'
  BY <1>1, <1>6, <1>8 DEF Hearing, PagesHearTheirOwn
<1> QED
  BY <1>1, <1>7, <1>9 DEF Hearing, ServerTyped

LEMMA HearingStep == Hearing /\ [FetchedNext]_fetched => Hearing'
<1> SUFFICES ASSUME Hearing, [FetchedNext]_fetched PROVE Hearing'
  OBVIOUS
<1>1. CASE ServerGains
  <2>1. ServerTyped'
    BY <1>1 DEF ServerGains, Hearing, ServerTyped
  <2> QED
    BY <1>1, <2>1 DEF ServerGains, Hearing, InTurn, PagesHearTheirOwn
<1>2. CASE UNCHANGED fetched
  BY <1>2 DEF fetched, Hearing, ServerTyped, InTurn, PagesHearTheirOwn
<1> QED
  BY <1>1, <1>2, OpenHearing, ChooseHearing, EndedHearing DEF FetchedNext

-----------------------------------------------------------------------------
(* The fleet, the note and the upload.                                     *)

CrewRows == [place: Places \cup {Nowhere}, reporting: BOOLEAN, judged: BOOLEAN,
             mast: [metres: Nat, give: Nat]]

CrewTyped == crew \in Seq(CrewRows) /\ Len(crew) <= MaxCrew

LEMMA Joined ==
    ASSUME NEW S, NEW s \in Seq(S), NEW t \in Seq(S)
    PROVE  s \o t \in Seq(S) /\ Len(s \o t) = Len(s) + Len(t)
OBVIOUS

LEMMA MovedToTheFront ==
    ASSUME NEW S, NEW s \in Seq(S), NEW i \in DOMAIN s, NEW x \in S
    PROVE  /\ <<x>> \o RemoveAt(s, i) \in Seq(S)
           /\ Len(<<x>> \o RemoveAt(s, i)) = Len(s)
<1>1. SubSeq(s, 1, i - 1) \in Seq(S) /\ Len(SubSeq(s, 1, i - 1)) = i - 1
  OBVIOUS
<1>2. SubSeq(s, i + 1, Len(s)) \in Seq(S) /\ Len(SubSeq(s, i + 1, Len(s))) = Len(s) - i
  OBVIOUS
<1>3. RemoveAt(s, i) \in Seq(S) /\ Len(RemoveAt(s, i)) = Len(s) - 1
  <2> DEFINE front == SubSeq(s, 1, i - 1)
             back == SubSeq(s, i + 1, Len(s))
  <2>1. RemoveAt(s, i) = front \o back
    BY DEF RemoveAt
  <2>2. /\ front \in Seq(S) /\ Len(front) = i - 1
        /\ back \in Seq(S) /\ Len(back) = Len(s) - i
    BY <1>1, <1>2
  <2>4. i \in Int /\ Len(s) \in Int
    OBVIOUS
  <2> HIDE DEF front, back
  <2>3. front \o back \in Seq(S) /\ Len(front \o back) = Len(front) + Len(back)
    BY <2>2, Joined
  <2>5. Len(front) + Len(back) = Len(s) - 1
    BY <2>2, <2>4
  <2> QED
    BY <2>1, <2>3, <2>5
<1>4. <<x>> \in Seq(S) /\ Len(<<x>>) = 1
  OBVIOUS
<1> QED
  BY <1>3, <1>4

LEMMA CrewTypedStep == CrewTyped /\ [FleetNext]_crew => CrewTyped'
<1> SUFFICES ASSUME CrewTyped, [FleetNext]_crew PROVE CrewTyped'
  OBVIOUS
<1>0. crew \in Seq(CrewRows) /\ \A i \in DOMAIN crew : crew[i] \in CrewRows
  BY DEF CrewTyped
<1>m. \A m, g \in Nat : Mast(m, g) \in [metres: Nat, give: Nat]
  BY DEF Mast
<1>1. CASE Enrol
  <2> DEFINE row == [place |-> Nowhere, reporting |-> TRUE, judged |-> FALSE, mast |-> NoMast]
  <2>1. row \in CrewRows
    BY <1>m DEF CrewRows, NoMast
  <2>2. crew' = <<row>> \o crew /\ Len(crew) < MaxCrew
    BY <1>1 DEF Enrol
  <2> HIDE DEF row
  <2>3. crew' \in Seq(CrewRows) /\ Len(crew') = Len(crew) + 1
    BY <1>0, <2>1, <2>2
  <2> QED
    BY <1>0, <2>2, <2>3, FleetAssumption DEF CrewTyped
<1>2. ASSUME NEW i \in DOMAIN crew, NEW row \in CrewRows, crew' = <<row>> \o RemoveAt(crew, i)
      PROVE  CrewTyped'
  BY <1>0, <1>2, MovedToTheFront DEF CrewTyped
<1>3. ASSUME NEW i \in DOMAIN crew, NEW place \in Places, NEW mast \in [metres: Nat, give: Nat],
             Upload(i, place, mast)
      PROVE  CrewTyped'
  <2>1. [place |-> place, reporting |-> TRUE, judged |-> TRUE, mast |-> mast] \in CrewRows
    BY DEF CrewRows
  <2> QED
    BY <1>2, <1>3, <2>1 DEF Upload
<1>4. ASSUME NEW i \in DOMAIN crew, UploadRefused(i) PROVE CrewTyped'
  <2>1. [crew[i] EXCEPT !.reporting = TRUE, !.judged = TRUE] \in CrewRows
    BY <1>0 DEF CrewRows
  <2> QED
    BY <1>2, <1>4, <2>1 DEF UploadRefused
<1>5. ASSUME NEW i \in DOMAIN crew, EnrolAgain(i) PROVE CrewTyped'
  <2>1. [crew[i] EXCEPT !.reporting = TRUE] \in CrewRows
    BY <1>0 DEF CrewRows
  <2> QED
    BY <1>2, <1>5, <2>1 DEF EnrolAgain
<1>6. ASSUME NEW i \in DOMAIN crew, FallSilent(i) PROVE CrewTyped'
  <2>1. [crew[i] EXCEPT !.reporting = FALSE] \in CrewRows
    BY <1>0 DEF CrewRows
  <2>2. crew' = [crew EXCEPT ![i] = [crew[i] EXCEPT !.reporting = FALSE]]
    BY <1>6 DEF FallSilent
  <2> QED
    BY <1>0, <2>1, <2>2 DEF CrewTyped
<1>7. CASE UNCHANGED crew
  BY <1>7 DEF CrewTyped
<1>8. NoMast \in [metres: Nat, give: Nat]
        /\ \A m \in Distances, g \in Gives : Mast(m, g) \in [metres: Nat, give: Nat]
  BY <1>m, FleetAssumption DEF NoMast
<1> QED
  BY <1>1, <1>3, <1>4, <1>5, <1>6, <1>7, <1>8 DEF FleetNext

-----------------------------------------------------------------------------
(* The methods note.                                                       *)

Increasing(lines) == \A j, k \in DOMAIN lines : j < k => lines[j] < lines[k]
LinesOf(blocks) == UNION {Range(blocks[n].lines) : n \in DOMAIN blocks}
HeadersOf(blocks) == {blocks[n].lines[1] : n \in {m \in DOMAIN blocks : blocks[m].kind = "table"}}
InTheirOrder(blocks) ==
  /\ \A n \in DOMAIN blocks : Increasing(blocks[n].lines)
  /\ \A m, n \in DOMAIN blocks : m < n =>
        \A i \in Range(blocks[m].lines), j \in Range(blocks[n].lines) : i < j

\* The loop invariant of `parse`: what is in the blocks and in the paragraph under
\* way is what is to be shown of the lines before the current one.
ReadSoFar(note, s) ==
  /\ s \in [at : 1 .. Len(note) + 1, paragraph : Seq(Nat), blocks : Seq(Blocks)]
  /\ InTheirOrder(s.blocks) /\ Increasing(s.paragraph)
  /\ \A i \in LinesOf(s.blocks), j \in Range(s.paragraph) : i < j
  /\ LinesOf(s.blocks) \cup Range(s.paragraph)
        = {i \in 1 .. s.at - 1 : note[i] # "blank" /\ i - 1 \notin HeadersOf(s.blocks)}
  /\ \A h \in HeadersOf(s.blocks) : h \in Nat /\ h + 1 < s.at /\ note[h + 1] = "divider"

\* The last block is put behind the others.
LEMMA BlockAdded ==
  ASSUME NEW blocks \in Seq(Blocks), NEW b \in Blocks,
         InTheirOrder(blocks), Increasing(b.lines),
         \A i \in LinesOf(blocks), j \in Range(b.lines) : i < j
  PROVE  LET all == Append(blocks, b)
         IN  /\ all \in Seq(Blocks) /\ InTheirOrder(all)
             /\ LinesOf(all) = LinesOf(blocks) \cup Range(b.lines)
             /\ HeadersOf(all) = HeadersOf(blocks) \cup
                   (IF b.kind = "table" THEN {b.lines[1]} ELSE {})
<1> DEFINE all == Append(blocks, b)
<1>1. /\ all \in Seq(Blocks) /\ DOMAIN all = DOMAIN blocks \cup {Len(blocks) + 1}
      /\ all[Len(blocks) + 1] = b /\ \A n \in DOMAIN blocks : all[n] = blocks[n]
      /\ DOMAIN blocks = 1 .. Len(blocks) /\ Len(blocks) \in Nat
  OBVIOUS
<1> HIDE DEF all
<1>2. LinesOf(all) = LinesOf(blocks) \cup Range(b.lines)
  BY <1>1 DEF LinesOf
<1>3. HeadersOf(all) = HeadersOf(blocks) \cup (IF b.kind = "table" THEN {b.lines[1]} ELSE {})
  BY <1>1 DEF HeadersOf
<1>4. \A n \in DOMAIN all : Increasing(all[n].lines)
  BY <1>1 DEF InTheirOrder
<1>5. ASSUME NEW m \in DOMAIN all, NEW n \in DOMAIN all, m < n,
             NEW i \in Range(all[m].lines), NEW j \in Range(all[n].lines)
      PROVE  i < j
  <2>1. m \in DOMAIN blocks /\ all[m] = blocks[m]
    BY <1>1, <1>5
  <2>2. CASE n \in DOMAIN blocks
    BY <1>1, <1>5, <2>1, <2>2 DEF InTheirOrder
  <2>3. CASE n = Len(blocks) + 1
    <3>1. i \in LinesOf(blocks) /\ j \in Range(b.lines)
      BY <1>1, <2>1, <2>3 DEF LinesOf
    <3> QED
      BY <3>1
  <2> QED
    BY <1>1, <2>2, <2>3
<1> QED
  BY <1>1, <1>2, <1>3, <1>4, <1>5 DEF InTheirOrder, all

\* `flush` moves the paragraph under way to the blocks.
LEMMA FlushedReads ==
  ASSUME NEW note \in Seq(LineKinds), NEW s, ReadSoFar(note, s)
  PROVE  ReadSoFar(note, [at |-> s.at, paragraph |-> <<>>, blocks |-> Flush(s.paragraph, s.blocks)])
<1> DEFINE b == Block("paragraph", s.paragraph)
           all == Append(s.blocks, b)
<1>1. s.at \in 1 .. Len(note) + 1 /\ s.paragraph \in Seq(Nat) /\ s.blocks \in Seq(Blocks)
  BY DEF ReadSoFar
<1>2. <<>> \in Seq(Nat) /\ Range(<<>>) = {} /\ Increasing(<<>>)
  BY DEF Range, Increasing
<1>3. CASE s.paragraph = <<>>
  <2>1. Flush(s.paragraph, s.blocks) = s.blocks
    BY <1>3 DEF Flush
  <2> QED
    BY <1>1, <1>2, <1>3, <2>1 DEF ReadSoFar
<1>4. CASE s.paragraph # <<>>
  <2>1. Flush(s.paragraph, s.blocks) = all
    BY <1>4 DEF Flush
  <2>2. b \in Blocks /\ b.lines = s.paragraph /\ b.kind # "table"
    BY <1>1 DEF Block, Blocks
  <2> HIDE DEF b
  <2>3. /\ all \in Seq(Blocks) /\ InTheirOrder(all)
        /\ LinesOf(all) = LinesOf(s.blocks) \cup Range(s.paragraph)
        /\ HeadersOf(all) = HeadersOf(s.blocks)
    BY <1>1, <2>2, BlockAdded DEF ReadSoFar
  <2> HIDE DEF all
  <2> QED
    BY <1>1, <1>2, <2>1, <2>3 DEF ReadSoFar
<1> QED
  BY <1>3, <1>4

\* A block of the lines from the current one on is put behind the others.
LEMMA ShownReads ==
  ASSUME NEW note \in Seq(LineKinds), NEW i \in 1 .. Len(note), NEW blocks,
         ReadSoFar(note, [at |-> i, paragraph |-> <<>>, blocks |-> blocks]),
         NEW b \in Blocks, Increasing(b.lines), NEW next \in i + 1 .. Len(note) + 1,
         LET header == IF b.kind = "table" THEN {i} ELSE {}
         IN  /\ Range(b.lines) = {j \in i .. next - 1 : note[j] # "blank" /\ j - 1 \notin header}
             /\ b.kind = "table" => b.lines[1] = i /\ i + 1 < next /\ note[i + 1] = "divider"
  PROVE  ReadSoFar(note, [at |-> next, paragraph |-> <<>>, blocks |-> Append(blocks, b)])
<1> DEFINE s == [at |-> i, paragraph |-> <<>>, blocks |-> blocks]
           all == Append(blocks, b)
           new == [at |-> next, paragraph |-> <<>>, blocks |-> all]
           header == IF b.kind = "table" THEN {i} ELSE {}
<1>1. <<>> \in Seq(Nat) /\ Range(<<>>) = {} /\ Increasing(<<>>)
  BY DEF Range, Increasing
<1>2. /\ blocks \in Seq(Blocks) /\ InTheirOrder(blocks)
      /\ LinesOf(blocks) = {j \in 1 .. i - 1 : note[j] # "blank" /\ j - 1 \notin HeadersOf(blocks)}
      /\ \A h \in HeadersOf(blocks) : h \in Nat /\ h + 1 < i /\ note[h + 1] = "divider"
  BY <1>1 DEF ReadSoFar
<1>3. \A j \in LinesOf(blocks), k \in Range(b.lines) : j < k
  BY <1>2
<1>4. /\ all \in Seq(Blocks) /\ InTheirOrder(all)
      /\ LinesOf(all) = LinesOf(blocks) \cup Range(b.lines)
      /\ HeadersOf(all) = HeadersOf(blocks) \cup (IF b.kind = "table" THEN {b.lines[1]} ELSE {})
  BY <1>2, <1>3, BlockAdded
<1> HIDE DEF all
<1>5. HeadersOf(all) = HeadersOf(blocks) \cup header
  BY <1>4
<1>6. \A j \in 1 .. next - 1 : j - 1 \in HeadersOf(all) <=>
         IF j < i THEN j - 1 \in HeadersOf(blocks) ELSE j - 1 \in header
  BY <1>2, <1>5
<1> HIDE DEF header
<1>7. LinesOf(all) = {j \in 1 .. next - 1 : note[j] # "blank" /\ j - 1 \notin HeadersOf(all)}
  <2>1. Range(b.lines) = {j \in i .. next - 1 : note[j] # "blank" /\ j - 1 \notin header}
    BY DEF header
  <2> QED
    BY <1>2, <1>4, <1>6, <2>1, SMTT(30)
<1>8. \A h \in HeadersOf(all) : h \in Nat /\ h + 1 < next /\ note[h + 1] = "divider"
  BY <1>2, <1>5 DEF header
<1>9. next \in 1 .. Len(note) + 1
  OBVIOUS
<1> QED
  BY <1>1, <1>4, <1>7, <1>8, <1>9 DEF ReadSoFar, all

LEMMA UptoIs ==
  ASSUME NEW i \in Nat, NEW j \in Nat, i <= j + 1
  PROVE  /\ Upto(i, j) \in Seq(Nat) /\ Len(Upto(i, j)) = j - i + 1
         /\ Range(Upto(i, j)) = i .. j /\ Increasing(Upto(i, j))
         /\ \A k \in 1 .. j - i + 1 : Upto(i, j)[k] = i + k - 1
<1>1. j - i + 1 \in Nat
  OBVIOUS
<1>2. \A k \in 1 .. j - i + 1 : Upto(i, j)[k] = i + k - 1 /\ i + k - 1 \in Nat
  BY DEF Upto
<1>3. DOMAIN Upto(i, j) = 1 .. j - i + 1
  BY DEF Upto
<1>4. Upto(i, j) \in Seq(Nat) /\ Len(Upto(i, j)) = j - i + 1
  BY <1>1, <1>2, <1>3 DEF Upto
<1>5. Range(Upto(i, j)) = i .. j
  <2>1. ASSUME NEW k \in i .. j PROVE k \in Range(Upto(i, j))
    <3>1. k - i + 1 \in 1 .. j - i + 1 /\ k = i + (k - i + 1) - 1
      OBVIOUS
    <3> QED
      BY <1>2, <1>3, <3>1 DEF Range
  <2> QED
    BY <1>2, <1>3, <2>1 DEF Range
<1>6. Increasing(Upto(i, j))
  BY <1>2, <1>3 DEF Increasing
<1> QED
  BY <1>2, <1>4, <1>5, <1>6

\* The lines of a run are of its kinds, and it holds the first line when that is.
LEMMA RunEndIs ==
  ASSUME NEW note \in Seq(LineKinds), NEW i \in 1 .. Len(note) + 1, NEW kinds
  PROVE  /\ RunEnd(note, i, kinds) \in i - 1 .. Len(note)
         /\ \A k \in i .. RunEnd(note, i, kinds) : note[k] \in kinds
         /\ i <= Len(note) /\ note[i] \in kinds => i <= RunEnd(note, i, kinds)
<1> DEFINE T == {j \in (i - 1) .. Len(note) : \A k \in i .. j : note[k] \in kinds}
<1>1. T \subseteq Nat /\ Len(note) \in Nat /\ \A t \in T : t <= Len(note)
  OBVIOUS
<1>2. i - 1 \in T
  OBVIOUS
<1>3. i <= Len(note) /\ note[i] \in kinds => i \in T
  OBVIOUS
<1>4. RunEnd(note, i, kinds) = Max(T)
  BY DEF RunEnd
<1>5. Max(T) \in T /\ \A t \in T : t <= Max(T)
  <2> HIDE DEF T
  <2> QED
    BY <1>1, <1>2, GreatestOf
<1> QED
  BY <1>3, <1>4, <1>5

\* The lines of a table: its header, and the bars below the divider.
LEMMA TableIs ==
  ASSUME NEW note \in Seq(LineKinds), NEW i \in 1 .. Len(note), OpensTable(note, i)
  PROVE  /\ PastRows(note, i) \in i + 2 .. Len(note) + 1 /\ note[i + 1] = "divider"
         /\ Table(note, i) \in Blocks /\ Table(note, i).kind = "table"
         /\ Table(note, i).lines[1] = i /\ Increasing(Table(note, i).lines)
         /\ Range(Table(note, i).lines)
              = {j \in i .. PastRows(note, i) - 1 : note[j] # "blank" /\ j - 1 \notin {i}}
<1> DEFINE end == RunEnd(note, i + 2, StartsWithBar)
           below == Upto(i + 2, end)
           lines == <<i>> \o below
<1>1. /\ note[i] # "blank" /\ i < Len(note) /\ note[i + 1] = "divider"
      /\ i \in Nat /\ Len(note) \in Nat /\ 1 <= i
  BY DEF OpensTable, StartsWithBar
<1>2. i + 2 \in 1 .. Len(note) + 1 /\ (i + 2) - 1 = i + 1
  BY <1>1
<1>3. end \in i + 1 .. Len(note) /\ \A k \in i + 2 .. end : note[k] \in StartsWithBar
  <2>1. /\ end \in (i + 2) - 1 .. Len(note)
        /\ \A k \in i + 2 .. end : note[k] \in StartsWithBar
    <3> DEFINE f == i + 2
    <3>1. f \in 1 .. Len(note) + 1
      BY <1>2
    <3> HIDE DEF f
    <3>2. RunEnd(note, f, StartsWithBar) \in f - 1 .. Len(note)
      BY <3>1, RunEndIs
    <3>3. \A k \in f .. RunEnd(note, f, StartsWithBar) : note[k] \in StartsWithBar
      BY <3>1, RunEndIs
    <3> QED
      BY <3>2, <3>3 DEF f
  <2> QED
    BY <1>2, <2>1
<1> HIDE DEF end
<1>4. /\ below \in Seq(Nat) /\ Len(below) = end - (i + 2) + 1
      /\ \A k \in 1 .. end - (i + 2) + 1 : below[k] = (i + 2) + k - 1
  <2>1. i + 2 \in Nat /\ end \in Nat /\ i + 2 <= end + 1
    BY <1>1, <1>3
  <2> QED
    BY <2>1, UptoIs
<1> HIDE DEF below
<1>5. /\ lines \in Seq(Nat) /\ DOMAIN lines = 1 .. end - i /\ lines[1] = i
      /\ \A k \in 2 .. end - i : lines[k] = i + k
  <2>1. <<i>> \in Seq(Nat) /\ Len(<<i>>) = 1 /\ <<i>>[1] = i
    BY <1>1
  <2>2. lines \in Seq(Nat) /\ Len(lines) = end - i
    BY <1>1, <1>3, <1>4, <2>1
  <2>3. lines[1] = i
    BY <1>1, <1>3, <1>4, <2>1
  <2>4. ASSUME NEW k \in 2 .. end - i PROVE lines[k] = i + k
    <3>1. lines[k] = below[k - 1]
      BY <1>1, <1>3, <1>4, <2>1, <2>4
    <3>2. k - 1 \in 1 .. end - (i + 2) + 1
      BY <1>1, <1>3, <2>4
    <3>3. below[k - 1] = (i + 2) + (k - 1) - 1
      BY <1>4, <3>2
    <3>4. i \in Int /\ k \in Int
      BY <1>1, <1>3
    <3>5. (i + 2) + (k - 1) - 1 = i + k
      BY <3>4
    <3> QED
      BY <3>1, <3>3, <3>5
  <2>5. DOMAIN lines = 1 .. end - i
    BY <2>2
  <2> QED
    BY <2>2, <2>3, <2>4, <2>5
<1> HIDE DEF lines
<1>6. Increasing(lines)
  <2> SUFFICES ASSUME NEW j \in 1 .. end - i, NEW k \in 1 .. end - i, j < k
               PROVE  lines[j] < lines[k]
    BY <1>5 DEF Increasing
  <2>1. k \in 2 .. end - i /\ lines[k] = i + k
    BY <1>1, <1>3, <1>5
  <2>2. lines[j] = i \/ lines[j] = i + j
    BY <1>1, <1>3, <1>5
  <2> QED
    BY <1>1, <2>1, <2>2
<1>7. Range(lines) = {i} \cup (i + 2 .. end)
  <2>1. ASSUME NEW j \in i + 2 .. end PROVE j \in Range(lines)
    <3>1. j - i \in 2 .. end - i /\ j - i \in 1 .. end - i /\ i + (j - i) = j
      BY <1>1, <1>3
    <3> QED
      BY <1>5, <3>1 DEF Range
  <2>2. i \in Range(lines)
    <3>1. 1 \in 1 .. end - i
      BY <1>1, <1>3
    <3> QED
      BY <1>5, <3>1 DEF Range
  <2>3. ASSUME NEW k \in 1 .. end - i PROVE lines[k] \in {i} \cup (i + 2 .. end)
    <3>1. k = 1 \/ k \in 2 .. end - i
      BY <1>1, <1>3
    <3>2. k \in 2 .. end - i => i + k \in i + 2 .. end
      BY <1>1, <1>3
    <3> QED
      BY <1>5, <3>1, <3>2
  <2> QED
    BY <1>5, <2>1, <2>2, <2>3 DEF Range
<1>8. {i} \cup (i + 2 .. end) = {j \in i .. end : note[j] # "blank" /\ j - 1 \notin {i}}
  <2>1. \A k \in i + 2 .. end : note[k] # "blank"
    BY <1>3 DEF StartsWithBar
  <2>2. \A j \in i .. end : j = i \/ j = i + 1 \/ j \in i + 2 .. end
    BY <1>1, <1>3
  <2>3. i - 1 \notin {i} /\ \A j \in i + 2 .. end : j - 1 \notin {i} /\ j \in i .. end
    BY <1>1, <1>3
  <2>4. (i + 1) - 1 = i /\ i \in i .. end
    BY <1>1, <1>3
  <2> QED
    BY <1>1, <2>1, <2>2, <2>3, <2>4
<1>9. PastRows(note, i) = end + 1 /\ end + 1 \in i + 2 .. Len(note) + 1 /\ (end + 1) - 1 = end
  BY <1>1, <1>3 DEF PastRows, end
<1>10. Table(note, i) = [kind |-> "table", lines |-> lines]
  BY DEF Table, Block, lines, below, end
<1> QED
  BY <1>1, <1>5, <1>6, <1>7, <1>8, <1>9, <1>10 DEF Blocks

\* The lines of a list.
LEMMA ListIs ==
  ASSUME NEW note \in Seq(LineKinds), NEW i \in 1 .. Len(note), note[i] = "bullet"
  PROVE  LET b == Block("list", Upto(i, ListEnd(note, i)))
         IN  /\ ListEnd(note, i) + 1 \in i + 1 .. Len(note) + 1
             /\ b \in Blocks /\ b.kind # "table" /\ Increasing(b.lines)
             /\ Range(b.lines) = {j \in i .. (ListEnd(note, i) + 1) - 1 : note[j] # "blank"}
<1> DEFINE end == ListEnd(note, i)
           kinds == {"bullet"} \cup Continues
<1>1. "bullet" \in kinds /\ "blank" \notin kinds /\ i \in 1 .. Len(note) + 1 /\ i <= Len(note)
  BY DEF Continues
<1>2. end \in i .. Len(note) /\ \A k \in i .. end : note[k] # "blank"
  <2> HIDE DEF kinds
  <2>1. /\ RunEnd(note, i, kinds) \in i - 1 .. Len(note) /\ i <= RunEnd(note, i, kinds)
        /\ \A k \in i .. RunEnd(note, i, kinds) : note[k] \in kinds
    BY <1>1, RunEndIs
  <2>2. end = RunEnd(note, i, kinds)
    BY DEF ListEnd, kinds
  <2> HIDE DEF end
  <2> QED
    BY <1>1, <2>1, <2>2
<1> HIDE DEF end
<1>3. /\ Upto(i, end) \in Seq(Nat) /\ Range(Upto(i, end)) = i .. end
      /\ Increasing(Upto(i, end))
  <2>1. i \in Nat /\ end \in Nat /\ i <= end + 1
    BY <1>2
  <2> QED
    BY <2>1, UptoIs
<1>4. i .. end = {j \in i .. (end + 1) - 1 : note[j] # "blank"}
  BY <1>2
<1>5. end + 1 \in i + 1 .. Len(note) + 1
  BY <1>2
<1> QED
  BY <1>3, <1>4, <1>5 DEF Block, Blocks, end

\* A line joins the paragraph under way.
LEMMA JoinedReads ==
  ASSUME NEW note \in Seq(LineKinds), NEW i \in 1 .. Len(note), note[i] # "blank",
         NEW under \in Seq(Nat), NEW blocks \in Seq(Blocks),
         ReadSoFar(note, [at |-> i, paragraph |-> under, blocks |-> blocks])
  PROVE  ReadSoFar(note, [at |-> i + 1, paragraph |-> Append(under, i), blocks |-> blocks])
<1> DEFINE paragraph == Append(under, i)
<1>1. /\ LinesOf(blocks) \cup Range(under)
           = {j \in 1 .. i - 1 : note[j] # "blank" /\ j - 1 \notin HeadersOf(blocks)}
      /\ \A h \in HeadersOf(blocks) : h \in Nat /\ h + 1 < i /\ note[h + 1] = "divider"
      /\ InTheirOrder(blocks) /\ Increasing(under)
      /\ \A k \in LinesOf(blocks), j \in Range(under) : k < j
  BY DEF ReadSoFar
<1>2. /\ paragraph \in Seq(Nat) /\ DOMAIN paragraph = DOMAIN under \cup {Len(under) + 1}
      /\ paragraph[Len(under) + 1] = i
      /\ \A k \in DOMAIN under : paragraph[k] = under[k]
      /\ DOMAIN under = 1 .. Len(under) /\ Len(under) \in Nat
  OBVIOUS
<1> HIDE DEF paragraph
<1>3. Range(paragraph) = Range(under) \cup {i}
  BY <1>2 DEF Range
<1>4. Increasing(paragraph)
  <2>1. ASSUME NEW k \in DOMAIN under PROVE under[k] < i
    <3>1. under[k] \in Range(under)
      BY DEF Range
    <3> QED
      BY <1>1, <3>1
  <2> QED
    BY <1>1, <1>2, <2>1 DEF Increasing
<1>5. LinesOf(blocks) \cup Range(paragraph)
         = {j \in 1 .. (i + 1) - 1 : note[j] # "blank" /\ j - 1 \notin HeadersOf(blocks)}
  <2>1. i - 1 \notin HeadersOf(blocks)
    BY <1>1
  <2> QED
    BY <1>1, <1>3, <2>1
<1>6. \A k \in LinesOf(blocks), j \in Range(paragraph) : k < j
  BY <1>1, <1>3
<1>7. \A h \in HeadersOf(blocks) : h \in Nat /\ h + 1 < i + 1 /\ note[h + 1] = "divider"
  BY <1>1
<1>8. i + 1 \in 1 .. Len(note) + 1
  OBVIOUS
<1> QED
  BY <1>1, <1>2, <1>4, <1>5, <1>6, <1>7, <1>8 DEF ReadSoFar, paragraph

\* One turn of the loop keeps the invariant and passes a line at least.
LEMMA LineIsRead ==
  ASSUME NEW note \in Seq(LineKinds), NEW s, ReadSoFar(note, s), s.at <= Len(note)
  PROVE  ReadSoFar(note, ParseLine(note, s)) /\ s.at < ParseLine(note, s).at
<1>1. PICK i \in 1 .. Len(note), under \in Seq(Nat), blocks \in Seq(Blocks) :
         s = [at |-> i, paragraph |-> under, blocks |-> blocks]
  BY DEF ReadSoFar
<1> DEFINE kind == note[i]
           flushed == Flush(under, blocks)
           Then(b, next) == [at |-> next, paragraph |-> <<>>, blocks |-> Append(flushed, b)]
<1>2. kind \in LineKinds /\ Len(note) \in Nat /\ ~(i > Len(note))
  OBVIOUS
<1>3. ReadSoFar(note, [at |-> i, paragraph |-> <<>>, blocks |-> flushed])
  <2>1. s.at = i /\ s.paragraph = under /\ s.blocks = blocks
    BY <1>1
  <2>2. ReadSoFar(note, [at |-> s.at, paragraph |-> <<>>,
                        blocks |-> Flush(s.paragraph, s.blocks)])
    BY FlushedReads
  <2> QED
    BY <2>1, <2>2
<1>4. ParseLine(note, s) =
        CASE kind = "blank" -> [at |-> i + 1, paragraph |-> <<>>, blocks |-> flushed]
          [] kind = "heading" -> Then(Block("heading", <<i>>), i + 1)
          [] kind \in IsRule -> Then(Block("rule", <<i>>), i + 1)
          [] OpensTable(note, i) -> Then(Table(note, i), PastRows(note, i))
          [] kind = "bullet" -> Then(Block("list", Upto(i, ListEnd(note, i))), ListEnd(note, i) + 1)
          [] OTHER -> [at |-> i + 1, paragraph |-> Append(under, i), blocks |-> blocks]
  BY <1>1, <1>2, Zenon DEF ParseLine
<1> HIDE DEF flushed
<1>5. flushed \in Seq(Blocks)
  BY <1>3 DEF ReadSoFar
<1>6. ASSUME NEW b \in Blocks, NEW next \in i + 1 .. Len(note) + 1,
             ParseLine(note, s) = Then(b, next), Increasing(b.lines),
             LET header == IF b.kind = "table" THEN {i} ELSE {}
             IN  /\ Range(b.lines)
                      = {j \in i .. next - 1 : note[j] # "blank" /\ j - 1 \notin header}
                 /\ b.kind = "table" => b.lines[1] = i /\ i + 1 < next /\ note[i + 1] = "divider"
      PROVE  ReadSoFar(note, ParseLine(note, s)) /\ s.at < ParseLine(note, s).at
  <2>1. ReadSoFar(note, [at |-> next, paragraph |-> <<>>, blocks |-> Append(flushed, b)])
    BY <1>3, <1>6, ShownReads
  <2>2. next > i
    OBVIOUS
  <2> QED
    BY <1>1, <1>6, <2>1, <2>2
<1>7. ASSUME NEW k \in {"heading", "rule"}, kind # "blank",
             ParseLine(note, s) = Then(Block(k, <<i>>), i + 1)
      PROVE  ReadSoFar(note, ParseLine(note, s)) /\ s.at < ParseLine(note, s).at
  <2> DEFINE b == Block(k, <<i>>)
  <2>1. b.kind # "table" /\ b.lines = <<i>> /\ b \in Blocks
    BY <1>7 DEF Block, Blocks
  <2> HIDE DEF b
  <2>2. Range(b.lines) = {i} /\ Increasing(b.lines)
    BY <2>1 DEF Range, Increasing
  <2>3. {i} = {j \in i .. (i + 1) - 1 : note[j] # "blank" /\ j - 1 \notin {}}
    BY <1>7
  <2>4. i + 1 \in i + 1 .. Len(note) + 1
    OBVIOUS
  <2> QED
    BY <1>6, <1>7, <2>1, <2>2, <2>3, <2>4 DEF b
<1>8. CASE kind = "blank"
  <2>1. kind # "heading" /\ kind \notin IsRule /\ ~OpensTable(note, i) /\ kind # "bullet"
    BY <1>8 DEF IsRule, OpensTable, StartsWithBar
  <2>2. ParseLine(note, s) = [at |-> i + 1, paragraph |-> <<>>, blocks |-> flushed]
    BY <1>4, <1>8, <2>1
  <2>3. LinesOf(flushed) \cup Range(<<>>)
           = {j \in 1 .. i - 1 : note[j] # "blank" /\ j - 1 \notin HeadersOf(flushed)}
    BY <1>3 DEF ReadSoFar
  <2>4. LinesOf(flushed) \cup Range(<<>>)
           = {j \in 1 .. (i + 1) - 1 : note[j] # "blank" /\ j - 1 \notin HeadersOf(flushed)}
    BY <1>8, <2>3
  <2>5. ReadSoFar(note, [at |-> i + 1, paragraph |-> <<>>, blocks |-> flushed])
    BY <1>3, <2>4 DEF ReadSoFar
  <2> QED
    BY <1>1, <2>2, <2>5
<1>9. CASE kind = "heading"
  <2>1. kind # "blank" /\ kind \notin IsRule /\ ~OpensTable(note, i) /\ kind # "bullet"
    BY <1>9 DEF IsRule, OpensTable, StartsWithBar
  <2>2. ParseLine(note, s) = Then(Block("heading", <<i>>), i + 1)
    BY <1>4, <1>9, <2>1
  <2> QED
    BY <1>7, <2>1, <2>2
<1>10. CASE kind \in IsRule
  <2>1. kind # "blank" /\ kind # "heading" /\ ~OpensTable(note, i) /\ kind # "bullet"
    BY <1>10 DEF IsRule, OpensTable, StartsWithBar
  <2>2. ParseLine(note, s) = Then(Block("rule", <<i>>), i + 1)
    BY <1>4, <1>10, <2>1
  <2> QED
    BY <1>7, <2>1, <2>2
<1>11. CASE OpensTable(note, i)
  <2>1. kind # "blank" /\ kind # "heading" /\ kind \notin IsRule /\ kind # "bullet"
    BY <1>11 DEF IsRule, OpensTable, StartsWithBar
  <2>2. ParseLine(note, s) = Then(Table(note, i), PastRows(note, i))
    BY <1>4, <1>11, <2>1
  <2> DEFINE b == Table(note, i)
             next == PastRows(note, i)
  <2>3. /\ next \in i + 2 .. Len(note) + 1 /\ note[i + 1] = "divider"
        /\ b \in Blocks /\ b.kind = "table" /\ b.lines[1] = i /\ Increasing(b.lines)
        /\ Range(b.lines) = {j \in i .. next - 1 : note[j] # "blank" /\ j - 1 \notin {i}}
    BY <1>11, TableIs
  <2> HIDE DEF b, next
  <2>4. next \in i + 1 .. Len(note) + 1 /\ i + 1 < next
    BY <2>3
  <2>5. ParseLine(note, s) = Then(b, next)
    BY <2>2 DEF b, next
  <2> QED
    BY <1>6, <2>3, <2>4, <2>5
<1>12. CASE kind = "bullet"
  <2>1. kind # "blank" /\ kind # "heading" /\ kind \notin IsRule /\ ~OpensTable(note, i)
    BY <1>12 DEF IsRule, OpensTable, StartsWithBar
  <2> DEFINE b == Block("list", Upto(i, ListEnd(note, i)))
             next == ListEnd(note, i) + 1
  <2>2. ParseLine(note, s) = Then(b, next)
    BY <1>4, <1>12, <2>1
  <2>3. /\ next \in i + 1 .. Len(note) + 1
        /\ b \in Blocks /\ b.kind # "table" /\ Increasing(b.lines)
        /\ Range(b.lines) = {j \in i .. next - 1 : note[j] # "blank"}
    BY <1>12, ListIs
  <2> HIDE DEF b, next
  <2> QED
    BY <1>6, <2>2, <2>3
<1>13. CASE kind \notin {"blank", "heading", "bullet"} \cup IsRule /\ ~OpensTable(note, i)
  <2>1. ParseLine(note, s) = [at |-> i + 1, paragraph |-> Append(under, i), blocks |-> blocks]
    BY <1>4, <1>13
  <2>2. ReadSoFar(note, ParseLine(note, s))
    BY <1>1, <1>13, <2>1, JoinedReads
  <2> QED
    BY <1>1, <2>1, <2>2
<1> QED
  BY <1>8, <1>9, <1>10, <1>11, <1>12, <1>13

\* The loop of `parse` ends at the end of the note with its invariant.
LEMMA AllIsRead ==
  ASSUME NEW note \in Seq(LineKinds)
  PROVE  \E s : /\ ReadSoFar(note, s) /\ s.at = Len(note) + 1
                /\ Parse(note) = Flush(s.paragraph, s.blocks)
<1> DEFINE N == Len(note)
           start == [at |-> 1, paragraph |-> <<>>, blocks |-> <<>>]
           V == {s \in [at : 1 .. N + 1, paragraph : Seq(Nat), blocks : Seq(Blocks)] :
                    ReadSoFar(note, s)}
           step == [s \in V |-> IF s.at > N THEN s ELSE ParseLine(note, s)]
           Course(f) == f = [n \in 0 .. N |-> IF n = 0 THEN start ELSE ParseLine(note, f[n - 1])]
<1>1. N \in Nat
  OBVIOUS
<1>2. start \in V
  <2>1. <<>> \in Seq(Nat) /\ <<>> \in Seq(Blocks)
    OBVIOUS
  <2>2. LinesOf(<<>>) = {} /\ HeadersOf(<<>>) = {} /\ InTheirOrder(<<>>)
    BY DEF LinesOf, HeadersOf, InTheirOrder
  <2>3. Range(<<>>) = {} /\ Increasing(<<>>)
    BY DEF Range, Increasing
  <2>4. start.at = 1 /\ start.paragraph = <<>> /\ start.blocks = <<>>
    OBVIOUS
  <2>5. start \in [at : 1 .. N + 1, paragraph : Seq(Nat), blocks : Seq(Blocks)]
    BY <1>1, <2>1
  <2>6. {i \in 1 .. 1 - 1 : note[i] # "blank" /\ i - 1 \notin {}} = {}
    OBVIOUS
  <2> HIDE DEF start
  <2>7. ReadSoFar(note, start)
    BY <2>2, <2>3, <2>4, <2>5, <2>6 DEF ReadSoFar
  <2> QED
    BY <2>5, <2>7
<1>3. ASSUME NEW s \in V
      PROVE  /\ ParseLine(note, s) \in V /\ step[s] = ParseLine(note, s)
             /\ s.at <= N => s.at < ParseLine(note, s).at
             /\ s.at > N => ParseLine(note, s) = s
  <2>1. s.at \in 1 .. N + 1 /\ ReadSoFar(note, s)
    OBVIOUS
  <2>2. CASE s.at > N
    <3>1. ParseLine(note, s) = s
      BY <2>2, Zenon DEF ParseLine
    <3> QED
      BY <2>1, <2>2, <3>1
  <2>3. CASE s.at <= N
    <3>1. ReadSoFar(note, ParseLine(note, s)) /\ s.at < ParseLine(note, s).at
      BY <2>1, <2>3, LineIsRead
    <3>2. ParseLine(note, s) \in V
      BY <3>1 DEF ReadSoFar
    <3> QED
      BY <2>1, <2>3, <3>1, <3>2
  <2> QED
    BY <2>1, <2>2, <2>3
<1> HIDE DEF V, start
<1>4. step \in [V -> V]
  BY <1>3
<1> HIDE DEF step
<1> HIDE DEF Course
<1>5. \E f : Course(f)
  <2>1. PICK f \in [0 .. N -> V] : f[0] = start /\ \A n \in 1 .. N : f[n] = step[f[n - 1]]
    <3> HIDE DEF N
    <3>1. Courses(N, V, start, step) # {}
      BY <1>1, <1>2, <1>4, ACourse
    <3> QED
      BY <3>1 DEF Courses
  <2>2. ASSUME NEW n \in 0 .. N
        PROVE  f[n] = IF n = 0 THEN start ELSE ParseLine(note, f[n - 1])
    <3>1. CASE n = 0
      BY <2>1, <3>1
    <3>2. CASE n # 0
      <4>1. n \in 1 .. N /\ n - 1 \in 0 .. N
        BY <1>1, <3>2
      <4> QED
        BY <1>3, <2>1, <3>2, <4>1
    <3> QED
      BY <3>1, <3>2
  <2>3. Course(f)
    BY <2>1, <2>2 DEF Course
  <2> QED
    BY <2>3
<1> DEFINE after == CHOOSE f : Course(f)
<1>6. Parse(note) = Flush(after[N].paragraph, after[N].blocks)
  BY Zenon DEF Parse, start, Course
<1>7. Course(after)
  BY <1>5
<1> HIDE DEF after
<1>8. after[0] = start /\ \A n \in 0 .. N - 1 : after[n + 1] = ParseLine(note, after[n])
  <2>1. after = [n \in 0 .. N |-> IF n = 0 THEN start ELSE ParseLine(note, after[n - 1])]
    BY <1>7 DEF Course
  <2>2. after[0] = start
    BY <1>1, <2>1
  <2>3. ASSUME NEW n \in 0 .. N - 1 PROVE after[n + 1] = ParseLine(note, after[n])
    <3>1. n + 1 \in 0 .. N /\ n + 1 # 0 /\ (n + 1) - 1 = n
      BY <1>1
    <3> QED
      BY <2>1, <3>1
  <2> QED
    BY <2>2, <2>3
<1> DEFINE T == {n \in 0 .. N : after[n] \in V /\ (after[n].at > N \/ after[n].at > n)}
<1>9. N \in T
  <2>1. 0 \in T
    BY <1>1, <1>2, <1>8 DEF start
  <2>2. ASSUME NEW n \in 0 .. N - 1, n \in T PROVE n + 1 \in T
    <3>1. /\ after[n] \in V /\ after[n + 1] = ParseLine(note, after[n])
          /\ n \in Nat /\ n + 1 \in 0 .. N
      BY <1>1, <1>8, <2>2
    <3>2. after[n + 1] \in V
      BY <1>3, <3>1
    <3>3. after[n].at \in Nat /\ after[n + 1].at \in Nat
      BY <1>1, <3>1, <3>2 DEF V
    <3>4. \/ after[n].at > N /\ after[n + 1] = after[n]
          \/ after[n].at <= N /\ after[n].at < after[n + 1].at
      BY <1>1, <1>3, <3>1, <3>3
    <3> QED
      BY <1>1, <2>2, <3>1, <3>2, <3>3, <3>4
  <2> HIDE DEF T
  <2>3. \A n \in 0 .. N : n \in T
    BY <1>1, <2>1, <2>2, TurnByTurn
  <2> QED
    BY <1>1, <2>3
<1>10. ReadSoFar(note, after[N]) /\ after[N].at = N + 1
  BY <1>1, <1>9 DEF V
<1> QED
  BY <1>6, <1>10

\* What is on the page of any document.
LEMMA NoteIsKept == ASSUME NEW note \in Seq(LineKinds) PROVE LinesAreKept(note)
<1>1. PICK s : /\ ReadSoFar(note, s) /\ s.at = Len(note) + 1
               /\ Parse(note) = Flush(s.paragraph, s.blocks)
  BY AllIsRead
<1> DEFINE blocks == Parse(note)
           page == Rendered(note)
<1>2. ReadSoFar(note, [at |-> Len(note) + 1, paragraph |-> <<>>, blocks |-> blocks])
  BY <1>1, FlushedReads
<1>3. /\ blocks \in Seq(Blocks) /\ InTheirOrder(blocks)
      /\ LinesOf(blocks) = {i \in 1 .. Len(note) : note[i] # "blank" /\ i - 1 \notin HeadersOf(blocks)}
      /\ \A h \in HeadersOf(blocks) : note[h + 1] = "divider"
  <2>1. Range(<<>>) = {} /\ Len(note) \in Nat /\ (Len(note) + 1) - 1 = Len(note)
    BY DEF Range
  <2> QED
    BY <1>2, <2>1 DEF ReadSoFar
<1>4. /\ DOMAIN page = DOMAIN blocks
      /\ \A n \in DOMAIN blocks : /\ page[n].lines = blocks[n].lines
                                  /\ page[n].tag = "table" <=> blocks[n].kind = "table"
  <2>1. \A n \in DOMAIN blocks : blocks[n].kind \in {"heading", "rule", "table", "list", "paragraph"}
    <3> HIDE DEF blocks
    <3>1. \A n \in DOMAIN blocks : blocks[n] \in Blocks
      BY <1>3
    <3> QED
      BY <3>1 DEF Blocks
  <2> QED
    BY <2>1 DEF Rendered, Tag
<1> HIDE DEF page, blocks
<1>5. {page[n].lines[1] : n \in {m \in DOMAIN page : page[m].tag = "table"}} = HeadersOf(blocks)
  BY <1>4 DEF HeadersOf
<1>6. UNION {Range(page[n].lines) : n \in DOMAIN page} = LinesOf(blocks)
  BY <1>4 DEF LinesOf
<1>7. DOMAIN note = 1 .. Len(note)
  OBVIOUS
<1>8. /\ \A n \in DOMAIN page : Increasing(page[n].lines)
      /\ \A m, n \in DOMAIN page : m < n =>
            \A i \in Range(page[m].lines), j \in Range(page[n].lines) : i < j
  BY <1>3, <1>4 DEF InTheirOrder
<1> QED
  BY <1>3, <1>5, <1>6, <1>7, <1>8 DEF LinesAreKept, Increasing, page

-----------------------------------------------------------------------------
(* A text with marks.                                                      *)

PartsIn(words) == [from : 1 .. Len(words), to : 1 .. Len(words)]

\* The loop invariant of `split`: the parts follow each other without a gap up to
\* s.since, none is turned round, and the current place is behind them.
SplitSoFar(words, s) ==
  /\ s \in [at : 1 .. Len(words) + 1, since : 1 .. Len(words) + 1, parts : Seq(PartsIn(words))]
  /\ s.since <= s.at
  /\ \A n \in DOMAIN s.parts : s.parts[n].from <= s.parts[n].to /\ s.parts[n].to < s.since
  /\ \A m, n \in DOMAIN s.parts : m < n => s.parts[m].to < s.parts[n].from
  /\ \A i \in 1 .. s.since - 1 : \E n \in DOMAIN s.parts : i \in s.parts[n].from .. s.parts[n].to

LEMMA OneBehind ==
  ASSUME NEW S, NEW q \in Seq(S), NEW e \in S
  PROVE  q \o <<e>> = Append(q, e) /\ q \o <<>> = q
OBVIOUS

LEMMA PartAdded ==
  ASSUME NEW words, Len(words) \in Nat, NEW s, SplitSoFar(words, s),
         NEW to \in 1 .. Len(words), s.since <= to
  PROVE  SplitSoFar(words, [at |-> to + 1, since |-> to + 1,
                           parts |-> Append(s.parts, [from |-> s.since, to |-> to])])
<1> DEFINE p == [from |-> s.since, to |-> to]
           all == Append(s.parts, p)
<1>1. /\ s.since \in 1 .. Len(words) /\ s.since \in Nat /\ to \in Nat
      /\ s.parts \in Seq(PartsIn(words))
  BY DEF SplitSoFar
<1>2. p \in PartsIn(words)
  BY <1>1 DEF PartsIn
<1>3. /\ all \in Seq(PartsIn(words)) /\ DOMAIN all = DOMAIN s.parts \cup {Len(s.parts) + 1}
      /\ all[Len(s.parts) + 1] = p /\ \A n \in DOMAIN s.parts : all[n] = s.parts[n]
      /\ DOMAIN s.parts = 1 .. Len(s.parts) /\ Len(s.parts) \in Nat
  <2> HIDE DEF p
  <2> QED
    BY <1>1, <1>2
<1> HIDE DEF all
<1>4. p.from = s.since /\ p.to = to
  OBVIOUS
<1> HIDE DEF p
<1>5. \A n \in DOMAIN s.parts : /\ s.parts[n].from \in Nat /\ s.parts[n].to \in Nat
                                /\ s.parts[n].from <= s.parts[n].to /\ s.parts[n].to < s.since
  <2>1. ASSUME NEW n \in DOMAIN s.parts
        PROVE  s.parts[n].from \in Nat /\ s.parts[n].to \in Nat
    <3>1. s.parts[n] \in PartsIn(words)
      BY <1>1
    <3> QED
      BY <3>1 DEF PartsIn
  <2> QED
    BY <2>1 DEF SplitSoFar
<1>6. \A n \in DOMAIN all : all[n].from <= all[n].to /\ all[n].to < to + 1
  BY SMTT(30), <1>1, <1>3, <1>4, <1>5
<1>7. ASSUME NEW m \in DOMAIN all, NEW n \in DOMAIN all, m < n
      PROVE  all[m].to < all[n].from
  <2>1. m \in DOMAIN s.parts
    BY <1>3, <1>7
  <2>2. CASE n \in DOMAIN s.parts
    BY <1>3, <1>7, <2>1, <2>2 DEF SplitSoFar
  <2>3. CASE n = Len(s.parts) + 1
    BY <1>3, <1>4, <1>5, <2>1, <2>3
  <2> QED
    BY <1>3, <2>2, <2>3
<1>8. ASSUME NEW i \in 1 .. (to + 1) - 1
      PROVE  \E n \in DOMAIN all : i \in all[n].from .. all[n].to
  <2>1. CASE i < s.since
    <3>1. i \in 1 .. s.since - 1
      BY <1>1, <2>1
    <3>2. PICK n \in DOMAIN s.parts : i \in s.parts[n].from .. s.parts[n].to
      BY <3>1 DEF SplitSoFar
    <3> QED
      BY <1>3, <3>2
  <2>2. CASE ~(i < s.since)
    <3>1. i \in s.since .. to
      BY <1>1, <2>2
    <3> QED
      BY <1>3, <1>4, <3>1
  <2> QED
    BY <2>1, <2>2
<1>9. to + 1 \in 1 .. Len(words) + 1 /\ to + 1 <= to + 1
  BY <1>1
<1> QED
  BY <1>3, <1>6, <1>7, <1>8, <1>9 DEF SplitSoFar, all, p

\* What lies between two matches becomes a part, if there is anything.
LEMMA BetweenIsAPart ==
  ASSUME NEW words, Len(words) \in Nat, NEW s, SplitSoFar(words, s),
         NEW parts, parts = IF s.since < s.at
                            THEN Append(s.parts, [from |-> s.since, to |-> s.at - 1])
                            ELSE s.parts
  PROVE  SplitSoFar(words, [at |-> s.at, since |-> s.at, parts |-> parts])
<1>1. s.at \in 1 .. Len(words) + 1 /\ s.since \in 1 .. Len(words) + 1 /\ s.since <= s.at
  BY DEF SplitSoFar
<1>2. CASE s.since < s.at
  <2> DEFINE to == s.at - 1
  <2>1. to \in 1 .. Len(words) /\ s.since <= to /\ to + 1 = s.at
    BY <1>1, <1>2
  <2> HIDE DEF to
  <2>2. SplitSoFar(words, [at |-> to + 1, since |-> to + 1,
                          parts |-> Append(s.parts, [from |-> s.since, to |-> to])])
    BY <2>1, PartAdded
  <2> QED
    BY <1>2, <2>1, <2>2 DEF to
<1>3. CASE ~(s.since < s.at)
  <2>1. s.since = s.at /\ parts = s.parts
    BY <1>1, <1>3
  <2> QED
    BY <2>1 DEF SplitSoFar
<1> QED
  BY <1>2, <1>3

\* One turn of the loop keeps the invariant and passes a place at least.
LEMMA PlaceIsSplit ==
  ASSUME NEW words, Len(words) \in Nat, NEW s, SplitSoFar(words, s), s.at <= Len(words)
  PROVE  SplitSoFar(words, SplitAt(words, s)) /\ s.at < SplitAt(words, s).at
<1> DEFINE i == s.at
           ends == {j \in i .. Len(words) : Matches(words, i, j)}
           between == IF s.since < i THEN <<[from |-> s.since, to |-> i - 1]>> ELSE <<>>
           last == [from |-> i, to |-> Min(ends)]
<1>1. /\ i \in 1 .. Len(words) /\ s.since \in 1 .. Len(words) + 1 /\ s.since <= i
      /\ s.parts \in Seq(PartsIn(words))
  BY DEF SplitSoFar
<1>2. CASE ends = {}
  <2>1. SplitAt(words, s) = [s EXCEPT !.at = i + 1]
    BY <1>1, <1>2 DEF SplitAt
  <2>2. SplitSoFar(words, [s EXCEPT !.at = i + 1])
    BY <1>1 DEF SplitSoFar
  <2> QED
    BY <1>1, <2>1, <2>2 DEF SplitSoFar
<1>3. CASE ends # {}
  <2>1. Min(ends) \in i .. Len(words)
    <3>1. ends \subseteq Nat
      BY <1>1
    <3> HIDE DEF ends
    <3>2. Min(ends) \in ends
      BY <1>3, <3>1, LeastOf
    <3> QED
      BY <3>2 DEF ends
  <2>2. SplitAt(words, s) = [at |-> Min(ends) + 1, since |-> Min(ends) + 1,
                            parts |-> s.parts \o between \o <<last>>]
    BY <1>1, <1>3 DEF SplitAt
  <2> HIDE DEF ends
  <2> DEFINE parts == IF s.since < i THEN Append(s.parts, [from |-> s.since, to |-> i - 1])
                      ELSE s.parts
             t == [at |-> i, since |-> i, parts |-> parts]
  <2>3. SplitSoFar(words, t)
    BY BetweenIsAPart
  <2>4. parts \in Seq(PartsIn(words))
    BY <2>3 DEF SplitSoFar
  <2>5. last \in PartsIn(words)
    BY <1>1, <2>1 DEF PartsIn
  <2> HIDE DEF last
  <2>6. s.parts \o between = parts
    <3>1. CASE s.since < i
      <4> DEFINE p == [from |-> s.since, to |-> i - 1]
      <4>1. p \in PartsIn(words)
        BY <1>1, <3>1 DEF PartsIn
      <4>2. between = <<p>> /\ parts = Append(s.parts, p)
        BY <3>1
      <4> HIDE DEF p, between, parts
      <4> QED
        BY <1>1, <4>1, <4>2, OneBehind
    <3>2. CASE ~(s.since < i)
      <4>1. between = <<>> /\ parts = s.parts
        BY <3>2
      <4> HIDE DEF between, parts
      <4>2. last \in PartsIn(words)
        BY <2>5
      <4> QED
        BY <1>1, <4>1, <4>2, OneBehind
    <3> QED
      BY <3>1, <3>2
  <2>7. s.parts \o between \o <<last>> = Append(parts, last)
    <3> HIDE DEF between, parts
    <3> QED
      BY <2>4, <2>5, <2>6, OneBehind
  <2> HIDE DEF parts
  <2>8. t.since = i /\ t.parts = parts
    OBVIOUS
  <2> HIDE DEF t
  <2>9. SplitSoFar(words, [at |-> Min(ends) + 1, since |-> Min(ends) + 1,
                          parts |-> Append(t.parts, [from |-> t.since, to |-> Min(ends)])])
    <3>1. Min(ends) \in 1 .. Len(words) /\ t.since <= Min(ends)
      BY <1>1, <2>1, <2>8
    <3> QED
      BY <2>3, <3>1, PartAdded
  <2>10. SplitAt(words, s) = [at |-> Min(ends) + 1, since |-> Min(ends) + 1,
                             parts |-> Append(t.parts, [from |-> t.since, to |-> Min(ends)])]
    BY <2>2, <2>7, <2>8 DEF last
  <2>11. i < Min(ends) + 1
    BY <1>1, <2>1
  <2> QED
    BY <2>9, <2>10, <2>11
<1> QED
  BY <1>2, <1>3

\* The loop of `split` ends at the end of the words with its invariant.
LEMMA AllIsSplit ==
  ASSUME NEW words, Len(words) \in Nat
  PROVE  \E s : /\ SplitSoFar(words, s) /\ s.at = Len(words) + 1
                /\ Parts(words)
                     = IF s.since < s.at
                       THEN Append(s.parts, [from |-> s.since, to |-> s.at - 1])
                       ELSE s.parts
<1> DEFINE N == Len(words)
           start == [at |-> 1, since |-> 1, parts |-> <<>>]
           V == {s \in [at : 1 .. N + 1, since : 1 .. N + 1, parts : Seq(PartsIn(words))] :
                    SplitSoFar(words, s)}
           step == [s \in V |-> IF s.at > N THEN s ELSE SplitAt(words, s)]
           Course(f) == f = [n \in 0 .. N |-> IF n = 0 THEN start ELSE SplitAt(words, f[n - 1])]
<1>1. N \in Nat
  OBVIOUS
<1>2. start \in V
  <2>1. start.at = 1 /\ start.since = 1 /\ start.parts = <<>>
    OBVIOUS
  <2>2. start \in [at : 1 .. N + 1, since : 1 .. N + 1, parts : Seq(PartsIn(words))]
    BY <1>1
  <2> HIDE DEF start
  <2>3. SplitSoFar(words, start)
    BY <2>1, <2>2 DEF SplitSoFar
  <2> QED
    BY <2>2, <2>3
<1>3. ASSUME NEW s \in V
      PROVE  /\ SplitAt(words, s) \in V /\ step[s] = SplitAt(words, s)
             /\ s.at <= N => s.at < SplitAt(words, s).at
             /\ s.at > N => SplitAt(words, s) = s
  <2>1. s.at \in 1 .. N + 1 /\ SplitSoFar(words, s)
    OBVIOUS
  <2>2. CASE s.at > N
    <3>1. SplitAt(words, s) = s
      BY <2>2, Zenon DEF SplitAt
    <3> QED
      BY <2>1, <2>2, <3>1
  <2>3. CASE s.at <= N
    <3>1. SplitSoFar(words, SplitAt(words, s)) /\ s.at < SplitAt(words, s).at
      BY <2>1, <2>3, PlaceIsSplit
    <3>2. SplitAt(words, s) \in V
      BY <3>1 DEF SplitSoFar
    <3> QED
      BY <2>1, <2>3, <3>1, <3>2
  <2> QED
    BY <2>1, <2>2, <2>3
<1> HIDE DEF V, start
<1>4. step \in [V -> V]
  BY <1>3
<1> HIDE DEF step
<1> HIDE DEF Course
<1>5. \E f : Course(f)
  <2>1. PICK f \in [0 .. N -> V] : f[0] = start /\ \A n \in 1 .. N : f[n] = step[f[n - 1]]
    <3> HIDE DEF N
    <3>1. Courses(N, V, start, step) # {}
      BY <1>1, <1>2, <1>4, ACourse
    <3> QED
      BY <3>1 DEF Courses
  <2>2. ASSUME NEW n \in 0 .. N
        PROVE  f[n] = IF n = 0 THEN start ELSE SplitAt(words, f[n - 1])
    <3>1. CASE n = 0
      BY <2>1, <3>1
    <3>2. CASE n # 0
      <4>1. n \in 1 .. N /\ n - 1 \in 0 .. N
        BY <1>1, <3>2
      <4> QED
        BY <1>3, <2>1, <3>2, <4>1
    <3> QED
      BY <3>1, <3>2
  <2>3. Course(f)
    BY <2>1, <2>2 DEF Course
  <2> QED
    BY <2>3
<1> DEFINE after == CHOOSE f : Course(f)
<1>6. Parts(words) = IF after[N].since < after[N].at
                     THEN Append(after[N].parts, [from |-> after[N].since, to |-> after[N].at - 1])
                     ELSE after[N].parts
  BY Zenon DEF Parts, start, Course
<1>7. Course(after)
  BY <1>5
<1> HIDE DEF after
<1>8. after[0] = start /\ \A n \in 0 .. N - 1 : after[n + 1] = SplitAt(words, after[n])
  <2>1. after = [n \in 0 .. N |-> IF n = 0 THEN start ELSE SplitAt(words, after[n - 1])]
    BY <1>7 DEF Course
  <2>2. after[0] = start
    BY <1>1, <2>1
  <2>3. ASSUME NEW n \in 0 .. N - 1 PROVE after[n + 1] = SplitAt(words, after[n])
    <3>1. n + 1 \in 0 .. N /\ n + 1 # 0 /\ (n + 1) - 1 = n
      BY <1>1
    <3> QED
      BY <2>1, <3>1
  <2> QED
    BY <2>2, <2>3
<1> DEFINE T == {n \in 0 .. N : after[n] \in V /\ (after[n].at > N \/ after[n].at > n)}
<1>9. N \in T
  <2>1. 0 \in T
    BY <1>1, <1>2, <1>8 DEF start
  <2>2. ASSUME NEW n \in 0 .. N - 1, n \in T PROVE n + 1 \in T
    <3>1. /\ after[n] \in V /\ after[n + 1] = SplitAt(words, after[n])
          /\ n \in Nat /\ n + 1 \in 0 .. N
      BY <1>1, <1>8, <2>2
    <3>2. after[n + 1] \in V
      BY <1>3, <3>1
    <3>3. after[n].at \in Nat /\ after[n + 1].at \in Nat
      BY <1>1, <3>1, <3>2 DEF V
    <3>4. \/ after[n].at > N /\ after[n + 1] = after[n]
          \/ after[n].at <= N /\ after[n].at < after[n + 1].at
      BY <1>1, <1>3, <3>1, <3>3
    <3> QED
      BY <1>1, <2>2, <3>1, <3>2, <3>3, <3>4
  <2> HIDE DEF T
  <2>3. \A n \in 0 .. N : n \in T
    BY <1>1, <2>1, <2>2, TurnByTurn
  <2> QED
    BY <1>1, <2>3
<1>10. SplitSoFar(words, after[N]) /\ after[N].at = N + 1
  BY <1>1, <1>9 DEF V
<1> QED
  BY <1>6, <1>10

\* What is on the page of any text.
LEMMA TextIsWhole ==
  ASSUME NEW words, Len(words) \in Nat, DOMAIN words = 1 .. Len(words)
  PROVE  WordsAreKept(words)
<1> DEFINE parts == Parts(words)
           page == Inline(words)
           N == Len(words)
<1>1. PICK s : /\ SplitSoFar(words, s) /\ s.at = N + 1
               /\ parts = IF s.since < s.at
                          THEN Append(s.parts, [from |-> s.since, to |-> s.at - 1])
                          ELSE s.parts
  BY AllIsSplit
<1>2. page = [n \in DOMAIN parts |-> Shown(words, parts[n])]
  BY DEF Inline
<1> HIDE DEF parts, page
<1>3. SplitSoFar(words, [at |-> s.at, since |-> s.at, parts |-> parts])
  BY <1>1, BetweenIsAPart
<1>4. /\ parts \in Seq(PartsIn(words))
      /\ \A n \in DOMAIN parts : parts[n].from <= parts[n].to /\ parts[n].to < N + 1
      /\ \A m, n \in DOMAIN parts : m < n => parts[m].to < parts[n].from
      /\ \A i \in 1 .. (N + 1) - 1 : \E n \in DOMAIN parts : i \in parts[n].from .. parts[n].to
  BY <1>1, <1>3 DEF SplitSoFar
<1>5. ASSUME NEW n \in DOMAIN parts
      PROVE  /\ parts[n].from \in 1 .. N /\ parts[n].to \in 1 .. N
             /\ page[n] \subseteq parts[n].from .. parts[n].to
             /\ \A i \in parts[n].from .. parts[n].to : words[i] \notin Marks => i \in page[n]
  <2>1. parts[n] \in PartsIn(words)
    BY <1>4
  <2>2. parts[n].from \in 1 .. N /\ parts[n].to \in 1 .. N
    BY <2>1 DEF PartsIn
  <2>3. page[n] = Shown(words, parts[n])
    BY <1>2
  <2>4. CASE words[parts[n].from] \in Marks /\ words[parts[n].to] = words[parts[n].from]
    <3>1. page[n] = (parts[n].from + 1) .. (parts[n].to - 1)
      BY <2>3, <2>4 DEF Shown
    <3>2. \A i \in parts[n].from .. parts[n].to :
             i = parts[n].from \/ i = parts[n].to \/ i \in page[n]
      BY <2>2, <3>1
    <3> QED
      BY <2>2, <2>4, <3>1, <3>2
  <2>5. CASE ~(words[parts[n].from] \in Marks /\ words[parts[n].to] = words[parts[n].from])
    <3>1. page[n] = parts[n].from .. parts[n].to
      BY <2>3, <2>5 DEF Shown
    <3> QED
      BY <2>2, <3>1
  <2> QED
    BY <2>4, <2>5
<1>6. DOMAIN page = DOMAIN parts
  BY <1>2
<1>7. {i \in DOMAIN words : words[i] \notin Marks} \subseteq UNION {page[n] : n \in DOMAIN page}
  <2> SUFFICES ASSUME NEW i \in 1 .. N, words[i] \notin Marks
               PROVE  \E n \in DOMAIN page : i \in page[n]
    OBVIOUS
  <2>1. PICK n \in DOMAIN parts : i \in parts[n].from .. parts[n].to
    BY <1>4
  <2> QED
    BY <1>5, <1>6, <2>1
<1>8. UNION {page[n] : n \in DOMAIN page} \subseteq DOMAIN words
  <2> SUFFICES ASSUME NEW n \in DOMAIN page, NEW i \in page[n] PROVE i \in 1 .. N
    OBVIOUS
  <2>1. i \in parts[n].from .. parts[n].to /\ parts[n].from \in 1 .. N /\ parts[n].to \in 1 .. N
    BY <1>5, <1>6
  <2> QED
    BY <2>1
<1>9. ASSUME NEW m \in DOMAIN page, NEW n \in DOMAIN page, m < n,
             NEW i \in page[m], NEW j \in page[n]
      PROVE  i < j
  <2>1. /\ i \in parts[m].from .. parts[m].to /\ j \in parts[n].from .. parts[n].to
        /\ parts[m].from \in 1 .. N /\ parts[m].to \in 1 .. N
        /\ parts[n].from \in 1 .. N /\ parts[n].to \in 1 .. N
    BY <1>5, <1>6
  <2>2. parts[m].to < parts[n].from
    BY <1>4, <1>6, <1>9
  <2> QED
    BY <2>1, <2>2
<1> QED
  BY <1>7, <1>8, <1>9 DEF WordsAreKept, page

-----------------------------------------------------------------------------
(* Loops over the subsets of a finite set.                                 *)

LEMMA OneLess ==
  ASSUME NEW s, IsFiniteSet(s), NEW x \in s
  PROVE  /\ IsFiniteSet(s \ {x})
         /\ Cardinality(s) \in Nat /\ Cardinality(s \ {x}) \in Nat
         /\ Cardinality(s) = Cardinality(s \ {x}) + 1
<1>1. IsFiniteSet(s \ {x}) /\ Cardinality(s \ {x}) = Cardinality(s) - 1
  BY FS_RemoveElement
<1>2. Cardinality(s) \in Nat /\ Cardinality(s \ {x}) \in Nat
  BY <1>1, FS_CardinalityType
<1> QED
  BY <1>1, <1>2

\* What holds of the empty set, and of a set with one more of S, holds of S.
LEMMA OneByOne ==
  ASSUME NEW S, IsFiniteSet(S), NEW T, {} \in T,
         \A s \in SUBSET S : \A x \in S \ s : s \in T => s \cup {x} \in T
  PROVE  \A s \in SUBSET S : s \in T
<1> DEFINE A == {n \in 0 .. Cardinality(S) : \A s \in SUBSET S : Cardinality(s) = n => s \in T}
<1>1. Cardinality(S) \in Nat
  BY FS_CardinalityType
<1>2. 0 \in A
  <2>1. \A s \in SUBSET S : Cardinality(s) = 0 => s = {}
    BY FS_Subset, FS_EmptySet
  <2> QED
    BY <1>1, <2>1
<1>3. ASSUME NEW n \in 0 .. Cardinality(S) - 1, n \in A PROVE n + 1 \in A
  <2> SUFFICES ASSUME NEW s \in SUBSET S, Cardinality(s) = n + 1 PROVE s \in T
    BY <1>1
  <2>0. IsFiniteSet(s)
    BY FS_Subset
  <2>1. s # {}
    BY <2>0, FS_EmptySet
  <2>2. PICK x \in s : TRUE
    BY <2>1
  <2>3. Cardinality(s \ {x}) = n
    BY <1>1, <2>0, <2>2, OneLess
  <2>4. s \ {x} \in T
    BY <1>3, <2>3
  <2>5. s = (s \ {x}) \cup {x}
    BY <2>2
  <2> QED
    BY <2>4, <2>5
<1> HIDE DEF A
<1>4. \A n \in 0 .. Cardinality(S) : n \in A
  BY <1>1, <1>2, <1>3, TurnByTurn
<1> QED
  <2> SUFFICES ASSUME NEW s \in SUBSET S PROVE s \in T
    OBVIOUS
  <2>1. Cardinality(s) \in 0 .. Cardinality(S)
    BY <1>1, FS_Subset, FS_CardinalityType
  <2> QED
    BY <1>4, <2>1 DEF A

\* What is gathered over the subsets of S, one element of a subset at a time.
Gatherings(S, W, base, pick, op) ==
  {F \in [SUBSET S -> W] :
     /\ F[{}] = base
     /\ \A s \in (SUBSET S) \ {{}} : F[s] = op[<<pick[s], F[s \ {pick[s]}]>>]}

LEMMA AGathering ==
  ASSUME NEW S, IsFiniteSet(S), NEW W, NEW base \in W, NEW pick, NEW op \in [S \X W -> W],
         \A s \in (SUBSET S) \ {{}} : pick[s] \in s
  PROVE  Gatherings(S, W, base, pick, op) # {}
<1> DEFINE V == [SUBSET S -> W]
           start == [s \in SUBSET S |-> base]
           next(F) == [s \in SUBSET S |->
                         IF s = {} THEN base ELSE op[<<pick[s], F[s \ {pick[s]}]>>]]
           step == [F \in V |-> next(F)]
           N == Cardinality(S)
<1>1. N \in Nat
  BY FS_CardinalityType
<1>2. start \in V
  OBVIOUS
<1>3. step \in [V -> V]
  <2> SUFFICES ASSUME NEW F \in V PROVE next(F) \in V
    OBVIOUS
  <2> SUFFICES ASSUME NEW s \in SUBSET S, s # {} PROVE op[<<pick[s], F[s \ {pick[s]}]>>] \in W
    OBVIOUS
  <2>1. pick[s] \in S /\ F[s \ {pick[s]}] \in W
    OBVIOUS
  <2> QED
    BY <2>1
<1>4. \A F \in V : step[F] = next(F)
  OBVIOUS
<1> HIDE DEF V, start, step, next, N
<1>5. PICK f \in Courses(N + 1, V, start, step) : TRUE
  BY <1>1, <1>2, <1>3, ACourse, SMTT(30)
<1>6. /\ \A n \in 0 .. N + 1 : f[n] \in V
      /\ f[0] = start
      /\ \A n \in 0 .. N : f[n + 1] = next(f[n])
  <2>1. f \in [0 .. N + 1 -> V] /\ f[0] = start /\ \A n \in 1 .. N + 1 : f[n] = step[f[n - 1]]
    BY <1>5 DEF Courses
  <2>2. ASSUME NEW n \in 0 .. N PROVE f[n + 1] = next(f[n])
    <3>1. n + 1 \in 1 .. N + 1 /\ (n + 1) - 1 = n /\ n \in 0 .. N + 1
      BY <1>1
    <3> QED
      BY <1>4, <2>1, <3>1
  <2> QED
    BY <2>1, <2>2
<1>7. \A F \in V : \A s \in SUBSET S :
        next(F)[s] = IF s = {} THEN base ELSE op[<<pick[s], F[s \ {pick[s]}]>>]
  BY DEF V, next
<1> DEFINE T == {n \in 0 .. N : \A s \in SUBSET S : Cardinality(s) <= n => f[n + 1][s] = f[n][s]}
<1>8. 0 \in T
  <2> SUFFICES ASSUME NEW s \in SUBSET S, Cardinality(s) <= 0 PROVE f[1][s] = f[0][s]
    BY <1>1
  <2>1. s = {}
    BY FS_Subset, FS_EmptySet, FS_CardinalityType
  <2>2. f[0] \in V /\ f[1] = next(f[0])
    BY <1>1, <1>6
  <2> QED
    BY <1>6, <1>7, <2>1, <2>2 DEF start
<1>9. ASSUME NEW n \in 0 .. N - 1, n \in T PROVE n + 1 \in T
  <2>1. f[n + 2] = next(f[n + 1]) /\ f[n + 1] = next(f[n])
    BY <1>1, <1>6
  <2>2. f[n] \in V /\ f[n + 1] \in V
    BY <1>1, <1>6
  <2> SUFFICES ASSUME NEW s \in SUBSET S, Cardinality(s) <= n + 1
               PROVE  f[n + 2][s] = f[n + 1][s]
    BY <1>1
  <2>3. CASE s = {}
    BY <1>7, <2>1, <2>2, <2>3
  <2>4. CASE s # {}
    <3>1. pick[s] \in s /\ IsFiniteSet(s)
      BY <2>4, FS_Subset
    <3>2. Cardinality(s \ {pick[s]}) <= n
      <4>1. /\ Cardinality(s) \in Nat /\ Cardinality(s \ {pick[s]}) \in Nat
            /\ Cardinality(s) = Cardinality(s \ {pick[s]}) + 1
        BY <3>1, OneLess
      <4> QED
        BY <1>1, <4>1
    <3>3. f[n + 1][s \ {pick[s]}] = f[n][s \ {pick[s]}]
      BY <1>9, <3>2
    <3>4. /\ next(f[n + 1])[s] = op[<<pick[s], f[n + 1][s \ {pick[s]}]>>]
          /\ next(f[n])[s] = op[<<pick[s], f[n][s \ {pick[s]}]>>]
      BY <1>7, <2>2, <2>4
    <3> QED
      BY <2>1, <3>3, <3>4
  <2> QED
    BY <2>3, <2>4
<1>10. N \in T
  <2> HIDE DEF T
  <2> QED
    BY <1>1, <1>8, <1>9, TurnByTurn
<1>11. \A s \in SUBSET S : next(f[N])[s] = f[N][s]
  BY <1>1, <1>6, <1>10, FS_Subset DEF N
<1>12. f[N] \in [SUBSET S -> W]
  <2>1. N \in 0 .. N + 1
    BY <1>1
  <2> QED
    BY <1>6, <2>1 DEF V
<1>13. f[N] \in Gatherings(S, W, base, pick, op)
  BY <1>7, <1>11, <1>12 DEF Gatherings, V
<1> QED
  BY <1>13

-----------------------------------------------------------------------------
(* Sums over finite sets.                                                   *)

Pick(s) == CHOOSE x \in s : TRUE

Summing(f, S) ==
  CHOOSE F : F = [s \in SUBSET S |-> IF s = {} THEN 0 ELSE f[Pick(s)] + F[s \ {Pick(s)}]]

LEMMA SumIsSumming ==
  ASSUME NEW f, NEW S
  PROVE  SumFunctionOnSet(f, S) = Summing(f, S)[S]
BY Zenon DEF SumFunctionOnSet, FoldFunctionOnSet, MapThenFoldSet, Summing, Pick

LEMMA SummingIs ==
  ASSUME NEW S, IsFiniteSet(S), NEW f, \A x \in S : f[x] \in Nat
  PROVE  /\ Summing(f, S) \in [SUBSET S -> Nat]
         /\ Summing(f, S)[{}] = 0
         /\ \A s \in (SUBSET S) \ {{}} :
              /\ Pick(s) \in s
              /\ Summing(f, S)[s] = f[Pick(s)] + Summing(f, S)[s \ {Pick(s)}]
<1> DEFINE pick == [s \in SUBSET S |-> Pick(s)]
           op == [c \in S \X Nat |-> f[c[1]] + c[2]]
           Sure(F) == F = [s \in SUBSET S |->
                             IF s = {} THEN 0 ELSE f[Pick(s)] + F[s \ {Pick(s)}]]
<1>0. \A s \in (SUBSET S) \ {{}} : Pick(s) \in s
  BY DEF Pick
<1>1. op \in [S \X Nat -> Nat]
  OBVIOUS
<1>2. \A s \in (SUBSET S) \ {{}} : pick[s] \in s
  BY <1>0
<1>3. Gatherings(S, Nat, 0, pick, op) # {}
  <2> HIDE DEF pick, op
  <2> QED
    BY <1>1, <1>2, AGathering
<1>4. PICK F \in [SUBSET S -> Nat] :
        /\ F[{}] = 0
        /\ \A s \in (SUBSET S) \ {{}} : F[s] = op[<<pick[s], F[s \ {pick[s]}]>>]
  BY <1>3 DEF Gatherings
<1>5. Sure(F)
  <2> SUFFICES ASSUME NEW s \in (SUBSET S) \ {{}} PROVE F[s] = f[Pick(s)] + F[s \ {Pick(s)}]
    BY <1>4
  <2>1. F[s \ {Pick(s)}] \in Nat /\ Pick(s) \in S
    BY <1>0
  <2> QED
    BY <1>4, <2>1
<1> DEFINE G == Summing(f, S)
<1>6. Sure(G)
  BY <1>5 DEF Summing
<1> DEFINE T == {s \in SUBSET S : G[s] = F[s]}
<1>7. {} \in T
  BY <1>4, <1>6
<1> HIDE DEF G
<1>8. DOMAIN G = SUBSET S
  BY <1>6
<1>9. \A s \in SUBSET S : G[s] = F[s]
  <2> DEFINE A == {n \in 0 .. Cardinality(S) :
                     \A s \in SUBSET S : Cardinality(s) <= n => G[s] = F[s]}
  <2>1. Cardinality(S) \in Nat
    BY FS_CardinalityType
  <2>2. 0 \in A
    BY <1>7, <2>1, FS_Subset, FS_EmptySet, FS_CardinalityType
  <2>3. ASSUME NEW n \in 0 .. Cardinality(S) - 1, n \in A PROVE n + 1 \in A
    <3> SUFFICES ASSUME NEW s \in SUBSET S, Cardinality(s) <= n + 1 PROVE G[s] = F[s]
      BY <2>1
    <3>1. CASE s = {}
      BY <1>7, <3>1
    <3>2. CASE s # {}
      <4>1. Pick(s) \in s /\ IsFiniteSet(s)
        BY <1>0, <3>2, FS_Subset
      <4>2. Cardinality(s \ {Pick(s)}) <= n
        BY <2>1, <4>1, OneLess
      <4>3. G[s \ {Pick(s)}] = F[s \ {Pick(s)}]
        BY <2>3, <4>2
      <4> QED
        BY <1>5, <1>6, <3>2, <4>3
    <3> QED
      BY <3>1, <3>2
  <2>4. Cardinality(S) \in A
    <3> HIDE DEF A
    <3> QED
      BY <2>1, <2>2, <2>3, TurnByTurn
  <2> QED
    BY <2>4, FS_Subset
<1>10. G \in [SUBSET S -> Nat]
  BY <1>6, <1>9
<1> QED
  BY <1>0, <1>6, <1>10 DEF G

\* The sum of f over S: nothing of the empty set, and otherwise what any one
\* element has and what the others have.
Total(f, S) == SumFunctionOnSet(f, S)

LEMMA SummingOfLess ==
  ASSUME NEW S, IsFiniteSet(S), NEW f, \A x \in S : f[x] \in Nat, NEW R \in SUBSET S
  PROVE  \A s \in SUBSET R : Summing(f, R)[s] = Summing(f, S)[s]
<1> DEFINE T == {n \in 0 .. Cardinality(R) :
                   \A s \in SUBSET R : Cardinality(s) <= n => Summing(f, R)[s] = Summing(f, S)[s]}
<1>1. IsFiniteSet(R) /\ Cardinality(R) \in Nat
  BY FS_Subset, FS_CardinalityType
<1>2. /\ Summing(f, S)[{}] = 0
      /\ \A s \in (SUBSET S) \ {{}} :
            Pick(s) \in s /\ Summing(f, S)[s] = f[Pick(s)] + Summing(f, S)[s \ {Pick(s)}]
  BY SummingIs
<1>3. /\ Summing(f, R)[{}] = 0
      /\ \A s \in (SUBSET R) \ {{}} :
            Pick(s) \in s /\ Summing(f, R)[s] = f[Pick(s)] + Summing(f, R)[s \ {Pick(s)}]
  BY <1>1, SummingIs
<1>4. 0 \in T
  <2> SUFFICES ASSUME NEW s \in SUBSET R, Cardinality(s) <= 0
               PROVE  Summing(f, R)[s] = Summing(f, S)[s]
    BY <1>1
  <2>1. IsFiniteSet(s) /\ Cardinality(s) \in Nat
    BY <1>1, FS_Subset, FS_CardinalityType
  <2>2. s = {}
    BY <2>1, FS_EmptySet
  <2> QED
    BY <1>2, <1>3, <2>2
<1>5. ASSUME NEW n \in 0 .. Cardinality(R) - 1, n \in T PROVE n + 1 \in T
  <2> SUFFICES ASSUME NEW s \in SUBSET R, Cardinality(s) <= n + 1
               PROVE  Summing(f, R)[s] = Summing(f, S)[s]
    BY <1>1
  <2>1. CASE s = {}
    BY <1>2, <1>3, <2>1
  <2>2. CASE s # {}
    <3>1. PICK p : p = Pick(s)
      OBVIOUS
    <3>2. p \in s /\ IsFiniteSet(s)
      BY <1>1, <1>3, <2>2, <3>1, FS_Subset
    <3>3. Cardinality(s \ {p}) <= n
      <4>1. /\ Cardinality(s) \in Nat /\ Cardinality(s \ {p}) \in Nat
            /\ Cardinality(s) = Cardinality(s \ {p}) + 1
        BY <3>2, OneLess
      <4> QED
        BY <1>1, <4>1
    <3>4. Summing(f, R)[s \ {p}] = Summing(f, S)[s \ {p}]
      BY <1>5, <3>3
    <3>5. /\ Summing(f, R)[s] = f[p] + Summing(f, R)[s \ {p}]
          /\ Summing(f, S)[s] = f[p] + Summing(f, S)[s \ {p}]
      BY <1>2, <1>3, <2>2, <3>1
    <3> QED
      BY <3>4, <3>5
  <2> QED
    BY <2>1, <2>2
<1> HIDE DEF T
<1>6. Cardinality(R) \in T
  BY <1>1, <1>4, <1>5, TurnByTurn
<1>7. \A s \in SUBSET R : Cardinality(s) <= Cardinality(R)
  BY <1>1, FS_Subset
<1> QED
  BY <1>6, <1>7 DEF T

LEMMA TotalOfNone == \A f : Total(f, {}) = 0
<1> SUFFICES ASSUME NEW f PROVE Total(f, {}) = 0
  OBVIOUS
<1>1. IsFiniteSet({})
  BY FS_EmptySet
<1> QED
  BY <1>1, SumIsSumming, SummingIs DEF Total

LEMMA TotalTyped ==
  ASSUME NEW S, IsFiniteSet(S), NEW f, \A x \in S : f[x] \in Nat
  PROVE  Total(f, S) \in Nat
<1>1. Summing(f, S) \in [SUBSET S -> Nat]
  BY SummingIs
<1> QED
  BY <1>1, SumIsSumming DEF Total

LEMMA TotalPicks ==
  ASSUME NEW S, IsFiniteSet(S), NEW f, \A x \in S : f[x] \in Nat, S # {}
  PROVE  Pick(S) \in S /\ Total(f, S) = f[Pick(S)] + Total(f, S \ {Pick(S)})
<1>0. S \in (SUBSET S) \ {{}}
  OBVIOUS
<1>1. Pick(S) \in S /\ Summing(f, S)[S] = f[Pick(S)] + Summing(f, S)[S \ {Pick(S)}]
  BY <1>0, SummingIs
<1>2. Summing(f, S \ {Pick(S)})[S \ {Pick(S)}] = Summing(f, S)[S \ {Pick(S)}]
  BY SummingOfLess
<1> QED
  BY <1>1, <1>2, SumIsSumming DEF Total

LEMMA TotalWithout ==
  ASSUME NEW S, IsFiniteSet(S), NEW f, \A x \in S : f[x] \in Nat, NEW x \in S
  PROVE  Total(f, S) = f[x] + Total(f, S \ {x})
<1> DEFINE T == {n \in 0 .. Cardinality(S) : \A s \in SUBSET S : Cardinality(s) = n =>
                   \A y \in s : Total(f, s) = f[y] + Total(f, s \ {y})}
<1>1. Cardinality(S) \in Nat
  BY FS_CardinalityType
<1>2. \A s \in SUBSET S : IsFiniteSet(s) /\ Cardinality(s) \in 0 .. Cardinality(S)
  BY <1>1, FS_Subset, FS_CardinalityType
<1>3. 0 \in T
  BY <1>1, <1>2, FS_EmptySet
<1>4. ASSUME NEW n \in 0 .. Cardinality(S) - 1, n \in T PROVE n + 1 \in T
  <2> SUFFICES ASSUME NEW s \in SUBSET S, Cardinality(s) = n + 1, NEW y \in s
               PROVE  Total(f, s) = f[y] + Total(f, s \ {y})
    BY <1>1
  <2>1. IsFiniteSet(s) /\ s # {} /\ \A z \in s : f[z] \in Nat
    BY <1>2
  <2>2. PICK p : p = Pick(s)
    OBVIOUS
  <2>3. p \in s /\ Total(f, s) = f[p] + Total(f, s \ {p})
    BY <2>1, <2>2, TotalPicks
  <2>4. CASE y = p
    BY <2>3, <2>4
  <2>5. CASE y # p
    <3>1. Cardinality(s \ {p}) = n /\ Cardinality(s \ {y}) = n
      <4>1. /\ Cardinality(s) \in Nat /\ Cardinality(s \ {p}) \in Nat
            /\ Cardinality(s) = Cardinality(s \ {p}) + 1
        BY <2>1, <2>3, OneLess
      <4>2. /\ Cardinality(s \ {y}) \in Nat
            /\ Cardinality(s) = Cardinality(s \ {y}) + 1
        BY <2>1, OneLess
      <4> QED
        BY <1>1, <4>1, <4>2
    <3>2. Total(f, s \ {p}) = f[y] + Total(f, (s \ {p}) \ {y})
      BY <1>4, <2>3, <2>5, <3>1
    <3>3. Total(f, s \ {y}) = f[p] + Total(f, (s \ {y}) \ {p})
      BY <1>4, <2>3, <2>5, <3>1
    <3>4. (s \ {p}) \ {y} = (s \ {y}) \ {p}
      OBVIOUS
    <3>5. Total(f, (s \ {p}) \ {y}) \in Nat
      <4>1. IsFiniteSet((s \ {p}) \ {y})
        BY <1>2
      <4> QED
        BY <4>1, TotalTyped
    <3>6. f[p] \in Nat /\ f[y] \in Nat
      BY <2>3
    <3>7. Total(f, s \ {y}) = f[p] + Total(f, (s \ {p}) \ {y})
      BY <3>3, <3>4
    <3>8. \A a, b, c \in Nat : a + (b + c) = b + (a + c)
      OBVIOUS
    <3> QED
      BY <2>3, <3>2, <3>5, <3>6, <3>7, <3>8
  <2> QED
    BY <2>4, <2>5
<1> HIDE DEF T
<1>5. Cardinality(S) \in T
  BY <1>1, <1>3, <1>4, TurnByTurn
<1> QED
  BY <1>5 DEF T

LEMMA BagCardinalityIs ==
  ASSUME NEW B
  PROVE  BagCardinality(B) = Total(B, DOMAIN B)
<1>1. BagCardinality(B) = Summing(B, DOMAIN B)[DOMAIN B]
  BY Zenon DEF BagCardinality, Summing, Pick
<1> QED
  BY <1>1, SumIsSumming DEF Total

LEMMA TotalWith ==
  ASSUME NEW S, IsFiniteSet(S), NEW f, \A x \in S : f[x] \in Nat,
         NEW s \in SUBSET S, NEW x \in S \ s
  PROVE  /\ Total(f, s) \in Nat /\ f[x] \in Nat
         /\ Total(f, s \cup {x}) = f[x] + Total(f, s)
<1>1. IsFiniteSet(s) /\ IsFiniteSet(s \cup {x})
  BY FS_Subset
<1>2. (s \cup {x}) \ {x} = s
  OBVIOUS
<1>3. Total(f, s \cup {x}) = f[x] + Total(f, (s \cup {x}) \ {x})
  BY <1>1, TotalWithout
<1> QED
  BY <1>1, <1>2, <1>3, TotalTyped

LEMMA TotalAlike ==
  ASSUME NEW S, IsFiniteSet(S), NEW f, \A x \in S : f[x] \in Nat,
         NEW g, \A x \in S : g[x] = f[x]
  PROVE  Total(f, S) = Total(g, S)
<1> DEFINE T == {s \in SUBSET S : Total(f, s) = Total(g, s)}
<1>1. {} \in T
  BY TotalOfNone
<1>2. ASSUME NEW s \in SUBSET S, NEW x \in S \ s, s \in T PROVE s \cup {x} \in T
  <2>1. Total(f, s \cup {x}) = f[x] + Total(f, s)
    BY TotalWith
  <2>2. Total(g, s \cup {x}) = g[x] + Total(g, s)
    BY TotalWith
  <2> QED
    BY <1>2, <2>1, <2>2
<1> HIDE DEF T
<1>3. S \in T
  BY <1>1, <1>2, OneByOne
<1> QED
  BY <1>3 DEF T

LEMMA TotalOfAlike ==
  ASSUME NEW S, IsFiniteSet(S), NEW c \in Nat, NEW f, \A x \in S : f[x] = c
  PROVE  Total(f, S) = c * Cardinality(S)
<1> DEFINE T == {s \in SUBSET S : Total(f, s) = c * Cardinality(s)}
<1>1. {} \in T
  BY TotalOfNone, FS_EmptySet
<1>2. ASSUME NEW s \in SUBSET S, NEW x \in S \ s, s \in T PROVE s \cup {x} \in T
  <2>1. Total(f, s \cup {x}) = f[x] + Total(f, s)
    BY TotalWith
  <2>2. IsFiniteSet(s)
    BY FS_Subset
  <2>3. Cardinality(s) \in Nat /\ Cardinality(s \cup {x}) = Cardinality(s) + 1
    BY <2>2, FS_AddElement, FS_CardinalityType
  <2>4. \A n \in Nat : c + c * n = c * (n + 1)
    OBVIOUS
  <2> QED
    BY <1>2, <2>1, <2>3, <2>4
<1> HIDE DEF T
<1>3. S \in T
  BY <1>1, <1>2, OneByOne
<1> QED
  BY <1>3 DEF T

LEMMA TotalInParts ==
  ASSUME NEW S, IsFiniteSet(S), NEW f, \A x \in S : f[x] \in Nat, NEW A \in SUBSET S
  PROVE  /\ Total(f, A) \in Nat /\ Total(f, S \ A) \in Nat
         /\ Total(f, S) = Total(f, A) + Total(f, S \ A)
<1> DEFINE T == {s \in SUBSET S : Total(f, S) = Total(f, s) + Total(f, S \ s)}
<1>0. \A s \in SUBSET S : Total(f, s) \in Nat
  BY FS_Subset, TotalTyped
<1>1. {} \in T
  BY <1>0, TotalOfNone
<1>2. ASSUME NEW s \in SUBSET S, NEW x \in S \ s, s \in T PROVE s \cup {x} \in T
  <2>1. Total(f, s \cup {x}) = f[x] + Total(f, s)
    BY TotalWith
  <2>2. Total(f, S \ s) = f[x] + Total(f, (S \ s) \ {x})
    <3>1. IsFiniteSet(S \ s)
      BY FS_Subset
    <3> QED
      BY <3>1, TotalWithout
  <2>3. (S \ s) \ {x} = S \ (s \cup {x})
    OBVIOUS
  <2>4. \A a, b, c \in Nat : b + (a + c) = (a + b) + c
    OBVIOUS
  <2>5. f[x] \in Nat /\ Total(f, s) \in Nat /\ Total(f, S \ (s \cup {x})) \in Nat
    BY <1>0
  <2>6. Total(f, S) = Total(f, s) + (f[x] + Total(f, S \ (s \cup {x})))
    BY <1>2, <2>2, <2>3
  <2>7. Total(f, S) = Total(f, s \cup {x}) + Total(f, S \ (s \cup {x}))
    BY <2>1, <2>4, <2>5, <2>6
  <2> QED
    BY <2>7
<1> HIDE DEF T
<1>3. A \in T
  BY <1>1, <1>2, OneByOne
<1> QED
  BY <1>0, <1>3 DEF T

LEMMA TotalGrows ==
  ASSUME NEW S, IsFiniteSet(S), NEW f, NEW g,
         \A x \in S : f[x] \in Nat /\ g[x] \in Nat /\ f[x] <= g[x]
  PROVE  Total(f, S) <= Total(g, S)
<1>0. (\A x \in S : f[x] \in Nat) /\ (\A x \in S : g[x] \in Nat)
  OBVIOUS
<1> DEFINE T == {s \in SUBSET S : Total(f, s) <= Total(g, s)}
<1>1. {} \in T
  BY TotalOfNone
<1>2. ASSUME NEW s \in SUBSET S, NEW x \in S \ s, s \in T PROVE s \cup {x} \in T
  <2>1. Total(f, s \cup {x}) = f[x] + Total(f, s) /\ Total(f, s) \in Nat
    BY <1>0, TotalWith
  <2>2. Total(g, s \cup {x}) = g[x] + Total(g, s) /\ Total(g, s) \in Nat
    BY <1>0, TotalWith
  <2>3. f[x] \in Nat /\ g[x] \in Nat /\ f[x] <= g[x]
    OBVIOUS
  <2> QED
    BY <1>2, <2>1, <2>2, <2>3
<1> HIDE DEF T
<1>3. S \in T
  BY <1>1, <1>2, OneByOne
<1> QED
  BY <1>3 DEF T

LEMMA TotalByKind ==
  ASSUME NEW S, IsFiniteSet(S), NEW f, \A x \in S : f[x] \in Nat,
         NEW K, IsFiniteSet(K), NEW kind \in [S -> K]
  PROVE  Total(f, S) = Total([k \in K |-> Total(f, {x \in S : kind[x] = k})], K)
<1> DEFINE Of(s) == [k \in K |-> Total(f, {x \in s : kind[x] = k})]
           T == {s \in SUBSET S : Total(f, s) = Total(Of(s), K)}
<1>0. \A s \in SUBSET S : Total(f, s) \in Nat
  BY FS_Subset, TotalTyped
<1>1. {} \in T
  <2>1. \A k \in K : Of({})[k] = 0
    BY TotalOfNone
  <2> HIDE DEF Of
  <2>2. Total(Of({}), K) = 0 * Cardinality(K)
    BY <2>1, TotalOfAlike
  <2>3. Total(Of({}), K) = 0
    BY <2>2, FS_CardinalityType
  <2> QED
    BY <2>3, TotalOfNone
<1>2. ASSUME NEW s \in SUBSET S, NEW x \in S \ s, s \in T PROVE s \cup {x} \in T
  <2> DEFINE F == Of(s)
             G == Of(s \cup {x})
             k == kind[x]
  <2>1. k \in K
    OBVIOUS
  <2>2. \A j \in K : F[j] \in Nat /\ G[j] \in Nat
    BY <1>0
  <2>3. G[k] = f[x] + F[k]
    <3>1. {y \in s \cup {x} : kind[y] = k} = {y \in s : kind[y] = k} \cup {x}
      OBVIOUS
    <3>2. {y \in s : kind[y] = k} \in SUBSET S /\ x \in S \ {y \in s : kind[y] = k}
      OBVIOUS
    <3>3. Total(f, {y \in s : kind[y] = k} \cup {x}) = f[x] + Total(f, {y \in s : kind[y] = k})
      BY <3>2, TotalWith
    <3> QED
      BY <2>1, <3>1, <3>3
  <2>4. \A j \in K \ {k} : G[j] = F[j]
    <3> SUFFICES ASSUME NEW j \in K \ {k} PROVE G[j] = F[j]
      OBVIOUS
    <3>1. {y \in s \cup {x} : kind[y] = j} = {y \in s : kind[y] = j}
      OBVIOUS
    <3> QED
      BY <3>1
  <2>5. Total(f, s \cup {x}) = f[x] + Total(f, s)
    BY TotalWith
  <2>8. Total(f, s) = Total(F, K)
    BY <1>2
  <2> HIDE DEF F, G, Of
  <2>6. /\ Total(F, K) = F[k] + Total(F, K \ {k})
        /\ Total(G, K) = G[k] + Total(G, K \ {k})
    BY <2>1, <2>2, TotalWithout
  <2>7. Total(F, K \ {k}) = Total(G, K \ {k}) /\ Total(F, K \ {k}) \in Nat
    <3>1. IsFiniteSet(K \ {k})
      BY FS_Subset
    <3> QED
      BY <2>2, <2>4, <3>1, TotalAlike, TotalTyped
  <2>9. \A a, b, c \in Nat : a + (b + c) = (a + b) + c
    OBVIOUS
  <2>10. f[x] \in Nat /\ F[k] \in Nat
    BY <2>1, <2>2
  <2>11. Total(f, s \cup {x}) = Total(G, K)
    BY <2>3, <2>5, <2>6, <2>7, <2>8, <2>9, <2>10
  <2> QED
    BY <2>11 DEF G
<1> HIDE DEF T
<1>3. S \in T
  BY <1>1, <1>2, OneByOne
<1> QED
  BY <1>3 DEF T

\* The same, counting.
LEMMA CardinalityIsTotal ==
  ASSUME NEW S, IsFiniteSet(S)
  PROVE  Cardinality(S) = Total([x \in S |-> 1], S)
<1>1. Total([x \in S |-> 1], S) = 1 * Cardinality(S)
  <2>1. \A x \in S : [y \in S |-> 1][x] = 1
    OBVIOUS
  <2> QED
    BY <2>1, TotalOfAlike
<1> QED
  BY <1>1, FS_CardinalityType

LEMMA CountByKind ==
  ASSUME NEW S, IsFiniteSet(S), NEW K, IsFiniteSet(K), NEW kind \in [S -> K]
  PROVE  Cardinality(S) = Total([k \in K |-> Cardinality({x \in S : kind[x] = k})], K)
<1> DEFINE one == [x \in S |-> 1]
           Of(k) == {x \in S : kind[x] = k}
<1>1. \A s \in SUBSET S : Total(one, s) = Cardinality(s)
  <2> SUFFICES ASSUME NEW s \in SUBSET S PROVE Total(one, s) = Cardinality(s)
    OBVIOUS
  <2>1. IsFiniteSet(s) /\ \A x \in s : one[x] = 1
    BY FS_Subset
  <2> HIDE DEF one
  <2>2. Total(one, s) = 1 * Cardinality(s)
    BY <2>1, TotalOfAlike
  <2> QED
    BY <2>1, <2>2, FS_CardinalityType
<1>2. \A x \in S : one[x] \in Nat
  OBVIOUS
<1> HIDE DEF one
<1>3. Total(one, S) = Total([k \in K |-> Total(one, {x \in S : kind[x] = k})], K)
  BY <1>2, TotalByKind
<1>4. [k \in K |-> Total(one, {x \in S : kind[x] = k})]
        = [k \in K |-> Cardinality({x \in S : kind[x] = k})]
  <2>1. \A k \in K : {x \in S : kind[x] = k} \in SUBSET S
    OBVIOUS
  <2> QED
    BY <1>1, <2>1
<1> QED
  BY <1>1, <1>3, <1>4

\* As many things as there are names for them, if each has its own.
LEMMA ImageIs ==
  ASSUME NEW S, IsFiniteSet(S), NEW name
  PROVE  /\ IsFiniteSet({name[x] : x \in S})
         /\ Cardinality({name[x] : x \in S}) \in Nat
         /\ Cardinality({name[x] : x \in S}) <= Cardinality(S)
         /\ (\A x, y \in S : name[x] = name[y] => x = y)
              => Cardinality({name[x] : x \in S}) = Cardinality(S)
<1> DEFINE T == {name[x] : x \in S}
           M == [x \in S |-> name[x]]
<1>1. M \in Surjection(S, T)
  BY DEF Surjection
<1>2. (\A x, y \in S : name[x] = name[y] => x = y) => M \in Injection(S, T)
  BY DEF Injection, IsInjective
<1> HIDE DEF M
<1>3. /\ IsFiniteSet(T) /\ Cardinality(T) <= Cardinality(S)
      /\ M \in Injection(S, T) => Cardinality(T) = Cardinality(S)
  BY <1>1, FS_Surjection
<1> QED
  BY <1>2, <1>3, FS_CardinalityType

-----------------------------------------------------------------------------
(* The readings and the tables built from them.                            *)

\* A finite bag of readings.
Sound(rs) ==
    /\ IsFiniteSet(DOMAIN rs) /\ DOMAIN rs \subseteq Kinds
    /\ rs \in [DOMAIN rs -> {n \in Nat : n > 0}]

LEMMA StatesAre ==
    /\ States = {"NO_CELL", "CELLS_VISIBLE_UNREGISTERED", "REGISTERED_2G_3G",
                 "LTE_WEAK", "LTE_GOOD"}
    /\ IsFiniteSet(States)
    /\ DOMAIN Ascending = 1 .. 5
    /\ \A i \in 1 .. 5 : Ascending[i] \in States /\ Score(Ascending[i]) = i
    /\ \A s \in States : Score(s) \in 1 .. 5 /\ Ascending[Score(s)] = s
<1>1. /\ DOMAIN Ascending = 1 .. 5
      /\ Ascending[1] = "NO_CELL" /\ Ascending[2] = "CELLS_VISIBLE_UNREGISTERED"
      /\ Ascending[3] = "REGISTERED_2G_3G" /\ Ascending[4] = "LTE_WEAK"
      /\ Ascending[5] = "LTE_GOOD"
  BY DEF Ascending
<1>2. \A i \in 1 .. 5 : i = 1 \/ i = 2 \/ i = 3 \/ i = 4 \/ i = 5
  OBVIOUS
<1>3. States = {"NO_CELL", "CELLS_VISIBLE_UNREGISTERED", "REGISTERED_2G_3G",
                "LTE_WEAK", "LTE_GOOD"}
  BY <1>1, <1>2 DEF States, Range
<1>4. IsFiniteSet(States)
  <2>1. \A S, x : IsFiniteSet(S) => IsFiniteSet(S \cup {x})
    BY FS_AddElement
  <2>2. States = (((({} \cup {"NO_CELL"}) \cup {"CELLS_VISIBLE_UNREGISTERED"})
                     \cup {"REGISTERED_2G_3G"}) \cup {"LTE_WEAK"}) \cup {"LTE_GOOD"}
    BY <1>3
  <2> QED
    BY <2>1, <2>2, FS_EmptySet
<1>5. \A i, j \in 1 .. 5 : Ascending[i] = Ascending[j] => i = j
  BY <1>1, <1>2
<1>6. \A s \in States : \E i \in 1 .. 5 : Ascending[i] = s
  BY <1>1 DEF States, Range
<1>7. \A s \in States : Score(s) \in 1 .. 5 /\ Ascending[Score(s)] = s
  BY <1>1, <1>6 DEF Score
<1>8. \A i \in 1 .. 5 : Ascending[i] \in States
  BY <1>1 DEF States, Range
<1> QED
  BY <1>1, <1>3, <1>4, <1>5, <1>7, <1>8

LEMMA KindsAre ==
  ASSUME NEW k \in Kinds
  PROVE  /\ k.hex \in Hexes /\ k.handset \in Handsets /\ k.state \in States
         /\ k.network \in NetworkNamed(k.handset, k.state)
         /\ k.network \in Networks \cup {None}
<1>1. PICK h \in Hexes, d \in Handsets, s \in States :
        k \in {[hex |-> h, handset |-> d, state |-> s, network |-> n] : n \in NetworkNamed(d, s)}
  BY DEF Kinds
<1>2. PICK n \in NetworkNamed(d, s) :
        k = [hex |-> h, handset |-> d, state |-> s, network |-> n]
  BY <1>1
<1>3. n \in Networks \cup {None}
  BY SurveyAssumption DEF NetworkNamed
<1> QED
  BY <1>2, <1>3

LEMMA SoundTotals ==
  ASSUME NEW rs, Sound(rs)
  PROVE  /\ \A k \in DOMAIN rs : rs[k] \in Nat /\ rs[k] > 0
         /\ \A S \in SUBSET DOMAIN rs : Total(rs, S) \in Nat
         /\ BagCardinality(rs) = Total(rs, DOMAIN rs) /\ BagCardinality(rs) \in Nat
<1>1. \A k \in DOMAIN rs : rs[k] \in Nat /\ rs[k] > 0
  BY DEF Sound
<1>2. \A S \in SUBSET DOMAIN rs : Total(rs, S) \in Nat
  BY <1>1, FS_Subset, TotalTyped DEF Sound
<1> QED
  BY <1>1, <1>2, BagCardinalityIs

LEMMA AmongIs ==
  ASSUME NEW rs, Sound(rs), NEW S
  PROVE  /\ Sound(Among(rs, S))
         /\ DOMAIN Among(rs, S) = S \cap DOMAIN rs
         /\ \A k \in S \cap DOMAIN rs : Among(rs, S)[k] = rs[k]
         /\ \A R \in SUBSET (S \cap DOMAIN rs) : Total(Among(rs, S), R) = Total(rs, R)
         /\ BagCardinality(Among(rs, S)) = Total(rs, S \cap DOMAIN rs)
<1> DEFINE A == Among(rs, S)
<1>1. DOMAIN A = S \cap DOMAIN rs /\ \A k \in S \cap DOMAIN rs : A[k] = rs[k]
  BY DEF Among, Restrict
<1>2. IsFiniteSet(S \cap DOMAIN rs)
  BY FS_Subset DEF Sound
<1>3. Sound(A)
  BY <1>1, <1>2 DEF Sound, Among, Restrict
<1>4. \A R \in SUBSET (S \cap DOMAIN rs) : Total(A, R) = Total(rs, R)
  <2> SUFFICES ASSUME NEW R \in SUBSET (S \cap DOMAIN rs) PROVE Total(A, R) = Total(rs, R)
    OBVIOUS
  <2>1. IsFiniteSet(R)
    BY <1>2, FS_Subset
  <2>2. (\A k \in R : rs[k] \in Nat) /\ \A k \in R : A[k] = rs[k]
    BY <1>1, SoundTotals
  <2> HIDE DEF A
  <2> QED
    BY <2>1, <2>2, TotalAlike
<1>5. BagCardinality(A) = Total(A, DOMAIN A)
  BY BagCardinalityIs
<1> QED
  BY <1>1, <1>3, <1>4, <1>5

LEMMA OnIs ==
  ASSUME NEW rs, Sound(rs), NEW h
  PROVE  /\ Sound(On(rs, h))
         /\ DOMAIN On(rs, h) = {k \in DOMAIN rs : k.hex = h}
         /\ \A R \in SUBSET DOMAIN On(rs, h) : Total(On(rs, h), R) = Total(rs, R)
         /\ BagCardinality(On(rs, h)) = Total(rs, {k \in DOMAIN rs : k.hex = h})
<1>1. {k \in DOMAIN rs : k.hex = h} \cap DOMAIN rs = {k \in DOMAIN rs : k.hex = h}
  OBVIOUS
<1> QED
  BY <1>1, AmongIs DEF On

\* The readings of a state, and of the states up to one.
LEMMA CountsAre ==
  ASSUME NEW rs, Sound(rs)
  PROVE  /\ Counts(rs) \in [States -> Nat]
         /\ \A s \in States : Counts(rs)[s] = Total(rs, {k \in DOMAIN rs : k.state = s})
         /\ SumFunction(Counts(rs)) = BagCardinality(rs)
<1>1. \A s \in States : Counts(rs)[s] = Total(rs, {k \in DOMAIN rs : k.state = s})
  <2> SUFFICES ASSUME NEW s \in States
               PROVE  Counts(rs)[s] = Total(rs, {k \in DOMAIN rs : k.state = s})
    OBVIOUS
  <2>1. {k \in DOMAIN rs : k.state = s} \cap DOMAIN rs = {k \in DOMAIN rs : k.state = s}
    OBVIOUS
  <2> QED
    BY <2>1, AmongIs DEF Counts
<1>2. \A s \in States : Total(rs, {k \in DOMAIN rs : k.state = s}) \in Nat
  BY SoundTotals
<1>3. Counts(rs) \in [States -> Nat]
  BY <1>1, <1>2 DEF Counts
<1>4. SumFunction(Counts(rs)) = Total(Counts(rs), States)
  BY <1>3 DEF SumFunction, Total
<1> DEFINE kind == [k \in DOMAIN rs |-> k.state]
<1>5. kind \in [DOMAIN rs -> States]
  BY KindsAre DEF Sound
<1>6. Counts(rs) = [s \in States |-> Total(rs, {k \in DOMAIN rs : kind[k] = s})]
  BY <1>1, <1>3
<1> HIDE DEF kind
<1>7. Total(rs, DOMAIN rs) = Total(Counts(rs), States)
  <2>1. IsFiniteSet(DOMAIN rs) /\ IsFiniteSet(States) /\ \A k \in DOMAIN rs : rs[k] \in Nat
    BY StatesAre, SoundTotals DEF Sound
  <2>2. Total(rs, DOMAIN rs)
          = Total([s \in States |-> Total(rs, {k \in DOMAIN rs : kind[k] = s})], States)
    BY <1>5, <2>1, TotalByKind
  <2> QED
    BY <1>6, <2>2
<1> QED
  BY <1>1, <1>3, <1>4, <1>7, SoundTotals

LEMMA AtMostIs ==
  ASSUME NEW counts \in [States -> Nat]
  PROVE  /\ AtMost(counts, 0) = 0
         /\ \A i \in 0 .. 5 : AtMost(counts, i) \in Nat
         /\ \A i \in 1 .. 5 : AtMost(counts, i) = counts[Ascending[i]] + AtMost(counts, i - 1)
         /\ AtMost(counts, 5) = SumFunction(counts)
<1> DEFINE Up(i) == {Ascending[j] : j \in 1 .. i}
<1>1. Up(0) = {} /\ Up(5) = States
  <2>1. \A s \in States : s \in Up(5)
    BY StatesAre
  <2>2. \A s \in Up(5) : s \in States
    BY StatesAre
  <2> QED
    BY <2>1, <2>2
<1>2. \A i \in 0 .. 5 : Up(i) \in SUBSET States
  BY StatesAre
<1>3. \A i \in 1 .. 5 : Up(i) = Up(i - 1) \cup {Ascending[i]} /\ Ascending[i] \in States \ Up(i - 1)
  <2> SUFFICES ASSUME NEW i \in 1 .. 5
               PROVE  Up(i) = Up(i - 1) \cup {Ascending[i]} /\ Ascending[i] \in States \ Up(i - 1)
    OBVIOUS
  <2>1. 1 .. i = (1 .. i - 1) \cup {i}
    OBVIOUS
  <2>2. \A j \in 1 .. i - 1 : j \in 1 .. 5 /\ j # i
    OBVIOUS
  <2> QED
    BY <2>1, <2>2, StatesAre
<1>4. \A i \in 0 .. 5 : AtMost(counts, i) = Total(counts, Up(i))
  BY DEF AtMost, Total
<1> HIDE DEF Up
<1>5. \A i \in 0 .. 5 : Total(counts, Up(i)) \in Nat
  BY <1>2, StatesAre, FS_Subset, TotalTyped
<1>6. \A i \in 1 .. 5 : Total(counts, Up(i)) = counts[Ascending[i]] + Total(counts, Up(i - 1))
  <2> SUFFICES ASSUME NEW i \in 1 .. 5
               PROVE  Total(counts, Up(i)) = counts[Ascending[i]] + Total(counts, Up(i - 1))
    OBVIOUS
  <2>1. Up(i - 1) \in SUBSET States
    BY <1>2
  <2>2. Total(counts, Up(i - 1) \cup {Ascending[i]})
          = counts[Ascending[i]] + Total(counts, Up(i - 1))
    BY <1>3, <2>1, StatesAre, TotalWith
  <2> QED
    BY <1>3, <2>2
<1>7. SumFunction(counts) = Total(counts, States)
  BY DEF SumFunction, Total
<1>8. AtMost(counts, 0) = 0
  BY <1>1, <1>4, TotalOfNone
<1>9. \A i \in 1 .. 5 : AtMost(counts, i) = counts[Ascending[i]] + AtMost(counts, i - 1)
  <2> SUFFICES ASSUME NEW i \in 1 .. 5
               PROVE  AtMost(counts, i) = counts[Ascending[i]] + AtMost(counts, i - 1)
    OBVIOUS
  <2>1. i \in 0 .. 5 /\ i - 1 \in 0 .. 5
    OBVIOUS
  <2> QED
    BY <1>4, <1>6, <2>1
<1>10. AtMost(counts, 5) = Total(counts, States)
  BY <1>1, <1>4
<1> QED
  BY <1>4, <1>5, <1>7, <1>8, <1>9, <1>10

\* The middle state: half of the readings, rounded down, are no worse than those
\* below it, and more than half are up to it.
LEMMA MiddleIs ==
  ASSUME NEW counts \in [States -> Nat], SumFunction(counts) > 0
  PROVE  /\ Middle(counts) \in States /\ counts[Middle(counts)] > 0
         /\ AtMost(counts, Score(Middle(counts))) > SumFunction(counts) \div 2
         /\ AtMost(counts, Score(Middle(counts)) - 1) <= SumFunction(counts) \div 2
<1> DEFINE total == SumFunction(counts)
           over == {i \in DOMAIN Ascending : AtMost(counts, i) > total \div 2}
<1>1. total \in Nat /\ total > 0 /\ total \div 2 \in Nat /\ total > total \div 2
  <2>1. total \in Nat /\ total > 0
    BY AtMostIs
  <2> HIDE DEF total
  <2> QED
    BY <2>1
<1>2. 5 \in over
  BY <1>1, AtMostIs, StatesAre
<1>3. over \subseteq Nat /\ over \subseteq 1 .. 5
  BY StatesAre
<1>4. Min(over) \in over /\ \A i \in over : Min(over) <= i
  <2> HIDE DEF over
  <2> QED
    BY <1>2, <1>3, LeastOf
<1>5. Middle(counts) = Ascending[Min(over)]
  <2>1. total # 0
    BY <1>1
  <2> QED
    BY <2>1 DEF Middle
<1> DEFINE m == Min(over)
<1>6. m \in 1 .. 5 /\ AtMost(counts, m) > total \div 2
  BY <1>3, <1>4
<1>7. AtMost(counts, m - 1) <= total \div 2
  <2>1. CASE m = 1
    <3>1. AtMost(counts, m - 1) = 0
      BY <2>1, AtMostIs
    <3> QED
      BY <1>1, <3>1
  <2>2. CASE m # 1
    <3>1. m - 1 \in 1 .. 5
      BY <1>6, <2>2
    <3>2. m - 1 \notin over
      <4> HIDE DEF over
      <4> QED
        BY <1>4, <1>6
    <3>3. ~(AtMost(counts, m - 1) > total \div 2)
      BY <3>1, <3>2, StatesAre
    <3>4. AtMost(counts, m - 1) \in Nat
      BY <3>1, AtMostIs
    <3> QED
      BY <1>1, <3>3, <3>4
  <2> QED
    BY <2>1, <2>2
<1> HIDE DEF over, total
<1>8. Middle(counts) \in States /\ Score(Middle(counts)) = m
  BY <1>5, <1>6, StatesAre
<1>9. counts[Middle(counts)] > 0
  <2>1. m - 1 \in 0 .. 5 /\ m \in 0 .. 5
    BY <1>6
  <2>2. /\ AtMost(counts, m) = counts[Ascending[m]] + AtMost(counts, m - 1)
        /\ AtMost(counts, m) \in Nat /\ AtMost(counts, m - 1) \in Nat
    BY <1>6, <2>1, AtMostIs
  <2>3. counts[Ascending[m]] \in Nat
    BY <1>5, <1>8
  <2> QED
    BY <1>1, <1>5, <1>6, <1>7, <2>2, <2>3
<1> QED
  BY <1>6, <1>7, <1>8, <1>9 DEF total

LEMMA UpToAState ==
  ASSUME NEW rs, Sound(rs), NEW i \in 0 .. 5
  PROVE  AtMost(Counts(rs), i) = Total(rs, {k \in DOMAIN rs : Score(k.state) <= i})
<1> DEFINE Below(n) == {k \in DOMAIN rs : Score(k.state) <= n}
           T == {n \in 0 .. 5 : AtMost(Counts(rs), n) = Total(rs, Below(n))}
<1>0. \A k \in DOMAIN rs : k.state \in States /\ Score(k.state) \in 1 .. 5
  BY KindsAre, StatesAre DEF Sound
<1>1. 0 \in T
  <2>1. Below(0) = {}
    BY <1>0
  <2>2. Total(rs, Below(0)) = 0
    BY <2>1, TotalOfNone
  <2>3. AtMost(Counts(rs), 0) = 0
    BY AtMostIs, CountsAre
  <2> QED
    BY <2>2, <2>3
<1>2. ASSUME NEW n \in 0 .. 4, n \in T PROVE n + 1 \in T
  <2> DEFINE at == {k \in DOMAIN rs : k.state = Ascending[n + 1]}
  <2>1. Below(n + 1) \ Below(n) = at
    <3>1. \A k \in DOMAIN rs : k.state = Ascending[n + 1] <=> Score(k.state) = n + 1
      BY <1>0, StatesAre
    <3> QED
      BY <1>0, <3>1
  <2>2. Below(n) \in SUBSET Below(n + 1) /\ IsFiniteSet(Below(n + 1))
    BY <1>0, FS_Subset DEF Sound
  <2>3. \A k \in Below(n + 1) : rs[k] \in Nat
    BY SoundTotals
  <2> HIDE DEF Below
  <2>4. /\ Total(rs, Below(n + 1)) = Total(rs, Below(n)) + Total(rs, Below(n + 1) \ Below(n))
        /\ Total(rs, Below(n)) \in Nat /\ Total(rs, Below(n + 1) \ Below(n)) \in Nat
    BY <2>2, <2>3, TotalInParts
  <2>5. Ascending[n + 1] \in States /\ n + 1 \in 1 .. 5 /\ (n + 1) - 1 = n
    BY StatesAre
  <2>6. Counts(rs)[Ascending[n + 1]] = Total(rs, at)
    BY <2>5, CountsAre
  <2>7. AtMost(Counts(rs), n + 1) = Counts(rs)[Ascending[n + 1]] + AtMost(Counts(rs), n)
    BY <2>5, AtMostIs, CountsAre
  <2>8. AtMost(Counts(rs), n + 1) = Total(rs, Below(n + 1) \ Below(n)) + Total(rs, Below(n))
    BY <1>2, <2>1, <2>6, <2>7
  <2> QED
    BY <2>4, <2>8
<1> HIDE DEF T
<1>3. \A n \in 0 .. 5 : n \in T
  BY <1>1, <1>2, TurnByTurn
<1> QED
  BY <1>3 DEF T

\* What a tile says of the readings of its hexagon, if there are any.
LEMMA TileIs ==
  ASSUME NEW rs, Sound(rs), DOMAIN rs # {}
  PROVE  /\ BagCardinality(rs) > 0 /\ BagCardinality(rs) \in Nat
         /\ Tile(rs).state \in States /\ Tile(rs).state = MedianState(Counts(rs))
         /\ Tile(rs).colour = StateColour[Tile(rs).state]
         /\ Tile(rs).measurements = BagCardinality(rs)
         /\ Tile(rs).devices = Cardinality(TakenBy(rs)) /\ Tile(rs).devices \in Nat
         /\ Tile(rs).worst = WorstState(Counts(rs))
         /\ Counts(rs)[Tile(rs).state] > 0
<1>1. PICK k \in DOMAIN rs : TRUE
  OBVIOUS
<1>2. Total(rs, DOMAIN rs) = rs[k] + Total(rs, DOMAIN rs \ {k})
  BY SoundTotals, TotalWithout DEF Sound
<1>3. BagCardinality(rs) > 0 /\ BagCardinality(rs) \in Nat
  <2>1. Total(rs, DOMAIN rs \ {k}) \in Nat /\ rs[k] \in Nat /\ rs[k] > 0
    BY SoundTotals
  <2>2. BagCardinality(rs) = Total(rs, DOMAIN rs)
    BY SoundTotals
  <2> QED
    BY <1>2, <2>1, <2>2
<1>4. Counts(rs) \in [States -> Nat] /\ SumFunction(Counts(rs)) > 0
  BY <1>3, CountsAre
<1>5. MedianState(Counts(rs)) \in States /\ Counts(rs)[MedianState(Counts(rs))] > 0
  BY <1>4, MiddleIs DEF MedianState
<1>6. IsFiniteSet(TakenBy(rs)) /\ Cardinality(TakenBy(rs)) \in Nat
  <2> DEFINE of == [j \in DOMAIN rs |-> j.handset]
  <2>1. TakenBy(rs) = {of[j] : j \in DOMAIN rs}
    BY DEF TakenBy
  <2> HIDE DEF of
  <2> QED
    BY <2>1, ImageIs DEF Sound
<1>7. MedianState(Counts(rs)) # None
  BY <1>5, SurveyAssumption
<1> QED
  BY <1>3, <1>5, <1>6, <1>7 DEF Tile, TileOf, Colour

\* The readings that a state has are those of it.
LEMMA SeenInCounts ==
  ASSUME NEW rs, Sound(rs), NEW s \in States
  PROVE  Counts(rs)[s] > 0 <=> \E k \in DOMAIN rs : k.state = s
<1> DEFINE S == {k \in DOMAIN rs : k.state = s}
<1>1. Counts(rs)[s] = Total(rs, S)
  BY CountsAre
<1>2. ASSUME NEW k \in S PROVE Total(rs, S) > 0
  <2>1. IsFiniteSet(S) /\ \A j \in S : rs[j] \in Nat
    BY FS_Subset, SoundTotals DEF Sound
  <2>4. S \in SUBSET DOMAIN rs
    OBVIOUS
  <2>3. rs[k] \in Nat /\ rs[k] > 0
    BY SoundTotals
  <2> HIDE DEF S
  <2>2. Total(rs, S) = rs[k] + Total(rs, S \ {k})
    BY <1>2, <2>1, TotalWithout
  <2>5. Total(rs, S \ {k}) \in Nat
    BY <2>4, SoundTotals
  <2> QED
    BY <2>2, <2>3, <2>5
<1>3. S = {} => ~(Total(rs, S) > 0)
  BY TotalOfNone
<1> QED
  BY <1>1, <1>2, <1>3

LEMMA WorstIs ==
  ASSUME NEW rs, Sound(rs), DOMAIN rs # {}
  PROVE  /\ WorstState(Counts(rs)) \in States
         /\ Score(WorstState(Counts(rs))) = Min({Score(k.state) : k \in DOMAIN rs})
         /\ \E k \in DOMAIN rs : k.state = WorstState(Counts(rs))
         /\ \A k \in DOMAIN rs : Score(WorstState(Counts(rs))) <= Score(k.state)
<1> DEFINE seen == {i \in DOMAIN Ascending : Counts(rs)[Ascending[i]] > 0}
           scores == {Score(k.state) : k \in DOMAIN rs}
<1>0. \A k \in DOMAIN rs : k.state \in States
  BY KindsAre DEF Sound
<1>1. seen = scores
  <2>1. ASSUME NEW i \in seen PROVE i \in scores
    <3>1. i \in 1 .. 5 /\ Counts(rs)[Ascending[i]] > 0
      BY StatesAre
    <3>2. Ascending[i] \in States /\ Score(Ascending[i]) = i
      BY <3>1, StatesAre
    <3>3. PICK k \in DOMAIN rs : k.state = Ascending[i]
      BY <3>1, <3>2, SeenInCounts
    <3> QED
      BY <3>2, <3>3
  <2>2. ASSUME NEW k \in DOMAIN rs PROVE Score(k.state) \in seen
    <3>1. k.state \in States
      BY <1>0
    <3>2. Counts(rs)[k.state] > 0
      BY <3>1, SeenInCounts
    <3> QED
      BY <3>1, <3>2, StatesAre
  <2> QED
    BY <2>1, <2>2
<1>2. scores # {} /\ scores \subseteq Nat
  BY <1>0, StatesAre
<1>3. WorstState(Counts(rs)) = Ascending[Min(scores)]
  BY <1>1, <1>2 DEF WorstState
<1>4. Min(scores) \in scores /\ \A n \in scores : Min(scores) <= n
  <2> HIDE DEF scores
  <2> QED
    BY <1>2, LeastOf
<1>5. PICK k \in DOMAIN rs : Min(scores) = Score(k.state)
  BY <1>4
<1>6. WorstState(Counts(rs)) = k.state
  BY <1>0, <1>3, <1>5, StatesAre
<1> QED
  BY <1>0, <1>4, <1>5, <1>6

\* The list of a collector's own page in pieces: the n-th reading is of the first
\* state up to which there are n.
Runs(counts) ==
  [i \in DOMAIN Ascending |-> [n \in 1 .. counts[Ascending[i]] |-> Ascending[i]]]

LEMMA OwnListIs ==
  ASSUME NEW counts \in [States -> Nat]
  PROVE  /\ FlattenSeq(Runs(counts)) \in Seq(States)
         /\ Len(FlattenSeq(Runs(counts))) = SumFunction(counts)
         /\ \A p \in 1 .. SumFunction(counts) : \A i \in 1 .. 5 :
              AtMost(counts, i - 1) < p /\ p <= AtMost(counts, i)
                => FlattenSeq(Runs(counts))[p] = Ascending[i]
<1> DEFINE run(i) == [n \in 1 .. counts[Ascending[i]] |-> Ascending[i]]
           flat == CHOOSE F : F = [i \in 1 .. 5 |->
                                     IF i = 1 THEN Runs(counts)[i]
                                     ELSE F[i - 1] \o Runs(counts)[i]]
<1>1. /\ Runs(counts) \in Seq(Seq(States)) /\ Len(Runs(counts)) = 5
      /\ \A i \in 1 .. 5 : /\ Runs(counts)[i] \in Seq(States)
                           /\ Len(Runs(counts)[i]) = counts[Ascending[i]]
                           /\ \A n \in 1 .. counts[Ascending[i]] : Runs(counts)[i][n] = Ascending[i]
  <2>1. \A i \in 1 .. 5 : run(i) \in Seq(States) /\ Len(run(i)) = counts[Ascending[i]]
    BY StatesAre
  <2>4. \A i \in 1 .. 5 : \A n \in 1 .. counts[Ascending[i]] : run(i)[n] = Ascending[i]
    OBVIOUS
  <2>2. Runs(counts) = [i \in 1 .. 5 |-> run(i)]
    BY StatesAre DEF Runs
  <2>3. Runs(counts) \in Seq(Seq(States)) /\ Len(Runs(counts)) = 5
    <3> HIDE DEF run
    <3> QED
      BY <2>1, <2>2
  <2> HIDE DEF run
  <2>5. \A i \in 1 .. 5 : Runs(counts)[i] = run(i)
    BY <2>2
  <2> QED
    BY <2>1, <2>3, <2>4, <2>5
<1>2. FlattenSeq(Runs(counts)) = flat[5]
  <2>1. FlattenSeq(Runs(counts)) =
          IF Len(Runs(counts)) = 0 THEN Runs(counts)
          ELSE (CHOOSE F : F = [i \in 1 .. Len(Runs(counts)) |->
                                     IF i = 1 THEN Runs(counts)[i]
                                     ELSE F[i - 1] \o Runs(counts)[i]])[Len(Runs(counts))]
    BY Zenon DEF FlattenSeq
  <2> QED
    BY <1>1, <2>1
<1>3. flat = [i \in 1 .. 5 |-> IF i = 1 THEN Runs(counts)[i] ELSE flat[i - 1] \o Runs(counts)[i]]
  <2> DEFINE R == Runs(counts)
  <2>1. PICK g2 : g2 = R[1] \o R[2]
    OBVIOUS
  <2>2. PICK g3 : g3 = g2 \o R[3]
    OBVIOUS
  <2>3. PICK g4 : g4 = g3 \o R[4]
    OBVIOUS
  <2>4. PICK g5 : g5 = g4 \o R[5]
    OBVIOUS
  <2> DEFINE G == [i \in 1 .. 5 |-> IF i = 1 THEN R[1] ELSE IF i = 2 THEN g2
                                    ELSE IF i = 3 THEN g3 ELSE IF i = 4 THEN g4 ELSE g5]
  <2> HIDE DEF R
  <2>5. G[1] = R[1] /\ G[2] = g2 /\ G[3] = g3 /\ G[4] = g4 /\ G[5] = g5
    OBVIOUS
  <2>6. G = [i \in 1 .. 5 |-> G[i]]
    OBVIOUS
  <2> HIDE DEF G
  <2>7. \A i \in 1 .. 5 : G[i] = IF i = 1 THEN R[i] ELSE G[i - 1] \o R[i]
    <3>1. \A i \in 1 .. 5 : \/ i = 1
                            \/ i = 2 /\ i - 1 = 1
                            \/ i = 3 /\ i - 1 = 2
                            \/ i = 4 /\ i - 1 = 3
                            \/ i = 5 /\ i - 1 = 4
      OBVIOUS
    <3> QED
      BY <2>1, <2>2, <2>3, <2>4, <2>5, <3>1
  <2>8. G = [i \in 1 .. 5 |-> IF i = 1 THEN R[i] ELSE G[i - 1] \o R[i]]
    BY <2>6, <2>7
  <2> QED
    BY <2>8 DEF R
<1> HIDE DEF flat
<1> DEFINE T == {m \in 0 .. 4 :
                   /\ flat[m + 1] \in Seq(States) /\ Len(flat[m + 1]) = AtMost(counts, m + 1)
                   /\ \A p \in 1 .. Len(flat[m + 1]) : \A i \in 1 .. m + 1 :
                        AtMost(counts, i - 1) < p /\ p <= AtMost(counts, i)
                          => flat[m + 1][p] = Ascending[i]}
<1>4. 0 \in T
  <2>1. flat[1] = Runs(counts)[1]
    BY <1>3
  <2>2. AtMost(counts, 1) = counts[Ascending[1]]
    <3>1. 1 \in 1 .. 5 /\ 1 - 1 = 0
      OBVIOUS
    <3>2. AtMost(counts, 1) = counts[Ascending[1]] + AtMost(counts, 0)
      BY <3>1, AtMostIs
    <3>3. counts[Ascending[1]] \in Nat
      BY <3>1, StatesAre
    <3> QED
      BY <3>2, <3>3, AtMostIs
  <2>3. /\ flat[1] \in Seq(States) /\ Len(flat[1]) = AtMost(counts, 1)
        /\ \A p \in 1 .. Len(flat[1]) : flat[1][p] = Ascending[1]
    BY <1>1, <2>1, <2>2
  <2>4. 0 + 1 = 1 /\ \A i \in 1 .. 1 : i = 1
    OBVIOUS
  <2> QED
    BY <2>3, <2>4
<1>5. ASSUME NEW m \in 0 .. 3, m \in T PROVE m + 1 \in T
  <2> DEFINE a == flat[m + 1]
             b == Runs(counts)[m + 2]
  <2>0. m + 2 \in 1 .. 5 /\ m + 2 # 1 /\ (m + 2) - 1 = m + 1
    OBVIOUS
  <2>1. flat[m + 2] = a \o b
    BY <1>3, <2>0
  <2>2. /\ a \in Seq(States) /\ Len(a) = AtMost(counts, m + 1)
        /\ \A p \in 1 .. Len(a) : \A i \in 1 .. m + 1 :
             AtMost(counts, i - 1) < p /\ p <= AtMost(counts, i) => a[p] = Ascending[i]
    BY <1>5
  <2>3. /\ b \in Seq(States) /\ Len(b) = counts[Ascending[m + 2]]
        /\ \A n \in 1 .. Len(b) : b[n] = Ascending[m + 2]
    BY <1>1, <2>0
  <2> HIDE DEF a, b
  <2>4. /\ AtMost(counts, m + 2) = counts[Ascending[m + 2]] + AtMost(counts, m + 1)
        /\ AtMost(counts, m + 1) \in Nat
    <3>1. m + 2 \in 1 .. 5 /\ (m + 2) - 1 = m + 1 /\ m + 1 \in 0 .. 5
      OBVIOUS
    <3> QED
      BY <3>1, AtMostIs
  <2>5. a \o b \in Seq(States) /\ Len(a \o b) = AtMost(counts, m + 2)
    BY <2>2, <2>3, <2>4
  <2>6. ASSUME NEW p \in 1 .. Len(a \o b), NEW i \in 1 .. m + 2,
               AtMost(counts, i - 1) < p, p <= AtMost(counts, i)
        PROVE  (a \o b)[p] = Ascending[i]
    <3>1. CASE i = m + 2
      <4>0. i - 1 = m + 1
        BY <3>1
      <4>1. p > Len(a)
        BY <2>2, <2>4, <2>6, <4>0
      <4>2. (a \o b)[p] = b[p - Len(a)] /\ p - Len(a) \in 1 .. Len(b)
        BY <2>2, <2>3, <2>5, <4>1, SMTT(30)
      <4> QED
        BY <2>3, <3>1, <4>2
    <3>2. CASE i # m + 2
      <4>1. i \in 1 .. m + 1
        BY <3>2
      <4>2. AtMost(counts, i) <= AtMost(counts, m + 1)
        <5> DEFINE Q == {q \in 0 .. m + 1 - i : AtMost(counts, i) <= AtMost(counts, i + q)}
        <5>1. m + 1 - i \in Nat
          BY <4>1
        <5>2. 0 \in Q
          <6>1. i + 0 = i /\ AtMost(counts, i) \in Nat
            BY <4>1, AtMostIs
          <6> QED
            BY <5>1, <6>1
        <5>3. ASSUME NEW q \in 0 .. (m + 1 - i) - 1, q \in Q PROVE q + 1 \in Q
          <6>1. /\ i + (q + 1) \in 1 .. 5 /\ (i + (q + 1)) - 1 = i + q
                /\ i + q \in 0 .. 5 /\ i \in 0 .. 5
            BY <4>1
          <6>2. AtMost(counts, i + (q + 1))
                  = counts[Ascending[i + (q + 1)]] + AtMost(counts, i + q)
            BY <6>1, AtMostIs
          <6>3. /\ counts[Ascending[i + (q + 1)]] \in Nat
                /\ AtMost(counts, i + q) \in Nat /\ AtMost(counts, i) \in Nat
            BY <6>1, AtMostIs, StatesAre
          <6> QED
            BY <5>1, <5>3, <6>2, <6>3
        <5> HIDE DEF Q
        <5>4. m + 1 - i \in Q
          BY <5>1, <5>2, <5>3, TurnByTurn
        <5>5. i + (m + 1 - i) = m + 1
          BY <4>1
        <5> QED
          BY <5>4, <5>5 DEF Q
      <4>3. AtMost(counts, i) \in Nat
        BY <4>1, AtMostIs
      <4>4. p \in 1 .. Len(a)
        BY <2>2, <2>4, <2>6, <4>2, <4>3
      <4>5. (a \o b)[p] = a[p]
        BY <2>2, <2>3, <4>4
      <4> QED
        BY <2>2, <2>6, <4>1, <4>4, <4>5
    <3> QED
      BY <3>1, <3>2
  <2>7. (m + 1) + 1 = m + 2 /\ m + 1 \in 0 .. 4
    OBVIOUS
  <2> QED
    BY <2>1, <2>5, <2>6, <2>7
<1> HIDE DEF T
<1>6. 4 \in T
  BY <1>4, <1>5, TurnByTurn
<1>7. AtMost(counts, 5) = SumFunction(counts)
  BY AtMostIs
<1>8. /\ flat[5] \in Seq(States) /\ Len(flat[5]) = SumFunction(counts)
      /\ \A p \in 1 .. SumFunction(counts) : \A i \in 1 .. 5 :
           AtMost(counts, i - 1) < p /\ p <= AtMost(counts, i) => flat[5][p] = Ascending[i]
  <2>1. 4 + 1 = 5
    OBVIOUS
  <2> QED
    BY <1>6, <1>7, <2>1 DEF T
<1> QED
  BY <1>2, <1>8

LEMMA OwnMedianIs ==
  ASSUME NEW counts \in [States -> Nat]
  PROVE  OwnMedianState(counts) = MedianState(counts)
<1> DEFINE total == SumFunction(counts)
           sorted == FlattenSeq(Runs(counts))
<1>1. OwnMedianState(counts) = IF sorted = <<>> THEN None ELSE sorted[Len(sorted) \div 2 + 1]
  BY DEF OwnMedianState, Runs
<1>2. sorted \in Seq(States) /\ Len(sorted) = total
  BY OwnListIs
<1>3. total \in Nat
  BY AtMostIs
<1>4. CASE total = 0
  <2>1. sorted = <<>>
    <3> HIDE DEF sorted, total
    <3> QED
      BY <1>2, <1>4
  <2> QED
    BY <1>1, <1>4, <2>1 DEF MedianState, Middle
<1>5. CASE total > 0
  <2> DEFINE p == total \div 2 + 1
             m == Score(Middle(counts))
  <2>1. /\ Middle(counts) \in States
        /\ AtMost(counts, m) > total \div 2 /\ AtMost(counts, m - 1) <= total \div 2
    BY <1>5, MiddleIs
  <2>2. m \in 1 .. 5 /\ Ascending[m] = Middle(counts)
    BY <2>1, StatesAre
  <2>3. AtMost(counts, m) \in Nat /\ AtMost(counts, m - 1) \in Nat
    <3>1. m \in 0 .. 5 /\ m - 1 \in 0 .. 5
      BY <2>2
    <3> QED
      BY <3>1, AtMostIs
  <2> HIDE DEF m
  <2>4. AtMost(counts, m - 1) < p /\ p <= AtMost(counts, m) /\ p \in 1 .. total
    <3> HIDE DEF total
    <3> QED
      BY <1>3, <1>5, <2>1, <2>3
  <2>5. sorted[p] = Ascending[m]
    BY <2>2, <2>4, OwnListIs
  <2>6. sorted # <<>>
    <3> HIDE DEF sorted, total
    <3> QED
      BY <1>2, <1>5
  <2>7. OwnMedianState(counts) = sorted[p]
    BY <1>1, <1>2, <2>6
  <2> QED
    BY <2>2, <2>5, <2>7 DEF MedianState
<1> QED
  BY <1>3, <1>4, <1>5

\* What is known of the readings and of what the tables were built from.
SurveySound ==
    /\ Sound(readings) /\ Sound(built) /\ built \sqsubseteq readings
    /\ BagCardinality(readings) <= MaxReadings

LEMMA MajorityOf ==
  ASSUME NEW rs, Sound(rs), DOMAIN rs # {}
  PROVE  LET at == Score(Tile(rs).state)
         IN  /\ 2 * Total(rs, {k \in DOMAIN rs : Score(k.state) < at}) <= BagCardinality(rs)
             /\ 2 * Total(rs, {k \in DOMAIN rs : Score(k.state) > at}) <= BagCardinality(rs)
<1> DEFINE at == Score(Tile(rs).state)
           total == BagCardinality(rs)
           upTo(i) == {k \in DOMAIN rs : Score(k.state) <= i}
           above == {k \in DOMAIN rs : Score(k.state) > at}
<1>1. \A k \in DOMAIN rs : Score(k.state) \in 1 .. 5
  BY KindsAre, StatesAre DEF Sound
<1>2. at \in 1 .. 5 /\ total \in Nat /\ total > 0
  BY TileIs, StatesAre
<1>3. Counts(rs) \in [States -> Nat] /\ SumFunction(Counts(rs)) = total
  BY CountsAre
<1>4. /\ AtMost(Counts(rs), at) > total \div 2
      /\ AtMost(Counts(rs), at - 1) <= total \div 2
  <2>1. Tile(rs).state = Middle(Counts(rs))
    BY TileIs DEF MedianState
  <2> QED
    BY <1>2, <1>3, <2>1, MiddleIs
<1>5. /\ AtMost(Counts(rs), at) = Total(rs, upTo(at))
      /\ AtMost(Counts(rs), at - 1) = Total(rs, upTo(at - 1))
  <2>1. at \in 0 .. 5 /\ at - 1 \in 0 .. 5
    BY <1>2
  <2> HIDE DEF at
  <2> QED
    BY <2>1, UpToAState
<1>6. upTo(at - 1) = {k \in DOMAIN rs : Score(k.state) < at}
  <2> HIDE DEF at
  <2> QED
    BY <1>1, <1>2
<1>7. DOMAIN rs \ upTo(at) = above
  <2> HIDE DEF at
  <2> QED
    BY <1>1, <1>2
<1>8. /\ total = Total(rs, upTo(at)) + Total(rs, above)
      /\ Total(rs, upTo(at)) \in Nat /\ Total(rs, above) \in Nat
  <2>1. upTo(at) \in SUBSET DOMAIN rs
    OBVIOUS
  <2> HIDE DEF upTo, above
  <2> QED
    BY <1>7, <2>1, SoundTotals, TotalInParts DEF Sound
<1>9. Total(rs, upTo(at - 1)) \in Nat
  BY SoundTotals
<1> HIDE DEF total, at, upTo, above
<1>10. 2 * Total(rs, upTo(at - 1)) <= total
  BY <1>2, <1>4, <1>5, <1>9
<1>11. 2 * Total(rs, above) <= total
  BY <1>2, <1>4, <1>5, <1>8
<1> QED
  BY <1>6, <1>10, <1>11 DEF total, at, above

LEMMA OneOnTheHexagon ==
  ASSUME NEW rs, Sound(rs), NEW d, Cardinality(TakenBy(rs)) = 1, d \in TakenBy(rs)
  PROVE  \A k \in DOMAIN rs : k.handset = d
<1>1. IsFiniteSet(TakenBy(rs))
  <2> DEFINE of == [j \in DOMAIN rs |-> j.handset]
  <2>1. TakenBy(rs) = {of[j] : j \in DOMAIN rs}
    BY DEF TakenBy
  <2> HIDE DEF of
  <2> QED
    BY <2>1, ImageIs DEF Sound
<1>2. TakenBy(rs) = {d}
  <2>1. IsFiniteSet(TakenBy(rs) \ {d}) /\ Cardinality(TakenBy(rs) \ {d}) = 0
    <3>1. /\ Cardinality(TakenBy(rs) \ {d}) \in Nat
          /\ Cardinality(TakenBy(rs)) = Cardinality(TakenBy(rs) \ {d}) + 1
          /\ IsFiniteSet(TakenBy(rs) \ {d})
      BY <1>1, OneLess
    <3> QED
      BY <3>1
  <2>2. TakenBy(rs) \ {d} = {}
    BY <2>1, FS_EmptySet
  <2> QED
    BY <2>2
<1> QED
  BY <1>2 DEF TakenBy

LEMMA HexagonIs ==
  ASSUME NEW rs, Sound(rs), NEW h \in Measured(rs)
  PROVE  /\ Sound(On(rs, h)) /\ DOMAIN On(rs, h) # {}
         /\ DOMAIN On(rs, h) = {k \in DOMAIN rs : k.hex = h}
<1>1. PICK k \in DOMAIN rs : k.hex = h
  BY DEF Measured
<1>2. Sound(On(rs, h)) /\ DOMAIN On(rs, h) = {j \in DOMAIN rs : j.hex = h}
  BY OnIs
<1> QED
  BY <1>1, <1>2

LEMMA MajorityHolds == SurveySound => MajorityDecides
<1> SUFFICES ASSUME SurveySound, NEW h \in Measured(built)
             PROVE  LET rs == On(built, h)
                        tile == Tile(rs)
                        at == Score(tile.state)
                        worse == {k \in DOMAIN built : Score(k.state) < at}
                        better == {k \in DOMAIN built : Score(k.state) > at}
                    IN  /\ 2 * BagCardinality(Among(rs, worse)) <= tile.measurements
                        /\ 2 * BagCardinality(Among(rs, better)) <= tile.measurements
                        /\ built = readings /\ tile.devices = 1 =>
                               \A d \in TakenBy(rs) : MyTile(d, h).state = tile.state
  BY DEF MajorityDecides
<1> DEFINE rs == On(built, h)
           at == Score(Tile(rs).state)
           worse == {k \in DOMAIN built : Score(k.state) < at}
           better == {k \in DOMAIN built : Score(k.state) > at}
<1>1. Sound(rs) /\ DOMAIN rs = {k \in DOMAIN built : k.hex = h} /\ DOMAIN rs # {}
  BY HexagonIs DEF SurveySound
<1>2. Tile(rs).measurements = BagCardinality(rs)
  BY <1>1, TileIs
<1>3. /\ BagCardinality(Among(rs, worse)) = Total(rs, {k \in DOMAIN rs : Score(k.state) < at})
      /\ BagCardinality(Among(rs, better)) = Total(rs, {k \in DOMAIN rs : Score(k.state) > at})
  <2>1. /\ worse \cap DOMAIN rs = {k \in DOMAIN rs : Score(k.state) < at}
        /\ better \cap DOMAIN rs = {k \in DOMAIN rs : Score(k.state) > at}
    <3> HIDE DEF at, rs
    <3> QED
      BY <1>1
  <2> HIDE DEF at, rs, worse, better
  <2> QED
    BY <1>1, <2>1, AmongIs
<1>4. /\ 2 * Total(rs, {k \in DOMAIN rs : Score(k.state) < at}) <= BagCardinality(rs)
      /\ 2 * Total(rs, {k \in DOMAIN rs : Score(k.state) > at}) <= BagCardinality(rs)
  <2> HIDE DEF rs
  <2> QED
    BY <1>1, MajorityOf
<1>5. ASSUME built = readings, Tile(rs).devices = 1, NEW d \in TakenBy(rs)
      PROVE  MyTile(d, h).state = Tile(rs).state
  <2>1. \A k \in DOMAIN rs : k.handset = d
    <3>1. Cardinality(TakenBy(rs)) = 1
      BY <1>1, <1>5, TileIs
    <3> HIDE DEF rs
    <3> QED
      BY <1>1, <1>5, <3>1, OneOnTheHexagon
  <2>2. Sound(Own(d)) /\ DOMAIN Own(d) = {k \in DOMAIN readings : k.handset = d}
        /\ \A k \in DOMAIN Own(d) : Own(d)[k] = readings[k]
    <3>1. {k \in DOMAIN readings : k.handset = d} \cap DOMAIN readings
            = {k \in DOMAIN readings : k.handset = d}
      OBVIOUS
    <3> QED
      BY <3>1, AmongIs DEF Own, SurveySound
  <2>3. On(Own(d), h) = rs
    <3>1. {k \in DOMAIN Own(d) : k.hex = h} = {k \in DOMAIN built : k.hex = h}
      BY <1>1, <1>5, <2>1, <2>2
    <3>2. On(Own(d), h) = [k \in {k \in DOMAIN Own(d) : k.hex = h} |-> Own(d)[k]]
      BY DEF On, Among, Restrict
    <3>3. rs = [k \in {k \in DOMAIN built : k.hex = h} |-> built[k]]
      BY DEF On, Among, Restrict
    <3> QED
      BY <1>5, <2>2, <3>1, <3>2, <3>3
  <2>4. MyTile(d, h).state = OwnMedianState(Counts(rs))
    BY <2>3 DEF MyTile
  <2>5. Tile(rs).state = MedianState(Counts(rs)) /\ Counts(rs) \in [States -> Nat]
    BY <1>1, TileIs, CountsAre
  <2> QED
    BY <2>4, <2>5, OwnMedianIs
<1> QED
  BY <1>2, <1>3, <1>4, <1>5

LEMMA DropoutsHold == SurveySound => DropoutsAreTold
<1> SUFFICES ASSUME SurveySound, NEW h \in Measured(built)
             PROVE  LET card == Card(h)
                        seen == {Score(k.state) : k \in DOMAIN On(built, h)}
                        shared == Cardinality(TakenBy(On(built, h))) >= MinDevices
                        at == Score(Tile(On(built, h)).state)
                    IN  /\ (card.dropout # None) = (shared /\ \E s \in seen : s < at)
                        /\ card.dropout # None => Score(card.dropout) = Min(seen)
                        /\ shared = card.dated /\ shared = (card.devices # None)
  BY DEF DropoutsAreTold
<1> DEFINE rs == On(built, h)
           seen == {Score(k.state) : k \in DOMAIN rs}
           shared == Cardinality(TakenBy(rs)) >= MinDevices
           at == Score(Tile(rs).state)
           worst == Tile(rs).worst
<1>1. Sound(rs) /\ DOMAIN rs # {}
  BY HexagonIs DEF SurveySound
<1>2. /\ Tile(rs).state \in States /\ Counts(rs)[Tile(rs).state] > 0
      /\ Tile(rs).devices = Cardinality(TakenBy(rs)) /\ Tile(rs).devices \in Nat
      /\ worst = WorstState(Counts(rs))
  BY <1>1, TileIs
<1>3. /\ worst \in States /\ Score(worst) = Min(seen)
      /\ \E k \in DOMAIN rs : k.state = worst
      /\ \A k \in DOMAIN rs : Score(worst) <= Score(k.state)
  BY <1>1, <1>2, WorstIs
<1>4. PICK m \in DOMAIN rs : m.state = Tile(rs).state
  BY <1>1, <1>2, SeenInCounts
<1>5. worst # Tile(rs).state <=> \E s \in seen : s < at
  <2>1. Score(worst) <= at /\ Score(worst) \in 1 .. 5 /\ at \in 1 .. 5
    BY <1>2, <1>3, <1>4, StatesAre
  <2>2. worst # Tile(rs).state => Score(worst) < at
    <3>1. Score(worst) = at => worst = Tile(rs).state
      BY <1>2, <1>3, StatesAre
    <3> HIDE DEF at, worst
    <3> QED
      BY <2>1, <3>1 DEF at
  <2>3. Score(worst) \in seen
    BY <1>3
  <2>4. \A s \in seen : Score(worst) <= s /\ s \in 1 .. 5
    <3>1. \A k \in DOMAIN rs : Score(k.state) \in 1 .. 5
      BY <1>1, KindsAre, StatesAre DEF Sound
    <3> QED
      BY <1>3, <3>1
  <2>5. worst = Tile(rs).state => ~ \E s \in seen : s < at
    <3> HIDE DEF seen
    <3> QED
      BY <2>1, <2>4
  <2> HIDE DEF seen, at, worst
  <2> QED
    BY <2>2, <2>3, <2>5
<1>6. worst # None /\ Tile(rs).devices # None
  BY <1>2, <1>3, SurveyAssumption
<1>7. /\ Card(h).dropout = IF shared /\ worst # Tile(rs).state THEN worst ELSE None
      /\ Card(h).dated = shared
      /\ Card(h).devices = IF shared THEN Tile(rs).devices ELSE None
  <2> DEFINE tile == Tile(rs)
             feature == Feature(tile)
  <2>1. /\ feature.state = tile.state /\ feature.dated = shared
        /\ feature.devices = IF shared THEN tile.devices ELSE None
        /\ feature.worst = IF shared THEN tile.worst ELSE None
    <3> HIDE DEF rs
    <3> QED
      BY <1>2 DEF Feature
  <2>2. Card(h) = TileInspector(feature)
    BY DEF Card
  <2> HIDE DEF feature, tile, shared
  <2>3. /\ TileInspector(feature).dated = feature.dated
        /\ TileInspector(feature).devices = feature.devices
        /\ TileInspector(feature).dropout
             = IF feature.worst # None /\ feature.worst # feature.state
               THEN feature.worst ELSE None
    BY DEF TileInspector, ShowsDropouts
  <2> QED
    BY <1>6, <2>1, <2>2, <2>3 DEF tile
<1> HIDE DEF seen, at, worst, shared
<1>8. (Card(h).dropout # None) = (shared /\ \E s \in seen : s < at)
  BY <1>5, <1>6, <1>7 DEF shared
<1>9. Card(h).dropout # None => Score(Card(h).dropout) = Min(seen)
  BY <1>3, <1>7
<1>10. shared = Card(h).dated /\ shared = (Card(h).devices # None)
  BY <1>6, <1>7 DEF shared
<1> QED
  BY <1>8, <1>9, <1>10 DEF seen, at, shared

-----------------------------------------------------------------------------
(* The tiles by state, by work and by operator.                             *)

\* Some tiles, each with a state.
Stated(tiles) == IsFiniteSet(DOMAIN tiles) /\ \A t \in DOMAIN tiles : tiles[t].state \in States

LEMMA InStates ==
  ASSUME NEW tiles, Stated(tiles)
  PROVE  /\ ByState(tiles) \in [States -> Nat]
         /\ SumFunction(ByState(tiles)) = Cardinality(DOMAIN tiles)
         /\ \A R \in SUBSET States :
              Cardinality({t \in DOMAIN tiles : tiles[t].state \in R}) = Total(ByState(tiles), R)
<1>1. ByState(tiles) \in [States -> Nat]
  <2>1. \A s \in States : Cardinality({t \in DOMAIN tiles : tiles[t].state = s}) \in Nat
    BY FS_Subset, FS_CardinalityType DEF Stated
  <2> QED
    BY <2>1 DEF ByState
<1>2. ASSUME NEW R \in SUBSET States
      PROVE  Cardinality({t \in DOMAIN tiles : tiles[t].state \in R}) = Total(ByState(tiles), R)
  <2> DEFINE S == {t \in DOMAIN tiles : tiles[t].state \in R}
             kind == [t \in S |-> tiles[t].state]
             by == [s \in R |-> Cardinality({t \in S : kind[t] = s})]
  <2>1. IsFiniteSet(S) /\ IsFiniteSet(R) /\ kind \in [S -> R]
    BY StatesAre, FS_Subset DEF Stated
  <2>2. \A s \in R : {t \in S : kind[t] = s} = {t \in DOMAIN tiles : tiles[t].state = s}
    OBVIOUS
  <2>3. \A s \in R : by[s] = ByState(tiles)[s] /\ by[s] \in Nat
    BY <1>1, <2>2 DEF ByState
  <2> HIDE DEF S, kind
  <2>4. Cardinality(S) = Total(by, R)
    BY <2>1, CountByKind
  <2> HIDE DEF by
  <2>5. \A s \in R : ByState(tiles)[s] = by[s]
    BY <2>3
  <2>6. Total(by, R) = Total(ByState(tiles), R)
    BY <2>1, <2>3, <2>5, TotalAlike
  <2> QED
    BY <2>4, <2>6 DEF S
<1>3. {t \in DOMAIN tiles : tiles[t].state \in States} = DOMAIN tiles
  BY DEF Stated
<1>4. SumFunction(ByState(tiles)) = Total(ByState(tiles), States)
  BY <1>1 DEF SumFunction, Total
<1> QED
  BY <1>1, <1>2, <1>3, <1>4

\* Five amounts, one for each state.
LEMMA FiveStates ==
  ASSUME NEW byState \in [States -> Nat]
  PROVE  /\ \A s \in States : byState[s] \in Nat
         /\ SumFunction(byState) =
              byState["NO_CELL"] + byState["CELLS_VISIBLE_UNREGISTERED"]
                + byState["REGISTERED_2G_3G"] + byState["LTE_WEAK"] + byState["LTE_GOOD"]
         /\ \A s \in States : Total(byState, {s}) = byState[s]
         /\ \A r, s \in States : r # s => Total(byState, {r, s}) = byState[r] + byState[s]
         /\ AtMost(byState, 3) = byState["NO_CELL"] + byState["CELLS_VISIBLE_UNREGISTERED"]
                                   + byState["REGISTERED_2G_3G"]
<1>1. \A s \in States : byState[s] \in Nat
  OBVIOUS
<1>2. /\ Ascending[1] = "NO_CELL" /\ Ascending[2] = "CELLS_VISIBLE_UNREGISTERED"
      /\ Ascending[3] = "REGISTERED_2G_3G" /\ Ascending[4] = "LTE_WEAK"
      /\ Ascending[5] = "LTE_GOOD"
  BY DEF Ascending
<1>3. \A i \in 1 .. 5 : AtMost(byState, i) = byState[Ascending[i]] + AtMost(byState, i - 1)
  BY AtMostIs
<1>4. /\ AtMost(byState, 0) = 0
      /\ AtMost(byState, 1) = byState["NO_CELL"] + AtMost(byState, 0)
      /\ AtMost(byState, 2) = byState["CELLS_VISIBLE_UNREGISTERED"] + AtMost(byState, 1)
      /\ AtMost(byState, 3) = byState["REGISTERED_2G_3G"] + AtMost(byState, 2)
      /\ AtMost(byState, 4) = byState["LTE_WEAK"] + AtMost(byState, 3)
      /\ AtMost(byState, 5) = byState["LTE_GOOD"] + AtMost(byState, 4)
  <2>1. 1 - 1 = 0 /\ 2 - 1 = 1 /\ 3 - 1 = 2 /\ 4 - 1 = 3 /\ 5 - 1 = 4
    OBVIOUS
  <2>2. 1 \in 1 .. 5 /\ 2 \in 1 .. 5 /\ 3 \in 1 .. 5 /\ 4 \in 1 .. 5 /\ 5 \in 1 .. 5
    OBVIOUS
  <2> QED
    BY <1>2, <1>3, <2>1, <2>2, AtMostIs
<1>5. /\ byState["NO_CELL"] \in Nat /\ byState["CELLS_VISIBLE_UNREGISTERED"] \in Nat
      /\ byState["REGISTERED_2G_3G"] \in Nat /\ byState["LTE_WEAK"] \in Nat
      /\ byState["LTE_GOOD"] \in Nat
  BY <1>1, StatesAre
<1>6. AtMost(byState, 5) = SumFunction(byState)
  BY AtMostIs
<1>7. \A s \in States : Total(byState, {s}) = byState[s]
  <2> SUFFICES ASSUME NEW s \in States PROVE Total(byState, {s}) = byState[s]
    OBVIOUS
  <2>1. IsFiniteSet({s}) /\ \A r \in {s} : byState[r] \in Nat
    BY FS_Singleton
  <2>2. Total(byState, {s}) = byState[s] + Total(byState, {s} \ {s})
    BY <2>1, TotalWithout
  <2>3. {s} \ {s} = {}
    OBVIOUS
  <2> QED
    BY <1>1, <2>2, <2>3, TotalOfNone
<1>8. \A r, s \in States : r # s => Total(byState, {r, s}) = byState[r] + byState[s]
  <2> SUFFICES ASSUME NEW r \in States, NEW s \in States, r # s
               PROVE  Total(byState, {r, s}) = byState[r] + byState[s]
    OBVIOUS
  <2>1. {s} \in SUBSET States /\ r \in States \ {s} /\ {r, s} = {s} \cup {r}
    OBVIOUS
  <2>2. Total(byState, {s} \cup {r}) = byState[r] + Total(byState, {s})
    <3>1. IsFiniteSet(States)
      BY StatesAre
    <3>2. \A x \in States : byState[x] \in Nat
      BY <1>1
    <3>3. PICK one : one = {s}
      OBVIOUS
    <3>4. one \in SUBSET States /\ r \in States \ one
      BY <2>1, <3>3
    <3>5. Total(byState, one \cup {r}) = byState[r] + Total(byState, one)
      BY <3>1, <3>2, <3>4, TotalWith
    <3> QED
      BY <3>3, <3>5
  <2> QED
    BY <1>7, <2>1, <2>2
<1> QED
  BY <1>1, <1>4, <1>5, <1>6, <1>7, <1>8

LEMMA WorkIs ==
  ASSUME NEW byState \in [States -> Nat]
  PROVE  /\ ByAction(byState) \in [Actions -> Nat]
         /\ SumFunction(ByAction(byState)) = SumFunction(byState)
         /\ ByAction(byState)["new_tower"] = byState["NO_CELL"]
         /\ ByAction(byState)["upgrade"] =
              byState["CELLS_VISIBLE_UNREGISTERED"] + byState["REGISTERED_2G_3G"]
<1> DEFINE kind == [s \in States |-> InvestmentAction(s)]
           of(a) == {s \in States : InvestmentAction(s) = a}
<1>1. \A s \in States : InvestmentAction(s) \in Actions
  BY StatesAre DEF InvestmentAction, Actions
<1>2. kind \in [States -> Actions]
  BY <1>1
<1>3. IsFiniteSet(Actions)
  <2>1. \A S, x : IsFiniteSet(S) => IsFiniteSet(S \cup {x})
    BY FS_AddElement
  <2>2. Actions = ((({} \cup {"new_tower"}) \cup {"upgrade"}) \cup {"optimisation"}) \cup {"none"}
    BY DEF Actions
  <2> QED
    BY <2>1, <2>2, FS_EmptySet
<1>4. \A a \in Actions : ByAction(byState)[a] = Total(byState, of(a))
  BY DEF ByAction, Total
<1>5. \A a \in Actions : Total(byState, of(a)) \in Nat
  BY StatesAre, FS_Subset, TotalTyped
<1>6. ByAction(byState) \in [Actions -> Nat]
  BY <1>4, <1>5 DEF ByAction
<1>7. SumFunction(ByAction(byState)) = SumFunction(byState)
  <2>1. ByAction(byState) = [a \in Actions |-> Total(byState, {s \in States : kind[s] = a})]
    <3>1. \A a \in Actions : {s \in States : kind[s] = a} = of(a)
      OBVIOUS
    <3> QED
      BY <1>4, <1>6, <3>1
  <2> HIDE DEF kind
  <2>2. Total(byState, States) = Total(ByAction(byState), Actions)
    BY <1>2, <1>3, <2>1, StatesAre, TotalByKind
  <2>3. SumFunction(byState) = Total(byState, States)
    BY DEF SumFunction, Total
  <2>4. SumFunction(ByAction(byState)) = Total(ByAction(byState), Actions)
    BY <1>6 DEF SumFunction, Total
  <2> QED
    BY <2>2, <2>3, <2>4
<1>8. of("new_tower") = {"NO_CELL"}
  BY StatesAre DEF InvestmentAction
<1>9. of("upgrade") = {"CELLS_VISIBLE_UNREGISTERED", "REGISTERED_2G_3G"}
  BY StatesAre DEF InvestmentAction
<1>10. "new_tower" \in Actions /\ "upgrade" \in Actions
  BY DEF Actions
<1> HIDE DEF of
<1>11. /\ \A s \in States : Total(byState, {s}) = byState[s]
       /\ \A r, s \in States : r # s => Total(byState, {r, s}) = byState[r] + byState[s]
  BY FiveStates
<1>12. /\ "NO_CELL" \in States /\ "CELLS_VISIBLE_UNREGISTERED" \in States
       /\ "REGISTERED_2G_3G" \in States
  BY StatesAre
<1>13. ByAction(byState)["new_tower"] = byState["NO_CELL"]
  BY <1>4, <1>8, <1>10, <1>11, <1>12
<1>14. ByAction(byState)["upgrade"]
         = byState["CELLS_VISIBLE_UNREGISTERED"] + byState["REGISTERED_2G_3G"]
  <2>1. "CELLS_VISIBLE_UNREGISTERED" # "REGISTERED_2G_3G"
    OBVIOUS
  <2>2. Total(byState, {"CELLS_VISIBLE_UNREGISTERED", "REGISTERED_2G_3G"})
          = byState["CELLS_VISIBLE_UNREGISTERED"] + byState["REGISTERED_2G_3G"]
    BY <1>11, <1>12, <2>1
  <2> QED
    BY <1>4, <1>9, <1>10, <2>2
<1> QED
  BY <1>6, <1>7, <1>13, <1>14

\* The hexagons measured.
LEMMA TilesAre ==
  ASSUME NEW rs, Sound(rs)
  PROVE  /\ IsFiniteSet(Measured(rs)) /\ Cardinality(Measured(rs)) \in Nat
         /\ Stated(TilesOf(rs)) /\ DOMAIN TilesOf(rs) = Measured(rs)
         /\ \A h \in Measured(rs) :
              /\ TilesOf(rs)[h] = Tile(On(rs, h))
              /\ TilesOf(rs)[h].measurements = Total(rs, {k \in DOMAIN rs : k.hex = h})
         /\ SumFunction([h \in Measured(rs) |-> TilesOf(rs)[h].measurements]) = BagCardinality(rs)
         /\ (Measured(rs) = {}) <=> (DOMAIN rs = {})
<1> DEFINE hex == [k \in DOMAIN rs |-> k.hex]
           amounts == [h \in Measured(rs) |-> TilesOf(rs)[h].measurements]
<1>1. Measured(rs) = {hex[k] : k \in DOMAIN rs} /\ hex \in [DOMAIN rs -> Measured(rs)]
  BY DEF Measured
<1>2. IsFiniteSet(Measured(rs)) /\ Cardinality(Measured(rs)) \in Nat
  <2> HIDE DEF hex
  <2> QED
    BY <1>1, ImageIs DEF Sound
<1>3. DOMAIN TilesOf(rs) = Measured(rs) /\ \A h \in Measured(rs) : TilesOf(rs)[h] = Tile(On(rs, h))
  BY DEF TilesOf
<1>4. ASSUME NEW h \in Measured(rs)
      PROVE  /\ Tile(On(rs, h)).state \in States
             /\ Tile(On(rs, h)).measurements = Total(rs, {k \in DOMAIN rs : k.hex = h})
  <2>1. Sound(On(rs, h)) /\ DOMAIN On(rs, h) # {}
    BY HexagonIs
  <2>2. BagCardinality(On(rs, h)) = Total(rs, {k \in DOMAIN rs : k.hex = h})
    BY OnIs
  <2> QED
    BY <2>1, <2>2, TileIs
<1>5. Stated(TilesOf(rs))
  BY <1>2, <1>3, <1>4 DEF Stated
<1>6. SumFunction(amounts) = BagCardinality(rs)
  <2>1. amounts = [h \in Measured(rs) |-> Total(rs, {k \in DOMAIN rs : hex[k] = h})]
    <3>1. \A h \in Measured(rs) : {k \in DOMAIN rs : hex[k] = h} = {k \in DOMAIN rs : k.hex = h}
      OBVIOUS
    <3> QED
      BY <1>3, <1>4, <3>1
  <2>2. DOMAIN amounts = Measured(rs)
    OBVIOUS
  <2>5. \A k \in DOMAIN rs : rs[k] \in Nat
    BY SoundTotals
  <2> HIDE DEF hex, amounts
  <2>3. Total(rs, DOMAIN rs) = Total(amounts, Measured(rs))
    BY <1>1, <1>2, <2>1, <2>5, TotalByKind DEF Sound
  <2>4. SumFunction(amounts) = Total(amounts, Measured(rs))
    BY <2>2 DEF SumFunction, Total
  <2> QED
    BY <2>3, <2>4, SoundTotals
<1>7. (Measured(rs) = {}) <=> (DOMAIN rs = {})
  BY DEF Measured
<1> HIDE DEF hex, amounts
<1> QED
  BY <1>2, <1>3, <1>4, <1>5, <1>6, <1>7 DEF amounts

\* The hexagons of the networks.
LEMMA OperatorTilesAre ==
  ASSUME NEW rs, Sound(rs)
  PROVE  /\ Stated(OperatorTilesOf(rs))
         /\ \A t \in DOMAIN OperatorTilesOf(rs) :
              /\ t = <<t[1], t[2]>> /\ t[1] \in Measured(rs) /\ t[2] \in Networks
              /\ \E part : Sound(part) /\ DOMAIN part # {} /\ OperatorTilesOf(rs)[t] = Tile(part)
<1> DEFINE named == {j \in DOMAIN rs : j.network # None}
           tag == [k \in named |-> <<k.hex, k.network>>]
           T == {<<k.hex, k.network>> : k \in named}
           part(t) == Among(rs, {k \in DOMAIN rs : <<k.hex, k.network>> = t})
<1>1. T = {tag[k] : k \in named} /\ IsFiniteSet(named)
  BY FS_Subset DEF Sound
<1>2. IsFiniteSet(T)
  <2> HIDE DEF tag, named, T
  <2> QED
    BY <1>1, ImageIs
<1>3. DOMAIN OperatorTilesOf(rs) = T /\ \A t \in T : OperatorTilesOf(rs)[t] = Tile(part(t))
  BY DEF OperatorTilesOf
<1>4. ASSUME NEW t \in T
      PROVE  /\ t = <<t[1], t[2]>> /\ t[1] \in Measured(rs) /\ t[2] \in Networks
             /\ Sound(part(t)) /\ DOMAIN part(t) # {}
  <2>1. PICK k \in named : t = <<k.hex, k.network>>
    OBVIOUS
  <2>2. k.network \in Networks
    BY <2>1, KindsAre DEF Sound
  <2>3. /\ Sound(part(t))
        /\ DOMAIN part(t) = {j \in DOMAIN rs : <<j.hex, j.network>> = t} \cap DOMAIN rs
    BY AmongIs
  <2> QED
    BY <2>1, <2>2, <2>3 DEF Measured
<1>5. \A t \in T : Tile(part(t)).state \in States
  BY <1>4, TileIs
<1> HIDE DEF part, T
<1> QED
  BY <1>2, <1>3, <1>4, <1>5 DEF Stated

\* The networks with hexagons of their own.
LEMMA RowsHold == SurveySound =>
    RowsAgree(CoverageSummary, NetworksTable(OperatorBreakdown, NetworkCatalogue))
<1> SUFFICES ASSUME SurveySound
             PROVE  RowsAgree(CoverageSummary, NetworksTable(OperatorBreakdown, NetworkCatalogue))
  OBVIOUS
<1>1. PICK tiles : tiles = OperatorTilesOf(built)
  OBVIOUS
<1> DEFINE Theirs(n) == {t \in DOMAIN tiles : t[2] = n}
           Counted(n) == ByState(Restrict(tiles, Theirs(n)))
           Figures(n) == <<SumFunction(Counted(n)), Good(Counted(n)), Unusable(Counted(n))>>
           lines == NetworksTable(OperatorBreakdown, NetworkCatalogue)
           measured == MeasuredNetworks
<1>2. /\ Stated(tiles)
      /\ \A t \in DOMAIN tiles : t = <<t[1], t[2]>> /\ t[1] \in Measured(built)
  BY <1>1, OperatorTilesAre DEF SurveySound
<1>3. measured = {t[2] : t \in DOMAIN tiles}
  BY <1>1 DEF MeasuredNetworks
<1>4. lines = {[operator |-> n, figures |-> Figures(n)] : n \in measured}
               \cup {[operator |-> n, figures |-> None] : n \in Networks \ measured}
  <2> DEFINE Row(n) == OperatorRow(n, tiles)
             told == [m \in Networks |-> m \in measured]
  <2>1. OperatorBreakdown = {Row(n) : n \in measured}
    BY <1>1 DEF OperatorBreakdown
  <2>2. \A n : /\ Row(n).operator = n
               /\ <<Row(n).tiles, Row(n).good, Row(n).unusable>> = Figures(n)
    BY DEF OperatorRow, RowOf
  <2>3. NetworkCatalogue = told
    BY DEF NetworkCatalogue
  <2>4. {m \in Networks : ~told[m]} = Networks \ measured
    BY Zenon
  <2> HIDE DEF Row, Figures, measured, told
  <2>5. {[operator |-> row.operator, figures |-> <<row.tiles, row.good, row.unusable>>] :
           row \in {Row(n) : n \in measured}}
          = {[operator |-> n, figures |-> Figures(n)] : n \in measured}
    BY <2>2
  <2> QED
    BY <2>1, <2>3, <2>4, <2>5 DEF NetworksTable
<1>5. ASSUME NEW n \in Networks
      PROVE  Cardinality({r \in lines : r.operator = n}) = 1
  <2> HIDE DEF Figures, measured, lines
  <2>1. CASE n \in measured
    <3>1. {r \in lines : r.operator = n} = {[operator |-> n, figures |-> Figures(n)]}
      BY <1>4, <2>1
    <3> QED
      BY <3>1, FS_Singleton
  <2>2. CASE n \notin measured
    <3>1. {r \in lines : r.operator = n} = {[operator |-> n, figures |-> None]}
      BY <1>4, <2>2
    <3> QED
      BY <3>1, FS_Singleton
  <2> QED
    BY <2>1, <2>2
<1>6. /\ Sound(built) /\ IsFiniteSet(Measured(built)) /\ Cardinality(Measured(built)) \in Nat
      /\ CoverageSummary.tiles = Cardinality(Measured(built))
  <2>1. Sound(built)
    BY DEF SurveySound
  <2>2. SumFunction(ByState(TilesOf(built))) = Cardinality(DOMAIN TilesOf(built))
    BY <2>1, TilesAre, InStates
  <2> QED
    BY <2>1, <2>2, TilesAre DEF CoverageSummary, SummaryOf
<1>7. ASSUME NEW n \in measured
      PROVE  /\ Figures(n)[1] \in 1 .. CoverageSummary.tiles
             /\ Figures(n)[2] + Figures(n)[3] <= Figures(n)[1]
  <2>1. PICK part : part = Restrict(tiles, Theirs(n))
    OBVIOUS
  <2>2. DOMAIN part = Theirs(n) /\ \A t \in Theirs(n) : part[t] = tiles[t]
    BY <2>1 DEF Restrict
  <2>3. IsFiniteSet(Theirs(n)) /\ Stated(part)
    BY <1>2, <2>2, FS_Subset DEF Stated
  <2>4. ByState(part) \in [States -> Nat] /\ SumFunction(ByState(part)) = Cardinality(Theirs(n))
    BY <2>2, <2>3, InStates
  <2>5. Cardinality(Theirs(n)) \in 1 .. Cardinality(Measured(built))
    <3> DEFINE hex == [t \in Theirs(n) |-> t[1]]
               M == Measured(built)
    <3>1. \A t, u \in Theirs(n) : hex[t] = hex[u] => t = u
      BY <1>2
    <3>2. {hex[t] : t \in Theirs(n)} \in SUBSET M
      BY <1>2
    <3>3. Theirs(n) # {}
      BY <1>3
    <3> HIDE DEF hex, M, Theirs
    <3>4. Cardinality({hex[t] : t \in Theirs(n)}) = Cardinality(Theirs(n))
      BY <2>3, <3>1, ImageIs
    <3>5. Cardinality({hex[t] : t \in Theirs(n)}) <= Cardinality(M)
      BY <1>6, <3>2, FS_Subset DEF M
    <3>6. Cardinality(Theirs(n)) \in Nat /\ Cardinality(Theirs(n)) # 0
      BY <2>3, <3>3, FS_CardinalityType, FS_EmptySet
    <3> QED
      BY <1>6, <3>4, <3>5, <3>6 DEF M
  <2>6. Good(ByState(part)) + Unusable(ByState(part)) <= SumFunction(ByState(part))
    <3>1. PICK counted : counted = ByState(part)
      OBVIOUS
    <3>2. \A s \in States : counted[s] \in Nat
      BY <2>4, <3>1
    <3>3. SumFunction(counted) =
            counted["NO_CELL"] + counted["CELLS_VISIBLE_UNREGISTERED"]
              + counted["REGISTERED_2G_3G"] + counted["LTE_WEAK"] + counted["LTE_GOOD"]
      BY <2>4, <3>1, FiveStates
    <3>4. /\ counted["NO_CELL"] \in Nat /\ counted["CELLS_VISIBLE_UNREGISTERED"] \in Nat
          /\ counted["REGISTERED_2G_3G"] \in Nat /\ counted["LTE_WEAK"] \in Nat
          /\ counted["LTE_GOOD"] \in Nat
      BY <3>2, StatesAre
    <3> QED
      BY <3>1, <3>3, <3>4 DEF Good, Unusable
  <2>7. Figures(n) = <<SumFunction(ByState(part)), Good(ByState(part)), Unusable(ByState(part))>>
    BY <2>1
  <2> HIDE DEF Figures, Counted, Theirs
  <2> QED
    BY <1>6, <2>4, <2>5, <2>6, <2>7
<1>8. ASSUME NEW r \in lines, r.figures # None
      PROVE  r.figures[1] \in 1 .. CoverageSummary.tiles
             /\ r.figures[2] + r.figures[3] <= r.figures[1]
  <2> HIDE DEF Figures, measured, lines
  <2>1. PICK n \in measured : r = [operator |-> n, figures |-> Figures(n)]
    BY <1>4, <1>8
  <2> QED
    BY <1>7, <2>1
<1> HIDE DEF lines
<1> QED
  BY <1>5, <1>8 DEF RowsAgree, lines

\* A collector's own page, and all of them together.
LEMMA OwnHold == SurveySound =>
    OwnAgree(Metrics(CoverageSummary), [d \in Handsets |-> MySummary(d)])
<1> SUFFICES ASSUME SurveySound
             PROVE  OwnAgree(Metrics(CoverageSummary), [d \in Handsets |-> MySummary(d)])
  OBVIOUS
<1> DEFINE own == [d \in Handsets |-> MySummary(d)]
           amounts == [d \in Handsets |-> own[d].measurements]
           handset == [k \in DOMAIN readings |-> k.handset]
<1>1. Sound(readings) /\ IsFiniteSet(DOMAIN readings)
  BY DEF SurveySound, Sound
<1>2. ASSUME NEW d \in Handsets
      PROVE  /\ Sound(Own(d)) /\ own[d].measurements = BagCardinality(Own(d))
             /\ own[d].byState = Counts(Own(d))
             /\ BagCardinality(Own(d)) = Total(readings, {k \in DOMAIN readings : handset[k] = d})
  <2>1. {k \in DOMAIN readings : k.handset = d} \cap DOMAIN readings
          = {k \in DOMAIN readings : handset[k] = d}
    OBVIOUS
  <2>2. /\ Sound(Own(d))
        /\ BagCardinality(Own(d))
             = Total(readings, {k \in DOMAIN readings : k.handset = d} \cap DOMAIN readings)
    BY <1>1, AmongIs DEF Own
  <2> QED
    BY <2>1, <2>2 DEF MySummary
<1>3. SumFunction(amounts) = BagCardinality(readings)
  <2>1. handset \in [DOMAIN readings -> Handsets]
    BY <1>1, KindsAre DEF Sound
  <2>2. amounts = [d \in Handsets |-> Total(readings, {k \in DOMAIN readings : handset[k] = d})]
    BY <1>2
  <2>3. DOMAIN amounts = Handsets
    OBVIOUS
  <2>4. IsFiniteSet(Handsets) /\ \A k \in DOMAIN readings : readings[k] \in Nat
    BY <1>1, SoundTotals, SurveyAssumption
  <2> HIDE DEF own, amounts, handset
  <2>5. Total(readings, DOMAIN readings) = Total(amounts, Handsets)
    BY <1>1, <2>1, <2>2, <2>4, TotalByKind
  <2>6. SumFunction(amounts) = Total(amounts, Handsets)
    BY <2>3 DEF SumFunction, Total
  <2> QED
    BY <1>1, <2>5, <2>6, SoundTotals
<1>4. ASSUME NEW d \in Handsets
      PROVE  LET parts == MyStates(own[d])
             IN  SumFunction([s \in DOMAIN parts |-> parts[s].count]) = own[d].measurements
  <2>1. PICK counts : counts = Counts(Own(d))
    OBVIOUS
  <2>2. counts \in [States -> Nat] /\ SumFunction(counts) = BagCardinality(Own(d))
    BY <1>2, <2>1, CountsAre
  <2>3. PICK Some : Some = {s \in States : counts[s] > 0}
    OBVIOUS
  <2>4. PICK parts : parts = MyStates(own[d])
    OBVIOUS
  <2>5. DOMAIN parts = Some /\ \A s \in Some : parts[s].count = counts[s]
    BY <1>2, <2>1, <2>3, <2>4 DEF MyStates
  <2>6. PICK shown : shown = [s \in DOMAIN parts |-> parts[s].count]
    OBVIOUS
  <2>7. DOMAIN shown = Some /\ \A s \in Some : shown[s] = counts[s]
    BY <2>5, <2>6
  <2>8. /\ IsFiniteSet(States) /\ Some \in SUBSET States /\ IsFiniteSet(Some)
        /\ IsFiniteSet(States \ Some)
    BY <2>3, StatesAre, FS_Subset
  <2>9. \A s \in States : counts[s] \in Nat
    BY <2>2
  <2>10. \A s \in Some : counts[s] \in Nat
    BY <2>8, <2>9
  <2>11. Total(shown, Some) = Total(counts, Some)
    BY <2>7, <2>8, <2>10, TotalAlike
  <2>12. Total(counts, States \ Some) = 0
    <3>1. \A s \in States \ Some : counts[s] = 0
      BY <2>3, <2>9
    <3>2. 0 \in Nat /\ 0 * Cardinality(States \ Some) = 0
      BY <2>8, FS_CardinalityType
    <3> QED
      BY <2>8, <3>1, <3>2, TotalOfAlike
  <2>13. Total(counts, States) = Total(counts, Some)
    <3>1. /\ Total(counts, Some) \in Nat /\ Total(counts, States \ Some) \in Nat
          /\ Total(counts, States) = Total(counts, Some) + Total(counts, States \ Some)
      BY <2>8, <2>9, TotalInParts
    <3> QED
      BY <2>12, <3>1
  <2>14. SumFunction(shown) = Total(shown, Some) /\ SumFunction(counts) = Total(counts, States)
    BY <2>2, <2>7 DEF SumFunction, Total
  <2>15. SumFunction(shown) = own[d].measurements
    BY <1>2, <2>2, <2>11, <2>13, <2>14
  <2> QED
    BY <2>4, <2>6, <2>15
<1>5. Metrics(CoverageSummary).measurements = BagCardinality(readings)
  BY DEF Metrics, CoverageSummary, SummaryOf
<1> HIDE DEF own
<1> QED
  BY <1>3, <1>4, <1>5 DEF OwnAgree, own

-----------------------------------------------------------------------------
(* The legend, the filter and the bar.                                      *)

LEMMA OneBefore ==
  ASSUME NEW U, NEW s \in Seq(U), NEW t \in Seq(U), Len(s) = 1, NEW m \in Nat, Len(t) = m
  PROVE  /\ s \o t \in Seq(U) /\ Len(s \o t) = 1 + m /\ (s \o t)[1] = s[1]
         /\ \A n \in 2 .. 1 + m : (s \o t)[n] = t[n - 1]
<1>1. ASSUME NEW a \in Seq(U), NEW b \in Seq(U)
      PROVE  /\ a \o b \in Seq(U) /\ Len(a \o b) = Len(a) + Len(b)
             /\ \A p \in 1 .. Len(a) : (a \o b)[p] = a[p]
             /\ \A p \in Len(a) + 1 .. Len(a) + Len(b) : (a \o b)[p] = b[p - Len(a)]
  OBVIOUS
<1> QED
  <2>1. /\ s \o t \in Seq(U) /\ Len(s \o t) = Len(s) + Len(t)
        /\ \A p \in 1 .. Len(s) : (s \o t)[p] = s[p]
        /\ \A p \in Len(s) + 1 .. Len(s) + Len(t) : (s \o t)[p] = t[p - Len(s)]
    BY <1>1
  <2>2. PICK all : all = s \o t
    OBVIOUS
  <2> QED
    BY <2>1, <2>2

\* The places of the legend, best service first.
LEMMA LegendIs ==
    /\ DOMAIN LEGEND_ORDER = 1 .. 5
    /\ \A i \in 1 .. 5 : LEGEND_ORDER[i] \in States
    /\ \A i, j \in 1 .. 5 : LEGEND_ORDER[i] = LEGEND_ORDER[j] => i = j
    /\ \A s \in States : \E i \in 1 .. 5 : LEGEND_ORDER[i] = s
    /\ \A s \in States : StateInfo(s).label = s
    /\ LEGEND_ORDER \in Seq(States) /\ Len(LEGEND_ORDER) = 5
<1>1. LEGEND_ORDER = <<"LTE_GOOD", "LTE_WEAK", "REGISTERED_2G_3G",
                       "CELLS_VISIBLE_UNREGISTERED", "NO_CELL">>
  BY DEF LEGEND_ORDER, Reverse, Ascending
<1>2. \A i \in 1 .. 5 : i = 1 \/ i = 2 \/ i = 3 \/ i = 4 \/ i = 5
  OBVIOUS
<1>3. DOMAIN LEGEND_ORDER = 1 .. 5 /\ Len(LEGEND_ORDER) = 5
  BY <1>1
<1>4. /\ LEGEND_ORDER[1] = "LTE_GOOD" /\ LEGEND_ORDER[2] = "LTE_WEAK"
      /\ LEGEND_ORDER[3] = "REGISTERED_2G_3G"
      /\ LEGEND_ORDER[4] = "CELLS_VISIBLE_UNREGISTERED" /\ LEGEND_ORDER[5] = "NO_CELL"
  BY <1>1
<1>5. \A i \in 1 .. 5 : LEGEND_ORDER[i] \in States
  BY <1>2, <1>4, StatesAre
<1>6. \A s \in States : \E i \in 1 .. 5 : LEGEND_ORDER[i] = s
  <2>1. 1 \in 1 .. 5 /\ 2 \in 1 .. 5 /\ 3 \in 1 .. 5 /\ 4 \in 1 .. 5 /\ 5 \in 1 .. 5
    OBVIOUS
  <2> QED
    BY <1>4, <2>1, StatesAre
<1>7. \A i, j \in 1 .. 5 : LEGEND_ORDER[i] = LEGEND_ORDER[j] => i = j
  BY <1>2, <1>4
<1>8. \A s \in States : StateInfo(s).label = s
  BY StatesAre DEF StateInfo, Entry
<1>9. LEGEND_ORDER \in Seq(States)
  BY <1>1, StatesAre
<1> QED
  BY <1>3, <1>5, <1>6, <1>7, <1>8, <1>9

LEMMA FilterHolds == SurveySound => FilterAgrees(CoverageSummary, TilesOf(built))
<1> SUFFICES ASSUME SurveySound,  NEW i \in DOMAIN StateFilter
             PROVE  Cardinality(DOMAIN ShownTiles(TilesOf(built), StateFilter[i]))
                      = IF i = 1 THEN CoverageSummary.tiles
                        ELSE CoverageSummary.byState[StateFilter[i]]
  BY DEF FilterAgrees
<1>1. PICK tiles : tiles = TilesOf(built)
  OBVIOUS
<1>2. Stated(tiles)
  BY <1>1, TilesAre DEF SurveySound
<1> DEFINE names == [n \in DOMAIN LEGEND_ORDER |-> StateInfo(LEGEND_ORDER[n]).label]
<1>3. names \in Seq(States) /\ Len(names) = 5 /\ \A n \in 1 .. 5 : names[n] = LEGEND_ORDER[n]
  BY LegendIs
<1>4. StateFilter = <<None>> \o names
  BY DEF StateFilter
<1> HIDE DEF names
<1>5. /\ DOMAIN StateFilter = 1 .. 6 /\ StateFilter[1] = None
      /\ \A n \in 2 .. 6 : StateFilter[n] = names[n - 1]
  <2>1. PICK said : said = names
    OBVIOUS
  <2>2. said \in Seq(States) /\ Len(said) = 5 /\ StateFilter = <<None>> \o said
    BY <1>3, <1>4, <2>1
  <2>3. PICK U : U = States \cup {None}
    OBVIOUS
  <2>4. PICK head : head = <<None>>
    OBVIOUS
  <2>7. head \in Seq(U) /\ Len(head) = 1 /\ head[1] = None
    <3>1. None \in U
      BY <2>3
  
    <3> QED
      BY <2>4, <3>1
  <2>5. said \in Seq(U)
    BY <2>2, <2>3
  <2>6. /\ DOMAIN (head \o said) = 1 .. 6 /\ (head \o said)[1] = head[1]
        /\ \A n \in 2 .. 6 : (head \o said)[n] = said[n - 1]
    <3>1. PICK all : all = head \o said
      OBVIOUS
    <3>2. Len(said) = 5 /\ 5 \in Nat /\ Len(head) = 1 /\ head \in Seq(U)
      BY <2>2, <2>7
    <3>3. /\ all \in Seq(U) /\ Len(all) = 1 + 5 /\ all[1] = head[1]
          /\ \A n \in 2 .. 1 + 5 : all[n] = said[n - 1]
      BY <2>5, <3>1, <3>2, OneBefore, SMTT(30)
    <3>4. DOMAIN all = 1 .. 6 /\ 1 + 5 = 6
      BY <3>3
    <3> HIDE DEF names
    <3>5. DOMAIN all = 1 .. 6 /\ all[1] = head[1] /\ \A n \in 2 .. 6 : all[n] = said[n - 1]
      BY <3>3, <3>4
    <3> QED
      BY <3>1, <3>5, Zenon
  <2> QED
    BY <2>1, <2>2, <2>4, <2>6, <2>7
<1>6. CASE i = 1
  <2>1. ShownTiles(tiles, StateFilter[i]) = tiles
    BY <1>5, <1>6 DEF ShownTiles
  <2>2. SumFunction(ByState(tiles)) = Cardinality(DOMAIN tiles)
    BY <1>2, InStates
  <2> QED
    BY <1>1, <1>6, <2>1, <2>2 DEF CoverageSummary, SummaryOf
<1>7. CASE i # 1
  <2>1. StateFilter[i] \in States
    BY <1>3, <1>5, <1>7, LegendIs
  <2>2. StateFilter[i] # None
    BY <2>1, SurveyAssumption
  <2>3. PICK s \in States : s = StateFilter[i]
    BY <2>1
  <2>4. DOMAIN ShownTiles(tiles, s) = {g \in DOMAIN tiles : tiles[g].state = s}
    BY <2>2, <2>3 DEF ShownTiles
  <2>5. ByState(tiles)[s] = Cardinality({h \in DOMAIN tiles : tiles[h].state = s})
    BY DEF ByState
  <2>6. CoverageSummary.byState = ByState(tiles)
    BY <1>1 DEF CoverageSummary, SummaryOf
  <2> QED
    BY <1>1, <1>7, <2>3, <2>4, <2>5, <2>6
<1> QED
  BY <1>6, <1>7

\* The parts of the bar are the five states.
LEMMA BarIs ==
  ASSUME NEW byState \in [States -> Nat]
  PROVE  LET bar == StateBar(byState)
         IN  SumFunction([i \in DOMAIN bar |-> bar[i].count]) = SumFunction(byState)
<1>1. PICK bar : bar = StateBar(byState)
  OBVIOUS
<1>2. PICK counts : counts = [i \in DOMAIN bar |-> bar[i].count]
  OBVIOUS
<1>3. PICK OnPage : OnPage = {i \in 1 .. 5 : byState[LEGEND_ORDER[i]] > 0}
  OBVIOUS
<1>4. DOMAIN bar = OnPage /\ \A i \in OnPage : bar[i].count = byState[LEGEND_ORDER[i]]
  BY <1>1, <1>3, LegendIs DEF StateBar
<1>5. DOMAIN counts = OnPage /\ \A i \in OnPage : counts[i] = byState[LEGEND_ORDER[i]]
  BY <1>2, <1>4
<1>6. PICK all : all = [i \in 1 .. 5 |-> byState[LEGEND_ORDER[i]]]
  OBVIOUS
<1>7. \A i \in 1 .. 5 : all[i] = byState[LEGEND_ORDER[i]] /\ all[i] \in Nat
  BY <1>6, LegendIs
<1>8. PICK I : I = 1 .. 5
  OBVIOUS
<1>9. /\ IsFiniteSet(I) /\ OnPage \in SUBSET I
      /\ IsFiniteSet(OnPage) /\ IsFiniteSet(I \ OnPage)
  <2>1. \A i \in OnPage : i \in I
    BY <1>3, <1>8
  <2>2. IsFiniteSet(I)
    <3>1. \A n \in Nat : IsFiniteSet(1 .. n)
      BY FS_Interval
    <3> QED
      BY <1>8, <3>1
  <2>3. \A T \in SUBSET I : IsFiniteSet(T)
    BY <2>2, FS_Subset
  <2>4. OnPage \in SUBSET I /\ I \ OnPage \in SUBSET I
    BY <2>1
  <2> QED
    BY <2>2, <2>3, <2>4
<1>10. Total(counts, OnPage) = Total(all, OnPage)
  <2>1. (\A i \in OnPage : all[i] \in Nat) /\ \A i \in OnPage : counts[i] = all[i]
    BY <1>3, <1>5, <1>7
  <2> QED
    BY <1>9, <2>1, TotalAlike
<1>11. Total(all, I \ OnPage) = 0
  <2>1. \A i \in I \ OnPage : all[i] = 0
    BY <1>3, <1>7, <1>8
  <2>2. 0 \in Nat /\ 0 * Cardinality(I \ OnPage) = 0
    BY <1>9, FS_CardinalityType
  <2> QED
    BY <1>9, <2>1, <2>2, TotalOfAlike
<1>12. Total(all, I) = Total(all, OnPage)
  <2>1. \A i \in I : all[i] \in Nat
    BY <1>7, <1>8
  <2>2. /\ Total(all, OnPage) \in Nat /\ Total(all, I \ OnPage) \in Nat
        /\ Total(all, I) = Total(all, OnPage) + Total(all, I \ OnPage)
    BY <1>9, <2>1, TotalInParts
  <2> QED
    BY <1>11, <2>2
<1>13. Total(byState, States) = Total(all, I)
  <2>1. PICK place : place = [s \in States |-> CHOOSE i \in 1 .. 5 : LEGEND_ORDER[i] = s]
    OBVIOUS
  <2>2. \A s \in States : place[s] \in I /\ LEGEND_ORDER[place[s]] = s
    BY <1>8, <2>1, LegendIs
  <2>3. place \in [States -> I]
    BY <2>1, <2>2
  <2>4. \A i \in I : {s \in States : place[s] = i} = {LEGEND_ORDER[i]}
    <3> SUFFICES ASSUME NEW i \in I
                 PROVE  {s \in States : place[s] = i} = {LEGEND_ORDER[i]}
      OBVIOUS
    <3>1. LEGEND_ORDER[i] \in States
      BY <1>8, LegendIs
    <3>2. place[LEGEND_ORDER[i]] = i
      <4>1. place[LEGEND_ORDER[i]] \in I
            /\ LEGEND_ORDER[place[LEGEND_ORDER[i]]] = LEGEND_ORDER[i]
        BY <2>2, <3>1
      <4> QED
        BY <1>8, <4>1, LegendIs
    <3>3. \A s \in States : place[s] = i => s = LEGEND_ORDER[i]
      BY <2>2
    <3> HIDE DEF States
    <3> QED
      BY <3>1, <3>2, <3>3
  <2>5. \A s \in States : Total(byState, {s}) = byState[s]
    BY FiveStates
  <2>6. \A i \in I : Total(byState, {s \in States : place[s] = i}) = all[i]
    <3>1. \A i \in I : LEGEND_ORDER[i] \in States /\ all[i] = byState[LEGEND_ORDER[i]]
      BY <1>7, <1>8, LegendIs
    <3> QED
      BY <2>4, <2>5, <3>1
  <2>7. all = [i \in I |-> Total(byState, {s \in States : place[s] = i})]
    BY <1>6, <1>8, <2>6
  <2>8. IsFiniteSet(States) /\ \A s \in States : byState[s] \in Nat
    BY StatesAre
  <2> QED
    BY <1>9, <2>3, <2>7, <2>8, TotalByKind
<1>14. SumFunction(counts) = Total(counts, OnPage) /\ SumFunction(byState) = Total(byState, States)
  BY <1>5 DEF SumFunction, Total
<1> QED
  BY <1>1, <1>2, <1>10, <1>12, <1>13, <1>14

\* There is a reading without service behind every hexagon without.
LEMMA NoServiceIsCounted == SurveySound =>
    ByState(TilesOf(built))["NO_CELL"] <= Counts(readings)["NO_CELL"]
<1> SUFFICES ASSUME SurveySound
             PROVE  ByState(TilesOf(built))["NO_CELL"] <= Counts(readings)["NO_CELL"]
  OBVIOUS
<1> DEFINE Dark == {h \in Measured(built) : TilesOf(built)[h].state = "NO_CELL"}
           Kept == {k \in DOMAIN built : k.state = "NO_CELL"}
           Chosen == {k \in DOMAIN readings : k.state = "NO_CELL"}
           hex == [k \in Kept |-> k.hex]
<1>1. /\ Sound(built) /\ Sound(readings)
      /\ DOMAIN built \subseteq DOMAIN readings
      /\ \A k \in DOMAIN built : built[k] <= readings[k]
  BY DEF SurveySound, \sqsubseteq
<1>2. "NO_CELL" \in States
  BY StatesAre
<1>3. ByState(TilesOf(built))["NO_CELL"] = Cardinality(Dark)
  <2>1. DOMAIN TilesOf(built) = Measured(built)
    BY <1>1, TilesAre
  <2> QED
    BY <1>2, <2>1 DEF ByState
<1>4. Counts(readings)["NO_CELL"] = Total(readings, Chosen)
  BY <1>1, <1>2, CountsAre
<1>5. Dark \subseteq {hex[k] : k \in Kept}
  <2> SUFFICES ASSUME NEW h \in Dark PROVE \E k \in Kept : k.hex = h
    OBVIOUS
  <2>1. Tile(On(built, h)).state = "NO_CELL"
    BY <1>1, TilesAre
  <2>2. Sound(On(built, h)) /\ DOMAIN On(built, h) # {}
    BY <1>1, HexagonIs
  <2>3. PICK rs : rs = On(built, h)
    OBVIOUS
  <2>4. Counts(rs)["NO_CELL"] > 0
    BY <2>1, <2>2, <2>3, TileIs
  <2>5. \E k \in DOMAIN rs : k.state = "NO_CELL"
    BY <1>2, <2>2, <2>3, <2>4, SeenInCounts
  <2>6. DOMAIN rs = {k \in DOMAIN built : k.hex = h}
    BY <1>1, <2>3, OnIs
  <2> QED
    BY <2>5, <2>6
<1>6. IsFiniteSet(Kept) /\ IsFiniteSet(Chosen) /\ Kept \in SUBSET Chosen
  BY <1>1, FS_Subset DEF Sound
<1> HIDE DEF Dark, hex
<1>7. Cardinality(Dark) <= Cardinality(Kept)
  <2>1. IsFiniteSet({hex[k] : k \in Kept})
    BY <1>6, ImageIs
  <2>2. Cardinality({hex[k] : k \in Kept}) <= Cardinality(Kept)
    BY <1>6, ImageIs
  <2>3. Cardinality(Dark) <= Cardinality({hex[k] : k \in Kept}) /\ IsFiniteSet(Dark)
    BY <1>5, <2>1, FS_Subset
  <2> QED
    BY <1>6, <2>1, <2>2, <2>3, FS_CardinalityType
<1>8. \A k \in Chosen : readings[k] \in Nat
  BY <1>1, SoundTotals
<1>9. \A k \in Kept : built[k] \in Nat /\ built[k] > 0 /\ readings[k] \in Nat
                       /\ built[k] <= readings[k]
  BY <1>1, <1>6, <1>8, SoundTotals
<1> HIDE DEF Kept, Chosen
<1>10. Cardinality(Kept) <= Total(readings, Kept)
  <2>1. PICK one : one = [k \in Kept |-> 1]
    OBVIOUS
  <2>2. \A k \in Kept : one[k] \in Nat /\ readings[k] \in Nat /\ one[k] <= readings[k]
    BY <1>9, <2>1
  <2>3. Total(one, Kept) <= Total(readings, Kept)
    BY <1>6, <2>2, TotalGrows
  <2> QED
    BY <1>6, <2>1, <2>3, CardinalityIsTotal
<1>11. /\ Total(readings, Kept) \in Nat /\ Total(readings, Chosen \ Kept) \in Nat
       /\ Total(readings, Chosen) = Total(readings, Kept) + Total(readings, Chosen \ Kept)
  BY <1>6, <1>8, TotalInParts
<1>12. Cardinality(Dark) \in Nat /\ Cardinality(Kept) \in Nat
  <2>1. IsFiniteSet({hex[k] : k \in Kept})
    BY <1>6, ImageIs
  <2>2. IsFiniteSet(Dark)
    BY <1>5, <2>1, FS_Subset
  <2> QED
    BY <1>6, <2>2, FS_CardinalityType
<1> QED
  BY <1>3, <1>4, <1>7, <1>10, <1>11, <1>12

-----------------------------------------------------------------------------
(* The ranking of the dead zones.                                           *)

\* Tiles that can be told apart by how bad they are.
Compared(tiles) ==
    /\ Stated(tiles)
    /\ \A t \in DOMAIN tiles : tiles[t].measurements \in Nat /\ tiles[t].devices \in Nat

LEMMA WorseIs ==
  ASSUME NEW tiles, Compared(tiles), NEW a \in DOMAIN tiles, NEW b \in DOMAIN tiles,
         NEW c \in DOMAIN tiles
  PROVE  /\ ~Worse(tiles[a], tiles[a])
         /\ Worse(tiles[a], tiles[b]) /\ Worse(tiles[b], tiles[c]) => Worse(tiles[a], tiles[c])
<1>1. \A t \in DOMAIN tiles :
        /\ Score(tiles[t].state) \in 1 .. 5 /\ tiles[t].measurements \in Nat
        /\ tiles[t].devices \in Nat
  BY StatesAre DEF Compared, Stated
<1>2. PICK x, y, z : x = tiles[a] /\ y = tiles[b] /\ z = tiles[c]
  OBVIOUS
<1>3. /\ Score(x.state) \in Int /\ Score(y.state) \in Int /\ Score(z.state) \in Int
      /\ x.measurements \in Int /\ y.measurements \in Int /\ z.measurements \in Int
      /\ x.devices \in Int /\ y.devices \in Int /\ z.devices \in Int
  BY <1>1, <1>2
<1>4. ~Worse(x, x) /\ (Worse(x, y) /\ Worse(y, z) => Worse(x, z))
  BY <1>3 DEF Worse
<1> QED
  BY <1>2, <1>4

\* Some tiles have one that is worse than none of them.
LEMMA BestOf ==
  ASSUME NEW tiles, Compared(tiles), NEW S \in SUBSET DOMAIN tiles, S # {}
  PROVE  \E e \in S : \A t \in S : ~Worse(tiles[e], tiles[t])
<1> DEFINE T == {s \in SUBSET DOMAIN tiles :
                   s = {} \/ \E e \in s : \A t \in s : ~Worse(tiles[e], tiles[t])}
<1>1. IsFiniteSet(DOMAIN tiles)
  BY DEF Compared, Stated
<1>2. {} \in T
  OBVIOUS
<1>3. ASSUME NEW s \in SUBSET DOMAIN tiles, NEW x \in (DOMAIN tiles) \ s, s \in T
      PROVE  s \cup {x} \in T
  <2>1. CASE s = {}
    BY <2>1, WorseIs
  <2>2. CASE s # {}
    <3>1. PICK e \in s : \A t \in s : ~Worse(tiles[e], tiles[t])
      BY <1>3, <2>2
    <3>2. CASE Worse(tiles[e], tiles[x])
      <4>1. \A t \in s \cup {x} : ~Worse(tiles[x], tiles[t])
        BY <3>1, <3>2, WorseIs
      <4> QED
        BY <4>1
    <3>3. CASE ~Worse(tiles[e], tiles[x])
      BY <3>1, <3>3
    <3> QED
      BY <3>2, <3>3
  <2> QED
    BY <2>1, <2>2
<1> HIDE DEF T
<1>4. S \in T
  BY <1>1, <1>2, <1>3, OneByOne
<1> QED
  BY <1>4 DEF T

\* The ways to list some tiles from the worst to the best.
Rankings(tiles, S) ==
    {order \in SetToSeqs(S) :
        \A i, j \in DOMAIN order : i < j => ~Worse(tiles[order[j]], tiles[order[i]])}

LEMMA ListedIs ==
  ASSUME NEW S, NEW f
  PROVE  f \in SetToSeqs(S)
           <=> /\ f \in [1 .. Cardinality(S) -> S]
               /\ \A i, j \in 1 .. Cardinality(S) : i # j => f[i] # f[j]
BY DEF SetToSeqs

LEMMA ARanking ==
  ASSUME NEW tiles, Compared(tiles), NEW S \in SUBSET DOMAIN tiles
  PROVE  Rankings(tiles, S) # {}
<1> DEFINE D == DOMAIN tiles
           T == {n \in 0 .. Cardinality(D) :
                   \A s \in SUBSET D : Cardinality(s) = n => Rankings(tiles, s) # {}}
<1>1. IsFiniteSet(D) /\ Cardinality(D) \in Nat
  BY FS_CardinalityType DEF Compared, Stated
<1>2. 0 \in T
  <2>1. \A s \in SUBSET D : Cardinality(s) = 0 => s = {}
    BY <1>1, FS_Subset, FS_EmptySet
  <2>2. Rankings(tiles, {}) # {}
    <3>1. PICK none : none = [i \in 1 .. 0 |-> {}]
      OBVIOUS
    <3>2. Cardinality({}) = 0
      BY FS_EmptySet
    <3>5. PICK nothing : nothing = {}
      OBVIOUS
    <3>6. PICK I : I = 1 .. 0
      OBVIOUS
    <3>7. Cardinality(nothing) = 0 /\ I = {} /\ I = 1 .. Cardinality(nothing)
      BY <3>2, <3>5, <3>6
    <3>8. none \in [I -> nothing]
      BY <3>1, <3>6, <3>7
    <3>9. none \in SetToSeqs(nothing)
      BY <3>7, <3>8, ListedIs
    <3>3. none \in SetToSeqs({})
      BY <3>5, <3>9
    <3>4. none \in Rankings(tiles, {})
      BY <3>1, <3>3 DEF Rankings
    <3> QED
      BY <3>4
  <2> QED
    BY <1>1, <2>1, <2>2
<1>3. ASSUME NEW n \in 0 .. Cardinality(D) - 1, n \in T PROVE n + 1 \in T
  <2> SUFFICES ASSUME NEW s \in SUBSET D, Cardinality(s) = n + 1
               PROVE  Rankings(tiles, s) # {}
    BY <1>1
  <2>1. IsFiniteSet(s) /\ s # {}
    BY <1>1, FS_Subset, FS_EmptySet
  <2>2. PICK e \in s : \A t \in s : ~Worse(tiles[e], tiles[t])
    BY <2>1, BestOf
  <2>3. PICK rest : rest = s \ {e}
    OBVIOUS
  <2>4. Cardinality(rest) = n /\ rest \in SUBSET D
    BY <1>1, <2>1, <2>2, <2>3, OneLess
  <2>5. PICK order \in Rankings(tiles, rest) : TRUE
    BY <1>3, <2>4
  <2>6. /\ order \in [1 .. n -> rest]
        /\ \A i, j \in 1 .. n : i # j => order[i] # order[j]
        /\ \A i, j \in 1 .. n : i < j => ~Worse(tiles[order[j]], tiles[order[i]])
    BY <2>4, <2>5, ListedIs DEF Rankings
  <2>7. PICK more : more = [i \in 1 .. n + 1 |-> IF i <= n THEN order[i] ELSE e]
    OBVIOUS
  <2>8. /\ DOMAIN more = 1 .. n + 1 /\ more[n + 1] = e
        /\ \A i \in 1 .. n : more[i] = order[i] /\ more[i] \in rest
    BY <2>6, <2>7
  <2>9. \A i \in 1 .. n + 1 : i = n + 1 \/ i \in 1 .. n
    OBVIOUS
  <2>10. more \in [1 .. n + 1 -> s]
    BY <2>3, <2>6, <2>7
  <2>11. \A i, j \in 1 .. n + 1 : i # j => more[i] # more[j]
    BY <2>3, <2>6, <2>8, <2>9
  <2>12. \A i, j \in 1 .. n + 1 : i < j => ~Worse(tiles[more[j]], tiles[more[i]])
    <3> SUFFICES ASSUME NEW i \in 1 .. n + 1, NEW j \in 1 .. n + 1, i < j
                 PROVE  ~Worse(tiles[more[j]], tiles[more[i]])
      OBVIOUS
    <3>1. i \in 1 .. n
      OBVIOUS
    <3>2. CASE j = n + 1
      BY <2>2, <2>3, <2>8, <3>1, <3>2
    <3>3. CASE j \in 1 .. n
      BY <2>6, <2>8, <3>1, <3>3
    <3> QED
      BY <2>9, <3>2, <3>3
  <2>13. more \in Rankings(tiles, s)
    BY <2>8, <2>10, <2>11, <2>12, ListedIs DEF Rankings
  <2> QED
    BY <2>13
<1> HIDE DEF T
<1>4. \A n \in 0 .. Cardinality(D) : n \in T
  BY <1>1, <1>2, <1>3, TurnByTurn
<1>5. Cardinality(S) \in 0 .. Cardinality(D)
  BY <1>1, FS_Subset, FS_CardinalityType
<1> QED
  BY <1>4, <1>5 DEF T

\* The list of dead zones.
LEMMA WorstFirstIs ==
  ASSUME NEW tiles, Compared(tiles)
  PROVE  LET order == WorstFirst(tiles)
             n == Cardinality(DeadZones(tiles))
         IN  /\ IsFiniteSet(DeadZones(tiles)) /\ n \in Nat
             /\ order \in [1 .. n -> DeadZones(tiles)] /\ Len(order) = n
             /\ \A i, j \in 1 .. n : i # j => order[i] # order[j]
             /\ \A i, j \in 1 .. n : i < j => ~Worse(tiles[order[j]], tiles[order[i]])
             /\ \A h \in DeadZones(tiles) : \E i \in 1 .. n : order[i] = h
<1> DEFINE D == DeadZones(tiles)
           n == Cardinality(D)
           order == WorstFirst(tiles)
<1>1. D \in SUBSET DOMAIN tiles /\ IsFiniteSet(D) /\ n \in Nat
  BY FS_Subset, FS_CardinalityType DEF Compared, Stated, DeadZones
<1>2. Rankings(tiles, D) # {}
  BY <1>1, ARanking
<1>3. order \in Rankings(tiles, D)
  BY <1>2, Zenon DEF Rankings, WorstFirst
<1> HIDE DEF order, D
<1>4. /\ order \in [1 .. n -> D]
      /\ \A i, j \in 1 .. n : i # j => order[i] # order[j]
  BY <1>3, ListedIs DEF Rankings
<1>5. \A i, j \in 1 .. n : i < j => ~Worse(tiles[order[j]], tiles[order[i]])
  BY <1>3, <1>4 DEF Rankings
<1>6. Len(order) = n
  BY <1>1, <1>4
<1>7. \A h \in D : \E i \in 1 .. n : order[i] = h
  <2> DEFINE I == 1 .. n
             R == {order[i] : i \in I}
  <2>1. IsFiniteSet(I) /\ Cardinality(I) = n
    BY <1>1, FS_Interval
  <2>2. \A i, j \in I : order[i] = order[j] => i = j
    BY <1>4
  <2>3. R \in SUBSET D
    BY <1>4
  <2> HIDE DEF I
  <2>4. Cardinality(R) = n
    BY <2>1, <2>2, ImageIs
  <2>5. R = D
    BY <1>1, <2>3, <2>4, FS_Subset
  <2> QED
    BY <2>5 DEF I
<1> QED
  BY <1>1, <1>4, <1>5, <1>6, <1>7 DEF D, order

\* The tiles of a table of hexagons, as the ranking sees them.
LEMMA TilesCompared ==
  ASSUME NEW rs, Sound(rs)
  PROVE  /\ Compared(TilesOf(rs)) /\ DOMAIN TilesOf(rs) = Measured(rs)
         /\ Cardinality(DeadZones(TilesOf(rs)))
              = ByAction(ByState(TilesOf(rs)))["new_tower"]
                  + ByAction(ByState(TilesOf(rs)))["upgrade"]
<1>1. PICK tiles : tiles = TilesOf(rs)
  OBVIOUS
<1>2. Stated(tiles) /\ DOMAIN tiles = Measured(rs)
  BY <1>1, TilesAre
<1>3. ASSUME NEW h \in Measured(rs)
      PROVE  tiles[h].measurements \in Nat /\ tiles[h].devices \in Nat
  <2>1. Sound(On(rs, h)) /\ DOMAIN On(rs, h) # {} /\ tiles[h] = Tile(On(rs, h))
    BY <1>1, HexagonIs, TilesAre
  <2>2. PICK part : part = On(rs, h)
    OBVIOUS
  <2>3. /\ Tile(part).measurements = BagCardinality(part) /\ BagCardinality(part) \in Nat
        /\ Tile(part).devices \in Nat
    BY <2>1, <2>2, TileIs
  <2> QED
    BY <2>1, <2>2, <2>3
<1>4. PICK byState \in [States -> Nat] : byState = ByState(tiles)
  BY <1>2, InStates
<1>5. PICK R : R = {"NO_CELL", "CELLS_VISIBLE_UNREGISTERED", "REGISTERED_2G_3G"}
  OBVIOUS
<1>6. DeadZones(tiles) = {h \in DOMAIN tiles : tiles[h].state \in R}
  <2>1. \A s \in States : (Score(s) <= 3) <=> s \in R
    <3>1. \A i \in 1 .. 5 : i <= 3 <=> (i = 1 \/ i = 2 \/ i = 3)
      OBVIOUS
    <3>2. /\ Ascending[1] = "NO_CELL" /\ Ascending[2] = "CELLS_VISIBLE_UNREGISTERED"
          /\ Ascending[3] = "REGISTERED_2G_3G" /\ Ascending[4] = "LTE_WEAK"
          /\ Ascending[5] = "LTE_GOOD"
      BY DEF Ascending
    <3>3. /\ Score(Ascending[1]) = 1 /\ Score(Ascending[2]) = 2 /\ Score(Ascending[3]) = 3
          /\ Score(Ascending[4]) = 4 /\ Score(Ascending[5]) = 5
      <4>1. 1 \in 1 .. 5 /\ 2 \in 1 .. 5 /\ 3 \in 1 .. 5 /\ 4 \in 1 .. 5 /\ 5 \in 1 .. 5
        OBVIOUS
      <4> QED
        BY <4>1, StatesAre
    <3>4. /\ Score("NO_CELL") = 1 /\ Score("CELLS_VISIBLE_UNREGISTERED") = 2
          /\ Score("REGISTERED_2G_3G") = 3 /\ Score("LTE_WEAK") = 4 /\ Score("LTE_GOOD") = 5
      BY <3>2, <3>3
    <3>5. \A s \in States : \/ s = "NO_CELL" \/ s = "CELLS_VISIBLE_UNREGISTERED"
                            \/ s = "REGISTERED_2G_3G" \/ s = "LTE_WEAK" \/ s = "LTE_GOOD"
      BY StatesAre
    <3> QED
      BY <1>5, <3>4, <3>5
  <2> QED
    BY <1>2, <2>1 DEF DeadZones, Stated
<1>7. Cardinality(DeadZones(tiles)) = AtMost(byState, 3)
  <2>1. R \in SUBSET States
    BY <1>5, StatesAre
  <2>2. Cardinality({h \in DOMAIN tiles : tiles[h].state \in R}) = Total(byState, R)
    BY <1>2, <1>4, <2>1, InStates
  <2>3. {Ascending[j] : j \in 1 .. 3} = R
    <3>1. \A j : j \in 1 .. 3 <=> (j = 1 \/ j = 2 \/ j = 3)
      OBVIOUS
    <3>2. /\ Ascending[1] = "NO_CELL" /\ Ascending[2] = "CELLS_VISIBLE_UNREGISTERED"
          /\ Ascending[3] = "REGISTERED_2G_3G"
      BY DEF Ascending
    <3> QED
      BY <1>5, <3>1, <3>2
  <2>4. AtMost(byState, 3) = Total(byState, R)
    BY <2>3 DEF AtMost, Total
  <2> QED
    BY <1>6, <2>2, <2>4
<1>8. AtMost(byState, 3) = ByAction(byState)["new_tower"] + ByAction(byState)["upgrade"]
  <2>1. /\ ByAction(byState)["new_tower"] = byState["NO_CELL"]
        /\ ByAction(byState)["upgrade"] =
             byState["CELLS_VISIBLE_UNREGISTERED"] + byState["REGISTERED_2G_3G"]
    BY WorkIs
  <2>2. AtMost(byState, 3) = byState["NO_CELL"] + byState["CELLS_VISIBLE_UNREGISTERED"]
                               + byState["REGISTERED_2G_3G"]
    BY FiveStates
  <2>3. /\ byState["NO_CELL"] \in Nat /\ byState["CELLS_VISIBLE_UNREGISTERED"] \in Nat
        /\ byState["REGISTERED_2G_3G"] \in Nat
    BY StatesAre
  <2> QED
    BY <2>1, <2>2, <2>3
<1>9. Compared(tiles)
  BY <1>2, <1>3 DEF Compared
<1> QED
  BY <1>1, <1>2, <1>4, <1>7, <1>8, <1>9

LEMMA SmallerOf ==
  ASSUME NEW a \in Nat, NEW b \in Nat
  PROVE  Min({a, b}) \in Nat /\ Min({a, b}) <= a /\ Min({a, b}) <= b
         /\ (Min({a, b}) = a \/ Min({a, b}) = b)
BY LeastOf

\* What the page asks for of the list.
LEMMA RankedIs ==
  ASSUME NEW rs, Sound(rs)
  PROVE  LET tiles == TilesOf(rs)
             order == WorstFirst(tiles)
             m == Min({RankedAtMost, Cardinality(DeadZones(tiles))})
         IN  /\ m \in Nat /\ m <= Cardinality(DeadZones(tiles))
             /\ DOMAIN Ranked(tiles) = 1 .. m /\ Len(Ranked(tiles)) = m
             /\ \A i \in 1 .. m :
                  /\ Ranked(tiles)[i] = RankedRow(i, order[i], tiles[order[i]])
                  /\ order[i] \in DeadZones(tiles)
<1>1. PICK tiles : tiles = TilesOf(rs)
  OBVIOUS
<1>2. PICK order : order = WorstFirst(tiles)
  OBVIOUS
<1>3. PICK n : n = Cardinality(DeadZones(tiles))
  OBVIOUS
<1>4. n \in Nat /\ Len(order) = n /\ order \in [1 .. n -> DeadZones(tiles)]
  BY <1>1, <1>2, <1>3, TilesCompared, WorstFirstIs
<1>5. PICK m : m = Min({RankedAtMost, n})
  OBVIOUS
<1>6. m \in Nat /\ m <= n
  BY <1>4, <1>5, SmallerOf, SurveyAssumption
<1>7. Ranked(tiles) = [i \in 1 .. m |-> RankedRow(i, order[i], tiles[order[i]])]
  BY <1>2, <1>4, <1>5 DEF Ranked, RankedRows
<1>8. DOMAIN Ranked(tiles) = 1 .. m /\ Len(Ranked(tiles)) = m
  BY <1>6, <1>7
<1>9. \A i \in 1 .. m : /\ Ranked(tiles)[i] = RankedRow(i, order[i], tiles[order[i]])
                        /\ order[i] \in DeadZones(tiles)
  BY <1>4, <1>6, <1>7
<1> QED
  BY <1>1, <1>2, <1>3, <1>5, <1>6, <1>8, <1>9

LEMMA RankingHolds == SurveySound => RankingAgrees(TilesOf(built), PriorityAreas)
<1> SUFFICES ASSUME SurveySound PROVE RankingAgrees(TilesOf(built), PriorityAreas)
  OBVIOUS
<1>1. PICK tiles : tiles = TilesOf(built)
  OBVIOUS
<1>2. PICK order : order = WorstFirst(tiles)
  OBVIOUS
<1>3. PICK n : n = Cardinality(DeadZones(tiles))
  OBVIOUS
<1>4. PICK m : m = Min({RankedAtMost, n})
  OBVIOUS
<1>5. PICK areas : areas = Ranked(tiles)
  OBVIOUS
<1>6. Sound(built) /\ Compared(tiles)
  BY <1>1, TilesCompared DEF SurveySound
<1>7. /\ n \in Nat
      /\ \A i, j \in 1 .. n : i # j => order[i] # order[j]
      /\ \A i, j \in 1 .. n : i < j => ~Worse(tiles[order[j]], tiles[order[i]])
      /\ \A h \in DeadZones(tiles) : \E i \in 1 .. n : order[i] = h
  BY <1>2, <1>3, <1>6, WorstFirstIs
<1>8. /\ m \in Nat /\ m <= n /\ DOMAIN areas = 1 .. m /\ Len(areas) = m
      /\ \A i \in 1 .. m : areas[i] = RankedRow(i, order[i], tiles[order[i]])
                           /\ order[i] \in DeadZones(tiles)
  BY <1>1, <1>2, <1>3, <1>4, <1>5, <1>6, RankedIs
<1>9. \A i \in 1 .. m : areas[i].hex = order[i]
  BY <1>8 DEF RankedRow
<1>10. PICK I : I = 1 .. m
  OBVIOUS
<1>11. PICK ranked : ranked = {areas[i].hex : i \in DOMAIN areas}
  OBVIOUS
<1>12. ranked = {order[i] : i \in I}
  BY <1>8, <1>9, <1>10, <1>11
<1>13. Cardinality(ranked) = m
  <2>1. IsFiniteSet(I) /\ Cardinality(I) = m
    BY <1>8, <1>10, FS_Interval
  <2>2. \A i, j \in I : order[i] = order[j] => i = j
    BY <1>7, <1>8, <1>10
  <2> QED
    BY <1>12, <2>1, <2>2, ImageIs
<1>14. ranked \subseteq DeadZones(tiles)
  BY <1>8, <1>10, <1>12
<1>15. ASSUME NEW h \in DeadZones(tiles) \ ranked, NEW g \in ranked
       PROVE  ~Worse(tiles[h], tiles[g])
  <2>1. PICK j \in 1 .. n : order[j] = h
    BY <1>7
  <2>2. PICK i \in 1 .. m : order[i] = g
    BY <1>10, <1>12
  <2>3. j \notin 1 .. m
    BY <1>10, <1>12, <2>1
  <2>4. i \in 1 .. n /\ i < j
    BY <1>7, <1>8, <2>3
  <2> QED
    BY <1>7, <2>1, <2>2, <2>4
<1>16. PriorityAreas = areas
  BY <1>1, <1>5 DEF PriorityAreas
<1>17. RankingAgrees(tiles, areas)
  BY <1>8, <1>11, <1>13, <1>14, <1>15 DEF RankingAgrees
<1> QED
  BY <1>1, <1>16, <1>17

-----------------------------------------------------------------------------
(* The figures of the pages.                                                *)

\* The phones of an area, and those of the header.
LEMMA PhonesAre == SurveySound /\ Measured(built) # {} =>
    LET near == UNION {TakenBy(On(readings, h)) : h \in Measured(built)}
    IN  /\ Cardinality(near) \in Nat /\ Cardinality(TakenBy(readings)) \in Nat
        /\ Cardinality(near) >= 1 /\ Cardinality(near) <= Cardinality(TakenBy(readings))
<1> SUFFICES ASSUME SurveySound, Measured(built) # {},
                    NEW near, near = UNION {TakenBy(On(readings, h)) : h \in Measured(built)}
             PROVE  /\ Cardinality(near) \in Nat /\ Cardinality(TakenBy(readings)) \in Nat
                    /\ Cardinality(near) >= 1
                    /\ Cardinality(near) <= Cardinality(TakenBy(readings))
  OBVIOUS
<1>1. /\ Sound(built) /\ Sound(readings) /\ IsFiniteSet(DOMAIN readings)
      /\ DOMAIN built \subseteq DOMAIN readings
  BY DEF SurveySound, \sqsubseteq, Sound
<1>2. IsFiniteSet(TakenBy(readings))
  <2> DEFINE of == [j \in DOMAIN readings |-> j.handset]
  <2>1. TakenBy(readings) = {of[j] : j \in DOMAIN readings}
    BY DEF TakenBy
  <2> HIDE DEF of
  <2> QED
    BY <1>1, <2>1, ImageIs
<1>3. \A h : DOMAIN On(readings, h) = {k \in DOMAIN readings : k.hex = h}
  BY <1>1, OnIs
<1>4. near \subseteq TakenBy(readings)
  <2> SUFFICES ASSUME NEW d \in near PROVE d \in TakenBy(readings)
    OBVIOUS
  <2>1. PICK h \in Measured(built) : d \in TakenBy(On(readings, h))
    OBVIOUS
  <2>2. PICK k \in DOMAIN On(readings, h) : d = k.handset
    BY <2>1 DEF TakenBy
  <2>3. k \in DOMAIN readings
    BY <1>3, <2>2
  <2> QED
    BY <2>2, <2>3 DEF TakenBy
<1>5. near # {}
  <2>1. PICK k \in DOMAIN built : TRUE
    BY DEF Measured
  <2>2. k \in DOMAIN On(readings, k.hex) /\ k.hex \in Measured(built)
    BY <1>1, <1>3 DEF Measured
  <2>3. k.handset \in TakenBy(On(readings, k.hex))
    BY <2>2 DEF TakenBy
  <2> QED
    BY <2>2, <2>3
<1>6. IsFiniteSet(near) /\ Cardinality(near) <= Cardinality(TakenBy(readings))
  BY <1>2, <1>4, FS_Subset
<1>7. Cardinality(near) \in Nat /\ Cardinality(near) # 0 /\ Cardinality(TakenBy(readings)) \in Nat
  BY <1>2, <1>5, <1>6, FS_CardinalityType, FS_EmptySet
<1> QED
  BY <1>6, <1>7

\* Later readings are only more.
LEMMA ReadingsGrow == SurveySound => BagCardinality(built) <= BagCardinality(readings)
<1> SUFFICES ASSUME SurveySound PROVE BagCardinality(built) <= BagCardinality(readings)
  OBVIOUS
<1>1. PICK B, R : B = DOMAIN built /\ R = DOMAIN readings
  OBVIOUS
<1>2. /\ Sound(built) /\ Sound(readings) /\ B \in SUBSET R
      /\ \A k \in B : built[k] <= readings[k]
  BY <1>1 DEF SurveySound, \sqsubseteq
<1>3. IsFiniteSet(R) /\ IsFiniteSet(B)
  BY <1>1, <1>2 DEF Sound
<1>4. \A k \in R : readings[k] \in Nat
  BY <1>1, <1>2, SoundTotals
<1>5. \A k \in B : built[k] \in Nat /\ readings[k] \in Nat /\ built[k] <= readings[k]
  BY <1>1, <1>2, <1>4, SoundTotals
<1>6. Total(built, B) <= Total(readings, B)
  BY <1>3, <1>5, TotalGrows
<1>7. /\ Total(readings, B) \in Nat /\ Total(readings, R \ B) \in Nat
      /\ Total(readings, R) = Total(readings, B) + Total(readings, R \ B)
  BY <1>2, <1>3, <1>4, TotalInParts
<1>8. /\ BagCardinality(built) = Total(built, B) /\ BagCardinality(built) \in Nat
      /\ BagCardinality(readings) = Total(readings, R) /\ BagCardinality(readings) \in Nat
  BY <1>1, <1>2, SoundTotals
<1> QED
  BY <1>6, <1>7, <1>8

LEMMA PageHolds == SurveySound =>
    PageAgrees(Metrics(CoverageSummary), StatStrip(CoverageSummary), Overview(CoverageSummary),
               AreaCoverage, Len(PriorityAreas))
<1> SUFFICES ASSUME SurveySound
             PROVE  PageAgrees(Metrics(CoverageSummary), StatStrip(CoverageSummary),
                               Overview(CoverageSummary), AreaCoverage, Len(PriorityAreas))
  OBVIOUS
<1> DEFINE summary == CoverageSummary
           page == Overview(summary)
<1>1. PICK tiles : tiles = TilesOf(built)
  OBVIOUS
<1>2. /\ Sound(built) /\ Sound(readings) /\ Stated(tiles) /\ Compared(tiles)
      /\ DOMAIN tiles = Measured(built)
      /\ IsFiniteSet(Measured(built)) /\ Cardinality(Measured(built)) \in Nat
  BY <1>1, TilesAre, TilesCompared DEF SurveySound
<1>3. PICK byState \in [States -> Nat] : byState = ByState(tiles)
  BY <1>2, InStates
<1>4. PICK byAction \in [Actions -> Nat] : byAction = ByAction(byState)
  BY WorkIs
<1>5. SumFunction(byState) = Cardinality(Measured(built))
  BY <1>2, <1>3, InStates
<1>6. /\ summary.tiles = Cardinality(Measured(built)) /\ summary.byState = byState
      /\ summary.byAction = byAction
      /\ Metrics(summary).tiles = summary.tiles /\ StatStrip(summary).tiles = summary.tiles
      /\ Metrics(summary).measurements = BagCardinality(readings)
      /\ Metrics(summary).devices = Cardinality(TakenBy(readings))
      /\ Metrics(summary).noService = Counts(readings)["NO_CELL"]
  BY <1>1, <1>3, <1>4, <1>5 DEF CoverageSummary, SummaryOf, Metrics, StatStrip
<1>7. page.empty <=> Measured(built) = {}
  <2>1. (Cardinality(Measured(built)) = 0) <=> Measured(built) = {}
    BY <1>2, FS_EmptySet
  <2> QED
    BY <1>6, <2>1 DEF Overview
<1>8. PICK ranked : ranked = Len(PriorityAreas)
  OBVIOUS
<1>9. /\ ranked = Min({RankedAtMost, Cardinality(DeadZones(tiles))})
      /\ Cardinality(DeadZones(tiles)) = byAction["new_tower"] + byAction["upgrade"]
  BY <1>1, <1>2, <1>3, <1>4, <1>8, RankedIs, TilesCompared DEF PriorityAreas
<1>10. CASE Measured(built) = {}
  <2>1. DeadZones(tiles) = {}
    BY <1>2, <1>10 DEF DeadZones
  <2>2. ranked = 0
    <3>1. Cardinality(DeadZones(tiles)) = 0
      BY <2>1, FS_EmptySet
    <3>2. ranked = Min({RankedAtMost, 0}) /\ RankedAtMost \in Nat /\ 0 \in Nat
      BY <1>9, <3>1, SurveyAssumption
    <3>3. ranked \in Nat /\ ranked <= 0
      BY <3>2, SmallerOf
    <3> QED
      BY <3>3
  <2>3. tiles = <<>>
    <3>1. tiles = [h \in Measured(built) |-> Tile(On(built, h))]
      BY <1>1 DEF TilesOf
    <3> QED
      BY <1>10, <3>1
  <2>4. AreaCoverage = [measured |-> FALSE]
    BY <1>1, <2>3 DEF AreaCoverage, AreaCoverageOf, CoverageOf
  <2>5. ~AreaSummary(AreaCoverage).measured
    BY <2>4 DEF AreaSummary
  <2> HIDE DEF page, summary
  <2> QED
    BY <1>7, <1>8, <1>10, <2>2, <2>5 DEF PageAgrees, page, summary
<1>11. CASE Measured(built) # {}
  <2>1. PICK cards : cards = ActionCards(byAction)
    OBVIOUS
  <2>2. /\ ~page.empty /\ page.cards = cards /\ page.bar = StateBar(byState)
    BY <1>2, <1>6, <1>11, <2>1, FS_EmptySet DEF Overview
  <2>3. \A a \in Actions : cards[a].count = byAction[a]
    BY <2>1 DEF ActionCards
  <2>4. [a \in Actions |-> cards[a].count] = byAction
    BY <2>3
  <2>5. SumFunction([a \in Actions |-> cards[a].count]) = Cardinality(Measured(built))
    <3>1. SumFunction(byAction) = SumFunction(byState)
      BY <1>4, WorkIs
    <3> QED
      BY <1>5, <2>4, <3>1
  <2>6. PICK bar : bar = StateBar(byState)
    OBVIOUS
  <2>7. SumFunction([i \in DOMAIN bar |-> bar[i].count]) = Cardinality(Measured(built))
    BY <1>5, <2>6, BarIs
  <2>8. "new_tower" \in Actions /\ "upgrade" \in Actions
    BY DEF Actions
  <2>9. /\ cards["new_tower"].count = byAction["new_tower"]
        /\ cards["upgrade"].count = byAction["upgrade"]
    BY <2>3, <2>8
  <2>10. byAction["new_tower"] <= Counts(readings)["NO_CELL"]
    BY <1>1, <1>3, <1>4, WorkIs, NoServiceIsCounted
  <2>11. PICK area : area = AreaCoverage
    OBVIOUS
  <2>12. PICK near : near = UNION {TakenBy(On(readings, h)) : h \in Measured(built)}
    OBVIOUS
  <2>13. /\ area.byAction = byAction /\ area.unusable = Unusable(byState)
         /\ area.devices = Cardinality(near)
         /\ area.measurements = SumFunction([h \in DOMAIN tiles |-> tiles[h].measurements])
    <3>1. tiles # <<>>
      BY <1>2, <1>11
    <3> QED
      BY <1>1, <1>2, <1>3, <1>4, <2>11, <2>12, <3>1 DEF AreaCoverage, AreaCoverageOf, CoverageOf
  <2>14. area.measurements = BagCardinality(built)
    BY <1>1, <1>2, <2>13, TilesAre
  <2>15. area.measurements <= BagCardinality(readings)
    BY <2>14, ReadingsGrow
  <2>16. area.devices >= 1 /\ Cardinality(TakenBy(readings)) >= area.devices
    BY <1>11, <2>12, <2>13, PhonesAre
  <2>17. area.unusable <= byAction["new_tower"] + byAction["upgrade"]
    <3>1. /\ byAction["new_tower"] = byState["NO_CELL"]
          /\ byAction["upgrade"] =
               byState["CELLS_VISIBLE_UNREGISTERED"] + byState["REGISTERED_2G_3G"]
      BY <1>4, WorkIs
    <3>2. /\ byState["NO_CELL"] \in Nat /\ byState["CELLS_VISIBLE_UNREGISTERED"] \in Nat
          /\ byState["REGISTERED_2G_3G"] \in Nat
      BY StatesAre
    <3> QED
      BY <2>13, <3>1, <3>2 DEF Unusable
  <2>18. AreaAgrees(Metrics(summary), cards, area)
    BY <1>6, <2>4, <2>9, <2>13, <2>15, <2>16, <2>17 DEF AreaAgrees
  <2> HIDE DEF page, summary
  <2>19. /\ SumFunction([a \in Actions |-> page.cards[a].count]) = Metrics(summary).tiles
         /\ SumFunction([i \in DOMAIN page.bar |-> page.bar[i].count]) = StatStrip(summary).tiles
    BY <1>6, <2>2, <2>5, <2>6, <2>7
  <2>20. /\ ranked = Min({RankedAtMost,
                          page.cards["new_tower"].count + page.cards["upgrade"].count})
         /\ page.cards["new_tower"].count <= Metrics(summary).noService
         /\ AreaAgrees(Metrics(summary), page.cards, AreaCoverage)
    BY <1>6, <1>9, <2>2, <2>9, <2>10, <2>11, <2>18
  <2> QED
    BY <1>8, <2>2, <2>19, <2>20 DEF PageAgrees, page, summary
<1> QED
  BY <1>10, <1>11

LEMMA FiguresHold == SurveySound => FiguresAgree
BY RowsHold, OwnHold, FilterHolds, RankingHolds, PageHolds DEF FiguresAgree, FiguresAgreeWith

-----------------------------------------------------------------------------
(* The colours.                                                             *)

\* A state's colour beside its name is a line of the legend, whichever side
\* gave the colour.
LEMMA InTheLegend ==
  ASSUME NEW s \in States
  PROVE  /\ Swatch(StateColour[s], StateInfo(s).label) \in Key
         /\ Swatch(StateInfo(s).colour, StateInfo(s).label) \in Key
         /\ ActionLabel(InvestmentAction(s)) = WorkOf(StateInfo(s).remedy)
         /\ Colour(s) = StateColour[s]
<1>1. PICK i \in 1 .. 5 : LEGEND_ORDER[i] = s
  BY LegendIs
<1>0. PICK entry : entry = StateInfo(s)
  OBVIOUS
<1>2. PICK line : line = [colour |-> COLOUR_HEX[entry.colour], label |-> entry.label,
                          remedy |-> entry.remedy]
  OBVIOUS
<1>3. [colour |-> COLOUR_HEX[StateInfo(s).colour], label |-> StateInfo(s).label] \in Key
  <2>1. Legend(TRUE)[i] = line
    BY <1>0, <1>1, <1>2, LegendIs DEF Legend
  <2>2. [colour |-> line.colour, label |-> line.label] \in Key
    BY <2>1, LegendIs DEF Key
  <2>3. line.colour = COLOUR_HEX[entry.colour] /\ line.label = entry.label
    BY <1>2
  <2> QED
    BY <1>0, <2>2, <2>3
<1>4. \/ s = "NO_CELL" \/ s = "CELLS_VISIBLE_UNREGISTERED"
      \/ s = "REGISTERED_2G_3G" \/ s = "LTE_WEAK" \/ s = "LTE_GOOD"
  BY StatesAre
<1>5. StateInfo(s).colour = StateColour[s]
  BY <1>4 DEF StateInfo, Entry, StateColour
<1>6. ActionLabel(InvestmentAction(s)) = WorkOf(StateInfo(s).remedy)
  BY <1>4 DEF StateInfo, Entry, InvestmentAction, ActionLabel, WorkOf
<1>7. Colour(s) = StateColour[s]
  BY SurveyAssumption DEF Colour
<1> QED
  BY <1>3, <1>5, <1>6, <1>7 DEF Swatch

\* Tiles coloured by their state.
Coloured(tiles) ==
    \A t \in DOMAIN tiles :
        tiles[t].state \in States /\ tiles[t].colour = StateColour[tiles[t].state]

LEMMA TilesColoured ==
  ASSUME NEW rs, Sound(rs)
  PROVE  Coloured(TilesOf(rs)) /\ Coloured(OperatorTilesOf(rs))
<1>1. ASSUME NEW h \in DOMAIN TilesOf(rs)
      PROVE  /\ TilesOf(rs)[h].state \in States
             /\ TilesOf(rs)[h].colour = StateColour[TilesOf(rs)[h].state]
  <2>1. h \in Measured(rs) /\ TilesOf(rs)[h] = Tile(On(rs, h))
    BY TilesAre
  <2>2. PICK part : part = On(rs, h)
    OBVIOUS
  <2>3. Sound(part) /\ DOMAIN part # {}
    BY <2>1, <2>2, HexagonIs
  <2>4. Tile(part).state \in States /\ Tile(part).colour = StateColour[Tile(part).state]
    BY <2>3, TileIs
  <2> QED
    BY <2>1, <2>2, <2>4
<1>2. ASSUME NEW t \in DOMAIN OperatorTilesOf(rs)
      PROVE  /\ OperatorTilesOf(rs)[t].state \in States
             /\ OperatorTilesOf(rs)[t].colour = StateColour[OperatorTilesOf(rs)[t].state]
  <2>1. PICK part : Sound(part) /\ DOMAIN part # {} /\ OperatorTilesOf(rs)[t] = Tile(part)
    BY OperatorTilesAre
  <2>2. Tile(part).state \in States /\ Tile(part).colour = StateColour[Tile(part).state]
    BY <2>1, TileIs
  <2> QED
    BY <2>1, <2>2
<1> QED
  BY <1>1, <1>2 DEF Coloured

LEMMA ColoursHold == SurveySound => OneMeaningPerColour
<1> SUFFICES ASSUME SurveySound PROVE OneMeaningPerColour
  OBVIOUS
<1>1. PICK tiles : tiles = TilesOf(built)
  OBVIOUS
<1>2. PICK layers : layers = OperatorTilesOf(built)
  OBVIOUS
<1>3. /\ Sound(built) /\ Coloured(tiles) /\ Coloured(layers) /\ Stated(tiles)
      /\ DOMAIN tiles = Measured(built)
  BY <1>1, <1>2, TilesColoured, TilesAre DEF SurveySound
<1>4. \A t \in DOMAIN layers : TileInspector(OperatorFeature(layers[t])).head \in Key
  <2> SUFFICES ASSUME NEW t \in DOMAIN layers
               PROVE  TileInspector(OperatorFeature(layers[t])).head \in Key
    OBVIOUS
  <2>1. TileInspector(OperatorFeature(layers[t])).head
          = Swatch(layers[t].colour, StateInfo(layers[t].state).label)
    BY DEF TileInspector, OperatorFeature, Feature
  <2> QED
    BY <1>3, <2>1, InTheLegend DEF Coloured
<1>5. \A h \in DOMAIN tiles :
        {TileInspector(Feature(tiles[h])).head, PublicTileCard(PublicFeature(tiles[h])).head}
            \subseteq Key
  <2> SUFFICES ASSUME NEW h \in DOMAIN tiles
               PROVE  /\ TileInspector(Feature(tiles[h])).head \in Key
                      /\ PublicTileCard(PublicFeature(tiles[h])).head \in Key
    OBVIOUS
  <2>1. /\ TileInspector(Feature(tiles[h])).head
             = Swatch(tiles[h].colour, StateInfo(tiles[h].state).label)
        /\ PublicTileCard(PublicFeature(tiles[h])).head
             = Swatch(tiles[h].colour, StateInfo(tiles[h].state).label)
    BY DEF TileInspector, Feature, PublicTileCard, PublicFeature
  <2> QED
    BY <1>3, <2>1, InTheLegend DEF Coloured
<1>6. PICK page : page = Overview(CoverageSummary)
  OBVIOUS
<1>7. page.empty \/ \A i \in DOMAIN page.bar : page.bar[i].swatch \in Key
  <2>1. PICK byState : byState = CoverageSummary.byState
    OBVIOUS
  <2>2. page.empty \/ page.bar = StateBar(byState)
    BY <1>6, <2>1 DEF Overview
  <2>3. ASSUME NEW i \in DOMAIN StateBar(byState) PROVE StateBar(byState)[i].swatch \in Key
    <3>1. i \in 1 .. 5
      BY LegendIs DEF StateBar
    <3>2. PICK s \in States : s = LEGEND_ORDER[i]
      BY <3>1, LegendIs
    <3>3. StateBar(byState)[i].swatch = Swatch(StateInfo(s).colour, StateInfo(s).label)
      BY <3>2 DEF StateBar
    <3> QED
      BY <3>3, InTheLegend
  <2> QED
    BY <2>2, <2>3
<1>8. PICK area : area = AreaSummary(AreaCoverage)
  OBVIOUS
<1>9. area.measured => area.head \in Key
  <2>1. CASE tiles = <<>>
    <3>1. AreaCoverage = [measured |-> FALSE]
      BY <1>1, <2>1 DEF AreaCoverage, AreaCoverageOf, CoverageOf
    <3> QED
      BY <1>8, <3>1 DEF AreaSummary
  <2>2. CASE tiles # <<>>
    <3>1. DOMAIN tiles # {}
      <4>1. tiles = [h \in Measured(built) |-> Tile(On(built, h))]
        BY <1>1 DEF TilesOf
      <4> QED
        BY <1>3, <2>2, <4>1
    <3>2. PICK byState \in [States -> Nat] : byState = ByState(tiles)
      BY <1>3, InStates
    <3>3. SumFunction(byState) \in Nat /\ SumFunction(byState) # 0
      <4>1. SumFunction(byState) = Cardinality(DOMAIN tiles)
        BY <1>3, <3>2, InStates
      <4> QED
        BY <1>3, <3>1, <4>1, FS_CardinalityType, FS_EmptySet DEF Stated
    <3>4. PICK s \in States : s = SummaryState(byState)
      BY <3>3, MiddleIs DEF SummaryState
    <3>5. /\ AreaCoverage.measured /\ AreaCoverage.state = s /\ AreaCoverage.colour = Colour(s)
      BY <1>1, <2>2, <3>2, <3>4 DEF AreaCoverage, AreaCoverageOf, CoverageOf
    <3>6. area.head = Swatch(Colour(s), StateInfo(s).label)
      BY <1>8, <3>5 DEF AreaSummary
    <3> QED
      BY <3>6, InTheLegend
  <2> QED
    BY <2>1, <2>2
<1>10. PICK table : table = PriorityTable(PriorityAreas)
  OBVIOUS
<1>11. ASSUME NEW i \in DOMAIN table
       PROVE  /\ table[i].head \in Key
              /\ table[i].action = WorkOf(TileInspector(Feature(tiles[table[i].hex])).remedy)
  <2>1. PICK order : order = WorstFirst(tiles)
    OBVIOUS
  <2>2. PICK areas : areas = Ranked(tiles)
    OBVIOUS
  <2>3. DOMAIN table = DOMAIN areas
    BY <1>1, <1>10, <2>2 DEF PriorityTable, PriorityAreas
  <2>4. areas[i] = RankedRow(i, order[i], tiles[order[i]]) /\ order[i] \in DeadZones(tiles)
    BY <1>1, <1>3, <2>1, <2>2, <2>3, RankedIs
  <2>5. PICK h \in DOMAIN tiles : h = order[i]
    BY <2>4 DEF DeadZones
  <2>6. PICK s \in States : s = tiles[h].state
    BY <1>3 DEF Coloured
  <2>7. /\ areas[i].hex = h /\ areas[i].state = s /\ areas[i].colour = Colour(s)
        /\ areas[i].action = InvestmentAction(s)
    BY <2>4, <2>5, <2>6 DEF RankedRow
  <2>8. /\ table[i].hex = h /\ table[i].head = Swatch(Colour(s), StateInfo(s).label)
        /\ table[i].action = ActionLabel(InvestmentAction(s))
    BY <1>1, <1>10, <2>2, <2>3, <2>7 DEF PriorityTable, PriorityAreas
  <2>9. TileInspector(Feature(tiles[h])).remedy = StateInfo(s).remedy
    BY <2>6 DEF TileInspector, Feature
  <2> QED
    BY <2>8, <2>9, InTheLegend
<1>12. ColoursAgree(Key, tiles, layers, page, area, table)
  BY <1>4, <1>5, <1>7, <1>9, <1>11 DEF ColoursAgree
<1> QED
  BY <1>1, <1>2, <1>6, <1>8, <1>10, <1>12 DEF OneMeaningPerColour

-----------------------------------------------------------------------------
(* The survey as it is measured and rebuilt.                                *)

LEMMA InitSurvey == SurveyInit => SurveySound
<1> SUFFICES ASSUME SurveyInit PROVE SurveySound
  OBVIOUS
<1>1. PICK none : none = EmptyBag
  OBVIOUS
<1>2. DOMAIN none = {} /\ none \in [DOMAIN none -> {n \in Nat : n > 0}]
  BY <1>1 DEF EmptyBag, SetToBag
<1>3. Sound(none)
  BY <1>2, FS_EmptySet DEF Sound
<1>4. BagCardinality(none) = 0
  BY <1>2, BagCardinalityIs, TotalOfNone
<1>5. none \sqsubseteq none
  BY <1>2 DEF \sqsubseteq
<1> QED
  BY <1>1, <1>3, <1>4, <1>5, SurveyAssumption DEF SurveyInit, SurveySound

\* A reading more.
LEMMA OneReadingMore ==
  ASSUME NEW rs, Sound(rs), NEW r \in Kinds
  PROVE  LET more == rs (+) SetToBag({r})
         IN  /\ Sound(more) /\ rs \sqsubseteq more
             /\ BagCardinality(more) = BagCardinality(rs) + 1
<1>1. PICK D : D = DOMAIN rs
  OBVIOUS
<1>2. PICK more : more = rs (+) SetToBag({r})
  OBVIOUS
<1>3. /\ IsFiniteSet(D) /\ D \subseteq Kinds /\ rs \in [D -> {n \in Nat : n > 0}]
      /\ \A k \in D : rs[k] \in Nat /\ rs[k] > 0
  BY <1>1 DEF Sound
<1>4. more = [k \in D \cup {r} |-> (IF k \in D THEN rs[k] ELSE 0) + (IF k \in {r} THEN 1 ELSE 0)]
  <2>1. PICK one : one = SetToBag({r})
    OBVIOUS
  <2>2. DOMAIN one = {r} /\ one[r] = 1
    BY <2>1 DEF SetToBag
  <2>3. more = [k \in D \cup DOMAIN one |-> (IF k \in D THEN rs[k] ELSE 0)
                                              + (IF k \in DOMAIN one THEN one[k] ELSE 0)]
    BY <1>1, <1>2, <2>1 DEF (+)
  <2> QED
    BY <2>2, <2>3
<1>5. DOMAIN more = D \cup {r} /\ more[r] = (IF r \in D THEN rs[r] ELSE 0) + 1
  BY <1>4
<1>6. \A k \in D \ {r} : more[k] = rs[k]
  BY <1>3, <1>4
<1>7. \A k \in D \cup {r} : more[k] \in Nat /\ more[k] > 0
  BY <1>3, <1>5, <1>6
<1>8. more \in [DOMAIN more -> {n \in Nat : n > 0}]
  BY <1>4, <1>5, <1>7
<1>9. IsFiniteSet(D \cup {r})
  BY <1>3, FS_AddElement
<1>10. Sound(more)
  BY <1>3, <1>5, <1>8, <1>9 DEF Sound
<1>11. rs \sqsubseteq more
  <2>1. \A k \in D : rs[k] <= more[k]
    BY <1>3, <1>5, <1>6
  <2> QED
    BY <1>1, <1>5, <2>1 DEF \sqsubseteq
<1>12. PICK E : E = D \ {r}
  OBVIOUS
<1>13. E \in SUBSET D /\ IsFiniteSet(E) /\ (D \cup {r}) \ {r} = E
  BY <1>3, <1>12, FS_Subset
<1>14. Total(more, D \cup {r}) = more[r] + Total(more, E)
  <2>1. PICK whole : whole = D \cup {r}
    OBVIOUS
  <2>2. IsFiniteSet(whole) /\ (\A k \in whole : more[k] \in Nat) /\ r \in whole
    BY <1>7, <1>9, <2>1
  <2>3. Total(more, whole) = more[r] + Total(more, whole \ {r})
    BY <2>2, TotalWithout
  <2> QED
    BY <1>13, <2>1, <2>3
<1>15. Total(more, E) = Total(rs, E) /\ Total(rs, E) \in Nat
  <2>1. (\A k \in E : rs[k] \in Nat) /\ \A k \in E : more[k] = rs[k]
    BY <1>3, <1>6, <1>12
  <2> QED
    BY <1>13, <2>1, TotalAlike, TotalTyped
<1>16. Total(rs, D) = (IF r \in D THEN rs[r] ELSE 0) + Total(rs, E)
  <2>1. CASE r \in D
    <3>1. \A k \in D : rs[k] \in Nat
      BY <1>3
    <3>2. Total(rs, D) = rs[r] + Total(rs, D \ {r})
      BY <1>3, <2>1, <3>1, TotalWithout
    <3> QED
      BY <1>12, <2>1, <3>2
  <2>2. CASE r \notin D
    <3>1. E = D
      BY <1>12, <2>2
    <3> QED
      BY <1>15, <2>2, <3>1
  <2> QED
    BY <2>1, <2>2
<1>17. BagCardinality(more) = Total(more, D \cup {r}) /\ BagCardinality(rs) = Total(rs, D)
  BY <1>1, <1>5, BagCardinalityIs
<1>18. (IF r \in D THEN rs[r] ELSE 0) \in Nat
  BY <1>3
<1>19. BagCardinality(more) = BagCardinality(rs) + 1
  BY <1>5, <1>14, <1>15, <1>16, <1>17, <1>18
<1> QED
  BY <1>2, <1>10, <1>11, <1>19

LEMMA SurveyStep == SurveySound /\ [SurveyNext]_tables => SurveySound'
<1> SUFFICES ASSUME SurveySound, [SurveyNext]_tables PROVE SurveySound'
  OBVIOUS
<1>0. /\ Sound(readings) /\ Sound(built) /\ built \sqsubseteq readings
      /\ BagCardinality(readings) <= MaxReadings /\ BagCardinality(readings) \in Nat
  BY SoundTotals DEF SurveySound
<1>1. ASSUME NEW r \in Kinds, Measure(r) PROVE SurveySound'
  <2>1. PICK more : more = readings (+) SetToBag({r})
    OBVIOUS
  <2>2. readings' = more /\ built' = built /\ BagCardinality(readings) < MaxReadings
    BY <1>1, <2>1 DEF Measure
  <2>3. /\ Sound(more) /\ readings \sqsubseteq more
        /\ BagCardinality(more) = BagCardinality(readings) + 1
    BY <1>0, <2>1, OneReadingMore
  <2>4. built \sqsubseteq more
    <3>1. /\ \A k \in DOMAIN built : built[k] \in Nat
          /\ \A k \in DOMAIN readings : readings[k] \in Nat
          /\ \A k \in DOMAIN more : more[k] \in Nat
      BY <1>0, <2>3, SoundTotals
    <3> QED
      BY <1>0, <2>3, <3>1 DEF \sqsubseteq
  <2>5. BagCardinality(more) <= MaxReadings
    BY <1>0, <2>2, <2>3, SurveyAssumption
  <2> QED
    BY <1>0, <2>2, <2>3, <2>4, <2>5 DEF SurveySound
<1>2. CASE RebuildTiles
  <2>1. \A k \in DOMAIN readings : readings[k] \in Nat
    BY <1>0, SoundTotals
  <2>2. readings \sqsubseteq readings
    BY <2>1 DEF \sqsubseteq
  <2> QED
    BY <1>0, <1>2, <2>2 DEF RebuildTiles, SurveySound
<1>3. CASE UNCHANGED tables
  BY <1>3 DEF tables, SurveySound
<1> QED
  BY <1>1, <1>2, <1>3 DEF SurveyNext

LEMMA SurveyTypes == SurveySound => SurveyTypeOK
BY DEF SurveySound, Sound, SurveyTypeOK, IsABag

-----------------------------------------------------------------------------
(* The upload in the order of its readings.                                *)

LEMMA BeforeIs ==
  ASSUME NEW b \in Seq(Records), NEW i \in DOMAIN b, NEW j \in DOMAIN b, NEW k \in DOMAIN b
  PROVE  /\ Before(b, i, j) \in BOOLEAN /\ ~Before(b, i, i)
         /\ Before(b, i, j) /\ Before(b, j, k) => Before(b, i, k)
         /\ i # j => Before(b, i, j) \/ Before(b, j, i)
<1>1. \A n \in DOMAIN b : b[n].at \in Int /\ n \in Int
  <2>1. \A n \in DOMAIN b : b[n] \in Records
    OBVIOUS
  <2>2. \A r \in Records : r.at \in Int
    BY TrajectoryAssumption DEF Records
  <2> QED
    BY <2>1, <2>2
<1>2. /\ b[i].at \in Int /\ b[j].at \in Int /\ b[k].at \in Int
      /\ i \in Int /\ j \in Int /\ k \in Int
  BY <1>1
<1> QED
  BY <1>2 DEF Before

\* How many come before one tells its place.
Earlier(b, i) == {j \in DOMAIN b : Before(b, j, i)}
Rank(b) == [i \in DOMAIN b |-> Cardinality(Earlier(b, i))]

LEMMA RankIs ==
  ASSUME NEW b \in Seq(Records)
  PROVE  /\ Rank(b) \in [1 .. Len(b) -> 0 .. Len(b) - 1]
         /\ \A i, j \in 1 .. Len(b) : Before(b, i, j) <=> Rank(b)[i] < Rank(b)[j]
         /\ \A n \in 0 .. Len(b) - 1 : \E i \in 1 .. Len(b) : Rank(b)[i] = n
<1>0. PICK N \in Nat : N = Len(b)
  OBVIOUS
<1>1. PICK I : I = 1 .. N
  OBVIOUS
<1>2. DOMAIN b = I /\ IsFiniteSet(I) /\ Cardinality(I) = N
  <2>1. DOMAIN b = I
    BY <1>0, <1>1
  <2>2. IsFiniteSet(I)
    BY <1>1, FS_Interval
  <2>3. Cardinality(I) = N
    BY <1>1, FS_Interval
  <2> QED
    BY <2>1, <2>2, <2>3
<1>3. PICK rank : rank = Rank(b)
  OBVIOUS
<1>4. \A i \in I : rank[i] = Cardinality(Earlier(b, i)) /\ DOMAIN rank = I
  BY <1>2, <1>3 DEF Rank
<1>5. \A i \in I : IsFiniteSet(Earlier(b, i)) /\ Cardinality(Earlier(b, i)) \in Nat
  BY <1>2, FS_Subset, FS_CardinalityType DEF Earlier
<1>6. ASSUME NEW i \in I PROVE rank[i] \in 0 .. N - 1
  <2>1. Earlier(b, i) \subseteq I \ {i}
    BY <1>2, BeforeIs DEF Earlier
  <2>2. /\ IsFiniteSet(I \ {i}) /\ Cardinality(I \ {i}) \in Nat
        /\ Cardinality(I) = Cardinality(I \ {i}) + 1
    BY <1>2, OneLess
  <2>3. Cardinality(Earlier(b, i)) <= Cardinality(I \ {i})
    BY <2>1, <2>2, FS_Subset
  <2> QED
    BY <1>2, <1>4, <1>5, <2>2, <2>3
<1>7. ASSUME NEW i \in I, NEW j \in I, Before(b, i, j) PROVE rank[i] < rank[j]
  <2>1. Earlier(b, i) \subseteq Earlier(b, j) \ {i}
    BY <1>2, <1>7, BeforeIs DEF Earlier
  <2>2. i \in Earlier(b, j)
    BY <1>2, <1>7 DEF Earlier
  <2>3. /\ IsFiniteSet(Earlier(b, j) \ {i}) /\ Cardinality(Earlier(b, j) \ {i}) \in Nat
        /\ Cardinality(Earlier(b, j)) = Cardinality(Earlier(b, j) \ {i}) + 1
    BY <1>5, <2>2, OneLess
  <2>4. Cardinality(Earlier(b, i)) <= Cardinality(Earlier(b, j) \ {i})
    BY <2>1, <2>3, FS_Subset
  <2> QED
    BY <1>4, <1>5, <2>3, <2>4
<1>8. \A i, j \in I : Before(b, i, j) <=> rank[i] < rank[j]
  <2> SUFFICES ASSUME NEW i \in I, NEW j \in I, rank[i] < rank[j] PROVE Before(b, i, j)
    BY <1>7
  <2>1. i # j /\ rank[i] \in Int /\ rank[j] \in Int
    BY <1>6
  <2>2. ~Before(b, j, i)
    BY <1>7, <2>1
  <2> QED
    BY <1>2, <2>1, <2>2, BeforeIs
<1>9. \A n \in 0 .. N - 1 : \E i \in I : rank[i] = n
  <2> DEFINE R == {rank[i] : i \in I}
             J == 0 .. N - 1
  <2>1. \A i, j \in I : rank[i] = rank[j] => i = j
    <3> SUFFICES ASSUME NEW i \in I, NEW j \in I, i # j PROVE rank[i] # rank[j]
      OBVIOUS
    <3>1. Before(b, i, j) \/ Before(b, j, i)
      BY <1>2, BeforeIs
    <3>2. rank[i] \in Int /\ rank[j] \in Int
      BY <1>6
    <3> QED
      BY <1>7, <3>1, <3>2
  <2>2. R \subseteq J
    BY <1>6
  <2>3. IsFiniteSet(J) /\ Cardinality(J) = N
    BY FS_Interval
  <2> HIDE DEF J
  <2>6. IsFiniteSet(I)
    BY <1>2
  <2>7. Cardinality(R) = Cardinality(I)
    BY <2>1, <2>6, ImageIs
  <2>4. Cardinality(R) = N
    BY <1>2, <2>7
  <2>5. R = J
    BY <2>2, <2>3, <2>4, FS_Subset
  <2> QED
    BY <2>5 DEF J
<1>10. rank \in [I -> 0 .. N - 1]
  <2>1. rank = [i \in I |-> Cardinality(Earlier(b, i))]
    BY <1>2, <1>3 DEF Rank
  <2> QED
    BY <1>4, <1>6, <2>1
<1> QED
  BY <1>0, <1>1, <1>3, <1>8, <1>9, <1>10

LEMMA InOrderIs ==
  ASSUME NEW b \in Seq(Records)
  PROVE  LET order == InOrder(b)
         IN  /\ DOMAIN order = 1 .. Len(b) /\ \A n \in 1 .. Len(b) : order[n] \in 1 .. Len(b)
             /\ \A m, n \in 1 .. Len(b) : Before(b, order[m], order[n]) <=> m < n
             /\ \A i \in 1 .. Len(b) : \E n \in 1 .. Len(b) : order[n] = i
<1>0. PICK N \in Nat : N = Len(b)
  OBVIOUS
<1>1. PICK rank : rank = Rank(b)
  OBVIOUS
<1>2. /\ rank \in [1 .. N -> 0 .. N - 1]
      /\ \A i, j \in 1 .. N : Before(b, i, j) <=> rank[i] < rank[j]
      /\ \A n \in 0 .. N - 1 : \E i \in 1 .. N : rank[i] = n
  BY <1>0, <1>1, RankIs
<1>3. PICK order : order = InOrder(b)
  OBVIOUS
<1>4. \A n \in 1 .. N : order[n] = CHOOSE i \in 1 .. N : rank[i] = n - 1
  <2>1. DOMAIN b = 1 .. N
    BY <1>0
  <2>2. \A n \in 1 .. N :
          order[n] = CHOOSE i \in 1 .. N : Cardinality({j \in 1 .. N : Before(b, j, i)}) = n - 1
    BY <1>3, <2>1 DEF InOrder
  <2>3. \A i \in 1 .. N : rank[i] = Cardinality({j \in 1 .. N : Before(b, j, i)})
    BY <1>1, <2>1 DEF Rank, Earlier
  <2> QED
    BY <2>2, <2>3, Zenon
<1>5. \A n \in 1 .. N : order[n] \in 1 .. N /\ rank[order[n]] = n - 1
  <2> SUFFICES ASSUME NEW n \in 1 .. N PROVE order[n] \in 1 .. N /\ rank[order[n]] = n - 1
    OBVIOUS
  <2>1. n - 1 \in 0 .. N - 1
    OBVIOUS
  <2>2. \E i \in 1 .. N : rank[i] = n - 1
    BY <1>2, <2>1
  <2> QED
    BY <1>4, <2>2
<1>6. DOMAIN order = 1 .. N
  BY <1>0, <1>3 DEF InOrder
<1>7. ASSUME NEW m \in 1 .. N, NEW n \in 1 .. N PROVE Before(b, order[m], order[n]) <=> m < n
  <2>1. PICK i, j \in 1 .. N : i = order[m] /\ j = order[n] /\ rank[i] = m - 1 /\ rank[j] = n - 1
    <3>1. order[m] \in 1 .. N /\ rank[order[m]] = m - 1
      BY <1>5
    <3>2. order[n] \in 1 .. N /\ rank[order[n]] = n - 1
      BY <1>5
    <3> QED
      BY <3>1, <3>2
  <2>2. Before(b, i, j) <=> rank[i] < rank[j]
    BY <1>2
  <2>3. (rank[i] < rank[j]) <=> m < n
    BY <2>1
  <2> QED
    BY <2>1, <2>2, <2>3
<1>8. ASSUME NEW i \in 1 .. N PROVE \E n \in 1 .. N : order[n] = i
  <2>1. rank[i] \in 0 .. N - 1
    BY <1>2
  <2>2. rank[i] + 1 \in 1 .. N
    BY <2>1
  <2>6. PICK n \in 1 .. N : n = rank[i] + 1
    BY <2>2
  <2>3. PICK j \in 1 .. N : j = order[n] /\ rank[j] = rank[i]
    <3>1. order[n] \in 1 .. N /\ rank[order[n]] = n - 1
      BY <1>5
    <3>2. n - 1 = rank[i]
      BY <2>1, <2>6
    <3> QED
      BY <3>1, <3>2
  <2>4. ~Before(b, i, j) /\ ~Before(b, j, i)
    BY <1>2, <2>1, <2>3
  <2>5. i = j
    <3>1. i \in DOMAIN b /\ j \in DOMAIN b
      BY <1>0
    <3> QED
      BY <2>4, <3>1, BeforeIs
  <2> QED
    BY <2>3, <2>5
<1> QED
  BY <1>0, <1>3, <1>5, <1>6, <1>7, <1>8

Unjudged == [previous |-> 0, rejected |-> {}]

\* One turn of the loop over the readings.
Judged(b, acc, i) ==
    IF acc.previous = 0 \/ Feasible(b[acc.previous], b[i])
    THEN [acc EXCEPT !.previous = i]
    ELSE [acc EXCEPT !.rejected = @ \cup {i}]

LEMMA TheLoopIs ==
  ASSUME NEW b
  PROVE  LET order == InOrder(b)
             F == CHOOSE f : f = [s \in SUBSET DOMAIN order |->
                                    IF s = {} THEN Unjudged
                                    ELSE Judged(b, f[s \ {Max(s)}], order[Max(s)])]
         IN  CheckTrajectory(b) = F[DOMAIN order].rejected
BY Zenon DEF CheckTrajectory, FoldLeft, MapThenFoldSet, Judged, Unjudged

\* A loop over 1 .. N takes the numbers in turn.
LEMMA InTurns ==
  ASSUME NEW n \in Nat
  PROVE  /\ Max(1 .. n + 1) = n + 1 /\ (1 .. n + 1) \ {Max(1 .. n + 1)} = 1 .. n
         /\ 1 .. n + 1 # {} /\ 1 .. 0 = {}
<1>1. PICK I : I = 1 .. n + 1
  OBVIOUS
<1>2. I \subseteq Nat /\ I # {} /\ n + 1 \in Nat /\ \A t \in I : t <= n + 1
  BY <1>1
<1>3. Max(I) \in I /\ \A t \in I : t <= Max(I)
  BY <1>2, GreatestOf
<1>4. Max(I) = n + 1
  <2>1. n + 1 \in I
    BY <1>1
  <2> QED
    BY <1>1, <1>3, <2>1
<1>5. I \ {Max(I)} = 1 .. n
  BY <1>1, <1>4
<1> QED
  BY <1>1, <1>4, <1>5

\* Of the first n, in order, K are kept: exactly those that fit the one kept
\* last before them.
NextTo(K, j, m) == j < m /\ ~\E k \in K : j < k /\ k < m
Follows(fit, K, n) ==
    \A m \in 1 .. n : m \in K <=> \A j \in K : NextTo(K, j, m) => <<j, m>> \in fit

\* There are never two such sets.
LEMMA OneFollows ==
  ASSUME NEW fit, NEW n \in Nat, NEW K \in SUBSET (1 .. n), NEW L \in SUBSET (1 .. n),
         Follows(fit, K, n), Follows(fit, L, n)
  PROVE  K = L
<1> DEFINE T == {t \in 0 .. n : \A m \in 1 .. t : m \in K <=> m \in L}
<1>1. 0 \in T
  OBVIOUS
<1>2. ASSUME NEW t \in 0 .. n - 1, t \in T PROVE t + 1 \in T
  <2>1. \A m \in 1 .. t : m \in K <=> m \in L
    BY <1>2
  <2>2. \A j : NextTo(K, j, t + 1) /\ j \in K <=> NextTo(L, j, t + 1) /\ j \in L
    <3>1. \A j \in 1 .. n : j < t + 1 => j \in 1 .. t
      OBVIOUS
    <3>2. \A j \in 1 .. n : j < t + 1 => (j \in K <=> j \in L)
      BY <2>1, <3>1
    <3> QED
      BY <3>2 DEF NextTo
  <2>3. t + 1 \in 1 .. n
    OBVIOUS
  <2>4. t + 1 \in K <=> t + 1 \in L
    <3>1. t + 1 \in K <=> \A j \in K : NextTo(K, j, t + 1) => <<j, t + 1>> \in fit
      BY <2>3 DEF Follows
    <3>2. t + 1 \in L <=> \A j \in L : NextTo(L, j, t + 1) => <<j, t + 1>> \in fit
      BY <2>3 DEF Follows
    <3> QED
      BY <2>2, <3>1, <3>2
  <2>5. \A m \in 1 .. t + 1 : m = t + 1 \/ m \in 1 .. t
    OBVIOUS
  <2> QED
    BY <2>1, <2>3, <2>4, <2>5
<1> HIDE DEF T
<1>3. n \in T
  BY <1>1, <1>2, TurnByTurn
<1> QED
  BY <1>3 DEF T

\* One more is judged against the last that was kept.
LEMMA OneMoreFollows ==
  ASSUME NEW fit, NEW n \in Nat, NEW K \in SUBSET (1 .. n), Follows(fit, K, n),
         NEW p, K = {} \/ (p \in K /\ \A k \in K : k <= p),
         NEW L, L = IF K = {} \/ <<p, n + 1>> \in fit THEN K \cup {n + 1} ELSE K
  PROVE  Follows(fit, L, n + 1)
<1>1. \A m \in 1 .. n + 1 : m = n + 1 \/ m \in 1 .. n
  OBVIOUS
<1>2. \A k \in K : k \in 1 .. n /\ k \in Int /\ k < n + 1
  OBVIOUS
<1>3. L \subseteq K \cup {n + 1} /\ K \subseteq L
  OBVIOUS
<1>4. ASSUME NEW m \in 1 .. n
      PROVE  /\ m \in L <=> m \in K
             /\ \A j : j \in L /\ NextTo(L, j, m) <=> j \in K /\ NextTo(K, j, m)
  <2>1. m \in Int /\ m < n + 1 /\ m # n + 1
    OBVIOUS
  <2>2. \A j \in L : j < m => j \in K
    BY <1>3, <2>1
  <2>3. \A k \in L : k < m => k \in K
    BY <2>2
  <2> QED
    BY <1>3, <2>1, <2>2 DEF NextTo
<1>5. \A m \in 1 .. n : m \in L <=> \A j \in L : NextTo(L, j, m) => <<j, m>> \in fit
  BY <1>4 DEF Follows
<1>6. n + 1 \in L <=> \A j \in L : NextTo(L, j, n + 1) => <<j, n + 1>> \in fit
  <2>1. CASE K = {}
    BY <2>1 DEF NextTo
  <2>2. CASE K # {}
    <3>1. p \in K /\ \A k \in K : k <= p
      BY <2>2
    <3>2. \A j \in L : NextTo(L, j, n + 1) <=> j = p
      <4>1. p \in L /\ p < n + 1
        BY <1>2, <1>3, <3>1
      <4>2. NextTo(L, p, n + 1)
        <5>1. \A k \in L : p < k => k = n + 1
          BY <1>2, <1>3, <3>1
        <5> QED
          BY <4>1, <5>1 DEF NextTo
      <4>3. ASSUME NEW j \in L, NextTo(L, j, n + 1) PROVE j = p
        <5>1. j < n + 1 /\ ~(j < p)
          BY <4>1, <4>3 DEF NextTo
        <5>2. j \in K
          BY <1>3, <5>1
        <5> QED
          BY <1>2, <3>1, <5>1, <5>2
      <4> QED
        BY <4>2, <4>3
    <3>3. n + 1 \notin K
      OBVIOUS
    <3>4. p \in L
      BY <1>3, <3>1
    <3>5. n + 1 \in L <=> <<p, n + 1>> \in fit
      BY <2>2, <3>3
    <3> QED
      BY <3>2, <3>4, <3>5
  <2> QED
    BY <2>1, <2>2
<1> QED
  BY <1>1, <1>5, <1>6 DEF Follows

\* What each turn of check_trajectory's loop leaves.
Judgings(b) ==
    LET N == Len(b)
    IN  {C \in [0 .. N -> [previous : 0 .. N, rejected : SUBSET (1 .. N)]] :
           /\ C[0] = Unjudged /\ CheckTrajectory(b) = C[N].rejected
           /\ \A n \in 0 .. N - 1 : C[n + 1] = Judged(b, C[n], InOrder(b)[n + 1])}

LEMMA JudgedIs ==
  ASSUME NEW N \in Nat, NEW acc \in [previous : 0 .. N, rejected : SUBSET (1 .. N)],
         NEW b, NEW i \in 1 .. N
  PROVE  Judged(b, acc, i) \in [previous : 0 .. N, rejected : SUBSET (1 .. N)]
BY DEF Judged

LEMMA AJudging ==
  ASSUME NEW b \in Seq(Records)
  PROVE  Judgings(b) # {}
<1>1. PICK N \in Nat : N = Len(b)
  OBVIOUS
<1>2. PICK order : order = InOrder(b)
  OBVIOUS
<1>3. DOMAIN order = 1 .. N /\ \A n \in 1 .. N : order[n] \in 1 .. N
  BY <1>1, <1>2, InOrderIs
<1> DEFINE S == 1 .. N
           W == [previous : 0 .. N, rejected : SUBSET (1 .. N)]
           pick == [s \in SUBSET S |-> Max(s)]
           op == [x \in S \X W |-> Judged(b, x[2], order[x[1]])]
           Loop(f) == f = [s \in SUBSET S |-> IF s = {} THEN Unjudged
                                              ELSE Judged(b, f[s \ {Max(s)}], order[Max(s)])]
           F == CHOOSE f : Loop(f)
<1>4. IsFiniteSet(S)
  BY FS_Interval
<1>5. ASSUME NEW s \in SUBSET S, s # {} PROVE pick[s] \in s /\ Max(s) \in s
  <2>1. s \subseteq Nat /\ \A t \in s : t <= N
    OBVIOUS
  <2>2. Max(s) \in s
    BY <1>5, <2>1, GreatestOf
  <2> QED
    BY <2>2
<1>6. Unjudged \in W
  BY DEF Unjudged
<1>7. op \in [S \X W -> W]
  <2> SUFFICES ASSUME NEW i \in S, NEW acc \in W PROVE Judged(b, acc, order[i]) \in W
    OBVIOUS
  <2> QED
    BY <1>3, JudgedIs
<1>8. \A i \in S, acc \in W : op[<<i, acc>>] = Judged(b, acc, order[i])
  OBVIOUS
<1>9. \A s \in SUBSET S : pick[s] = Max(s)
  OBVIOUS
<1>10. CheckTrajectory(b) = F[S].rejected
  BY <1>2, <1>3, TheLoopIs
<1> HIDE DEF W, S, pick, op, F
<1>11. PICK G \in Gatherings(S, W, Unjudged, pick, op) : TRUE
  <2>1. \A s \in (SUBSET S) \ {{}} : pick[s] \in s
    BY <1>5
  <2> QED
    BY <1>4, <1>6, <1>7, <2>1, AGathering
<1>12. /\ G \in [SUBSET S -> W] /\ G[{}] = Unjudged
       /\ \A s \in SUBSET S : s # {} => G[s] = Judged(b, G[s \ {Max(s)}], order[Max(s)])
  <2>1. /\ G \in [SUBSET S -> W] /\ G[{}] = Unjudged
        /\ \A s \in (SUBSET S) \ {{}} : G[s] = op[<<pick[s], G[s \ {pick[s]}]>>]
    BY <1>11 DEF Gatherings
  <2>2. ASSUME NEW s \in SUBSET S, s # {}
        PROVE  G[s] = Judged(b, G[s \ {Max(s)}], order[Max(s)])
    <3>1. Max(s) \in S /\ G[s \ {Max(s)}] \in W
      BY <1>5, <2>1, <2>2
    <3>2. G[s] = op[<<Max(s), G[s \ {Max(s)}]>>]
      BY <1>9, <2>1, <2>2
    <3> QED
      BY <1>8, <3>1, <3>2
  <2> QED
    BY <2>1, <2>2
<1>13. Loop(G)
  <2> DEFINE Turn(s) == IF s = {} THEN Unjudged
                        ELSE Judged(b, G[s \ {Max(s)}], order[Max(s)])
  <2>1. \A s \in SUBSET S : G[s] = Turn(s)
    BY <1>12
  <2> HIDE DEF Turn
  <2>2. G = [s \in SUBSET S |-> Turn(s)]
    BY <1>12, <2>1
  <2> QED
    BY <2>2 DEF Turn
<1>14. Loop(F)
  BY <1>13 DEF F
<1> HIDE DEF Loop
<1> DEFINE C == [n \in 0 .. N |-> F[1 .. n]]
<1>15. C[0] = Unjudged
  <2>1. 1 .. 0 = {} /\ 0 \in 0 .. N /\ {} \in SUBSET S
    OBVIOUS
  <2>2. F[{}] = Unjudged
    BY <1>14, <2>1 DEF Loop
  <2> QED
    BY <2>1, <2>2
<1>16. ASSUME NEW n \in 0 .. N - 1 PROVE C[n + 1] = Judged(b, C[n], order[n + 1])
  <2>1. n \in Nat /\ n \in 0 .. N /\ n + 1 \in 0 .. N
    OBVIOUS
  <2>2. PICK s : s = 1 .. n + 1
    OBVIOUS
  <2>3. s \in SUBSET S /\ s # {} /\ Max(s) = n + 1 /\ s \ {Max(s)} = 1 .. n
    <3>1. s \in SUBSET S
      BY <2>2 DEF S
    <3> QED
      BY <2>1, <2>2, <3>1, InTurns
  <2>4. F[s] = Judged(b, F[s \ {Max(s)}], order[Max(s)])
    BY <1>14, <2>3 DEF Loop
  <2>5. C[n + 1] = F[s] /\ C[n] = F[1 .. n]
    BY <2>1, <2>2
  <2> QED
    BY <2>3, <2>4, <2>5
<1>17. C[N].rejected = CheckTrajectory(b)
  BY <1>10 DEF S
<1> DEFINE T == {n \in 0 .. N : C[n] \in W}
<1>18. \A n \in 0 .. N : C[n] \in W
  <2>1. 0 \in T
    BY <1>6, <1>15
  <2>2. ASSUME NEW n \in 0 .. N - 1, n \in T PROVE n + 1 \in T
    <3>1. n + 1 \in 1 .. N /\ n + 1 \in 0 .. N /\ C[n] \in W
      BY <2>2
    <3>2. order[n + 1] \in 1 .. N
      BY <1>3, <3>1
    <3>3. Judged(b, C[n], order[n + 1]) \in W
      BY <3>1, <3>2, JudgedIs DEF W
    <3> QED
      BY <1>16, <3>1, <3>3
  <2> HIDE DEF T
  <2>3. \A n \in 0 .. N : n \in T
    BY <2>1, <2>2, TurnByTurn
  <2> QED
    BY <2>3 DEF T
<1>19. C \in [0 .. N -> W]
  BY <1>18
<1> HIDE DEF C
<1>20. C \in Judgings(b)
  BY <1>1, <1>2, <1>15, <1>16, <1>17, <1>19 DEF Judgings, W
<1> QED
  BY <1>20

\* The loop keeps by the rule, with the record kept last as its reference.
LEMMA TheLoopKeeps ==
  ASSUME NEW b \in Seq(Records)
  PROVE  LET N == Len(b)
             order == InOrder(b)
             fit == {q \in (1 .. N) \X (1 .. N) : Feasible(b[order[q[1]]], b[order[q[2]]])}
         IN  Follows(fit, {m \in 1 .. N : order[m] \notin CheckTrajectory(b)}, N)
<1>1. PICK N \in Nat : N = Len(b)
  OBVIOUS
<1>2. PICK order : order = InOrder(b)
  OBVIOUS
<1>3. /\ \A n \in 1 .. N : order[n] \in 1 .. N
      /\ \A m, n \in 1 .. N : order[m] = order[n] => m = n
  <2>1. /\ \A n \in 1 .. N : order[n] \in 1 .. N
        /\ \A m, n \in 1 .. N : Before(b, order[m], order[n]) <=> m < n
    BY <1>1, <1>2, InOrderIs
  <2>2. ASSUME NEW m \in 1 .. N, NEW n \in 1 .. N, order[m] = order[n] PROVE m = n
    <3>1. order[m] \in DOMAIN b
      BY <1>1, <2>1
    <3>2. ~Before(b, order[m], order[n]) /\ ~Before(b, order[n], order[m])
      BY <2>2, <3>1, BeforeIs
    <3> QED
      BY <2>1, <3>2
  <2> QED
    BY <2>1, <2>2
<1>4. PICK fit : fit = {q \in (1 .. N) \X (1 .. N) : Feasible(b[order[q[1]]], b[order[q[2]]])}
  OBVIOUS
<1>5. \A j, m \in 1 .. N : <<j, m>> \in fit <=> Feasible(b[order[j]], b[order[m]])
  BY <1>4
<1>6. PICK C \in Judgings(b) : TRUE
  BY AJudging
<1>7. /\ C \in [0 .. N -> [previous : 0 .. N, rejected : SUBSET (1 .. N)]]
      /\ C[0] = Unjudged /\ CheckTrajectory(b) = C[N].rejected
      /\ \A n \in 0 .. N - 1 : C[n + 1] = Judged(b, C[n], order[n + 1])
  BY <1>1, <1>2, <1>6 DEF Judgings
<1> DEFINE Kept(n) == {m \in 1 .. n : order[m] \notin C[n].rejected}
           T == {n \in 0 .. N :
                   /\ C[n].rejected \subseteq {order[m] : m \in 1 .. n}
                   /\ Follows(fit, Kept(n), n)
                   /\ IF Kept(n) = {} THEN C[n].previous = 0
                      ELSE \E p \in Kept(n) : C[n].previous = order[p] /\ \A k \in Kept(n) : k <= p}
<1>8. 0 \in T
  <2>1. C[0].rejected = {} /\ C[0].previous = 0
    BY <1>7 DEF Unjudged
  <2>2. Kept(0) = {} /\ Follows(fit, Kept(0), 0)
    BY DEF Follows
  <2> QED
    BY <2>1, <2>2
<1>9. ASSUME NEW n \in 0 .. N - 1, n \in T PROVE n + 1 \in T
  <2>1. PICK was : was = C[n]
    OBVIOUS
  <2>2. PICK now : now = C[n + 1]
    OBVIOUS
  <2>3. /\ n + 1 \in 1 .. N /\ n + 1 \in 0 .. N /\ n \in 0 .. N /\ n \in Nat
        /\ \A m \in 1 .. n : m \in 1 .. N /\ m # n + 1
        /\ \A m \in 1 .. n + 1 : m = n + 1 \/ m \in 1 .. n
    OBVIOUS
  <2>4. /\ was \in [previous : 0 .. N, rejected : SUBSET (1 .. N)]
        /\ now = Judged(b, was, order[n + 1])
    BY <1>7, <2>1, <2>2, <2>3
  <2>5. PICK K : K = Kept(n)
    OBVIOUS
  <2>6. PICK L : L = Kept(n + 1)
    OBVIOUS
  <2>7. /\ K = {m \in 1 .. n : order[m] \notin was.rejected} /\ Follows(fit, K, n)
        /\ was.rejected \subseteq {order[m] : m \in 1 .. n}
        /\ IF K = {} THEN was.previous = 0
           ELSE \E p \in K : was.previous = order[p] /\ \A k \in K : k <= p
    BY <1>9, <2>1, <2>5
  <2>8. L = {m \in 1 .. n + 1 : order[m] \notin now.rejected}
    BY <2>2, <2>6
  <2> HIDE DEF Kept
  <2>9. order[n + 1] \notin was.rejected /\ \A m \in 1 .. n : order[m] # order[n + 1]
    BY <1>3, <2>3, <2>7
  <2>10. PICK p : IF K = {} THEN was.previous = 0
                  ELSE p \in K /\ was.previous = order[p] /\ \A k \in K : k <= p
    BY <2>7
  <2>11. CASE K = {} \/ <<p, n + 1>> \in fit
    <3>1. was.previous = 0 \/ Feasible(b[was.previous], b[order[n + 1]])
      <4>1. CASE K = {}
        BY <2>10, <4>1
      <4>2. CASE K # {}
        <5>1. p \in 1 .. N /\ was.previous = order[p] /\ <<p, n + 1>> \in fit
          BY <2>3, <2>7, <2>10, <2>11, <4>2
        <5> QED
          BY <1>5, <2>3, <5>1
      <4> QED
        BY <4>1, <4>2
    <3>2. now.previous = order[n + 1] /\ now.rejected = was.rejected
      BY <2>4, <3>1 DEF Judged
    <3>3. L = K \cup {n + 1}
      BY <2>3, <2>7, <2>8, <2>9, <3>2
    <3>4. Follows(fit, L, n + 1)
      <4>1. K \in SUBSET (1 .. n)
        BY <2>7
      <4>2. K = {} \/ (p \in K /\ \A k \in K : k <= p)
        BY <2>10
      <4>3. L = IF K = {} \/ <<p, n + 1>> \in fit THEN K \cup {n + 1} ELSE K
        BY <2>11, <3>3
      <4> QED
        BY <2>3, <2>7, <4>1, <4>2, <4>3, OneMoreFollows
    <3>5. n + 1 \in L /\ \A k \in L : k <= n + 1
      BY <2>7, <3>3
    <3>6. now.rejected \subseteq {order[m] : m \in 1 .. n + 1}
      BY <2>7, <3>2
    <3> QED
      BY <2>2, <2>3, <2>6, <3>2, <3>4, <3>5, <3>6
  <2>12. CASE ~(K = {} \/ <<p, n + 1>> \in fit)
    <3>1. p \in 1 .. N /\ was.previous = order[p] /\ <<p, n + 1>> \notin fit /\ K # {}
      BY <2>3, <2>7, <2>10, <2>12
    <3>2. order[p] # 0 /\ ~Feasible(b[order[p]], b[order[n + 1]])
      BY <1>3, <1>5, <2>3, <3>1
    <3>3. now.previous = was.previous /\ now.rejected = was.rejected \cup {order[n + 1]}
      BY <2>4, <3>1, <3>2 DEF Judged
    <3>4. L = K
      BY <2>3, <2>7, <2>8, <2>9, <3>3
    <3>5. Follows(fit, L, n + 1)
      <4>1. K \in SUBSET (1 .. n)
        BY <2>7
      <4>2. K = {} \/ (p \in K /\ \A k \in K : k <= p)
        BY <2>10
      <4>3. L = IF K = {} \/ <<p, n + 1>> \in fit THEN K \cup {n + 1} ELSE K
        BY <2>12, <3>4
      <4> QED
        BY <2>3, <2>7, <4>1, <4>2, <4>3, OneMoreFollows
    <3>6. now.rejected \subseteq {order[m] : m \in 1 .. n + 1}
      BY <2>3, <2>7, <3>3
    <3>7. p \in L /\ now.previous = order[p] /\ \A k \in L : k <= p
      BY <2>10, <3>1, <3>3, <3>4
    <3> QED
      BY <2>2, <2>3, <2>6, <3>5, <3>6, <3>7
  <2> QED
    BY <2>11, <2>12
<1>10. N \in T
  <2> HIDE DEF T
  <2>1. \A n \in 0 .. N - 1 : n \in T => n + 1 \in T
    BY <1>9
  <2>2. \A n \in 0 .. N : n \in T
    BY <1>8, <2>1, TurnByTurn
  <2> QED
    BY <2>2
<1>11. Follows(fit, {m \in 1 .. N : order[m] \notin CheckTrajectory(b)}, N)
  BY <1>7, <1>10 DEF T
<1> QED
  BY <1>1, <1>2, <1>4, <1>11

\* The rule of the records is that of their places.
LEMMA RuleByPlace ==
  ASSUME NEW b \in Seq(Records), NEW S \in SUBSET (1 .. Len(b))
  PROVE  LET N == Len(b)
             order == InOrder(b)
             fit == {q \in (1 .. N) \X (1 .. N) : Feasible(b[order[q[1]]], b[order[q[2]]])}
         IN  KeptByRule(b, S) <=> Follows(fit, {m \in 1 .. N : order[m] \in S}, N)
<1>1. PICK N \in Nat : N = Len(b)
  OBVIOUS
<1>2. PICK order : order = InOrder(b)
  OBVIOUS
<1>3. /\ \A n \in 1 .. N : order[n] \in 1 .. N
      /\ \A m, n \in 1 .. N : Before(b, order[m], order[n]) <=> m < n
      /\ \A i \in 1 .. N : \E n \in 1 .. N : order[n] = i
  BY <1>1, <1>2, InOrderIs
<1>4. PICK fit : fit = {q \in (1 .. N) \X (1 .. N) : Feasible(b[order[q[1]]], b[order[q[2]]])}
  OBVIOUS
<1>5. \A j, m \in 1 .. N : <<j, m>> \in fit <=> Feasible(b[order[j]], b[order[m]])
  BY <1>4
<1>6. PICK K : K = {m \in 1 .. N : order[m] \in S}
  OBVIOUS
<1> DEFINE Final(j, i) == Before(b, j, i) /\ ~\E k \in S : Before(b, j, k) /\ Before(b, k, i)
           Suits(i) == \A j \in S : Final(j, i) => Feasible(b[j], b[i])
           FitsAt(m) == \A j \in K : NextTo(K, j, m) => <<j, m>> \in fit
<1>7. DOMAIN b = 1 .. N
  BY <1>1
<1>8. KeptByRule(b, S) <=> \A i \in 1 .. N : i \in S <=> Suits(i)
  BY <1>7 DEF KeptByRule
<1>9. Follows(fit, K, N) <=> \A m \in 1 .. N : m \in K <=> FitsAt(m)
  BY DEF Follows
<1>10. ASSUME NEW m \in 1 .. N PROVE (order[m] \in S <=> m \in K) /\ (Suits(order[m]) <=> FitsAt(m))
  <2>1. \A j \in S : \E n \in K : order[n] = j
    BY <1>1, <1>3, <1>6
  <2>2. \A n \in K : n \in 1 .. N /\ order[n] \in S
    BY <1>6
  <2>3. \A n \in K : Final(order[n], order[m]) <=> NextTo(K, n, m)
    <3> SUFFICES ASSUME NEW n \in K PROVE Final(order[n], order[m]) <=> NextTo(K, n, m)
      OBVIOUS
    <3>1. Before(b, order[n], order[m]) <=> n < m
      BY <1>3, <2>2
    <3>2. (\E k \in S : Before(b, order[n], k) /\ Before(b, k, order[m]))
            <=> \E k \in K : n < k /\ k < m
      <4>1. \A k \in K : /\ Before(b, order[n], order[k]) <=> n < k
                         /\ Before(b, order[k], order[m]) <=> k < m
        BY <1>3, <2>2
      <4> QED
        BY <2>1, <2>2, <4>1
    <3> QED
      BY <3>1, <3>2 DEF NextTo
  <2>4. \A n \in K : Feasible(b[order[n]], b[order[m]]) <=> <<n, m>> \in fit
    BY <1>5, <2>2
  <2> HIDE DEF Final
  <2>5. Suits(order[m]) <=> FitsAt(m)
    BY <2>1, <2>2, <2>3, <2>4
  <2> QED
    BY <1>6, <2>5
<1> HIDE DEF Suits, FitsAt
<1>11. KeptByRule(b, S) <=> Follows(fit, K, N)
  <2>1. (\A i \in 1 .. N : i \in S <=> Suits(i)) <=> (\A m \in 1 .. N : m \in K <=> FitsAt(m))
    BY <1>3, <1>10
  <2> QED
    BY <1>8, <1>9, <2>1
<1> QED
  BY <1>1, <1>2, <1>4, <1>6, <1>11

LEMMA JudgedByRule ==
  ASSUME batch \in Seq(Records)
  PROVE  UploadIsJudgedByRule
<1>1. ResendChangesNothing
  <2> DEFINE first == ProcessBatch(batch, {})
             second == ProcessBatch(batch, first.accepted)
             bad == CheckTrajectory(batch) \cup {i \in DOMAIN batch : ~batch[i].sound}
  <2>1. first.rejected = bad /\ first.accepted = DOMAIN batch \ bad
    BY DEF ProcessBatch
  <2>2. /\ second.duplicates = first.accepted \cap DOMAIN batch
        /\ second.rejected = bad \ first.accepted
        /\ second.accepted = DOMAIN batch \ (second.rejected \cup first.accepted)
    BY DEF ProcessBatch
  <2> HIDE DEF first, second, bad
  <2>3. second.accepted = {} /\ second.rejected = bad /\ second.duplicates = first.accepted
    BY <2>1, <2>2
  <2> QED
    BY <2>1, <2>3 DEF ResendChangesNothing, first, second
<1>2. KeepsWhatTheRuleSays
  <2> SUFFICES ASSUME NEW S \in SUBSET DOMAIN batch
               PROVE  KeptByRule(batch, S) <=> S = DOMAIN batch \ CheckTrajectory(batch)
    BY DEF KeepsWhatTheRuleSays
  <2>1. PICK N \in Nat : N = Len(batch)
    OBVIOUS
  <2>2. PICK order : order = InOrder(batch)
    OBVIOUS
  <2>3. PICK fit : fit = {q \in (1 .. N) \X (1 .. N) :
                            Feasible(batch[order[q[1]]], batch[order[q[2]]])}
    OBVIOUS
  <2>4. PICK R : R = 1 .. N \ CheckTrajectory(batch)
    OBVIOUS
  <2>5. DOMAIN batch = 1 .. N
    BY <2>1
  <2>6. /\ \A n \in 1 .. N : order[n] \in 1 .. N
        /\ \A i \in 1 .. N : \E n \in 1 .. N : order[n] = i
    BY <2>1, <2>2, InOrderIs
  <2>7. PICK K, L : K = {m \in 1 .. N : order[m] \in S} /\ L = {m \in 1 .. N : order[m] \in R}
    OBVIOUS
  <2>8. KeptByRule(batch, S) <=> Follows(fit, K, N)
    BY <2>1, <2>2, <2>3, <2>5, <2>7, RuleByPlace
  <2>9. Follows(fit, L, N)
    <3>1. L = {m \in 1 .. N : order[m] \notin CheckTrajectory(batch)}
      BY <2>4, <2>6, <2>7
    <3> QED
      BY <2>1, <2>2, <2>3, <3>1, TheLoopKeeps
  <2>10. Follows(fit, K, N) <=> K = L
    <3>1. K \in SUBSET (1 .. N) /\ L \in SUBSET (1 .. N)
      BY <2>7
    <3>2. Follows(fit, K, N) => K = L
      BY <2>9, <3>1, OneFollows
    <3> QED
      BY <2>9, <3>2
  <2>11. K = L <=> S = R
    <3>1. \A n \in 1 .. N : (n \in K <=> order[n] \in S) /\ (n \in L <=> order[n] \in R)
      BY <2>7
    <3>2. S \subseteq 1 .. N /\ R \subseteq 1 .. N
      BY <2>4, <2>5
    <3>3. ASSUME K = L PROVE S = R
      <4>1. ASSUME NEW i \in 1 .. N PROVE i \in S <=> i \in R
        <5>1. PICK n \in 1 .. N : order[n] = i
          BY <2>6
        <5> QED
          BY <3>1, <3>3, <5>1
      <4> QED
        BY <3>2, <4>1
    <3>4. S = R => K = L
      BY <2>7
    <3> QED
      BY <3>3, <3>4
  <2> QED
    BY <2>4, <2>5, <2>8, <2>10, <2>11
<1> QED
  BY <1>1, <1>2 DEF UploadIsJudgedByRule

-----------------------------------------------------------------------------
(* The fleet on the map.                                                   *)

\* An identity has a place once a record of it was judged, and a mast of a
\* known distance or none.
RowKnown(row) ==
    /\ row.place # Nowhere => row.judged
    /\ \/ row.mast = NoMast
       \/ row.mast.give \in Gives /\ row.mast.metres \in Distances

CrewKnown == CrewTyped /\ \A i \in DOMAIN crew : RowKnown(crew[i])

LEMMA MovedIs ==
  ASSUME NEW U, NEW s \in Seq(U), NEW i \in DOMAIN s, NEW x \in U
  PROVE  \A n \in DOMAIN (<<x>> \o RemoveAt(s, i)) :
           \/ (<<x>> \o RemoveAt(s, i))[n] = x
           \/ \E m \in DOMAIN s : (<<x>> \o RemoveAt(s, i))[n] = s[m]
<1>1. ASSUME NEW a \in Seq(U), NEW c \in Seq(U), NEW n \in DOMAIN (a \o c)
      PROVE  \/ \E m \in DOMAIN a : (a \o c)[n] = a[m]
             \/ \E m \in DOMAIN c : (a \o c)[n] = c[m]
  <2>1. CASE n \in 1 .. Len(a)
    BY <2>1
  <2>2. CASE n \in Len(a) + 1 .. Len(a) + Len(c)
    <3>1. (a \o c)[n] = c[n - Len(a)] /\ n - Len(a) \in DOMAIN c
      BY <2>2
    <3> QED
      BY <3>1
  <2>3. Len(a \o c) = Len(a) + Len(c) /\ a \o c \in Seq(U)
    OBVIOUS
  <2> QED
    BY <2>1, <2>2, <2>3
<1>2. PICK front : front = SubSeq(s, 1, i - 1)
  OBVIOUS
<1>3. PICK back : back = SubSeq(s, i + 1, Len(s))
  OBVIOUS
<1>4. front \in Seq(U) /\ \A n \in DOMAIN front : \E m \in DOMAIN s : front[n] = s[m]
  BY <1>2
<1>5. back \in Seq(U) /\ \A n \in DOMAIN back : \E m \in DOMAIN s : back[n] = s[m]
  <2>1. back \in Seq(U) /\ Len(back) = Len(s) - i
    BY <1>3
  <2>2. ASSUME NEW n \in DOMAIN back PROVE \E m \in DOMAIN s : back[n] = s[m]
    <3>1. n + i \in DOMAIN s
      BY <2>1, <2>2
    <3>2. back[n] = s[n + i]
      BY <1>3, <2>1, <2>2
    <3> QED
      BY <3>1, <3>2
  <2> QED
    BY <2>1, <2>2
<1>6. PICK rest : rest = front \o back
  OBVIOUS
<1>7. rest \in Seq(U) /\ \A n \in DOMAIN rest : \E m \in DOMAIN s : rest[n] = s[m]
  <2>1. rest \in Seq(U)
    BY <1>4, <1>5, <1>6
  <2>2. \A n \in DOMAIN rest : \/ \E m \in DOMAIN front : rest[n] = front[m]
                               \/ \E m \in DOMAIN back : rest[n] = back[m]
    BY <1>1, <1>4, <1>5, <1>6, ZenonT(40)
  <2> QED
    BY <1>4, <1>5, <2>1, <2>2
<1>8. RemoveAt(s, i) = rest
  BY <1>2, <1>3, <1>6 DEF RemoveAt
<1>9. PICK head : head = <<x>>
  OBVIOUS
<1>10. head \in Seq(U) /\ \A n \in DOMAIN head : head[n] = x
  BY <1>9
<1>11. \A n \in DOMAIN (head \o rest) : \/ \E m \in DOMAIN head : (head \o rest)[n] = head[m]
                                        \/ \E m \in DOMAIN rest : (head \o rest)[n] = rest[m]
  BY <1>1, <1>7, <1>10
<1>12. PICK all : all = head \o rest
  OBVIOUS
<1>13. ASSUME NEW n \in DOMAIN all PROVE all[n] = x \/ \E m \in DOMAIN s : all[n] = s[m]
  <2>1. \/ \E m \in DOMAIN head : all[n] = head[m]
        \/ \E m \in DOMAIN rest : all[n] = rest[m]
    BY <1>11, <1>12
  <2>2. \A m \in DOMAIN head : head[m] = x
    BY <1>10
  <2>3. \A m \in DOMAIN rest : \E k \in DOMAIN s : rest[m] = s[k]
    BY <1>7
  <2> QED
    BY <2>1, <2>2, <2>3
<1> QED
  BY <1>8, <1>9, <1>12, <1>13

LEMMA CrewKnownStep ==
  ASSUME CrewKnown, [FleetNext]_crew, CrewTyped'
  PROVE  CrewKnown'
<1>0. /\ crew \in Seq(CrewRows) /\ \A i \in DOMAIN crew : crew[i] \in CrewRows /\ RowKnown(crew[i])
  BY DEF CrewKnown, CrewTyped
<1>1. CASE Enrol
  <2>1. PICK row : row = [place |-> Nowhere, reporting |-> TRUE, judged |-> FALSE, mast |-> NoMast]
    OBVIOUS
  <2>2. RowKnown(row)
    <3>1. row.place = Nowhere /\ row.mast = NoMast
      BY <2>1
    <3> QED
      BY <3>1 DEF RowKnown
  <2>3. row \in CrewRows
    <3>1. NoMast \in [metres: Nat, give: Nat]
      BY DEF NoMast, Mast
    <3> QED
      BY <2>1, <3>1 DEF CrewRows
  <2>4. crew' = <<row>> \o crew
    BY <1>1, <2>1 DEF Enrol
  <2>5. \A n \in DOMAIN crew' : crew'[n] = row \/ \E m \in DOMAIN crew : crew'[n] = crew[m]
    BY <1>0, <2>3, <2>4
  <2> QED
    BY <1>0, <2>2, <2>5 DEF CrewKnown
<1>2. ASSUME NEW i \in DOMAIN crew, NEW row \in CrewRows, RowKnown(row),
             crew' = <<row>> \o RemoveAt(crew, i)
      PROVE  CrewKnown'
  <2>1. \A n \in DOMAIN crew' : crew'[n] = row \/ \E m \in DOMAIN crew : crew'[n] = crew[m]
    BY <1>0, <1>2, MovedIs
  <2> QED
    BY <1>0, <1>2, <2>1 DEF CrewKnown
<1>3. ASSUME NEW i \in DOMAIN crew, NEW place \in Places, NEW mast \in [metres: Nat, give: Nat],
             mast = NoMast \/ (mast.give \in Gives /\ mast.metres \in Distances),
             Upload(i, place, mast)
      PROVE  CrewKnown'
  <2>1. PICK row : row = [place |-> place, reporting |-> TRUE, judged |-> TRUE, mast |-> mast]
    OBVIOUS
  <2>2. row \in CrewRows /\ RowKnown(row)
    BY <1>3, <2>1 DEF CrewRows, RowKnown
  <2> QED
    BY <1>2, <1>3, <2>1, <2>2 DEF Upload
<1>4. ASSUME NEW i \in DOMAIN crew, UploadRefused(i) PROVE CrewKnown'
  <2>1. PICK row : row = [crew[i] EXCEPT !.reporting = TRUE, !.judged = TRUE]
    OBVIOUS
  <2>2. row \in CrewRows /\ RowKnown(row)
    BY <1>0, <2>1 DEF CrewRows, RowKnown
  <2> QED
    BY <1>2, <1>4, <2>1, <2>2 DEF UploadRefused
<1>5. ASSUME NEW i \in DOMAIN crew, EnrolAgain(i) PROVE CrewKnown'
  <2>1. PICK row : row = [crew[i] EXCEPT !.reporting = TRUE]
    OBVIOUS
  <2>2. row \in CrewRows /\ RowKnown(row)
    BY <1>0, <2>1 DEF CrewRows, RowKnown
  <2> QED
    BY <1>2, <1>5, <2>1, <2>2 DEF EnrolAgain
<1>6. ASSUME NEW i \in DOMAIN crew, FallSilent(i) PROVE CrewKnown'
  <2>1. PICK row : row = [crew[i] EXCEPT !.reporting = FALSE]
    OBVIOUS
  <2>2. RowKnown(row)
    BY <1>0, <2>1 DEF CrewRows, RowKnown
  <2>3. crew' = [crew EXCEPT ![i] = row]
    BY <1>6, <2>1 DEF FallSilent
  <2>4. \A n \in DOMAIN crew' : n \in DOMAIN crew /\ (crew'[n] = row \/ crew'[n] = crew[n])
    BY <1>0, <2>3
  <2> QED
    BY <1>0, <2>2, <2>4 DEF CrewKnown
<1>7. CASE UNCHANGED crew
  BY <1>0, <1>7 DEF CrewKnown
<1>8. /\ NoMast \in [metres: Nat, give: Nat]
      /\ \A m \in Distances, g \in Gives :
           /\ Mast(m, g) \in [metres: Nat, give: Nat]
           /\ Mast(m, g).give \in Gives /\ Mast(m, g).metres \in Distances
  BY FleetAssumption DEF NoMast, Mast
<1>9. ASSUME NEW i \in DOMAIN crew, NEW place \in Places,
             \/ Upload(i, place, NoMast)
             \/ \E m \in Distances, g \in Gives : Upload(i, place, Mast(m, g))
      PROVE  CrewKnown'
  <2>1. CASE Upload(i, place, NoMast)
    BY <1>3, <1>8, <2>1
  <2>2. ASSUME NEW m \in Distances, NEW g \in Gives, Upload(i, place, Mast(m, g)) PROVE CrewKnown'
    <3>1. PICK mast : mast = Mast(m, g)
      OBVIOUS
    <3>2. /\ mast \in [metres: Nat, give: Nat] /\ mast.give \in Gives /\ mast.metres \in Distances
          /\ Upload(i, place, mast)
      BY <1>8, <2>2, <3>1
    <3> QED
      BY <1>3, <3>2
  <2> QED
    BY <1>9, <2>1, <2>2
<1> QED
  BY <1>1, <1>4, <1>5, <1>6, <1>7, <1>9 DEF FleetNext

LEMMA RoundedKeepsOrder ==
  ASSUME NEW u \in {50, 100}, NEW m \in Nat, NEW n \in Nat, m <= n, m >= HalfAHexagon
  PROVE  0 < Rounded(m, u) /\ Rounded(m, u) <= Rounded(n, u)
<1>1. CASE u = 50
  <2>1. PICK a \in Nat : a = (2 * m + 50) \div 100
    OBVIOUS
  <2>2. PICK c \in Nat : c = (2 * n + 50) \div 100
    OBVIOUS
  <2>3. 1 <= a /\ a <= c
    BY <2>1, <2>2 DEF HalfAHexagon
  <2>4. Rounded(m, u) = a * 50 /\ Rounded(n, u) = c * 50
    BY <1>1, <2>1, <2>2 DEF Rounded
  <2> QED
    BY <2>3, <2>4
<1>2. CASE u = 100
  <2>1. PICK a \in Nat : a = (2 * m + 100) \div 200
    OBVIOUS
  <2>2. PICK c \in Nat : c = (2 * n + 100) \div 200
    OBVIOUS
  <2>3. 1 <= a /\ a <= c
    BY <2>1, <2>2 DEF HalfAHexagon
  <2>4. Rounded(m, u) = a * 100 /\ Rounded(n, u) = c * 100
    BY <1>2, <2>1, <2>2 DEF Rounded
  <2> QED
    BY <2>3, <2>4
<1> QED
  BY <1>1, <1>2

\* What is printed beside a line.
LEMMA LabelsHold == CrewKnown => LabelsStayModest
<1> SUFFICES ASSUME CrewKnown PROVE LabelsStayModest
  OBVIOUS
<1>1. \A i \in DOMAIN crew : RowKnown(crew[i])
  BY DEF CrewKnown
<1>2. SUFFICES ASSUME NEW link \in Links, link.label # Unclear
               PROVE  /\ 0 < link.label.give /\ link.label.give <= link.label.metres
                      /\ \E i \in At(link.from) :
                            /\ LinkLabel(crew[i].mast) = link.label
                            /\ crew[i].mast.give < crew[i].mast.metres
  BY DEF LabelsStayModest
<1>3. PICK i \in DOMAIN crew : /\ crew[i].mast # NoMast
                               /\ link.from = crew[i].place
                               /\ link.label = LinkLabel(crew[i].mast)
  BY DEF Links
<1>4. PICK mast : mast = crew[i].mast
  OBVIOUS
<1>5. mast.give \in Gives /\ mast.metres \in Distances
  BY <1>1, <1>3, <1>4 DEF RowKnown
<1>6. mast.give \in Nat /\ mast.metres \in Nat /\ mast.give >= HalfAHexagon
  BY <1>5, FleetAssumption
<1>7. link.label = LinkLabel(mast) /\ LinkLabel(mast) # Unclear
  BY <1>2, <1>3, <1>4
<1>8. ~(mast.give >= mast.metres)
  BY <1>7 DEF LinkLabel
<1>9. i \in At(link.from)
  BY <1>3 DEF At
<1>10. PICK u \in {50, 100} : link.label = Mast(Rounded(mast.metres, u), Rounded(mast.give, u))
  BY <1>7, <1>8 DEF LinkLabel
<1>11. link.label.metres = Rounded(mast.metres, u) /\ link.label.give = Rounded(mast.give, u)
  BY <1>10 DEF Mast
<1>12. mast.give < mast.metres
  BY <1>6, <1>8
<1>13. 0 < Rounded(mast.give, u) /\ Rounded(mast.give, u) <= Rounded(mast.metres, u)
  BY <1>6, <1>12, RoundedKeepsOrder
<1> QED
  BY <1>3, <1>4, <1>7, <1>9, <1>11, <1>12, <1>13

Groupings == UNION {[P -> [count: Nat, live: BOOLEAN]] : P \in SUBSET Places}

LEMMA GroupedIs ==
  ASSUME NEW g \in Groupings, NEW row \in CrewRows
  PROVE  /\ Grouped(g, row) \in Groupings
         /\ row.place = Nowhere => Grouped(g, row) = g
         /\ row.place # Nowhere =>
              /\ DOMAIN Grouped(g, row) = DOMAIN g \cup {row.place}
              /\ \A p \in DOMAIN g : p # row.place => Grouped(g, row)[p] = g[p]
              /\ Grouped(g, row)[row.place]
                   = IF row.place \in DOMAIN g
                     THEN [count |-> g[row.place].count + IF row.reporting THEN 1 ELSE 0,
                           live |-> g[row.place].live \/ row.reporting]
                     ELSE [count |-> IF row.reporting THEN 1 ELSE 0, live |-> row.reporting]
<1>1. PICK P \in SUBSET Places : g \in [P -> [count: Nat, live: BOOLEAN]]
  BY DEF Groupings
<1>2. PICK here \in {0, 1} : here = IF row.reporting THEN 1 ELSE 0
  OBVIOUS
<1>3. row.place \in Places \cup {Nowhere} /\ row.reporting \in BOOLEAN
  BY DEF CrewRows
<1>4. CASE row.place = Nowhere
  BY <1>4 DEF Grouped
<1>5. CASE row.place # Nowhere /\ row.place \in P
  <2>1. PICK q \in P : q = row.place
    BY <1>5
  <2>2. PICK new : new = [count |-> g[q].count + here, live |-> g[q].live \/ row.reporting]
    OBVIOUS
  <2>3. new \in [count: Nat, live: BOOLEAN]
    BY <1>1, <1>2, <1>3, <2>2
  <2>4. Grouped(g, row) = [g EXCEPT ![q] = new]
    BY <1>1, <1>2, <1>5, <2>1, <2>2 DEF Grouped
  <2>5. [g EXCEPT ![q] = new] \in [P -> [count: Nat, live: BOOLEAN]]
    BY <1>1, <2>3
  <2>6. Grouped(g, row) \in Groupings
    BY <2>4, <2>5 DEF Groupings
  <2>7. DOMAIN Grouped(g, row) = P /\ DOMAIN g = P /\ P \cup {q} = P
    BY <1>1, <2>1, <2>4, <2>5
  <2>8. \A p \in P : p # q => Grouped(g, row)[p] = g[p]
    BY <1>1, <2>4
  <2>9. Grouped(g, row)[q] = new
    BY <1>1, <2>4
  <2> QED
    BY <1>2, <1>5, <2>1, <2>2, <2>6, <2>7, <2>8, <2>9
<1>6. CASE row.place # Nowhere /\ row.place \notin P
  <2>1. PICK q \in Places : q = row.place
    BY <1>3, <1>6
  <2>2. PICK new : new = [count |-> here, live |-> row.reporting]
    OBVIOUS
  <2>3. new \in [count: Nat, live: BOOLEAN]
    BY <1>2, <1>3, <2>2
  <2>4. PICK h : h = [p \in P \cup {q} |-> IF p = q THEN new ELSE g[p]]
    OBVIOUS
  <2>5. Grouped(g, row) = h
    BY <1>1, <1>2, <1>6, <2>1, <2>2, <2>4 DEF Grouped
  <2>6. h \in [P \cup {q} -> [count: Nat, live: BOOLEAN]]
    BY <1>1, <2>3, <2>4
  <2>7. h \in Groupings
    BY <2>6 DEF Groupings
  <2>8. DOMAIN h = P \cup {q} /\ DOMAIN g = P
    BY <1>1, <2>4
  <2>9. \A p \in P : p # q => h[p] = g[p]
    BY <2>4
  <2>10. h[q] = new
    BY <2>4
  <2> QED
    BY <1>2, <1>6, <2>1, <2>2, <2>5, <2>7, <2>8, <2>9, <2>10
<1> QED
  BY <1>4, <1>5, <1>6

LEMMA TheMarkersAre ==
  LET F == CHOOSE f : f = [s \in SUBSET DOMAIN crew |->
                             IF s = {} THEN <<>>
                             ELSE Grouped(f[s \ {Max(s)}], crew[Max(s)])]
  IN  CollectorPoints = F[DOMAIN crew]
BY Zenon DEF CollectorPoints, FoldLeft, MapThenFoldSet

\* What each turn of the reduce in collectorPoints leaves.
Markings(N) ==
    {C \in [0 .. N -> Groupings] :
       /\ C[0] = <<>> /\ CollectorPoints = C[N]
       /\ \A n \in 0 .. N - 1 : C[n + 1] = Grouped(C[n], crew[n + 1])}

LEMMA NoMarkerYet == <<>> \in Groupings /\ DOMAIN <<>> = {}
<1>1. <<>> \in [{} -> [count: Nat, live: BOOLEAN]]
  OBVIOUS
<1> QED
  BY <1>1 DEF Groupings

LEMMA AMarking ==
  ASSUME CrewTyped
  PROVE  Markings(Len(crew)) # {}
<1>1. PICK N \in Nat : N = Len(crew)
  BY DEF CrewTyped
<1>2. DOMAIN crew = 1 .. N /\ \A i \in 1 .. N : crew[i] \in CrewRows
  BY <1>1 DEF CrewTyped
<1> DEFINE S == 1 .. N
           pick == [s \in SUBSET S |-> Max(s)]
           op == [x \in S \X Groupings |-> Grouped(x[2], crew[x[1]])]
           Loop(f) == f = [s \in SUBSET S |-> IF s = {} THEN <<>>
                                              ELSE Grouped(f[s \ {Max(s)}], crew[Max(s)])]
           F == CHOOSE f : Loop(f)
<1>3. IsFiniteSet(S)
  BY FS_Interval
<1>4. ASSUME NEW s \in SUBSET S, s # {} PROVE pick[s] \in s /\ Max(s) \in s
  <2>1. s \subseteq Nat /\ \A t \in s : t <= N
    OBVIOUS
  <2>2. Max(s) \in s
    BY <1>4, <2>1, GreatestOf
  <2> QED
    BY <2>2
<1>5. <<>> \in Groupings
  BY NoMarkerYet
<1>6. op \in [S \X Groupings -> Groupings]
  <2> SUFFICES ASSUME NEW i \in S, NEW g \in Groupings PROVE Grouped(g, crew[i]) \in Groupings
    OBVIOUS
  <2> QED
    BY <1>2, GroupedIs
<1>7. \A i \in S, g \in Groupings : op[<<i, g>>] = Grouped(g, crew[i])
  OBVIOUS
<1>8. \A s \in SUBSET S : pick[s] = Max(s)
  OBVIOUS
<1>9. CollectorPoints = F[S]
  BY <1>2, TheMarkersAre
<1> HIDE DEF S, pick, op, F
<1>10. PICK G \in Gatherings(S, Groupings, <<>>, pick, op) : TRUE
  <2>1. \A s \in (SUBSET S) \ {{}} : pick[s] \in s
    BY <1>4
  <2> QED
    BY <1>3, <1>5, <1>6, <2>1, AGathering
<1>11. /\ G \in [SUBSET S -> Groupings] /\ G[{}] = <<>>
       /\ \A s \in SUBSET S : s # {} => G[s] = Grouped(G[s \ {Max(s)}], crew[Max(s)])
  <2>1. /\ G \in [SUBSET S -> Groupings] /\ G[{}] = <<>>
        /\ \A s \in (SUBSET S) \ {{}} : G[s] = op[<<pick[s], G[s \ {pick[s]}]>>]
    BY <1>10 DEF Gatherings
  <2>2. ASSUME NEW s \in SUBSET S, s # {}
        PROVE  G[s] = Grouped(G[s \ {Max(s)}], crew[Max(s)])
    <3>1. Max(s) \in S /\ G[s \ {Max(s)}] \in Groupings
      BY <1>4, <2>1, <2>2
    <3>2. G[s] = op[<<Max(s), G[s \ {Max(s)}]>>]
      BY <1>8, <2>1, <2>2
    <3> QED
      BY <1>7, <3>1, <3>2
  <2> QED
    BY <2>1, <2>2
<1>12. Loop(G)
  <2> DEFINE Turn(s) == IF s = {} THEN <<>> ELSE Grouped(G[s \ {Max(s)}], crew[Max(s)])
  <2>1. \A s \in SUBSET S : G[s] = Turn(s)
    BY <1>11
  <2> HIDE DEF Turn
  <2>2. G = [s \in SUBSET S |-> Turn(s)]
    BY <1>11, <2>1
  <2> QED
    BY <2>2 DEF Turn
<1>13. Loop(F)
  BY <1>12 DEF F
<1> HIDE DEF Loop
<1> DEFINE C == [n \in 0 .. N |-> F[1 .. n]]
<1>14. C[0] = <<>>
  <2>1. 1 .. 0 = {} /\ 0 \in 0 .. N /\ {} \in SUBSET S
    OBVIOUS
  <2>2. F[{}] = <<>>
    BY <1>13, <2>1 DEF Loop
  <2> QED
    BY <2>1, <2>2
<1>15. ASSUME NEW n \in 0 .. N - 1 PROVE C[n + 1] = Grouped(C[n], crew[n + 1])
  <2>1. n \in Nat /\ n \in 0 .. N /\ n + 1 \in 0 .. N
    OBVIOUS
  <2>2. PICK s : s = 1 .. n + 1
    OBVIOUS
  <2>3. s \in SUBSET S /\ s # {} /\ Max(s) = n + 1 /\ s \ {Max(s)} = 1 .. n
    <3>1. s \in SUBSET S
      BY <2>2 DEF S
    <3> QED
      BY <2>1, <2>2, <3>1, InTurns
  <2>4. F[s] = Grouped(F[s \ {Max(s)}], crew[Max(s)])
    BY <1>13, <2>3 DEF Loop
  <2>5. C[n + 1] = F[s] /\ C[n] = F[1 .. n]
    BY <2>1, <2>2
  <2> QED
    BY <2>3, <2>4, <2>5
<1>16. C[N] = CollectorPoints
  BY <1>9 DEF S
<1> DEFINE T == {n \in 0 .. N : C[n] \in Groupings}
<1>17. \A n \in 0 .. N : C[n] \in Groupings
  <2>1. 0 \in T
    BY <1>5, <1>14
  <2>2. ASSUME NEW n \in 0 .. N - 1, n \in T PROVE n + 1 \in T
    <3>1. n + 1 \in 1 .. N /\ n + 1 \in 0 .. N /\ C[n] \in Groupings
      BY <2>2
    <3>2. Grouped(C[n], crew[n + 1]) \in Groupings
      BY <1>2, <3>1, GroupedIs
    <3> QED
      BY <1>15, <3>1, <3>2
  <2> HIDE DEF T
  <2>3. \A n \in 0 .. N : n \in T
    BY <2>1, <2>2, TurnByTurn
  <2> QED
    BY <2>3 DEF T
<1>18. C \in [0 .. N -> Groupings]
  BY <1>17
<1> HIDE DEF C
<1>19. C \in Markings(N)
  BY <1>14, <1>15, <1>16, <1>18 DEF Markings
<1> QED
  BY <1>1, <1>19

\* The phones at a place among the first n rows that still report.
Alive(p, n) == {i \in 1 .. n : crew[i].place = p /\ crew[i].reporting}

LEMMA AliveAre ==
  ASSUME NEW n \in Nat, NEW p
  PROVE  /\ IsFiniteSet(Alive(p, n)) /\ Cardinality(Alive(p, n)) \in Nat
         /\ Alive(p, 0) = {} /\ n + 1 \notin Alive(p, n)
         /\ Alive(p, n + 1) = IF crew[n + 1].place = p /\ crew[n + 1].reporting
                              THEN Alive(p, n) \cup {n + 1} ELSE Alive(p, n)
         /\ Cardinality(Alive(p, n + 1))
              = IF crew[n + 1].place = p /\ crew[n + 1].reporting
                THEN Cardinality(Alive(p, n)) + 1 ELSE Cardinality(Alive(p, n))
         /\ Alive(p, n) = {} <=> Cardinality(Alive(p, n)) = 0
<1>1. IsFiniteSet(1 .. n) /\ Alive(p, n) \subseteq 1 .. n
  BY FS_Interval DEF Alive
<1>2. IsFiniteSet(Alive(p, n))
  BY <1>1, FS_Subset
<1>3. Cardinality(Alive(p, n)) \in Nat /\ (Alive(p, n) = {} <=> Cardinality(Alive(p, n)) = 0)
  BY <1>2, FS_CardinalityType, FS_EmptySet
<1>4. n + 1 \notin Alive(p, n)
  BY <1>1
<1>5. Alive(p, n + 1) = IF crew[n + 1].place = p /\ crew[n + 1].reporting
                        THEN Alive(p, n) \cup {n + 1} ELSE Alive(p, n)
  <2>1. \A i : i \in 1 .. n + 1 <=> i \in 1 .. n \/ i = n + 1
    OBVIOUS
  <2> QED
    BY <2>1 DEF Alive
<1>6. Cardinality(Alive(p, n) \cup {n + 1}) = Cardinality(Alive(p, n)) + 1
  BY <1>2, <1>4, FS_AddElement
<1>7. Alive(p, 0) = {}
  BY DEF Alive
<1> QED
  BY <1>2, <1>3, <1>4, <1>5, <1>6, <1>7

\* What the markers say of the first n rows.
Marked(g, n) ==
    /\ DOMAIN g = {p \in Places : \E i \in 1 .. n : crew[i].place = p}
    /\ \A p \in DOMAIN g : /\ g[p].count = Cardinality(Alive(p, n))
                           /\ g[p].live = (g[p].count > 0)

LEMMA OneMoreMarked ==
  ASSUME NEW n \in Nat, crew[n + 1] \in CrewRows, NEW g \in Groupings, Marked(g, n)
  PROVE  Marked(Grouped(g, crew[n + 1]), n + 1)
<1>1. PICK row \in CrewRows : row = crew[n + 1]
  OBVIOUS
<1>2. PICK h : h = Grouped(g, row)
  OBVIOUS
<1>3. /\ DOMAIN g = {p \in Places : \E i \in 1 .. n : crew[i].place = p}
      /\ \A p \in DOMAIN g : /\ g[p].count = Cardinality(Alive(p, n))
                             /\ g[p].live = (g[p].count > 0)
  BY DEF Marked
<1>4. row.place \in Places \cup {Nowhere} /\ row.reporting \in BOOLEAN /\ Nowhere \notin Places
  BY FleetAssumption DEF CrewRows
<1>5. \A i : i \in 1 .. n + 1 <=> i \in 1 .. n \/ i = n + 1
  OBVIOUS
<1>6. DOMAIN h = {p \in Places : \E i \in 1 .. n + 1 : crew[i].place = p}
  <2>1. \A p : (\E i \in 1 .. n + 1 : crew[i].place = p)
                  <=> (\E i \in 1 .. n : crew[i].place = p) \/ row.place = p
    BY <1>1, <1>5
  <2>2. CASE row.place = Nowhere
    <3>1. h = g
      BY <1>2, <2>2, GroupedIs
    <3> QED
      BY <1>3, <1>4, <2>1, <2>2, <3>1
  <2>3. CASE row.place # Nowhere
    <3>1. DOMAIN h = DOMAIN g \cup {row.place} /\ row.place \in Places
      BY <1>2, <1>4, <2>3, GroupedIs
    <3> QED
      BY <1>3, <2>1, <3>1
  <2> QED
    BY <2>2, <2>3
<1>7. ASSUME NEW p \in DOMAIN h
      PROVE  h[p].count = Cardinality(Alive(p, n + 1)) /\ h[p].live = (h[p].count > 0)
  <2>1. PICK c \in Nat : c = Cardinality(Alive(p, n))
    BY AliveAre
  <2>2. PICK d \in Nat : d = Cardinality(Alive(p, n + 1))
    <3>1. n + 1 \in Nat
      OBVIOUS
    <3> QED
      BY <3>1, AliveAre
  <2>3. d = IF row.place = p /\ row.reporting THEN c + 1 ELSE c
    BY <1>1, <2>1, <2>2, AliveAre
  <2>4. p \in DOMAIN g => g[p].count = c /\ g[p].live = (c > 0)
    BY <1>3, <2>1
  <2>5. p \in Places /\ p # Nowhere
    BY <1>4, <1>6
  <2>6. CASE row.place # p
    <3>1. p \in DOMAIN g /\ h[p] = g[p]
      <4>1. CASE row.place = Nowhere
        BY <1>2, <4>1, GroupedIs
      <4>2. CASE row.place # Nowhere
        <5>1. /\ DOMAIN Grouped(g, row) = DOMAIN g \cup {row.place}
              /\ \A q \in DOMAIN g : q # row.place => Grouped(g, row)[q] = g[q]
          BY <4>2, GroupedIs
        <5>2. p \in DOMAIN g
          BY <1>2, <2>6, <5>1
        <5> QED
          BY <1>2, <2>6, <5>1, <5>2
      <4> QED
        BY <4>1, <4>2
    <3> QED
      BY <2>2, <2>3, <2>4, <2>6, <3>1
  <2>7. CASE row.place = p /\ p \in DOMAIN g
    <3>1. PICK here \in {0, 1} : here = IF row.reporting THEN 1 ELSE 0
      OBVIOUS
    <3>2. h[p] = [count |-> g[p].count + here, live |-> g[p].live \/ row.reporting]
      BY <1>2, <2>5, <2>7, <3>1, GroupedIs
    <3>3. h[p].count = c + here /\ h[p].live = (c > 0 \/ row.reporting)
      <4>1. h[p].count = g[p].count + here /\ h[p].live = (g[p].live \/ row.reporting)
        BY <3>2
      <4>2. g[p].count = c /\ g[p].live = (c > 0)
        BY <2>4, <2>7
      <4> QED
        BY <4>1, <4>2
    <3>4. d = c + here
      BY <2>1, <2>3, <2>7, <3>1
    <3>5. (c > 0 \/ row.reporting) = (c + here > 0)
      BY <1>4, <2>1, <3>1
    <3> QED
      BY <2>2, <3>3, <3>4, <3>5
  <2>8. CASE row.place = p /\ p \notin DOMAIN g
    <3>1. PICK here \in {0, 1} : here = IF row.reporting THEN 1 ELSE 0
      OBVIOUS
    <3>2. h[p] = [count |-> here, live |-> row.reporting]
      BY <1>2, <2>5, <2>8, <3>1, GroupedIs
    <3>3. h[p].count = here /\ h[p].live = row.reporting
      BY <3>2
    <3>4. \A i \in 1 .. n : crew[i].place # p
      BY <1>3, <2>5, <2>8
    <3>5. Alive(p, n) = {}
      BY <3>4 DEF Alive
    <3>6. c = 0
      BY <2>1, <3>5, AliveAre
    <3>7. d = here
      BY <2>3, <2>8, <3>1, <3>6
    <3>8. row.reporting = (here > 0)
      BY <1>4, <3>1
    <3> QED
      BY <2>2, <3>3, <3>7, <3>8
  <2> QED
    BY <2>6, <2>7, <2>8
<1> QED
  BY <1>1, <1>2, <1>6, <1>7 DEF Marked

LEMMA MarkersAre == CrewTyped => CollectorPoints \in Groupings /\ Marked(CollectorPoints, Len(crew))
<1> SUFFICES ASSUME CrewTyped
             PROVE  CollectorPoints \in Groupings /\ Marked(CollectorPoints, Len(crew))
  OBVIOUS
<1>1. PICK N \in Nat : N = Len(crew)
  BY DEF CrewTyped
<1>2. \A i \in 1 .. N : crew[i] \in CrewRows
  BY <1>1 DEF CrewTyped
<1>3. PICK C \in Markings(N) : TRUE
  BY <1>1, AMarking
<1>4. /\ C \in [0 .. N -> Groupings] /\ C[0] = <<>> /\ CollectorPoints = C[N]
      /\ \A n \in 0 .. N - 1 : C[n + 1] = Grouped(C[n], crew[n + 1])
  BY <1>3 DEF Markings
<1> DEFINE T == {n \in 0 .. N : Marked(C[n], n)}
<1>5. 0 \in T
  <2>1. DOMAIN C[0] = {}
    BY <1>4, NoMarkerYet
  <2>2. Marked(C[0], 0)
    BY <2>1 DEF Marked
  <2> QED
    BY <2>2
<1>6. ASSUME NEW n \in 0 .. N - 1, n \in T PROVE n + 1 \in T
  <2>1. n \in Nat /\ n + 1 \in 1 .. N /\ n + 1 \in 0 .. N /\ n \in 0 .. N
    OBVIOUS
  <2>2. C[n] \in Groupings /\ Marked(C[n], n) /\ crew[n + 1] \in CrewRows
    BY <1>2, <1>4, <1>6, <2>1
  <2>3. Marked(Grouped(C[n], crew[n + 1]), n + 1)
    BY <2>1, <2>2, OneMoreMarked
  <2> QED
    BY <1>4, <2>1, <2>3
<1>7. N \in T
  <2> HIDE DEF T
  <2>1. \A n \in 0 .. N : n \in T
    BY <1>5, <1>6, TurnByTurn
  <2> QED
    BY <2>1
<1> QED
  BY <1>1, <1>4, <1>7

LEMMA MarkersHold == CrewKnown => MarkersShowTheFleet
<1> SUFFICES ASSUME CrewKnown PROVE MarkersShowTheFleet
  OBVIOUS
<1>1. PICK N \in Nat : N = Len(crew) /\ DOMAIN crew = 1 .. N
  BY DEF CrewKnown, CrewTyped
<1>2. /\ \A i \in 1 .. N : crew[i] \in CrewRows /\ RowKnown(crew[i])
      /\ Nowhere \notin Places
  BY <1>1, FleetAssumption DEF CrewKnown, CrewTyped
<1>3. PICK points : points = CollectorPoints
  OBVIOUS
<1>4. /\ DOMAIN points = {p \in Places : \E i \in 1 .. N : crew[i].place = p}
      /\ \A p \in DOMAIN points : /\ points[p].count = Cardinality(Alive(p, N))
                                  /\ points[p].live = (points[p].count > 0)
  BY <1>1, <1>3, MarkersAre DEF CrewKnown, Marked
<1>5. DOMAIN points = {p \in Places : At(p) # {}}
  BY <1>1, <1>4 DEF At
<1>6. \A p : {i \in At(p) : crew[i].reporting} = Alive(p, N)
  BY <1>1 DEF At, Alive
<1>7. PICK S : S = {i \in {j \in DOMAIN crew : crew[j].place # Nowhere} : crew[i].reporting}
  OBVIOUS
<1>8. S = {i \in 1 .. N : crew[i].place # Nowhere /\ crew[i].reporting}
  BY <1>1, <1>7
<1>9. PICK K : K = DOMAIN points
  OBVIOUS
<1>10. IsFiniteSet(S) /\ IsFiniteSet(K)
  <2>1. IsFiniteSet(1 .. N)
    BY FS_Interval
  <2>2. IsFiniteSet(S)
    BY <1>8, <2>1, FS_Subset
  <2> DEFINE place == [i \in 1 .. N |-> crew[i].place]
  <2>3. K \subseteq {place[i] : i \in 1 .. N}
    BY <1>4, <1>9
  <2> HIDE DEF place
  <2>4. IsFiniteSet({place[i] : i \in 1 .. N})
    BY <2>1, ImageIs
  <2> QED
    BY <2>2, <2>3, <2>4, FS_Subset
<1>11. PICK kind : kind = [i \in S |-> crew[i].place]
  OBVIOUS
<1>12. kind \in [S -> K] /\ \A i \in S : kind[i] = crew[i].place
  <2>1. \A i \in S : crew[i].place \in K
    <3> SUFFICES ASSUME NEW i \in S PROVE crew[i].place \in K
      OBVIOUS
    <3>1. i \in 1 .. N /\ crew[i].place # Nowhere /\ crew[i] \in CrewRows
      BY <1>2, <1>8
    <3>2. crew[i].place \in Places
      BY <3>1 DEF CrewRows
    <3> QED
      BY <1>4, <1>9, <3>1, <3>2
  <2> QED
    BY <1>11, <2>1
<1>13. Cardinality(S) = Total([k \in K |-> Cardinality({x \in S : kind[x] = k})], K)
  BY <1>10, <1>12, CountByKind
<1>14. \A k \in K : /\ {x \in S : kind[x] = k} = Alive(k, N)
                    /\ points[k].count = Cardinality(Alive(k, N))
  <2> SUFFICES ASSUME NEW k \in K PROVE {x \in S : kind[x] = k} = Alive(k, N)
    BY <1>4, <1>9
  <2>1. k # Nowhere
    BY <1>2, <1>4, <1>9
  <2> QED
    BY <1>8, <1>12, <2>1 DEF Alive
<1>15. [k \in K |-> Cardinality({x \in S : kind[x] = k})] = [k \in K |-> points[k].count]
  BY <1>14
<1>16. SumFunction([p \in DOMAIN points |-> points[p].count]) = Cardinality(S)
  <2>1. PICK f : f = [p \in K |-> points[p].count]
    OBVIOUS
  <2>2. DOMAIN f = K
    BY <2>1
  <2>3. SumFunction(f) = Total(f, K)
    BY <2>2 DEF SumFunction, Total
  <2>4. Cardinality(S) = Total(f, K)
    BY <1>13, <1>15, <2>1
  <2> QED
    BY <1>9, <2>1, <2>3, <2>4
<1>17. \A i \in Dormant : \A p \in DOMAIN points : crew[i].place # p
  <2> SUFFICES ASSUME NEW i \in Dormant, NEW p \in DOMAIN points PROVE crew[i].place # p
    OBVIOUS
  <2>1. i \in 1 .. N /\ ~crew[i].judged
    BY <1>1 DEF Dormant, Sent
  <2>2. crew[i].place = Nowhere
    BY <1>2, <2>1 DEF RowKnown
  <2>3. p \in Places
    BY <1>4
  <2> QED
    BY <1>2, <2>2, <2>3
<1>18. \A p \in DOMAIN points :
         /\ points[p].count = Cardinality({i \in At(p) : crew[i].reporting})
         /\ points[p].live = (points[p].count > 0)
  BY <1>4, <1>6
<1> QED
  BY <1>3, <1>5, <1>7, <1>16, <1>17, <1>18 DEF MarkersShowTheFleet

\* The fleet is on the map as it is.
LEMMA FleetHolds == CrewKnown => FleetIsShown
BY MarkersHold, LabelsHold DEF FleetIsShown

-----------------------------------------------------------------------------
(* The pages together.                                                     *)

NoteTyped ==
    /\ sheet \in Sheets /\ amount \in Amounts
    /\ doc \in Seq(LineKinds) /\ Len(doc) <= MaxLines
    /\ text \in Seq(Marks \cup {"word", "other"}) /\ Len(text) <= MaxMarks
    /\ batch \in Seq(Records) /\ Len(batch) <= MaxRecords

Whole == NoteTyped /\ CrewKnown /\ SurveySound /\ Hearing /\ Placing /\ Spending

\* What one page does leaves the state of every other as it is.
LEMMA PartsStep ==
    ASSUME [Next]_vars
    PROVE  /\ [EnrolmentNext]_enrolment
           /\ [misplaced = FALSE /\ SpeedTestNext]_allowance
           /\ [CellSitesNext]_cellSites
           /\ [FetchedNext]_fetched
           /\ [FleetNext]_crew
           /\ [SurveyNext]_tables
<1> DEFINE Goal == /\ [EnrolmentNext]_enrolment
                   /\ [misplaced = FALSE /\ SpeedTestNext]_allowance
                   /\ [CellSitesNext]_cellSites
                   /\ [FetchedNext]_fetched
                   /\ [FleetNext]_crew
                   /\ [SurveyNext]_tables
<1>1. ASSUME UNCHANGED <<crew, tables, fetched, enrolment, cellSites, allowance>> PROVE Goal
  BY <1>1
<1>2. CASE EditMethod \/ PrintFigure \/ JudgeUpload
  BY <1>1, <1>2 DEF EditMethod, PrintFigure, JudgeUpload
<1>3. CASE WorkFleet
  BY <1>3 DEF WorkFleet
<1>4. CASE UseDashboard
  BY <1>4 DEF UseDashboard
<1>5. CASE RegisterPhone
  BY <1>5 DEF RegisterPhone
<1>6. CASE PlaceCells
  BY <1>6 DEF PlaceCells
<1>7. CASE TestSpeed
  BY <1>7 DEF TestSpeed
<1>8. CASE WorkSurvey
  BY <1>8 DEF WorkSurvey
<1>9. CASE UNCHANGED vars
  BY <1>1, <1>9 DEF vars
<1> QED
  BY <1>2, <1>3, <1>4, <1>5, <1>6, <1>7, <1>8, <1>9 DEF Next

LEMMA NoteTypedStep == NoteTyped /\ [Next]_vars => NoteTyped'
<1> SUFFICES ASSUME NoteTyped, [Next]_vars PROVE NoteTyped'
  OBVIOUS
<1>1. CASE EditMethod /\ WriteLine
  BY <1>1, PagesAssumption DEF EditMethod, WriteLine, NoteTyped
<1>2. CASE EditMethod /\ WriteMark
  BY <1>2, PagesAssumption DEF EditMethod, WriteMark, NoteTyped
<1>3. CASE PrintFigure
  BY <1>3 DEF PrintFigure, Grow, written, NoteTyped
<1>4. CASE JudgeUpload
  BY <1>4, TrajectoryAssumption DEF JudgeUpload, AddRecord, written, NoteTyped
<1>5. ASSUME UNCHANGED <<sheet, written, amount, batch>> PROVE NoteTyped'
  BY <1>5 DEF written, NoteTyped
<1>6. CASE WorkFleet \/ WorkSurvey \/ UseDashboard \/ RegisterPhone \/ PlaceCells \/ TestSpeed
  BY <1>5, <1>6 DEF WorkFleet, WorkSurvey, UseDashboard, RegisterPhone, PlaceCells, TestSpeed
<1>7. CASE UNCHANGED vars
  BY <1>5, <1>7 DEF vars
<1> QED
  BY <1>1, <1>2, <1>3, <1>4, <1>6, <1>7 DEF Next, EditMethod

LEMMA InitWhole == Init => Whole
<1> SUFFICES ASSUME Init PROVE Whole
  OBVIOUS
<1>1. NoteTyped
  BY PagesAssumption, TrajectoryAssumption DEF Init, TrajectoryInit, NoteTyped
<1>2. CrewKnown
  BY FleetAssumption DEF Init, FleetInit, CrewTyped, CrewKnown
<1> QED
  BY <1>1, <1>2, InitSurvey, InitHearing, InitPlacing, InitSpending DEF Init, Whole

LEMMA WholeStep == Whole /\ [Next]_vars => Whole'
<1> SUFFICES ASSUME Whole, [Next]_vars PROVE Whole'
  OBVIOUS
<1>1. CrewKnown'
  <2>1. CrewTyped /\ [FleetNext]_crew
    BY PartsStep DEF Whole, CrewKnown
  <2>2. CrewTyped'
    BY <2>1, CrewTypedStep
  <2> QED
    BY <2>1, <2>2, CrewKnownStep DEF Whole
<1>2. SurveySound'
  BY PartsStep, SurveyStep DEF Whole
<1> QED
  BY <1>1, <1>2, PartsStep, NoteTypedStep, HearingStep, PlacingStep, SpendingStep DEF Whole

LEMMA WholeSuffices == Whole => PagesInv /\ AllowanceIsKept /\ CellsAreOfOnePass
<1> SUFFICES ASSUME Whole PROVE PagesInv /\ AllowanceIsKept /\ CellsAreOfOnePass
  OBVIOUS
<1>1. SpeedTestTypeOK /\ AllowanceIsKept
  BY SpendingSuffices DEF Whole, AllowanceIsKept
<1>2. CellSitesTypeOK /\ CellsAreOfOnePass
  BY DEF Whole, Placing, PassesTyped
<1>3. PagesTypeOK
  BY <1>1, <1>2 DEF Whole, NoteTyped, CrewKnown, CrewTyped, CrewRows, Hearing, ServerTyped,
                      InTurn, PagesTypeOK
<1> QED
  BY <1>1, <1>2, <1>3 DEF Whole, Hearing, PagesInv

LEMMA WholeAlways == Spec => []Whole
BY InitWhole, WholeStep, PTL DEF Spec

\* Whatever is opened, chosen, answered and refused in whatever order, a page
\* of the dashboard holds answers to its own requests and never an earlier
\* answer over a later one, for any regions, networks and number of openings.
THEOREM PagesHearNoOther == Spec => []PagesInv
BY WholeAlways, WholeSuffices, PTL

\* A day's tests are charged within the allowance, and to the byte while they
\* do not overlap, for any number of executors, of days and any sizes of a
\* test: what is charged is bounded by what was still allowed when it began.
THEOREM TheAllowanceIsKept == Spec => []AllowanceIsKept
BY WholeAlways, WholeSuffices, PTL

\* Whichever passes over the cells overlap, clash or die, the table holds the
\* rows of one of them, for any cells, histories and number of passes: of two
\* passes one places all that the other does, so that the unique index keeps
\* them apart.
THEOREM TheTableIsOfOnePass == Spec => []CellsAreOfOnePass
BY WholeAlways, WholeSuffices, PTL

\* A larger amount is never printed as a smaller one, in any format and across
\* every change of unit, nor a share as nothing, for all amounts.
THEOREM FiguresAreTrue == Spec => FiguresKeepOrder
<1>1. Whole /\ Whole' =>
        [OrderKept(amount, amount') /\ ShareIsHonest(amount')]_amount
  <2> SUFFICES ASSUME Whole, Whole'
               PROVE  OrderKept(amount, amount') /\ ShareIsHonest(amount')
    OBVIOUS
  <2>1. amount \in Nat /\ amount' \in Nat
    BY PagesAssumption DEF Whole, NoteTyped
  <2> QED
    BY <2>1, FiguresAreInOrder
<1> QED
  BY <1>1, WholeAlways, PTL DEF Spec, FiguresKeepOrder

\* The phone of the pages is a phone of EnrolmentSpec.
THEOREM ThePhoneIsKnown == Spec => []EnrolmentInv
<1>1. Init => EnrolmentInit
  BY DEF Init
<1>2. [Next]_vars => [EnrolmentNext]_enrolment
  BY PartsStep
<1>3. Spec => EnrolmentSpec
  BY <1>1, <1>2, PTL DEF Spec, EnrolmentSpec
<1> QED
  BY <1>3, PhoneIsKnown, PTL

\* Nothing of the note is swallowed, for any document and any text of it: each
\* loop has an invariant, that what it has made so far is what there was so far.
THEOREM NothingIsSwallowed == Spec => []TextIsKept
<1>1. NoteTyped => TextIsKept
  <2> SUFFICES ASSUME NoteTyped PROVE TextIsKept
    OBVIOUS
  <2>1. LinesAreKept(doc)
    BY NoteIsKept DEF NoteTyped
  <2>2. text \in Seq(Marks \cup {"word", "other"})
    BY DEF NoteTyped
  <2>3. WordsAreKept(text)
    BY <2>2, TextIsWhole
  <2> QED
    BY <2>1, <2>3 DEF TextIsKept
<1>2. Whole => TextIsKept
  BY <1>1 DEF Whole
<1> QED
  BY <1>2, WholeAlways, PTL

\* What the server makes of the readings is one story on every page, and the
\* fleet is shown as it is, for any hexagons, operators, handsets and readings,
\* any places, distances and identities, and any upload: colours, legend and
\* figures agree, the state of a hexagon is that of its middle reading, a
\* drop is told exactly when it may be and there was one, the markers count each
\* phone that reports once, and an upload loses the records its rule names only.
THEOREM TheSurveyIsTold == Spec => []SurveyIsTold
<1>1. ASSUME SurveySound, CrewKnown, batch \in Seq(Records) PROVE SurveyIsTold
  <2>1. SurveyTypeOK /\ OneMeaningPerColour /\ FiguresAgree
    BY <1>1, SurveyTypes, ColoursHold, FiguresHold
  <2>2. MajorityDecides /\ DropoutsAreTold
    BY <1>1, MajorityHolds, DropoutsHold
  <2>3. UploadIsJudgedByRule
    BY <1>1, JudgedByRule
  <2>4. FleetIsShown
    BY <1>1, FleetHolds
  <2> QED
    BY <2>1, <2>2, <2>3, <2>4 DEF SurveyIsTold
<1>2. Whole => SurveyIsTold
  BY <1>1 DEF Whole, NoteTyped
<1> QED
  BY <1>2, WholeAlways, PTL

============================================================================
