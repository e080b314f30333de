--------------------------- MODULE AccountsProofs ---------------------------
(***************************************************************************)
(* Theorems about Accounts, for every set of accounts, handsets, networks  *)
(* and requests.  Two hold however many requests overlap; the others hold  *)
(* as long as no two do, and fail otherwise (README.md, Disagreements).    *)
(***************************************************************************)
EXTENDS Accounts, TLAPS

-----------------------------------------------------------------------------
(* Types *)

RequestKinds == {"signin", "decision", "role", "credit", "devices"}
AllBodies == {Nobody} \cup UNION {Bodies(kind) : kind \in RequestKinds}
Pairs == Users \X Handsets

RequestRecords ==
  [pc : {"done", "load", "count", "taken", "doom", "delete", "commit", "fetch", "store"},
   kind : RequestKinds \cup {"none"}, actor : Users \cup {Nobody},
   target : Users \cup {Nobody}, body : AllBodies,
   loaded : Accounts, wanted : Accounts, doomed : SUBSET Pairs, deleted : SUBSET Pairs]

\* A request between two of its statements.
Requesting(r) ==
  /\ r.kind \in RequestKinds
  /\ r.actor \in Users /\ r.target \in Users
  /\ r.body \in Bodies(r.kind)

RequestShape(r) ==
  /\ r \in RequestRecords
  /\ r.pc # "done" => Requesting(r)

\* The type invariant made inductive: what a request carries has its types too.
Typed ==
  /\ TypeOK
  /\ request = [s \in Slots |-> request[s]]
  /\ \A s \in Slots : RequestShape(request[s])

LEMMA DoneShape == RequestShape(Done)
BY DEF RequestShape, RequestRecords, AllBodies, Done, Accounts, NoAccount, Roles, Statuses,
   Nobody

\* Every handler leaves a row of the table's types.
LEMMA WantedType ==
  ASSUME NEW r, Requesting(r), NEW row \in Accounts
  PROVE  Wanted(r, row) \in Accounts
<1>1. CASE r.kind = "signin"
  BY <1>1 DEF Wanted, SignedIn, Accounts, NoAccount, Roles, Statuses, Configuration, Nobody
<1>2. CASE r.kind = "decision"
  BY <1>2 DEF Wanted, Requesting, Bodies, Accounts, Statuses
<1>3. CASE r.kind = "role"
  BY <1>3 DEF Wanted, RoleChanged, Requesting, Bodies, Accounts, Roles
<1>4. CASE r.kind = "credit"
  BY <1>4 DEF Wanted, CreditChanged, Requesting, Bodies, Accounts
<1>5. CASE r.kind = "devices"
  BY <1>5 DEF Wanted
<1> QED
  BY <1>1, <1>2, <1>3, <1>4, <1>5 DEF Requesting, RequestKinds

LEMMA MergeType ==
  ASSUME NEW a \in Accounts, NEW b \in Accounts, NEW c \in Accounts
  PROVE  Merge(a, b, c) \in Accounts
BY DEF Merge, Accounts

\* A request that goes on, or stops, keeps the types when what it carries has them.
LEMMA GotoType ==
  ASSUME Typed, NEW s \in Slots, NEW p, NEW r, Goto(s, p, r), RequestShape([r EXCEPT !.pc = p])
  PROVE  Typed'
<1>1. \A t \in Slots : request'[t] = IF t = s THEN [r EXCEPT !.pc = p] ELSE request[t]
  BY DEF Goto, Typed
<1>2. \A t \in Slots : RequestShape(request'[t])
  BY <1>1 DEF Typed
<1>3. request' = [t \in Slots |-> request'[t]]
  BY DEF Goto, Typed
<1>4. TypeOK'
  BY <1>2 DEF Goto, Typed, TypeOK, RequestShape, RequestRecords, Pairs
<1> QED
  BY <1>2, <1>3, <1>4 DEF Typed

LEMMA RefuseType ==
  ASSUME Typed, NEW s \in Slots, Refuse(s)
  PROVE  Typed'
<1>1. [Done EXCEPT !.pc = "done"] = Done
  BY DEF Done
<1> QED
  BY <1>1, DoneShape, GotoType DEF Refuse

LEMMA InitTyped == Init => Typed
<1> SUFFICES ASSUME Init PROVE Typed
  OBVIOUS
<1>1. \A s \in Slots : request[s] = Done
  BY DEF Init
<1>2. TypeOK
  BY <1>1, DoneShape, ConstantsAssumption DEF Init, TypeOK, Accounts, RequestShape, RequestRecords, Pairs
<1> QED
  BY <1>1, <1>2, DoneShape DEF Typed, Init

\* A row is written and the request goes on or stops.
LEMMA RowWritten ==
  ASSUME Typed, NEW s \in Slots, NEW u \in Users, NEW row \in Accounts, NEW r,
         account' = account \/ account' = [account EXCEPT ![u] = row],
         request' = [request EXCEPT ![s] = r], RequestShape(r),
         granters' \in [Users -> SUBSET (Users \cup {Nobody})],
         UNCHANGED <<owns, assigned>>
  PROVE  Typed'
<1>1. \A t \in Slots : request'[t] = IF t = s THEN r ELSE request[t]
  BY DEF Typed
<1>2. \A t \in Slots : RequestShape(request'[t])
  BY <1>1 DEF Typed
<1>3. request' = [t \in Slots |-> request'[t]]
  BY DEF Typed
<1>4. account' \in [Users -> Accounts]
  BY DEF Typed, TypeOK
<1>5. TypeOK'
  BY <1>2, <1>4 DEF Typed, TypeOK, RequestShape, RequestRecords, Pairs
<1> QED
  BY <1>2, <1>3, <1>5 DEF Typed

LEMMA BeginType ==
  ASSUME Typed, NEW s \in Slots, NEW kind \in Kinds, NEW actor \in Users, NEW target \in Users,
         NEW body \in Bodies(kind), Begin(s, kind, actor, target, body)
  PROVE  Typed'
<1> DEFINE r == [Done EXCEPT !.kind = kind, !.actor = actor, !.target = target, !.body = body]
<1>1. kind \in {"signin", "decision", "role", "credit", "devices"}
  BY ConstantsAssumption
<1>2. body \in AllBodies
  BY <1>1 DEF AllBodies, RequestKinds
<1>3. Done \in RequestRecords
  BY DoneShape DEF RequestShape
<1>4. RequestShape([r EXCEPT !.pc = "load"])
  BY <1>1, <1>2, <1>3 DEF RequestShape, RequestRecords, Requesting, RequestKinds
<1>5. Goto(s, "load", r)
  BY DEF Begin
<1> HIDE DEF r
<1> QED
  BY <1>4, <1>5, GotoType

LEMMA LoadType ==
  ASSUME Typed, NEW s \in Slots, Load(s)
  PROVE  Typed'
<1> DEFINE r == request[s]
<1> DEFINE row == account[r.target]
<1> DEFINE next == CASE r.kind = "devices" -> "taken"
                     [] MustCount(r, row) -> "count"
                     [] OTHER -> "commit"
<1> DEFINE q == [r EXCEPT !.loaded = row, !.wanted = Wanted(r, row)]
<1>1. RequestShape(r) /\ Requesting(r)
  BY DEF Typed, RequestShape, RequestRecords, Load
<1>2. row \in Accounts
  BY <1>1 DEF Requesting, Typed, TypeOK
<1>3. Wanted(r, row) \in Accounts
  BY <1>1, <1>2, WantedType
<1>4. next \in {"taken", "count", "commit"}
  OBVIOUS
<1>5. Refuse(s) \/ Goto(s, next, q)
  BY DEF Load
<1> HIDE DEF next
<1>6. RequestShape([q EXCEPT !.pc = next])
  <2> DEFINE w == Wanted(r, row)
  <2> w \in Accounts
    BY <1>3
  <2> HIDE DEF w, row, r
  <2> QED
    BY <1>1, <1>2, <1>4 DEF RequestShape, RequestRecords, Requesting, w
<1> HIDE DEF q
<1> QED
  BY <1>5, <1>6, GotoType, RefuseType

LEMMA CommitRowType ==
  ASSUME Typed, NEW s \in Slots, CommitRow(s)
  PROVE  Typed'
<1> DEFINE r == request[s]
<1> DEFINE row == Merge(account[r.target], r.loaded, r.wanted)
<1> DEFINE fetch == r.kind = "credit" /\ r.body /\ ~r.wanted.portrait
<1> DEFINE q == IF fetch THEN [r EXCEPT !.pc = "fetch"] ELSE Done
<1>1. RequestShape(r) /\ Requesting(r)
  BY DEF Typed, RequestShape, RequestRecords, CommitRow
<1>2. row \in Accounts
  BY <1>1, MergeType DEF Requesting, RequestShape, RequestRecords, Typed, TypeOK
<1>3. RequestShape(q)
  <2> HIDE DEF fetch, r
  <2> QED
    BY <1>1, DoneShape DEF RequestShape, RequestRecords, Requesting
<1>4. granters' \in [Users -> SUBSET (Users \cup {Nobody})]
  <2>1. granters' = [granters EXCEPT ![r.target] =
                       Granters(@, r, account[r.target], account'[r.target])]
    BY DEF CommitRow
  <2>2. r.target \in Users /\ r.actor \in Users
    BY <1>1 DEF Requesting
  <2>3. Granters(granters[r.target], r, account[r.target], account'[r.target])
          \subseteq Users \cup {Nobody}
    BY <2>2 DEF Granters, Typed, TypeOK
  <2> HIDE DEF r
  <2> QED
    BY <2>1, <2>2, <2>3 DEF Typed, TypeOK
<1>5. /\ account' = account \/ account' = [account EXCEPT ![r.target] = row]
      /\ request' = [request EXCEPT ![s] = q]
      /\ UNCHANGED <<owns, assigned>>
  BY DEF CommitRow
<1>6. r.target \in Users
  BY <1>1 DEF Requesting
<1> HIDE DEF row, q, r
<1> QED
  BY <1>2, <1>3, <1>4, <1>5, <1>6, RowWritten

\* The remaining statements of a request only move it on.
LEMMA MoveType ==
  ASSUME Typed, NEW s \in Slots,
         CountSuperAdmins(s) \/ FetchPortrait(s) \/ Taken(s) \/ Doom(s) \/ Delete(s)
  PROVE  Typed'
<1> DEFINE r == request[s]
<1>1. RequestShape(r) /\ Requesting(r)
  BY DEF Typed, RequestShape, RequestRecords, CountSuperAdmins, FetchPortrait, Taken, Doom, Delete
<1>2. CASE CountSuperAdmins(s)
  <2>1. RequestShape([r EXCEPT !.pc = "commit"])
    BY <1>1 DEF RequestShape, RequestRecords, Requesting
  <2> QED
    BY <1>2, <2>1, GotoType, RefuseType DEF CountSuperAdmins
<1>3. CASE FetchPortrait(s)
  <2>1. RequestShape([r EXCEPT !.pc = "store"])
    BY <1>1 DEF RequestShape, RequestRecords, Requesting
  <2> QED
    BY <1>3, <2>1, GotoType, RefuseType DEF FetchPortrait
<1>4. CASE Taken(s)
  <2>1. RequestShape([r EXCEPT !.pc = "doom"])
    BY <1>1 DEF RequestShape, RequestRecords, Requesting
  <2> QED
    BY <1>4, <2>1, GotoType, RefuseType DEF Taken
<1>5. CASE Doom(s)
  <2> DEFINE D == OwnedBy(r.target)
  <2>1. D \subseteq Pairs
    BY DEF OwnedBy, Typed, TypeOK, Pairs
  <2>2. RequestShape([[r EXCEPT !.doomed = D] EXCEPT !.pc = "delete"])
    <3> HIDE DEF D, r
    <3> QED
      BY <1>1, <2>1 DEF RequestShape, RequestRecords, Requesting
  <2> QED
    BY <1>5, <2>2, GotoType DEF Doom
<1>6. CASE Delete(s)
  <2>1. RequestShape([[r EXCEPT !.deleted = r.doomed, !.doomed = {}] EXCEPT !.pc = "commit"])
    <3> HIDE DEF r
    <3> QED
      BY <1>1 DEF RequestShape, RequestRecords, Requesting
  <2> QED
    BY <1>6, <2>1, GotoType DEF Delete
<1> QED
  BY <1>2, <1>3, <1>4, <1>5, <1>6

LEMMA StorePortraitType ==
  ASSUME Typed, NEW s \in Slots, StorePortrait(s)
  PROVE  Typed'
<1> DEFINE u == request[s].target
<1> DEFINE row == [account[u] EXCEPT !.portrait = TRUE]
<1>1. u \in Users
  BY DEF Typed, RequestShape, RequestRecords, Requesting, StorePortrait
<1>2. row \in Accounts
  BY ZenonT(40), <1>1 DEF Typed, TypeOK, Accounts
<1>3. /\ account' = [account EXCEPT ![u] = row]
      /\ request' = [request EXCEPT ![s] = Done]
      /\ UNCHANGED <<owns, granters, assigned>>
  BY DEF StorePortrait
<1>4. granters' \in [Users -> SUBSET (Users \cup {Nobody})]
  BY <1>3 DEF Typed, TypeOK
<1> HIDE DEF row, u
<1> QED
  BY <1>1, <1>2, <1>3, <1>4, DoneShape, RowWritten

LEMMA CommitDevicesType ==
  ASSUME Typed, NEW s \in Slots, CommitDevices(s)
  PROVE  Typed'
<1> DEFINE r == request[s]
<1>1. RequestShape(r) /\ Requesting(r) /\ r.kind = "devices"
  BY DEF Typed, RequestShape, RequestRecords, CommitDevices
<1>2. r.target \in Users /\ r.body \subseteq Handsets
  BY <1>1 DEF Requesting, Bodies
<1>3. CASE Conflict(r)
  BY <1>3, RefuseType DEF CommitDevices
<1>4. CASE ~Conflict(r)
  <2>1. /\ owns' = (owns \ r.deleted) \cup ({r.target} \X r.body)
        /\ assigned' = [assigned EXCEPT ![r.target] = r.body]
        /\ request' = [t \in Slots |->
             IF t = s THEN Done ELSE [request[t] EXCEPT !.doomed = @ \ r.deleted]]
        /\ UNCHANGED <<account, granters>>
    BY <1>4 DEF CommitDevices
  <2>2. \A t \in Slots : RequestShape(request'[t])
    <3> SUFFICES ASSUME NEW t \in Slots, t # s
                 PROVE  RequestShape([request[t] EXCEPT !.doomed = @ \ r.deleted])
      BY <2>1, DoneShape
    <3> DEFINE q == request[t]
    <3> DEFINE D == q.doomed \ r.deleted
    <3>1. RequestShape(q) /\ D \subseteq Pairs
      BY DEF Typed, RequestShape, RequestRecords
    <3>2. RequestShape([q EXCEPT !.doomed = D])
      <4> HIDE DEF D, q
      <4> QED
        BY <3>1 DEF RequestShape, RequestRecords, Requesting
    <3> QED
      BY <3>2
  <2>3. TypeOK'
    BY <1>2, <2>1, <2>2 DEF Typed, TypeOK, RequestShape, RequestRecords, Pairs
  <2> QED
    BY <2>1, <2>2, <2>3 DEF Typed
<1> QED
  BY <1>3, <1>4

LEMMA StepTyped == Typed /\ [Next]_vars => Typed'
<1> SUFFICES ASSUME Typed, [Next]_vars PROVE Typed'
  OBVIOUS
<1>1. CASE UNCHANGED vars
  BY <1>1 DEF vars, Typed, TypeOK
<1>2. ASSUME NEW s \in Slots, Continue(s) PROVE Typed'
  BY <1>2, LoadType, CommitRowType, MoveType, StorePortraitType, CommitDevicesType
  DEF Continue
<1> QED
  BY <1>1, <1>2, BeginType DEF Next

\* The tables and every request in progress keep their types, whatever overlaps.
THEOREM TypeCorrect == Spec => []Typed
BY InitTyped, StepTyped, PTL DEF Spec

-----------------------------------------------------------------------------
(* Handsets *)

\* Only CommitDevices writes the table of handsets.
LEMMA OnlyCommitDevicesAssigns ==
  ASSUME NEW s \in Slots, Continue(s), ~CommitDevices(s)
  PROVE  UNCHANGED <<owns, assigned>>
BY DEF Continue, Load, CountSuperAdmins, CommitRow, FetchPortrait, StorePortrait, Taken, Doom,
   Delete, Refuse, Goto

\* A handset belongs to one account, however the checks of two assignments and their
\* commits interleave: what holds is the unique column, not the check.
THEOREM HandsetsHaveOneOwner == Spec => []OneOwner
<1>1. Init => OneOwner
  BY DEF Init, OneOwner
<1>2. Typed /\ OneOwner /\ [Next]_vars => OneOwner'
  <2> SUFFICES ASSUME Typed, OneOwner, [Next]_vars PROVE OneOwner'
    OBVIOUS
  <2>1. CASE UNCHANGED owns
    BY <2>1 DEF OneOwner
  <2>2. ASSUME NEW s \in Slots, CommitDevices(s) PROVE OneOwner'
    <3> DEFINE r == request[s]
    <3>1. CASE Conflict(r)
      BY <2>1, <2>2, <3>1 DEF CommitDevices, Refuse, Goto
    <3>2. CASE ~Conflict(r)
      <4>1. owns' = (owns \ r.deleted) \cup ({r.target} \X r.body)
        BY <2>2, <3>2 DEF CommitDevices
      <4>2. \A p \in owns \ r.deleted : p[2] \notin r.body
        BY <3>2 DEF Conflict
      <4> HIDE DEF r
      <4> SUFFICES ASSUME NEW p \in owns', NEW q \in owns', p[2] = q[2] PROVE p = q
        BY DEF OneOwner
      <4>3. CASE p \in owns \ r.deleted
        <5>1. q \in owns \ r.deleted
          BY <4>1, <4>2, <4>3
        <5> QED
          BY <4>3, <5>1 DEF OneOwner
      <4>4. CASE p \in {r.target} \X r.body
        <5>1. q \in {r.target} \X r.body
          BY <4>1, <4>2, <4>4
        <5> QED
          BY <4>4, <5>1
      <4> QED
        BY <4>1, <4>3, <4>4
    <3> QED
      BY <3>1, <3>2
  <2>3. ASSUME NEW s \in Slots, Continue(s) PROVE OneOwner'
    BY <2>1, <2>2, <2>3, OnlyCommitDevicesAssigns
  <2> QED
    BY <2>1, <2>3 DEF Next, vars, Begin, Goto
<1> QED
  BY <1>1, <1>2, TypeCorrect, PTL DEF Spec

-----------------------------------------------------------------------------
(* One request at a time *)

\* No two requests are ever in progress together.
OneAtATime == \A s, t \in Slots : s = t

\* The accounts of the beginning are such as earlier requests leave behind.
SoundBeginning ==
  /\ Nobody \notin Networks
  /\ \A u \in Users :
       /\ Beginning[u].role = "operator" => Beginning[u].network # Nobody
       /\ Beginning[u].portrait => Beginning[u].credited

\* What the request in progress knows is still so: the row it loaded is the row of the
\* table, what it writes is made of that, and what it deletes is all the account has.
Fresh(r) ==
  /\ r.pc \in {"count", "commit"} /\ r.kind # "devices" =>
       /\ r.loaded = account[r.target]
       /\ r.wanted = Wanted(r, r.loaded)
  /\ r.pc = "fetch" \/ r.pc = "store" => account[r.target].credited
  /\ r.pc \in {"load", "count", "taken", "doom"} => r.doomed = {} /\ r.deleted = {}
  /\ r.pc = "taken" \/ r.pc = "doom" \/ r.pc = "delete" => r.kind = "devices"
  /\ r.pc = "delete" => r.doomed = OwnedBy(r.target) /\ r.deleted = {}
  /\ r.pc = "commit" /\ r.kind = "devices" => r.deleted = OwnedBy(r.target)
  /\ r.pc = "count" => r.kind # "devices"

Serial == AccountsInv /\ \A s \in Slots : Fresh(request[s])

\* Given one slot, what a step leaves of the others' requests does not matter.
LEMMA SerialGoto ==
  ASSUME OneAtATime, Typed, Serial, NEW s \in Slots, NEW p, NEW r, Goto(s, p, r),
         Typed', Fresh([r EXCEPT !.pc = p])
  PROVE  Serial'
<1>1. UNCHANGED <<account, owns, granters, assigned>>
  BY DEF Goto
<1>2. AccountsInv'
  BY <1>1 DEF Serial, AccountsInv, Typed, GrantHasItsAuthor, OperatorNamesItsNetwork,
     PortraitOnlyWithCredit, ReplacedWholesale, OwnedBy
<1> DEFINE q == [r EXCEPT !.pc = p]
<1>3. \A t \in Slots : request'[t] = q
  BY DEF Goto, Typed, OneAtATime
<1>4. Fresh(q)
  OBVIOUS
<1> HIDE DEF q
<1>5. Fresh(q)'
  BY <1>1, <1>4 DEF Fresh, OwnedBy
<1>6. ASSUME NEW t \in Slots PROVE Fresh(request[t])'
  BY <1>3, <1>5 DEF Fresh, OwnedBy
<1> QED
  BY <1>2, <1>6 DEF Serial

LEMMA SerialRefuse ==
  ASSUME OneAtATime, Typed, Serial, NEW s \in Slots, Refuse(s), Typed'
  PROVE  Serial'
<1>1. Fresh([Done EXCEPT !.pc = "done"])
  BY DEF Fresh, Done
<1> QED
  BY <1>1, SerialGoto DEF Refuse

\* The steps that read.
LEMMA SerialReads ==
  ASSUME OneAtATime, Typed, Typed', Serial, NEW s \in Slots,
         Load(s) \/ CountSuperAdmins(s) \/ FetchPortrait(s) \/ Taken(s) \/ Doom(s) \/ Delete(s)
  PROVE  Serial'
<1> DEFINE r == request[s]
<1>1. Fresh(r) /\ r \in RequestRecords
  BY DEF Serial, Typed, RequestShape
<1>2. CASE Load(s)
  <2> DEFINE row == account[r.target]
  <2> DEFINE w == Wanted(r, row)
  <2> DEFINE next == CASE r.kind = "devices" -> "taken"
                       [] MustCount(r, row) -> "count"
                       [] OTHER -> "commit"
  <2> DEFINE q == [r EXCEPT !.loaded = row, !.wanted = w]
  <2>1. Refuse(s) \/ Goto(s, next, q)
    BY <1>2 DEF Load
  <2>2. \/ next = "taken" /\ r.kind = "devices"
        \/ next \in {"count", "commit"} /\ r.kind # "devices"
    <3>1. MustCount(r, row) => r.kind # "devices"
      BY DEF MustCount
    <3>2. MustCount(r, row) \in BOOLEAN
      BY DEF MustCount
    <3>3. CASE r.kind = "devices"
      BY <3>1, <3>2, <3>3
    <3>4. CASE r.kind # "devices"
      BY <3>2, <3>4
    <3> QED
      BY <3>3, <3>4
  <2>3. w = Wanted([q EXCEPT !.pc = next], row)
    <3> HIDE DEF next, row
    <3> QED
      BY <1>1 DEF RequestRecords, Wanted, RoleChanged, CreditChanged
  <2>4. Fresh([q EXCEPT !.pc = next])
    <3> DEFINE e == [q EXCEPT !.pc = next]
    <3> SUFFICES Fresh(e)
      OBVIOUS
    <3>1. /\ e.pc = next /\ e.loaded = row /\ e.wanted = w /\ e.kind = r.kind
          /\ e.target = r.target /\ e.doomed = r.doomed /\ e.deleted = r.deleted
      <4> HIDE DEF next, row, w
      <4> QED
        BY <1>1 DEF RequestRecords
    <3>2. e.wanted = Wanted(e, e.loaded)
      BY <2>3, <3>1
    <3>3. r.pc = "load" /\ r.doomed = {} /\ r.deleted = {}
      BY <1>1, <1>2 DEF Fresh, Load
    <3>4. e.loaded = account[e.target]
      BY <3>1
    <3> HIDE DEF e, next, row, w
    <3> QED
      BY <2>2, <3>1, <3>2, <3>3, <3>4 DEF Fresh
  <2> HIDE DEF q, next
  <2> QED
    BY <2>1, <2>4, SerialGoto, SerialRefuse
<1>3. CASE CountSuperAdmins(s)
  <2>1. Fresh([r EXCEPT !.pc = "commit"])
    <3> DEFINE e == [r EXCEPT !.pc = "commit"]
    <3> SUFFICES Fresh(e)
      OBVIOUS
    <3>1. Wanted(e, e.loaded) = Wanted(r, r.loaded)
      BY <1>1 DEF RequestRecords, Wanted, RoleChanged, CreditChanged
    <3>2. /\ e.pc = "commit" /\ e.loaded = r.loaded /\ e.wanted = r.wanted
          /\ e.kind = r.kind /\ e.target = r.target
      BY <1>1 DEF RequestRecords
    <3>3. r.pc = "count"
      BY <1>3 DEF CountSuperAdmins
    <3> HIDE DEF e
    <3> QED
      BY <1>1, <3>1, <3>2, <3>3 DEF Fresh
  <2> QED
    BY <1>3, <2>1, SerialGoto, SerialRefuse DEF CountSuperAdmins
<1>4. CASE FetchPortrait(s)
  <2>1. Fresh([r EXCEPT !.pc = "store"])
    BY <1>1, <1>4 DEF Fresh, FetchPortrait, RequestRecords
  <2> QED
    BY <1>4, <2>1, SerialGoto, SerialRefuse DEF FetchPortrait
<1>5. CASE Taken(s)
  <2>1. Fresh([r EXCEPT !.pc = "doom"])
    BY <1>1, <1>5 DEF Fresh, Taken, RequestRecords
  <2> QED
    BY <1>5, <2>1, SerialGoto, SerialRefuse DEF Taken
<1>6. CASE Doom(s)
  <2>1. Fresh([[r EXCEPT !.doomed = OwnedBy(r.target)] EXCEPT !.pc = "delete"])
    <3> DEFINE D == OwnedBy(r.target)
    <3> DEFINE e == [[r EXCEPT !.doomed = D] EXCEPT !.pc = "delete"]
    <3>1. /\ e.pc = "delete" /\ e.doomed = D /\ e.deleted = r.deleted
          /\ e.kind = r.kind /\ e.target = r.target
      <4> HIDE DEF D
      <4> QED
        BY <1>1 DEF RequestRecords
    <3>2. r.pc = "doom" /\ r.kind = "devices" /\ r.deleted = {}
      BY <1>1, <1>6 DEF Fresh, Doom
    <3> HIDE DEF e
    <3> QED
      BY <3>1, <3>2 DEF Fresh
  <2> QED
    BY <1>6, <2>1, SerialGoto DEF Doom
<1>7. CASE Delete(s)
  <2>1. Fresh([[r EXCEPT !.deleted = r.doomed, !.doomed = {}] EXCEPT !.pc = "commit"])
    <3> DEFINE e == [[r EXCEPT !.deleted = r.doomed, !.doomed = {}] EXCEPT !.pc = "commit"]
    <3>1. /\ e.pc = "commit" /\ e.deleted = r.doomed
          /\ e.kind = r.kind /\ e.target = r.target
      BY <1>1 DEF RequestRecords
    <3>2. r.kind = "devices" /\ r.doomed = OwnedBy(r.target)
      BY <1>1, <1>7 DEF Fresh, Delete
    <3> HIDE DEF e
    <3> QED
      BY <3>1, <3>2 DEF Fresh
  <2> QED
    BY <1>7, <2>1, SerialGoto DEF Delete
<1> QED
  BY <1>2, <1>3, <1>4, <1>5, <1>6, <1>7

\* The steps that write a row.
LEMMA SerialCommitRow ==
  ASSUME OneAtATime, SoundBeginning, Typed, Typed', Serial, NEW s \in Slots, CommitRow(s)
  PROVE  Serial'
<1> DEFINE r == request[s]
<1> DEFINE u == r.target
<1> DEFINE row == account[u]
<1> DEFINE new == Wanted(r, row)
<1>1. /\ Fresh(r) /\ Requesting(r) /\ r \in RequestRecords
      /\ r.pc = "commit" /\ r.kind # "devices"
  BY DEF Serial, Typed, RequestShape, CommitRow
<1>2. /\ r.loaded = row /\ r.wanted = new /\ u \in Users /\ r.actor \in Users
      /\ row \in Accounts /\ new \in Accounts
  BY <1>1, WantedType DEF Fresh, Requesting, Typed, TypeOK
<1>3. Merge(row, r.loaded, r.wanted) = new
  <2> HIDE DEF new, row
  <2>1. Merge(row, row, new) = new
    BY <1>2 DEF Merge, Accounts
  <2> QED
    BY <1>2, <2>1
<1>4. account' = [account EXCEPT ![u] = new]
  <2>1. ~(r.loaded.status = "absent" /\ row.status # "absent")
    BY <1>2
  <2> QED
    BY <1>3, <2>1 DEF CommitRow
<1>5. /\ granters' = [granters EXCEPT ![u] = Granters(@, r, row, new)]
      /\ UNCHANGED <<owns, assigned>>
  BY <1>2, <1>4 DEF CommitRow, Typed, TypeOK
<1>6. /\ \A v \in Users \ {u} : account'[v] = account[v] /\ granters'[v] = granters[v]
      /\ account'[u] = new /\ granters'[u] = Granters(granters[u], r, row, new)
  <2> HIDE DEF new, r, row
  <2> QED
    BY <1>2, <1>4, <1>5 DEF Typed, TypeOK, u
<1>7. /\ row.role = "operator" => row.roleBy \in granters[u] /\ row.network # Nobody
      /\ row.portrait => row.credited
  BY <1>2 DEF Serial, AccountsInv, GrantHasItsAuthor, OperatorNamesItsNetwork,
     PortraitOnlyWithCredit
<1> HIDE DEF row, u
<1>8. /\ new.role = "operator" => new.network # Nobody
      /\ new.portrait => new.credited
  BY <1>1, <1>2, <1>7, DoneShape
  DEF Wanted, SignedIn, RoleChanged, CreditChanged, NoAccount, Requesting, RequestKinds,
      Bodies, Accounts, SoundBeginning, Configuration, Roles
<1>9. new.role = "operator" => new.roleBy \in Granters(granters[u], r, row, new)
  <2>1. CASE r.kind = "role"
    <3>1. new.roleBy = r.actor
      BY <1>2, <2>1 DEF Wanted, RoleChanged, Accounts
    <3> HIDE DEF new
    <3> QED
      BY <1>2, <2>1, <3>1 DEF Granters
  <2>2. CASE r.kind # "role" /\ new.role = "operator"
    <3>1. new.role = row.role /\ new.network = row.network /\ new.roleBy = row.roleBy
      BY <1>1, <1>2, <2>2
      DEF Wanted, SignedIn, CreditChanged, NoAccount, Requesting, RequestKinds, Bodies, Accounts
    <3> HIDE DEF new
    <3> QED
      BY <1>7, <2>2, <3>1 DEF Granters
  <2> QED
    BY <2>1, <2>2
<1> HIDE DEF new
<1>10. AccountsInv'
  BY <1>5, <1>6, <1>8, <1>9
  DEF Serial, AccountsInv, Typed, GrantHasItsAuthor, OperatorNamesItsNetwork,
      PortraitOnlyWithCredit, ReplacedWholesale, OwnedBy
<1>11. Fresh(request[s])'
  <2>1. CASE r.kind = "credit" /\ r.body /\ ~r.wanted.portrait
    <3>1. request'[s] = [r EXCEPT !.pc = "fetch"]
      BY <2>1 DEF CommitRow, Typed
    <3>2. new.credited
      BY <1>2, <2>1 DEF new, Wanted, CreditChanged, Accounts
    <3>3. request'[s].pc = "fetch" /\ request'[s].target = u
      BY <1>1, <3>1 DEF RequestRecords, u
    <3> QED
      BY <1>6, <3>2, <3>3 DEF Fresh
  <2>2. CASE ~(r.kind = "credit" /\ r.body /\ ~r.wanted.portrait)
    <3>1. request'[s] = Done
      BY <2>2 DEF CommitRow, Typed
    <3> QED
      BY <3>1 DEF Fresh, Done
  <2> QED
    BY <2>1, <2>2
<1> QED
  BY <1>10, <1>11 DEF Serial, OneAtATime

LEMMA SerialStorePortrait ==
  ASSUME OneAtATime, Typed, Typed', Serial, NEW s \in Slots, StorePortrait(s)
  PROVE  Serial'
<1> DEFINE u == request[s].target
<1>1. u \in Users /\ account[u].credited /\ account[u] \in Accounts
  BY DEF Serial, Fresh, StorePortrait, Typed, TypeOK, RequestShape, Requesting
<1>2. account' = [account EXCEPT ![u].portrait = TRUE] /\ UNCHANGED <<owns, granters, assigned>>
  BY DEF StorePortrait
<1>3. /\ \A v \in Users \ {u} : account'[v] = account[v]
      /\ account'[u].role = account[u].role /\ account'[u].network = account[u].network
      /\ account'[u].roleBy = account[u].roleBy /\ account'[u].credited
  <2> HIDE DEF u
  <2> QED
    BY <1>1, <1>2 DEF Typed, TypeOK, Accounts
<1>4. AccountsInv'
  <2> HIDE DEF u
  <2> QED
    BY <1>1, <1>2, <1>3
    DEF Serial, AccountsInv, Typed, GrantHasItsAuthor, OperatorNamesItsNetwork,
        PortraitOnlyWithCredit, ReplacedWholesale, OwnedBy
<1>5. \A t \in Slots : request'[t] = Done
  BY DEF StorePortrait, Typed, OneAtATime
<1> QED
  BY <1>4, <1>5 DEF Serial, Fresh, Done

LEMMA SerialCommitDevices ==
  ASSUME OneAtATime, Typed, Typed', Serial, NEW s \in Slots, CommitDevices(s)
  PROVE  Serial'
<1> DEFINE r == request[s]
<1> DEFINE u == r.target
<1>1. CASE Conflict(r)
  BY <1>1, SerialRefuse DEF CommitDevices
<1>2. CASE ~Conflict(r)
  <2>1. /\ owns' = (owns \ r.deleted) \cup ({u} \X r.body)
        /\ assigned' = [assigned EXCEPT ![u] = r.body]
        /\ \A t \in Slots : request'[t] = Done
        /\ UNCHANGED <<account, granters>>
    BY <1>2 DEF CommitDevices, Typed, OneAtATime
  <2>2. u \in Users /\ r.deleted = OwnedBy(u)
    BY DEF Serial, Fresh, Typed, RequestShape, Requesting, CommitDevices
  <2> HIDE DEF u
  <2>3. ReplacedWholesale'
    <3> SUFFICES ASSUME NEW v \in Users PROVE OwnedBy(v)' = {v} \X assigned'[v]
      BY DEF ReplacedWholesale
    <3>1. OwnedBy(v) = {v} \X assigned[v]
      BY DEF Serial, AccountsInv, ReplacedWholesale
    <3>2. CASE v = u
      BY <2>1, <2>2, <3>2 DEF OwnedBy, Typed, TypeOK
    <3>3. CASE v # u
      BY <2>1, <2>2, <3>1, <3>3 DEF OwnedBy, Typed, TypeOK
    <3> QED
      BY <3>2, <3>3
  <2>4. AccountsInv'
    BY <2>1, <2>3
    DEF Serial, AccountsInv, Typed, GrantHasItsAuthor, OperatorNamesItsNetwork,
        PortraitOnlyWithCredit
  <2> QED
    BY <2>1, <2>4 DEF Serial, Fresh, Done
<1> QED
  BY <1>1, <1>2

LEMMA SerialBegin ==
  ASSUME OneAtATime, Typed, Typed', Serial, NEW s \in Slots, NEW kind \in Kinds,
         NEW actor \in Users, NEW target \in Users, NEW body \in Bodies(kind),
         Begin(s, kind, actor, target, body)
  PROVE  Serial'
<1> DEFINE r == [Done EXCEPT !.kind = kind, !.actor = actor, !.target = target, !.body = body]
<1>1. Goto(s, "load", r)
  BY DEF Begin
<1>2. Fresh([r EXCEPT !.pc = "load"])
  BY DEF Fresh, Done
<1> HIDE DEF r
<1> QED
  BY <1>1, <1>2, SerialGoto

LEMMA StepSerial ==
  ASSUME OneAtATime, SoundBeginning
  PROVE  Typed /\ Typed' /\ Serial /\ [Next]_vars => Serial'
<1> SUFFICES ASSUME Typed, Typed', Serial, [Next]_vars PROVE Serial'
  OBVIOUS
<1>1. CASE UNCHANGED vars
  BY <1>1 DEF vars, Serial, AccountsInv, Typed, GrantHasItsAuthor, OperatorNamesItsNetwork,
     PortraitOnlyWithCredit, ReplacedWholesale, OwnedBy, Fresh
<1>2. ASSUME NEW s \in Slots, Continue(s) PROVE Serial'
  BY <1>2, SerialReads, SerialCommitRow, SerialStorePortrait, SerialCommitDevices DEF Continue
<1> QED
  BY <1>1, <1>2, SerialBegin DEF Next

\* As long as no two requests of administrators overlap, every account stays
\* consistent: a grant has its author, a network account its network, a portrait goes with
\* the credit, and an assignment of handsets is the whole of what is owned.
THEOREM SerialAccountsAreConsistent ==
  ASSUME OneAtATime, SoundBeginning
  PROVE  Spec => []AccountsInv
<1>1. Init => Serial
  <2> SUFFICES ASSUME Init PROVE Serial
    OBVIOUS
  <2>1. TypeOK
    BY InitTyped DEF Typed
  <2>2. \A s \in Slots : Fresh(request[s])
    BY DEF Init, Fresh, Done
  <2>3. ReplacedWholesale
    BY DEF Init, ReplacedWholesale, OwnedBy
  <2>4. GrantHasItsAuthor /\ OperatorNamesItsNetwork /\ PortraitOnlyWithCredit
    BY DEF Init, SoundBeginning, GrantHasItsAuthor, OperatorNamesItsNetwork,
       PortraitOnlyWithCredit
  <2> QED
    BY <2>1, <2>2, <2>3, <2>4 DEF Serial, AccountsInv
<1>2. Typed /\ Typed' /\ Serial /\ [Next]_vars => Serial'
  BY StepSerial
<1>3. Serial => AccountsInv
  BY DEF Serial
<1> QED
  BY <1>1, <1>2, <1>3, TypeCorrect, PTL DEF Spec

=============================================================================
