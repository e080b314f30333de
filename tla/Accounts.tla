------------------------------ MODULE Accounts ------------------------------
(***************************************************************************)
(* Who may use the platform: sign-in, decisions, roles, credits and the    *)
(* handsets of collectors (api/v1/users.py, services/auth.py,              *)
(* services/credits.py).                                                   *)
(*                                                                         *)
(* Requests run concurrently at READ COMMITTED.  Each statement sees what  *)
(* had committed when it began; a row is written when the request commits, *)
(* and the ORM writes only the columns whose value differs from the one it *)
(* loaded.                                                                 *)
(*                                                                         *)
(* Definitions whose names begin with Faulty are deliberate mistakes that  *)
(* no specification uses; they confirm that the properties notice them.    *)
(***************************************************************************)
EXTENDS Integers, FiniteSets

CONSTANTS
  Users,
  Listed,         \* SUPER_ADMIN_EMAILS
  Handsets,       \* enrolled devices
  Networks,
  Slots,          \* bound: requests in progress at the same time
  Kinds,          \* bound: the kinds of request that are made
  Beginning       \* the accounts at the beginning

Roles == {"super_admin", "admin", "operator", "collector"}
Statuses == {"pending", "approved", "rejected"}
Nobody == "nobody"
Configuration == "configuration"

\* A row of the users table; status "absent" is no row.
Accounts ==
  [role : Roles, status : Statuses \cup {"absent"}, network : Networks \cup {Nobody},
   decidedBy : Users \cup {Nobody, Configuration}, roleBy : Users \cup {Nobody},
   credited : BOOLEAN, portrait : BOOLEAN]

ASSUME ConstantsAssumption ==
  /\ Listed \subseteq Users
  /\ Kinds \subseteq {"signin", "decision", "role", "credit", "devices"}
  /\ Beginning \in [Users -> Accounts]

VARIABLES
  account,        \* the users table
  owns,           \* the user_devices table: pairs <<user, handset>>
  request,        \* the request in each slot
  granters,       \* history: who has asked for the role and network an account now has
  assigned        \* history: what the last assignment of handsets asked for

vars == <<account, owns, request, granters, assigned>>

NoAccount == [role |-> "admin", status |-> "absent", network |-> Nobody, decidedBy |-> Nobody,
              roleBy |-> Nobody, credited |-> FALSE, portrait |-> FALSE]

\* loaded is the target's row as the ORM read it, wanted the row the handler leaves,
\* doomed what a DELETE has picked, deleted what it has deleted.
Done == [pc |-> "done", kind |-> "none", actor |-> Nobody, target |-> Nobody,
         body |-> Nobody, loaded |-> NoAccount, wanted |-> NoAccount,
         doomed |-> {}, deleted |-> {}]

Bodies(kind) ==
  CASE kind = "signin"   -> {Nobody}
    [] kind = "decision" -> Statuses
    [] kind = "role"     -> (Roles \ {"operator"}) \cup Networks
    [] kind = "credit"   -> BOOLEAN
    [] kind = "devices"  -> SUBSET Handsets

isSuperAdmin(row) == row.role = "super_admin" /\ row.status = "approved"

ApprovedSuperAdmins == {u \in Users : isSuperAdmin(account[u])}

OwnedBy(u) == {p \in owns : p[1] = u}

-----------------------------------------------------------------------------
Init ==
  /\ account = Beginning
  /\ owns = {}
  /\ request = [s \in Slots |-> Done]
  /\ granters = [u \in Users |-> {Beginning[u].roleBy}]
  /\ assigned = [u \in Users |-> {}]

-----------------------------------------------------------------------------
\* The request in slot s goes on at pc, changed to r; it stops when it is refused.
Goto(s, pc, r) ==
  /\ request' = [request EXCEPT ![s] = [r EXCEPT !.pc = pc]]
  /\ UNCHANGED <<account, owns, granters, assigned>>

Refuse(s) == Goto(s, "done", Done)

\* Every request begins with the guard: the actor's row is read and must be an
\* approved super admin's.  Signing in is open to everybody.
Begin(s, kind, actor, target, body) ==
  /\ request[s].pc = "done"
  /\ IF kind = "signin" THEN actor = target ELSE isSuperAdmin(account[actor])
  /\ Goto(s, "load", [Done EXCEPT !.kind = kind, !.actor = actor, !.target = target,
                                  !.body = body])

\* _refuse_self
RefuseSelf(r) == r.kind \in {"decision", "role"} /\ r.actor = r.target

\* heading_for
Creditable(role) == role \in {"admin", "super_admin"}

\* The refusals that need only the target's row.
Refused(r, row) ==
  /\ r.kind # "signin"
  /\ \/ row.status = "absent"
     \/ RefuseSelf(r)
     \/ r.kind = "credit" /\ r.body /\ ~Creditable(row.role)
     \/ r.kind = "devices" /\ row.role # "collector"

\* _refuse_last_super_admin has to count.
MustCount(r, row) ==
  /\ isSuperAdmin(row)
  /\ \/ r.kind = "decision" /\ r.body # "approved"
     \/ r.kind = "role" /\ r.body # "super_admin"

\* Mistake: signing in changes an existing account no more.
FaultySignedIn(u, row) ==
  CASE row.status # "absent" -> row
    [] u \in Listed -> [NoAccount EXCEPT !.role = "super_admin", !.status = "approved",
                                         !.decidedBy = Configuration]
    [] OTHER -> [NoAccount EXCEPT !.status = "pending"]

\* upsert_user_from_claims
SignedIn(u, row) ==
  CASE row.status = "absent" /\ u \in Listed ->
         [NoAccount EXCEPT !.role = "super_admin", !.status = "approved",
                           !.decidedBy = Configuration]
    [] row.status = "absent" /\ u \notin Listed -> [NoAccount EXCEPT !.status = "pending"]
    [] row.status # "absent" /\ u \in Listed ->
         [row EXCEPT !.role = "super_admin", !.status = "approved",
                     !.decidedBy = IF row.status = "approved" THEN @ ELSE Configuration]
    [] OTHER -> row

\* Mistake: the network of an operator is never filled in.
FaultyRoleChanged(r, row) ==
  [row EXCEPT !.role = IF r.body \in Networks THEN "operator" ELSE r.body,
              !.network = Nobody, !.decidedBy = r.actor, !.roleBy = r.actor]

\* Mistake: a change of role is entered as a decision only.
FaultyRoleChangedUnsigned(r, row) ==
  [row EXCEPT !.role = IF r.body \in Networks THEN "operator" ELSE r.body,
              !.network = IF r.body \in Networks THEN r.body ELSE Nobody, !.decidedBy = r.actor]

\* Mistake: the network is entered as the role.
FaultyRoleChangedVerbatim(r, row) ==
  [row EXCEPT !.role = r.body, !.network = IF r.body \in Networks THEN r.body ELSE Nobody,
              !.decidedBy = r.actor, !.roleBy = r.actor]

\* set_role
RoleChanged(r, row) ==
  [row EXCEPT !.role = IF r.body \in Networks THEN "operator" ELSE r.body,
              !.network = IF r.body \in Networks THEN r.body ELSE Nobody,
              !.decidedBy = r.actor, !.roleBy = r.actor]

\* Mistake: taking somebody off the credits leaves the portrait.
FaultyCreditChanged(r, row) == [row EXCEPT !.credited = r.body]

\* set_credit
CreditChanged(r, row) == [row EXCEPT !.credited = r.body, !.portrait = @ /\ r.body]

\* The row as the handler leaves it.
Wanted(r, row) ==
  CASE r.kind = "signin" -> SignedIn(r.target, row)
    [] r.kind = "decision" -> [row EXCEPT !.status = r.body, !.decidedBy = r.actor]
    [] r.kind = "role" -> RoleChanged(r, row)
    [] r.kind = "credit" -> CreditChanged(r, row)
    [] OTHER -> row

Load(s) ==
  /\ request[s].pc = "load"
  /\ LET r == request[s]
         row == account[r.target]
         next == CASE r.kind = "devices" -> "taken"
                   [] MustCount(r, row) -> "count"
                   [] OTHER -> "commit"
     IN IF Refused(r, row)
        THEN Refuse(s)
        ELSE Goto(s, next, [r EXCEPT !.loaded = row, !.wanted = Wanted(r, row)])

CountSuperAdmins(s) ==
  /\ request[s].pc = "count"
  /\ IF Cardinality(ApprovedSuperAdmins) <= 1
     THEN Refuse(s)
     ELSE Goto(s, "commit", request[s])

-----------------------------------------------------------------------------
(* decide, set_role, set_credit and sign-in end by writing one row.         *)

\* The UPDATE sets the columns that differ from the row loaded.
Merge(current, loaded, wanted) ==
  [f \in DOMAIN current |-> IF wanted[f] = loaded[f] THEN current[f] ELSE wanted[f]]

\* History: those who asked for what the row now says.
Granters(granted, r, before, after) ==
  LET changed == <<before.role, before.network>> # <<after.role, after.network>>
      asked == r.kind = "role" /\ <<after.role, after.network>> = <<r.wanted.role, r.wanted.network>>
  IN (IF changed THEN {} ELSE granted) \cup (IF asked THEN {r.actor} ELSE {})

CommitRow(s) ==
  LET r == request[s]
      u == r.target
      conflict == r.loaded.status = "absent" /\ account[u].status # "absent"
      fetch == r.kind = "credit" /\ r.body /\ ~r.wanted.portrait
  IN /\ r.pc = "commit"
     /\ r.kind # "devices"
     /\ account' = IF conflict THEN account
                   ELSE [account EXCEPT ![u] = Merge(@, r.loaded, r.wanted)]
     /\ granters' = [granters EXCEPT ![u] = Granters(@, r, account[u], account'[u])]
     /\ request' = [request EXCEPT ![s] = IF fetch THEN [r EXCEPT !.pc = "fetch"] ELSE Done]
     /\ UNCHANGED <<owns, assigned>>

\* cache_avatar: the portrait is fetched from outside, which may fail, and stored.
FetchPortrait(s) ==
  /\ request[s].pc = "fetch"
  /\ Goto(s, "store", request[s]) \/ Refuse(s)

StorePortrait(s) ==
  /\ request[s].pc = "store"
  /\ account' = [account EXCEPT ![request[s].target].portrait = TRUE]
  /\ request' = [request EXCEPT ![s] = Done]
  /\ UNCHANGED <<owns, granters, assigned>>

-----------------------------------------------------------------------------
(* set_devices *)

Taken(s) ==
  /\ request[s].pc = "taken"
  /\ LET r == request[s]
     IN IF \E p \in owns : p[2] \in r.body /\ p[1] # r.target
        THEN Refuse(s)
        ELSE Goto(s, "doom", r)

\* Mistake: an assignment adds to what the account has.
FaultyDoom(s) ==
  /\ request[s].pc = "doom"
  /\ Goto(s, "delete", request[s])

\* The DELETE picks the rows its snapshot shows ...
Doom(s) ==
  /\ request[s].pc = "doom"
  /\ Goto(s, "delete", [request[s] EXCEPT !.doomed = OwnedBy(request[s].target)])

\* ... and waits for those another request has deleted without committing yet.
Delete(s) ==
  /\ request[s].pc = "delete"
  /\ \A t \in Slots \ {s} : request[t].deleted \cap request[s].doomed = {}
  /\ Goto(s, "commit", [request[s] EXCEPT !.deleted = request[s].doomed, !.doomed = {}])

\* Mistake: only the pair is unique.
FaultyConflict(r) == \E p \in owns \ r.deleted : p[2] \in r.body /\ p[1] = r.target

\* user_devices.install_id is unique.
Conflict(r) == \E p \in owns \ r.deleted : p[2] \in r.body

CommitDevices(s) ==
  LET r == request[s]
  IN /\ r.pc = "commit"
     /\ r.kind = "devices"
     /\ IF Conflict(r)
        THEN Refuse(s)
        ELSE /\ owns' = (owns \ r.deleted) \cup ({r.target} \X r.body)
             /\ assigned' = [assigned EXCEPT ![r.target] = r.body]
             /\ request' = [t \in Slots |->
                  IF t = s THEN Done ELSE [request[t] EXCEPT !.doomed = @ \ r.deleted]]
             /\ UNCHANGED <<account, granters>>

-----------------------------------------------------------------------------
Continue(s) ==
  \/ Load(s) \/ CountSuperAdmins(s) \/ CommitRow(s) \/ FetchPortrait(s) \/ StorePortrait(s)
  \/ Taken(s) \/ Doom(s) \/ Delete(s) \/ CommitDevices(s)

Next ==
  \E s \in Slots :
    \/ \E kind \in Kinds : \E actor \in Users, target \in Users, body \in Bodies(kind) :
         Begin(s, kind, actor, target, body)
    \/ Continue(s)

Spec == Init /\ [][Next]_vars

\* Requests are carried through, and those listed in the configuration keep coming
\* to sign in.
SignInSpec ==
  /\ Spec
  /\ \A s \in Slots : WF_vars(Continue(s))
  /\ \A u \in Listed : SF_vars(\E s \in Slots : Begin(s, "signin", u, u, Nobody))

-----------------------------------------------------------------------------
(* Properties *)

\* The type invariant.
TypeOK ==
  /\ account \in [Users -> Accounts]
  /\ owns \subseteq Users \X Handsets
  /\ granters \in [Users -> SUBSET (Users \cup {Nobody})]
  /\ assigned \in [Users -> SUBSET Handsets]
  /\ \A s \in Slots :
       /\ request[s].pc \in {"done", "load", "count", "taken", "doom", "delete", "commit",
                             "fetch", "store"}
       /\ request[s].loaded \in Accounts
       /\ request[s].wanted \in Accounts
       /\ request[s].doomed \subseteq Users \X Handsets
       /\ request[s].deleted \subseteq Users \X Handsets

\* "the last approved super admin cannot be demoted or rejected" (docs/decisions.md
\* section 22, api/v1/users.py:10-12): where there was one, there is one.
SomebodyMayDecide ==
  (\E u \in Users : isSuperAdmin(Beginning[u])) => ApprovedSuperAdmins # {}

\* Losing every super admin is recoverable: signing in restores the listed ones
\* (services/auth.py:211-218).
Recoverable == []<>(ApprovedSuperAdmins # {})

\* Whoever is named as having made an account a network account asked for it
\* (api/v1/users.py:193-197).
GrantHasItsAuthor ==
  \A u \in Users : account[u].role = "operator" => account[u].roleBy \in granters[u]

\* "A network account must name its network" (api/v1/users.py:179-182).
OperatorNamesItsNetwork ==
  \A u \in Users : account[u].role = "operator" => account[u].network # Nobody

\* A photograph is kept only for somebody the credits show (api/v1/users.py:241-245).
PortraitOnlyWithCredit ==
  \A u \in Users : account[u].portrait => account[u].credited

\* A handset belongs to one account (models/user_device.py:43-48).
OneOwner == \A p, q \in owns : p[2] = q[2] => p = q

\* The assignment in force is the last one made: it replaces, it does not add
\* (api/v1/users.py:263-266).
ReplacedWholesale == \A u \in Users : OwnedBy(u) = {u} \X assigned[u]

\* "only collector accounts own devices" (api/v1/users.py:278).
OwnersAreCollectors == \A p \in owns : account[p[1]].role = "collector"

\* What holds of every account as long as requests do not overlap: its values have
\* their types, a grant has its author, a network account its network, a portrait goes
\* with the credit, and an assignment of handsets is the whole of what is owned.
AccountsInv ==
  /\ TypeOK /\ GrantHasItsAuthor /\ OperatorNamesItsNetwork
  /\ PortraitOnlyWithCredit /\ ReplacedWholesale

=============================================================================
