----------------------------- MODULE UsersPage ------------------------------
(***************************************************************************)
(* The page of the approval queue (Users.tsx): the rows it was given, the  *)
(* badge that counts who is waiting, the row that is locked while its      *)
(* change is under way, the dialogs for a network and for handsets, and    *)
(* the requests between the page and the server.                           *)
(*                                                                         *)
(* The server serves a request at some moment between its being sent and   *)
(* its answer; what it decides is modelled in detail in Accounts, and here *)
(* by the account it leaves.  Changes are sent without a signal: leaving   *)
(* the page does not stop them.  The accounts also change without this     *)
(* page, which asks for all of them only when it is opened.  Definitions   *)
(* whose names begin with Faulty are deliberate mistakes that no           *)
(* specification uses.                                                     *)
(***************************************************************************)
EXTENDS Reader, FiniteSets

CONSTANTS
    People, Me,     \* the accounts, and the super admin who is signed in
    Bootstrap,      \* accounts that configuration makes super admins when they sign in
    Devices,        \* enrolled handsets
    Networks,       \* LAO_NETWORKS
    Slots,          \* bound on changes under way
    Beginning       \* the accounts when the dashboard is opened, None for no account yet

Statuses == {"pending", "approved", "rejected"}
Plain    == {"admin", "super_admin", "collector"}

(* The role of a network account is written as the name of its network.    *)
Account == [status : Statuses, role : Plain \cup Networks, credit : BOOLEAN]
Table   == [People -> OrNone(Account)]
Holders == [Devices -> OrNone(People)]

(* What a change says, by its kind; a change from its being sent to its    *)
(* answer; the answers and the dialog.                                     *)
Body(kind) ==
    CASE kind = "decide" -> Statuses
      [] kind = "role"   -> Plain \cup Networks
      [] kind = "credit" -> BOOLEAN
      [] OTHER           -> SUBSET Devices
Kinds == {"decide", "role", "credit", "devices"}
Phases == {"sent", "refetch", "served", "refused"}
Writes == [id : People, kind : Kinds, body : UNION {Body(kind) : kind \in Kinds},
           at : Phases, answer : OrNone(Account), watched : BOOLEAN]
Listings == [table : OrNone(Table)]
Dialogs  == [id : People, chosen : SUBSET Devices]

ASSUME UsersAssumption ==
    /\ Me \in People /\ Bootstrap \subseteq People /\ IsFiniteSet(People)
    /\ None \notin People \cup Account \cup Table \cup Holders \cup Writes
                     \cup Listings \cup Dialogs
    /\ Slots \subseteq Nat
    /\ Beginning \in Table
    /\ Beginning[Me] = [status |-> "approved", role |-> "super_admin", credit |-> FALSE]

VARIABLES
    server, holder,             \* the users and user_devices tables
    elsewhere,                  \* history: accounts changed by others since the server
                                \* last read them for this page
    opened, rows, badge, loaded, failed, busyId,    \* the page
    list,                       \* the request for the accounts, with the table it was answered
    asksDevices,                \* requests for the handsets: who for, and the answer
    choosing, assignable,       \* the handset dialog: whose, what is ticked, what was offered
    naming,                     \* the network dialog: whose
    write,                      \* the changes under way
    doubt                       \* history: what may have made the rows differ from the table

page   == <<opened, rows, badge, loaded, failed, busyId>>
dialog == <<choosing, assignable, naming>>
usersVars == <<server, holder, elsewhere, page, list, asksDevices, dialog, write, doubt>>

NoRows == [u \in People |-> None]

UsersTypeOK ==
    /\ server \in Table /\ holder \in Holders /\ elsewhere \subseteq People
    /\ opened \in BOOLEAN /\ loaded \in BOOLEAN /\ failed \in BOOLEAN
    /\ rows \in Table
    /\ badge \in 0..Cardinality(People)
    /\ busyId \in OrNone(People)
    /\ list \in OrNone(Listings)
    /\ asksDevices \subseteq (People \X OrNone(Holders))
    /\ choosing \in OrNone(Dialogs)
    /\ assignable \in OrNone(Holders)
    /\ naming \in OrNone(People)
    /\ \A s \in Slots : write[s] # None =>
          /\ DOMAIN write[s] = {"id", "kind", "body", "at", "answer", "watched"}
          /\ write[s].id \in People /\ write[s].answer \in OrNone(Account)
          /\ write[s].kind \in Kinds /\ write[s].body \in Body(write[s].kind)
          /\ write[s].at \in Phases
    /\ doubt \subseteq {"crossed", "lost", "left"}

UsersInit ==
    /\ server = Beginning /\ elsewhere = {}
    /\ holder \in {h \in Holders : \A d \in Devices :
                     h[d] # None => server[h[d]] # None /\ server[h[d]].role = "collector"}
    /\ opened = FALSE
    /\ rows = NoRows /\ badge = 0 /\ loaded = FALSE /\ failed = FALSE /\ busyId = None
    /\ choosing = None /\ assignable = None /\ naming = None
    /\ list = None /\ asksDevices = {}
    /\ write = [s \in Slots |-> None]
    /\ doubt = {}

-----------------------------------------------------------------------------
(* The table *)

Waiting(table) == {u \in People : table[u] # None /\ table[u].status = "pending"}
SuperAdmins(table) ==
    {u \in People : table[u] # None /\ table[u].status = "approved"
                                    /\ table[u].role = "super_admin"}
IsLastSuperAdmin(u, table) == u \in SuperAdmins(table) /\ Cardinality(SuperAdmins(table)) <= 1

(* Only super admins may ask; nobody decides about themselves, the last    *)
(* super admin stays, only administrators are credited, only collectors    *)
(* hold handsets, and a handset somebody else holds is not moved.          *)
Refuses(actor, w) ==
    \/ actor \notin SuperAdmins(server)
    \/ w.kind \in {"decide", "role"} /\ w.id = actor
    \/ w.kind = "decide" /\ w.body # "approved" /\ IsLastSuperAdmin(w.id, server)
    \/ w.kind = "role" /\ w.body # "super_admin" /\ IsLastSuperAdmin(w.id, server)
    \/ w.kind = "credit" /\ w.body /\ server[w.id].role \notin {"admin", "super_admin"}
    \/ w.kind = "devices" /\ \/ server[w.id].role # "collector"
                             \/ \E d \in w.body : holder[d] \notin {None, w.id}

Served(w) ==
    CASE w.kind = "decide"  -> [server[w.id] EXCEPT !.status = w.body]
      [] w.kind = "role"    -> [server[w.id] EXCEPT !.role = w.body]
      [] w.kind = "credit"  -> [server[w.id] EXCEPT !.credit = w.body]
      [] w.kind = "devices" -> server[w.id]

Held(w) ==
    [d \in Devices |-> IF d \in w.body THEN w.id
                       ELSE IF holder[d] = w.id THEN None ELSE holder[d]]

Notice == elsewhere' = elsewhere \cup {u \in People : server'[u] # server[u]}

(* Somebody signs in: for the first time, or as one of the accounts that   *)
(* configuration makes super admins again, whatever had become of them.    *)
SignsIn(u) ==
    /\ server[u] = None \/ u \in Bootstrap
    /\ server' = [server EXCEPT ![u] =
         IF u \notin Bootstrap THEN [status |-> "pending", role |-> "admin", credit |-> FALSE]
         ELSE [status |-> "approved", role |-> "super_admin", credit |-> @ # None /\ @.credit]]
    /\ Notice
    /\ UNCHANGED <<holder, page, list, asksDevices, dialog, write, doubt, budget>>

(* A super admin - another, or the same in another tab - changes an        *)
(* account, this one's own included.                                       *)
ChangesElsewhere(actor, w) ==
    /\ Step /\ server[w.id] # None /\ ~Refuses(actor, w)
    /\ server' = [server EXCEPT ![w.id] = Served(w)]
    /\ holder' = IF w.kind = "devices" THEN Held(w) ELSE holder
    /\ Notice
    /\ UNCHANGED <<page, list, asksDevices, dialog, write, doubt>>

(* The server serves a change.  The handsets of an account are not on its  *)
(* row, so the page asks for the accounts again once they are saved.       *)
ServeWrite(s) ==
    /\ write[s] # None /\ write[s].at = "sent"
    /\ LET w == write[s] IN
         IF Refuses(Me, w)
         THEN /\ write' = [write EXCEPT ![s] = IF w.watched THEN [w EXCEPT !.at = "refused"]
                                               ELSE None]
              /\ UNCHANGED <<server, holder, elsewhere>>
         ELSE /\ server' = [server EXCEPT ![w.id] = Served(w)]
              /\ holder' = IF w.kind = "devices" THEN Held(w) ELSE holder
              /\ elsewhere' = IF w.kind = "devices" THEN elsewhere ELSE elsewhere \ {w.id}
              /\ write' = [write EXCEPT ![s] =
                             IF ~w.watched THEN None
                             ELSE IF w.kind = "devices" THEN [w EXCEPT !.at = "refetch"]
                             ELSE [w EXCEPT !.at = "served", !.answer = Served(w)]]
    /\ UNCHANGED <<page, list, asksDevices, dialog, doubt, budget>>

(* Whoever is a super admin no longer is refused the lists as well. *)
Forbidden == Me \notin SuperAdmins(server)

ServeRefetch(s) ==
    /\ write[s] # None /\ write[s].at = "refetch"
    /\ IF Forbidden
       THEN write' = [write EXCEPT ![s].at = "refused"] /\ UNCHANGED elsewhere
       ELSE /\ write' = [write EXCEPT ![s].at = "served", ![s].answer = server[write[s].id]]
            /\ elsewhere' = elsewhere \ {write[s].id}
    /\ UNCHANGED <<server, holder, page, list, asksDevices, dialog, doubt, budget>>

ServeList ==
    /\ list # None /\ list.table = None /\ ~Forbidden
    /\ list' = [table |-> server]
    /\ elsewhere' = {}
    /\ UNCHANGED <<server, holder, page, asksDevices, dialog, write, doubt, budget>>

ServeDevices(u) ==
    /\ <<u, None>> \in asksDevices /\ ~Forbidden
    /\ asksDevices' = (asksDevices \ {<<u, None>>}) \cup {<<u, holder>>}
    /\ UNCHANGED <<server, holder, elsewhere, page, list, dialog, write, doubt, budget>>

-----------------------------------------------------------------------------
(* Answers at the page *)

ListArrives ==
    /\ list # None /\ list.table # None
    /\ rows' = list.table
    /\ badge' = Cardinality(Waiting(list.table))
    /\ loaded' = TRUE /\ failed' = FALSE
    /\ list' = None
    /\ UNCHANGED <<server, holder, elsewhere, opened, busyId, asksDevices,
                   dialog, write, doubt, budget>>

(* A question the server has not answered, and will not. *)
Denied(answer) == answer = None /\ Forbidden /\ UNCHANGED budget

ListFails ==
    /\ list # None /\ (Fail \/ Denied(list.table))
    /\ list' = None
    /\ loaded' = TRUE /\ failed' = TRUE
    /\ UNCHANGED <<server, holder, elsewhere, opened, rows, badge, busyId,
                   asksDevices, dialog, write, doubt>>

FaultyBadgeAfter(updated) ==
    IF updated.status # "pending" THEN badge
    ELSE IF badge = 0 THEN 0 ELSE badge - 1

(* Any answer that is not about a waiting account counts one down, whether *)
(* or not the account had been waiting.                                    *)
BadgeAfter(updated) ==
    IF updated.status = "pending" THEN badge
    ELSE IF badge = 0 THEN 0 ELSE badge - 1

FaultyRowsAfter(w) == rows

(* The row is replaced by the account of the answer. *)
RowsAfter(w) == [u \in People |-> IF u = w.id /\ rows[u] # None THEN w.answer ELSE rows[u]]

WriteLands(s) ==
    /\ write[s] # None /\ write[s].at = "served"
    /\ rows' = RowsAfter(write[s])
    /\ badge' = BadgeAfter(write[s].answer)
    /\ failed' = FALSE
    /\ busyId' = None
    /\ write' = [write EXCEPT ![s] = None]
    /\ UNCHANGED <<server, holder, elsewhere, opened, loaded, list,
                   asksDevices, dialog, doubt, budget>>

WriteRefused(s) ==
    /\ write[s] # None /\ write[s].at = "refused"
    /\ failed' = TRUE
    /\ busyId' = None
    /\ write' = [write EXCEPT ![s] = None]
    /\ UNCHANGED <<server, holder, elsewhere, opened, rows, badge, loaded,
                   list, asksDevices, dialog,
                   doubt, budget>>

(* The request never reaches the server, or its answer never comes back. *)
WriteFails(s) ==
    /\ write[s] # None /\ write[s].watched /\ Fail
    /\ failed' = TRUE
    /\ busyId' = None
    /\ write' = [write EXCEPT ![s] = None]
    /\ doubt' = IF write[s].at # "served" THEN doubt ELSE doubt \cup {"lost"}
    /\ UNCHANGED <<server, holder, elsewhere, opened, rows, badge, loaded,
                   list, asksDevices, dialog>>

(* The handset dialog opens when its answer comes, for whoever the answer  *)
(* is about, in place of a dialog that is open.                            *)
DevicesArrive(u, held) ==
    /\ <<u, held>> \in asksDevices /\ held # None
    /\ asksDevices' = asksDevices \ {<<u, held>>}
    /\ assignable' = held
    /\ choosing' = [id |-> u, chosen |-> {d \in Devices : held[d] = u}]
    /\ UNCHANGED <<server, holder, elsewhere, page, list, naming, write, doubt, budget>>

DevicesFail(u, held) ==
    /\ <<u, held>> \in asksDevices /\ (Fail \/ Denied(held))
    /\ asksDevices' = asksDevices \ {<<u, held>>}
    /\ UNCHANGED <<server, holder, elsewhere, page, list, dialog, write, doubt>>

-----------------------------------------------------------------------------
(* What the super admin does *)

Locked(u) == u = Me \/ IsLastSuperAdmin(u, rows) \/ busyId = u

(* apply: the change is sent, its row becomes the one that is locked. *)
Apply(u, kind, body) ==
    /\ \E s \in Slots :
         /\ write[s] = None /\ \A r \in Slots : write[r] = None => s <= r
         /\ write' = [write EXCEPT ![s] = [id |-> u, kind |-> kind, body |-> body, at |-> "sent",
                                           answer |-> None, watched |-> TRUE]]
    /\ busyId' = u
    /\ doubt' = IF \E s \in Slots : write[s] # None /\ write[s].id = u
                THEN doubt \cup {"crossed"} ELSE doubt

ClickDecide(u) ==
    /\ rows[u] # None /\ ~Locked(u) /\ Step
    /\ \E verdict \in {"approved", "rejected"} \ {rows[u].status} : Apply(u, "decide", verdict)
    /\ UNCHANGED <<server, holder, elsewhere, opened, rows, badge, loaded,
                   failed, list, asksDevices, dialog>>

(* A network account has to name its network first. *)
SelectRole(u) ==
    /\ rows[u] # None /\ ~Locked(u) /\ Step
    /\ \/ /\ \E role \in Plain \ {rows[u].role} : Apply(u, "role", role)
          /\ UNCHANGED naming
       \/ /\ rows[u].role \in Plain
          /\ naming' = u
          /\ UNCHANGED <<write, busyId, doubt>>
    /\ UNCHANGED <<server, holder, elsewhere, opened, rows, badge, loaded,
                   failed, list, asksDevices,
                   choosing, assignable>>

ChooseNetwork ==
    /\ naming # None /\ Step
    /\ \/ \E n \in Networks : Apply(naming, "role", n)
       \/ UNCHANGED <<write, busyId, doubt>>
    /\ naming' = None
    /\ UNCHANGED <<server, holder, elsewhere, opened, rows, badge, loaded,
                   failed, list, asksDevices,
                   choosing, assignable>>

(* The tick that publishes an account, or its title, which sends the tick  *)
(* as the row has it.                                                      *)
ChangeCredit(u) ==
    /\ rows[u] # None /\ rows[u].role \in {"admin", "super_admin"} /\ busyId # u /\ Step
    /\ \E show \in BOOLEAN : Apply(u, "credit", show)
    /\ UNCHANGED <<server, holder, elsewhere, opened, rows, badge, loaded,
                   failed, list, asksDevices, dialog>>

OpenDevices(u) ==
    /\ rows[u] # None /\ rows[u].role = "collector" /\ busyId # u /\ Step
    /\ asksDevices' = asksDevices \cup {<<u, None>>}
    /\ UNCHANGED <<server, holder, elsewhere, page, list, dialog, write, doubt>>

FaultyTickable(d) == TRUE

(* A handset somebody else held when the list was made cannot be ticked. *)
Tickable(d) == assignable[d] \in {None, choosing.id}

TickDevice(d) ==
    /\ choosing # None /\ Tickable(d) /\ Step
    /\ choosing' = [choosing EXCEPT !.chosen = IF d \in @ THEN @ \ {d} ELSE @ \cup {d}]
    /\ UNCHANGED <<server, holder, elsewhere, page, list, asksDevices,
                   assignable, naming, write, doubt>>

SaveDevices ==
    /\ choosing # None /\ Step
    /\ \/ Apply(choosing.id, "devices", choosing.chosen)
       \/ UNCHANGED <<write, busyId, doubt>>
    /\ choosing' = None
    /\ UNCHANGED <<server, holder, elsewhere, opened, rows, badge, loaded,
                   failed, list, asksDevices,
                   assignable, naming>>

(* The page is opened, and left. *)
OpenUsers ==
    /\ ~opened /\ opened' = TRUE
    /\ list' = [table |-> None]
    /\ UNCHANGED <<server, holder, elsewhere, rows, badge, loaded, failed,
                   busyId, asksDevices, dialog,
                   write, doubt>>

LeaveUsers ==
    /\ opened /\ opened' = FALSE
    /\ rows' = NoRows /\ badge' = 0 /\ loaded' = FALSE /\ failed' = FALSE /\ busyId' = None
    /\ choosing' = None /\ assignable' = None /\ naming' = None
    /\ list' = None /\ asksDevices' = {} /\ elsewhere' = {}
    /\ write' = [s \in Slots |-> IF write[s] # None /\ write[s].at = "sent"
                                 THEN [write[s] EXCEPT !.watched = FALSE] ELSE None]
    /\ doubt' = IF \E s \in Slots : write[s] # None /\ write[s].at = "sent"
                THEN doubt \cup {"left"} ELSE doubt
    /\ UNCHANGED <<server, holder>>

UsersAnswers ==
    \/ ServeList \/ ListArrives \/ ListFails
    \/ \E s \in Slots : \/ ServeWrite(s) \/ ServeRefetch(s)
                        \/ WriteLands(s) \/ WriteRefused(s) \/ WriteFails(s)
    \/ \E a, u \in People, kind \in Kinds : \E body \in Body(kind) :
         ChangesElsewhere(a, [id |-> u, kind |-> kind, body |-> body])
    \/ \E u \in People : \/ SignsIn(u) \/ ServeDevices(u)
                         \/ \E held \in OrNone(Holders) : DevicesArrive(u, held)
                                                       \/ DevicesFail(u, held)

UsersChoices ==
    \/ \E u \in People : ClickDecide(u) \/ SelectRole(u) \/ ChangeCredit(u) \/ OpenDevices(u)
    \/ ChooseNetwork
    \/ \E d \in Devices : TickDevice(d)
    \/ SaveDevices

-----------------------------------------------------------------------------
(* The badge never promises more accounts to decide than the table below   *)
(* it lists, whatever order the answers come in.  (It may say fewer: every *)
(* answer about an account that is not waiting counts one down.)           *)
BadgeNeverOverstates == badge <= Cardinality(Waiting(rows))

(* With nothing under way every row is its account as it is - unless it    *)
(* was changed elsewhere, by another super admin or a sign-in, since the   *)
(* server last read it for this page; or two changes of one account        *)
(* crossed, an answer was lost after the change was made, or the page was  *)
(* left before a change arrived.                                           *)
RowsAreTheAccounts ==
    doubt = {} /\ (\A s \in Slots : write[s] = None) =>
      \A u \in People \ elsewhere : rows[u] # None => rows[u] = server[u]

(* What the handset dialog would save never takes a handset that the list  *)
(* beside it shows as somebody else's, although a later answer may replace *)
(* the dialog and the list while it is open.                               *)
TakenStaysTaken ==
    choosing # None => \A d \in choosing.chosen : assignable[d] \in {None, choosing.id}

(* The approval queue tells the administrator the truth: its badge, its    *)
(* rows and the handsets its dialog offers.                                *)
UsersInv == BadgeNeverOverstates /\ RowsAreTheAccounts /\ TakenStaysTaken

=============================================================================
