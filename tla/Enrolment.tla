----------------------------- MODULE Enrolment -----------------------------
(***************************************************************************)
(* How a phone becomes known to a server: the start button and the         *)
(* connection check of MainActivity.kt, each a coroutine that makes the    *)
(* key and the install id if there are none, reads the address and         *)
(* registers; POST /devices/enroll, which looks for the installation and   *)
(* inserts it in two steps; and the three ways in which collection begins. *)
(*                                                                         *)
(* Neither button guards its coroutine: the views are inflated again,      *)
(* enabled, when the language changes, and the permission's answer starts  *)
(* a registration without any button.  So several may be under way.        *)
(* Installations are not blocked here, nor registered without a key, and   *)
(* the key is never lost: allowBackup is off and nothing calls deleteKey.  *)
(***************************************************************************)
EXTENDS Integers

CONSTANTS
    Servers,
    Default,        \* BuildConfig.API_BASE_URL
    Asks,           \* bound: registrations under way at once
    Unset           \* an address that was not read yet

ASSUME EnrolmentAssumption == Default \in Servers /\ Unset \notin Servers

VARIABLES
    phone,          \* preferences, key (0: none) and the service of one phone
    asks,           \* the registrations under way
    registry,       \* the installations of every server, with their keys
    made,           \* keys and ids made so far
    crossed         \* history: a registration was overtaken, see Overtaken

enrolment == <<phone, asks, registry, made, crossed>>

NoAsk == [step |-> "idle", kind |-> "check", heard |-> FALSE,
          to |-> Unset, id |-> 0, key |-> 0]

EnrolmentInit ==
    /\ phone = [address |-> Default, enrolled |-> FALSE, id |-> 0, key |-> 0,
                wanted |-> FALSE, asked |-> FALSE, running |-> FALSE]
    /\ asks = [a \in Asks |-> NoAsk]
    /\ registry = {}
    /\ made = [key |-> 0, id |-> 0]
    /\ crossed = FALSE

Device(address, id, key) == [at |-> address, id |-> id, key |-> key]
Known == Device(phone.address, phone.id, phone.key) \in registry

-----------------------------------------------------------------------------
(* The coroutines.                                                         *)

\* enrolThenStart where it must register first, or onCheckConnection.  Two
\* first registrations at once may each make a key or an id.
Register(a, kind) ==
    /\ asks[a].step = "idle"
    /\ kind = "start" => ~(phone.enrolled /\ phone.key # 0)
    /\ asks' = [asks EXCEPT ![a] = [NoAsk EXCEPT !.step = "key", !.kind = kind, !.heard = TRUE]]
    /\ crossed' = (crossed \/ /\ phone.key = 0 \/ phone.id = 0
                              /\ \E b \in Asks : asks[b].step # "idle")
    /\ UNCHANGED <<phone, registry, made>>

\* ensureKey looks for the key, and makes one where it saw none.
FindKey(a) ==
    /\ asks[a].step = "key"
    /\ asks' = [asks EXCEPT ![a].step = IF phone.key = 0 THEN "make" ELSE "ready"]
    /\ UNCHANGED <<phone, registry, made, crossed>>
MakeKey(a) ==
    /\ asks[a].step = "make"
    /\ made' = [made EXCEPT !.key = @ + 1]
    /\ phone' = [phone EXCEPT !.key = made.key + 1]
    /\ asks' = [asks EXCEPT ![a].step = "ready"]
    /\ UNCHANGED <<registry, crossed>>

\* Mistake: every registration makes an id of its own.
FaultyFindId(a) ==
    /\ asks[a].step = "ready" /\ asks[a].id = 0
    /\ asks[a].kind = "check" => asks[a].to # Unset
    /\ asks' = [asks EXCEPT ![a].step = "name"]
    /\ UNCHANGED <<phone, registry, made, crossed>>

\* ensureInstallId does the same; the check has read the address before it.
FindId(a) ==
    /\ asks[a].step = "ready" /\ asks[a].id = 0
    /\ asks[a].kind = "check" => asks[a].to # Unset
    /\ asks' = [asks EXCEPT ![a].id = phone.id,
                            ![a].step = IF phone.id = 0 THEN "name" ELSE @]
    /\ UNCHANGED <<phone, registry, made, crossed>>
MakeId(a) ==
    /\ asks[a].step = "name"
    /\ made' = [made EXCEPT !.id = @ + 1]
    /\ phone' = [phone EXCEPT !.id = made.id + 1]
    /\ asks' = [asks EXCEPT ![a].id = made.id + 1, ![a].step = "ready"]
    /\ UNCHANGED <<registry, crossed>>

\* The start button's registration reads the address after the id.
ReadAddress(a) ==
    /\ asks[a].step = "ready" /\ asks[a].to = Unset
    /\ asks[a].kind = "start" => asks[a].id # 0
    /\ asks' = [asks EXCEPT ![a].to = phone.address]
    /\ UNCHANGED <<phone, registry, made, crossed>>

\* enroll reads the public key and posts it; a check asked for the server's
\* health first, and ends where there was none.
Post(a) ==
    /\ asks[a].step = "ready" /\ asks[a].to # Unset /\ asks[a].id # 0
    /\ asks' = [asks EXCEPT ![a].key = phone.key, ![a].step = "sent"]
    /\ UNCHANGED <<phone, registry, made, crossed>>
Unhealthy(a) ==
    /\ asks[a].step = "ready" /\ asks[a].to # Unset /\ asks[a].id # 0
    /\ asks[a].kind = "check"
    /\ asks' = [asks EXCEPT ![a] = NoAsk]
    /\ UNCHANGED <<phone, registry, made, crossed>>

\* The continuation, if the screen that asked is still there.
Hear(a) ==
    /\ asks[a].step \in {"ok", "conflict", "failed"}
    /\ LET told == asks[a].heard /\ asks[a].step = "ok"
       IN  phone' = [phone EXCEPT !.enrolled = @ \/ told,
                                  !.asked = @ \/ (told /\ asks[a].kind = "start")]
    /\ asks' = [asks EXCEPT ![a] = NoAsk]
    /\ UNCHANGED <<registry, made, crossed>>

-----------------------------------------------------------------------------
(* The server and the network.                                             *)

Sought(ask) == Device(ask.to, ask.id, ask.key)
Taken(ask) == \E d \in registry : d.at = ask.to /\ d.id = ask.id

\* enroll_device looks for the installation, and never rotates its key.
Look(a) ==
    /\ asks[a].step = "sent"
    /\ asks' = [asks EXCEPT ![a].step =
                    IF ~Taken(asks[a]) THEN "new"
                    ELSE IF Sought(asks[a]) \in registry THEN "ok" ELSE "conflict"]
    /\ UNCHANGED <<phone, registry, made, crossed>>

\* The insertion, which fails on the unique install id if another came first.
Insert(a) ==
    /\ asks[a].step = "new"
    /\ asks' = [asks EXCEPT ![a].step = IF Taken(asks[a]) THEN "failed" ELSE "ok"]
    /\ registry' = IF Taken(asks[a]) THEN registry ELSE registry \cup {Sought(asks[a])}
    /\ UNCHANGED <<phone, made, crossed>>

\* The request is lost, or its transaction fails.
Lose(a) ==
    /\ asks[a].step \in {"sent", "new"}
    /\ asks' = [asks EXCEPT ![a].step = "failed"]
    /\ UNCHANGED <<phone, registry, made, crossed>>

\* The client gives up waiting, or loses the answer: the failure is shown,
\* and the server finishes what it was sent.
GiveUp(a) ==
    /\ asks[a].step \in {"sent", "new", "ok"} /\ asks[a].heard
    /\ asks' = [asks EXCEPT ![a].heard = FALSE]
    /\ UNCHANGED <<phone, registry, made, crossed>>

-----------------------------------------------------------------------------
(* The screen, the service and the phone.                                  *)

\* The activity is created anew: no continuation runs, the calls go on.
Recreate ==
    /\ asks' = [a \in Asks |-> [asks[a] EXCEPT !.heard = FALSE]]
    /\ UNCHANGED <<phone, registry, made, crossed>>

\* enrolThenStart where the phone is registered; onResume, and BootReceiver.
PressStart ==
    /\ phone.enrolled /\ phone.key # 0
    /\ phone' = [phone EXCEPT !.asked = TRUE]
    /\ UNCHANGED <<asks, registry, made, crossed>>

\* Mistake: collection goes on wherever it was under way.
FaultyResume ==
    /\ ~phone.running /\ phone.wanted
    /\ phone' = [phone EXCEPT !.asked = TRUE]
    /\ UNCHANGED <<asks, registry, made, crossed>>
Resume ==
    /\ ~phone.running /\ phone.wanted /\ phone.enrolled
    /\ phone' = [phone EXCEPT !.asked = TRUE]
    /\ UNCHANGED <<asks, registry, made, crossed>>
StartCollecting ==
    /\ phone.asked
    /\ phone' = [phone EXCEPT !.asked = FALSE, !.running = TRUE, !.wanted = TRUE]
    /\ UNCHANGED <<asks, registry, made, crossed>>
StopCollecting ==
    /\ phone.running
    /\ phone' = [phone EXCEPT !.running = FALSE, !.wanted = FALSE]
    /\ UNCHANGED <<asks, registry, made, crossed>>

\* The process dies.  A sticky service and an intent on its way may be
\* delivered to the next one, or the phone is switched off with them; what was
\* posted has left the phone.
Die ==
    /\ \E again \in {FALSE, phone.asked \/ phone.running} :
           phone' = [phone EXCEPT !.running = FALSE, !.asked = again]
    /\ asks' = [a \in Asks |->
                   IF asks[a].step \in {"sent", "new", "ok", "conflict", "failed"}
                   THEN [asks[a] EXCEPT !.heard = FALSE] ELSE NoAsk]
    /\ UNCHANGED <<registry, made, crossed>>

\* The address changes under a registration that has read the old one and
\* will be heard, or under a start that the service has not received.
Overtaken(address) ==
    /\ address # phone.address
    /\ \/ phone.asked
       \/ \E a \in Asks : asks[a].heard /\ asks[a].to # Unset

\* Mistake: the new server is taken to know the phone.
FaultySaveServer(address) ==
    /\ ~phone.running /\ address # phone.address
    /\ phone' = [phone EXCEPT !.address = address]
    /\ crossed' = (crossed \/ Overtaken(address))
    /\ UNCHANGED <<asks, registry, made>>

\* onSaveServer, which does nothing where the address is the same.
SaveServer(address) ==
    /\ ~phone.running /\ address # phone.address
    /\ phone' = [phone EXCEPT !.address = address, !.enrolled = FALSE]
    /\ crossed' = (crossed \/ Overtaken(address))
    /\ UNCHANGED <<asks, registry, made>>
ResetServer ==
    /\ ~phone.running
    /\ phone' = [phone EXCEPT !.address = Default, !.enrolled = FALSE]
    /\ crossed' = (crossed \/ Overtaken(Default))
    /\ UNCHANGED <<asks, registry, made>>

AskStep(a) ==
    \/ \E kind \in {"start", "check"} : Register(a, kind)
    \/ FindKey(a) \/ MakeKey(a) \/ FindId(a) \/ MakeId(a) \/ ReadAddress(a)
    \/ Post(a) \/ Unhealthy(a) \/ Hear(a)
    \/ Look(a) \/ Insert(a) \/ Lose(a) \/ GiveUp(a)
PhoneStep ==
    \/ Recreate \/ PressStart \/ Resume \/ StartCollecting \/ StopCollecting \/ Die
    \/ \E s \in Servers : SaveServer(s)
    \/ ResetServer

EnrolmentNext == (\E a \in Asks : AskStep(a)) \/ PhoneStep

EnrolmentSpec == EnrolmentInit /\ [][EnrolmentNext]_enrolment

-----------------------------------------------------------------------------
Steps == {"idle", "key", "make", "ready", "name", "sent", "new",
          "ok", "conflict", "failed"}
Phones == [address: Servers, enrolled: BOOLEAN, id: Nat, key: Nat,
           wanted: BOOLEAN, asked: BOOLEAN, running: BOOLEAN]
AskRecords == [step: Steps, kind: {"start", "check"}, heard: BOOLEAN,
               to: Servers \cup {Unset}, id: Nat, key: Nat]
EnrolmentTypeOK ==
    /\ phone \in Phones /\ asks \in [Asks -> AskRecords]
    /\ registry \subseteq [at: Servers, id: Nat, key: Nat]
    /\ made \in [key: Nat, id: Nat] /\ crossed \in BOOLEAN

\* The flag never claims more than its server knows: whatever requests and
\* answers were lost, repeated or abandoned, the address changed or the phone
\* restarted, an enrolled phone's own key is registered where it will upload.
EnrolledIsKnown == ~crossed /\ phone.enrolled => Known

\* "Enrol before the first collection, never during it" (MainActivity.kt 206):
\* every record is signed by a key that the server of the moment knows.
CollectsWhereKnown == ~crossed /\ (phone.running \/ phone.asked) => Known

\* A phone is never told that it is somebody else: a registration that was
\* answered to nobody is accepted when it is repeated (devices.py 44-51).
OwnKeyIsAccepted == ~crossed => \A a \in Asks : asks[a].step # "conflict"

EnrolmentInv ==
    EnrolmentTypeOK /\ EnrolledIsKnown /\ CollectsWhereKnown /\ OwnKeyIsAccepted

\* A server neither forgets an installation nor knows two keys for it, however
\* registrations overlap (the docstring of enroll_device).
KeysAreKept ==
    [][/\ registry \subseteq registry'
       /\ \A d, e \in registry' : d.at = e.at /\ d.id = e.id => d = e]_enrolment

=============================================================================
