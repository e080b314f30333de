-------------------------------- MODULE Door --------------------------------
(***************************************************************************)
(* The front door of the dashboard (Login.tsx) and the session of App.tsx: *)
(* who is signed in, Google's script and its button, and the two requests  *)
(* that change the session.  Neither is cancelled: a sign-in may be        *)
(* answered, and a sign-out end, when the page they were started from is   *)
(* gone.  Definitions whose names begin with Faulty are deliberate         *)
(* mistakes that no specification uses.                                    *)
(***************************************************************************)
EXTENDS Reader

CONSTANTS
    Visitors,       \* the sessions an account of this browser may have
    Configured      \* google_client_id is set on the server

Roles == {"admin", "super_admin", "operator", "collector"}
Session == [at : {"unknown", "out", "pending", "rejected", "in"}, role : OrNone(Roles)]
Unknown == [at |-> "unknown", role |-> None]
Nobody  == [at |-> "out", role |-> None]
OpenHouse == [at |-> "in", role |-> None]       \* auth_enabled is false

ASSUME DoorAssumption ==
    /\ Visitors \subseteq [at : {"pending", "rejected", "in"}, role : Roles]
    /\ Configured \in BOOLEAN
    /\ None \notin Roles \cup {"notConfigured", "unreachable", "script", "signIn"}

VARIABLES
    session, clientId, reachable,   \* App
    script, button, doorError,      \* Login
    signing, leaving,               \* sign-ins and sign-outs under way
    crossed                         \* history: a second sign-in began before the first ended

doorVars == <<session, clientId, reachable, script, button, doorError, signing, leaving, crossed>>

Errors == {"notConfigured", "unreachable", "script", "signIn"}

DoorTypeOK ==
    /\ session \in Session
    /\ clientId \in BOOLEAN /\ reachable \in BOOLEAN
    /\ script \in {"absent", "loading", "ready", "failed"}
    /\ button \in BOOLEAN
    /\ doorError \in OrNone(Errors)
    /\ signing \subseteq Visitors
    /\ leaving \in Nat
    /\ crossed \in BOOLEAN

DoorInit ==
    /\ session = Unknown /\ clientId = FALSE /\ reachable = TRUE
    /\ script = "absent" /\ button = FALSE /\ doorError = None
    /\ signing = {} /\ leaving = 0 /\ crossed = FALSE

-----------------------------------------------------------------------------
(* Login is on the page whenever the account is not let in; what it said   *)
(* is forgotten only when it was off the page in between.                  *)
AtTheDoor(s) == s.at \in {"out", "pending", "rejected"}
Said == IF AtTheDoor(session) THEN doorError ELSE None

(* The effect of Login: somebody who waits for approval is shown that;     *)
(* without a client id there is nothing to press; otherwise the script is  *)
(* put on the page once, and draws the button when it is there.            *)
Opens(s, id, heard) ==
    IF s.at # "out" THEN button' = FALSE /\ doorError' = Said /\ UNCHANGED script
    ELSE IF ~id
    THEN /\ button' = FALSE
         /\ doorError' = IF heard THEN "notConfigured" ELSE "unreachable"
         /\ UNCHANGED script
    ELSE /\ button' = (script = "ready")
         /\ doorError' = Said
         /\ script' = IF script = "absent" THEN "loading" ELSE script

(* The session becomes s. *)
Becomes(s, id, heard) ==
    /\ session' = s /\ clientId' = id /\ reachable' = heard
    /\ Opens(s, id, heard)

SessionArrives(s) ==
    /\ session = Unknown
    /\ s \in Visitors \cup {Nobody, OpenHouse}
    /\ Becomes(s, Configured, TRUE)
    /\ UNCHANGED <<signing, leaving, crossed, budget>>

SessionFails ==
    /\ session = Unknown /\ Fail
    /\ Becomes(Nobody, FALSE, FALSE)
    /\ UNCHANGED <<signing, leaving, crossed>>

ScriptLoads ==
    /\ script = "loading"
    /\ script' = "ready"
    /\ button' = (session.at = "out")
    /\ UNCHANGED <<session, clientId, reachable, doorError, signing, leaving, crossed, budget>>

FaultyScriptFails ==
    /\ script = "loading" /\ Fail
    /\ script' = "failed"
    /\ UNCHANGED <<session, clientId, reachable, button, doorError, signing, leaving, crossed>>

ScriptFails ==
    /\ script = "loading" /\ Fail
    /\ script' = "failed"
    /\ doorError' = IF AtTheDoor(session) THEN "script" ELSE doorError
    /\ UNCHANGED <<session, clientId, reachable, button, signing, leaving, crossed>>

(* Google hands over a credential; the button stays as it was meanwhile.   *)
Credential(s) ==
    /\ session.at = "out" /\ button /\ s \notin signing /\ Step
    /\ signing' = signing \cup {s}
    /\ doorError' = None
    /\ crossed' = (crossed \/ signing # {})
    /\ UNCHANGED <<session, clientId, reachable, script, button, leaving>>

(* The answer carries an empty client id and is laid over the session.     *)
SignInArrives(s) ==
    /\ s \in signing
    /\ signing' = signing \ {s}
    /\ Becomes(s, FALSE, reachable)
    /\ UNCHANGED <<leaving, crossed, budget>>

SignInFails(s) ==
    /\ s \in signing /\ Fail
    /\ signing' = signing \ {s}
    /\ doorError' = IF AtTheDoor(session) THEN "signIn" ELSE doorError
    /\ UNCHANGED <<session, clientId, reachable, script, button, leaving, crossed>>

(* "Sign out" of the menu, "use another account" of the door. *)
ClickSignOut ==
    /\ session.at \in {"in", "pending", "rejected"} /\ session.role # None
    /\ Step
    /\ leaving' = leaving + 1
    /\ UNCHANGED <<session, clientId, reachable, script, button, doorError, signing, crossed>>

(* Whatever the server said, nobody is signed in any more. *)
SignOutEnds ==
    /\ leaving > 0
    /\ leaving' = leaving - 1
    /\ Becomes(Nobody, clientId, reachable)
    /\ UNCHANGED <<signing, crossed, budget>>

DoorStays ==
    \/ ScriptLoads \/ ScriptFails \/ ClickSignOut
    \/ \E s \in Visitors : Credential(s) \/ SignInFails(s)

-----------------------------------------------------------------------------
(* Somebody who is signed out is never left before an empty card: there is *)
(* a button to press, or one is on its way, or the card says why there is  *)
(* none - after any order of failures, sign-ins and sign-outs.             *)
DoorSpeaks ==
    session.at = "out" => button \/ script = "loading" \/ doorError # None

(* The card tells an administrator to configure the sign-in only if the    *)
(* server's sign-in is not configured: the comment at App.tsx:278 gives    *)
(* this as what the screen must not do to somebody whose configuration is  *)
(* right.  The code does not keep this: see README, Disagreements.         *)
NotConfiguredIsTrue ==
    session.at = "out" /\ doorError = "notConfigured" => ~Configured

=============================================================================
