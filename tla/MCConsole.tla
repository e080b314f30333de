------------------------------ MODULE MCConsole ------------------------------
(* A small instance of Console: a country of two provinces, one of which   *)
(* has a district; the super admin whose dashboard it is, one who has not  *)
(* signed in yet, and a collector whom configuration makes a super admin   *)
(* when he signs in.  A behaviour follows either the whole dashboard while *)
(* nobody else's account is touched, or the approval queue with everybody  *)
(* else while the rest of the dashboard is left alone.                     *)
EXTENDS Console, TLC

CONSTANTS laos, north, south, town, me, ann, bob, QueueSteps

MCParent == [a \in Areas |-> CASE a \in {north, south} -> laos
                                [] a = town -> north
                                [] OTHER -> None]
MCLevel  == [a \in Areas |-> CASE a \in {north, south} -> 1 [] a = town -> 2 [] OTHER -> 0]

Account0(status, role) == [status |-> status, role |-> role, credit |-> FALSE]
MCBeginning ==
    [u \in People |-> CASE u = me  -> Account0("approved", "super_admin")
                        [] u = bob -> Account0("approved", "collector")
                        [] OTHER   -> None]

Visitor(at, role) == [at |-> at, role |-> role]
SuperAdmin == Visitor("in", "super_admin")
MCVisitors == {SuperAdmin, Visitor("in", "collector"), Visitor("pending", "admin")}

VARIABLE follows    \* "dashboard" or "queue"

(* Nobody else's account is changed or asked about, and no handset has an  *)
(* owner.                                                                  *)
OnlyMine ==
    /\ \A u \in People \ {Me} : server[u] = Beginning[u]
    /\ \A d \in Devices : holder[d] = None
    /\ \A s \in Slots : write[s] = None \/ write[s].id = Me
    /\ asksDevices = {} /\ naming = None

Queue ==
    \/ Admit(SuperAdmin)
    \/ \E v \in {"users", "method"} : Select(v)
    \/ (UsersAnswers \/ UsersChoices) /\ UNCHANGED <<doorVars, filterVars, pageVars>>

MCInit == Init /\ follows \in {"dashboard", "queue"} /\ (follows = "dashboard" => OnlyMine)
MCNext ==
    \/ follows = "dashboard" /\ Next /\ OnlyMine' /\ UNCHANGED follows
    \/ follows = "queue" /\ Queue /\ steps' <= QueueSteps /\ UNCHANGED follows
MCSpec == MCInit /\ [][MCNext]_<<consoleVars, follows>>
=============================================================================
