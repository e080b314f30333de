------------------------------ MODULE Delivery ------------------------------
(***************************************************************************)
(* What store-and-forward promises, seen from outside: a record captured   *)
(* on the phone is held there until the server has ruled on it or the      *)
(* phone has given it up for lack of room, and the server takes it at most *)
(* once.  How batches, workers, lost answers and transactions bring that   *)
(* about is the business of StoreForward, which implements this module.    *)
(***************************************************************************)

CONSTANT Records

VARIABLES
  captured,   \* records the phone has ever captured
  held,       \* records the phone still holds
  delivered,  \* records the server has stored
  refused,    \* records the server has refused at least once
  dropped     \* records the phone gave up to stay within its cap

vars == <<captured, held, delivered, refused, dropped>>

Init ==
  /\ captured = {}
  /\ held = {}
  /\ delivered = {}
  /\ refused = {}
  /\ dropped = {}

Capture(r) ==
  /\ r \notin captured
  /\ captured' = captured \cup {r}
  /\ held' = held \cup {r}
  /\ UNCHANGED <<delivered, refused, dropped>>

\* The server rules on part of what it was sent, in one transaction: it takes
\* records it does not have yet, and refuses others.
Rule(taken, turned) ==
  /\ taken \subseteq captured \ delivered
  /\ turned \subseteq captured
  /\ delivered' = delivered \cup taken
  /\ refused' = refused \cup turned
  /\ UNCHANGED <<captured, held, dropped>>

\* The phone forgets records the server is done with.
Release(S) ==
  /\ S \subseteq held
  /\ S \subseteq delivered \cup refused
  /\ held' = held \ S
  /\ UNCHANGED <<captured, delivered, refused, dropped>>

Drop(S) ==
  /\ S \subseteq held
  /\ held' = held \ S
  /\ dropped' = dropped \cup S
  /\ UNCHANGED <<captured, delivered, refused>>

Next ==
  \/ \E r \in Records : Capture(r)
  \/ \E taken, turned \in SUBSET Records : Rule(taken, turned)
  \/ \E S \in SUBSET Records : Release(S) \/ Drop(S)

Spec == Init /\ [][Next]_vars

=============================================================================
