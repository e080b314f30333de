------------------------------- MODULE Reader -------------------------------
(***************************************************************************)
(* What bounds a behaviour of the dashboard's pages: how often the person  *)
(* in front of it acts, and how many of its requests fail.  Shared by the  *)
(* modules of the pages, so that one budget serves all of them.            *)
(***************************************************************************)
EXTENDS Naturals

CONSTANTS
    None,
    MaxSteps,       \* bound on what the reader does, and super admins elsewhere
    MaxFailures     \* bound on requests that fail

ASSUME ReaderAssumption == MaxSteps \in Nat /\ MaxFailures \in Nat

VARIABLES steps, failures

budget == <<steps, failures>>

BudgetOK   == steps \in 0..MaxSteps /\ failures \in 0..MaxFailures
BudgetInit == steps = 0 /\ failures = 0

Step == steps < MaxSteps /\ steps' = steps + 1 /\ UNCHANGED failures
Fail == failures < MaxFailures /\ failures' = failures + 1 /\ UNCHANGED steps

OrNone(S) == S \cup {None}

=============================================================================
