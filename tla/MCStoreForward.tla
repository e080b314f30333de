--------------------------- MODULE MCStoreForward ---------------------------
(***************************************************************************)
(* Instances of StoreForward for TLC.  A cfg chooses the verdict windows   *)
(* and the trajectory relation by name.                                    *)
(***************************************************************************)
EXTENDS StoreForward

\* Every record is acceptable at once and for ever.
AlwaysOpen  == [r \in Records |-> 0]
NeverClosed == [r \in Records |-> MaxClock]

\* The second record was captured with the phone's clock ahead of the server's,
\* so it is refused as a future_timestamp until the server's clock gets there.
SecondEarly == [r \in Records |-> IF r = 2 THEN 1 ELSE 0]

\* The first record passes the age limit while the run lasts.
FirstAges == [r \in Records |-> IF r = 1 THEN 0 ELSE MaxClock]

NoJumps   == {}
JumpOneToTwo == {<<1, 2>>}

=============================================================================
