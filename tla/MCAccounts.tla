----------------------------- MODULE MCAccounts -----------------------------
(* Small instances of Accounts. *)
EXTENDS Accounts, TLC

CONSTANTS ann, bob, mia, lao, uni, d1, d2, s1, s2

\* Accounts that decisions and sign-ins have brought about.
Super == [NoAccount EXCEPT !.role = "super_admin", !.status = "approved",
                           !.decidedBy = Configuration]
Approved(role) == [NoAccount EXCEPT !.role = role, !.status = "approved",
                                    !.decidedBy = ann, !.roleBy = ann]

AllSupers == [u \in Users |-> Super]
SuperAndCollectors == [u \in Users |-> IF u = ann THEN Super ELSE Approved("collector")]
SupersAndAdmin == [u \in Users |-> IF u = mia THEN Approved("admin") ELSE Super]
OneSuper == [u \in Users |-> IF u = ann THEN Super ELSE NoAccount]

Concurrent == Permutations(Slots)

=============================================================================
