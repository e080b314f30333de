---------------------------- MODULE MCPublicSite ----------------------------
(* Small instances of PublicSite. *)
EXTENDS PublicSite

CONSTANTS vientiane

Square(lo, hi) == [lat |-> [min |-> lo, max |-> hi], lon |-> [min |-> lo, max |-> hi]]

(* A street, a province, and nearly as much as the server answers. *)
Street   == Square(4002, 4032)
Province == Square(4000, 4090)
Country  == Square(3701, 4299)
MCViews  == {Street, Country}
MCViewOf(p) == Street
=============================================================================
