------------------------- MODULE MCCollectionService -------------------------
(* Small instances of CollectionService. *)
EXTENDS CollectionService

=============================================================================
