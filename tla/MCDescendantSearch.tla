------------------------- MODULE MCDescendantSearch -------------------------
(* DescendantSearch over the ledger of MCLedger. *)
EXTENDS DescendantSearch, MCLedger
=============================================================================
