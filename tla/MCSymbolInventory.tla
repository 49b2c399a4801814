-------------------------- MODULE MCSymbolInventory --------------------------
(***************************************************************************)
(* Three symbols, so that an answer can list less than half of them.       *)
(***************************************************************************)
EXTENDS SymbolInventory

MCListed == [s \in Symbol |-> "trading"]
=============================================================================
