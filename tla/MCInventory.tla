----------------------------- MODULE MCInventory -----------------------------
(* Inventory.tla with one name.                                            *)
EXTENDS Inventory
=============================================================================
