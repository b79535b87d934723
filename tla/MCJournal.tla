------------------------------ MODULE MCJournal ------------------------------
(* Journal.tla on two bodies.                                              *)
EXTENDS Journal
=============================================================================
