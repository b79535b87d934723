------------------------------ MODULE MCReports ------------------------------
(* Reports.tla with interchangeable reports and callers.  Symmetry is used *)
(* only where no liveness is checked.                                      *)
EXTENDS Reports

MCSymmetry == Permutations(Body) \cup Permutations(Callers)
=============================================================================
