---------------------------- MODULE MCBasePolicy -----------------------------
(* BasePolicy.tla with one write of any kind, and two contents, which      *)
(* nothing tells apart.                                                    *)
EXTENDS BasePolicy

MCSymmetry == Permutations(Contents) \cup Permutations(Policies)
=============================================================================
