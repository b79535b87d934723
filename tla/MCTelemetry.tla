----------------------------- MODULE MCTelemetry -----------------------------
(* Telemetry.tla with two threads, which nothing tells apart.              *)
EXTENDS Telemetry, TLC

MCSymmetry == Permutations(Callers)
=============================================================================
