---------------------------- MODULE MCInterceptor ----------------------------
(* Interceptor.tla with two contents, which nothing tells apart.           *)
EXTENDS Interceptor

MCSymmetry == Permutations(Contents)
=============================================================================
