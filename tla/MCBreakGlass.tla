---------------------------- MODULE MCBreakGlass ----------------------------
(* BreakGlass.tla with the bodies it makes and no other.                   *)
EXTENDS BreakGlass

MCBody == GlassBody
=============================================================================
