--------------------------- MODULE MC_Interaction ---------------------------
(* Two clients, one of them privileged; one plasma with two points; an NPC *)
(* with actions and a server object without.                               *)
EXTENDS Interaction

\* Point ids below, at and beyond the plasma's points.
MCPointInput == {-1, 0, 1, 2, 3}
=============================================================================
