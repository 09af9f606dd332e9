---------------------------- MODULE MCHedgeRace ----------------------------
(* Two concurrent races of one route.                                       *)
EXTENDS HedgeRace
=============================================================================
