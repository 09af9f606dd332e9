------------------------- MODULE MCUpstreamAttempts -------------------------
(***************************************************************************)
(* Instances of UpstreamAttempts for TLC.                                  *)
(***************************************************************************)
EXTENDS UpstreamAttempts, TLC

PolicyOutcomes == {"connect", "reset", "status"}

\* The permutations of the endpoints that map every group to a group.
Symmetry ==
  Permutations(Requests) \cup
  {p \in Permutations(Endpoints) : {{p[e] : e \in G} : G \in Groups} = Groups}
=============================================================================
