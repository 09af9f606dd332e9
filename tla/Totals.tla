------------------------------- MODULE Totals -------------------------------
(***************************************************************************)
(* Sums of naturals over a finite set, as the number of their units: f[s]  *)
(* is that many pairs <<s, 1>>, <<s, 2>>, ...  A sum written this way is a *)
(* cardinality, which the proofs can reason about.                         *)
(***************************************************************************)
EXTENDS Naturals, FiniteSets

\* The units of f over S.
Units(S, f) == UNION {{s} \X (1 .. f[s]) : s \in S}

\* The sum of f over S.
Total(S, f) == Cardinality(Units(S, f))
=============================================================================
