------------------------------ MODULE Counting ------------------------------
(***************************************************************************)
(* Finite sets: how the size of one changes when one element joins or      *)
(* leaves it, which the accounting proofs of the permits, slots, claims    *)
(* and gauges rest on; and that it has a largest number.  What needs       *)
(* induction over a set is had from the least set without the property.    *)
(***************************************************************************)
EXTENDS Naturals, FiniteSets, Totals, FiniteSetTheorems, TLAPS

\* A condition as a number.
One(b) == IF b THEN 1 ELSE 0

\* It is an integer.
LEMMA OneType == ASSUME NEW b PROVE One(b) \in {0, 1}
BY DEF One

\* Two sets that agree on everything but x differ in size by x alone.
THEOREM CountStep ==
  ASSUME NEW A, NEW B, NEW x, IsFiniteSet(A), B \ {x} = A \ {x}
  PROVE  /\ IsFiniteSet(B)
         /\ Cardinality(B) + One(x \in A) = Cardinality(A) + One(x \in B)
<1>1. Cardinality(A) \in Nat
  BY FS_CardinalityType
<1>2. CASE x \in A /\ x \notin B
  <2>1. B = A \ {x}
    BY <1>2
  <2> QED
    BY <1>1, <1>2, <2>1, FS_RemoveElement DEF One
<1>3. CASE x \notin A /\ x \in B
  <2>1. B = A \cup {x}
    BY <1>3
  <2> QED
    BY <1>1, <1>3, <2>1, FS_AddElement DEF One
<1>4. CASE x \in A <=> x \in B
  <2>1. B = A
    BY <1>4
  <2> QED
    BY <1>1, <2>1 DEF One
<1> QED
  BY <1>2, <1>3, <1>4

\* A part of a finite set is finite, and no larger.
THEOREM CountPart ==
  ASSUME NEW A, NEW B, IsFiniteSet(A), B \subseteq A
  PROVE  /\ IsFiniteSet(B)
         /\ Cardinality(B) \in Nat /\ Cardinality(A) \in Nat
         /\ Cardinality(B) <= Cardinality(A)
BY FS_Subset, FS_CardinalityType

\* A set that has an element, or lacks one of a larger set, is not at its
\* limit.
THEOREM CountStrict ==
  ASSUME NEW A, NEW B, NEW x \in A, IsFiniteSet(A), B \subseteq A, x \notin B
  PROVE  Cardinality(B) < Cardinality(A)
<1>1. B \subseteq A \ {x} /\ IsFiniteSet(A \ {x})
  BY FS_RemoveElement
<1>2. Cardinality(A \ {x}) = Cardinality(A) - 1 /\ Cardinality(A) \in Nat
  BY FS_RemoveElement, FS_CardinalityType
<1>3. Cardinality(B) <= Cardinality(A \ {x}) /\ Cardinality(B) \in Nat
  BY <1>1, CountPart
<1> QED
  BY <1>2, <1>3

\* A finite set of integers that is not empty has a largest one.
THEOREM LargestExists ==
  ASSUME NEW S \in SUBSET Int, IsFiniteSet(S), S # {}
  PROVE  \E m \in S : \A x \in S : x <= m
<1> DEFINE HasMax(U) == \E m \in U : \A x \in U : x <= m
           Bad == {U \in SUBSET S : U # {} /\ ~HasMax(U)}
<1>1. SUFFICES ASSUME Bad # {} PROVE FALSE
  OBVIOUS
<1>2. Bad \subseteq FiniteSubsetsOf(S)
  BY FS_FiniteSubsetsOfFinite
<1>3. PICK U \in Bad : \A V \in Bad : <<V, U>> \notin StrictSubsetOrdering(S)
  BY <1>1, <1>2, WFMin, FS_StrictSubsetOrderingWellFounded
<1>4. PICK x \in U : TRUE
  BY <1>3
<1>5. CASE U \ {x} = {}
  <2>1. U = {x}
    BY <1>4, <1>5
  <2> QED
    BY <1>3, <2>1
<1>6. CASE U \ {x} # {}
  <2>1. U \ {x} \in SUBSET S /\ U \in SUBSET S /\ U \ {x} # U
    BY <1>3, <1>4
  <2>2. <<U \ {x}, U>> \in StrictSubsetOrdering(S)
    BY <2>1 DEF StrictSubsetOrdering
  <2>3. HasMax(U \ {x})
    BY <1>3, <1>6, <2>1, <2>2
  <2>4. PICK m \in U \ {x} : \A y \in U \ {x} : y <= m
    BY <2>3
  <2>5. x \in Int /\ m \in Int /\ U \subseteq Int
    BY <1>4, <2>1
  <2>6. CASE x <= m
    BY <1>3, <2>4, <2>5, <2>6
  <2>7. CASE m <= x
    BY <1>3, <1>4, <2>4, <2>5, <2>7
  <2> QED
    BY <2>5, <2>6, <2>7
<1> QED
  BY <1>5, <1>6

\* Finitely many finite sets have finitely many elements between them.
THEOREM UnionFinite ==
  ASSUME NEW C, NEW F, IsFiniteSet(C), \A c \in C : IsFiniteSet(F[c])
  PROVE  IsFiniteSet(UNION {F[c] : c \in C})
<1> DEFINE All(D) == UNION {F[c] : c \in D}
           Bad == {D \in SUBSET C : ~IsFiniteSet(All(D))}
<1>1. SUFFICES ASSUME Bad # {} PROVE FALSE
  OBVIOUS
<1>2. Bad \subseteq FiniteSubsetsOf(C)
  BY FS_FiniteSubsetsOfFinite
<1>3. PICK D \in Bad : \A E \in Bad : <<E, D>> \notin StrictSubsetOrdering(C)
  BY <1>1, <1>2, WFMin, FS_StrictSubsetOrderingWellFounded
<1>4. CASE D = {}
  <2>1. All(D) = {}
    BY <1>4
  <2> QED
    BY <1>3, <2>1, FS_EmptySet
<1>5. CASE D # {}
  <2>1. PICK c \in D : TRUE
    BY <1>5
  <2>2. D \ {c} \in SUBSET C /\ D \in SUBSET C /\ D \ {c} # D
    BY <1>3, <2>1
  <2>3. <<D \ {c}, D>> \in StrictSubsetOrdering(C)
    BY <2>2 DEF StrictSubsetOrdering
  <2>4. IsFiniteSet(All(D \ {c}))
    BY <1>3, <2>2, <2>3
  <2>5. All(D) = All(D \ {c}) \cup F[c]
    BY <2>1
  <2>6. IsFiniteSet(F[c])
    BY <2>1, <2>2
  <2> HIDE DEF All
  <2>7. IsFiniteSet(All(D))
    BY <2>4, <2>5, <2>6, FS_Union
  <2> QED
    BY <1>3, <2>7
<1> QED
  BY <1>4, <1>5

\* Pairs of a set's members with, for each of them, its elements.
Fibres(R, E, F) == {x \in R \X E : x[2] \in F[x[1]]}

\* When the elements of one member change, the number of pairs changes by
\* theirs.
THEOREM CountFibre ==
  ASSUME NEW R, NEW E, IsFiniteSet(R), IsFiniteSet(E),
         NEW F, NEW G, NEW r \in R,
         \A s \in R : F[s] \in SUBSET E /\ G[s] \in SUBSET E,
         \A s \in R \ {r} : G[s] = F[s]
  PROVE  /\ {Cardinality(Fibres(R, E, F)), Cardinality(Fibres(R, E, G)),
             Cardinality(F[r]), Cardinality(G[r])} \subseteq Nat
         /\ Cardinality(F[r]) <= Cardinality(Fibres(R, E, F))
         /\ Cardinality(Fibres(R, E, G)) + Cardinality(F[r])
              = Cardinality(Fibres(R, E, F)) + Cardinality(G[r])
<1> DEFINE A == {x \in R \X E : x[2] \in F[x[1]]}
           B == {x \in R \X E : x[2] \in G[x[1]]}
           Rest == {x \in R \X E : x[1] # r /\ x[2] \in F[x[1]]}
           Part(C) == {r} \X C
<1>1. IsFiniteSet(R \X E) /\ IsFiniteSet(Rest) /\ Cardinality(Rest) \in Nat
  BY FS_Product, FS_Subset, FS_CardinalityType
<1>2. ASSUME NEW C \in SUBSET E
      PROVE  /\ IsFiniteSet(Part(C)) /\ Cardinality(C) \in Nat
             /\ Cardinality(Part(C)) = Cardinality(C)
  <2>1. IsFiniteSet({r}) /\ Cardinality({r}) = 1
    BY FS_Singleton
  <2>2. IsFiniteSet(C) /\ Cardinality(C) \in Nat
    BY FS_Subset, FS_CardinalityType
  <2>3. IsFiniteSet({r} \X C) /\ Cardinality({r} \X C) = 1 * Cardinality(C)
    BY <2>1, <2>2, FS_Product
  <2> QED
    BY <2>2, <2>3
<1>3. A = Rest \cup Part(F[r]) /\ B = Rest \cup Part(G[r])
  <2>1. A \subseteq Rest \cup Part(F[r])
    OBVIOUS
  <2>2. Rest \cup Part(F[r]) \subseteq A
    OBVIOUS
  <2>3. B \subseteq Rest \cup Part(G[r])
    OBVIOUS
  <2>4. Rest \cup Part(G[r]) \subseteq B
    OBVIOUS
  <2> QED
    BY <2>1, <2>2, <2>3, <2>4
<1>4. Rest \cap Part(F[r]) = {} /\ Rest \cap Part(G[r]) = {}
  OBVIOUS
<1>5. F[r] \in SUBSET E /\ G[r] \in SUBSET E
  OBVIOUS
<1> HIDE DEF A, B, Rest, Part
<1>6. Cardinality({}) = 0
  BY FS_EmptySet
<1>7. ASSUME NEW C \in SUBSET E, Rest \cap Part(C) = {}
      PROVE  /\ IsFiniteSet(Rest \cup Part(C))
             /\ Cardinality(Rest \cup Part(C)) = Cardinality(Rest) + Cardinality(C)
  <2>1. IsFiniteSet(Part(C)) /\ Cardinality(C) \in Nat /\ Cardinality(Part(C)) = Cardinality(C)
    BY <1>2
  <2>2. Cardinality(Rest \cup Part(C)) = Cardinality(Rest) + Cardinality(Part(C)) - Cardinality({})
    BY <1>1, <1>7, <2>1, FS_Union
  <2>3. IsFiniteSet(Rest \cup Part(C))
    BY <1>1, <2>1, FS_Union
  <2> QED
    BY <1>1, <1>6, <2>1, <2>2, <2>3
<1>8. /\ IsFiniteSet(A) /\ Cardinality(A) = Cardinality(Rest) + Cardinality(F[r])
      /\ IsFiniteSet(B) /\ Cardinality(B) = Cardinality(Rest) + Cardinality(G[r])
  BY <1>3, <1>4, <1>5, <1>7
<1>9. Cardinality(F[r]) \in Nat /\ Cardinality(G[r]) \in Nat
  BY <1>2, <1>5
<1>10. /\ {Cardinality(A), Cardinality(B),
           Cardinality(F[r]), Cardinality(G[r])} \subseteq Nat
       /\ Cardinality(F[r]) <= Cardinality(A)
       /\ Cardinality(B) + Cardinality(F[r]) = Cardinality(A) + Cardinality(G[r])
  BY <1>1, <1>8, <1>9
<1> QED
  BY <1>10 DEF A, B, Fibres

-----------------------------------------------------------------------------
(***************************************************************************)
(* Sums.                                                                   *)
(***************************************************************************)

\* One member's units are as many as its number.
LEMMA UnitsOne ==
  ASSUME NEW s, NEW n \in Nat
  PROVE  IsFiniteSet({s} \X (1 .. n)) /\ Cardinality({s} \X (1 .. n)) = n
<1>1. IsFiniteSet({s}) /\ Cardinality({s}) = 1
  BY FS_Singleton
<1>2. IsFiniteSet(1 .. n) /\ Cardinality(1 .. n) = n
  BY FS_Interval
<1>3. /\ IsFiniteSet({s} \X (1 .. n))
      /\ Cardinality({s} \X (1 .. n)) = Cardinality({s}) * Cardinality(1 .. n)
  BY <1>1, <1>2, FS_Product
<1> QED
  BY <1>1, <1>2, <1>3

\* A sum is a natural number.
THEOREM TotalType ==
  ASSUME NEW S, IsFiniteSet(S), NEW f \in [S -> Nat]
  PROVE  IsFiniteSet(Units(S, f)) /\ Total(S, f) \in Nat
<1> DEFINE F == [s \in S |-> {s} \X (1 .. f[s])]
<1>1. \A s \in S : IsFiniteSet(F[s])
  BY UnitsOne
<1>2. UNION {F[s] : s \in S} = Units(S, f)
  BY DEF Units
<1>3. IsFiniteSet(UNION {F[s] : s \in S})
  <2> HIDE DEF F
  <2> QED
    BY <1>1, UnionFinite
<1> QED
  BY <1>2, <1>3, FS_CardinalityType DEF Total

\* Larger numbers have the larger sum.
THEOREM TotalLeq ==
  ASSUME NEW S, IsFiniteSet(S), NEW f \in [S -> Nat], NEW g \in [S -> Nat],
         \A s \in S : f[s] <= g[s]
  PROVE  Total(S, f) <= Total(S, g)
<1>1. \A s \in S : 1 .. f[s] \subseteq 1 .. g[s]
  OBVIOUS
<1>2. Units(S, f) \subseteq Units(S, g)
  BY <1>1 DEF Units
<1> QED
  BY <1>2, TotalType, FS_Subset DEF Total

\* Noughts add up to nought.
THEOREM TotalZero ==
  ASSUME NEW S, NEW f, \A s \in S : f[s] = 0
  PROVE  Total(S, f) = 0
<1>1. \A s \in S : 1 .. f[s] = {}
  OBVIOUS
<1>2. Units(S, f) = {}
  BY <1>1 DEF Units
<1> QED
  BY <1>2, FS_EmptySet DEF Total

\* When one number changes, the sum changes by as much.
THEOREM TotalMove ==
  ASSUME NEW S, IsFiniteSet(S), NEW f \in [S -> Nat], NEW g \in [S -> Nat], NEW r \in S,
         \A s \in S \ {r} : g[s] = f[s]
  PROVE  /\ Total(S, g) + f[r] = Total(S, f) + g[r]
         /\ f[r] <= Total(S, f)
<1> DEFINE R == S \ {r}
           Part(n) == {r} \X (1 .. n)
           Rest == Units(R, f)
<1>1. IsFiniteSet(R) /\ R \subseteq S
  BY FS_RemoveElement
<1>2. IsFiniteSet(Rest) /\ Cardinality(Rest) \in Nat
  <2> DEFINE h == [s \in R |-> f[s]]
  <2>1. h \in [R -> Nat]
    OBVIOUS
  <2>2. Units(R, h) = Rest
    BY DEF Units
  <2> HIDE DEF h
  <2> QED
    BY <1>1, <2>1, <2>2, TotalType DEF Total
<1>3. Units(S, f) = Rest \cup Part(f[r])
  BY DEF Units
<1>4. Units(S, g) = Rest \cup Part(g[r])
  BY DEF Units
<1>5. \A n \in Nat : Rest \cap Part(n) = {}
  BY DEF Units
<1>6. \A n \in Nat : IsFiniteSet(Part(n)) /\ Cardinality(Part(n)) = n
  BY UnitsOne
<1> HIDE DEF Rest, Part
<1>7. ASSUME NEW n \in Nat PROVE Cardinality(Rest \cup Part(n)) = Cardinality(Rest) + n
  <2>1. Rest \cap Part(n) = {} /\ IsFiniteSet(Part(n)) /\ Cardinality(Part(n)) = n
    BY <1>5, <1>6
  <2>2. Cardinality(Rest \cup Part(n))
          = Cardinality(Rest) + Cardinality(Part(n)) - Cardinality(Rest \cap Part(n))
    BY <1>2, <2>1, FS_Union
  <2> QED
    BY <1>2, <2>1, <2>2, FS_EmptySet
<1>8. f[r] \in Nat /\ g[r] \in Nat
  OBVIOUS
<1>9. Total(S, f) = Cardinality(Rest) + f[r] /\ Total(S, g) = Cardinality(Rest) + g[r]
  BY <1>3, <1>4, <1>7, <1>8 DEF Total
<1> QED
  BY <1>2, <1>8, <1>9

\* A sum with at most k more for each member of B, where the other had nought.
THEOREM TotalMore ==
  ASSUME NEW S, IsFiniteSet(S), NEW f \in [S -> Nat], NEW g \in [S -> Nat],
         NEW B \in SUBSET S, NEW k \in Nat,
         \A s \in S \ B : g[s] <= f[s],
         \A s \in B : g[s] <= k
  PROVE  Total(S, g) <= Total(S, f) + Cardinality(B) * k
<1>1. IsFiniteSet(Units(S, f)) /\ Total(S, f) \in Nat /\ IsFiniteSet(Units(S, g))
  BY TotalType
<1>2. IsFiniteSet(B) /\ Cardinality(B) \in Nat
  BY FS_Subset, FS_CardinalityType
<1>3. /\ IsFiniteSet(B \X (1 .. k))
      /\ Cardinality(B \X (1 .. k)) = Cardinality(B) * k
  <2>1. IsFiniteSet(1 .. k) /\ Cardinality(1 .. k) = k
    BY FS_Interval
  <2> DEFINE K == 1 .. k
  <2> HIDE DEF K
  <2>2. IsFiniteSet(B \X K) /\ Cardinality(B \X K) = Cardinality(B) * Cardinality(K)
    BY <1>2, <2>1, FS_Product DEF K
  <2> QED
    BY <2>1, <2>2 DEF K
<1>4. Units(S, g) \subseteq Units(S, f) \cup (B \X (1 .. k))
  <2> SUFFICES ASSUME NEW s \in S
               PROVE  {s} \X (1 .. g[s]) \subseteq Units(S, f) \cup (B \X (1 .. k))
    BY DEF Units
  <2>1. CASE s \in B
    <3>1. 1 .. g[s] \subseteq 1 .. k
      BY <2>1
    <3> QED
      BY <2>1, <3>1
  <2>2. CASE s \notin B
    <3>1. 1 .. g[s] \subseteq 1 .. f[s]
      BY <2>2
    <3> QED
      BY <3>1 DEF Units
  <2> QED
    BY <2>1, <2>2
<1> DEFINE U == Units(S, f)
           V == B \X (1 .. k)
<1>5. /\ IsFiniteSet(U \cup V)
      /\ Cardinality(U \cup V) = Cardinality(U) + Cardinality(V) - Cardinality(U \cap V)
      /\ Cardinality(U \cap V) \in Nat
  <2>1. IsFiniteSet(U \cap V)
    BY <1>1, FS_Subset
  <2> HIDE DEF U, V
  <2> QED
    BY <1>1, <1>3, <2>1, FS_Union, FS_CardinalityType DEF U, V
<1>6. Cardinality(Units(S, g)) <= Cardinality(U \cup V)
  BY <1>4, <1>5, FS_Subset
<1>7. Cardinality(U) \in Nat /\ Cardinality(V) \in Nat /\ Cardinality(Units(S, g)) \in Nat
  BY <1>1, <1>3, FS_CardinalityType
<1> QED
  BY <1>3, <1>5, <1>6, <1>7 DEF Total
=============================================================================
