-------------------------------- MODULE SumProofs --------------------------------
(***********************************************************************************)
(* Sums over finite sets.  MapThenSumSet takes the elements of a set away one by   *)
(* one; what it returns is the number of pairs of an element and one of the         *)
(* numbers from 1 to its summand, whatever the order.                               *)
(***********************************************************************************)
EXTENDS FiniteSetsExt, FiniteSetTheorems, TLAPS

Column(g, x) == {x} \X (1 .. g[x])
Columns(g, S) == UNION {Column(g, x) : x \in S}
Sum(g, S) == Cardinality(Columns(g, S))

LEMMA ColumnSize ==
    ASSUME NEW g, NEW x, g[x] \in Nat
    PROVE  IsFiniteSet(Column(g, x)) /\ Cardinality(Column(g, x)) = g[x]
<1>1. IsFiniteSet({x}) /\ Cardinality({x}) = 1
  BY FS_Singleton
<1>2. IsFiniteSet(1 .. g[x]) /\ Cardinality(1 .. g[x]) = g[x]
  BY FS_Interval
<1>3. IsFiniteSet(Column(g, x)) /\ Cardinality(Column(g, x)) = 1 * g[x]
  <2>1. PICK S, T : S = {x} /\ T = 1 .. g[x]
    OBVIOUS
  <2>2. IsFiniteSet(S) /\ IsFiniteSet(T) /\ Cardinality(S) = 1 /\ Cardinality(T) = g[x]
    BY <1>1, <1>2, <2>1
  <2>3. IsFiniteSet(S \X T) /\ Cardinality(S \X T) = Cardinality(S) * Cardinality(T)
    BY <2>2, FS_Product
  <2>4. Column(g, x) = S \X T
    BY <2>1 DEF Column
  <2> QED BY <2>2, <2>3, <2>4
<1> QED BY <1>3

LEMMA ColumnsFinite ==
    ASSUME NEW S, IsFiniteSet(S), NEW g, \A x \in S : g[x] \in Nat
    PROVE  IsFiniteSet(Columns(g, S)) /\ Sum(g, S) \in Nat
<1> DEFINE C == {Column(g, x) : x \in S}
           f == [x \in S |-> Column(g, x)]
<1>1. f \in Surjection(S, C)
  BY DEF Surjection
<1>2. IsFiniteSet(C)
  BY <1>1, FS_Surjection
<1>3. \A c \in C : IsFiniteSet(c)
  BY ColumnSize
<1>4. IsFiniteSet(UNION C)
  BY <1>2, <1>3, FS_UNION
<1> QED BY <1>4, FS_CardinalityType DEF Columns, Sum

\* One summand may be taken out.
LEMMA SumWithout ==
    ASSUME NEW S, IsFiniteSet(S), NEW g, \A y \in S : g[y] \in Nat, NEW x \in S
    PROVE  Sum(g, S) = g[x] + Sum(g, S \ {x})
<1> DEFINE rest == Columns(g, S \ {x})
<1>1. IsFiniteSet(S \ {x})
  BY FS_RemoveElement
<1>2. IsFiniteSet(rest) /\ Cardinality(rest) \in Nat
  BY <1>1, ColumnsFinite DEF Sum
<1>3. IsFiniteSet(Column(g, x)) /\ Cardinality(Column(g, x)) = g[x]
  BY ColumnSize
<1>4. Columns(g, S) = rest \cup Column(g, x)
  BY DEF Columns
<1>5. rest \cap Column(g, x) = {}
  BY DEF Columns, Column
<1>6. Cardinality(rest \cap Column(g, x)) = 0
  BY <1>5, FS_EmptySet
<1> HIDE DEF rest
<1>7. Cardinality(Columns(g, S)) = Cardinality(rest) + g[x] - 0
  BY <1>2, <1>3, <1>4, <1>6, FS_Union
<1> QED BY <1>2, <1>7 DEF Sum, rest

LEMMA SumOfNone ==
    ASSUME NEW g
    PROVE  Sum(g, {}) = 0
<1>1. Columns(g, {}) = {}
  BY DEF Columns
<1> QED BY <1>1, FS_EmptySet DEF Sum

LEMMA SumSame ==
    ASSUME NEW S, NEW f, NEW g, \A x \in S : f[x] = g[x]
    PROVE  Sum(f, S) = Sum(g, S)
<1>1. \A x \in S : Column(f, x) = Column(g, x)
  BY DEF Column
<1>2. Columns(f, S) = Columns(g, S)
  BY <1>1 DEF Columns
<1> QED BY <1>2 DEF Sum

-----------------------------------------------------------------------------------
(* The fold.                                                                         *)

Pick(s) == CHOOSE x \in s : TRUE

\* h is what MapThenSumSet computes of every subset.
Folds(g, S, h) ==
    h = [s \in SUBSET S |-> IF s = {} THEN 0 ELSE g[Pick(s)] + h[s \ {Pick(s)}]]

LEMMA PickIsIn ==
    ASSUME NEW s, s # {}
    PROVE  Pick(s) \in s
  BY DEF Pick

LEMMA FoldExists ==
    ASSUME NEW S, IsFiniteSet(S), NEW g, \A x \in S : g[x] \in Nat
    PROVE  Folds(g, S, [s \in SUBSET S |-> Sum(g, s)])
<1> DEFINE h == [s \in SUBSET S |-> Sum(g, s)]
<1>1. ASSUME NEW s \in SUBSET S, s # {} PROVE Sum(g, s) = g[Pick(s)] + Sum(g, s \ {Pick(s)})
  <2>1. IsFiniteSet(s) /\ Pick(s) \in s
    BY <1>1, FS_Subset, PickIsIn
  <2> QED BY <2>1, SumWithout
<1>2. \A s \in SUBSET S : s \ {Pick(s)} \in SUBSET S
  OBVIOUS
<1>3. \A s \in SUBSET S :
         h[s] = IF s = {} THEN 0 ELSE g[Pick(s)] + h[s \ {Pick(s)}]
  BY <1>1, <1>2, SumOfNone
<1> QED BY <1>3 DEF Folds

\* A nonempty set of subsets of a finite set has a least one.
LEMMA LeastSubset ==
    ASSUME NEW S, IsFiniteSet(S), NEW T, T \subseteq SUBSET S, T # {}
    PROVE  \E s \in T : \A u \in T : ~(u \subseteq s /\ u # s)
<1> DEFINE R == StrictSubsetOrdering(S)
<1>1. IsWellFoundedOn(R, SUBSET S)
  BY FS_StrictSubsetOrderingWellFounded, FS_FiniteSubsetsOfFinite
<1> HIDE DEF R
<1>2. PICK s \in T : \A u \in T : ~(<<u, s>> \in R)
  BY <1>1, WFMin
<1>3. \A u \in T : u \subseteq s /\ u # s => <<u, s>> \in R
  BY DEF R, StrictSubsetOrdering
<1>4. \A u \in T : ~(u \subseteq s /\ u # s)
  BY <1>2, <1>3
<1> QED BY <1>4, Zenon

LEMMA FoldUnique ==
    ASSUME NEW S, IsFiniteSet(S), NEW g, \A x \in S : g[x] \in Nat, NEW h, Folds(g, S, h)
    PROVE  \A s \in SUBSET S : h[s] = Sum(g, s)
<1> DEFINE bad == {s \in SUBSET S : h[s] # Sum(g, s)}
<1>1. SUFFICES ASSUME bad # {} PROVE FALSE
  OBVIOUS
<1>2. PICK s \in bad : \A u \in bad : ~(u \subseteq s /\ u # s)
  <2>1. bad \subseteq SUBSET S
    OBVIOUS
  <2> HIDE DEF bad
  <2> QED BY <1>1, <2>1, LeastSubset
<1>3. s \in SUBSET S /\ IsFiniteSet(s)
  BY FS_Subset
<1>4. h[s] = IF s = {} THEN 0 ELSE g[Pick(s)] + h[s \ {Pick(s)}]
  BY <1>3 DEF Folds
<1>5. CASE s = {}
  BY <1>4, <1>5, SumOfNone
<1>6. CASE s # {}
  <2>1. Pick(s) \in s
    BY <1>6, PickIsIn
  <2>2. h[s \ {Pick(s)}] = Sum(g, s \ {Pick(s)})
    BY <1>2, <1>3, <2>1
  <2>3. Sum(g, s) = g[Pick(s)] + Sum(g, s \ {Pick(s)})
    BY <1>3, <2>1, SumWithout
  <2> QED BY <1>4, <1>6, <2>2, <2>3
<1> QED BY <1>5, <1>6

\* MapThenSumSet, for a function.
FoldOf(g, S) == MapThenSumSet(LAMBDA x : g[x], S)

LEMMA SumIsFold ==
    ASSUME NEW S, IsFiniteSet(S), NEW g, \A x \in S : g[x] \in Nat
    PROVE  FoldOf(g, S) = Sum(g, S)
<1> DEFINE iter == CHOOSE h : Folds(g, S, h)
<1>1. Folds(g, S, iter)
  BY FoldExists
<1>2. iter[S] = Sum(g, S)
  <2> HIDE DEF iter
  <2> QED BY <1>1, FoldUnique
<1>3. FoldOf(g, S) = iter[S]
  BY DEF FoldOf, MapThenSumSet, MapThenFoldSet, Folds, Pick
<1> QED BY <1>2, <1>3

-----------------------------------------------------------------------------------
(* What the steps of a specification do to a sum.                                    *)

\* One summand changes.
LEMMA SumChanges ==
    ASSUME NEW S, IsFiniteSet(S), NEW f, \A y \in S : f[y] \in Nat,
           NEW g, \A y \in S : g[y] \in Nat,
           NEW x \in S, \A y \in S \ {x} : f[y] = g[y]
    PROVE  /\ Sum(f, S) \in Nat /\ Sum(g, S) \in Nat
           /\ Sum(g, S) + f[x] = Sum(f, S) + g[x]
<1>1. Sum(f, S) = f[x] + Sum(f, S \ {x}) /\ Sum(g, S) = g[x] + Sum(g, S \ {x})
  BY SumWithout
<1>2. Sum(f, S \ {x}) = Sum(g, S \ {x})
  BY SumSame
<1>3. IsFiniteSet(S \ {x})
  BY FS_RemoveElement
<1>4. Sum(f, S \ {x}) \in Nat
  BY <1>3, ColumnsFinite
<1>5. f[x] \in Nat /\ g[x] \in Nat
  OBVIOUS
<1> QED BY <1>1, <1>2, <1>4, <1>5

LEMMA SumOfZeros ==
    ASSUME NEW S, NEW g, \A x \in S : g[x] = 0
    PROVE  Sum(g, S) = 0
<1>1. \A x \in S : Column(g, x) = {}
  BY DEF Column
<1>2. Columns(g, S) = {}
  BY <1>1 DEF Columns
<1> QED BY <1>2, FS_EmptySet DEF Sum

\* The sum over two disjoint sets.
LEMMA SumOfTwo ==
    ASSUME NEW S, NEW T, IsFiniteSet(S), IsFiniteSet(T), S \cap T = {},
           NEW g, \A x \in S \cup T : g[x] \in Nat
    PROVE  Sum(g, S \cup T) = Sum(g, S) + Sum(g, T)
<1>1. IsFiniteSet(Columns(g, S)) /\ IsFiniteSet(Columns(g, T))
      /\ Sum(g, S) \in Nat /\ Sum(g, T) \in Nat
  BY ColumnsFinite
<1>2. Columns(g, S \cup T) = Columns(g, S) \cup Columns(g, T)
  BY DEF Columns
<1>3. Columns(g, S) \cap Columns(g, T) = {}
  BY DEF Columns, Column
<1>4. Cardinality(Columns(g, S) \cap Columns(g, T)) = 0
  BY <1>3, FS_EmptySet
<1> DEFINE A == Columns(g, S)
           B == Columns(g, T)
<1>5. Cardinality(A \cup B) = Cardinality(A) + Cardinality(B) - Cardinality(A \cap B)
  <2> HIDE DEF A, B
  <2> QED BY <1>1, FS_Union DEF A, B
<1>6. Sum(g, S \cup T) = Cardinality(A \cup B) /\ Sum(g, S) = Cardinality(A)
      /\ Sum(g, T) = Cardinality(B)
  BY <1>2 DEF Sum
<1> HIDE DEF A, B
<1> QED BY <1>1, <1>4, <1>5, <1>6 DEF A, B

LEMMA SumOfPart ==
    ASSUME NEW S, IsFiniteSet(S), NEW T \in SUBSET S, NEW g, \A x \in S : g[x] \in Nat
    PROVE  Sum(g, T) \in Nat /\ Sum(g, S) \in Nat /\ Sum(g, T) <= Sum(g, S)
<1>1. IsFiniteSet(T) /\ IsFiniteSet(S \ T)
  BY FS_Subset
<1>2. Sum(g, T) \in Nat /\ Sum(g, S \ T) \in Nat /\ Sum(g, S) \in Nat
  BY <1>1, ColumnsFinite
<1>3. S = T \cup (S \ T) /\ T \cap (S \ T) = {}
  OBVIOUS
<1>4. Sum(g, S) = Sum(g, T) + Sum(g, S \ T)
  BY <1>1, <1>3, SumOfTwo
<1> QED BY <1>2, <1>4

\* Summands of zero do not count.
LEMMA SumOfNonZeros ==
    ASSUME NEW S, IsFiniteSet(S), NEW g, \A x \in S : g[x] \in Nat
    PROVE  Sum(g, {x \in S : g[x] # 0}) = Sum(g, S)
<1> DEFINE T == {x \in S : g[x] # 0}
<1>1. IsFiniteSet(T) /\ IsFiniteSet(S \ T)
  BY FS_Subset
<1>2. Sum(g, S \ T) = 0
  BY SumOfZeros
<1>3. S = T \cup (S \ T) /\ T \cap (S \ T) = {}
  OBVIOUS
<1>4. Sum(g, S) = Sum(g, T) + Sum(g, S \ T)
  BY <1>1, <1>3, SumOfTwo
<1>5. Sum(g, T) \in Nat
  BY <1>1, ColumnsFinite
<1> QED BY <1>2, <1>4, <1>5

\* The sum of sums, summand by summand.
LEMMA SumOfPairs ==
    ASSUME NEW S, IsFiniteSet(S), NEW f, \A x \in S : f[x] \in Nat,
           NEW g, \A x \in S : g[x] \in Nat, NEW h, \A x \in S : h[x] = f[x] + g[x]
    PROVE  Sum(h, S) = Sum(f, S) + Sum(g, S)
<1> DEFINE bad == {s \in SUBSET S : Sum(h, s) # Sum(f, s) + Sum(g, s)}
<1>1. SUFFICES ASSUME bad # {} PROVE FALSE
  OBVIOUS
<1>2. PICK s \in bad : \A u \in bad : ~(u \subseteq s /\ u # s)
  <2>1. bad \subseteq SUBSET S
    OBVIOUS
  <2> HIDE DEF bad
  <2> QED BY <1>1, <2>1, LeastSubset
<1>3. s \in SUBSET S /\ IsFiniteSet(s)
  BY FS_Subset
<1>4. CASE s = {}
  BY <1>4, SumOfNone
<1>5. CASE s # {}
  <2>1. PICK x \in s : TRUE
    BY <1>5
  <2> DEFINE r == s \ {x}
  <2>2. Sum(h, r) = Sum(f, r) + Sum(g, r)
    BY <1>2, <1>3, <2>1
  <2>3. /\ Sum(h, s) = h[x] + Sum(h, r) /\ Sum(f, s) = f[x] + Sum(f, r)
        /\ Sum(g, s) = g[x] + Sum(g, r)
    BY <1>3, <2>1, SumWithout
  <2>4. IsFiniteSet(r) /\ r \subseteq S
    BY <1>3, FS_RemoveElement
  <2>5. Sum(f, r) \in Nat /\ Sum(g, r) \in Nat /\ Sum(h, r) \in Nat
    BY <2>4, ColumnsFinite
  <2>6. f[x] \in Nat /\ g[x] \in Nat /\ h[x] = f[x] + g[x]
    BY <1>3, <2>1
  <2>7. Sum(h, s) # Sum(f, s) + Sum(g, s)
    BY <1>2
  <2> HIDE DEF r, bad
  <2> QED BY <2>2, <2>3, <2>5, <2>6, <2>7
<1> QED BY <1>4, <1>5

\* The elements of a set, counted kind by kind.
OfKind(V, kind, i)  == {v \in V : kind[v] = i}
OfKinds(V, kind, S) == {v \in V : kind[v] \in S}

LEMMA SumByKind ==
    ASSUME NEW S, IsFiniteSet(S), NEW V, IsFiniteSet(V), NEW bag, \A v \in V : bag[v] \in Nat,
           NEW kind, NEW c, \A i \in S : c[i] = Sum(bag, OfKind(V, kind, i))
    PROVE  Sum(c, S) = Sum(bag, OfKinds(V, kind, S))
<1> DEFINE In(s) == OfKinds(V, kind, s)
           Of(i) == OfKind(V, kind, i)
           bad == {s \in SUBSET S : Sum(c, s) # Sum(bag, In(s))}
<1>1. SUFFICES ASSUME bad # {} PROVE FALSE
  OBVIOUS
<1>2. PICK s \in bad : \A u \in bad : ~(u \subseteq s /\ u # s)
  <2>1. bad \subseteq SUBSET S
    OBVIOUS
  <2> HIDE DEF bad
  <2> QED BY <1>1, <2>1, LeastSubset
<1>3. s \in SUBSET S /\ IsFiniteSet(s) /\ Sum(c, s) # Sum(bag, In(s))
  BY FS_Subset
<1>4. CASE s = {}
  <2>1. In(s) = {}
    BY <1>4 DEF OfKinds
  <2> HIDE DEF In
  <2> QED BY <1>3, <1>4, <2>1, SumOfNone
<1>5. CASE s # {}
  <2>1. PICK x \in s : TRUE
    BY <1>5
  <2> DEFINE r == s \ {x}
  <2>2. Sum(c, r) = Sum(bag, In(r))
    BY <1>2, <1>3, <2>1
  <2>3. \A i \in s : c[i] \in Nat
    <3> SUFFICES ASSUME NEW i \in s PROVE c[i] \in Nat
      OBVIOUS
    <3>1. IsFiniteSet(Of(i)) /\ \A v \in Of(i) : bag[v] \in Nat
      BY FS_Subset DEF OfKind
    <3>2. c[i] = Sum(bag, Of(i))
      BY <1>3
    <3> HIDE DEF Of
    <3> QED BY <3>1, <3>2, ColumnsFinite
  <2>4. Sum(c, s) = c[x] + Sum(c, r)
    <3> HIDE DEF In, bad
    <3> QED BY <1>3, <2>1, <2>3, SumWithout
  <2>5. /\ In(s) = Of(x) \cup In(r) /\ Of(x) \cap In(r) = {}
        /\ In(r) \subseteq V /\ Of(x) \subseteq V
    BY <2>1 DEF OfKind, OfKinds
  <2>6. c[x] = Sum(bag, Of(x))
    BY <1>3, <2>1
  <2>7. Sum(bag, In(s)) = Sum(bag, Of(x)) + Sum(bag, In(r))
    <3> HIDE DEF In, Of, r
    <3>1. IsFiniteSet(In(r)) /\ IsFiniteSet(Of(x))
      BY <2>5, FS_Subset
    <3>2. \A v \in Of(x) \cup In(r) : bag[v] \in Nat
      BY <2>5
    <3>3. Sum(bag, Of(x) \cup In(r)) = Sum(bag, Of(x)) + Sum(bag, In(r))
      BY <2>5, <3>1, <3>2, SumOfTwo
    <3> QED BY <2>5, <3>3
  <2> HIDE DEF In, Of, r, bad
  <2> QED BY <1>3, <2>2, <2>4, <2>6, <2>7
<1> QED BY <1>4, <1>5

\* A nonempty finite set of integers has a greatest element and a least one.
LEMMA MaxOfFinite ==
    ASSUME NEW S, S \subseteq Int, IsFiniteSet(S), S # {}
    PROVE  Max(S) \in S /\ \A y \in S : y <= Max(S)
<1> DEFINE Above(x) == {y \in S : y > x}
           sets == {Above(x) : x \in S}
<1>1. sets \subseteq SUBSET S /\ sets # {}
  OBVIOUS
<1>2. PICK s \in sets : \A u \in sets : ~(u \subseteq s /\ u # s)
  <2> HIDE DEF Above, sets
  <2>1. IsFiniteSet(S) /\ sets \subseteq SUBSET S /\ sets # {}
    BY <1>1
  <2> QED BY ONLY <2>1, LeastSubset
<1>3. PICK x \in S : s = Above(x)
  OBVIOUS
<1>4. \A y \in S : y <= x
  <2> SUFFICES ASSUME NEW y \in S, ~(y <= x) PROVE FALSE
    OBVIOUS
  <2>1. x \in Int /\ y \in Int
    OBVIOUS
  <2>2. y \in Above(x) /\ y \notin Above(y)
    BY <2>1
  <2>3. Above(y) \subseteq Above(x)
    <3> SUFFICES ASSUME NEW z \in Above(y) PROVE z \in Above(x)
      OBVIOUS
    <3>1. z \in Int
      OBVIOUS
    <3> QED BY <2>1, <3>1
  <2>4. Above(y) \in sets
    OBVIOUS
  <2> HIDE DEF Above, sets
  <2> QED BY <1>2, <1>3, <2>2, <2>3, <2>4
<1>5. \E m \in S : \A y \in S : m >= y
  BY <1>4
<1>6. Max(S) \in S /\ \A y \in S : Max(S) >= y
  BY <1>5 DEF Max
<1> QED BY <1>6

LEMMA MinOfFinite ==
    ASSUME NEW S, S \subseteq Int, IsFiniteSet(S), S # {}
    PROVE  Min(S) \in S /\ \A y \in S : Min(S) <= y
<1> DEFINE Below(x) == {y \in S : y < x}
           sets == {Below(x) : x \in S}
<1>1. sets \subseteq SUBSET S /\ sets # {}
  OBVIOUS
<1>2. PICK s \in sets : \A u \in sets : ~(u \subseteq s /\ u # s)
  <2> HIDE DEF Below, sets
  <2>1. IsFiniteSet(S) /\ sets \subseteq SUBSET S /\ sets # {}
    BY <1>1
  <2> QED BY ONLY <2>1, LeastSubset
<1>3. PICK x \in S : s = Below(x)
  OBVIOUS
<1>4. \A y \in S : x <= y
  <2> SUFFICES ASSUME NEW y \in S, ~(x <= y) PROVE FALSE
    OBVIOUS
  <2>1. x \in Int /\ y \in Int
    OBVIOUS
  <2>2. y \in Below(x) /\ y \notin Below(y)
    BY <2>1
  <2>3. Below(y) \subseteq Below(x)
    <3> SUFFICES ASSUME NEW z \in Below(y) PROVE z \in Below(x)
      OBVIOUS
    <3>1. z \in Int
      OBVIOUS
    <3> QED BY <2>1, <3>1
  <2>4. Below(y) \in sets
    OBVIOUS
  <2> HIDE DEF Below, sets
  <2> QED BY <1>2, <1>3, <2>2, <2>3, <2>4
<1>5. \E m \in S : \A y \in S : m <= y
  BY <1>4
<1>6. Min(S) \in S /\ \A y \in S : Min(S) <= y
  BY <1>5 DEF Min
<1> QED BY <1>6
===================================================================================
