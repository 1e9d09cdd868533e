------------------------------- MODULE Counting -------------------------------
(* What the proofs need of numbers, finite sets and sums: the least and the    *)
(* greatest of a set, induction over numbers and over the subsets of a finite  *)
(* set, the recursion of MapThenSumSet, and counting by a property.            *)
(* Induction is stated for a set of numbers, or of sets, instead of for an     *)
(* operator.                                                                   *)
EXTENDS Integers, FiniteSetsExt, FiniteSetTheorems, WellFoundedInduction, TLAPS

\* A set of numbers that is not empty has a least one.
LEMMA LeastOf ==
    ASSUME NEW T \in SUBSET Nat, T # {}
    PROVE  \E x \in T : \A y \in T : x =< y
<1>1. PICK x \in T : \A y \in T : ~ (<<y, x>> \in OpToRel(<, Nat))
  BY NatLessThanWellFounded, WFMin
<1>2. \A y \in T : ~ (y < x)
  BY <1>1 DEF OpToRel
<1> QED
  BY <1>2

\* Induction over the numbers.
LEMMA EveryNumber ==
    ASSUME NEW P \in SUBSET Nat, 0 \in P, \A n \in P : n + 1 \in P
    PROVE  \A n \in Nat : n \in P
<1> SUFFICES ASSUME Nat \ P # {} PROVE FALSE
  OBVIOUS
<1>1. PICK x \in Nat \ P : \A y \in Nat \ P : x =< y
  BY LeastOf
<1>2. x - 1 \in Nat
  BY <1>1
<1>3. x - 1 \in P
  BY <1>1, <1>2
<1>4. (x - 1) + 1 \in P
  BY <1>3
<1> QED
  BY <1>1, <1>4

\* Induction over the subsets of a finite set, those with an element less first.
LEMMA EverySubset ==
    ASSUME NEW S, IsFiniteSet(S), NEW P,
           \A T \in SUBSET S : (\A x \in T : T \ {x} \in P) => T \in P
    PROVE  \A T \in SUBSET S : T \in P
<1> DEFINE N == {n \in Nat : \A T \in SUBSET S : Cardinality(T) =< n => T \in P}
<1>1. \A T \in SUBSET S : IsFiniteSet(T) /\ Cardinality(T) \in Nat
  BY FS_Subset, FS_CardinalityType
<1>2. 0 \in N
  <2> SUFFICES ASSUME NEW T \in SUBSET S, Cardinality(T) =< 0 PROVE T \in P
    OBVIOUS
  <2>1. Cardinality(T) = 0
    BY <1>1
  <2>2. T = {}
    BY <1>1, <2>1, FS_EmptySet
  <2> QED
    BY <2>2
<1>3. \A n \in N : n + 1 \in N
  <2> SUFFICES ASSUME NEW n \in N, NEW T \in SUBSET S, Cardinality(T) =< n + 1 PROVE T \in P
    OBVIOUS
  <2>1. \A x \in T : Cardinality(T \ {x}) = Cardinality(T) - 1
    BY <1>1, FS_RemoveElement
  <2>2. \A x \in T : T \ {x} \in P
    BY <1>1, <2>1
  <2> QED
    BY <2>2
<1>4. \A n \in Nat : n \in N
  <2> HIDE DEF N
  <2>1. N \in SUBSET Nat
    BY DEF N
  <2> QED
    BY <1>2, <1>3, <2>1, EveryNumber
<1> QED
  BY <1>1, <1>4

\* A finite set of numbers that is not empty has a greatest one.
LEMMA GreatestOf ==
    ASSUME NEW S \in SUBSET Nat, IsFiniteSet(S), S # {}
    PROVE  \E x \in S : \A y \in S : y =< x
<1> DEFINE P == {T \in SUBSET S : T # {} => \E x \in T : \A y \in T : y =< x}
<1>1. ASSUME NEW T \in SUBSET S, \A x \in T : T \ {x} \in P PROVE T \in P
  <2>1. CASE T = {}
    BY <2>1
  <2>2. CASE T # {}
    <3>1. PICK x \in T : TRUE
      BY <2>2
    <3>2. CASE T \ {x} = {}
      <4>1. T = {x}
        BY <3>1, <3>2
      <4> QED
        BY <4>1
    <3>3. CASE T \ {x} # {}
      <4>1. PICK m \in T \ {x} : \A y \in T \ {x} : y =< m
        BY <1>1, <3>1, <3>3
      <4>2. m \in Nat /\ x \in Nat
        BY <3>1, <4>1
      <4>3. \E k \in T : \A y \in T : y =< k
        <5>1. CASE x =< m
          <6>1. \A y \in T : y =< m
            BY <4>1, <5>1
          <6> QED
            BY <4>1, <6>1
        <5>2. CASE m =< x
          <6>1. \A y \in T : y =< x
            <7> SUFFICES ASSUME NEW y \in T PROVE y =< x
              OBVIOUS
            <7>1. y \in Nat
              OBVIOUS
            <7>2. CASE y = x
              BY <4>2, <7>2
            <7>3. CASE y # x
              BY <4>1, <4>2, <5>2, <7>1, <7>3
            <7> QED
              BY <7>2, <7>3
          <6> QED
            BY <3>1, <6>1
        <5> QED
          BY <4>2, <5>1, <5>2
      <4> QED
        BY <4>3
    <3> QED
      BY <3>2, <3>3
  <2> QED
    BY <2>1, <2>2
<1>2. S \in P
  <2> HIDE DEF P
  <2> QED
    BY <1>1, EverySubset
<1> QED
  BY <1>2

\* In a finite set of numbers there is one with k below it, for every k less than their number.
LEMMA OneWithSoManyBelow ==
    ASSUME NEW S \in SUBSET Nat, IsFiniteSet(S), NEW k \in Nat, k < Cardinality(S)
    PROVE  \E x \in S : Cardinality({y \in S : y < x}) = k
<1> DEFINE P == {T \in SUBSET S : \A j \in Nat : j < Cardinality(T) =>
                    \E x \in T : Cardinality({y \in T : y < x}) = j}
<1>1. ASSUME NEW T \in SUBSET S, \A x \in T : T \ {x} \in P PROVE T \in P
  <2> SUFFICES ASSUME NEW j \in Nat, j < Cardinality(T)
               PROVE  \E x \in T : Cardinality({y \in T : y < x}) = j
    OBVIOUS
  <2>1. IsFiniteSet(T) /\ Cardinality(T) \in Nat
    BY FS_Subset, FS_CardinalityType
  <2>2. T # {}
    BY <2>1, FS_EmptySet
  <2>3. PICK m \in T : \A y \in T : y =< m
    BY <2>1, <2>2, GreatestOf
  <2>4. Cardinality(T \ {m}) = Cardinality(T) - 1
    BY <2>1, <2>3, FS_RemoveElement
  <2>5. CASE j < Cardinality(T) - 1
    <3>1. PICK x \in T \ {m} : Cardinality({y \in T \ {m} : y < x}) = j
      BY <1>1, <2>3, <2>4, <2>5
    <3>2. {y \in T \ {m} : y < x} = {y \in T : y < x}
      <4>1. x =< m /\ x \in Nat /\ m \in Nat
        BY <2>3, <3>1
      <4> QED
        BY <4>1
    <3> QED
      BY <3>1, <3>2
  <2>6. CASE j = Cardinality(T) - 1
    <3>1. {y \in T : y < m} = T \ {m}
      <4>1. \A y \in T : y \in Nat /\ (y < m <=> y # m)
        BY <2>3
      <4> QED
        BY <4>1
    <3> QED
      BY <2>3, <2>4, <2>6, <3>1
  <2> QED
    BY <2>1, <2>5, <2>6
<1>2. S \in P
  <2> HIDE DEF P
  <2> QED
    BY <1>1, EverySubset
<1> QED
  BY <1>2

\* Those with fewer than q below them are q.
LEMMA TheFirstAreSoMany ==
    ASSUME NEW S \in SUBSET Nat, IsFiniteSet(S), NEW q \in Nat, q =< Cardinality(S)
    PROVE  Cardinality({x \in S : Cardinality({y \in S : y < x}) < q}) = q
<1> DEFINE First(T, k) == {x \in T : Cardinality({y \in T : y < x}) < k}
           P == {T \in SUBSET S : \A k \in Nat : k =< Cardinality(T) => Cardinality(First(T, k)) = k}
<1>1. ASSUME NEW T \in SUBSET S, \A x \in T : T \ {x} \in P PROVE T \in P
  <2> SUFFICES ASSUME NEW k \in Nat, k =< Cardinality(T)
               PROVE  Cardinality(First(T, k)) = k
    OBVIOUS
  <2>1. IsFiniteSet(T) /\ Cardinality(T) \in Nat
    BY FS_Subset, FS_CardinalityType
  <2>2. \A x \in T : /\ Cardinality({y \in T : y < x}) \in Nat
                     /\ Cardinality({y \in T : y < x}) =< Cardinality(T) - 1
    <3> SUFFICES ASSUME NEW x \in T
                 PROVE  /\ Cardinality({y \in T : y < x}) \in Nat
                        /\ Cardinality({y \in T : y < x}) =< Cardinality(T) - 1
      OBVIOUS
    <3>1. {y \in T : y < x} \in SUBSET (T \ {x})
      OBVIOUS
    <3>2. IsFiniteSet(T \ {x}) /\ Cardinality(T \ {x}) = Cardinality(T) - 1
      BY <2>1, FS_RemoveElement
    <3> QED
      BY <3>1, <3>2, FS_Subset, FS_CardinalityType
  <2>3. CASE k = Cardinality(T)
    <3>1. \A x \in T : Cardinality({y \in T : y < x}) < k
      BY <2>1, <2>2, <2>3
    <3>2. First(T, k) = T
      BY <3>1
    <3> QED
      BY <2>3, <3>2
  <2>4. CASE k < Cardinality(T)
    <3>1. T # {}
      BY <2>4, FS_EmptySet
    <3>2. PICK m \in T : \A y \in T : y =< m
      BY <2>1, <3>1, GreatestOf
    <3>3. Cardinality(T \ {m}) = Cardinality(T) - 1
      BY <2>1, <3>2, FS_RemoveElement
    <3>4. Cardinality(First(T \ {m}, k)) = k
      BY <1>1, <2>1, <2>4, <3>2, <3>3
    <3>5. \A x \in T \ {m} : {y \in T \ {m} : y < x} = {y \in T : y < x}
      <4> SUFFICES ASSUME NEW x \in T \ {m}
                   PROVE  {y \in T \ {m} : y < x} = {y \in T : y < x}
        OBVIOUS
      <4>1. x =< m /\ x \in Nat /\ m \in Nat
        BY <3>2
      <4> QED
        BY <4>1
    <3>6. m \notin First(T, k)
      <4>1. {y \in T : y < m} = T \ {m}
        <5>1. \A y \in T : y \in Nat /\ (y < m <=> y # m)
          BY <3>2
        <5> QED
          BY <5>1
      <4> QED
        BY <2>1, <2>4, <3>3, <4>1
    <3>7. First(T, k) = First(T \ {m}, k)
      BY <3>5, <3>6
    <3> QED
      BY <3>4, <3>7
  <2> QED
    BY <2>1, <2>3, <2>4
<1>2. S \in P
  <2> HIDE DEF P
  <2>1. \A U \in SUBSET S : (\A x \in U : U \ {x} \in P) => U \in P
    BY <1>1
  <2>2. \A U \in SUBSET S : U \in P
    BY <2>1, EverySubset
  <2> QED
    BY <2>2
<1> QED
  BY <1>2

-----------------------------------------------------------------------------
(* Counting one set by another *)

\* What has images of its own in a finite set is no more than that.
LEMMA NoMoreThan ==
    ASSUME NEW S, NEW T, IsFiniteSet(T), NEW f, \A x \in S : f[x] \in T,
           \A x, y \in S : f[x] = f[y] => x = y
    PROVE  IsFiniteSet(S) /\ Cardinality(S) \in Nat /\ Cardinality(S) =< Cardinality(T)
<1> DEFINE g == [x \in S |-> f[x]]
<1>1. g \in Injection(S, T)
  <2>1. g \in [S -> T] /\ \A x, y \in S : g[x] = g[y] => x = y
    OBVIOUS
  <2> HIDE DEF g
  <2> QED
    BY <2>1 DEF Injection, IsInjective
<1> QED
  BY <1>1, FS_Injection, FS_CardinalityType

\* If they are all of it, they are as many.
LEMMA AsManyAs ==
    ASSUME NEW S, NEW T, IsFiniteSet(T), NEW f, \A x \in S : f[x] \in T,
           \A x, y \in S : f[x] = f[y] => x = y, \A z \in T : \E x \in S : f[x] = z
    PROVE  IsFiniteSet(S) /\ Cardinality(S) = Cardinality(T)
<1> DEFINE g == [x \in S |-> f[x]]
<1>1. g \in Injection(S, T) /\ g \in Surjection(S, T)
  <2>1. /\ g \in [S -> T] /\ \A x, y \in S : g[x] = g[y] => x = y
        /\ \A z \in T : \E x \in S : g[x] = z
    OBVIOUS
  <2> HIDE DEF g
  <2> QED
    BY <2>1 DEF Injection, Surjection, IsInjective
<1> QED
  BY <1>1, FS_Injection

\* The part of a set that has a property, and the rest.
LEMMA Parts ==
    ASSUME NEW S, IsFiniteSet(S), NEW A, NEW B, \A x : x \in S <=> x \in A \/ x \in B,
           \A x : ~ (x \in A /\ x \in B)
    PROVE  /\ Cardinality(S) = Cardinality(A) + Cardinality(B)
           /\ IsFiniteSet(A) /\ IsFiniteSet(B)
           /\ Cardinality(A) \in Nat /\ Cardinality(B) \in Nat /\ Cardinality(S) \in Nat
<1>0. A \cup B = S /\ A \cap B = {}
  OBVIOUS
<1>1. A \in SUBSET S /\ B \in SUBSET S
  BY <1>0
<1>2. /\ IsFiniteSet(A) /\ IsFiniteSet(B)
      /\ Cardinality(A) \in Nat /\ Cardinality(B) \in Nat /\ Cardinality(S) \in Nat
  BY <1>1, FS_Subset, FS_CardinalityType
<1>3. Cardinality(A \cup B) = Cardinality(A) + Cardinality(B) - Cardinality(A \cap B)
  BY <1>2, FS_Union
<1>4. Cardinality(A \cap B) = 0
  BY <1>0, FS_EmptySet
<1> QED
  BY <1>0, <1>2, <1>3, <1>4

LEMMA Within ==
    ASSUME NEW S, IsFiniteSet(S), NEW A, A \subseteq S
    PROVE  IsFiniteSet(A) /\ Cardinality(A) \in Nat /\ Cardinality(A) =< Cardinality(S)
<1>1. A \in SUBSET S
  OBVIOUS
<1> QED
  BY <1>1, FS_Subset, FS_CardinalityType

\* The greater and the less of two numbers.
LEMMA OfTwo ==
    ASSUME NEW a \in Int, NEW b \in Int
    PROVE  /\ Max({a, b}) = IF a >= b THEN a ELSE b
           /\ Min({a, b}) = IF a =< b THEN a ELSE b
BY DEF Max, Min

-----------------------------------------------------------------------------
(* Sums *)

\* The sum of the values that f has on S.
Total(f, S) == MapThenSumSet(LAMBDA k : f[k], S)

\* The function that MapThenSumSet takes the sum from.
One(s) == CHOOSE x \in s : TRUE
IsTable(g, f, S) == g = [s \in SUBSET S |-> IF s = {} THEN 0 ELSE f[One(s)] + g[s \ {One(s)}]]

LEMMA OneOf == ASSUME NEW s, s # {} PROVE One(s) \in s
BY DEF One

\* The recursion is over sets that get smaller, so there is such a function.
LEMMA TableExists ==
    ASSUME NEW f, NEW S, IsFiniteSet(S)
    PROVE  \E g : IsTable(g, f, S)
<1> DEFINE Level(n) == {T \in SUBSET S : Cardinality(T) =< n}
           Holds(g, n) == g = [s \in Level(n) |-> IF s = {} THEN 0 ELSE f[One(s)] + g[s \ {One(s)}]]
           N == {n \in Nat : \E g : Holds(g, n)}
<1>1. \A T \in SUBSET S : IsFiniteSet(T) /\ Cardinality(T) \in Nat /\ Cardinality(T) =< Cardinality(S)
  BY FS_Subset, FS_CardinalityType
<1>2. \A T \in SUBSET S : T # {} => T \ {One(T)} \in SUBSET S
                                    /\ Cardinality(T \ {One(T)}) = Cardinality(T) - 1
  BY <1>1, OneOf, FS_RemoveElement
<1>3. 0 \in N
  <2>1. \A T \in Level(0) : T = {}
    BY <1>1, FS_EmptySet
  <2>2. Holds([s \in Level(0) |-> 0], 0)
    BY <2>1
  <2> QED
    BY <2>2
<1>4. ASSUME NEW n \in N PROVE n + 1 \in N
  <2>1. PICK g : Holds(g, n)
    OBVIOUS
  <2> DEFINE h == [s \in Level(n + 1) |-> IF s = {} THEN 0 ELSE f[One(s)] + g[s \ {One(s)}]]
  <2>2. \A s \in Level(n) : h[s] = g[s]
    <3> SUFFICES ASSUME NEW s \in Level(n) PROVE h[s] = g[s]
      OBVIOUS
    <3>1. s \in Level(n + 1)
      BY <1>1
    <3> HIDE DEF Level
    <3>2. g[s] = IF s = {} THEN 0 ELSE f[One(s)] + g[s \ {One(s)}]
      BY <2>1
    <3> QED
      BY <3>1, <3>2
  <2>3. \A s \in Level(n + 1) : s # {} => s \ {One(s)} \in Level(n)
    BY <1>1, <1>2
  <2>4. h = [s \in Level(n + 1) |-> IF s = {} THEN 0 ELSE f[One(s)] + h[s \ {One(s)}]]
    BY <2>2, <2>3
  <2> HIDE DEF h
  <2>5. Holds(h, n + 1)
    BY <2>4
  <2>6. \E x : Holds(x, n + 1)
    BY <2>5
  <2> HIDE DEF Holds
  <2> QED
    BY <2>6
<1>5. Cardinality(S) \in N
  <2>1. N \in SUBSET Nat
    OBVIOUS
  <2> HIDE DEF N
  <2> QED
    BY <1>3, <1>4, <2>1, EveryNumber, FS_CardinalityType
<1>6. PICK g : Holds(g, Cardinality(S))
  BY <1>5
<1>7. Level(Cardinality(S)) = SUBSET S
  BY <1>1
<1> QED
  BY <1>6, <1>7 DEF IsTable

\* Two of them agree.
LEMMA TablesAgree ==
    ASSUME NEW f, NEW S, IsFiniteSet(S), NEW R, NEW g, NEW h, IsTable(g, f, S), IsTable(h, f, R),
           S \subseteq R
    PROVE  g[S] = h[S]
<1> DEFINE P == {T \in SUBSET S : g[T] = h[T]}
<1>1. ASSUME NEW T \in SUBSET S, \A x \in T : T \ {x} \in P PROVE T \in P
  <2>1. /\ g[T] = IF T = {} THEN 0 ELSE f[One(T)] + g[T \ {One(T)}]
        /\ h[T] = IF T = {} THEN 0 ELSE f[One(T)] + h[T \ {One(T)}]
    BY DEF IsTable
  <2> QED
    BY <1>1, <2>1, OneOf
<1>2. S \in P
  <2> HIDE DEF P
  <2> QED
    BY <1>1, EverySubset
<1> QED
  BY <1>2

LEMMA TotalIsTables ==
    ASSUME NEW f, NEW S, IsFiniteSet(S), NEW g, IsTable(g, f, S)
    PROVE  Total(f, S) = g[S]
<1> DEFINE h == CHOOSE h : IsTable(h, f, S)
<1>1. Total(f, S) = h[S]
  BY DEF Total, MapThenSumSet, MapThenFoldSet, IsTable, One
<1>2. IsTable(h, f, S)
  BY TableExists
<1> HIDE DEF h
<1> QED
  BY <1>1, <1>2, TablesAgree

LEMMA TotalUnfolds ==
    ASSUME NEW f, NEW S, IsFiniteSet(S)
    PROVE  /\ Total(f, {}) = 0
           /\ S # {} => Total(f, S) = f[One(S)] + Total(f, S \ {One(S)})
<1>1. IsFiniteSet({}) /\ IsFiniteSet(S \ {One(S)})
  BY FS_EmptySet, FS_Subset
<1>2. PICK g : IsTable(g, f, {})
  BY <1>1, TableExists
<1>3. Total(f, {}) = 0
  BY <1>1, <1>2, TotalIsTables DEF IsTable
<1>4. PICK h : IsTable(h, f, S)
  BY TableExists
<1>5. PICK k : IsTable(k, f, S \ {One(S)})
  BY <1>1, TableExists
<1>6. k[S \ {One(S)}] = h[S \ {One(S)}]
  BY <1>1, <1>4, <1>5, TablesAgree
<1>7. S # {} => h[S] = f[One(S)] + h[S \ {One(S)}]
  BY <1>4 DEF IsTable
<1>8. Total(f, S) = h[S] /\ Total(f, S \ {One(S)}) = k[S \ {One(S)}]
  BY <1>1, <1>4, <1>5, TotalIsTables
<1> QED
  BY <1>3, <1>6, <1>7, <1>8

LEMMA TotalOfNone == ASSUME NEW f PROVE Total(f, {}) = 0
BY FS_EmptySet, TotalUnfolds

\* The sum of numbers is a number.
LEMMA TotalIsNat ==
    ASSUME NEW f, NEW S, IsFiniteSet(S), \A k \in S : f[k] \in Nat
    PROVE  Total(f, S) \in Nat
<1> DEFINE P == {T \in SUBSET S : Total(f, T) \in Nat}
<1>1. ASSUME NEW T \in SUBSET S, \A x \in T : T \ {x} \in P PROVE T \in P
  <2>1. IsFiniteSet(T)
    BY FS_Subset
  <2>2. CASE T = {}
    <3>1. Total(f, T) = 0
      BY <2>2, TotalOfNone
    <3> QED
      BY <3>1
  <2>3. CASE T # {}
    <3>1. One(T) \in T
      BY <2>3, OneOf
    <3>2. f[One(T)] \in Nat /\ Total(f, T \ {One(T)}) \in Nat
      BY <1>1, <3>1
    <3>3. Total(f, T) = f[One(T)] + Total(f, T \ {One(T)})
      BY <2>1, <2>3, TotalUnfolds
    <3>4. Total(f, T) \in Nat
      BY <3>2, <3>3
    <3> QED
      BY <3>4
  <2> QED
    BY <2>2, <2>3
<1>2. S \in P
  <2> HIDE DEF P
  <2>1. \A U \in SUBSET S : (\A x \in U : U \ {x} \in P) => U \in P
    BY <1>1
  <2>2. \A U \in SUBSET S : U \in P
    BY <2>1, EverySubset
  <2> QED
    BY <2>2
<1> QED
  BY <1>2

\* It does not matter which one is added last.
LEMMA TotalOf ==
    ASSUME NEW f, NEW S, IsFiniteSet(S), \A k \in S : f[k] \in Nat, NEW e \in S
    PROVE  Total(f, S) = f[e] + Total(f, S \ {e})
<1> DEFINE P == {T \in SUBSET S : \A y \in T : Total(f, T) = f[y] + Total(f, T \ {y})}
<1>1. ASSUME NEW T \in SUBSET S, \A x \in T : T \ {x} \in P PROVE T \in P
  <2> SUFFICES ASSUME NEW y \in T PROVE Total(f, T) = f[y] + Total(f, T \ {y})
    OBVIOUS
  <2> DEFINE x == One(T)
  <2>1. IsFiniteSet(T)
    BY FS_Subset
  <2>2. x \in T
    BY OneOf
  <2>3. Total(f, T) = f[x] + Total(f, T \ {x})
    BY <2>1, TotalUnfolds
  <2> HIDE DEF x
  <2>4. CASE y = x
    BY <2>3, <2>4
  <2>5. CASE y # x
    <3> DEFINE r == Total(f, T \ {x, y})
    <3>1. (T \ {x}) \ {y} = T \ {x, y} /\ (T \ {y}) \ {x} = T \ {x, y}
      OBVIOUS
    <3>2. Total(f, T \ {x}) = f[y] + r
      <4>1. y \in T \ {x}
        BY <2>5
      <4>2. T \ {x} \in P
        BY <1>1, <2>2
      <4> QED
        BY <3>1, <4>1, <4>2
    <3>3. Total(f, T \ {y}) = f[x] + r
      <4>1. x \in T \ {y}
        BY <2>2, <2>5
      <4>2. T \ {y} \in P
        BY <1>1
      <4> QED
        BY <3>1, <4>1, <4>2
    <3>4. r \in Nat
      <4>1. IsFiniteSet(T \ {x, y})
        BY <2>1, FS_Subset
      <4> QED
        BY <4>1, TotalIsNat
    <3>5. f[x] \in Nat /\ f[y] \in Nat
      BY <2>2
    <3> HIDE DEF r
    <3>6. f[x] + (f[y] + r) = f[y] + (f[x] + r)
      BY <3>4, <3>5
    <3> QED
      BY <2>3, <3>2, <3>3, <3>6
  <2> QED
    BY <2>4, <2>5
<1>2. S \in P
  <2> HIDE DEF P
  <2>1. \A U \in SUBSET S : (\A x \in U : U \ {x} \in P) => U \in P
    BY <1>1
  <2>2. \A U \in SUBSET S : U \in P
    BY <2>1, EverySubset
  <2> QED
    BY <2>2
<1> QED
  BY <1>2

\* What is counted by the value of a property is what has one of these values.
WithValue(value, T, k) == {t \in T : value[t] = k}
WithValueIn(value, T, S) == {t \in T : value[t] \in S}

LEMMA CountedByValue ==
    ASSUME NEW S, IsFiniteSet(S), NEW T, IsFiniteSet(T), NEW value, NEW f,
           \A k \in S : f[k] = Cardinality(WithValue(value, T, k))
    PROVE  Total(f, S) = Cardinality(WithValueIn(value, T, S))
<1> USE DEF WithValue, WithValueIn
<1> DEFINE Having(U) == {t \in T : value[t] \in U}
           P == {U \in SUBSET S : Total(f, U) = Cardinality(Having(U))}
<1>1. \A U : IsFiniteSet(Having(U)) /\ Cardinality(Having(U)) \in Nat
  BY FS_Subset, FS_CardinalityType
<1>2. \A k \in S : f[k] = Cardinality(Having({k})) /\ f[k] \in Nat
  <2> SUFFICES ASSUME NEW k \in S PROVE f[k] = Cardinality(Having({k})) /\ f[k] \in Nat
    OBVIOUS
  <2>1. {t \in T : value[t] = k} = Having({k})
    OBVIOUS
  <2> QED
    BY <1>1, <2>1
<1>3. ASSUME NEW U \in SUBSET S, \A x \in U : U \ {x} \in P PROVE U \in P
  <2>1. IsFiniteSet(U)
    BY FS_Subset
  <2>2. CASE U = {}
    <3>1. Having(U) = {}
      BY <2>2
    <3> QED
      BY <2>2, <3>1, TotalOfNone, FS_EmptySet
  <2>3. CASE U # {}
    <3>1. PICK k \in U : TRUE
      BY <2>3
    <3>2. Total(f, U) = f[k] + Total(f, U \ {k})
      <4>1. \A j \in U : f[j] \in Nat
        BY <1>2
      <4> QED
        BY <2>1, <4>1, TotalOf
    <3>3. Total(f, U \ {k}) = Cardinality(Having(U \ {k}))
      BY <1>3
    <3>4. Having(U) = Having({k}) \cup Having(U \ {k}) /\ Having({k}) \cap Having(U \ {k}) = {}
      BY <3>1
    <3> HIDE DEF Having
    <3>5. Cardinality(Having(U)) = Cardinality(Having({k})) + Cardinality(Having(U \ {k})) - Cardinality({})
      <4> DEFINE A == Having({k})
                 B == Having(U \ {k})
      <4>1. IsFiniteSet(A) /\ IsFiniteSet(B) /\ A \cap B = {} /\ Having(U) = A \cup B
        BY <1>1, <3>4
      <4> HIDE DEF A, B
      <4>2. Cardinality(A \cup B) = Cardinality(A) + Cardinality(B) - Cardinality(A \cap B)
        BY <4>1, FS_Union
      <4>3. Cardinality(Having(U)) = Cardinality(A) + Cardinality(B) - Cardinality({})
        BY <4>1, <4>2
      <4> QED
        BY <4>3 DEF A, B
    <3>6. Cardinality({}) = 0
      BY FS_EmptySet
    <3>7. Total(f, U) = Cardinality(Having(U))
      BY <1>1, <1>2, <3>2, <3>3, <3>5, <3>6
    <3> QED
      BY <3>7
  <2> QED
    BY <2>2, <2>3
<1>4. S \in P
  <2> HIDE DEF P
  <2>1. \A U \in SUBSET S : (\A x \in U : U \ {x} \in P) => U \in P
    BY <1>3
  <2>2. \A U \in SUBSET S : U \in P
    BY <2>1, EverySubset
  <2> QED
    BY <2>2
<1> QED
  BY <1>4

\* The sum depends on nothing but the values on the set.
LEMMA TotalOfSame ==
    ASSUME NEW S, IsFiniteSet(S), NEW f, NEW g, \A k \in S : f[k] = g[k]
    PROVE  Total(f, S) = Total(g, S)
<1> DEFINE P == {T \in SUBSET S : Total(f, T) = Total(g, T)}
<1>1. ASSUME NEW T \in SUBSET S, \A x \in T : T \ {x} \in P PROVE T \in P
  <2>1. IsFiniteSet(T)
    BY FS_Subset
  <2>2. CASE T = {}
    BY <2>2, TotalOfNone
  <2>3. CASE T # {}
    <3>1. One(T) \in T
      BY <2>3, OneOf
    <3>2. Total(f, T \ {One(T)}) = Total(g, T \ {One(T)}) /\ f[One(T)] = g[One(T)]
      BY <1>1, <3>1
    <3> HIDE DEF P
    <3>3. Total(f, T) = f[One(T)] + Total(f, T \ {One(T)})
      BY <2>1, <2>3, TotalUnfolds
    <3>4. Total(g, T) = g[One(T)] + Total(g, T \ {One(T)})
      BY <2>1, <2>3, TotalUnfolds
    <3>5. Total(f, T) = Total(g, T)
      BY <3>2, <3>3, <3>4
    <3> QED
      BY <3>5 DEF P
  <2> QED
    BY <2>2, <2>3
<1>2. S \in P
  <2> HIDE DEF P
  <2>1. \A U \in SUBSET S : (\A x \in U : U \ {x} \in P) => U \in P
    BY <1>1
  <2>2. \A U \in SUBSET S : U \in P
    BY <2>1, EverySubset
  <2> QED
    BY <2>2
<1> QED
  BY <1>2

LEMMA TotalOfZeros ==
    ASSUME NEW S, IsFiniteSet(S), NEW f, \A k \in S : f[k] = 0
    PROVE  Total(f, S) = 0
<1> DEFINE value == [t \in {} |-> 0]
<1>1. \A k \in S : f[k] = Cardinality(WithValue(value, {}, k))
  <2>1. \A k : WithValue(value, {}, k) = {}
    BY DEF WithValue
  <2> QED
    BY <2>1, FS_EmptySet
<1>2. WithValueIn(value, {}, S) = {}
  BY DEF WithValueIn
<1> HIDE DEF value
<1>3. Total(f, S) = Cardinality(WithValueIn(value, {}, S))
  BY <1>1, FS_EmptySet, CountedByValue
<1> QED
  BY <1>2, <1>3, FS_EmptySet

\* A part has no more.
LEMMA TotalOfPart ==
    ASSUME NEW S, IsFiniteSet(S), NEW f, \A k \in S : f[k] \in Nat, NEW A, A \subseteq S
    PROVE  Total(f, A) \in Nat /\ Total(f, A) =< Total(f, S)
<1> DEFINE P == {T \in SUBSET S : Total(f, T \cap A) =< Total(f, T)}
<1>1. \A T \in SUBSET S : Total(f, T) \in Nat
  <2> SUFFICES ASSUME NEW T \in SUBSET S PROVE Total(f, T) \in Nat
    OBVIOUS
  <2>1. IsFiniteSet(T) /\ \A k \in T : f[k] \in Nat
    BY FS_Subset
  <2> QED
    BY <2>1, TotalIsNat
<1>2. ASSUME NEW T \in SUBSET S, \A x \in T : T \ {x} \in P PROVE T \in P
  <2>1. IsFiniteSet(T) /\ IsFiniteSet(T \cap A)
    BY FS_Subset
  <2>2. CASE T = {}
    <3>1. T \cap A = T
      BY <2>2
    <3>2. Total(f, T \cap A) =< Total(f, T)
      BY <1>1, <3>1
    <3> QED
      BY <3>2
  <2>3. CASE T # {}
    <3>1. PICK e \in T : TRUE
      BY <2>3
    <3>2. Total(f, T) = f[e] + Total(f, T \ {e})
      <4>1. \A k \in T : f[k] \in Nat
        OBVIOUS
      <4> QED
        BY <2>1, <4>1, TotalOf
    <3>3. /\ Total(f, (T \ {e}) \cap A) =< Total(f, T \ {e})
          /\ Total(f, T \ {e}) \in Nat /\ f[e] \in Nat /\ Total(f, (T \ {e}) \cap A) \in Nat
      BY <1>1, <1>2
    <3> HIDE DEF P
    <3>4. Total(f, T \cap A) =< Total(f, T)
      <4>1. CASE e \in A
        <5>1. e \in T \cap A /\ \A k \in T \cap A : f[k] \in Nat
          BY <4>1
        <5>2. Total(f, T \cap A) = f[e] + Total(f, (T \cap A) \ {e})
          BY <2>1, <5>1, TotalOf
        <5>3. (T \cap A) \ {e} = (T \ {e}) \cap A
          OBVIOUS
        <5> DEFINE all  == Total(f, T)
                   rest == Total(f, T \ {e})
                   part == Total(f, T \cap A)
                   left == Total(f, (T \ {e}) \cap A)
        <5>4. part = f[e] + left
          BY <5>2, <5>3
        <5>5. all = f[e] + rest /\ left =< rest /\ rest \in Nat /\ left \in Nat /\ f[e] \in Nat
          BY <3>2, <3>3
        <5> HIDE DEF all, rest, part, left
        <5>6. part =< all
          BY <5>4, <5>5
        <5> QED
          BY <5>6 DEF part, all
      <4>2. CASE e \notin A
        <5>1. T \cap A = (T \ {e}) \cap A
          BY <4>2
        <5> DEFINE all  == Total(f, T)
                   rest == Total(f, T \ {e})
                   part == Total(f, T \cap A)
                   left == Total(f, (T \ {e}) \cap A)
        <5>2. part = left
          BY <5>1
        <5>3. all = f[e] + rest /\ left =< rest /\ rest \in Nat /\ left \in Nat /\ f[e] \in Nat
          BY <3>2, <3>3
        <5> HIDE DEF all, rest, part, left
        <5>4. part =< all
          BY <5>2, <5>3
        <5> QED
          BY <5>4 DEF part, all
      <4> QED
        BY <4>1, <4>2
    <3> QED
      BY <3>4 DEF P
  <2> QED
    BY <2>2, <2>3
<1>3. S \in P
  <2> HIDE DEF P
  <2>1. \A U \in SUBSET S : (\A x \in U : U \ {x} \in P) => U \in P
    BY <1>2
  <2>2. \A U \in SUBSET S : U \in P
    BY <2>1, EverySubset
  <2> QED
    BY <2>2
<1>4. S \cap A = A
  OBVIOUS
<1> QED
  BY <1>1, <1>3, <1>4
=============================================================================
