---------------------------- MODULE SumTheorems ----------------------------
(* Sums of finite functions and sequences: what SumFunctionOnSet and SumFunction *)
(* of the community modules compute, for every finite set and every sequence.    *)
(* Nothing here is about the tunnel; the credit accounts of the channels rest on *)
(* it. The induction principles of the library take an operator and cannot be     *)
(* cited, so NaturalsFrom derives one about sets from the fact that < is well     *)
(* founded.                                                                       *)
EXTENDS Integers, Sequences, Functions, FiniteSetTheorems, SequenceTheorems,
        WellFoundedInduction, TLAPS

\* Induction: a set that has 0 and the successor of each of its numbers has all.
THEOREM NaturalsFrom ==
    ASSUME NEW S, 0 \in S, \A n \in Nat : n \in S => n + 1 \in S
    PROVE  \A n \in Nat : n \in S
<1> DEFINE T == Nat \ S
<1>1. SUFFICES ASSUME T # {} PROVE FALSE
  OBVIOUS
<1>2. T \subseteq Nat
  OBVIOUS
<1>3. PICK m \in T : \A y \in T : ~(<<y, m>> \in OpToRel(<, Nat))
  <2> HIDE DEF T
  <2> QED
    BY <1>1, <1>2, NatLessThanWellFounded, WFMin, Zenon
<1>4. \A y \in T : ~(y < m)
  BY <1>3 DEF OpToRel
<1>5. m # 0 /\ m \in Nat /\ m - 1 \in Nat
  OBVIOUS
<1>6. m - 1 \in S
  BY <1>4, <1>5
<1>7. m \in S
  BY <1>5, <1>6
<1> QED
  BY <1>7

-----------------------------------------------------------------------------
(* The recursion behind SumFunctionOnSet.                                      *)

First(s) == CHOOSE x \in s : TRUE
Small(S, n) == {s \in SUBSET S : Cardinality(s) <= n}
\* g sums f over every set of D.
Sums(g, f, D) == \A s \in D : g[s] = IF s = {} THEN 0 ELSE f[First(s)] + g[s \ {First(s)}]

\* The element the sum takes first is one of the set.
LEMMA FirstIn ==
    ASSUME NEW s, s # {}
    PROVE  First(s) \in s
  BY DEF First

\* A finite set without one element.
LEMMA OneOut ==
    ASSUME NEW s, IsFiniteSet(s), NEW x \in s
    PROVE  /\ IsFiniteSet(s \ {x}) /\ Cardinality(s) \in Nat \ {0}
           /\ Cardinality(s \ {x}) = Cardinality(s) - 1
           /\ Cardinality(s \ {x}) \in Nat
<1>1. IsFiniteSet(s \ {x}) /\ Cardinality(s \ {x}) = Cardinality(s) - 1
  BY FS_RemoveElement
<1>2. Cardinality(s) \in Nat /\ Cardinality(s \ {x}) \in Nat
  BY <1>1, FS_CardinalityType
<1>3. Cardinality(s) # 0
  BY FS_EmptySet
<1> QED
  BY <1>1, <1>2, <1>3

\* Every subset of a finite set is finite, and no larger.
LEMMA SubsetsFinite ==
    ASSUME NEW S, IsFiniteSet(S)
    PROVE  \A s \in SUBSET S : IsFiniteSet(s) /\ Cardinality(s) \in Nat
                               /\ Cardinality(s) <= Cardinality(S)
  BY FS_Subset, FS_CardinalityType

\* A function that sums f over every subset of a finite set exists.
LEMMA SumsExist ==
    ASSUME NEW S, IsFiniteSet(S), NEW f, \A x \in S : f[x] \in Int
    PROVE  \E g \in [SUBSET S -> Int] : Sums(g, f, SUBSET S)
<1> DEFINE N == {n \in Nat : \E g \in [Small(S, n) -> Int] : Sums(g, f, Small(S, n))}
<1>1. 0 \in N
  <2>1. Small(S, 0) = {{}}
    BY SubsetsFinite, FS_EmptySet DEF Small
  <2> DEFINE g == [s \in Small(S, 0) |-> 0]
  <2>2. g \in [Small(S, 0) -> Int] /\ Sums(g, f, Small(S, 0))
    BY <2>1 DEF Sums
  <2> HIDE DEF g
  <2>3. \E h \in [Small(S, 0) -> Int] : Sums(h, f, Small(S, 0))
    BY <2>2
  <2> QED
    BY <2>3
<1>2. ASSUME NEW n \in Nat, n \in N PROVE n + 1 \in N
  <2>1. PICK g \in [Small(S, n) -> Int] : Sums(g, f, Small(S, n))
    BY <1>2
  <2> DEFINE h == [s \in Small(S, n + 1) |->
                      IF s \in Small(S, n) THEN g[s] ELSE f[First(s)] + g[s \ {First(s)}]]
  <2>2. \A s \in Small(S, n + 1) : s # {} =>
            /\ First(s) \in s /\ First(s) \in S
            /\ s \ {First(s)} \in Small(S, n) /\ s \ {First(s)} \in Small(S, n + 1)
    <3> SUFFICES ASSUME NEW s \in Small(S, n + 1), s # {}
                 PROVE  /\ First(s) \in s /\ First(s) \in S
                        /\ s \ {First(s)} \in Small(S, n)
                        /\ s \ {First(s)} \in Small(S, n + 1)
      OBVIOUS
    <3>1. First(s) \in s /\ First(s) \in S /\ IsFiniteSet(s) /\ Cardinality(s) <= n + 1
      BY FirstIn, SubsetsFinite DEF Small
    <3>2. /\ Cardinality(s \ {First(s)}) = Cardinality(s) - 1
          /\ Cardinality(s) \in Nat
      BY <3>1, OneOut
    <3> QED
      BY <3>1, <3>2 DEF Small
  <2>3. \A s \in Small(S, n) : s \in Small(S, n + 1)
    <3>1. \A s \in SUBSET S : Cardinality(s) \in Nat
      BY SubsetsFinite
    <3> QED
      BY <3>1 DEF Small
  <2>4. h \in [Small(S, n + 1) -> Int]
    <3>1. ASSUME NEW s \in Small(S, n + 1)
          PROVE  (IF s \in Small(S, n) THEN g[s] ELSE f[First(s)] + g[s \ {First(s)}]) \in Int
      <4>1. CASE s \in Small(S, n)
        BY <2>1, <4>1
      <4>2. CASE s \notin Small(S, n)
        <5>1. s # {}
          BY <4>2, FS_EmptySet DEF Small
        <5>2. f[First(s)] \in Int /\ g[s \ {First(s)}] \in Int
          BY <2>1, <2>2, <5>1
        <5> QED
          BY <4>2, <5>2
      <4> QED
        BY <4>1, <4>2
    <3> QED
      BY <3>1
  <2>5. Sums(h, f, Small(S, n + 1))
    <3> SUFFICES ASSUME NEW s \in Small(S, n + 1)
                 PROVE  h[s] = IF s = {} THEN 0 ELSE f[First(s)] + h[s \ {First(s)}]
      BY DEF Sums
    <3>1. CASE s = {}
      <4>1. s \in Small(S, n)
        BY <3>1, FS_EmptySet DEF Small
      <4> QED
        BY <2>1, <3>1, <4>1 DEF Sums
    <3>2. CASE s # {}
      <4>1. h[s \ {First(s)}] = g[s \ {First(s)}]
        BY <2>2, <3>2
      <4>2. s \in Small(S, n) => g[s] = f[First(s)] + g[s \ {First(s)}]
        BY <2>1, <3>2 DEF Sums
      <4> QED
        BY <3>2, <4>1, <4>2
    <3> QED
      BY <3>1, <3>2
  <2> HIDE DEF h
  <2>6. \E k \in [Small(S, n + 1) -> Int] : Sums(k, f, Small(S, n + 1))
    BY <2>4, <2>5
  <2> QED
    BY <2>6
<1> HIDE DEF N
<1>3. Cardinality(S) \in N
  BY <1>1, <1>2, NaturalsFrom, FS_CardinalityType
<1>4. Small(S, Cardinality(S)) = SUBSET S
  BY SubsetsFinite DEF Small
<1> QED
  BY <1>3, <1>4 DEF N

\* Two functions that sum f agree where both do.
LEMMA SumsAgree ==
    ASSUME NEW S, IsFiniteSet(S), NEW f, NEW f2, \A x \in S : f[x] = f2[x],
           NEW g, Sums(g, f, SUBSET S), NEW h, Sums(h, f2, SUBSET S)
    PROVE  g[S] = h[S]
<1> DEFINE N == {n \in Nat : \A s \in SUBSET S : Cardinality(s) = n => g[s] = h[s]}
<1>1. 0 \in N
  <2>1. \A s \in SUBSET S : Cardinality(s) = 0 => s = {}
    BY SubsetsFinite, FS_EmptySet
  <2> QED
    BY <2>1 DEF Sums
<1>2. ASSUME NEW n \in Nat, n \in N PROVE n + 1 \in N
  <2> SUFFICES ASSUME NEW s \in SUBSET S, Cardinality(s) = n + 1 PROVE g[s] = h[s]
    OBVIOUS
  <2>1. s # {} /\ IsFiniteSet(s)
    BY SubsetsFinite, FS_EmptySet
  <2>2. First(s) \in s /\ Cardinality(s \ {First(s)}) = n
    BY <2>1, FirstIn, OneOut
  <2>3. g[s \ {First(s)}] = h[s \ {First(s)}]
    BY <1>2, <2>2
  <2> QED
    BY <2>1, <2>2, <2>3 DEF Sums
<1> HIDE DEF N
<1>3. Cardinality(S) \in N
  BY <1>1, <1>2, NaturalsFrom, FS_CardinalityType
<1> QED
  BY <1>3 DEF N

\* SumFunctionOnSet is such a function's value.
LEMMA SumIs ==
    ASSUME NEW S, IsFiniteSet(S), NEW f, \A x \in S : f[x] \in Int
    PROVE  /\ SumFunctionOnSet(f, S) \in Int
           /\ \A g : Sums(g, f, SUBSET S) => SumFunctionOnSet(f, S) = g[S]
<1> DEFINE Rec(g) == g = [s \in SUBSET S |->
                             IF s = {} THEN 0 ELSE f[First(s)] + g[s \ {First(s)}]]
           iter == CHOOSE g : Rec(g)
<1>1. SumFunctionOnSet(f, S) = iter[S]
  BY DEF SumFunctionOnSet, FoldFunctionOnSet, MapThenFoldSet, First
<1>2. PICK k \in [SUBSET S -> Int] : Sums(k, f, SUBSET S)
  BY SumsExist
<1>3. Rec(k)
  BY <1>2 DEF Sums
<1>4. Rec(iter)
  BY <1>3
<1>5. Sums(iter, f, SUBSET S)
  <2> HIDE DEF iter
  <2> QED
    BY <1>4 DEF Sums
<1> HIDE DEF iter
<1>6. \A g : Sums(g, f, SUBSET S) => iter[S] = g[S]
  BY <1>5, SumsAgree
<1> QED
  BY <1>1, <1>2, <1>6

-----------------------------------------------------------------------------
(* Sums over finite sets.                                                      *)

\* A sum of integers is an integer.
THEOREM SumType ==
    ASSUME NEW S, IsFiniteSet(S), NEW f, \A x \in S : f[x] \in Int
    PROVE  SumFunctionOnSet(f, S) \in Int
  BY SumIs

\* The sum over no element is 0.
THEOREM SumEmpty ==
    ASSUME NEW f
    PROVE  SumFunctionOnSet(f, {}) = 0
<1>1. IsFiniteSet({})
  BY FS_EmptySet
<1>2. PICK g \in [SUBSET {} -> Int] : Sums(g, f, SUBSET {})
  BY <1>1, SumsExist
<1>3. g[{}] = 0
  BY <1>2 DEF Sums
<1> QED
  BY <1>1, <1>2, <1>3, SumIs

\* Only what f is on the set counts.
THEOREM SumSame ==
    ASSUME NEW S, IsFiniteSet(S), NEW f, NEW f2,
           \A x \in S : f[x] \in Int /\ f[x] = f2[x]
    PROVE  SumFunctionOnSet(f, S) = SumFunctionOnSet(f2, S)
<1>1. PICK g \in [SUBSET S -> Int] : Sums(g, f, SUBSET S)
  BY SumsExist
<1>2. PICK h \in [SUBSET S -> Int] : Sums(h, f2, SUBSET S)
  BY SumsExist
<1>3. g[S] = h[S]
  BY <1>1, <1>2, SumsAgree
<1>4. SumFunctionOnSet(f, S) = g[S]
  BY <1>1, SumIs
<1>5. SumFunctionOnSet(f2, S) = h[S]
  BY <1>2, SumIs
<1> QED
  BY <1>3, <1>4, <1>5

\* The recursion of the definition, one step of it.
LEMMA SumFirst ==
    ASSUME NEW S, IsFiniteSet(S), S # {}, NEW f, \A x \in S : f[x] \in Int
    PROVE  SumFunctionOnSet(f, S) = f[First(S)] + SumFunctionOnSet(f, S \ {First(S)})
<1> DEFINE R == S \ {First(S)}
<1>1. First(S) \in S /\ IsFiniteSet(R) /\ R \subseteq S
  BY FirstIn, OneOut
<1>2. PICK g \in [SUBSET S -> Int] : Sums(g, f, SUBSET S)
  BY SumsExist
<1>3. Sums(g, f, SUBSET R)
  BY <1>1, <1>2 DEF Sums
<1>4. g[S] = f[First(S)] + g[R]
  BY <1>2 DEF Sums
<1> HIDE DEF R
<1>5. SumFunctionOnSet(f, S) = g[S]
  BY <1>2, SumIs
<1>6. SumFunctionOnSet(f, R) = g[R]
  BY <1>1, <1>3, SumIs
<1> QED
  BY <1>4, <1>5, <1>6 DEF R

\* Any element may be added last: the order does not matter.
THEOREM SumOut ==
    ASSUME NEW S, IsFiniteSet(S), NEW f, \A y \in S : f[y] \in Int, NEW x \in S
    PROVE  SumFunctionOnSet(f, S) = f[x] + SumFunctionOnSet(f, S \ {x})
<1> DEFINE Out(s) == \A y \in s :
              SumFunctionOnSet(f, s) = f[y] + SumFunctionOnSet(f, s \ {y})
           N == {n \in Nat : \A s \in SUBSET S : Cardinality(s) = n => Out(s)}
<1>1. 0 \in N
  <2>1. \A s \in SUBSET S : Cardinality(s) = 0 => s = {}
    BY SubsetsFinite, FS_EmptySet
  <2> QED
    BY <2>1
<1>2. ASSUME NEW n \in Nat, n \in N PROVE n + 1 \in N
  <2> SUFFICES ASSUME NEW s \in SUBSET S, Cardinality(s) = n + 1, NEW y \in s
               PROVE  SumFunctionOnSet(f, s) = f[y] + SumFunctionOnSet(f, s \ {y})
    OBVIOUS
  <2> DEFINE z == First(s)
  <2>1. z \in s /\ IsFiniteSet(s) /\ s # {}
    BY FirstIn, SubsetsFinite
  <2>2. SumFunctionOnSet(f, s) = f[z] + SumFunctionOnSet(f, s \ {z})
    BY <2>1, SumFirst
  <2> HIDE DEF z
  <2>3. CASE y = z
    BY <2>2, <2>3
  <2>4. CASE y # z
    <3>1. /\ Cardinality(s \ {z}) = n /\ Cardinality(s \ {y}) = n
          /\ IsFiniteSet(s \ {z}) /\ IsFiniteSet(s \ {y})
      BY <2>1, OneOut
    <3>2. Out(s \ {z}) /\ Out(s \ {y})
      BY <1>2, <3>1
    <3>3. SumFunctionOnSet(f, s \ {z}) = f[y] + SumFunctionOnSet(f, (s \ {z}) \ {y})
      BY <2>4, <3>2
    <3>4. SumFunctionOnSet(f, s \ {y}) = f[z] + SumFunctionOnSet(f, (s \ {y}) \ {z})
      BY <2>1, <2>4, <3>2
    <3>5. (s \ {y}) \ {z} = (s \ {z}) \ {y}
      OBVIOUS
    <3>6. IsFiniteSet((s \ {z}) \ {y})
      BY <3>1, FS_Subset
    <3>7. SumFunctionOnSet(f, (s \ {z}) \ {y}) \in Int
      <4>1. \A w \in (s \ {z}) \ {y} : f[w] \in Int
        OBVIOUS
      <4> QED
        BY <3>6, <4>1, SumType
    <3>8. f[y] \in Int /\ f[z] \in Int
      BY <2>1
    <3> DEFINE rest == SumFunctionOnSet(f, (s \ {z}) \ {y})
    <3>9. SumFunctionOnSet(f, s \ {z}) = f[y] + rest /\ SumFunctionOnSet(f, s \ {y}) = f[z] + rest
      BY <3>3, <3>4, <3>5
    <3>10. rest \in Int
      BY <3>7
    <3> HIDE DEF rest
    <3>11. f[z] + (f[y] + rest) = f[y] + (f[z] + rest)
      BY <3>8, <3>10
    <3> QED
      BY <2>2, <3>9, <3>11
  <2> QED
    BY <2>3, <2>4
<1> HIDE DEF N
<1>3. Cardinality(S) \in N
  BY <1>1, <1>2, NaturalsFrom, FS_CardinalityType
<1> QED
  BY <1>3 DEF N

\* One more element.
THEOREM SumIn ==
    ASSUME NEW S, IsFiniteSet(S), NEW x, x \notin S,
           NEW f, f[x] \in Int, \A y \in S : f[y] \in Int
    PROVE  SumFunctionOnSet(f, S \cup {x}) = SumFunctionOnSet(f, S) + f[x]
<1>1. IsFiniteSet(S \cup {x}) /\ (S \cup {x}) \ {x} = S
  BY FS_AddElement
<1>2. SumFunctionOnSet(f, S \cup {x}) = f[x] + SumFunctionOnSet(f, S)
  BY <1>1, SumOut
<1>3. SumFunctionOnSet(f, S) \in Int
  BY SumType
<1> QED
  BY <1>2, <1>3

\* A sum of natural numbers is one, and at least any of them.
THEOREM SumNatural ==
    ASSUME NEW S, IsFiniteSet(S), NEW f, \A x \in S : f[x] \in Nat
    PROVE  SumFunctionOnSet(f, S) \in Nat /\ \A x \in S : f[x] <= SumFunctionOnSet(f, S)
<1> DEFINE N == {n \in Nat : \A s \in SUBSET S :
                    Cardinality(s) = n => SumFunctionOnSet(f, s) \in Nat}
<1>1. 0 \in N
  <2>1. \A s \in SUBSET S : Cardinality(s) = 0 => s = {}
    BY SubsetsFinite, FS_EmptySet
  <2> QED
    BY <2>1, SumEmpty
<1>2. ASSUME NEW n \in Nat, n \in N PROVE n + 1 \in N
  <2> SUFFICES ASSUME NEW s \in SUBSET S, Cardinality(s) = n + 1
               PROVE  SumFunctionOnSet(f, s) \in Nat
    OBVIOUS
  <2>1. IsFiniteSet(s) /\ s # {}
    BY SubsetsFinite, FS_EmptySet
  <2>2. PICK x \in s : TRUE
    BY <2>1
  <2>3. SumFunctionOnSet(f, s) = f[x] + SumFunctionOnSet(f, s \ {x})
    BY <2>1, SumOut
  <2>4. Cardinality(s \ {x}) = n
    BY <2>1, OneOut
  <2>5. SumFunctionOnSet(f, s \ {x}) \in Nat
    BY <1>2, <2>4
  <2> QED
    BY <2>3, <2>5
<1> HIDE DEF N
<1>3. \A n \in Nat : n \in N
  BY <1>1, <1>2, NaturalsFrom
<1>4. \A s \in SUBSET S : SumFunctionOnSet(f, s) \in Nat
  BY <1>3, SubsetsFinite DEF N
<1>5. ASSUME NEW x \in S PROVE f[x] <= SumFunctionOnSet(f, S)
  <2>1. SumFunctionOnSet(f, S) = f[x] + SumFunctionOnSet(f, S \ {x})
    BY SumOut
  <2>2. SumFunctionOnSet(f, S \ {x}) \in Nat
    BY <1>4
  <2> QED
    BY <2>1, <2>2
<1> QED
  BY <1>4, <1>5

\* Where one summand changes, the sum changes with it.
THEOREM SumChanged ==
    ASSUME NEW S, IsFiniteSet(S), NEW x \in S, NEW f, NEW f2,
           \A y \in S : f[y] \in Int /\ f2[y] \in Int,
           \A y \in S : y # x => f[y] = f2[y]
    PROVE  SumFunctionOnSet(f2, S) = SumFunctionOnSet(f, S) - f[x] + f2[x]
<1>1. IsFiniteSet(S \ {x})
  BY OneOut
<1>2. SumFunctionOnSet(f, S \ {x}) = SumFunctionOnSet(f2, S \ {x})
  BY <1>1, SumSame
<1>3. SumFunctionOnSet(f, S) = f[x] + SumFunctionOnSet(f, S \ {x})
  BY SumOut
<1>4. SumFunctionOnSet(f2, S) = f2[x] + SumFunctionOnSet(f2, S \ {x})
  BY SumOut
<1>5. SumFunctionOnSet(f, S \ {x}) \in Int
  BY <1>1, SumType
<1> QED
  BY <1>2, <1>3, <1>4, <1>5

\* A sum of nothing but zeros.
LEMMA SumZeros ==
    ASSUME NEW S, IsFiniteSet(S), NEW f, \A x \in S : f[x] = 0
    PROVE  SumFunctionOnSet(f, S) = 0
<1> DEFINE N == {n \in Nat : \A s \in SUBSET S :
                    Cardinality(s) = n => SumFunctionOnSet(f, s) = 0}
<1>1. 0 \in N
  <2>1. \A s \in SUBSET S : Cardinality(s) = 0 => s = {}
    BY SubsetsFinite, FS_EmptySet
  <2> QED
    BY <2>1, SumEmpty
<1>2. ASSUME NEW n \in Nat, n \in N PROVE n + 1 \in N
  <2> SUFFICES ASSUME NEW s \in SUBSET S, Cardinality(s) = n + 1
               PROVE  SumFunctionOnSet(f, s) = 0
    OBVIOUS
  <2>1. IsFiniteSet(s) /\ s # {}
    BY SubsetsFinite, FS_EmptySet
  <2>2. PICK x \in s : TRUE
    BY <2>1
  <2>3. SumFunctionOnSet(f, s) = f[x] + SumFunctionOnSet(f, s \ {x})
    BY <2>1, SumOut
  <2>4. Cardinality(s \ {x}) = n
    BY <2>1, OneOut
  <2>5. SumFunctionOnSet(f, s \ {x}) = 0 /\ f[x] = 0
    BY <1>2, <2>4
  <2> QED
    BY <2>3, <2>5
<1> HIDE DEF N
<1>3. Cardinality(S) \in N
  BY <1>1, <1>2, NaturalsFrom, FS_CardinalityType
<1> QED
  BY <1>3 DEF N

\* A sum falls into the sums of any two parts of its set.
THEOREM SumParts ==
    ASSUME NEW S, IsFiniteSet(S), NEW f, \A x \in S : f[x] \in Int, NEW T \in SUBSET S
    PROVE  SumFunctionOnSet(f, S) = SumFunctionOnSet(f, T) + SumFunctionOnSet(f, S \ T)
<1> DEFINE N == {n \in Nat : \A t \in SUBSET S : Cardinality(t) = n =>
                    SumFunctionOnSet(f, S)
                        = SumFunctionOnSet(f, t) + SumFunctionOnSet(f, S \ t)}
<1>0. \A t \in SUBSET S : SumFunctionOnSet(f, t) \in Int
  <2> SUFFICES ASSUME NEW t \in SUBSET S PROVE SumFunctionOnSet(f, t) \in Int
    OBVIOUS
  <2>1. IsFiniteSet(t) /\ \A x \in t : f[x] \in Int
    BY SubsetsFinite
  <2> QED
    BY <2>1, SumType
<1>1. 0 \in N
  <2>1. \A t \in SUBSET S : Cardinality(t) = 0 => t = {} /\ S \ t = S
    BY SubsetsFinite, FS_EmptySet
  <2>2. SumFunctionOnSet(f, S) \in Int
    BY <1>0
  <2> QED
    BY <2>1, <2>2, SumEmpty
<1>2. ASSUME NEW n \in Nat, n \in N PROVE n + 1 \in N
  <2> SUFFICES ASSUME NEW t \in SUBSET S, Cardinality(t) = n + 1
               PROVE  SumFunctionOnSet(f, S)
                          = SumFunctionOnSet(f, t) + SumFunctionOnSet(f, S \ t)
    OBVIOUS
  <2>1. IsFiniteSet(t) /\ t # {} /\ IsFiniteSet(S \ t)
    BY SubsetsFinite, FS_EmptySet, FS_Subset
  <2>2. PICK x \in t : TRUE
    BY <2>1
  <2>3. SumFunctionOnSet(f, t) = f[x] + SumFunctionOnSet(f, t \ {x})
    BY <2>1, SumOut
  <2>4. Cardinality(t \ {x}) = n
    BY <2>1, OneOut
  <2>5. SumFunctionOnSet(f, S)
            = SumFunctionOnSet(f, t \ {x}) + SumFunctionOnSet(f, S \ (t \ {x}))
    BY <1>2, <2>4
  <2>6. S \ (t \ {x}) = (S \ t) \cup {x}
    OBVIOUS
  <2>7. SumFunctionOnSet(f, (S \ t) \cup {x}) = SumFunctionOnSet(f, S \ t) + f[x]
    BY <2>1, SumIn
  <2>8. /\ f[x] \in Int /\ SumFunctionOnSet(f, t \ {x}) \in Int
        /\ SumFunctionOnSet(f, S \ t) \in Int
    BY <1>0
  <2>9. SumFunctionOnSet(f, S)
            = SumFunctionOnSet(f, t \ {x}) + (SumFunctionOnSet(f, S \ t) + f[x])
    BY <2>5, <2>6, <2>7
  <2> QED
    BY <2>3, <2>8, <2>9
<1> HIDE DEF N
<1>3. IsFiniteSet(T) /\ Cardinality(T) \in N
  BY <1>1, <1>2, NaturalsFrom, FS_CardinalityType, FS_Subset
<1> QED
  BY <1>3 DEF N

\* What is taken out of a sum is set to nothing.
THEOREM SumCleared ==
    ASSUME NEW S, IsFiniteSet(S), NEW T \in SUBSET S, NEW f, NEW f2,
           \A x \in S : f[x] \in Int /\ f2[x] = IF x \in T THEN 0 ELSE f[x]
    PROVE  SumFunctionOnSet(f2, S) = SumFunctionOnSet(f, S) - SumFunctionOnSet(f, T)
<1>1. IsFiniteSet(T) /\ IsFiniteSet(S \ T)
  BY FS_Subset
<1>2. SumFunctionOnSet(f, S) = SumFunctionOnSet(f, T) + SumFunctionOnSet(f, S \ T)
  BY SumParts
<1>3. \A x \in S : f2[x] \in Int
  OBVIOUS
<1>4. SumFunctionOnSet(f2, S) = SumFunctionOnSet(f2, T) + SumFunctionOnSet(f2, S \ T)
  BY <1>3, SumParts
<1>5. SumFunctionOnSet(f2, T) = 0
  <2>1. \A x \in T : f2[x] = 0
    OBVIOUS
  <2> QED
    BY <1>1, <2>1, SumZeros
<1>6. SumFunctionOnSet(f, S \ T) = SumFunctionOnSet(f2, S \ T)
  <2>1. \A x \in S \ T : f[x] \in Int /\ f[x] = f2[x]
    OBVIOUS
  <2> QED
    BY <1>1, <2>1, SumSame
<1>7. SumFunctionOnSet(f, T) \in Int /\ SumFunctionOnSet(f, S \ T) \in Int
  <2>1. (\A x \in T : f[x] \in Int) /\ \A x \in S \ T : f[x] \in Int
    OBVIOUS
  <2> QED
    BY <1>1, <2>1, SumType
<1> QED
  BY <1>2, <1>4, <1>5, <1>6, <1>7

-----------------------------------------------------------------------------
(* Sums over intervals.                                                        *)

\* Intervals are finite.
LEMMA Interval ==
    ASSUME NEW a \in Int, NEW b \in Int
    PROVE  IsFiniteSet(a .. b)
  BY FS_Interval

\* One more number at the end.
THEOREM SumLast ==
    ASSUME NEW a \in Int, NEW b \in Int, a <= b + 1,
           NEW f, \A i \in a .. b + 1 : f[i] \in Int
    PROVE  SumFunctionOnSet(f, a .. b + 1) = SumFunctionOnSet(f, a .. b) + f[b + 1]
<1>1. a .. b + 1 = (a .. b) \cup {b + 1} /\ b + 1 \notin a .. b
  OBVIOUS
<1>2. f[b + 1] \in Int /\ \A i \in a .. b : f[i] \in Int
  OBVIOUS
<1>3. SumFunctionOnSet(f, (a .. b) \cup {b + 1}) = SumFunctionOnSet(f, a .. b) + f[b + 1]
  BY <1>1, <1>2, Interval, SumIn
<1> QED
  BY <1>1, <1>3

\* What is summed may be numbered from elsewhere.
THEOREM SumShifted ==
    ASSUME NEW n \in Nat, NEW k \in Int, NEW f, NEW g,
           \A i \in 1 .. n : g[i] \in Int /\ g[i] = f[i + k]
    PROVE  SumFunctionOnSet(g, 1 .. n) = SumFunctionOnSet(f, k + 1 .. k + n)
<1> DEFINE N == {m \in Nat : m <= n =>
                    SumFunctionOnSet(g, 1 .. m) = SumFunctionOnSet(f, k + 1 .. k + m)}
<1>1. 0 \in N
  <2>1. 1 .. 0 = {} /\ k + 1 .. k + 0 = {}
    OBVIOUS
  <2> QED
    BY <2>1, SumEmpty
<1>2. ASSUME NEW m \in Nat, m \in N PROVE m + 1 \in N
  <2> SUFFICES ASSUME m + 1 <= n
               PROVE  SumFunctionOnSet(g, 1 .. m + 1) = SumFunctionOnSet(f, k + 1 .. k + (m + 1))
    OBVIOUS
  <2>1. SumFunctionOnSet(g, 1 .. m) = SumFunctionOnSet(f, k + 1 .. k + m)
    BY <1>2
  <2>2. SumFunctionOnSet(g, 1 .. m + 1) = SumFunctionOnSet(g, 1 .. m) + g[m + 1]
    <3>1. \A i \in 1 .. m + 1 : g[i] \in Int
      OBVIOUS
    <3> QED
      BY <3>1, SumLast
  <2>3. SumFunctionOnSet(f, k + 1 .. (k + m) + 1)
            = SumFunctionOnSet(f, k + 1 .. k + m) + f[(k + m) + 1]
    <3>1. \A i \in k + 1 .. (k + m) + 1 : f[i] \in Int
      <4> SUFFICES ASSUME NEW i \in k + 1 .. (k + m) + 1 PROVE f[i] \in Int
        OBVIOUS
      <4>1. i - k \in 1 .. n /\ (i - k) + k = i
        OBVIOUS
      <4> QED
        BY <4>1
    <3>2. k + 1 \in Int /\ k + m \in Int /\ k + 1 <= (k + m) + 1
      OBVIOUS
    <3> QED
      BY <3>1, <3>2, SumLast
  <2>4. (k + m) + 1 = k + (m + 1) /\ (m + 1) + k = (k + m) + 1
    OBVIOUS
  <2>5. g[m + 1] = f[(k + m) + 1]
    BY <2>4
  <2> QED
    BY <2>1, <2>2, <2>3, <2>4, <2>5
<1> HIDE DEF N
<1>3. n \in N
  BY <1>1, <1>2, NaturalsFrom
<1> QED
  BY <1>3 DEF N

\* A sum of an interval is cut in two.
THEOREM SumSplit ==
    ASSUME NEW k \in Nat, NEW n \in Nat, k <= n, NEW f, \A i \in 1 .. n : f[i] \in Int
    PROVE  SumFunctionOnSet(f, 1 .. n)
               = SumFunctionOnSet(f, 1 .. k) + SumFunctionOnSet(f, k + 1 .. n)
<1> DEFINE N == {m \in Nat : k + m <= n =>
                    SumFunctionOnSet(f, 1 .. k + m)
                        = SumFunctionOnSet(f, 1 .. k) + SumFunctionOnSet(f, k + 1 .. k + m)}
<1>0. \A m \in 0 .. n : SumFunctionOnSet(f, 1 .. m) \in Int
  <2> SUFFICES ASSUME NEW m \in 0 .. n PROVE SumFunctionOnSet(f, 1 .. m) \in Int
    OBVIOUS
  <2>1. IsFiniteSet(1 .. m) /\ \A i \in 1 .. m : f[i] \in Int
    BY Interval
  <2> QED
    BY <2>1, SumType
<1>1. 0 \in N
  <2>1. k + 0 = k /\ k + 1 .. k = {} /\ k \in 0 .. n
    OBVIOUS
  <2>2. SumFunctionOnSet(f, k + 1 .. k) = 0
    BY <2>1, SumEmpty
  <2> QED
    BY <1>0, <2>1, <2>2
<1>2. ASSUME NEW m \in Nat, m \in N PROVE m + 1 \in N
  <2> SUFFICES ASSUME k + (m + 1) <= n
               PROVE  SumFunctionOnSet(f, 1 .. k + (m + 1)) =
                          SumFunctionOnSet(f, 1 .. k)
                              + SumFunctionOnSet(f, k + 1 .. k + (m + 1))
    OBVIOUS
  <2>1. SumFunctionOnSet(f, 1 .. k + m)
            = SumFunctionOnSet(f, 1 .. k) + SumFunctionOnSet(f, k + 1 .. k + m)
    BY <1>2
  <2>2. k + m \in Int /\ 1 <= (k + m) + 1 /\ k + 1 <= (k + m) + 1
        /\ (k + m) + 1 <= n /\ k + 1 \in Int /\ k + (m + 1) = (k + m) + 1
    OBVIOUS
  <2>3. SumFunctionOnSet(f, 1 .. (k + m) + 1) = SumFunctionOnSet(f, 1 .. k + m) + f[(k + m) + 1]
    <3>1. \A i \in 1 .. (k + m) + 1 : f[i] \in Int
      BY <2>2
    <3> QED
      BY <2>2, <3>1, SumLast
  <2>4. SumFunctionOnSet(f, k + 1 .. (k + m) + 1)
            = SumFunctionOnSet(f, k + 1 .. k + m) + f[(k + m) + 1]
    <3>1. \A i \in k + 1 .. (k + m) + 1 : f[i] \in Int
      BY <2>2
    <3> QED
      BY <2>2, <3>1, SumLast
  <2>5. SumFunctionOnSet(f, 1 .. k) \in Int /\ f[(k + m) + 1] \in Int
    BY <1>0, <2>2
  <2>6. SumFunctionOnSet(f, k + 1 .. k + m) \in Int
    <3>1. IsFiniteSet(k + 1 .. k + m) /\ \A i \in k + 1 .. k + m : f[i] \in Int
      BY <2>2, Interval
    <3> QED
      BY <3>1, SumType
  <2> QED
    BY <2>1, <2>2, <2>3, <2>4, <2>5, <2>6
<1> HIDE DEF N
<1>3. n - k \in N
  BY <1>1, <1>2, NaturalsFrom
<1>4. k + (n - k) = n
  OBVIOUS
<1> QED
  BY <1>3, <1>4 DEF N

-----------------------------------------------------------------------------
(* Sums of sequences of integers.                                              *)

\* The empty sequence sums to 0.
THEOREM SumOfEmpty == SumFunction(<< >>) = 0
<1>1. DOMAIN << >> = {}
  OBVIOUS
<1> QED
  BY <1>1, SumEmpty DEF SumFunction

\* The sum of a sequence is the sum over its places.
LEMMA SumOfSeq ==
    ASSUME NEW q \in Seq(Int)
    PROVE  /\ SumFunction(q) = SumFunctionOnSet(q, 1 .. Len(q))
           /\ IsFiniteSet(1 .. Len(q)) /\ Len(q) \in Nat
           /\ \A i \in 1 .. Len(q) : q[i] \in Int
<1>1. DOMAIN q = 1 .. Len(q) /\ Len(q) \in Nat /\ \A i \in 1 .. Len(q) : q[i] \in Int
  OBVIOUS
<1> QED
  BY <1>1, Interval DEF SumFunction

\* The sum of a sequence of integers is an integer.
THEOREM SumOfType ==
    ASSUME NEW q \in Seq(Int)
    PROVE  SumFunction(q) \in Int
  BY SumOfSeq, SumType

\* The sum of a sequence of naturals is one, and at least each of them.
THEOREM SumOfNatural ==
    ASSUME NEW q \in Seq(Nat)
    PROVE  SumFunction(q) \in Nat /\ \A i \in 1 .. Len(q) : q[i] <= SumFunction(q)
<1>1. q \in Seq(Int) /\ \A i \in 1 .. Len(q) : q[i] \in Nat
  OBVIOUS
<1> QED
  BY <1>1, SumOfSeq, SumNatural

\* One more integer at the end.
THEOREM SumOfAppended ==
    ASSUME NEW q \in Seq(Int), NEW n \in Int
    PROVE  SumFunction(Append(q, n)) = SumFunction(q) + n
<1> DEFINE r == Append(q, n)
<1>1. r \in Seq(Int) /\ Len(r) = Len(q) + 1 /\ r[Len(q) + 1] = n
      /\ \A i \in 1 .. Len(q) : r[i] = q[i]
  OBVIOUS
<1>2. \A i \in 1 .. Len(q) + 1 : r[i] \in Int
  BY <1>1
<1> HIDE DEF r
<1>3. SumFunctionOnSet(r, 1 .. Len(q) + 1) = SumFunctionOnSet(r, 1 .. Len(q)) + n
  <2>1. Len(q) \in Int /\ 1 \in Int /\ 1 <= Len(q) + 1
    OBVIOUS
  <2>2. SumFunctionOnSet(r, 1 .. Len(q) + 1)
            = SumFunctionOnSet(r, 1 .. Len(q)) + r[Len(q) + 1]
    BY <1>2, <2>1, SumLast, Zenon
  <2> QED
    BY <1>1, <2>2
<1>4. SumFunctionOnSet(r, 1 .. Len(q)) = SumFunctionOnSet(q, 1 .. Len(q))
  BY <1>1, SumOfSeq, SumSame
<1> QED
  BY <1>1, <1>3, <1>4, SumOfSeq DEF r

\* A sequence is cut in two, and its sum with it.
THEOREM SumOfPart ==
    ASSUME NEW q \in Seq(Int), NEW k \in 0 .. Len(q)
    PROVE  SumFunction(q) = SumFunction(SubSeq(q, 1, k)) + SumFunction(SubSeq(q, k + 1, Len(q)))
<1> DEFINE a == SubSeq(q, 1, k)
           b == SubSeq(q, k + 1, Len(q))
<1>1. /\ a \in Seq(Int) /\ Len(a) = k /\ \A i \in 1 .. k : a[i] = q[i]
      /\ b \in Seq(Int) /\ Len(b) = Len(q) - k
      /\ \A i \in 1 .. Len(q) - k : b[i] = q[i + k]
  OBVIOUS
<1>2. k \in Nat /\ Len(q) - k \in Nat /\ k + (Len(q) - k) = Len(q)
  OBVIOUS
<1> HIDE DEF a, b
<1>3. SumFunctionOnSet(a, 1 .. k) = SumFunctionOnSet(q, 1 .. k)
  <2>1. IsFiniteSet(1 .. k) /\ \A i \in 1 .. k : a[i] \in Int /\ a[i] = q[i]
    BY <1>1, <1>2, Interval
  <2> QED
    BY <2>1, SumSame
<1>4. SumFunctionOnSet(b, 1 .. Len(q) - k) = SumFunctionOnSet(q, k + 1 .. Len(q))
  <2>1. \A i \in 1 .. Len(b) : b[i] \in Int
    BY <1>1, SumOfSeq
  <2>2. \A i \in 1 .. Len(q) - k : b[i] \in Int /\ b[i] = q[i + k]
    BY <1>1, <2>1
  <2>3. k \in Int
    OBVIOUS
  <2>4. SumFunctionOnSet(b, 1 .. Len(q) - k)
            = SumFunctionOnSet(q, k + 1 .. k + (Len(q) - k))
    BY <1>2, <2>2, <2>3, SumShifted, Zenon
  <2> QED
    BY <1>2, <2>4
<1>5. SumFunctionOnSet(q, 1 .. Len(q))
          = SumFunctionOnSet(q, 1 .. k) + SumFunctionOnSet(q, k + 1 .. Len(q))
  BY <1>2, SumOfSeq, SumSplit
<1> QED
  BY <1>1, <1>3, <1>4, <1>5, SumOfSeq DEF a, b

\* The first integer is taken off.
THEOREM SumOfTail ==
    ASSUME NEW q \in Seq(Int), q # << >>
    PROVE  SumFunction(q) = Head(q) + SumFunction(Tail(q))
<1>1. 1 \in 0 .. Len(q) /\ 1 + 1 = 2 /\ Head(q) \in Int /\ << >> \in Seq(Int)
  OBVIOUS
<1>2. SubSeq(q, 2, Len(q)) = Tail(q) /\ Tail(q) \in Seq(Int)
  <2>1. Tail(q) \in Seq(Int)
    OBVIOUS
  <2>2. Tail(q) = SubSeq(q, 2, Len(q))
    BY TailIsSubSeq
  <2> QED
    BY <2>1, <2>2
<1>3. SubSeq(q, 1, 1) = Append(<< >>, Head(q))
  <2> DEFINE a == SubSeq(q, 1, 1)
  <2>1. a \in Seq(Int) /\ Len(a) = 1 /\ a[1] = q[1]
    OBVIOUS
  <2> HIDE DEF a
  <2>2. a = << q[1] >>
    BY <2>1
  <2>3. Head(q) = q[1] /\ Append(<< >>, q[1]) = << q[1] >>
    OBVIOUS
  <2> QED
    BY <2>2, <2>3 DEF a
<1>4. SumFunction(Append(<< >>, Head(q))) = 0 + Head(q)
  BY <1>1, SumOfAppended, SumOfEmpty
<1>5. SumFunction(q) = SumFunction(SubSeq(q, 1, 1)) + SumFunction(SubSeq(q, 1 + 1, Len(q)))
  BY <1>1, SumOfPart
<1>6. SumFunction(q) = (0 + Head(q)) + SumFunction(Tail(q))
  BY <1>1, <1>2, <1>3, <1>4, <1>5, Zenon
<1>7. SumFunction(Tail(q)) \in Int
  BY <1>2, SumOfType
<1> QED
  BY <1>1, <1>6, <1>7

\* The sum of joined sequences.
THEOREM SumOfJoined ==
    ASSUME NEW q \in Seq(Int), NEW r \in Seq(Int)
    PROVE  SumFunction(q \o r) = SumFunction(q) + SumFunction(r)
<1>1. q \o r \in Seq(Int) /\ Len(q) \in 0 .. Len(q \o r)
  OBVIOUS
<1>2. SubSeq(q \o r, 1, Len(q)) = q
  OBVIOUS
<1>3. SubSeq(q \o r, Len(q) + 1, Len(q \o r)) = r
  OBVIOUS
<1> QED
  BY <1>1, <1>2, <1>3, SumOfPart
-----------------------------------------------------------------------------
(* Prefixes of a sequence.                                                     *)

\* What the first numbers of a sequence sum up to, one after the other.
THEOREM SumPrefixes ==
    ASSUME NEW b \in Seq(Nat)
    PROVE  /\ SumFunctionOnSet(b, 1..0) = 0
           /\ \A n \in 0..Len(b) : SumFunctionOnSet(b, 1..n) \in Nat
           /\ \A n \in Nat : n < Len(b) =>
                  SumFunctionOnSet(b, 1..n + 1) = SumFunctionOnSet(b, 1..n) + b[n + 1]
<1>1. PICK m : m = Len(b)
  OBVIOUS
<1>2. m \in Nat /\ \A i \in 1..m : b[i] \in Nat /\ b[i] \in Int
  BY <1>1
<1>3. 1..0 = {}
  OBVIOUS
<1>4. SumFunctionOnSet(b, 1..0) = 0
  BY <1>3, SumEmpty
<1>5. ASSUME NEW n \in 0..m PROVE SumFunctionOnSet(b, 1..n) \in Nat
  <2>1. IsFiniteSet(1..n) /\ \A i \in 1..n : b[i] \in Nat
    BY <1>2, Interval
  <2> QED
    BY <2>1, SumNatural
<1>6. ASSUME NEW n \in Nat, n < m
      PROVE  SumFunctionOnSet(b, 1..n + 1) = SumFunctionOnSet(b, 1..n) + b[n + 1]
  <2>1. 1 \in Int /\ n \in Int /\ 1 <= n + 1 /\ \A i \in 1..n + 1 : b[i] \in Int
    BY <1>2, <1>6
  <2> QED
    BY <2>1, SumLast
<1> QED
  BY <1>1, <1>4, <1>5, <1>6

-----------------------------------------------------------------------------
(* What a link weighs, when each of its frames has a weight.                    *)

Weigh(link, w) == SumFunction([i \in DOMAIN link |-> w[link[i]]])

\* What a joined sequence is, place by place.
Glues(r, p, q) == /\ Len(r) = Len(p) + Len(q)
                  /\ \A i \in 1..Len(p) : r[i] = p[i]
                  /\ \A i \in 1..Len(q) : r[Len(p) + i] = q[i]

\* ... is their concatenation.
LEMMA Glued ==
    ASSUME NEW S, NEW p \in Seq(S), NEW q \in Seq(S), NEW r \in Seq(S), Glues(r, p, q)
    PROVE  r = p \o q
<1>0. /\ Len(r) = Len(p) + Len(q)
      /\ \A i \in 1..Len(p) : r[i] = p[i]
      /\ \A i \in 1..Len(q) : r[Len(p) + i] = q[i]
  BY DEF Glues
<1>1. PICK all, m, n : all = p \o q /\ m = Len(p) /\ n = Len(q)
  OBVIOUS
<1>2. /\ all \in Seq(S) /\ Len(all) = Len(p) + Len(q)
      /\ \A i \in 1..Len(p) : all[i] = p[i]
      /\ \A i \in 1..Len(q) : all[Len(p) + i] = q[i]
  BY <1>1
<1>3. m \in Nat /\ n \in Nat
  BY <1>1
<1>4. /\ \A i \in 1..m : all[i] = r[i]
      /\ \A i \in 1..n : all[m + i] = r[m + i]
      /\ Len(all) = m + n /\ Len(r) = m + n
  BY <1>0, <1>1, <1>2
<1>5. \A i \in 1..m + n : i \in 1..m \/ \E j \in 1..n : i = m + j
  <2> TAKE i \in 1..m + n
  <2>1. CASE i <= m
    BY <1>3, <2>1
  <2>2. CASE ~(i <= m)
    <3>1. i - m \in 1..n /\ i = m + (i - m)
      BY <1>3, <2>2
    <3> QED
      BY <3>1
  <2> QED
    BY <2>1, <2>2
<1>6. \A i \in 1..m + n : r[i] = all[i]
  <2> TAKE i \in 1..m + n
  <2>1. CASE i \in 1..m
    BY <1>4, <2>1, Zenon
  <2>2. CASE \E j \in 1..n : i = m + j
    <3>1. PICK j \in 1..n : i = m + j
      BY <2>2
    <3> QED
      BY <1>4, <3>1, Zenon
  <2> QED
    BY <1>5, <2>1, <2>2, Zenon
<1>7. r = all
  <2>1. Len(r) = Len(all) /\ \A i \in 1..Len(r) : r[i] = all[i]
    BY <1>4, <1>6, Zenon
  <2> QED
    BY <1>2, <2>1, SeqEqual, Zenon
<1> QED
  BY <1>1, <1>7

\* The weights of the frames of a link.
LEMMA Weights ==
    ASSUME NEW S, NEW w \in [S -> Nat], NEW link \in Seq(S)
    PROVE  /\ [i \in DOMAIN link |-> w[link[i]]] \in Seq(Int)
           /\ [i \in DOMAIN link |-> w[link[i]]] \in Seq(Nat)
           /\ Len([i \in DOMAIN link |-> w[link[i]]]) = Len(link)
<1>1. DOMAIN link = 1..Len(link) /\ Len(link) \in Nat /\ \A i \in 1..Len(link) : link[i] \in S
  OBVIOUS
<1>2. \A i \in 1..Len(link) : w[link[i]] \in Nat /\ w[link[i]] \in Int
  BY <1>1
<1>3. PICK n : n = Len(link)
  OBVIOUS
<1>4. PICK q : q = [i \in 1..n |-> w[link[i]]]
  OBVIOUS
<1>5. q \in Seq(Nat) /\ q \in Seq(Int) /\ Len(q) = n
  BY <1>1, <1>2, <1>3, <1>4
<1> QED
  BY <1>1, <1>3, <1>4, <1>5

\* Joined links weigh what they weigh together.
LEMMA WeighJoined ==
    ASSUME NEW S, NEW w \in [S -> Nat], NEW link \in Seq(S), NEW more \in Seq(S)
    PROVE  Weigh(link \o more, w) = Weigh(link, w) + Weigh(more, w)
<1> DEFINE W(l) == [i \in DOMAIN l |-> w[l[i]]]
<1>0. PICK all, m, n : all = link \o more /\ m = Len(link) /\ n = Len(more)
  OBVIOUS
<1>1. /\ all \in Seq(S) /\ DOMAIN link = 1..m /\ DOMAIN more = 1..n
      /\ m \in Nat /\ n \in Nat /\ Len(all) = m + n /\ DOMAIN all = 1..m + n
      /\ \A i \in 1..m : all[i] = link[i]
      /\ \A i \in 1..n : all[m + i] = more[i]
  BY <1>0
<1>2. PICK p, q, r : p = W(link) /\ q = W(more) /\ r = W(all)
  OBVIOUS
<1>3. /\ p \in Seq(Int) /\ Len(p) = m /\ q \in Seq(Int) /\ Len(q) = n
      /\ r \in Seq(Int) /\ Len(r) = m + n
  BY <1>0, <1>1, <1>2, Weights
<1>4. /\ \A i \in 1..m : p[i] = w[link[i]]
      /\ \A i \in 1..n : q[i] = w[more[i]]
      /\ \A i \in 1..m + n : r[i] = w[all[i]]
  BY <1>1, <1>2
<1>5. /\ \A i \in 1..m : i \in 1..m + n /\ r[i] = p[i]
      /\ \A i \in 1..n : m + i \in 1..m + n /\ r[m + i] = q[i]
  BY <1>1, <1>4
<1>6. r = p \o q
  <2>1. Len(r) = Len(p) + Len(q) /\ \A i \in 1..Len(p) : r[i] = p[i]
    BY <1>3, <1>5
  <2>2. \A i \in 1..Len(q) : r[Len(p) + i] = q[i]
    BY <1>3, <1>5, Zenon
  <2>3. Glues(r, p, q)
    BY <2>1, <2>2 DEF Glues
  <2> QED
    BY <1>3, <2>3, Glued
<1>7. SumFunction(r) = SumFunction(p) + SumFunction(q)
  BY <1>3, <1>6, SumOfJoined
<1> QED
  BY <1>0, <1>2, <1>7 DEF Weigh

\* A link weighs a natural number.
LEMMA WeighType ==
    ASSUME NEW S, NEW w \in [S -> Nat], NEW link \in Seq(S)
    PROVE  Weigh(link, w) \in Nat
  BY Weights, SumOfNatural DEF Weigh

\* Frames that weigh nothing.
LEMMA Weightless ==
    ASSUME NEW S, NEW w \in [S -> Nat], NEW link \in Seq(S), \A f \in Range(link) : w[f] = 0
    PROVE  Weigh(link, w) = 0
<1>1. PICK p : p = [i \in DOMAIN link |-> w[link[i]]]
  OBVIOUS
<1>2. p \in Seq(Int) /\ Len(p) = Len(link) /\ DOMAIN link = 1..Len(link) /\ Len(link) \in Nat
  BY <1>1, Weights
<1>3. \A i \in 1..Len(p) : p[i] = 0
  BY <1>1, <1>2 DEF Range
<1>4. SumFunctionOnSet(p, 1..Len(p)) = 0
  BY <1>2, <1>3, SumOfSeq, SumZeros
<1> QED
  BY <1>1, <1>2, <1>4, SumOfSeq DEF Weigh

\* A link of one frame weighs what the frame does.
LEMMA WeighOne ==
    ASSUME NEW S, NEW w \in [S -> Nat], NEW f \in S
    PROVE  /\ <<f>> \in Seq(S) /\ Range(<<f>>) = {f}
           /\ Weigh(<<f>>, w) = w[f]
<1>1. <<f>> \in Seq(S) /\ DOMAIN <<f>> = {1} /\ <<f>>[1] = f /\ w[f] \in Int
  OBVIOUS
<1>2. [i \in DOMAIN <<f>> |-> w[<<f>>[i]]] = Append(<<>>, w[f]) /\ <<>> \in Seq(Int)
  OBVIOUS
<1>3. SumFunction(Append(<<>>, w[f])) = 0 + w[f]
  BY <1>1, <1>2, SumOfAppended, SumOfEmpty
<1>4. Range(<<f>>) = {f}
  BY <1>1 DEF Range
<1> QED
  BY <1>1, <1>2, <1>3, <1>4 DEF Weigh

\* One more frame at the end.
LEMMA WeighAppended ==
    ASSUME NEW S, NEW w \in [S -> Nat], NEW link \in Seq(S), NEW f \in S
    PROVE  Weigh(Append(link, f), w) = Weigh(link, w) + w[f]
<1>1. PICK one : one = <<f>>
  OBVIOUS
<1>2. Append(link, f) = link \o one /\ one \in Seq(S)
  BY <1>1
<1>3. Weigh(one, w) = w[f]
  BY <1>1, WeighOne
<1> QED
  BY <1>2, <1>3, WeighJoined, Zenon

\* The first frame is taken off.
LEMMA WeighPopped ==
    ASSUME NEW S, NEW w \in [S -> Nat], NEW link \in Seq(S), link # <<>>
    PROVE  Weigh(link, w) = w[Head(link)] + Weigh(Tail(link), w)
<1>1. PICK one : one = <<Head(link)>>
  OBVIOUS
<1>2. link = one \o Tail(link) /\ Head(link) \in S /\ Tail(link) \in Seq(S)
  BY <1>1
<1>3. one \in Seq(S) /\ Weigh(one, w) = w[Head(link)]
  BY <1>1, <1>2, WeighOne
<1> QED
  BY <1>2, <1>3, WeighJoined, Zenon

\* A link is cut in two.
LEMMA WeighParts ==
    ASSUME NEW S, NEW w \in [S -> Nat], NEW link \in Seq(S), NEW k \in 0..Len(link)
    PROVE  /\ SubSeq(link, 1, k) \in Seq(S) /\ SubSeq(link, k + 1, Len(link)) \in Seq(S)
           /\ Weigh(link, w) = Weigh(SubSeq(link, 1, k), w)
                                   + Weigh(SubSeq(link, k + 1, Len(link)), w)
<1>0. PICK m, n : m = Len(link) /\ n = k
  OBVIOUS
<1>1. PICK a, b : a = SubSeq(link, 1, n) /\ b = SubSeq(link, n + 1, m)
  OBVIOUS
<1>2. /\ m \in Nat /\ n \in 0..m
      /\ a \in Seq(S) /\ Len(a) = n /\ (\A i \in 1..n : a[i] = link[i])
      /\ b \in Seq(S) /\ Len(b) = m - n /\ (\A i \in 1..m - n : b[i] = link[i + n])
  <2>1. m \in Nat /\ n \in 0..m
    BY <1>0
  <2>2. a \in Seq(S) /\ Len(a) = n /\ \A i \in 1..n : a[i] = link[i]
    BY <1>0, <1>1, <2>1
  <2>3. b \in Seq(S) /\ Len(b) = m - n
    BY <1>0, <1>1, <2>1
  <2>4. \A i \in 1..m - n : b[i] = link[i + n]
    BY <1>0, <1>1, <2>1
  <2> QED
    BY <2>1, <2>2, <2>3, <2>4
<1>3. Glues(link, a, b)
  <2>1. Len(link) = Len(a) + Len(b)
    BY <1>0, <1>2
  <2>2. \A i \in 1..Len(a) : link[i] = a[i]
    BY <1>2
  <2>3. \A i \in 1..Len(b) : link[Len(a) + i] = b[i]
    <3>1. \A i \in 1..m - n : n + i = i + n
      BY <1>2
    <3> QED
      BY <1>2, <3>1
  <2> QED
    BY <2>1, <2>2, <2>3 DEF Glues
<1>4. link = a \o b
  BY <1>2, <1>3, Glued
<1> QED
  BY <1>0, <1>1, <1>2, <1>4, WeighJoined, Zenon
=============================================================================
