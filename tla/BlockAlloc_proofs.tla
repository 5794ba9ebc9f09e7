------------------------- MODULE BlockAlloc_proofs -------------------------
(***************************************************************************)
(* Proofs about the heap block allocator.                                  *)
(*                                                                         *)
(* The inductive invariant says that the header table describes disjoint   *)
(* blocks of the memory that was added, that list i is a list, linked both *)
(* ways, of the free blocks of its sizes, that the byte counts are theirs, *)
(* and that no two free blocks touch.  The lemmas follow the operations on *)
(* a heap f from the smallest to GC_freehblk and GC_split_block; in        *)
(* between, one block may be on no list, and have no counts (Loose).       *)
(***************************************************************************)
EXTENDS BlockAlloc, FiniteSetTheorems, WellFoundedInduction, TLAPS

------------------------------------------------------------------------------
(* Induction and recursion.                                                *)

\* Of finitely many sets one contains no other.
LEMMA SmallestSet ==
  ASSUME NEW S, IsFiniteSet(S), NEW T \in SUBSET SUBSET S, T # {}
  PROVE  \E x \in T : \A y \in T : y \subseteq x => y = x
<1>1. T \subseteq FiniteSubsetsOf(S)
  BY FS_FiniteSubsetsOfFinite
<1>2. \E x \in T : \A y \in T : <<y, x>> \notin StrictSubsetOrdering(S)
  BY <1>1, FS_StrictSubsetOrderingWellFounded, WFMin
<1> QED
  BY <1>2 DEF StrictSubsetOrdering

\* A set of numbers has a least one.
LEMMA LeastNat ==
  ASSUME NEW T \in SUBSET Nat, T # {}
  PROVE  \E x \in T : \A y \in T : x <= y
<1>1. PICK t \in T : TRUE
  OBVIOUS
<1> DEFINE Initial == {0 .. x : x \in {y \in T : y <= t}}
<1>2. /\ IsFiniteSet(0 .. t) /\ Initial # {}
      /\ Initial \in SUBSET SUBSET (0 .. t)
  <2>1. t \in Int /\ 0 \in Int
    BY <1>1
  <2>2. IsFiniteSet(0 .. t)
    BY <2>1, FS_Interval
  <2>3. Initial # {}
    <3>1. 0 .. t \in Initial
      BY <1>1
    <3> QED BY <3>1
  <2>4. ASSUME NEW x \in T, x <= t PROVE 0 .. x \subseteq 0 .. t
    BY <2>4
  <2> QED BY <2>2, <2>3, <2>4
<1>3. \E u \in Initial : \A v \in Initial : v \subseteq u => v = u
  <2> DEFINE All == 0 .. t
  <2>1. IsFiniteSet(All) /\ Initial # {} /\ Initial \in SUBSET SUBSET All
    BY <1>2
  <2> HIDE DEF Initial, All
  <2> QED BY <2>1, SmallestSet
<1>4. PICK x \in T : x <= t /\ \A y \in T : y <= t => (0 .. y \subseteq 0 .. x => 0 .. y = 0 .. x)
  <2>1. PICK u \in Initial : \A v \in Initial : v \subseteq u => v = u
    BY <1>3
  <2>2. PICK x \in T : x <= t /\ u = 0 .. x
    BY <2>1
  <2>3. ASSUME NEW y \in T, y <= t PROVE 0 .. y \in Initial
    BY <2>3
  <2> HIDE DEF Initial
  <2> QED BY <2>1, <2>2, <2>3
<1> QED
  <2>1. ASSUME NEW y \in T, y < x PROVE FALSE
    <3>1. 0 .. y \subseteq 0 .. x /\ x \in 0 .. x /\ x \notin 0 .. y /\ y <= t
      BY <1>4, <2>1
    <3> QED BY <3>1, <1>4
  <2> QED BY <2>1

\* An induction principle over naturals as a set.
LEMMA NatSet ==
  ASSUME NEW T, 0 \in T, \A k \in Nat : k \in T => k + 1 \in T
  PROVE  Nat \subseteq T
<1> SUFFICES ASSUME Nat \ T # {} PROVE FALSE
  OBVIOUS
<1>1. PICK k \in Nat \ T : \A y \in Nat \ T : k <= y
  BY LeastNat, Nat \ T \in SUBSET Nat
<1>2. k # 0 /\ k - 1 \in Nat /\ k - 1 \in T
  BY <1>1
<1> QED
  BY <1>1, <1>2, (k - 1) + 1 = k

\* A recursion over an interval defines a function.
Iterates(S, s0, F, N) == \E g \in [0 .. N -> S] : g[0] = s0 /\ \A k \in 1 .. N : g[k] = F[k][g[k - 1]]

\* A function that is defined step by step exists.
LEMMA Recursion ==
  ASSUME NEW S, NEW s0 \in S, NEW F \in [Nat -> [S -> S]], NEW N \in Nat
  PROVE  Iterates(S, s0, F, N)
<1> DEFINE Def(m) == \E g \in [0 .. m -> S] : g[0] = s0 /\ \A k \in 1 .. m : g[k] = F[k][g[k - 1]]
           T == {m \in Nat : Def(m)}
<1>1. 0 \in T
  <2> DEFINE g == [k \in 0 .. 0 |-> s0]
  <2>1. g \in [0 .. 0 -> S] /\ g[0] = s0 /\ \A k \in 1 .. 0 : g[k] = F[k][g[k - 1]]
    OBVIOUS
  <2> HIDE DEF g
  <2> QED BY <2>1
<1>2. ASSUME NEW m \in Nat, m \in T PROVE m + 1 \in T
  <2>1. PICK g \in [0 .. m -> S] : g[0] = s0 /\ \A k \in 1 .. m : g[k] = F[k][g[k - 1]]
    BY <1>2
  <2> DEFINE h == [k \in 0 .. m + 1 |-> IF k = m + 1 THEN F[m + 1][g[m]] ELSE g[k]]
  <2>2. h \in [0 .. m + 1 -> S]
    BY <2>1
  <2>3. h[0] = s0
    BY <2>1
  <2>4. ASSUME NEW k \in 1 .. m + 1 PROVE h[k] = F[k][h[k - 1]]
    <3>1. CASE k = m + 1
      BY <3>1, h[m] = g[m]
    <3>2. CASE k # m + 1
      <4>1. k \in 1 .. m /\ k - 1 \in 0 .. m /\ k - 1 # m + 1 /\ k \in 0 .. m + 1 /\ k - 1 \in 0 .. m + 1 
        BY <3>2
      <4> QED BY <2>1, <4>1
    <3> QED BY <3>1, <3>2
  <2> HIDE DEF h
  <2> QED BY <2>2, <2>3, <2>4
<1> HIDE DEF Def
<1>3. Nat \subseteq T
  <2> HIDE DEF T
  <2> QED BY <1>1, <1>2, NatSet
<1>4. Def(N)
  BY <1>3
<1> QED
  BY <1>4 DEF Def, Iterates

------------------------------------------------------------------------------
(* Sums over finite sets.                                                  *)

Some(s) == CHOOSE x \in s : TRUE

\* G adds up w over the subsets of A, taking out one element after the other.
AddsUp(G, w, A) ==
  G = [s \in SUBSET A |-> IF s = {} THEN 0 ELSE w[Some(s)] + G[s \ {Some(s)}]]

\* SumFunctionOnSet takes the sum of the function it chooses.
LEMMA SumIsChosen ==
  ASSUME NEW w, NEW S
  PROVE  \E G : G = (CHOOSE H : AddsUp(H, w, S)) /\ SumFunctionOnSet(w, S) = G[S]
BY DEF SumFunctionOnSet, FoldFunctionOnSet, MapThenFoldSet, AddsUp, Some

\* There is a function to choose.
LEMMA SumExists ==
  ASSUME NEW A, IsFiniteSet(A), NEW w \in [A -> Int]
  PROVE  \E G \in [SUBSET A -> Int] : AddsUp(G, w, A)
<1> DEFINE Rest(G, s) == IF s = {} THEN 0 ELSE w[Some(s)] + G[s \ {Some(s)}]
           UpTo(k) == \E G \in [SUBSET A -> Int] : \A s \in SUBSET A :
                        Cardinality(s) <= k => G[s] = Rest(G, s)
           T == {k \in Nat : UpTo(k)}
<1>1. ASSUME NEW s \in SUBSET A
      PROVE  /\ IsFiniteSet(s) /\ Cardinality(s) \in Nat
             /\ Cardinality(s) <= Cardinality(A)
             /\ s # {} => /\ Some(s) \in s /\ s \ {Some(s)} \in SUBSET A
                          /\ Cardinality(s \ {Some(s)}) = Cardinality(s) - 1
             /\ Cardinality(s) = 0 <=> s = {}
  <2>1. IsFiniteSet(s) /\ Cardinality(s) <= Cardinality(A)
    BY FS_Subset
  <2>2. Cardinality(s) \in Nat
    BY <2>1, FS_CardinalityType
  <2>3. ASSUME s # {} PROVE Some(s) \in s
    BY <2>3 DEF Some
  <2>4. ASSUME s # {} PROVE Cardinality(s \ {Some(s)}) = Cardinality(s) - 1
    BY <2>1, <2>3, <2>4, FS_RemoveElement
  <2> QED
    BY <2>1, <2>2, <2>3, <2>4, FS_EmptySet
<1>2. 0 \in T
  <2> DEFINE G == [s \in SUBSET A |-> 0]
  <2>1. G \in [SUBSET A -> Int] /\ \A s \in SUBSET A : Cardinality(s) <= 0 => G[s] = Rest(G, s)
    BY <1>1
  <2> HIDE DEF G
  <2> QED BY <2>1
<1>3. ASSUME NEW k \in Nat, k \in T PROVE k + 1 \in T
  <2>1. PICK G \in [SUBSET A -> Int] : \A s \in SUBSET A : Cardinality(s) <= k => G[s] = Rest(G, s)
    BY <1>3
  <2> DEFINE H == [s \in SUBSET A |-> IF Cardinality(s) <= k THEN G[s] ELSE Rest(G, s)]
  <2>2. ASSUME NEW s \in SUBSET A PROVE Rest(G, s) \in Int
    <3>1. CASE s # {}
      <4>1. Some(s) \in A /\ s \ {Some(s)} \in SUBSET A
        BY <3>1, <1>1
      <4>2. w[Some(s)] \in Int /\ G[s \ {Some(s)}] \in Int
        BY <4>1
      <4> QED BY <3>1, <4>2
    <3> QED BY <3>1
  <2>3. H \in [SUBSET A -> Int]
    <3> HIDE DEF Rest
    <3> QED BY <2>1, <2>2
  <2>4. ASSUME NEW s \in SUBSET A, Cardinality(s) <= k + 1 PROVE H[s] = Rest(H, s)
    <3>1. CASE s = {}
      BY <3>1, <2>1, <1>1
    <3>2. CASE s # {}
      <4> DEFINE r == s \ {Some(s)}
      <4>1. r \in SUBSET A /\ Cardinality(r) <= k
        <5>1. Cardinality(s) \in Nat /\ r \in SUBSET A /\ Cardinality(r) = Cardinality(s) - 1
          BY <3>2, <1>1
        <5> HIDE DEF r
        <5> QED BY <5>1, <2>4
      <4>2. H[r] = G[r]
        BY <4>1
      <4>3. H[s] = Rest(G, s)
        BY <2>1
      <4> QED
        BY <4>2, <4>3, <3>2
    <3> QED BY <3>1, <3>2
  <2>5. UpTo(k + 1)
    <3> HIDE DEF H, Rest
    <3> QED BY <2>3, <2>4
  <2> QED BY <2>5
<1>4. UpTo(Cardinality(A))
  <2> HIDE DEF UpTo
  <2>1. Nat \subseteq T
    <3> HIDE DEF T
    <3> QED BY <1>2, <1>3, NatSet
  <2> QED BY <2>1, FS_CardinalityType
<1>5. PICK G \in [SUBSET A -> Int] : \A s \in SUBSET A : Cardinality(s) <= Cardinality(A) => G[s] = Rest(G, s)
  BY <1>4
<1>6. AddsUp(G, w, A)
  BY <1>5, <1>1 DEF AddsUp
<1> QED
  BY <1>6

\* It does not matter which one is chosen.
LEMMA SumUnique ==
  ASSUME NEW A, IsFiniteSet(A), NEW B \in SUBSET A, NEW w, NEW v, \A x \in B : w[x] = v[x],
         NEW G, NEW H, AddsUp(G, w, A), AddsUp(H, v, B)
  PROVE  \A s \in SUBSET B : G[s] = H[s]
<1> DEFINE T == {s \in SUBSET B : G[s] # H[s]}
<1> SUFFICES ASSUME T # {} PROVE FALSE
  OBVIOUS
<1>1. PICK s \in T : \A r \in T : r \subseteq s => r = s
  <2>1. IsFiniteSet(B)
    BY FS_Subset
  <2>2. T \in SUBSET SUBSET B
    OBVIOUS
  <2> HIDE DEF T
  <2> QED BY <2>1, <2>2, SmallestSet
<1>2. s # {}
  BY DEF AddsUp
<1>3. Some(s) \in s
  BY <1>2 DEF Some
<1>4. G[s \ {Some(s)}] = H[s \ {Some(s)}]
  BY <1>1, <1>3
<1>5. w[Some(s)] = v[Some(s)]
  BY <1>3
<1>6. s \in SUBSET A /\ s \in SUBSET B
  OBVIOUS
<1> QED
  <2>1. G[s] = w[Some(s)] + G[s \ {Some(s)}]
    BY <1>2, <1>6 DEF AddsUp
  <2>2. H[s] = v[Some(s)] + H[s \ {Some(s)}]
    BY <1>2, <1>6 DEF AddsUp
  <2> QED BY <1>4, <1>5, <2>1, <2>2

TakesOut(G, w, A) == \A s \in SUBSET A : \A x \in s : G[s] = w[x] + G[s \ {x}]

\* A sum does not depend on the order in which it is taken.
LEMMA AnyOrder ==
  ASSUME NEW A, IsFiniteSet(A), NEW w \in [A -> Int], NEW G \in [SUBSET A -> Int],
         AddsUp(G, w, A)
  PROVE  TakesOut(G, w, A)
<1> SUFFICES ASSUME NEW s0 \in SUBSET A, NEW x0 \in s0, G[s0] # w[x0] + G[s0 \ {x0}]
             PROVE  FALSE
  BY Zenon DEF TakesOut
<1> DEFINE T == {s \in SUBSET A : \E x \in s : G[s] # w[x] + G[s \ {x}]}
<1>1. PICK s \in T : \A r \in T : r \subseteq s => r = s
  <2>1. s0 \in T
    OBVIOUS
  <2>2. T \in SUBSET SUBSET A
    OBVIOUS
  <2> HIDE DEF T
  <2> QED BY <2>1, <2>2, SmallestSet
<1>2. PICK x \in s : G[s] # w[x] + G[s \ {x}]
  BY <1>1
<1>3. s \in SUBSET A /\ s # {}
  BY <1>1
<1> DEFINE c == Some(s)
<1>4. c \in s /\ G[s] = w[c] + G[s \ {c}]
  BY <1>3 DEF Some, AddsUp
<1>5. c # x
  BY <1>2, <1>4
<1> HIDE DEF c
<1>6. s \ {c} \notin T /\ s \ {x} \notin T
  BY <1>1, <1>2, <1>4
<1>7. s \ {c} \in SUBSET A /\ s \ {x} \in SUBSET A /\ x \in s \ {c} /\ c \in s \ {x}
  BY <1>3, <1>4, <1>5
<1>8. G[s \ {c}] = w[x] + G[(s \ {c}) \ {x}] /\ G[s \ {x}] = w[c] + G[(s \ {x}) \ {c}]
  BY <1>6, <1>7
<1>9. (s \ {c}) \ {x} = (s \ {x}) \ {c} /\ (s \ {x}) \ {c} \in SUBSET A
  BY <1>3
<1>10. w[x] \in Int /\ w[c] \in Int /\ G[(s \ {x}) \ {c}] \in Int
  BY <1>9, <1>3, <1>4
<1> DEFINE g == G[(s \ {x}) \ {c}]
<1>11. G[s] = w[c] + (w[x] + g) /\ G[s \ {x}] = w[c] + g /\ G[s] # w[x] + G[s \ {x}]
  BY <1>2, <1>4, <1>8, <1>9
<1>12. \A a, b, d \in Int : a + (b + d) = b + (a + d)
  OBVIOUS
<1> HIDE DEF g
<1> QED
  BY <1>10, <1>11, <1>12 DEF g

\* What sums of integers do: a sum over the empty set, an element more, and that
\* only the values that are added matter.
LEMMA SumOf ==
  ASSUME NEW A, IsFiniteSet(A), NEW w, \A x \in A : w[x] \in Int
  PROVE  /\ SumFunctionOnSet(w, {}) = 0
         /\ SumFunctionOnSet(w, A) \in Int
         /\ \A x \in A : SumFunctionOnSet(w, A) = w[x] + SumFunctionOnSet(w, A \ {x})
<1> DEFINE v == [x \in A |-> w[x]]
<1>1. v \in [A -> Int] /\ \A x \in A : w[x] = v[x]
  OBVIOUS
<1>2. PICK G \in [SUBSET A -> Int] : AddsUp(G, v, A)
  <2> HIDE DEF v
  <2> QED BY <1>1, SumExists
<1> HIDE DEF v
<1>3. ASSUME NEW B \in SUBSET A PROVE SumFunctionOnSet(w, B) = G[B]
  <2>1. IsFiniteSet(B)
    BY FS_Subset
  <2> DEFINE u == [x \in B |-> w[x]]
  <2>2. u \in [B -> Int] /\ \A x \in B : w[x] = u[x]
    BY <1>1
  <2>3. PICK K \in [SUBSET B -> Int] : AddsUp(K, u, B)
    <3> HIDE DEF u
    <3> QED BY <2>1, <2>2, SumExists
  <2>4. AddsUp(K, w, B)
    <3>1. ASSUME NEW s \in SUBSET B, s # {} PROVE u[Some(s)] = w[Some(s)]
      <4>1. Some(s) \in s
        BY <3>1 DEF Some
      <4> QED BY <4>1
    <3> HIDE DEF u
    <3> QED BY <2>3, <3>1 DEF AddsUp
  <2>5. PICK H : H = (CHOOSE I : AddsUp(I, w, B)) /\ SumFunctionOnSet(w, B) = H[B]
    BY SumIsChosen
  <2>6. AddsUp(H, w, B)
    BY <2>4, <2>5
  <2>7. \A s \in SUBSET B : G[s] = H[s]
    BY <1>1, <1>2, <2>6, SumUnique
  <2> QED BY <2>5, <2>7
<1>4. G[{}] = 0
  BY <1>2 DEF AddsUp
<1>5. ASSUME NEW x \in A PROVE G[A] = v[x] + G[A \ {x}]
  <2>1. TakesOut(G, v, A)
    <3>1. v \in [A -> Int] /\ AddsUp(G, v, A) /\ G \in [SUBSET A -> Int]
      BY <1>1, <1>2
    <3> HIDE DEF v
    <3> QED BY <3>1, AnyOrder
  <2> QED BY <2>1 DEF TakesOut
<1>6. SumFunctionOnSet(w, {}) = 0
  BY <1>3, <1>4
<1>7. SumFunctionOnSet(w, A) = G[A] /\ G[A] \in Int
  BY <1>3
<1>8. ASSUME NEW x \in A PROVE SumFunctionOnSet(w, A \ {x}) = G[A \ {x}]
  BY <1>3
<1> QED
  BY <1>1, <1>5, <1>6, <1>7, <1>8

\* A sum depends on the values over the set only.
LEMMA SumSame ==
  ASSUME NEW A, IsFiniteSet(A), NEW w, NEW v, \A x \in A : w[x] \in Int /\ w[x] = v[x]
  PROVE  SumFunctionOnSet(w, A) = SumFunctionOnSet(v, A)
<1> DEFINE S(B) == SumFunctionOnSet(w, B)
           R(B) == SumFunctionOnSet(v, B)
           T == {B \in SUBSET A : S(B) # R(B)}
<1> SUFFICES ASSUME T # {} PROVE FALSE
  OBVIOUS
<1>1. PICK B \in T : \A D \in T : D \subseteq B => D = B
  <2>2. T \in SUBSET SUBSET A
    OBVIOUS
  <2> HIDE DEF T
  <2> QED BY <2>2, SmallestSet
<1>2. IsFiniteSet(B) /\ B \in SUBSET A
  BY FS_Subset
<1>3. B # {}
  <2>1. S({}) = 0
    BY FS_EmptySet, SumOf
  <2>2. R({}) = 0
    BY FS_EmptySet, SumOf
  <2> QED BY <1>1, <2>1, <2>2
<1>4. PICK x \in B : TRUE
  BY <1>3
<1>5. S(B) = w[x] + S(B \ {x})
  <2> HIDE DEF T
  <2> QED BY <1>2, SumOf
<1>6. R(B) = v[x] + R(B \ {x})
  <2> HIDE DEF T
  <2> QED BY <1>2, SumOf
<1>7. S(B \ {x}) = R(B \ {x})
  BY <1>1, <1>2
<1> QED
  BY <1>1, <1>2, <1>5, <1>6, <1>7

------------------------------------------------------------------------------
(* Arithmetic, largest and smallest.                                       *)

\* What the quotient of the code's integer division is.
LEMMA Division ==
  ASSUME NEW a \in Int, NEW c \in Int, c > 0
  PROVE  a \div c \in Int /\ c * (a \div c) <= a /\ a < c * (a \div c) + c
  OBVIOUS

\* Larger numbers have larger quotients.
LEMMA DivisionIsMonotonic ==
  ASSUME NEW a \in Nat, NEW b \in Nat, NEW c \in Nat \ {0}, a <= b
  PROVE  a \div c \in Nat /\ a \div c <= b \div c
<1>1. /\ a \div c \in Int /\ c * (a \div c) <= a /\ a < c * (a \div c) + c
      /\ b \div c \in Int /\ c * (b \div c) <= b /\ b < c * (b \div c) + c
  BY Division
<1>4. \A x, y \in Int : x >= y + 1 => c * x >= c * y + c
  OBVIOUS
<1>5. \A x \in Int : x <= -1 => c * x <= -c
  OBVIOUS
<1>6. \A x \in Int : c * x \in Int
  OBVIOUS
<1> DEFINE q == a \div c
           r == b \div c
           cq == c * q
           cr == c * r
<1>8. q >= r + 1 => cq >= cr + c
  BY <1>4, <1>1
<1>9. q <= -1 => cq <= -c
  BY <1>5, <1>1
<1>10. q \in Int /\ r \in Int /\ cq \in Int /\ cr \in Int
  BY <1>1, <1>6
<1>7. cq <= a /\ a < cq + c /\ cr <= b /\ b < cr + c
  BY <1>1
<1> HIDE DEF q, r, cq, cr
<1>11. q <= r /\ q \in Nat
  BY <1>7, <1>8, <1>9, <1>10
<1> QED
  BY <1>11 DEF q, r

\* Sums again.
LEMMA SumNat ==
  ASSUME NEW A, IsFiniteSet(A), NEW w, \A x \in A : w[x] \in Nat
  PROVE  SumFunctionOnSet(w, A) \in Nat
<1> DEFINE S(B) == SumFunctionOnSet(w, B)
           T == {B \in SUBSET A : S(B) \notin Nat}
<1> SUFFICES ASSUME T # {} PROVE FALSE
  OBVIOUS
<1>1. PICK B \in T : \A D \in T : D \subseteq B => D = B
  <2>2. T \in SUBSET SUBSET A
    OBVIOUS
  <2> HIDE DEF T
  <2> QED BY <2>2, SmallestSet
<1>2. IsFiniteSet(B) /\ B \in SUBSET A
  BY FS_Subset
<1>3. B # {}
  <2>1. S({}) = 0
    BY FS_EmptySet, SumOf
  <2>2. SUFFICES ASSUME B = {} PROVE FALSE
    OBVIOUS
  <2>3. S({}) \notin Nat
    BY <1>1, <2>2
  <2> QED BY <2>1, <2>3
<1>4. PICK x \in B : TRUE
  BY <1>3
<1>5. S(B) = w[x] + S(B \ {x})
  <2> HIDE DEF T
  <2> QED BY <1>2, SumOf
<1>7. S(B \ {x}) \in Nat
  BY <1>1, <1>2
<1> QED
  BY <1>1, <1>2, <1>4, <1>5, <1>7

\* One value changes by d.
Changed(w, i, d) == [w EXCEPT ![i] = @ + d]

\* A sum after one of the values has changed.
LEMMA SumChanged ==
  ASSUME NEW A, IsFiniteSet(A), NEW w \in [A -> Int], NEW i \in A, NEW d \in Int
  PROVE  SumFunction(Changed(w, i, d)) = SumFunction(w) + d
<1> DEFINE v == [w EXCEPT ![i] = @ + d]
           B == A \ {i}
           X == SumFunctionOnSet(w, B)
           Y == SumFunctionOnSet(v, B)
<1>0. v \in [A -> Int] /\ v[i] = w[i] + d /\ \A x \in B : v[x] = w[x] /\ w[x] \in Int
  OBVIOUS
<1>1. IsFiniteSet(B)
  BY FS_Subset
<1>2. X \in Int
  <2> HIDE DEF B
  <2> QED BY <1>0, <1>1, SumOf
<1>3. X = Y
  <2> HIDE DEF B, v
  <2> QED BY <1>0, <1>1, SumSame
<1>4. SumFunctionOnSet(w, A) = w[i] + X
  BY SumOf
<1>5. SumFunctionOnSet(v, A) = v[i] + Y
  <2>1. \A x \in A : v[x] \in Int
    BY <1>0
  <2> HIDE DEF v
  <2> QED BY <2>1, SumOf, ZenonT(40)
<1>6. SumFunction(w) = SumFunctionOnSet(w, A) /\ SumFunction(v) = SumFunctionOnSet(v, A)
  BY <1>0 DEF SumFunction
<1>7. w[i] \in Int
  OBVIOUS
<1> HIDE DEF v, X, Y
<1>8. SumFunction(v) = (w[i] + d) + X /\ SumFunction(w) = w[i] + X
  BY <1>0, <1>3, <1>4, <1>5, <1>6
<1>9. SumFunction(v) = SumFunction(w) + d
  BY <1>8, <1>7, <1>2
<1> QED BY <1>9 DEF v, Changed

\* A finite set of integers has a largest and a smallest element.
LEMMA MaxOf ==
  ASSUME NEW S, IsFiniteSet(S), \A x \in S : x \in Int, S # {}
  PROVE  Max(S) \in S /\ \A y \in S : Max(S) >= y
<1>1. \E x \in S : \A y \in S : x >= y
  <2> DEFINE T == {B \in SUBSET S : B # {} /\ ~ \E x \in B : \A y \in B : x >= y}
  <2> SUFFICES ASSUME T # {} PROVE FALSE
    OBVIOUS
  <2>1. PICK B \in T : \A D \in T : D \subseteq B => D = B
    <3>2. T \in SUBSET SUBSET S
      OBVIOUS
    <3>3. \E x \in T : \A y \in T : y \subseteq x => y = x
      <4> HIDE DEF T
      <4> QED BY <3>2, SmallestSet
    <3> HIDE DEF T
    <3> QED BY <3>3
  <2>2. PICK z \in B : TRUE
    BY <2>1
  <2>3. B \ {z} # {}
    BY <2>1, <2>2
  <2>4. PICK x \in B \ {z} : \A y \in B \ {z} : x >= y
    <3>1. B \ {z} \notin T
      <4> HIDE DEF T
      <4> QED BY <2>1, <2>2
    <3>2. B \ {z} \in SUBSET S
      BY <2>1
    <3> QED BY <2>3, <3>1, <3>2
  <2> QED
    BY <2>1, <2>2, <2>4
<1> QED
  BY <1>1 DEF Max

\* Min of the community modules, over numbers.
LEMMA MinOf ==
  ASSUME NEW S \in SUBSET Nat, S # {}
  PROVE  Min(S) \in S /\ \A y \in S : Min(S) <= y
<1>1. \E x \in S : \A y \in S : x <= y
  BY LeastNat
<1> QED
  BY <1>1 DEF Min

------------------------------------------------------------------------------
(* The values of heap.                                                     *)

\* Values of the variable heap, but for the sign of the byte counts.
Heap == [index : [Addr -> 0 .. IsHeader],
         hdr : [Addr -> [sz : Nat, free : BOOLEAN, prev : Addr, next : Addr]],
         fl : [Lists -> Addr], free_bytes : [Lists -> Int]]

\* The memory is finite, and no place of it is the null pointer.
LEMMA MemoryFinite ==
  IsFiniteSet(Memory) /\ Memory \subseteq Addr \ {Null} /\ Memory # {}
    /\ Addr \subseteq Nat /\ Null \in Addr /\ \A a \in Memory : a + 1 \in Addr /\ a - 1 \in Addr
<1>1. ASSUME NEW s \in Sections
      PROVE  IsFiniteSet(SectionBlocks(s)) /\ SectionBlocks(s) \subseteq Nat \ {0} /\ s[1] \in SectionBlocks(s)
  <2>1. s[1] \in Nat \ {0} /\ s[2] \in Nat \ {0}
    BY ConstantsAssumption
  <2>2. IsFiniteSet(s[1] .. s[1] + s[2] - 1)
    <3>1. \A a, b \in Int : IsFiniteSet(a .. b)
      BY FS_Interval
    <3> QED BY <2>1, <3>1, s[1] \in Int, s[1] + s[2] - 1 \in Int
  <2> QED BY <2>1, <2>2 DEF SectionBlocks
<1>2. IsFiniteSet(Memory)
  <2> DEFINE All == {SectionBlocks(s) : s \in Sections}
  <2>1. IsFiniteSet(All)
    <3> DEFINE f == [s \in Sections |-> SectionBlocks(s)]
    <3>1. f \in Surjection(Sections, All)
      BY DEF Surjection
    <3>2. IsFiniteSet(Sections)
      BY ConstantsAssumption
    <3> HIDE DEF f, All
    <3> QED BY <3>1, <3>2, FS_Surjection
  <2>2. \A B \in All : IsFiniteSet(B)
    BY <1>1
  <2>3. IsFiniteSet(UNION All)
    <3> HIDE DEF All
    <3> QED BY <2>1, <2>2, FS_UNION
  <2> QED BY <2>3 DEF Memory
<1>3. Memory \subseteq Nat \ {0} /\ Memory # {}
  BY <1>1, ConstantsAssumption DEF Memory
<1>4. Max(Memory) \in Memory /\ \A y \in Memory : Max(Memory) >= y
  <2>1. \A x \in Memory : x \in Int
    BY <1>3
  <2> QED BY <1>2, <1>3, <2>1, MaxOf
<1> DEFINE top == Max(Memory)
<1>5. top \in Nat \ {0} /\ \A y \in Memory : y \in Nat \ {0} /\ y <= top
  BY <1>3, <1>4
<1>6. Addr = 0 .. top + 1
  BY DEF Addr
<1> HIDE DEF top
<1> QED
  BY <1>2, <1>3, <1>5, <1>6 DEF Null

\* There are finitely many lists.
LEMMA ListsFinite ==
  /\ N_HBLK_FLS \in Nat /\ UNIQUE_THRESHOLD <= N_HBLK_FLS
  /\ IsFiniteSet(Lists) /\ Lists \subseteq Nat /\ 0 \in Lists
<1>1. HUGE_THRESHOLD - UNIQUE_THRESHOLD \in Nat /\ FL_COMPRESSION \in Nat \ {0} /\ UNIQUE_THRESHOLD \in Nat
  BY ConstantsAssumption
<1>2. (HUGE_THRESHOLD - UNIQUE_THRESHOLD) \div FL_COMPRESSION \in Nat
  BY <1>1, DivisionIsMonotonic
<1>3. N_HBLK_FLS \in Nat /\ UNIQUE_THRESHOLD <= N_HBLK_FLS
  BY <1>1, <1>2 DEF N_HBLK_FLS
<1>4. IsFiniteSet(0 .. N_HBLK_FLS)
  BY <1>3, FS_Interval
<1> QED
  BY <1>3, <1>4 DEF Lists

\* The list for a size, which grows with the size; up to UNIQUE_THRESHOLD a list
\* holds one size.
LEMMA ListForSize ==
  ASSUME NEW b \in Nat
  PROVE  /\ GC_hblk_fl_from_blocks(b) \in Lists
         /\ \A c \in Nat : b <= c => GC_hblk_fl_from_blocks(b) <= GC_hblk_fl_from_blocks(c)
         /\ \A c \in Nat : GC_hblk_fl_from_blocks(b) = GC_hblk_fl_from_blocks(c)
                            /\ GC_hblk_fl_from_blocks(b) < UNIQUE_THRESHOLD => b = c
<1> DEFINE U == UNIQUE_THRESHOLD
           C == FL_COMPRESSION
           fl(x) == GC_hblk_fl_from_blocks(x)
<1>1. U \in Nat /\ HUGE_THRESHOLD \in Nat /\ HUGE_THRESHOLD > U /\ C \in Nat \ {0}
  BY ConstantsAssumption
<1>2. N_HBLK_FLS \in Nat /\ U <= N_HBLK_FLS
  BY ListsFinite
<1>3. \A x, y \in Nat : x <= y => x \div C \in Nat /\ x \div C <= y \div C
  BY <1>1, DivisionIsMonotonic
<1>4. ASSUME NEW x \in Nat
      PROVE  fl(x) \in Nat /\ fl(x) <= N_HBLK_FLS /\ (x > U => fl(x) >= U) /\ (x <= U => fl(x) = x)
  <2>1. CASE x <= U
    BY <2>1, <1>2, <1>1 DEF GC_hblk_fl_from_blocks
  <2>2. CASE x >= HUGE_THRESHOLD
    BY <2>2, <1>2, <1>1 DEF GC_hblk_fl_from_blocks
  <2>3. CASE x > U /\ x < HUGE_THRESHOLD
    <3>1. (x - U) \div C \in Nat /\ (x - U) \div C <= (HUGE_THRESHOLD - U) \div C
      BY <1>1, <1>3, <2>3, x - U \in Nat, HUGE_THRESHOLD - U \in Nat
    <3>2. (HUGE_THRESHOLD - U) \div C \in Nat
      BY <1>1, <1>3, HUGE_THRESHOLD - U \in Nat
    <3>3. fl(x) = (x - U) \div C + U
      BY <2>3, <1>1 DEF GC_hblk_fl_from_blocks
    <3> QED
      BY <3>1, <3>2, <3>3, <2>3, <1>1 DEF N_HBLK_FLS
  <2> QED
    BY <2>1, <2>2, <2>3, <1>1
<1>5. ASSUME NEW x \in Nat, NEW y \in Nat, x <= y PROVE fl(x) <= fl(y)
  <2>1. CASE x <= U
    BY <2>1, <1>4, <1>5, <1>1
  <2>2. CASE y >= HUGE_THRESHOLD /\ x > U
    <3>1. fl(y) = N_HBLK_FLS
      BY <2>2, <1>1 DEF GC_hblk_fl_from_blocks
    <3> QED BY <3>1, <1>4
  <2>3. CASE x > U /\ y < HUGE_THRESHOLD
    <3>1. (x - U) \div C \in Nat /\ (x - U) \div C <= (y - U) \div C
      BY <1>1, <1>3, <1>5, <2>3, x - U \in Nat, y - U \in Nat
    <3>2. (y - U) \div C \in Nat
      BY <1>1, <1>3, <1>5, <2>3, y - U \in Nat
    <3>3. fl(x) = (x - U) \div C + U /\ fl(y) = (y - U) \div C + U
      BY <2>3, <1>1, <1>5 DEF GC_hblk_fl_from_blocks
    <3> QED
      BY <3>1, <3>2, <3>3, <1>1
  <2> QED
    BY <2>1, <2>2, <2>3, <1>1, <1>5
<1>6. ASSUME NEW c \in Nat, fl(b) = fl(c), fl(b) < U PROVE b = c
  BY <1>4, <1>6, <1>1
<1> QED
  BY <1>4, <1>5, <1>6, <1>2 DEF Lists

\* What a record update of the heap leaves alone.
Hdr == [sz : Nat, free : BOOLEAN, prev : Addr, next : Addr]

\* Setting the headers leaves the rest of the heap alone.
LEMMA HdrSet ==
  ASSUME NEW f \in Heap, NEW H \in [Addr -> Hdr]
  PROVE  LET g == [f EXCEPT !.hdr = H] IN
         g \in Heap /\ g.hdr = H /\ g.index = f.index /\ g.fl = f.fl /\ g.free_bytes = f.free_bytes
BY DEF Heap, Hdr

\* Setting the header table leaves the rest alone.
LEMMA IndexSet ==
  ASSUME NEW f \in Heap, NEW X \in [Addr -> 0 .. IsHeader]
  PROVE  LET g == [f EXCEPT !.index = X] IN
         g \in Heap /\ g.hdr = f.hdr /\ g.index = X /\ g.fl = f.fl /\ g.free_bytes = f.free_bytes
BY DEF Heap

\* Setting the starts of the lists leaves the rest alone.
LEMMA FlSet ==
  ASSUME NEW f \in Heap, NEW L \in [Lists -> Addr]
  PROVE  LET g == [f EXCEPT !.fl = L] IN
         g \in Heap /\ g.hdr = f.hdr /\ g.index = f.index /\ g.fl = L /\ g.free_bytes = f.free_bytes
BY DEF Heap

\* Setting the byte counts leaves the rest alone.
LEMMA BytesSet ==
  ASSUME NEW f \in Heap, NEW B \in [Lists -> Int]
  PROVE  LET g == [f EXCEPT !.free_bytes = B] IN
         g \in Heap /\ g.hdr = f.hdr /\ g.index = f.index /\ g.fl = f.fl /\ g.free_bytes = B
BY DEF Heap

\* The fields of a heap.
LEMMA HeapFields ==
  ASSUME NEW f \in Heap
  PROVE  /\ f.index \in [Addr -> 0 .. IsHeader] /\ f.hdr \in [Addr -> Hdr]
         /\ f.fl \in [Lists -> Addr] /\ f.free_bytes \in [Lists -> Int]
         /\ \A x \in Addr : /\ f.hdr[x].sz \in Nat /\ f.hdr[x].free \in BOOLEAN
                            /\ f.hdr[x].prev \in Addr /\ f.hdr[x].next \in Addr
BY DEF Heap, Hdr

------------------------------------------------------------------------------
(* What linking and unlinking set.                                         *)

\* f and g agree on everything about the headers but the links of the lists.
SameBlocks(f, g) ==
  /\ g.index = f.index
  /\ \A x \in Addr : g.hdr[x].sz = f.hdr[x].sz /\ g.hdr[x].free = f.hdr[x].free

SizesOf(f) == [h \in Addr |-> f.hdr[h].sz]
Bytes(f, S) == SumFunctionOnSet(SizesOf(f), S)

\* The links of list i are those of a list of the blocks S: following next from
\* its start one gets to all of them.
Linked(f, i, S) ==
  /\ f.fl[i] \in S \cup {Null}
  /\ \A h \in S :
       /\ f.hdr[h].prev = Null <=> f.fl[i] = h
       /\ f.hdr[h].prev # Null => f.hdr[h].prev \in S /\ f.hdr[f.hdr[h].prev].next = h
       /\ f.hdr[h].next # Null => f.hdr[h].next \in S /\ f.hdr[f.hdr[h].next].prev = h
  /\ \A C \in SUBSET Addr :
       f.fl[i] \in C \cup {Null} /\ (\A h \in S \cap C : f.hdr[h].next \in C \cup {Null}) => S \subseteq C

Chain(f, i, S) == Linked(f, i, S) /\ f.free_bytes[i] = Bytes(f, S)

\* M[i] are the blocks on list i.
Chains(f, M) ==
  /\ M \in [Lists -> SUBSET Memory]
  /\ \A i, j \in Lists : i # j => M[i] \cap M[j] = {}
  /\ \A i \in Lists : Chain(f, i, M[i])

\* The bytes on a list of the blocks S.
LEMMA BytesAre ==
  ASSUME NEW f \in Heap, NEW S \in SUBSET Memory
  PROVE  /\ IsFiniteSet(S) /\ Bytes(f, S) \in Nat
         /\ \A h \in S : Bytes(f, S) = f.hdr[h].sz + Bytes(f, S \ {h})
         /\ \A g \in Heap : (\A h \in S : g.hdr[h].sz = f.hdr[h].sz) => Bytes(g, S) = Bytes(f, S)
<1>1. IsFiniteSet(S) /\ S \subseteq Addr
  BY MemoryFinite, FS_Subset
<1>2. ASSUME NEW g \in Heap PROVE \A h \in S : SizesOf(g)[h] = g.hdr[h].sz /\ SizesOf(g)[h] \in Nat
  BY <1>1 DEF SizesOf, Heap
<1>3. /\ SumFunctionOnSet(SizesOf(f), S) \in Nat
      /\ \A h \in S : SumFunctionOnSet(SizesOf(f), S) = SizesOf(f)[h] + SumFunctionOnSet(SizesOf(f), S \ {h})
  <2> DEFINE w == SizesOf(f)
  <2>1. \A h \in S : w[h] \in Nat /\ w[h] \in Int
    BY <1>2
  <2> HIDE DEF w
  <2>2. SumFunctionOnSet(w, S) \in Nat
    BY <1>1, <2>1, SumNat
  <2>3. \A h \in S : SumFunctionOnSet(w, S) = w[h] + SumFunctionOnSet(w, S \ {h})
    BY <1>1, <2>1, SumOf
  <2> QED BY <2>2, <2>3 DEF w
<1>4. ASSUME NEW g \in Heap, \A h \in S : g.hdr[h].sz = f.hdr[h].sz
      PROVE  Bytes(g, S) = Bytes(f, S)
  <2> DEFINE w == SizesOf(f)
             v == SizesOf(g)
  <2>1. \A h \in S : w[h] \in Int /\ w[h] = v[h]
    BY <1>2, <1>4
  <2> HIDE DEF w, v
  <2>2. SumFunctionOnSet(w, S) = SumFunctionOnSet(v, S)
    BY <1>1, <2>1, SumSame
  <2> QED BY <2>2 DEF w, v, Bytes
<1> QED
  BY <1>1, <1>2, <1>3, <1>4 DEF Bytes

\* A list is left alone by what happens to other blocks.
LEMMA ChainFrame ==
  ASSUME NEW f \in Heap, NEW g \in Heap, NEW i \in Lists, NEW S \in SUBSET Memory, Chain(f, i, S),
         g.fl[i] = f.fl[i], g.free_bytes[i] = f.free_bytes[i],
         \A h \in S : /\ g.hdr[h].sz = f.hdr[h].sz
                      /\ g.hdr[h].prev = f.hdr[h].prev /\ g.hdr[h].next = f.hdr[h].next
  PROVE  Chain(g, i, S)
<1>1. Bytes(g, S) = Bytes(f, S)
  BY BytesAre
<1>2. Linked(f, i, S)
  BY DEF Chain
<1>3. \A h \in S :
       /\ g.hdr[h].prev = Null <=> g.fl[i] = h
       /\ g.hdr[h].prev # Null => g.hdr[h].prev \in S /\ g.hdr[g.hdr[h].prev].next = h
       /\ g.hdr[h].next # Null => g.hdr[h].next \in S /\ g.hdr[g.hdr[h].next].prev = h
  BY <1>2 DEF Linked
<1>4. ASSUME NEW C \in SUBSET Addr, g.fl[i] \in C \cup {Null},
             \A h \in S \cap C : g.hdr[h].next \in C \cup {Null}
      PROVE  S \subseteq C
  BY <1>2, <1>4 DEF Linked
<1>5. Linked(g, i, S)
  BY <1>2, <1>3, <1>4 DEF Linked
<1> QED
  BY <1>1, <1>5 DEF Chain

\* The links.
LEMMA LinkNextSets ==
  ASSUME NEW f \in Heap, NEW i \in Lists, NEW a \in Addr, NEW b \in Addr
  PROVE  LET g == LinkNext(f, i, a, b)
         IN /\ g \in Heap /\ SameBlocks(f, g) /\ g.free_bytes = f.free_bytes
            /\ g.fl = [f.fl EXCEPT ![i] = IF a = Null THEN b ELSE @]
            /\ \A x \in Addr : /\ g.hdr[x].next = IF a # Null /\ x = a THEN b ELSE f.hdr[x].next
                               /\ g.hdr[x].prev = f.hdr[x].prev
<1>1. CASE a = Null
  BY <1>1 DEF LinkNext, Heap, SameBlocks
<1>2. CASE a # Null
  <2> DEFINE H == [f.hdr EXCEPT ![a] = [@ EXCEPT !.next = b]]
             g == [f EXCEPT !.hdr = H]
  <2>0. H \in [Addr -> Hdr]
    BY DEF Heap, Hdr
  <2>1. g \in Heap /\ g.index = f.index /\ g.free_bytes = f.free_bytes /\ g.fl = f.fl /\ g.hdr = H
    <3> HIDE DEF H
    <3> QED BY <2>0, HdrSet
  <2>2. g.hdr = [f.hdr EXCEPT ![a] = [@ EXCEPT !.next = b]]
    BY <2>1
  <2>3. ASSUME NEW x \in Addr
        PROVE  /\ g.hdr[x].next = IF x = a THEN b ELSE f.hdr[x].next
               /\ g.hdr[x].prev = f.hdr[x].prev
               /\ g.hdr[x].sz = f.hdr[x].sz /\ g.hdr[x].free = f.hdr[x].free
    <3> HIDE DEF g
    <3> QED BY <2>2 DEF Heap
  <2>4. f.fl = [f.fl EXCEPT ![i] = IF a = Null THEN b ELSE @]
    BY <1>2 DEF Heap
  <2>5. g = LinkNext(f, i, a, b)
    BY <1>2 DEF LinkNext
  <2> HIDE DEF g
  <2> QED BY <1>2, <2>1, <2>3, <2>4, <2>5 DEF SameBlocks
<1> QED BY <1>1, <1>2

\* What LinkPrev sets.
LEMMA LinkPrevSets ==
  ASSUME NEW f \in Heap, NEW a \in Addr, NEW b \in Addr
  PROVE  LET g == LinkPrev(f, a, b)
         IN /\ g \in Heap /\ SameBlocks(f, g) /\ g.free_bytes = f.free_bytes /\ g.fl = f.fl
            /\ \A x \in Addr : /\ g.hdr[x].next = f.hdr[x].next
                               /\ g.hdr[x].prev = IF b # Null /\ x = b THEN a ELSE f.hdr[x].prev
<1>1. CASE b = Null
  BY <1>1 DEF LinkPrev, Heap, SameBlocks
<1>2. CASE b # Null
  <2> DEFINE H == [f.hdr EXCEPT ![b] = [@ EXCEPT !.prev = a]]
             g == [f EXCEPT !.hdr = H]
  <2>0. H \in [Addr -> Hdr]
    BY DEF Heap, Hdr
  <2>1. g \in Heap /\ g.index = f.index /\ g.free_bytes = f.free_bytes /\ g.fl = f.fl /\ g.hdr = H
    <3> HIDE DEF H
    <3> QED BY <2>0, HdrSet
  <2>2. g.hdr = [f.hdr EXCEPT ![b] = [@ EXCEPT !.prev = a]]
    BY <2>1
  <2>3. ASSUME NEW x \in Addr
        PROVE  /\ g.hdr[x].prev = IF x = b THEN a ELSE f.hdr[x].prev
               /\ g.hdr[x].next = f.hdr[x].next
               /\ g.hdr[x].sz = f.hdr[x].sz /\ g.hdr[x].free = f.hdr[x].free
    <3> HIDE DEF g
    <3> QED BY <2>2 DEF Heap
  <2>5. g = LinkPrev(f, a, b)
    BY <1>2 DEF LinkPrev
  <2> HIDE DEF g
  <2> QED BY <1>2, <2>1, <2>3, <2>5 DEF SameBlocks
<1> QED BY <1>1, <1>2

\* GC_remove_from_fl.
LEMMA RemoveSets ==
  ASSUME NEW f \in Heap, NEW h \in Addr, NEW i \in Lists
  PROVE  LET g == GC_remove_from_fl(f, h, i)
             p == f.hdr[h].prev
             q == f.hdr[h].next
         IN /\ g \in Heap /\ SameBlocks(f, g)
            /\ g.fl = [f.fl EXCEPT ![i] = IF p = Null THEN q ELSE @]
            /\ g.free_bytes = [f.free_bytes EXCEPT ![i] = @ - f.hdr[h].sz]
            /\ \A x \in Addr : /\ g.hdr[x].next = IF p # Null /\ x = p THEN q ELSE f.hdr[x].next
                               /\ g.hdr[x].prev = IF q # Null /\ x = q THEN p ELSE f.hdr[x].prev
<1> DEFINE p == f.hdr[h].prev
           q == f.hdr[h].next
           u == LinkNext(f, i, p, q)
           c == [u EXCEPT !.free_bytes[i] = @ - f.hdr[h].sz]
           g == LinkPrev(c, p, q)
<1>1. p \in Addr /\ q \in Addr /\ f.hdr[h].sz \in Nat
  BY DEF Heap
<1>2. g = GC_remove_from_fl(f, h, i)
  BY DEF GC_remove_from_fl
<1> SUFFICES
    /\ g \in Heap /\ SameBlocks(f, g)
    /\ g.fl = [f.fl EXCEPT ![i] = IF p = Null THEN q ELSE @]
    /\ g.free_bytes = [f.free_bytes EXCEPT ![i] = @ - f.hdr[h].sz]
    /\ \A x \in Addr : /\ g.hdr[x].next = IF p # Null /\ x = p THEN q ELSE f.hdr[x].next
                       /\ g.hdr[x].prev = IF q # Null /\ x = q THEN p ELSE f.hdr[x].prev
  <2> HIDE DEF g
  <2> QED BY <1>2
<1> HIDE DEF p, q
<1>3. /\ u \in Heap /\ SameBlocks(f, u) /\ u.free_bytes = f.free_bytes
      /\ u.fl = [f.fl EXCEPT ![i] = IF p = Null THEN q ELSE @]
      /\ \A x \in Addr : /\ u.hdr[x].next = IF p # Null /\ x = p THEN q ELSE f.hdr[x].next
                         /\ u.hdr[x].prev = f.hdr[x].prev
  BY <1>1, LinkNextSets
<1> HIDE DEF u
<1>4. /\ c \in Heap /\ c.index = u.index /\ c.hdr = u.hdr /\ c.fl = u.fl
      /\ c.free_bytes = [u.free_bytes EXCEPT ![i] = @ - f.hdr[h].sz]
  <2>1. [u.free_bytes EXCEPT ![i] = @ - f.hdr[h].sz] \in [Lists -> Int]
    BY <1>1, <1>3, HeapFields
  <2>2. c = [u EXCEPT !.free_bytes = [u.free_bytes EXCEPT ![i] = @ - f.hdr[h].sz]]
    OBVIOUS
  <2> HIDE DEF c
  <2> QED BY <1>3, <2>1, <2>2, BytesSet, ZenonT(40)
<1> HIDE DEF c
<1>5. /\ g \in Heap /\ SameBlocks(c, g) /\ g.free_bytes = c.free_bytes /\ g.fl = c.fl
      /\ \A x \in Addr : /\ g.hdr[x].next = c.hdr[x].next
                         /\ g.hdr[x].prev = IF q # Null /\ x = q THEN p ELSE c.hdr[x].prev
  <2>1. c \in Heap
    BY <1>4
  <2> QED BY <2>1, <1>1, LinkPrevSets
<1> HIDE DEF g
<1> QED
  BY <1>3, <1>4, <1>5 DEF SameBlocks

\* GC_add_to_fl: h becomes the first block of the list for its size.
AddedTo(f, g, h) ==
  LET i == ListOf(f, h)
      q == f.fl[i]
  IN /\ i \in Lists /\ g \in Heap /\ g.index = f.index
     /\ g.fl = [f.fl EXCEPT ![i] = h]
     /\ g.free_bytes = [f.free_bytes EXCEPT ![i] = @ + f.hdr[h].sz]
     /\ \A x \in Addr : /\ g.hdr[x].sz = f.hdr[x].sz
                        /\ g.hdr[x].free = IF x = h THEN TRUE ELSE f.hdr[x].free
                        /\ g.hdr[x].next = IF x = h THEN q ELSE f.hdr[x].next
                        /\ g.hdr[x].prev = IF x = h THEN Null
                                           ELSE IF q # Null /\ x = q THEN h ELSE f.hdr[x].prev

\* What GC_add_to_fl sets.
LEMMA AddSets ==
  ASSUME NEW f \in Heap, NEW h \in Addr, f.fl[ListOf(f, h)] # h
  PROVE  AddedTo(f, GC_add_to_fl(f, h), h)
<1> DEFINE i == ListOf(f, h)
           q == f.fl[i]
           u == [f EXCEPT !.fl[i] = h, !.free_bytes[i] = @ + f.hdr[h].sz,
                          !.hdr[h] = [@ EXCEPT !.free = TRUE, !.prev = Null, !.next = q]]
           g == LinkPrev(u, h, q)
<1>1. i \in Lists /\ f.hdr[h].sz \in Nat
  BY ListForSize DEF ListOf, Heap
<1>2. q \in Addr /\ Null \in Addr
  <2> HIDE DEF i
  <2> QED BY <1>1, MemoryFinite DEF Heap
<1>3. g = GC_add_to_fl(f, h)
  BY DEF GC_add_to_fl
<1> SUFFICES
           /\ g \in Heap /\ g.index = f.index
           /\ g.fl = [f.fl EXCEPT ![i] = h]
           /\ g.free_bytes = [f.free_bytes EXCEPT ![i] = @ + f.hdr[h].sz]
           /\ \A x \in Addr : /\ g.hdr[x].sz = f.hdr[x].sz
                              /\ g.hdr[x].free = IF x = h THEN TRUE ELSE f.hdr[x].free
                              /\ g.hdr[x].next = IF x = h THEN q ELSE f.hdr[x].next
                              /\ g.hdr[x].prev = IF x = h THEN Null
                                                 ELSE IF q # Null /\ x = q THEN h ELSE f.hdr[x].prev
  <2> HIDE DEF g
  <2> QED BY <1>1, <1>3 DEF AddedTo
<1>0. q # h
  OBVIOUS
<1> HIDE DEF i, q
<1> DEFINE H == [f.hdr EXCEPT ![h] = [@ EXCEPT !.free = TRUE, !.prev = Null, !.next = q]]
<1>4. H \in [Addr -> [sz : Nat, free : BOOLEAN, prev : Addr, next : Addr]]
  BY <1>2 DEF Heap
<1>5. ASSUME NEW x \in Addr
      PROVE  /\ H[x].sz = f.hdr[x].sz
             /\ H[x].free = IF x = h THEN TRUE ELSE f.hdr[x].free
             /\ H[x].next = IF x = h THEN q ELSE f.hdr[x].next
             /\ H[x].prev = IF x = h THEN Null ELSE f.hdr[x].prev
  <2>1. f.hdr \in [Addr -> Hdr]
    BY HeapFields
  <2>2. CASE x = h
    <3>1. H[h] = [f.hdr[h] EXCEPT !.free = TRUE, !.prev = Null, !.next = q] /\ f.hdr[h] \in Hdr
      BY <2>1
    <3> HIDE DEF H
    <3> QED BY <3>1, <2>2 DEF Hdr
  <2>3. CASE x # h
    BY <2>1, <2>3
  <2> QED BY <2>2, <2>3
<1> DEFINE L == [f.fl EXCEPT ![i] = h]
           B == [f.free_bytes EXCEPT ![i] = @ + f.hdr[h].sz]
<1>6. L \in [Lists -> Addr] /\ B \in [Lists -> Int]
  BY <1>1, HeapFields
<1>7. u = [[[f EXCEPT !.fl = L] EXCEPT !.free_bytes = B] EXCEPT !.hdr = H]
  OBVIOUS
<1> HIDE DEF H, L, B, u
<1> DEFINE f1 == [f EXCEPT !.fl = L]
           f2 == [f1 EXCEPT !.free_bytes = B]
<1>8. f1 \in Heap /\ f1.hdr = f.hdr /\ f1.index = f.index /\ f1.fl = L /\ f1.free_bytes = f.free_bytes
  BY <1>6, FlSet
<1> HIDE DEF f1
<1>81. f2 \in Heap /\ f2.hdr = f.hdr /\ f2.index = f.index /\ f2.fl = L /\ f2.free_bytes = B
  BY <1>6, <1>8, BytesSet
<1> HIDE DEF f2
<1>9. u \in Heap /\ u.hdr = H /\ u.index = f.index /\ u.fl = L /\ u.free_bytes = B
  <2>1. H \in [Addr -> Hdr]
    BY <1>4 DEF Hdr
  <2> QED BY <2>1, <1>7, <1>81, HdrSet DEF f1, f2
<1>10. /\ g \in Heap /\ SameBlocks(u, g) /\ g.free_bytes = u.free_bytes /\ g.fl = u.fl
       /\ \A x \in Addr : /\ g.hdr[x].next = u.hdr[x].next
                          /\ g.hdr[x].prev = IF q # Null /\ x = q THEN h ELSE u.hdr[x].prev
  <2>1. u \in Heap
    BY <1>9
  <2> QED BY <2>1, <1>2, LinkPrevSets
<1> HIDE DEF g
<1> QED
  <2>1. g.fl = L /\ g.free_bytes = B /\ g \in Heap
    BY <1>9, <1>10
  <2>2. g.index = f.index
    BY <1>9, <1>10 DEF SameBlocks
  <2>3. ASSUME NEW x \in Addr
        PROVE  /\ g.hdr[x].sz = f.hdr[x].sz
               /\ g.hdr[x].free = IF x = h THEN TRUE ELSE f.hdr[x].free
               /\ g.hdr[x].next = IF x = h THEN q ELSE f.hdr[x].next
               /\ g.hdr[x].prev = IF x = h THEN Null
                                  ELSE IF q # Null /\ x = q THEN h ELSE f.hdr[x].prev
    <3>1. g.hdr[x].sz = H[x].sz /\ g.hdr[x].free = H[x].free
      BY <1>9, <1>10 DEF SameBlocks
    <3>2. g.hdr[x].next = H[x].next /\ g.hdr[x].prev = IF q # Null /\ x = q THEN h ELSE H[x].prev
      BY <1>9, <1>10
    <3> QED BY <3>1, <3>2, <1>0, <1>5
  <2> QED BY <2>1, <2>2, <2>3 DEF L, B

------------------------------------------------------------------------------
(* A list of blocks, and what taking off and adding make of it.            *)

\* No block of a list is linked to itself: one could not get to it.
LEMMA NoSelfLink ==
  ASSUME NEW f \in Heap, NEW i \in Lists, NEW S \in SUBSET Memory, Linked(f, i, S), NEW h \in S
  PROVE  f.hdr[h].prev # h /\ f.hdr[h].next # h
<1>0. S \subseteq Addr \ {Null}
  BY MemoryFinite
<1> DEFINE C == S \ {h}
<1>1. SUFFICES ASSUME f.hdr[h].next = h \/ f.hdr[h].prev = h PROVE FALSE
  OBVIOUS
<1>2. f.hdr[h].next = h /\ f.hdr[h].prev = h
  BY <1>0, <1>1 DEF Linked
<1>3. f.fl[i] \in C \cup {Null}
  BY <1>0, <1>2 DEF Linked
<1>4. \A x \in S \cap C : f.hdr[x].next \in C \cup {Null}
  BY <1>0, <1>2 DEF Linked
<1>5. C \in SUBSET Addr
  BY <1>0
<1>6. S \subseteq C
  <2> HIDE DEF C
  <2> QED BY <1>3, <1>4, <1>5 DEF Linked
<1> QED
  BY <1>6

\* GC_remove_from_fl takes h out of the list.
LEMMA ChainRemove ==
  ASSUME NEW f \in Heap, NEW i \in Lists, NEW S \in SUBSET Memory, Chain(f, i, S), NEW h \in S
  PROVE  Chain(GC_remove_from_fl(f, h, i), i, S \ {h})
<1> DEFINE g == GC_remove_from_fl(f, h, i)
           p == f.hdr[h].prev
           q == f.hdr[h].next
           R == S \ {h}
<1>0. S \subseteq Addr \ {Null} /\ h \in Addr /\ h # Null
  BY MemoryFinite
<1>1. /\ g \in Heap /\ SameBlocks(f, g)
      /\ g.fl = [f.fl EXCEPT ![i] = IF p = Null THEN q ELSE @]
      /\ g.free_bytes = [f.free_bytes EXCEPT ![i] = @ - f.hdr[h].sz]
      /\ \A x \in Addr : /\ g.hdr[x].next = IF p # Null /\ x = p THEN q ELSE f.hdr[x].next
                         /\ g.hdr[x].prev = IF q # Null /\ x = q THEN p ELSE f.hdr[x].prev
  BY <1>0, RemoveSets
<1>2. Linked(f, i, S) /\ f.free_bytes[i] = Bytes(f, S)
  BY DEF Chain
<1>3. p # h /\ q # h
  BY <1>2, NoSelfLink
<1>4. /\ p = Null <=> f.fl[i] = h
      /\ p # Null => p \in R /\ f.hdr[p].next = h
      /\ q # Null => q \in R /\ f.hdr[q].prev = h
  BY <1>2, <1>3 DEF Linked
<1>5. f.fl \in [Lists -> Addr] /\ f.free_bytes \in [Lists -> Int] /\ f.hdr[h].sz \in Nat
  BY <1>0, HeapFields
<1> HIDE DEF g, p, q
<1>6. g.fl[i] = IF p = Null THEN q ELSE f.fl[i]
  BY <1>1, <1>5
<1>7. g.free_bytes[i] = f.free_bytes[i] - f.hdr[h].sz
  BY <1>1, <1>5
<1>8. Bytes(g, R) = g.free_bytes[i]
  <2>1. Bytes(f, S) = f.hdr[h].sz + Bytes(f, R)
    BY BytesAre
  <2>2. R \in SUBSET Memory /\ R \subseteq Addr
    BY <1>0
  <2>3. \A x \in R : g.hdr[x].sz = f.hdr[x].sz
    BY <1>1, <2>2 DEF SameBlocks
  <2>4. Bytes(g, R) = Bytes(f, R) /\ Bytes(f, R) \in Nat
    <3> HIDE DEF R
    <3>1. \A d \in Heap : (\A x \in R : d.hdr[x].sz = f.hdr[x].sz) => Bytes(d, R) = Bytes(f, R)
      BY <2>2, BytesAre
    <3>2. Bytes(f, R) \in Nat
      BY <2>2, BytesAre
    <3> QED BY <2>3, <3>1, <3>2, <1>1
  <2> QED BY <1>2, <1>5, <1>7, <2>1, <2>4
<1>9. g.fl[i] \in R \cup {Null}
  BY <1>2, <1>4, <1>6 DEF Linked
<1>10. ASSUME NEW x \in R
       PROVE  /\ g.hdr[x].prev = Null <=> g.fl[i] = x
              /\ g.hdr[x].prev # Null => g.hdr[x].prev \in R /\ g.hdr[g.hdr[x].prev].next = x
              /\ g.hdr[x].next # Null => g.hdr[x].next \in R /\ g.hdr[g.hdr[x].next].prev = x
  <2>1. /\ x \in S /\ x # h /\ x \in Addr /\ x # Null
        /\ f.hdr[x].prev = Null <=> f.fl[i] = x
        /\ f.hdr[x].prev # Null => f.hdr[x].prev \in S /\ f.hdr[f.hdr[x].prev].next = x
        /\ f.hdr[x].next # Null => f.hdr[x].next \in S /\ f.hdr[f.hdr[x].next].prev = x
    BY <1>0, <1>2 DEF Linked
  <2>2. p \in Addr /\ q \in Addr
    BY <1>0, HeapFields DEF p, q
  <2>3. g.hdr[x].prev = Null <=> g.fl[i] = x
    <3>1. CASE x = q
      <4>1. g.hdr[x].prev = p
        BY <3>1, <1>1, <2>1
      <4> QED BY <3>1, <4>1, <1>0, <1>4, <1>6, <2>1
    <3>2. CASE x # q
      <4>1. g.hdr[x].prev = f.hdr[x].prev
        BY <3>2, <1>1, <2>1
      <4> QED BY <3>2, <4>1, <1>4, <1>6, <2>1
    <3> QED BY <3>1, <3>2
  <2>4. ASSUME g.hdr[x].prev # Null PROVE g.hdr[x].prev \in R /\ g.hdr[g.hdr[x].prev].next = x
    <3>1. CASE x = q
      BY <3>1, <2>4, <2>2, <1>1, <1>4, <2>1
    <3>2. CASE x # q
      <4>1. g.hdr[x].prev = f.hdr[x].prev
        BY <3>2, <2>1, <1>1
      <4>2. f.hdr[x].prev # h
        BY <3>2, <2>1, <4>1, <2>4 DEF q
      <4>3. f.hdr[x].prev \in Addr /\ (f.hdr[x].prev = p => p = Null)
        BY <2>1, <1>4, <1>0, <2>4, <4>1
      <4> QED BY <4>1, <4>2, <4>3, <2>1, <2>4, <1>1
    <3> QED BY <3>1, <3>2
  <2>5. ASSUME g.hdr[x].next # Null PROVE g.hdr[x].next \in R /\ g.hdr[g.hdr[x].next].prev = x
    <3>1. CASE x = p
      BY <3>1, <2>5, <2>2, <1>1, <1>4, <2>1
    <3>2. CASE x # p
      <4>1. g.hdr[x].next = f.hdr[x].next
        BY <3>2, <2>1, <1>1
      <4>2. f.hdr[x].next # h
        BY <3>2, <2>1, <4>1, <2>5 DEF p
      <4>3. f.hdr[x].next \in Addr /\ (f.hdr[x].next = q => q = Null)
        BY <2>1, <1>4, <1>0, <2>5, <4>1
      <4> QED BY <4>1, <4>2, <4>3, <2>1, <2>5, <1>1
    <3> QED BY <3>1, <3>2
  <2> QED BY <2>3, <2>4, <2>5
<1>11. ASSUME NEW C \in SUBSET Addr, g.fl[i] \in C \cup {Null},
              \A x \in R \cap C : g.hdr[x].next \in C \cup {Null}
       PROVE  R \subseteq C
  <2> DEFINE D == IF p = Null \/ p \in C THEN C \cup {h} ELSE C \ {h}
  <2>1. D \in SUBSET Addr
    BY <1>0
  <2>2. f.fl[i] \in D \cup {Null}
    <3>1. CASE p = Null
      BY <3>1, <1>4
    <3>2. CASE p # Null
      BY <3>2, <1>4, <1>6, <1>11
    <3> QED BY <3>1, <3>2
  <2>3. ASSUME NEW x \in S \cap D PROVE f.hdr[x].next \in D \cup {Null}
    <3>0. x \in Addr
      BY <1>0
    <3>1. CASE x = h
      <4>1. p = Null \/ p \in C
        BY <3>1
      <4>2. q \in C \cup {Null}
        <5>1. CASE p = Null
          BY <5>1, <1>6, <1>11
        <5>2. CASE p # Null
          <6>1. p \in R \cap C /\ g.hdr[p].next = q
            BY <5>2, <4>1, <1>4, <1>1, <1>0
          <6> QED BY <6>1, <1>11
        <5> QED BY <5>1, <5>2
      <4> QED BY <3>1, <4>1, <4>2 DEF q
    <3>2. CASE x # h /\ x = p
      BY <3>2, <1>4, <1>0
    <3>3. CASE x # h /\ x # p
      <4>1. x \in R \cap C
        BY <3>3
      <4>2. g.hdr[x].next = f.hdr[x].next
        BY <3>0, <3>3, <1>1
      <4>3. f.hdr[x].next # h
        BY <3>3, <1>0, <1>2 DEF Linked, p
      <4> QED BY <4>1, <4>2, <4>3, <1>11
    <3> QED BY <3>1, <3>2, <3>3
  <2>4. S \subseteq D
    <3> HIDE DEF D
    <3> QED BY <2>1, <2>2, <2>3, <1>2 DEF Linked
  <2> QED BY <2>4
<1>12. Linked(g, i, R)
  BY <1>9, <1>10, <1>11 DEF Linked
<1> QED
  BY <1>12, <1>8 DEF Chain, g

\* GC_add_to_fl puts h at the start of the list for its size.
LEMMA ChainAdd ==
  ASSUME NEW f \in Heap, NEW h \in Memory, NEW S \in SUBSET Memory, h \notin S,
         Chain(f, ListOf(f, h), S)
  PROVE  Chain(GC_add_to_fl(f, h), ListOf(f, h), S \cup {h}) /\ f.fl[ListOf(f, h)] # h
<1> DEFINE g == GC_add_to_fl(f, h)
           i == ListOf(f, h)
           q == f.fl[i]
           R == S \cup {h}
<1>0. S \subseteq Addr \ {Null} /\ h \in Addr /\ h # Null /\ R \subseteq Addr \ {Null} /\ R \in SUBSET Memory
  BY MemoryFinite
<1>1. Linked(f, i, S) /\ f.free_bytes[i] = Bytes(f, S)
  BY DEF Chain
<1>2. q # h /\ q \in S \cup {Null}
  BY <1>0, <1>1 DEF Linked
<1>3. /\ i \in Lists
      /\ g \in Heap
      /\ g.fl = [f.fl EXCEPT ![i] = h]
      /\ g.free_bytes = [f.free_bytes EXCEPT ![i] = @ + f.hdr[h].sz]
      /\ \A x \in Addr : /\ g.hdr[x].sz = f.hdr[x].sz
                         /\ g.hdr[x].next = IF x = h THEN q ELSE f.hdr[x].next
                         /\ g.hdr[x].prev = IF x = h THEN Null
                                            ELSE IF q # Null /\ x = q THEN h ELSE f.hdr[x].prev
  <2>1. h \in Addr /\ q # h
    BY <1>0, <1>2
  <2>2. AddedTo(f, g, h)
    BY <2>1, AddSets
  <2> HIDE DEF g
  <2> QED BY <2>2 DEF AddedTo
<1> HIDE DEF g, i, q
<1>4. f.fl \in [Lists -> Addr] /\ f.free_bytes \in [Lists -> Int] /\ f.hdr[h].sz \in Nat
  BY <1>0, HeapFields
<1>5. g.fl[i] = h /\ g.free_bytes[i] = f.free_bytes[i] + f.hdr[h].sz
  BY <1>3, <1>4
<1>6. Bytes(g, R) = g.free_bytes[i]
  <2>1. \A x \in R : x \in Addr /\ g.hdr[x].sz = f.hdr[x].sz
    BY <1>0, <1>3
  <2>2. /\ \A x \in R : Bytes(f, R) = f.hdr[x].sz + Bytes(f, R \ {x})
        /\ \A d \in Heap : (\A x \in R : d.hdr[x].sz = f.hdr[x].sz) => Bytes(d, R) = Bytes(f, R)
    <3> HIDE DEF R
    <3> QED BY <1>0, BytesAre
  <2>3. Bytes(f, R) = f.hdr[h].sz + Bytes(f, R \ {h}) /\ Bytes(g, R) = Bytes(f, R)
    <3>1. h \in R
      OBVIOUS
    <3> HIDE DEF R
    <3> QED BY <2>1, <2>2, <3>1, <1>3
  <2>4. R \ {h} = S
    OBVIOUS
  <2>5. Bytes(f, S) \in Nat
    BY BytesAre
  <2> QED BY <2>3, <2>4, <2>5, <1>1, <1>4, <1>5
<1>7. ASSUME NEW x \in R
      PROVE  /\ g.hdr[x].prev = Null <=> g.fl[i] = x
             /\ g.hdr[x].prev # Null => g.hdr[x].prev \in R /\ g.hdr[g.hdr[x].prev].next = x
             /\ g.hdr[x].next # Null => g.hdr[x].next \in R /\ g.hdr[g.hdr[x].next].prev = x
  <2>1. CASE x = h
    BY <2>1, <1>0, <1>2, <1>3, <1>5
  <2>2. CASE x # h
    <3>1. /\ x \in S /\ x \in Addr /\ x # Null
          /\ f.hdr[x].prev = Null <=> q = x
          /\ f.hdr[x].prev # Null => f.hdr[x].prev \in S /\ f.hdr[f.hdr[x].prev].next = x
          /\ f.hdr[x].next # Null => f.hdr[x].next \in S /\ f.hdr[f.hdr[x].next].prev = x
      BY <1>0, <1>1, <2>2 DEF Linked, q
    <3>2. g.hdr[x].next = f.hdr[x].next
      BY <3>1, <2>2, <1>3
    <3>3. g.hdr[x].next # Null => g.hdr[x].next \in R /\ g.hdr[g.hdr[x].next].prev = x
      <4>1. SUFFICES ASSUME g.hdr[x].next # Null PROVE g.hdr[g.hdr[x].next].prev = x
        BY <3>1, <3>2
      <4>2. f.hdr[x].next \in S /\ f.hdr[x].next \in Addr /\ f.hdr[f.hdr[x].next].prev = x
        BY <4>1, <3>1, <3>2, <1>0
      <4>3. f.hdr[x].next # q /\ f.hdr[x].next # h
        <5>1. f.hdr[x].next = q => f.hdr[q].prev = Null
          BY <4>2, <1>1 DEF Linked, q
        <5> QED BY <5>1, <4>2, <3>1
      <4> QED BY <3>2, <4>2, <4>3, <1>3
    <3>4. CASE x = q
      BY <3>4, <3>1, <2>2, <3>3, <1>3, <1>5, <1>0
    <3>5. CASE x # q
      <4>1. g.hdr[x].prev = f.hdr[x].prev /\ f.hdr[x].prev # Null
        BY <3>5, <3>1, <2>2, <1>3
      <4>2. f.hdr[x].prev # h /\ f.hdr[x].prev \in Addr
        BY <4>1, <3>1, <1>0
      <4>3. g.hdr[f.hdr[x].prev].next = x
        BY <4>1, <4>2, <3>1, <1>3
      <4> QED BY <4>1, <4>2, <4>3, <3>1, <3>3, <1>5, <2>2
    <3> QED BY <3>4, <3>5
  <2> QED BY <2>1, <2>2
<1>8. ASSUME NEW C \in SUBSET Addr, g.fl[i] \in C \cup {Null},
             \A x \in R \cap C : g.hdr[x].next \in C \cup {Null}
      PROVE  R \subseteq C
  <2>1. h \in C
    BY <1>0, <1>5, <1>8
  <2>2. q \in C \cup {Null}
    BY <2>1, <1>0, <1>3, <1>8
  <2>3. ASSUME NEW x \in S \cap C PROVE f.hdr[x].next \in C \cup {Null}
    <3>1. x # h /\ x \in Addr /\ x \in R \cap C
      BY <1>0
    <3> QED BY <3>1, <1>3, <1>8
  <2>4. S \subseteq C
    BY <2>2, <2>3, <1>1 DEF Linked, q
  <2> QED BY <2>1, <2>4
<1>9. Linked(g, i, R)
  BY <1>5, <1>7, <1>8 DEF Linked
<1> QED
  BY <1>2, <1>6, <1>9 DEF Chain, g, i, q

\* The operations on all lists, and what they do to the number of free bytes.
Total(f) == SumFunction(f.free_bytes)

\* GC_remove_from_fl takes a block off its list; the other lists stay.
LEMMA ChainsRemove ==
  ASSUME NEW f \in Heap, NEW M, Chains(f, M), NEW i \in Lists, NEW h \in M[i]
  PROVE  LET g == GC_remove_from_fl(f, h, i)
         IN /\ Chains(g, [M EXCEPT ![i] = @ \ {h}])
            /\ Total(g) = Total(f) - f.hdr[h].sz
            /\ g \in Heap /\ SameBlocks(f, g)
            /\ \A x \in Addr : x \notin M[i] => g.hdr[x] = f.hdr[x]
<1> DEFINE g == GC_remove_from_fl(f, h, i)
           N == [M EXCEPT ![i] = @ \ {h}]
<1>0. h \in Memory /\ h \in Addr /\ M[i] \in SUBSET Memory /\ M \in [Lists -> SUBSET Memory]
  BY MemoryFinite DEF Chains
<1>1. /\ g \in Heap /\ SameBlocks(f, g)
      /\ g.fl = [f.fl EXCEPT ![i] = IF f.hdr[h].prev = Null THEN f.hdr[h].next ELSE @]
      /\ g.free_bytes = [f.free_bytes EXCEPT ![i] = @ - f.hdr[h].sz]
      /\ \A x \in Addr :
           /\ g.hdr[x].next = IF f.hdr[h].prev # Null /\ x = f.hdr[h].prev THEN f.hdr[h].next ELSE f.hdr[x].next
           /\ g.hdr[x].prev = IF f.hdr[h].next # Null /\ x = f.hdr[h].next THEN f.hdr[h].prev ELSE f.hdr[x].prev
  <2>1. h \in Addr
    BY <1>0
  <2> QED BY <2>1, RemoveSets
<1>2. Chain(f, i, M[i])
  BY DEF Chains
<1>3. Chain(g, i, M[i] \ {h})
  BY <1>0, <1>2, ChainRemove
<1>4. f.fl \in [Lists -> Addr] /\ f.free_bytes \in [Lists -> Int] /\ f.hdr[h].sz \in Nat
  BY <1>0, HeapFields
<1> HIDE DEF g
<1>5. ASSUME NEW j \in Lists, j # i PROVE Chain(g, j, M[j])
  <2>1. Chain(f, j, M[j]) /\ M[j] \in SUBSET Memory /\ M[j] \cap M[i] = {}
    BY <1>0, <1>5 DEF Chains
  <2>2. g.fl[j] = f.fl[j] /\ g.free_bytes[j] = f.free_bytes[j]
    BY <1>1, <1>4, <1>5
  <2>3. /\ f.hdr[h].prev # Null => f.hdr[h].prev \in M[i]
        /\ f.hdr[h].next # Null => f.hdr[h].next \in M[i]
    BY <1>2 DEF Chain, Linked
  <2>4. ASSUME NEW x \in M[j]
        PROVE  /\ g.hdr[x].sz = f.hdr[x].sz
               /\ g.hdr[x].prev = f.hdr[x].prev /\ g.hdr[x].next = f.hdr[x].next
    <3>1. x \in Addr /\ x \notin M[i]
      BY <2>1, MemoryFinite
    <3> QED BY <3>1, <2>3, <1>1 DEF SameBlocks
  <2> QED BY <2>1, <2>2, <2>4, <1>1, ChainFrame
<1>6. N \in [Lists -> SUBSET Memory] /\ N[i] = M[i] \ {h} /\ \A j \in Lists : j # i => N[j] = M[j]
  BY <1>0
<1>7. Chains(g, N)
  <2> HIDE DEF N
  <2>1. \A j, k \in Lists : j # k => N[j] \cap N[k] = {}
    BY <1>6 DEF Chains
  <2>2. \A j \in Lists : Chain(g, j, N[j])
    BY <1>3, <1>5, <1>6
  <2> QED BY <2>1, <2>2, <1>6 DEF Chains
<1>8. Total(g) = Total(f) - f.hdr[h].sz
  <2> DEFINE w == f.free_bytes
             d == - f.hdr[h].sz
  <2>1. g.free_bytes = Changed(w, i, d)
    <3>1. \A x \in Int : x + d = x - f.hdr[h].sz
      BY <1>4
    <3> QED BY <1>1, <1>4, <3>1 DEF Changed
  <2>2. w \in [Lists -> Int] /\ d \in Int /\ IsFiniteSet(Lists)
    BY <1>4, ListsFinite
  <2>4. SumFunction(w) \in Int
    <3>1. \A x \in Lists : w[x] \in Int
      BY <2>2
    <3>2. DOMAIN w = Lists
      BY <2>2
    <3> HIDE DEF w
    <3>3. SumFunctionOnSet(w, Lists) \in Int
      BY <2>2, <3>1, SumOf
    <3> QED BY <3>2, <3>3 DEF SumFunction
  <2> HIDE DEF w, d
  <2>3. SumFunction(Changed(w, i, d)) = SumFunction(w) + d
    BY <2>2, SumChanged
  <2>5. Total(g) = SumFunction(w) + d /\ Total(f) = SumFunction(w)
    BY <2>1, <2>3 DEF Total, w
  <2> QED BY <2>4, <2>5, <1>4 DEF d
<1>9. ASSUME NEW x \in Addr, x \notin M[i] PROVE g.hdr[x] = f.hdr[x]
  <2>1. /\ f.hdr[h].prev # Null => f.hdr[h].prev \in M[i]
        /\ f.hdr[h].next # Null => f.hdr[h].next \in M[i]
    BY <1>2 DEF Chain, Linked
  <2>2. /\ g.hdr[x].next = f.hdr[x].next /\ g.hdr[x].prev = f.hdr[x].prev
        /\ g.hdr[x].sz = f.hdr[x].sz /\ g.hdr[x].free = f.hdr[x].free
    BY <2>1, <1>1, <1>9 DEF SameBlocks
  <2>3. f.hdr[x] \in Hdr /\ g.hdr[x] \in Hdr
    BY <1>1, HeapFields
  <2> QED BY <2>2, <2>3 DEF Hdr
<1> QED
  BY <1>1, <1>7, <1>8, <1>9 DEF g

\* No header outside S changes.
OnlyIn(f, g, S) == \A x \in Addr : x \notin S => g.hdr[x] = f.hdr[x]

\* GC_add_to_fl puts a block on the list for its size; the other lists stay.
LEMMA ChainsAdd ==
  ASSUME NEW f \in Heap, NEW M, Chains(f, M), NEW h \in Memory, \A i \in Lists : h \notin M[i]
  PROVE  LET g == GC_add_to_fl(f, h)
         IN /\ ListOf(f, h) \in Lists
            /\ Chains(g, [M EXCEPT ![ListOf(f, h)] = @ \cup {h}])
            /\ Total(g) = Total(f) + f.hdr[h].sz
            /\ g \in Heap /\ g.index = f.index
            /\ \A x \in Addr : /\ g.hdr[x].sz = f.hdr[x].sz
                               /\ g.hdr[x].free = IF x = h THEN TRUE ELSE f.hdr[x].free
            /\ OnlyIn(f, g, M[ListOf(f, h)] \cup {h})
<1> DEFINE g == GC_add_to_fl(f, h)
           i == ListOf(f, h)
           q == f.fl[i]
           N == [M EXCEPT ![i] = @ \cup {h}]
<1>0. h \in Addr /\ M \in [Lists -> SUBSET Memory] /\ f.hdr[h].sz \in Nat
  BY MemoryFinite, HeapFields DEF Chains
<1>1. i \in Lists
  BY <1>0, ListForSize DEF ListOf
<1>2. Chain(f, i, M[i]) /\ h \notin M[i] /\ M[i] \in SUBSET Memory
  BY <1>0, <1>1 DEF Chains
<1>3. Chain(g, i, M[i] \cup {h}) /\ q # h
  BY <1>2, ChainAdd
<1>4. /\ g \in Heap /\ g.index = f.index
      /\ g.fl = [f.fl EXCEPT ![i] = h]
      /\ g.free_bytes = [f.free_bytes EXCEPT ![i] = @ + f.hdr[h].sz]
      /\ \A x \in Addr : /\ g.hdr[x].sz = f.hdr[x].sz
                         /\ g.hdr[x].free = IF x = h THEN TRUE ELSE f.hdr[x].free
                         /\ g.hdr[x].next = IF x = h THEN q ELSE f.hdr[x].next
                         /\ g.hdr[x].prev = IF x = h THEN Null
                                            ELSE IF q # Null /\ x = q THEN h ELSE f.hdr[x].prev
  <2>1. h \in Addr /\ q # h
    BY <1>0, <1>3
  <2>2. AddedTo(f, g, h)
    BY <2>1, AddSets
  <2> HIDE DEF g
  <2> QED BY <2>2 DEF AddedTo
<1>5. f.fl \in [Lists -> Addr] /\ f.free_bytes \in [Lists -> Int]
  BY HeapFields
<1>6. q # Null => q \in M[i]
  BY <1>2 DEF Chain, Linked
<1> HIDE DEF g, i, q
<1>7. ASSUME NEW j \in Lists, j # i PROVE Chain(g, j, M[j])
  <2>1. Chain(f, j, M[j]) /\ M[j] \in SUBSET Memory /\ M[j] \cap M[i] = {} /\ h \notin M[j]
    BY <1>0, <1>1, <1>7 DEF Chains
  <2>2. g.fl[j] = f.fl[j] /\ g.free_bytes[j] = f.free_bytes[j]
    BY <1>4, <1>5, <1>7
  <2>4. ASSUME NEW x \in M[j]
        PROVE  /\ g.hdr[x].sz = f.hdr[x].sz
               /\ g.hdr[x].prev = f.hdr[x].prev /\ g.hdr[x].next = f.hdr[x].next
    <3>1. x \in Addr /\ x \notin M[i] /\ x # h
      BY <2>1, MemoryFinite
    <3> QED BY <3>1, <1>4, <1>6
  <2> QED BY <2>1, <2>2, <2>4, <1>4, ChainFrame
<1>8. N \in [Lists -> SUBSET Memory] /\ N[i] = M[i] \cup {h} /\ \A j \in Lists : j # i => N[j] = M[j]
  BY <1>0, <1>1
<1>9. Chains(g, N)
  <2> HIDE DEF N
  <2>1. \A j, k \in Lists : j # k => N[j] \cap N[k] = {}
    BY <1>8 DEF Chains
  <2>2. \A j \in Lists : Chain(g, j, N[j])
    BY <1>3, <1>7, <1>8 DEF g, i
  <2> QED BY <2>1, <2>2, <1>8 DEF Chains
<1>10. Total(g) = Total(f) + f.hdr[h].sz
  <2> DEFINE w == f.free_bytes
             d == f.hdr[h].sz
  <2>1. g.free_bytes = Changed(w, i, d)
    BY <1>4 DEF Changed
  <2>2. w \in [Lists -> Int] /\ d \in Int /\ IsFiniteSet(Lists)
    BY <1>0, <1>5, ListsFinite
  <2> HIDE DEF w, d
  <2>3. SumFunction(Changed(w, i, d)) = SumFunction(w) + d
    BY <2>2, <1>1, SumChanged
  <2> QED BY <2>1, <2>3 DEF Total, w, d
<1>11. ASSUME NEW x \in Addr, x \notin M[i], x # h PROVE g.hdr[x] = f.hdr[x]
  <2>2. /\ g.hdr[x].next = f.hdr[x].next /\ g.hdr[x].prev = f.hdr[x].prev
        /\ g.hdr[x].sz = f.hdr[x].sz /\ g.hdr[x].free = f.hdr[x].free
    BY <1>4, <1>6, <1>11
  <2>3. f.hdr[x] \in Hdr /\ g.hdr[x] \in Hdr
    BY <1>4, HeapFields
  <2> QED BY <2>2, <2>3 DEF Hdr
<1>12. OnlyIn(f, g, M[i] \cup {h})
  BY <1>11 DEF OnlyIn
<1> QED
  BY <1>1, <1>4, <1>9, <1>10, <1>12 DEF g, i

------------------------------------------------------------------------------
(* Headers come and go.                                                    *)

\* Nothing happens to the lists when other headers change.
LEMMA ChainsFrame ==
  ASSUME NEW f \in Heap, NEW g \in Heap, NEW M, Chains(f, M),
         g.fl = f.fl, g.free_bytes = f.free_bytes,
         \A i \in Lists : \A h \in M[i] :
           /\ g.hdr[h].sz = f.hdr[h].sz
           /\ g.hdr[h].prev = f.hdr[h].prev /\ g.hdr[h].next = f.hdr[h].next
  PROVE  Chains(g, M) /\ Total(g) = Total(f)
<1>1. ASSUME NEW i \in Lists PROVE Chain(g, i, M[i])
  <2>1. M[i] \in SUBSET Memory /\ Chain(f, i, M[i])
    BY DEF Chains
  <2> QED BY <2>1, ChainFrame
<1> QED
  BY <1>1 DEF Chains, Total

\* A header that was just allocated.
LEMMA NoHeaderType ==
  NoHeader \in Hdr /\ NoHeader.sz = 0 /\ NoHeader.free = FALSE
    /\ \A k \in Nat : LET r == [NoHeader EXCEPT !.sz = k]
                      IN r \in Hdr /\ r.sz = k /\ r.free = FALSE
BY MemoryFinite DEF NoHeader, Hdr

\* What GC_remove_header sets.
LEMMA RemoveHeaderSets ==
  ASSUME NEW f \in Heap, NEW a \in Addr
  PROVE  LET g == GC_remove_header(f, a)
         IN /\ g \in Heap /\ g.fl = f.fl /\ g.free_bytes = f.free_bytes
            /\ g.index = [f.index EXCEPT ![a] = 0] /\ g.hdr = [f.hdr EXCEPT ![a] = NoHeader]
<1> DEFINE X == [f.index EXCEPT ![a] = 0]
           H == [f.hdr EXCEPT ![a] = NoHeader]
           u == [f EXCEPT !.index = X]
           g == [u EXCEPT !.hdr = H]
<1>1. g = GC_remove_header(f, a)
  BY DEF GC_remove_header
<1>2. X \in [Addr -> 0 .. IsHeader] /\ H \in [Addr -> Hdr]
  <2>1. 0 \in 0 .. IsHeader
    BY ConstantsAssumption DEF IsHeader
  <2> QED BY <2>1, HeapFields, NoHeaderType
<1> HIDE DEF X, H
<1>3. u \in Heap /\ u.hdr = f.hdr /\ u.index = X /\ u.fl = f.fl /\ u.free_bytes = f.free_bytes
  BY <1>2, IndexSet
<1> HIDE DEF u
<1>4. g \in Heap /\ g.hdr = H /\ g.index = u.index /\ g.fl = u.fl /\ g.free_bytes = u.free_bytes
  BY <1>2, <1>3, HdrSet
<1> HIDE DEF g
<1> QED
  BY <1>1, <1>3, <1>4 DEF X, H

\* What GC_install_header sets.
LEMMA InstallHeaderSets ==
  ASSUME NEW f \in Heap, NEW a \in Addr, NEW k \in Nat
  PROVE  LET g == GC_install_header(f, a, k)
         IN /\ g \in Heap /\ g.fl = f.fl /\ g.free_bytes = f.free_bytes
            /\ g.index = [f.index EXCEPT ![a] = IsHeader]
            /\ g.hdr = [f.hdr EXCEPT ![a] = [NoHeader EXCEPT !.sz = k]]
<1> DEFINE X == [f.index EXCEPT ![a] = IsHeader]
           r == [NoHeader EXCEPT !.sz = k]
           H == [f.hdr EXCEPT ![a] = r]
           u == [f EXCEPT !.index = X]
           g == [u EXCEPT !.hdr = H]
<1>1. g = GC_install_header(f, a, k)
  BY DEF GC_install_header
<1>2. X \in [Addr -> 0 .. IsHeader] /\ H \in [Addr -> Hdr]
  <2>1. IsHeader \in 0 .. IsHeader
    BY ConstantsAssumption DEF IsHeader
  <2>2. r \in Hdr
    BY NoHeaderType
  <2> HIDE DEF r
  <2> QED BY <2>1, <2>2, HeapFields
<1> HIDE DEF X, H
<1>3. u \in Heap /\ u.hdr = f.hdr /\ u.index = X /\ u.fl = f.fl /\ u.free_bytes = f.free_bytes
  BY <1>2, IndexSet
<1> HIDE DEF u
<1>4. g \in Heap /\ g.hdr = H /\ g.index = u.index /\ g.fl = u.fl /\ g.free_bytes = u.free_bytes
  BY <1>2, <1>3, HdrSet
<1> HIDE DEF g
<1> QED
  BY <1>1, <1>3, <1>4 DEF X, H

\* The header of a grows by k blocks, and that of b goes away.
Widened(f, a, b, k) == GC_remove_header([f EXCEPT !.hdr[a].sz = @ + k], b)

\* The lists do not change when a block on none of them absorbs another one.
LEMMA Absorb ==
  ASSUME NEW f \in Heap, NEW M, Chains(f, M), NEW a \in Memory, NEW b \in Memory, a # b, NEW k \in Nat,
         \A i \in Lists : a \notin M[i] /\ b \notin M[i]
  PROVE  LET g == Widened(f, a, b, k)
         IN /\ g \in Heap /\ Chains(g, M) /\ Total(g) = Total(f)
            /\ g.index = [f.index EXCEPT ![b] = 0]
            /\ g.hdr[a].sz = f.hdr[a].sz + k /\ g.hdr[a].free = f.hdr[a].free
            /\ g.hdr[b] = NoHeader
            /\ \A x \in Addr : x # a /\ x # b => g.hdr[x] = f.hdr[x]
<1>0. a \in Addr /\ b \in Addr /\ M \in [Lists -> SUBSET Memory] /\ Memory \subseteq Addr
  BY MemoryFinite DEF Chains
<1> DEFINE r == [f.hdr[a] EXCEPT !.sz = @ + k]
           H == [f.hdr EXCEPT ![a] = r]
           u == [f EXCEPT !.hdr = H]
           g == GC_remove_header(u, b)
<1>1. u = [f EXCEPT !.hdr[a].sz = @ + k]
  OBVIOUS
<1>2. r \in Hdr /\ r.sz = f.hdr[a].sz + k /\ r.free = f.hdr[a].free
  <2>1. f.hdr[a] \in Hdr
    BY <1>0, HeapFields
  <2> QED BY <2>1 DEF Hdr
<1> HIDE DEF r
<1>3. H \in [Addr -> Hdr] /\ H[a] = r /\ \A x \in Addr : x # a => H[x] = f.hdr[x]
  BY <1>0, <1>2, HeapFields
<1> HIDE DEF H
<1>4. u \in Heap /\ u.hdr = H /\ u.index = f.index /\ u.fl = f.fl /\ u.free_bytes = f.free_bytes
  BY <1>3, HdrSet
<1> SUFFICES
         /\ g \in Heap /\ Chains(g, M) /\ Total(g) = Total(f)
         /\ g.index = [f.index EXCEPT ![b] = 0]
         /\ g.hdr[a].sz = f.hdr[a].sz + k /\ g.hdr[a].free = f.hdr[a].free
         /\ g.hdr[b] = NoHeader
         /\ \A x \in Addr : x # a /\ x # b => g.hdr[x] = f.hdr[x]
  <2>1. g = Widened(f, a, b, k)
    BY <1>1 DEF Widened
  <2> HIDE DEF u, g
  <2> QED BY <2>1
<1> HIDE DEF u
<1>5. /\ g \in Heap /\ g.fl = u.fl /\ g.free_bytes = u.free_bytes
      /\ g.index = [u.index EXCEPT ![b] = 0] /\ g.hdr = [u.hdr EXCEPT ![b] = NoHeader]
  BY <1>0, <1>4, RemoveHeaderSets
<1> HIDE DEF g
<1>6. /\ g.hdr[a] = r /\ g.hdr[b] = NoHeader
      /\ \A x \in Addr : x # a /\ x # b => g.hdr[x] = f.hdr[x]
  BY <1>0, <1>3, <1>4, <1>5
<1>7. \A i \in Lists : \A h \in M[i] : g.hdr[h] = f.hdr[h]
  BY <1>0, <1>6
<1>8. Chains(g, M) /\ Total(g) = Total(f)
  <2>1. g \in Heap /\ g.fl = f.fl /\ g.free_bytes = f.free_bytes
    BY <1>4, <1>5
  <2>2. \A i \in Lists : \A h \in M[i] :
          /\ g.hdr[h].sz = f.hdr[h].sz
          /\ g.hdr[h].prev = f.hdr[h].prev /\ g.hdr[h].next = f.hdr[h].next
    BY <1>7
  <2> QED BY <2>1, <2>2, ChainsFrame
<1> QED
  BY <1>2, <1>4, <1>5, <1>6, <1>8

------------------------------------------------------------------------------
(* The header table describes disjoint blocks.                             *)

\* What GC_install_counts leaves d blocks after a header.
Count(d) == IF d <= MAX_JUMP THEN d ELSE MAX_JUMP

\* The header table describes blocks of the memory m, and the block at e, if any,
\* has no counts.
Shaped(f, m, e) ==
  /\ f \in Heap /\ m \subseteq Memory
  /\ \A h \in Headers(f) : f.hdr[h].sz > 0 /\ BlocksOf(f, h) \subseteq m
  /\ \A h \in Headers(f) : \A a \in BlocksOf(f, h) : a # h =>
       f.index[a] = IF f.hdr[h].free \/ h = e THEN 0 ELSE Count(a - h)
  /\ \A a \in Addr : (\A h \in Headers(f) : a \notin BlocksOf(f, h)) => f.index[a] = 0
  /\ \A a \in Addr : a \notin Headers(f) => f.hdr[a] = NoHeader

\* Blocks are apart.
LEMMA Apart ==
  ASSUME NEW f, NEW m, NEW e, Shaped(f, m, e)
  PROVE  /\ Headers(f) \subseteq m /\ Headers(f) \subseteq Addr
         /\ \A h \in Headers(f) : /\ h \in Nat /\ h # Null /\ h \in Memory /\ f.hdr[h].sz \in Nat
                                  /\ f.hdr[h].sz > 0 /\ h \in BlocksOf(f, h)
                                  /\ \A a \in BlocksOf(f, h) : a \in Addr /\ a \in Nat /\ a \in m
         /\ \A h, k \in Headers(f) : h < k => h + f.hdr[h].sz <= k
<1>1. f \in Heap /\ m \subseteq Addr /\ Headers(f) \subseteq Addr /\ m \subseteq Memory
  BY MemoryFinite DEF Shaped, Headers
<1>2. ASSUME NEW h \in Headers(f)
      PROVE  /\ h \in Nat /\ h # Null /\ h \in Memory /\ f.hdr[h].sz \in Nat /\ f.hdr[h].sz > 0
             /\ h \in BlocksOf(f, h) /\ h \in m
             /\ \A a \in BlocksOf(f, h) : a \in Addr /\ a \in Nat /\ a \in m
  <2>1. h \in Nat /\ f.hdr[h].sz \in Nat
    BY <1>1, MemoryFinite, HeapFields
  <2>2. f.hdr[h].sz > 0 /\ BlocksOf(f, h) \subseteq m
    BY DEF Shaped
  <2>3. h \in BlocksOf(f, h)
    BY <2>1, <2>2 DEF BlocksOf
  <2> QED BY <1>1, <2>1, <2>2, <2>3, MemoryFinite
<1>3. ASSUME NEW h \in Headers(f), NEW k \in Headers(f), h < k, ~(h + f.hdr[h].sz <= k)
      PROVE  FALSE
  <2>1. k \in BlocksOf(f, h) /\ k # h
    BY <1>2, <1>3 DEF BlocksOf
  <2>2. f.index[k] \in {0, Count(k - h)}
    BY <2>1 DEF Shaped
  <2>3. f.index[k] = MAX_JUMP + 1
    BY DEF Headers, HasHeader, IsHeader
  <2>4. k - h \in Int
    BY <1>2
  <2> QED BY <2>2, <2>3, <2>4, ConstantsAssumption DEF Count
<1> QED
  BY <1>1, <1>2, <1>3

\* Two adjacent free blocks become one.
Joined(f, g, a, b) ==
  /\ g \in Heap /\ g.index = [f.index EXCEPT ![b] = 0]
  /\ g.hdr[a].sz = f.hdr[a].sz + f.hdr[b].sz /\ g.hdr[a].free = f.hdr[a].free
  /\ g.hdr[b] = NoHeader
  /\ \A x \in Addr : x # a /\ x # b =>
       /\ g.hdr[x].sz = f.hdr[x].sz /\ g.hdr[x].free = f.hdr[x].free
       /\ x \notin Headers(f) => g.hdr[x] = f.hdr[x]

Adjacent(f, a, b) ==
  a \in Headers(f) /\ b \in Headers(f) /\ f.hdr[a].free /\ f.hdr[b].free /\ b = a + f.hdr[a].sz

\* Joining two free neighbours keeps the header table in order.
LEMMA JoinShaped ==
  ASSUME NEW f, NEW m, Shaped(f, m, Null), NEW a, NEW b, Adjacent(f, a, b), NEW g, Joined(f, g, a, b)
  PROVE  Shaped(g, m, Null) /\ Headers(g) = Headers(f) \ {b}
<1>0. a \in Headers(f) /\ b \in Headers(f) /\ f.hdr[a].free /\ f.hdr[b].free /\ b = a + f.hdr[a].sz
  BY DEF Adjacent
<1>1. /\ f \in Heap /\ g \in Heap /\ a \in Addr /\ b \in Addr /\ a # b /\ a \in Nat /\ b \in Nat
      /\ f.index \in [Addr -> 0 .. IsHeader]
      /\ \A h \in Headers(f) : h \in Nat /\ h \in Addr /\ f.hdr[h].sz \in Nat /\ f.hdr[h].sz > 0 /\ h # Null
      /\ \A h, k \in Headers(f) : h < k => h + f.hdr[h].sz <= k
  <2>1. f \in Heap /\ g \in Heap
    BY <1>0 DEF Shaped, Joined
  <2>2. /\ Headers(f) \subseteq Addr
        /\ \A h \in Headers(f) : h \in Nat /\ f.hdr[h].sz \in Nat /\ f.hdr[h].sz > 0 /\ h # Null
        /\ \A h, k \in Headers(f) : h < k => h + f.hdr[h].sz <= k
    BY <1>0, Apart
  <2>3. a # b
    <3>1. a \in Nat /\ f.hdr[a].sz \in Nat /\ f.hdr[a].sz > 0
      BY <1>0, <2>2
    <3> QED BY <1>0, <3>1
  <2> QED BY <1>0, <2>1, <2>2, <2>3, HeapFields
<1>2. Headers(g) = Headers(f) \ {b}
  <2>1. 0 # IsHeader
    BY <1>0, ConstantsAssumption DEF IsHeader
  <2> QED BY <1>0, <1>1, <2>1 DEF Joined, Headers, HasHeader
<1>3. BlocksOf(g, a) = BlocksOf(f, a) \cup BlocksOf(f, b)
  <2>1. f.hdr[a].sz \in Nat /\ f.hdr[b].sz \in Nat /\ f.hdr[a].sz > 0 /\ f.hdr[b].sz > 0
    BY <1>0, <1>1
  <2>2. g.hdr[a].sz = f.hdr[a].sz + f.hdr[b].sz
    BY <1>0 DEF Joined
  <2> QED BY <1>0, <1>1, <2>1, <2>2 DEF BlocksOf
<1>4. \A h \in Headers(g) : h # a =>
         BlocksOf(g, h) = BlocksOf(f, h) /\ g.hdr[h].free = f.hdr[h].free
  BY <1>0, <1>1, <1>2 DEF Joined, BlocksOf
<1>5. \A h \in Headers(g) : g.hdr[h].sz > 0 /\ BlocksOf(g, h) \subseteq m
  <2>1. g.hdr[a].sz > 0 /\ BlocksOf(g, a) \subseteq m
    <3>1. f.hdr[a].sz \in Nat /\ f.hdr[b].sz \in Nat /\ f.hdr[a].sz > 0
      BY <1>0, <1>1
    <3>2. g.hdr[a].sz = f.hdr[a].sz + f.hdr[b].sz
      BY <1>0 DEF Joined
    <3>3. BlocksOf(f, a) \subseteq m /\ BlocksOf(f, b) \subseteq m
      BY <1>0 DEF Shaped
    <3> QED BY <1>0, <3>1, <3>2, <3>3, <1>3
  <2>2. ASSUME NEW h \in Headers(g), h # a PROVE g.hdr[h].sz > 0 /\ BlocksOf(g, h) \subseteq m
    <3>1. h \in Headers(f) /\ h # b /\ h \in Addr
      BY <1>0, <1>1, <1>2
    <3>2. f.hdr[h].sz > 0 /\ BlocksOf(f, h) \subseteq m
      BY <1>0, <3>1 DEF Shaped
    <3> QED BY <1>0, <3>1, <3>2, <2>2, <1>4 DEF Joined
  <2> QED BY <1>0, <2>1, <2>2
<1>6. ASSUME NEW h \in Headers(g), NEW x \in BlocksOf(g, h), x # h
      PROVE  g.index[x] = IF g.hdr[h].free \/ h = Null THEN 0 ELSE Count(x - h)
  <2>0. x \in Addr
    <3>1. m \subseteq Addr
      BY <1>0, MemoryFinite DEF Shaped
    <3> QED BY <1>0, <1>5, <3>1
  <2>1. CASE h = a
    <3>1. g.hdr[h].free
      BY <1>0, <2>1 DEF Joined
    <3>2. g.index[x] = IF x = b THEN 0 ELSE f.index[x]
      BY <1>0, <1>1, <2>0 DEF Joined
    <3>3. CASE x = b
      BY <1>0, <3>1, <3>2, <3>3
    <3>4. CASE x # b
      <4>1. x \in BlocksOf(f, a) \/ x \in BlocksOf(f, b)
        BY <1>0, <1>3, <2>1
      <4>2. f.index[x] = 0
        BY <1>0, <4>1, <3>4, <1>6, <2>1 DEF Shaped
      <4> QED BY <1>0, <3>1, <3>2, <3>4, <4>2
    <3> QED BY <1>0, <3>3, <3>4
  <2>2. CASE h # a
    <3>1. h \in Headers(f) /\ h # b /\ x \in BlocksOf(f, h) /\ g.hdr[h].free = f.hdr[h].free
      BY <1>0, <1>2, <1>4, <2>2
    <3>2. x # b
      <4>1. SUFFICES ASSUME x = b PROVE FALSE
        OBVIOUS
      <4>2. h <= b /\ b < h + f.hdr[h].sz
        BY <3>1, <4>1, <1>1 DEF BlocksOf
      <4>3. b \in Headers(f)
        BY <1>0
      <4>4. h < b => h + f.hdr[h].sz <= b
        BY <3>1, <4>3, <1>1
      <4>5. h \in Nat /\ b \in Nat /\ f.hdr[h].sz \in Nat
        BY <3>1, <4>3, <1>1
      <4> QED BY <3>1, <4>2, <4>4, <4>5
    <3>3. g.index[x] = f.index[x]
      BY <1>0, <1>1, <2>0, <3>2 DEF Joined
    <3>4. f.index[x] = IF f.hdr[h].free \/ h = Null THEN 0 ELSE Count(x - h)
      BY <1>0, <3>1, <1>6 DEF Shaped
    <3> QED BY <1>0, <3>1, <3>3, <3>4
  <2> QED BY <1>0, <2>1, <2>2
<1>7. ASSUME NEW x \in Addr, \A h \in Headers(g) : x \notin BlocksOf(g, h)
      PROVE  g.index[x] = 0
  <2>1. a \in Headers(g)
    BY <1>0, <1>1, <1>2
  <2>2. ASSUME NEW h \in Headers(f) PROVE x \notin BlocksOf(f, h)
    <3>1. CASE h = a \/ h = b
      BY <1>0, <3>1, <2>1, <1>3, <1>7
    <3>2. CASE h # a /\ h # b
      BY <1>0, <3>2, <1>2, <1>4, <1>7
    <3> QED BY <1>0, <3>1, <3>2
  <2>3. f.index[x] = 0
    BY <1>0, <2>2 DEF Shaped
  <2> QED BY <1>0, <2>3, <1>1 DEF Joined
<1>8. ASSUME NEW x \in Addr, x \notin Headers(g) PROVE g.hdr[x] = NoHeader
  <2>1. CASE x = b
    BY <1>0, <2>1 DEF Joined
  <2>2. CASE x # b
    <3>1. x \notin Headers(f) /\ x # a
      BY <1>0, <1>2, <1>8, <2>2
    <3>2. f.hdr[x] = NoHeader
      BY <1>0, <3>1 DEF Shaped
    <3> QED BY <1>0, <2>2, <3>1, <3>2 DEF Joined
  <2> QED BY <1>0, <2>1, <2>2
<1> QED
  <2>1. m \subseteq Memory
    BY <1>0 DEF Shaped
  <2> QED BY <1>0, <1>1, <1>2, <1>5, <1>6, <1>7, <1>8, <2>1 DEF Shaped

------------------------------------------------------------------------------
(* The free blocks of a heap.                                              *)

\* The free blocks, but for e, by the list they belong on.
FreeBut(f, e) == [i \in Lists |-> {h \in Headers(f) : h # e /\ f.hdr[h].free /\ ListOf(f, h) = i}]

\* h is on no list, and may be without counts.
Loose(f, m, h) == Shaped(f, m, h) /\ h \in Headers(f) /\ Chains(f, FreeBut(f, h))

\* Each free block but e is in the set for its size, and nothing else is.
LEMMA FreeButIs ==
  ASSUME NEW f, NEW m, NEW d, Shaped(f, m, d), NEW e
  PROVE  /\ FreeBut(f, e) \in [Lists -> SUBSET Memory]
         /\ \A i, j \in Lists : i # j => FreeBut(f, e)[i] \cap FreeBut(f, e)[j] = {}
         /\ \A i \in Lists : e \notin FreeBut(f, e)[i]
         /\ \A h \in Headers(f) : /\ ListOf(f, h) \in Lists
                                  /\ f.hdr[h].free /\ h # e <=> h \in FreeBut(f, e)[ListOf(f, h)]
         /\ \A i \in Lists : \A h \in FreeBut(f, e)[i] :
              h \in Headers(f) /\ f.hdr[h].free /\ ListOf(f, h) = i /\ h # e
<1>1. ASSUME NEW h \in Headers(f) PROVE ListOf(f, h) \in Lists /\ h \in Memory
  <2>1. f.hdr[h].sz \in Nat /\ h \in Memory
    BY Apart
  <2> QED BY <2>1, ListForSize DEF ListOf
<1> QED
  BY <1>1 DEF FreeBut

\* A block on no list is not among the free blocks of the lists.
LEMMA LooseFree ==
  ASSUME NEW f, NEW m, NEW h, NEW e, Shaped(f, m, e), h \in Headers(f), f.hdr[h].free,
         e \in {h, Null}
  PROVE  Shaped(f, m, Null) /\ Shaped(f, m, h)
<1>1. \A k \in Headers(f) : k # Null
  BY Apart
<1>2. ASSUME NEW d \in {h, Null}, NEW k \in Headers(f)
      PROVE  f.hdr[k].free \/ k = d <=> f.hdr[k].free
  BY <1>1, <1>2
<1>3. ASSUME NEW d \in {h, Null}, NEW k \in Headers(f), NEW a \in BlocksOf(f, k), a # k
      PROVE  f.index[a] = IF f.hdr[k].free \/ k = d THEN 0 ELSE Count(a - k)
  <2>1. f.index[a] = IF f.hdr[k].free \/ k = e THEN 0 ELSE Count(a - k)
    BY <1>3 DEF Shaped
  <2>2. (f.hdr[k].free \/ k = e) <=> (f.hdr[k].free \/ k = d)
    BY <1>2
  <2> QED BY <2>1, <2>2
<1> QED
  BY <1>3 DEF Shaped

\* The place behind a block, and before it.
LEMMA Behind ==
  ASSUME NEW f, NEW m, NEW e, Shaped(f, m, e), NEW h \in Headers(f)
  PROVE  h + f.hdr[h].sz \in Addr /\ h - 1 \in Addr
<1>1. /\ h \in Nat /\ f.hdr[h].sz \in Nat /\ f.hdr[h].sz > 0 /\ h \in Memory /\ m \subseteq Memory
      /\ \A a \in BlocksOf(f, h) : a \in m
  <2>1. /\ h \in Nat /\ f.hdr[h].sz \in Nat /\ f.hdr[h].sz > 0 /\ h \in Memory
        /\ \A a \in BlocksOf(f, h) : a \in m
    BY Apart
  <2> QED BY <2>1 DEF Shaped
<1>2. h + f.hdr[h].sz - 1 \in Memory
  <2>1. h + f.hdr[h].sz - 1 \in BlocksOf(f, h)
    BY <1>1 DEF BlocksOf
  <2> QED BY <1>1, <2>1
<1>3. (h + f.hdr[h].sz - 1) + 1 \in Addr /\ h - 1 \in Addr
  BY <1>1, <1>2, MemoryFinite
<1> QED
  BY <1>1, <1>3

\* Coalescing: the free block o comes off its list, and it and the loose block h
\* become one, which is loose.
Coalesced(f, o, a, b) == Widened(GC_remove_from_fl(f, o, ListOf(f, o)), a, b, f.hdr[b].sz)

\* h and o are a and b, in some order.
Are(h, o, a, b) == (a = h /\ b = o) \/ (a = o /\ b = h)

Coalesces(f, g, m, o, a, b) ==
  /\ Loose(g, m, a) /\ Joined(f, g, a, b) /\ Headers(g) = Headers(f) \ {b}
  /\ Total(g) = Total(f) - f.hdr[o].sz

\* GC_freehblk joins two neighbours of which one is off the lists.
LEMMA Join ==
  ASSUME NEW f, NEW m, NEW a, NEW b, Adjacent(f, a, b), NEW h, NEW o, Are(h, o, a, b), Loose(f, m, h)
  PROVE  Coalesces(f, Coalesced(f, o, a, b), m, o, a, b)
<1> DEFINE i == ListOf(f, o)
           M == FreeBut(f, h)
           N == [M EXCEPT ![i] = @ \ {o}]
           r == GC_remove_from_fl(f, o, i)
           k == f.hdr[b].sz
           g == Widened(r, a, b, k)
<1>1. /\ Shaped(f, m, h) /\ Shaped(f, m, Null) /\ f \in Heap /\ h \in Headers(f)
      /\ a \in Headers(f) /\ b \in Headers(f) /\ f.hdr[a].free /\ f.hdr[b].free
      /\ f.hdr[h].free /\ o \in Headers(f) /\ f.hdr[o].free
      /\ ((a = h /\ b = o) \/ (a = o /\ b = h)) /\ o # h
  <2>0. /\ a \in Headers(f) /\ b \in Headers(f) /\ f.hdr[a].free /\ f.hdr[b].free
        /\ f.hdr[h].free /\ o \in Headers(f) /\ f.hdr[o].free
        /\ ((a = h /\ b = o) \/ (a = o /\ b = h)) /\ o # h
    <3>1. /\ a \in Headers(f) /\ b \in Headers(f) /\ f.hdr[a].free /\ f.hdr[b].free
          /\ ((a = h /\ b = o) \/ (a = o /\ b = h)) /\ b = a + f.hdr[a].sz
      BY DEF Adjacent, Are
    <3>2. a \in Nat /\ f.hdr[a].sz \in Nat /\ f.hdr[a].sz > 0
      <4>1. Shaped(f, m, h)
        BY DEF Loose
      <4> QED BY <3>1, <4>1, Apart
    <3>3. a # b
      BY <3>1, <3>2
    <3> QED BY <3>1, <3>3
  <2>1. Shaped(f, m, h) /\ h \in Headers(f) /\ f \in Heap
    BY DEF Loose, Shaped
  <2>2. Shaped(f, m, Null)
    BY <2>0, <2>1, LooseFree
  <2> QED BY <2>0, <2>1, <2>2
<1>2. /\ \A x \in Headers(f) : x \in Memory /\ x \in Addr /\ x \in Nat /\ f.hdr[x].sz \in Nat /\ f.hdr[x].sz > 0
      /\ a \in Memory /\ b \in Memory /\ k \in Nat /\ a # b /\ a \in Addr /\ b \in Addr
  <2>1. \A x \in Headers(f) : x \in Memory /\ x \in Nat /\ f.hdr[x].sz \in Nat /\ f.hdr[x].sz > 0
    BY <1>1, Apart
  <2> QED BY <1>1, <2>1, MemoryFinite
<1>3. /\ M \in [Lists -> SUBSET Memory] /\ i \in Lists /\ o \in M[i]
      /\ \A j \in Lists : h \notin M[j] /\ (j # i => o \notin M[j])
      /\ \A j \in Lists : \A x \in M[j] : x \in Headers(f) /\ f.hdr[x].free /\ ListOf(f, x) = j /\ x # h
      /\ \A x \in Headers(f) : /\ ListOf(f, x) \in Lists
                               /\ f.hdr[x].free /\ x # h => x \in M[ListOf(f, x)]
  <2>1. /\ M \in [Lists -> SUBSET Memory]
        /\ \A j \in Lists : \A x \in M[j] : x \in Headers(f) /\ f.hdr[x].free /\ ListOf(f, x) = j /\ x # h
        /\ \A x \in Headers(f) : /\ ListOf(f, x) \in Lists
                                 /\ f.hdr[x].free /\ x # h => x \in M[ListOf(f, x)]
    BY <1>1, FreeButIs
  <2> QED BY <1>1, <2>1
<1>4. Chains(f, M)
  BY DEF Loose
<1>5. /\ Chains(r, N) /\ Total(r) = Total(f) - f.hdr[o].sz /\ r \in Heap /\ SameBlocks(f, r)
      /\ \A x \in Addr : x \notin M[i] => r.hdr[x] = f.hdr[x]
  <2> HIDE DEF M, i
  <2>1. f \in Heap /\ Chains(f, M) /\ i \in Lists /\ o \in M[i]
    BY <1>1, <1>3, <1>4
  <2> QED BY <2>1, ChainsRemove
<1>6. N \in [Lists -> SUBSET Memory] /\ \A j \in Lists : N[j] = M[j] \ {o} /\ a \notin N[j] /\ b \notin N[j]
  <2> HIDE DEF M, i
  <2>1. \A j \in Lists : N[j] = M[j] \ {o}
    BY <1>3
  <2>2. N \in [Lists -> SUBSET Memory]
    BY <1>3
  <2> QED BY <1>1, <1>3, <2>1, <2>2
<1> HIDE DEF r
<1>7. /\ g \in Heap /\ Chains(g, N) /\ Total(g) = Total(r)
      /\ g.index = [r.index EXCEPT ![b] = 0]
      /\ g.hdr[a].sz = r.hdr[a].sz + k /\ g.hdr[a].free = r.hdr[a].free
      /\ g.hdr[b] = NoHeader
      /\ \A x \in Addr : x # a /\ x # b => g.hdr[x] = r.hdr[x]
  <2> HIDE DEF N, k
  <2>1. r \in Heap /\ Chains(r, N) /\ a \in Memory /\ b \in Memory /\ a # b /\ k \in Nat
    BY <1>2, <1>5
  <2>2. \A j \in Lists : a \notin N[j] /\ b \notin N[j]
    BY <1>6
  <2> QED BY <2>1, <2>2, Absorb
<1> HIDE DEF g
<1>8. Joined(f, g, a, b)
  <2>1. \A x \in Addr : r.hdr[x].sz = f.hdr[x].sz /\ r.hdr[x].free = f.hdr[x].free
    BY <1>5 DEF SameBlocks
  <2>2. r.index = f.index
    BY <1>5 DEF SameBlocks
  <2>3. \A x \in Addr : x \notin Headers(f) => r.hdr[x] = f.hdr[x]
    BY <1>3, <1>5
  <2> QED BY <1>2, <1>7, <2>1, <2>2, <2>3 DEF Joined
<1>9. Shaped(g, m, Null) /\ Headers(g) = Headers(f) \ {b}
  <2>1. Shaped(f, m, Null) /\ Joined(f, g, a, b)
    BY <1>1, <1>8
  <2> QED BY <2>1, JoinShaped
<1>10. a \in Headers(g) /\ g.hdr[a].free /\ Shaped(g, m, a)
  <2>1. a \in Headers(g) /\ g.hdr[a].free
    BY <1>1, <1>2, <1>8, <1>9 DEF Joined
  <2> QED BY <2>1, <1>9, LooseFree
<1>11. N = FreeBut(g, a)
  <2>1. ASSUME NEW j \in Lists, NEW x
        PROVE  x \in N[j] <=> x \in FreeBut(g, a)[j]
    <3>1. CASE x \in Headers(f) /\ x # a /\ x # b
      <4>1. x \in Addr /\ x \in Headers(g) /\ g.hdr[x].sz = f.hdr[x].sz /\ g.hdr[x].free = f.hdr[x].free
        BY <3>1, <1>2, <1>8, <1>9 DEF Joined
      <4>2. ListOf(g, x) = ListOf(f, x)
        BY <4>1 DEF ListOf
      <4>3. x # h /\ x # o
        BY <1>1, <3>1
      <4>4. x \in N[j] <=> f.hdr[x].free /\ ListOf(f, x) = j
        <5> HIDE DEF M, N, i
        <5> QED BY <1>3, <1>6, <3>1, <4>3
      <4> QED BY <3>1, <4>1, <4>2, <4>4 DEF FreeBut
    <3>2. CASE ~(x \in Headers(f) /\ x # a /\ x # b)
      <4>1. x \notin N[j]
        <5> HIDE DEF M, N, i
        <5> QED BY <1>3, <1>6, <3>2
      <4>2. x \notin FreeBut(g, a)[j]
        BY <3>2, <1>9 DEF FreeBut
      <4> QED BY <4>1, <4>2
    <3> QED BY <3>1, <3>2
  <2>2. FreeBut(g, a) \in [Lists -> SUBSET Memory]
    BY <1>9, FreeButIs
  <2> HIDE DEF N
  <2> QED BY <2>1, <2>2, <1>6
<1>12. Chains(g, FreeBut(g, a))
  <2> HIDE DEF N
  <2> QED BY <1>7, <1>11
<1>13. Loose(g, m, a) /\ Total(g) = Total(f) - f.hdr[o].sz
  BY <1>5, <1>7, <1>10, <1>12 DEF Loose
<1> QED
  BY <1>8, <1>9, <1>13 DEF g, r, i, k, Coalesced, Coalesces

\* g leads from each place where the counts in the table lead.
Leads(f, g) == g = [x \in Addr |-> IF f.index[x] \in 1 .. MAX_JUMP THEN g[x - f.index[x]] ELSE x]

\* Forwarded follows the counts with the function it chooses.
LEMMA ForwardedIsChosen ==
  ASSUME NEW f, NEW a
  PROVE  Forwarded(f, a) = (CHOOSE g : Leads(f, g))[a]
BY DEF Forwarded, Leads

\* From inside a block in use the counts lead to its header.
LEMMA ForwardedTo ==
  ASSUME NEW f, NEW m, NEW e, Shaped(f, m, e), NEW a \in Addr
  PROVE  /\ f.index[a] \notin 1 .. MAX_JUMP => Forwarded(f, a) = a
         /\ \A h \in Headers(f) :
              a \in BlocksOf(f, h) /\ f.index[a] \in 1 .. MAX_JUMP => Forwarded(f, a) = h
<1> DEFINE Jump(x) == f.index[x] \in 1 .. MAX_JUMP
           Owner(x) == CHOOSE h \in Headers(f) : x \in BlocksOf(f, h)
           G == [x \in Addr |-> IF Jump(x) THEN Owner(x) ELSE x]
<1>1. /\ Addr \subseteq Nat /\ MAX_JUMP \in Nat /\ MAX_JUMP > 0
      /\ \A x \in Addr : f.index[x] \in 0 .. IsHeader
  <2>1. f \in Heap
    BY DEF Shaped
  <2> QED BY <2>1, HeapFields, MemoryFinite, ConstantsAssumption
<1>2. /\ \A h \in Headers(f) : /\ h \in Nat /\ h \in Addr /\ f.hdr[h].sz \in Nat /\ h \in BlocksOf(f, h)
                               /\ \A x \in BlocksOf(f, h) : x \in Addr /\ x \in Nat
      /\ \A h, k \in Headers(f) : h < k => h + f.hdr[h].sz <= k
  BY Apart
<1>3. ASSUME NEW h \in Headers(f) PROVE ~Jump(h)
  BY ConstantsAssumption DEF Headers, HasHeader, IsHeader
<1>4. ASSUME NEW h \in Headers(f), NEW k \in Headers(f), NEW x, x \in BlocksOf(f, h), x \in BlocksOf(f, k)
      PROVE  h = k
  <2>1. /\ h \in Nat /\ k \in Nat /\ f.hdr[h].sz \in Nat /\ f.hdr[k].sz \in Nat /\ x \in Nat
        /\ h < k => h + f.hdr[h].sz <= k
        /\ k < h => k + f.hdr[k].sz <= h
    BY <1>2, <1>4
  <2>2. h <= x /\ x < h + f.hdr[h].sz /\ k <= x /\ x < k + f.hdr[k].sz
    BY <2>1, <1>4 DEF BlocksOf
  <2> QED BY <2>1, <2>2
<1>5. ASSUME NEW x \in Addr, Jump(x)
      PROVE  /\ Owner(x) \in Headers(f) /\ x \in BlocksOf(f, Owner(x)) /\ x # Owner(x)
             /\ f.index[x] = Count(x - Owner(x))
  <2>1. \E h \in Headers(f) : x \in BlocksOf(f, h)
    <3>1. f.index[x] # 0
      BY <1>5, <1>1
    <3> QED BY <3>1 DEF Shaped
  <2>2. Owner(x) \in Headers(f) /\ x \in BlocksOf(f, Owner(x))
    BY <2>1
  <2> HIDE DEF Owner
  <2>3. x # Owner(x)
    BY <2>2, <1>3, <1>5
  <2>4. f.index[x] = IF f.hdr[Owner(x)].free \/ Owner(x) = e THEN 0 ELSE Count(x - Owner(x))
    BY <2>2, <2>3 DEF Shaped
  <2>5. f.index[x] # 0
    BY <1>5, <1>1
  <2> QED BY <2>2, <2>3, <2>4, <2>5
<1>6. ASSUME NEW x \in Addr, Jump(x)
      PROVE  /\ x - f.index[x] \in Addr /\ x - f.index[x] < x
             /\ G[x - f.index[x]] = Owner(x)
  <2> DEFINE h == Owner(x)
             y == x - f.index[x]
  <2>1. /\ h \in Headers(f) /\ x \in BlocksOf(f, h) /\ x # h /\ f.index[x] = Count(x - h)
    BY <1>5, <1>6
  <2> HIDE DEF h
  <2>2. h \in Nat /\ f.hdr[h].sz \in Nat /\ x \in Nat /\ h < x /\ x < h + f.hdr[h].sz
    <3>1. h \in Nat /\ f.hdr[h].sz \in Nat /\ x \in Nat
      BY <1>2, <2>1
    <3>2. x \in h .. h + f.hdr[h].sz - 1
      BY <2>1 DEF BlocksOf
    <3> QED BY <3>1, <3>2, <2>1
  <2>3. f.index[x] \in 1 .. x - h /\ (f.index[x] = x - h \/ f.index[x] = MAX_JUMP)
    BY <2>1, <2>2, <1>1, <1>6 DEF Count
  <2>4. y \in h .. x - 1 /\ y \in BlocksOf(f, h)
    BY <2>2, <2>3 DEF BlocksOf
  <2>5. y \in Addr /\ y < x
    BY <2>4, <2>1, <2>2, <1>2
  <2>6. CASE y = h
    <3>1. ~Jump(y)
      BY <2>6, <2>1, <1>3
    <3> QED BY <3>1, <2>5, <2>6 DEF h
  <2>7. CASE y # h
    <3>1. f.index[y] = IF f.hdr[h].free \/ h = e THEN 0 ELSE Count(y - h)
      BY <2>1, <2>4, <2>7 DEF Shaped
    <3>2. ~(f.hdr[h].free \/ h = e)
      <4>1. f.index[x] = IF f.hdr[h].free \/ h = e THEN 0 ELSE Count(x - h)
        BY <2>1 DEF Shaped
      <4> QED BY <4>1, <1>6, <1>1
    <3>3. Jump(y)
      <4>1. y - h \in Nat /\ y - h > 0
        BY <2>4, <2>7, <2>2
      <4> QED BY <3>1, <3>2, <4>1, <1>1 DEF Count
    <3>4. Owner(y) = h
      <4>1. Owner(y) \in Headers(f) /\ y \in BlocksOf(f, Owner(y))
        BY <1>5, <2>5, <3>3
      <4> HIDE DEF Owner
      <4> QED BY <4>1, <1>4, <2>1, <2>4
    <3> QED BY <3>3, <3>4, <2>5 DEF h
  <2> QED BY <2>5, <2>6, <2>7
<1>7. Leads(f, G)
  <2>1. \A x \in Addr : G[x] = IF Jump(x) THEN G[x - f.index[x]] ELSE x
    BY <1>6
  <2>2. G = [x \in Addr |-> G[x]]
    OBVIOUS
  <2> HIDE DEF G
  <2> QED BY <2>1, <2>2 DEF Leads
<1>8. ASSUME NEW g, Leads(f, g) PROVE \A x \in Addr : g[x] = G[x]
  <2>0. /\ \A x \in Addr : g[x] = IF Jump(x) THEN g[x - f.index[x]] ELSE x
        /\ \A x \in Addr : G[x] = IF Jump(x) THEN G[x - f.index[x]] ELSE x
    BY <1>8, <1>7 DEF Leads
  <2> DEFINE T == {x \in Addr : g[x] # G[x]}
  <2> SUFFICES ASSUME T # {} PROVE FALSE
    OBVIOUS
  <2>1. PICK x \in T : \A y \in T : x <= y
    BY LeastNat, <1>1
  <2>2. x \in Addr /\ g[x] # G[x] /\ \A y \in Addr : y < x => g[y] = G[y]
    <3>1. \A y \in Addr : y < x => y \notin T
      BY <2>1, <1>1
    <3> QED BY <2>1, <3>1
  <2> HIDE DEF T, G
  <2>3. CASE Jump(x)
    BY <2>0, <2>2, <2>3, <1>6
  <2>4. CASE ~Jump(x)
    BY <2>0, <2>2, <2>4
  <2> QED BY <2>3, <2>4
<1>9. Forwarded(f, a) = G[a]
  <2> DEFINE c == CHOOSE g : Leads(f, g)
  <2>1. Leads(f, c)
    BY <1>7
  <2>2. Forwarded(f, a) = c[a]
    BY ForwardedIsChosen
  <2> HIDE DEF c, G
  <2> QED BY <2>1, <2>2, <1>8
<1>10. ASSUME NEW h \in Headers(f), a \in BlocksOf(f, h), Jump(a)
       PROVE  Owner(a) = h
  <2>1. Owner(a) \in Headers(f) /\ a \in BlocksOf(f, Owner(a))
    BY <1>5, <1>10
  <2> HIDE DEF Owner
  <2> QED BY <2>1, <1>4, <1>10
<1> QED
  BY <1>9, <1>10

\* GC_free_block_ending_at finds the free block that ends where h starts.
LEMMA EndingAt ==
  ASSUME NEW f, NEW m, NEW e, NEW h, Shaped(f, m, e), h \in Headers(f), e \in {h, Null}
  PROVE  LET p == GC_free_block_ending_at(f, h)
         IN /\ p # Null => p \in Headers(f) /\ f.hdr[p].free /\ p + f.hdr[p].sz = h /\ p # h
            /\ p = Null => \A a \in Headers(f) : f.hdr[a].free => a + f.hdr[a].sz # h
<1> DEFINE x == h - 1
           u == Forwarded(f, x)
           q == GC_prev_block(f, x)
           p == GC_free_block_ending_at(f, h)
           Before == {b \in Headers(f) : b <= x}
<1>1. /\ Addr \subseteq Nat /\ x \in Addr /\ MAX_JUMP \in Nat /\ MAX_JUMP > 0
      /\ f.index[x] \in 0 .. IsHeader /\ IsFiniteSet(Memory) /\ h \in Nat /\ h # Null
      /\ \A b \in Headers(f) : f.hdr[b].free \in BOOLEAN
  <2>1. f \in Heap /\ x \in Addr
    BY Behind DEF Shaped
  <2>2. h \in Nat /\ h # Null /\ Headers(f) \subseteq Addr
    BY Apart
  <2> QED BY <2>1, <2>2, HeapFields, MemoryFinite, ConstantsAssumption
<1>2. /\ \A b \in Headers(f) : /\ b \in Nat /\ b \in Addr /\ f.hdr[b].sz \in Nat /\ b \in BlocksOf(f, b)
                               /\ b # Null /\ f.hdr[b].sz > 0 /\ b \in Memory
      /\ \A b, k \in Headers(f) : b < k => b + f.hdr[b].sz <= k
  BY Apart
<1>3. p = IF HasHeader(f, u) THEN IF f.hdr[u].free THEN u ELSE Null
          ELSE IF q # Null /\ f.hdr[q].free /\ q + f.hdr[q].sz = h THEN q ELSE Null
  BY DEF GC_free_block_ending_at
<1>4. \A b \in Addr : HasHeader(f, b) <=> b \in Headers(f)
  BY DEF Headers
<1>5. /\ q = Null \/ q \in Before
      /\ \A b \in Before : q \in Before /\ b <= q
  <2>1. CASE Before = {}
    <3>1. q = Null
      BY <2>1 DEF GC_prev_block
    <3> QED BY <2>1, <3>1
  <2>2. CASE Before # {}
    <3>1. IsFiniteSet(Before)
      <4>1. Before \subseteq Memory
        BY <1>2
      <4> QED BY <4>1, <1>1, FS_Subset
    <3>2. \A b \in Before : b \in Int
      BY <1>2
    <3>3. q = Max(Before)
      BY <2>2 DEF GC_prev_block
    <3> HIDE DEF Before, q
    <3>4. Max(Before) \in Before /\ \A y \in Before : Max(Before) >= y
      BY <2>2, <3>1, <3>2, MaxOf
    <3> QED BY <3>2, <3>3, <3>4
  <2> QED BY <2>1, <2>2
<1> HIDE DEF p, q, u
<1>6. ASSUME NEW a \in Headers(f), a + f.hdr[a].sz = h PROVE x \in BlocksOf(f, a) /\ a <= x
  BY <1>1, <1>2, <1>6 DEF BlocksOf
<1>7. CASE \E k \in Headers(f) : x \in BlocksOf(f, k)
  <2>1. PICK k \in Headers(f) : x \in BlocksOf(f, k)
    BY <1>7
  <2>2. k + f.hdr[k].sz = h /\ k <= x /\ k # h /\ k < h
    <3>1. k <= x /\ x < k + f.hdr[k].sz
      BY <2>1, <1>1, <1>2 DEF BlocksOf
    <3>2. k + f.hdr[k].sz <= h
      BY <3>1, <1>1, <1>2
    <3> QED BY <3>1, <3>2, <1>1, <1>2
  <2>3. \A a \in Headers(f) : a + f.hdr[a].sz = h => a = k
    <3>1. SUFFICES ASSUME NEW a \in Headers(f), a + f.hdr[a].sz = h, a # k PROVE FALSE
      OBVIOUS
    <3>2. a < k => a + f.hdr[a].sz <= k
      BY <1>2
    <3>3. k < a => k + f.hdr[k].sz <= a
      BY <1>2
    <3>4. a \in Nat /\ k \in Nat /\ f.hdr[a].sz \in Nat /\ f.hdr[a].sz > 0 /\ f.hdr[k].sz \in Nat
      BY <1>2
    <3> QED BY <3>1, <3>2, <3>3, <3>4, <2>2
  <2>4. IF f.hdr[k].free THEN p = k ELSE p = Null
    <3>1. CASE x = k
      <4>1. f.index[x] \notin 1 .. MAX_JUMP
        BY <3>1, <1>1 DEF Headers, HasHeader, IsHeader
      <4>2. u = k
        <5>1. u = x
          BY <4>1, <1>1, ForwardedTo DEF u
        <5> QED BY <5>1, <3>1
      <4> QED BY <4>2, <1>2, <1>3, <1>4
    <3>2. CASE x # k
      <4>1. f.index[x] = IF f.hdr[k].free \/ k = e THEN 0 ELSE Count(x - k)
        BY <2>1, <3>2 DEF Shaped
      <4>2. k # e
        BY <2>2, <1>2
      <4>3. CASE f.hdr[k].free
        <5>1. f.index[x] = 0
          BY <4>1, <4>3
        <5>2. u = x
          BY <5>1, <1>1, ForwardedTo DEF u
        <5>3. x \notin Headers(f)
          BY <5>1, <1>1 DEF Headers, HasHeader, IsHeader
        <5>4. q = k
          <6>1. k \in Before
            BY <2>2
          <6>2. q \in Headers(f) /\ k <= q /\ q <= x
            BY <6>1, <1>5
          <6>3. k < q => k + f.hdr[k].sz <= q
            BY <6>2, <1>2
          <6>4. k \in Nat /\ q \in Nat /\ f.hdr[k].sz \in Nat
            BY <6>2, <1>2
          <6> QED BY <6>2, <6>3, <6>4, <2>2, <1>1
        <5>5. ~HasHeader(f, u)
          BY <5>2, <5>3, <1>1, <1>4
        <5> QED BY <5>4, <5>5, <1>2, <1>3, <2>2, <4>3
      <4>4. CASE ~f.hdr[k].free
        <5>1. f.index[x] = Count(x - k) /\ x - k \in Nat /\ x - k > 0
          BY <4>1, <4>2, <4>4, <2>2, <3>2, <1>1, <1>2
        <5>2. f.index[x] \in 1 .. MAX_JUMP
          BY <5>1, <1>1 DEF Count
        <5>3. u = k
          BY <5>2, <2>1, <1>1, ForwardedTo DEF u
        <5> QED BY <5>3, <1>2, <1>3, <1>4, <4>4
      <4> QED BY <4>3, <4>4
    <3> QED BY <3>1, <3>2
  <2>5. CASE f.hdr[k].free
    BY <2>2, <2>4, <2>5, <1>2 DEF p
  <2>6. CASE ~f.hdr[k].free
    BY <2>3, <2>4, <2>6 DEF p
  <2> QED BY <2>5, <2>6
<1>8. CASE \A k \in Headers(f) : x \notin BlocksOf(f, k)
  <2>1. f.index[x] = 0
    BY <1>8, <1>1 DEF Shaped
  <2>2. u = x
    BY <2>1, <1>1, ForwardedTo DEF u
  <2>3. ~HasHeader(f, u)
    BY <2>2, <2>1, <1>1 DEF HasHeader, IsHeader
  <2>4. p = Null
    <3>1. q # Null => q \in Headers(f)
      BY <1>5
    <3> QED BY <3>1, <2>3, <1>3, <1>6, <1>8
  <2>5. \A a \in Headers(f) : a + f.hdr[a].sz # h
    BY <1>6, <1>8
  <2> QED BY <2>4, <2>5 DEF p
<1> QED
  BY <1>7, <1>8

\* The first step of GC_freehblk: the block in use is free, but on no list.
BareOf(f, h) == [GC_remove_counts(f, h, f.hdr[h].sz) EXCEPT !.hdr[h].free = TRUE]

\* A block in use whose counts are removed, and which is marked free, is loose.
LEMMA Bare ==
  ASSUME NEW f, NEW m, NEW e, NEW h, Shaped(f, m, e), h \in Headers(f), e \in {h, Null},
         ~f.hdr[h].free, Chains(f, FreeBut(f, Null))
  PROVE  LET g == BareOf(f, h)
         IN /\ Loose(g, m, h) /\ Total(g) = Total(f) /\ Headers(g) = Headers(f) /\ g.hdr[h].free
            /\ \A x \in Addr : /\ g.hdr[x].sz = f.hdr[x].sz
                               /\ x # h => g.hdr[x].free = f.hdr[x].free
<1> DEFINE sz == f.hdr[h].sz
           X == [x \in Addr |-> IF x \in Inside(h, sz) THEN 0 ELSE f.index[x]]
           u == [f EXCEPT !.index = X]
           r == [f.hdr[h] EXCEPT !.free = TRUE]
           H == [f.hdr EXCEPT ![h] = r]
           g == [u EXCEPT !.hdr = H]
<1>1. /\ f \in Heap /\ h \in Addr /\ h \in Nat /\ sz \in Nat /\ sz > 0 /\ h # Null /\ Headers(f) \subseteq Addr
      /\ \A b \in Headers(f) : /\ b \in Nat /\ b \in Addr /\ f.hdr[b].sz \in Nat /\ b \in BlocksOf(f, b)
                               /\ b # Null /\ f.hdr[b].sz > 0 /\ \A x \in BlocksOf(f, b) : x \in Addr /\ x \in Nat
      /\ \A b, k \in Headers(f) : b < k => b + f.hdr[b].sz <= k
  <2>1. f \in Heap
    BY DEF Shaped
  <2>2. /\ \A b \in Headers(f) : /\ b \in Nat /\ b \in Addr /\ f.hdr[b].sz \in Nat /\ b \in BlocksOf(f, b)
                               /\ b # Null /\ f.hdr[b].sz > 0 /\ \A x \in BlocksOf(f, b) : x \in Addr /\ x \in Nat
        /\ \A b, k \in Headers(f) : b < k => b + f.hdr[b].sz <= k
        /\ Headers(f) \subseteq Addr
    BY Apart
  <2> QED BY <2>1, <2>2
<1>2. /\ f.index \in [Addr -> 0 .. IsHeader] /\ f.hdr \in [Addr -> Hdr] /\ f.hdr[h] \in Hdr
      /\ 0 \in 0 .. IsHeader /\ 0 # IsHeader
  <2>1. f.index \in [Addr -> 0 .. IsHeader] /\ f.hdr \in [Addr -> Hdr]
    BY <1>1, HeapFields
  <2>2. 0 \in 0 .. IsHeader /\ 0 # IsHeader
    BY ConstantsAssumption DEF IsHeader
  <2> QED BY <2>1, <2>2, <1>1
<1>3. BareOf(f, h) = g
  <2>1. GC_remove_counts(f, h, sz) = u
    BY DEF GC_remove_counts
  <2>2. u.hdr = f.hdr
    BY <1>1 DEF Heap
  <2>3. [u EXCEPT !.hdr[h].free = TRUE] = [u EXCEPT !.hdr = [u.hdr EXCEPT ![h] = [@ EXCEPT !.free = TRUE]]]
    OBVIOUS
  <2> HIDE DEF u
  <2> QED BY <2>1, <2>2, <2>3 DEF BareOf
<1>4. X \in [Addr -> 0 .. IsHeader] /\ \A x \in Addr : X[x] = IF x \in Inside(h, sz) THEN 0 ELSE f.index[x]
  BY <1>2
<1>5. r \in Hdr /\ r.sz = sz /\ r.free = TRUE /\ r.prev = f.hdr[h].prev /\ r.next = f.hdr[h].next
  <2>1. \A z \in Hdr : LET y == [z EXCEPT !.free = TRUE] IN
          y \in Hdr /\ y.sz = z.sz /\ y.free = TRUE /\ y.prev = z.prev /\ y.next = z.next
    BY DEF Hdr
  <2> QED BY <2>1, <1>2
<1> HIDE DEF X, r
<1>6. H \in [Addr -> Hdr] /\ H[h] = r /\ \A x \in Addr : x # h => H[x] = f.hdr[x]
  BY <1>1, <1>2, <1>5
<1> HIDE DEF H
<1>7. u \in Heap /\ u.hdr = f.hdr /\ u.index = X /\ u.fl = f.fl /\ u.free_bytes = f.free_bytes
  BY <1>1, <1>4, IndexSet
<1> HIDE DEF u
<1>8. g \in Heap /\ g.hdr = H /\ g.index = u.index /\ g.fl = u.fl /\ g.free_bytes = u.free_bytes
  BY <1>6, <1>7, HdrSet
<1> HIDE DEF g
<1>9. /\ g \in Heap /\ g.fl = f.fl /\ g.free_bytes = f.free_bytes
      /\ \A x \in Addr : g.index[x] = IF x \in Inside(h, sz) THEN 0 ELSE f.index[x]
      /\ \A x \in Addr : x # h => g.hdr[x] = f.hdr[x]
      /\ g.hdr[h].sz = sz /\ g.hdr[h].free = TRUE
      /\ g.hdr[h].prev = f.hdr[h].prev /\ g.hdr[h].next = f.hdr[h].next
  BY <1>4, <1>5, <1>6, <1>7, <1>8
<1>10. ASSUME NEW k \in Headers(f) PROVE k \notin Inside(h, sz)
  <2>1. h < k => h + sz <= k
    BY <1>1
  <2> QED BY <2>1, <1>1 DEF Inside
<1>11. Headers(g) = Headers(f)
  BY <1>1, <1>2, <1>9, <1>10 DEF Headers, HasHeader
<1>12. \A k \in Headers(g) : BlocksOf(g, k) = BlocksOf(f, k) /\ g.hdr[k].sz = f.hdr[k].sz
  BY <1>1, <1>9, <1>11 DEF BlocksOf
<1>13. Inside(h, sz) = BlocksOf(f, h) \ {h}
  BY <1>1 DEF Inside, BlocksOf
<1>14. ASSUME NEW k \in Headers(g), NEW x \in BlocksOf(g, k), x # k
       PROVE  g.index[x] = IF g.hdr[k].free \/ k = h THEN 0 ELSE Count(x - k)
  <2>1. k \in Headers(f) /\ x \in BlocksOf(f, k) /\ x \in Addr /\ x \in Nat
    BY <1>1, <1>11, <1>12, <1>14
  <2>2. CASE k = h
    BY <2>1, <2>2, <1>9, <1>13, <1>14
  <2>3. CASE k # h
    <3>1. x \notin Inside(h, sz)
      <4>1. h < k => h + sz <= k
        BY <2>1, <1>1
      <4>2. k < h => k + f.hdr[k].sz <= h
        BY <2>1, <1>1
      <4>3. k \in Nat /\ f.hdr[k].sz \in Nat
        BY <2>1, <1>1
      <4>4. k <= x /\ x < k + f.hdr[k].sz
        BY <4>3, <2>1 DEF BlocksOf
      <4> QED BY <4>1, <4>2, <4>3, <4>4, <2>1, <2>3, <1>1 DEF Inside
    <3>2. g.index[x] = f.index[x] /\ g.hdr[k].free = f.hdr[k].free
      BY <3>1, <2>1, <2>3, <1>1, <1>9
    <3>3. f.index[x] = IF f.hdr[k].free \/ k = e THEN 0 ELSE Count(x - k)
      BY <2>1, <1>14 DEF Shaped
    <3>4. k # e
      BY <2>1, <2>3, <1>1
    <3> QED BY <3>2, <3>3, <3>4, <2>3
  <2> QED BY <2>2, <2>3
<1>15. ASSUME NEW x \in Addr, \A k \in Headers(g) : x \notin BlocksOf(g, k) PROVE g.index[x] = 0
  <2>1. f.index[x] = 0
    BY <1>11, <1>12, <1>15 DEF Shaped
  <2> QED BY <2>1, <1>9
<1>16. Shaped(g, m, h)
  <2>1. \A k \in Headers(g) : g.hdr[k].sz > 0 /\ BlocksOf(g, k) \subseteq m
    BY <1>11, <1>12 DEF Shaped
  <2>2. \A x \in Addr : x \notin Headers(g) => g.hdr[x] = NoHeader
    BY <1>9, <1>11 DEF Shaped
  <2>3. m \subseteq Memory
    BY DEF Shaped
  <2> QED BY <1>9, <1>14, <1>15, <2>1, <2>2, <2>3 DEF Shaped
<1>17. FreeBut(g, h) = FreeBut(f, Null)
  <2>1. ASSUME NEW k \in Headers(f)
        PROVE  (k # h /\ g.hdr[k].free <=> k # Null /\ f.hdr[k].free) /\ ListOf(g, k) = ListOf(f, k)
    <3>1. k # Null /\ g.hdr[k].sz = f.hdr[k].sz /\ (k # h => g.hdr[k].free = f.hdr[k].free)
      BY <1>1, <1>9, <1>11, <1>12
    <3> QED BY <3>1 DEF ListOf
  <2> QED BY <2>1, <1>11 DEF FreeBut
<1>18. Chains(g, FreeBut(f, Null)) /\ Total(g) = Total(f)
  <2> DEFINE M == FreeBut(f, Null)
  <2>0. ASSUME NEW i \in Lists, NEW k \in M[i] PROVE g.hdr[k] = f.hdr[k]
    <3>1. k \in Headers(f) /\ f.hdr[k].free
      BY FreeButIs
    <3> QED BY <3>1, <1>1, <1>9
  <2> HIDE DEF M
  <2>1. f \in Heap /\ g \in Heap /\ Chains(f, M) /\ g.fl = f.fl /\ g.free_bytes = f.free_bytes
    BY <1>1, <1>9 DEF M
  <2>2. \A i \in Lists : \A k \in M[i] :
          g.hdr[k].sz = f.hdr[k].sz /\ g.hdr[k].prev = f.hdr[k].prev /\ g.hdr[k].next = f.hdr[k].next
    BY <2>0
  <2>3. Chains(g, M) /\ Total(g) = Total(f)
    BY <2>1, <2>2, ChainsFrame
  <2> QED BY <2>3 DEF M
<1>19. \A x \in Addr : g.hdr[x].sz = f.hdr[x].sz /\ (x # h => g.hdr[x].free = f.hdr[x].free)
  BY <1>9
<1> QED
  BY <1>3, <1>9, <1>11, <1>16, <1>17, <1>18, <1>19 DEF Loose

------------------------------------------------------------------------------
(* No two free blocks touch.                                               *)

Kept(f, m) == Shaped(f, m, Null) /\ Chains(f, FreeBut(f, Null))

\* No two adjacent free blocks, h apart.
NoAdjBut(f, h) ==
  \A a \in Headers(f) : a # h /\ f.hdr[a].free /\ a + f.hdr[a].sz # h => ~IsFree(f, a + f.hdr[a].sz)

NoAdj(f) == \A a \in Headers(f) : f.hdr[a].free => ~IsFree(f, a + f.hdr[a].sz)

\* In g the block h is free, and nothing else is different.
Listed(f, g, h) ==
  \A x \in Addr : /\ g.hdr[x].sz = f.hdr[x].sz
                  /\ g.hdr[x].free = IF x = h THEN TRUE ELSE f.hdr[x].free

\* A loose block that is put on its list is kept like the others.
LEMMA AddLoose ==
  ASSUME NEW f, NEW m, NEW h, Loose(f, m, h)
  PROVE  LET g == GC_add_to_fl(f, h)
         IN /\ Kept(g, m) /\ Total(g) = Total(f) + f.hdr[h].sz /\ Headers(g) = Headers(f)
            /\ Listed(f, g, h)
<1> DEFINE M == FreeBut(f, h)
           i == ListOf(f, h)
           N == [M EXCEPT ![i] = @ \cup {h}]
           g == GC_add_to_fl(f, h)
<1>1. /\ Shaped(f, m, h) /\ f \in Heap /\ h \in Headers(f) /\ Chains(f, M)
      /\ M \in [Lists -> SUBSET Memory] /\ i \in Lists
      /\ \A j \in Lists : h \notin M[j]
      /\ \A j \in Lists : \A x \in M[j] : x \in Headers(f) /\ f.hdr[x].free /\ ListOf(f, x) = j /\ x # h
      /\ \A x \in Headers(f) : ListOf(f, x) \in Lists /\ (f.hdr[x].free /\ x # h => x \in M[ListOf(f, x)])
  <2>1. Shaped(f, m, h) /\ f \in Heap /\ h \in Headers(f) /\ Chains(f, M)
    BY DEF Loose, Shaped
  <2> QED BY <2>1, FreeButIs
<1>2. /\ h \in Memory /\ \A x \in Headers(f) : x # Null /\ x \in Addr /\ f.hdr[x].free \in BOOLEAN
  <2>1. Headers(f) \subseteq Addr /\ h \in Memory /\ \A x \in Headers(f) : x # Null
    BY <1>1, Apart
  <2> QED BY <2>1, <1>1, HeapFields
<1>3. /\ Chains(g, N) /\ Total(g) = Total(f) + f.hdr[h].sz
      /\ g \in Heap /\ g.index = f.index
      /\ \A x \in Addr : /\ g.hdr[x].sz = f.hdr[x].sz
                         /\ g.hdr[x].free = IF x = h THEN TRUE ELSE f.hdr[x].free
      /\ \A x \in Addr : x # h /\ x \notin M[i] => g.hdr[x] = f.hdr[x]
  <2> HIDE DEF M
  <2>1. f \in Heap /\ Chains(f, M) /\ h \in Memory /\ \A j \in Lists : h \notin M[j]
    BY <1>1, <1>2
  <2>2. /\ Chains(g, [M EXCEPT ![ListOf(f, h)] = @ \cup {h}])
        /\ Total(g) = Total(f) + f.hdr[h].sz
        /\ g \in Heap /\ g.index = f.index
        /\ \A x \in Addr : /\ g.hdr[x].sz = f.hdr[x].sz
                           /\ g.hdr[x].free = IF x = h THEN TRUE ELSE f.hdr[x].free
        /\ OnlyIn(f, g, M[ListOf(f, h)] \cup {h})
    <3> HIDE DEF i
    <3>1. Chains(g, [M EXCEPT ![ListOf(f, h)] = @ \cup {h}])
      BY <2>1, ChainsAdd
    <3>2. Total(g) = Total(f) + f.hdr[h].sz
      BY <2>1, ChainsAdd
    <3>3. g \in Heap /\ g.index = f.index
      BY <2>1, ChainsAdd
    <3>4. \A x \in Addr : g.hdr[x].sz = f.hdr[x].sz
      BY <2>1, ChainsAdd, ZenonT(40)
    <3>5. \A x \in Addr : g.hdr[x].free = IF x = h THEN TRUE ELSE f.hdr[x].free
      BY <2>1, ChainsAdd, Zenon
    <3>6. OnlyIn(f, g, M[ListOf(f, h)] \cup {h})
      BY <2>1, ChainsAdd
    <3> QED BY <3>1, <3>2, <3>3, <3>4, <3>5, <3>6
  <2>3. \A x \in Addr : x # h /\ x \notin M[i] => g.hdr[x] = f.hdr[x]
    BY <2>2 DEF OnlyIn
  <2> QED BY <2>2, <2>3
<1> HIDE DEF g
<1>4. Headers(g) = Headers(f) /\ \A k \in Headers(f) : BlocksOf(g, k) = BlocksOf(f, k)
  BY <1>2, <1>3 DEF Headers, HasHeader, BlocksOf
<1>5. Shaped(g, m, Null)
  <2>1. \A k \in Headers(g) : g.hdr[k].sz > 0 /\ BlocksOf(g, k) \subseteq m
    BY <1>1, <1>2, <1>3, <1>4 DEF Shaped
  <2>2. ASSUME NEW k \in Headers(g), NEW x \in BlocksOf(g, k), x # k
        PROVE  g.index[x] = IF g.hdr[k].free \/ k = Null THEN 0 ELSE Count(x - k)
    <3>1. f.index[x] = IF f.hdr[k].free \/ k = h THEN 0 ELSE Count(x - k)
      BY <1>1, <1>4, <2>2 DEF Shaped
    <3>2. (g.hdr[k].free \/ k = Null) <=> (f.hdr[k].free \/ k = h)
      BY <1>2, <1>3, <1>4
    <3>3. g.index[x] = f.index[x]
      BY <1>3
    <3> QED BY <3>1, <3>2, <3>3
  <2>3. \A x \in Addr : (\A k \in Headers(g) : x \notin BlocksOf(g, k)) => g.index[x] = 0
    BY <1>1, <1>3, <1>4 DEF Shaped
  <2>4. \A x \in Addr : x \notin Headers(g) => g.hdr[x] = NoHeader
    BY <1>1, <1>3, <1>4 DEF Shaped
  <2>5. m \subseteq Memory
    BY <1>1 DEF Shaped
  <2> QED BY <1>3, <2>1, <2>2, <2>3, <2>4, <2>5 DEF Shaped
<1>6. N = FreeBut(g, Null)
  <2>1. ASSUME NEW j \in Lists, NEW x PROVE x \in N[j] <=> x \in FreeBut(g, Null)[j]
    <3>1. CASE x \in Headers(f)
      <4>1. ListOf(g, x) = ListOf(f, x)
        BY <3>1, <1>2, <1>3 DEF ListOf
      <4>2. x \in FreeBut(g, Null)[j] <=> (x = h \/ f.hdr[x].free) /\ ListOf(f, x) = j
        BY <3>1, <4>1, <1>2, <1>3, <1>4 DEF FreeBut
      <4>3. x \in N[j] <=> (x = h \/ f.hdr[x].free) /\ ListOf(f, x) = j
        <5>1. N[j] = IF j = i THEN M[j] \cup {h} ELSE M[j]
          BY <1>1
        <5>2. CASE x = h
          <6> HIDE DEF M, N
          <6> QED BY <5>1, <5>2, <1>1
        <5>3. CASE x # h
          <6> HIDE DEF M, N, i
          <6> QED BY <5>1, <5>3, <1>1, <3>1
        <5> QED BY <5>2, <5>3
      <4> QED BY <4>2, <4>3
    <3>2. CASE x \notin Headers(f)
      <4>1. x \notin FreeBut(g, Null)[j]
        BY <3>2, <1>4 DEF FreeBut
      <4>2. N[j] = IF j = i THEN M[j] \cup {h} ELSE M[j]
        BY <1>1
      <4>3. x \notin N[j]
        <5> HIDE DEF M, N, i
        <5> QED BY <3>2, <1>1, <4>2
      <4> QED BY <4>1, <4>3
    <3> QED BY <3>1, <3>2
  <2>2. FreeBut(g, Null) \in [Lists -> SUBSET Memory] /\ N \in [Lists -> SUBSET Memory]
    <3>1. FreeBut(g, Null) \in [Lists -> SUBSET Memory]
      BY <1>5, FreeButIs
    <3> HIDE DEF M, i
    <3> QED BY <3>1, <1>1, <1>2
  <2> HIDE DEF N
  <2> QED BY <2>1, <2>2
<1>7. Kept(g, m)
  <2> HIDE DEF N
  <2> QED BY <1>3, <1>5, <1>6 DEF Kept
<1> QED
  BY <1>3, <1>4, <1>7 DEF g, Listed

\* Being free, for a heap whose table is in order.
LEMMA IsFreeIs ==
  ASSUME NEW f, NEW m, NEW e, Shaped(f, m, e), NEW x
  PROVE  /\ x \in Addr => (IsFree(f, x) <=> x \in Headers(f) /\ f.hdr[x].free)
         /\ \A h \in Headers(f) : f.hdr[h].free \in BOOLEAN
<1>1. f \in Heap /\ Headers(f) \subseteq Addr
  BY DEF Shaped, Headers
<1> QED
  BY <1>1, HeapFields DEF IsFree, Headers

\* What is adjacent after two blocks were joined.
LEMMA JoinNoAdj ==
  ASSUME NEW f, NEW m, NEW a, NEW b, Adjacent(f, a, b),
         NEW h \in {a, b}, Loose(f, m, h), NoAdjBut(f, h),
         NEW g, Joined(f, g, a, b), Shaped(g, m, Null), Headers(g) = Headers(f) \ {b}
  PROVE  /\ NoAdjBut(g, a)
         /\ h = a => ~IsFree(g, a + g.hdr[a].sz)
         /\ h = b => /\ ~IsFree(f, h + f.hdr[h].sz) => ~IsFree(g, a + g.hdr[a].sz)
                     /\ \A c \in Headers(g) : c # a /\ g.hdr[c].free => c + g.hdr[c].sz # a
<1>0. /\ a \in Headers(f) /\ b \in Headers(f) /\ f.hdr[a].free /\ f.hdr[b].free
      /\ b = a + f.hdr[a].sz
  BY DEF Adjacent
<1>1. Shaped(f, m, h) /\ h \in Headers(f)
  BY DEF Loose
<1>2. /\ \A c \in Headers(f) : c \in Nat /\ c \in Addr /\ f.hdr[c].sz \in Nat /\ f.hdr[c].sz > 0
      /\ \A c, k \in Headers(f) : c < k => c + f.hdr[c].sz <= k
      /\ \A c \in Headers(f) : c + f.hdr[c].sz \in Addr
  <2>1. /\ \A c \in Headers(f) : c \in Nat /\ c \in Addr /\ f.hdr[c].sz \in Nat /\ f.hdr[c].sz > 0
        /\ \A c, k \in Headers(f) : c < k => c + f.hdr[c].sz <= k
    BY <1>1, Apart
  <2> QED BY <1>1, <2>1, Behind
<1>3. \A x \in Addr : IsFree(f, x) <=> x \in Headers(f) /\ f.hdr[x].free
  BY <1>1, IsFreeIs
<1>4. \A x \in Addr : IsFree(g, x) <=> x \in Headers(g) /\ g.hdr[x].free
  BY IsFreeIs
<1>5. /\ a \in Headers(f) /\ b \in Headers(f) /\ a # b /\ f.hdr[a].free /\ f.hdr[b].free
      /\ \A x \in Addr : x # a /\ x # b => g.hdr[x].sz = f.hdr[x].sz /\ g.hdr[x].free = f.hdr[x].free
      /\ g.hdr[a].sz = f.hdr[a].sz + f.hdr[b].sz
  <2>1. a \in Nat /\ f.hdr[a].sz \in Nat /\ f.hdr[a].sz > 0
    BY <1>0, <1>2
  <2> QED BY <1>0, <2>1 DEF Joined
<1>6. \A x \in Addr : IsFree(g, x) => IsFree(f, x) /\ x # b
  <2>1. \A x \in Headers(g) : x \in Headers(f) /\ x # b /\ x \in Addr
    BY <1>2
  <2> QED BY <1>3, <1>4, <1>5, <2>1
<1>7. a + g.hdr[a].sz = b + f.hdr[b].sz
  <2>1. a \in Nat /\ f.hdr[a].sz \in Nat /\ f.hdr[b].sz \in Nat
    BY <1>2, <1>5
  <2> QED BY <1>0, <1>5, <2>1
<1>8. ASSUME NEW c \in Headers(g), c # a
      PROVE  /\ c \in Headers(f) /\ c # b /\ c \in Addr /\ c # h
             /\ g.hdr[c].sz = f.hdr[c].sz /\ g.hdr[c].free = f.hdr[c].free
             /\ c + f.hdr[c].sz \in Addr
             /\ c + f.hdr[c].sz # b
  <2>1. c \in Headers(f) /\ c # b /\ c \in Addr
    BY <1>2
  <2>2. g.hdr[c].sz = f.hdr[c].sz /\ g.hdr[c].free = f.hdr[c].free /\ c + f.hdr[c].sz \in Addr
    BY <2>1, <1>2, <1>5, <1>8
  <2>3. c + f.hdr[c].sz # b
    <3>1. c < a => c + f.hdr[c].sz <= a
      BY <2>1, <1>2, <1>5
    <3>2. a < c => a + f.hdr[a].sz <= c
      BY <2>1, <1>2, <1>5
    <3>3. a \in Nat /\ f.hdr[a].sz \in Nat /\ f.hdr[a].sz > 0 /\ c \in Nat /\ f.hdr[c].sz \in Nat /\ f.hdr[c].sz > 0
      BY <2>1, <1>2, <1>5
    <3> QED BY <3>1, <3>2, <3>3, <1>0, <1>8
  <2> QED BY <2>1, <2>2, <2>3, <1>8
<1>9. NoAdjBut(g, a)
  <2>1. ASSUME NEW c \in Headers(g), c # a, g.hdr[c].free, c + g.hdr[c].sz # a,
               IsFree(g, c + g.hdr[c].sz)
        PROVE  FALSE
    <3>1. IsFree(f, c + f.hdr[c].sz) /\ c + f.hdr[c].sz # a /\ c + f.hdr[c].sz # b
      BY <2>1, <1>6, <1>8
    <3>2. c + f.hdr[c].sz # h
      BY <3>1
    <3> QED BY <3>1, <3>2, <2>1, <1>8 DEF NoAdjBut
  <2> QED BY <2>1 DEF NoAdjBut
<1>10. ASSUME h = a PROVE ~IsFree(g, a + g.hdr[a].sz)
  <2>1. ~IsFree(f, b + f.hdr[b].sz)
    <3>1. b \in Nat /\ f.hdr[b].sz \in Nat /\ f.hdr[b].sz > 0 /\ a \in Nat /\ f.hdr[a].sz \in Nat
      BY <1>0, <1>2
    <3>2. b + f.hdr[b].sz # h /\ b # h
      BY <3>1, <1>0, <1>5, <1>10
    <3> QED BY <3>2, <1>0 DEF NoAdjBut
  <2>2. b + f.hdr[b].sz \in Addr
    BY <1>2, <1>5
  <2> QED BY <2>1, <2>2, <1>6, <1>7
<1>11. ASSUME h = b
       PROVE  /\ ~IsFree(f, h + f.hdr[h].sz) => ~IsFree(g, a + g.hdr[a].sz)
              /\ \A c \in Headers(g) : c # a /\ g.hdr[c].free => c + g.hdr[c].sz # a
  <2>1. b + f.hdr[b].sz \in Addr
    BY <1>2, <1>5
  <2>2. ASSUME NEW c \in Headers(g), c # a, g.hdr[c].free, c + g.hdr[c].sz = a PROVE FALSE
    <3>1. c \in Headers(f) /\ c # h /\ f.hdr[c].free /\ c + f.hdr[c].sz = a /\ a # h
      BY <2>2, <1>5, <1>8, <1>11
    <3>2. ~IsFree(f, a)
      BY <3>1 DEF NoAdjBut
    <3> QED BY <3>2, <1>2, <1>3, <1>5
  <2> QED BY <2>1, <2>2, <1>6, <1>7, <1>11
<1> QED
  BY <1>9, <1>10, <1>11

------------------------------------------------------------------------------
(* Freeing: coalescing with the neighbours.                                *)

\* The second step of GC_freehblk.
MergedOf(f, h) ==
  IF IsFree(f, h + f.hdr[h].sz)
  THEN Coalesced(f, h + f.hdr[h].sz, h, h + f.hdr[h].sz)
  ELSE f

\* GC_freehblk merges the successor of the block if that is free.
LEMMA Merged ==
  ASSUME NEW f, NEW m, NEW h, Loose(f, m, h), f.hdr[h].free, NoAdjBut(f, h)
  PROVE  LET g == MergedOf(f, h)
         IN /\ Loose(g, m, h) /\ g.hdr[h].free /\ NoAdjBut(g, h)
            /\ ~IsFree(g, h + g.hdr[h].sz)
            /\ Total(g) + g.hdr[h].sz = Total(f) + f.hdr[h].sz
            /\ Headers(g) \subseteq Headers(f)
            /\ \A c \in Headers(f) : c + f.hdr[c].sz = h => c \in Headers(g)
            /\ \A c \in Headers(g) : c # h => g.hdr[c].sz = f.hdr[c].sz /\ g.hdr[c].free = f.hdr[c].free
<1> DEFINE g == MergedOf(f, h)
           o == h + f.hdr[h].sz
<1>1. Shaped(f, m, h) /\ h \in Headers(f) /\ f \in Heap
  BY DEF Loose, Shaped
<1>2. /\ \A c \in Headers(f) : c \in Nat /\ c \in Addr /\ f.hdr[c].sz \in Nat /\ f.hdr[c].sz > 0
      /\ o \in Addr
  <2>1. o \in Addr
    BY <1>1, Behind
  <2>2. Headers(f) \subseteq Addr /\ \A c \in Headers(f) : c \in Nat /\ f.hdr[c].sz \in Nat /\ f.hdr[c].sz > 0
    BY <1>1, Apart
  <2> QED BY <2>1, <2>2
<1>3. f.free_bytes \in [Lists -> Int] /\ Total(f) \in Int
  <2>1. f.free_bytes \in [Lists -> Int]
    BY <1>1, HeapFields
  <2> DEFINE w == f.free_bytes
  <2>2. DOMAIN w = Lists /\ \A i \in Lists : w[i] \in Int
    BY <2>1
  <2> HIDE DEF w
  <2>3. SumFunctionOnSet(w, Lists) \in Int
    BY <2>2, ListsFinite, SumOf
  <2> QED BY <2>1, <2>2, <2>3 DEF Total, SumFunction, w
<1>4. CASE IsFree(f, o)
  <2>1. o \in Headers(f) /\ f.hdr[o].free /\ o # h
    <3>1. o \in Headers(f) /\ f.hdr[o].free
      BY <1>1, <1>2, <1>4, IsFreeIs
    <3> QED BY <3>1, <1>1, <1>2
  <2>2. g = Coalesced(f, o, h, o)
    BY <1>4 DEF MergedOf
  <2> HIDE DEF g
  <2>3. /\ Loose(g, m, h) /\ Joined(f, g, h, o) /\ Headers(g) = Headers(f) \ {o}
        /\ Total(g) = Total(f) - f.hdr[o].sz
    <3> DEFINE v == Coalesced(f, o, h, o)
    <3>0. Adjacent(f, h, o)
      BY <1>1, <2>1 DEF Adjacent
    <3> HIDE DEF o
    <3>1. Loose(v, m, h) /\ Joined(f, v, h, o) /\ Headers(v) = Headers(f) \ {o} /\ Total(v) = Total(f) - f.hdr[o].sz
      <4>1. Are(h, o, h, o)
        BY DEF Are
      <4>2. Coalesces(f, v, m, o, h, o)
        BY <3>0, <4>1, Join
      <4> QED BY <4>2 DEF Coalesces
    <3> QED BY <3>1, <2>2
  <2>4. Shaped(g, m, Null) /\ g.hdr[h].free /\ g.hdr[h].sz = f.hdr[h].sz + f.hdr[o].sz
    <3>1. g.hdr[h].free /\ g.hdr[h].sz = f.hdr[h].sz + f.hdr[o].sz
      BY <2>3 DEF Joined
    <3>2. Shaped(g, m, h) /\ h \in Headers(g)
      BY <2>3 DEF Loose
    <3> QED BY <3>1, <3>2, LooseFree
  <2>5. NoAdjBut(g, h) /\ ~IsFree(g, h + g.hdr[h].sz)
    <3>0. Adjacent(f, h, o)
      BY <1>1, <2>1 DEF Adjacent
    <3> HIDE DEF o
    <3>1. /\ Loose(f, m, h) /\ NoAdjBut(f, h)
          /\ Joined(f, g, h, o) /\ Shaped(g, m, Null) /\ Headers(g) = Headers(f) \ {o}
      BY <2>1, <2>3, <2>4
    <3> QED BY <3>0, <3>1, JoinNoAdj
  <2>6. \A c \in Headers(f) : c + f.hdr[c].sz = h => c # o
    BY <1>1, <1>2, <2>1
  <2>7. \A c \in Headers(g) : c # h => g.hdr[c].sz = f.hdr[c].sz /\ g.hdr[c].free = f.hdr[c].free
    <3>1. \A c \in Headers(g) : c \in Addr /\ c # o
      BY <1>2, <2>3
    <3> QED BY <3>1, <2>3 DEF Joined
  <2>8. Total(g) + g.hdr[h].sz = Total(f) + f.hdr[h].sz
    BY <1>1, <1>2, <1>3, <2>1, <2>3, <2>4
  <2> QED BY <2>3, <2>4, <2>5, <2>6, <2>7, <2>8 DEF g
<1>5. CASE ~IsFree(f, o)
  <2>1. g = f
    BY <1>5 DEF MergedOf
  <2> QED BY <2>1, <1>5
<1> QED
  BY <1>4, <1>5

\* The rest of it.
GrownOf(f, h, p) ==
  IF p = Null THEN GC_add_to_fl(f, h)
  ELSE GC_add_to_fl(Coalesced(f, p, p, h), p)

\* GC_freehblk marks the block free, merges the successor and grows the predecessor.
LEMMA FreedInSteps ==
  ASSUME NEW f, NEW h, f.hdr[h].sz = BareOf(f, h).hdr[h].sz
  PROVE  Freed(f, h) = GrownOf(MergedOf(BareOf(f, h), h), h, GC_free_block_ending_at(f, h))
<1> DEFINE bare == BareOf(f, h)
           prev == GC_free_block_ending_at(f, h)
           Merge(o) == IF IsFree(bare, o)
                       THEN GC_remove_header([GC_remove_from_fl(bare, o, ListOf(bare, o))
                                                EXCEPT !.hdr[h].sz = @ + bare.hdr[o].sz], o)
                       ELSE bare
           merged == Merge(h + f.hdr[h].sz)
           grown == [GC_remove_from_fl(merged, prev, ListOf(merged, prev))
                       EXCEPT !.hdr[prev].sz = @ + merged.hdr[h].sz]
<1>1. Freed(f, h) = IF prev = Null THEN GC_add_to_fl(merged, h)
                    ELSE GC_add_to_fl(GC_remove_header(grown, h), prev)
  BY Zenon DEF Freed, BareOf
<1>2. merged = MergedOf(bare, h)
  <2>1. MergedOf(bare, h) = Merge(h + bare.hdr[h].sz)
    BY Zenon DEF MergedOf, Coalesced, Widened
  <2> HIDE DEF Merge, bare
  <2>2. f.hdr[h].sz = bare.hdr[h].sz
    BY DEF bare
  <2> QED BY <2>1, <2>2
<1>3. GrownOf(merged, h, prev) = IF prev = Null THEN GC_add_to_fl(merged, h)
                                 ELSE GC_add_to_fl(GC_remove_header(grown, h), prev)
  <2> HIDE DEF merged
  <2> QED BY Zenon DEF GrownOf, Coalesced, Widened
<1> HIDE DEF merged, grown, prev, bare
<1>4. Freed(f, h) = GrownOf(MergedOf(bare, h), h, prev)
  BY <1>1, <1>2, <1>3
<1> QED
  BY <1>4 DEF bare, prev

\* Blocks that a list is added for are free and not adjacent to free ones.
LEMMA AddedNoAdj ==
  ASSUME NEW f, NEW m, NEW h, Loose(f, m, h), f.hdr[h].free, NoAdjBut(f, h),
         ~IsFree(f, h + f.hdr[h].sz), \A c \in Headers(f) : c # h /\ f.hdr[c].free => c + f.hdr[c].sz # h
  PROVE  NoAdj(GC_add_to_fl(f, h))
<1> DEFINE g == GC_add_to_fl(f, h)
<1>1. Shaped(f, m, h) /\ h \in Headers(f)
  BY DEF Loose
<1>2. /\ Kept(g, m) /\ Headers(g) = Headers(f)
      /\ \A x \in Addr : /\ g.hdr[x].sz = f.hdr[x].sz
                         /\ g.hdr[x].free = IF x = h THEN TRUE ELSE f.hdr[x].free
  <2>1. Kept(g, m) /\ Headers(g) = Headers(f) /\ Listed(f, g, h)
    BY AddLoose
  <2> QED BY <2>1 DEF Listed
<1> HIDE DEF g
<1>3. Shaped(g, m, Null)
  BY <1>2 DEF Kept
<1>4. \A c \in Headers(f) : c \in Addr /\ c + f.hdr[c].sz \in Addr
  BY <1>1, Apart, Behind
<1>5. \A x \in Addr : IsFree(f, x) <=> x \in Headers(f) /\ f.hdr[x].free
  BY <1>1, IsFreeIs
<1>6. \A x \in Addr : IsFree(g, x) <=> x \in Headers(g) /\ g.hdr[x].free
  BY <1>3, IsFreeIs
<1>7. \A x \in Addr : IsFree(g, x) <=> IsFree(f, x)
  BY <1>1, <1>2, <1>5, <1>6
<1>8. ASSUME NEW c \in Headers(g), g.hdr[c].free, IsFree(g, c + g.hdr[c].sz) PROVE FALSE
  <2>1. c \in Headers(f) /\ f.hdr[c].free /\ IsFree(f, c + f.hdr[c].sz)
    BY <1>2, <1>4, <1>7, <1>8
  <2>2. c # h /\ c + f.hdr[c].sz # h
    BY <2>1
  <2> QED BY <2>1, <2>2 DEF NoAdjBut
<1>9. NoAdj(g)
  BY <1>8 DEF NoAdj
<1> QED
  BY <1>9 DEF g

\* GC_freehblk grows the predecessor if that is free, and else lists the block.
LEMMA Grown ==
  ASSUME NEW f, NEW m, NEW h, Loose(f, m, h), f.hdr[h].free, NoAdjBut(f, h), ~IsFree(f, h + f.hdr[h].sz),
         NEW p, p # Null => p \in Headers(f) /\ f.hdr[p].free /\ p + f.hdr[p].sz = h /\ p # h,
         p = Null => \A a \in Headers(f) : a # h /\ f.hdr[a].free => a + f.hdr[a].sz # h
  PROVE  LET g == GrownOf(f, h, p)
         IN Kept(g, m) /\ NoAdj(g) /\ Total(g) = Total(f) + f.hdr[h].sz
<1>1. CASE p = Null
  <2>1. GrownOf(f, h, p) = GC_add_to_fl(f, h)
    BY <1>1 DEF GrownOf
  <2>2. NoAdj(GC_add_to_fl(f, h))
    BY <1>1, AddedNoAdj
  <2>3. Kept(GC_add_to_fl(f, h), m) /\ Total(GC_add_to_fl(f, h)) = Total(f) + f.hdr[h].sz
    BY AddLoose
  <2> QED BY <2>1, <2>2, <2>3
<1>2. CASE p # Null
  <2> DEFINE g == Coalesced(f, p, p, h)
             j == GC_add_to_fl(g, p)
  <2>1. GrownOf(f, h, p) = j
    BY <1>2 DEF GrownOf
  <2>2. p \in Headers(f) /\ f.hdr[p].free /\ h = p + f.hdr[p].sz /\ p # h
    BY <1>2
  <2>0. Adjacent(f, p, h)
    <3>1. h \in Headers(f)
      BY DEF Loose
    <3> QED BY <2>2, <3>1 DEF Adjacent
  <2>3. /\ Loose(g, m, p) /\ Joined(f, g, p, h) /\ Headers(g) = Headers(f) \ {h}
        /\ Total(g) = Total(f) - f.hdr[p].sz
    <3>1. Are(h, p, p, h)
      BY DEF Are
    <3>2. Coalesces(f, g, m, p, p, h)
      BY <2>0, <3>1, Join
    <3> QED BY <3>2 DEF Coalesces
  <2> HIDE DEF g
  <2>4. g.hdr[p].free /\ g.hdr[p].sz = f.hdr[p].sz + f.hdr[h].sz /\ Shaped(g, m, Null)
    <3>1. g.hdr[p].free /\ g.hdr[p].sz = f.hdr[p].sz + f.hdr[h].sz
      BY <2>2, <2>3 DEF Joined
    <3>2. Shaped(g, m, p) /\ p \in Headers(g)
      BY <2>3 DEF Loose
    <3> QED BY <3>1, <3>2, LooseFree
  <2>5. /\ NoAdjBut(g, p) /\ ~IsFree(g, p + g.hdr[p].sz)
        /\ \A c \in Headers(g) : c # p /\ g.hdr[c].free => c + g.hdr[c].sz # p
    <3>1. /\ Adjacent(f, p, h) /\ Loose(f, m, h) /\ NoAdjBut(f, h)
          /\ Joined(f, g, p, h) /\ Shaped(g, m, Null) /\ Headers(g) = Headers(f) \ {h}
      BY <2>0, <2>2, <2>3, <2>4
    <3> QED BY <3>1, JoinNoAdj
  <2>6. NoAdj(j)
    BY <2>3, <2>4, <2>5, AddedNoAdj
  <2>7. Kept(j, m) /\ Total(j) = Total(g) + g.hdr[p].sz
    BY <2>3, AddLoose
  <2>8. Total(f) - f.hdr[p].sz + (f.hdr[p].sz + f.hdr[h].sz) = Total(f) + f.hdr[h].sz
    <3>1. f.hdr[p].sz \in Nat /\ f.hdr[h].sz \in Nat
      <4>1. Shaped(f, m, h) /\ h \in Headers(f)
        BY DEF Loose
      <4> QED BY <4>1, <2>2, Apart
    <3>2. Total(f) \in Int
      <4> DEFINE w == f.free_bytes
      <4>1. w \in [Lists -> Int]
        BY HeapFields DEF Loose, Shaped
      <4>2. DOMAIN w = Lists /\ \A i \in Lists : w[i] \in Int
        BY <4>1
      <4> HIDE DEF w
      <4>3. SumFunctionOnSet(w, Lists) \in Int
        BY <4>2, ListsFinite, SumOf
      <4> QED BY <4>2, <4>3 DEF Total, SumFunction, w
    <3> QED BY <3>1, <3>2
  <2> QED BY <2>1, <2>3, <2>4, <2>6, <2>7, <2>8
<1> QED
  BY <1>1, <1>2

\* GC_freehblk keeps the blocks apart and the lists right, coalesces, and adds the
\* block to the free ones.
FreesWell(f, g, m, h) == Kept(g, m) /\ NoAdj(g) /\ Total(g) = Total(f) + f.hdr[h].sz

\* What GC_freehblk makes of a heap in order is in order.
LEMMA FreedWell ==
  ASSUME NEW f, NEW m, NEW e, NEW h, Shaped(f, m, e), h \in Headers(f), e \in {h, Null},
         ~f.hdr[h].free, Chains(f, FreeBut(f, Null)), NoAdj(f)
  PROVE  FreesWell(f, Freed(f, h), m, h)
<1> DEFINE bare == BareOf(f, h)
           merged == MergedOf(bare, h)
           p == GC_free_block_ending_at(f, h)
           g == GrownOf(merged, h, p)
<1>1. /\ Loose(bare, m, h) /\ Total(bare) = Total(f) /\ Headers(bare) = Headers(f) /\ bare.hdr[h].free
      /\ \A x \in Addr : /\ bare.hdr[x].sz = f.hdr[x].sz
                         /\ x # h => bare.hdr[x].free = f.hdr[x].free
  BY Bare
<1>2. /\ \A c \in Headers(f) : c \in Addr /\ c \in Nat /\ f.hdr[c].sz \in Nat /\ f.hdr[c].sz > 0
      /\ \A c \in Headers(f) : c + f.hdr[c].sz \in Addr
  <2>1. Headers(f) \subseteq Addr /\ \A c \in Headers(f) : c \in Nat /\ f.hdr[c].sz \in Nat /\ f.hdr[c].sz > 0
    BY Apart
  <2>2. \A c \in Headers(f) : c + f.hdr[c].sz \in Addr
    BY Behind
  <2> QED BY <2>1, <2>2
<1>3. /\ p # Null => p \in Headers(f) /\ f.hdr[p].free /\ p + f.hdr[p].sz = h /\ p # h
      /\ p = Null => \A a \in Headers(f) : f.hdr[a].free => a + f.hdr[a].sz # h
  BY EndingAt
<1>4. Freed(f, h) = g
  <2>1. f.hdr[h].sz = bare.hdr[h].sz
    BY <1>1, <1>2
  <2> QED BY <2>1, FreedInSteps
<1> HIDE DEF bare, p
<1>5. NoAdjBut(bare, h)
  <2>1. ASSUME NEW a \in Headers(bare), a # h, bare.hdr[a].free, a + bare.hdr[a].sz # h,
               IsFree(bare, a + bare.hdr[a].sz)
        PROVE  FALSE
    <3>1. a \in Headers(f) /\ f.hdr[a].free /\ a + f.hdr[a].sz \in Addr /\ a + f.hdr[a].sz # h
          /\ IsFree(bare, a + f.hdr[a].sz)
      BY <2>1, <1>1, <1>2
    <3>2. Shaped(bare, m, h)
      BY <1>1 DEF Loose
    <3>3. a + f.hdr[a].sz \in Headers(f) /\ f.hdr[a + f.hdr[a].sz].free
      BY <3>1, <3>2, <1>1, IsFreeIs
    <3>4. IsFree(f, a + f.hdr[a].sz)
      BY <3>1, <3>3, IsFreeIs
    <3> QED BY <3>1, <3>4 DEF NoAdj
  <2> QED BY <2>1 DEF NoAdjBut
<1>6. /\ Loose(merged, m, h) /\ merged.hdr[h].free /\ NoAdjBut(merged, h)
      /\ ~IsFree(merged, h + merged.hdr[h].sz)
      /\ Total(merged) + merged.hdr[h].sz = Total(bare) + bare.hdr[h].sz
      /\ Headers(merged) \subseteq Headers(bare)
      /\ \A c \in Headers(bare) : c + bare.hdr[c].sz = h => c \in Headers(merged)
      /\ \A c \in Headers(merged) : c # h => merged.hdr[c].sz = bare.hdr[c].sz /\ merged.hdr[c].free = bare.hdr[c].free
  BY <1>1, <1>5, Merged
<1> HIDE DEF merged
<1>7. p # Null => p \in Headers(merged) /\ merged.hdr[p].free /\ p + merged.hdr[p].sz = h /\ p # h
  BY <1>1, <1>2, <1>3, <1>6
<1>8. p = Null => \A a \in Headers(merged) : a # h /\ merged.hdr[a].free => a + merged.hdr[a].sz # h
  <2>1. \A a \in Headers(merged) : a # h =>
          a \in Headers(f) /\ merged.hdr[a].sz = f.hdr[a].sz /\ merged.hdr[a].free = f.hdr[a].free
    BY <1>1, <1>2, <1>6
  <2> QED BY <2>1, <1>3
<1>9. Kept(g, m) /\ NoAdj(g) /\ Total(g) = Total(merged) + merged.hdr[h].sz
  BY <1>6, <1>7, <1>8, Grown
<1>10. Total(g) = Total(f) + f.hdr[h].sz
  <2>1. bare.hdr[h].sz = f.hdr[h].sz
    BY <1>1, <1>2
  <2> QED BY <2>1, <1>1, <1>6, <1>9
<1> QED
  BY <1>4, <1>9, <1>10 DEF FreesWell

------------------------------------------------------------------------------
(* Growing the heap.                                                       *)

\* A new section is a block in use without counts.
LEMMA SectionAdded ==
  ASSUME NEW f, NEW m, Kept(f, m), NoAdj(f), NEW s \in Sections, SectionBlocks(s) \cap m = {}
  PROVE  LET g == GC_install_header(f, s[1], s[2])
         IN /\ Shaped(g, m \cup SectionBlocks(s), s[1]) /\ s[1] \in Headers(g)
            /\ Chains(g, FreeBut(g, Null)) /\ NoAdj(g) /\ Total(g) = Total(f)
            /\ ~g.hdr[s[1]].free /\ g.hdr[s[1]].sz = s[2]
<1> DEFINE h == s[1]
           sz == s[2]
           g == GC_install_header(f, h, sz)
           m2 == m \cup SectionBlocks(s)
<1>1. /\ h \in Nat /\ sz \in Nat /\ sz > 0 /\ h # Null /\ h \in SectionBlocks(s) /\ SectionBlocks(s) = h .. h + sz - 1
      /\ SectionBlocks(s) \subseteq Memory /\ Memory \subseteq Addr /\ h \in Addr /\ h \in Memory
  <2>1. s \in (Nat \ {0}) \X (Nat \ {0})
    BY ConstantsAssumption
  <2>2. h \in Nat /\ sz \in Nat /\ sz > 0 /\ h # 0
    BY <2>1
  <2>3. SectionBlocks(s) \subseteq Memory /\ SectionBlocks(s) = h .. h + sz - 1
    BY DEF Memory, SectionBlocks
  <2>4. h \in SectionBlocks(s)
    BY <2>2, <2>3
  <2> QED BY <2>2, <2>3, <2>4, MemoryFinite DEF Null
<1> HIDE DEF h, sz
<1>2. /\ Shaped(f, m, Null) /\ Chains(f, FreeBut(f, Null)) /\ f \in Heap /\ m \subseteq Memory
      /\ f.index \in [Addr -> 0 .. IsHeader] /\ f.hdr \in [Addr -> Hdr]
  <2>1. Shaped(f, m, Null) /\ Chains(f, FreeBut(f, Null)) /\ f \in Heap /\ m \subseteq Memory
    BY DEF Kept, Shaped
  <2> QED BY <2>1, HeapFields
<1>3. /\ Headers(f) \subseteq m /\ Headers(f) \subseteq Addr
      /\ \A k \in Headers(f) : /\ k # Null /\ f.hdr[k].free \in BOOLEAN
                               /\ \A x \in BlocksOf(f, k) : x \in m
  <2>1. /\ Headers(f) \subseteq m /\ Headers(f) \subseteq Addr
        /\ \A k \in Headers(f) : k # Null /\ \A x \in BlocksOf(f, k) : x \in m
    BY <1>2, Apart
  <2> QED BY <2>1, <1>2, IsFreeIs
<1>4. h \notin m /\ h \notin Headers(f)
  BY <1>1, <1>3 DEF h
<1>5. /\ g \in Heap /\ g.fl = f.fl /\ g.free_bytes = f.free_bytes
      /\ g.index = [f.index EXCEPT ![h] = IsHeader]
      /\ g.hdr[h].sz = sz /\ g.hdr[h].free = FALSE /\ \A x \in Addr : x # h => g.hdr[x] = f.hdr[x]
  <2> DEFINE r == [NoHeader EXCEPT !.sz = sz]
  <2>0. f \in Heap /\ h \in Addr /\ sz \in Nat
    BY <1>1, <1>2
  <2>1. /\ g \in Heap /\ g.fl = f.fl /\ g.free_bytes = f.free_bytes
        /\ g.index = [f.index EXCEPT ![h] = IsHeader]
        /\ g.hdr = [f.hdr EXCEPT ![h] = r]
    BY <2>0, InstallHeaderSets, SMTT(40)
  <2>2. r.sz = sz /\ r.free = FALSE
    BY <1>1, NoHeaderType
  <2> HIDE DEF r, g
  <2> QED BY <2>1, <2>2, <1>1, <1>2
<1> HIDE DEF g
<1>6. Headers(g) = Headers(f) \cup {h}
  BY <1>1, <1>2, <1>5 DEF Headers, HasHeader
<1>7. /\ BlocksOf(g, h) = SectionBlocks(s)
      /\ \A k \in Headers(f) : /\ BlocksOf(g, k) = BlocksOf(f, k) /\ k # h
                               /\ g.hdr[k].sz = f.hdr[k].sz /\ g.hdr[k].free = f.hdr[k].free
  BY <1>1, <1>3, <1>4, <1>5 DEF BlocksOf
<1>8. Shaped(g, m2, h)
  <2>1. \A k \in Headers(g) : g.hdr[k].sz > 0 /\ BlocksOf(g, k) \subseteq m2
    BY <1>1, <1>2, <1>5, <1>6, <1>7 DEF Shaped
  <2>2. ASSUME NEW k \in Headers(g), NEW x \in BlocksOf(g, k), x # k
        PROVE  g.index[x] = IF g.hdr[k].free \/ k = h THEN 0 ELSE Count(x - k)
    <3>1. CASE k = h
      <4>1. x \in SectionBlocks(s) /\ x \in Addr /\ x # h
        BY <1>1, <1>7, <2>2, <3>1
      <4>2. \A j \in Headers(f) : x \notin BlocksOf(f, j)
        BY <4>1, <1>3
      <4>3. f.index[x] = 0
        BY <4>1, <4>2, <1>2 DEF Shaped
      <4> QED BY <3>1, <4>1, <4>3, <1>2, <1>5
    <3>2. CASE k # h
      <4>1. k \in Headers(f) /\ x \in BlocksOf(f, k) /\ g.hdr[k].free = f.hdr[k].free
        BY <1>6, <1>7, <2>2, <3>2
      <4>2. x \in m /\ x \in Addr /\ x # h /\ k # Null
        BY <4>1, <1>1, <1>2, <1>3, <1>4
      <4>3. f.index[x] = IF f.hdr[k].free \/ k = Null THEN 0 ELSE Count(x - k)
        BY <4>1, <1>2, <2>2 DEF Shaped
      <4>4. g.index[x] = f.index[x]
        BY <4>2, <1>2, <1>5
      <4> QED BY <3>2, <4>1, <4>2, <4>3, <4>4
    <3> QED BY <3>1, <3>2
  <2>3. ASSUME NEW x \in Addr, \A k \in Headers(g) : x \notin BlocksOf(g, k)
        PROVE  g.index[x] = 0
    <3>1. f.index[x] = 0
      BY <2>3, <1>2, <1>6, <1>7 DEF Shaped
    <3>2. x # h
      BY <2>3, <1>1, <1>6, <1>7
    <3> QED BY <3>1, <3>2, <1>2, <1>5
  <2>4. \A x \in Addr : x \notin Headers(g) => g.hdr[x] = NoHeader
    BY <1>2, <1>5, <1>6 DEF Shaped
  <2>5. m2 \subseteq Memory
    BY <1>1, <1>2
  <2> HIDE DEF m2
  <2> QED BY <1>5, <2>1, <2>2, <2>3, <2>4, <2>5 DEF Shaped
<1>9. FreeBut(g, Null) = FreeBut(f, Null)
  <2>1. \A k \in Headers(f) : ListOf(g, k) = ListOf(f, k)
    BY <1>7 DEF ListOf
  <2> QED BY <2>1, <1>5, <1>6, <1>7 DEF FreeBut
<1>10. Chains(g, FreeBut(g, Null)) /\ Total(g) = Total(f)
  <2> DEFINE M == FreeBut(f, Null)
  <2>0. ASSUME NEW i \in Lists, NEW k \in M[i] PROVE g.hdr[k] = f.hdr[k]
    <3>1. k \in Headers(f)
      BY <1>2, FreeButIs
    <3> QED BY <3>1, <1>3, <1>4, <1>5
  <2> HIDE DEF M
  <2>1. f \in Heap /\ g \in Heap /\ Chains(f, M) /\ g.fl = f.fl /\ g.free_bytes = f.free_bytes
    BY <1>2, <1>5 DEF M
  <2>2. \A i \in Lists : \A k \in M[i] :
          g.hdr[k].sz = f.hdr[k].sz /\ g.hdr[k].prev = f.hdr[k].prev /\ g.hdr[k].next = f.hdr[k].next
    BY <2>0
  <2>3. Chains(g, M) /\ Total(g) = Total(f)
    BY <2>1, <2>2, ChainsFrame
  <2> QED BY <2>3, <1>9 DEF M
<1>11. NoAdj(g)
  <2>1. ASSUME NEW a \in Headers(g), g.hdr[a].free, IsFree(g, a + g.hdr[a].sz) PROVE FALSE
    <3>1. a \in Headers(f) /\ f.hdr[a].free /\ IsFree(g, a + f.hdr[a].sz)
      BY <2>1, <1>5, <1>6, <1>7
    <3>2. a + f.hdr[a].sz \in Addr
      BY <3>1, <1>2, Behind
    <3>3. a + f.hdr[a].sz \in Headers(g) /\ g.hdr[a + f.hdr[a].sz].free
      BY <3>1, <3>2, <1>8, IsFreeIs
    <3>4. a + f.hdr[a].sz \in Headers(f) /\ f.hdr[a + f.hdr[a].sz].free
      BY <3>3, <1>5, <1>6, <1>7
    <3>5. IsFree(f, a + f.hdr[a].sz)
      BY <3>2, <3>4, <1>2, IsFreeIs
    <3> QED BY <3>1, <3>5 DEF NoAdj
  <2> QED BY <2>1 DEF NoAdj
<1> QED
  BY <1>5, <1>6, <1>8, <1>10, <1>11 DEF h, sz, g, m2

------------------------------------------------------------------------------
(* Dividing a block.                                                       *)

\* The forwarding count GC_install_counts writes.
LEMMA MinIsCount ==
  ASSUME NEW d \in Nat
  PROVE  Min({d, MAX_JUMP}) = Count(d)
<1>1. MAX_JUMP \in Nat
  BY ConstantsAssumption
<1>2. {d, MAX_JUMP} \in SUBSET Nat /\ {d, MAX_JUMP} # {}
  BY <1>1
<1>3. Min({d, MAX_JUMP}) \in {d, MAX_JUMP} /\ \A y \in {d, MAX_JUMP} : Min({d, MAX_JUMP}) <= y
  BY <1>2, MinOf
<1> QED
  BY <1>1, <1>3 DEF Count

\* In g the free block h of f is divided into its first k blocks, which may be in
\* use, and the rest, which is free.
Divided(f, g, h, k, used) ==
  /\ g \in Heap
  /\ \A x \in Addr : g.index[x] = IF x = h + k THEN IsHeader
                                  ELSE IF used /\ x \in Inside(h, k) THEN Count(x - h) ELSE f.index[x]
  /\ g.hdr[h].sz = k /\ (g.hdr[h].free <=> ~used)
  /\ g.hdr[h + k].sz = f.hdr[h].sz - k /\ g.hdr[h + k].free
  /\ \A x \in Addr : x # h /\ x # h + k =>
       /\ g.hdr[x].sz = f.hdr[x].sz /\ g.hdr[x].free = f.hdr[x].free
       /\ x \notin Headers(f) => g.hdr[x] = f.hdr[x]

Divides(f, g, m, r) ==
  Shaped(g, m, Null) /\ Headers(g) = Headers(f) \cup {r} /\ r \notin Headers(f) /\ r \in Memory

\* A free block that is divided in two keeps the header table in order.
LEMMA DivideShaped ==
  ASSUME NEW f, NEW m, Shaped(f, m, Null), NEW h \in Headers(f), f.hdr[h].free,
         NEW k \in Nat, 0 < k, k < f.hdr[h].sz, NEW used \in BOOLEAN,
         NEW g, Divided(f, g, h, k, used)
  PROVE  Divides(f, g, m, h + k)
<1> DEFINE r == h + k
           sz == f.hdr[h].sz
<1>1. /\ f \in Heap /\ g \in Heap /\ m \subseteq Memory /\ Memory \subseteq Addr
      /\ f.index \in [Addr -> 0 .. IsHeader] /\ MAX_JUMP \in Nat /\ MAX_JUMP > 0
      /\ Headers(f) \subseteq Addr
      /\ \A c \in Headers(f) : /\ c \in Nat /\ c \in Addr /\ f.hdr[c].sz \in Nat /\ f.hdr[c].sz > 0 /\ c # Null
                               /\ \A a \in BlocksOf(f, c) : a \in Addr /\ a \in Nat /\ a \in m
      /\ \A c, j \in Headers(f) : c < j => c + f.hdr[c].sz <= j
  <2>1. f \in Heap /\ g \in Heap /\ m \subseteq Memory
    BY DEF Shaped, Divided
  <2>2. /\ Headers(f) \subseteq Addr
        /\ \A c \in Headers(f) : /\ c \in Nat /\ c \in Addr /\ f.hdr[c].sz \in Nat /\ f.hdr[c].sz > 0 /\ c # Null
                                 /\ \A a \in BlocksOf(f, c) : a \in Addr /\ a \in Nat /\ a \in m
        /\ \A c, j \in Headers(f) : c < j => c + f.hdr[c].sz <= j
    BY Apart
  <2> QED BY <2>1, <2>2, HeapFields, MemoryFinite, ConstantsAssumption
<1>2. /\ h \in Nat /\ sz \in Nat /\ r \in BlocksOf(f, h) /\ r # h /\ r \in Addr /\ r \in Nat /\ r \in Memory
      /\ h \in Addr /\ k < sz /\ r = h + k
  <2>1. h \in Nat /\ sz \in Nat /\ h \in Addr
    BY <1>1
  <2>2. r \in BlocksOf(f, h) /\ r # h
    BY <2>1 DEF BlocksOf
  <2> QED BY <2>1, <2>2, <1>1
<1>3. f.index[r] = 0 /\ r \notin Headers(f)
  <2>1. f.index[r] = 0
    BY <1>2 DEF Shaped
  <2> QED BY <2>1, <1>1 DEF Headers, HasHeader, IsHeader
<1>4. /\ \A x \in Addr : g.index[x] = IF x = r THEN IsHeader
                                  ELSE IF used /\ x \in Inside(h, k) THEN Count(x - h) ELSE f.index[x]
      /\ g.hdr[h].sz = k /\ (g.hdr[h].free <=> ~used)
      /\ g.hdr[r].sz = sz - k /\ g.hdr[r].free
      /\ \A x \in Addr : x # h /\ x # r =>
           /\ g.hdr[x].sz = f.hdr[x].sz /\ g.hdr[x].free = f.hdr[x].free
           /\ x \notin Headers(f) => g.hdr[x] = f.hdr[x]
  BY DEF Divided
<1>5. BlocksOf(f, h) = h .. h + sz - 1 /\ BlocksOf(g, h) = h .. r - 1 /\ BlocksOf(g, r) = r .. h + sz - 1
  <2>1. r + (sz - k) = h + sz
    BY <1>2
  <2>2. BlocksOf(g, h) = h .. h + k - 1
    BY <1>4, Zenon DEF BlocksOf
  <2>3. BlocksOf(g, r) = r .. r + (sz - k) - 1
    BY <1>4, Zenon DEF BlocksOf
  <2>4. h + k - 1 = r - 1 /\ r + (sz - k) - 1 = h + sz - 1
    BY <1>2
  <2>5. BlocksOf(g, h) = h .. r - 1 /\ BlocksOf(g, r) = r .. h + sz - 1
    <3> HIDE DEF r, sz
    <3> QED BY <2>2, <2>3, <2>4
  <2> QED BY <2>5 DEF BlocksOf
<1>6. Inside(h, k) = h + 1 .. r - 1
  <2>1. Inside(h, k) = h + 1 .. h + k - 1
    BY Zenon DEF Inside
  <2>2. h + k - 1 = r - 1
    BY <1>2
  <2> HIDE DEF r
  <2> QED BY <2>1, <2>2
<1> HIDE DEF r, sz
<1>7. \A x \in Inside(h, k) : x \in BlocksOf(f, h) /\ x # h /\ x # r /\ x \in Addr /\ x \notin Headers(f)
  <2>1. ASSUME NEW x \in Inside(h, k)
        PROVE  x \in BlocksOf(f, h) /\ x # h /\ x # r /\ x \in Addr
    <3>1. x \in h + 1 .. r - 1
      BY <1>6
    <3>2. x \in h .. h + sz - 1 /\ x # h /\ x # r
      BY <3>1, <1>2
    <3> QED BY <3>2, <1>1, <1>5
  <2>2. ASSUME NEW x \in Inside(h, k) PROVE x \notin Headers(f)
    <3>1. f.index[x] = 0
      BY <2>1 DEF Shaped
    <3> QED BY <3>1, <1>1 DEF Headers, HasHeader, IsHeader
  <2> QED BY <2>1, <2>2
<1>8. \A x \in Addr : x \in Inside(h, k) => Count(x - h) # IsHeader
  <2>1. ASSUME NEW x \in Addr, x \in Inside(h, k) PROVE Count(x - h) # IsHeader
    <3>1. x - h \in Int
      BY <2>1, <1>2, MemoryFinite
    <3> QED BY <3>1, <1>1 DEF Count, IsHeader
  <2> QED BY <2>1
<1>9. Headers(g) = Headers(f) \cup {r}
  <2>1. ASSUME NEW x \in Addr PROVE HasHeader(g, x) <=> HasHeader(f, x) \/ x = r
    <3>1. CASE x \in Inside(h, k)
      <4>1. ~HasHeader(f, x) /\ x # r
        BY <2>1, <3>1, <1>7 DEF Headers
      <4> QED BY <2>1, <3>1, <4>1, <1>4, <1>8 DEF HasHeader
    <3>2. CASE x \notin Inside(h, k)
      BY <2>1, <3>2, <1>4 DEF HasHeader
    <3> QED BY <3>1, <3>2
  <2> QED BY <2>1, <1>2 DEF Headers
<1>10. \A c \in Headers(f) : c # h =>
         /\ c # r /\ BlocksOf(g, c) = BlocksOf(f, c) /\ g.hdr[c].free = f.hdr[c].free
         /\ g.hdr[c].sz = f.hdr[c].sz
  BY <1>1, <1>3, <1>4 DEF BlocksOf
<1>11. \A x \in Nat : x \in BlocksOf(f, h) <=> x \in BlocksOf(g, h) \/ x \in BlocksOf(g, r)
  BY <1>2, <1>5
<1>12. \A c \in Headers(g) : g.hdr[c].sz > 0 /\ BlocksOf(g, c) \subseteq m
  <2>1. ASSUME NEW c \in Headers(g), c # h, c # r PROVE g.hdr[c].sz > 0 /\ BlocksOf(g, c) \subseteq m
    BY <2>1, <1>1, <1>9, <1>10
  <2>2. g.hdr[h].sz > 0 /\ g.hdr[r].sz > 0
    BY <1>2, <1>4
  <2>3. BlocksOf(g, h) \subseteq m /\ BlocksOf(g, r) \subseteq m
    <3>1. \A x \in BlocksOf(g, h) \cup BlocksOf(g, r) : x \in Nat
      BY <1>2, <1>5
    <3> QED BY <3>1, <1>1, <1>11
  <2> QED BY <2>1, <2>2, <2>3
<1>13. ASSUME NEW c \in Headers(g), NEW x \in BlocksOf(g, c), x # c
       PROVE  g.index[x] = IF g.hdr[c].free \/ c = Null THEN 0 ELSE Count(x - c)
  <2>0. x \in Addr /\ x \in Nat
    BY <1>1, <1>12, MemoryFinite
  <2>1. CASE c = h
    <3>1. x \in Inside(h, k) /\ x # r
      BY <1>2, <1>5, <1>6, <1>13, <2>1
    <3>2. f.index[x] = 0
      BY <3>1, <1>7 DEF Shaped
    <3>3. h # Null
      BY <1>1
    <3> QED BY <3>1, <3>2, <3>3, <2>0, <2>1, <1>4
  <2>2. CASE c = r
    <3>1. x \in BlocksOf(f, h) /\ x # h /\ x # r /\ x \notin Inside(h, k)
      <4>1. x \in r .. h + sz - 1 /\ x # r
        BY <1>5, <1>13, <2>2
      <4>2. x >= r /\ x <= h + sz - 1 /\ r > h
        BY <4>1, <1>2, <2>0
      <4>3. x \notin h + 1 .. r - 1
        BY <4>2, <1>2, <2>0
      <4>4. x \in h .. h + sz - 1 /\ x # h
        BY <4>2, <1>2, <2>0
      <4> QED BY <4>1, <4>3, <4>4, <1>5, <1>6
    <3>2. f.index[x] = 0
      BY <3>1 DEF Shaped
    <3> QED BY <3>1, <3>2, <2>0, <2>2, <1>4
  <2>3. CASE c # h /\ c # r
    <3>1. c \in Headers(f) /\ x \in BlocksOf(f, c) /\ g.hdr[c].free = f.hdr[c].free
      BY <1>9, <1>10, <2>3
    <3>2. x \notin BlocksOf(f, h)
      <4>1. SUFFICES ASSUME x \in BlocksOf(f, h) PROVE FALSE
        OBVIOUS
      <4>2. h <= x /\ x < h + sz /\ c <= x /\ x < c + f.hdr[c].sz
        <5>1. x \in h .. h + sz - 1 /\ x \in c .. c + f.hdr[c].sz - 1
          BY <3>1, <4>1, <1>5 DEF BlocksOf
        <5>2. c \in Nat /\ f.hdr[c].sz \in Nat
          BY <3>1, <1>1
        <5> QED BY <5>1, <5>2, <2>0, <1>2
      <4>3. (c < h => c + f.hdr[c].sz <= h) /\ (h < c => h + sz <= c)
        BY <3>1, <1>1 DEF sz
      <4> QED BY <3>1, <4>2, <4>3, <2>0, <2>3, <1>1, <1>2
    <3>3. x # r /\ x \notin Inside(h, k)
      BY <3>2, <1>2, <1>7
    <3>4. f.index[x] = IF f.hdr[c].free \/ c = Null THEN 0 ELSE Count(x - c)
      BY <3>1, <1>13 DEF Shaped
    <3> QED BY <3>1, <3>3, <3>4, <2>0, <1>4
  <2> QED BY <2>1, <2>2, <2>3
<1>14. ASSUME NEW x \in Addr, \A c \in Headers(g) : x \notin BlocksOf(g, c) PROVE g.index[x] = 0
  <2>0. x \in Nat
    BY MemoryFinite
  <2>1. h \in Headers(g) /\ r \in Headers(g)
    BY <1>9
  <2>2. x \notin BlocksOf(f, h)
    BY <2>0, <2>1, <1>11, <1>14
  <2>3. \A c \in Headers(f) : x \notin BlocksOf(f, c)
    BY <2>2, <1>9, <1>10, <1>14
  <2>4. f.index[x] = 0 /\ x # r /\ x \notin Inside(h, k)
    BY <2>2, <2>3, <1>2, <1>7 DEF Shaped
  <2> QED BY <2>4, <1>4
<1>15. \A x \in Addr : x \notin Headers(g) => g.hdr[x] = NoHeader
  BY <1>4, <1>9 DEF Shaped
<1> QED
  BY <1>1, <1>2, <1>3, <1>9, <1>12, <1>13, <1>14, <1>15 DEF Shaped, r, Divides

\* InUse: the first k blocks from h on are a block in use.
InUseIs(f, g, h, k) ==
  /\ g \in Heap /\ g.fl = f.fl /\ g.free_bytes = f.free_bytes
  /\ \A x \in Addr : g.index[x] = IF x \in Inside(h, k) THEN Count(x - h)
                                  ELSE IF x = h THEN IsHeader ELSE f.index[x]
  /\ g.hdr[h].sz = k /\ ~g.hdr[h].free
  /\ \A x \in Addr : x # h => g.hdr[x] = f.hdr[x]

\* What setup_header and GC_install_counts set.
LEMMA InUseSets ==
  ASSUME NEW f \in Heap, NEW h \in Addr, NEW k \in Nat
  PROVE  InUseIs(f, InUse(f, h, k), h, k)
<1> DEFINE r == [NoHeader EXCEPT !.sz = k]
           u == GC_install_header(f, h, k)
           X == [x \in Addr |-> IF x \in Inside(h, k) THEN Min({x - h, MAX_JUMP}) ELSE u.index[x]]
           g == [u EXCEPT !.index = X]
<1>1. g = InUse(f, h, k)
  BY DEF InUse, GC_install_counts
<1>2. /\ u \in Heap /\ u.fl = f.fl /\ u.free_bytes = f.free_bytes
      /\ u.index = [f.index EXCEPT ![h] = IsHeader] /\ u.hdr = [f.hdr EXCEPT ![h] = r]
  BY InstallHeaderSets
<1>3. r.sz = k /\ r.free = FALSE
  BY NoHeaderType
<1> HIDE DEF r, u
<1>4. f.index \in [Addr -> 0 .. IsHeader] /\ u.index \in [Addr -> 0 .. IsHeader] /\ f.hdr \in [Addr -> Hdr]
      /\ h \in Nat /\ Addr \subseteq Nat /\ MAX_JUMP \in Nat /\ MAX_JUMP > 0
  BY <1>2, HeapFields, MemoryFinite, ConstantsAssumption
<1>5. \A x \in Addr : x \in Inside(h, k) =>
        Min({x - h, MAX_JUMP}) = Count(x - h) /\ Count(x - h) \in 0 .. IsHeader /\ x # h
  <2>1. ASSUME NEW x \in Addr, x \in Inside(h, k)
        PROVE  Min({x - h, MAX_JUMP}) = Count(x - h) /\ Count(x - h) \in 0 .. IsHeader /\ x # h
    <3>1. x - h \in Nat /\ x # h
      BY <2>1, <1>4 DEF Inside
    <3>2. Min({x - h, MAX_JUMP}) = Count(x - h)
      BY <3>1, MinIsCount
    <3>3. Count(x - h) \in 0 .. IsHeader
      BY <3>1, <1>4 DEF Count, IsHeader
    <3> QED BY <3>1, <3>2, <3>3
  <2> QED BY <2>1
<1>6. /\ X \in [Addr -> 0 .. IsHeader]
      /\ \A x \in Addr : X[x] = IF x \in Inside(h, k) THEN Count(x - h) ELSE u.index[x]
  BY <1>4, <1>5
<1> HIDE DEF X
<1>7. g \in Heap /\ g.hdr = u.hdr /\ g.index = X /\ g.fl = u.fl /\ g.free_bytes = u.free_bytes
  BY <1>2, <1>6, IndexSet
<1> HIDE DEF g
<1>8. \A x \in Addr : g.index[x] = IF x \in Inside(h, k) THEN Count(x - h)
                                   ELSE IF x = h THEN IsHeader ELSE f.index[x]
  BY <1>2, <1>4, <1>6, <1>7
<1>9. g.hdr[h].sz = k /\ ~g.hdr[h].free /\ \A x \in Addr : x # h => g.hdr[x] = f.hdr[x]
  BY <1>2, <1>3, <1>4, <1>7
<1> QED
  BY <1>1, <1>2, <1>7, <1>8, <1>9 DEF InUseIs

\* A free block that is taken altogether.
LEMMA TakenShaped ==
  ASSUME NEW f, NEW m, Shaped(f, m, Null), NEW h \in Headers(f), f.hdr[h].free,
         NEW g, InUseIs(f, g, h, f.hdr[h].sz)
  PROVE  Shaped(g, m, Null) /\ Headers(g) = Headers(f)
<1> DEFINE sz == f.hdr[h].sz
<1>1. /\ f \in Heap /\ g \in Heap /\ m \subseteq Memory /\ Memory \subseteq Addr
      /\ f.index \in [Addr -> 0 .. IsHeader] /\ MAX_JUMP \in Nat /\ MAX_JUMP > 0
      /\ Headers(f) \subseteq Addr
      /\ \A c \in Headers(f) : /\ c \in Nat /\ c \in Addr /\ f.hdr[c].sz \in Nat /\ f.hdr[c].sz > 0 /\ c # Null
                               /\ \A a \in BlocksOf(f, c) : a \in Addr /\ a \in Nat /\ a \in m
      /\ \A c, j \in Headers(f) : c < j => c + f.hdr[c].sz <= j
  <2>1. f \in Heap /\ g \in Heap /\ m \subseteq Memory
    BY DEF Shaped, InUseIs
  <2>2. /\ Headers(f) \subseteq Addr
        /\ \A c \in Headers(f) : /\ c \in Nat /\ c \in Addr /\ f.hdr[c].sz \in Nat /\ f.hdr[c].sz > 0 /\ c # Null
                                 /\ \A a \in BlocksOf(f, c) : a \in Addr /\ a \in Nat /\ a \in m
        /\ \A c, j \in Headers(f) : c < j => c + f.hdr[c].sz <= j
    BY Apart
  <2> QED BY <2>1, <2>2, HeapFields, MemoryFinite, ConstantsAssumption
<1>2. /\ \A x \in Addr : g.index[x] = IF x \in Inside(h, sz) THEN Count(x - h)
                                      ELSE IF x = h THEN IsHeader ELSE f.index[x]
      /\ g.hdr[h].sz = sz /\ ~g.hdr[h].free
      /\ \A x \in Addr : x # h => g.hdr[x] = f.hdr[x]
  BY DEF InUseIs
<1>3. \A x \in Inside(h, sz) : x \in BlocksOf(f, h) /\ x # h /\ x \in Addr
  <2>1. ASSUME NEW x \in Inside(h, sz) PROVE x \in BlocksOf(f, h) /\ x # h
    <3>1. h \in Nat /\ sz \in Nat
      BY <1>1
    <3> QED BY <3>1 DEF Inside, BlocksOf
  <2> QED BY <2>1, <1>1
<1>4. \A x \in BlocksOf(f, h) : x # h => x \in Inside(h, sz)
  <2>1. h \in Nat /\ sz \in Nat
    BY <1>1
  <2> QED BY <2>1 DEF Inside, BlocksOf
<1> HIDE DEF sz
<1>5. f.index[h] = IsHeader
  BY DEF Headers, HasHeader
<1>6. ASSUME NEW x \in Inside(h, sz) PROVE f.index[x] # IsHeader /\ Count(x - h) # IsHeader
  <2>1. f.index[x] = 0
    BY <1>3 DEF Shaped
  <2>2. x - h \in Int
    BY <1>1, <1>3
  <2> QED BY <2>1, <2>2, <1>1 DEF Count, IsHeader
<1>7. Headers(g) = Headers(f)
  <2>1. \A x \in Addr : HasHeader(g, x) <=> HasHeader(f, x)
    BY <1>2, <1>5, <1>6 DEF HasHeader
  <2> QED BY <2>1 DEF Headers
<1>8. \A c \in Headers(f) : BlocksOf(g, c) = BlocksOf(f, c) /\ g.hdr[c].sz = f.hdr[c].sz
  BY <1>1, <1>2 DEF BlocksOf, sz
<1>9. ASSUME NEW c \in Headers(g), NEW x \in BlocksOf(g, c), x # c
      PROVE  g.index[x] = IF g.hdr[c].free \/ c = Null THEN 0 ELSE Count(x - c)
  <2>0. c \in Headers(f) /\ x \in BlocksOf(f, c) /\ x \in Addr /\ x \in Nat /\ c # Null
    BY <1>1, <1>7, <1>8, <1>9
  <2>1. CASE c = h
    BY <2>0, <2>1, <1>2, <1>4, <1>9
  <2>2. CASE c # h
    <3>1. x \notin BlocksOf(f, h)
      <4>1. SUFFICES ASSUME x \in BlocksOf(f, h) PROVE FALSE
        OBVIOUS
      <4>2. h <= x /\ x < h + f.hdr[h].sz /\ c <= x /\ x < c + f.hdr[c].sz
        <5>1. x \in h .. h + f.hdr[h].sz - 1 /\ x \in c .. c + f.hdr[c].sz - 1
          BY <2>0, <4>1 DEF BlocksOf
        <5>2. c \in Nat /\ f.hdr[c].sz \in Nat /\ h \in Nat /\ f.hdr[h].sz \in Nat
          BY <2>0, <1>1
        <5> QED BY <5>1, <5>2, <2>0
      <4>3. (c < h => c + f.hdr[c].sz <= h) /\ (h < c => h + f.hdr[h].sz <= c)
        BY <2>0, <1>1
      <4>4. c \in Nat /\ f.hdr[c].sz \in Nat /\ h \in Nat /\ f.hdr[h].sz \in Nat
        BY <2>0, <1>1
      <4> QED BY <4>2, <4>3, <4>4, <2>0, <2>2
    <3>2. h \in BlocksOf(f, h)
      BY Apart
    <3>3. x # h /\ x \notin Inside(h, sz)
      BY <3>1, <3>2, <1>3
    <3>4. f.index[x] = IF f.hdr[c].free \/ c = Null THEN 0 ELSE Count(x - c)
      BY <2>0, <1>9 DEF Shaped
    <3>5. c \in Addr
      BY <2>0, <1>1
    <3> QED BY <3>3, <3>4, <3>5, <2>0, <2>2, <1>2
  <2> QED BY <2>1, <2>2
<1>10. ASSUME NEW x \in Addr, \A c \in Headers(g) : x \notin BlocksOf(g, c) PROVE g.index[x] = 0
  <2>1. \A c \in Headers(f) : x \notin BlocksOf(f, c)
    BY <1>7, <1>8, <1>10
  <2>2. h \in BlocksOf(f, h)
    BY Apart
  <2>3. x # h /\ x \notin Inside(h, sz)
    BY <2>1, <2>2, <1>3
  <2>4. f.index[x] = 0
    BY <2>1 DEF Shaped
  <2> QED BY <2>3, <2>4, <1>2
<1>11. \A c \in Headers(g) : g.hdr[c].sz > 0 /\ BlocksOf(g, c) \subseteq m
  BY <1>7, <1>8 DEF Shaped
<1>12. \A x \in Addr : x \notin Headers(g) => g.hdr[x] = NoHeader
  BY <1>2, <1>7 DEF Shaped
<1> QED
  BY <1>1, <1>7, <1>9, <1>10, <1>11, <1>12 DEF Shaped

------------------------------------------------------------------------------
(* Handing out the first part of a block.                                  *)

\* What is left of the block h after its first k blocks gets a header.
PartOf(f, h, k) ==
  IF f.hdr[h].sz = k THEN f
  ELSE GC_add_to_fl(GC_install_header(f, h + k, f.hdr[h].sz - k), h + k)

\* k blocks of h are in use in g, and the rest is free.
TakesWell(f, g, m, h, k) == Kept(g, m) /\ NoAdj(g) /\ Total(g) = Total(f) + (f.hdr[h].sz - k)

\* GC_large_free_bytes is a number.
LEMMA TotalIsInt ==
  ASSUME NEW f \in Heap
  PROVE  Total(f) \in Int
<1> DEFINE w == f.free_bytes
<1>1. w \in [Lists -> Int]
  BY HeapFields
<1>2. DOMAIN w = Lists /\ \A i \in Lists : w[i] \in Int
  BY <1>1
<1> HIDE DEF w
<1>3. SumFunctionOnSet(w, Lists) \in Int
  BY <1>2, ListsFinite, SumOf
<1> QED BY <1>2, <1>3 DEF Total, SumFunction, w

\* A block off its list that is handed out as a whole.
LEMMA TakeAll ==
  ASSUME NEW f, NEW m, NEW h, Loose(f, m, h), f.hdr[h].free, NoAdjBut(f, h)
  PROVE  TakesWell(f, InUse(f, h, f.hdr[h].sz), m, h, f.hdr[h].sz)
<1> DEFINE k == f.hdr[h].sz
           g == InUse(f, h, k)
           M == FreeBut(f, h)
<1>1. /\ Shaped(f, m, Null) /\ Shaped(f, m, h) /\ h \in Headers(f) /\ f \in Heap /\ Chains(f, M)
  <2>1. Shaped(f, m, h) /\ h \in Headers(f) /\ f \in Heap /\ Chains(f, M)
    BY DEF Loose, Shaped
  <2> QED BY <2>1, LooseFree
<1>2. /\ h \in Addr /\ k \in Nat /\ \A c \in Headers(f) : c \in Addr /\ c # Null /\ f.hdr[c].free \in BOOLEAN
  <2>1. Headers(f) \subseteq Addr /\ \A c \in Headers(f) : c # Null /\ f.hdr[c].sz \in Nat
    BY <1>1, Apart
  <2> QED BY <2>1, <1>1, IsFreeIs
<1>3. InUseIs(f, g, h, k)
  BY <1>1, <1>2, InUseSets
<1> HIDE DEF g
<1>4. Shaped(g, m, Null) /\ Headers(g) = Headers(f)
  BY <1>1, <1>3, TakenShaped
<1>5. /\ g \in Heap /\ g.fl = f.fl /\ g.free_bytes = f.free_bytes
      /\ ~g.hdr[h].free /\ \A x \in Addr : x # h => g.hdr[x] = f.hdr[x]
  BY <1>3 DEF InUseIs
<1>6. FreeBut(g, Null) = M
  <2>1. ASSUME NEW c \in Headers(f)
        PROVE  (c # Null /\ g.hdr[c].free <=> c # h /\ f.hdr[c].free)
               /\ (c # h => ListOf(g, c) = ListOf(f, c))
    <3>1. CASE c = h
      BY <3>1, <1>5
    <3>2. CASE c # h
      BY <3>2, <1>2, <1>5 DEF ListOf
    <3> QED BY <3>1, <3>2
  <2> QED BY <2>1, <1>4 DEF FreeBut
<1>7. Chains(g, M) /\ Total(g) = Total(f)
  <2>0. ASSUME NEW i \in Lists, NEW c \in M[i] PROVE g.hdr[c] = f.hdr[c]
    <3>1. c \in Headers(f) /\ c # h
      BY <1>1, FreeButIs
    <3> QED BY <3>1, <1>2, <1>5
  <2> HIDE DEF M
  <2>1. f \in Heap /\ g \in Heap /\ Chains(f, M) /\ g.fl = f.fl /\ g.free_bytes = f.free_bytes
    BY <1>1, <1>5
  <2>2. \A i \in Lists : \A c \in M[i] :
          g.hdr[c].sz = f.hdr[c].sz /\ g.hdr[c].prev = f.hdr[c].prev /\ g.hdr[c].next = f.hdr[c].next
    BY <2>0
  <2> QED BY <2>1, <2>2, ChainsFrame
<1>8. NoAdj(g)
  <2>1. ASSUME NEW a \in Headers(g), g.hdr[a].free, IsFree(g, a + g.hdr[a].sz) PROVE FALSE
    <3>1. a \in Headers(f) /\ a # h /\ f.hdr[a].free /\ IsFree(g, a + f.hdr[a].sz)
      BY <2>1, <1>2, <1>4, <1>5
    <3>2. a + f.hdr[a].sz \in Addr
      BY <3>1, <1>1, Behind
    <3>3. a + f.hdr[a].sz \in Headers(g) /\ g.hdr[a + f.hdr[a].sz].free
      BY <3>1, <3>2, <1>4, IsFreeIs
    <3>4. a + f.hdr[a].sz \in Headers(f) /\ f.hdr[a + f.hdr[a].sz].free /\ a + f.hdr[a].sz # h
      BY <3>2, <3>3, <1>4, <1>5
    <3>5. IsFree(f, a + f.hdr[a].sz)
      BY <3>2, <3>4, <1>1, IsFreeIs
    <3> QED BY <3>1, <3>4, <3>5 DEF NoAdjBut
  <2> QED BY <2>1 DEF NoAdj
<1>9. Total(g) = Total(f) + (k - k)
  BY <1>1, <1>2, <1>7, TotalIsInt
<1> QED
  BY <1>4, <1>6, <1>7, <1>8, <1>9 DEF TakesWell, Kept, g, k

\* A block off its list that is handed out in part; the rest is listed.
LEMMA TakeSome ==
  ASSUME NEW f, NEW m, NEW h, Loose(f, m, h), f.hdr[h].free, NoAdjBut(f, h), ~IsFree(f, h + f.hdr[h].sz),
         NEW k \in Nat, 0 < k, k < f.hdr[h].sz
  PROVE  TakesWell(f, InUse(PartOf(f, h, k), h, k), m, h, k)
<1> DEFINE sz == f.hdr[h].sz
           d == sz - k
           r == h + k
           M == FreeBut(f, h)
           u == GC_install_header(f, r, d)
           i == ListOf(u, r)
           N == [M EXCEPT ![i] = @ \cup {r}]
           v == GC_add_to_fl(u, r)
           g == InUse(v, h, k)
<1>1. /\ Shaped(f, m, Null) /\ Shaped(f, m, h) /\ h \in Headers(f) /\ f \in Heap /\ Chains(f, M)
      /\ f.index \in [Addr -> 0 .. IsHeader] /\ f.hdr \in [Addr -> Hdr]
  <2>1. Shaped(f, m, h) /\ h \in Headers(f) /\ f \in Heap /\ Chains(f, M)
    BY DEF Loose, Shaped
  <2> QED BY <2>1, LooseFree, HeapFields
<1>2. /\ h \in Addr /\ h \in Nat /\ h # Null /\ sz \in Nat /\ d \in Nat /\ d > 0 /\ m \subseteq Memory /\ Memory \subseteq Addr
      /\ \A c \in Headers(f) : c \in Addr /\ c \in Nat /\ c # Null /\ f.hdr[c].free \in BOOLEAN
                               /\ f.hdr[c].sz \in Nat /\ f.hdr[c].sz > 0
      /\ \A c, j \in Headers(f) : c < j => c + f.hdr[c].sz <= j
  <2>1. /\ Headers(f) \subseteq Addr /\ \A c \in Headers(f) : c # Null /\ f.hdr[c].sz \in Nat /\ c \in Nat /\ f.hdr[c].sz > 0
        /\ \A c, j \in Headers(f) : c < j => c + f.hdr[c].sz <= j
    BY <1>1, Apart
  <2>2. sz \in Nat /\ d \in Nat /\ d > 0 /\ h \in Nat /\ h # Null
    BY <1>1, <2>1
  <2>3. m \subseteq Memory
    BY <1>1 DEF Shaped
  <2> QED BY <2>1, <2>2, <2>3, <1>1, IsFreeIs, MemoryFinite
<1>3. r \in Addr /\ r \in Memory /\ r # h /\ r \in Nat /\ r \notin Headers(f)
  <2>1. r \in BlocksOf(f, h) /\ r # h /\ r \in Nat
    BY <1>2 DEF BlocksOf
  <2>2. f.index[r] = 0
    BY <1>1, <2>1 DEF Shaped
  <2>3. r \notin Headers(f)
    BY <2>2, ConstantsAssumption DEF Headers, HasHeader, IsHeader
  <2>4. BlocksOf(f, h) \subseteq m
    BY <1>1 DEF Shaped
  <2> QED BY <2>1, <2>3, <2>4, <1>2
<1>4. g = InUse(PartOf(f, h, k), h, k)
  <2>1. sz # k
    BY <1>2
  <2> QED BY <2>1 DEF PartOf
<1> HIDE DEF d, r
<1>5. /\ u \in Heap /\ u.fl = f.fl /\ u.free_bytes = f.free_bytes
      /\ \A x \in Addr : u.index[x] = IF x = r THEN IsHeader ELSE f.index[x]
      /\ u.hdr[r].sz = d /\ ~u.hdr[r].free
      /\ \A x \in Addr : x # r => u.hdr[x] = f.hdr[x]
  <2> DEFINE e == [NoHeader EXCEPT !.sz = d]
  <2>1. /\ u \in Heap /\ u.fl = f.fl /\ u.free_bytes = f.free_bytes
        /\ u.index = [f.index EXCEPT ![r] = IsHeader]
        /\ u.hdr = [f.hdr EXCEPT ![r] = e]
    BY <1>1, <1>2, <1>3, InstallHeaderSets
  <2>2. e.sz = d /\ e.free = FALSE
    BY <1>2, NoHeaderType
  <2> HIDE DEF e, u
  <2> QED BY <2>1, <2>2, <1>1, <1>3
<1>6. /\ M \in [Lists -> SUBSET Memory]
      /\ \A j \in Lists : \A x \in M[j] : x \in Headers(f) /\ f.hdr[x].free /\ ListOf(f, x) = j /\ x # h
      /\ \A x \in Headers(f) : ListOf(f, x) \in Lists /\ (f.hdr[x].free /\ x # h => x \in M[ListOf(f, x)])
      /\ \A j \in Lists : r \notin M[j] /\ h \notin M[j]
  <2>1. /\ M \in [Lists -> SUBSET Memory]
        /\ \A j \in Lists : \A x \in M[j] : x \in Headers(f) /\ f.hdr[x].free /\ ListOf(f, x) = j /\ x # h
        /\ \A x \in Headers(f) : ListOf(f, x) \in Lists /\ (f.hdr[x].free /\ x # h => x \in M[ListOf(f, x)])
    BY <1>1, FreeButIs
  <2> HIDE DEF M
  <2> QED BY <2>1, <1>3
<1> HIDE DEF M, u
<1>7. Chains(u, M) /\ Total(u) = Total(f)
  <2>1. f \in Heap /\ u \in Heap /\ Chains(f, M) /\ u.fl = f.fl /\ u.free_bytes = f.free_bytes
    BY <1>1, <1>5
  <2>2. \A j \in Lists : \A c \in M[j] : c \in Addr /\ c # r
    BY <1>2, <1>6
  <2>3. \A j \in Lists : \A c \in M[j] :
          u.hdr[c].sz = f.hdr[c].sz /\ u.hdr[c].prev = f.hdr[c].prev /\ u.hdr[c].next = f.hdr[c].next
    BY <2>2, <1>5
  <2> QED BY <2>1, <2>3, ChainsFrame
<1>8. /\ i \in Lists /\ Chains(v, N) /\ Total(v) = Total(u) + d
      /\ v \in Heap /\ v.index = u.index
      /\ \A x \in Addr : /\ v.hdr[x].sz = u.hdr[x].sz
                         /\ v.hdr[x].free = IF x = r THEN TRUE ELSE u.hdr[x].free
      /\ OnlyIn(u, v, M[i] \cup {r})
  <2>1. u \in Heap /\ Chains(u, M) /\ r \in Memory /\ \A j \in Lists : r \notin M[j]
    BY <1>3, <1>5, <1>6, <1>7
  <2>2. i \in Lists
    BY <2>1, ChainsAdd
  <2>3. Chains(v, N)
    BY <2>1, ChainsAdd
  <2>4. Total(v) = Total(u) + d
    <3>1. Total(v) = Total(u) + u.hdr[r].sz
      BY <2>1, ChainsAdd
    <3> QED BY <3>1, <1>5
  <2>5. v \in Heap /\ v.index = u.index
    BY <2>1, ChainsAdd
  <2>6. \A x \in Addr : v.hdr[x].sz = u.hdr[x].sz
    BY <2>1, ChainsAdd, ZenonT(40)
  <2>7. \A x \in Addr : v.hdr[x].free = IF x = r THEN TRUE ELSE u.hdr[x].free
    BY <2>1, ChainsAdd, Zenon
  <2>8. OnlyIn(u, v, M[i] \cup {r})
    BY <2>1, ChainsAdd
  <2> QED BY <2>2, <2>3, <2>4, <2>5, <2>6, <2>7, <2>8
<1> HIDE DEF v
<1>9. InUseIs(v, g, h, k)
  BY <1>2, <1>8, InUseSets
<1> HIDE DEF g
<1>10. /\ g \in Heap /\ g.fl = v.fl /\ g.free_bytes = v.free_bytes
       /\ \A x \in Addr : g.index[x] = IF x \in Inside(h, k) THEN Count(x - h)
                                  ELSE IF x = h THEN IsHeader ELSE v.index[x]
       /\ g.hdr[h].sz = k /\ ~g.hdr[h].free
       /\ \A x \in Addr : x # h => g.hdr[x] = v.hdr[x]
  BY <1>9 DEF InUseIs
<1>11. r \notin Inside(h, k) /\ r # h /\ f.index[h] = IsHeader
  <2>1. f.index[h] = IsHeader
    BY <1>1 DEF Headers, HasHeader
  <2> QED BY <2>1, <1>2, <1>3 DEF Inside, r
<1>12. Divided(f, g, h, k, TRUE)
  <2>1. \A x \in Addr : g.index[x] = IF x = r THEN IsHeader
                                     ELSE IF TRUE /\ x \in Inside(h, k) THEN Count(x - h) ELSE f.index[x]
    BY <1>5, <1>8, <1>10, <1>11
  <2>2. g.hdr[r].sz = d /\ g.hdr[r].free
    BY <1>3, <1>5, <1>8, <1>10
  <2>3. \A x \in Addr : x # h /\ x # r =>
          g.hdr[x].sz = f.hdr[x].sz /\ g.hdr[x].free = f.hdr[x].free
    <3>1. ASSUME NEW x \in Addr, x # h, x # r
          PROVE  g.hdr[x].sz = f.hdr[x].sz /\ g.hdr[x].free = f.hdr[x].free
      <4>1. g.hdr[x] = v.hdr[x] /\ u.hdr[x] = f.hdr[x]
        BY <3>1, <1>5, <1>10
      <4>2. v.hdr[x].sz = u.hdr[x].sz /\ v.hdr[x].free = u.hdr[x].free
        BY <3>1, <1>8
      <4> QED BY <4>1, <4>2
    <3> QED BY <3>1
  <2>4. \A x \in Addr : x # h /\ x # r /\ x \notin Headers(f) => g.hdr[x] = f.hdr[x]
    <3>1. ASSUME NEW x \in Addr, x # h, x # r, x \notin Headers(f) PROVE g.hdr[x] = f.hdr[x]
      <4>1. x \notin M[i] \cup {r}
        BY <3>1, <1>6, <1>8
      <4>2. v.hdr[x] = u.hdr[x]
        BY <4>1, <3>1, <1>8 DEF OnlyIn
      <4> QED BY <4>2, <3>1, <1>5, <1>10
    <3> QED BY <3>1
  <2> QED BY <1>10, <2>1, <2>2, <2>3, <2>4 DEF Divided, r, d
<1>13. Shaped(g, m, Null) /\ Headers(g) = Headers(f) \cup {r}
  <2>1. TRUE \in BOOLEAN
    OBVIOUS
  <2>2. Divides(f, g, m, h + k)
    BY <1>1, <1>12, <2>1, DivideShaped
  <2> QED BY <2>2 DEF r, Divides
<1>14. /\ \A c \in Headers(f) : c # h =>
            /\ c # r /\ g.hdr[c].sz = f.hdr[c].sz /\ g.hdr[c].free = f.hdr[c].free /\ ListOf(g, c) = ListOf(f, c)
       /\ g.hdr[r].sz = d /\ g.hdr[r].free /\ ListOf(g, r) = i
  <2>1. \A c \in Headers(f) : c # h =>
            c # r /\ g.hdr[c].sz = f.hdr[c].sz /\ g.hdr[c].free = f.hdr[c].free
    <3>1. \A c \in Headers(f) : c # r /\ c \in Addr
      BY <1>2, <1>3
    <3> QED BY <3>1, <1>12 DEF Divided, r
  <2>2. g.hdr[r].sz = d /\ g.hdr[r].free /\ u.hdr[r].sz = d
    BY <1>3, <1>5, <1>8, <1>10
  <2> QED BY <2>1, <2>2 DEF ListOf
<1>15. N \in [Lists -> SUBSET Memory] /\ \A j \in Lists : N[j] = IF j = i THEN M[j] \cup {r} ELSE M[j]
  <2> HIDE DEF i
  <2> QED BY <1>3, <1>6, <1>8
<1> HIDE DEF i, N
<1>16. N = FreeBut(g, Null)
  <2>1. ASSUME NEW j \in Lists, NEW x PROVE x \in N[j] <=> x \in FreeBut(g, Null)[j]
    <3>1. CASE x \in Headers(f) /\ x # h
      <4>1. x \in FreeBut(g, Null)[j] <=> f.hdr[x].free /\ ListOf(f, x) = j
        BY <3>1, <1>2, <1>13, <1>14 DEF FreeBut
      <4>2. x \in N[j] <=> f.hdr[x].free /\ ListOf(f, x) = j
        BY <3>1, <1>3, <1>6, <1>15
      <4> QED BY <4>1, <4>2
    <3>2. CASE x = r
      <4>1. r # Null
        BY <1>3, MemoryFinite
      <4>2. x \in FreeBut(g, Null)[j] <=> j = i
        BY <3>2, <4>1, <1>13, <1>14 DEF FreeBut
      <4>3. x \in N[j] <=> j = i
        BY <3>2, <1>6, <1>15
      <4> QED BY <4>2, <4>3
    <3>3. CASE x # r /\ ~(x \in Headers(f) /\ x # h)
      <4>1. x \notin FreeBut(g, Null)[j]
        BY <3>3, <1>10, <1>13 DEF FreeBut
      <4>2. x \notin N[j]
        BY <3>3, <1>6, <1>15
      <4> QED BY <4>1, <4>2
    <3> QED BY <3>1, <3>2, <3>3
  <2>2. FreeBut(g, Null) \in [Lists -> SUBSET Memory]
    BY <1>13, FreeButIs
  <2> QED BY <2>1, <2>2, <1>15
<1>17. Chains(g, N) /\ Total(g) = Total(v)
  <2>1. v \in Heap /\ g \in Heap /\ Chains(v, N) /\ g.fl = v.fl /\ g.free_bytes = v.free_bytes
    BY <1>8, <1>10 DEF N, i
  <2>2. \A j \in Lists : \A c \in N[j] : c \in Addr /\ c # h
    BY <1>2, <1>3, <1>6, <1>15
  <2>3. \A j \in Lists : \A c \in N[j] :
          g.hdr[c].sz = v.hdr[c].sz /\ g.hdr[c].prev = v.hdr[c].prev /\ g.hdr[c].next = v.hdr[c].next
    BY <2>2, <1>10
  <2> QED BY <2>1, <2>3, ChainsFrame
<1>18. NoAdj(g)
  <2>0. r + d = h + sz
    BY <1>2 DEF r, d
  <2>1. ASSUME NEW a \in Headers(g), g.hdr[a].free, IsFree(g, a + g.hdr[a].sz) PROVE FALSE
    <3> DEFINE b == a + g.hdr[a].sz
    <3>1. b \in Addr
      BY <1>13, Behind
    <3>2. b \in Headers(g) /\ g.hdr[b].free /\ b # h /\ a # h
      BY <2>1, <3>1, <1>10, <1>13, IsFreeIs
    <3>3. b # a
      <4>1. a \in Nat /\ g.hdr[a].sz \in Nat /\ g.hdr[a].sz > 0
        BY <1>13, Apart
      <4> QED BY <4>1
    <3>4. CASE a = r
      <4>1. b = h + sz
        BY <3>4, <1>14, <2>0
      <4>2. b \in Headers(f) /\ f.hdr[b].free
        BY <3>2, <3>3, <3>4, <1>13, <1>14
      <4>3. IsFree(f, b)
        BY <4>2, <3>1, <1>1, IsFreeIs
      <4> QED BY <4>1, <4>3
    <3>5. CASE a # r
      <4>1. a \in Headers(f) /\ f.hdr[a].free /\ b = a + f.hdr[a].sz
        BY <3>2, <3>5, <2>1, <1>13, <1>14
      <4>2. b # r
        <5>1. (a < h => a + f.hdr[a].sz <= h) /\ (h < a => h + sz <= a)
          BY <4>1, <1>1, <1>2
        <5>2. a \in Nat /\ f.hdr[a].sz \in Nat /\ f.hdr[a].sz > 0 /\ r > h /\ r < h + sz
          BY <4>1, <1>2 DEF r
        <5> QED BY <4>1, <5>1, <5>2, <3>2, <1>2, <1>3
      <4>3. b \in Headers(f) /\ f.hdr[b].free
        BY <3>2, <4>2, <1>13, <1>14
      <4>4. IsFree(f, b)
        BY <4>3, <3>1, <1>1, IsFreeIs
      <4> QED BY <4>1, <4>4, <3>2 DEF NoAdjBut
    <3> QED BY <3>4, <3>5
  <2> QED BY <2>1 DEF NoAdj
<1>19. Total(g) = Total(f) + (sz - k)
  BY <1>7, <1>8, <1>17 DEF d
<1> QED
  BY <1>4, <1>13, <1>16, <1>17, <1>18, <1>19 DEF TakesWell, Kept

\* The free block h is on list i, and the other free blocks where they belong.
Ready(f, m, h, i) ==
  /\ Shaped(f, m, Null) /\ h \in Headers(f) /\ f.hdr[h].free /\ i \in Lists
  /\ \E M : Chains(f, M) /\ h \in M[i] /\ [M EXCEPT ![i] = @ \ {h}] = FreeBut(f, h)

\* A block on a list is ready to be taken off.
LEMMA KeptReady ==
  ASSUME NEW f, NEW m, Kept(f, m), NEW i \in Lists, NEW h \in FreeBut(f, Null)[i]
  PROVE  Ready(f, m, h, i)
<1> DEFINE M == FreeBut(f, Null)
<1>1. Shaped(f, m, Null) /\ Chains(f, M)
  BY DEF Kept
<1>2. M \in [Lists -> SUBSET Memory] /\ h \in Headers(f) /\ f.hdr[h].free /\ ListOf(f, h) = i
  BY <1>1, FreeButIs
<1>3. [M EXCEPT ![i] = @ \ {h}] = FreeBut(f, h)
  <2>1. \A c \in Headers(f) : c # Null
    BY <1>1, Apart
  <2>2. ASSUME NEW j \in Lists, NEW x
        PROVE  x \in [M EXCEPT ![i] = @ \ {h}][j] <=> x \in FreeBut(f, h)[j]
    <3>1. [M EXCEPT ![i] = @ \ {h}][j] = IF j = i THEN M[j] \ {h} ELSE M[j]
      BY <1>2
    <3>2. x \in M[j] <=> x \in Headers(f) /\ f.hdr[x].free /\ ListOf(f, x) = j
      BY <2>1 DEF FreeBut
    <3>3. x \in FreeBut(f, h)[j] <=> x \in Headers(f) /\ x # h /\ f.hdr[x].free /\ ListOf(f, x) = j
      BY DEF FreeBut
    <3> HIDE DEF M
    <3> QED BY <3>1, <3>2, <3>3, <1>2
  <2>3. FreeBut(f, h) \in [Lists -> SUBSET Memory]
    BY <1>1, FreeButIs
  <2>4. [M EXCEPT ![i] = @ \ {h}] \in [Lists -> SUBSET Memory]
    <3> HIDE DEF M
    <3> QED BY <1>2
  <2> DEFINE L == [M EXCEPT ![i] = @ \ {h}]
  <2> HIDE DEF L
  <2>5. L = FreeBut(f, h)
    BY <2>2, <2>3, <2>4 DEF L
  <2> QED BY <2>5 DEF L
<1>4. \E N : Chains(f, N) /\ h \in N[i] /\ [N EXCEPT ![i] = @ \ {h}] = FreeBut(f, h)
  <2> HIDE DEF M
  <2>1. h \in M[i]
    BY DEF M
  <2> QED BY <1>1, <1>3, <2>1
<1> QED
  BY <1>1, <1>2, <1>4 DEF Ready

\* Links do not matter to the header table.
LEMMA SameShaped ==
  ASSUME NEW f, NEW m, NEW e, Shaped(f, m, e), NEW g \in Heap, SameBlocks(f, g),
         \A x \in Addr : x \notin Headers(f) => g.hdr[x] = f.hdr[x]
  PROVE  /\ Shaped(g, m, e) /\ Headers(g) = Headers(f)
         /\ \A h \in Headers(f) : ListOf(g, h) = ListOf(f, h)
         /\ \A h : FreeBut(g, h) = FreeBut(f, h)
         /\ \A x \in Addr : IsFree(g, x) <=> IsFree(f, x)
<1>1. Headers(f) \subseteq Addr /\ f \in Heap
  BY DEF Headers, Shaped
<1>2. g.index = f.index /\ \A x \in Addr : g.hdr[x].sz = f.hdr[x].sz /\ g.hdr[x].free = f.hdr[x].free
  BY DEF SameBlocks
<1>3. Headers(g) = Headers(f) /\ \A x \in Addr : IsFree(g, x) <=> IsFree(f, x)
  BY <1>2 DEF Headers, HasHeader, IsFree
<1>4. \A h \in Headers(f) : BlocksOf(g, h) = BlocksOf(f, h) /\ ListOf(g, h) = ListOf(f, h)
  BY <1>1, <1>2 DEF BlocksOf, ListOf
<1>5. \A h : FreeBut(g, h) = FreeBut(f, h)
  <2>1. ASSUME NEW h PROVE FreeBut(g, h) = FreeBut(f, h)
    BY <1>1, <1>2, <1>3, <1>4 DEF FreeBut
  <2> QED BY <2>1
<1>6. Shaped(g, m, e)
  <2>1. \A h \in Headers(g) : g.hdr[h].sz > 0 /\ BlocksOf(g, h) \subseteq m
    BY <1>1, <1>2, <1>3, <1>4 DEF Shaped
  <2>2. ASSUME NEW h \in Headers(g), NEW a \in BlocksOf(g, h), a # h
        PROVE  g.index[a] = IF g.hdr[h].free \/ h = e THEN 0 ELSE Count(a - h)
    <3>1. f.index[a] = IF f.hdr[h].free \/ h = e THEN 0 ELSE Count(a - h)
      BY <2>2, <1>3, <1>4 DEF Shaped
    <3>2. g.hdr[h].free = f.hdr[h].free
      BY <1>1, <1>2, <1>3
    <3> QED BY <3>1, <3>2, <1>2
  <2>3. \A a \in Addr : (\A h \in Headers(g) : a \notin BlocksOf(g, h)) => g.index[a] = 0
    BY <1>2, <1>3, <1>4 DEF Shaped
  <2>4. \A a \in Addr : a \notin Headers(g) => g.hdr[a] = NoHeader
    BY <1>3 DEF Shaped
  <2>5. m \subseteq Memory
    BY DEF Shaped
  <2> QED BY <2>1, <2>2, <2>3, <2>4, <2>5 DEF Shaped
<1> QED
  BY <1>3, <1>4, <1>5, <1>6

\* A block that comes off its list.
Unlists(f, r, m, h) ==
  /\ Loose(r, m, h) /\ SameBlocks(f, r) /\ Total(r) = Total(f) - f.hdr[h].sz
  /\ r \in Heap /\ r.hdr[h].free /\ r.hdr[h].sz = f.hdr[h].sz /\ Headers(r) = Headers(f)
  /\ NoAdjBut(f, h) => NoAdjBut(r, h)
  /\ \A x \in Addr : IsFree(r, x) <=> IsFree(f, x)

\* A block that is ready is loose once GC_remove_from_fl has taken it off.
LEMMA OffList ==
  ASSUME NEW f, NEW m, NEW h, NEW i, Ready(f, m, h, i)
  PROVE  Unlists(f, GC_remove_from_fl(f, h, i), m, h)
<1> DEFINE r == GC_remove_from_fl(f, h, i)
<1>1. /\ Shaped(f, m, Null) /\ h \in Headers(f) /\ f.hdr[h].free /\ i \in Lists /\ f \in Heap
      /\ Headers(f) \subseteq Addr /\ h \in Addr
  BY DEF Ready, Shaped, Headers
<1>2. PICK M : Chains(f, M) /\ h \in M[i] /\ [M EXCEPT ![i] = @ \ {h}] = FreeBut(f, h)
  BY DEF Ready
<1>3. /\ Chains(r, FreeBut(f, h)) /\ Total(r) = Total(f) - f.hdr[h].sz
      /\ r \in Heap /\ SameBlocks(f, r)
      /\ \A x \in Addr : x \notin M[i] => r.hdr[x] = f.hdr[x]
  <2>1. /\ Chains(r, [M EXCEPT ![i] = @ \ {h}]) /\ Total(r) = Total(f) - f.hdr[h].sz
        /\ r \in Heap /\ SameBlocks(f, r)
        /\ \A x \in Addr : x \notin M[i] => r.hdr[x] = f.hdr[x]
    <3>1. f \in Heap /\ Chains(f, M) /\ i \in Lists /\ h \in M[i]
      BY <1>1, <1>2
    <3>2. Chains(r, [M EXCEPT ![i] = @ \ {h}]) /\ r \in Heap /\ SameBlocks(f, r)
      BY <3>1, ChainsRemove
    <3>3. Total(r) = Total(f) - f.hdr[h].sz
      BY <3>1, ChainsRemove
    <3>4. \A x \in Addr : x \notin M[i] => r.hdr[x] = f.hdr[x]
      BY <3>1, ChainsRemove
    <3> QED BY <3>2, <3>3, <3>4
  <2> QED BY <1>2, <2>1
<1>4. \A x \in Addr : x \notin Headers(f) => r.hdr[x] = f.hdr[x]
  <2>1. \A x \in FreeBut(f, h)[i] : x \in Headers(f)
    BY <1>1 DEF FreeBut
  <2>2. M \in [Lists -> SUBSET Memory]
    BY <1>2 DEF Chains
  <2>3. [M EXCEPT ![i] = @ \ {h}][i] = M[i] \ {h}
    BY <2>2, <1>1
  <2>4. \A x \in M[i] : x = h \/ x \in FreeBut(f, h)[i]
    BY <2>3, <1>2
  <2> QED BY <1>1, <1>3, <2>1, <2>4
<1> HIDE DEF r
<1>5. /\ Shaped(r, m, Null) /\ Headers(r) = Headers(f)
      /\ \A c : FreeBut(r, c) = FreeBut(f, c)
      /\ \A x \in Addr : IsFree(r, x) <=> IsFree(f, x)
  <2>1. Shaped(f, m, Null) /\ r \in Heap /\ SameBlocks(f, r)
    BY <1>1, <1>3
  <2> QED BY <2>1, <1>4, SameShaped
<1>6. /\ r.hdr[h].free /\ r.hdr[h].sz = f.hdr[h].sz
      /\ \A c \in Headers(f) : r.hdr[c].free = f.hdr[c].free /\ r.hdr[c].sz = f.hdr[c].sz
  BY <1>1, <1>3 DEF SameBlocks
<1>7. Loose(r, m, h)
  <2>1. Shaped(r, m, h)
    BY <1>1, <1>5, <1>6, LooseFree
  <2>2. Chains(r, FreeBut(r, h))
    BY <1>3, <1>5
  <2> QED BY <2>1, <2>2, <1>1, <1>5 DEF Loose
<1>8. ASSUME NoAdjBut(f, h) PROVE NoAdjBut(r, h)
  <2>1. \A a \in Headers(f) : a + f.hdr[a].sz \in Addr
    BY <1>1, Behind
  <2> QED BY <2>1, <1>5, <1>6, <1>8 DEF NoAdjBut
<1> QED
  BY <1>3, <1>5, <1>6, <1>7, <1>8 DEF Unlists, r

\* The first k blocks of h are handed out.
HandsOut(f, g, m, k) == Kept(g, m) /\ NoAdj(g) /\ Total(g) = Total(f) - k

\* GC_get_first_part, the header and the counts hand out k blocks in good order.
LEMMA FirstPart ==
  ASSUME NEW f, NEW m, NEW h, NEW i, Ready(f, m, h, i), NoAdjBut(f, h), ~IsFree(f, h + f.hdr[h].sz),
         NEW k \in Nat, 0 < k, k <= f.hdr[h].sz
  PROVE  HandsOut(f, InUse(GC_get_first_part(f, h, k, i, FALSE), h, k), m, k)
<1> DEFINE r == GC_remove_from_fl(f, h, i)
           g == InUse(GC_get_first_part(f, h, k, i, FALSE), h, k)
<1>1. Unlists(f, r, m, h)
  BY OffList
<1>2. GC_get_first_part(f, h, k, i, FALSE) =
        IF f.hdr[h].sz = k THEN r ELSE GC_add_to_fl(GC_install_header(r, h + k, f.hdr[h].sz - k), h + k)
  BY Zenon DEF GC_get_first_part
<1> HIDE DEF r
<1>3. /\ Loose(r, m, h) /\ Total(r) = Total(f) - f.hdr[h].sz /\ r.hdr[h].free
      /\ r.hdr[h].sz = f.hdr[h].sz /\ NoAdjBut(r, h) /\ f \in Heap /\ f.hdr[h].sz \in Nat
      /\ ~IsFree(r, h + r.hdr[h].sz)
  <2>1. Shaped(f, m, Null) /\ h \in Headers(f)
    BY DEF Ready
  <2>2. f \in Heap /\ h + f.hdr[h].sz \in Addr /\ f.hdr[h].sz \in Nat
    <3>1. f \in Heap
      BY <2>1 DEF Shaped
    <3>2. h + f.hdr[h].sz \in Addr
      BY <2>1, Behind
    <3>3. f.hdr[h].sz \in Nat
      BY <2>1, Apart
    <3> QED BY <3>1, <3>2, <3>3
  <2> QED BY <2>2, <1>1 DEF Unlists
<1>4. GC_get_first_part(f, h, k, i, FALSE) = PartOf(r, h, k)
  BY <1>2, <1>3 DEF PartOf
<1>5. TakesWell(r, g, m, h, k)
  <2>1. CASE r.hdr[h].sz = k
    <3>1. TakesWell(r, InUse(r, h, r.hdr[h].sz), m, h, r.hdr[h].sz)
      BY <1>3, TakeAll
    <3>2. PartOf(r, h, k) = r
      BY <2>1 DEF PartOf
    <3> QED BY <3>1, <3>2, <2>1, <1>4
  <2>2. CASE r.hdr[h].sz # k
    <3>1. k < r.hdr[h].sz
      BY <2>2, <1>3
    <3>2. TakesWell(r, InUse(PartOf(r, h, k), h, k), m, h, k)
      BY <3>1, <1>3, TakeSome
    <3> QED BY <3>2, <1>4
  <2> QED BY <2>1, <2>2
<1> HIDE DEF g
<1>6. Total(g) = Total(f) - k
  <2>1. Total(g) = Total(f) - f.hdr[h].sz + (f.hdr[h].sz - k)
    BY <1>3, <1>5 DEF TakesWell
  <2>2. Total(f) \in Int
    BY <1>3, TotalIsInt
  <2> QED BY <2>1, <2>2, <1>3
<1> QED
  BY <1>5, <1>6 DEF TakesWell, HandsOut, g

------------------------------------------------------------------------------
(* Splitting a block: the new one takes the place of the old on its list.  *)

\* GC_split_block before the first part is put back: b, the rest of h, has the
\* place of h on list i.
Replaced(f, v, h, b, i) ==
  LET p == f.hdr[h].prev
      q == f.hdr[h].next
  IN /\ v \in Heap
     /\ v.fl = [f.fl EXCEPT ![i] = IF p = Null THEN b ELSE @]
     /\ v.free_bytes = [f.free_bytes EXCEPT ![i] = @ - (b - h)]
     /\ v.index = [f.index EXCEPT ![b] = IsHeader]
     /\ v.hdr[b].sz = f.hdr[h].sz - (b - h) /\ v.hdr[b].free
     /\ v.hdr[h].sz = b - h /\ v.hdr[h].free = f.hdr[h].free
     /\ \A x \in Addr : x # h /\ x # b => v.hdr[x].sz = f.hdr[x].sz /\ v.hdr[x].free = f.hdr[x].free
     /\ \A x \in Addr : /\ v.hdr[x].next = IF p # Null /\ x = p THEN b ELSE IF x = b THEN q ELSE f.hdr[x].next
                        /\ v.hdr[x].prev = IF q # Null /\ x = q THEN b ELSE IF x = b THEN p ELSE f.hdr[x].prev

Headed(f, h, b, i) ==
  [GC_install_header(f, b, f.hdr[h].sz - (b - h))
     EXCEPT !.hdr[b].prev = f.hdr[h].prev, !.hdr[b].next = f.hdr[h].next, !.hdr[b].free = TRUE,
            !.free_bytes[i] = @ - (b - h), !.hdr[h].sz = b - h]

Replacing(f, h, b, i) ==
  LinkPrev(LinkNext(Headed(f, h, b, i), i, f.hdr[h].prev, b), b, f.hdr[h].next)

HeadedIs(f, u, h, b, i) ==
  /\ u \in Heap /\ u.fl = f.fl
  /\ u.free_bytes = [f.free_bytes EXCEPT ![i] = @ - (b - h)]
  /\ u.index = [f.index EXCEPT ![b] = IsHeader]
  /\ u.hdr[b] = [sz |-> f.hdr[h].sz - (b - h), free |-> TRUE, prev |-> f.hdr[h].prev, next |-> f.hdr[h].next]
  /\ u.hdr[h] = [f.hdr[h] EXCEPT !.sz = b - h]
  /\ \A x \in Addr : x # h /\ x # b => u.hdr[x] = f.hdr[x]

\* What GC_split_block sets before it links the new block.
LEMMA HeadedSets ==
  ASSUME NEW f \in Heap, NEW h \in Addr, NEW b \in Addr, h < b, b - h < f.hdr[h].sz, NEW i \in Lists
  PROVE  HeadedIs(f, Headed(f, h, b, i), h, b, i)
<1> DEFINE d == f.hdr[h].sz - (b - h)
           p == f.hdr[h].prev
           q == f.hdr[h].next
           k == b - h
           u == GC_install_header(f, b, d)
           B == [f.free_bytes EXCEPT ![i] = @ - k]
           r == [NoHeader EXCEPT !.sz = d]
           t == [sz |-> d, free |-> TRUE, prev |-> p, next |-> q]
           s == [f.hdr[h] EXCEPT !.sz = k]
           H == [[u.hdr EXCEPT ![b] = t] EXCEPT ![h] = s]
           g == Headed(f, h, b, i)
<1>1. /\ h \in Nat /\ b \in Nat /\ f.hdr[h].sz \in Nat /\ h # b /\ p \in Addr /\ q \in Addr
      /\ f.hdr \in [Addr -> Hdr] /\ f.free_bytes \in [Lists -> Int]
  BY MemoryFinite, HeapFields
<1>2. d \in Nat /\ k \in Nat
  BY <1>1
<1>3. /\ u \in Heap /\ u.fl = f.fl /\ u.free_bytes = f.free_bytes
      /\ u.index = [f.index EXCEPT ![b] = IsHeader] /\ u.hdr = [f.hdr EXCEPT ![b] = r]
  <2> HIDE DEF d
  <2> QED BY <1>2, InstallHeaderSets
<1>4. t \in Hdr /\ s \in Hdr
  <2> HIDE DEF d, k, p, q
  <2>1. f.hdr[h] \in Hdr
    BY <1>1
  <2> QED BY <1>1, <1>2, <2>1 DEF Hdr
<1>5. B \in [Lists -> Int]
  <2> HIDE DEF k
  <2> QED BY <1>1, <1>2
<1>6. H \in [Addr -> Hdr] /\ H[b] = t /\ H[h] = s /\ \A x \in Addr : x # h /\ x # b => H[x] = f.hdr[x]
  <2>1. u.hdr \in [Addr -> Hdr]
    BY <1>3, HeapFields
  <2> HIDE DEF t, s, u, r
  <2> QED BY <1>1, <1>3, <1>4, <2>1
<1>7. g = [[u EXCEPT !.free_bytes = B] EXCEPT !.hdr = H]
  <2>1. /\ u.hdr[b] = r /\ u.hdr[h] = f.hdr[h] /\ u.free_bytes = f.free_bytes
    <3> HIDE DEF u, r
    <3> QED BY <1>1, <1>3
  <2>2. t = [r EXCEPT !.prev = p, !.next = q, !.free = TRUE]
    <3>1. r \in Hdr /\ r.sz = d
      <4> HIDE DEF d
      <4> QED BY <1>2, NoHeaderType
    <3> DEFINE t2 == [r EXCEPT !.prev = p, !.next = q, !.free = TRUE]
    <3> HIDE DEF d, p, q, r
    <3>2. t2 \in Hdr /\ t2.sz = d /\ t2.prev = p /\ t2.next = q /\ t2.free = TRUE
      BY <1>1, <3>1 DEF Hdr
    <3>3. t \in Hdr /\ t.sz = d /\ t.prev = p /\ t.next = q /\ t.free = TRUE
      BY <1>4
    <3> HIDE DEF t, t2
    <3>4. t = t2
      BY <3>2, <3>3 DEF Hdr
    <3> QED BY <3>4 DEF t2
  <2>3. g = [u EXCEPT !.hdr[b].prev = p, !.hdr[b].next = q, !.hdr[b].free = TRUE,
                      !.free_bytes[i] = @ - k, !.hdr[h].sz = k]
    BY DEF Headed
  <2> HIDE DEF g, u, r, t, p, q, k, d
  <2>4. [[u.hdr EXCEPT ![b] = t] EXCEPT ![h] = s] =
          [u.hdr EXCEPT ![b].prev = p, ![b].next = q, ![b].free = TRUE, ![h].sz = k]
    <3>1. [[u.hdr EXCEPT ![b] = t] EXCEPT ![h] = s] \in [Addr -> Hdr] /\ u.hdr \in [Addr -> Hdr]
      BY <1>3, <1>6, HeapFields
    <3>2. b # h /\ b \in Addr /\ h \in Addr
      BY <1>1
    <3> HIDE DEF s
    <3> QED BY <2>1, <2>2, <3>1, <3>2 DEF s
  <2>5. B = [u.free_bytes EXCEPT ![i] = @ - k]
    BY <2>1
  <2>6. [u EXCEPT !.hdr[b].prev = p, !.hdr[b].next = q, !.hdr[b].free = TRUE,
                  !.free_bytes[i] = @ - k, !.hdr[h].sz = k]
        = [[u EXCEPT !.free_bytes = [u.free_bytes EXCEPT ![i] = @ - k]]
              EXCEPT !.hdr = [u.hdr EXCEPT ![b].prev = p, ![b].next = q, ![b].free = TRUE, ![h].sz = k]]
    <3>1. u \in Heap
      BY <1>3
    <3> QED BY <3>1, ZenonT(40) DEF Heap
  <2> HIDE DEF H, B
  <2> QED BY <2>3, <2>4, <2>5, <2>6, ZenonT(40) DEF H
<1> DEFINE w == [u EXCEPT !.free_bytes = B]
<1> HIDE DEF u, B, H, g
<1>8. w \in Heap /\ w.hdr = u.hdr /\ w.index = u.index /\ w.fl = u.fl /\ w.free_bytes = B
  BY <1>3, <1>5, BytesSet
<1> HIDE DEF w
<1>9. g \in Heap /\ g.hdr = H /\ g.index = w.index /\ g.fl = w.fl /\ g.free_bytes = w.free_bytes
  <2>1. g = [w EXCEPT !.hdr = H]
    BY <1>7 DEF w
  <2>2. H \in [Addr -> Hdr]
    BY <1>6
  <2> QED BY <1>8, <2>1, <2>2, HdrSet
<1>10. g.hdr[b] = t /\ g.hdr[h] = s /\ \A x \in Addr : x # h /\ x # b => g.hdr[x] = f.hdr[x]
  BY <1>6, <1>9
<1>11. g.free_bytes = B /\ g.index = [f.index EXCEPT ![b] = IsHeader] /\ g.fl = f.fl
  BY <1>3, <1>8, <1>9
<1> QED
  BY <1>9, <1>10, <1>11 DEF HeadedIs, g, B

\* What GC_split_block has set once the new block is linked.
LEMMA ReplaceSets ==
  ASSUME NEW f \in Heap, NEW h \in Addr, NEW b \in Addr, h < b, b - h < f.hdr[h].sz, NEW i \in Lists,
         f.hdr[h].prev # b, f.hdr[h].next # b, f.hdr[h].prev # h, f.hdr[h].next # h
  PROVE  Replaced(f, Replacing(f, h, b, i), h, b, i)
<1> DEFINE p == f.hdr[h].prev
           q == f.hdr[h].next
           d == f.hdr[h].sz - (b - h)
           u == Headed(f, h, b, i)
           w == LinkNext(u, i, p, b)
           v == LinkPrev(w, b, q)
<1>1. h \in Nat /\ b \in Nat /\ h # b /\ p \in Addr /\ q \in Addr /\ f.hdr[h] \in Hdr /\ f.fl \in [Lists -> Addr]
  BY MemoryFinite, HeapFields
<1>2. HeadedIs(f, u, h, b, i)
  BY HeadedSets
<1>3. v = Replacing(f, h, b, i)
  BY DEF Replacing
<1>0. p # b /\ q # b /\ p # h /\ q # h
  OBVIOUS
<1> HIDE DEF u
<1>4. /\ u \in Heap /\ u.fl = f.fl
      /\ u.free_bytes = [f.free_bytes EXCEPT ![i] = @ - (b - h)]
      /\ u.index = [f.index EXCEPT ![b] = IsHeader]
      /\ u.hdr[b].sz = d /\ u.hdr[b].free = TRUE /\ u.hdr[b].prev = p /\ u.hdr[b].next = q
      /\ \A x \in Addr : x # h /\ x # b => u.hdr[x] = f.hdr[x]
  BY <1>2 DEF HeadedIs
<1>5. u.hdr[h].sz = b - h /\ u.hdr[h].free = f.hdr[h].free /\ u.hdr[h].prev = p /\ u.hdr[h].next = q
  <2>1. u.hdr[h] = [f.hdr[h] EXCEPT !.sz = b - h]
    BY <1>2 DEF HeadedIs
  <2> QED BY <2>1, <1>1 DEF Hdr
<1> HIDE DEF p, q, d
<1>6. /\ w \in Heap /\ SameBlocks(u, w) /\ w.free_bytes = u.free_bytes
      /\ w.fl = [u.fl EXCEPT ![i] = IF p = Null THEN b ELSE @]
      /\ \A x \in Addr : /\ w.hdr[x].next = IF p # Null /\ x = p THEN b ELSE u.hdr[x].next
                         /\ w.hdr[x].prev = u.hdr[x].prev
  <2>1. u \in Heap
    BY <1>4
  <2> QED BY <2>1, <1>1, LinkNextSets
<1> HIDE DEF w
<1>7. /\ v \in Heap /\ SameBlocks(w, v) /\ v.free_bytes = w.free_bytes /\ v.fl = w.fl
      /\ \A x \in Addr : /\ v.hdr[x].next = w.hdr[x].next
                         /\ v.hdr[x].prev = IF q # Null /\ x = q THEN b ELSE w.hdr[x].prev
  <2>1. w \in Heap /\ b \in Addr /\ q \in Addr
    BY <1>1, <1>6
  <2>2. /\ v \in Heap /\ SameBlocks(w, v) /\ v.free_bytes = w.free_bytes /\ v.fl = w.fl
        /\ \A x \in Addr : v.hdr[x].next = w.hdr[x].next
    BY <2>1, LinkPrevSets
  <2>3. \A x \in Addr : v.hdr[x].prev = IF q # Null /\ x = q THEN b ELSE w.hdr[x].prev
    BY <2>1, LinkPrevSets
  <2> QED BY <2>2, <2>3
<1> HIDE DEF v
<1>8. /\ v.fl = [f.fl EXCEPT ![i] = IF p = Null THEN b ELSE @]
      /\ v.free_bytes = [f.free_bytes EXCEPT ![i] = @ - (b - h)]
      /\ v.index = [f.index EXCEPT ![b] = IsHeader]
  BY <1>4, <1>6, <1>7 DEF SameBlocks
<1>9. /\ v.hdr[b].sz = d /\ v.hdr[b].free
      /\ v.hdr[h].sz = b - h /\ v.hdr[h].free = f.hdr[h].free
      /\ \A x \in Addr : x # h /\ x # b => v.hdr[x].sz = f.hdr[x].sz /\ v.hdr[x].free = f.hdr[x].free
  <2>1. \A x \in Addr : v.hdr[x].sz = u.hdr[x].sz /\ v.hdr[x].free = u.hdr[x].free
    BY <1>6, <1>7 DEF SameBlocks
  <2> QED BY <2>1, <1>4, <1>5
<1>10. ASSUME NEW x \in Addr
       PROVE /\ v.hdr[x].next = IF p # Null /\ x = p THEN b ELSE IF x = b THEN q ELSE f.hdr[x].next
             /\ v.hdr[x].prev = IF q # Null /\ x = q THEN b ELSE IF x = b THEN p ELSE f.hdr[x].prev
  <2>1. u.hdr[x].next = IF x = b THEN q ELSE f.hdr[x].next
    BY <1>4, <1>5 DEF q
  <2>2. u.hdr[x].prev = IF x = b THEN p ELSE f.hdr[x].prev
    BY <1>4, <1>5 DEF p
  <2> QED BY <2>1, <2>2, <1>6, <1>7
<1> QED
  <2>1. Replaced(f, v, h, b, i)
    BY <1>7, <1>8, <1>9, <1>10 DEF Replaced, p, q, d
  <2> QED BY <2>1, <1>3

Swapped(S, h, b) == (S \ {h}) \cup {b}

\* b takes the place of h on the list.
LEMMA ChainReplace ==
  ASSUME NEW f \in Heap, NEW i \in Lists, NEW S \in SUBSET Memory, Chain(f, i, S), NEW h \in S,
         NEW b \in Memory, b \notin S, NEW v, Replaced(f, v, h, b, i)
  PROVE  Chain(v, i, Swapped(S, h, b))
<1> DEFINE p == f.hdr[h].prev
           q == f.hdr[h].next
           T == S \ {h}
           R == Swapped(S, h, b)
<1>0. /\ S \subseteq Addr \ {Null} /\ h \in Addr /\ h # Null /\ b \in Addr /\ b # Null /\ Addr \subseteq Nat
      /\ R = T \cup {b} /\ b \notin T /\ h # b
  BY MemoryFinite DEF Swapped
<1>1. /\ v \in Heap
      /\ v.fl = [f.fl EXCEPT ![i] = IF p = Null THEN b ELSE @]
      /\ v.free_bytes = [f.free_bytes EXCEPT ![i] = @ - (b - h)]
      /\ v.hdr[b].sz = f.hdr[h].sz - (b - h)
      /\ \A x \in Addr : x # h /\ x # b => v.hdr[x].sz = f.hdr[x].sz
      /\ \A x \in Addr : /\ v.hdr[x].next = IF p # Null /\ x = p THEN b ELSE IF x = b THEN q ELSE f.hdr[x].next
                         /\ v.hdr[x].prev = IF q # Null /\ x = q THEN b ELSE IF x = b THEN p ELSE f.hdr[x].prev
  BY DEF Replaced
<1>2. Linked(f, i, S) /\ f.free_bytes[i] = Bytes(f, S)
  BY DEF Chain
<1>3. p # h /\ q # h
  BY <1>2, NoSelfLink
<1>4. /\ p = Null <=> f.fl[i] = h
      /\ p # Null => p \in T /\ f.hdr[p].next = h
      /\ q # Null => q \in T /\ f.hdr[q].prev = h
  BY <1>2, <1>3 DEF Linked
<1>5. f.fl \in [Lists -> Addr] /\ f.free_bytes \in [Lists -> Int] /\ f.hdr[h].sz \in Nat /\ p \in Addr /\ q \in Addr
  BY <1>0, HeapFields
<1> HIDE DEF p, q, R
<1>6. v.fl[i] = IF p = Null THEN b ELSE f.fl[i]
  BY <1>1, <1>5
<1>7. v.free_bytes[i] = f.free_bytes[i] - (b - h)
  BY <1>1, <1>5
<1>8. Bytes(v, R) = v.free_bytes[i]
  <2>1. Bytes(f, S) = f.hdr[h].sz + Bytes(f, T)
    BY BytesAre
  <2>2. T \in SUBSET Memory /\ T \subseteq Addr /\ R \in SUBSET Memory /\ b \in R /\ R \ {b} = T
    BY <1>0
  <2>3. \A x \in T : v.hdr[x].sz = f.hdr[x].sz
    BY <1>0, <1>1, <2>2
  <2>4. Bytes(v, T) = Bytes(f, T) /\ Bytes(f, T) \in Nat
    <3> HIDE DEF T
    <3>1. \A d \in Heap : (\A x \in T : d.hdr[x].sz = f.hdr[x].sz) => Bytes(d, T) = Bytes(f, T)
      BY <2>2, BytesAre
    <3>2. Bytes(f, T) \in Nat
      BY <2>2, BytesAre
    <3> QED BY <2>3, <3>1, <3>2, <1>1
  <2>5. Bytes(v, R) = v.hdr[b].sz + Bytes(v, T)
    <3>1. v \in Heap /\ R \in SUBSET Memory
      BY <1>1, <2>2
    <3>2. \A x \in R : Bytes(v, R) = v.hdr[x].sz + Bytes(v, R \ {x})
      BY <3>1, BytesAre
    <3> QED BY <2>2, <3>2
  <2>6. Bytes(v, R) = f.hdr[h].sz - (b - h) + Bytes(f, T)
    BY <1>1, <2>4, <2>5
  <2>7. h \in Int /\ b \in Int
    BY <1>0
  <2> QED BY <1>2, <1>5, <1>7, <2>1, <2>4, <2>6, <2>7
<1>9. v.fl[i] \in R \cup {Null}
  BY <1>0, <1>2, <1>4, <1>6 DEF Linked
<1>10. ASSUME NEW x \in R
       PROVE  /\ v.hdr[x].prev = Null <=> v.fl[i] = x
              /\ v.hdr[x].prev # Null => v.hdr[x].prev \in R /\ v.hdr[v.hdr[x].prev].next = x
              /\ v.hdr[x].next # Null => v.hdr[x].next \in R /\ v.hdr[v.hdr[x].next].prev = x
  <2>1. CASE x = b
    <3>1. v.hdr[b].next = q /\ v.hdr[b].prev = p
      BY <1>0, <1>1, <1>4
    <3>2. p # Null => v.hdr[p].next = b
      BY <1>1, <1>5
    <3>3. q # Null => v.hdr[q].prev = b
      BY <1>1, <1>5
    <3>4. p = Null <=> v.fl[i] = b
      BY <1>0, <1>2, <1>6 DEF Linked
    <3>5. (p # Null => p \in R) /\ (q # Null => q \in R)
      BY <1>0, <1>4
    <3> QED BY <2>1, <3>1, <3>2, <3>3, <3>4, <3>5
  <2>2. CASE x # b
    <3>1. /\ x \in S /\ x # h /\ x \in Addr /\ x # Null
          /\ f.hdr[x].prev = Null <=> f.fl[i] = x
          /\ f.hdr[x].prev # Null => f.hdr[x].prev \in S /\ f.hdr[f.hdr[x].prev].next = x
          /\ f.hdr[x].next # Null => f.hdr[x].next \in S /\ f.hdr[f.hdr[x].next].prev = x
      BY <1>0, <1>2, <2>2 DEF Linked
    <3>2. v.hdr[x].prev = Null <=> v.fl[i] = x
      <4>1. CASE x = q
        <5>1. v.hdr[x].prev = b
          BY <1>1, <3>1, <4>1
        <5>2. v.fl[i] # x
          BY <1>0, <1>4, <1>6, <2>2, <3>1, <4>1
        <5> QED BY <5>1, <5>2, <1>0
      <4>2. CASE x # q
        <5>1. v.hdr[x].prev = f.hdr[x].prev
          BY <1>1, <2>2, <3>1, <4>2
        <5>2. v.fl[i] = x <=> f.fl[i] = x
          BY <1>4, <1>6, <2>2, <3>1
        <5> QED BY <3>1, <5>1, <5>2
      <4> QED BY <4>1, <4>2
    <3>3. ASSUME v.hdr[x].prev # Null PROVE v.hdr[x].prev \in R /\ v.hdr[v.hdr[x].prev].next = x
      <4>1. CASE x = q
        <5>1. v.hdr[x].prev = b /\ v.hdr[b].next = q
          BY <1>0, <1>1, <1>4, <3>1, <4>1
        <5> QED BY <4>1, <5>1, <1>0
      <4>2. CASE x # q
        <5>1. v.hdr[x].prev = f.hdr[x].prev
          BY <1>1, <2>2, <3>1, <4>2
        <5>2. f.hdr[x].prev # h
          BY <3>1, <3>3, <4>2, <5>1 DEF q
        <5>3. f.hdr[x].prev \in Addr /\ f.hdr[x].prev # b /\ f.hdr[x].prev \in R
          BY <1>0, <3>1, <3>3, <5>1, <5>2
        <5>4. f.hdr[x].prev = p => p = Null
          BY <3>1, <3>3, <5>1, <1>4
        <5>5. v.hdr[f.hdr[x].prev].next = x
          BY <1>1, <3>1, <3>3, <5>1, <5>3, <5>4
        <5> QED BY <5>1, <5>3, <5>5
      <4> QED BY <4>1, <4>2
    <3>4. ASSUME v.hdr[x].next # Null PROVE v.hdr[x].next \in R /\ v.hdr[v.hdr[x].next].prev = x
      <4>1. CASE x = p
        <5>1. v.hdr[x].next = b /\ v.hdr[b].prev = p
          BY <1>0, <1>1, <1>4, <3>1, <4>1
        <5> QED BY <4>1, <5>1, <1>0
      <4>2. CASE x # p
        <5>1. v.hdr[x].next = f.hdr[x].next
          BY <1>1, <2>2, <3>1, <4>2
        <5>2. f.hdr[x].next # h
          BY <3>1, <3>4, <4>2, <5>1 DEF p
        <5>3. f.hdr[x].next \in Addr /\ f.hdr[x].next # b /\ f.hdr[x].next \in R
          BY <1>0, <3>1, <3>4, <5>1, <5>2
        <5>4. f.hdr[x].next = q => q = Null
          BY <3>1, <3>4, <5>1, <1>4
        <5>5. v.hdr[f.hdr[x].next].prev = x
          BY <1>1, <3>1, <3>4, <5>1, <5>3, <5>4
        <5> QED BY <5>1, <5>3, <5>5
      <4> QED BY <4>1, <4>2
    <3> QED BY <3>2, <3>3, <3>4
  <2> QED BY <2>1, <2>2
<1>11. ASSUME NEW C \in SUBSET Addr, v.fl[i] \in C \cup {Null},
              \A x \in R \cap C : v.hdr[x].next \in C \cup {Null}
       PROVE  R \subseteq C
  <2> DEFINE D == (C \ {h}) \cup (IF b \in C THEN {h} ELSE {})
  <2>1. D \in SUBSET Addr /\ (h \in D <=> b \in C) /\ \A x : x # h => (x \in D <=> x \in C)
    BY <1>0
  <2> HIDE DEF D
  <2>2. f.fl[i] \in D \cup {Null}
    <3>1. CASE p = Null
      <4>1. b \in C
        BY <3>1, <1>0, <1>6, <1>11
      <4> QED BY <3>1, <4>1, <1>4, <2>1
    <3>2. CASE p # Null
      BY <3>2, <1>4, <1>6, <1>11, <2>1
    <3> QED BY <3>1, <3>2
  <2>3. ASSUME NEW x \in S, x \in D PROVE f.hdr[x].next \in D \cup {Null}
    <3>0. x \in Addr /\ x # b
      BY <1>0
    <3>1. CASE x = h
      <4>1. b \in R \cap C /\ v.hdr[b].next = q
        BY <1>0, <1>1, <1>4, <2>1, <2>3, <3>1
      <4>2. q \in C \cup {Null}
        BY <4>1, <1>11
      <4>3. q \in D \cup {Null}
        BY <4>2, <1>3, <2>1
      <4> QED BY <3>1, <4>3 DEF q
    <3>2. CASE x # h /\ x = p
      <4>1. x # Null /\ x \in R \cap C
        BY <1>0, <2>1, <2>3, <3>2
      <4>2. v.hdr[x].next = b
        BY <1>1, <3>0, <3>2, <4>1
      <4>3. b \in C
        BY <1>0, <1>11, <4>1, <4>2
      <4>4. f.hdr[x].next = h
        BY <1>4, <3>2, <4>1
      <4> QED BY <2>1, <4>3, <4>4
    <3>3. CASE x # h /\ x # p
      <4>1. x \in R \cap C
        BY <1>0, <2>1, <2>3, <3>3
      <4>2. v.hdr[x].next = f.hdr[x].next
        BY <3>0, <3>3, <1>1
      <4>3. f.hdr[x].next # h
        BY <3>3, <1>0, <1>2 DEF Linked, p
      <4> QED BY <4>1, <4>2, <4>3, <1>11, <2>1
    <3> QED BY <3>1, <3>2, <3>3
  <2>4. S \subseteq D
    BY <2>1, <2>2, <2>3, <1>2 DEF Linked
  <2> QED BY <1>0, <2>1, <2>4
<1>12. Linked(v, i, R)
  BY <1>9, <1>10, <1>11 DEF Linked
<1> QED
  BY <1>12, <1>8 DEF Chain, R

ReplacesOn(f, v, M, h, b, i) ==
  /\ Chains(v, [M EXCEPT ![i] = Swapped(@, h, b)])
  /\ Total(v) = Total(f) - (b - h)
  /\ \A x \in Addr : x # b /\ x \notin M[i] => v.hdr[x] = f.hdr[x]

\* The new block takes the place of the old one; the other lists stay.
LEMMA ChainsReplace ==
  ASSUME NEW f \in Heap, NEW M, Chains(f, M), NEW i \in Lists, NEW h \in M[i],
         NEW b \in Memory, \A j \in Lists : b \notin M[j], NEW v, Replaced(f, v, h, b, i)
  PROVE  ReplacesOn(f, v, M, h, b, i)
<1> DEFINE N == [M EXCEPT ![i] = Swapped(@, h, b)]
<1>0. /\ h \in Memory /\ h \in Addr /\ M[i] \in SUBSET Memory /\ M \in [Lists -> SUBSET Memory]
      /\ b \in Addr /\ Addr \subseteq Nat /\ b \in Nat /\ h \in Nat
  BY MemoryFinite DEF Chains
<1>1. /\ v \in Heap
      /\ v.fl = [f.fl EXCEPT ![i] = IF f.hdr[h].prev = Null THEN b ELSE @]
      /\ v.free_bytes = [f.free_bytes EXCEPT ![i] = @ - (b - h)]
      /\ \A x \in Addr : x # h /\ x # b => v.hdr[x].sz = f.hdr[x].sz /\ v.hdr[x].free = f.hdr[x].free
      /\ \A x \in Addr :
           /\ v.hdr[x].next = IF f.hdr[h].prev # Null /\ x = f.hdr[h].prev THEN b
                              ELSE IF x = b THEN f.hdr[h].next ELSE f.hdr[x].next
           /\ v.hdr[x].prev = IF f.hdr[h].next # Null /\ x = f.hdr[h].next THEN b
                              ELSE IF x = b THEN f.hdr[h].prev ELSE f.hdr[x].prev
  BY DEF Replaced
<1>2. Chain(f, i, M[i])
  BY DEF Chains
<1>3. Chain(v, i, Swapped(M[i], h, b))
  <2>1. M[i] \in SUBSET Memory /\ b \notin M[i]
    BY <1>0
  <2> QED BY <1>2, <2>1, ChainReplace
<1>4. f.fl \in [Lists -> Addr] /\ f.free_bytes \in [Lists -> Int]
  BY HeapFields
<1>41. /\ f.hdr[h].prev # Null => f.hdr[h].prev \in M[i]
       /\ f.hdr[h].next # Null => f.hdr[h].next \in M[i]
  BY <1>2 DEF Chain, Linked
<1>9. ASSUME NEW x \in Addr, x # b, x \notin M[i] PROVE v.hdr[x] = f.hdr[x]
  <2>1. x # h
    BY <1>9
  <2>2. /\ v.hdr[x].next = f.hdr[x].next /\ v.hdr[x].prev = f.hdr[x].prev
        /\ v.hdr[x].sz = f.hdr[x].sz /\ v.hdr[x].free = f.hdr[x].free
    BY <2>1, <1>1, <1>9, <1>41
  <2>3. f.hdr[x] \in Hdr /\ v.hdr[x] \in Hdr
    BY <1>1, HeapFields
  <2> QED BY <2>2, <2>3 DEF Hdr
<1>5. ASSUME NEW j \in Lists, j # i PROVE Chain(v, j, M[j])
  <2>1. Chain(f, j, M[j]) /\ M[j] \in SUBSET Memory /\ M[j] \cap M[i] = {}
    BY <1>0, <1>5 DEF Chains
  <2>2. v.fl[j] = f.fl[j] /\ v.free_bytes[j] = f.free_bytes[j]
    BY <1>1, <1>4, <1>5
  <2>4. ASSUME NEW x \in M[j] PROVE v.hdr[x] = f.hdr[x]
    <3>1. x \in Addr /\ x \notin M[i] /\ x # b
      BY <2>1, MemoryFinite
    <3> QED BY <3>1, <1>9
  <2>5. v \in Heap
    BY <1>1
  <2> QED BY <2>1, <2>2, <2>4, <2>5, ChainFrame
<1>6. /\ N \in [Lists -> SUBSET Memory] /\ N[i] = Swapped(M[i], h, b)
      /\ \A j \in Lists : j # i => N[j] = M[j]
  <2>1. Swapped(M[i], h, b) \in SUBSET Memory
    BY <1>0 DEF Swapped
  <2> QED BY <1>0, <2>1
<1>7. Chains(v, N)
  <2> HIDE DEF N
  <2>1. \A j, k \in Lists : j # k => N[j] \cap N[k] = {}
    BY <1>6 DEF Chains, Swapped
  <2>2. \A j \in Lists : Chain(v, j, N[j])
    BY <1>3, <1>5, <1>6
  <2> QED BY <2>1, <2>2, <1>6 DEF Chains
<1>8. Total(v) = Total(f) - (b - h)
  <2> DEFINE w == f.free_bytes
             d == - (b - h)
  <2>1. v.free_bytes = Changed(w, i, d)
    <3>1. \A x \in Int : x + d = x - (b - h)
      BY <1>0
    <3> QED BY <1>1, <1>4, <3>1 DEF Changed
  <2>2. w \in [Lists -> Int] /\ d \in Int /\ IsFiniteSet(Lists)
    BY <1>0, <1>4, ListsFinite
  <2>4. Total(f) \in Int
    BY TotalIsInt
  <2> HIDE DEF w, d
  <2>3. SumFunction(Changed(w, i, d)) = SumFunction(w) + d
    BY <2>2, SumChanged
  <2>5. Total(v) = Total(f) + d
    BY <2>1, <2>3 DEF Total, w
  <2> QED BY <2>4, <2>5, <1>0 DEF d
<1> QED
  BY <1>7, <1>8, <1>9 DEF ReplacesOn

\* GC_split_block leaves b, the rest of h, on the list that h was on.
Splits(f, g, m, h, b, i) ==
  /\ Ready(g, m, b, i) /\ NoAdjBut(g, b) /\ ~IsFree(g, b + g.hdr[b].sz)
  /\ g.hdr[b].sz = h + f.hdr[h].sz - b /\ Total(g) = Total(f)

\* GC_split_block: the part at b is ready to be taken off list i, whatever its size.
LEMMA Split ==
  ASSUME NEW f, NEW m, Kept(f, m), NoAdj(f), NEW i \in Lists, NEW h \in FreeBut(f, Null)[i],
         NEW b \in BlocksOf(f, h), b # h
  PROVE  Splits(f, GC_split_block(f, h, b, i), m, h, b, i)
<1> DEFINE M == FreeBut(f, Null)
           v == Replacing(f, h, b, i)
           g == GC_split_block(f, h, b, i)
           k == b - h
           sz == f.hdr[h].sz
           N == [M EXCEPT ![i] = Swapped(@, h, b)]
           l == ListOf(v, h)
           O == [N EXCEPT ![l] = @ \cup {h}]
<1>1. /\ Shaped(f, m, Null) /\ Chains(f, M) /\ f \in Heap
      /\ h \in Headers(f) /\ f.hdr[h].free /\ ListOf(f, h) = i
      /\ M \in [Lists -> SUBSET Memory]
  <2>1. Shaped(f, m, Null) /\ Chains(f, M) /\ f \in Heap
    BY DEF Kept, Shaped
  <2> QED BY <2>1, FreeButIs
<1>2. /\ h \in Nat /\ h \in Memory /\ h \in Addr /\ sz \in Nat /\ sz > 0 /\ h # Null
      /\ b \in Nat /\ b \in Addr /\ b \in Memory
      /\ \A x \in Headers(f) : x \in Addr /\ x # Null
      /\ m \subseteq Memory
  <2>1. /\ h \in Nat /\ h \in Memory /\ sz \in Nat /\ sz > 0 /\ h # Null /\ b \in Nat /\ b \in Addr /\ b \in m
        /\ \A x \in Headers(f) : x \in Addr /\ x # Null
    BY <1>1, Apart
  <2>2. m \subseteq Memory
    BY <1>1 DEF Shaped
  <2> QED BY <2>1, <2>2, MemoryFinite
<1>3. k \in Nat /\ 0 < k /\ k < sz /\ h + k = b /\ h < b
  <2>1. b \in h .. h + sz - 1
    BY DEF BlocksOf
  <2> QED BY <2>1, <1>2
<1>4. b \notin Headers(f) /\ \A j \in Lists : b \notin M[j]
  <2>1. f.index[b] = 0
    BY <1>1 DEF Shaped
  <2>2. b \notin Headers(f)
    BY <2>1, ConstantsAssumption DEF Headers, HasHeader, IsHeader
  <2> QED BY <2>2 DEF FreeBut
<1>5. /\ f.hdr[h].prev # b /\ f.hdr[h].next # b /\ f.hdr[h].prev # h /\ f.hdr[h].next # h
  <2>1. Linked(f, i, M[i]) /\ M[i] \in SUBSET Memory
    BY <1>1 DEF Chains, Chain
  <2>2. f.hdr[h].prev # h /\ f.hdr[h].next # h
    BY <1>1, <2>1, NoSelfLink
  <2>3. b # Null /\ b \notin M[i]
    BY <1>2, <1>4, MemoryFinite
  <2> HIDE DEF M
  <2>4. h \in M[i]
    BY DEF M
  <2> QED BY <2>1, <2>2, <2>3, <2>4 DEF Linked
<1>6. Replaced(f, v, h, b, i)
  <2>1. b - h < f.hdr[h].sz
    BY <1>3
  <2> QED BY <1>1, <1>2, <1>3, <1>5, <2>1, ReplaceSets
<1>7. g = GC_add_to_fl(v, h)
  BY Zenon DEF GC_split_block, Replacing, Headed
<1> HIDE DEF v, g
<1>8. ReplacesOn(f, v, M, h, b, i)
  <2> HIDE DEF M
  <2>1. h \in M[i]
    BY DEF M
  <2> QED BY <1>1, <1>2, <1>4, <1>6, <2>1, ChainsReplace
<1>9. /\ Chains(v, N) /\ Total(v) = Total(f) - k
      /\ \A x \in Addr : x # b /\ x \notin M[i] => v.hdr[x] = f.hdr[x]
  BY <1>8 DEF ReplacesOn
<1>10. /\ v \in Heap /\ v.index = [f.index EXCEPT ![b] = IsHeader]
       /\ v.hdr[b].sz = sz - k /\ v.hdr[b].free
       /\ v.hdr[h].sz = k /\ v.hdr[h].free = f.hdr[h].free
       /\ \A x \in Addr : x # h /\ x # b => v.hdr[x].sz = f.hdr[x].sz /\ v.hdr[x].free = f.hdr[x].free
  BY <1>6 DEF Replaced
<1>11. \A j \in Lists : \A x : x \in N[j] <=> (x \in M[j] /\ x # h) \/ (j = i /\ x = b)
  <2>1. \A j \in Lists : N[j] = IF j = i THEN Swapped(M[i], h, b) ELSE M[j]
    BY <1>1
  <2>2. \A j \in Lists : h \in M[j] => j = i
    BY <1>1 DEF FreeBut
  <2> HIDE DEF M, N
  <2> QED BY <2>1, <2>2 DEF Swapped
<1>12. N \in [Lists -> SUBSET Memory]
  BY <1>9 DEF Chains
<1> HIDE DEF N
<1>13. /\ l \in Lists /\ Chains(g, O) /\ Total(g) = Total(v) + v.hdr[h].sz
       /\ g \in Heap /\ g.index = v.index
       /\ \A x \in Addr : g.hdr[x].sz = v.hdr[x].sz /\ g.hdr[x].free = IF x = h THEN TRUE ELSE v.hdr[x].free
       /\ OnlyIn(v, g, N[l] \cup {h})
  <2>1. v \in Heap /\ Chains(v, N) /\ h \in Memory /\ \A j \in Lists : h \notin N[j]
    BY <1>2, <1>3, <1>9, <1>10, <1>11
  <2>2. l \in Lists /\ g \in Heap /\ g.index = v.index
    BY <2>1, <1>7, ChainsAdd
  <2>3. Chains(g, O)
    BY <2>1, <1>7, ChainsAdd
  <2>4. Total(g) = Total(v) + v.hdr[h].sz
    BY <2>1, <1>7, ChainsAdd, ZenonT(40)
  <2>5. \A x \in Addr : g.hdr[x].sz = v.hdr[x].sz
    BY <2>1, <1>7, ChainsAdd, ZenonT(40)
  <2>6. \A x \in Addr : g.hdr[x].free = IF x = h THEN TRUE ELSE v.hdr[x].free
    <3> HIDE DEF l, O
    <3>1. \A x \in Addr : GC_add_to_fl(v, h).hdr[x].free = IF x = h THEN TRUE ELSE v.hdr[x].free
      BY <2>1, ChainsAdd, Zenon
    <3> QED BY <3>1, <1>7
  <2>7. OnlyIn(v, g, N[l] \cup {h})
    BY <2>1, <1>7, ChainsAdd
  <2> QED BY <2>2, <2>3, <2>4, <2>5, <2>6, <2>7
<1>14. /\ g.index = [f.index EXCEPT ![b] = IsHeader]
       /\ g.hdr[b].sz = sz - k /\ g.hdr[b].free /\ g.hdr[h].sz = k /\ g.hdr[h].free
       /\ \A x \in Addr : x # h /\ x # b => g.hdr[x].sz = f.hdr[x].sz /\ g.hdr[x].free = f.hdr[x].free
  BY <1>1, <1>2, <1>3, <1>10, <1>13
<1>15. \A x \in Addr : x \notin Headers(f) /\ x # b => g.hdr[x] = f.hdr[x]
  <2>1. ASSUME NEW x \in Addr, x \notin Headers(f), x # b PROVE g.hdr[x] = f.hdr[x]
    <3>1. \A j \in Lists : x \notin M[j]
      BY <2>1 DEF FreeBut
    <3>2. x \notin N[l] /\ x # h
      BY <1>1, <1>11, <1>13, <2>1, <3>1
    <3>3. v.hdr[x] = f.hdr[x]
      BY <1>9, <2>1, <3>1
    <3> QED BY <3>2, <3>3, <1>13 DEF OnlyIn
  <2> QED BY <2>1
<1>16. Divided(f, g, h, k, FALSE)
  <2>1. f.index \in [Addr -> 0 .. IsHeader]
    BY <1>1, HeapFields
  <2>2. \A x \in Addr : g.index[x] = IF x = b THEN IsHeader ELSE f.index[x]
    BY <1>14, <2>1
  <2>3. g.hdr[b].sz = sz - k /\ g.hdr[b].free /\ g.hdr[h].sz = k /\ g.hdr[h].free
    BY <1>14
  <2> HIDE DEF k
  <2> QED BY <1>3, <1>13, <1>14, <1>15, <2>2, <2>3 DEF Divided
<1>17. Divides(f, g, m, b)
  <2> HIDE DEF k
  <2>1. 0 < k /\ k < f.hdr[h].sz /\ k \in Nat
    BY <1>3
  <2>2. Divides(f, g, m, h + k)
    BY <1>1, <1>16, <2>1, DivideShaped
  <2> QED BY <1>3, <2>2
<1>18. Shaped(g, m, Null) /\ Headers(g) = Headers(f) \cup {b} /\ b \in Headers(g)
  BY <1>17 DEF Divides
<1>19. [O EXCEPT ![i] = @ \ {b}] = FreeBut(g, b)
  <2> DEFINE L == [O EXCEPT ![i] = @ \ {b}]
  <2>1. O \in [Lists -> SUBSET Memory]
    BY <1>13 DEF Chains
  <2>2. \A j \in Lists : \A x : x \in O[j] <=> x \in N[j] \/ (j = l /\ x = h)
    <3> HIDE DEF l
    <3>1. \A j \in Lists : O[j] = IF j = l THEN N[l] \cup {h} ELSE N[j]
      BY <1>12
    <3> QED BY <3>1
  <2> HIDE DEF O
  <2>3. L \in [Lists -> SUBSET Memory]
    BY <2>1
  <2>4. \A j \in Lists : \A x : x \in L[j] <=> x \in O[j] /\ (j = i => x # b)
    <3>1. \A j \in Lists : L[j] = IF j = i THEN O[i] \ {b} ELSE O[j]
      BY <2>1
    <3> QED BY <3>1
  <2> HIDE DEF L
  <2>5. ASSUME NEW j \in Lists, NEW x
        PROVE  x \in L[j] <=> x \in FreeBut(g, b)[j]
    <3>0. x \in L[j] <=> (x \in M[j] /\ x # h) \/ (j = l /\ x = h)
      BY <1>3, <1>4, <1>11, <2>2, <2>4
    <3>1. CASE x \in Headers(f) /\ x # h
      <4>1. x \in Addr /\ x # b /\ x \in Headers(g)
        BY <1>2, <1>4, <1>18, <3>1
      <4>2. g.hdr[x].sz = f.hdr[x].sz /\ g.hdr[x].free = f.hdr[x].free /\ ListOf(g, x) = ListOf(f, x)
        BY <1>14, <3>1, <4>1 DEF ListOf
      <4>3. x \in M[j] <=> f.hdr[x].free /\ ListOf(f, x) = j
        BY <1>2, <3>1 DEF FreeBut
      <4>4. x \in FreeBut(g, b)[j] <=> f.hdr[x].free /\ ListOf(f, x) = j
        BY <4>1, <4>2 DEF FreeBut
      <4> QED BY <3>0, <3>1, <4>3, <4>4
    <3>2. CASE x = h
      <4>1. ListOf(g, h) = l
        <5>1. g.hdr[h].sz = v.hdr[h].sz
          BY <1>2, <1>13
        <5> QED BY <5>1 DEF ListOf
      <4>2. x \in FreeBut(g, b)[j] <=> j = l
        BY <1>1, <1>3, <1>14, <1>18, <3>2, <4>1 DEF FreeBut
      <4> QED BY <3>0, <3>2, <4>2
    <3>3. CASE x \notin Headers(f)
      <4>1. x \notin M[j] /\ x # h
        BY <1>1, <3>3 DEF FreeBut
      <4>2. x \notin FreeBut(g, b)[j]
        BY <1>18, <3>3 DEF FreeBut
      <4> QED BY <3>0, <4>1, <4>2
    <3> QED BY <3>1, <3>2, <3>3
  <2>6. FreeBut(g, b) \in [Lists -> SUBSET Memory]
    BY <1>18, FreeButIs
  <2>7. L = FreeBut(g, b)
    <3>1. \A j \in Lists : L[j] = FreeBut(g, b)[j]
      BY <2>5
    <3> QED BY <2>3, <2>6, <3>1
  <2> QED BY <2>7 DEF L
<1>20. b \in O[i]
  <2>1. b \in N[i]
    BY <1>11
  <2> HIDE DEF l
  <2> QED BY <1>12, <1>13, <2>1
<1>21. Ready(g, m, b, i)
  <2> HIDE DEF O
  <2> QED BY <1>13, <1>14, <1>18, <1>19, <1>20 DEF Ready
<1>22. \A x \in Addr : IsFree(g, x) <=> IsFree(f, x) \/ x = b
  <2>1. ASSUME NEW x \in Addr PROVE HasHeader(g, x) <=> HasHeader(f, x) \/ x = b
    <3>1. x \in Headers(g) <=> x \in Headers(f) \/ x = b
      BY <1>18
    <3> QED BY <3>1 DEF Headers
  <2>2. ASSUME NEW x \in Addr, x = b PROVE IsFree(g, x)
    BY <1>14, <2>1, <2>2 DEF IsFree
  <2>3. ASSUME NEW x \in Addr, x # b PROVE IsFree(g, x) <=> IsFree(f, x)
    <3>1. CASE x = h
      BY <1>1, <1>14, <2>1, <2>3, <3>1 DEF IsFree
    <3>2. CASE x # h
      BY <1>14, <2>1, <2>3, <3>2 DEF IsFree
    <3> QED BY <3>1, <3>2
  <2>4. ~(IsFree(f, b))
    BY <1>2, <1>4 DEF IsFree, Headers
  <2> QED BY <2>2, <2>3
<1>23. NoAdjBut(g, b)
  <2>1. ASSUME NEW a \in Headers(g), a # b, g.hdr[a].free, a + g.hdr[a].sz # b, IsFree(g, a + g.hdr[a].sz)
        PROVE  FALSE
    <3>1. a \in Headers(f) /\ a # h
      BY <1>3, <1>14, <1>18, <2>1
    <3>2. g.hdr[a].sz = f.hdr[a].sz /\ f.hdr[a].free
      BY <1>2, <1>14, <2>1, <3>1
    <3>3. a + f.hdr[a].sz \in Addr
      BY <1>1, <3>1, Behind
    <3> QED BY <1>22, <2>1, <3>1, <3>2, <3>3 DEF NoAdj
  <2> QED BY <2>1 DEF NoAdjBut
<1>24. /\ b + g.hdr[b].sz = h + sz /\ g.hdr[b].sz = h + sz - b
  BY <1>2, <1>3, <1>14
<1>25. ~IsFree(g, b + g.hdr[b].sz)
  <2>1. h + sz \in Addr /\ h + sz # b /\ ~IsFree(f, h + sz)
    <3>1. h + sz \in Addr
      BY <1>1, Behind
    <3>2. h + sz # b
      BY <1>2, <1>3
    <3> QED BY <1>1, <3>1, <3>2 DEF NoAdj
  <2> QED BY <1>22, <1>24, <2>1
<1>26. Total(g) = Total(f)
  <2>1. Total(f) \in Int
    BY <1>1, TotalIsInt
  <2>2. Total(g) = Total(f) - k + k
    BY <1>9, <1>10, <1>13
  <2> QED BY <1>3, <2>1, <2>2
<1> QED
  BY <1>21, <1>23, <1>24, <1>25, <1>26 DEF Splits, g

------------------------------------------------------------------------------
(* Dropping a block.                                                       *)

\* The blocks of h without a header of their own after h was dropped: lost.
KeptOf(f, h, lost) == BlocksOf(f, h) \ lost

\* What Drop makes of the heap.
Dropped(f, h, i, lost) ==
  [GC_remove_from_fl(f, h, i) EXCEPT
     !.index = [a \in Addr |-> IF a \in KeptOf(f, h, lost) THEN IsHeader ELSE @[a]],
     !.hdr = [a \in Addr |-> IF a \in KeptOf(f, h, lost) THEN [NoHeader EXCEPT !.sz = 1] ELSE @[a]]]

\* The links of the free blocks that are left.
Relinked(f, g, h, i) ==
  LET p == f.hdr[h].prev
      q == f.hdr[h].next
  IN /\ g.fl[i] = IF p = Null THEN q ELSE f.fl[i]
     /\ \A x \in Headers(f) : f.hdr[x].free /\ x # h =>
          g.hdr[x].next = IF p # Null /\ x = p THEN q ELSE f.hdr[x].next

\* The free blocks of g are those of f but h.
Loses(f, g, h) ==
  \A x \in Addr : /\ IsFree(g, x) <=> IsFree(f, x) /\ x # h
                  /\ IsFree(f, x) /\ x # h => g.hdr[x].sz = f.hdr[x].sz

Drops(f, g, m, h, i) ==
  /\ Kept(g, m) /\ NoAdj(g) /\ Total(g) = Total(f) - f.hdr[h].sz
  /\ Relinked(f, g, h, i) /\ Loses(f, g, h)

\* In g the places in c are blocks of their own, in use.
InPieces(r, g, c) ==
  /\ g \in Heap /\ g.fl = r.fl /\ g.free_bytes = r.free_bytes
  /\ \A x \in Addr : g.index[x] = IF x \in c THEN IsHeader ELSE r.index[x]
  /\ \A x \in c : g.hdr[x].sz = 1 /\ g.hdr[x].free = FALSE
  /\ \A x \in Addr : x \notin c => g.hdr[x] = r.hdr[x]

\* What Drop sets in the headers and the table.
LEMMA PiecesSet ==
  ASSUME NEW r \in Heap, NEW c \in SUBSET Addr
  PROVE  InPieces(r, [r EXCEPT !.index = [a \in Addr |-> IF a \in c THEN IsHeader ELSE @[a]],
                              !.hdr = [a \in Addr |-> IF a \in c THEN [NoHeader EXCEPT !.sz = 1] ELSE @[a]]], c)
<1> DEFINE s == [NoHeader EXCEPT !.sz = 1]
           X == [a \in Addr |-> IF a \in c THEN IsHeader ELSE r.index[a]]
           H == [a \in Addr |-> IF a \in c THEN s ELSE r.hdr[a]]
           u == [r EXCEPT !.index = X]
           g == [u EXCEPT !.hdr = H]
<1>1. g = [r EXCEPT !.index = [a \in Addr |-> IF a \in c THEN IsHeader ELSE @[a]],
                    !.hdr = [a \in Addr |-> IF a \in c THEN [NoHeader EXCEPT !.sz = 1] ELSE @[a]]]
  <2>1. u.hdr = r.hdr
    BY DEF Heap
  <2> QED BY <2>1
<1>2. s \in Hdr /\ s.sz = 1 /\ s.free = FALSE
  BY NoHeaderType
<1> HIDE DEF s
<1>3. X \in [Addr -> 0 .. IsHeader] /\ H \in [Addr -> Hdr]
  <2>1. IsHeader \in 0 .. IsHeader
    BY ConstantsAssumption DEF IsHeader
  <2>2. r.index \in [Addr -> 0 .. IsHeader] /\ r.hdr \in [Addr -> Hdr]
    BY HeapFields
  <2> QED BY <1>2, <2>1, <2>2
<1>4. /\ \A x \in Addr : X[x] = IF x \in c THEN IsHeader ELSE r.index[x]
      /\ \A x \in Addr : H[x] = IF x \in c THEN s ELSE r.hdr[x]
  OBVIOUS
<1> HIDE DEF X, H
<1>5. u \in Heap /\ u.hdr = r.hdr /\ u.index = X /\ u.fl = r.fl /\ u.free_bytes = r.free_bytes
  BY <1>3, IndexSet
<1> HIDE DEF u
<1>6. g \in Heap /\ g.hdr = H /\ g.index = u.index /\ g.fl = u.fl /\ g.free_bytes = u.free_bytes
  BY <1>3, <1>5, HdrSet
<1> HIDE DEF g
<1>7. InPieces(r, g, c)
  <2>1. g.fl = r.fl /\ g.free_bytes = r.free_bytes
    BY <1>5, <1>6
  <2>2. \A x \in Addr : g.index[x] = IF x \in c THEN IsHeader ELSE r.index[x]
    BY <1>4, <1>5, <1>6
  <2>3. \A x \in Addr : g.hdr[x] = IF x \in c THEN s ELSE r.hdr[x]
    BY <1>4, <1>6
  <2>4. \A x \in c : g.hdr[x].sz = 1 /\ g.hdr[x].free = FALSE
    BY <1>2, <2>3
  <2> QED BY <1>6, <2>1, <2>2, <2>3, <2>4 DEF InPieces
<1> QED BY <1>1, <1>7

\* A free block in pieces.
LEMMA PiecesShaped ==
  ASSUME NEW r, NEW m, NEW h, Shaped(r, m, Null), h \in Headers(r), r.hdr[h].free,
         NEW c \in SUBSET BlocksOf(r, h), h \in c, NEW g, InPieces(r, g, c)
  PROVE  Shaped(g, m, Null) /\ Headers(g) = Headers(r) \cup c
<1>1. /\ r \in Heap /\ g \in Heap /\ m \subseteq Memory /\ Memory \subseteq Addr
      /\ r.index \in [Addr -> 0 .. IsHeader] /\ MAX_JUMP \in Nat /\ MAX_JUMP > 0
      /\ Headers(r) \subseteq Addr
      /\ \A x \in Headers(r) : /\ x \in Nat /\ x \in Addr /\ r.hdr[x].sz \in Nat /\ r.hdr[x].sz > 0 /\ x # Null
                               /\ \A a \in BlocksOf(r, x) : a \in Addr /\ a \in Nat /\ a \in m
      /\ \A x, j \in Headers(r) : x < j => x + r.hdr[x].sz <= j
  <2>1. r \in Heap /\ g \in Heap /\ m \subseteq Memory
    BY DEF Shaped, InPieces
  <2>2. /\ Headers(r) \subseteq Addr
        /\ \A x \in Headers(r) : /\ x \in Nat /\ x \in Addr /\ r.hdr[x].sz \in Nat /\ r.hdr[x].sz > 0 /\ x # Null
                                 /\ \A a \in BlocksOf(r, x) : a \in Addr /\ a \in Nat /\ a \in m
        /\ \A x, j \in Headers(r) : x < j => x + r.hdr[x].sz <= j
    BY Apart
  <2> QED BY <2>1, <2>2, HeapFields, MemoryFinite, ConstantsAssumption
<1>2. \A x \in c : x \in Addr /\ x \in Nat /\ x \in m /\ x \in BlocksOf(r, h) /\ (x # h => r.index[x] = 0 /\ x \notin Headers(r))
  <2>1. ASSUME NEW x \in c PROVE x \in Addr /\ x \in Nat /\ x \in m /\ x \in BlocksOf(r, h)
    BY <1>1
  <2>2. ASSUME NEW x \in c, x # h PROVE r.index[x] = 0 /\ x \notin Headers(r)
    <3>1. r.index[x] = 0
      BY <2>1, <2>2 DEF Shaped
    <3> QED BY <3>1, <1>1 DEF Headers, HasHeader, IsHeader
  <2> QED BY <2>1, <2>2
<1>3. /\ \A x \in Addr : g.index[x] = IF x \in c THEN IsHeader ELSE r.index[x]
      /\ \A x \in c : g.hdr[x].sz = 1 /\ g.hdr[x].free = FALSE
      /\ \A x \in Addr : x \notin c => g.hdr[x] = r.hdr[x]
  BY DEF InPieces
<1>4. Headers(g) = Headers(r) \cup c
  BY <1>2, <1>3 DEF Headers, HasHeader
<1>5. \A x \in c : BlocksOf(g, x) = {x}
  <2>1. ASSUME NEW x \in c PROVE BlocksOf(g, x) = {x}
    <3>1. BlocksOf(g, x) = x .. x + 1 - 1
      BY <1>3, Zenon DEF BlocksOf
    <3> QED BY <3>1, <1>2
  <2> QED BY <2>1
<1>6. \A x \in Headers(r) : x # h =>
        /\ x \notin c /\ BlocksOf(g, x) = BlocksOf(r, x) /\ g.hdr[x].free = r.hdr[x].free /\ g.hdr[x].sz = r.hdr[x].sz
  BY <1>1, <1>2, <1>3 DEF BlocksOf
<1>7. ASSUME NEW x \in Headers(r), x # h PROVE BlocksOf(r, x) \cap BlocksOf(r, h) = {}
  <2>1. SUFFICES ASSUME NEW a \in BlocksOf(r, x), a \in BlocksOf(r, h) PROVE FALSE
    OBVIOUS
  <2>2. /\ x \in Nat /\ h \in Nat /\ r.hdr[x].sz \in Nat /\ r.hdr[h].sz \in Nat /\ a \in Nat
        /\ (x < h => x + r.hdr[x].sz <= h) /\ (h < x => h + r.hdr[h].sz <= x)
    BY <1>1, <2>1
  <2>3. x <= a /\ a < x + r.hdr[x].sz /\ h <= a /\ a < h + r.hdr[h].sz
    BY <2>1, <2>2 DEF BlocksOf
  <2> QED BY <2>2, <2>3, <1>7
<1>8. \A x \in Headers(g) : g.hdr[x].sz > 0 /\ BlocksOf(g, x) \subseteq m
  <2>1. ASSUME NEW x \in Headers(r), x # h PROVE g.hdr[x].sz > 0 /\ BlocksOf(g, x) \subseteq m
    BY <2>1, <1>1, <1>6
  <2>2. ASSUME NEW x \in c PROVE g.hdr[x].sz > 0 /\ BlocksOf(g, x) \subseteq m
    BY <1>2, <1>3, <1>5
  <2> QED BY <2>1, <2>2, <1>4
<1>9. ASSUME NEW x \in Headers(g), NEW a \in BlocksOf(g, x), a # x
      PROVE  g.index[a] = IF g.hdr[x].free \/ x = Null THEN 0 ELSE Count(a - x)
  <2>1. x \notin c
    BY <1>5, <1>9
  <2>2. x \in Headers(r) /\ x # h /\ a \in BlocksOf(r, x) /\ g.hdr[x].free = r.hdr[x].free
    BY <2>1, <1>4, <1>6, <1>9
  <2>3. a \notin c
    BY <2>2, <1>2, <1>7
  <2>4. r.index[a] = IF r.hdr[x].free \/ x = Null THEN 0 ELSE Count(a - x)
    BY <2>2, <1>9 DEF Shaped
  <2>5. a \in Addr
    BY <2>2, <1>1
  <2> QED BY <2>2, <2>3, <2>4, <2>5, <1>3
<1>10. ASSUME NEW a \in Addr, \A x \in Headers(g) : a \notin BlocksOf(g, x) PROVE g.index[a] = 0
  <2>1. a \notin c
    BY <1>4, <1>5, <1>10
  <2>2. CASE a \in BlocksOf(r, h)
    <3>1. r.index[a] = 0
      BY <2>1, <2>2 DEF Shaped
    <3> QED BY <3>1, <2>1, <1>3
  <2>3. CASE a \notin BlocksOf(r, h)
    <3>1. \A x \in Headers(r) : a \notin BlocksOf(r, x)
      BY <2>3, <1>4, <1>6, <1>10
    <3>2. r.index[a] = 0
      BY <3>1 DEF Shaped
    <3> QED BY <3>2, <2>1, <1>3
  <2> QED BY <2>2, <2>3
<1>11. \A a \in Addr : a \notin Headers(g) => g.hdr[a] = NoHeader
  BY <1>3, <1>4 DEF Shaped
<1> QED
  BY <1>1, <1>4, <1>8, <1>9, <1>10, <1>11 DEF Shaped

\* A block that is dropped leaves the heap in order.
LEMMA DropWell ==
  ASSUME NEW f, NEW m, Kept(f, m), NoAdj(f), NEW i \in Lists, NEW h \in FreeBut(f, Null)[i],
         NEW lost \in SUBSET Inside(h, f.hdr[h].sz)
  PROVE  Drops(f, Dropped(f, h, i, lost), m, h, i)
<1> DEFINE r == GC_remove_from_fl(f, h, i)
           c == KeptOf(f, h, lost)
           g == Dropped(f, h, i, lost)
           M == FreeBut(f, Null)
<1>1. /\ Shaped(f, m, Null) /\ Chains(f, M) /\ f \in Heap
      /\ h \in Headers(f) /\ f.hdr[h].free /\ ListOf(f, h) = i /\ Headers(f) \subseteq Addr
  <2>1. Shaped(f, m, Null) /\ Chains(f, M) /\ f \in Heap
    BY DEF Kept, Shaped
  <2> QED BY <2>1, FreeButIs DEF Headers
<1>2. Unlists(f, r, m, h)
  <2>1. Ready(f, m, h, i)
    BY KeptReady
  <2> QED BY <2>1, OffList
<1>3. /\ r \in Heap
      /\ r.fl = [f.fl EXCEPT ![i] = IF f.hdr[h].prev = Null THEN f.hdr[h].next ELSE @]
      /\ \A x \in Addr : r.hdr[x].next = IF f.hdr[h].prev # Null /\ x = f.hdr[h].prev
                                         THEN f.hdr[h].next ELSE f.hdr[x].next
  <2>1. h \in Addr
    BY <1>1
  <2>2. /\ r \in Heap /\ SameBlocks(f, r)
        /\ r.fl = [f.fl EXCEPT ![i] = IF f.hdr[h].prev = Null THEN f.hdr[h].next ELSE @]
        /\ r.free_bytes = [f.free_bytes EXCEPT ![i] = @ - f.hdr[h].sz]
        /\ \A x \in Addr :
             /\ r.hdr[x].next = IF f.hdr[h].prev # Null /\ x = f.hdr[h].prev THEN f.hdr[h].next ELSE f.hdr[x].next
             /\ r.hdr[x].prev = IF f.hdr[h].next # Null /\ x = f.hdr[h].next THEN f.hdr[h].prev ELSE f.hdr[x].prev
    <3>1. f \in Heap
      BY <1>1
    <3> QED BY <2>1, <3>1, RemoveSets
  <2> HIDE DEF r
  <2> QED BY <2>2
<1> HIDE DEF r
<1>4. /\ Loose(r, m, h) /\ SameBlocks(f, r) /\ Total(r) = Total(f) - f.hdr[h].sz
      /\ r.hdr[h].free /\ r.hdr[h].sz = f.hdr[h].sz /\ Headers(r) = Headers(f)
      /\ \A x \in Addr : IsFree(r, x) <=> IsFree(f, x)
  BY <1>2 DEF Unlists
<1>5. Shaped(r, m, Null) /\ Chains(r, FreeBut(r, h))
  <2>1. Shaped(r, m, h) /\ h \in Headers(r) /\ Chains(r, FreeBut(r, h))
    BY <1>4 DEF Loose
  <2> QED BY <1>4, <2>1, LooseFree
<1>6. /\ \A x \in Headers(f) : x \in Addr /\ x # Null /\ x \in Nat
      /\ f.hdr[h].sz \in Nat /\ f.hdr[h].sz > 0 /\ h \in BlocksOf(f, h)
      /\ \A x \in BlocksOf(f, h) : x \in Addr
  BY <1>1, Apart
<1>7. h \in c /\ c \subseteq BlocksOf(f, h) /\ c \subseteq Addr /\ BlocksOf(r, h) = BlocksOf(f, h)
  <2>1. h \notin lost
    BY <1>1, <1>6 DEF Inside
  <2>2. BlocksOf(r, h) = BlocksOf(f, h)
    BY <1>4 DEF BlocksOf
  <2> QED BY <2>1, <2>2, <1>6 DEF KeptOf
<1>8. InPieces(r, g, c)
  <2>1. c \in SUBSET Addr
    BY <1>7
  <2>2. g = [r EXCEPT !.index = [a \in Addr |-> IF a \in c THEN IsHeader ELSE @[a]],
                    !.hdr = [a \in Addr |-> IF a \in c THEN [NoHeader EXCEPT !.sz = 1] ELSE @[a]]]
    BY Zenon DEF r, Dropped
  <2>3. r \in Heap
    BY <1>3
  <2> HIDE DEF c, g
  <2> QED BY <2>1, <2>2, <2>3, PiecesSet, Zenon
<1> HIDE DEF g, c
<1>9. Shaped(g, m, Null) /\ Headers(g) = Headers(f) \cup c
  <2>1. c \in SUBSET BlocksOf(r, h) /\ h \in Headers(r)
    BY <1>1, <1>4, <1>7
  <2>2. Shaped(g, m, Null) /\ Headers(g) = Headers(r) \cup c
    BY <1>4, <1>5, <1>7, <1>8, <2>1, PiecesShaped
  <2> QED BY <1>4, <2>2
<1>10. /\ g \in Heap /\ g.fl = r.fl /\ g.free_bytes = r.free_bytes
       /\ \A x \in c : g.hdr[x].sz = 1 /\ g.hdr[x].free = FALSE
       /\ \A x \in Addr : x \notin c => g.hdr[x] = r.hdr[x]
  BY <1>8 DEF InPieces
<1>11. \A x \in Headers(f) : x # h => x \notin c
  <2>1. ASSUME NEW x \in Headers(f), x # h, x \in c PROVE FALSE
    <3>1. f.index[x] = 0
      BY <1>1, <1>7, <2>1 DEF Shaped
    <3> QED BY <3>1, ConstantsAssumption DEF Headers, HasHeader, IsHeader
  <2> QED BY <2>1
<1>12. \A x \in Addr : r.hdr[x].sz = f.hdr[x].sz /\ r.hdr[x].free = f.hdr[x].free
  BY <1>4 DEF SameBlocks
<1>13. Loses(f, g, h)
  <2>1. ASSUME NEW x \in Addr PROVE /\ IsFree(g, x) <=> IsFree(f, x) /\ x # h
                                    /\ IsFree(f, x) /\ x # h => g.hdr[x].sz = f.hdr[x].sz
    <3>1. HasHeader(g, x) <=> HasHeader(f, x) \/ x \in c
      <4>1. x \in Headers(g) <=> x \in Headers(f) \/ x \in c
        BY <1>9
      <4> QED BY <4>1 DEF Headers
    <3>2. CASE x \in c
      <4>1. ~IsFree(g, x)
        BY <3>2, <1>10 DEF IsFree
      <4>2. IsFree(f, x) => x = h
        BY <3>2, <1>11 DEF IsFree, Headers
      <4> QED BY <4>1, <4>2
    <3>3. CASE x \notin c
      BY <1>7, <1>10, <1>12, <3>1, <3>3 DEF IsFree
    <3> QED BY <3>2, <3>3
  <2> QED BY <2>1 DEF Loses
<1>14. FreeBut(g, Null) = FreeBut(r, h)
  <2>1. ASSUME NEW j \in Lists, NEW x PROVE x \in FreeBut(g, Null)[j] <=> x \in FreeBut(r, h)[j]
    <3>1. CASE x \in Headers(f) /\ x # h
      <4>1. x \in Addr /\ x # Null /\ x \notin c /\ x \in Headers(g) /\ x \in Headers(r)
        BY <1>4, <1>6, <1>9, <1>11, <3>1
      <4>2. g.hdr[x] = r.hdr[x]
        BY <1>10, <4>1
      <4>3. ListOf(g, x) = ListOf(r, x)
        BY <4>2 DEF ListOf
      <4> QED BY <3>1, <4>1, <4>2, <4>3 DEF FreeBut
    <3>2. CASE ~(x \in Headers(f) /\ x # h)
      <4>1. x \notin FreeBut(r, h)[j]
        BY <1>4, <3>2 DEF FreeBut
      <4>2. x \notin FreeBut(g, Null)[j]
        BY <1>7, <1>9, <1>10, <3>2 DEF FreeBut
      <4> QED BY <4>1, <4>2
    <3> QED BY <3>1, <3>2
  <2>2. FreeBut(g, Null) \in [Lists -> SUBSET Memory]
    BY <1>9, FreeButIs
  <2>3. FreeBut(r, h) \in [Lists -> SUBSET Memory]
    BY <1>5, FreeButIs
  <2>4. \A j \in Lists : FreeBut(g, Null)[j] = FreeBut(r, h)[j]
    BY <2>1
  <2> QED BY <2>2, <2>3, <2>4
<1>15. Kept(g, m) /\ Total(g) = Total(f) - f.hdr[h].sz
  <2>1. \A j \in Lists : \A x \in FreeBut(r, h)[j] : g.hdr[x] = r.hdr[x]
    <3>1. \A j \in Lists : \A x \in FreeBut(r, h)[j] : x \in Headers(r) /\ x # h
      BY <1>5, FreeButIs
    <3> QED BY <3>1, <1>4, <1>6, <1>10, <1>11
  <2>2. \A j \in Lists : \A x \in FreeBut(r, h)[j] :
          /\ g.hdr[x].sz = r.hdr[x].sz
          /\ g.hdr[x].prev = r.hdr[x].prev /\ g.hdr[x].next = r.hdr[x].next
    BY <2>1
  <2>3. g \in Heap /\ g.fl = r.fl /\ g.free_bytes = r.free_bytes
    BY <1>10
  <2>4. Chains(g, FreeBut(r, h)) /\ Total(g) = Total(r)
    BY <1>3, <1>5, <2>2, <2>3, ChainsFrame
  <2> QED BY <1>4, <1>9, <1>14, <2>4 DEF Kept
<1>16. NoAdj(g)
  <2>1. ASSUME NEW a \in Headers(g), g.hdr[a].free, IsFree(g, a + g.hdr[a].sz) PROVE FALSE
    <3>1. a \in Headers(f) /\ a # h /\ a \notin c
      BY <1>7, <1>9, <1>10, <2>1
    <3>2. g.hdr[a].sz = f.hdr[a].sz /\ f.hdr[a].free
      BY <1>6, <1>10, <1>12, <2>1, <3>1
    <3>3. a + f.hdr[a].sz \in Addr
      BY <1>1, <3>1, Behind
    <3> QED BY <1>13, <2>1, <3>1, <3>2, <3>3 DEF NoAdj, Loses
  <2> QED BY <2>1 DEF NoAdj
<1>17. Relinked(f, g, h, i)
  <2>1. g.fl[i] = IF f.hdr[h].prev = Null THEN f.hdr[h].next ELSE f.fl[i]
    <3>1. f.fl \in [Lists -> Addr]
      BY <1>1, HeapFields
    <3> QED BY <1>3, <1>10, <3>1
  <2>2. \A x \in Headers(f) : x # h => g.hdr[x] = r.hdr[x]
    BY <1>6, <1>10, <1>11
  <2> QED BY <1>3, <1>6, <2>1, <2>2 DEF Relinked
<1> QED
  BY <1>13, <1>15, <1>16, <1>17 DEF Drops, g

------------------------------------------------------------------------------
(* What can be reached on a list.                                          *)

\* g[k] is what one gets to on list i within k steps.
Reaching(f, i, g) ==
  g = [k \in 0 .. Cardinality(Memory) |->
         IF k = 0 THEN {f.fl[i]} ELSE g[k - 1] \cup {f.hdr[b].next : b \in g[k - 1]}]

\* OnList takes the function it chooses.
LEMMA OnListIsChosen ==
  ASSUME NEW i
  PROVE  OnList(i) = (CHOOSE g : Reaching(heap, i, g))[Cardinality(Memory)] \ {Null}
BY Zenon DEF OnList, Reaching

\* There is a function to choose.
LEMMA ReachExists ==
  ASSUME NEW f \in Heap, NEW i \in Lists
  PROVE  \E g : Reaching(f, i, g)
<1> DEFINE N == Cardinality(Memory)
           S == SUBSET Addr
           Step(s) == s \cup {f.hdr[b].next : b \in s}
           F == [k \in Nat |-> [s \in S |-> Step(s)]]
<1>1. N \in Nat
  BY MemoryFinite, FS_CardinalityType
<1>2. {f.fl[i]} \in S
  BY HeapFields
<1>3. F \in [Nat -> [S -> S]] /\ \A k \in Nat : \A s \in S : F[k][s] = Step(s)
  <2>1. ASSUME NEW s \in S PROVE Step(s) \in S
    BY HeapFields
  <2> HIDE DEF S, Step
  <2> QED BY <2>1
<1> DEFINE s0 == {f.fl[i]}
<1> HIDE DEF N, S, F, Step, s0
<1>4. PICK g \in [0 .. N -> S] : g[0] = s0 /\ \A k \in 1 .. N : g[k] = F[k][g[k - 1]]
  <2>1. s0 \in S
    BY <1>2 DEF s0
  <2>2. F \in [Nat -> [S -> S]]
    BY <1>3
  <2>3. Iterates(S, s0, F, N)
    BY <1>1, <2>1, <2>2, Recursion
  <2> QED BY <2>3 DEF Iterates
<1>5. \A k \in 0 .. N : g[k] = IF k = 0 THEN s0 ELSE Step(g[k - 1])
  <2>1. ASSUME NEW k \in 1 .. N PROVE g[k] = Step(g[k - 1])
    <3>1. g[k - 1] \in S /\ k \in Nat
      BY <1>1, <1>4
    <3> QED BY <1>3, <1>4, <3>1
  <2>2. g[0] = s0
    BY <1>4
  <2>3. \A k \in 0 .. N : k = 0 \/ k \in 1 .. N
    BY <1>1
  <2> QED BY <2>1, <2>2, <2>3
<1>6. g = [k \in 0 .. N |-> IF k = 0 THEN s0 ELSE Step(g[k - 1])]
  BY <1>4, <1>5
<1> QED
  BY <1>6 DEF Reaching, N, s0, Step

\* From the start of a list one reaches its blocks and no others.
LEMMA ReachedIs ==
  ASSUME NEW f \in Heap, NEW i \in Lists, NEW S \in SUBSET Memory, Linked(f, i, S),
         f.hdr[Null].next = Null, NEW g, Reaching(f, i, g)
  PROVE  g[Cardinality(Memory)] \ {Null} = S
<1> DEFINE N == Cardinality(Memory)
           A(k) == g[k] \ {Null}
           Closed(k) == \A x \in A(k) : f.hdr[x].next \in A(k) \cup {Null}
<1>1. N \in Nat /\ S \subseteq Addr \ {Null} /\ IsFiniteSet(S) /\ Cardinality(S) <= N
  BY MemoryFinite, FS_CardinalityType, FS_Subset
<1>2. /\ g[0] = {f.fl[i]}
      /\ \A k \in 1 .. N : g[k] = g[k - 1] \cup {f.hdr[b].next : b \in g[k - 1]}
  BY <1>1 DEF Reaching
<1>3. ASSUME NEW k \in Nat, k + 1 <= N
      PROVE  \A x : x \in A(k + 1) <=> x # Null /\ (x \in A(k) \/ \E y \in A(k) : x = f.hdr[y].next)
  <2>1. k + 1 \in 1 .. N /\ (k + 1) - 1 = k
    BY <1>1, <1>3
  <2>2. g[k + 1] = g[k] \cup {f.hdr[b].next : b \in g[k]}
    BY <1>2, <2>1
  <2> QED BY <2>2
<1>4. \A x : x \in A(0) <=> x # Null /\ x = f.fl[i]
  BY <1>2
<1> HIDE DEF A
<1> DEFINE Within(k) == A(k) \subseteq S /\ f.fl[i] \in A(k) \cup {Null}
           T == {k \in Nat : k <= N => Within(k) /\ (Closed(k) \/ Cardinality(A(k)) >= k + 1)}
<1>5. 0 \in T
  <2>1. Within(0)
    BY <1>4 DEF Linked
  <2>2. CASE f.fl[i] = Null
    <3>1. Closed(0)
      BY <1>4, <2>2
    <3> QED BY <2>1, <3>1
  <2>3. CASE f.fl[i] # Null
    <3>1. A(0) = {f.fl[i]}
      BY <1>4, <2>3
    <3>2. Cardinality(A(0)) = 1
      BY <3>1, FS_Singleton
    <3> QED BY <2>1, <3>2
  <2> QED BY <2>2, <2>3
<1>6. ASSUME NEW k \in Nat, k \in T PROVE k + 1 \in T
  <2> SUFFICES ASSUME k + 1 <= N
               PROVE  Within(k + 1) /\ (Closed(k + 1) \/ Cardinality(A(k + 1)) >= k + 2)
    <3> HIDE DEF Within, Closed
    <3> QED OBVIOUS
  <2>1. Within(k) /\ (Closed(k) \/ Cardinality(A(k)) >= k + 1)
    <3>1. k <= N
      BY <1>1
    <3> HIDE DEF Within, Closed
    <3> QED BY <1>6, <3>1
  <2>2. \A x : x \in A(k + 1) <=> x # Null /\ (x \in A(k) \/ \E y \in A(k) : x = f.hdr[y].next)
    BY <1>3
  <2>3. Within(k + 1)
    <3>1. \A x \in A(k) : x \in S /\ x # Null
      BY <2>1, <1>1
    <3>2. \A x \in A(k + 1) : x \in S
      BY <2>2, <3>1 DEF Linked
    <3>3. f.fl[i] \in A(k + 1) \cup {Null}
      BY <2>1, <2>2
    <3> QED BY <3>2, <3>3
  <2>4. CASE Closed(k)
    <3>0. \A x \in A(k) : x # Null
      BY <1>1, <2>1
    <3>1. A(k + 1) = A(k)
      <4>1. ASSUME NEW x \in A(k + 1) PROVE x \in A(k)
        BY <2>2, <2>4
      <4>2. ASSUME NEW x \in A(k) PROVE x \in A(k + 1)
        BY <2>2, <3>0
      <4> QED BY <4>1, <4>2
    <3>2. Closed(k + 1)
      BY <2>4, <3>1
    <3> QED BY <2>3, <3>2
  <2>5. CASE ~Closed(k)
    <3>1. PICK y \in A(k + 1) : y \notin A(k)
      BY <2>2, <2>5
    <3>2. IsFiniteSet(A(k + 1)) /\ IsFiniteSet(A(k)) /\ A(k) \cup {y} \subseteq A(k + 1)
      <4>1. A(k + 1) \subseteq S /\ A(k) \subseteq S
        BY <2>1, <2>3
      <4>2. IsFiniteSet(A(k + 1)) /\ IsFiniteSet(A(k))
        BY <1>1, <4>1, FS_Subset
      <4>3. A(k) \subseteq A(k + 1)
        BY <1>1, <2>1, <2>2
      <4> QED BY <3>1, <4>2, <4>3
    <3>3. Cardinality(A(k) \cup {y}) = Cardinality(A(k)) + 1
      BY <3>1, <3>2, FS_AddElement
    <3>4. Cardinality(A(k) \cup {y}) <= Cardinality(A(k + 1))
      BY <3>2, FS_Subset
    <3>5. Cardinality(A(k)) \in Nat /\ Cardinality(A(k + 1)) \in Nat /\ Cardinality(A(k)) >= k + 1
      <4>1. Cardinality(A(k)) >= k + 1
        <5> HIDE DEF Closed
        <5> QED BY <2>1, <2>5
      <4> QED BY <3>2, <4>1, FS_CardinalityType
    <3> HIDE DEF Within, Closed
    <3> QED BY <2>3, <3>3, <3>4, <3>5
  <2> HIDE DEF Within, Closed
  <2> QED BY <2>4, <2>5
<1>7. Within(N) /\ (Closed(N) \/ Cardinality(A(N)) >= N + 1)
  <2>1. Nat \subseteq T
    <3> HIDE DEF T
    <3> QED BY <1>5, <1>6, NatSet
  <2>2. N \in T
    <3> HIDE DEF T
    <3> QED BY <1>1, <2>1
  <2> HIDE DEF N, Within, Closed
  <2> QED BY <2>2, <1>1
<1> HIDE DEF N
<1>8. Closed(N)
  <2>1. Cardinality(A(N)) <= Cardinality(S) /\ Cardinality(A(N)) \in Nat /\ Cardinality(S) \in Nat
    <3>1. A(N) \subseteq S
      BY <1>7
    <3> QED BY <1>1, <3>1, FS_Subset, FS_CardinalityType
  <2> HIDE DEF Closed
  <2> QED BY <1>1, <1>7, <2>1
<1>9. S \subseteq A(N)
  <2>1. A(N) \in SUBSET Addr /\ f.fl[i] \in A(N) \cup {Null}
    BY <1>1, <1>7
  <2>2. \A x \in S \cap A(N) : f.hdr[x].next \in A(N) \cup {Null}
    BY <1>8
  <2> QED BY <2>1, <2>2 DEF Linked
<1> QED
  BY <1>7, <1>9 DEF A, N

\* The blocks on list i are those of its chain.
LEMMA OnListIs ==
  ASSUME heap \in Heap, NEW M, Chains(heap, M), heap.hdr[Null].next = Null, NEW i \in Lists
  PROVE  OnList(i) = M[i]
<1> DEFINE c == CHOOSE g : Reaching(heap, i, g)
<1>1. Reaching(heap, i, c)
  BY ReachExists
<1>2. OnList(i) = c[Cardinality(Memory)] \ {Null}
  BY OnListIsChosen
<1>3. M[i] \in SUBSET Memory /\ Linked(heap, i, M[i])
  BY DEF Chains, Chain
<1> HIDE DEF c
<1> QED
  BY <1>1, <1>2, <1>3, ReachedIs

------------------------------------------------------------------------------
(* The invariant.                                                          *)

AddedMemory(a) == UNION {SectionBlocks(s) : s \in a}

\* The heap is in order: the header table describes blocks of the memory that was
\* added, the lists hold the free blocks, and free neighbours are coalesced.
HeapInv ==
  /\ Kept(heap, AddedMemory(added)) /\ NoAdj(heap)
  /\ GC_large_free_bytes = Total(heap)

Scalars ==
  /\ added \subseteq Sections /\ black \in BlackLists
  /\ pc \in {"idle", "search", "failed"}
  /\ req \in [blocks : Sizes, checked : BOOLEAN, ignore_off_page : BOOLEAN]
  /\ n \in Lists /\ may_split \in BOOLEAN /\ split_limit \in Lists /\ hbp \in Addr

\* The search looks at a block of list n.
OnItsList == pc = "search" /\ hbp # Null => hbp \in FreeBut(heap, Null)[n]

Inv == HeapInv /\ Scalars /\ OnItsList

\* The invariant gives the types,
LEMMA InvTypeOK == Inv => TypeOK
<1> SUFFICES ASSUME Inv PROVE TypeOK
  OBVIOUS
<1> DEFINE M == FreeBut(heap, Null)
<1>1. /\ Shaped(heap, AddedMemory(added), Null) /\ Chains(heap, M) /\ heap \in Heap
      /\ GC_large_free_bytes = Total(heap)
  BY DEF Inv, HeapInv, Kept, Shaped
<1>2. \A i \in Lists : heap.free_bytes[i] \in Nat
  <2>1. ASSUME NEW i \in Lists PROVE heap.free_bytes[i] \in Nat
    <3>1. M[i] \in SUBSET Memory /\ heap.free_bytes[i] = Bytes(heap, M[i])
      BY <1>1 DEF Chains, Chain
    <3> HIDE DEF M
    <3>2. Bytes(heap, M[i]) \in Nat
      BY <1>1, <3>1, BytesAre
    <3> QED BY <3>1, <3>2
  <2> QED BY <2>1
<1> DEFINE w == heap.free_bytes
<1>3. DOMAIN w = Lists /\ w \in [Lists -> Nat]
  <2>1. w \in [Lists -> Int]
    BY <1>1, HeapFields
  <2> HIDE DEF w
  <2> QED BY <1>2, <2>1 DEF w
<1>4. GC_large_free_bytes \in Nat
  <2>1. SumFunctionOnSet(w, Lists) \in Nat
    <3> HIDE DEF w
    <3> QED BY <1>3, ListsFinite, SumNat
  <2> QED BY <1>1, <1>3, <2>1 DEF Total, SumFunction
<1>5. heap \in [index : [Addr -> 0 .. IsHeader],
                hdr : [Addr -> [sz : Nat, free : BOOLEAN, prev : Addr, next : Addr]],
                fl : [Lists -> Addr], free_bytes : [Lists -> Nat]]
  BY <1>1, <1>3 DEF Heap
<1> QED
  BY <1>4, <1>5 DEF Inv, Scalars, TypeOK

\* what the headers describe,
LEMMA InvHeaders == Inv => HeadersDescribeBlocks
<1> SUFFICES ASSUME Inv PROVE HeadersDescribeBlocks
  OBVIOUS
<1> DEFINE m == AddedMemory(added)
<1>1. Shaped(heap, m, Null) /\ heap \in Heap
  BY DEF Inv, HeapInv, Kept, Shaped
<1>2. \A h \in Headers(heap) : heap.hdr[h].sz > 0 /\ BlocksOf(heap, h) \subseteq m
  BY <1>1 DEF Shaped
<1>3. ASSUME NEW h \in Headers(heap), NEW a \in BlocksOf(heap, h) \ {h}
      PROVE  IF heap.hdr[h].free THEN heap.index[a] = 0
             ELSE heap.index[a] \in 1 .. MAX_JUMP /\ Forwarded(heap, a) = h
  <2>1. h # Null /\ h \in Nat /\ a \in Addr /\ a \in Nat /\ heap.hdr[h].sz \in Nat
    BY <1>1, Apart
  <2>2. heap.index[a] = IF heap.hdr[h].free \/ h = Null THEN 0 ELSE Count(a - h)
    BY <1>1 DEF Shaped
  <2>3. CASE heap.hdr[h].free
    BY <2>2, <2>3
  <2>4. CASE ~heap.hdr[h].free
    <3>1. heap.index[a] = Count(a - h)
      BY <2>1, <2>2, <2>4
    <3>2. a - h \in Nat /\ a - h > 0
      BY <2>1 DEF BlocksOf
    <3>3. heap.index[a] \in 1 .. MAX_JUMP
      BY <3>1, <3>2, ConstantsAssumption DEF Count
    <3>4. Forwarded(heap, a) = h
      BY <1>1, <2>1, <3>3, ForwardedTo
    <3> QED BY <2>4, <3>3, <3>4
  <2> QED BY <2>3, <2>4
<1>4. ASSUME NEW a \in Addr \ UNION {BlocksOf(heap, h) : h \in Headers(heap)}
      PROVE  heap.index[a] = 0
  BY <1>1 DEF Shaped
<1> QED
  BY <1>2, <1>3, <1>4 DEF HeadersDescribeBlocks, AddedMemory

\* that the lists are consistent,
LEMMA InvLists == Inv => FreeListsConsistent
<1> SUFFICES ASSUME Inv PROVE FreeListsConsistent
  OBVIOUS
<1> DEFINE M == FreeBut(heap, Null)
<1>1. /\ Shaped(heap, AddedMemory(added), Null) /\ Chains(heap, M) /\ heap \in Heap
      /\ GC_large_free_bytes = Total(heap)
  BY DEF Inv, HeapInv, Kept, Shaped
<1>2. \A h \in Headers(heap) : h # Null
  BY <1>1, Apart
<1>3. heap.hdr[Null].next = Null
  <2>1. heap.hdr[Null] = NoHeader
    BY <1>1, <1>2, MemoryFinite DEF Shaped
  <2> QED BY <2>1 DEF NoHeader
<1>4. ASSUME NEW i \in Lists
      PROVE  /\ OnList(i) = {h \in Headers(heap) : heap.hdr[h].free /\ ListOf(heap, h) = i}
             /\ heap.free_bytes[i] = SumFunctionOnSet([h \in Addr |-> heap.hdr[h].sz], OnList(i))
             /\ \A h \in OnList(i) :
                  /\ heap.hdr[h].prev = Null <=> heap.fl[i] = h
                  /\ heap.hdr[h].next # Null => heap.hdr[heap.hdr[h].next].prev = h
  <2>1. OnList(i) = M[i]
    <3> HIDE DEF M
    <3> QED BY <1>1, <1>3, OnListIs
  <2>2. M[i] = {h \in Headers(heap) : heap.hdr[h].free /\ ListOf(heap, h) = i}
    BY <1>2 DEF FreeBut
  <2> HIDE DEF M
  <2>3. Linked(heap, i, M[i]) /\ heap.free_bytes[i] = Bytes(heap, M[i])
    BY <1>1 DEF Chains, Chain
  <2>4. heap.free_bytes[i] = SumFunctionOnSet([h \in Addr |-> heap.hdr[h].sz], OnList(i))
    BY <2>1, <2>3, Zenon DEF Bytes, SizesOf
  <2>5. \A h \in OnList(i) :
          /\ heap.hdr[h].prev = Null <=> heap.fl[i] = h
          /\ heap.hdr[h].next # Null => heap.hdr[heap.hdr[h].next].prev = h
    BY <2>1, <2>3 DEF Linked
  <2> QED BY <2>1, <2>2, <2>4, <2>5
<1> QED
  BY <1>1, <1>4, Zenon DEF FreeListsConsistent, Total

\* and that free blocks do not touch.
LEMMA InvNoAdjacent == Inv => NoAdjacentFree
BY DEF Inv, HeapInv, NoAdj, NoAdjacentFree

\* An empty heap is in order.
LEMMA InitInv == Init => Inv
<1> SUFFICES ASSUME Init PROVE Inv
  OBVIOUS
<1> DEFINE M == FreeBut(heap, Null)
           w == heap.free_bytes
<1>1. /\ heap = [index |-> [a \in Addr |-> 0], hdr |-> [a \in Addr |-> NoHeader],
                 fl |-> [i \in Lists |-> Null], free_bytes |-> [i \in Lists |-> 0]]
      /\ GC_large_free_bytes = 0 /\ added = {} /\ black \in BlackLists
      /\ pc = "idle" /\ req = NoRequest
      /\ n = 0 /\ may_split = FALSE /\ split_limit = 0 /\ hbp = Null
  BY DEF Init
<1>2. /\ \A a \in Addr : heap.index[a] = 0 /\ heap.hdr[a] = NoHeader
      /\ heap.fl = [i \in Lists |-> Null] /\ heap.free_bytes = [i \in Lists |-> 0]
      /\ heap \in Heap
  <2>1. NoHeader \in Hdr /\ Null \in Addr /\ 0 \in 0 .. IsHeader
    BY NoHeaderType, MemoryFinite, ConstantsAssumption DEF IsHeader
  <2>2. [a \in Addr |-> 0] \in [Addr -> 0 .. IsHeader] /\ [a \in Addr |-> NoHeader] \in [Addr -> Hdr]
    BY <2>1
  <2> QED BY <1>1, <2>1, <2>2 DEF Heap, Hdr
<1>3. Headers(heap) = {}
  BY <1>2, ConstantsAssumption DEF Headers, HasHeader, IsHeader
<1>4. AddedMemory(added) = {}
  BY <1>1 DEF AddedMemory
<1>5. Shaped(heap, {}, Null)
  BY <1>2, <1>3 DEF Shaped
<1>6. M = [i \in Lists |-> {}]
  BY <1>3 DEF FreeBut
<1>7. Bytes(heap, {}) = 0
  <2>1. \A v : SumFunctionOnSet(v, {}) = 0
    <3>1. IsFiniteSet({})
      BY FS_EmptySet
    <3> QED BY <3>1, SumOf
  <2> QED BY <2>1 DEF Bytes
<1>8. Chains(heap, M)
  <2>1. \A i \in Lists : Chain(heap, i, {})
    BY <1>2, <1>7 DEF Chain, Linked
  <2> HIDE DEF M
  <2> QED BY <1>6, <2>1 DEF Chains
<1>9. Total(heap) = 0
  <2>1. DOMAIN w = Lists /\ \A i \in Lists : w[i] = 0
    BY <1>2
  <2> DEFINE S(B) == SumFunctionOnSet(w, B)
             T == {B \in SUBSET Lists : S(B) # 0}
  <2>2. T = {}
    <3> SUFFICES ASSUME T # {} PROVE FALSE
      OBVIOUS
    <3>1. T \in SUBSET SUBSET Lists
      OBVIOUS
    <3>0. IsFiniteSet(Lists)
      BY ListsFinite
    <3>2. PICK B \in T : \A D \in T : D \subseteq B => D = B
      <4> HIDE DEF T
      <4> QED BY <3>0, <3>1, SmallestSet
    <3>3. B \in SUBSET Lists /\ IsFiniteSet(B) /\ S(B) # 0
      BY ListsFinite, FS_Subset
    <3> HIDE DEF w
    <3>4. \A i \in B : w[i] \in Int
      BY <2>1, <3>3
    <3>5. B # {}
      <4>1. S({}) = 0
        BY FS_EmptySet, SumOf
      <4> QED BY <3>3, <4>1
    <3>6. PICK i \in B : TRUE
      BY <3>5
    <3>7. S(B) = w[i] + S(B \ {i})
      <4> HIDE DEF T
      <4> QED BY <3>3, <3>4, <3>6, SumOf
    <3>8. S(B \ {i}) = 0
      BY <3>2, <3>3, <3>6
    <3> QED BY <2>1, <3>3, <3>6, <3>7, <3>8
  <2>3. S(Lists) = 0
    BY <2>2
  <2> QED BY <2>1, <2>3 DEF Total, SumFunction
<1>10. HeapInv
  BY <1>1, <1>3, <1>4, <1>5, <1>8, <1>9 DEF HeapInv, Kept, NoAdj
<1>11. Scalars
  <2>1. Min(Sizes) \in Sizes
    BY ConstantsAssumption, MinOf
  <2>2. req \in [blocks : Sizes, checked : BOOLEAN, ignore_off_page : BOOLEAN]
    BY <1>1, <2>1 DEF NoRequest
  <2> QED BY <1>1, <2>2, ListsFinite, MemoryFinite DEF Scalars
<1>12. OnItsList
  BY <1>1 DEF OnItsList
<1> QED
  BY <1>10, <1>11, <1>12 DEF Inv

------------------------------------------------------------------------------
(* The steps keep it.                                                      *)

\* The scratch space for the header of the rest of a block, for the index and for
\* the object map of a block that is handed out is always there.
NoLeak == Failing \subseteq {"section", "advance", "drop"}

\* More memory does not matter.
LEMMA KeptGrows ==
  ASSUME NEW f, NEW m, Kept(f, m), NEW mm \in SUBSET Memory, m \subseteq mm
  PROVE  Kept(f, mm)
BY DEF Kept, Shaped

\* GC_freehblk keeps the invariant.
LEMMA FreeStep ==
  ASSUME Inv, NEW h \in Memory, GC_freehblk(h)
  PROVE  Inv'
<1> DEFINE m == AddedMemory(added)
<1>1. /\ Shaped(heap, m, Null) /\ Chains(heap, FreeBut(heap, Null)) /\ NoAdj(heap)
      /\ GC_large_free_bytes = Total(heap) /\ Scalars
  BY DEF Inv, HeapInv, Kept
<1>2. /\ pc = "idle" /\ HasHeader(heap, h) /\ ~heap.hdr[h].free /\ heap' = Freed(heap, h)
      /\ GC_large_free_bytes' = GC_large_free_bytes + heap.hdr[h].sz
      /\ UNCHANGED <<added, black, pc, search>>
  BY DEF GC_freehblk
<1>3. h \in Headers(heap)
  BY <1>2, MemoryFinite DEF Headers
<1>4. FreesWell(heap, heap', m, h)
  BY <1>1, <1>2, <1>3, FreedWell
<1>5. HeapInv'
  BY <1>1, <1>2, <1>4 DEF FreesWell, HeapInv, AddedMemory
<1>6. Scalars' /\ OnItsList'
  BY <1>1, <1>2 DEF Scalars, OnItsList, search
<1> QED
  BY <1>5, <1>6 DEF Inv

\* GC_add_to_heap keeps it.
LEMMA AddStep ==
  ASSUME Inv, NEW s \in Sections, GC_add_to_heap(s)
  PROVE  Inv'
<1> DEFINE m == AddedMemory(added)
           mm == m \cup SectionBlocks(s)
           u == GC_install_header(heap, s[1], s[2])
           Good(x) == Kept(heap', x) /\ NoAdj(heap') /\ GC_large_free_bytes' = Total(heap')
<1>1. /\ Kept(heap, m) /\ NoAdj(heap)
      /\ GC_large_free_bytes = Total(heap) /\ Scalars
  BY DEF Inv, HeapInv
<1>2. /\ pc = "idle" /\ s \notin added /\ added' = added \cup {s} /\ UNCHANGED <<black, pc, search>>
      /\ \/ heap' = Freed(u, s[1]) /\ GC_large_free_bytes' = GC_large_free_bytes + s[2]
         \/ heap' = heap /\ GC_large_free_bytes' = GC_large_free_bytes
  BY DEF GC_add_to_heap
<1>3. AddedMemory(added') = mm /\ mm \in SUBSET Memory /\ m \subseteq mm
  <2>1. added \subseteq Sections
    BY <1>1 DEF Scalars
  <2> QED BY <1>2, <2>1 DEF AddedMemory, Memory
<1>4. SectionBlocks(s) \cap m = {}
  <2>1. added \subseteq Sections
    BY <1>1 DEF Scalars
  <2> QED BY <1>2, <2>1, ConstantsAssumption DEF AddedMemory
<1>5. ASSUME heap' = Freed(u, s[1]) /\ GC_large_free_bytes' = GC_large_free_bytes + s[2]
     PROVE  Good(mm)
  <2> HIDE DEF m
  <2>1. /\ Shaped(u, m \cup SectionBlocks(s), s[1]) /\ s[1] \in Headers(u)
        /\ Chains(u, FreeBut(u, Null)) /\ NoAdj(u) /\ Total(u) = Total(heap)
        /\ ~u.hdr[s[1]].free /\ u.hdr[s[1]].sz = s[2]
    BY <1>1, <1>4, SectionAdded
  <2> HIDE DEF u
  <2>2. FreesWell(u, heap', mm, s[1])
    <3>1. Shaped(u, mm, s[1])
      BY <2>1
    <3> HIDE DEF mm
    <3> QED BY <1>5, <2>1, <3>1, FreedWell
  <2>3. Kept(heap', mm) /\ NoAdj(heap') /\ Total(heap') = Total(u) + u.hdr[s[1]].sz
    BY <2>2 DEF FreesWell
  <2>4. GC_large_free_bytes' = Total(heap')
    BY <1>1, <1>5, <2>1, <2>3
  <2>5. QED
    BY <2>3, <2>4 DEF Good
<1>6. ASSUME heap' = heap /\ GC_large_free_bytes' = GC_large_free_bytes
     PROVE  Good(mm)
  <2>1. Kept(heap, mm)
    <3> HIDE DEF mm, m
    <3> QED BY <1>1, <1>3, KeptGrows
  <2>2. NoAdj(heap') /\ GC_large_free_bytes' = Total(heap')
    BY <1>1, <1>6
  <2>3. Kept(heap', mm)
    BY <1>6, <2>1, Zenon
  <2>4. QED
    BY <2>2, <2>3 DEF Good
<1>7. HeapInv'
  <2>1. Good(mm)
    BY <1>2, <1>5, <1>6
  <2>2. Good(AddedMemory(added'))
    BY <1>3, <2>1, Zenon
  <2>3. QED
    BY <2>2 DEF Good, HeapInv, AddedMemory
<1>8. Scalars' /\ OnItsList'
  BY <1>1, <1>2 DEF Scalars, OnItsList, search
<1> QED
  BY <1>7, <1>8 DEF Inv

\* The start of a list, and what follows a block on it.
LEMMA ListWalk ==
  ASSUME Inv, NEW i \in Lists
  PROVE  /\ heap.fl[i] \in Addr /\ (heap.fl[i] # Null => heap.fl[i] \in FreeBut(heap, Null)[i])
         /\ \A h \in FreeBut(heap, Null)[i] :
              heap.hdr[h].next \in Addr /\ (heap.hdr[h].next # Null => heap.hdr[h].next \in FreeBut(heap, Null)[i])
<1> DEFINE M == FreeBut(heap, Null)
<1>1. Chains(heap, M) /\ heap \in Heap
  BY DEF Inv, HeapInv, Kept, Shaped
<1>2. Linked(heap, i, M[i]) /\ M[i] \in SUBSET Memory
  BY <1>1 DEF Chains, Chain
<1>3. M[i] \subseteq Addr
  BY <1>2, MemoryFinite
<1> HIDE DEF M
<1>4. heap.fl[i] \in Addr /\ \A h \in Addr : heap.hdr[h].next \in Addr
  BY <1>1, HeapFields
<1>5. heap.fl[i] # Null => heap.fl[i] \in M[i]
  BY <1>2 DEF Linked
<1>6. \A h \in M[i] : heap.hdr[h].next # Null => heap.hdr[h].next \in M[i]
  BY <1>2 DEF Linked
<1> QED
  BY <1>3, <1>4, <1>5, <1>6 DEF M

\* The start of a search keeps it.
LEMMA SearchStarts ==
  ASSUME Inv, NEW sz \in Sizes, NEW kind, NEW iop \in BOOLEAN, GC_allochblk(sz, kind, iop)
  PROVE  Inv'
<1>1. HeapInv /\ Scalars
  BY DEF Inv
<1>2. /\ req' = [blocks |-> sz, ignore_off_page |-> iop,
                 checked |-> \/ kind = "normal"
                             \/ kind = "ptrfree" /\ sz > MAX_BLACK_LIST_ALLOC]
      /\ n' = GC_hblk_fl_from_blocks(sz) /\ may_split' = FALSE /\ split_limit' = 0
      /\ hbp' = heap.fl[n'] /\ pc' = "search"
      /\ UNCHANGED <<heap, GC_large_free_bytes, added, black>>
  BY DEF GC_allochblk
<1>3. n' \in Lists /\ 0 \in Lists
  <2>1. sz \in Nat
    BY ConstantsAssumption
  <2> QED BY <1>2, <2>1, ListForSize, ListsFinite
<1>4. hbp' \in Addr /\ (hbp' # Null => hbp' \in FreeBut(heap, Null)[n'])
  <2> DEFINE i == n'
  <2>1. i \in Lists /\ hbp' = heap.fl[i]
    BY <1>2, <1>3
  <2>2. /\ heap.fl[i] \in Addr /\ (heap.fl[i] # Null => heap.fl[i] \in FreeBut(heap, Null)[i])
    <3> HIDE DEF i
    <3> QED BY <2>1, ListWalk
  <2> QED BY <2>1, <2>2
<1>5. HeapInv'
  BY <1>1, <1>2 DEF HeapInv
<1>6. Scalars'
  <2>1. req' \in [blocks : Sizes, checked : BOOLEAN, ignore_off_page : BOOLEAN]
    <3>1. (\/ kind = "normal"
           \/ kind = "ptrfree" /\ sz > MAX_BLACK_LIST_ALLOC) \in BOOLEAN
      OBVIOUS
    <3> QED BY <1>2, <3>1
  <2> QED BY <1>1, <1>2, <1>3, <1>4, <2>1 DEF Scalars
<1>7. OnItsList'
  BY <1>2, <1>4 DEF OnItsList
<1> QED
  BY <1>5, <1>6, <1>7 DEF Inv

\* Going to the next list keeps it.
LEMMA NextListStep ==
  ASSUME Inv, NextList
  PROVE  Inv'
<1>1. HeapInv /\ Scalars
  BY DEF Inv
<1> DEFINE start == GC_hblk_fl_from_blocks(req.blocks)
           following == IF may_split THEN n + 1
                        ELSE IF start < UNIQUE_THRESHOLD THEN start + 1 ELSE start
<1>2. /\ pc = "search" /\ split_limit' \in IF may_split THEN {split_limit} ELSE Lists
      /\ may_split' = TRUE
      /\ IF following <= split_limit'
         THEN n' = following /\ hbp' = heap.fl[n'] /\ pc' = pc
         ELSE pc' = "failed" /\ n' = n /\ hbp' = hbp
      /\ UNCHANGED <<heap, GC_large_free_bytes, added, black, req>>
  BY DEF NextList
<1>3. split_limit' \in Lists /\ n \in Lists /\ start \in Lists /\ start \in Nat
  <2>1. req.blocks \in Nat
    BY <1>1, ConstantsAssumption DEF Scalars
  <2>2. start \in Lists
    BY <2>1, ListForSize
  <2> QED BY <1>1, <1>2, <2>2, ListsFinite DEF Scalars
<1>4. following \in Nat
  BY <1>1, <1>3, ListsFinite DEF Scalars
<1>5. following <= split_limit' => following \in Lists
  BY <1>3, <1>4, ListsFinite DEF Lists
<1> HIDE DEF start, following
<1>6. HeapInv'
  BY <1>1, <1>2 DEF HeapInv
<1>7. CASE following <= split_limit'
  <2> DEFINE i == n'
  <2>1. i \in Lists /\ hbp' = heap.fl[i] /\ pc' = pc
    BY <1>2, <1>5, <1>7
  <2>2. /\ heap.fl[i] \in Addr /\ (heap.fl[i] # Null => heap.fl[i] \in FreeBut(heap, Null)[i])
    <3> HIDE DEF i
    <3> QED BY <2>1, ListWalk
  <2>3. Scalars'
    BY <1>1, <1>2, <1>3, <2>1, <2>2 DEF Scalars
  <2>4. OnItsList'
    BY <1>2, <2>1, <2>2 DEF OnItsList
  <2> QED BY <1>6, <2>3, <2>4 DEF Inv
<1>8. CASE ~(following <= split_limit')
  <2>1. Scalars'
    BY <1>1, <1>2, <1>3, <1>8 DEF Scalars
  <2>2. OnItsList'
    BY <1>2, <1>8 DEF OnItsList
  <2> QED BY <1>6, <2>1, <2>2 DEF Inv
<1> QED
  BY <1>7, <1>8

\* The end of a search.
LEMMA Finishes ==
  ASSUME Scalars, Finish, UNCHANGED <<added, black>>
  PROVE  Scalars' /\ OnItsList'
<1>1. Min(Sizes) \in Sizes
  BY ConstantsAssumption, MinOf
<1>2. req' \in [blocks : Sizes, checked : BOOLEAN, ignore_off_page : BOOLEAN]
  BY <1>1 DEF Finish, NoRequest
<1> QED
  BY <1>2, ListsFinite, MemoryFinite DEF Scalars, Finish, OnItsList

\* Returning 0 keeps it.
LEMMA FailureStep ==
  ASSUME Inv, ReturnFailure
  PROVE  Inv'
<1>1. HeapInv /\ Scalars /\ Finish /\ UNCHANGED <<heap, GC_large_free_bytes, added, black>>
  BY DEF Inv, ReturnFailure
<1>2. Scalars' /\ OnItsList'
  BY <1>1, Finishes
<1>3. HeapInv'
  BY <1>1 DEF HeapInv
<1> QED
  BY <1>2, <1>3 DEF Inv

\* Passing over a block keeps it.
LEMMA SkipStep ==
  ASSUME Inv, Skip
  PROVE  Inv'
<1>1. HeapInv /\ Scalars /\ OnItsList
  BY DEF Inv
<1>2. /\ pc = "search" /\ hbp # Null /\ hbp' = heap.hdr[hbp].next
      /\ UNCHANGED <<heap, GC_large_free_bytes, added, black, pc, req, n, may_split, split_limit>>
  BY DEF Skip, Looking
<1>3. n \in Lists /\ hbp \in FreeBut(heap, Null)[n]
  BY <1>1, <1>2 DEF Scalars, OnItsList
<1>4. hbp' \in Addr /\ (hbp' # Null => hbp' \in FreeBut(heap, Null)[n])
  BY <1>2, <1>3, ListWalk
<1>5. HeapInv'
  BY <1>1, <1>2 DEF HeapInv
<1>6. Scalars'
  BY <1>1, <1>2, <1>4 DEF Scalars
<1>7. OnItsList'
  BY <1>2, <1>4 DEF OnItsList
<1> QED
  BY <1>5, <1>6, <1>7 DEF Inv

\* After a drop the search goes on with the block that followed, as after a skip.
LEMMA DropIs ==
  ASSUME Inv, Drop
  PROVE  /\ Drops(heap, heap', AddedMemory(added), hbp, n)
         /\ GC_large_free_bytes' = GC_large_free_bytes - heap.hdr[hbp].sz
         /\ hbp' = heap.hdr[hbp].next
         /\ hbp \in FreeBut(heap, Null)[n]
         /\ hbp' # Null => hbp' \in FreeBut(heap, Null)[n] /\ hbp' # hbp
         /\ UNCHANGED <<added, black, pc, req, n, may_split, split_limit>>
<1> DEFINE m == AddedMemory(added)
           M == FreeBut(heap, Null)
           p == heap.hdr[hbp].prev
           q == heap.hdr[hbp].next
<1>1. Kept(heap, m) /\ NoAdj(heap) /\ heap \in Heap /\ Chains(heap, M)
  BY DEF Inv, HeapInv, Kept, Shaped
<1>2. n \in Lists /\ hbp \in Addr
  BY DEF Inv, Scalars
<1>3. hbp \in M[n]
  BY DEF Inv, OnItsList, Drop, Looking
<1>4. PICK lost \in SUBSET Inside(hbp, heap.hdr[hbp].sz) :
        LET last == hbp + heap.hdr[hbp].sz - 1
            prev == heap.hdr[hbp].prev
            removed == GC_remove_from_fl(heap, hbp, n)
            kept == (hbp .. last) \ lost
            dropped == [removed EXCEPT
                          !.index = [a \in Addr |-> IF a \in kept THEN IsHeader ELSE @[a]],
                          !.hdr = [a \in Addr |-> IF a \in kept THEN [NoHeader EXCEPT !.sz = 1]
                                                  ELSE @[a]]]
        IN /\ heap' = dropped
           /\ GC_large_free_bytes' = GC_large_free_bytes - heap.hdr[hbp].sz
           /\ hbp' = IF prev = Null THEN dropped.fl[n] ELSE dropped.hdr[prev].next
  BY Zenon DEF Drop
<1>5. /\ heap' = Dropped(heap, hbp, n, lost)
      /\ GC_large_free_bytes' = GC_large_free_bytes - heap.hdr[hbp].sz
      /\ hbp' = IF p = Null THEN heap'.fl[n] ELSE heap'.hdr[p].next
  <2>1. heap' = Dropped(heap, hbp, n, lost)
    BY <1>4, Zenon DEF Dropped, KeptOf, BlocksOf
  <2>2. GC_large_free_bytes' = GC_large_free_bytes - heap.hdr[hbp].sz
    BY <1>4, Zenon
  <2>3. hbp' = IF p = Null THEN Dropped(heap, hbp, n, lost).fl[n]
               ELSE Dropped(heap, hbp, n, lost).hdr[p].next
    BY <1>4, Zenon DEF Dropped, KeptOf, BlocksOf
  <2> QED BY <2>1, <2>2, <2>3, Zenon
<1>6. Drops(heap, heap', m, hbp, n)
  <2> HIDE DEF m
  <2>1. Drops(heap, Dropped(heap, hbp, n, lost), m, hbp, n)
    BY <1>1, <1>2, <1>3, DropWell
  <2> QED BY <1>5, <2>1, Zenon
<1>7. /\ p # Null => p \in M[n] /\ p # hbp
      /\ q # Null => q \in M[n] /\ q # hbp
  <2>1. M[n] \in SUBSET Memory /\ Linked(heap, n, M[n])
    BY <1>1, <1>2 DEF Chains, Chain
  <2> HIDE DEF M
  <2>2. p # hbp /\ q # hbp
    BY <1>1, <1>2, <1>3, <2>1, NoSelfLink
  <2>3. QED
    BY <1>3, <2>1, <2>2 DEF Linked
<1>8. hbp' = q
  <2>1. Relinked(heap, heap', hbp, n)
    BY <1>6 DEF Drops
  <2>2. p # Null => p \in Headers(heap) /\ heap.hdr[p].free
    BY <1>2, <1>7 DEF FreeBut
  <2> HIDE DEF M
  <2>3. CASE p = Null
    BY <1>5, <2>1, <2>3 DEF Relinked
  <2>4. CASE p # Null
    BY <1>5, <1>7, <2>1, <2>2, <2>4 DEF Relinked
  <2> QED BY <2>3, <2>4
<1>9. UNCHANGED <<added, black, pc, req, n, may_split, split_limit>>
  BY DEF Drop
<1> HIDE DEF m, M
<1> QED
  BY <1>3, <1>5, <1>6, <1>7, <1>8, <1>9 DEF m, M

\* What is left of list i when h is lost.
LEMMA StaysOnList ==
  ASSUME NEW f \in Heap, NEW g, NEW m, NEW h, Loses(f, g, h), NEW i \in Lists, Kept(g, m),
         NEW x \in FreeBut(f, Null)[i], x # h
  PROVE  x \in FreeBut(g, Null)[i]
<1>1. x \in Headers(f) /\ x # Null /\ f.hdr[x].free /\ ListOf(f, x) = i
  BY DEF FreeBut
<1>2. x \in Addr /\ IsFree(f, x)
  BY <1>1 DEF Headers, IsFree
<1>3. IsFree(g, x) /\ g.hdr[x].sz = f.hdr[x].sz
  BY <1>2 DEF Loses
<1>4. x \in Headers(g) /\ g.hdr[x].free
  BY <1>2, <1>3 DEF Headers, IsFree
<1>5. ListOf(g, x) = i
  BY <1>1, <1>3 DEF ListOf
<1> QED
  BY <1>1, <1>4, <1>5 DEF FreeBut

\* Dropping a block keeps it.
LEMMA DropStep ==
  ASSUME Inv, Drop
  PROVE  Inv'
<1>1. HeapInv /\ Scalars
  BY DEF Inv
<1>2. heap \in Heap /\ n \in Lists
  BY <1>1 DEF HeapInv, Kept, Shaped, Scalars
<1>3. /\ Kept(heap', AddedMemory(added)) /\ NoAdj(heap')
      /\ Total(heap') = Total(heap) - heap.hdr[hbp].sz /\ Loses(heap, heap', hbp)
  BY DropIs DEF Drops
<1>4. /\ GC_large_free_bytes' = GC_large_free_bytes - heap.hdr[hbp].sz
      /\ UNCHANGED <<added, black, pc, req, n, may_split, split_limit>>
      /\ hbp' = heap.hdr[hbp].next
      /\ hbp \in FreeBut(heap, Null)[n]
      /\ hbp' # Null => hbp' \in FreeBut(heap, Null)[n] /\ hbp' # hbp
  BY DropIs
<1>5. hbp' \in Addr
  BY <1>2, <1>4, ListWalk
<1>6. GC_large_free_bytes = Total(heap)
  BY <1>1 DEF HeapInv
<1>7. GC_large_free_bytes' = Total(heap')
  BY <1>3, <1>4, <1>6
<1>8. added' = added
  BY <1>4
<1>9. HeapInv'
  BY <1>3, <1>7, <1>8, Zenon DEF HeapInv, AddedMemory
<1>10. Scalars'
  BY <1>1, <1>4, <1>5 DEF Scalars
<1>11. hbp' # Null => hbp' \in FreeBut(heap', Null)[n]
  BY <1>2, <1>3, <1>4, StaysOnList
<1>12. OnItsList'
  BY <1>4, <1>11 DEF OnItsList
<1> QED
  BY <1>9, <1>10, <1>12 DEF Inv

\* Requests are for some blocks.
LEMMA RequestIs ==
  ASSUME Scalars
  PROVE  req.blocks \in Nat /\ 0 < req.blocks
<1>1. req.blocks \in Sizes
  BY DEF Scalars
<1>2. Sizes \subseteq Nat \ {0}
  BY ConstantsAssumption
<1>3. req.blocks \in Nat \ {0}
  BY <1>1, <1>2
<1> QED
  BY <1>3

\* The block is handed out.
LEMMA AllocateIs ==
  ASSUME NoLeak, NEW f, NEW h, Allocate(f, h)
  PROVE  HandOut(f, h) /\ UNCHANGED <<added, black>>
<1>1. ~Leak(f, h)
  <2>1. /\ Failing \cap (IF f.hdr[h].sz > req.blocks THEN {"rest"} ELSE {}) = {}
        /\ Failing \cap {"counts"} = {} /\ Failing \cap {"map"} = {}
    <3>1. "rest" \notin Failing /\ "counts" \notin Failing /\ "map" \notin Failing
      BY DEF NoLeak
    <3> QED BY <3>1
  <2>2. SUFFICES ASSUME Leak(f, h) PROVE FALSE
    OBVIOUS
  <2> DEFINE first == GC_get_first_part(f, h, req.blocks, n, FALSE)
             rest == GC_get_first_part(f, h, req.blocks, n, TRUE)
  <2>3. heap' \in
          {rest : x \in Failing \cap (IF f.hdr[h].sz > req.blocks THEN {"rest"} ELSE {})}
          \cup {first : x \in Failing \cap {"counts"}}
          \cup {InUse(first, h, 1) : x \in Failing \cap {"map"}}
    BY <2>2, Zenon DEF Leak
  <2> HIDE DEF first, rest
  <2>4. heap' \in {rest : x \in {}} \cup {first : x \in {}} \cup {InUse(first, h, 1) : x \in {}}
    BY <2>1, <2>3, Zenon
  <2> QED BY <2>4, Zenon
<1> QED
  BY <1>1 DEF Allocate

\* Handing out the first part of a block that is ready keeps it.
LEMMA AllocateStep ==
  ASSUME Inv, NoLeak, NEW f, NEW h, Allocate(f, h),
         Ready(f, AddedMemory(added), h, n), NoAdjBut(f, h), ~IsFree(f, h + f.hdr[h].sz),
         req.blocks <= f.hdr[h].sz, Total(f) = Total(heap)
  PROVE  Inv'
<1> DEFINE m == AddedMemory(added)
           g == InUse(GC_get_first_part(f, h, req.blocks, n, FALSE), h, req.blocks)
<1>1. GC_large_free_bytes = Total(heap) /\ Scalars
  BY DEF Inv, HeapInv
<1>2. /\ Finish /\ heap' = g
      /\ GC_large_free_bytes' = GC_large_free_bytes - req.blocks
      /\ UNCHANGED <<added, black>>
  BY AllocateIs DEF HandOut
<1>3. req.blocks \in Nat /\ 0 < req.blocks
  BY <1>1, RequestIs
<1>4. HandsOut(f, g, m, req.blocks)
  <2> HIDE DEF m
  <2>1. Ready(f, m, h, n)
    BY DEF m
  <2> QED BY <1>3, <2>1, FirstPart
<1> HIDE DEF g
<1>5. Kept(heap', m) /\ NoAdj(heap') /\ GC_large_free_bytes' = Total(heap')
  BY <1>1, <1>2, <1>4 DEF HandsOut
<1>6. added' = added
  BY <1>2
<1>7. HeapInv'
  BY <1>5, <1>6, Zenon DEF HeapInv, AddedMemory
<1>8. Scalars' /\ OnItsList'
  BY <1>1, <1>2, Finishes
<1> QED
  BY <1>7, <1>8 DEF Inv

\* A block the search looks at.
LEMMA LookedAt ==
  ASSUME Inv, Looking
  PROVE  /\ n \in Lists /\ hbp \in FreeBut(heap, Null)[n] /\ hbp \in Headers(heap)
         /\ heap.hdr[hbp].free /\ Kept(heap, AddedMemory(added)) /\ NoAdj(heap)
         /\ hbp \in Nat /\ heap.hdr[hbp].sz \in Nat /\ req.blocks \in Nat /\ 0 < req.blocks
<1>1. Kept(heap, AddedMemory(added)) /\ NoAdj(heap) /\ Scalars /\ OnItsList
  BY DEF Inv, HeapInv
<1>2. n \in Lists /\ hbp \in FreeBut(heap, Null)[n]
  BY <1>1 DEF Scalars, OnItsList, Looking
<1>3. hbp \in Headers(heap) /\ heap.hdr[hbp].free
  BY <1>2 DEF FreeBut
<1>4. hbp \in Nat /\ heap.hdr[hbp].sz \in Nat
  <2> DEFINE m == AddedMemory(added)
  <2>1. Shaped(heap, m, Null)
    BY <1>1 DEF Kept
  <2> HIDE DEF m
  <2> QED BY <1>3, <2>1, Apart
<1>5. req.blocks \in Nat /\ 0 < req.blocks
  BY <1>1, RequestIs
<1> QED
  BY <1>1, <1>2, <1>3, <1>4, <1>5

\* Taking a block from its start keeps it.
LEMMA TakeFirstStep ==
  ASSUME Inv, NoLeak, TakeFirst
  PROVE  Inv'
<1>1. Looking /\ Fits(hbp) /\ Allocate(heap, hbp)
  BY DEF TakeFirst
<1>2. /\ n \in Lists /\ hbp \in FreeBut(heap, Null)[n] /\ hbp \in Headers(heap)
      /\ heap.hdr[hbp].free /\ Kept(heap, AddedMemory(added)) /\ NoAdj(heap)
      /\ hbp \in Nat /\ heap.hdr[hbp].sz \in Nat /\ req.blocks \in Nat
  BY <1>1, LookedAt
<1>3. Ready(heap, AddedMemory(added), hbp, n)
  BY <1>2, KeptReady
<1>4. NoAdjBut(heap, hbp)
  BY <1>2 DEF NoAdj, NoAdjBut
<1>5. ~IsFree(heap, hbp + heap.hdr[hbp].sz)
  BY <1>2 DEF NoAdj
<1>6. req.blocks <= heap.hdr[hbp].sz
  BY <1>1, <1>2 DEF Fits
<1> QED
  BY <1>1, <1>3, <1>4, <1>5, <1>6, AllocateStep

\* Splitting a block at its first clear place and taking it from there keeps it.
LEMMA TakeAdvancedStep ==
  ASSUME Inv, NoLeak, TakeAdvanced
  PROVE  Inv'
<1> DEFINE place == Min(ClearPlaces(hbp))
           f == GC_split_block(heap, hbp, place, n)
           m == AddedMemory(added)
<1>1. Looking /\ Fits(hbp) /\ ClearPlaces(hbp) # {} /\ hbp \notin ClearPlaces(hbp) /\ Allocate(f, place)
  BY DEF TakeAdvanced
<1>2. /\ n \in Lists /\ hbp \in FreeBut(heap, Null)[n]
      /\ Kept(heap, m) /\ NoAdj(heap)
      /\ hbp \in Nat /\ heap.hdr[hbp].sz \in Nat /\ req.blocks \in Nat /\ 0 < req.blocks
  BY <1>1, LookedAt
<1>3. place \in ClearPlaces(hbp)
  <2>1. ClearPlaces(hbp) \in SUBSET Nat
    BY <1>2 DEF ClearPlaces
  <2> QED BY <1>1, <2>1, MinOf
<1>4. /\ place \in BlocksOf(heap, hbp) /\ place # hbp
      /\ req.blocks <= hbp + heap.hdr[hbp].sz - place
  <2>1. place \in hbp .. hbp + heap.hdr[hbp].sz - req.blocks /\ place # hbp
    BY <1>1, <1>3 DEF ClearPlaces
  <2> HIDE DEF place
  <2>2. place \in Nat /\ place >= hbp /\ place + req.blocks <= hbp + heap.hdr[hbp].sz
    BY <1>2, <2>1
  <2> QED BY <1>2, <2>1, <2>2 DEF BlocksOf
<1> HIDE DEF place, m
<1>5. Splits(heap, f, m, hbp, place, n)
  BY <1>2, <1>4, Split
<1> HIDE DEF f
<1>6. /\ Ready(f, m, place, n) /\ NoAdjBut(f, place) /\ ~IsFree(f, place + f.hdr[place].sz)
      /\ req.blocks <= f.hdr[place].sz /\ Total(f) = Total(heap)
  BY <1>4, <1>5 DEF Splits
<1> QED
  BY <1>1, <1>6, AllocateStep DEF m

\* New black lists keep it.
LEMMA PromoteStep ==
  ASSUME Inv, GC_promote_black_lists
  PROVE  Inv'
<1>1. HeapInv /\ Scalars /\ OnItsList
  BY DEF Inv
<1>2. /\ black' \in BlackLists
      /\ UNCHANGED <<heap, GC_large_free_bytes, added, pc, req, n, may_split, split_limit, hbp>>
  BY DEF GC_promote_black_lists, search
<1>3. HeapInv'
  BY <1>1, <1>2 DEF HeapInv
<1>4. Scalars'
  BY <1>1, <1>2 DEF Scalars
<1>5. OnItsList'
  BY <1>1, <1>2 DEF OnItsList
<1> QED
  BY <1>3, <1>4, <1>5 DEF Inv

\* Doing nothing keeps it.
LEMMA StutterStep ==
  ASSUME Inv, UNCHANGED vars
  PROVE  Inv'
<1>1. HeapInv /\ Scalars /\ OnItsList
  BY DEF Inv
<1>2. UNCHANGED <<heap, GC_large_free_bytes, added, black, pc, req, n, may_split, split_limit, hbp>>
  BY DEF vars, search
<1>3. HeapInv'
  BY <1>1, <1>2 DEF HeapInv
<1>4. Scalars'
  BY <1>1, <1>2 DEF Scalars
<1>5. OnItsList'
  BY <1>1, <1>2 DEF OnItsList
<1> QED
  BY <1>3, <1>4, <1>5 DEF Inv

\* Every step keeps it.
LEMMA NextInv ==
  ASSUME Inv, NoLeak, [Next]_vars
  PROVE  Inv'
<1>1. ASSUME NEW h \in Memory, GC_freehblk(h) PROVE Inv'
  BY <1>1, FreeStep
<1>2. ASSUME NEW s \in Sections, GC_add_to_heap(s) PROVE Inv'
  BY <1>2, AddStep
<1>3. ASSUME GC_promote_black_lists PROVE Inv'
  BY <1>3, PromoteStep
<1>4. ASSUME NEW sz \in Sizes, NEW kind \in {"normal", "ptrfree", "uncollectable"},
             NEW iop \in BOOLEAN, GC_allochblk(sz, kind, iop)
      PROVE  Inv'
  BY <1>4, SearchStarts
<1>5. ASSUME Search PROVE Inv'
  BY <1>5, NextListStep, SkipStep, DropStep, TakeFirstStep, TakeAdvancedStep,
     FailureStep DEF Search
<1>6. ASSUME UNCHANGED vars PROVE Inv'
  BY <1>6, StutterStep
<1> QED
  BY <1>1, <1>2, <1>3, <1>4, <1>5, <1>6 DEF Next

------------------------------------------------------------------------------
(* Searching.                                                              *)

\* The block is big enough, and may be split if it is not of the size wanted.
Suited(h) ==
  heap.hdr[h].sz = req.blocks \/ (heap.hdr[h].sz > req.blocks /\ may_split)

\* Nothing on list i has room for the request.
Exhausted(i) ==
  \A h \in FreeBut(heap, Null)[i] : heap.hdr[h].sz >= req.blocks => Hopeless(h)

\* The block the search looks at has room at its start: it will not be passed over
\* but for a block that has room too.
Better ==
  /\ hbp # Null /\ may_split
  /\ heap.hdr[hbp].sz >= req.blocks /\ ~IsBlackListed(hbp, req.blocks)

\* The blocks of C come before hbp on list n, and those that would do are hopeless.
Passed(C) ==
  /\ heap.fl[n] \in C \cup {hbp, Null}
  /\ \A h \in FreeBut(heap, Null)[n] \cap C : heap.hdr[h].next \in C \cup {hbp, Null}
  /\ Better \/ (\A h \in FreeBut(heap, Null)[n] \cap C : Suited(h) => Hopeless(h))

Searched ==
  /\ pc = "search" =>
       /\ \E C \in SUBSET Addr : Passed(C)
       /\ IF may_split THEN \A i \in Lists : i < n => Exhausted(i)
          ELSE n = GC_hblk_fl_from_blocks(req.blocks)
  /\ pc = "failed" /\ split_limit = N_HBLK_FLS => \A i \in Lists : Exhausted(i)

\* The room a block has depends on its size, the request and the black list only.
LEMMA HopelessStays ==
  ASSUME NEW h, heap'.hdr[h].sz = heap.hdr[h].sz, req' = req, black' = black
  PROVE  Hopeless(h)' = Hopeless(h)
<1>1. ClearPlaces(h)' = ClearPlaces(h)
  BY DEF ClearPlaces, IsBlackListed
<1> QED
  BY <1>1 DEF Hopeless, Punt

\* A block with room at its start is not hopeless.
LEMMA BetterIsNotHopeless ==
  ASSUME Inv, Looking, Better
  PROVE  ~Hopeless(hbp)
<1>1. hbp \in Nat /\ heap.hdr[hbp].sz \in Nat /\ req.blocks \in Nat /\ 0 < req.blocks
  BY LookedAt
<1>2. heap.hdr[hbp].sz >= req.blocks /\ ~IsBlackListed(hbp, req.blocks)
  BY DEF Better
<1>3. ~IsBlackListed(hbp, IF req.ignore_off_page THEN 1 ELSE req.blocks)
  BY <1>1, <1>2 DEF IsBlackListed
<1>4. hbp \in hbp .. hbp + heap.hdr[hbp].sz - req.blocks
  BY <1>1, <1>2
<1>5. hbp \in ClearPlaces(hbp)
  BY <1>3, <1>4 DEF ClearPlaces
<1> QED
  BY <1>5 DEF Hopeless

\* At the end of a list all its blocks have been passed.
LEMMA ListEnds ==
  ASSUME Inv, pc = "search", hbp = Null, NEW C \in SUBSET Addr, Passed(C)
  PROVE  \A h \in FreeBut(heap, Null)[n] : Suited(h) => Hopeless(h)
<1> DEFINE S == FreeBut(heap, Null)[n]
<1>1. Linked(heap, n, S)
  BY DEF Inv, HeapInv, Kept, Chains, Chain, Scalars
<1> HIDE DEF S
<1>2. heap.fl[n] \in C \cup {Null} /\ \A h \in S \cap C : heap.hdr[h].next \in C \cup {Null}
  BY DEF Passed, S
<1>3. S \subseteq C
  BY <1>1, <1>2 DEF Linked
<1>4. \A h \in S \cap C : Suited(h) => Hopeless(h)
  BY DEF Passed, Better, S
<1> QED
  BY <1>3, <1>4 DEF S

\* A block that is passed over has no room, or the next one has.
LEMMA SearchedSkip ==
  ASSUME Inv, Searched, Skip
  PROVE  Searched'
<1>1. /\ Looking /\ pc = "search" /\ hbp # Null /\ hbp' = heap.hdr[hbp].next
      /\ ~Fits(hbp) \/ Hopeless(hbp)
      /\ UNCHANGED <<heap, GC_large_free_bytes, added, black, pc, req, n, may_split, split_limit>>
  BY DEF Skip, Looking
<1>2. PICK C \in SUBSET Addr : Passed(C)
  BY <1>1 DEF Searched
<1> DEFINE S == FreeBut(heap, Null)[n]
<1>0. PICK D : D = C \cup {hbp}
  OBVIOUS
<1>3. D \in SUBSET Addr
  BY <1>0 DEF Inv, Scalars
<1>4. Suited(hbp) => Hopeless(hbp) \/ NextIsBetter(hbp)
  BY <1>1 DEF Fits, Suited
<1>5. NextIsBetter(hbp) /\ may_split => Better'
  BY <1>1 DEF NextIsBetter, Better, IsBlackListed
<1>6. Better => Better'
  <2> SUFFICES ASSUME Better PROVE Better'
    OBVIOUS
  <2>1. ~Hopeless(hbp)
    BY <1>1, BetterIsNotHopeless
  <2>2. ~Fits(hbp) /\ may_split /\ heap.hdr[hbp].sz >= req.blocks
    BY <1>1, <2>1 DEF Better
  <2>3. heap.hdr[hbp].sz \in Nat /\ req.blocks \in Nat
    BY <1>1, LookedAt
  <2>4. NextIsBetter(hbp)
    BY <2>2, <2>3 DEF Fits
  <2> QED BY <1>5, <2>2, <2>4
<1>7. \A h : Hopeless(h)' = Hopeless(h)
  BY <1>1, HopelessStays
<1>8. \A h : Suited(h)' = Suited(h)
  BY <1>1 DEF Suited
<1>9. Better' \/ \A h \in S \cap D : Suited(h) => Hopeless(h)
  <2>1. Better \/ \A h \in S \cap C : Suited(h) => Hopeless(h)
    BY <1>2 DEF Passed
  <2>2. Suited(hbp) /\ ~Hopeless(hbp) => Better'
    <3>1. CASE heap.hdr[hbp].sz = req.blocks
      BY <1>1, <3>1 DEF Fits
    <3>2. CASE heap.hdr[hbp].sz > req.blocks /\ may_split
      BY <1>4, <1>5, <3>2
    <3> QED BY <3>1, <3>2 DEF Suited
  <2> QED BY <1>0, <1>6, <2>1, <2>2
<1>10. /\ heap.fl[n] \in D \cup {hbp', Null}
       /\ \A h \in S \cap D : heap.hdr[h].next \in D \cup {hbp', Null}
  BY <1>0, <1>1, <1>2 DEF Passed
<1>11. Passed(D)'
  <2>1. FreeBut(heap, Null)' = FreeBut(heap, Null) /\ n' = n
    BY <1>1
  <2> QED BY <1>1, <1>7, <1>8, <1>9, <1>10, <2>1 DEF Passed
<1>12. \A i : Exhausted(i)' = Exhausted(i)
  BY <1>1, <1>7 DEF Exhausted
<1>13. IF may_split THEN \A i \in Lists : i < n => Exhausted(i)
       ELSE n = GC_hblk_fl_from_blocks(req.blocks)
  BY <1>1 DEF Searched
<1> HIDE DEF S
<1> QED
  BY <1>1, <1>3, <1>11, <1>12, <1>13 DEF Searched

\* Nothing has been passed at the start.
LEMMA SearchedStart ==
  ASSUME Inv, NEW sz \in Sizes, NEW kind, NEW iop \in BOOLEAN, GC_allochblk(sz, kind, iop)
  PROVE  Searched'
<1>1. /\ n' = GC_hblk_fl_from_blocks(req'.blocks) /\ may_split' = FALSE
      /\ hbp' = heap'.fl[n'] /\ pc' = "search"
  BY DEF GC_allochblk
<1>2. (\E C \in SUBSET Addr : Passed(C))'
  <2>1. Passed({})'
    BY <1>1 DEF Passed
  <2> QED BY <2>1
<1> QED
  BY <1>1, <1>2 DEF Searched

\* At the end of a list that was searched with splitting it is exhausted.
LEMMA ListExhausted ==
  ASSUME Inv, Searched, pc = "search", hbp = Null
  PROVE  \A i \in Lists : /\ may_split /\ i <= n => Exhausted(i)
                          /\ ~may_split /\ i < n => Exhausted(i)
                          /\ ~may_split /\ i = n /\ n < UNIQUE_THRESHOLD => Exhausted(i)
<1> DEFINE S == FreeBut(heap, Null)[n]
           m == AddedMemory(added)
<1>1. n \in Lists /\ Lists \subseteq Nat /\ req.blocks \in Nat /\ may_split \in BOOLEAN
  BY RequestIs, ListsFinite DEF Inv, Scalars
<1>2. \A h \in S : Suited(h) => Hopeless(h)
  BY ListEnds DEF Searched
<1>3. \A i \in Lists : \A h \in FreeBut(heap, Null)[i] :
        heap.hdr[h].sz \in Nat /\ GC_hblk_fl_from_blocks(heap.hdr[h].sz) = i
  <2>1. Shaped(heap, m, Null)
    BY DEF Inv, HeapInv, Kept
  <2> HIDE DEF m
  <2> QED BY <2>1, Apart DEF FreeBut, ListOf
<1>4. ASSUME NEW i \in Lists, may_split, i <= n
      PROVE  Exhausted(i)
  <2>1. CASE i < n
    BY <1>4, <2>1 DEF Searched
  <2>2. CASE i = n
    <3>1. \A h \in S : heap.hdr[h].sz >= req.blocks => Suited(h)
      BY <1>1, <1>3, <1>4 DEF Suited
    <3> QED BY <1>2, <2>2, <3>1 DEF Exhausted
  <2> QED BY <1>1, <1>4, <2>1, <2>2
<1>5. ~may_split => n = GC_hblk_fl_from_blocks(req.blocks)
  BY DEF Searched
<1>6. ASSUME NEW i \in Lists, ~may_split, i < n
      PROVE  Exhausted(i)
  <2> SUFFICES ASSUME NEW h \in FreeBut(heap, Null)[i], heap.hdr[h].sz >= req.blocks PROVE FALSE
    BY DEF Exhausted
  <2>1. heap.hdr[h].sz \in Nat /\ GC_hblk_fl_from_blocks(heap.hdr[h].sz) = i
    BY <1>3
  <2>2. GC_hblk_fl_from_blocks(req.blocks) <= GC_hblk_fl_from_blocks(heap.hdr[h].sz)
    BY <1>1, <2>1, ListForSize
  <2> QED BY <1>1, <1>5, <1>6, <2>1, <2>2
<1>7. ASSUME ~may_split, n < UNIQUE_THRESHOLD
      PROVE  Exhausted(n)
  <2>1. \A h \in S : heap.hdr[h].sz = req.blocks
    <3> SUFFICES ASSUME NEW h \in S PROVE heap.hdr[h].sz = req.blocks
      OBVIOUS
    <3>1. heap.hdr[h].sz \in Nat /\ GC_hblk_fl_from_blocks(heap.hdr[h].sz) = n
      BY <1>1, <1>3
    <3> QED BY <1>1, <1>5, <1>7, <3>1, ListForSize
  <2> QED BY <1>2, <2>1 DEF Suited, Exhausted
<1> QED
  BY <1>4, <1>6, <1>7

\* The next list begins when the one before is exhausted.
LEMMA SearchedNextList ==
  ASSUME Inv, Searched, NextList
  PROVE  Searched'
<1> DEFINE start == GC_hblk_fl_from_blocks(req.blocks)
           following == IF may_split THEN n + 1
                        ELSE IF start < UNIQUE_THRESHOLD THEN start + 1 ELSE start
<1>1. /\ pc = "search" /\ hbp = Null /\ split_limit' \in IF may_split THEN {split_limit} ELSE Lists
      /\ may_split' = TRUE
      /\ IF following <= split_limit'
         THEN n' = following /\ hbp' = heap.fl[n'] /\ pc' = pc
         ELSE pc' = "failed" /\ n' = n /\ hbp' = hbp
      /\ UNCHANGED <<heap, GC_large_free_bytes, added, black, req>>
  BY DEF NextList
<1>2. \A i \in Lists : /\ may_split /\ i <= n => Exhausted(i)
                       /\ ~may_split /\ i < n => Exhausted(i)
                       /\ ~may_split /\ i = n /\ n < UNIQUE_THRESHOLD => Exhausted(i)
  BY <1>1, ListExhausted
<1>3. /\ n \in Lists /\ Lists \subseteq Nat /\ may_split \in BOOLEAN /\ UNIQUE_THRESHOLD \in Nat
      /\ UNIQUE_THRESHOLD <= N_HBLK_FLS /\ N_HBLK_FLS \in Nat
  BY ListsFinite, ConstantsAssumption DEF Inv, Scalars
<1>4. ~may_split => n = start
  BY <1>1 DEF Searched
<1>5. \A i \in Lists : i < following => Exhausted(i)
  BY <1>2, <1>3, <1>4
<1>6. following > split_limit' /\ split_limit' = N_HBLK_FLS => \A i \in Lists : i < following
  BY <1>3, <1>4 DEF Lists
<1>7. following \in Nat
  BY <1>3, <1>4
<1>8. split_limit' \in Nat
  BY <1>1, <1>3 DEF Inv, Scalars
<1> HIDE DEF following
<1>9. \A i : Exhausted(i)' = Exhausted(i)
  <2>1. \A h : Hopeless(h)' = Hopeless(h)
    BY <1>1, HopelessStays
  <2> QED BY <1>1, <2>1 DEF Exhausted
<1>10. CASE following <= split_limit'
  <2>1. n' = following /\ hbp' = heap'.fl[n'] /\ pc' = "search" /\ may_split' = TRUE
    BY <1>1, <1>10
  <2>2. (\E C \in SUBSET Addr : Passed(C))'
    <3>1. Passed({})'
      BY <2>1 DEF Passed
    <3> QED BY <3>1
  <2>3. \A i \in Lists : i < n' => Exhausted(i)'
    BY <1>5, <1>9, <2>1
  <2> QED BY <2>1, <2>2, <2>3 DEF Searched
<1>11. CASE ~(following <= split_limit')
  <2>1. pc' = "failed"
    BY <1>1, <1>11
  <2>2. split_limit' = N_HBLK_FLS => \A i \in Lists : Exhausted(i)'
    BY <1>5, <1>6, <1>7, <1>8, <1>9, <1>11
  <2> QED BY <2>1, <2>2 DEF Searched
<1> QED
  BY <1>10, <1>11

\* A block that is dropped was hopeless.
LEMMA SearchedDrop ==
  ASSUME Inv, Searched, Drop
  PROVE  Searched'
<1>1. /\ Drops(heap, heap', AddedMemory(added), hbp, n)
      /\ hbp' = heap.hdr[hbp].next /\ hbp \in FreeBut(heap, Null)[n]
      /\ UNCHANGED <<added, black, pc, req, n, may_split, split_limit>>
  BY DropIs
<1>2. Looking /\ Fits(hbp) /\ Hopeless(hbp) /\ pc = "search" /\ hbp # Null
  BY DEF Drop, Looking
<1>3. ~Better
  BY <1>2, BetterIsNotHopeless
<1>4. PICK C \in SUBSET Addr : Passed(C)
  BY <1>2 DEF Searched
<1>5. PICK S : S = FreeBut(heap, Null)[n]
  OBVIOUS
<1>6. PICK q : q = hbp'
  OBVIOUS
<1>7. PICK D : D = C \ {hbp}
  OBVIOUS
<1>8. /\ Kept(heap', AddedMemory(added)) /\ Relinked(heap, heap', hbp, n) /\ Loses(heap, heap', hbp)
  BY <1>1 DEF Drops
<1>9. /\ n \in Lists /\ Linked(heap, n, S) /\ hbp \in S
      /\ \A h \in S : h \in Headers(heap) /\ h \in Addr /\ heap.hdr[h].free /\ IsFree(heap, h)
  <2>1. n \in Lists
    BY DEF Inv, Scalars
  <2>2. Linked(heap, n, S)
    BY <1>5, <2>1 DEF Inv, HeapInv, Kept, Chains, Chain
  <2>3. \A h \in S : h \in Headers(heap) /\ heap.hdr[h].free
    BY <1>5, <2>1 DEF FreeBut
  <2> QED BY <1>1, <1>5, <2>1, <2>2, <2>3 DEF Headers, IsFree
<1>10. ASSUME NEW i \in Lists, NEW h \in FreeBut(heap', Null)[i]
       PROVE  /\ h \in FreeBut(heap, Null)[i] /\ h # hbp /\ heap'.hdr[h].sz = heap.hdr[h].sz
              /\ Hopeless(h)' = Hopeless(h)
  <2>1. h \in Headers(heap') /\ h # Null /\ heap'.hdr[h].free /\ ListOf(heap', h) = i
    BY DEF FreeBut
  <2>2. h \in Addr /\ IsFree(heap', h)
    BY <2>1 DEF Headers, IsFree
  <2>3. IsFree(heap, h) /\ h # hbp /\ heap'.hdr[h].sz = heap.hdr[h].sz
    BY <1>8, <2>2 DEF Loses
  <2>4. h \in Headers(heap) /\ heap.hdr[h].free /\ ListOf(heap, h) = i
    BY <2>1, <2>2, <2>3 DEF Headers, IsFree, ListOf
  <2>5. Hopeless(h)' = Hopeless(h)
    BY <1>1, <2>3, HopelessStays
  <2> QED BY <2>1, <2>3, <2>4, <2>5 DEF FreeBut
<1>11. \A i \in Lists : Exhausted(i) => Exhausted(i)'
  <2> SUFFICES ASSUME NEW i \in Lists, Exhausted(i),
                      NEW h \in FreeBut(heap', Null)[i], heap'.hdr[h].sz >= req'.blocks
               PROVE  Hopeless(h)'
    BY DEF Exhausted
  <2> QED BY <1>1, <1>10 DEF Exhausted
<1>12. heap'.fl[n] \in D \cup {q, Null}
  <2>1. heap.fl[n] \in C \cup {hbp, Null}
    BY <1>4 DEF Passed
  <2>2. heap'.fl[n] = IF heap.hdr[hbp].prev = Null THEN q ELSE heap.fl[n]
    BY <1>1, <1>6, <1>8 DEF Relinked
  <2>3. heap.hdr[hbp].prev # Null => heap.fl[n] # hbp
    BY <1>9 DEF Linked
  <2> QED BY <1>7, <2>1, <2>2, <2>3
<1>13. ASSUME NEW h \in FreeBut(heap', Null)[n] \cap D
       PROVE  heap'.hdr[h].next \in D \cup {q, Null}
  <2>1. h \in S /\ h \in C /\ h # hbp
    BY <1>5, <1>7, <1>9, <1>10, <1>13
  <2>2. heap.hdr[h].next \in C \cup {hbp, Null}
    BY <1>4, <1>5, <2>1 DEF Passed
  <2>3. heap.hdr[h].next = hbp => h = heap.hdr[hbp].prev /\ h # Null
    <3>1. h # Null
      BY <1>9, <2>1, <1>10, <1>13 DEF FreeBut
    <3> QED BY <1>2, <1>9, <2>1, <3>1 DEF Linked
  <2>4. heap'.hdr[h].next = IF heap.hdr[hbp].prev # Null /\ h = heap.hdr[hbp].prev
                            THEN q ELSE heap.hdr[h].next
    BY <1>1, <1>6, <1>8, <1>9, <2>1 DEF Relinked
  <2> QED BY <1>7, <2>2, <2>3, <2>4
<1>14. ASSUME NEW h \in FreeBut(heap', Null)[n] \cap D, Suited(h)'
       PROVE  Hopeless(h)'
  <2>1. h \in S /\ h \in C /\ heap'.hdr[h].sz = heap.hdr[h].sz /\ Hopeless(h)' = Hopeless(h)
    BY <1>5, <1>7, <1>9, <1>10, <1>14
  <2>2. Suited(h)
    BY <1>1, <1>14, <2>1 DEF Suited
  <2>3. Hopeless(h)
    BY <1>3, <1>4, <1>5, <2>1, <2>2 DEF Passed
  <2> QED BY <2>1, <2>3
<1>15. Passed(D)'
  <2>1. n' = n
    BY <1>1
  <2> QED BY <1>6, <1>12, <1>13, <1>14, <2>1 DEF Passed
<1>16. D \in SUBSET Addr
  BY <1>7
<1>17. IF may_split THEN \A i \in Lists : i < n => Exhausted(i)
       ELSE n = GC_hblk_fl_from_blocks(req.blocks)
  BY <1>2 DEF Searched
<1> QED
  BY <1>1, <1>2, <1>11, <1>15, <1>16, <1>17 DEF Searched

\* There is nothing to say when nobody searches.
LEMMA SearchedIdle ==
  ASSUME pc' = "idle"
  PROVE  Searched'
BY DEF Searched

\* Doing nothing keeps what has been searched.
LEMMA SearchedStutter ==
  ASSUME Searched, UNCHANGED vars
  PROVE  Searched'
<1>1. /\ heap' = heap /\ black' = black /\ pc' = pc /\ req' = req /\ n' = n
      /\ may_split' = may_split /\ split_limit' = split_limit /\ hbp' = hbp
  BY DEF vars, search
<1>2. \A h : Hopeless(h)' = Hopeless(h)
  BY <1>1, HopelessStays
<1>3. \A i : Exhausted(i)' = Exhausted(i)
  BY <1>1, <1>2 DEF Exhausted
<1>4. \A h : Suited(h)' = Suited(h)
  BY <1>1 DEF Suited
<1>5. Better' = Better
  BY <1>1 DEF Better, IsBlackListed
<1>6. \A C : Passed(C)' = Passed(C)
  BY <1>1, <1>2, <1>4, <1>5 DEF Passed
<1> QED
  BY <1>1, <1>3, <1>6 DEF Searched

\* Every step keeps it.
LEMMA NextSearched ==
  ASSUME Inv, Searched, NoLeak, [Next]_vars
  PROVE  Searched'
<1>1. ASSUME NEW h \in Memory, GC_freehblk(h) PROVE Searched'
  BY <1>1, SearchedIdle DEF GC_freehblk
<1>2. ASSUME NEW s \in Sections, GC_add_to_heap(s) PROVE Searched'
  BY <1>2, SearchedIdle DEF GC_add_to_heap
<1>3. ASSUME GC_promote_black_lists PROVE Searched'
  BY <1>3, SearchedIdle DEF GC_promote_black_lists
<1>4. ASSUME NEW sz \in Sizes, NEW kind \in {"normal", "ptrfree", "uncollectable"},
             NEW iop \in BOOLEAN, GC_allochblk(sz, kind, iop)
      PROVE  Searched'
  BY <1>4, SearchedStart
<1>5. ASSUME Search PROVE Searched'
  <2>1. ASSUME NEW f, NEW h, Allocate(f, h) PROVE pc' = "idle"
    BY <2>1, AllocateIs DEF HandOut, Finish
  <2>2. TakeFirst => pc' = "idle"
    BY <2>1 DEF TakeFirst
  <2>3. TakeAdvanced => pc' = "idle"
    BY <2>1 DEF TakeAdvanced
  <2>4. ReturnFailure => pc' = "idle"
    BY DEF ReturnFailure, Finish
  <2> QED
    BY <1>5, <2>2, <2>3, <2>4, SearchedIdle, SearchedNextList, SearchedSkip,
       SearchedDrop DEF Search
<1>6. ASSUME UNCHANGED vars PROVE Searched'
  BY <1>6, SearchedStutter
<1> QED
  BY <1>1, <1>2, <1>3, <1>4, <1>5, <1>6 DEF Next

\* A search that failed has exhausted all lists.
LEMMA SearchedFails == Inv /\ Searched => FailsOnlyWhenFull
<1> SUFFICES ASSUME Inv, Searched, pc = "failed", split_limit = N_HBLK_FLS,
                    NEW h \in Headers(heap), heap.hdr[h].free, heap.hdr[h].sz >= req.blocks
             PROVE  Hopeless(h)
  BY DEF FailsOnlyWhenFull
<1> DEFINE m == AddedMemory(added)
<1>1. Shaped(heap, m, Null)
  BY DEF Inv, HeapInv, Kept
<1> HIDE DEF m
<1>2. h # Null /\ ListOf(heap, h) \in Lists /\ h \in FreeBut(heap, Null)[ListOf(heap, h)]
  BY <1>1, Apart, FreeButIs
<1>3. Exhausted(ListOf(heap, h))
  BY <1>2 DEF Searched
<1> QED
  BY <1>2, <1>3 DEF Exhausted

\* The invariant holds.
LEMMA InvHolds == NoLeak => (Spec => [](Inv /\ Searched))
<1> SUFFICES ASSUME NoLeak PROVE Spec => [](Inv /\ Searched)
  OBVIOUS
<1>1. Init => Inv /\ Searched
  BY InitInv DEF Init, Searched
<1>2. Inv /\ Searched /\ [Next]_vars => (Inv /\ Searched)'
  BY NextInv, NextSearched
<1> QED
  BY <1>1, <1>2, PTL DEF Spec

\* The variables of the allocator have the values TypeOK says, whatever sections
\* the heap grows by and whatever is black-listed.
THEOREM TypeCorrect == NoLeak => (Spec => []TypeOK)
<1> SUFFICES ASSUME NoLeak PROVE Spec => []TypeOK
  OBVIOUS
<1> QED
  BY InvHolds, InvTypeOK, PTL

\* The two-level table describes disjoint blocks of the memory that was added: no
\* header is inside a block, from every place of a block in use the forwarding
\* counts lead to its header, and there is nothing elsewhere.
THEOREM HeadersAreRight == NoLeak => (Spec => []HeadersDescribeBlocks)
<1> SUFFICES ASSUME NoLeak PROVE Spec => []HeadersDescribeBlocks
  OBVIOUS
<1> QED
  BY InvHolds, InvHeaders, PTL

\* GC_hblkfreelist holds each free block on the list for its size and nothing
\* else, linked both ways, and GC_free_bytes and GC_large_free_bytes add up.
THEOREM FreeListsAreRight == NoLeak => (Spec => []FreeListsConsistent)
<1> SUFFICES ASSUME NoLeak PROVE Spec => []FreeListsConsistent
  OBVIOUS
<1> QED
  BY InvHolds, InvLists, PTL

\* GC_freehblk coalesces: two free blocks never touch.
THEOREM FreeBlocksAreApart == NoLeak => (Spec => []NoAdjacentFree)
<1> SUFFICES ASSUME NoLeak PROVE Spec => []NoAdjacentFree
  OBVIOUS
<1> QED
  BY InvHolds, InvNoAdjacent, PTL

\* GC_allochblk, when it may split any block, fails only if every free block that
\* is large enough is black-listed throughout.
THEOREM SearchIsComplete == NoLeak => (Spec => []FailsOnlyWhenFull)
<1> SUFFICES ASSUME NoLeak PROVE Spec => []FailsOnlyWhenFull
  OBVIOUS
<1> QED
  BY InvHolds, SearchedFails, PTL
=============================================================================
