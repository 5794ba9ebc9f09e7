------------------------- MODULE IndexWalk_proofs -------------------------
(***************************************************************************)
(* Proofs about the walk over the block headers, for any heap, number of   *)
(* markers and size of a step, and, at the end, about the hints that tell  *)
(* it which blocks to look at.                                             *)
(*                                                                         *)
(* The inductive invariant says that, unless the stack has overflowed,     *)
(* each block in use was called or lies ahead of an index entry on one of  *)
(* the stacks, and each range pushed is on a stack or scanned; and that    *)
(* what a local stack holds above the entries taken is ranges.  Ahead of   *)
(* the steps come facts about sequences, about the walk of one index,      *)
(* whose existence needs an induction, about what a step pushes, and about *)
(* bags.                                                                   *)
(***************************************************************************)
EXTENDS IndexWalk, HintFlags, FiniteSetTheorems, SequenceTheorems, WellFoundedInduction,
        TLAPS

------------------------------------------------------------------------------
(* Arithmetic.                                                             *)

\* Of finitely many sets one contains no other.
LEMMA SmallestSet ==
  ASSUME NEW S, IsFiniteSet(S), NEW T \in SUBSET SUBSET S, T # {}
  PROVE  \E x \in T : \A y \in T : y \subseteq x => y = x
<1>1. T \subseteq FiniteSubsetsOf(S)
  BY FS_FiniteSubsetsOfFinite
<1>2. \E x \in T : \A y \in T : <<y, x>> \notin StrictSubsetOrdering(S)
  BY <1>1, FS_StrictSubsetOrderingWellFounded, WFMin
<1> QED
  BY <1>2 DEF StrictSubsetOrdering

\* A set of numbers has a least one.
LEMMA LeastNat ==
  ASSUME NEW T \in SUBSET Nat, T # {}
  PROVE  \E x \in T : \A y \in T : x <= y
<1>1. PICK t \in T : TRUE
  OBVIOUS
<1> DEFINE Initial == {0 .. x : x \in {y \in T : y <= t}}
<1>2. /\ IsFiniteSet(0 .. t) /\ Initial # {}
      /\ Initial \in SUBSET SUBSET (0 .. t)
  <2>1. t \in Int /\ 0 \in Int
    BY <1>1
  <2>2. IsFiniteSet(0 .. t)
    BY <2>1, FS_Interval
  <2>3. Initial # {}
    <3>1. 0 .. t \in Initial
      BY <1>1
    <3> QED BY <3>1
  <2>4. ASSUME NEW x \in T, x <= t PROVE 0 .. x \subseteq 0 .. t
    BY <2>4
  <2> QED BY <2>2, <2>3, <2>4
<1>3. \E u \in Initial : \A v \in Initial : v \subseteq u => v = u
  <2> DEFINE All == 0 .. t
  <2>1. IsFiniteSet(All) /\ Initial # {} /\ Initial \in SUBSET SUBSET All
    BY <1>2
  <2> HIDE DEF Initial, All
  <2> QED BY <2>1, SmallestSet
<1>4. PICK x \in T : x <= t /\ \A y \in T : y <= t => (0 .. y \subseteq 0 .. x => 0 .. y = 0 .. x)
  <2>1. PICK u \in Initial : \A v \in Initial : v \subseteq u => v = u
    BY <1>3
  <2>2. PICK x \in T : x <= t /\ u = 0 .. x
    BY <2>1
  <2>3. ASSUME NEW y \in T, y <= t PROVE 0 .. y \in Initial
    BY <2>3
  <2> HIDE DEF Initial
  <2> QED BY <2>1, <2>2, <2>3
<1> QED
  <2>1. ASSUME NEW y \in T, y < x PROVE FALSE
    <3>1. 0 .. y \subseteq 0 .. x /\ x \in 0 .. x /\ x \notin 0 .. y /\ y <= t
      BY <1>4, <2>1
    <3> QED BY <3>1, <1>4
  <2> QED BY <2>1

\* An induction principle over naturals as a set.
LEMMA NatSet ==
  ASSUME NEW T, 0 \in T, \A k \in Nat : k \in T => k + 1 \in T
  PROVE  Nat \subseteq T
<1> SUFFICES ASSUME Nat \ T # {} PROVE FALSE
  OBVIOUS
<1>1. PICK k \in Nat \ T : \A y \in Nat \ T : k <= y
  BY LeastNat, Nat \ T \in SUBSET Nat
<1>2. k # 0 /\ k - 1 \in Nat /\ k - 1 \in T
  BY <1>1
<1> QED
  BY <1>1, <1>2, (k - 1) + 1 = k

\* A number is divided with a remainder.
LEMMA Division ==
  ASSUME NEW a \in Nat, NEW b \in Nat \ {0}
  PROVE  a \div b \in Nat /\ a % b \in 0 .. b - 1 /\ a = (a \div b) * b + (a % b)
<1> DEFINE Def(n) == \E q \in Nat, r \in 0 .. b - 1 : n = q * b + r
           T == {n \in Nat : Def(n)}
<1>1. 0 \in T
  <2>1. 0 = 0 * b + 0 /\ 0 \in 0 .. b - 1
    OBVIOUS
  <2> QED BY <2>1
<1>2. ASSUME NEW n \in Nat, n \in T PROVE n + 1 \in T
  <2>1. PICK q \in Nat, r \in 0 .. b - 1 : n = q * b + r
    BY <1>2
  <2>2. CASE r + 1 < b
    <3>1. r + 1 \in 0 .. b - 1 /\ n + 1 = q * b + (r + 1)
      BY <2>1, <2>2
    <3> QED BY <3>1
  <2>3. CASE r = b - 1
    <3>1. q + 1 \in Nat /\ 0 \in 0 .. b - 1 /\ n + 1 = (q + 1) * b + 0
      BY <2>1, <2>3
    <3>2. Def(n + 1)
      <4> WITNESS q + 1 \in Nat, 0 \in 0 .. b - 1
      <4> QED BY <3>1
    <3> QED BY <3>2
  <2> QED BY <2>2, <2>3
<1>3. Nat \subseteq T
  <2> HIDE DEF T
  <2> QED BY <1>1, <1>2, NatSet
<1>4. PICK q \in Nat, r \in 0 .. b - 1 : a = q * b + r
  BY <1>3
<1>5. (q * b + r) \div b = q /\ (q * b + r) % b = r
  OBVIOUS
<1> QED
  BY <1>4, <1>5

\* What is assigned to an int is kept if it is none of the large numbers.
LEMMA IntKept ==
  ASSUME NEW n \in 0 .. INT_MAX
  PROVE  ToInt(n) = n
<1> DEFINE a == n + INT_MAX + 1
           b == 2 * (INT_MAX + 1)
<1>1. INT_MAX \in Nat
  BY ConstantsAssumption
<1>2. a \in Nat /\ b \in Nat \ {0} /\ a < b /\ a - (INT_MAX + 1) = n
  BY <1>1
<1>3. ToInt(n) = (a % b) - (INT_MAX + 1)
  BY DEF ToInt
<1>4. a % b = a
  <2> HIDE DEF a, b
  <2>1. a \div b \in Nat /\ a % b \in 0 .. b - 1 /\ a = (a \div b) * b + (a % b)
    BY <1>2, Division
  <2> DEFINE q == a \div b
             m == a % b
  <2>2. q \in Nat /\ m \in 0 .. b - 1 /\ a = q * b + m
    BY <2>1
  <2> HIDE DEF q, m
  <2>3. ASSUME q # 0 PROVE FALSE
    <3>1. (q - 1) * b >= 0 /\ (q - 1) * b = q * b - b
      BY <1>2, <2>2, <2>3
    <3>2. q * b \in Nat
      BY <1>2, <2>2
    <3> QED BY <1>2, <2>2, <3>1, <3>2
  <2>4. m = a
    BY <1>2, <2>2, <2>3
  <2> QED BY <2>4 DEF m
<1> QED
  <2>1. ToInt(n) = a - (INT_MAX + 1)
    BY <1>3, <1>4
  <2> HIDE DEF a
  <2> QED BY <1>2, <2>1

LEMMA IntType ==
  ASSUME NEW n \in Int
  PROVE  ToInt(n) \in Int
<1> DEFINE a == n + INT_MAX + 1
           b == 2 * (INT_MAX + 1)
<1>1. a \in Int /\ b \in Nat \ {0} /\ INT_MAX + 1 \in Int
  BY ConstantsAssumption
<1>2. ToInt(n) = (a % b) - (INT_MAX + 1)
  BY DEF ToInt
<1> HIDE DEF a, b
<1>3. a % b \in Int
  BY <1>1
<1> QED
  BY <1>1, <1>2, <1>3

\* Products are ordered as their factors are.
LEMMA Products ==
  ASSUME NEW n \in Nat, NEW q \in Nat \ {0}, NEW l \in Nat, NEW d \in Nat,
         n <= q, q * l <= n * d
  PROVE  l <= d
<1>1. (q - n) * d >= 0 /\ (q - n) * d = q * d - n * d
  OBVIOUS
<1>2. q * l <= q * d
  <2>1. n * d \in Nat /\ q * d \in Nat /\ q * l \in Nat
    OBVIOUS
  <2> QED BY <1>1, <2>1
<1>3. ASSUME l > d PROVE FALSE
  <2>1. q * (l - d) >= q /\ q * (l - d) = q * l - q * d
    BY <1>3
  <2>2. q * d \in Nat /\ q * l \in Nat
    OBVIOUS
  <2> QED BY <1>2, <2>1, <2>2
<1> QED
  BY <1>3

\* The values of a function on a finite set are finitely many.
LEMMA FiniteImage ==
  ASSUME NEW S, IsFiniteSet(S), NEW f, f = [x \in S |-> f[x]]
  PROVE  IsFiniteSet({f[x] : x \in S})
<1> DEFINE All == {f[x] : x \in S}
<1>1. f \in Surjection(S, All)
  BY DEF Surjection
<1> HIDE DEF All
<1>2. IsFiniteSet(All)
  BY <1>1, FS_Surjection
<1> QED
  BY <1>2 DEF All

\* The second part of a joined sequence.
LEMMA Joined ==
  ASSUME NEW S, NEW p \in Seq(S), NEW q \in Seq(S), NEW i \in 1 .. Len(q)
  PROVE  (p \o q)[Len(p) + i] = q[i]
<1>1. /\ Len(p) \in Nat /\ Len(q) \in Nat /\ Len(p) + i \in 1 .. Len(p) + Len(q)
      /\ ~(Len(p) + i <= Len(p)) /\ (Len(p) + i) - Len(p) = i
  OBVIOUS
<1> DEFINE k == Len(p) + i
<1>2. k \in 1 .. Len(p) + Len(q) /\ ~(k <= Len(p)) /\ k - Len(p) = i
  BY <1>1
<1> HIDE DEF k
<1>3. (p \o q)[k] = IF k <= Len(p) THEN p[k] ELSE q[k - Len(p)]
  BY <1>2, ConcatProperties
<1>4. (p \o q)[k] = q[k - Len(p)]
  BY <1>2, <1>3
<1>5. (p \o q)[k] = q[i]
  BY <1>2, <1>4
<1> QED
  BY <1>5 DEF k

\* A part of a sequence.
LEMMA PartOf ==
  ASSUME NEW S, NEW p \in Seq(S), NEW a \in 1 .. Len(p) + 1, NEW b \in 0 .. Len(p), a <= b + 1
  PROVE  /\ SubSeq(p, a, b) \in Seq(S) /\ Len(SubSeq(p, a, b)) = b - a + 1
         /\ DOMAIN SubSeq(p, a, b) = 1 .. b - a + 1
         /\ \A i \in 1 .. b - a + 1 : SubSeq(p, a, b)[i] = p[a + i - 1]
<1>1. SubSeq(p, a, b) \in Seq(S) /\ Len(SubSeq(p, a, b)) = b - a + 1
  OBVIOUS
<1>2. \A i \in 1 .. b - a + 1 : SubSeq(p, a, b)[i] = p[a + i - 1]
  OBVIOUS
<1> DEFINE t == SubSeq(p, a, b)
<1> HIDE DEF t
<1>3. t \in Seq(S) /\ Len(t) = b - a + 1
  BY <1>1 DEF t
<1>4. DOMAIN t = 1 .. b - a + 1
  BY <1>3
<1> QED
  BY <1>1, <1>2, <1>4 DEF t

LEMMA JoinedType ==
  ASSUME NEW S, NEW p \in Seq(S), NEW q \in Seq(S)
  PROVE  p \o q \in Seq(S) /\ Len(p \o q) = Len(p) + Len(q)
OBVIOUS

------------------------------------------------------------------------------
(* Blocks and slots.                                                       *)

\* What ConstantsAssumption says of a heap.
LEMMA HeapBlocks ==
  ASSUME heap \in Heaps
  PROVE  /\ IsFiniteSet(heap)
         /\ \A b \in heap : /\ b \in [at : Nat, sz : Nat \ {0}, free : BOOLEAN, ranges : Nat,
                                    hdr : -INT_MAX - 1 .. INT_MAX]
                            /\ b.at \in Nat /\ b.sz \in Nat \ {0} /\ b.ranges \in Nat
                            /\ b.free \in BOOLEAN /\ b.hdr \in Int
         /\ \A b, c \in heap : c = b \/ c.at \notin b.at .. b.at + b.sz - 1
         /\ \A b \in heap :
              LOCAL_MARK_STACK_SIZE >= MAX_STEAL + (PARAM_NUM_HBLKS_PER_STEP + 1) * b.ranges
<1>1. IsFiniteSet(heap)
  BY ConstantsAssumption
<1>2. ASSUME NEW b \in heap
      PROVE  b \in [at : Nat, sz : Nat \ {0}, free : BOOLEAN, ranges : Nat,
                    hdr : -INT_MAX - 1 .. INT_MAX]
  BY ConstantsAssumption
<1>3. ASSUME NEW b \in heap, NEW c \in heap PROVE c = b \/ c.at \notin b.at .. b.at + b.sz - 1
  BY ConstantsAssumption
<1>4. ASSUME NEW b \in heap
      PROVE  LOCAL_MARK_STACK_SIZE >= MAX_STEAL + (PARAM_NUM_HBLKS_PER_STEP + 1) * b.ranges
  BY ConstantsAssumption
<1>5. ASSUME NEW b \in heap
      PROVE  b.at \in Nat /\ b.sz \in Nat \ {0} /\ b.ranges \in Nat /\ b.free \in BOOLEAN
             /\ b.hdr \in Int
  <2>1. INT_MAX \in Nat
    BY ConstantsAssumption
  <2>2. -INT_MAX - 1 .. INT_MAX \subseteq Int
    BY <2>1
  <2>3. /\ b.at \in Nat /\ b.sz \in Nat \ {0} /\ b.ranges \in Nat /\ b.free \in BOOLEAN
        /\ b.hdr \in -INT_MAX - 1 .. INT_MAX
    BY <1>2
  <2> QED BY <2>2, <2>3
<1> QED
  BY <1>1, <1>2, <1>3, <1>4, <1>5, Zenon

\* A slot is a header exactly where a block begins, and then of that block.
LEMMA HeaderSlot ==
  ASSUME heap \in Heaps, NEW x \in Nat, NEW b \in heap, b.at = x
  PROVE  Slot(x) = IsHeader /\ BlockAt(x) = b
<1>1. Slot(x) = IsHeader
  BY DEF Slot
<1>2. BlockAt(x) \in heap /\ BlockAt(x).at = x
  BY DEF BlockAt
<1>3. b.at \in b.at .. b.at + b.sz - 1
  BY HeapBlocks
<1>4. BlockAt(x) = b \/ BlockAt(x).at \notin b.at .. b.at + b.sz - 1
  BY <1>2, HeapBlocks
<1> QED
  BY <1>1, <1>2, <1>3, <1>4

\* Two blocks that reach to the same place are one.
LEMMA OneBlockInside ==
  ASSUME heap \in Heaps, NEW x \in Nat, NEW b \in heap, NEW c \in heap,
         x \in Inside(b), x \in Inside(c)
  PROVE  b = c
<1>1. /\ b.at \in Nat /\ c.at \in Nat /\ b.sz \in Nat \ {0} /\ c.sz \in Nat \ {0}
      /\ b = c \/ c.at \notin b.at .. b.at + b.sz - 1
      /\ b = c \/ b.at \notin c.at .. c.at + c.sz - 1
  BY HeapBlocks
<1>2. b.at + 1 <= x /\ x <= b.at + b.sz - 1 /\ c.at + 1 <= x /\ x <= c.at + c.sz - 1
  BY <1>1 DEF Inside
<1> QED
  BY <1>1, <1>2

\* A forwarding count reaches from inside a block to its header at most.
Forwards(x, s) ==
  /\ s \in 1 .. MAX_JUMP
  /\ \A c \in heap : c.at \notin x - s + 1 .. x

LEMMA ForwardingSlot ==
  ASSUME heap \in Heaps, NEW x \in Nat, ~(\E b \in heap : b.at = x),
         NEW b \in Used(heap), x \in Inside(b)
  PROVE  Forwards(x, Slot(x))
<1>1. b \in heap /\ b.at \in Nat /\ b.sz \in Nat \ {0} /\ b.at + 1 <= x /\ x <= b.at + b.sz - 1
  BY HeapBlocks DEF Used, Inside
<1> DEFINE S == {x - c.at : c \in {d \in Used(heap) : x \in Inside(d)}} \cup {MAX_JUMP}
<1>2. S = {x - b.at, MAX_JUMP}
  <2>1. \A d \in Used(heap) : x \in Inside(d) => d = b
    BY <1>1, OneBlockInside DEF Used
  <2> QED BY <2>1
<1>3. Slot(x) = Min(S)
  BY DEF Slot
<1> HIDE DEF S
<1>4. MAX_JUMP \in Nat \ {0}
  BY ConstantsAssumption
<1>5. Min(S) \in S /\ \A y \in S : Min(S) <= y
  <2>1. \E m \in S : \A y \in S : m <= y
    <3>1. CASE x - b.at <= MAX_JUMP
      BY <3>1, <1>1, <1>2, <1>4
    <3>2. CASE ~(x - b.at <= MAX_JUMP)
      BY <3>2, <1>1, <1>2, <1>4
    <3> QED BY <3>1, <3>2
  <2> QED BY <2>1 DEF Min
<1>6. Slot(x) \in 1 .. MAX_JUMP /\ Slot(x) <= x - b.at
  <2>1. Min(S) = x - b.at \/ Min(S) = MAX_JUMP
    BY <1>5, <1>2
  <2>2. Min(S) <= x - b.at /\ Min(S) <= MAX_JUMP
    BY <1>5, <1>2
  <2> QED BY <2>1, <2>2, <1>1, <1>3, <1>4
<1>7. ASSUME NEW c \in heap, c.at \in x - Slot(x) + 1 .. x PROVE FALSE
  <2>1. c.at \in Nat /\ (c = b \/ c.at \notin b.at .. b.at + b.sz - 1)
    BY <1>1, HeapBlocks
  <2>2. c.at > b.at /\ c.at <= x
    BY <1>1, <1>6, <1>7, <2>1
  <2> QED BY <1>1, <2>1, <2>2
<1> QED
  BY <1>6, <1>7 DEF Forwards

\* The three kinds of slots.
LEMMA Slots ==
  ASSUME heap \in Heaps, NEW x \in Nat
  PROVE  \/ /\ Slot(x) = 0
            /\ \A c \in heap : c.at # x
         \/ /\ Slot(x) # 0 /\ Slot(x) # IsHeader
            /\ Forwards(x, Slot(x))
         \/ /\ Slot(x) # 0 /\ Slot(x) = IsHeader
            /\ BlockAt(x) \in heap
            /\ \A c \in heap : c.at = x => c = BlockAt(x)
<1>1. MAX_JUMP \in Nat \ {0} /\ IsHeader \in Nat /\ IsHeader > MAX_JUMP
  BY ConstantsAssumption DEF IsHeader
<1>2. CASE \E b \in heap : b.at = x
  <2>1. PICK b \in heap : b.at = x
    BY <1>2
  <2>2. \A c \in heap : c.at = x => Slot(x) = IsHeader /\ BlockAt(x) = c
    BY HeaderSlot
  <2> QED BY <1>1, <2>1, <2>2
<1>3. CASE ~(\E b \in heap : b.at = x) /\ \E b \in Used(heap) : x \in Inside(b)
  <2>1. Forwards(x, Slot(x))
    BY <1>3, ForwardingSlot
  <2>2. Slot(x) \in 1 .. MAX_JUMP
    BY <2>1 DEF Forwards
  <2> QED BY <1>1, <2>1, <2>2
<1>4. CASE ~(\E b \in heap : b.at = x) /\ ~ \E b \in Used(heap) : x \in Inside(b)
  BY <1>4 DEF Slot
<1> QED
  BY <1>2, <1>3, <1>4

\* A slot is a number, be it before the first one.
LEMMA SlotNumber ==
  ASSUME heap \in Heaps, NEW x \in Int
  PROVE  SlotValue(x) \in Int
<1>1. MAX_JUMP \in Nat \ {0} /\ IsHeader \in Nat
  BY ConstantsAssumption DEF IsHeader
<1>2. CASE x \in Nat
  <2>1. CASE Slot(x) = IsHeader
    <3>1. BlockAt(x) \in heap
      BY <1>1, <1>2, <2>1, Slots DEF Forwards, IsHeader
    <3>2. BlockAt(x).hdr \in Int
      BY <3>1, HeapBlocks
    <3> QED BY <2>1, <3>2 DEF SlotValue
  <2>2. CASE Slot(x) # IsHeader
    <3>1. Slot(x) \in Int
      BY <1>1, <1>2, <2>2, Slots DEF Forwards
    <3> QED BY <2>2, <3>1 DEF SlotValue
  <2> QED BY <2>1, <2>2
<1>3. CASE x \notin Nat
  <2>1. ASSUME NEW b \in heap PROVE b.at # x /\ x \notin Inside(b)
    <3>1. b.at \in Nat /\ b.sz \in Nat
      BY HeapBlocks
    <3> QED BY <1>3, <3>1 DEF Inside
  <2>2. Slot(x) = 0
    BY <2>1 DEF Slot, Used
  <2>3. IsHeader # 0
    BY <1>1 DEF IsHeader
  <2> QED BY <2>2, <2>3 DEF SlotValue
<1> QED
  BY <1>2, <1>3

\* There are finitely many bottom indices, and each begins with an entry.
LEMMA Indices ==
  ASSUME heap \in Heaps
  PROVE  /\ GC_all_bottom_indices \subseteq Nat
         /\ IsFiniteSet(GC_all_bottom_indices)
         /\ Cardinality(GC_all_bottom_indices) \in Nat
         /\ \A b \in Used(heap) : b.at \div BOTTOM_SZ \in GC_all_bottom_indices
<1>1. BOTTOM_SZ \in Nat \ {0}
  BY ConstantsAssumption
<1> DEFINE Place(b) == b.at .. b.at + b.sz - 1
           Places == {Place(b) : b \in heap}
<1>2. IsFiniteSet(Places)
  <2> DEFINE f == [b \in heap |-> Place(b)]
  <2>1. IsFiniteSet(heap) /\ f = [b \in heap |-> f[b]]
    BY HeapBlocks
  <2>2. IsFiniteSet({f[b] : b \in heap})
    <3> HIDE DEF f
    <3> QED BY <2>1, FiniteImage
  <2> QED BY <2>2
<1>3. IsFiniteSet(Addresses) /\ Addresses \subseteq Nat
  <2>1. ASSUME NEW b \in heap PROVE IsFiniteSet(Place(b)) /\ Place(b) \subseteq Nat
    <3>1. b.at \in Nat /\ b.sz \in Nat \ {0}
      BY HeapBlocks
    <3>2. b.at \in Int /\ b.at + b.sz - 1 \in Int
      BY <3>1
    <3>3. IsFiniteSet(b.at .. b.at + b.sz - 1)
      BY <3>2, FS_Interval
    <3>4. \A y \in b.at .. b.at + b.sz - 1 : y \in Nat
      BY <3>1
    <3> QED BY <3>3, <3>4
  <2>2. Addresses = UNION Places
    BY DEF Addresses
  <2> HIDE DEF Place
  <2>3. \A p \in Places : IsFiniteSet(p) /\ p \subseteq Nat
    BY <2>1
  <2> HIDE DEF Places
  <2>4. IsFiniteSet(UNION Places)
    BY <1>2, <2>3, FS_UNION
  <2> QED BY <2>2, <2>3, <2>4
<1> DEFINE Filled == {y \in Addresses : Slot(y) # 0}
           Key(y) == y \div BOTTOM_SZ
<1>4. IsFiniteSet(Filled)
  BY <1>3, FS_Subset
<1>5. GC_all_bottom_indices = {Key(y) : y \in Filled}
  BY DEF GC_all_bottom_indices
<1>6. \A y \in Filled : Key(y) \in Nat
  BY <1>1, <1>3, Division
<1>7. IsFiniteSet({Key(y) : y \in Filled})
  <2> DEFINE f == [y \in Filled |-> Key(y)]
  <2> HIDE DEF Filled, Key
  <2>1. f = [y \in Filled |-> f[y]]
    OBVIOUS
  <2>2. IsFiniteSet({f[y] : y \in Filled})
    <3> HIDE DEF f
    <3> QED BY <1>4, <2>1, FiniteImage
  <2> QED BY <2>2
<1>8. ASSUME NEW b \in Used(heap) PROVE b.at \in Filled
  <2>1. b \in heap /\ b.at \in Nat /\ b.sz \in Nat \ {0}
    BY HeapBlocks DEF Used
  <2>2. b.at \in Addresses
    <3>1. b.at \in Place(b)
      BY <2>1
    <3> QED BY <2>1, <3>1 DEF Addresses
  <2>3. Slot(b.at) # 0
    BY <2>1, HeaderSlot, ConstantsAssumption DEF IsHeader
  <2> QED BY <2>2, <2>3
<1> HIDE DEF Filled
<1>9. \A b \in Used(heap) : b.at \div BOTTOM_SZ \in GC_all_bottom_indices
  BY <1>5, <1>8
<1> HIDE DEF Key
<1>10. GC_all_bottom_indices \subseteq Nat /\ IsFiniteSet(GC_all_bottom_indices)
  BY <1>5, <1>6, <1>7
<1> QED
  BY <1>9, <1>10, FS_CardinalityType

------------------------------------------------------------------------------
(* The walk.                                                               *)

\* What one slot adds to the walk w.
WalkBody(w, key, perStep, j, covered) ==
  LET x == key * BOTTOM_SZ + j
      s == Slot(x)
      down == w[j - 1][ToInt(covered + 1)]
  IN IF j < 0 THEN [j |-> j, blocks |-> <<>>]
     ELSE IF s = 0 THEN w[j - 1][covered]
     ELSE IF s # IsHeader THEN w[j - s][ToInt(covered + SlotValue(x - s))]
     ELSE IF BlockAt(x).free THEN down
     ELSE IF covered >= perStep
          THEN [j |-> j - 1, blocks |-> <<BlockAt(x)>>]
          ELSE [down EXCEPT !.blocks = <<BlockAt(x)>> \o @]

Walks(w, key, perStep, first) ==
  w = [j \in -MAX_JUMP .. first |-> [covered \in Int |-> WalkBody(w, key, perStep, j, covered)]]

\* Walk takes the function it chooses.
LEMMA WalkIsChosen ==
  ASSUME NEW key, NEW first, NEW perStep
  PROVE  \E w : /\ w = (CHOOSE v : Walks(v, key, perStep, first))
                /\ Walk(key, first, perStep) = w[first][0]
BY Zenon DEF Walk, Walks, WalkBody

\* Slot j needs what was found for the slots below it.
LEMMA BodyAgrees ==
  ASSUME heap \in Heaps, NEW key \in Nat, NEW perStep \in Nat, NEW n \in Nat,
         NEW v, NEW w, \A i \in -MAX_JUMP .. n - 1 : v[i] = w[i],
         NEW j \in -MAX_JUMP .. n, NEW covered \in Int
  PROVE  WalkBody(v, key, perStep, j, covered) = WalkBody(w, key, perStep, j, covered)
<1>1. MAX_JUMP \in Nat \ {0} /\ BOTTOM_SZ \in Nat \ {0}
  BY ConstantsAssumption
<1>2. CASE j < 0
  BY <1>2 DEF WalkBody
<1>3. CASE j >= 0
  <2> DEFINE x == key * BOTTOM_SZ + j
  <2>1. x \in Nat /\ j \in Nat
    BY <1>1, <1>3
  <2>2. v[j - 1] = w[j - 1]
    BY <1>1, <2>1
  <2>3. CASE Slot(x) = 0 \/ Slot(x) = IsHeader
    BY <2>2, <2>3 DEF WalkBody
  <2>4. CASE Slot(x) # 0 /\ Slot(x) # IsHeader
    <3>1. Slot(x) \in 1 .. MAX_JUMP
      BY <2>1, <2>4, Slots DEF Forwards
    <3>2. v[j - Slot(x)] = w[j - Slot(x)]
      <4>1. j - Slot(x) \in -MAX_JUMP .. n - 1
        BY <1>1, <2>1, <3>1
      <4> QED BY <4>1
    <3> QED BY <2>4, <3>2 DEF WalkBody
  <2> QED BY <2>3, <2>4
<1> QED
  BY <1>1, <1>2, <1>3

\* There is a function to choose.
LEMMA WalkExists ==
  ASSUME heap \in Heaps, NEW key \in Nat, NEW perStep \in Nat, NEW first \in Nat
  PROVE  \E w : Walks(w, key, perStep, first)
<1> DEFINE Def(n) == \E w : Walks(w, key, perStep, n - 1)
           T == {n \in Nat : Def(n)}
           Body(w, j, c) == WalkBody(w, key, perStep, j, c)
<1>0. MAX_JUMP \in Nat \ {0}
  BY ConstantsAssumption
<1>1. 0 \in T
  <2> DEFINE w == [j \in -MAX_JUMP .. 0 - 1 |-> [c \in Int |-> [j |-> j, blocks |-> <<>>]]]
  <2>1. \A v : \A j \in -MAX_JUMP .. 0 - 1 : \A c \in Int :
          WalkBody(v, key, perStep, j, c) = [j |-> j, blocks |-> <<>>]
    BY <1>0 DEF WalkBody
  <2>2. w = [j \in -MAX_JUMP .. 0 - 1 |-> [c \in Int |-> Body(w, j, c)]]
    <3> SUFFICES ASSUME NEW j \in -MAX_JUMP .. 0 - 1, NEW c \in Int
                 PROVE  [j |-> j, blocks |-> <<>>] = Body(w, j, c)
      OBVIOUS
    <3> HIDE DEF w
    <3> QED BY <2>1
  <2> HIDE DEF w
  <2> QED BY <2>2 DEF Walks
<1>2. ASSUME NEW n \in Nat, n \in T PROVE n + 1 \in T
  <2>1. PICK w : w = [j \in -MAX_JUMP .. n - 1 |-> [c \in Int |-> Body(w, j, c)]]
    BY <1>2 DEF Walks
  <2> DEFINE v == [j \in -MAX_JUMP .. n |->
                     IF j = n THEN [c \in Int |-> Body(w, n, c)] ELSE w[j]]
  <2>2. \A i \in -MAX_JUMP .. n - 1 : v[i] = w[i]
    BY <1>0
  <2>3. \A j \in -MAX_JUMP .. n : v[j] = [c \in Int |-> Body(w, j, c)]
    <3>1. \A j \in -MAX_JUMP .. n - 1 : w[j] = [c \in Int |-> Body(w, j, c)]
      <4> HIDE DEF Body
      <4> QED BY <2>1
    <3>2. n \in -MAX_JUMP .. n /\ \A j \in -MAX_JUMP .. n : j = n \/ j \in -MAX_JUMP .. n - 1
      BY <1>0
    <3> HIDE DEF Body
    <3> QED BY <3>1, <3>2
  <2>4. \A j \in -MAX_JUMP .. n : \A c \in Int : Body(w, j, c) = Body(v, j, c)
    <3> HIDE DEF v
    <3> QED BY <2>2, BodyAgrees
  <2>5. v = [j \in -MAX_JUMP .. n |-> v[j]]
    OBVIOUS
  <2> HIDE DEF v, Body
  <2>6. \A j \in -MAX_JUMP .. n : v[j] = [c \in Int |-> Body(v, j, c)]
    BY <2>3, <2>4
  <2>7. v = [j \in -MAX_JUMP .. n |-> [c \in Int |-> Body(v, j, c)]]
    BY <2>5, <2>6
  <2>8. Def(n + 1)
    <3>1. (n + 1) - 1 = n
      OBVIOUS
    <3> QED BY <2>7, <3>1 DEF Walks, Body
  <2> QED BY <2>8
<1> HIDE DEF Def
<1>3. Nat \subseteq T
  <2> HIDE DEF T
  <2> QED BY <1>1, <1>2, NatSet
<1>4. Def(first + 1)
  BY <1>3
<1>5. (first + 1) - 1 = first
  OBVIOUS
<1> QED
  BY <1>4, <1>5 DEF Def

\* What a walk from slot j on finds, whatever it has covered: it ends further
\* down, and each block in use on its way is called or still ahead.
Ahead(key, j, b) == key * BOTTOM_SZ <= b.at /\ b.at <= key * BOTTOM_SZ + j
Calls(r, b) == \E i \in DOMAIN r.blocks : r.blocks[i] = b

Finds(r, key, j) ==
  /\ r \in [j : Int, blocks : Seq(Used(heap))]
  /\ -MAX_JUMP <= r.j /\ r.j <= j
  /\ \A b \in Used(heap) : Ahead(key, j, b) => Calls(r, b) \/ Ahead(key, r.j, b)

\* Nothing in use is passed over between slot i and slot j.
LEMMA FindsBelow ==
  ASSUME NEW key \in Nat, NEW j \in Int, NEW r, NEW i \in Int, i <= j, heap \in Heaps,
         \A b \in Used(heap) : b.at \notin key * BOTTOM_SZ + i + 1 .. key * BOTTOM_SZ + j,
         Finds(r, key, i)
  PROVE  Finds(r, key, j)
<1>1. BOTTOM_SZ \in Nat \ {0} /\ MAX_JUMP \in Nat
  BY ConstantsAssumption
<1>2. r \in [j : Int, blocks : Seq(Used(heap))] /\ r.j \in Int /\ Len(r.blocks) \in Nat
  BY DEF Finds
<1>3. -MAX_JUMP <= r.j /\ r.j <= j
  BY <1>1, <1>2 DEF Finds
<1>4. ASSUME NEW b \in Used(heap), Ahead(key, j, b) PROVE Calls(r, b) \/ Ahead(key, r.j, b)
  <2>1. b.at \in Nat
    BY HeapBlocks DEF Used
  <2>2. b.at \notin key * BOTTOM_SZ + i + 1 .. key * BOTTOM_SZ + j
    OBVIOUS
  <2>3. key * BOTTOM_SZ \in Nat
    BY <1>1
  <2>4. Ahead(key, i, b)
    BY <1>4, <2>1, <2>2, <2>3 DEF Ahead
  <2> QED BY <2>4 DEF Finds
<1> QED
  BY <1>2, <1>3, <1>4 DEF Finds

\* A block in use that begins at slot j is called before what is below it.
LEMMA FindsMore ==
  ASSUME NEW key \in Nat, NEW j \in Nat, NEW r, heap \in Heaps,
         NEW b \in Used(heap), \A c \in heap : c.at = key * BOTTOM_SZ + j => c = b,
         Finds(r, key, j - 1)
  PROVE  /\ Finds([r EXCEPT !.blocks = <<b>> \o @], key, j)
         /\ Len([r EXCEPT !.blocks = <<b>> \o @].blocks) = Len(r.blocks) + 1
<1>1. BOTTOM_SZ \in Nat \ {0} /\ MAX_JUMP \in Nat
  BY ConstantsAssumption
<1>2. r \in [j : Int, blocks : Seq(Used(heap))] /\ r.j \in Int /\ r.blocks \in Seq(Used(heap))
      /\ Len(r.blocks) \in Nat
  BY DEF Finds
<1> DEFINE s == [r EXCEPT !.blocks = <<b>> \o @]
<1>3. /\ <<b>> \o r.blocks \in Seq(Used(heap))
      /\ Len(<<b>> \o r.blocks) = Len(r.blocks) + 1
      /\ DOMAIN (<<b>> \o r.blocks) = 1 .. Len(r.blocks) + 1
      /\ (<<b>> \o r.blocks)[1] = b
      /\ \A i \in DOMAIN r.blocks : (<<b>> \o r.blocks)[i + 1] = r.blocks[i]
  <2> DEFINE q == r.blocks
  <2>1. q \in Seq(Used(heap)) /\ b \in Used(heap)
    BY <1>2
  <2> HIDE DEF q
  <2>2. <<b>> \in Seq(Used(heap)) /\ Len(<<b>>) = 1 /\ <<b>>[1] = b
    OBVIOUS
  <2>3. <<b>> \o q \in Seq(Used(heap)) /\ Len(<<b>> \o q) = Len(q) + 1
    BY <2>1, <2>2
  <2>4. DOMAIN (<<b>> \o q) = 1 .. Len(q) + 1 /\ DOMAIN q = 1 .. Len(q) /\ Len(q) \in Nat
    BY <2>1, <2>3
  <2>5. (<<b>> \o q)[1] = b
    BY <2>1, <2>2
  <2>6. ASSUME NEW i \in DOMAIN q PROVE (<<b>> \o q)[i + 1] = q[i]
    <3>1. i \in 1 .. Len(q) /\ i + 1 \in 1 .. Len(q) + 1 /\ i + 1 > 1 /\ (i + 1) - 1 = i
      BY <2>4
    <3> DEFINE p == <<b>>
    <3>2. p \in Seq(Used(heap)) /\ Len(p) = 1
      BY <2>2
    <3> HIDE DEF p
    <3>3. i \in 1 .. Len(q) /\ Len(p) + i = i + 1
      BY <3>1, <3>2
    <3>5. PICK S : p \in Seq(S) /\ q \in Seq(S)
      BY <2>1, <3>2
    <3>4. (p \o q)[Len(p) + i] = q[i]
      BY <3>3, <3>5, Joined
    <3> QED BY <3>3, <3>4 DEF p
  <2> QED BY <2>3, <2>4, <2>5, <2>6 DEF q
<1>4. s.j = r.j /\ s.blocks = <<b>> \o r.blocks /\ s \in [j : Int, blocks : Seq(Used(heap))]
  BY <1>2, <1>3
<1> HIDE DEF s
<1>5. -MAX_JUMP <= s.j /\ s.j <= j
  BY <1>1, <1>2, <1>4 DEF Finds
<1>6. Len(s.blocks) = Len(r.blocks) + 1
  BY <1>3, <1>4
<1>7. Calls(s, b) /\ \A c : Calls(r, c) => Calls(s, c)
  <2>1. DOMAIN r.blocks = 1 .. Len(r.blocks)
    BY <1>2
  <2>2. 1 \in DOMAIN s.blocks /\ \A i \in DOMAIN r.blocks : i + 1 \in DOMAIN s.blocks
    BY <1>2, <1>3, <1>4, <2>1
  <2>3. Calls(s, b)
    BY <1>3, <1>4, <2>2 DEF Calls
  <2>4. ASSUME NEW c, Calls(r, c) PROVE Calls(s, c)
    <3>1. PICK i \in DOMAIN r.blocks : r.blocks[i] = c
      BY <2>4 DEF Calls
    <3>2. s.blocks[i + 1] = c /\ i + 1 \in DOMAIN s.blocks
      BY <1>3, <1>4, <2>2, <3>1
    <3> QED BY <3>2 DEF Calls
  <2> QED BY <2>3, <2>4
<1>8. ASSUME NEW c \in Used(heap), Ahead(key, j, c) PROVE Calls(s, c) \/ Ahead(key, s.j, c)
  <2>1. c.at \in Nat /\ c \in heap
    BY HeapBlocks DEF Used
  <2>2. key * BOTTOM_SZ \in Nat
    BY <1>1
  <2>3. CASE c.at = key * BOTTOM_SZ + j
    BY <1>7, <2>1, <2>3
  <2>4. CASE c.at # key * BOTTOM_SZ + j
    <3>1. Ahead(key, j - 1, c)
      BY <1>8, <2>1, <2>2, <2>4 DEF Ahead
    <3>2. Calls(r, c) \/ Ahead(key, r.j, c)
      BY <3>1 DEF Finds
    <3> QED BY <1>4, <1>7, <3>2
  <2> QED BY <2>3, <2>4
<1>9. Finds(s, key, j)
  BY <1>4, <1>5, <1>8 DEF Finds
<1> QED
  BY <1>6, <1>9 DEF s

\* The last block of a step.
LEMMA FindsLast ==
  ASSUME NEW key \in Nat, NEW j \in Nat, heap \in Heaps,
         NEW b \in Used(heap), \A c \in heap : c.at = key * BOTTOM_SZ + j => c = b
  PROVE  Finds([j |-> j - 1, blocks |-> <<b>>], key, j)
<1>1. BOTTOM_SZ \in Nat \ {0} /\ MAX_JUMP \in Nat \ {0}
  BY ConstantsAssumption
<1> DEFINE r == [j |-> j - 1, blocks |-> <<b>>]
<1>2. r \in [j : Int, blocks : Seq(Used(heap))] /\ r.j = j - 1 /\ Len(r.blocks) = 1 /\ r.blocks[1] = b
      /\ 1 \in DOMAIN r.blocks
  OBVIOUS
<1> HIDE DEF r
<1>3. ASSUME NEW c \in Used(heap), Ahead(key, j, c) PROVE Calls(r, c) \/ Ahead(key, r.j, c)
  <2>1. c.at \in Nat /\ c \in heap
    BY HeapBlocks DEF Used
  <2>2. key * BOTTOM_SZ \in Nat
    BY <1>1
  <2>3. CASE c.at = key * BOTTOM_SZ + j
    BY <1>2, <2>1, <2>3 DEF Calls
  <2>4. CASE c.at # key * BOTTOM_SZ + j
    BY <1>2, <1>3, <2>1, <2>2, <2>4 DEF Ahead
  <2> QED BY <2>3, <2>4
<1>4. -MAX_JUMP <= r.j /\ r.j <= j
  BY <1>1, <1>2
<1>5. Finds(r, key, j)
  BY <1>2, <1>3, <1>4 DEF Finds
<1> QED
  BY <1>5 DEF r

\* So a walk finds what it should if the walks further down do.
LEMMA FindsStep ==
  ASSUME heap \in Heaps, NEW key \in Nat, NEW perStep \in Nat, NEW n \in Nat, NEW w,
         \A i \in -MAX_JUMP .. n - 1 : \A c \in Int : Finds(w[i][c], key, i),
         NEW covered \in Int
  PROVE  Finds(WalkBody(w, key, perStep, n, covered), key, n)
<1> DEFINE x == key * BOTTOM_SZ + n
           r == WalkBody(w, key, perStep, n, covered)
           down == w[n - 1][ToInt(covered + 1)]
<1>1. BOTTOM_SZ \in Nat \ {0} /\ MAX_JUMP \in Nat \ {0}
  BY ConstantsAssumption
<1>2. x \in Nat /\ n - 1 \in -MAX_JUMP .. n - 1 /\ ~(n < 0) /\ key * BOTTOM_SZ \in Nat
  BY <1>1
<1>3. Finds(down, key, n - 1)
  <2>1. ToInt(covered + 1) \in Int
    BY IntType
  <2> QED BY <1>2, <2>1
<1>4. CASE Slot(x) = 0 /\ \A c \in heap : c.at # x
  <2>1. r = w[n - 1][covered]
    BY <1>2, <1>4 DEF WalkBody
  <2>2. Finds(r, key, n - 1)
    BY <1>2, <2>1
  <2>3. \A b \in Used(heap) : b.at \notin key * BOTTOM_SZ + (n - 1) + 1 .. key * BOTTOM_SZ + n
    BY <1>2, <1>4 DEF Used
  <2> HIDE DEF r
  <2>4. n - 1 \in Int /\ n \in Int /\ n - 1 <= n
    OBVIOUS
  <2>5. Finds(r, key, n)
    BY <2>2, <2>3, <2>4, FindsBelow
  <2> QED BY <2>5 DEF r
<1>5. CASE Slot(x) # 0 /\ Slot(x) # IsHeader /\ Forwards(x, Slot(x))
  <2>1. r = w[n - Slot(x)][ToInt(covered + SlotValue(x - Slot(x)))]
    BY <1>2, <1>5 DEF WalkBody
  <2>2. Slot(x) \in 1 .. MAX_JUMP /\ \A c \in heap : c.at \notin x - Slot(x) + 1 .. x
    BY <1>5 DEF Forwards
  <2>3. n - Slot(x) \in -MAX_JUMP .. n - 1 /\ ToInt(covered + SlotValue(x - Slot(x))) \in Int
    <3>1. n - Slot(x) \in -MAX_JUMP .. n - 1 /\ x - Slot(x) \in Int
      BY <1>1, <1>2, <2>2
    <3>2. covered + SlotValue(x - Slot(x)) \in Int
      BY <3>1, SlotNumber
    <3> QED BY <3>1, <3>2, IntType
  <2>4. Finds(r, key, n - Slot(x))
    BY <2>1, <2>3
  <2>5. ASSUME NEW b \in Used(heap)
        PROVE  b.at \notin key * BOTTOM_SZ + (n - Slot(x)) + 1 .. key * BOTTOM_SZ + n
    <3>1. b.at \notin x - Slot(x) + 1 .. x
      BY <2>2 DEF Used
    <3>2. x - Slot(x) + 1 = key * BOTTOM_SZ + (n - Slot(x)) + 1
      BY <1>2, <2>2
    <3> QED BY <3>1, <3>2
  <2>6. n - Slot(x) \in Int /\ n \in Int /\ n - Slot(x) <= n /\ Slot(x) \in Nat
    BY <2>2
  <2> HIDE DEF r
  <2> DEFINE s == Slot(x)
             i == n - s
  <2>8. /\ i \in Int /\ i <= n /\ s \in Nat /\ n \in Int
        /\ Finds(r, key, i)
        /\ \A b \in Used(heap) : b.at \notin key * BOTTOM_SZ + i + 1 .. key * BOTTOM_SZ + n
    BY <2>4, <2>5, <2>6
  <2> HIDE DEF s, i
  <2>7. Finds(r, key, n)
    BY <2>8, FindsBelow
  <2> QED BY <2>7 DEF r
<1>6. CASE /\ Slot(x) # 0 /\ Slot(x) = IsHeader
           /\ BlockAt(x) \in heap /\ \A c \in heap : c.at = x => c = BlockAt(x)
  <2> DEFINE b == BlockAt(x)
  <2>1. CASE b.free
    <3>1. r = down
      BY <1>2, <1>6, <2>1 DEF WalkBody
    <3>2. \A c \in Used(heap) : c.at \notin key * BOTTOM_SZ + (n - 1) + 1 .. key * BOTTOM_SZ + n
      BY <1>2, <1>6, <2>1 DEF Used
    <3>3. n - 1 \in Int /\ n - 1 <= n
      OBVIOUS
    <3> HIDE DEF r, down
    <3> QED BY <1>3, <3>1, <3>2, <3>3, FindsBelow DEF r
  <2>2. CASE ~b.free /\ covered >= perStep
    <3>1. r = [j |-> n - 1, blocks |-> <<b>>]
      BY <1>2, <1>6, <2>2 DEF WalkBody
    <3>2. b \in Used(heap) /\ \A c \in heap : c.at = key * BOTTOM_SZ + n => c = b
      BY <1>6, <2>2 DEF Used
    <3> HIDE DEF b, r
    <3> QED BY <3>1, <3>2, FindsLast DEF r
  <2>3. CASE ~b.free /\ ~(covered >= perStep)
    <3>1. r = [down EXCEPT !.blocks = <<b>> \o @]
      BY <1>2, <1>6, <2>3 DEF WalkBody
    <3>2. b \in Used(heap) /\ \A c \in heap : c.at = key * BOTTOM_SZ + n => c = b
      BY <1>6, <2>3 DEF Used
    <3> HIDE DEF b, r, down
    <3> QED BY <1>3, <3>1, <3>2, FindsMore DEF r
  <2> QED BY <2>1, <2>2, <2>3
<1> QED
  BY <1>2, <1>4, <1>5, <1>6, Slots

\* The walk is made of its bodies.
Bodies(w, key, perStep, first) ==
  \A j \in -MAX_JUMP .. first : \A c \in Int : w[j][c] = WalkBody(w, key, perStep, j, c)

LEMMA WalkBodies ==
  ASSUME heap \in Heaps, NEW key \in Nat, NEW perStep \in Nat, NEW first \in Nat
  PROVE  \E w : Walk(key, first, perStep) = w[first][0] /\ Bodies(w, key, perStep, first)
<1>1. PICK w : /\ w = (CHOOSE v : Walks(v, key, perStep, first))
               /\ Walk(key, first, perStep) = w[first][0]
  BY WalkIsChosen
<1>2. Walks(w, key, perStep, first)
  BY <1>1, WalkExists
<1>3. ASSUME NEW j \in -MAX_JUMP .. first, NEW c \in Int
      PROVE  w[j][c] = WalkBody(w, key, perStep, j, c)
  <2> DEFINE Body(i, d) == WalkBody(w, key, perStep, i, d)
  <2>1. w = [i \in -MAX_JUMP .. first |-> [d \in Int |-> Body(i, d)]]
    BY <1>2 DEF Walks
  <2> HIDE DEF Body
  <2>2. w[j][c] = Body(j, c)
    BY <2>1
  <2> QED BY <2>2 DEF Body
<1> QED
  BY <1>1, <1>3 DEF Bodies

\* Before the first slot there is nothing.
LEMMA BeforeFirst ==
  ASSUME NEW key \in Nat, NEW perStep \in Nat, NEW w, NEW j \in Int, j < 0, NEW c
  PROVE  WalkBody(w, key, perStep, j, c) = [j |-> j, blocks |-> <<>>]
BY DEF WalkBody

\* Each part of a walk finds what it should, whatever was covered before.
LEMMA WalksFind ==
  ASSUME heap \in Heaps, NEW key \in Nat, NEW perStep \in Nat, NEW first \in Nat,
         NEW w, Bodies(w, key, perStep, first)
  PROVE  \A j \in -MAX_JUMP .. first : \A c \in Int : Finds(w[j][c], key, j)
<1>0. MAX_JUMP \in Nat \ {0} /\ BOTTOM_SZ \in Nat \ {0}
  BY ConstantsAssumption
<1>3. ASSUME NEW j \in -MAX_JUMP .. first, NEW c \in Int
      PROVE  w[j][c] = WalkBody(w, key, perStep, j, c)
  BY DEF Bodies
<1> DEFINE Def(n) == \A j \in -MAX_JUMP .. first : j <= n - 1 =>
                       \A c \in Int : Finds(w[j][c], key, j)
           T == {n \in Nat : Def(n)}
<1>4. 0 \in T
  <2>1. ASSUME NEW j \in -MAX_JUMP .. first, j <= 0 - 1, NEW c \in Int
        PROVE  Finds(w[j][c], key, j)
    <3> DEFINE r == [j |-> j, blocks |-> <<>>]
    <3>6. w[j][c] = WalkBody(w, key, perStep, j, c) /\ j < 0 /\ j \in Int
      BY <1>0, <1>3, <2>1
    <3>1. w[j][c] = r
      BY <3>6, BeforeFirst
    <3>2. r.j = j /\ r \in [j : Int, blocks : Seq(Used(heap))]
      OBVIOUS
    <3> HIDE DEF r
    <3>3. -MAX_JUMP <= r.j /\ r.j <= j
      BY <1>0, <3>2
    <3>4. \A b \in Used(heap) : Ahead(key, j, b) => Ahead(key, r.j, b)
      BY <3>2
    <3>5. Finds(r, key, j)
      BY <3>2, <3>3, <3>4 DEF Finds
    <3> QED BY <3>1, <3>5
  <2> QED BY <2>1
<1>5. ASSUME NEW n \in Nat, n \in T PROVE n + 1 \in T
  <2>1. ASSUME NEW j \in -MAX_JUMP .. first, j <= (n + 1) - 1, NEW c \in Int
        PROVE  Finds(w[j][c], key, j)
    <3>1. CASE j <= n - 1
      BY <1>5, <3>1
    <3>2. CASE j = n
      <4>1. \A i \in -MAX_JUMP .. n - 1 : \A d \in Int : Finds(w[i][d], key, i)
        BY <1>0, <1>5, <3>2
      <4>2. Finds(WalkBody(w, key, perStep, n, c), key, n)
        BY <4>1, FindsStep
      <4>3. w[j][c] = WalkBody(w, key, perStep, n, c)
        BY <1>3, <3>2
      <4> QED BY <3>2, <4>2, <4>3
    <3> QED BY <2>1, <3>1, <3>2
  <2> QED BY <2>1
<1>6. Nat \subseteq T
  <2> HIDE DEF T
  <2> QED BY <1>4, <1>5, NatSet
<1>7. Def(first + 1)
  <2> HIDE DEF Def
  <2> QED BY <1>6
<1>8. \A j \in -MAX_JUMP .. first : j <= (first + 1) - 1
  BY <1>0
<1> QED
  BY <1>7, <1>8

\* A step of the walk finds what it should.
LEMMA WalkFinds ==
  ASSUME heap \in Heaps, NEW key \in Nat, NEW perStep \in Nat, NEW first \in Nat
  PROVE  Finds(Walk(key, first, perStep), key, first)
<1>1. PICK w : Walk(key, first, perStep) = w[first][0] /\ Bodies(w, key, perStep, first)
  BY WalkBodies
<1>2. first \in -MAX_JUMP .. first /\ 0 \in Int
  BY ConstantsAssumption
<1> QED
  BY <1>1, <1>2, WalksFind

------------------------------------------------------------------------------
(* How many blocks a step calls where LimitHolds.                          *)

Limit == PARAM_NUM_HBLKS_PER_STEP

\* A walk that has covered that many slots calls at most one block more than it
\* still may cover.
Short(r, covered) ==
  Len(r.blocks) <= 1 \/ Len(r.blocks) + covered <= Limit + 1

\* Once the limit is reached, the next block in use is the last one.
LEMMA LimitReached ==
  ASSUME NEW key \in Nat, NEW w, NEW j \in Nat, NEW c \in Int, c >= Limit,
         Slot(key * BOTTOM_SZ + j) = IsHeader, ~BlockAt(key * BOTTOM_SZ + j).free
  PROVE  Len(WalkBody(w, key, Limit, j, c).blocks) = 1
<1>1. IsHeader # 0
  BY ConstantsAssumption DEF IsHeader
<1>2. WalkBody(w, key, Limit, j, c) = [j |-> j - 1, blocks |-> <<BlockAt(key * BOTTOM_SZ + j)>>]
  BY <1>1 DEF WalkBody
<1> QED
  BY <1>2

\* A jump from inside a block ends inside it, no longer than before, or at its header.
LEMMA JumpEnds ==
  ASSUME heap \in Heaps, NEW x \in Nat, NEW s, s = Slot(x), s # 0, s # IsHeader
  PROVE  /\ s \in 1 .. MAX_JUMP
         /\ \/ SlotValue(x - s) \in 1 .. s
            \/ /\ Slot(x - s) = IsHeader /\ x - s \in Nat
               /\ BlockAt(x - s) \in Used(heap) /\ BlockAt(x - s).sz > 1
               /\ SlotValue(x - s) = BlockAt(x - s).hdr
<1>1. MAX_JUMP \in Nat \ {0} /\ IsHeader \in Nat /\ IsHeader > MAX_JUMP
  BY ConstantsAssumption DEF IsHeader
<1>2. ~(\E b \in heap : b.at = x) /\ \E b \in Used(heap) : x \in Inside(b)
  BY DEF Slot
<1>3. PICK b \in Used(heap) : x \in Inside(b)
  BY <1>2
<1>4. b \in heap /\ b.at \in Nat /\ b.sz \in Nat \ {0} /\ b.at + 1 <= x /\ x <= b.at + b.sz - 1
  BY <1>3, HeapBlocks DEF Used, Inside
<1>5. ASSUME NEW y \in Nat, y \in Inside(b), \A c \in heap : c.at # y
      PROVE  /\ Slot(y) \in 1 .. MAX_JUMP /\ Slot(y) <= y - b.at
             /\ Slot(y) = y - b.at \/ Slot(y) = MAX_JUMP
  <2> DEFINE S == {y - c.at : c \in {d \in Used(heap) : y \in Inside(d)}} \cup {MAX_JUMP}
  <2>1. b.at + 1 <= y
    BY <1>4, <1>5 DEF Inside
  <2>2. S = {y - b.at, MAX_JUMP}
    <3>1. \A d \in Used(heap) : y \in Inside(d) => d = b
      BY <1>4, <1>5, OneBlockInside DEF Used
    <3> QED BY <1>3, <1>5, <3>1
  <2>3. Slot(y) = Min(S)
    BY <1>3, <1>5 DEF Slot
  <2> HIDE DEF S
  <2>4. Min(S) \in S /\ \A z \in S : Min(S) <= z
    <3>1. \E m \in S : \A z \in S : m <= z
      <4>1. CASE y - b.at <= MAX_JUMP
        BY <4>1, <1>1, <1>4, <2>2
      <4>2. CASE ~(y - b.at <= MAX_JUMP)
        BY <4>2, <1>1, <1>4, <2>2
      <4> QED BY <4>1, <4>2
    <3> QED BY <3>1 DEF Min
  <2> QED BY <1>1, <1>4, <2>1, <2>2, <2>3, <2>4
<1>6. s \in 1 .. MAX_JUMP /\ s <= x - b.at /\ (s = x - b.at \/ s = MAX_JUMP)
  BY <1>2, <1>3, <1>5
<1>7. x - s \in Nat
  BY <1>4, <1>6
<1>8. CASE x - s = b.at
  <2>1. Slot(x - s) = IsHeader /\ BlockAt(x - s) = b
    BY <1>4, <1>7, <1>8, HeaderSlot
  <2>2. b.sz > 1
    BY <1>4
  <2> QED BY <1>3, <1>6, <1>7, <2>1, <2>2 DEF SlotValue
<1>9. CASE x - s # b.at
  <2>1. s = MAX_JUMP /\ x - s \in Inside(b)
    BY <1>4, <1>6, <1>9 DEF Inside
  <2>2. \A c \in heap : c.at # x - s
    <3> SUFFICES ASSUME NEW c \in heap, c.at = x - s PROVE FALSE
      OBVIOUS
    <3>1. c = b \/ c.at \notin b.at .. b.at + b.sz - 1
      BY <1>4, HeapBlocks
    <3> QED BY <1>4, <1>6, <1>9, <3>1
  <2>3. Slot(x - s) \in 1 .. MAX_JUMP
    BY <1>5, <1>7, <2>1, <2>2
  <2>4. SlotValue(x - s) = Slot(x - s)
    BY <1>1, <2>3 DEF SlotValue
  <2> QED BY <1>6, <2>1, <2>3, <2>4
<1> QED
  BY <1>8, <1>9

\* So a walk is short if the walks further down are.
LEMMA ShortStep ==
  ASSUME heap \in Heaps, LimitHolds(heap), NEW key \in Nat, NEW first \in 0 .. BOTTOM_SZ - 1,
         NEW w, Bodies(w, key, Limit, first), NEW n \in 0 .. first,
         \A i \in -MAX_JUMP .. n - 1 : \A c \in 0 .. first - i : Short(w[i][c], c),
         NEW covered \in 0 .. first - n
  PROVE  Short(w[n][covered], covered)
<1> DEFINE x == key * BOTTOM_SZ + n
           s == Slot(x)
           r == w[n][covered]
           down == w[n - 1][ToInt(covered + 1)]
<1>1. /\ BOTTOM_SZ \in Nat \ {0} /\ MAX_JUMP \in Nat \ {0} /\ INT_MAX \in Nat /\ INT_MAX >= BOTTOM_SZ
      /\ Limit \in Nat /\ Limit >= 1
  BY ConstantsAssumption DEF Limit
<1>2. /\ x \in Nat /\ n \in Nat /\ first \in Nat /\ covered \in Nat /\ covered <= first - n
      /\ first < BOTTOM_SZ
      /\ n \in -MAX_JUMP .. first /\ n - 1 \in -MAX_JUMP .. n - 1 /\ n - 1 \in -MAX_JUMP .. first
      /\ key * BOTTOM_SZ \in Nat
  BY <1>1
<1>3. r = WalkBody(w, key, Limit, n, covered)
  BY <1>2 DEF Bodies
<1>4. ASSUME NEW j \in -MAX_JUMP .. first, NEW c \in Int
      PROVE  /\ w[j][c] = WalkBody(w, key, Limit, j, c)
             /\ Finds(w[j][c], key, j) /\ w[j][c].blocks \in Seq(Used(heap))
             /\ Len(w[j][c].blocks) \in Nat
  <2>1. w[j][c] = WalkBody(w, key, Limit, j, c)
    BY DEF Bodies
  <2>2. Finds(w[j][c], key, j)
    BY <1>1, <1>2, WalksFind
  <2> QED BY <2>1, <2>2 DEF Finds
<1>5. ToInt(covered + 1) = covered + 1 /\ covered + 1 \in 0 .. first - (n - 1) /\ covered + 1 \in Int
  <2>1. covered + 1 \in 0 .. INT_MAX /\ covered + 1 \in 0 .. first - (n - 1)
    BY <1>1, <1>2
  <2> QED BY <2>1, IntKept
<1>6. /\ Short(down, covered + 1) /\ Len(down.blocks) \in Nat /\ Finds(down, key, n - 1)
  BY <1>2, <1>4, <1>5
<1>7. CASE s = 0
  <2>1. r = w[n - 1][covered]
    BY <1>2, <1>3, <1>7 DEF WalkBody
  <2>2. covered \in 0 .. first - (n - 1)
    BY <1>2
  <2> QED BY <1>2, <2>1, <2>2
<1>8. CASE s # 0 /\ s # IsHeader
  <2> DEFINE v == SlotValue(x - s)
             i == n - s
             c == ToInt(covered + v)
  <2>1. r = w[i][c]
    BY <1>2, <1>3, <1>8 DEF WalkBody
  <2>2. /\ s \in 1 .. MAX_JUMP
        /\ \/ v \in 1 .. s
           \/ /\ Slot(x - s) = IsHeader /\ x - s \in Nat
              /\ BlockAt(x - s) \in Used(heap) /\ BlockAt(x - s).sz > 1
              /\ v = BlockAt(x - s).hdr
    BY <1>2, <1>8, JumpEnds
  <2>3. i \in -MAX_JUMP .. n - 1 /\ i \in -MAX_JUMP .. first /\ i \in Int
        /\ x - s = key * BOTTOM_SZ + i /\ x - s \in Int
    BY <1>1, <1>2, <2>2
  <2>4. v \in Int
    BY <2>3, SlotNumber
  <2>5. c \in Int
    BY <1>2, <2>4, IntType
  <2>6. CASE i < 0
    <3>1. w[i][c] = WalkBody(w, key, Limit, i, c)
      BY <1>4, <2>3, <2>5
    <3> HIDE DEF i, c
    <3>2. w[i][c] = [j |-> i, blocks |-> <<>>]
      BY <1>1, <2>3, <2>6, <3>1, BeforeFirst
    <3>3. Len(r.blocks) = 0
      BY <2>1, <3>2
    <3> QED BY <3>3 DEF Short
  <2>7. CASE i >= 0 /\ v \in 1 .. s
    <3>1. covered + v \in 0 .. INT_MAX /\ covered + v \in 0 .. first - i
      BY <1>1, <1>2, <2>2, <2>7
    <3>2. c = covered + v
      BY <3>1, IntKept
    <3>3. Short(w[i][c], covered + v) /\ Len(w[i][c].blocks) \in Nat
      BY <1>4, <2>3, <2>5, <3>1, <3>2
    <3> HIDE DEF i, c, v
    <3>4. Len(r.blocks) \in Nat /\ (Len(r.blocks) <= 1 \/ Len(r.blocks) + (covered + v) <= Limit + 1)
      BY <2>1, <3>3 DEF Short
    <3>5. v \in Nat /\ v >= 1 /\ covered \in Nat /\ Limit \in Nat
      BY <1>1, <1>2, <2>2, <2>7
    <3>6. Len(r.blocks) <= 1 \/ Len(r.blocks) + covered <= Limit + 1
      <4> DEFINE l == Len(r.blocks)
                 lim == Limit
      <4>1. /\ l \in Nat /\ lim \in Nat /\ v \in Nat /\ v >= 1 /\ covered \in Nat
            /\ (l <= 1 \/ l + (covered + v) <= lim + 1)
        BY <3>4, <3>5
      <4> HIDE DEF l, lim
      <4>2. l <= 1 \/ l + covered <= lim + 1
        BY <4>1
      <4> QED BY <4>2 DEF l, lim
    <3> QED BY <3>6 DEF Short
  <2>8. CASE i >= 0 /\ v \notin 1 .. s
    <3> DEFINE b == BlockAt(x - s)
    <3>1. Slot(x - s) = IsHeader /\ b \in Used(heap) /\ b.sz > 1 /\ v = b.hdr
      BY <2>2, <2>8
    <3>2. v \in Limit .. INT_MAX - BOTTOM_SZ
      BY <3>1 DEF LimitHolds, Limit
    <3>3. covered + v \in 0 .. INT_MAX /\ covered + v >= Limit
      BY <1>1, <1>2, <3>2
    <3>4. c = covered + v /\ c >= Limit
      BY <3>3, IntKept
    <3>5. i \in Nat /\ ~b.free
      BY <2>3, <2>8, <3>1 DEF Used
    <3>6. Len(WalkBody(w, key, Limit, i, c).blocks) = 1
      <4>1. Slot(key * BOTTOM_SZ + i) = IsHeader /\ ~BlockAt(key * BOTTOM_SZ + i).free
        BY <2>3, <3>1, <3>5
      <4> HIDE DEF i, c, b
      <4> QED BY <2>5, <3>4, <3>5, <4>1, LimitReached
    <3>7. w[i][c] = WalkBody(w, key, Limit, i, c)
      BY <1>4, <2>3, <2>5
    <3> HIDE DEF i, c, b
    <3>8. Len(r.blocks) = 1
      BY <2>1, <3>6, <3>7
    <3> QED BY <3>8 DEF Short
  <2> HIDE DEF v, i, c
  <2> QED BY <2>3, <2>6, <2>7, <2>8
<1>9. CASE s = IsHeader /\ s # 0
  <2> DEFINE b == BlockAt(x)
  <2>1. CASE b.free
    <3>1. r = down
      BY <1>2, <1>3, <1>9, <2>1 DEF WalkBody
    <3> HIDE DEF r, down
    <3>2. Len(r.blocks) <= 1 \/ Len(r.blocks) + (covered + 1) <= Limit + 1
      BY <1>6, <3>1 DEF Short
    <3>3. Len(r.blocks) <= 1 \/ Len(r.blocks) + covered <= Limit + 1
      <4> DEFINE l == Len(r.blocks)
                 lim == Limit
      <4>1. /\ l \in Nat /\ lim \in Nat /\ covered \in Nat
            /\ (l <= 1 \/ l + (covered + 1) <= lim + 1)
        BY <1>1, <1>2, <1>6, <3>1, <3>2
      <4> HIDE DEF l, lim
      <4>2. l <= 1 \/ l + covered <= lim + 1
        BY <4>1
      <4> QED BY <4>2 DEF l, lim
    <3> QED BY <3>3 DEF Short, r
  <2>2. CASE ~b.free /\ covered >= Limit
    <3>1. Len(WalkBody(w, key, Limit, n, covered).blocks) = 1
      BY <1>2, <1>9, <2>2, LimitReached
    <3> HIDE DEF r
    <3> QED BY <1>3, <3>1 DEF Short, r
  <2>3. CASE ~b.free /\ ~(covered >= Limit)
    <3>1. r = [down EXCEPT !.blocks = <<b>> \o @]
      BY <1>2, <1>3, <1>9, <2>3 DEF WalkBody
    <3>2. b \in Used(heap) /\ \A d \in heap : d.at = key * BOTTOM_SZ + n => d = b
      BY <1>2, <1>9, <2>3, Slots DEF Used
    <3> HIDE DEF b, r, down, s
    <3>3. Len(r.blocks) = Len(down.blocks) + 1
      BY <1>2, <1>6, <3>1, <3>2, FindsMore
    <3>4. Len(down.blocks) <= 1 \/ Len(down.blocks) + (covered + 1) <= Limit + 1
      BY <1>6 DEF Short
    <3>5. Len(r.blocks) <= 1 \/ Len(r.blocks) + covered <= Limit + 1
      <4> DEFINE l == Len(r.blocks)
                 m == Len(down.blocks)
                 lim == Limit
      <4>1. m \in Nat /\ l = m + 1 /\ (m <= 1 \/ m + (covered + 1) <= lim + 1)
        BY <1>6, <3>3, <3>4
      <4> HIDE DEF l, m
      <4>2. lim \in Nat /\ covered \in Nat /\ covered < lim
        BY <1>1, <1>2, <2>3
      <4> HIDE DEF lim
      <4>3. l <= 1 \/ l + covered <= lim + 1
        BY <4>1, <4>2
      <4> QED BY <4>3 DEF l, lim
    <3> QED BY <3>5 DEF Short, r
  <2> QED BY <2>1, <2>2, <2>3
<1> QED
  BY <1>7, <1>8, <1>9

\* A step calls at most one block more than the limit.
LEMMA StepIsShort ==
  ASSUME heap \in Heaps, LimitHolds(heap), NEW key \in Nat, NEW first \in 0 .. BOTTOM_SZ - 1
  PROVE  Len(HINTGC_process_index_step(key, first).blocks) <= PARAM_NUM_HBLKS_PER_STEP + 1
<1>1. Limit \in Nat /\ Limit >= 1 /\ MAX_JUMP \in Nat \ {0} /\ first \in Nat
  BY ConstantsAssumption DEF Limit
<1>2. PICK w : Walk(key, first, Limit) = w[first][0] /\ Bodies(w, key, Limit, first)
  BY <1>1, WalkBodies
<1> DEFINE Def(n) == \A j \in -MAX_JUMP .. first : j <= n - 1 =>
                       \A c \in 0 .. first - j : Short(w[j][c], c)
           T == {n \in Nat : Def(n)}
<1>3. 0 \in T
  <2>1. ASSUME NEW j \in -MAX_JUMP .. first, j <= 0 - 1, NEW c \in 0 .. first - j
        PROVE  Short(w[j][c], c)
    <3>1. c \in Int /\ j < 0 /\ j \in Int
      BY <1>1, <2>1
    <3>2. w[j][c] = WalkBody(w, key, Limit, j, c)
      BY <1>2, <3>1 DEF Bodies
    <3>3. w[j][c] = [j |-> j, blocks |-> <<>>]
      BY <1>1, <3>1, <3>2, BeforeFirst
    <3>4. Len(w[j][c].blocks) = 0
      BY <3>3
    <3> QED BY <3>4 DEF Short
  <2> QED BY <2>1
<1>4. ASSUME NEW n \in Nat, n \in T PROVE n + 1 \in T
  <2>1. ASSUME NEW j \in -MAX_JUMP .. first, j <= (n + 1) - 1, NEW c \in 0 .. first - j
        PROVE  Short(w[j][c], c)
    <3>1. CASE j <= n - 1
      BY <1>4, <3>1
    <3>2. CASE j = n
      <4>1. \A i \in -MAX_JUMP .. n - 1 : \A d \in 0 .. first - i : Short(w[i][d], d)
        BY <1>1, <1>4, <3>2
      <4>2. n \in 0 .. first /\ c \in 0 .. first - n
        BY <3>2
      <4>3. Short(w[n][c], c)
        BY <1>2, <4>1, <4>2, ShortStep
      <4> QED BY <3>2, <4>3
    <3> QED BY <1>1, <2>1, <3>1, <3>2
  <2> QED BY <2>1
<1>5. Nat \subseteq T
  <2> HIDE DEF T
  <2> QED BY <1>3, <1>4, NatSet
<1>6. Def(first + 1)
  <2> HIDE DEF Def
  <2> QED BY <1>1, <1>5
<1>7. Short(w[first][0], 0)
  <2>1. first \in -MAX_JUMP .. first /\ first <= (first + 1) - 1 /\ 0 \in 0 .. first - first
    BY <1>1
  <2> QED BY <1>6, <2>1
<1>8. Finds(w[first][0], key, first)
  BY <1>1, <1>2, WalkFinds
<1>9. Len(w[first][0].blocks) \in Nat
  BY <1>8 DEF Finds
<1>10. Len(Walk(key, first, Limit).blocks) <= Limit + 1
  BY <1>1, <1>2, <1>7, <1>9 DEF Short
<1> QED
  BY <1>10 DEF HINTGC_process_index_step, Limit

------------------------------------------------------------------------------
(* What a step pushes.                                                     *)

Elements(s) == {s[i] : i \in DOMAIN s}

\* The elements of joined sequences.
LEMMA ElementsJoined ==
  ASSUME NEW S, NEW p \in Seq(S), NEW q \in Seq(S)
  PROVE  Elements(p \o q) = Elements(p) \cup Elements(q)
<1>1. /\ DOMAIN p = 1 .. Len(p) /\ DOMAIN q = 1 .. Len(q) /\ Len(p) \in Nat /\ Len(q) \in Nat
      /\ DOMAIN (p \o q) = 1 .. Len(p) + Len(q)
  <2>1. p \o q \in Seq(S) /\ Len(p \o q) = Len(p) + Len(q)
    OBVIOUS
  <2> QED BY <2>1
<1>2. ASSUME NEW i \in 1 .. Len(p) + Len(q) PROVE (p \o q)[i] \in Elements(p) \cup Elements(q)
  <2>1. CASE i <= Len(p)
    BY <1>1, <2>1 DEF Elements
  <2>2. CASE ~(i <= Len(p))
    <3>1. PICK k \in 1 .. Len(q) : i = Len(p) + k
      <4>1. i - Len(p) \in 1 .. Len(q) /\ i = Len(p) + (i - Len(p))
        BY <1>1, <2>2
      <4> QED BY <4>1
    <3> QED BY <1>1, <3>1, Joined DEF Elements
  <2> QED BY <2>1, <2>2
<1>3. ASSUME NEW i \in 1 .. Len(p) PROVE p[i] \in Elements(p \o q)
  <2>1. i \in 1 .. Len(p) + Len(q) /\ (p \o q)[i] = p[i]
    BY <1>1
  <2> QED BY <1>1, <2>1 DEF Elements
<1>4. ASSUME NEW i \in 1 .. Len(q) PROVE q[i] \in Elements(p \o q)
  <2>1. Len(p) + i \in 1 .. Len(p) + Len(q) /\ (p \o q)[Len(p) + i] = q[i]
    BY <1>1, Joined
  <2> QED BY <1>1, <2>1 DEF Elements
<1> QED
  BY <1>1, <1>2, <1>3, <1>4 DEF Elements

\* The ranges of one block.
RangesIn(b) == [k \in 1 .. RangesOf(b) |-> RangeEntry(b, k)]

LEMMA BlockPushes ==
  ASSUME heap \in Heaps, NEW b \in Used(heap)
  PROVE  /\ RangesIn(b) \in Seq(Ranges) /\ Len(RangesIn(b)) = RangesOf(b) /\ RangesOf(b) \in Nat
         /\ Elements(RangesIn(b)) = RangesPushed(b)
         /\ LOCAL_MARK_STACK_SIZE - MAX_STEAL \in Nat
         /\ (PARAM_NUM_HBLKS_PER_STEP + 1) * RangesOf(b) <= LOCAL_MARK_STACK_SIZE - MAX_STEAL
<1>1. b \in heap /\ b.ranges \in Nat
      /\ LOCAL_MARK_STACK_SIZE >= MAX_STEAL + (PARAM_NUM_HBLKS_PER_STEP + 1) * b.ranges
  BY HeapBlocks DEF Used
<1>2. LOCAL_MARK_STACK_SIZE \in Nat /\ MAX_STEAL \in Nat /\ PARAM_NUM_HBLKS_PER_STEP \in Nat
      /\ LOCAL_MARK_STACK_SIZE >= MAX_STEAL
  BY ConstantsAssumption
<1>3. RangesOf(b) \in Nat
  BY <1>1 DEF RangesOf
<1>4. (PARAM_NUM_HBLKS_PER_STEP + 1) * RangesOf(b) <= LOCAL_MARK_STACK_SIZE - MAX_STEAL
  <2>1. CASE RangesOf(b) = 0
    BY <1>2, <2>1
  <2>2. CASE RangesOf(b) = b.ranges
    <3> DEFINE l == (PARAM_NUM_HBLKS_PER_STEP + 1) * b.ranges
    <3>1. l \in Nat /\ LOCAL_MARK_STACK_SIZE >= MAX_STEAL + l
      BY <1>1, <1>2
    <3> HIDE DEF l
    <3>2. l <= LOCAL_MARK_STACK_SIZE - MAX_STEAL
      BY <1>2, <3>1
    <3> QED BY <2>2, <3>2 DEF l
  <2> QED BY <2>1, <2>2 DEF RangesOf
<1>5. RangesPushed(b) \subseteq Ranges
  BY DEF Ranges
<1>6. RangesIn(b) \in Seq(Ranges) /\ Len(RangesIn(b)) = RangesOf(b)
  <2>1. RangesIn(b) \in [1 .. RangesOf(b) -> Ranges]
    BY <1>5 DEF RangesIn, RangesPushed
  <2> QED BY <1>3, <2>1
<1>7. Elements(RangesIn(b)) = RangesPushed(b)
  BY DEF Elements, RangesIn, RangesPushed
<1>8. LOCAL_MARK_STACK_SIZE - MAX_STEAL \in Nat
  BY <1>2
<1> QED
  BY <1>3, <1>4, <1>6, <1>7, <1>8

After(a, blocks, m) ==
  a = [n \in 0 .. m |-> IF n = 0 THEN <<>>
                        ELSE a[n - 1] \o [k \in 1 .. RangesOf(blocks[n]) |-> RangeEntry(blocks[n], k)]]

\* Pushed takes the function it chooses.
LEMMA PushedIsChosen ==
  ASSUME NEW blocks
  PROVE  \E a : /\ a = (CHOOSE v : After(v, blocks, Len(blocks)))
                /\ Pushed(blocks) = a[Len(blocks)]
BY Zenon DEF Pushed, After

\* There is a function to choose.
LEMMA AfterExists ==
  ASSUME NEW blocks, NEW m \in Nat
  PROVE  \E a : After(a, blocks, m)
<1> DEFINE Body(a, n) == IF n = 0 THEN <<>> ELSE a[n - 1] \o RangesIn(blocks[n])
           Def(n) == \E a : a = [i \in 0 .. n |-> Body(a, i)]
           T == {n \in Nat : Def(n)}
<1>1. 0 \in T
  <2> DEFINE a == [i \in 0 .. 0 |-> <<>>]
  <2>1. a = [i \in 0 .. 0 |-> Body(a, i)]
    <3>1. \A v : \A i \in 0 .. 0 : Body(v, i) = <<>>
      OBVIOUS
    <3> HIDE DEF Body
    <3> QED BY <3>1
  <2> HIDE DEF a, Body
  <2> QED BY <2>1
<1>2. ASSUME NEW n \in Nat, n \in T PROVE n + 1 \in T
  <2>1. PICK a : a = [i \in 0 .. n |-> Body(a, i)]
    BY <1>2
  <2> DEFINE v == [i \in 0 .. n + 1 |-> IF i = n + 1 THEN Body(a, n + 1) ELSE a[i]]
  <2>2. \A i \in 0 .. n : v[i] = a[i]
    OBVIOUS
  <2>3. \A i \in 0 .. n + 1 : v[i] = Body(a, i)
    <3>1. \A i \in 0 .. n : a[i] = Body(a, i)
      <4> HIDE DEF Body
      <4> QED BY <2>1
    <3>2. n + 1 \in 0 .. n + 1 /\ \A i \in 0 .. n + 1 : i = n + 1 \/ i \in 0 .. n
      OBVIOUS
    <3> HIDE DEF Body
    <3> QED BY <3>1, <3>2
  <2>4. \A i \in 0 .. n + 1 : Body(a, i) = Body(v, i)
    <3> SUFFICES ASSUME NEW i \in 0 .. n + 1 PROVE Body(a, i) = Body(v, i)
      OBVIOUS
    <3>1. CASE i = 0
      BY <3>1
    <3>2. CASE i # 0
      <4>1. i - 1 \in 0 .. n
        BY <3>2
      <4>2. v[i - 1] = a[i - 1]
        <5> HIDE DEF v
        <5> QED BY <2>2, <4>1
      <4> HIDE DEF v
      <4> QED BY <4>2
    <3> QED BY <3>1, <3>2
  <2>5. v = [i \in 0 .. n + 1 |-> v[i]]
    OBVIOUS
  <2> HIDE DEF v, Body
  <2>6. v = [i \in 0 .. n + 1 |-> Body(v, i)]
    BY <2>3, <2>4, <2>5
  <2> QED BY <2>6
<1> HIDE DEF Def
<1>3. Nat \subseteq T
  <2> HIDE DEF T
  <2> QED BY <1>1, <1>2, NatSet
<1>4. Def(m)
  BY <1>3
<1> QED
  BY <1>4, Zenon DEF Def, Body, After, RangesIn

\* A step that calls blocks pushes their ranges and nothing else, and not too many.
Pushes(blocks, n, s) ==
  /\ s \in Seq(Ranges)
  /\ \A i \in 1 .. n : RangesPushed(blocks[i]) \subseteq Elements(s)
  /\ (PARAM_NUM_HBLKS_PER_STEP + 1) * Len(s) <= n * (LOCAL_MARK_STACK_SIZE - MAX_STEAL)

LEMMA OneMore ==
  ASSUME heap \in Heaps, NEW blocks \in Seq(Used(heap)), NEW n \in 1 .. Len(blocks),
         NEW s, Pushes(blocks, n - 1, s)
  PROVE  Pushes(blocks, n, s \o RangesIn(blocks[n]))
<1> DEFINE b == blocks[n]
           t == RangesIn(b)
           d == LOCAL_MARK_STACK_SIZE - MAX_STEAL
           q == PARAM_NUM_HBLKS_PER_STEP + 1
<1>1. b \in Used(heap)
  OBVIOUS
<1>2. /\ t \in Seq(Ranges) /\ Len(t) \in Nat /\ Elements(t) = RangesPushed(b)
      /\ d \in Nat /\ q * Len(t) <= d
  BY <1>1, BlockPushes
<1>3. s \in Seq(Ranges) /\ Len(s) \in Nat /\ q * Len(s) <= (n - 1) * d
  BY DEF Pushes
<1>4. q \in Nat
  BY ConstantsAssumption
<1>5. s \o t \in Seq(Ranges) /\ Len(s \o t) = Len(s) + Len(t)
      /\ Elements(s \o t) = Elements(s) \cup Elements(t)
  <2>1. PICK S : S = Ranges
    OBVIOUS
  <2>2. s \in Seq(S) /\ t \in Seq(S)
    BY <1>2, <1>3, <2>1
  <2> HIDE DEF t
  <2>3. Elements(s \o t) = Elements(s) \cup Elements(t)
    BY <2>2, ElementsJoined
  <2>4. s \o t \in Seq(S) /\ Len(s \o t) = Len(s) + Len(t)
    BY <2>2
  <2> QED BY <2>1, <2>3, <2>4
<1>6. \A i \in 1 .. n : RangesPushed(blocks[i]) \subseteq Elements(s \o t)
  <2>1. \A i \in 1 .. n : i = n \/ i \in 1 .. n - 1
    OBVIOUS
  <2>2. \A i \in 1 .. n - 1 : RangesPushed(blocks[i]) \subseteq Elements(s)
    BY DEF Pushes
  <2>3. RangesPushed(blocks[n]) = Elements(t)
    BY <1>2
  <2> HIDE DEF t
  <2> QED BY <1>5, <2>1, <2>2, <2>3
<1>7. q * Len(s \o t) <= n * d
  <2> DEFINE x == Len(s)
             y == Len(t)
  <2>1. x \in Nat /\ y \in Nat /\ q * x <= (n - 1) * d /\ q * y <= d /\ Len(s \o t) = x + y
    BY <1>2, <1>3, <1>5
  <2> HIDE DEF x, y, d, q
  <2>2. q * (x + y) = q * x + q * y /\ (n - 1) * d = n * d - d
        /\ q * x \in Nat /\ q * y \in Nat /\ n * d \in Nat /\ d \in Nat
    BY <1>2, <1>4, <2>1
  <2> DEFINE u == q * x
             v == q * y
             z == n * d
  <2>3. u + v <= z
    <3>1. u \in Nat /\ v \in Nat /\ z \in Nat /\ d \in Nat /\ u <= z - d /\ v <= d
      BY <2>1, <2>2
    <3> HIDE DEF u, v, z
    <3> QED BY <3>1
  <2> QED BY <2>1, <2>2, <2>3
<1> QED
  BY <1>5, <1>6, <1>7 DEF Pushes

LEMMA PushedIsRight ==
  ASSUME heap \in Heaps, NEW blocks \in Seq(Used(heap))
  PROVE  Pushes(blocks, Len(blocks), Pushed(blocks))
<1> DEFINE N == Len(blocks)
<1>0. N \in Nat
  OBVIOUS
<1>1. PICK a : a = (CHOOSE v : After(v, blocks, N)) /\ Pushed(blocks) = a[N]
  BY PushedIsChosen
<1>2. After(a, blocks, N)
  BY <1>0, <1>1, AfterExists
<1>3. a[0] = <<>> /\ \A n \in 1 .. N : a[n] = a[n - 1] \o RangesIn(blocks[n])
  <2> DEFINE Body(n) == IF n = 0 THEN <<>> ELSE a[n - 1] \o RangesIn(blocks[n])
  <2>1. a = [n \in 0 .. N |-> Body(n)]
    BY <1>2 DEF After, RangesIn
  <2> HIDE DEF Body
  <2>2. \A n \in 0 .. N : a[n] = Body(n)
    BY <2>1
  <2>3. 0 \in 0 .. N /\ \A n \in 1 .. N : n \in 0 .. N /\ n # 0
    BY <1>0
  <2> QED BY <2>2, <2>3 DEF Body
<1> DEFINE T == {n \in Nat : n <= N => Pushes(blocks, n, a[n])}
<1>4. 0 \in T
  <2>1. (PARAM_NUM_HBLKS_PER_STEP + 1) * Len(<<>>) <= 0 * (LOCAL_MARK_STACK_SIZE - MAX_STEAL)
    BY ConstantsAssumption
  <2>2. <<>> \in Seq(Ranges) /\ \A i \in 1 .. 0 : RangesPushed(blocks[i]) \subseteq Elements(<<>>)
    OBVIOUS
  <2> QED BY <1>3, <2>1, <2>2 DEF Pushes
<1>5. ASSUME NEW n \in Nat, n \in T PROVE n + 1 \in T
  <2> SUFFICES ASSUME n + 1 <= N PROVE Pushes(blocks, n + 1, a[n + 1])
    OBVIOUS
  <2> DEFINE k == n + 1
  <2>1. k \in 1 .. N /\ k - 1 = n /\ n <= N
    BY <1>0
  <2>2. Pushes(blocks, k - 1, a[k - 1])
    BY <1>5, <2>1
  <2>3. a[k] = a[k - 1] \o RangesIn(blocks[k])
    BY <1>3, <2>1
  <2> HIDE DEF k, N
  <2>4. k \in 1 .. Len(blocks)
    BY <2>1 DEF N
  <2>5. Pushes(blocks, k, a[k])
    BY <2>2, <2>3, <2>4, OneMore
  <2> QED BY <2>5 DEF k
<1>6. Nat \subseteq T
  <2> HIDE DEF T
  <2> QED BY <1>4, <1>5, NatSet
<1> QED
  BY <1>0, <1>1, <1>6

\* What a step from slot first leaves: a place further down and, if no header
\* upsets the count of slots, no more ranges than there is room for on top of a
\* stack of at most MAX_STEAL entries.
LEMMA StepIsRight ==
  ASSUME heap \in Heaps, NEW key \in Nat, NEW first \in 0 .. BOTTOM_SZ - 1
  PROVE  LET step == HINTGC_process_index_step(key, first)
             s == Pushed(step.blocks)
         IN /\ Finds(step, key, first)
            /\ Pushes(step.blocks, Len(step.blocks), s)
            /\ s \in Seq(Ranges)
            /\ LimitHolds(heap) => Len(s) <= LOCAL_MARK_STACK_SIZE - MAX_STEAL
<1> DEFINE step == HINTGC_process_index_step(key, first)
           s == Pushed(step.blocks)
<1>1. PARAM_NUM_HBLKS_PER_STEP \in Nat /\ PARAM_NUM_HBLKS_PER_STEP >= 1 /\ first \in Nat
      /\ LOCAL_MARK_STACK_SIZE - MAX_STEAL \in Nat
  BY ConstantsAssumption
<1>2. Finds(step, key, first)
  BY <1>1, WalkFinds DEF HINTGC_process_index_step
<1>3. LimitHolds(heap) => Len(step.blocks) <= PARAM_NUM_HBLKS_PER_STEP + 1
  BY StepIsShort
<1> HIDE DEF step
<1>4. step.blocks \in Seq(Used(heap)) /\ Len(step.blocks) \in Nat
  BY <1>2 DEF Finds
<1>5. Pushes(step.blocks, Len(step.blocks), s)
  BY <1>4, PushedIsRight
<1> HIDE DEF s
<1>6. s \in Seq(Ranges) /\ Len(s) \in Nat
      /\ (PARAM_NUM_HBLKS_PER_STEP + 1) * Len(s)
           <= Len(step.blocks) * (LOCAL_MARK_STACK_SIZE - MAX_STEAL)
  BY <1>5 DEF Pushes
<1>7. ASSUME LimitHolds(heap) PROVE Len(s) <= LOCAL_MARK_STACK_SIZE - MAX_STEAL
  <2> DEFINE q == PARAM_NUM_HBLKS_PER_STEP + 1
             d == LOCAL_MARK_STACK_SIZE - MAX_STEAL
             n == Len(step.blocks)
             l == Len(s)
  <2>1. n \in Nat /\ q \in Nat \ {0} /\ l \in Nat /\ d \in Nat /\ n <= q /\ q * l <= n * d
    BY <1>1, <1>3, <1>4, <1>6, <1>7
  <2> HIDE DEF q, d, n, l
  <2>2. l <= d
    BY <2>1, Products
  <2> QED BY <2>2 DEF l, d
<1> QED
  BY <1>2, <1>5, <1>6, <1>7 DEF step, s

------------------------------------------------------------------------------
(* The invariant.                                                          *)

Entry ==
  {IndexEntry(key, j) : key \in GC_all_bottom_indices, j \in 0 .. BOTTOM_SZ - 1}
    \cup Ranges \cup {Dummy}

Types ==
  /\ heap \in Heaps /\ phase \in {1, 2} /\ stage \in {"push", "mark", "done", "abort"}
  /\ IsABag(stack) /\ BagToSet(stack) \subseteq Entry
  /\ local \in [Marker -> Seq(Entry)]
  /\ top \in 0 .. GC_mark_stack_size
  /\ stealing \in [Marker -> BOOLEAN]
  /\ called \subseteq Used(heap) /\ scanned \subseteq Ranges
  /\ GC_mark_stack_too_small \in BOOLEAN

\* A marker that steals takes at most MAX_STEAL entries; later what lies above
\* that many entries are ranges, which push nothing.
Fits(steals, s) ==
  IF steals THEN Len(s) <= MAX_STEAL
  ELSE /\ s # <<>> /\ Len(s) <= LOCAL_MARK_STACK_SIZE
       /\ \A i \in MAX_STEAL + 1 .. Len(s) : s[i].kind = "range"

Locals == \A m \in Marker : Fits(stealing[m], local[m])

\* Before and after a marking there is nothing to do.
Quiet ==
  stage \in {"push", "done"} =>
    /\ stack = EmptyBag /\ called = {} /\ scanned = {}
    /\ \A m \in Marker : local[m] = <<>>

Inv == Types /\ Locals /\ Quiet /\ NoBlockForgotten

\* Entry e will get to block b.
Coming(e, b) ==
  /\ e.kind = "index" /\ e.x = b.at \div BOTTOM_SZ
  /\ b.at % BOTTOM_SZ <= e.y

Attended(b) ==
  IF b \in called THEN RangesPushed(b) \subseteq scanned \cup Entries
  ELSE \E e \in Entries : Coming(e, b)

------------------------------------------------------------------------------
(* Entries and stacks.                                                     *)

\* The kinds of entries.
LEMMA Kinds ==
  ASSUME heap \in Heaps
  PROVE  /\ \A r \in Ranges : r.kind = "range" /\ r \in Entry
         /\ \A e \in Entry : e.kind = "range" => e \in Ranges
         /\ \A e \in Entry : e.kind = "index" =>
              e.x \in GC_all_bottom_indices /\ e.x \in Nat /\ e.y \in 0 .. BOTTOM_SZ - 1
         /\ Dummy \in Entry /\ Dummy.kind = "dummy"
         /\ \A key \in GC_all_bottom_indices, j \in 0 .. BOTTOM_SZ - 1 :
              IndexEntry(key, j) \in Entry /\ IndexEntry(key, j).kind = "index"
              /\ IndexEntry(key, j).x = key /\ IndexEntry(key, j).y = j
<1>1. \A r \in Ranges : r.kind = "range" /\ r \in Entry
  BY DEF Ranges, RangesPushed, RangeEntry, Entry
<1>2. GC_all_bottom_indices \subseteq Nat
  BY Indices
<1> DEFINE Keys == GC_all_bottom_indices
<1> HIDE DEF Keys
<1>3. ASSUME NEW e \in Entry
      PROVE  \/ e \in Ranges
             \/ e = Dummy
             \/ \E key \in Keys, j \in 0 .. BOTTOM_SZ - 1 : e = IndexEntry(key, j)
  BY DEF Entry, Keys
<1>4. \A e \in Entry : e.kind = "range" => e \in Ranges
  BY <1>3 DEF Dummy, IndexEntry
<1>5. \A e \in Entry : e.kind = "index" =>
        e.x \in Keys /\ e.y \in 0 .. BOTTOM_SZ - 1
  BY <1>1, <1>3 DEF Dummy, IndexEntry
<1>6. Dummy \in Entry /\ Dummy.kind = "dummy"
  BY DEF Entry, Dummy
<1>7. \A key \in Keys, j \in 0 .. BOTTOM_SZ - 1 :
        IndexEntry(key, j) \in Entry /\ IndexEntry(key, j).kind = "index"
        /\ IndexEntry(key, j).x = key /\ IndexEntry(key, j).y = j
  BY DEF Entry, IndexEntry, Keys
<1> QED
  BY <1>1, <1>2, <1>4, <1>5, <1>6, <1>7 DEF Keys

\* While the blocks and the phase stay, so do the entries there may be.
LEMMA Frozen ==
  ASSUME heap' = heap, phase' = phase
  PROVE  /\ Entry' = Entry /\ Ranges' = Ranges /\ Used(heap)' = Used(heap)
         /\ \A b : RangesPushed(b)' = RangesPushed(b)
<1>1. \A b : RangesOf(b)' = RangesOf(b)
  BY DEF RangesOf
<1>2. \A b : RangesPushed(b)' = RangesPushed(b)
  BY <1>1 DEF RangesPushed
<1>3. Used(heap)' = Used(heap)
  BY DEF Used
<1>4. Ranges' = Ranges
  BY <1>2, <1>3 DEF Ranges
<1>5. \A x : Slot(x)' = Slot(x)
  BY DEF Slot, Used
<1>6. GC_all_bottom_indices' = GC_all_bottom_indices
  BY <1>5 DEF GC_all_bottom_indices, Addresses
<1>7. Entry' = Entry
  BY <1>4, <1>6 DEF Entry
<1> QED
  BY <1>2, <1>3, <1>4, <1>7

\* A sequence is its last element and what is below it.
LEMMA LastAndRest ==
  ASSUME NEW S, NEW s \in Seq(S), s # <<>>
  PROVE  LET t == SubSeq(s, 1, Len(s) - 1)
         IN /\ s[Len(s)] \in S /\ Len(s) \in Nat \ {0}
            /\ t \in Seq(S) /\ Len(t) = Len(s) - 1
            /\ \A i \in 1 .. Len(t) : t[i] = s[i]
            /\ Elements(s) = Elements(t) \cup {s[Len(s)]}
<1> DEFINE n == Len(s)
           t == SubSeq(s, 1, n - 1)
<1>1. n \in Nat \ {0} /\ s[n] \in S /\ DOMAIN s = 1 .. n
  OBVIOUS
<1>2. /\ 1 \in 1 .. n + 1 /\ n - 1 \in 0 .. n /\ 1 <= (n - 1) + 1 /\ (n - 1) - 1 + 1 = n - 1
      /\ n \in 1 .. n /\ \A i \in 1 .. n - 1 : i \in 1 .. n /\ 1 + i - 1 = i
      /\ \A i \in 1 .. n : i = n \/ i \in 1 .. n - 1
  <2> HIDE DEF n
  <2> QED BY <1>1
<1>3. t \in Seq(S) /\ Len(t) = n - 1 /\ DOMAIN t = 1 .. n - 1 /\ \A i \in 1 .. n - 1 : t[i] = s[i]
  <2> DEFINE m == n - 1
  <2>1. 1 \in 1 .. Len(s) + 1 /\ m \in 0 .. Len(s) /\ 1 <= m + 1
    BY <1>2, Zenon
  <2>2. /\ SubSeq(s, 1, m) \in Seq(S) /\ Len(SubSeq(s, 1, m)) = m - 1 + 1
        /\ DOMAIN SubSeq(s, 1, m) = 1 .. m - 1 + 1
        /\ \A i \in 1 .. m - 1 + 1 : SubSeq(s, 1, m)[i] = s[1 + i - 1]
    <3> HIDE DEF m, n
    <3> QED BY <2>1, PartOf
  <2> HIDE DEF n
  <2> QED BY <1>2, <2>2
<1> HIDE DEF t, n
<1>4. Elements(s) = Elements(t) \cup {s[n]}
  BY <1>1, <1>2, <1>3 DEF Elements
<1> QED
  BY <1>1, <1>3, <1>4 DEF t, n

\* A sequence cut in two.
LEMMA Cut ==
  ASSUME NEW S, NEW s \in Seq(S), NEW n \in 0 .. Len(s) - 1
  PROVE  LET l == SubSeq(s, 1, n)
             u == SubSeq(s, n + 1, Len(s))
         IN /\ l \in Seq(S) /\ u \in Seq(S) /\ Len(l) = n /\ Len(u) = Len(s) - n
            /\ u # <<>>
            /\ \A i \in 1 .. Len(s) - n : u[i] = s[n + i]
            /\ Elements(s) \subseteq Elements(l) \cup Elements(u)
            /\ Elements(l) \subseteq Elements(s)
<1> DEFINE k == Len(s)
           l == SubSeq(s, 1, n)
           u == SubSeq(s, n + 1, k)
<1>1. k \in Nat /\ n \in Nat /\ DOMAIN s = 1 .. k /\ n + 1 <= k
  OBVIOUS
<1>2. /\ 1 \in 1 .. k + 1 /\ n \in 0 .. k /\ 1 <= n + 1 /\ n - 1 + 1 = n
      /\ n + 1 \in 1 .. k + 1 /\ k \in 0 .. k /\ n + 1 <= k + 1 /\ k - (n + 1) + 1 = k - n
      /\ \A i \in 1 .. n : 1 + i - 1 = i /\ i \in 1 .. k
      /\ \A i \in 1 .. k - n : (n + 1) + i - 1 = n + i
      /\ \A i \in 1 .. k : i \in 1 .. n \/ (i - n \in 1 .. k - n /\ n + (i - n) = i)
      /\ k - n # 0
  <2> HIDE DEF k
  <2> QED BY <1>1
<1>3. l \in Seq(S) /\ Len(l) = n /\ DOMAIN l = 1 .. n /\ \A i \in 1 .. n : l[i] = s[i]
  <2>1. 1 \in 1 .. Len(s) + 1 /\ n \in 0 .. Len(s) /\ 1 <= n + 1
    BY <1>2, Zenon
  <2>2. /\ SubSeq(s, 1, n) \in Seq(S) /\ Len(SubSeq(s, 1, n)) = n - 1 + 1
        /\ DOMAIN SubSeq(s, 1, n) = 1 .. n - 1 + 1
        /\ \A i \in 1 .. n - 1 + 1 : SubSeq(s, 1, n)[i] = s[1 + i - 1]
    BY <2>1, PartOf
  <2> HIDE DEF k
  <2> QED BY <1>2, <2>2
<1>4. u \in Seq(S) /\ Len(u) = k - n /\ DOMAIN u = 1 .. k - n /\ \A i \in 1 .. k - n : u[i] = s[n + i]
  <2> DEFINE a == n + 1
  <2>1. a \in 1 .. Len(s) + 1 /\ k \in 0 .. Len(s) /\ a <= k + 1
    BY <1>2, Zenon
  <2>2. /\ SubSeq(s, a, k) \in Seq(S) /\ Len(SubSeq(s, a, k)) = k - a + 1
        /\ DOMAIN SubSeq(s, a, k) = 1 .. k - a + 1
        /\ \A i \in 1 .. k - a + 1 : SubSeq(s, a, k)[i] = s[a + i - 1]
    <3> HIDE DEF k, a
    <3> QED BY <2>1, PartOf
  <2> HIDE DEF k
  <2> QED BY <1>2, <2>2
<1> HIDE DEF l, u, k
<1>5. u # <<>>
  BY <1>2, <1>4
<1>6. ASSUME NEW i \in 1 .. k PROVE s[i] \in Elements(l) \cup Elements(u)
  <2>1. CASE i \in 1 .. n
    BY <1>3, <2>1 DEF Elements
  <2>2. CASE i \notin 1 .. n
    <3>1. i - n \in 1 .. k - n /\ n + (i - n) = i
      BY <1>2, <2>2
    <3>2. u[i - n] = s[i]
      BY <1>4, <3>1
    <3> QED BY <1>4, <3>1, <3>2 DEF Elements
  <2> QED BY <2>1, <2>2
<1>7. Elements(l) \subseteq Elements(s)
  BY <1>1, <1>2, <1>3 DEF Elements
<1>8. Elements(s) \subseteq Elements(l) \cup Elements(u)
  BY <1>1, <1>6 DEF Elements
<1> QED
  BY <1>3, <1>4, <1>5, <1>7, <1>8 DEF l, u, k

\* The bag of the elements of a sequence.
InBag(s) == [e \in {s[i] : i \in DOMAIN s} |-> Cardinality({i \in DOMAIN s : s[i] = e})]

LEMMA SequenceBag ==
  ASSUME NEW S, NEW s \in Seq(S)
  PROVE  IsABag(InBag(s)) /\ BagToSet(InBag(s)) = Elements(s)
<1>1. DOMAIN s = 1 .. Len(s) /\ Len(s) \in Nat
  OBVIOUS
<1>2. IsFiniteSet(DOMAIN s)
  <2>1. 1 \in Int /\ Len(s) \in Int
    BY <1>1
  <2> QED BY <1>1, <2>1, FS_Interval
<1>3. ASSUME NEW e \in Elements(s)
      PROVE  Cardinality({i \in DOMAIN s : s[i] = e}) \in {n \in Nat : n > 0}
  <2> DEFINE Where == {i \in DOMAIN s : s[i] = e}
  <2>1. Where # {}
    BY DEF Elements
  <2>2. Where \subseteq DOMAIN s
    OBVIOUS
  <2> HIDE DEF Where
  <2>3. IsFiniteSet(Where)
    BY <1>2, <2>2, FS_Subset
  <2>4. Cardinality(Where) \in Nat /\ Cardinality(Where) # 0
    BY <2>1, <2>3, FS_CardinalityType, FS_EmptySet
  <2> QED BY <2>4 DEF Where
<1>4. InBag(s) = [e \in Elements(s) |-> Cardinality({i \in DOMAIN s : s[i] = e})]
  BY DEF InBag, Elements
<1>5. BagToSet(InBag(s)) = Elements(s)
  BY <1>4 DEF BagToSet
<1>6. IsABag(InBag(s))
  <2> DEFINE Count(e) == Cardinality({i \in DOMAIN s : s[i] = e})
  <2>1. \A e \in Elements(s) : Count(e) \in {n \in Nat : n > 0}
    BY <1>3
  <2>2. InBag(s) = [e \in Elements(s) |-> Count(e)]
    BY <1>4
  <2> HIDE DEF Count
  <2> QED BY <2>1, <2>2 DEF IsABag
<1> QED
  BY <1>5, <1>6

\* Adding bags and taking one element.
LEMMA BagSum ==
  ASSUME NEW B, NEW C, IsABag(B), IsABag(C)
  PROVE  IsABag(B (+) C) /\ BagToSet(B (+) C) = BagToSet(B) \cup BagToSet(C)
BY DEF IsABag, BagToSet, (+)

LEMMA BagTake ==
  ASSUME NEW B, IsABag(B), NEW e
  PROVE  /\ IsABag(B (-) SetToBag({e}))
         /\ BagToSet(B (-) SetToBag({e})) \subseteq BagToSet(B)
         /\ BagToSet(B) \subseteq BagToSet(B (-) SetToBag({e})) \cup {e}
BY DEF IsABag, BagToSet, SetToBag, (-)

LEMMA SetBag ==
  ASSUME NEW S
  PROVE  IsABag(SetToBag(S)) /\ BagToSet(SetToBag(S)) = S
BY DEF IsABag, BagToSet, SetToBag

------------------------------------------------------------------------------
(* The steps keep the invariant.                                           *)

EntriesAre == Entries = BagToSet(stack) \cup UNION {Elements(local[m]) : m \in Marker}

LEMMA EntriesOf == EntriesAre /\ EntriesAre'
BY DEF EntriesAre, Entries, Elements

\* A block stays attended to if no entry but a dummy or a range that was scanned
\* disappears, or else the loss is noted.
Keeps ==
  /\ heap' = heap /\ phase' = phase /\ stage' = stage /\ called' = called
  /\ scanned \subseteq scanned'
  /\ \/ GC_mark_stack_too_small' = TRUE
     \/ /\ GC_mark_stack_too_small' = GC_mark_stack_too_small
        /\ \A e \in Entries : \/ e \in Entries' \/ e.kind = "dummy"
                              \/ e.kind = "range" /\ e \in scanned'

LEMMA KeepsBlocks ==
  ASSUME Inv, Keeps
  PROVE  NoBlockForgotten'
<1>1. heap \in Heaps /\ Used(heap)' = Used(heap) /\ \A b : RangesPushed(b)' = RangesPushed(b)
  BY Frozen DEF Inv, Types, Keeps
<1>2. CASE GC_mark_stack_too_small' = TRUE
  BY <1>2 DEF NoBlockForgotten
<1>3. CASE stage' # "mark"
  BY <1>3 DEF NoBlockForgotten
<1>4. CASE ~(GC_mark_stack_too_small' = TRUE) /\ stage' = "mark"
  <2>1. \A b \in Used(heap) : Attended(b)
    BY <1>4 DEF Inv, Types, NoBlockForgotten, Keeps, Attended, Coming
  <2>2. \A e \in Entries : \/ e \in Entries' \/ e.kind = "dummy"
                           \/ e.kind = "range" /\ e \in scanned'
    BY <1>4 DEF Keeps
  <2>3. ASSUME NEW b \in Used(heap) PROVE Attended(b)'
    <3>1. CASE b \in called
      <4>1. RangesPushed(b) \subseteq scanned \cup Entries
        BY <2>1, <3>1 DEF Attended
      <4>2. ASSUME NEW r \in RangesPushed(b) PROVE r \in scanned' \cup Entries'
        <5>1. r.kind = "range"
          <6>1. r \in Ranges
            BY DEF Ranges
          <6> QED BY <1>1, <6>1, Kinds
        <5>2. r \in scanned \/ r \in Entries
          BY <4>1
        <5> QED BY <2>2, <5>1, <5>2 DEF Keeps
      <4>3. b \in called' /\ RangesPushed(b)' \subseteq scanned' \cup Entries'
        BY <1>1, <3>1, <4>2 DEF Keeps
      <4> QED BY <4>3 DEF Attended
    <3>2. CASE b \notin called
      <4>1. PICK e \in Entries : Coming(e, b)
        BY <2>1, <3>2 DEF Attended
      <4>2. e \in Entries' /\ Coming(e, b)
        BY <2>2, <4>1 DEF Coming
      <4>3. b \notin called'
        BY <3>2 DEF Keeps
      <4> QED BY <4>2, <4>3 DEF Attended, Coming
    <3> QED BY <3>1, <3>2
  <2> QED BY <1>1, <1>4, <2>3 DEF NoBlockForgotten, Attended, Coming
<1> QED
  BY <1>2, <1>3, <1>4, Zenon

\* A marker that is at work has entries.
LEMMA Busy ==
  ASSUME Inv, NEW m \in Marker, ~stealing[m]
  PROVE  local[m] # <<>> /\ Fits(FALSE, local[m]) /\ local[m] \in Seq(Entry)
<1>1. Fits(stealing[m], local[m]) /\ stealing[m] \in BOOLEAN /\ local[m] \in Seq(Entry)
  BY DEF Inv, Locals, Types
<1>2. local[m] # <<>> /\ Fits(FALSE, local[m])
  BY <1>1 DEF Fits
<1> QED
  BY <1>1, <1>2

\* When the stack of one marker becomes s.
Become(m, s) ==
  /\ local' \in [Marker -> Seq(Entry)] /\ stealing' \in [Marker -> BOOLEAN] /\ Locals'
  /\ heap' = heap /\ phase' = phase /\ stage' = stage /\ stage = "mark"
  /\ local'[m] = s /\ \A k \in Marker \ {m} : local'[k] = local[k]
  /\ Entry' = Entry /\ Ranges' = Ranges /\ Used(heap)' = Used(heap)

LEMMA Becoming ==
  ASSUME Inv, NEW m \in Marker, NEW s \in Seq(Entry), s = <<>> \/ Fits(FALSE, s), Becomes(m, s)
  PROVE  Become(m, s)
<1>1. /\ local \in [Marker -> Seq(Entry)] /\ stealing \in [Marker -> BOOLEAN] /\ Locals
      /\ MAX_STEAL \in Nat
  BY ConstantsAssumption DEF Inv, Types
<1>2. local' = [local EXCEPT ![m] = s] /\ heap' = heap /\ phase' = phase /\ stage' = stage
      /\ stage = "mark"
  BY DEF Becomes
<1>3. stealing' = [stealing EXCEPT ![m] = (s = <<>>)]
  BY DEF Becomes
<1>4. local' \in [Marker -> Seq(Entry)] /\ local'[m] = s
      /\ \A k \in Marker \ {m} : local'[k] = local[k]
  BY <1>1, <1>2
<1>5. stealing' \in [Marker -> BOOLEAN] /\ stealing'[m] = (s = <<>>)
      /\ \A k \in Marker \ {m} : stealing'[k] = stealing[k]
  <2> DEFINE x == s = <<>>
  <2>1. stealing' = [stealing EXCEPT ![m] = x] /\ x \in BOOLEAN
    BY <1>3
  <2> HIDE DEF x
  <2>2. stealing' \in [Marker -> BOOLEAN] /\ stealing'[m] = x
        /\ \A k \in Marker \ {m} : stealing'[k] = stealing[k]
    BY <1>1, <2>1
  <2> QED BY <2>2 DEF x
<1>6. Fits(s = <<>>, s)
  BY <1>1 DEF Fits
<1>7. \A k \in Marker : Fits(stealing'[k], local'[k])
  <2>1. \A k \in Marker \ {m} : Fits(stealing[k], local[k])
    BY <1>1 DEF Locals
  <2>2. Fits(stealing'[m], local'[m])
    BY <1>4, <1>5, <1>6, Zenon
  <2>3. ASSUME NEW k \in Marker \ {m} PROVE Fits(stealing'[k], local'[k])
    BY <1>4, <1>5, <2>1
  <2> QED BY <2>2, <2>3
<1>8. Locals'
  BY <1>7 DEF Locals, Fits
<1> QED
  BY <1>2, <1>4, <1>5, <1>8, Frozen DEF Become

\* What is left is to look at the global stack, the blocks and the ranges.
LEMMA StepKeeps ==
  ASSUME Inv, NEW m \in Marker, ~stealing[m], NEW s, Become(m, s),
         IsABag(stack'), BagToSet(stack') \subseteq Entry, top' \in 0 .. GC_mark_stack_size,
         called' \subseteq Used(heap), scanned' \subseteq Ranges,
         GC_mark_stack_too_small' \in BOOLEAN, NoBlockForgotten'
  PROVE  Inv'
<1>1. Types'
  BY DEF Types, Inv, Become
<1>2. stage' = "mark"
  BY DEF Become
<1> QED
  BY <1>1, <1>2 DEF Inv, Become, Quiet

\* The entries after a step of one marker.
LEMMA EntriesKept ==
  ASSUME NEW m \in Marker, NEW s, Become(m, s), BagToSet(stack) \subseteq BagToSet(stack'),
         NEW e \in Entries, e \notin Elements(local[m]) \/ e \in Elements(s) \cup BagToSet(stack')
  PROVE  e \in Entries'
<1>1. Entries' = BagToSet(stack') \cup UNION {Elements(local'[k]) : k \in Marker}
  BY EntriesOf DEF EntriesAre, Elements
<1>2. Entries = BagToSet(stack) \cup UNION {Elements(local[k]) : k \in Marker}
  BY EntriesOf DEF EntriesAre
<1>3. Elements(local'[m]) = Elements(s) /\ \A k \in Marker \ {m} : Elements(local'[k]) = Elements(local[k])
  BY DEF Become
<1> QED
  BY <1>1, <1>2, <1>3

\* Init.
LEMMA InitInv == Init => Inv
<1> SUFFICES ASSUME Init PROVE Inv
  OBVIOUS
<1> USE DEF Init
<1>1. heap \in Heaps /\ GC_mark_stack_size \in Nat /\ MAX_STEAL \in Nat
  BY ConstantsAssumption
<1>2. IsABag(stack) /\ BagToSet(stack) \subseteq Entry
  BY SetBag DEF EmptyBag
<1>3. local \in [Marker -> Seq(Entry)] /\ \A m \in Marker : local[m] = <<>>
  OBVIOUS
<1>4. Types
  <2>1. top \in 0 .. GC_mark_stack_size /\ called \subseteq Used(heap) /\ scanned \subseteq Ranges
    BY <1>1
  <2>2. stealing \in [Marker -> BOOLEAN] /\ GC_mark_stack_too_small \in BOOLEAN
    OBVIOUS
  <2>3. phase \in {1, 2} /\ stage \in {"push", "mark", "done", "abort"}
    OBVIOUS
  <2> QED BY <1>1, <1>2, <1>3, <2>1, <2>2, <2>3, Zenon DEF Types
<1>5. Locals
  <2>1. \A m \in Marker : stealing[m] = TRUE /\ local[m] = <<>>
    OBVIOUS
  <2>2. Len(<<>>) <= MAX_STEAL
    BY <1>1
  <2> QED BY <2>1, <2>2 DEF Locals, Fits
<1> QED
  BY <1>3, <1>4, <1>5 DEF Inv, Quiet, NoBlockForgotten

\* HINTGC_push_all_bottom_indices: every block in use has its index to come.
LEMMA PushInv ==
  ASSUME Inv, HINTGC_push_all_bottom_indices
  PROVE  Inv'
<1> USE DEF HINTGC_push_all_bottom_indices
<1> DEFINE All == {IndexEntry(key, BOTTOM_SZ - 1) : key \in GC_all_bottom_indices}
<1>1. /\ heap \in Heaps /\ heap' = heap /\ phase' = phase /\ local' = local /\ stealing' = stealing
      /\ called' = called /\ scanned' = scanned /\ called = {} /\ scanned = {}
      /\ \A m \in Marker : local[m] = <<>>
      /\ BOTTOM_SZ - 1 \in 0 .. BOTTOM_SZ - 1 /\ BOTTOM_SZ \in Nat \ {0}
  BY ConstantsAssumption DEF Inv, Types, Quiet
<1>2. Entry' = Entry /\ Ranges' = Ranges /\ Used(heap)' = Used(heap)
  BY <1>1, Frozen
<1>3. All \subseteq Entry
  BY <1>1, Kinds
<1>4. IsABag(stack') /\ BagToSet(stack') = All
  BY SetBag
<1>5. Types'
  <2>1. top' \in 0 .. GC_mark_stack_size
    BY <1>1, Indices, ConstantsAssumption
  <2> QED BY <1>1, <1>2, <1>3, <1>4, <2>1 DEF Inv, Types
<1>6. Locals'
  BY <1>1 DEF Inv, Locals, Fits
<1>7. ASSUME NEW b \in Used(heap) PROVE b \notin called' /\ \E e \in Entries' : Coming(e, b)
  <2> DEFINE key == b.at \div BOTTOM_SZ
             e == IndexEntry(key, BOTTOM_SZ - 1)
  <2>1. key \in GC_all_bottom_indices
    BY <1>1, <1>7, Indices
  <2>2. b.at \in Nat
    BY <1>1, HeapBlocks DEF Used
  <2>3. b.at % BOTTOM_SZ \in 0 .. BOTTOM_SZ - 1
    BY <1>1, <2>2, Division
  <2>4. e \in All /\ e.kind = "index" /\ e.x = key /\ e.y = BOTTOM_SZ - 1
    BY <2>1 DEF IndexEntry
  <2>5. e \in Entries'
    BY <1>4, <2>4 DEF Entries
  <2>6. b.at % BOTTOM_SZ <= BOTTOM_SZ - 1
    BY <1>1, <2>3
  <2>7. Coming(e, b)
    BY <2>4, <2>6 DEF Coming
  <2> QED BY <1>1, <2>5, <2>7
<1>8. NoBlockForgotten'
  BY <1>2, <1>7 DEF NoBlockForgotten, Coming
<1> QED
  BY <1>5, <1>6, <1>8 DEF Inv, Quiet

\* GC_steal_mark_stack: the entry goes from the stack to a marker.
LEMMA StealInv ==
  ASSUME Inv, NEW takers \in SUBSET Marker, GC_steal_mark_stack(takers)
  PROVE  Inv'
<1>1. PICK e \in BagToSet(stack) :
         /\ stack' = stack (-) SetToBag({e})
         /\ local' = [m \in Marker |-> IF m \in takers THEN Append(local[m], e) ELSE local[m]]
  BY DEF GC_steal_mark_stack
<1>2. /\ heap' = heap /\ phase' = phase /\ stage' = stage /\ top' = top /\ stealing' = stealing
      /\ called' = called /\ scanned' = scanned
      /\ GC_mark_stack_too_small' = GC_mark_stack_too_small
      /\ stage = "mark" /\ takers # {}
      /\ \A m \in takers : stealing[m] /\ Len(local[m]) < MAX_STEAL
  BY DEF GC_steal_mark_stack
<1>3. Types /\ Locals /\ MAX_STEAL \in Nat /\ e \in Entry
  BY <1>1, ConstantsAssumption DEF Inv, Types
<1>4. Entry' = Entry /\ Ranges' = Ranges /\ Used(heap)' = Used(heap)
  BY <1>2, Frozen
<1>5. /\ IsABag(stack') /\ BagToSet(stack') \subseteq Entry
      /\ BagToSet(stack) \subseteq BagToSet(stack') \cup {e}
  BY <1>1, <1>3, BagTake DEF Types
<1>6. \A m \in Marker : local[m] \in Seq(Entry) /\ Append(local[m], e) \in Seq(Entry)
        /\ Len(local[m]) \in Nat /\ Len(Append(local[m], e)) = Len(local[m]) + 1
  BY <1>3 DEF Types
<1>7. local' \in [Marker -> Seq(Entry)]
  BY <1>1, <1>6
<1>8. Types'
  BY <1>2, <1>3, <1>4, <1>5, <1>7 DEF Types
<1>9. Locals'
  <2>1. ASSUME NEW m \in Marker PROVE Fits(stealing'[m], local'[m])
    <3>1. CASE m \in takers
      <4>1. local'[m] = Append(local[m], e) /\ stealing'[m] = stealing[m] /\ stealing[m]
        BY <1>1, <1>2, <3>1
      <4>2. Len(Append(local[m], e)) <= MAX_STEAL
        BY <1>2, <1>3, <1>6, <3>1
      <4> QED BY <4>1, <4>2 DEF Fits
    <3>2. CASE m \notin takers
      <4>1. local'[m] = local[m] /\ stealing'[m] = stealing[m]
        BY <1>1, <1>2, <3>2
      <4> QED BY <1>3, <4>1, Zenon DEF Locals
    <3> QED BY <3>1, <3>2
  <2> QED BY <2>1 DEF Locals, Fits
<1>10. ASSUME NEW f \in Entries PROVE f \in Entries'
  <2>1. Entries = BagToSet(stack) \cup UNION {Elements(local[m]) : m \in Marker}
        /\ Entries' = BagToSet(stack') \cup UNION {Elements(local'[m]) : m \in Marker}
    BY EntriesOf DEF EntriesAre, Elements
  <2>2. ASSUME NEW m \in Marker PROVE Elements(local[m]) \subseteq Elements(local'[m])
    <3>1. CASE m \in takers
      <4> DEFINE s == local[m]
                 t == Append(s, e)
      <4>1. s \in Seq(Entry) /\ t \in Seq(Entry) /\ Len(t) = Len(s) + 1 /\ Len(s) \in Nat
            /\ \A i \in 1 .. Len(s) : t[i] = s[i]
        BY <1>3, <1>6
      <4>2. local'[m] = t
        BY <1>1, <3>1
      <4> HIDE DEF s, t
      <4>3. DOMAIN s = 1 .. Len(s) /\ DOMAIN t = 1 .. Len(s) + 1
        BY <4>1
      <4>4. \A i \in 1 .. Len(s) : i \in 1 .. Len(s) + 1
        BY <4>1
      <4>5. Elements(s) \subseteq Elements(t)
        BY <4>1, <4>3, <4>4 DEF Elements
      <4> QED BY <4>2, <4>5 DEF s
    <3>2. CASE m \notin takers
      BY <1>1, <3>2
    <3> QED BY <3>1, <3>2
  <2>3. \E m \in Marker : e \in Elements(local'[m])
    <3>1. PICK m \in takers : TRUE
      BY <1>2
    <3> DEFINE s == local[m]
               t == Append(s, e)
    <3>2. s \in Seq(Entry) /\ t \in Seq(Entry) /\ Len(t) = Len(s) + 1 /\ Len(s) \in Nat
          /\ t[Len(s) + 1] = e
      BY <1>3, <1>6
    <3>3. local'[m] = t /\ m \in Marker
      BY <1>1, <3>1
    <3> HIDE DEF s, t
    <3>4. Len(s) + 1 \in DOMAIN t
      BY <3>2
    <3>5. e \in Elements(t)
      BY <3>2, <3>4 DEF Elements
    <3> QED BY <3>3, <3>5
  <2> QED BY <1>5, <2>1, <2>2, <2>3
<1>11. Keeps
  BY <1>2, <1>10 DEF Keeps
<1>12. NoBlockForgotten'
  BY <1>11, KeepsBlocks
<1> QED
  BY <1>2, <1>8, <1>9, <1>12 DEF Inv, Quiet

\* GC_do_local_mark begins with what was stolen.
LEMMA BeginInv ==
  ASSUME Inv, NEW m \in Marker, GC_do_local_mark(m)
  PROVE  Inv'
<1>1. /\ stealing' = [stealing EXCEPT ![m] = FALSE] /\ stealing[m] /\ local[m] # <<>>
      /\ heap' = heap /\ phase' = phase /\ stage' = stage /\ stack' = stack /\ top' = top
      /\ local' = local /\ called' = called /\ scanned' = scanned
      /\ GC_mark_stack_too_small' = GC_mark_stack_too_small
  BY DEF GC_do_local_mark
<1>2. Types /\ Locals /\ MAX_STEAL \in Nat /\ LOCAL_MARK_STACK_SIZE \in Nat
      /\ MAX_STEAL <= LOCAL_MARK_STACK_SIZE
  BY ConstantsAssumption DEF Inv
<1>3. Entry' = Entry /\ Ranges' = Ranges /\ Used(heap)' = Used(heap)
  BY <1>1, Frozen
<1>4. Types'
  BY <1>1, <1>2, <1>3 DEF Types
<1>5. Locals'
  <2>1. ASSUME NEW k \in Marker PROVE Fits(stealing'[k], local'[k])
    <3>1. CASE k = m
      <4>1. Len(local[m]) <= MAX_STEAL /\ local[m] \in Seq(Entry)
        BY <1>1, <1>2 DEF Locals, Fits, Types
      <4>2. Len(local[m]) \in Nat
        BY <4>1
      <4>3. Len(local[m]) <= LOCAL_MARK_STACK_SIZE /\ MAX_STEAL + 1 .. Len(local[m]) = {}
        BY <1>2, <4>1, <4>2
      <4>4. stealing'[m] = FALSE /\ local'[m] = local[m]
        BY <1>1, <1>2 DEF Types
      <4> QED BY <1>1, <3>1, <4>3, <4>4 DEF Fits
    <3>2. CASE k # m
      <4>1. stealing'[k] = stealing[k] /\ local'[k] = local[k]
        BY <1>1, <1>2, <3>2 DEF Types
      <4> QED BY <1>2, <4>1, Zenon DEF Locals
    <3> QED BY <3>1, <3>2
  <2> QED BY <2>1 DEF Locals, Fits
<1>6. NoBlockForgotten'
  <2>1. Entries' = Entries
    BY <1>1 DEF Entries
  <2>2. Keeps
    BY <1>1, <2>1 DEF Keeps
  <2> QED BY <2>2, KeepsBlocks
<1>7. Quiet'
  BY <1>1 DEF Inv, Quiet
<1> QED
  BY <1>4, <1>5, <1>6, <1>7 DEF Inv

\* What GC_mark_no_push_from takes from the top of its stack.
LEMMA TopAndBelow ==
  ASSUME Inv, NEW m \in Marker, ~stealing[m]
  PROVE  /\ Top(m) \in Entry /\ Below(m) \in Seq(Entry) /\ Len(local[m]) \in Nat \ {0}
         /\ Len(Below(m)) = Len(local[m]) - 1
         /\ \A i \in 1 .. Len(Below(m)) : Below(m)[i] = local[m][i]
         /\ Elements(local[m]) = Elements(Below(m)) \cup {Top(m)}
         /\ Below(m) = <<>> \/ Fits(FALSE, Below(m))
<1>1. local[m] \in Seq(Entry) /\ local[m] # <<>> /\ Fits(FALSE, local[m])
  BY Busy
<1>2. /\ Top(m) \in Entry /\ Below(m) \in Seq(Entry) /\ Len(local[m]) \in Nat \ {0}
      /\ Len(Below(m)) = Len(local[m]) - 1
      /\ \A i \in 1 .. Len(Below(m)) : Below(m)[i] = local[m][i]
      /\ Elements(local[m]) = Elements(Below(m)) \cup {Top(m)}
  BY <1>1, LastAndRest DEF Top, Below
<1>3. Below(m) = <<>> \/ Fits(FALSE, Below(m))
  <2> DEFINE s == local[m]
             t == Below(m)
  <2>1. /\ Len(s) <= LOCAL_MARK_STACK_SIZE /\ \A i \in MAX_STEAL + 1 .. Len(s) : s[i].kind = "range"
        /\ LOCAL_MARK_STACK_SIZE \in Nat /\ MAX_STEAL \in Nat \ {0}
        /\ Len(t) = Len(s) - 1 /\ Len(s) \in Nat \ {0} /\ \A i \in 1 .. Len(t) : t[i] = s[i]
    BY <1>1, <1>2, ConstantsAssumption DEF Fits
  <2> HIDE DEF s, t
  <2>2. \A i \in MAX_STEAL + 1 .. Len(t) : i \in MAX_STEAL + 1 .. Len(s) /\ i \in 1 .. Len(t)
    BY <2>1
  <2>3. Len(t) <= LOCAL_MARK_STACK_SIZE /\ \A i \in MAX_STEAL + 1 .. Len(t) : t[i].kind = "range"
    BY <2>1, <2>2
  <2>4. t = <<>> \/ Fits(FALSE, t)
    BY <2>3 DEF Fits
  <2> QED BY <2>4 DEF t
<1> QED
  BY <1>2, <1>3

\* A range is scanned.
LEMMA ScanInv ==
  ASSUME Inv, NEW m \in Marker, ScanRange(m)
  PROVE  Inv'
<1>1. /\ ~stealing[m] /\ Top(m).kind = "range" /\ Becomes(m, Below(m))
      /\ scanned' = scanned \cup {Top(m)} /\ stack' = stack /\ top' = top /\ called' = called
      /\ GC_mark_stack_too_small' = GC_mark_stack_too_small
  BY DEF ScanRange, Marking
<1>2. /\ Top(m) \in Entry /\ Below(m) \in Seq(Entry) /\ (Below(m) = <<>> \/ Fits(FALSE, Below(m)))
      /\ Elements(local[m]) = Elements(Below(m)) \cup {Top(m)}
  BY <1>1, TopAndBelow
<1>3. PICK s : s = Below(m)
  OBVIOUS
<1>4. Become(m, s)
  BY <1>1, <1>2, <1>3, Becoming
<1>5. Types /\ Top(m) \in Ranges
  BY <1>1, <1>2, Kinds DEF Inv, Types
<1>6. NoBlockForgotten'
  <2>1. ASSUME NEW e \in Entries PROVE e \in Entries' \/ (e.kind = "range" /\ e \in scanned')
    <3>1. CASE e = Top(m)
      BY <1>1, <3>1
    <3>2. CASE e # Top(m)
      <4>1. e \notin Elements(local[m]) \/ e \in Elements(s) \cup BagToSet(stack')
        BY <1>2, <1>3, <3>2
      <4>2. BagToSet(stack) \subseteq BagToSet(stack')
        BY <1>1
      <4> QED BY <1>4, <4>1, <4>2, EntriesKept
    <3> QED BY <3>1, <3>2
  <2>2. Keeps
    BY <1>1, <1>4, <2>1 DEF Keeps, Become
  <2> QED BY <2>2, KeepsBlocks
<1>7. /\ IsABag(stack') /\ BagToSet(stack') \subseteq Entry /\ top' \in 0 .. GC_mark_stack_size
      /\ called' \subseteq Used(heap) /\ scanned' \subseteq Ranges /\ GC_mark_stack_too_small' \in BOOLEAN
  BY <1>1, <1>5 DEF Types
<1> QED
  BY <1>1, <1>4, <1>6, <1>7, StepKeeps

\* A dummy is popped.
LEMMA PopInv ==
  ASSUME Inv, NEW m \in Marker, PopDummy(m)
  PROVE  Inv'
<1>1. /\ ~stealing[m] /\ Top(m).kind = "dummy" /\ Becomes(m, Below(m))
      /\ scanned' = scanned /\ stack' = stack /\ top' = top /\ called' = called
      /\ GC_mark_stack_too_small' = GC_mark_stack_too_small
  BY DEF PopDummy, Marking
<1>2. /\ Top(m) \in Entry /\ Below(m) \in Seq(Entry) /\ (Below(m) = <<>> \/ Fits(FALSE, Below(m)))
      /\ Elements(local[m]) = Elements(Below(m)) \cup {Top(m)}
  BY <1>1, TopAndBelow
<1>3. PICK s : s = Below(m)
  OBVIOUS
<1>4. Become(m, s)
  BY <1>1, <1>2, <1>3, Becoming
<1>5. NoBlockForgotten'
  <2>1. ASSUME NEW e \in Entries PROVE e \in Entries' \/ e.kind = "dummy"
    <3>1. CASE e = Top(m)
      BY <1>1, <3>1
    <3>2. CASE e # Top(m)
      <4>1. e \notin Elements(local[m]) \/ e \in Elements(s) \cup BagToSet(stack')
        BY <1>2, <1>3, <3>2
      <4>2. BagToSet(stack) \subseteq BagToSet(stack')
        BY <1>1
      <4> QED BY <1>4, <4>1, <4>2, EntriesKept
    <3> QED BY <3>1, <3>2
  <2>2. Keeps
    BY <1>1, <1>4, <2>1 DEF Keeps, Become
  <2> QED BY <2>2, KeepsBlocks
<1>6. /\ IsABag(stack') /\ BagToSet(stack') \subseteq Entry /\ top' \in 0 .. GC_mark_stack_size
      /\ called' \subseteq Used(heap) /\ scanned' \subseteq Ranges /\ GC_mark_stack_too_small' \in BOOLEAN
  BY <1>1 DEF Inv, Types
<1> QED
  BY <1>1, <1>4, <1>5, <1>6, StepKeeps

\* What GC_return_mark_stack does with s: it arrives, or its loss is noted.
LEMMA Returning ==
  ASSUME Inv, NEW s \in Seq(Entry), GC_return_mark_stack(s)
  PROVE  /\ IsABag(stack') /\ BagToSet(stack') \subseteq Entry
         /\ BagToSet(stack) \subseteq BagToSet(stack')
         /\ top' \in 0 .. GC_mark_stack_size /\ GC_mark_stack_too_small' \in BOOLEAN
         /\ \/ GC_mark_stack_too_small' = TRUE
            \/ /\ GC_mark_stack_too_small' = GC_mark_stack_too_small
               /\ Elements(s) \subseteq BagToSet(stack')
<1>1. /\ IsABag(stack) /\ BagToSet(stack) \subseteq Entry /\ top \in 0 .. GC_mark_stack_size
      /\ GC_mark_stack_too_small \in BOOLEAN /\ Len(s) \in Nat /\ GC_mark_stack_size \in Nat
  BY ConstantsAssumption DEF Inv, Types
<1>2. CASE top + Len(s) > GC_mark_stack_size
  BY <1>1, <1>2 DEF GC_return_mark_stack
<1>3. CASE ~(top + Len(s) > GC_mark_stack_size)
  <2>1. /\ stack' = stack (+) InBag(s) /\ top' = top + Len(s)
        /\ GC_mark_stack_too_small' = GC_mark_stack_too_small
    BY <1>3 DEF GC_return_mark_stack, InBag
  <2>2. IsABag(InBag(s)) /\ BagToSet(InBag(s)) = Elements(s)
    BY SequenceBag
  <2>3. IsABag(stack') /\ BagToSet(stack') = BagToSet(stack) \cup Elements(s)
    BY <1>1, <2>1, <2>2, BagSum
  <2>4. Elements(s) \subseteq Entry
    BY DEF Elements
  <2>5. top' \in 0 .. GC_mark_stack_size
    BY <1>1, <1>3, <2>1
  <2> QED BY <1>1, <2>1, <2>3, <2>4, <2>5
<1> QED
  BY <1>2, <1>3

\* A part r of the stack of m is returned, s is kept.
LEMMA ReturnPart ==
  ASSUME Inv, NEW m \in Marker, ~stealing[m], NEW r \in Seq(Entry), NEW s \in Seq(Entry),
         s = <<>> \/ Fits(FALSE, s), Elements(local[m]) \subseteq Elements(r) \cup Elements(s),
         GC_return_mark_stack(r), Becomes(m, s), called' = called, scanned' = scanned
  PROVE  Inv'
<1>1. Become(m, s)
  BY Becoming
<1>2. /\ IsABag(stack') /\ BagToSet(stack') \subseteq Entry
      /\ BagToSet(stack) \subseteq BagToSet(stack')
      /\ top' \in 0 .. GC_mark_stack_size /\ GC_mark_stack_too_small' \in BOOLEAN
      /\ \/ GC_mark_stack_too_small' = TRUE
         \/ /\ GC_mark_stack_too_small' = GC_mark_stack_too_small
            /\ Elements(r) \subseteq BagToSet(stack')
  BY Returning
<1>3. NoBlockForgotten'
  <2>1. CASE GC_mark_stack_too_small' = TRUE
    <3>1. Keeps
      BY <1>1, <2>1 DEF Keeps, Become
    <3> QED BY <3>1, KeepsBlocks
  <2>2. CASE /\ GC_mark_stack_too_small' = GC_mark_stack_too_small
             /\ Elements(r) \subseteq BagToSet(stack')
    <3>1. ASSUME NEW e \in Entries PROVE e \in Entries'
      <4>1. e \notin Elements(local[m]) \/ e \in Elements(s) \cup BagToSet(stack')
        BY <2>2
      <4> QED BY <1>1, <1>2, <4>1, EntriesKept
    <3>2. Keeps
      BY <1>1, <2>2, <3>1 DEF Keeps, Become
    <3> QED BY <3>2, KeepsBlocks
  <2> QED BY <1>2, <2>1, <2>2
<1>4. called' \subseteq Used(heap) /\ scanned' \subseteq Ranges
  BY DEF Inv, Types
<1> QED
  BY <1>1, <1>2, <1>3, <1>4, StepKeeps

LEMMA ReturnAllInv ==
  ASSUME Inv, NEW m \in Marker, ReturnAll(m)
  PROVE  Inv'
<1>1. /\ ~stealing[m] /\ GC_return_mark_stack(local[m]) /\ Becomes(m, <<>>)
      /\ called' = called /\ scanned' = scanned
  BY DEF ReturnAll
<1>2. local[m] \in Seq(Entry) /\ <<>> \in Seq(Entry)
  <2>1. local[m] \in Seq(Entry)
    BY <1>1, Busy
  <2> QED BY <2>1
<1>3. PICK r, s : r = local[m] /\ s = <<>>
  OBVIOUS
<1>4. r \in Seq(Entry) /\ s \in Seq(Entry) /\ Elements(local[m]) \subseteq Elements(r) \cup Elements(s)
      /\ GC_return_mark_stack(r) /\ Becomes(m, s)
  BY <1>1, <1>2, <1>3
<1> QED
  BY <1>1, <1>3, <1>4, ReturnPart

\* The lower half of a stack is returned; the upper part still fits.
LEMMA ShareInv ==
  ASSUME Inv, NEW m \in Marker, ShareBottom(m)
  PROVE  Inv'
<1> DEFINE s == local[m]
           n == (Len(s) - 1) \div 2
           l == SubSeq(s, 1, n)
           u == SubSeq(s, n + 1, Len(s))
<1>1. /\ ~stealing[m] /\ Len(s) > 2 /\ GC_return_mark_stack(l) /\ Becomes(m, u)
      /\ called' = called /\ scanned' = scanned
  BY DEF ShareBottom
<1>2. s \in Seq(Entry) /\ Fits(FALSE, s)
  BY <1>1, Busy
<1>3. Len(s) \in Nat /\ n \in 0 .. Len(s) - 1
  <2>1. \A k \in Nat : k > 2 => (k - 1) \div 2 \in 0 .. k - 1
    OBVIOUS
  <2>2. Len(s) \in Nat
    BY <1>2
  <2> QED BY <1>1, <2>1, <2>2
<1>4. /\ l \in Seq(Entry) /\ u \in Seq(Entry) /\ Len(u) = Len(s) - n /\ u # <<>>
      /\ \A i \in 1 .. Len(s) - n : u[i] = s[n + i]
      /\ Elements(s) \subseteq Elements(l) \cup Elements(u)
  <2> HIDE DEF n, s
  <2> QED BY <1>2, <1>3, Cut
<1> HIDE DEF l, u, n
<1>5. Fits(FALSE, u)
  <2>1. /\ Len(s) <= LOCAL_MARK_STACK_SIZE /\ \A i \in MAX_STEAL + 1 .. Len(s) : s[i].kind = "range"
        /\ LOCAL_MARK_STACK_SIZE \in Nat /\ MAX_STEAL \in Nat \ {0}
    BY <1>2, ConstantsAssumption DEF Fits
  <2> HIDE DEF s
  <2>2. Len(u) <= LOCAL_MARK_STACK_SIZE
    BY <1>3, <1>4, <2>1
  <2>3. ASSUME NEW i \in MAX_STEAL + 1 .. Len(u) PROVE u[i].kind = "range"
    <3>1. i \in 1 .. Len(s) - n /\ n + i \in MAX_STEAL + 1 .. Len(s)
      BY <1>3, <1>4, <2>1
    <3> QED BY <1>4, <2>1, <3>1
  <2> QED BY <1>4, <2>2, <2>3 DEF Fits
<1> QED
  BY <1>1, <1>4, <1>5, ReturnPart

\* The stack after a step over an index, had it unlimited room.
Stepped(m, step, s) ==
  /\ Top(m) \in Entry /\ Top(m).x \in Nat /\ Top(m).y \in Nat
  /\ Finds(step, Top(m).x, Top(m).y)
  /\ step.blocks \in Seq(Used(heap)) /\ step.j \in Int /\ step.j <= Top(m).y
  /\ Pushes(step.blocks, Len(step.blocks), Pushed(step.blocks))
  /\ s \in Seq(Entry) /\ s # <<>>
  /\ Elements(s) = Elements(Below(m)) \cup {Rest(m, step)} \cup Elements(Pushed(step.blocks))
  /\ \A i \in MAX_STEAL + 1 .. Len(s) : s[i].kind = "range"
  /\ LimitHolds(heap) => Len(s) <= LOCAL_MARK_STACK_SIZE

LEMMA StackAfter ==
  ASSUME Inv, NEW m \in Marker, Marking(m, "index")
  PROVE  Stepped(m, StepOf(m), AfterStep(m, StepOf(m)))
<1> DEFINE step == StepOf(m)
           p == Pushed(step.blocks)
           rest == Rest(m, step)
           s == Below(m) \o (<<rest>> \o p)
           e0 == Top(m)
<1>1. ~stealing[m] /\ e0.kind = "index"
  BY DEF Marking
<1>2. /\ e0 \in Entry /\ Below(m) \in Seq(Entry) /\ Len(local[m]) \in Nat \ {0}
      /\ Len(Below(m)) = Len(local[m]) - 1
      /\ \A i \in 1 .. Len(Below(m)) : Below(m)[i] = local[m][i]
      /\ Elements(local[m]) = Elements(Below(m)) \cup {e0}
  BY <1>1, TopAndBelow
<1>3. /\ heap \in Heaps /\ BOTTOM_SZ \in Nat \ {0} /\ MAX_STEAL \in Nat \ {0}
      /\ LOCAL_MARK_STACK_SIZE \in Nat /\ LOCAL_MARK_STACK_SIZE >= MAX_STEAL
  BY ConstantsAssumption DEF Inv, Types
<1>4. /\ e0.x \in GC_all_bottom_indices /\ e0.x \in Nat /\ e0.y \in 0 .. BOTTOM_SZ - 1
      /\ e0.y \in Nat
  BY <1>1, <1>2, <1>3, Kinds
<1>5. /\ Finds(step, e0.x, e0.y)
      /\ Pushes(step.blocks, Len(step.blocks), p)
      /\ p \in Seq(Ranges)
      /\ LimitHolds(heap) => Len(p) <= LOCAL_MARK_STACK_SIZE - MAX_STEAL
  BY <1>3, <1>4, StepIsRight DEF StepOf
<1>6. /\ step.blocks \in Seq(Used(heap)) /\ step.j \in Int /\ step.j <= e0.y
  BY <1>5 DEF Finds
<1> HIDE DEF step
<1>7. rest \in Entry
  <2>1. CASE step.j < 0
    BY <1>3, <2>1, Kinds DEF Rest
  <2>2. CASE ~(step.j < 0)
    <3>1. step.j \in 0 .. BOTTOM_SZ - 1
      BY <1>3, <1>4, <1>6, <2>2
    <3>2. rest = IndexEntry(e0.x, step.j)
      BY <2>2 DEF Rest
    <3> QED BY <1>3, <1>4, <3>1, <3>2, Kinds
  <2> QED BY <2>1, <2>2
<1> HIDE DEF rest, p
<1>8. p \in Seq(Entry) /\ Len(p) \in Nat /\ \A i \in 1 .. Len(p) : p[i].kind = "range"
  <2>1. \A r \in Ranges : r.kind = "range" /\ r \in Entry
    BY <1>3, Kinds
  <2>2. \A i \in 1 .. Len(p) : p[i] \in Ranges
    BY <1>5
  <2>3. Len(p) \in Nat /\ p \in [1 .. Len(p) -> Ranges]
    BY <1>5
  <2>4. p \in [1 .. Len(p) -> Entry]
    BY <2>1, <2>3
  <2>5. p \in Seq(Entry)
    BY <2>3, <2>4
  <2> QED BY <2>1, <2>2, <2>3, <2>5
<1>9. PICK E : E = Entry
  OBVIOUS
<1> DEFINE b == Below(m)
           t == <<rest>> \o p
<1>10. /\ <<rest>> \in Seq(E) /\ Len(<<rest>>) = 1 /\ Elements(<<rest>>) = {rest}
       /\ t \in Seq(E) /\ Len(t) = Len(p) + 1 /\ Elements(t) = {rest} \cup Elements(p)
       /\ \A i \in 1 .. Len(p) : t[1 + i] = p[i]
  <2>1. <<rest>> \in Seq(E) /\ Len(<<rest>>) = 1 /\ Elements(<<rest>>) = {rest}
    BY <1>7, <1>9 DEF Elements
  <2>2. p \in Seq(E)
    BY <1>8, <1>9
  <2> DEFINE a == <<rest>>
  <2>3. a \in Seq(E) /\ Len(a) = 1 /\ Elements(a) = {rest}
    BY <2>1
  <2> HIDE DEF a
  <2>4. a \o p \in Seq(E) /\ Len(a \o p) = Len(a) + Len(p)
    BY <2>2, <2>3, JoinedType
  <2>5. Elements(a \o p) = {rest} \cup Elements(p)
    BY <2>2, <2>3, ElementsJoined
  <2>6. \A i \in 1 .. Len(p) : (a \o p)[1 + i] = p[i]
    <3>1. \A i \in 1 .. Len(p) : (a \o p)[Len(a) + i] = p[i]
      BY <2>2, <2>3, Joined
    <3> QED BY <2>3, <3>1
  <2>7. Len(a \o p) = Len(p) + 1
    BY <1>8, <2>3, <2>4
  <2> QED BY <2>1, <2>4, <2>5, <2>6, <2>7 DEF a
<1> HIDE DEF t
<1>11. /\ b \in Seq(E) /\ s = b \o t
       /\ s \in Seq(E) /\ Len(s) = Len(b) + Len(t) /\ Elements(s) = Elements(b) \cup {rest} \cup Elements(p)
       /\ \A i \in 1 .. Len(t) : s[Len(b) + i] = t[i]
  <2>1. b \in Seq(E) /\ s = b \o t
    BY <1>2, <1>9 DEF t
  <2> HIDE DEF s, b
  <2>2. Elements(s) = Elements(b) \cup Elements(t)
    BY <1>10, <2>1, ElementsJoined
  <2>3. s \in Seq(E) /\ Len(s) = Len(b) + Len(t)
    BY <1>10, <2>1, JoinedType
  <2>4. \A i \in 1 .. Len(t) : s[Len(b) + i] = t[i]
    BY <1>10, <2>1, Joined
  <2> QED BY <1>10, <2>1, <2>2, <2>3, <2>4
<1> HIDE DEF s
<1>12. Len(local[m]) <= MAX_STEAL
  <2>1. \A i \in MAX_STEAL + 1 .. Len(local[m]) : local[m][i].kind = "range"
    BY <1>1, Busy DEF Fits
  <2>2. local[m][Len(local[m])].kind # "range"
    BY <1>1 DEF Top
  <2>3. Len(local[m]) \notin MAX_STEAL + 1 .. Len(local[m])
    BY <2>1, <2>2
  <2> DEFINE l == Len(local[m])
  <2>4. l \in Nat /\ l \notin MAX_STEAL + 1 .. l
    BY <1>2, <2>3
  <2> HIDE DEF l
  <2>5. l <= MAX_STEAL
    BY <1>3, <2>4
  <2> QED BY <2>5 DEF l
<1>13. /\ s # <<>> /\ \A i \in MAX_STEAL + 1 .. Len(s) : s[i].kind = "range"
       /\ LimitHolds(heap) => Len(s) <= LOCAL_MARK_STACK_SIZE
  <2> DEFINE l == Len(local[m])
             k == Len(b)
  <2>1. /\ l \in Nat \ {0} /\ l <= MAX_STEAL /\ k = l - 1 /\ Len(t) = Len(p) + 1 /\ Len(p) \in Nat
        /\ Len(s) = k + Len(t) /\ (LimitHolds(heap) => Len(p) <= LOCAL_MARK_STACK_SIZE - MAX_STEAL)
    BY <1>2, <1>5, <1>8, <1>10, <1>11, <1>12
  <2> HIDE DEF l, k
  <2>2. /\ LimitHolds(heap) => Len(s) <= LOCAL_MARK_STACK_SIZE
        /\ Len(s) \in Nat /\ Len(s) # 0
    BY <1>3, <2>1
  <2>3. ASSUME NEW i \in MAX_STEAL + 1 .. Len(s) PROVE s[i].kind = "range"
    <3> DEFINE d == i - k
               c == d - 1
    <3>1. d \in 1 .. Len(t) /\ k + d = i /\ c \in 1 .. Len(p) /\ 1 + c = d
      BY <1>3, <2>1
    <3> HIDE DEF c, d
    <3>2. s[i] = t[d]
      BY <1>11, <3>1 DEF k
    <3>3. t[d] = p[c]
      BY <1>10, <3>1
    <3> QED BY <1>8, <3>1, <3>2, <3>3
  <2>4. s # <<>>
    BY <2>2
  <2> QED BY <2>2, <2>3, <2>4
<1>14. AfterStep(m, step) = s
  BY DEF AfterStep, s, rest, p
<1> QED
  BY <1>2, <1>4, <1>5, <1>6, <1>9, <1>11, <1>13, <1>14 DEF Stepped, step, rest, p

\* What PUSH_OBJ leaves of a stack that is too high.
LEMMA DiscardedFits ==
  ASSUME NEW s \in Seq(Entry), Len(s) > LOCAL_MARK_STACK_SIZE,
         \A i \in MAX_STEAL + 1 .. Len(s) : s[i].kind = "range"
  PROVE  Discarded(s) \in Seq(Entry) /\ Fits(FALSE, Discarded(s))
<1> DEFINE n == Len(s)
           last == ((n - LOCAL_MARK_STACK_SIZE - 1) % Discards) + 1
           kept == LOCAL_MARK_STACK_SIZE - Discards
           from == n - last + 1
           l == SubSeq(s, 1, kept)
           u == SubSeq(s, from, n)
           t == l \o u
<1>1. /\ LOCAL_MARK_STACK_SIZE \in Nat /\ MAX_STEAL \in Nat \ {0} /\ Discards \in Nat \ {0}
      /\ MAX_STEAL <= kept /\ n \in Nat /\ kept \in Nat /\ kept + Discards = LOCAL_MARK_STACK_SIZE
      /\ n > LOCAL_MARK_STACK_SIZE
  BY ConstantsAssumption
<1>2. last \in 1 .. Discards
  <2> DEFINE a == n - LOCAL_MARK_STACK_SIZE - 1
  <2>1. a \in Nat
    BY <1>1
  <2> HIDE DEF a, n
  <2>2. a % Discards \in 0 .. Discards - 1
    BY <1>1, <2>1, Division
  <2>3. last = (a % Discards) + 1
    BY DEF a
  <2> HIDE DEF last
  <2> QED BY <1>1, <2>2, <2>3
<1> HIDE DEF last
<1>3. /\ from \in 1 .. n + 1 /\ n \in 0 .. n /\ from <= n + 1 /\ n - from + 1 = last
      /\ from > kept /\ 1 \in 1 .. n + 1 /\ kept \in 0 .. n /\ 1 <= kept + 1 /\ kept - 1 + 1 = kept
  <2> HIDE DEF n, kept
  <2> QED BY <1>1, <1>2
<1>4. l \in Seq(Entry) /\ Len(l) = kept /\ \A i \in 1 .. kept : l[i] = s[i]
  <2> HIDE DEF kept
  <2>1. /\ l \in Seq(Entry) /\ Len(l) = kept - 1 + 1
        /\ \A i \in 1 .. kept - 1 + 1 : l[i] = s[1 + i - 1]
    BY <1>3, PartOf
  <2>2. \A i \in 1 .. kept : 1 + i - 1 = i
    BY <1>1
  <2> HIDE DEF l
  <2> QED BY <1>3, <2>1, <2>2
<1>5. u \in Seq(Entry) /\ Len(u) = last /\ \A i \in 1 .. last : u[i] = s[from + i - 1]
  <2> HIDE DEF from
  <2>1. /\ u \in Seq(Entry) /\ Len(u) = n - from + 1
        /\ \A i \in 1 .. n - from + 1 : u[i] = s[from + i - 1]
    BY <1>3, PartOf
  <2> HIDE DEF u, n
  <2> QED BY <1>3, <2>1
<1>6. Discarded(s) = t
  BY DEF Discarded, t, l, u, from, kept, n, last
<1> DEFINE E == Entry
<1>7. l \in Seq(E) /\ u \in Seq(E)
  BY <1>4, <1>5
<1> HIDE DEF l, u, E
<1>8. t \in Seq(E) /\ Len(t) = kept + last /\ \A i \in 1 .. last : t[kept + i] = u[i]
  <2>1. t \in Seq(E) /\ Len(t) = Len(l) + Len(u)
    BY <1>7, JoinedType
  <2>2. \A i \in 1 .. Len(u) : t[Len(l) + i] = u[i]
    BY <1>7, Joined
  <2> HIDE DEF t
  <2> QED BY <1>4, <1>5, <2>1, <2>2
<1>9. \A i \in 1 .. kept : t[i] = l[i]
  BY <1>4, <1>7
<1> HIDE DEF t
<1>10. ASSUME NEW i \in MAX_STEAL + 1 .. Len(t) PROVE t[i].kind = "range"
  <2>1. CASE i <= kept
    <3>1. i \in 1 .. kept /\ i \in MAX_STEAL + 1 .. n
      <4> HIDE DEF n, kept
      <4> QED BY <1>1, <2>1
    <3> QED BY <1>4, <1>9, <3>1
  <2>2. CASE ~(i <= kept)
    <3> DEFINE k == i - kept
    <3>1. k \in 1 .. last /\ kept + k = i /\ from + k - 1 \in MAX_STEAL + 1 .. n
      <4> HIDE DEF n, kept
      <4>1. i \in Nat /\ i <= kept + last /\ i > kept
        BY <1>1, <1>2, <1>8, <2>2
      <4> QED BY <1>1, <1>2, <4>1
    <3> HIDE DEF k
    <3>2. t[i] = u[k] /\ u[k] = s[from + k - 1]
      BY <1>5, <1>8, <3>1
    <3> QED BY <3>1, <3>2
  <2> QED BY <2>1, <2>2
<1>11. Len(t) <= LOCAL_MARK_STACK_SIZE /\ t # <<>>
  <2>1. Len(t) \in Nat /\ Len(t) # 0 /\ Len(t) <= LOCAL_MARK_STACK_SIZE
    <3> HIDE DEF kept
    <3> QED BY <1>1, <1>2, <1>8
  <2> QED BY <2>1
<1> QED
  BY <1>6, <1>8, <1>10, <1>11 DEF Fits, E

\* Where there is room, what a step does keeps all blocks attended to.
LEMMA StepAttends ==
  ASSUME Inv, NEW m \in Marker, Marking(m, "index"),
         Stepped(m, StepOf(m), AfterStep(m, StepOf(m))),
         called' = called \cup {StepOf(m).blocks[i] : i \in DOMAIN StepOf(m).blocks},
         stack' = stack, scanned' = scanned,
         GC_mark_stack_too_small' = GC_mark_stack_too_small,
         Become(m, AfterStep(m, StepOf(m)))
  PROVE  NoBlockForgotten'
<1> DEFINE step == StepOf(m)
           p == Pushed(step.blocks)
           rest == Rest(m, step)
           s == AfterStep(m, step)
           e0 == Top(m)
<1>1. /\ ~stealing[m] /\ e0.kind = "index"
      /\ called' = called \cup {step.blocks[i] : i \in DOMAIN step.blocks}
      /\ stack' = stack /\ scanned' = scanned
      /\ GC_mark_stack_too_small' = GC_mark_stack_too_small
  BY DEF Marking
<1>2. Elements(local[m]) = Elements(Below(m)) \cup {e0}
  BY <1>1, TopAndBelow
<1>3. heap \in Heaps /\ BOTTOM_SZ \in Nat \ {0}
  BY ConstantsAssumption DEF Inv, Types
<1>4. Stepped(m, step, s) /\ Become(m, s)
  OBVIOUS
<1> HIDE DEF step, s
<1>5. /\ Finds(step, e0.x, e0.y) /\ e0.x \in Nat /\ e0.y \in Nat
      /\ Pushes(step.blocks, Len(step.blocks), p)
  BY <1>4 DEF Stepped
<1>6. /\ step.blocks \in Seq(Used(heap)) /\ step.j \in Int /\ step.j <= e0.y
  BY <1>4 DEF Stepped
<1>7. Elements(s) = Elements(Below(m)) \cup {rest} \cup Elements(p)
  BY <1>4 DEF Stepped
<1> HIDE DEF rest, p
<1>8. \A e \in Entries : e \in Entries' \/ e = e0
  <2> SUFFICES ASSUME NEW e \in Entries, e # e0 PROVE e \in Entries'
    OBVIOUS
  <2>1. e \notin Elements(local[m]) \/ e \in Elements(s) \cup BagToSet(stack')
    BY <1>2, <1>7
  <2>2. BagToSet(stack) \subseteq BagToSet(stack')
    BY <1>1
  <2> QED BY <1>4, <2>1, <2>2, EntriesKept
<1>9. rest \in Entries' /\ Elements(p) \subseteq Entries'
  <2>1. Entries' = BagToSet(stack') \cup UNION {Elements(local'[k]) : k \in Marker}
    BY EntriesOf DEF EntriesAre, Elements
  <2>2. Elements(local'[m]) = Elements(s)
    BY <1>4 DEF Become
  <2> QED BY <1>7, <2>1, <2>2
<1>10. ASSUME stage = "mark", ~GC_mark_stack_too_small, NEW k \in Used(heap) PROVE Attended(k)'
  <2>1. Attended(k)
    BY <1>10 DEF Inv, NoBlockForgotten, Attended, Coming
  <2>2. heap' = heap /\ RangesPushed(k)' = RangesPushed(k)
    BY <1>4, Frozen DEF Become
  <2>3. CASE k \in called
    <3>1. ASSUME NEW r \in RangesPushed(k) PROVE r \in scanned' \cup Entries'
      <4>1. r \in scanned \/ r \in Entries
        BY <2>1, <2>3 DEF Attended
      <4>2. r.kind = "range"
        <5>1. r \in Ranges
          BY DEF Ranges
        <5> QED BY <1>3, <5>1, Kinds
      <4>3. r # e0
        BY <1>1, <4>2
      <4> QED BY <1>1, <1>8, <4>1, <4>3
    <3>2. k \in called' /\ RangesPushed(k)' \subseteq scanned' \cup Entries'
      BY <1>1, <2>2, <2>3, <3>1
    <3> QED BY <3>2 DEF Attended
  <2>4. CASE k \notin called /\ k \in called'
    <3>1. PICK i \in DOMAIN step.blocks : step.blocks[i] = k
      BY <1>1, <2>4
    <3>2. i \in 1 .. Len(step.blocks)
      BY <1>6, <3>1
    <3>3. RangesPushed(k) \subseteq Elements(p)
      BY <1>5, <3>1, <3>2 DEF Pushes
    <3>4. RangesPushed(k)' \subseteq scanned' \cup Entries'
      BY <1>9, <2>2, <3>3
    <3> QED BY <2>4, <3>4 DEF Attended
  <2>5. CASE k \notin called'
    <3>1. k \notin called /\ ~(\E i \in DOMAIN step.blocks : step.blocks[i] = k)
      BY <1>1, <2>5
    <3>2. PICK e \in Entries : Coming(e, k)
      BY <2>1, <3>1 DEF Attended
    <3>3. \E f \in Entries' : Coming(f, k)
      <4>1. CASE e # e0
        BY <1>8, <3>2, <4>1
      <4>2. CASE e = e0
        <5>1. e0.x = k.at \div BOTTOM_SZ /\ k.at % BOTTOM_SZ <= e0.y
          BY <3>2, <4>2 DEF Coming
        <5>2. k.at \in Nat
          BY <1>3, HeapBlocks DEF Used
        <5> DEFINE q == k.at \div BOTTOM_SZ
                   r == k.at % BOTTOM_SZ
        <5>3. q \in Nat /\ r \in 0 .. BOTTOM_SZ - 1 /\ k.at = q * BOTTOM_SZ + r
          BY <1>3, <5>2, Division
        <5>4. e0.x = q /\ r <= e0.y
          BY <5>1
        <5> HIDE DEF q, r
        <5>5. q * BOTTOM_SZ \in Nat /\ r \in Nat
          BY <1>3, <5>3
        <5>6. Ahead(q, e0.y, k)
          BY <1>5, <5>3, <5>4, <5>5 DEF Ahead
        <5>7. Ahead(q, step.j, k)
          <6>1. Calls(step, k) \/ Ahead(e0.x, step.j, k)
            BY <1>5, <5>4, <5>6 DEF Finds
          <6> QED BY <3>1, <5>4, <6>1 DEF Calls
        <5>8. ~(step.j < 0) /\ r <= step.j
          BY <1>6, <5>3, <5>5, <5>7 DEF Ahead
        <5>9. rest = IndexEntry(e0.x, step.j)
          BY <5>8 DEF rest, Rest
        <5>10. rest.kind = "index" /\ rest.x = e0.x /\ rest.y = step.j
          BY <5>9 DEF IndexEntry
        <5>11. Coming(rest, k)
          BY <5>4, <5>8, <5>10 DEF Coming, q, r
        <5> QED BY <1>9, <5>11
      <4> QED BY <4>1, <4>2
    <3> QED BY <2>5, <3>3 DEF Attended, Coming
  <2> QED BY <2>3, <2>4, <2>5
<1>11. NoBlockForgotten'
  <2>1. stage' = stage /\ Used(heap)' = Used(heap)
    BY <1>4 DEF Become
  <2> SUFFICES ASSUME stage' = "mark", ~GC_mark_stack_too_small'
               PROVE  \A k \in Used(heap) : Attended(k)'
    BY <2>1 DEF NoBlockForgotten, Attended, Coming
  <2> QED BY <1>1, <1>10, <2>1
<1> QED
  BY <1>11

\* A step over an index: what it calls is pushed, the rest of the index stays.
LEMMA CustomInv ==
  ASSUME Inv, NEW m \in Marker, HINTGC_process_custom_descr(m)
  PROVE  Inv'
<1> DEFINE step == StepOf(m)
           p == Pushed(step.blocks)
           rest == Rest(m, step)
           s == AfterStep(m, step)
           e0 == Top(m)
<1>1. /\ Marking(m, "index") /\ ~stealing[m] /\ e0.kind = "index"
      /\ called' = called \cup {step.blocks[i] : i \in DOMAIN step.blocks}
      /\ stack' = stack /\ top' = top /\ scanned' = scanned
      /\ \/ /\ Len(s) <= LOCAL_MARK_STACK_SIZE /\ Becomes(m, s)
            /\ GC_mark_stack_too_small' = GC_mark_stack_too_small
         \/ /\ Len(s) > LOCAL_MARK_STACK_SIZE /\ Becomes(m, Discarded(s))
            /\ GC_mark_stack_too_small' = TRUE
  BY DEF HINTGC_process_custom_descr, StepTo, Marking
<1>2. Elements(local[m]) = Elements(Below(m)) \cup {e0}
  BY <1>1, TopAndBelow
<1>3. heap \in Heaps /\ BOTTOM_SZ \in Nat \ {0}
  BY ConstantsAssumption DEF Inv, Types
<1>4. Stepped(m, step, s)
  BY <1>1, StackAfter
<1> HIDE DEF step, s
<1>5. /\ Finds(step, e0.x, e0.y) /\ e0.x \in Nat /\ e0.y \in Nat
      /\ Pushes(step.blocks, Len(step.blocks), p)
  BY <1>4 DEF Stepped
<1>6. /\ step.blocks \in Seq(Used(heap)) /\ step.j \in Int /\ step.j <= e0.y
  BY <1>4 DEF Stepped
<1>7. s \in Seq(Entry) /\ s # <<>> /\ Elements(s) = Elements(Below(m)) \cup {rest} \cup Elements(p)
      /\ \A i \in MAX_STEAL + 1 .. Len(s) : s[i].kind = "range"
  BY <1>4 DEF Stepped
<1> HIDE DEF rest, p
<1>8. called' \subseteq Used(heap)
  <2>1. called \subseteq Used(heap)
    BY DEF Inv, Types
  <2>2. \A i \in DOMAIN step.blocks : step.blocks[i] \in Used(heap)
    BY <1>6
  <2> QED BY <1>1, <2>1, <2>2
<1>9. /\ IsABag(stack') /\ BagToSet(stack') \subseteq Entry /\ top' \in 0 .. GC_mark_stack_size
      /\ scanned' \subseteq Ranges /\ GC_mark_stack_too_small' \in BOOLEAN
  BY <1>1 DEF Inv, Types
<1>10. CASE Len(s) > LOCAL_MARK_STACK_SIZE
  <2>1. Discarded(s) \in Seq(Entry) /\ Fits(FALSE, Discarded(s))
    BY <1>7, <1>10, DiscardedFits
  <2>2. Becomes(m, Discarded(s)) /\ GC_mark_stack_too_small' = TRUE
    <3>1. Len(s) \in Nat /\ LOCAL_MARK_STACK_SIZE \in Nat
      BY <1>7, ConstantsAssumption
    <3> QED BY <1>1, <1>10, <3>1
  <2>3. PICK d : d = Discarded(s)
    OBVIOUS
  <2>4. Become(m, d)
    BY <2>1, <2>2, <2>3, Becoming
  <2>5. NoBlockForgotten'
    BY <2>2 DEF NoBlockForgotten
  <2> QED BY <1>1, <1>8, <1>9, <2>4, <2>5, StepKeeps
<1>11. CASE Len(s) <= LOCAL_MARK_STACK_SIZE
  <2>1. Becomes(m, s) /\ GC_mark_stack_too_small' = GC_mark_stack_too_small
    <3>1. Len(s) \in Nat /\ LOCAL_MARK_STACK_SIZE \in Nat
      BY <1>7, ConstantsAssumption
    <3> QED BY <1>1, <1>11, <3>1
  <2>2. Fits(FALSE, s)
    BY <1>7, <1>11 DEF Fits
  <2>3. Become(m, s)
    BY <1>7, <2>1, <2>2, Becoming
  <2>4. NoBlockForgotten'
    BY <1>1, <1>4, <2>1, <2>3, StepAttends DEF step, s
  <2> QED BY <1>1, <1>8, <1>9, <2>3, <2>4, StepKeeps
<1> QED
  <2>1. Len(s) \in Nat /\ LOCAL_MARK_STACK_SIZE \in Nat
    BY <1>7, ConstantsAssumption
  <2> QED BY <1>10, <1>11, <2>1

\* The program ends.
LEMMA AbortInv ==
  ASSUME Inv, NEW m \in Marker, GC_push_all_impl_Aborts(m)
  PROVE  Inv'
<1>1. /\ heap' = heap /\ phase' = phase /\ stage' = "abort" /\ stack' = stack /\ top' = top
      /\ local' = local /\ stealing' = stealing /\ called' = called /\ scanned' = scanned
      /\ GC_mark_stack_too_small' = GC_mark_stack_too_small
  BY DEF GC_push_all_impl_Aborts
<1>2. Entry' = Entry /\ Ranges' = Ranges /\ Used(heap)' = Used(heap)
  BY <1>1, Frozen
<1>3. Types'
  BY <1>1, <1>2 DEF Inv, Types
<1>4. Locals' /\ Quiet' /\ NoBlockForgotten'
  BY <1>1 DEF Inv, Locals, Fits, Quiet, NoBlockForgotten
<1> QED
  BY <1>3, <1>4 DEF Inv

\* PhaseDone.
LEMMA DoneInv ==
  ASSUME Inv, PhaseDone
  PROVE  Inv'
<1>1. /\ stack' = EmptyBag /\ stack = EmptyBag /\ \A m \in Marker : local[m] = <<>>
      /\ local' = local /\ heap' = heap /\ stealing' = stealing /\ top' = 0
      /\ called' = {} /\ scanned' = {} /\ GC_mark_stack_too_small' = GC_mark_stack_too_small
      /\ phase' \in {1, 2} /\ stage' \in {"push", "done"}
  BY DEF PhaseDone, Inv, Types
<1>2. IsABag(stack') /\ BagToSet(stack') = {}
  BY <1>1, SetBag DEF EmptyBag
<1>3. local' \in [Marker -> Seq(Entry')]
  <2>1. local \in [Marker -> Seq(Entry)]
    BY DEF Inv, Types
  <2>2. local = [m \in Marker |-> local[m]]
    BY <2>1
  <2>3. \A m \in Marker : local[m] \in Seq(Entry')
    <3>1. \A S : <<>> \in Seq(S)
      OBVIOUS
    <3> QED BY <1>1, <3>1, Zenon
  <2> QED BY <1>1, <2>2, <2>3
<1>4. 0 \in 0 .. GC_mark_stack_size
  BY ConstantsAssumption
<1>5. Types'
  BY <1>1, <1>2, <1>3, <1>4 DEF Inv, Types
<1>6. Locals'
  BY <1>1 DEF Inv, Locals, Fits
<1>7. NoBlockForgotten' /\ Quiet'
  BY <1>1 DEF NoBlockForgotten, Quiet
<1> QED
  BY <1>5, <1>6, <1>7 DEF Inv

LEMMA NextInv == Inv /\ [Next]_vars => Inv'
<1> SUFFICES ASSUME Inv, [Next]_vars PROVE Inv'
  OBVIOUS
<1>1. CASE UNCHANGED vars
  <2>1. /\ heap' = heap /\ phase' = phase /\ stage' = stage /\ stack' = stack /\ top' = top
        /\ local' = local /\ stealing' = stealing /\ called' = called /\ scanned' = scanned
        /\ GC_mark_stack_too_small' = GC_mark_stack_too_small
    BY <1>1 DEF vars
  <2>2. Entry' = Entry /\ Ranges' = Ranges /\ Used(heap)' = Used(heap)
    BY <2>1, Frozen
  <2>3. Types'
    BY <2>1, <2>2 DEF Inv, Types
  <2>4. Locals' /\ Quiet'
    BY <2>1 DEF Inv, Locals, Fits, Quiet
  <2>5. Entries' = Entries
    BY <2>1 DEF Entries
  <2>6. Keeps
    BY <2>1, <2>5 DEF Keeps
  <2> QED BY <2>3, <2>4, <2>6, KeepsBlocks DEF Inv
<1>2. CASE PhaseStep
  BY <1>2, PushInv, StealInv, DoneInv DEF PhaseStep
<1>3. CASE \E m \in Marker : MarkerStep(m)
  BY <1>3, BeginInv, ScanInv, PopInv, CustomInv, AbortInv, ReturnAllInv, ShareInv DEF MarkerStep
<1> QED
  BY <1>1, <1>2, <1>3 DEF Next

------------------------------------------------------------------------------
(* Results.                                                                *)

LEMMA Invariance == Spec => []Inv
BY InitInv, NextInv, PTL DEF Spec

\* The stacks hold entries of the indices, ranges of blocks in use, and dummies.
THEOREM TypeCorrect == Spec => []TypeOK
<1>1. Inv => TypeOK
  <2> SUFFICES ASSUME Inv PROVE TypeOK
    OBVIOUS
  <2>1. Types
    BY DEF Inv
  <2>2. \A m \in Marker : \A i \in DOMAIN local[m] : local[m][i] \in Entry
    <3> SUFFICES ASSUME NEW m \in Marker, NEW i \in DOMAIN local[m] PROVE local[m][i] \in Entry
      OBVIOUS
    <3>1. local[m] \in Seq(Entry)
      BY <2>1 DEF Types
    <3> QED BY <3>1
  <2>3. /\ heap \in Heaps /\ phase \in {1, 2} /\ stage \in {"push", "mark", "done", "abort"}
        /\ IsABag(stack) /\ BagToSet(stack) \subseteq Entry
        /\ top \in 0 .. GC_mark_stack_size /\ stealing \in [Marker -> BOOLEAN]
        /\ called \subseteq Used(heap) /\ scanned \subseteq Ranges
        /\ GC_mark_stack_too_small \in BOOLEAN
    BY <2>1 DEF Types
  <2> QED BY <2>2, <2>3, SMTT(40) DEF TypeOK, Entry
<1> QED
  BY <1>1, Invariance, PTL

\* While the stack holds what is found, the walk leaves out no block in use and
\* no range, whatever the blocks, the markers and the size of a step are.
THEOREM NothingForgotten == Spec => []NoBlockForgotten
<1>1. Inv => NoBlockForgotten
  BY DEF Inv
<1> QED
  BY <1>1, Invariance, PTL

\* Where no header upsets the count of slots, a step never finds the local stack
\* full, so that PUSH_OBJ drops nothing and GC_push_all_impl does not abort.
THEOREM StackSuffices == Spec => []LocalStackFits
<1>1. Inv => LocalStackFits
  <2> SUFFICES ASSUME Inv, LimitHolds(heap), NEW m \in Marker, Overflows(m) PROVE FALSE
    BY DEF LocalStackFits, StepsFit
  <2> DEFINE s == AfterStep(m, StepOf(m))
  <2>1. Marking(m, "index") /\ Len(s) > LOCAL_MARK_STACK_SIZE
    BY DEF Overflows
  <2>2. Stepped(m, StepOf(m), s)
    BY <2>1, StackAfter
  <2> HIDE DEF s
  <2>3. s \in Seq(Entry) /\ Len(s) <= LOCAL_MARK_STACK_SIZE
    BY <2>2 DEF Stepped
  <2>4. Len(s) \in Nat /\ LOCAL_MARK_STACK_SIZE \in Nat
    BY <2>3, ConstantsAssumption
  <2> QED BY <2>1, <2>3, <2>4
<1> QED
  BY <1>1, Invariance, PTL

------------------------------------------------------------------------------
(* Hints given while others collect (HintFlags), for any threads and       *)
(* blocks.  The test that lets a hinted collection return at once          *)
(* overlooks no hint, and a collection leaves only hints that were given   *)
(* after its marking.                                                      *)

\* Visiting, seen by the hints left: what the lock holder has not visited yet
\* is in todo, what it has visited was hinted after the marking if it is hinted.
Swept(t) ==
  /\ pc[t] \in {"h_reclaim", "f_pass"} => pending \subseteq todo \cup fresh
  /\ pc[t] \in {"h_assert", "f_unlock"} => pending \subseteq fresh

FlagsInv ==
  /\ FlagsTypeOK
  /\ Exclusive
  /\ PendingCounted
  /\ \A t \in Thread : Swept(t)

\* The steps of one thread, by name.
LEMMA FlagsCases ==
  ASSUME NEW t \in Thread, GC_free(t) \/ HINTGC_collect(t) \/ GC_try_to_collect(t)
  PROVE  \/ CallFree(t) \/ SetFlag(t) \/ AddBytes(t)
         \/ CallHinted(t) \/ AllocSanity(t) \/ Profitable(t)
         \/ AssertNoPending(t) \/ AssertMarked(t) \/ Deallocate(t)
         \/ Acquire(t, "h_lock", "h_profitable") \/ Acquire(t, "idle", "f_clear")
         \/ ClearMarks(t, "h_clear", "h_mark") \/ ClearMarks(t, "f_clear", "f_mark")
         \/ StoppedMark(t, "h_mark", "h_finish") \/ StoppedMark(t, "f_mark", "f_finish")
         \/ FinishCollection(t, "h_finish", "h_reclaim")
         \/ FinishCollection(t, "f_finish", "f_pass")
         \/ (\E b \in todo : VisitBlock(t, "h_reclaim", b))
         \/ (\E b \in todo : VisitBlock(t, "f_pass", b))
         \/ VisitDone(t, "h_reclaim", "h_assert") \/ VisitDone(t, "f_pass", "f_unlock")
         \/ Release(t, "h_unlock", "h_check") \/ Release(t, "f_unlock", "idle")
  BY DEF GC_free, HINTGC_collect, GC_try_to_collect, HINTGC_reclaim_block,
         ClearPendingFree

USE DEF Goto, hints

\* Every variable keeps its type.
LEMMA FlagsTypeStep == FlagsTypeOK /\ [FlagsNext]_flags_vars => FlagsTypeOK'
<1> SUFFICES ASSUME FlagsTypeOK, [FlagsNext]_flags_vars PROVE FlagsTypeOK'
  OBVIOUS
<1> USE DEF FlagsTypeOK, PC, FreePC, SanityPC, HintedPC, FullPC
<1>1. CASE UNCHANGED flags_vars
  BY <1>1 DEF flags_vars
<1>2. CASE FlagsNext
  <2> PICK t \in Thread : GC_free(t) \/ HINTGC_collect(t) \/ GC_try_to_collect(t)
    BY <1>2 DEF FlagsNext
  <2>1. CASE CallFree(t) \/ SetFlag(t) \/ AddBytes(t)
    <3>1. CASE CallFree(t)
      BY <3>1, SMTT(40) DEF CallFree, HasHeader
    <3>2. CASE SetFlag(t)
      BY <3>2, SMTT(40) DEF SetFlag
    <3>3. CASE AddBytes(t)
      BY <3>3, SMTT(40) DEF AddBytes
    <3> QED BY <2>1, <3>1, <3>2, <3>3
  <2>2. CASE CallHinted(t) \/ AllocSanity(t) \/ Profitable(t) \/ AssertNoPending(t)
    BY <2>2 DEF CallHinted, AllocSanity, Profitable, AssertNoPending
  <2>3. CASE AssertMarked(t) \/ Deallocate(t)
    BY <2>3 DEF AssertMarked, Deallocate
  <2>4. CASE Acquire(t, "h_lock", "h_profitable") \/ Acquire(t, "idle", "f_clear")
    BY <2>4 DEF Acquire
  <2>5. CASE ClearMarks(t, "h_clear", "h_mark") \/ ClearMarks(t, "f_clear", "f_mark")
    BY <2>5 DEF ClearMarks
  <2>6. CASE StoppedMark(t, "h_mark", "h_finish") \/ StoppedMark(t, "f_mark", "f_finish")
    BY <2>6 DEF StoppedMark
  <2>7. CASE FinishCollection(t, "h_finish", "h_reclaim")
             \/ FinishCollection(t, "f_finish", "f_pass")
    BY <2>7 DEF FinishCollection
  <2>8. CASE \E b \in todo : VisitBlock(t, "h_reclaim", b) \/ VisitBlock(t, "f_pass", b)
    BY <2>8 DEF VisitBlock
  <2>9. CASE VisitDone(t, "h_reclaim", "h_assert") \/ VisitDone(t, "f_pass", "f_unlock")
    BY <2>9 DEF VisitDone
  <2>10. CASE Release(t, "h_unlock", "h_check") \/ Release(t, "f_unlock", "idle")
    BY <2>10 DEF Release
  <2> QED
    BY <2>1, <2>2, <2>3, <2>4, <2>5, <2>6, <2>7, <2>8, <2>9, <2>10, FlagsCases
<1> QED
  BY <1>1, <1>2

\* A thread in a collection holds the lock, and no other thread is in one.
LEMMA ExclusiveStep == FlagsTypeOK /\ Exclusive /\ [FlagsNext]_flags_vars => Exclusive'
<1> SUFFICES ASSUME FlagsTypeOK, Exclusive, [FlagsNext]_flags_vars PROVE Exclusive'
  OBVIOUS
<1> USE ThreadAssumption DEF FlagsTypeOK, Exclusive, FullPC, HintedPC
<1>1. CASE UNCHANGED flags_vars
  BY <1>1 DEF flags_vars
<1>2. CASE FlagsNext
  <2> PICK t \in Thread : GC_free(t) \/ HINTGC_collect(t) \/ GC_try_to_collect(t)
    BY <1>2 DEF FlagsNext
  <2>1. CASE CallFree(t) \/ SetFlag(t) \/ AddBytes(t)
    BY <2>1 DEF CallFree, SetFlag, AddBytes
  <2>2. CASE CallHinted(t) \/ AllocSanity(t) \/ Profitable(t) \/ AssertNoPending(t)
    BY <2>2 DEF CallHinted, AllocSanity, Profitable, AssertNoPending
  <2>3. CASE AssertMarked(t) \/ Deallocate(t)
    BY <2>3 DEF AssertMarked, Deallocate
  <2>4. CASE Acquire(t, "h_lock", "h_profitable") \/ Acquire(t, "idle", "f_clear")
    BY <2>4 DEF Acquire
  <2>5. CASE ClearMarks(t, "h_clear", "h_mark") \/ ClearMarks(t, "f_clear", "f_mark")
    BY <2>5 DEF ClearMarks
  <2>6. CASE StoppedMark(t, "h_mark", "h_finish") \/ StoppedMark(t, "f_mark", "f_finish")
    BY <2>6 DEF StoppedMark
  <2>7. CASE FinishCollection(t, "h_finish", "h_reclaim")
             \/ FinishCollection(t, "f_finish", "f_pass")
    BY <2>7 DEF FinishCollection
  <2>8. CASE \E b \in todo : VisitBlock(t, "h_reclaim", b) \/ VisitBlock(t, "f_pass", b)
    BY <2>8 DEF VisitBlock
  <2>9. CASE VisitDone(t, "h_reclaim", "h_assert") \/ VisitDone(t, "f_pass", "f_unlock")
    BY <2>9 DEF VisitDone
  <2>10. CASE Release(t, "h_unlock", "h_check") \/ Release(t, "f_unlock", "idle")
    BY <2>10 DEF Release
  <2> QED
    BY <2>1, <2>2, <2>3, <2>4, <2>5, <2>6, <2>7, <2>8, <2>9, <2>10, FlagsCases
<1> QED
  BY <1>1, <1>2

\* No step loses sight of a flag that is set.
LEMMA PendingCountedStep ==
  FlagsTypeOK /\ PendingCounted /\ [FlagsNext]_flags_vars => PendingCounted'
<1> SUFFICES ASSUME FlagsTypeOK, PendingCounted, [FlagsNext]_flags_vars PROVE PendingCounted'
  OBVIOUS
<1> USE DEF FlagsTypeOK, PendingCounted, InFree, Visiting
<1>1. CASE UNCHANGED flags_vars
  BY <1>1 DEF flags_vars
<1>2. CASE FlagsNext
  <2> PICK t \in Thread : GC_free(t) \/ HINTGC_collect(t) \/ GC_try_to_collect(t)
    BY <1>2 DEF FlagsNext
  <2>1. CASE CallFree(t) \/ SetFlag(t) \/ AddBytes(t)
    BY <2>1 DEF CallFree, SetFlag, AddBytes
  <2>2. CASE CallHinted(t) \/ AllocSanity(t) \/ Profitable(t) \/ AssertNoPending(t)
    BY <2>2 DEF CallHinted, AllocSanity, Profitable, AssertNoPending
  <2>3. CASE AssertMarked(t) \/ Deallocate(t)
    BY <2>3 DEF AssertMarked, Deallocate
  <2>4. CASE Acquire(t, "h_lock", "h_profitable") \/ Acquire(t, "idle", "f_clear")
    BY <2>4 DEF Acquire
  <2>5. CASE ClearMarks(t, "h_clear", "h_mark") \/ ClearMarks(t, "f_clear", "f_mark")
    BY <2>5 DEF ClearMarks
  <2>6. CASE StoppedMark(t, "h_mark", "h_finish") \/ StoppedMark(t, "f_mark", "f_finish")
    BY <2>6 DEF StoppedMark
  <2>7. CASE FinishCollection(t, "h_finish", "h_reclaim")
             \/ FinishCollection(t, "f_finish", "f_pass")
    BY <2>7 DEF FinishCollection
  <2>8. CASE \E b \in todo : VisitBlock(t, "h_reclaim", b) \/ VisitBlock(t, "f_pass", b)
    BY <2>8 DEF VisitBlock
  <2>9. CASE VisitDone(t, "h_reclaim", "h_assert") \/ VisitDone(t, "f_pass", "f_unlock")
    BY <2>9 DEF VisitDone
  <2>10. CASE Release(t, "h_unlock", "h_check") \/ Release(t, "f_unlock", "idle")
    BY <2>10 DEF Release
  <2> QED
    BY <2>1, <2>2, <2>3, <2>4, <2>5, <2>6, <2>7, <2>8, <2>9, <2>10, FlagsCases
<1> QED
  BY <1>1, <1>2

\* A hint the marking has acted upon is not yet visited, or it is cleared.
LEMMA SweptStep ==
  FlagsTypeOK /\ Exclusive /\ (\A t \in Thread : Swept(t)) /\ [FlagsNext]_flags_vars
    => \A t \in Thread : Swept(t)'
<1> SUFFICES ASSUME FlagsTypeOK, Exclusive, \A t \in Thread : Swept(t), [FlagsNext]_flags_vars
             PROVE  \A t \in Thread : Swept(t)'
  OBVIOUS
<1> USE DEF FlagsTypeOK, Exclusive, Swept, FullPC, HintedPC
<1>1. CASE UNCHANGED flags_vars
  BY <1>1 DEF flags_vars
<1>2. CASE FlagsNext
  <2> PICK t \in Thread : GC_free(t) \/ HINTGC_collect(t) \/ GC_try_to_collect(t)
    BY <1>2 DEF FlagsNext
  <2>1. CASE CallFree(t) \/ SetFlag(t) \/ AddBytes(t)
    BY <2>1 DEF CallFree, SetFlag, AddBytes
  <2>2. CASE CallHinted(t) \/ AllocSanity(t) \/ Profitable(t) \/ AssertNoPending(t)
    BY <2>2 DEF CallHinted, AllocSanity, Profitable, AssertNoPending
  <2>3. CASE AssertMarked(t) \/ Deallocate(t)
    BY <2>3 DEF AssertMarked, Deallocate
  <2>4. CASE Acquire(t, "h_lock", "h_profitable") \/ Acquire(t, "idle", "f_clear")
    BY <2>4 DEF Acquire
  <2>5. CASE ClearMarks(t, "h_clear", "h_mark") \/ ClearMarks(t, "f_clear", "f_mark")
    BY <2>5 DEF ClearMarks
  <2>6. CASE StoppedMark(t, "h_mark", "h_finish") \/ StoppedMark(t, "f_mark", "f_finish")
    BY <2>6 DEF StoppedMark
  <2>7. CASE FinishCollection(t, "h_finish", "h_reclaim")
             \/ FinishCollection(t, "f_finish", "f_pass")
    BY <2>7 DEF FinishCollection
  <2>8. CASE \E b \in todo : VisitBlock(t, "h_reclaim", b) \/ VisitBlock(t, "f_pass", b)
    BY <2>8 DEF VisitBlock
  <2>9. CASE VisitDone(t, "h_reclaim", "h_assert") \/ VisitDone(t, "f_pass", "f_unlock")
    BY <2>9 DEF VisitDone
  <2>10. CASE Release(t, "h_unlock", "h_check") \/ Release(t, "f_unlock", "idle")
    BY <2>10 DEF Release
  <2> QED
    BY <2>1, <2>2, <2>3, <2>4, <2>5, <2>6, <2>7, <2>8, <2>9, <2>10, FlagsCases
<1> QED
  BY <1>1, <1>2

\* The inductive invariant.
LEMMA FlagsInvHolds == FlagsSpec => []FlagsInv
<1>1. FlagsInit => FlagsInv
  BY DEF FlagsInit, FlagsInv, FlagsTypeOK, Exclusive, PendingCounted, Swept, PC, HintedPC, FullPC
<1>2. FlagsInv /\ [FlagsNext]_flags_vars => FlagsInv'
  BY FlagsTypeStep, ExclusiveStep, PendingCountedStep, SweptStep DEF FlagsInv
<1> QED
  BY <1>1, <1>2, PTL DEF FlagsSpec

\* Every variable keeps its type.
THEOREM FlagsTypeCorrect == FlagsSpec => []FlagsTypeOK
  BY FlagsInvHolds, PTL DEF FlagsInv

\* GC_bytes_pending_free = 0 means that every hint whose GC_free has returned
\* has been dealt with, so HINTGC_collect_inner may return at once.
THEOREM SkipIsSound == FlagsSpec => []ProfitabilitySound
<1>1. FlagsInv => ProfitabilitySound
  BY DEF FlagsInv, FlagsTypeOK, Exclusive, PendingCounted, ProfitabilitySound, Visiting,
         HintedPC, FullPC
<1> QED
  BY <1>1, FlagsInvHolds, PTL

\* A collection, hinted or full, leaves no hint that its marking acted upon.
THEOREM HintsServedOnce == FlagsSpec => []NoStaleHints
<1>1. FlagsInv => NoStaleHints
  BY DEF FlagsInv, Swept, NoStaleHints
<1> QED
  BY <1>1, FlagsInvHolds, PTL

=============================================================================
