-------------------------- MODULE HintHeap_proofs --------------------------
(***************************************************************************)
(* For any number of blocks, objects and markers: no collection, hinted or *)
(* full, no sweep and no explicit deallocation gives back an object that   *)
(* is in use, or gives one back twice.                                     *)
(***************************************************************************)
EXTENDS HintHeap, FiniteSetTheorems, TLAPS

Unc(s) == IS_UNCOLLECTABLE(kind[s[1]])

\* An object in use is on no free list and in no free block, and it is marked
\* wherever its mark bit is what protects it.
LiveOK ==
  \A s \in live :
    /\ s \notin freelist /\ kind[s[1]] # "free"
    /\ s[1] \in reclaim \/ Unc(s) \/ pc = "marked" => s \in marks

\* So is an object on a free list, but while the marks of those are wrong.
FreeOK ==
  pc # "marked" =>
    \A s \in freelist :
      /\ kind[s[1]] # "free"
      /\ s[1] \in reclaim \/ Unc(s) => s \in marks

\* A free block is neither marked nor to be swept.
BlockOK ==
  /\ \A b \in reclaim : kind[b] # "free"
  /\ \A s \in marks : kind[s[1]] # "free"

\* The sanity object is in use until HINTGC_collect gives it back.
SanityOK ==
  /\ request.sanity => request.kind = "NORMAL"
  /\ sanity_stage # "none" => sanity \in live /\ kind[sanity[1]] = "NORMAL"

\* hb_n_marks counts the marks, or with several markers is not zero if any.
CountOK ==
  \A b \in Blocks :
    IF Parallel THEN In(b, marks) # {} => hb_n_marks[b] > 0
                ELSE hb_n_marks[b] = Cardinality(In(b, marks))

IInv == TypeOK /\ CountOK /\ LiveOK /\ FreeOK /\ BlockOK /\ SanityOK

-----------------------------------------------------------------------------
(* Slots and counts                                                        *)

\* A slot is a block and an index.
LEMMA SlotFacts ==
  ASSUME NEW s \in Slot
  PROVE  /\ s[1] \in Blocks /\ s[2] \in Index /\ s = <<s[1], s[2]>>
         /\ \A B : s \in SlotsOf(B) <=> s[1] \in B
         /\ \A S : s \in S <=> s[2] \in In(s[1], S)
  BY DEF Slot, SlotsOf, In

\* The slots of blocks are slots.
LEMMA SlotsOfType == \A B \in SUBSET Blocks : SlotsOf(B) \in SUBSET Slot
  BY DEF Slot, SlotsOf

\* What a block holds of a set of slots is finite.
LEMMA InFinite ==
  ASSUME NEW b, NEW S
  PROVE  /\ IsFiniteSet(In(b, S)) /\ Cardinality(In(b, S)) \in Nat
         /\ Cardinality(In(b, S)) <= HBLK_OBJS
         /\ Cardinality(In(b, S)) = 0 <=> In(b, S) = {}
<1>1. In(b, S) \in SUBSET Index
  BY DEF In
<1>2. IsFiniteSet(In(b, S)) /\ Cardinality(In(b, S)) <= HBLK_OBJS
  BY <1>1, FS_Subset, HeapAssumption DEF HBLK_OBJS
<1> QED
  BY <1>2, FS_CardinalityType, FS_EmptySet

\* A block holds at least one object.
LEMMA ObjsPositive == HBLK_OBJS \in Nat /\ HBLK_OBJS > 0
<1>1. HBLK_OBJS \in Nat /\ (HBLK_OBJS = 0 <=> Index = {})
  BY FS_CardinalityType, FS_EmptySet, HeapAssumption DEF HBLK_OBJS
<1> QED
  BY <1>1, HeapAssumption

\* A block all of whose objects are marked has HBLK_OBJS marks.
LEMMA WholeBlock ==
  ASSUME NEW b \in Blocks, NEW S, SlotsOf({b}) \subseteq S
  PROVE  In(b, S) = Index /\ Cardinality(In(b, S)) = HBLK_OBJS
<1>1. In(b, S) = Index
  BY DEF In, SlotsOf
<1> QED
  BY <1>1 DEF HBLK_OBJS

\* GC_clear_fl_marks leaves a count that is right, or not too low.
LEMMA CountAfterOK ==
  ASSUME TypeOK, CountOK, NEW b \in Blocks
  PROVE  /\ CountAfter(b) \in Nat
         /\ IF Parallel THEN In(b, marks \ freelist) # {} => CountAfter(b) > 0
                        ELSE CountAfter(b) = Cardinality(In(b, marks \ freelist))
<1> DEFINE M == In(b, marks)
           K == In(b, marks \cap freelist)
<1>1. K = M \cap K /\ In(b, marks \ freelist) = M \ K
  BY DEF In
<1>2. Cardinality(M \ K) = Cardinality(M) - Cardinality(K)
  <2>1. IsFiniteSet(M)
    BY InFinite
  <2> QED
    BY <2>1, <1>1, FS_Difference, ZenonT(40)
<1>3. Cardinality(M) \in Nat /\ Cardinality(K) \in Nat /\ Cardinality(M \ K) \in Nat
      /\ (Cardinality(K) = 0 <=> K = {})
  BY <1>1, InFinite
<1>4. hb_n_marks[b] \in Nat
  BY DEF TypeOK
<1>5. CASE Parallel
  <2>1. Cardinality(K) > 0 => CountAfter(b) \in Nat /\ CountAfter(b) > 0
    BY <1>3, <1>4, <1>5 DEF CountAfter
  <2>2. Cardinality(K) = 0 => CountAfter(b) = hb_n_marks[b]
    BY <1>3, <1>4, <1>5 DEF CountAfter
  <2>3. M \ K # {} => hb_n_marks[b] > 0
    BY <1>5 DEF CountOK
  <2> QED
    BY <2>1, <2>2, <2>3, <1>1, <1>3, <1>4, <1>5
<1>6. CASE ~Parallel
  <2>1. CountAfter(b) = Cardinality(M) - Cardinality(K)
    BY <1>3, <1>6 DEF CountAfter, CountOK
  <2> QED
    BY <2>1, <1>1, <1>2, <1>3, <1>6
<1> QED
  BY <1>5, <1>6

-----------------------------------------------------------------------------
(* The steps                                                               *)

USE DEF headers, hints, lists, control, sanities

LEMMA InitOK == Init => IInv
<1> SUFFICES ASSUME Init PROVE IInv
  OBVIOUS
<1>1. CountOK
  <2> SUFFICES ASSUME NEW b \in Blocks
               PROVE  In(b, marks) = {} /\ hb_n_marks[b] = Cardinality(In(b, marks))
    BY DEF CountOK
  <2>1. In(b, marks) = {} /\ hb_n_marks[b] = 0
    BY DEF Init, In
  <2> QED
    BY <2>1, FS_EmptySet
<1> QED
  BY <1>1, HeapAssumption DEF Init, IInv, TypeOK, LiveOK, FreeOK, BlockOK, SanityOK

\* The steps that change no block, no list and no object in use.
LEMMA IdleStep ==
  ASSUME IInv, Malloc \/ MallocSanity \/ MallocFails \/ SkipHinted \/ UNCHANGED vars
  PROVE  IInv'
<1> USE HeapAssumption DEF IInv, TypeOK, CountOK, LiveOK, FreeOK, BlockOK, SanityOK, Unc
<1>1. CASE Malloc
  BY <1>1 DEF Malloc
<1>2. CASE MallocSanity
  BY <1>2 DEF MallocSanity
<1>3. CASE MallocFails
  BY <1>3 DEF MallocFails, NoMemory
<1>4. CASE SkipHinted
  BY <1>4 DEF SkipHinted
<1>5. CASE UNCHANGED vars
  BY <1>5 DEF vars
<1> QED
  BY <1>1, <1>2, <1>3, <1>4, <1>5

\* An object that leaves its free list was in use nowhere.
LEMMA PopStep ==
  ASSUME IInv, NEW s \in Slot, Pop(s)
  PROVE  IInv'
<1> USE DEF IInv, Pop
<1>1. s \in freelist /\ kind[s[1]] = request.kind
  BY DEF Available, OfKind, KindOf, BlockOf
<1>2. TypeOK' /\ CountOK'
  BY DEF TypeOK, CountOK
<1>3. LiveOK'
  BY <1>1 DEF LiveOK, FreeOK, Unc
<1>4. FreeOK' /\ BlockOK'
  BY DEF FreeOK, BlockOK, Unc
<1>5. SanityOK'
  BY <1>1 DEF SanityOK
<1> QED
  BY <1>2, <1>3, <1>4, <1>5

\* What a sweep adds to a free list was in use nowhere.
LEMMA SweepStep ==
  ASSUME IInv, NEW b \in Blocks, GC_continue_reclaim(b)
  PROVE  IInv'
<1> USE DEF IInv, GC_continue_reclaim, GC_reclaim_generic
<1>1. b \in reclaim /\ SlotsOf({b}) \in SUBSET Slot
  BY SlotsOfType DEF ToSweep
<1>2. \A s \in Slot : s \in SlotsOf({b}) <=> s[1] = b
  BY SlotFacts
<1>3. TypeOK'
  <2>1. CASE IS_UNCOLLECTABLE(kind[b])
    <3>1. hb_n_marks' \in [Blocks -> Nat]
      BY <2>1, ObjsPositive DEF TypeOK
    <3>2. marks' \in SUBSET Slot /\ freelist' \in SUBSET Slot
      BY <2>1, <1>1 DEF TypeOK
    <3> QED
      BY <3>1, <3>2 DEF TypeOK
  <2>2. CASE ~IS_UNCOLLECTABLE(kind[b])
    BY <2>2, <1>1 DEF TypeOK
  <2> QED
    BY <2>1, <2>2
<1>4. CountOK'
  <2> SUFFICES ASSUME NEW c \in Blocks
               PROVE  IF Parallel THEN In(c, marks') # {} => hb_n_marks'[c] > 0
                                  ELSE hb_n_marks'[c] = Cardinality(In(c, marks'))
    BY DEF CountOK
  <2>1. CASE ~IS_UNCOLLECTABLE(kind[b])
    BY <2>1 DEF CountOK
  <2>2. CASE IS_UNCOLLECTABLE(kind[b]) /\ c = b
    BY <2>2, WholeBlock, ObjsPositive DEF TypeOK
  <2>3. CASE IS_UNCOLLECTABLE(kind[b]) /\ c # b
    <3>1. In(c, marks') = In(c, marks)
      <4>1. marks' = marks \cup SlotsOf({b})
        BY <2>3
      <4> QED
        BY <4>1, <2>3 DEF In, SlotsOf
    <3>2. hb_n_marks'[c] = hb_n_marks[c]
      BY <2>3 DEF TypeOK
    <3> QED
      BY <3>1, <3>2 DEF CountOK
  <2> QED
    BY <2>1, <2>2, <2>3
<1>5. LiveOK'
  BY <1>1, <1>2, ZenonT(40) DEF LiveOK, TypeOK, Unc
<1>6. FreeOK'
  BY <1>1, <1>2 DEF FreeOK, BlockOK, TypeOK, Unc
<1>7. BlockOK' /\ SanityOK'
  BY <1>1, <1>2 DEF BlockOK, SanityOK, TypeOK
<1> QED
  BY <1>3, <1>4, <1>5, <1>6, <1>7

\* Nothing of a free block was in use or on a list.
LEMMA NewBlockStep ==
  ASSUME IInv, NEW b \in Blocks, GC_new_hblk(b)
  PROVE  IInv'
<1> USE DEF IInv, GC_new_hblk
<1>1. kind[b] = "free" /\ SlotsOf({b}) \in SUBSET Slot /\ b \notin reclaim
  BY SlotsOfType DEF FreeBlocks, BlockOK
<1>2. \A s \in Slot : s \in SlotsOf({b}) <=> s[1] = b
  BY SlotFacts
<1>3. request.kind \in Kinds /\ request.kind # "free"
      /\ kind' \in [Blocks -> Kinds \cup {"free"}]
      /\ \A c \in Blocks : kind'[c] = IF c = b THEN request.kind ELSE kind[c]
  BY HeapAssumption DEF TypeOK
<1>4. TypeOK'
  BY <1>1, <1>3, ObjsPositive, SMTT(40) DEF TypeOK, setup_header_flags
<1>5. CountOK'
  <2> SUFFICES ASSUME NEW c \in Blocks
               PROVE  IF Parallel THEN In(c, marks') # {} => hb_n_marks'[c] > 0
                                  ELSE hb_n_marks'[c] = Cardinality(In(c, marks'))
    BY DEF CountOK
  <2>1. CASE c # b
    <3>1. In(c, marks') = In(c, marks)
      <4>1. marks' = marks \cup SlotsOf({b}) \/ marks' = marks \ SlotsOf({b})
        OBVIOUS
      <4> QED
        BY <4>1, <2>1 DEF In, SlotsOf
    <3>2. hb_n_marks'[c] = hb_n_marks[c]
      BY <2>1 DEF TypeOK
    <3> QED
      BY <3>1, <3>2 DEF CountOK
  <2>2. CASE c = b /\ IS_UNCOLLECTABLE(request.kind)
    BY <2>2, WholeBlock, ObjsPositive DEF TypeOK
  <2>3. CASE c = b /\ ~IS_UNCOLLECTABLE(request.kind)
    <3>1. In(c, marks') = {}
      BY <2>3 DEF In, SlotsOf
    <3>2. hb_n_marks'[c] = 0
      BY <2>3 DEF TypeOK
    <3> QED
      BY <3>1, <3>2, FS_EmptySet
  <2> QED
    BY <2>1, <2>2, <2>3
<1>6. \A s \in live \cup freelist : s \in Slot /\ s[1] \in Blocks
  BY SlotFacts DEF TypeOK
<1>7. pc # "marked"
  OBVIOUS
<1>8. LiveOK'
  <2> SUFFICES ASSUME NEW s \in live
               PROVE  /\ s \notin freelist' /\ kind'[s[1]] # "free"
                      /\ s[1] \in reclaim \/ Unc(s)' => s \in marks'
    BY <1>7 DEF LiveOK
  <2>1. s[1] # b /\ s \notin SlotsOf({b})
    BY <1>1, <1>2, <1>6 DEF LiveOK
  <2> QED
    BY <2>1, <1>3, <1>6 DEF LiveOK, Unc
<1>9. FreeOK'
  <2> SUFFICES ASSUME NEW s \in freelist'
               PROVE  /\ kind'[s[1]] # "free"
                      /\ s[1] \in reclaim \/ Unc(s)' => s \in marks'
    BY DEF FreeOK
  <2>1. CASE s \in SlotsOf({b})
    BY <2>1, <1>1, <1>2, <1>3 DEF Unc
  <2>2. CASE s \notin SlotsOf({b})
    BY <2>2, <1>2, <1>3, <1>6, <1>7 DEF FreeOK, Unc
  <2> QED
    BY <2>1, <2>2
<1>10. BlockOK'
  <2>1. \A c \in reclaim' : kind'[c] # "free"
    BY <1>1, <1>3 DEF BlockOK, TypeOK
  <2>2. \A s \in marks' : s \in Slot /\ s[1] \in Blocks
    BY <1>4, SlotFacts DEF TypeOK
  <2>3. \A s \in marks' : kind'[s[1]] # "free"
    BY <2>2, <1>2, <1>3 DEF BlockOK
  <2> QED
    BY <2>1, <2>3 DEF BlockOK
<1>11. SanityOK'
  BY <1>1, <1>3, <1>6 DEF SanityOK
<1> QED
  BY <1>4, <1>5, <1>8, <1>9, <1>10, <1>11

\* The program forgets an object or hints at it.
LEMMA ProgramStep ==
  ASSUME IInv, NEW s \in Slot, Drop(s) \/ GC_free_hint(s)
  PROVE  IInv'
<1> USE DEF IInv
<1>1. s[1] \in Blocks
  BY SlotFacts
<1>2. live' \subseteq live /\ (sanity \in live => sanity \in live')
  BY DEF Drop, GC_free_hint
<1>3. UNCHANGED <<headers, marks, lists, control, sanities>>
  BY DEF Drop, GC_free_hint
<1>4. pending' \in SUBSET Blocks /\ bytes_pending' \in BOOLEAN
  BY <1>1 DEF Drop, GC_free_hint, TypeOK, BlockOf
<1>5. TypeOK' /\ CountOK'
  BY <1>2, <1>3, <1>4 DEF TypeOK, CountOK
<1>6. LiveOK' /\ FreeOK' /\ BlockOK' /\ SanityOK'
  BY <1>2, <1>3 DEF LiveOK, FreeOK, BlockOK, SanityOK, Unc
<1> QED
  BY <1>5, <1>6

\* What is explicitly deallocated was in use, so it is on no free list, and the
\* sweep of its block does not take it: its mark bit is still set.
LEMMA DeallocateStep ==
  ASSUME IInv, (\E s \in Slot : FreeUncollectable(s)) \/ FreeSanity
  PROVE  IInv'
<1> USE DEF IInv
<1>1. PICK s \in live : /\ GC_force_deallocate(s) /\ UNCHANGED hints
                        /\ \/ s = sanity /\ sanity' = NoSlot /\ sanity_stage' = "none"
                           \/ kind[s[1]] = "UNCOLLECTABLE" /\ UNCHANGED sanities
  BY DEF FreeUncollectable, FreeSanity, SanityOK, KindOf, BlockOf
<1> USE <1>1 DEF GC_force_deallocate
<1>2. TypeOK' /\ CountOK' /\ BlockOK'
  BY DEF TypeOK, CountOK, BlockOK
<1>3. LiveOK'
  BY DEF LiveOK, Unc
<1>4. FreeOK'
  BY DEF FreeOK, LiveOK, Unc
<1>5. SanityOK'
  BY DEF SanityOK
<1> QED
  BY <1>2, <1>3, <1>4, <1>5

\* Whatever else a marking marks, it marks what is in use.
LEMMA MarkedFacts ==
  ASSUME IInv, NEW stale \in StaleMarks, NEW B \in SUBSET (Blocks \ FreeBlocks)
  PROVE  LET M == Traced(stale) \cup SlotsOf(B) IN
         M \in SUBSET Slot /\ live \subseteq M /\ \A s \in M : kind[s[1]] # "free"
<1>1. stale \in SUBSET Dead
  BY DEF StaleMarks
<1>2. Dead \in SUBSET Slot /\ SlotsOf(B) \in SUBSET Slot
  BY SlotsOfType DEF Dead, FreeBlocks
<1>3. \A s \in Dead \cup SlotsOf(B) : kind[s[1]] # "free"
  BY <1>2, SlotFacts DEF Dead, FreeBlocks
<1>4. live \in SUBSET Slot /\ marks \in SUBSET Slot
  BY DEF IInv, TypeOK
<1> QED
  BY <1>1, <1>2, <1>3, <1>4 DEF IInv, Traced, LiveOK, BlockOK

\* A marking counts what it marks.
LEMMA CountedOK ==
  ASSUME IInv, NEW whole \in SUBSET Blocks, Counted(whole),
         SlotsOf(whole) \subseteq marks', marks' \in SUBSET Slot,
         \A s \in marks' : kind[s[1]] # "free"
  PROVE  hb_n_marks' \in [Blocks -> Nat] /\ CountOK'
<1>1. hb_n_marks' \in [Blocks -> Nat]
  BY ObjsPositive DEF Counted
<1>2. ASSUME NEW b \in Blocks
      PROVE  IF Parallel THEN In(b, marks') # {} => hb_n_marks'[b] > 0
                         ELSE hb_n_marks'[b] = Cardinality(In(b, marks'))
  <2>1. CASE b \in whole
    <3>1. SlotsOf({b}) \subseteq marks'
      BY <2>1 DEF SlotsOf
    <3> QED
      BY <3>1, <2>1, WholeBlock, ObjsPositive DEF Counted
  <2>2. CASE b \notin whole /\ kind[b] = "free"
    <3>1. In(b, marks') = {} /\ In(b, marks) = {}
      BY <2>2 DEF In, IInv, BlockOK
    <3>2. hb_n_marks'[b] = hb_n_marks[b]
      BY <2>2 DEF Counted, CountsOf
    <3> QED
      BY <3>1, <3>2 DEF IInv, CountOK
  <2>3. CASE b \notin whole /\ kind[b] # "free" /\ b \in Kept /\ ~Changed(b)
    <3>1. hb_n_marks'[b] = hb_n_marks[b] /\ In(b, marks') = In(b, marks)
      BY <2>3 DEF Counted, CountsOf, Changed
    <3> QED
      BY <3>1 DEF IInv, CountOK
  <2>4. CASE b \notin whole /\ kind[b] # "free" /\ ~(b \in Kept /\ ~Changed(b))
    <3>1. hb_n_marks'[b] \in CountOf(Cardinality(In(b, marks')))
      BY <2>4 DEF Counted, CountsOf
    <3>2. Cardinality(In(b, marks')) \in Nat
          /\ (Cardinality(In(b, marks')) = 0 <=> In(b, marks') = {})
      BY InFinite
    <3> QED
      BY <3>1, <3>2 DEF CountOf
  <2> QED
    BY <2>1, <2>2, <2>3, <2>4
<1> QED
  BY <1>1, <1>2 DEF CountOK

\* A full or a hinted marking.
LEMMA MarkStep ==
  ASSUME IInv, GC_gcollect \/ CollectOrExpand \/ StartHinted
  PROVE  IInv'
<1>1. PICK whole \in {{}, Unhinted} :
        /\ Counted(whole)
        /\ \E stale \in StaleMarks : marks' = Traced(stale) \cup SlotsOf(whole)
  <2>1. SlotsOf({}) = {}
    BY DEF SlotsOf
  <2> QED
    BY <2>1 DEF GC_gcollect, CollectOrExpand, StartHinted, StartFull
<1>2. whole \in SUBSET (Blocks \ FreeBlocks)
  BY DEF Unhinted
<1>3. /\ marks' \in SUBSET Slot /\ live \subseteq marks'
      /\ \A s \in marks' : kind[s[1]] # "free"
      /\ SlotsOf(whole) \subseteq marks'
  BY <1>1, <1>2, MarkedFacts
<1>4. hb_n_marks' \in [Blocks -> Nat] /\ CountOK'
  BY <1>1, <1>2, <1>3, CountedOK
<1>5. /\ UNCHANGED <<kind, hints, lists, live, request, sanity>>
      /\ pc' = "marked" /\ gc_kind' \in {"full", "hinted"} /\ resume' \in {"run", "alloc"}
      /\ sanity_stage' \in {"none", "allocated", "collected"}
      /\ (sanity_stage' # "none" => sanity_stage # "none")
  BY DEF IInv, TypeOK, GC_gcollect, CollectOrExpand, StartHinted, StartFull
<1>6. TypeOK'
  BY <1>3, <1>4, <1>5 DEF IInv, TypeOK
<1>7. LiveOK' /\ FreeOK' /\ BlockOK' /\ SanityOK'
  BY <1>3, <1>5 DEF IInv, LiveOK, FreeOK, BlockOK, SanityOK, Unc
<1> QED
  BY <1>4, <1>6, <1>7 DEF IInv

\* What is not on a free list keeps its mark bit, and its block.
LEMMA FinishFacts ==
  ASSUME IInv, GC_finish_collection
  PROVE  /\ CountOK' /\ hb_n_marks' \in [Blocks -> Nat]
         /\ \A b \in Blocks : kind'[b] = IF b \in Emptied THEN "free" ELSE kind[b]
         /\ \A s \in marks' : kind'[s[1]] # "free"
<1>1. marks' = marks \ freelist /\ hb_n_marks' = [b \in Blocks |-> CountAfter(b)]
  BY DEF GC_finish_collection, GC_clear_fl_marks
<1>2. \A b \in Blocks :
        /\ CountAfter(b) \in Nat
        /\ IF Parallel THEN In(b, marks') # {} => CountAfter(b) > 0
                       ELSE CountAfter(b) = Cardinality(In(b, marks'))
  BY <1>1, CountAfterOK DEF IInv
<1>3. CountOK' /\ hb_n_marks' \in [Blocks -> Nat]
  BY <1>1, <1>2 DEF CountOK
<1>4. \A b \in Blocks : kind'[b] = IF b \in Emptied THEN "free" ELSE kind[b]
  BY DEF GC_finish_collection
<1>5. \A b \in Emptied : In(b, marks') = {}
  BY <1>2, InFinite DEF Emptied
<1>6. ASSUME NEW s \in marks' PROVE kind'[s[1]] # "free"
  <2>1. s \in Slot /\ s \in marks
    BY <1>1 DEF IInv, TypeOK
  <2>2. s[1] \in Blocks /\ s[1] \notin Emptied
    BY <2>1, <1>5, SlotFacts
  <2> QED
    BY <2>1, <2>2, <1>4 DEF IInv, BlockOK
<1> QED
  BY <1>3, <1>4, <1>6

LEMMA FinishStep ==
  ASSUME IInv, GC_finish_collection
  PROVE  IInv'
<1> USE DEF IInv, GC_finish_collection, GC_clear_fl_marks
<1>1. live \subseteq marks' /\ marks' \in SUBSET Slot
  BY DEF LiveOK, TypeOK
<1>2. kind' \in [Blocks -> Kinds \cup {"free"}]
  BY DEF TypeOK
<1>3. TypeOK'
  BY <1>1, <1>2, FinishFacts DEF TypeOK, FreeBlocks, Emptied
<1>4. LiveOK'
  BY <1>1, FinishFacts DEF LiveOK
<1>5. FreeOK'
  BY DEF FreeOK
<1>6. BlockOK'
  <2>1. \A b \in reclaim' : b \in Blocks /\ kind[b] # "free" /\ b \notin Emptied
    BY DEF FreeBlocks
  <2> QED
    BY <2>1, FinishFacts DEF BlockOK
<1>7. SanityOK'
  <2> SUFFICES ASSUME sanity_stage # "none"
               PROVE  sanity \in live /\ kind'[sanity[1]] = "NORMAL"
    BY DEF SanityOK
  <2>1. sanity \in live /\ sanity \in marks' /\ kind[sanity[1]] = "NORMAL"
    BY <1>1 DEF SanityOK
  <2>2. sanity[1] \in Blocks
    BY <2>1, SlotFacts DEF TypeOK
  <2> QED
    BY <2>1, <2>2, FinishFacts
<1> QED
  BY <1>3, <1>4, <1>5, <1>6, <1>7, FinishFacts

LEMMA IInvHolds == Spec => []IInv
<1>1. IInv /\ [Next]_vars => IInv'
  BY IdleStep, PopStep, SweepStep, NewBlockStep, ProgramStep, DeallocateStep,
     MarkStep, FinishStep DEF Next
<1> QED
  BY <1>1, InitOK, PTL DEF Spec

-----------------------------------------------------------------------------
(* The theorems                                                            *)

\* Every variable keeps its type: hb_n_marks never goes below zero.
THEOREM TypeCorrect == Spec => []TypeOK
  BY IInvHolds, PTL DEF IInv

\* No object in use is on a free list, in a free block, or left to a sweep.
THEOREM LiveNeverReused == Spec => []NoLiveReused
<1>1. IInv => NoLiveReused
  <2> SUFFICES ASSUME IInv, NEW s \in live PROVE s \notin Reusable
    BY DEF NoLiveReused
  <2>1. s \in Slot
    BY DEF IInv, TypeOK
  <2>2. /\ s \in SlotsOf(FreeBlocks) <=> s[1] \in FreeBlocks
        /\ s \in SlotsOf(reclaim) <=> s[1] \in reclaim
    BY <2>1, SlotFacts
  <2> QED
    BY <2>2 DEF IInv, LiveOK, Reusable, Sweepable, FreeBlocks
<1> QED
  BY <1>1, IInvHolds, PTL

\* What is on a free list is not swept, nor freed with its block.
THEOREM NeverFreedTwice == Spec => []FreeOnce
<1>1. IInv => FreeOnce
  <2> SUFFICES ASSUME IInv, pc # "marked", NEW s \in freelist
               PROVE  s \notin Sweepable \cup SlotsOf(FreeBlocks)
    BY DEF FreeOnce
  <2>1. s \in Slot
    BY DEF IInv, TypeOK
  <2>2. /\ s \in SlotsOf(FreeBlocks) <=> s[1] \in FreeBlocks
        /\ s \in SlotsOf(reclaim) <=> s[1] \in reclaim
    BY <2>1, SlotFacts
  <2> QED
    BY <2>2 DEF IInv, FreeOK, Sweepable, FreeBlocks
<1> QED
  BY <1>1, IInvHolds, PTL

\* Uncollectable objects in use are always marked.
THEOREM UncollectableStaysMarked == Spec => []UncollectableMarked
<1>1. IInv => UncollectableMarked
  BY DEF IInv, LiveOK, UncollectableMarked, Unc, KindOf, BlockOf
<1> QED
  BY <1>1, IInvHolds, PTL

\* A block whose count is zero holds no marks, for any number of markers.
THEOREM ZeroMeansEmpty == Spec => []EmptyMeansUnmarked
<1>1. IInv => EmptyMeansUnmarked
  <2> SUFFICES ASSUME IInv, NEW b \in Blocks, hb_n_marks[b] = 0
               PROVE  In(b, marks) = {}
    BY DEF EmptyMeansUnmarked
  <2>1. Parallel => ~(hb_n_marks[b] > 0)
    OBVIOUS
  <2>2. ~Parallel => Cardinality(In(b, marks)) = 0
    BY DEF IInv, CountOK
  <2> QED
    BY <2>1, <2>2, InFinite DEF IInv, CountOK
<1> QED
  BY <1>1, IInvHolds, PTL

\* A sweep leaves alone what is marked and on no free list.
THEOREM MarkedSurvives == Spec => SweepKeepsMarked
<1>1. IInv /\ [Next]_vars => [pc = "marked" => (marks \ freelist) \cap Reusable' = {}]_vars
  <2> SUFFICES ASSUME IInv, Next, pc = "marked", NEW s \in marks \ freelist
               PROVE  s \notin Reusable'
    OBVIOUS
  <2>1. s \in Slot
    BY DEF IInv, TypeOK
  <2>2. /\ s \in SlotsOf(FreeBlocks') <=> s[1] \in FreeBlocks'
        /\ s[1] \in Blocks
    BY <2>1, SlotFacts
  <2>3. CASE GC_finish_collection
    <3>1. s \in marks' /\ freelist' = {}
      BY <2>3 DEF GC_finish_collection, GC_clear_fl_marks
    <3>2. kind'[s[1]] # "free"
      BY <2>3, <3>1, FinishFacts
    <3> QED
      BY <3>1, <3>2, <2>2 DEF Reusable, Sweepable, FreeBlocks
  <2>4. CASE \E p \in Slot : Drop(p) \/ GC_free_hint(p)
    <3>1. UNCHANGED <<headers, marks, lists>>
      BY <2>4 DEF Drop, GC_free_hint
    <3> QED
      BY <3>1, <2>2 DEF IInv, BlockOK, Reusable, Sweepable, FreeBlocks
  <2> QED
    BY <2>3, <2>4 DEF Next, Malloc, MallocSanity, MallocFails, NoMemory, Pop,
       GC_continue_reclaim, GC_new_hblk, FreeUncollectable, GC_force_deallocate,
       GC_gcollect, CollectOrExpand, StartHinted, SkipHinted, FreeSanity
<1> QED
  BY <1>1, IInvHolds, PTL DEF Spec, SweepKeepsMarked

=============================================================================
