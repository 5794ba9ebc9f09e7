-------------------------- MODULE LocalAlloc_proofs --------------------------
(***************************************************************************)
(* For any finite number of threads, blocks and objects: no free object    *)
(* belongs to two lists, none in use to one, and no builder works on a     *)
(* block while a collection changes the mark bits it reads.                *)
(***************************************************************************)
EXTENDS LocalAlloc, FiniteSetTheorems, TLAPS

-----------------------------------------------------------------------------
(* The inductive invariant                                                 *)

\* A thread in GC_generic_malloc_inner or in a collection has the lock.
LockInv ==
  \A t \in Threads : pc[t] \in Inner \cup {"wait"} \cup Collecting => lock = t

\* Only a builder has a block at hand.
IdleInv ==
  \A t \in Threads : pc[t] \notin {"sweep", "build"} => todo[t] = {} /\ built[t] = {}

\* What is on a list, or will be, is in a block in use.
UsedInv ==
  /\ reclaim \subseteq used
  /\ freelist \subseteq SlotsOf(used)
  /\ \A t \in Threads : todo[t] \subseteq SlotsOf(used)

Builders == {t \in Threads : pc[t] \in Building}

\* GC_fl_builder_count is the number of builders.
CountInv == GC_fl_builder_count = Cardinality(Builders)

\* Until it sweeps, a collection leaves no mark out.
MarkedInv ==
  \A t \in Threads : pc[t] = "finish" =>
    /\ live \subseteq marks
    /\ \A u \in Threads : local[u] \subseteq marks

ControlInv == /\ TypeOK /\ LockInv /\ IdleInv /\ UsedInv /\ CountInv
              /\ NoBuilderInCollection /\ MarkedInv

\* What each thread owns, as a function.
Owns == [t \in Threads |-> Own(t)]

\* Of one list, one thread, or the program: own is what threads own, global
\* what is free for all and inUse what the program uses.
Separate(own, global, inUse) ==
  /\ inUse \cap global = {}
  /\ \A t \in Threads :
       /\ own[t] \cap (global \cup inUse) = {}
       /\ \A u \in Threads \ {t} : own[t] \cap own[u] = {}

\* No object on the global list will be put there again by a sweep.
OwnerInv ==
  /\ Separate(Owns, Global, live)
  /\ freelist \cap Unswept = {}

IInv == ControlInv /\ OwnerInv

-----------------------------------------------------------------------------
(* How objects change hands                                                *)

\* Nobody gets anything new.
LEMMA Keeping ==
  ASSUME NEW own, NEW g, NEW l, Separate(own, g, l),
         NEW own2, NEW g2, NEW l2,
         \A t \in Threads : own2[t] \subseteq own[t],
         g2 \subseteq g, l2 \subseteq l
  PROVE  Separate(own2, g2, l2)
  BY Zenon DEF Separate

\* The program gets what nobody keeps.
LEMMA Using ==
  ASSUME NEW own, NEW g, NEW l, Separate(own, g, l),
         NEW own2, NEW g2, NEW l2, NEW s,
         \A t \in Threads : own2[t] \subseteq own[t] /\ s \notin own2[t],
         g2 \subseteq g, s \notin g2, l2 \subseteq l \cup {s}
  PROVE  Separate(own2, g2, l2)
  BY SMT DEF Separate

\* A thread takes objects that are free for all.
LEMMA Taking ==
  ASSUME Separate(Owns, Global, live), NEW t \in Threads, NEW M,
         \A u \in Threads \ {t} : Owns'[u] \subseteq Owns[u],
         Owns'[t] \subseteq Owns[t] \cup M, M \subseteq Global,
         Global' \subseteq Global, M \cap Global' = {}, live' \subseteq live
  PROVE  Separate(Owns', Global', live')
<1>1. Owns'[t] \cap (Global' \cup live') = {}
  BY SMT DEF Separate
<1>2. \A u \in Threads \ {t} : /\ Owns'[t] \cap Owns'[u] = {} /\ Owns'[u] \cap Owns'[t] = {}
                               /\ Owns'[u] \cap (Global' \cup live') = {}
  BY SMT DEF Separate
<1>3. \A u \in Threads \ {t} : \A v \in Threads \ {u, t} : Owns'[u] \cap Owns'[v] = {}
  BY SMT DEF Separate
<1>4. live' \cap Global' = {}
  BY SMT DEF Separate
<1> QED
  BY <1>1, <1>2, <1>3, <1>4, Zenon DEF Separate

\* A thread gives what it owns to all.
LEMMA Giving ==
  ASSUME Separate(Owns, Global, live), NEW t \in Threads,
         \A u \in Threads : Owns'[u] \subseteq Owns[u], Owns'[t] = {},
         Global' \subseteq Global \cup Owns[t], live' \subseteq live
  PROVE  Separate(Owns', Global', live')
  BY SMT DEF Separate

-----------------------------------------------------------------------------
(* Counting builders                                                       *)

\* There are finitely many.
LEMMA BuildersFinite == IsFiniteSet(Builders) /\ Cardinality(Builders) \in Nat
<1>1. Builders \subseteq Threads
  BY DEF Builders
<1> QED
  BY <1>1, FS_Subset, FS_CardinalityType, ConstantsAssumption

\* One more builder.
LEMMA BuilderJoins ==
  ASSUME TypeOK, CountInv, NEW t \in Threads, pc[t] \notin Building,
         NEW there \in Building, Go(t, there), CountBuilder
  PROVE  CountInv'
<1>1. Builders' = Builders \cup {t}
  BY DEF Builders, Go, TypeOK
<1>2. t \notin Builders
  BY DEF Builders
<1> QED
  BY <1>1, <1>2, BuildersFinite, FS_AddElement DEF CountInv, CountBuilder

\* One fewer.
LEMMA BuilderLeaves ==
  ASSUME TypeOK, CountInv, NEW t \in Threads, pc[t] \in Building,
         NEW there, there \notin Building, Go(t, there), Leave(t)
  PROVE  CountInv' /\ GC_fl_builder_count' \in Nat
<1>1. Builders' = Builders \ {t}
  BY DEF Builders, Go, TypeOK
<1>2. t \in Builders
  BY DEF Builders
<1>3. Cardinality(Builders') = Cardinality(Builders) - 1 /\ Cardinality(Builders') \in Nat
  BY <1>1, <1>2, BuildersFinite, FS_RemoveElement, FS_CardinalityType
<1> QED
  BY <1>3 DEF CountInv, Leave

\* As many as before.
LEMMA SameBuilders ==
  ASSUME TypeOK, CountInv, NEW t \in Threads, NEW there, Go(t, there),
         pc[t] \in Building <=> there \in Building, UNCHANGED GC_fl_builder_count
  PROVE  CountInv'
<1>1. Builders' = Builders
  BY DEF Builders, Go, TypeOK
<1> QED
  BY <1>1 DEF CountInv

\* Nobody builds when the count is zero.
LEMMA NoBuilders ==
  ASSUME CountInv, GC_fl_builder_count = 0
  PROVE  \A t \in Threads : pc[t] \notin Building
<1>1. Builders = {}
  BY BuildersFinite, FS_EmptySet DEF CountInv
<1> QED
  BY <1>1 DEF Builders

-----------------------------------------------------------------------------
(* Each part of the invariant, action by action                            *)

\* What thread t may do.
ThreadStep(t) ==
  \/ GC_init_thread_local(t) \/ GC_destroy_thread_local(t)
  \/ Malloc(t) \/ MallocInner(t) \/ MallocMany(t) \/ Builder(t)
  \/ Collect(t) \/ Collector(t)

\* What threads own is in blocks in use.
LEMMA LocalsUsed ==
  ASSUME OwnerInv, TypeOK, NEW t \in Threads
  PROVE  local[t] \subseteq SlotsOf(used)
<1>1. Owns[t] \cap Global = {} /\ local[t] \subseteq Owns[t]
  BY Zenon DEF OwnerInv, Separate, Owns, Own
<1>2. local[t] \subseteq Slot /\ local[t] \cap SlotsOf(Blocks \ used) = {}
  BY <1>1 DEF Global, TypeOK
<1> QED
  BY <1>2 DEF SlotsOf, Slot

\* Types.
LEMMA TypeStep ==
  ASSUME IInv, NEW t \in Threads, ThreadStep(t)
  PROVE  TypeOK'
<1> USE DEF TypeOK, SlotsOf, Slot, Locations, Inner, Collecting, IInv, ControlInv, Go, threadVars, builderVars, heapVars
<1>1. CASE GC_init_thread_local(t)
  BY <1>1, ConstantsAssumption DEF GC_init_thread_local
<1>2. CASE GC_destroy_thread_local(t)
  BY <1>2 DEF GC_destroy_thread_local
<1>3. ASSUME NEW s \in Slot, FastMalloc(t, s) PROVE TypeOK'
  BY <1>3 DEF FastMalloc
<1>4. CASE CountDirect(t)
  BY <1>4, ConstantsAssumption DEF CountDirect
<1>5. CASE Refill(t)
  BY <1>5 DEF Refill
<1>6. CASE GC_core_malloc(t)
  BY <1>6 DEF GC_core_malloc
<1>7. ASSUME NEW s \in Slot, TakeOne(t, s) PROVE TypeOK'
  BY <1>7 DEF TakeOne
<1>8. ASSUME NEW b \in Blocks, GC_continue_reclaim(t, b) PROVE TypeOK'
  BY <1>8 DEF GC_continue_reclaim
<1>9. ASSUME NEW b \in Blocks, GC_new_hblk(t, b) PROVE TypeOK'
  BY <1>9 DEF GC_new_hblk, Allochblk
<1>10. CASE GC_collect_or_expand(t)
  BY <1>10 DEF GC_collect_or_expand, NoMemory
<1>11. CASE MallocFails(t)
  BY <1>11 DEF MallocFails
<1>12. ASSUME NEW b \in Blocks, TakeBlock(t, b) PROVE TypeOK'
  BY <1>12 DEF TakeBlock, CountBuilder
<1>13. ASSUME NEW b \in Blocks, TakeFresh(t, b) PROVE TypeOK'
  BY <1>13 DEF TakeFresh, Allochblk, CountBuilder
<1>14. CASE TakePrefix(t)
  BY <1>14 DEF TakePrefix
<1>15. CASE LastAttempt(t)
  BY <1>15 DEF LastAttempt
<1>16. ASSUME NEW s \in Slot, SweepSlot(t, s) PROVE TypeOK'
  BY <1>16 DEF SweepSlot
<1>17. CASE SweepDone(t)
  BY <1>17 DEF SweepDone, Publish
<1>18. CASE GC_build_fl(t)
  BY <1>18 DEF GC_build_fl
<1>19. CASE FreshDone(t)
  BY <1>19 DEF FreshDone, Publish
<1>20. CASE Published(t)
  BY <1>20, BuilderLeaves DEF Published, Leave, Building
<1>21. CASE Retry(t)
  BY <1>21, BuilderLeaves DEF Retry, Leave, Building
<1>22. CASE Collect(t)
  BY <1>22 DEF Collect
<1>23. CASE GC_wait_for_reclaim(t)
  BY <1>23 DEF GC_wait_for_reclaim
<1>24. CASE GC_clear_marks(t)
  BY <1>24 DEF GC_clear_marks
<1>25. CASE GC_stopped_mark(t)
  <2>1. PICK others \in Others : marks' = Marked \cup others
    BY <1>25 DEF GC_stopped_mark
  <2>2. others \in SUBSET Slot
    BY DEF Others
  <2>3. marks' \in SUBSET Slot
    BY <2>1, <2>2 DEF Marked, LocalLists
  <2> QED
    BY <1>25, <2>3 DEF GC_stopped_mark
<1>26. CASE GC_finish_collection(t)
  BY <1>26 DEF GC_finish_collection
<1> QED
  BY <1>1, <1>2, <1>3, <1>4, <1>5, <1>6, <1>7, <1>8, <1>9, <1>10, <1>11, <1>12, <1>13, <1>14, <1>15, <1>16, <1>17, <1>18, <1>19, <1>20, <1>21, <1>22, <1>23, <1>24, <1>25, <1>26, ZenonT(40)
  DEF ThreadStep, Malloc, MallocInner, MallocMany, Builder, Collector

\* The lock is where it should be.
LEMMA LockStep ==
  ASSUME IInv, NEW t \in Threads, ThreadStep(t)
  PROVE  LockInv'
<1> USE DEF TypeOK, LockInv, Inner, Collecting, IInv, ControlInv, Go, threadVars, builderVars, heapVars
<1>1. CASE GC_init_thread_local(t)
  BY <1>1 DEF GC_init_thread_local
<1>2. CASE GC_destroy_thread_local(t)
  BY <1>2 DEF GC_destroy_thread_local
<1>3. ASSUME NEW s \in Slot, FastMalloc(t, s) PROVE LockInv'
  BY <1>3 DEF FastMalloc
<1>4. CASE CountDirect(t)
  BY <1>4 DEF CountDirect
<1>5. CASE Refill(t)
  BY <1>5 DEF Refill
<1>6. CASE GC_core_malloc(t)
  BY <1>6, ConstantsAssumption DEF GC_core_malloc
<1>7. ASSUME NEW s \in Slot, TakeOne(t, s) PROVE LockInv'
  BY <1>7 DEF TakeOne
<1>8. ASSUME NEW b \in Blocks, GC_continue_reclaim(t, b) PROVE LockInv'
  BY <1>8 DEF GC_continue_reclaim
<1>9. ASSUME NEW b \in Blocks, GC_new_hblk(t, b) PROVE LockInv'
  BY <1>9 DEF GC_new_hblk, Allochblk
<1>10. CASE GC_collect_or_expand(t)
  BY <1>10 DEF GC_collect_or_expand, NoMemory
<1>11. CASE MallocFails(t)
  BY <1>11 DEF MallocFails
<1>12. ASSUME NEW b \in Blocks, TakeBlock(t, b) PROVE LockInv'
  BY <1>12 DEF TakeBlock, CountBuilder
<1>13. ASSUME NEW b \in Blocks, TakeFresh(t, b) PROVE LockInv'
  BY <1>13 DEF TakeFresh, Allochblk, CountBuilder
<1>14. CASE TakePrefix(t)
  BY <1>14 DEF TakePrefix
<1>15. CASE LastAttempt(t)
  BY <1>15, ConstantsAssumption DEF LastAttempt
<1>16. ASSUME NEW s \in Slot, SweepSlot(t, s) PROVE LockInv'
  BY <1>16 DEF SweepSlot
<1>17. CASE SweepDone(t)
  BY <1>17 DEF SweepDone, Publish
<1>18. CASE GC_build_fl(t)
  BY <1>18 DEF GC_build_fl
<1>19. CASE FreshDone(t)
  BY <1>19 DEF FreshDone, Publish
<1>20. CASE Published(t)
  BY <1>20 DEF Published, Leave
<1>21. CASE Retry(t)
  BY <1>21 DEF Retry, Leave
<1>22. CASE Collect(t)
  BY <1>22, ConstantsAssumption DEF Collect
<1>23. CASE GC_wait_for_reclaim(t)
  BY <1>23 DEF GC_wait_for_reclaim
<1>24. CASE GC_clear_marks(t)
  BY <1>24 DEF GC_clear_marks
<1>25. CASE GC_stopped_mark(t)
  BY <1>25 DEF GC_stopped_mark
<1>26. CASE GC_finish_collection(t)
  BY <1>26 DEF GC_finish_collection
<1> QED
  BY <1>1, <1>2, <1>3, <1>4, <1>5, <1>6, <1>7, <1>8, <1>9, <1>10, <1>11, <1>12, <1>13, <1>14, <1>15, <1>16, <1>17, <1>18, <1>19, <1>20, <1>21, <1>22, <1>23, <1>24, <1>25, <1>26
  DEF ThreadStep, Malloc, MallocInner, MallocMany, Builder, Collector

\* What builders have at hand.
LEMMA IdleStep ==
  ASSUME IInv, NEW t \in Threads, ThreadStep(t)
  PROVE  IdleInv'
<1> USE DEF TypeOK, IdleInv, Inner, IInv, ControlInv, Go, threadVars, builderVars, heapVars
<1>1. CASE GC_init_thread_local(t)
  BY <1>1 DEF GC_init_thread_local
<1>2. CASE GC_destroy_thread_local(t)
  BY <1>2 DEF GC_destroy_thread_local
<1>3. ASSUME NEW s \in Slot, FastMalloc(t, s) PROVE IdleInv'
  BY <1>3 DEF FastMalloc
<1>4. CASE CountDirect(t)
  BY <1>4 DEF CountDirect
<1>5. CASE Refill(t)
  BY <1>5 DEF Refill
<1>6. CASE GC_core_malloc(t)
  BY <1>6 DEF GC_core_malloc
<1>7. ASSUME NEW s \in Slot, TakeOne(t, s) PROVE IdleInv'
  BY <1>7 DEF TakeOne
<1>8. ASSUME NEW b \in Blocks, GC_continue_reclaim(t, b) PROVE IdleInv'
  BY <1>8 DEF GC_continue_reclaim
<1>9. ASSUME NEW b \in Blocks, GC_new_hblk(t, b) PROVE IdleInv'
  BY <1>9 DEF GC_new_hblk, Allochblk
<1>10. CASE GC_collect_or_expand(t)
  BY <1>10 DEF GC_collect_or_expand, NoMemory
<1>11. CASE MallocFails(t)
  BY <1>11 DEF MallocFails
<1>12. ASSUME NEW b \in Blocks, TakeBlock(t, b) PROVE IdleInv'
  BY <1>12 DEF TakeBlock, CountBuilder
<1>13. ASSUME NEW b \in Blocks, TakeFresh(t, b) PROVE IdleInv'
  BY <1>13 DEF TakeFresh, Allochblk, CountBuilder
<1>14. CASE TakePrefix(t)
  BY <1>14 DEF TakePrefix
<1>15. CASE LastAttempt(t)
  BY <1>15 DEF LastAttempt
<1>16. ASSUME NEW s \in Slot, SweepSlot(t, s) PROVE IdleInv'
  BY <1>16 DEF SweepSlot
<1>17. CASE SweepDone(t)
  BY <1>17 DEF SweepDone, Publish
<1>18. CASE GC_build_fl(t)
  BY <1>18 DEF GC_build_fl
<1>19. CASE FreshDone(t)
  BY <1>19 DEF FreshDone, Publish
<1>20. CASE Published(t)
  BY <1>20 DEF Published, Leave
<1>21. CASE Retry(t)
  BY <1>21 DEF Retry, Leave
<1>22. CASE Collect(t)
  BY <1>22 DEF Collect
<1>23. CASE GC_wait_for_reclaim(t)
  BY <1>23 DEF GC_wait_for_reclaim
<1>24. CASE GC_clear_marks(t)
  BY <1>24 DEF GC_clear_marks
<1>25. CASE GC_stopped_mark(t)
  BY <1>25 DEF GC_stopped_mark
<1>26. CASE GC_finish_collection(t)
  BY <1>26 DEF GC_finish_collection
<1> QED
  BY <1>1, <1>2, <1>3, <1>4, <1>5, <1>6, <1>7, <1>8, <1>9, <1>10, <1>11, <1>12, <1>13, <1>14, <1>15, <1>16, <1>17, <1>18, <1>19, <1>20, <1>21, <1>22, <1>23, <1>24, <1>25, <1>26
  DEF ThreadStep, Malloc, MallocInner, MallocMany, Builder, Collector

\* Lists are of blocks in use.
LEMMA UsedStep ==
  ASSUME IInv, NEW t \in Threads, ThreadStep(t)
  PROVE  UsedInv'
<1> USE DEF TypeOK, UsedInv, SlotsOf, Slot, IInv, ControlInv, Go, threadVars, builderVars, heapVars
<1>1. CASE GC_init_thread_local(t)
  BY <1>1 DEF GC_init_thread_local
<1>2. CASE GC_destroy_thread_local(t)
  BY <1>2, LocalsUsed DEF GC_destroy_thread_local
<1>3. ASSUME NEW s \in Slot, FastMalloc(t, s) PROVE UsedInv'
  BY <1>3 DEF FastMalloc
<1>4. CASE CountDirect(t)
  BY <1>4 DEF CountDirect
<1>5. CASE Refill(t)
  BY <1>5 DEF Refill
<1>6. CASE GC_core_malloc(t)
  BY <1>6 DEF GC_core_malloc
<1>7. ASSUME NEW s \in Slot, TakeOne(t, s) PROVE UsedInv'
  BY <1>7 DEF TakeOne
<1>8. ASSUME NEW b \in Blocks, GC_continue_reclaim(t, b) PROVE UsedInv'
  BY <1>8 DEF GC_continue_reclaim
<1>9. ASSUME NEW b \in Blocks, GC_new_hblk(t, b) PROVE UsedInv'
  BY <1>9 DEF GC_new_hblk, Allochblk
<1>10. CASE GC_collect_or_expand(t)
  BY <1>10 DEF GC_collect_or_expand, NoMemory
<1>11. CASE MallocFails(t)
  BY <1>11 DEF MallocFails
<1>12. ASSUME NEW b \in Blocks, TakeBlock(t, b) PROVE UsedInv'
  BY <1>12 DEF TakeBlock, CountBuilder
<1>13. ASSUME NEW b \in Blocks, TakeFresh(t, b) PROVE UsedInv'
  BY <1>13 DEF TakeFresh, Allochblk, CountBuilder
<1>14. CASE TakePrefix(t)
  BY <1>14 DEF TakePrefix
<1>15. CASE LastAttempt(t)
  BY <1>15 DEF LastAttempt
<1>16. ASSUME NEW s \in Slot, SweepSlot(t, s) PROVE UsedInv'
  BY <1>16 DEF SweepSlot
<1>17. CASE SweepDone(t)
  BY <1>17 DEF SweepDone, Publish
<1>18. CASE GC_build_fl(t)
  BY <1>18 DEF GC_build_fl
<1>19. CASE FreshDone(t)
  BY <1>19 DEF FreshDone, Publish
<1>20. CASE Published(t)
  BY <1>20 DEF Published, Leave
<1>21. CASE Retry(t)
  BY <1>21 DEF Retry, Leave
<1>22. CASE Collect(t)
  BY <1>22 DEF Collect
<1>23. CASE GC_wait_for_reclaim(t)
  BY <1>23 DEF GC_wait_for_reclaim
<1>24. CASE GC_clear_marks(t)
  BY <1>24 DEF GC_clear_marks
<1>25. CASE GC_stopped_mark(t)
  BY <1>25 DEF GC_stopped_mark
<1>26. CASE GC_finish_collection(t)
  <2>1. \A u \in Threads : todo[u] = {}
    BY <1>26 DEF GC_finish_collection, NoBuilderInCollection, IdleInv, Collecting, Building
  <2> QED
    BY <1>26, <2>1 DEF GC_finish_collection
<1> QED
  BY <1>1, <1>2, <1>3, <1>4, <1>5, <1>6, <1>7, <1>8, <1>9, <1>10, <1>11, <1>12, <1>13, <1>14, <1>15, <1>16, <1>17, <1>18, <1>19, <1>20, <1>21, <1>22, <1>23, <1>24, <1>25, <1>26
  DEF ThreadStep, Malloc, MallocInner, MallocMany, Builder, Collector

\* Nobody builds in a collection.
LEMMA NoBuilderStep ==
  ASSUME IInv, NEW t \in Threads, ThreadStep(t)
  PROVE  NoBuilderInCollection'
<1> USE DEF TypeOK, LockInv, NoBuilderInCollection, Inner, Building, Collecting, IInv, ControlInv, Go, threadVars, builderVars, heapVars
<1>1. CASE GC_init_thread_local(t)
  BY <1>1 DEF GC_init_thread_local
<1>2. CASE GC_destroy_thread_local(t)
  BY <1>2 DEF GC_destroy_thread_local
<1>3. ASSUME NEW s \in Slot, FastMalloc(t, s) PROVE NoBuilderInCollection'
  BY <1>3 DEF FastMalloc
<1>4. CASE CountDirect(t)
  BY <1>4 DEF CountDirect
<1>5. CASE Refill(t)
  BY <1>5 DEF Refill
<1>6. CASE GC_core_malloc(t)
  BY <1>6 DEF GC_core_malloc
<1>7. ASSUME NEW s \in Slot, TakeOne(t, s) PROVE NoBuilderInCollection'
  BY <1>7 DEF TakeOne
<1>8. ASSUME NEW b \in Blocks, GC_continue_reclaim(t, b) PROVE NoBuilderInCollection'
  BY <1>8 DEF GC_continue_reclaim
<1>9. ASSUME NEW b \in Blocks, GC_new_hblk(t, b) PROVE NoBuilderInCollection'
  BY <1>9 DEF GC_new_hblk, Allochblk
<1>10. CASE GC_collect_or_expand(t)
  BY <1>10 DEF GC_collect_or_expand, NoMemory
<1>11. CASE MallocFails(t)
  BY <1>11 DEF MallocFails
<1>12. ASSUME NEW b \in Blocks, TakeBlock(t, b) PROVE NoBuilderInCollection'
  BY <1>12, ConstantsAssumption DEF TakeBlock
<1>13. ASSUME NEW b \in Blocks, TakeFresh(t, b) PROVE NoBuilderInCollection'
  BY <1>13, ConstantsAssumption DEF TakeFresh
<1>14. CASE TakePrefix(t)
  BY <1>14 DEF TakePrefix
<1>15. CASE LastAttempt(t)
  BY <1>15 DEF LastAttempt
<1>16. ASSUME NEW s \in Slot, SweepSlot(t, s) PROVE NoBuilderInCollection'
  BY <1>16 DEF SweepSlot
<1>17. CASE SweepDone(t)
  BY <1>17 DEF SweepDone, Publish
<1>18. CASE GC_build_fl(t)
  BY <1>18 DEF GC_build_fl
<1>19. CASE FreshDone(t)
  BY <1>19 DEF FreshDone, Publish
<1>20. CASE Published(t)
  BY <1>20 DEF Published, Leave
<1>21. CASE Retry(t)
  BY <1>21 DEF Retry, Leave
<1>22. CASE Collect(t)
  BY <1>22 DEF Collect
<1>23. CASE GC_wait_for_reclaim(t)
  <2>1. CASE GC_fl_builder_count > 0
    BY <1>23, <2>1 DEF GC_wait_for_reclaim
  <2>2. CASE GC_fl_builder_count = 0
    BY <1>23, <2>2, NoBuilders DEF GC_wait_for_reclaim
  <2> QED
    BY <2>1, <2>2
<1>24. CASE GC_clear_marks(t)
  BY <1>24 DEF GC_clear_marks
<1>25. CASE GC_stopped_mark(t)
  BY <1>25 DEF GC_stopped_mark
<1>26. CASE GC_finish_collection(t)
  BY <1>26 DEF GC_finish_collection
<1> QED
  BY <1>1, <1>2, <1>3, <1>4, <1>5, <1>6, <1>7, <1>8, <1>9, <1>10, <1>11, <1>12, <1>13, <1>14, <1>15, <1>16, <1>17, <1>18, <1>19, <1>20, <1>21, <1>22, <1>23, <1>24, <1>25, <1>26
  DEF ThreadStep, Malloc, MallocInner, MallocMany, Builder, Collector

\* A collection marks the local lists.
LEMMA MarkedStep ==
  ASSUME IInv, NEW t \in Threads, ThreadStep(t)
  PROVE  MarkedInv'
<1> USE DEF TypeOK, LockInv, NoBuilderInCollection, MarkedInv, Inner, Building, Collecting, IInv, ControlInv, Go, threadVars, builderVars, heapVars
<1>1. CASE GC_init_thread_local(t)
  BY <1>1 DEF GC_init_thread_local
<1>2. CASE GC_destroy_thread_local(t)
  BY <1>2 DEF GC_destroy_thread_local
<1>3. ASSUME NEW s \in Slot, FastMalloc(t, s) PROVE MarkedInv'
  BY <1>3 DEF FastMalloc
<1>4. CASE CountDirect(t)
  BY <1>4 DEF CountDirect
<1>5. CASE Refill(t)
  BY <1>5 DEF Refill
<1>6. CASE GC_core_malloc(t)
  BY <1>6 DEF GC_core_malloc
<1>7. ASSUME NEW s \in Slot, TakeOne(t, s) PROVE MarkedInv'
  BY <1>7 DEF TakeOne
<1>8. ASSUME NEW b \in Blocks, GC_continue_reclaim(t, b) PROVE MarkedInv'
  BY <1>8 DEF GC_continue_reclaim
<1>9. ASSUME NEW b \in Blocks, GC_new_hblk(t, b) PROVE MarkedInv'
  BY <1>9 DEF GC_new_hblk, Allochblk
<1>10. CASE GC_collect_or_expand(t)
  BY <1>10 DEF GC_collect_or_expand, NoMemory
<1>11. CASE MallocFails(t)
  BY <1>11 DEF MallocFails
<1>12. ASSUME NEW b \in Blocks, TakeBlock(t, b) PROVE MarkedInv'
  BY <1>12 DEF TakeBlock, CountBuilder
<1>13. ASSUME NEW b \in Blocks, TakeFresh(t, b) PROVE MarkedInv'
  BY <1>13, ConstantsAssumption DEF TakeFresh
<1>14. CASE TakePrefix(t)
  BY <1>14, ConstantsAssumption DEF TakePrefix
<1>15. CASE LastAttempt(t)
  BY <1>15 DEF LastAttempt
<1>16. ASSUME NEW s \in Slot, SweepSlot(t, s) PROVE MarkedInv'
  BY <1>16 DEF SweepSlot
<1>17. CASE SweepDone(t)
  BY <1>17 DEF SweepDone, Publish
<1>18. CASE GC_build_fl(t)
  BY <1>18 DEF GC_build_fl
<1>19. CASE FreshDone(t)
  BY <1>19 DEF FreshDone, Publish
<1>20. CASE Published(t)
  BY <1>20 DEF Published, Leave
<1>21. CASE Retry(t)
  BY <1>21 DEF Retry, Leave
<1>22. CASE Collect(t)
  BY <1>22 DEF Collect
<1>23. CASE GC_wait_for_reclaim(t)
  BY <1>23 DEF GC_wait_for_reclaim
<1>24. CASE GC_clear_marks(t)
  BY <1>24 DEF GC_clear_marks
<1>25. CASE GC_stopped_mark(t)
  <2>1. live \subseteq marks' /\ \A u \in Threads : local[u] \subseteq marks'
    BY <1>25 DEF GC_stopped_mark, Marked, LocalLists
  <2> QED
    BY <1>25, <2>1 DEF GC_stopped_mark
<1>26. CASE GC_finish_collection(t)
  BY <1>26 DEF GC_finish_collection
<1> QED
  BY <1>1, <1>2, <1>3, <1>4, <1>5, <1>6, <1>7, <1>8, <1>9, <1>10, <1>11, <1>12, <1>13, <1>14, <1>15, <1>16, <1>17, <1>18, <1>19, <1>20, <1>21, <1>22, <1>23, <1>24, <1>25, <1>26
  DEF ThreadStep, Malloc, MallocInner, MallocMany, Builder, Collector

\* The count is that of the builders.
LEMMA CountStep ==
  ASSUME IInv, NEW t \in Threads, ThreadStep(t)
  PROVE  CountInv'
<1> USE DEF Building, IInv, ControlInv, threadVars, builderVars, heapVars
<1>1. CASE GC_init_thread_local(t)
  BY <1>1 DEF GC_init_thread_local, CountInv, Builders
<1>2. CASE GC_destroy_thread_local(t)
  BY <1>2 DEF GC_destroy_thread_local, CountInv, Builders
<1>3. ASSUME NEW s \in Slot, FastMalloc(t, s) PROVE CountInv'
  BY <1>3, SameBuilders DEF FastMalloc, Inner
<1>4. CASE CountDirect(t)
  BY <1>4, SameBuilders DEF CountDirect, Inner
<1>5. CASE Refill(t)
  BY <1>5, SameBuilders DEF Refill, Inner
<1>6. CASE GC_core_malloc(t)
  BY <1>6, SameBuilders DEF GC_core_malloc, Inner
<1>7. ASSUME NEW s \in Slot, TakeOne(t, s) PROVE CountInv'
  <2>1. PICK there \in {"run", "filled"} : Go(t, there)
    BY <1>7 DEF TakeOne
  <2> QED
    BY <1>7, <2>1, SameBuilders DEF TakeOne, Inner
<1>8. ASSUME NEW b \in Blocks, GC_continue_reclaim(t, b) PROVE CountInv'
  BY <1>8 DEF GC_continue_reclaim, CountInv, Builders
<1>9. ASSUME NEW b \in Blocks, GC_new_hblk(t, b) PROVE CountInv'
  BY <1>9 DEF GC_new_hblk, CountInv, Builders
<1>10. CASE GC_collect_or_expand(t)
  BY <1>10, SameBuilders DEF GC_collect_or_expand, Inner
<1>11. CASE MallocFails(t)
  BY <1>11, SameBuilders DEF MallocFails, Inner
<1>12. ASSUME NEW b \in Blocks, TakeBlock(t, b) PROVE CountInv'
  BY <1>12, BuilderJoins DEF TakeBlock
<1>13. ASSUME NEW b \in Blocks, TakeFresh(t, b) PROVE CountInv'
  BY <1>13, BuilderJoins DEF TakeFresh
<1>14. CASE TakePrefix(t)
  BY <1>14, SameBuilders DEF TakePrefix, Inner
<1>15. CASE LastAttempt(t)
  BY <1>15, SameBuilders DEF LastAttempt, Inner
<1>16. ASSUME NEW s \in Slot, SweepSlot(t, s) PROVE CountInv'
  BY <1>16 DEF SweepSlot, CountInv, Builders
<1>17. CASE SweepDone(t)
  <2>1. PICK there \in {"publish", "retry"} : Go(t, there)
    BY <1>17 DEF SweepDone, Publish
  <2> QED
    BY <1>17, <2>1, SameBuilders DEF SweepDone, Publish
<1>18. CASE GC_build_fl(t)
  BY <1>18 DEF GC_build_fl, CountInv, Builders
<1>19. CASE FreshDone(t)
  BY <1>19, SameBuilders DEF FreshDone, Inner, Publish
<1>20. CASE Published(t)
  BY <1>20, BuilderLeaves DEF Published
<1>21. CASE Retry(t)
  BY <1>21, BuilderLeaves DEF Retry
<1>22. CASE Collect(t)
  BY <1>22, SameBuilders DEF Collect, Inner
<1>23. CASE GC_wait_for_reclaim(t)
  <2>1. CASE GC_fl_builder_count > 0
    BY <1>23, <2>1 DEF GC_wait_for_reclaim, CountInv, Builders
  <2>2. CASE ~(GC_fl_builder_count > 0)
    BY <1>23, <2>2, SameBuilders DEF GC_wait_for_reclaim
  <2> QED
    BY <2>1, <2>2
<1>24. CASE GC_clear_marks(t)
  BY <1>24, SameBuilders DEF GC_clear_marks, Inner
<1>25. CASE GC_stopped_mark(t)
  BY <1>25, SameBuilders DEF GC_stopped_mark, Inner
<1>26. CASE GC_finish_collection(t)
  <2>1. back[t] \notin Building
    BY DEF TypeOK, Inner
  <2> QED
    BY <1>26, <2>1, SameBuilders DEF GC_finish_collection, Collecting
<1> QED
  BY <1>1, <1>2, <1>3, <1>4, <1>5, <1>6, <1>7, <1>8, <1>9, <1>10, <1>11, <1>12, <1>13, <1>14, <1>15, <1>16, <1>17, <1>18, <1>19, <1>20, <1>21, <1>22, <1>23, <1>24, <1>25, <1>26
  DEF ThreadStep, Malloc, MallocInner, MallocMany, Builder, Collector

\* Every object stays on one list at most.
LEMMA OwnerStep ==
  ASSUME IInv, NEW t \in Threads, ThreadStep(t)
  PROVE  OwnerInv'
<1> USE DEF TypeOK, IInv, ControlInv, OwnerInv, Go, threadVars, builderVars, heapVars
<1>1. CASE GC_init_thread_local(t)
  <2>1. \A u \in Threads : Owns'[u] \subseteq Owns[u]
    BY <1>1 DEF GC_init_thread_local, Owns, Own, Unbuilt
  <2>2. Global' \subseteq Global /\ (freelist \cap Unswept)' = {}
    BY <1>1 DEF GC_init_thread_local, Global, Unswept, Collecting
  <2>3. live' \subseteq live
    BY <1>1 DEF GC_init_thread_local
  <2> QED
    BY <2>1, <2>2, <2>3, Keeping
<1>2. CASE GC_destroy_thread_local(t)
  <2>1. \A u \in Threads : Owns'[u] \subseteq Owns[u]
    BY <1>2 DEF GC_destroy_thread_local, Owns, Own, Unbuilt
  <2>2. Owns'[t] = {}
    BY <1>2 DEF GC_destroy_thread_local, Owns, Own, Unbuilt, IdleInv
  <2>3. local[t] \subseteq Owns[t] /\ Unswept' = Unswept
    BY <1>2 DEF GC_destroy_thread_local, Owns, Own, Unswept
  <2>4. Global' \subseteq Global \cup Owns[t] /\ live' \subseteq live
    BY <1>2, <2>3 DEF GC_destroy_thread_local, Global
  <2>5. Owns[t] \cap Global = {}
    BY Zenon DEF Separate
  <2>6. (freelist \cap Unswept)' = {}
    BY <1>2, <2>3, <2>5 DEF GC_destroy_thread_local, Global
  <2>7. Separate(Owns', Global', live')
    BY <2>1, <2>2, <2>4, Giving
  <2> QED
    BY <2>6, <2>7
<1>3. ASSUME NEW s \in Slot, FastMalloc(t, s) PROVE OwnerInv'
  <2>1. \A u \in Threads : Owns'[u] \subseteq Owns[u]
    BY <1>3 DEF FastMalloc, Owns, Own, Unbuilt
  <2>2. s \in Owns[t] /\ s \notin Owns'[t]
    BY <1>3 DEF FastMalloc, Owns, Own, Unbuilt, IdleInv
  <2>3. Global' = Global /\ (freelist \cap Unswept)' = {}
    BY <1>3 DEF FastMalloc, Global, Unswept, Collecting
  <2>4. s \notin Global' /\ \A u \in Threads : s \notin Owns'[u]
    BY <2>1, <2>2, <2>3 DEF Separate
  <2>5. live' \subseteq live \cup {s}
    BY <1>3 DEF FastMalloc
  <2> QED
    BY <2>1, <2>3, <2>4, <2>5, Using
<1>4. CASE CountDirect(t)
  <2>1. \A u \in Threads : Owns'[u] \subseteq Owns[u]
    BY <1>4 DEF CountDirect, Owns, Own, Unbuilt
  <2>2. Global' \subseteq Global /\ (freelist \cap Unswept)' = {}
    BY <1>4 DEF CountDirect, Global, Unswept, Collecting
  <2>3. live' \subseteq live
    BY <1>4 DEF CountDirect
  <2> QED
    BY <2>1, <2>2, <2>3, Keeping
<1>5. CASE Refill(t)
  <2>1. \A u \in Threads : Owns'[u] \subseteq Owns[u]
    BY <1>5 DEF Refill, Owns, Own, Unbuilt
  <2>2. Global' \subseteq Global /\ (freelist \cap Unswept)' = {}
    BY <1>5 DEF Refill, Global, Unswept, Collecting
  <2>3. live' \subseteq live
    BY <1>5 DEF Refill
  <2> QED
    BY <2>1, <2>2, <2>3, Keeping
<1>6. CASE GC_core_malloc(t)
  <2>1. \A u \in Threads : Owns'[u] \subseteq Owns[u]
    BY <1>6 DEF GC_core_malloc, Owns, Own, Unbuilt
  <2>2. Global' \subseteq Global /\ (freelist \cap Unswept)' = {}
    BY <1>6 DEF GC_core_malloc, Global, Unswept, Collecting
  <2>3. live' \subseteq live
    BY <1>6 DEF GC_core_malloc
  <2> QED
    BY <2>1, <2>2, <2>3, Keeping
<1>7. ASSUME NEW s \in Slot, TakeOne(t, s) PROVE OwnerInv'
  <2>1. Unswept' = Unswept
    BY <1>7 DEF TakeOne, Unswept, Collecting, Inner
  <2>2. s \in Global /\ Global' \subseteq Global
    BY <1>7, <2>1 DEF TakeOne, Global
  <2>3. s \notin Global' /\ (freelist \cap Unswept)' = {}
    <3>1. s \notin SlotsOf(Blocks \ used)
      BY <1>7 DEF TakeOne, UsedInv, SlotsOf
    <3> QED
      BY <1>7, <3>1, <2>1 DEF TakeOne, Global
  <2>4. CASE pc[t] = "inner"
    <3>1. \A u \in Threads : Owns'[u] \subseteq Owns[u]
      BY <1>7, <2>4 DEF TakeOne, Owns, Own, Unbuilt
    <3>2. \A u \in Threads : s \notin Owns'[u]
      BY <2>2, <3>1 DEF Separate
    <3>3. live' \subseteq live \cup {s}
      BY <1>7, <2>4 DEF TakeOne
    <3> QED
      BY <2>2, <2>3, <3>1, <3>2, <3>3, Using
  <2>5. CASE pc[t] # "inner"
    <3>1. \A u \in Threads \ {t} : Owns'[u] \subseteq Owns[u]
      BY <1>7, <2>5 DEF TakeOne, Owns, Own, Unbuilt
    <3>2. Owns'[t] \subseteq Owns[t] \cup {s} /\ live' \subseteq live
      BY <1>7, <2>5 DEF TakeOne, Owns, Own, Unbuilt, Inner
    <3> DEFINE M == {s}
    <3>3. Owns'[t] \subseteq Owns[t] \cup M /\ M \subseteq Global /\ M \cap Global' = {}
      BY <2>2, <2>3, <3>2
    <3> HIDE DEF M
    <3>4. Separate(Owns', Global', live')
      BY <2>2, <3>1, <3>2, <3>3, Taking
    <3> QED
      BY <2>3, <3>4
  <2> QED
    BY <2>4, <2>5
<1>8. ASSUME NEW b \in Blocks, GC_continue_reclaim(t, b) PROVE OwnerInv'
  <2>1. \A u \in Threads : Owns'[u] \subseteq Owns[u]
    BY <1>8 DEF GC_continue_reclaim, Owns, Own, Unbuilt
  <2>2. Global' \subseteq Global /\ (freelist \cap Unswept)' = {}
    BY <1>8 DEF GC_continue_reclaim, Global, Unswept, Collecting, UsedInv, SlotsOf, Slot, LockInv, Inner
  <2>3. live' \subseteq live
    BY <1>8 DEF GC_continue_reclaim
  <2> QED
    BY <2>1, <2>2, <2>3, Keeping
<1>9. ASSUME NEW b \in Blocks, GC_new_hblk(t, b) PROVE OwnerInv'
  <2>1. \A u \in Threads : Owns'[u] \subseteq Owns[u]
    BY <1>9 DEF GC_new_hblk, Allochblk, Owns, Own, Unbuilt, UsedInv, SlotsOf
  <2>2. Global' \subseteq Global /\ (freelist \cap Unswept)' = {}
    BY <1>9 DEF GC_new_hblk, Allochblk, Global, Unswept, Collecting, UsedInv, SlotsOf, Slot
  <2>3. live' \subseteq live
    BY <1>9 DEF GC_new_hblk, Allochblk
  <2> QED
    BY <2>1, <2>2, <2>3, Keeping
<1>10. CASE GC_collect_or_expand(t)
  <2>1. \A u \in Threads : Owns'[u] \subseteq Owns[u]
    BY <1>10 DEF GC_collect_or_expand, Owns, Own, Unbuilt
  <2>2. Global' \subseteq Global /\ (freelist \cap Unswept)' = {}
    BY <1>10 DEF GC_collect_or_expand, Global, Unswept, Collecting, Inner
  <2>3. live' \subseteq live
    BY <1>10 DEF GC_collect_or_expand
  <2> QED
    BY <2>1, <2>2, <2>3, Keeping
<1>11. CASE MallocFails(t)
  <2>1. \A u \in Threads : Owns'[u] \subseteq Owns[u]
    BY <1>11 DEF MallocFails, Owns, Own, Unbuilt
  <2>2. Global' \subseteq Global /\ (freelist \cap Unswept)' = {}
    BY <1>11 DEF MallocFails, Global, Unswept, Collecting, Inner
  <2>3. live' \subseteq live
    BY <1>11 DEF MallocFails
  <2> QED
    BY <2>1, <2>2, <2>3, Keeping
<1>12. ASSUME NEW b \in Blocks, TakeBlock(t, b) PROVE OwnerInv'
  <2> DEFINE M == SlotsOf({b}) \ marks
  <2>1. \A u \in Threads : pc[u] \notin Collecting /\ pc'[u] \notin Collecting
    BY <1>12, ConstantsAssumption DEF TakeBlock, LockInv, Collecting
  <2>2. Unswept = SlotsOf(reclaim) \ marks /\ Unswept' = SlotsOf(reclaim \ {b}) \ marks
    BY <1>12, <2>1 DEF TakeBlock, Unswept
  <2>3. M \subseteq Unswept /\ M \cap Unswept' = {} /\ Unswept' \subseteq Unswept
    BY <1>12, <2>2 DEF TakeBlock, SlotsOf
  <2>4. M \cap freelist = {} /\ (freelist \cap Unswept)' = {}
    BY <1>12, <2>3 DEF TakeBlock
  <2>5. M \cap SlotsOf(Blocks \ used) = {}
    BY <1>12 DEF TakeBlock, UsedInv, SlotsOf
  <2>6. M \subseteq Global /\ M \cap Global' = {} /\ Global' \subseteq Global
    BY <1>12, <2>3, <2>4, <2>5 DEF TakeBlock, Global
  <2>7. \A u \in Threads \ {t} : Owns'[u] \subseteq Owns[u]
    BY <1>12 DEF TakeBlock, Owns, Own, Unbuilt
  <2>8. Owns'[t] \subseteq Owns[t] \cup M /\ live' \subseteq live
    BY <1>12 DEF TakeBlock, Owns, Own, Unbuilt
  <2> HIDE DEF M
  <2>9. Separate(Owns', Global', live')
    BY <2>6, <2>7, <2>8, Taking
  <2> QED
    BY <2>4, <2>9
<1>13. ASSUME NEW b \in Blocks, TakeFresh(t, b) PROVE OwnerInv'
  <2> DEFINE M == SlotsOf({b})
  <2>1. Unswept = {} /\ Unswept' = {}
    BY <1>13 DEF TakeFresh, Unswept, SlotsOf
  <2>2. M \subseteq SlotsOf(Blocks \ used) /\ M \cap SlotsOf(Blocks \ used') = {}
    BY <1>13 DEF TakeFresh, Allochblk, SlotsOf
  <2>3. SlotsOf(Blocks \ used') \subseteq SlotsOf(Blocks \ used)
    BY <1>13 DEF TakeFresh, Allochblk, SlotsOf
  <2>4. freelist = {} /\ freelist' = {}
    BY <1>13 DEF TakeFresh
  <2>5. M \subseteq Global /\ M \cap Global' = {} /\ Global' \subseteq Global
    BY <2>1, <2>2, <2>3, <2>4 DEF Global
  <2>6. \A u \in Threads \ {t} : Owns'[u] \subseteq Owns[u]
    BY <1>13 DEF TakeFresh, Allochblk, Owns, Own, Unbuilt, UsedInv, SlotsOf
  <2>7. Owns'[t] \subseteq Owns[t] \cup M /\ live' \subseteq live
    BY <1>13 DEF TakeFresh, Allochblk, Owns, Own, Unbuilt, IdleInv
  <2> HIDE DEF M
  <2>8. Separate(Owns', Global', live')
    BY <2>5, <2>6, <2>7, Taking
  <2> QED
    BY <2>1, <2>4, <2>8
<1>14. CASE TakePrefix(t)
  <2>1. PICK prefix \in SUBSET freelist :
           /\ local' = [local EXCEPT ![t] = prefix]
           /\ freelist' = freelist \ prefix
    BY <1>14 DEF TakePrefix
  <2>2. Unswept' = Unswept /\ Unswept = {}
    BY <1>14 DEF TakePrefix, Unswept, Collecting, SlotsOf
  <2>3. prefix \subseteq Global /\ Global' \subseteq Global
    BY <1>14, <2>1, <2>2 DEF TakePrefix, Global
  <2>4. prefix \cap Global' = {}
    <3>1. prefix \cap SlotsOf(Blocks \ used) = {}
      BY DEF UsedInv, SlotsOf
    <3> QED
      BY <1>14, <3>1, <2>1, <2>2 DEF TakePrefix, Global
  <2>5. \A u \in Threads \ {t} : Owns'[u] \subseteq Owns[u]
    BY <1>14, <2>1 DEF TakePrefix, Owns, Own, Unbuilt
  <2>6. Owns'[t] \subseteq Owns[t] \cup prefix /\ live' \subseteq live
    BY <1>14, <2>1 DEF TakePrefix, Owns, Own, Unbuilt
  <2>7. Separate(Owns', Global', live')
    BY <2>3, <2>4, <2>5, <2>6, Taking
  <2> QED
    BY <2>2, <2>7
<1>15. CASE LastAttempt(t)
  <2>1. \A u \in Threads : Owns'[u] \subseteq Owns[u]
    BY <1>15 DEF LastAttempt, Owns, Own, Unbuilt
  <2>2. Global' \subseteq Global /\ (freelist \cap Unswept)' = {}
    BY <1>15 DEF LastAttempt, Global, Unswept, Collecting
  <2>3. live' \subseteq live
    BY <1>15 DEF LastAttempt
  <2> QED
    BY <2>1, <2>2, <2>3, Keeping
<1>16. ASSUME NEW s \in Slot, SweepSlot(t, s) PROVE OwnerInv'
  <2>1. \A u \in Threads : Owns'[u] \subseteq Owns[u]
    BY <1>16 DEF SweepSlot, Owns, Own, Unbuilt
  <2>2. Global' \subseteq Global /\ (freelist \cap Unswept)' = {}
    BY <1>16 DEF SweepSlot, Global, Unswept, Collecting
  <2>3. live' \subseteq live
    BY <1>16 DEF SweepSlot
  <2> QED
    BY <2>1, <2>2, <2>3, Keeping
<1>17. CASE SweepDone(t)
  <2>1. \A u \in Threads : Owns'[u] \subseteq Owns[u]
    BY <1>17 DEF SweepDone, Publish, Owns, Own, Unbuilt
  <2>2. Global' \subseteq Global /\ (freelist \cap Unswept)' = {}
    BY <1>17 DEF SweepDone, Publish, Global, Unswept, Collecting
  <2>3. live' \subseteq live
    BY <1>17 DEF SweepDone, Publish
  <2> QED
    BY <2>1, <2>2, <2>3, Keeping
<1>18. CASE GC_build_fl(t)
  <2>1. \A u \in Threads : Owns'[u] \subseteq Owns[u]
    BY <1>18 DEF GC_build_fl, Owns, Own, Unbuilt
  <2>2. Global' \subseteq Global /\ (freelist \cap Unswept)' = {}
    BY <1>18 DEF GC_build_fl, Global, Unswept, Collecting
  <2>3. live' \subseteq live
    BY <1>18 DEF GC_build_fl
  <2> QED
    BY <2>1, <2>2, <2>3, Keeping
<1>19. CASE FreshDone(t)
  <2>1. \A u \in Threads : Owns'[u] \subseteq Owns[u]
    BY <1>19 DEF FreshDone, Publish, Owns, Own, Unbuilt
  <2>2. Global' \subseteq Global /\ (freelist \cap Unswept)' = {}
    BY <1>19 DEF FreshDone, Publish, Global, Unswept, Collecting
  <2>3. live' \subseteq live
    BY <1>19 DEF FreshDone, Publish
  <2> QED
    BY <2>1, <2>2, <2>3, Keeping
<1>20. CASE Published(t)
  <2>1. \A u \in Threads : Owns'[u] \subseteq Owns[u]
    BY <1>20 DEF Published, Leave, Owns, Own, Unbuilt
  <2>2. Global' \subseteq Global /\ (freelist \cap Unswept)' = {}
    BY <1>20 DEF Published, Leave, Global, Unswept, Collecting
  <2>3. live' \subseteq live
    BY <1>20 DEF Published, Leave
  <2> QED
    BY <2>1, <2>2, <2>3, Keeping
<1>21. CASE Retry(t)
  <2>1. \A u \in Threads : Owns'[u] \subseteq Owns[u]
    BY <1>21 DEF Retry, Leave, Owns, Own, Unbuilt
  <2>2. Global' \subseteq Global /\ (freelist \cap Unswept)' = {}
    BY <1>21 DEF Retry, Leave, Global, Unswept, Collecting
  <2>3. live' \subseteq live
    BY <1>21 DEF Retry, Leave
  <2> QED
    BY <2>1, <2>2, <2>3, Keeping
<1>22. CASE Collect(t)
  <2>1. \A u \in Threads : Owns'[u] \subseteq Owns[u]
    BY <1>22 DEF Collect, Owns, Own, Unbuilt
  <2>2. Global' \subseteq Global /\ (freelist \cap Unswept)' = {}
    BY <1>22 DEF Collect, Global, Unswept, Collecting
  <2>3. live' \subseteq live
    BY <1>22 DEF Collect
  <2> QED
    BY <2>1, <2>2, <2>3, Keeping
<1>23. CASE GC_wait_for_reclaim(t)
  <2>1. \A u \in Threads : Owns'[u] \subseteq Owns[u]
    BY <1>23 DEF GC_wait_for_reclaim, Owns, Own, Unbuilt
  <2>2. Global' \subseteq Global /\ (freelist \cap Unswept)' = {}
    BY <1>23 DEF GC_wait_for_reclaim, Global, Unswept, Collecting
  <2>3. live' \subseteq live
    BY <1>23 DEF GC_wait_for_reclaim
  <2> QED
    BY <2>1, <2>2, <2>3, Keeping
<1>24. CASE GC_clear_marks(t)
  <2>0. \A u \in Threads : todo[u] = {} /\ built[u] = {}
    BY <1>24 DEF GC_clear_marks, NoBuilderInCollection, Building, IdleInv, Collecting
  <2>1. \A u \in Threads : Owns'[u] \subseteq Owns[u]
    BY <1>24, <2>0 DEF GC_clear_marks, Owns, Own, Unbuilt
  <2>2. Global' \subseteq Global /\ (freelist \cap Unswept)' = {}
    BY <1>24 DEF GC_clear_marks, Global, Unswept, Collecting
  <2>3. live' \subseteq live
    BY <1>24 DEF GC_clear_marks
  <2> QED
    BY <2>1, <2>2, <2>3, Keeping
<1>25. CASE GC_stopped_mark(t)
  <2>0. \A u \in Threads : todo[u] = {} /\ built[u] = {}
    BY <1>25 DEF GC_stopped_mark, NoBuilderInCollection, Building, IdleInv, Collecting
  <2>1. \A u \in Threads : Owns'[u] \subseteq Owns[u]
    BY <1>25, <2>0 DEF GC_stopped_mark, Owns, Own, Unbuilt
  <2>2. Global' \subseteq Global /\ (freelist \cap Unswept)' = {}
    BY <1>25 DEF GC_stopped_mark, Global, Unswept, Collecting
  <2>3. live' \subseteq live
    BY <1>25 DEF GC_stopped_mark
  <2> QED
    BY <2>1, <2>2, <2>3, Keeping
<1>26. CASE GC_finish_collection(t)
  <2>1. \A u \in Threads : Owns[u] = local[u] /\ Owns'[u] = local[u]
    BY <1>26 DEF GC_finish_collection, Owns, Own, Unbuilt, NoBuilderInCollection, IdleInv,
             Collecting, Building
  <2>2. live \subseteq marks /\ \A u \in Threads : Owns[u] \subseteq marks
    BY <1>26, <2>1 DEF GC_finish_collection, MarkedInv
  <2>3. Unswept' \subseteq Slot \ marks' /\ freelist' = {} /\ live' = live
    BY <1>26 DEF GC_finish_collection, Unswept, SlotsOf, Slot
  <2>4. ASSUME NEW x \in marks, x \notin Global PROVE x \notin Global'
    <3>1. x \in Slot /\ x \notin freelist /\ x[1] \in used
      BY <2>4 DEF Global, SlotsOf, Slot
    <3>2. x \in In(x[1], marks) /\ x[1] \in used'
      BY <1>26, <2>4, <3>1 DEF GC_finish_collection, In, Emptied
    <3>3. x \notin SlotsOf(Blocks \ used') /\ x \in marks'
      BY <1>26, <2>4, <3>1, <3>2 DEF GC_finish_collection, SlotsOf
    <3> QED
      BY <2>3, <3>3 DEF Global
  <2>5. live' \cap Global' = {}
    BY <2>2, <2>3, <2>4 DEF Separate
  <2>6. \A u \in Threads : Owns'[u] \cap Global' = {}
    BY <2>1, <2>2, <2>4 DEF Separate
  <2>7. Separate(Owns', Global', live')
    BY <2>1, <2>3, <2>5, <2>6, Zenon DEF Separate
  <2> QED
    BY <2>3, <2>7
<1> QED
  BY <1>1, <1>2, <1>3, <1>4, <1>5, <1>6, <1>7, <1>8, <1>9, <1>10, <1>11, <1>12, <1>13, <1>14, <1>15, <1>16, <1>17, <1>18, <1>19, <1>20, <1>21, <1>22, <1>23, <1>24, <1>25, <1>26
  DEF ThreadStep, Malloc, MallocInner, MallocMany, Builder, Collector

\* The program drops an object.
LEMMA DropStep ==
  ASSUME IInv, NEW s \in Slot, Drop(s)
  PROVE  IInv'
<1>1. ControlInv'
  BY DEF IInv, ControlInv, TypeOK, LockInv, IdleInv, UsedInv, CountInv, Builders,
         NoBuilderInCollection, MarkedInv, Drop, threadVars, builderVars, heapVars
<1>2. Owns' = Owns /\ Global' = Global /\ Unswept' = Unswept /\ live' \subseteq live
  BY DEF Drop, Owns, Own, Unbuilt, Global, Unswept, threadVars, builderVars, heapVars
<1>3. freelist' = freelist
  BY DEF Drop, heapVars
<1>4. OwnerInv'
  BY <1>2, <1>3, Keeping DEF IInv, OwnerInv
<1> QED
  BY <1>1, <1>4 DEF IInv

\* At first there are no lists at all.
LEMMA InitInv == Init => IInv
<1> SUFFICES ASSUME Init PROVE IInv
  OBVIOUS
<1>1. Builders = {} /\ Cardinality({}) = 0
  BY FS_EmptySet DEF Init, Builders, Building
<1>2. TypeOK
  <2>1. /\ pc \in [Threads -> Locations] /\ back \in [Threads -> {"run"} \cup Inner]
        /\ direct \in [Threads -> 0 .. Direct] /\ GC_fl_builder_count \in Nat
    BY ConstantsAssumption DEF Init, Locations
  <2>2. /\ local \in [Threads -> SUBSET Slot] /\ todo \in [Threads -> SUBSET Slot]
        /\ built \in [Threads -> SUBSET Slot]
    BY DEF Init
  <2> QED
    BY <2>1, <2>2 DEF Init, TypeOK
<1>3. CountInv
  BY <1>1 DEF Init, CountInv
<1>4. LockInv /\ IdleInv /\ UsedInv /\ NoBuilderInCollection /\ MarkedInv
  BY DEF Init, LockInv, IdleInv, UsedInv, NoBuilderInCollection, MarkedInv, Inner, Collecting
<1>5. OwnerInv
  BY DEF Init, OwnerInv, Separate, Owns, Own, Unbuilt, Global, Unswept, SlotsOf
<1> QED
  BY <1>2, <1>3, <1>4, <1>5 DEF IInv, ControlInv

\* Every step keeps the invariant.
LEMMA NextInv == IInv /\ [Next]_vars => IInv'
<1> SUFFICES ASSUME IInv, [Next]_vars PROVE IInv'
  OBVIOUS
<1>1. ASSUME NEW t \in Threads, ThreadStep(t) PROVE IInv'
  <2>1. OwnerInv' /\ LockInv' /\ IdleInv' /\ UsedInv' /\ NoBuilderInCollection' /\ MarkedInv'
    BY <1>1, OwnerStep, LockStep, IdleStep, UsedStep, NoBuilderStep, MarkedStep
  <2>2. CountInv' /\ TypeOK'
    BY <1>1, CountStep, TypeStep
  <2> QED
    BY <2>1, <2>2 DEF IInv, ControlInv
<1>2. CASE \E s \in Slot : Drop(s)
  BY <1>2, DropStep
<1>3. CASE UNCHANGED vars
  BY <1>3 DEF vars, threadVars, builderVars, heapVars, IInv, ControlInv, OwnerInv, TypeOK, LockInv,
         IdleInv, UsedInv, CountInv, Builders, NoBuilderInCollection, MarkedInv, Owns, Own, Unbuilt,
         Global, Unswept
<1> QED
  BY <1>1, <1>2, <1>3 DEF Next, ThreadStep

-----------------------------------------------------------------------------
(* Theorems                                                                *)

\* So it always holds.
LEMMA Invariant == Spec => []IInv
  BY InitInv, NextInv, PTL DEF Spec

\* GC_fl_builder_count never goes below zero, lists are lists of objects, and
\* everything else has its type too.
THEOREM TypeCorrect == Spec => []TypeOK
<1>1. IInv => TypeOK
  BY DEF IInv, ControlInv
<1> QED
  BY <1>1, Invariant, PTL

\* No free object belongs to two threads or to one and the global lists, now or
\* after a sweep.
THEOREM OneOwnerOnly == Spec => []OneOwner
<1>1. IInv => OneOwner
  BY DEF IInv, OwnerInv, Separate, Owns, OneOwner
<1> QED
  BY <1>1, Invariant, PTL

\* What the program uses is on no list and in no free block, and no sweep will
\* put it on one.
THEOREM LiveNeverFree == Spec => []LiveIsNotFree
<1>1. IInv => LiveIsNotFree
  <2> SUFFICES ASSUME IInv PROVE LiveIsNotFree
    OBVIOUS
  <2>1. live \cap Global = {} /\ \A t \in Threads : Own(t) \cap live = {}
    BY DEF IInv, OwnerInv, Separate, Owns
  <2> QED
    BY <2>1 DEF LiveIsNotFree
<1> QED
  BY <1>1, Invariant, PTL

\* No builder is at work between the clearing of the mark bits and the end of a
\* collection.
THEOREM CollectionsWait == Spec => []NoBuilderInCollection
<1>1. IInv => NoBuilderInCollection
  BY DEF IInv, ControlInv
<1> QED
  BY <1>1, Invariant, PTL

\* A collection ends with the local lists marked.
THEOREM ListsAreMarked == Spec => []LocalListsMarked
<1>1. IInv => LocalListsMarked
  BY DEF IInv, ControlInv, MarkedInv, LocalListsMarked, LocalLists
<1> QED
  BY <1>1, Invariant, PTL
=============================================================================
