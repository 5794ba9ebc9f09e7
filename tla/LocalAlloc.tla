----------------------------- MODULE LocalAlloc -----------------------------
(***************************************************************************)
(* Thread-local free lists and the free-list builders that refill them:    *)
(* GC_FAST_MALLOC_GRANS, thread_local_alloc.c, GC_generic_malloc_many      *)
(* (mallocx.c) and GC_wait_for_reclaim (pthread_support.c), with           *)
(* GC_parallel set.                                                        *)
(*                                                                         *)
(* A thread takes objects off its own list without any lock.  To refill it *)
(* it takes a block off the reclaim list under the allocation lock, counts *)
(* itself in GC_fl_builder_count, and sweeps the block after giving the    *)
(* lock up.  A collection takes the lock and waits for the count to reach  *)
(* zero before it clears the mark bits that the sweep reads; allocation    *)
(* from local lists goes on until the world stops, and again before the    *)
(* sweep of the collection.                                                *)
(*                                                                         *)
(* Blocks hold objects of one size and of kind NORMAL.  What marking marks *)
(* is HintMark's: here it is everything the program uses, the local lists, *)
(* and any other objects of blocks in use, because they are in blocks      *)
(* without hints or something stale points to them.                        *)
(***************************************************************************)
EXTENDS Integers, FiniteSets

CONSTANTS
  Threads,
  None,        \* no thread
  Blocks,      \* the blocks of the heap
  Index,       \* the objects of a block
  Stale,       \* whether dead objects of blocks with hints may be marked
  Direct       \* allocations of a new thread that go to the global list

Slot == Blocks \X Index

ASSUME ConstantsAssumption ==
  /\ IsFiniteSet(Threads) /\ None \notin Threads
  /\ IsFiniteSet(Blocks) /\ IsFiniteSet(Index) /\ Index # {}
  /\ Direct \in Nat /\ Stale \in BOOLEAN

VARIABLES
  lock,        \* the holder of the allocation lock
  pc,          \* where each thread is
  back,        \* where it goes on after a collection
  alive,       \* the registered threads
  direct,      \* the counter a local list starts as
  local,       \* the local free list of each thread
  todo,        \* the objects a builder has not looked at yet
  built,       \* the list it is building
  GC_fl_builder_count,
  waiting,     \* the collector is blocked on builder_cv
  used,        \* the blocks in use
  marks,       \* the objects whose mark bit is set
  freelist,    \* ok_freelist
  reclaim,     \* ok_reclaim_list
  live         \* the objects the program uses

threadVars == <<back, alive, direct>>
builderVars == <<todo, built, GC_fl_builder_count, waiting>>
heapVars == <<used, marks, freelist, reclaim>>
vars == <<lock, pc, threadVars, local, builderVars, heapVars, live>>

Locations == {"run", "core", "many", "inner", "last", "sweep", "build", "publish", "retry",
              "filled", "wait", "clear", "mark", "finish"}
Inner == {"inner", "last"}    \* in GC_generic_malloc_inner, for GC_malloc or for a list
Building == {"sweep", "build", "publish", "retry"}
Collecting == {"clear", "mark", "finish"}

TypeOK ==
  /\ lock \in Threads \cup {None}
  /\ pc \in [Threads -> Locations]
  /\ back \in [Threads -> {"run"} \cup Inner]
  /\ alive \in SUBSET Threads /\ direct \in [Threads -> 0 .. Direct]
  /\ local \in [Threads -> SUBSET Slot]
  /\ todo \in [Threads -> SUBSET Slot] /\ built \in [Threads -> SUBSET Slot]
  /\ GC_fl_builder_count \in Nat /\ waiting \in BOOLEAN
  /\ used \in SUBSET Blocks /\ marks \in SUBSET Slot
  /\ freelist \in SUBSET Slot /\ reclaim \in SUBSET Blocks
  /\ live \in SUBSET Slot

SlotsOf(B) == B \X Index
In(b, S)   == {s \in S : s[1] = b}
HBLK_OBJS  == Cardinality(Index)
LocalLists == UNION {local[t] : t \in Threads}

Go(t, there) == pc' = [pc EXCEPT ![t] = there]

Init ==
  /\ lock = None
  /\ pc = [t \in Threads |-> "run"]
  /\ back = [t \in Threads |-> "run"]
  /\ alive = {} /\ direct = [t \in Threads |-> 0]
  /\ local = [t \in Threads |-> {}]
  /\ todo = [t \in Threads |-> {}] /\ built = [t \in Threads |-> {}]
  /\ GC_fl_builder_count = 0 /\ waiting = FALSE
  /\ used = {} /\ marks = {} /\ freelist = {} /\ reclaim = {}
  /\ live = {}

-----------------------------------------------------------------------------
(* Threads come and go, each under the allocation lock.                    *)

GC_init_thread_local(t) ==
  /\ t \notin alive /\ lock = None
  /\ alive' = alive \cup {t}
  /\ direct' = [direct EXCEPT ![t] = 0]
  /\ UNCHANGED <<lock, pc, back, local, builderVars, heapVars, live>>

\* Mutant: the list of the thread record is not reset.
GC_destroy_thread_local_KeepsList(t) ==
  /\ t \in alive /\ pc[t] = "run" /\ lock = None
  /\ alive' = alive \ {t}
  /\ freelist' = freelist \cup local[t]
  /\ UNCHANGED <<lock, pc, back, direct, local, builderVars, used, marks, reclaim, live>>

GC_destroy_thread_local(t) ==
  /\ t \in alive /\ pc[t] = "run" /\ lock = None
  /\ alive' = alive \ {t}
  /\ freelist' = freelist \cup local[t]
  /\ local' = [local EXCEPT ![t] = {}]
  /\ UNCHANGED <<lock, pc, back, direct, builderVars, used, marks, reclaim, live>>

-----------------------------------------------------------------------------
(* GC_FAST_MALLOC_GRANS                                                    *)

\* The entry on top of the local list, without a lock.
FastMalloc(t, s) ==
  /\ t \in alive /\ pc[t] \in {"run", "filled"} /\ s \in local[t]
  /\ local' = [local EXCEPT ![t] = @ \ {s}]
  /\ live' = live \cup {s}
  /\ Go(t, "run")
  /\ UNCHANGED <<lock, threadVars, builderVars, heapVars>>

\* The list is still a small counter: GC_core_malloc.
CountDirect(t) ==
  /\ t \in alive /\ pc[t] = "run" /\ local[t] = {} /\ direct[t] < Direct
  /\ direct' = [direct EXCEPT ![t] = @ + 1]
  /\ Go(t, "core")
  /\ UNCHANGED <<lock, back, alive, local, builderVars, heapVars, live>>

\* A large counter or an empty list: GC_generic_malloc_many.
Refill(t) ==
  /\ t \in alive /\ pc[t] = "run" /\ local[t] = {} /\ direct[t] = Direct
  /\ Go(t, "many")
  /\ UNCHANGED <<lock, back, alive, direct, local, builderVars, heapVars, live>>

Drop(s) ==
  /\ s \in live
  /\ live' = live \ {s}
  /\ UNCHANGED <<lock, pc, threadVars, local, builderVars, heapVars>>

-----------------------------------------------------------------------------
(* GC_generic_malloc_inner, under the allocation lock                      *)

GC_core_malloc(t) ==
  /\ pc[t] = "core" /\ lock = None
  /\ lock' = t /\ Go(t, "inner")
  /\ UNCHANGED <<threadVars, local, builderVars, heapVars, live>>

\* The object is the caller's, or the one entry of its local list.
TakeOne(t, s) ==
  /\ pc[t] \in Inner /\ s \in freelist
  /\ freelist' = freelist \ {s}
  /\ lock' = None
  /\ IF pc[t] = "inner"
     THEN Go(t, "run") /\ live' = live \cup {s} /\ UNCHANGED local
     ELSE Go(t, "filled") /\ local' = [local EXCEPT ![t] = {s}] /\ UNCHANGED live
  /\ UNCHANGED <<threadVars, builderVars, used, marks, reclaim>>

GC_continue_reclaim(t, b) ==
  /\ pc[t] \in Inner /\ freelist = {} /\ b \in reclaim
  /\ reclaim' = reclaim \ {b}
  /\ freelist' = SlotsOf({b}) \ marks
  /\ UNCHANGED <<lock, pc, threadVars, local, builderVars, used, marks, live>>

\* GC_allochblk takes a free block and setup_header clears its marks.
Allochblk(b) ==
  /\ b \in Blocks \ used
  /\ used' = used \cup {b}
  /\ marks' = marks \ SlotsOf({b})

GC_new_hblk(t, b) ==
  /\ pc[t] \in Inner /\ freelist = {} /\ reclaim = {}
  /\ Allochblk(b)
  /\ freelist' = SlotsOf({b})
  /\ UNCHANGED <<lock, pc, threadVars, local, builderVars, reclaim, live>>

NoMemory == freelist = {} /\ reclaim = {} /\ used = Blocks

GC_collect_or_expand(t) ==
  /\ pc[t] \in Inner /\ NoMemory
  /\ back' = [back EXCEPT ![t] = pc[t]]
  /\ Go(t, "wait")
  /\ UNCHANGED <<lock, alive, direct, local, builderVars, heapVars, live>>

MallocFails(t) ==
  /\ pc[t] \in Inner /\ NoMemory
  /\ lock' = None /\ Go(t, "run")
  /\ UNCHANGED <<threadVars, local, builderVars, heapVars, live>>

-----------------------------------------------------------------------------
(* GC_generic_malloc_many                                                  *)

\* Mutant: the builder is counted only after the lock has been given up, by
\* when it may have begun.
CountBuilder_Late == UNCHANGED GC_fl_builder_count

CountBuilder == GC_fl_builder_count' = GC_fl_builder_count + 1

\* The head of the reclaim list, to be swept without the lock.
TakeBlock(t, b) ==
  /\ pc[t] = "many" /\ lock = None /\ b \in reclaim
  /\ reclaim' = reclaim \ {b}
  /\ CountBuilder
  /\ todo' = [todo EXCEPT ![t] = SlotsOf({b})]
  /\ Go(t, "sweep")
  /\ UNCHANGED <<lock, threadVars, local, built, waiting, used, marks, freelist, live>>

\* GC_reclaim_generic reads the mark bits one by one.
SweepSlot(t, s) ==
  /\ pc[t] = "sweep" /\ s \in todo[t]
  /\ todo' = [todo EXCEPT ![t] = @ \ {s}]
  /\ built' = IF s \in marks THEN built ELSE [built EXCEPT ![t] = @ \cup {s}]
  /\ UNCHANGED <<lock, pc, threadVars, local, GC_fl_builder_count, waiting, heapVars, live>>

\* *result = op
Publish(t) ==
  /\ local' = [local EXCEPT ![t] = built[t]]
  /\ built' = [built EXCEPT ![t] = {}]
  /\ Go(t, "publish")
  /\ UNCHANGED <<lock, threadVars, todo, GC_fl_builder_count, waiting, heapVars, live>>

SweepDone(t) ==
  /\ pc[t] = "sweep" /\ todo[t] = {}
  /\ IF built[t] # {} THEN Publish(t)
     ELSE /\ Go(t, "retry")
          /\ UNCHANGED <<lock, threadVars, local, builderVars, heapVars, live>>

\* A prefix of the global list, of a block's size at most.
TakePrefix(t) ==
  /\ pc[t] = "many" /\ lock = None /\ reclaim = {} /\ freelist # {}
  /\ \E prefix \in SUBSET freelist :
       /\ \/ prefix = freelist /\ Cardinality(freelist) <= HBLK_OBJS
          \/ Cardinality(prefix) = HBLK_OBJS
       /\ local' = [local EXCEPT ![t] = prefix]
       /\ freelist' = freelist \ prefix
  /\ Go(t, "filled")
  /\ UNCHANGED <<lock, threadVars, builderVars, used, marks, reclaim, live>>

TakeFresh(t, b) ==
  /\ pc[t] = "many" /\ lock = None /\ reclaim = {} /\ freelist = {}
  /\ Allochblk(b)
  /\ CountBuilder
  /\ todo' = [todo EXCEPT ![t] = SlotsOf({b})]
  /\ Go(t, "build")
  /\ UNCHANGED <<lock, threadVars, local, built, waiting, freelist, reclaim, live>>

GC_build_fl(t) ==
  /\ pc[t] = "build" /\ todo[t] # {}
  /\ built' = [built EXCEPT ![t] = todo[t]]
  /\ todo' = [todo EXCEPT ![t] = {}]
  /\ UNCHANGED <<lock, pc, threadVars, local, GC_fl_builder_count, waiting, heapVars, live>>

FreshDone(t) == pc[t] = "build" /\ todo[t] = {} /\ Publish(t)

\* Nothing left: one object by GC_generic_malloc_inner.
LastAttempt(t) ==
  /\ pc[t] = "many" /\ lock = None /\ NoMemory
  /\ lock' = t /\ Go(t, "last")
  /\ UNCHANGED <<threadVars, local, builderVars, heapVars, live>>

\* -- GC_fl_builder_count, and GC_notify_all_builder when it reaches zero.
Leave(t) ==
  /\ GC_fl_builder_count' = GC_fl_builder_count - 1
  /\ waiting' = (waiting /\ GC_fl_builder_count # 1)
  /\ UNCHANGED <<lock, threadVars, local, todo, built, heapVars, live>>

Published(t) == pc[t] = "publish" /\ Go(t, "filled") /\ Leave(t)

\* Mutant: the builder counts itself out after it has got the lock again.
Retry_Locks(t) == pc[t] = "retry" /\ lock = None /\ Go(t, "many") /\ Leave(t)

\* The swept block had no room: the builder leaves before it locks again.
Retry(t) == pc[t] = "retry" /\ Go(t, "many") /\ Leave(t)

-----------------------------------------------------------------------------
(* Collections                                                             *)

\* GC_gcollect or HINTGC_collect.
Collect(t) ==
  /\ t \in alive /\ pc[t] = "run" /\ lock = None
  /\ lock' = t /\ Go(t, "wait")
  /\ UNCHANGED <<threadVars, local, builderVars, heapVars, live>>

\* Mutant: one wait, without looking at the count again.
GC_wait_for_reclaim_NoWait(t) ==
  /\ pc[t] = "wait"
  /\ Go(t, "clear")
  /\ UNCHANGED <<lock, threadVars, local, builderVars, heapVars, live>>

GC_wait_for_reclaim(t) ==
  /\ pc[t] = "wait" /\ ~waiting
  /\ IF GC_fl_builder_count > 0
     THEN waiting' = TRUE /\ UNCHANGED pc
     ELSE Go(t, "clear") /\ UNCHANGED waiting
  /\ UNCHANGED <<lock, threadVars, local, todo, built, GC_fl_builder_count, heapVars, live>>

\* The world is still running.
GC_clear_marks(t) ==
  /\ pc[t] = "clear"
  /\ marks' = {}
  /\ Go(t, "mark")
  /\ UNCHANGED <<lock, threadVars, local, builderVars, used, freelist, reclaim, live>>

\* Mutant: GC_push_roots does not mark the local lists.
Marked_NoLocalLists == live

\* Roots and thread-local lists (GC_mark_thread_local_free_lists).
Marked == live \cup LocalLists

\* A hinted collection marks all of the blocks without hints, whichever they are.
Others == IF Stale THEN SUBSET SlotsOf(used) ELSE {SlotsOf(B) : B \in SUBSET used}

GC_stopped_mark(t) ==
  /\ pc[t] = "mark"
  /\ \E others \in Others : marks' = Marked \cup others
  /\ Go(t, "finish")
  /\ UNCHANGED <<lock, threadVars, local, builderVars, used, freelist, reclaim, live>>

\* With several markers a count never comes down to zero (GC_clear_fl_marks).
Emptied == {b \in used : In(b, marks) = {}}

\* hb_n_marks loses updates (HintHeap): a block without room may look as if it
\* had some, and the other way round.
Counts(b)     == 1 .. Cardinality(In(b, marks')) + 1
NearlyFull(n) == 8 * n > 7 * HBLK_OBJS

GC_finish_collection(t) ==
  /\ pc[t] = "finish"
  /\ marks' = marks \ freelist
  /\ freelist' = {}
  /\ used' = used \ Emptied
  /\ \E count \in [used' -> 1 .. HBLK_OBJS + 1] :
       /\ \A b \in used' : count[b] \in Counts(b)
       /\ reclaim' = {b \in used' : ~NearlyFull(count[b])}
  /\ Go(t, back[t])
  /\ lock' = IF back[t] = "run" THEN None ELSE t
  /\ back' = [back EXCEPT ![t] = "run"]
  /\ UNCHANGED <<alive, direct, local, builderVars, live>>

-----------------------------------------------------------------------------
Builder(t) == \/ \E s \in Slot : SweepSlot(t, s)
              \/ SweepDone(t) \/ GC_build_fl(t) \/ FreshDone(t)
              \/ Published(t) \/ Retry(t)
Collector(t) == \/ GC_wait_for_reclaim(t) \/ GC_clear_marks(t) \/ GC_stopped_mark(t)
                \/ GC_finish_collection(t)
MallocInner(t) == \/ \E s \in Slot : TakeOne(t, s)
                  \/ \E b \in Blocks : GC_continue_reclaim(t, b) \/ GC_new_hblk(t, b)
                  \/ GC_collect_or_expand(t) \/ MallocFails(t)
MallocMany(t) == \/ \E b \in Blocks : TakeBlock(t, b) \/ TakeFresh(t, b)
                 \/ TakePrefix(t) \/ LastAttempt(t)
Malloc(t) == \/ \E s \in Slot : FastMalloc(t, s)
             \/ CountDirect(t) \/ Refill(t) \/ GC_core_malloc(t)

Next ==
  \/ \E t \in Threads : \/ GC_init_thread_local(t) \/ GC_destroy_thread_local(t)
                        \/ Malloc(t) \/ MallocInner(t) \/ MallocMany(t) \/ Builder(t)
                        \/ Collect(t) \/ Collector(t)
  \/ \E s \in Slot : Drop(s)

Spec == Init /\ [][Next]_vars

\* Builders and the collector need nothing but the processor to go on.
FairSpec == Spec /\ \A t \in Threads : WF_vars(Builder(t)) /\ WF_vars(Collector(t))

-----------------------------------------------------------------------------
(* Properties                                                              *)

\* What a sweep will put on a list, as long as the mark bits are those of the
\* last collection.
Unswept == IF \E t \in Threads : pc[t] \in Collecting THEN {} ELSE SlotsOf(reclaim) \ marks
Unbuilt(t) == IF pc[t] = "build" THEN todo[t] ELSE todo[t] \ marks
Own(t) == local[t] \cup built[t] \cup Unbuilt(t)
Global == freelist \cup Unswept \cup SlotsOf(Blocks \ used)

\* No object the program uses is on a list, or will be put on one, or is in a
\* free block, whatever the builders and the collector are doing.
LiveIsNotFree == live \cap (Global \cup UNION {Own(t) : t \in Threads}) = {}

\* No free object belongs to two threads, or to one and to the global lists, now
\* or after a sweep.
OneOwner ==
  \A t \in Threads :
    /\ Own(t) \cap Global = {}
    /\ \A u \in Threads \ {t} : Own(t) \cap Own(u) = {}

\* GC_ASSERT(GC_fl_builder_count == 0) in GC_stop_world and GC_start_reclaim: no
\* builder reads mark bits that a collection clears.
NoBuilderInCollection ==
  (\E t \in Threads : pc[t] \in Collecting) => \A u \in Threads : pc[u] \notin Building

\* GC_check_tls: at the end of a collection all of each local list is marked,
\* although threads have gone on taking objects off it.
LocalListsMarked == (\E t \in Threads : pc[t] = "finish") => LocalLists \subseteq marks

\* Holding the allocation lock, the collector waits for builders that have given
\* it up and may want it again; it never waits for ever.
CollectorGoesOn == \A t \in Threads : (pc[t] = "wait") ~> (pc[t] = "clear")

=============================================================================
