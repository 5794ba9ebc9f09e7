------------------------------ MODULE HintHeap ------------------------------
(***************************************************************************)
(* The life of small objects of one size: free lists, lazy sweeping,       *)
(* explicit deallocation, hints, and the two collections (malloc.c,        *)
(* new_hblk.c, reclaim.c, alloc.c, mark.c).                                *)
(*                                                                         *)
(* What runs under the allocation lock excludes everything else that takes *)
(* it; pc is where the holder of the lock is.  Between the marking and the *)
(* sweeping of a collection the world runs, so the program forgets objects *)
(* and gives hints then too.  Free and reclaim lists are sets: which of    *)
(* their members is taken first is left open.  What a marking marks is     *)
(* what HintMark shows: every reachable object, and any dead ones that     *)
(* something stale still points to.                                        *)
(***************************************************************************)
EXTENDS Integers, FiniteSets

CONSTANTS
  Blocks,             \* the blocks of the heap, all of the same size
  Index,              \* the objects of a block
  Kinds,              \* the kinds of objects the program allocates
  Parallel,           \* GC_parallel: hb_n_marks is approximate
  Stale,              \* whether dead objects may be marked
  HintedCollections,  \* whether the program calls HINTGC_collect
  NoSlot              \* no object

Slot == Blocks \X Index

ASSUME HeapAssumption ==
  /\ IsFiniteSet(Blocks) /\ IsFiniteSet(Index) /\ Index # {}
  /\ Kinds \subseteq {"NORMAL", "UNCOLLECTABLE", "AUNCOLLECTABLE"}
  /\ "NORMAL" \in Kinds
  /\ Parallel \in BOOLEAN /\ Stale \in BOOLEAN /\ HintedCollections \in BOOLEAN
  /\ NoSlot \notin Slot

VARIABLES
  kind,            \* hb_obj_kind of a block, or "free"
  marks,           \* the objects whose mark bit is set
  hb_n_marks,      \* the (approximate) number of marks of a block
  pending,         \* the blocks with HAS_PENDING_FREE
  bytes_pending,   \* GC_bytes_pending_free # 0
  freelist,        \* the objects on the ok_freelist of any kind
  reclaim,         \* the blocks on the ok_reclaim_list of any kind
  live,            \* the objects the program can reach or has not freed
  pc,              \* "run", "alloc" or "marked" (a collection not yet swept)
  request,         \* the kind being allocated, and for whom
  resume,          \* where to go after a collection
  gc_kind,         \* "full" or "hinted": the last collection
  sanity,          \* the object of HINTGC_collect, while that call lasts
  sanity_stage     \* "none", "allocated" or "collected"

headers == <<kind, hb_n_marks>>
hints == <<pending, bytes_pending>>
lists == <<freelist, reclaim>>
control == <<pc, request, resume, gc_kind>>
sanities == <<sanity, sanity_stage>>
vars == <<headers, marks, hints, lists, live, control, sanities>>

IS_UNCOLLECTABLE(k) == k \in {"UNCOLLECTABLE", "AUNCOLLECTABLE"}

BlockOf(s)  == s[1]
SlotsOf(B)  == B \X Index
KindOf(s)   == kind[BlockOf(s)]
In(b, S)    == {i \in Index : <<b, i>> \in S}
HBLK_OBJS   == Cardinality(Index)
FreeBlocks  == {b \in Blocks : kind[b] = "free"}
OfKind(k)   == {s \in Slot : KindOf(s) = k}

TypeOK ==
  /\ kind \in [Blocks -> Kinds \cup {"free"}]
  /\ marks \in SUBSET Slot
  /\ hb_n_marks \in [Blocks -> Nat]
  /\ pending \in SUBSET Blocks
  /\ bytes_pending \in BOOLEAN
  /\ freelist \in SUBSET Slot
  /\ reclaim \in SUBSET Blocks
  /\ live \in SUBSET Slot
  /\ pc \in {"run", "alloc", "marked"}
  /\ request \in [kind : Kinds, sanity : BOOLEAN]
  /\ resume \in {"run", "alloc"}
  /\ gc_kind \in {"full", "hinted"}
  /\ sanity \in Slot \cup {NoSlot}
  /\ sanity_stage \in {"none", "allocated", "collected"}

Init ==
  /\ kind = [b \in Blocks |-> "free"]
  /\ marks = {} /\ hb_n_marks = [b \in Blocks |-> 0]
  /\ pending = {} /\ bytes_pending = FALSE
  /\ freelist = {} /\ reclaim = {}
  /\ live = {}
  /\ pc = "run" /\ resume = "run" /\ gc_kind = "full"
  /\ request = [kind |-> "NORMAL", sanity |-> FALSE]
  /\ sanity = NoSlot /\ sanity_stage = "none"

-----------------------------------------------------------------------------
(* Allocation: GC_malloc, GC_malloc_uncollectable, GC_allocobj             *)

Malloc ==
  /\ pc = "run" /\ pc' = "alloc"
  /\ \E k \in Kinds : request' = [kind |-> k, sanity |-> FALSE]
  /\ UNCHANGED <<headers, marks, hints, lists, live, resume, gc_kind, sanities>>

\* HINTGC_collect allocates an object before it takes the lock.
MallocSanity ==
  /\ HintedCollections
  /\ pc = "run" /\ sanity_stage = "none" /\ pc' = "alloc"
  /\ request' = [kind |-> "NORMAL", sanity |-> TRUE]
  /\ UNCHANGED <<headers, marks, hints, lists, live, resume, gc_kind, sanities>>

Available == freelist \cap OfKind(request.kind)

\* *opp = obj_link(op)
Pop(s) ==
  /\ pc = "alloc" /\ s \in Available
  /\ freelist' = freelist \ {s}
  /\ live' = live \cup {s}
  /\ pc' = "run"
  /\ IF request.sanity
       THEN sanity' = s /\ sanity_stage' = "allocated"
       ELSE UNCHANGED sanities
  /\ UNCHANGED <<headers, marks, hints, reclaim, request, resume, gc_kind>>

ToSweep == {b \in reclaim : kind[b] = request.kind}

\* GC_reclaim_generic: what is not marked is free; an uncollectable block is
\* then marked throughout.
GC_reclaim_generic(b) ==
  /\ freelist' = freelist \cup (SlotsOf({b}) \ marks)
  /\ IF IS_UNCOLLECTABLE(kind[b])
       THEN /\ marks' = marks \cup SlotsOf({b})
            /\ hb_n_marks' = [hb_n_marks EXCEPT ![b] = HBLK_OBJS]
       ELSE UNCHANGED <<marks, hb_n_marks>>

\* Mutant: the block stays on its reclaim list.
GC_continue_reclaim_Again(b) ==
  /\ pc = "alloc" /\ Available = {} /\ b \in ToSweep
  /\ GC_reclaim_generic(b)
  /\ UNCHANGED <<kind, hints, reclaim, live, control, sanities>>

\* One block at a time, until the free list is no longer empty.
GC_continue_reclaim(b) ==
  /\ pc = "alloc" /\ Available = {} /\ b \in ToSweep
  /\ reclaim' = reclaim \ {b}
  /\ GC_reclaim_generic(b)
  /\ UNCHANGED <<kind, hints, live, control, sanities>>

setup_header_flags(b) == pending \ {b}

\* setup_header and GC_build_fl.
GC_new_hblk(b) ==
  /\ pc = "alloc" /\ Available = {} /\ ToSweep = {} /\ b \in FreeBlocks
  /\ kind' = [kind EXCEPT ![b] = request.kind]
  /\ IF IS_UNCOLLECTABLE(request.kind)
       THEN /\ marks' = marks \cup SlotsOf({b})
            /\ hb_n_marks' = [hb_n_marks EXCEPT ![b] = HBLK_OBJS]
       ELSE /\ marks' = marks \ SlotsOf({b})
            /\ hb_n_marks' = [hb_n_marks EXCEPT ![b] = 0]
  /\ pending' = setup_header_flags(b)
  /\ freelist' = freelist \cup SlotsOf({b})
  /\ UNCHANGED <<bytes_pending, reclaim, live, control, sanities>>

NoMemory == pc = "alloc" /\ Available = {} /\ ToSweep = {} /\ FreeBlocks = {}

\* GC_collect_or_expand cannot get memory: the allocation returns 0.
MallocFails ==
  /\ NoMemory /\ pc' = "run"
  /\ UNCHANGED <<headers, marks, hints, lists, live, request, resume, gc_kind,
                 sanities>>

-----------------------------------------------------------------------------
(* The program                                                             *)

\* The program forgets a collectable object.
Drop(s) ==
  /\ s \in live \ {sanity} /\ KindOf(s) = "NORMAL"
  /\ live' = live \ {s}
  /\ UNCHANGED <<headers, marks, hints, lists, control, sanities>>

\* Mutant: the mark bit is cleared.
GC_force_deallocate_ClearsMark(s) ==
  /\ pc = "run"
  /\ freelist' = freelist \cup {s}
  /\ marks' = marks \ {s}
  /\ live' = live \ {s}
  /\ UNCHANGED <<headers, reclaim, control>>

\* The object goes to its free list as it is: its mark bit stays.
GC_force_deallocate(s) ==
  /\ pc = "run"
  /\ freelist' = freelist \cup {s}
  /\ live' = live \ {s}
  /\ UNCHANGED <<headers, marks, reclaim, control>>

FreeUncollectable(s) ==
  /\ s \in live /\ KindOf(s) = "UNCOLLECTABLE"
  /\ GC_force_deallocate(s)
  /\ UNCHANGED <<hints, sanities>>

\* For any other kind GC_free takes no lock and only gives a hint; a program
\* that frees an object too early still reaches it.
GC_free_hint(s) ==
  /\ s \in live \ {sanity} /\ KindOf(s) # "UNCOLLECTABLE"
  /\ pending' = pending \cup {BlockOf(s)}
  /\ bytes_pending' = TRUE
  /\ live' \in IF KindOf(s) = "NORMAL" THEN {live, live \ {s}} ELSE {live \ {s}}
  /\ UNCHANGED <<headers, marks, lists, control, sanities>>

-----------------------------------------------------------------------------
(* Collections                                                             *)

Dead        == SlotsOf(Blocks \ FreeBlocks) \ live
Kept        == {b \in Blocks : IS_UNCOLLECTABLE(kind[b])}
Unhinted    == Blocks \ (FreeBlocks \cup pending)
Changed(b)  == In(b, marks') # In(b, marks)

StaleMarks == IF Stale THEN SUBSET Dead ELSE {{}}

\* What tracing from the roots leaves marked: GC_clear_marks does not touch the
\* marks of uncollectable blocks.
Traced(stale) == live \cup (marks \cap SlotsOf(Kept)) \cup stale

\* Mutant: all increments may be lost.
CountOf_Lossy(n) == IF Parallel /\ n > 0 THEN 0 .. n + 1 ELSE {n}

\* The values of hb_n_marks after counting n marks: with more than one marker
\* some increments are lost, never all of them, or done twice.
CountOf(n) == IF Parallel /\ n > 0 THEN 1 .. n + 1 ELSE {n}

CountsOf(b) ==
  IF kind[b] = "free" \/ (b \in Kept /\ ~Changed(b))
    THEN {hb_n_marks[b]}
    ELSE CountOf(Cardinality(In(b, marks')))

\* GC_set_hdr_marks counts what it marks; the others are counted one by one.
Counted(whole) ==
  hb_n_marks' \in {n \in [Blocks -> 0 .. HBLK_OBJS + 1] :
    \A b \in Blocks : n[b] \in IF b \in whole THEN {HBLK_OBJS} ELSE CountsOf(b)}

\* GC_clear_marks and GC_stopped_mark.
StartFull ==
  /\ pc' = "marked" /\ gc_kind' = "full"
  /\ \E stale \in StaleMarks : marks' = Traced(stale)
  /\ Counted({})
  /\ UNCHANGED <<kind, hints, lists, live, request, sanities>>

GC_gcollect == pc = "run" /\ resume' = "run" /\ StartFull
CollectOrExpand == NoMemory /\ resume' = "alloc" /\ StartFull

\* GC_clear_marks and GC_hintgc_stopped_mark: phase 1 marks all of every block
\* that has no hint.
StartHinted ==
  /\ pc = "run" /\ sanity_stage = "allocated" /\ bytes_pending
  /\ sanity_stage' = "collected" /\ resume' = "run"
  /\ pc' = "marked" /\ gc_kind' = "hinted"
  /\ \E stale \in StaleMarks : marks' = Traced(stale) \cup SlotsOf(Unhinted)
  /\ Counted(Unhinted)
  /\ UNCHANGED <<kind, hints, lists, live, request, sanity>>

\* The profitability check: nothing to reclaim.
SkipHinted ==
  /\ pc = "run" /\ sanity_stage = "allocated" /\ ~bytes_pending
  /\ sanity_stage' = "collected"
  /\ UNCHANGED <<headers, marks, hints, lists, live, control, sanity>>

FreeSanity ==
  /\ pc = "run" /\ sanity_stage = "collected"
  /\ GC_force_deallocate(sanity)
  /\ sanity' = NoSlot /\ sanity_stage' = "none"
  /\ UNCHANGED hints

\* GC_clear_fl_marks: what is on a free list is no longer marked.
GC_clear_fl_marks == marks \ freelist

\* Mutant: the count is decremented even to zero.
CountAfter_ToZero(b) ==
  LET k == Cardinality(In(b, marks \cap freelist))
  IN IF hb_n_marks[b] < k THEN 0 ELSE hb_n_marks[b] - k

\* With several markers GC_clear_fl_marks never decrements the count to zero.
CountAfter(b) ==
  LET k == Cardinality(In(b, marks \cap freelist))
      n == hb_n_marks[b] - k
  IN IF Parallel /\ k > 0 /\ n < 1 THEN 1 ELSE n

Emptied == {b \in Blocks \ FreeBlocks : CountAfter(b) = 0}
GC_block_nearly_full(b) == 8 * CountAfter(b) > 7 * HBLK_OBJS

\* GC_finish_collection: clear the marks of the free lists, drop these and the
\* reclaim lists, free the blocks without marks, enqueue those with few.  Then
\* the hints go: a block freed by a full collection keeps its flag.
GC_finish_collection ==
  /\ pc = "marked" /\ pc' = resume
  /\ marks' = GC_clear_fl_marks
  /\ hb_n_marks' = [b \in Blocks |-> CountAfter(b)]
  /\ kind' = [b \in Blocks |-> IF b \in Emptied THEN "free" ELSE kind[b]]
  /\ freelist' = {}
  /\ reclaim' = {b \in Blocks \ (FreeBlocks \cup Emptied) : ~GC_block_nearly_full(b)}
  /\ bytes_pending' = FALSE
  /\ pending' = IF gc_kind = "full" THEN pending \cap (FreeBlocks \cup Emptied)
                                    ELSE pending \cap FreeBlocks
  /\ UNCHANGED <<live, request, resume, gc_kind, sanities>>

Next ==
  \/ Malloc \/ MallocSanity \/ MallocFails
  \/ \E s \in Slot : Pop(s)
  \/ \E b \in Blocks : GC_continue_reclaim(b) \/ GC_new_hblk(b)
  \/ \E s \in Slot : Drop(s) \/ FreeUncollectable(s) \/ GC_free_hint(s)
  \/ GC_gcollect \/ CollectOrExpand
  \/ StartHinted \/ SkipHinted \/ FreeSanity
  \/ GC_finish_collection

Spec == Init /\ [][Next]_vars

-----------------------------------------------------------------------------
(* Properties                                                              *)

Sweepable == SlotsOf(reclaim) \ marks
Reusable == freelist \cup SlotsOf(FreeBlocks) \cup Sweepable

\* No object the program still uses will be handed out again, neither by a
\* free list, nor by the sweep of a block, nor with a freed block.
NoLiveReused == live \cap Reusable = {}

\* An object is never put on a free list twice: what is on one, explicitly
\* freed or not, is not swept, and its block is not freed under it.
FreeOnce ==
  pc # "marked" => freelist \cap (Sweepable \cup SlotsOf(FreeBlocks)) = {}

\* hb_n_marks = 0 is taken to mean that the block is empty (mark.c:232-234).
EmptyMeansUnmarked ==
  \A b \in Blocks : hb_n_marks[b] = 0 => In(b, marks) = {}

\* GC_malloc_uncollectable hands out marked objects only (malloc.c:295): their
\* marks survive every collection that clears the others.
UncollectableMarked ==
  \A s \in Slot : IS_UNCOLLECTABLE(KindOf(s)) /\ s \in live => s \in marks

\* Sweeping takes nothing back but what is unmarked or on a free list: what a
\* hinted collection marked in bulk stays, dead or not.
SweepKeepsMarked ==
  [][pc = "marked" => (marks \ freelist) \cap Reusable' = {}]_vars

=============================================================================
