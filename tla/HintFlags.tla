----------------------------- MODULE HintFlags -----------------------------
(***************************************************************************)
(* Threads giving hints while other threads collect.  GC_free (malloc.c)   *)
(* takes no lock: it sets HAS_PENDING_FREE in the block's header, then     *)
(* adds to GC_bytes_pending_free.  HINTGC_collect and GC_try_to_collect    *)
(* hold the allocation lock, but the world runs on while they clear the    *)
(* marks, finish the collection and clear the hints block by block.        *)
(*                                                                         *)
(* Blocks stay allocated: GC_free holds a pointer into its block, which is *)
(* a root, so a collection does not free the block under it.  The update   *)
(* of hb_flags is one step: what the other bits of the word lose or keep   *)
(* does not matter here.  GC_bytes_pending_free is only ever compared with *)
(* zero, and adding the size of an object leaves it different from zero,   *)
(* so a lost update of it is the same step as one that is not lost.        *)
(***************************************************************************)
EXTENDS FiniteSets

CONSTANTS
  Thread,
  Blocks,              \* blocks of a kind other than UNCOLLECTABLE
  Outside,             \* an address whose header is null
  NoThread             \* the holder of a lock that is free

ASSUME ThreadAssumption == NoThread \notin Thread
ASSUME OutsideAssumption == Outside \notin Blocks

VARIABLES
  pc,                  \* where each thread is
  target,              \* the block of the last object each thread freed
  lock,                \* the holder of GC_allocate_ml
  pending,             \* the blocks with HAS_PENDING_FREE
  bytes_pending,       \* GC_bytes_pending_free # 0
  todo,                \* the blocks the lock holder has yet to visit
  fresh                \* ghost: the blocks hinted since the last marking

hints == <<pending, bytes_pending>>
flags_vars == <<pc, target, lock, hints, todo, fresh>>

FreePC   == {"set_flag", "add_bytes"}
HintedPC == {"h_profitable", "h_clear", "h_mark", "h_finish", "h_reclaim",
             "h_assert", "h_unlock"}
FullPC   == {"f_clear", "f_mark", "f_finish", "f_pass", "f_unlock"}
SanityPC == {"h_sanity", "h_lock", "h_check", "h_dealloc"}
PC == {"idle"} \cup FreePC \cup SanityPC \cup HintedPC \cup FullPC

Goto(t, l) == pc' = [pc EXCEPT ![t] = l]

FlagsTypeOK ==
  /\ pc \in [Thread -> PC]
  /\ target \in [Thread -> Blocks]
  /\ lock \in Thread \cup {NoThread}
  /\ pending \in SUBSET Blocks
  /\ bytes_pending \in BOOLEAN
  /\ todo \in SUBSET Blocks
  /\ fresh \in SUBSET Blocks

FlagsInit ==
  /\ pc = [t \in Thread |-> "idle"]
  /\ target \in [Thread -> Blocks]
  /\ lock = NoThread
  /\ pending = {} /\ bytes_pending = FALSE
  /\ todo = {}
  /\ fresh = {}

-----------------------------------------------------------------------------
(* GC_free                                                                 *)

HasHeader(a) == a \in Blocks

\* GC_free returns at once when there is no header.
CallFree(t) ==
  /\ pc[t] = "idle"
  /\ \E a \in Blocks \cup {Outside} :
       HasHeader(a) /\ target' = [target EXCEPT ![t] = a]
  /\ Goto(t, "set_flag")
  /\ UNCHANGED <<lock, hints, todo, fresh>>

SetFlag(t) ==
  /\ pc[t] = "set_flag" /\ Goto(t, "add_bytes")
  /\ pending' = pending \cup {target[t]}
  /\ fresh' = fresh \cup {target[t]}
  /\ UNCHANGED <<target, lock, bytes_pending, todo>>

AddBytes(t) ==
  /\ pc[t] = "add_bytes" /\ Goto(t, "idle")
  /\ bytes_pending' = TRUE
  /\ UNCHANGED <<target, lock, pending, todo, fresh>>

-----------------------------------------------------------------------------
(* What both collections do                                                *)

\* GC_clear_marks: before STOP_WORLD.
ClearMarks(t, from, to) ==
  /\ pc[t] = from /\ Goto(t, to)
  /\ UNCHANGED <<target, lock, hints, todo, fresh>>

\* STOP_WORLD to START_WORLD: nothing else runs.
StoppedMark(t, from, to) ==
  /\ pc[t] = from /\ Goto(t, to)
  /\ fresh' = {}
  /\ UNCHANGED <<target, lock, hints, todo>>

\* GC_finish_collection resets the count before anything is reclaimed.
FinishCollection(t, from, to) ==
  /\ pc[t] = from /\ Goto(t, to)
  /\ bytes_pending' = FALSE
  /\ todo' = Blocks
  /\ UNCHANGED <<target, lock, pending, fresh>>

VisitBlock(t, at, b) ==
  /\ pc[t] = at /\ b \in todo
  /\ todo' = todo \ {b}
  /\ pending' = pending \ {b}
  /\ UNCHANGED <<pc, target, lock, bytes_pending, fresh>>

\* Mutant: the count is reset when the blocks have been visited.
VisitDone_ResetsBytes(t, at, to) ==
  /\ pc[t] = at /\ todo = {} /\ Goto(t, to)
  /\ bytes_pending' = FALSE
  /\ UNCHANGED <<target, lock, pending, todo, fresh>>

VisitDone(t, at, to) ==
  /\ pc[t] = at /\ todo = {} /\ Goto(t, to)
  /\ UNCHANGED <<target, lock, hints, todo, fresh>>

Acquire(t, from, to) ==
  /\ pc[t] = from /\ lock = NoThread
  /\ lock' = t /\ Goto(t, to)
  /\ UNCHANGED <<target, hints, todo, fresh>>

Release(t, from, to) ==
  /\ pc[t] = from /\ lock' = NoThread /\ Goto(t, to)
  /\ UNCHANGED <<target, hints, todo, fresh>>

-----------------------------------------------------------------------------
(* HINTGC_collect                                                          *)

CallHinted(t) ==
  /\ pc[t] = "idle" /\ Goto(t, "h_sanity")
  /\ UNCHANGED <<target, lock, hints, todo, fresh>>

\* The sanity object, GC_malloc(2), is allocated before the lock is taken.
AllocSanity(t) ==
  /\ pc[t] = "h_sanity" /\ Goto(t, "h_lock")
  /\ UNCHANGED <<target, lock, hints, todo, fresh>>

\* HINTGC_collect_inner goes on only if has_pending_frees().
Profitable(t) ==
  /\ pc[t] = "h_profitable"
  /\ Goto(t, IF bytes_pending THEN "h_clear" ELSE "h_unlock")
  /\ UNCHANGED <<target, lock, hints, todo, fresh>>

\* HINTGC_reclaim_block clears the flag of every block it visits.
HINTGC_reclaim_block(t) == \E b \in todo : VisitBlock(t, "h_reclaim", b)

\* has_pending_frees_scan() looks at the blocks and changes nothing; what it
\* asserts does not hold while other threads go on freeing.
AssertNoPending(t) ==
  /\ pc[t] = "h_assert" /\ Goto(t, "h_unlock")
  /\ UNCHANGED <<target, lock, hints, todo, fresh>>

\* The assertion on the mark bit of the sanity object changes nothing.
AssertMarked(t) ==
  /\ pc[t] = "h_check" /\ Goto(t, "h_dealloc")
  /\ UNCHANGED <<target, lock, hints, todo, fresh>>

\* GC_force_deallocate(sanity_check) takes and drops the lock.
Deallocate(t) ==
  /\ pc[t] = "h_dealloc" /\ lock = NoThread /\ Goto(t, "idle")
  /\ UNCHANGED <<target, lock, hints, todo, fresh>>

HINTGC_collect(t) ==
  \/ CallHinted(t)
  \/ AllocSanity(t)
  \/ Acquire(t, "h_lock", "h_profitable")
  \/ Profitable(t)
  \/ ClearMarks(t, "h_clear", "h_mark")
  \/ StoppedMark(t, "h_mark", "h_finish")
  \/ FinishCollection(t, "h_finish", "h_reclaim")
  \/ HINTGC_reclaim_block(t)
  \/ VisitDone(t, "h_reclaim", "h_assert")
  \/ AssertNoPending(t)
  \/ Release(t, "h_unlock", "h_check")
  \/ AssertMarked(t)
  \/ Deallocate(t)

-----------------------------------------------------------------------------
(* GC_try_to_collect_inner, for GC_gcollect or an allocation that fails    *)

\* Mutant: the pass leaves the flags alone.
ClearPendingFree_NoPass(t) ==
  /\ pc[t] = "f_pass" /\ todo # {} /\ todo' = {}
  /\ UNCHANGED <<pc, target, lock, hints, fresh>>

\* clear_pending_free_in_block: the pass after GC_finish_collection.
ClearPendingFree(t) == \E b \in todo : VisitBlock(t, "f_pass", b)

GC_try_to_collect(t) ==
  \/ Acquire(t, "idle", "f_clear")
  \/ ClearMarks(t, "f_clear", "f_mark")
  \/ StoppedMark(t, "f_mark", "f_finish")
  \/ FinishCollection(t, "f_finish", "f_pass")
  \/ ClearPendingFree(t)
  \/ VisitDone(t, "f_pass", "f_unlock")
  \/ Release(t, "f_unlock", "idle")

GC_free(t) == CallFree(t) \/ SetFlag(t) \/ AddBytes(t)

FlagsNext == \E t \in Thread : GC_free(t) \/ HINTGC_collect(t) \/ GC_try_to_collect(t)

FlagsSpec == FlagsInit /\ [][FlagsNext]_flags_vars

-----------------------------------------------------------------------------
(* Properties                                                              *)

\* The lock: what the collector does to the hints, it does alone.
Exclusive ==
  \A t \in Thread : pc[t] \in HintedPC \cup FullPC => lock = t

InFree(b) == \E t \in Thread : pc[t] = "add_bytes" /\ target[t] = b

Visiting == \E t \in Thread : pc[t] \in {"h_reclaim", "f_pass"}

\* A flag that is set is counted, or is about to be counted by the thread that
\* set it, or is about to be cleared by the collection under way.
PendingCounted ==
  \A b \in pending : bytes_pending \/ InFree(b) \/ (Visiting /\ b \in todo)

\* The test that lets HINTGC_collect_inner return at once (alloc.c:891) never
\* overlooks a hint whose GC_free has returned: GC_free sets the flag before it
\* counts, and GC_finish_collection resets the count before the flags.
ProfitabilitySound ==
  \A t \in Thread :
    pc[t] = "h_profitable" /\ ~bytes_pending => \A b \in pending : InFree(b)

\* When a collection ends, the only hints left were given after its marking:
\* no hint is served by two collections.
NoStaleHints ==
  \A t \in Thread : pc[t] \in {"h_assert", "f_unlock"} => pending \subseteq fresh

=============================================================================
