# hintgc in TLA+

This directory is a formal model of **hintgc** (`src/hintgc/src`), the
Boehm-Demers-Weiser collector 7.2 extended with *hinted collection*: `free()`
does not deallocate, it tells the collector that the object is *probably* dead,
and a hinted collection looks for garbage only in the blocks where such hints
were given.  The modules are written from the C source; TLC checks them on
small instances and TLAPS proves the main results for every instance.

Paths below are relative to `src/hintgc/src` unless they start with `src/`.
`PROJECT.json` maps every definition to the lines it stands for.

The configuration modelled is the one `configure.ac` builds for Linux with
threads: `USE_MARK_BYTES`, `MARK_BIT_PER_GRANULE`, `PARALLEL_MARK`,
`THREAD_LOCAL_ALLOC`, `GC_DISABLE_INCREMENTAL`, `ATOMIC_UNCOLLECTABLE`, and
`REDIRECT_MALLOC`, by which the client's `free` is `GC_free`.
`ENABLE_HINTGC_INTEGRATION` is 0 (`alloc.c:373`): hinted collections run only
when somebody calls `HINTGC_collect`.

## 1. Inventory

| Component | State | Operations | What must hold |
|---|---|---|---|
| Hinted and full marking (`mark.c`, `alloc.c`) | mark bits and counts, the bounded mark stack, `GC_mark_state`, `scan_ptr`, `GC_objects_are_marked` | the three phases of `GC_hintgc_stopped_mark`, `GC_mark_some`, overflow and recovery | every live object marked, nothing else; marking ends |
| Parallel marker (`mark.c`, `pthread_support.c`) | global stack with its lock-free cursor, local stacks, helper and active counts, `mark_cv` | `GC_do_parallel_mark`, `GC_help_marker`, `GC_mark_local`, steal, share, return | no marked object lost; nobody leaves early; nobody waits for ever |
| Hints (`malloc.c`, `alloc.c`, `reclaim.c`) | `HAS_PENDING_FREE` per block, `GC_bytes_pending_free` | `GC_free` without the lock, `HINTGC_collect`, `GC_gcollect` | no returned hint overlooked, none served twice |
| Small-object allocation, explicit free, sweep (`malloc.c`, `new_hblk.c`, `reclaim.c`, `alloc.c`) | free lists, reclaim lists, mark bits used as "allocated" bits, mark counts | `GC_malloc`, `GC_force_deallocate`, lazy sweep, `GC_finish_collection` | nothing in use handed out again, nothing freed twice |
| Walk over block headers (`mark.c`, `headers.c`) | `bottom_index` tree, forwarding counts, custom descriptors on the mark stack | `HINTGC_push_all_bottom_indices`, `HINTGC_process_index_step`, `HINTGC_process_custom_descr`, sharing of local stacks | every block visited, every range scanned; no step overfills a local stack (it may, finding 3); both phases end |
| Block allocator (`allchblk.c`, `headers.c`) | free lists by size, headers and forwarding counts, byte counts | `GC_allochblk` (split, drop black-listed pieces), `GC_freehblk` (coalesce), `GC_add_to_heap` | blocks partition the heap, lists and headers agree, no adjacent free blocks; a search ends and fails only when nothing fits |
| Stopping the world (`pthread_stop_world.c`) | stop count, acknowledgements, signals | `GC_stop_world`, `GC_suspend_all`, `GC_start_world`, the two handlers | nobody runs while the world is stopped, no signal or acknowledgement outlives its stop, all resume |
| Collect or expand (`alloc.c`) | heap size, `GC_fail_count`, thresholds | `GC_collect_or_expand`, `GC_allocobj` | retries end |
| Finalization (`finalize.c`) | tables of finalizers and of disappearing links, the finalizable queue, the marks the passes leave each other | registration with `GC_oom_fn` called without the lock, the passes of `GC_finalize`, `GC_invoke_finalizers`, `GC_finalize_all` | nothing freed that a table, the queue or a link leads to; no finalizer run on what the program can reach; one finalizer for an object |
| Free-list builders (`mallocx.c`) | `GC_fl_builder_count`, the lists being built | `GC_generic_malloc_many` outside the lock, `GC_wait_for_reclaim` | no collection over a half-built list, and no collector that waits for ever |
| Thread table, fork, blocking calls (`pthread_support.c`) | thread records | register, `GC_do_blocking`, fork handlers | stacks of all threads scanned |
| Thread-specific data (`specific.c`) | hash table, cache of quick thread ids | lock-free `getspecific` | never another thread's value |
| Thread-local allocation (`thread_local_alloc.c`) | local free lists | `GC_malloc` fast path, refilling, the end of a thread, marking of the lists | no object on two lists, or free and in use |
| Black lists (`blacklst.c`) | two generations of bits | add, promote, consult | a promoted address stays listed |
| Root sets, start-up, size classes, typed/gcj/debug allocation, debugging aids, the OS layer, other platforms, cords, libatomic_ops | | | not modelled, see section 8 |
| `src/boehm-gc-7.2`, `src/benchmarks`, `src/reporting` | | | the unmodified collector and measurements: not part of the system |

How they interact.  A client thread allocates from free lists; when they are
empty it takes the allocation lock, sweeps a block of the reclaim list, takes a
new block, or collects.  `GC_free` runs *without* any lock: it sets a flag in
the block's header and adds to a counter.  A collection takes the lock, clears
the mark bits with the world *running*, stops the world, marks, starts the
world, and then sweeps and clears hints, still under the lock but with the
world running.  Marking is either serial (one thread, mark stack, state
machine) or shared with the mark threads, which take no lock to steal.  The
sweep is lazy: blocks wait on reclaim lists until an allocation needs them or
the next collection throws the lists away.

What is hard in this code: the flag/counter protocol of `GC_free` against a
running collection; a mark stack that may overflow at any push and a recovery
that may overflow again; mark bits that mean "reachable" during a collection
and "allocated" outside one; mark counts that are only approximate when
several markers run; lock-free stealing with a cursor that everybody reads and
publishes; and termination detection with a condition variable.  Each of these
is a hazard in `PROJECT.json` with the line where it bites and the properties
that cover it.

## 2. Modules

```
MarkSpec  <--- implemented by --- HintMark      serial marking, hinted and full
   ^------------ implemented by --- ParallelMark  parallel marking
HintFlags      GC_free against collections: the flag and the counter
HintHeap       allocation, explicit free, sweeping, both collections
StopWorld      suspending and restarting threads by signals
BlockAlloc     blocks, their headers and the free lists by size
IndexWalk      the parallel walk of phases 1 and 2 over the block headers
LocalAlloc     thread-local free lists and the builders that refill them
Finalize       finalizers and disappearing links against marking and sweeping
<X>_proofs     theorems about X          MC<X>   small instances of X for TLC
```

The theorems about HintFlags are at the end of IndexWalk_proofs, those about
MarkSpec in HintMark_proofs.

### MarkSpec - what marking promises

Marking starts from `seeds` and grows the set of marks, only ever by what a
marked object points to, and may end only when nothing reachable is unmarked.
Both `GC_stopped_mark` and `GC_hintgc_stopped_mark` are meant to keep this
promise, with different seeds: a full collection starts from the roots and the
uncollectable objects; a hinted one also from everything outside the hinted
blocks and what that points to.  `HintMark` and `ParallelMark` each instantiate
it (`Promise == INSTANCE MarkSpec WITH ...`) and are checked to implement it.

### HintMark - serial marking

State: the heap graph (`contents`), roots and hints, mark bits and
`hb_n_marks`, the mark stack with its size and overflow flag, the state of
`GC_mark_some`, and the registers of the loops (`todo`, `pushing`, `cur`).
Actions: `StartHinted`/`StartFull` (new roots and hints, `GC_clear_marks`);
`Phase1Block` (mark every object outside the hinted blocks); `Phase2Block`,
`Phase2Pop`, `Phase2Mark` (mark what these point to, without pushing);
`Phase3Block`, `PushMarked`, `Phase3Pushed`, ... (push the marked objects of
hinted blocks and recover from overflow); then the `GC_mark_some` machine, one
action per case of the switch, down to one action per pointer looked at.

Abstractions.  A mark stack entry is a range of memory and is modelled by the
set of objects its words point to; ranges are not split, `GC_mark_from` pops
one and goes through its words one by one, in any order.  `GC_mark_from` may
return after any range (its credit is not counted).  All descriptors are
lengths; `stop_func` never stops.  Every slot of an uncollectable block holds
an object, its free slots are HintHeap's business.  Growing the mark stack may
fail at any attempt; above `MaxMarkStackSize` it always does.

### HintFlags - hints against collections

Every thread is in `GC_free` (three steps: look up the header, set the flag,
add to the counter), in `HINTGC_collect` (with its sanity check, the
profitability test, clearing, marking, finishing, the visit of every block, the
assertions) or in `GC_try_to_collect_inner`.  The allocation lock excludes
collections from each other, not from `GC_free`.

Abstractions.  Setting a bit of `hb_flags` is one step.  The counter is zero or
not: it is only compared with zero, adding makes it nonzero, so a lost addition
of two racing threads is the same step.  `GC_free` holds a pointer into its
block, so the block is not freed under it and blocks stay allocated.  Stop,
mark and start are one step, since nothing else runs.  The counter resets in
`GC_finish_collection` *before* the flags are cleared, and this order is what
`ProfitabilitySound` depends on.

### HintHeap - from allocation to sweep

Blocks of one size class with their slots.  `Malloc`, `Pop`,
`GC_continue_reclaim`, `GC_new_hblk`, `MallocFails` are the steps of an
allocation; `GC_free_hint`, `FreeUncollectable` the two branches of `GC_free`;
`Drop` the program forgetting an object; `GC_gcollect`, `CollectOrExpand`,
`StartHinted` the markings; `GC_finish_collection` the sweep under the lock
(`GC_clear_fl_marks`, `GC_start_reclaim`, the end of the hints).

Abstractions.  The result of marking is what `HintMark` shows, every reachable
object marked, plus, with `Stale`, any dead ones that something stale points
to; so completeness of marking is an input of this module and a result of the
other.  Free lists and reclaim lists are sets: the order in which they are used
is left open.  The heap is bounded, so allocation collects and then fails where
the program would expand.  With `Parallel`, the count of a block with n marks
is any of 1 .. n+1: increments are not atomic and some get lost, never all.
Not modelled here: large objects and the leak detector; thread-local lists and
free-list builders are LocalAlloc's, finalization is Finalize's.

### ParallelMark - the mark threads

The Initiator in `GC_do_parallel_mark` and the Helpers in `GC_mark_thread`.
Everything under the mark lock is one step; a wait on `mark_cv` releases the
lock and puts the thread in `waiting`, from which only a notification takes it,
and a notification sent after the unlock is a step of its own, so a lost wakeup
would show.  Every lock-free read and write is a step of its own: reading
`GC_first_nonempty` and the top, publishing the cursor, reading and clearing
`mse_descr`, testing and setting a mark byte.

Abstractions.  An entry is a whole object with pointers (no range splitting).
Marking a local stack may return after any entry.  A global stack that is too
small never grows (`alloc_mark_stack` fails), which is the harder case.
The serial rescan after an overflow is one action (`Rescan`, `RescanDone`) that
does what `HintMark` shows it does.  Local variables that are dead are
reset, to keep the state space small.  `MaxMarkNo` bounds the number of marks.

### StopWorld - suspending and restarting threads

Threads register, exit, enter and leave `GC_do_blocking` and
`GC_call_with_gc_active`, each under the allocation lock, and one at a time
stops the world.  The suspend handler is split where other threads can see the
difference: entry (the stop count is read, duplicates return, the stack pointer
is saved), `SemPost`, `RecordStop`, `SigSuspendReturns`, and the two reads of
the loop condition.  `GC_stop_world` is split at every send, poll and
`sem_wait`.  A signal is pending once at most, as POSIX has it, and is delivered
at any time the mask permits; one that was blocked is delivered before its
thread runs on.  `SigSuspendReturns` takes a pending restart signal; `UserSignal`
is any other signal that the mask of `sigsuspend` lets through.  With `GC_retry_signals` up to `MaxLost` suspend signals are
lost.

Abstractions.  The thread table is a function; finished records stay or go.
The stop count does not wrap (`MaxStops`).  `Timely` says that no resend meets
a thread between the entry of its handler and `RecordStop`: without it the code
is wrong (finding 2).

### BlockAlloc - blocks, headers and free lists

The heap is an array of blocks with `hdr`, forwarding counts (`index`), doubly
linked free lists (`fl`, `next`, `prev`) and byte counts per list.
`GC_add_to_heap`, `GC_freehblk` and `GC_promote_black_lists` are one step each,
as they hold the lock.  A search (`GC_allochblk`) takes one step for each block
it looks at: `Skip`, `Drop` (a black-listed piece is handed out piece by piece
and the search starts again), `TakeFirst`, `TakeAdvanced` (behind a black-listed
head, with `GC_split_block`), `NextList`, `ReturnFailure`; the lists and the
headers change as in the code, including `GC_split_block` leaving a block on the
wrong list for its size until the caller takes it off.

Abstractions.  The list of a block is computed with the code's formula from
scaled-down constants (`FL_COMPRESSION`).  Which blocks are black-listed is a
set exchanged by `GC_promote_black_lists`.  `Failing` names the places where a
header cannot be had.  `USE_MUNMAP` is off, as in the build.

### IndexWalk - the parallel phases 1 and 2

The blocks with their headers and forwarding counts, the global stack as a bag
of entries with the count `top` of all entries ever put there, and a local
stack for each marker.  `HINTGC_process_index_step` is the loop of the code as a
recursive function; `HINTGC_process_custom_descr` applies it to the entry on top
of a local stack, leaves the rest or a dummy in its place and puts what was
pushed above it.  If that does not fit, `PUSH_OBJ` drops `Discards` entries at a
time, or `GC_push_all_impl` aborts (`GC_push_all_impl_Aborts`).  `ReturnAll` and
`ShareBottom` give entries back or drop them.

`covered`, which ends a step, is an `int` of the code and wraps as one (`ToInt`,
with `INT_MAX` a constant).  After a jump by a forwarding count the code adds the
slot at the *new* `j` (`mark.c:1730`): the forwarding count there, or, when the jump
has reached the first slot of a large block, the address of its header cut to an
`int`.  That number is part of a heap (`hdr`) and may be anything; `SlotValue` and
`Walk` take it as the code does, and finding 3 is what comes of it.

Abstractions.  Who takes which entry, how long markers wait and when they leave
is ParallelMark's; here an entry goes to one or more markers in one step.
Phase 1 does its work in the step that visits a block; phase 2 pushes `ranges`
entries for each, none for a block with hints.  A range is not split.  Local
stacks may be shared or returned after any step.  Which of dropping and aborting
happens when a step does not fit is left open, as it depends on the kind of the
block.  A jump past the beginning of an index reads what lies before it; the walk
ends there and `covered` with it, so the value read does not matter.  `covered++` at
`INT_MAX`, undefined in C, wraps like the assignments.  Indices with no slot that is
not nil are left out, as the walk does nothing in them.

### LocalAlloc - local lists and their builders

A thread takes objects off its own list (`FastMalloc`) without a lock.  When the
list is empty it counts the first few allocations (`CountDirect`) and serves
them from the global list (`GC_core_malloc`, `TakeOne`, `GC_continue_reclaim`,
`GC_new_hblk`), then refills the list by `GC_generic_malloc_many`: from a block
of the reclaim list (`TakeBlock`), the global list (`TakePrefix`), a fresh block
(`TakeFresh`) or, with nothing left, one object (`LastAttempt`).  A builder is
counted in `GC_fl_builder_count`, gives the lock up, and then sweeps its block
one mark bit at a time (`SweepSlot`) or links a fresh one (`GC_build_fl`).  A
collector holds the lock and waits for the count (`GC_wait_for_reclaim`), clears
the marks, marks, and sweeps, while other threads go on with their local lists.
Threads register and leave; a leaving thread returns its list.

Abstractions.  One size of objects, of kind `NORMAL`; lists are sets.  Marking
marks what the program uses, all of the local lists and, as in HintHeap, more:
objects outside the hinted blocks or those something stale points to.  World
stop and marking are one step; `HintMark` and `StopWorld` have what is inside.
Mark counts are approximate.  A collection that `GC_default_stop_func` stops, or
that is skipped for want of hints, changes nothing here and is left out, as is
`GC_reclaim_all`, which runs under the lock for the sake of leak detection.

### Finalize - finalizers and disappearing links

The program holds objects (`held`), follows their pointers (`Load`), forgets them
(`Drop`), stores disguised pointers in links (`WriteLink`) and turns them back
(`Reveal`, with the lock, as `gc.h` demands).  Registrations look for an entry
to replace and may have to give the lock up for memory (`pc` "fo" and "dl") and
search again.  A collection is the sequence of passes of `GC_finalize` between
`Mark` and `Sweep`, one object, link or queue position at a time: `ClearLink`,
`MarkFromFinalizable`, `EnqueueUnreachable`, with `GC_java_finalization` also
`JavaMark` and `Revive`, then `RemoveDangling`.  The four mark procedures are in
`Pushes`.  `GC_invoke_finalizers` and `GC_finalize_all` take the queue from its
front, several threads at once; running a finalizer is one more activity of the
program, which then holds the object.

Abstractions.  The chain of a hash bucket is a chain for each key.  Marking
marks `Reach(Roots \cup kept)`: all that is reachable from the program, the queue
and the calls under way, and in a hinted collection also what old marks `kept`
outside the hinted blocks lead to; `HintMark` shows that it does.  The graph of
pointers is fixed, and memory that is freed is not allocated again, so that a
dangling pointer remains visible as one.  Procedures that ignore the order are
used only with `GC_java_finalization`, as `gc.h` asks.  Client data, the growth of the
tables, the notifier, the limit on nested finalizers and the explicit freeing of
an object that holds a link are left out.  `MaxEntries` bounds the finalizers
registered or queued at a time.  A search of a registration and the
insertion after it are one step (`GC_register_finalizer`), although between them
`GC_INTERNAL_MALLOC` (`finalize.c:394`) may collect, with the lock held: a collection
before or after the step is in the model, one between the two is not.  The overflow
branch of `GC_MARK_FO` (`finalize.c:626`, `finalize.c:719`), which marks again until
the stack is large enough, is left out, as marking in the passes is complete at once.

## 3. Runs

| Run | What it shows |
|---|---|
| `hintmark_mixed` | On heaps with all four block kinds, a large object, roots that fill the stack of three entries and an overflow at every turn, also while it recovers from one (growing to six, or failing to), two collections in a row, hinted or full: exactly the live objects are marked, the seeds of phase 3 are covered, the whole implements `MarkSpec`, and each collection ends without an abort. |
| `hintmark_large` | *Violation*: an uncollectable object larger than a block (finding 1). |
| `hintflags` | Three threads, two blocks: one collects, one waits for the lock, one frees; the profitability test overlooks no returned hint, and no hint that was served survives. |
| `hintheap` | Two blocks of two slots, collectable and uncollectable, approximate counts: nothing in use is reused, no double free, zero counts mean empty, the sweep spares what is marked. |
| `parmark` | Two markers on two heaps, one in which both may find the same object unmarked, one whose fan-out overflows the global stack; three parallel marks in a row: nothing is lost, leaving means done, the cursor only advances, every mark ends with everything marked, and marking implements `MarkSpec`. |
| `stopworld` | Three threads, two stops, with and without retries and with one lost suspend signal: nobody runs while the world is stopped, acknowledgements add up, everybody resumes. |
| `stopworld_retry` | *Violation*: a resend that comes too early is acknowledged in the next stop (finding 2). |
| `blockalloc` | Three sections of which two touch, requests of one, two and four blocks, two black lists, headers that may be missing: headers, counts and free lists describe the same partition, adjacent free blocks are merged, searches end and fail only when nothing fits. |
| `indexwalk` | Two markers, four heaps over two indices (small blocks, a free one, one with hints, a large object across the boundary, one whose header's address is a negative `int`): both phases end or abort, with every block visited and every range scanned unless entries were dropped; and where the headers of large blocks count as enough slots (`LimitHolds`), no step overfills a local stack. |
| `indexwalk_limit` | *Violation*: the heap with the negative header; the step that comes over it goes on to the end of the index and does not fit (finding 3). |
| `localalloc` | Two threads that allocate, build lists, collect, come and go over two blocks of two objects: nothing in use is free, no object has two owners, no builder works during a collection, local lists are marked when the sweep begins, and a collector never waits for ever. |
| `finalize` | Two threads, three objects and a link, in four programs (with and without `GC_java_finalization` and `GC_finalize_all`; chains, cycles, an unordered object above one that waits until it is unreachable; links in static memory and in objects): nothing dangles, links are valid, no finalizer runs on what the program can reach, registering replaces. |

Type invariants are proved, and those of BlockAlloc and IndexWalk checked by their
runs as well.  `MarkStackInBounds`, `MarkingInv`, `SuspendStaysInItsStop` and
`CursorsInBounds` are only proved: a run would repeat the proof.

Why the bounds are enough.  *Mark stack*: an overflow needs two pushes onto a
small stack; with three entries, of which an overflow discards one, the successors of
what it discarded overflow the stack again while it recovers, and roots that fill
the stack make the first push overflow.  Phase 3 aborts if half a stack has no
room for one block's objects, which the code excludes (4096 entries
at least against 256 objects of a block) and the blocks of two objects here keep.
*Two
collections*: marks and counts that survive one collection (uncollectable
blocks) matter in the next.  *HintFlags*: a race of `GC_free` with a collector
needs one of each; the third thread waits for the lock.  *HintHeap*: two slots
in a block distinguish empty, partly and fully used blocks; a second block can
be in use while the first is freed and reused for the other kind.
*ParallelMark*: two markers can take the same entry, mark the same object and
wait for each other.  `ENTRIES_TO_GET` and the global stack are scaled down to 2
so that stealing several, returning half and sharing all occur; with six entries
a local stack holds the whole heap, so that its overflow, like a third marker, is
covered by the proofs alone.  *StopWorld*: a signal left over from one stop needs a
second stop to do harm, and a wrong acknowledgement a third thread to be taken
for.  *BlockAlloc*: six blocks over seven addresses give every case of
coalescing (predecessor, successor, both, none), of splitting and of a list that is not the block's own;
`MAX_JUMP` is 2, so that a forwarding chain has several links; requests of
different lists make a search go on to larger lists.  *IndexWalk*: an index of
four slots, one slot per step and `MAX_JUMP` 3 give steps that end inside an
index, at its end, and below it; a global stack of five entries, local ones of
four, make returning succeed and fail.  With `INT_MAX` = 7 the headers that heaps can
have include numbers that are negative, that end a step at once, and that make
`covered` wrap; `Discards` is 1, so that a step that does not fit drops one entry at a
time.  *LocalAlloc*: one thread builds or
allocates while the other collects or builds; the second block can be fresh,
swept or in use while the first is built from.  *Finalize*: three objects make a
chain whose middle can be put back; two finalizers at a time make the order of
the passes matter; two threads race for registrations and for the queue.

Symmetry is used for interchangeable threads, blocks and slots, in safety runs
only.  Deadlock is checked in the runs of HintFlags, HintHeap, StopWorld, BlockAlloc,
LocalAlloc and Finalize; the marking models stop when their bound on the number
of collections is reached, and IndexWalk after phase 2 or an abort.

## 4. Fairness

*HintMark* (`FairSpec`): weak fairness of the collector's own steps.  It is one
thread with the world stopped, so it runs on whenever it can; starting a
collection is the program's choice and not fair.
*ParallelMark* (`FairSpec`): weak fairness of each marker's steps, and of the
Initiator's steps in `GC_do_parallel_mark` and `GC_mark_some`: mutexes and the
scheduler let a thread that can run do so eventually.  No fairness is assumed
of a helper joining: a helper may sleep through a parallel mark.  Spurious
wakeups are not needed for progress and not modelled.
*StopWorld* (`FairSpec`): weak fairness of the thread that stops the world and of
every handler that can take a step: the kernel delivers what is pending and
schedules who can run.  `sigsuspend` returns for a pending restart signal, which
the fairness of the handler covers, or for a signal of the program
(`UserSignal`), which may never come and is not fair.  So a restart signal that
is not sent, or is taken by somebody else, leaves its thread suspended and breaks
`EveryoneResumes`, as it does if only those threads are restarted that have recorded the
stop.  A restart signal that was sent is delivered: what happens if one gets lost the
code leaves open ("we can still lose", `pthread_stop_world.c:255`), and so does the
model.  Suspend signals that are lost stay lost (`MaxLost`).  What a
thread does of its own accord, stopping the world included, is not fair.
*BlockAlloc* (`FairSpec`): weak fairness of a search under way, a plain call.
*IndexWalk* (`FairSpec`): weak fairness of each marker and of the phases; each
entry is taken by somebody, not by anybody in particular.
*LocalAlloc* (`FairSpec`): weak fairness of builders and of the collector, which
need only the processor: a builder never takes a lock before it has counted
itself out.  Allocating and collecting are the program's choice.
HintFlags, HintHeap and Finalize state no liveness: when a finalizer runs is up
to the program.

## 5. Proofs

`tlapm` checks every proof to its leaves.

*HintMark_proofs*: type correctness; the stack never leaves its allocation
(`StackInBounds`); the inductive invariant `MarkingInv`, and from it
`HintedComplete`, `FullComplete`, `Precise`, `SeedsCovered` and `Implements`
(HintMark refines MarkSpec), for every heap, hint set, stack size and number of
collections.  `MarkingInv` is needed because completeness at the end says
nothing about the middle of a walk.  Its core is `EdgeInv`: every pointer of a
marked object leads to something marked or waiting on the stack, *unless* its
block is still ahead of the walk, or the mark state is `MS_INVALID`; so what an
overflow drops is found again by the rescan it forces.  `CountInv` says which
counts may err (`GC_set_hdr_marks` counts zero for a large block),
`SeedInv` what phases 1 and 2 have established, `PreciseInv` that whatever is
marked is inside every closed set.  `MarksLive` is about `MarkSpec` itself, as
instantiated here: for every heap, abstract marking ends with exactly the live
objects marked, since the marks are inside every closed set and at the end are
one; with `Implements` this gives `CollectionMarksLive`.  The seven results about
HintMark from `MarkingInv` on (not type correctness and `StackInBounds`) assume
`SmallUncollectable`: no uncollectable block is larger than
`HBLKSIZE`.  The code does not ensure it; without it `FullComplete` is false
(finding 1).

*HintHeap_proofs*: for any finite number of blocks and slots and all three
kinds, `TypeCorrect`, `LiveNeverReused`, `NeverFreedTwice`,
`UncollectableStaysMarked`, `ZeroMeansEmpty`, `MarkedSurvives`.  The invariant
relates live objects, marks, free lists, reclaim lists and counts; the
arithmetic on counts (`CountAfterOK`, `CountedOK`) rests on the library's
theorems on cardinality.

*StopWorld_proofs*: for any finite number of threads, stops and lost signals,
`TypeCorrect`, `WorldIsStopped`, `SignalsStay`, `AcknowledgementsBalance`.  The
last three assume `NoEarlyResend` (`Timely`, or no retries): without it they are
false (finding 2).  The invariant says, for each stage of a stop, who has a
suspend signal pending, who is in which part of its handler and who has been
sent to, and that the semaphore, what the stopper has taken from it and those
who still owe an acknowledgement add up to what was sent.

*ParallelMark_proofs*: for any finite number of helpers, any heap, stack sizes
and number of parallel marks, `TypeCorrect`, `CursorsStayInBounds`,
`CursorNeverBack`, `NothingGetsLost`, `LeavingIsSafe`, `ParallelComplete` and
`Implements` (ParallelMark refines MarkSpec).  The invariant says that
`GC_helper_count` and `GC_active_count` are the numbers of markers that have
joined and that hold work, that everything below a published cursor has been
taken, and that whatever is marked but not scanned is on a stack, in a marker's
hands, or was dropped with the overflow flag set.  `Drained` is what makes a helper that
joins late harmless: once the Initiator has left, the global stack has been
taken to its top, and all that an active marker can do is find that out.  `PreciseInv` keeps the marks inside every closed set, which the
refinement needs.

*LocalAlloc_proofs*: for any finite number of threads, blocks and objects,
`TypeCorrect`, `OneOwnerOnly`, `LiveNeverFree`, `CollectionsWait` and
`ListsAreMarked`.  `ControlInv` says that `GC_fl_builder_count` is the number of
builders, that only builders have objects at hand, and what has been marked
when; `OwnerInv` says that what threads own, what the global lists own (what a
sweep *would* put there included) and what the program uses are disjoint.  That
needs the count: without it the marks a builder reads could change.

*Finalize_proofs*: for any finite number of threads and objects, any links,
programs and number of finalizers, `TypeCorrect`, `AllocatedStays`,
`LinksStayValid`, `RegistrationsReplace` and `FinalizersWait`.  `AllocInv` says that some closed set of
allocated objects holds what the program, the queue and the tables have;
`CellInv` that a link the program can read is accounted for by its entry or by a
call under way; and `MarkInv`, pass by pass, what the marks cover: the links
looked at, the objects registered finalizers have pushed from, the part of the
queue the passes of `GC_java_finalization` are through with.  So when the sweep
comes, the marks are themselves such a closed set.  `FinalizersWait` is
`NeverAccessible`; its invariant `ApartInv` says that for each entry of the queue
that respects the order there is a closed set with all the program can come to
without it (its pointers, its links, the table, the other entries), but without
the object of the entry.  The passes establish it: the marks and the other
entries are such a set when an object is enqueued, or, where the program has
unordered finalizers, when the pass that puts entries back leaves it there.  It
rests on there being one finalizer for each object (`SingleInv`), which is why
programs that call `GC_finalize_all` are left out.

*BlockAlloc_proofs*: for any finite number of sections of any size, any
thresholds of the lists and largest forwarding count, any black lists and
requests, `TypeCorrect`, `HeadersAreRight`, `FreeListsAreRight`,
`FreeBlocksAreApart` and `SearchIsComplete`.  The invariant `HeapInv` is about
the heap between two operations: the header table describes disjoint blocks of
the memory that was added (`Shaped`), list i is a doubly linked list of the free
blocks of its sizes and of nothing else, with the right byte count (`Chains`), no
two free blocks touch (`NoAdj`), and `GC_large_free_bytes` is the total.
`OnItsList` adds that a search looks at a block of the list it is on.  A list is
not described by following it, which would be a recursion, but by what is linked
to what and by induction along it: every set that has its first block, and with
each block the next, has all of them (`Linked`).  That `OnList`, which follows it
step by step, finds the same blocks is `OnListIs`; that a sum over a set does not
depend on the order in which it is taken is `AnyOrder`; both rest on `Recursion`
and induction over sets of numbers or subsets, which the provers can do.

Inside an operation the invariant does not hold, and the lemmas say what does.
`GC_freehblk` and `GC_get_first_part` work on a heap in which one block is on no
list (`Loose`): it is made so by `Bare` or `OffList`, merged with its neighbours
by `Join`, and put back by `AddLoose`.  `GC_split_block` leaves a block on a list
that is not the one for its size; `Ready` says of such a heap that it is right
once that block is taken off, and `Split` and `FirstPart` meet there.  That the
forwarding counts lead from every place of a block to its header is `InvHeaders`,
by the same argument as for lists.

`SearchIsComplete` needs one more invariant, `Searched`: what a search has passed
on its list (`Passed`, again a set closed under next) had no room outside the
black list, or the block it looks at has room at its start, so that it will be
taken; lists it is through with are exhausted.  The second case is the one of
`NextIsBetter`, where the code passes over a block that would do because the next
one is smaller: with `IsBlackListed` asked about the next block, one of them is
taken in the end.  `Drop` takes a block out of what was passed; `DropIs` shows that
the search goes on with the block that followed it.

All five assume `NoLeak`: a header for the rest of a block, the counts, and the
header of a block handed out can be had (`Failing` has no "rest", "counts" or
"map"), while GC_add_to_heap, the advance to a clear place and the pieces of a
dropped block may do without.  The code does not keep the lists right otherwise
(section 6): a block that leaks keeps its flag and is on no list.

*IndexWalk_proofs*: for any finite number of markers, any heaps of finitely many
disjoint blocks, any size of an index, largest forwarding count, size of a step
and of the stacks, `TypeCorrect`, `NothingForgotten` and `StackSuffices`.
`NothingForgotten` is about a step of `HINTGC_process_index_step` first: the walk
down from a slot passes over no header of a block in use, whether it goes slot
by slot or by forwarding counts: each one is called or lies ahead of where the walk
ends (`WalkFinds`); so what it leaves behind, an entry with a smaller `j` or
a dummy, stands for all the blocks not yet called (`StepIsRight`).  The invariant adds to
`NoBlockForgotten` that there are no entries outside a marking (`Quiet`) and, for
`StackSuffices`, that on the stack of a marker which has begun to mark all that
lies above the first `MAX_STEAL` entries are ranges (`Fits`): an index entry or a
dummy that is worked on is then at most the last of these.
`StackSuffices` is about the heaps in which the header of each large block counts as
`PARAM_NUM_HBLKS_PER_STEP` slots or more, without `covered` wrapping (`LimitHolds`), as
finding 3 shows it to be false for others.  For these a step calls the function of
at most `PARAM_NUM_HBLKS_PER_STEP` + 1 blocks (`StepIsShort`), by induction down the index
(`ShortStep`): a walk that goes on with `covered` slots calls at most one block, or so
many that with `covered` they are the limit and one; a jump that reaches a header
makes the block there the last.  The other two theorems need no such condition: what
is called and what is left behind is right for steps of any length.  Forwarding counts lead from every place of a block
in use towards its header (`ForwardingSlot`); here `Slot` defines them so, and
`HeadersAreRight` of BlockAlloc is what shows it of the allocator.  `Walk` and
`Pushed` are recursive functions; that they exist (`WalkExists`, `AfterExists`) and
what they compute is proved by induction over sets of numbers (`LeastNat`).  That
the local stack has room for `MAX_STEAL` entries and the ranges of
`PARAM_NUM_HBLKS_PER_STEP` + 1 blocks is an assumption on the constants: in the code
there are 4096 entries (`LOCAL_MARK_STACK_SIZE` is `HBLKSIZE`), a marker takes up to 6
(`GC_steal_mark_stack` asks for 5 and its loop runs to `i <= max`), and 11 blocks have
at most 256 objects each, 2822 entries in all.

Its last part is about HintFlags (whose `FlagsInit`, `FlagsNext` and so on have
names of their own so that one module can extend both): for any number of threads
and blocks, `FlagsTypeCorrect`, `SkipIsSound` and `HintsServedOnce`.  The inductive
invariant adds that the lock excludes the collectors (`Exclusive`) and that a set
flag is counted, about to be counted, or about to be cleared (`PendingCounted`).

Only model-checked: liveness (`CollectionTerminates`, `MarkingEnds`,
`EveryoneResumes`, `AllocationReturns`, `PhasesEnd`, `CollectorGoesOn`), which is
out of the prover's reach, as is `ENABLED`.

## 6. Findings and observations

Findings, each shown by a run:

1. `FullMarkComplete`, `mark.c:187`: after a hinted collection the count of an
   uncollectable object larger than a block is 0, since `HBLK_OBJS` is; a later
   full collection takes the block for empty and does not scan it.
2. `StoppedMeansStopped`, `pthread_stop_world.c:222`: with `GC_RETRY_SIGNALS`, a
   second suspend signal that is sent before the handler has recorded the stop
   stays blocked until the handler returns.  If the next stop has begun by then,
   it is acknowledged and recorded before `GC_suspend_all` gets there, which
   then does not count the thread; its acknowledgement stands for another
   thread's, and the world counts as stopped while that thread runs.
3. `StepsFit`, `mark.c:1731`: the walk over an index subtracts a forwarding count from
   `j` and then adds `index[j]`, of the new `j`, to `covered`.  When the jump has
   reached the first slot of a large block, that is the address of the header, cut
   to an `int`.  If it is negative, `covered` stays below `PARAM_NUM_HBLKS_PER_STEP` and
   the step goes on to the end of the index (1024 slots).  Sixteen blocks of 256 objects
   that are not described by a length fill the 4096 entries of a local stack; `PUSH_OBJ`
   then drops entries, and as phase 2 is not repeated nothing finds them again, or
   `GC_push_all_impl` aborts.  If it is positive, the step ends at the next block in
   use, however few slots it has covered.

Observations made while modelling, which no run of this project checks:

- `alloc.c:1020` says that the flags a hinted collection clears were wrong or
  served.  A hint given between the marking and the visit of its block
  (`SetFlag` between `StoppedMark` and `HINTGC_reclaim_block`) is cleared
  although nobody looked at it; in the same window the assertion at
  `alloc.c:1026` fails.
- `alloc.c:1073` asserts that the sanity object is marked; if nothing is
  pending the collection is skipped (`alloc.c:892`) and it is not.
- `mark.c:1368`: phase 1 sets the mark bits of all slots of an uncollectable
  block, also of free slots that wait for the sweep; such a slot is never
  handed out again.
- `malloc.c:476`: `GC_free` gives only a hint for an atomic uncollectable
  object, and no collection acts on it.
- `mark.c:1974` says that `GC_active_count` stays zero once it is; a helper that
  joins late increments it again, without harm (`LeavingMeansDone`).
- `mark.c:1854` asserts `j >= -1` after a step; the forwarding count of a large
  object that begins in the index below takes `j` further down (the second heap
  of `MCIndexWalk`).  Without assertions any negative `j` ends the index.
- `mark.c:2015`: in phases 1 and 2 the top of the global mark stack never comes
  down, so entries that are returned late are dropped, the rest of an index
  included, and the assertion there fails; without assertions the phase goes
  unfinished. IndexWalk has the drop (`ReturnAll`, `ShareBottom`).
- `allchblk.c:363` says that free lists are sorted by address; `GC_add_to_fl`
  puts a block at the head.
- `allchblk.c:803` says that a failure of `GC_install_counts` leaks memory.  The
  block that leaks keeps its header with `FREE_BLK` and is on no list, so
  freeing its neighbour later unlinks it from a list it is not on
  (`FreeListsConsistent` fails with `Failing = {"counts"}`).
- `finalize.c:228`: unregistering a disappearing link before any has been
  registered looks into a table that does not exist yet.
- `finalize.c:634-666`: an entry of the queue whose procedure is "unreachable" and
  that a collection finds marked goes back to the table.  The queue is a root, so
  an entry that nobody has invoked by the next collection always goes back, and
  is queued again by the one after.
- After `GC_finalize_all` the program may register a finalizer for an object whose
  old entry is still queued; if that goes back to the table, the object has two,
  against `gc.h` ("All but the last finalizer registered for an object is
  ignored").  `RegisteringReplaces` speaks of registrations only.

## 7. Plan

The modules of section 2 are modelled, checked and proved.  What would come next:
that the heaps IndexWalk assumes are those `HeadersAreRight` describes, as a
theorem; what the liveness properties rest on and the provers can reach, such as a
measure that each step of a walk or a search makes smaller; a composition of IndexWalk
with the cursor and the counts of ParallelMark; the retries of
`GC_collect_or_expand` over the byte counts that decide them; the lock-free reads
of `specific.c`; `fork` during a parallel mark.

## 8. Not modelled

Root finding (`mark_rts.c`, `dyn_load.c`) depends on the platform's loader:
HintMark takes any roots.  Start-up, size classes and option parsing are
straight-line.  Typed, gcj, stubborn and debugging allocation wrap the
allocator.  `os_dep.c` and `mach_dep.c` are system calls and registers.  The
other platforms' files are not built here.  Incremental collection is disabled
in this configuration, and `MS_PUSH_RESCUERS` with it.  `fork` and the policy of
`GC_collect_or_expand`, a comparison of byte counts, are those of the original
collector and are left out, and so is the table of `specific.c`, which is only
compiled where the compiler has no thread-local variables; `PROJECT.json` lists
the hazards they have.  How the marker fills the black
lists, the header cache and the memory of headers are left out of BlockAlloc.
