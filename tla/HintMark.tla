------------------------------ MODULE HintMark ------------------------------
(***************************************************************************)
(* Serial stop-the-world marking in hintgc: the three phases of a hinted   *)
(* collection (GC_hintgc_stopped_mark, alloc.c) and the GC_mark_some state *)
(* machine (mark.c) it shares with the full collection (GC_stopped_mark).  *)
(*                                                                         *)
(* The heap is a set of blocks; a block holds objects of one kind.  A mark *)
(* stack entry is a range of memory, modelled by the set of objects that   *)
(* the words in the range point to.  The stack is bounded: pushing on a    *)
(* full stack throws entries away and invalidates the mark state, and the  *)
(* collector later rescans to make up for what it threw away.              *)
(*                                                                         *)
(* The world is stopped while marking, so the heap graph (contents), the   *)
(* roots and the hints (pending) change only between two collections.      *)
(***************************************************************************)
EXTENDS Integers, Sequences

CONSTANTS
  NBlocks,              \* blocks are 1 .. NBlocks, in address order
  Obj,                  \* object slots of all blocks
  BlockOf,              \* the block an object lies in
  Kind,                 \* hb_obj_kind of a block
  HBLK_OBJS,            \* HBLKSIZE / hb_sz: 0 for a block larger than HBLKSIZE
  Graphs,               \* the heap graphs to consider: what each object points to
  RootSets,             \* the sequences of root ranges GC_push_roots may push
  HintSets,             \* the sets of blocks that may carry HAS_PENDING_FREE
  InitialMarkStackSize, \* INITIAL_MARK_STACK_SIZE
  Discards,             \* GC_MARK_STACK_DISCARDS
  MaxMarkStackSize,     \* bound: above it GC_scratch_alloc fails
  MaxGcNo               \* bound: number of collections of a behaviour

Block == 1 .. NBlocks
Kinds == {"PTRFREE", "NORMAL", "UNCOLLECTABLE", "AUNCOLLECTABLE"}

ASSUME HeapAssumption ==
  /\ NBlocks \in Nat
  /\ BlockOf \in [Obj -> Block]
  /\ Kind \in [Block -> Kinds]
  /\ HBLK_OBJS \in [Block -> Nat]
  /\ Graphs \subseteq [Obj -> SUBSET Obj]
  /\ RootSets \subseteq Seq(SUBSET Obj)
  /\ HintSets \subseteq SUBSET {b \in Block : Kind[b] # "UNCOLLECTABLE"}

ASSUME StackAssumption ==
  /\ InitialMarkStackSize \in Nat /\ MaxMarkStackSize \in Nat
  /\ Discards \in 1 .. InitialMarkStackSize
  /\ MaxGcNo \in Nat

IS_UNCOLLECTABLE(k) == k \in {"UNCOLLECTABLE", "AUNCOLLECTABLE"}

\* hb_descr = 0: the mark stack never takes an object of such a block.
PointerFree(k) == k \in {"PTRFREE", "AUNCOLLECTABLE"}

ObjectsIn(b)       == {o \in Obj : BlockOf[o] = b}
UncollectableObjs  == {o \in Obj : IS_UNCOLLECTABLE(Kind[BlockOf[o]])}
Scannable(o)       == ~PointerFree(Kind[BlockOf[o]])

VARIABLES
  pc,                      \* where the collector is
  gc_kind,                 \* "hinted" or "full": the collection under way
  GC_gc_no,                \* collections completed
  contents, roots,         \* the heap graph and the root ranges
  pending,                 \* blocks with HAS_PENDING_FREE in hb_flags
  hb_marks,                \* objects whose mark bit is set
  hb_n_marks,              \* hb_n_marks of every block
  GC_mark_stack,           \* ranges between GC_mark_stack and GC_mark_stack_top
  GC_mark_stack_size,
  GC_mark_stack_too_small,
  GC_mark_state,
  GC_objects_are_marked,
  scan_ptr,                \* last block GC_mark_some pushed, 0 for none
  todo,                    \* blocks GC_apply_to_all_blocks has still to visit
  pushing,                 \* marked objects GC_push_marked has still to push
  cur                      \* pointers of the range GC_mark_from is scanning

heapVars  == <<gc_kind, GC_gc_no, contents, roots, pending>>
markVars  == <<hb_marks, hb_n_marks>>
stackVars == <<GC_mark_stack, GC_mark_stack_size, GC_mark_stack_too_small>>
stateVars == <<GC_mark_state, GC_objects_are_marked, scan_ptr>>
walkVars  == <<todo, pushing, cur>>
vars      == <<pc, heapVars, markVars, stackVars, stateVars, walkVars>>

MarkStates == {"MS_NONE", "MS_PUSH_UNCOLLECTABLE", "MS_ROOTS_PUSHED",
               "MS_PARTIALLY_INVALID", "MS_INVALID"}
Locations  == {"idle", "phase1", "phase2", "phase3", "push3", "dfs3", "grow3",
               "mark_some", "mark_from", "push_some", "marked", "abort"}

TypeOK ==
  /\ pc \in Locations
  /\ gc_kind \in {"hinted", "full"}
  /\ GC_gc_no \in Nat
  /\ contents \in [Obj -> SUBSET Obj]
  /\ roots \in Seq(SUBSET Obj)
  /\ pending \in SUBSET Block
  /\ hb_marks \in SUBSET Obj
  /\ hb_n_marks \in [Block -> Nat]
  /\ GC_mark_stack \in Seq(SUBSET Obj)
  /\ GC_mark_stack_size \in Nat
  /\ GC_mark_stack_too_small \in BOOLEAN
  /\ GC_mark_state \in MarkStates
  /\ GC_objects_are_marked \in BOOLEAN
  /\ scan_ptr \in 0 .. NBlocks
  /\ todo \in SUBSET Block
  /\ pushing \in SUBSET Obj
  /\ cur \in SUBSET Obj

(***************************************************************************)
(* Mark bits and the mark stack.                                           *)
(***************************************************************************)

\* PUSH_OBJ: a pointer-free object is not pushed; on a full stack
\* GC_signal_mark_stack_overflow drops the top Discards entries first.
StackFull == Len(GC_mark_stack) >= GC_mark_stack_size

\* Mutant: an overflow does not invalidate the mark state.
PUSH_OBJ_KeepsState(o) ==
  /\ UNCHANGED <<GC_mark_stack_size, GC_mark_stack_too_small, GC_mark_state>>
  /\ GC_mark_stack' =
       IF ~Scannable(o) THEN GC_mark_stack
       ELSE IF StackFull
       THEN Append(SubSeq(GC_mark_stack, 1, Len(GC_mark_stack) - Discards), contents[o])
       ELSE Append(GC_mark_stack, contents[o])

PUSH_OBJ(o) ==
  IF ~Scannable(o) THEN UNCHANGED <<stackVars, GC_mark_state>>
  ELSE
  /\ UNCHANGED GC_mark_stack_size
  /\ IF StackFull
     THEN /\ GC_mark_stack' =
               Append(SubSeq(GC_mark_stack, 1, Len(GC_mark_stack) - Discards), contents[o])
          /\ GC_mark_stack_too_small' = TRUE
          /\ GC_mark_state' = "MS_INVALID"
     ELSE /\ GC_mark_stack' = Append(GC_mark_stack, contents[o])
          /\ UNCHANGED <<GC_mark_stack_too_small, GC_mark_state>>

\* SET_MARK_BIT_EXIT_IF_SET and INCR_MARKS for an object not yet marked.
SetMarkBit(o) ==
  /\ hb_marks' = hb_marks \cup {o}
  /\ hb_n_marks' = [hb_n_marks EXCEPT ![BlockOf[o]] = @ + 1]

\* PUSH_CONTENTS for one pointer word that refers to o.
PUSH_CONTENTS(o) ==
  IF o \in hb_marks THEN UNCHANGED <<markVars, stackVars, GC_mark_state>>
  ELSE SetMarkBit(o) /\ PUSH_OBJ(o)

\* MARK_NO_PUSH: only objects in blocks with a hint, and only their mark bit.
MARK_NO_PUSH(o) ==
  IF o \in hb_marks \/ BlockOf[o] \notin pending THEN UNCHANGED markVars
  ELSE SetMarkBit(o)

\* The range on top of the stack moves into the registers of GC_mark_from.
PopRange ==
  /\ cur = {} /\ GC_mark_stack # <<>>
  /\ cur' = GC_mark_stack[Len(GC_mark_stack)]
  /\ GC_mark_stack' = SubSeq(GC_mark_stack, 1, Len(GC_mark_stack) - 1)
  /\ UNCHANGED <<GC_mark_stack_size, GC_mark_stack_too_small>>

Drained == cur = {} /\ GC_mark_stack = <<>>

\* alloc_mark_stack(2 * size): may silently fail; the stack is emptied and
\* the overflow flag cleared either way.
\* Mutant: the overflow flag is cleared only if the stack could grow.
alloc_mark_stack_KeepsFlag ==
  /\ GC_mark_stack' = <<>>
  /\ \/ UNCHANGED <<GC_mark_stack_size, GC_mark_stack_too_small>>
     \/ /\ 2 * GC_mark_stack_size <= MaxMarkStackSize
        /\ GC_mark_stack_size' = 2 * GC_mark_stack_size
        /\ GC_mark_stack_too_small' = FALSE

alloc_mark_stack ==
  /\ GC_mark_stack' = <<>>
  /\ GC_mark_stack_too_small' = FALSE
  /\ \/ UNCHANGED GC_mark_stack_size
     \/ /\ 2 * GC_mark_stack_size <= MaxMarkStackSize
        /\ GC_mark_stack_size' = 2 * GC_mark_stack_size

\* GC_push_roots: GC_push_all for every range; a full stack is an ABORT.
RootsFit == Len(GC_mark_stack) + Len(roots) <= GC_mark_stack_size

GC_push_roots ==
  /\ GC_mark_stack' = IF RootsFit THEN GC_mark_stack \o roots ELSE GC_mark_stack
  /\ UNCHANGED <<GC_mark_stack_size, GC_mark_stack_too_small>>

\* The marked objects GC_push_marked pushes for block b: none when the
\* block holds no pointers or its mark count says that nothing is marked.
GC_block_empty(b) == hb_n_marks[b] = 0
\* Mutant: a count of one is taken for zero.
GC_push_marked_skips_One(b) == PointerFree(Kind[b]) \/ hb_n_marks[b] <= 1

GC_push_marked_skips(b) == PointerFree(Kind[b]) \/ GC_block_empty(b)

(***************************************************************************)
(* Beginning of a collection.  The mutators ran since the last one: the    *)
(* roots and the hints are new.                                            *)
(***************************************************************************)

Init ==
  /\ pc = "idle" /\ gc_kind = "full" /\ GC_gc_no = 0
  /\ contents \in Graphs /\ roots = <<>> /\ pending = {}
  /\ hb_marks = UncollectableObjs
  /\ hb_n_marks = [b \in Block |-> IF IS_UNCOLLECTABLE(Kind[b])
                                   THEN IF HBLK_OBJS[b] = 0 THEN 1 ELSE HBLK_OBJS[b]
                                   ELSE 0]
  /\ GC_mark_stack = <<>> /\ GC_mark_stack_size = InitialMarkStackSize
  /\ GC_mark_stack_too_small = FALSE
  /\ GC_mark_state = "MS_NONE" /\ GC_objects_are_marked = FALSE /\ scan_ptr = 0
  /\ todo = {} /\ pushing = {} /\ cur = {}

\* Uncollectable blocks keep their mark bits and counts.
GC_clear_marks ==
  /\ hb_marks' = hb_marks \cap UncollectableObjs
  /\ hb_n_marks' = [b \in Block |-> IF IS_UNCOLLECTABLE(Kind[b]) THEN hb_n_marks[b] ELSE 0]
  /\ GC_mark_state' = "MS_INVALID"
  /\ GC_objects_are_marked' = FALSE
  /\ scan_ptr' = 0

StartCollection(kind) ==
  /\ pc = "idle" /\ GC_gc_no < MaxGcNo
  /\ gc_kind' = kind
  /\ roots' \in RootSets /\ pending' \in HintSets
  /\ GC_clear_marks
  /\ GC_mark_stack' = <<>>                      \* GC_invalidate_mark_state
  /\ UNCHANGED <<GC_gc_no, contents, GC_mark_stack_size, GC_mark_stack_too_small, pushing, cur>>

\* HINTGC_collect_inner returns at once when nothing has been freed.
StartHinted ==
  /\ StartCollection("hinted") /\ pending' # {}
  /\ pc' = "phase1" /\ todo' = Block

StartFull == StartCollection("full") /\ pc' = "mark_some" /\ UNCHANGED todo

(***************************************************************************)
(* Phase 1: mark everything in the blocks without a hint.                  *)
(***************************************************************************)

\* GC_set_hdr_marks sets every mark bit and counts HBLKSIZE / sz of them.
GC_set_hdr_marks(b) ==
  /\ hb_marks' = hb_marks \cup ObjectsIn(b)
  /\ hb_n_marks' = [hb_n_marks EXCEPT ![b] = HBLK_OBJS[b]]

\* Mutant: the hinted blocks are marked like the others.
Phase1Block_NoHintTest(b) ==
  /\ pc = "phase1" /\ b \in todo /\ todo' = todo \ {b}
  /\ GC_set_hdr_marks(b)
  /\ UNCHANGED <<pc, heapVars, stackVars, stateVars, pushing, cur>>

Phase1Block(b) ==
  /\ pc = "phase1" /\ b \in todo /\ todo' = todo \ {b}
  /\ IF b \in pending THEN UNCHANGED markVars ELSE GC_set_hdr_marks(b)
  /\ UNCHANGED <<pc, heapVars, stackVars, stateVars, pushing, cur>>

Phase1Done ==
  /\ pc = "phase1" /\ todo = {}
  /\ pc' = "phase2" /\ todo' = Block
  /\ UNCHANGED <<heapVars, markVars, stackVars, stateVars, pushing, cur>>

(***************************************************************************)
(* Phase 2: mark, without pushing, what the unhinted blocks point to in    *)
(* the hinted ones.  A pointer-free block is scanned too: its free slots   *)
(* are linked through it.                                                  *)
(***************************************************************************)

\* Mutant: the pointer-free shortcut the source disables as "NOT LEGAL".
Phase2Block_SkipsPointerFree(b) ==
  /\ pc = "phase2" /\ Drained /\ b \in todo /\ todo' = todo \ {b}
  /\ GC_mark_stack' = IF b \in pending \/ PointerFree(Kind[b]) THEN <<>>
                      ELSE <<UNION {contents[o] : o \in ObjectsIn(b)}>>
  /\ UNCHANGED <<pc, heapVars, markVars, GC_mark_stack_size, GC_mark_stack_too_small,
                 stateVars, pushing, cur>>

Phase2Block(b) ==
  /\ pc = "phase2" /\ Drained /\ b \in todo /\ todo' = todo \ {b}
  /\ GC_mark_stack' = IF b \in pending THEN <<>>
                      ELSE <<UNION {contents[o] : o \in ObjectsIn(b)}>>
  /\ UNCHANGED <<pc, heapVars, markVars, GC_mark_stack_size, GC_mark_stack_too_small,
                 stateVars, pushing, cur>>

Phase2Pop ==
  /\ pc = "phase2" /\ PopRange
  /\ GC_objects_are_marked' = TRUE
  /\ UNCHANGED <<pc, heapVars, markVars, GC_mark_state, scan_ptr, todo, pushing>>

Phase2Mark(o) ==
  /\ pc = "phase2" /\ o \in cur /\ cur' = cur \ {o}
  /\ MARK_NO_PUSH(o)
  /\ UNCHANGED <<pc, heapVars, stackVars, stateVars, todo, pushing>>

\* The flush of the stack, push_roots_with_check and the jump of the mark
\* state that the fallback loop below relies on.
PushRootsWithCheck ==
  /\ pc = "phase2" /\ Drained /\ todo = {}
  /\ GC_push_roots
  /\ GC_mark_state' = "MS_ROOTS_PUSHED"
  /\ pc' = (IF RootsFit THEN "phase3" ELSE "abort") /\ todo' = Block
  /\ UNCHANGED <<heapVars, markVars, GC_objects_are_marked, scan_ptr, pushing, cur>>

(***************************************************************************)
(* Phase 3: push the marked objects of the hinted blocks; after an         *)
(* overflow drain the stack, try to grow it, and push them all again.      *)
(***************************************************************************)

Phase3Block(b) ==
  /\ pc = "phase3" /\ b \in todo /\ todo' = todo \ {b}
  /\ \/ /\ b \notin pending
        /\ UNCHANGED <<pc, pushing, GC_objects_are_marked>>
     \/ /\ b \in pending /\ GC_push_marked_skips(b)
        /\ pc' = "push3"
        /\ UNCHANGED <<pushing, GC_objects_are_marked>>
     \/ /\ b \in pending /\ ~GC_push_marked_skips(b)
        /\ pushing' = hb_marks \cap ObjectsIn(b)
        /\ pc' = "push3" /\ GC_objects_are_marked' = TRUE
  /\ UNCHANGED <<heapVars, markVars, stackVars, GC_mark_state, scan_ptr, cur>>

\* GC_push_marked: one marked object after the other.
PushMarked(o) ==
  /\ pc \in {"push3", "push_some"} /\ o \in pushing /\ pushing' = pushing \ {o}
  /\ PUSH_OBJ(o)
  /\ UNCHANGED <<pc, heapVars, markVars, GC_objects_are_marked, scan_ptr, todo, cur>>

\* After each hinted block: drain a stack that is more than half full.
Phase3Pushed ==
  /\ pc = "push3" /\ pushing = {}
  /\ pc' = IF Len(GC_mark_stack) - 1 > GC_mark_stack_size \div 2 THEN "dfs3" ELSE "phase3"
  /\ UNCHANGED <<heapVars, markVars, stackVars, stateVars, walkVars>>

\* GC_mark_from takes the next range (GC_DFS_until_empty, MARK_FROM_MARK_STACK).
MarkFromPop ==
  /\ pc \in {"dfs3", "grow3", "mark_from"} /\ PopRange
  /\ GC_objects_are_marked' = TRUE
  /\ UNCHANGED <<pc, heapVars, markVars, GC_mark_state, scan_ptr, todo, pushing>>

\* GC_mark_from looks at one pointer of the range it is scanning.
MarkFromScan(o) ==
  /\ pc \in {"dfs3", "grow3", "mark_from"} /\ o \in cur /\ cur' = cur \ {o}
  /\ PUSH_CONTENTS(o)
  /\ UNCHANGED <<pc, heapVars, GC_objects_are_marked, scan_ptr, todo, pushing>>

Phase3Drained ==
  /\ pc = "dfs3" /\ Drained
  /\ pc' = "phase3"
  /\ UNCHANGED <<heapVars, markVars, stackVars, stateVars, walkVars>>

Phase3Overflowed ==
  /\ pc = "phase3" /\ todo = {} /\ GC_mark_stack_too_small
  /\ pc' = "grow3"
  /\ UNCHANGED <<heapVars, markVars, stackVars, stateVars, walkVars>>

\* Mutant: the hinted blocks are not pushed again after an overflow.
Phase3Grow_NoRepush ==
  /\ pc = "grow3" /\ Drained
  /\ alloc_mark_stack
  /\ pc' = "phase3"
  /\ UNCHANGED <<heapVars, markVars, stateVars, walkVars>>

Phase3Grow ==
  /\ pc = "grow3" /\ Drained
  /\ alloc_mark_stack
  /\ pc' = "phase3" /\ todo' = Block
  /\ UNCHANGED <<heapVars, markVars, stateVars, pushing, cur>>

\* GC_objects_are_marked := FALSE sends GC_mark_some straight to the
\* uncollectable blocks if the mark state is still invalid.
Phase3Done ==
  /\ pc = "phase3" /\ todo = {} /\ ~GC_mark_stack_too_small
  /\ GC_objects_are_marked' = FALSE
  /\ pc' = "mark_some"
  /\ UNCHANGED <<heapVars, markVars, stackVars, GC_mark_state, scan_ptr, walkVars>>

(***************************************************************************)
(* GC_mark_some, called until it reports the end of marking.               *)
(***************************************************************************)

\* MARK_FROM_MARK_STACK handles at least one range, and returns when the
\* stack is empty or its credit is used up.
EnterMarkFrom ==
  /\ PopRange
  /\ GC_objects_are_marked' = TRUE /\ pc' = "mark_from"
  /\ UNCHANGED <<heapVars, markVars, GC_mark_state, scan_ptr, todo, pushing>>

MarkFromReturn ==
  /\ pc = "mark_from" /\ cur = {}
  /\ pc' = "mark_some"
  /\ UNCHANGED <<heapVars, markVars, stackVars, stateVars, walkVars>>

PushedBlock ==
  /\ pc = "push_some" /\ pushing = {}
  /\ pc' = "mark_some"
  /\ UNCHANGED <<heapVars, markVars, stackVars, stateVars, walkVars>>

\* GC_push_next_marked and GC_push_next_marked_uncollectable on block b.
PushBlock(b) ==
  /\ scan_ptr' = b
  /\ pc' = "push_some"
  /\ IF GC_push_marked_skips(b)
     THEN UNCHANGED <<pushing, GC_objects_are_marked>>
     ELSE pushing' = hb_marks \cap ObjectsIn(b) /\ GC_objects_are_marked' = TRUE
  /\ UNCHANGED <<heapVars, markVars, todo, cur>>

\* The walk is over: push the roots and wait for the stack to drain.
PushRootsAfterWalk ==
  /\ GC_push_roots
  /\ scan_ptr' = 0 /\ GC_objects_are_marked' = TRUE
  /\ GC_mark_state' = "MS_ROOTS_PUSHED"
  /\ pc' = IF RootsFit THEN "mark_some" ELSE "abort"
  /\ UNCHANGED <<heapVars, markVars, walkVars>>

\* Unmarked heap: start with the uncollectable blocks.
BeginUncollectable ==
  /\ pc = "mark_some" /\ GC_mark_state \in {"MS_INVALID", "MS_PARTIALLY_INVALID"}
  /\ ~GC_objects_are_marked
  /\ GC_mark_state' = "MS_PUSH_UNCOLLECTABLE"
  /\ UNCHANGED <<pc, heapVars, markVars, stackVars, GC_objects_are_marked, scan_ptr, walkVars>>

QuarterFull == Len(GC_mark_stack) - 1 >= GC_mark_stack_size \div 4

UncollectableAhead == {b \in Block : b > scan_ptr /\ Kind[b] = "UNCOLLECTABLE"}

MarkDuringUncollectable ==
  /\ pc = "mark_some" /\ GC_mark_state = "MS_PUSH_UNCOLLECTABLE" /\ QuarterFull
  /\ EnterMarkFrom

PushUncollectable(b) ==
  /\ pc = "mark_some" /\ GC_mark_state = "MS_PUSH_UNCOLLECTABLE" /\ ~QuarterFull
  /\ b \in UncollectableAhead /\ \A c \in UncollectableAhead : b <= c
  /\ PushBlock(b)
  /\ UNCHANGED <<stackVars, GC_mark_state>>

UncollectableDone ==
  /\ pc = "mark_some" /\ GC_mark_state = "MS_PUSH_UNCOLLECTABLE" /\ ~QuarterFull
  /\ UncollectableAhead = {}
  /\ PushRootsAfterWalk

\* Drain the stack in the states that must empty it before they go on.
MarkToEmpty ==
  /\ pc = "mark_some"
  /\ \/ GC_mark_state = "MS_ROOTS_PUSHED"
     \/ GC_mark_state \in {"MS_INVALID", "MS_PARTIALLY_INVALID"} /\ GC_objects_are_marked
  /\ EnterMarkFrom

\* The heap scan for marked objects that makes up for an overflow.
Rescanning(state) ==
  /\ pc = "mark_some" /\ GC_mark_state = state
  /\ GC_objects_are_marked /\ Drained

BeginRescan ==
  /\ Rescanning("MS_INVALID") /\ scan_ptr = 0
  /\ IF GC_mark_stack_too_small THEN alloc_mark_stack ELSE UNCHANGED stackVars
  /\ GC_mark_state' = "MS_PARTIALLY_INVALID"
  /\ UNCHANGED <<pc, heapVars, markVars, GC_objects_are_marked, scan_ptr, walkVars>>

RescanBlock ==
  /\ \/ Rescanning("MS_PARTIALLY_INVALID")
     \/ Rescanning("MS_INVALID") /\ scan_ptr # 0
  /\ scan_ptr < NBlocks
  /\ PushBlock(scan_ptr + 1)
  /\ UNCHANGED <<stackVars, GC_mark_state>>

\* An overflow during the walk: finish the walk, then start over.
RescanAgain ==
  /\ Rescanning("MS_INVALID") /\ scan_ptr # 0 /\ scan_ptr = NBlocks
  /\ scan_ptr' = 0
  /\ UNCHANGED <<pc, heapVars, markVars, stackVars, GC_mark_state, GC_objects_are_marked, walkVars>>

RescanDone ==
  /\ Rescanning("MS_PARTIALLY_INVALID") /\ scan_ptr = NBlocks
  /\ PushRootsAfterWalk

MarkDone ==
  /\ pc = "mark_some" /\ GC_mark_state = "MS_ROOTS_PUSHED" /\ Drained
  /\ IF GC_mark_stack_too_small THEN alloc_mark_stack ELSE UNCHANGED stackVars
  /\ GC_mark_state' = "MS_NONE"
  /\ pc' = "marked"
  /\ UNCHANGED <<heapVars, markVars, GC_objects_are_marked, scan_ptr, walkVars>>

\* GC_finish_collection, and the hints are dropped.  HintHeap models the
\* sweep; no mark bit of a live object changes in it.
FinishCollection ==
  /\ pc = "marked"
  /\ GC_gc_no' = GC_gc_no + 1
  /\ pending' = {}
  /\ pc' = "idle"
  /\ UNCHANGED <<gc_kind, contents, roots, markVars, stackVars, stateVars, walkVars>>

(***************************************************************************)
(* The specification.  Marking is one thread's loop with the world         *)
(* stopped: it goes on whenever it can.  Nothing obliges the mutators to   *)
(* start a collection.                                                     *)
(***************************************************************************)

Phase1 == Phase1Done \/ \E b \in Block : Phase1Block(b)

Phase2 ==
  \/ Phase2Pop \/ PushRootsWithCheck
  \/ \E b \in Block : Phase2Block(b)
  \/ \E o \in Obj : Phase2Mark(o)

Phase3 ==
  \/ Phase3Pushed \/ Phase3Drained \/ Phase3Overflowed \/ Phase3Grow \/ Phase3Done
  \/ \E b \in Block : Phase3Block(b)

MarkFrom == MarkFromPop \/ MarkFromReturn \/ \E o \in Obj : MarkFromScan(o)

GC_mark_some ==
  \/ BeginUncollectable \/ MarkDuringUncollectable \/ UncollectableDone
  \/ MarkToEmpty \/ BeginRescan \/ RescanBlock \/ RescanAgain \/ RescanDone
  \/ MarkDone \/ PushedBlock
  \/ \E b \in Block : PushUncollectable(b)

Collector ==
  \/ Phase1 \/ Phase2 \/ Phase3 \/ MarkFrom \/ GC_mark_some \/ FinishCollection
  \/ \E o \in Obj : PushMarked(o)

Next == StartHinted \/ StartFull \/ Collector

Spec     == Init /\ [][Next]_vars
FairSpec == Spec /\ WF_vars(Collector)

(***************************************************************************)
(* What marking promises.                                                  *)
(***************************************************************************)

Unhinted == {o \in Obj : BlockOf[o] \notin pending}
PointedToBy(S) == UNION {contents[o] : o \in S}
Targets(ranges) == UNION {ranges[i] : i \in DOMAIN ranges}

\* Where marking must start: the roots and the uncollectable objects and,
\* in a hinted collection, everything outside the hinted blocks with all
\* that it points to.
Seeds ==
  Targets(roots) \cup UncollectableObjs \cup
    (IF gc_kind = "hinted" THEN Unhinted \cup PointedToBy(Unhinted) ELSE {})

Scanned == {o \in Obj : Scannable(o)}
Closed(S) == Seeds \cup PointedToBy(S \cap Scanned) \subseteq S

\* What the collection may not reclaim: the least closed set.
Live == {o \in Obj : \A S \in SUBSET Obj : Closed(S) => o \in S}

\* A hinted collection marks every live object, whatever overflowed on the
\* way (GC_hintgc_stopped_mark: the only objects it may leave unmarked are
\* the garbage of the hinted blocks).
HintedMarkComplete == pc = "marked" /\ gc_kind = "hinted" => Live \subseteq hb_marks

\* A full collection marks every live object, also after hinted ones
\* (GC_stopped_mark; GC_malloc_uncollectable, gc.h).
FullMarkComplete == pc = "marked" /\ gc_kind = "full" => Live \subseteq hb_marks

\* Nothing else is marked: a hint is wasted only by a live object, and a
\* mark bit left from an earlier collection or a rescan retains nothing.
MarkPrecise == pc = "marked" => hb_marks \subseteq Live

\* The three invariants GC_hintgc_stopped_mark states before phase 3, kept
\* to the end of the collection; the third until an overflow, which may
\* discard a root range.
Covered == hb_marks \cup cur \cup Targets(GC_mark_stack)

SeedInvariants ==
  gc_kind = "hinted" /\ pc \notin {"idle", "phase1", "phase2"} =>
    /\ Unhinted \cup PointedToBy(Unhinted) \subseteq hb_marks
    /\ GC_mark_state = "MS_ROOTS_PUSHED" /\ pc # "abort" => Targets(roots) \subseteq Covered

\* The mark stack stays within its allocation: GC_mark_stack_top never
\* passes GC_mark_stack_limit (PUSH_OBJ, GC_push_all).
MarkStackInBounds == Len(GC_mark_stack) <= GC_mark_stack_size

\* A collection ends even if the mark stack can never grow: the overflow
\* loops make progress (GC_hintgc_stopped_mark: "ensures progress") and
\* GC_push_roots never meets a full stack ("Unexpected mark stack overflow").
CollectionTerminates == (pc # "idle") ~> (pc = "idle")

(***************************************************************************)
(* The inductive invariant behind HintedMarkComplete, FullMarkComplete and *)
(* MarkPrecise.                                                            *)
(***************************************************************************)

Phase3Locations == {"phase3", "push3", "dfs3", "grow3"}
LoopLocations == {"mark_some", "mark_from", "push_some"}

\* What each location says about the registers of the other routines.
ControlInv ==
  /\ pc \in {"phase1", "phase2"} \cup Phase3Locations => gc_kind = "hinted" /\ scan_ptr = 0
  /\ pc \in {"idle", "phase1", "marked"} => GC_mark_stack = <<>>
  /\ pc \notin {"phase2", "dfs3", "grow3", "mark_from"} => cur = {}
  /\ pc \notin {"push3", "push_some"} => pushing = {}
  /\ pc = "mark_from" \/ pushing # {} => GC_objects_are_marked
  /\ pc \in Phase3Locations => GC_mark_state \in {"MS_ROOTS_PUSHED", "MS_INVALID"}
  /\ pushing \subseteq hb_marks
  /\ GC_mark_stack_size >= InitialMarkStackSize
  /\ MarkStackInBounds

\* GC_block_empty errs only on blocks that phase 2 has scanned.
CountInv ==
  \A o \in hb_marks \cap Scanned : GC_block_empty(BlockOf[o]) =>
    gc_kind = "hinted" /\ BlockOf[o] \notin pending /\ Kind[BlockOf[o]] # "UNCOLLECTABLE"

\* The seeds are marked, or about to be.
VisitedUnhinted == {o \in Unhinted : BlockOf[o] \notin todo}

SeedInv ==
  /\ UncollectableObjs \subseteq hb_marks
  /\ pc = "phase1" => VisitedUnhinted \subseteq hb_marks
  /\ pc = "phase2" => Unhinted \subseteq hb_marks /\ PointedToBy(VisitedUnhinted) \subseteq Covered
  /\ SeedInvariants

\* A marked object is finished when its pointers are marked or wait on the
\* mark stack, or when it waits itself to be pushed.
Finished(o) == contents[o] \subseteq Covered \/ o \in pushing

EdgeInv ==
  /\ pc \in Phase3Locations /\ ~GC_mark_stack_too_small =>
       \A o \in hb_marks \cap Scanned : BlockOf[o] \in todo \/ Finished(o)
  /\ pc \in LoopLocations =>
     /\ GC_mark_state = "MS_ROOTS_PUSHED" =>
          Targets(roots) \subseteq Covered /\ \A o \in hb_marks \cap Scanned : Finished(o)
     /\ GC_mark_state = "MS_PUSH_UNCOLLECTABLE" =>
          \A o \in hb_marks \cap Scanned :
            Finished(o) \/ (Kind[BlockOf[o]] = "UNCOLLECTABLE" /\ BlockOf[o] > scan_ptr)
     /\ GC_mark_state = "MS_INVALID" /\ ~GC_objects_are_marked =>
          /\ scan_ptr = 0
          /\ \A o \in hb_marks \cap Scanned : Finished(o) \/ Kind[BlockOf[o]] = "UNCOLLECTABLE"
     /\ GC_mark_state = "MS_PARTIALLY_INVALID" =>
          /\ GC_objects_are_marked
          /\ \A o \in hb_marks \cap Scanned : Finished(o) \/ BlockOf[o] > scan_ptr
  /\ pc = "marked" => Closed(hb_marks)

\* Whatever waits to be marked is a seed or pointed to by a marked object.
Frontier == Seeds \cup PointedToBy(hb_marks \cap Scanned)

PreciseInv ==
  pc # "idle" => /\ cur \cup Targets(GC_mark_stack) \subseteq Frontier
                 /\ \A S \in SUBSET Obj : Closed(S) => hb_marks \subseteq S

\* Together they are preserved by every step (GC_hintgc_stopped_mark,
\* GC_stopped_mark): the argument why an overflow loses no work.
MarkingInv == TypeOK /\ ControlInv /\ CountInv /\ SeedInv /\ EdgeInv /\ PreciseInv

\* HBLK_OBJS counts the objects of every UNCOLLECTABLE block.  The code does
\* not ensure it: GC_malloc_uncollectable has blocks larger than HBLKSIZE.
SmallUncollectable == \A b \in Block : Kind[b] = "UNCOLLECTABLE" => HBLK_OBJS[b] > 0

\* Both collections implement the abstract marking.
Promise == INSTANCE MarkSpec WITH
  Uncollectable <- UncollectableObjs,
  status <- IF pc \in {"idle", "marked"} THEN pc ELSE "marking",
  seeds <- Seeds,
  marks <- hb_marks
ImplementsMarkSpec == Promise!Spec

=============================================================================
