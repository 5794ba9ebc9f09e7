------------------------------ MODULE IndexWalk ------------------------------
(***************************************************************************)
(* The parallel phases 1 and 2 of a hinted collection: a walk over all     *)
(* block headers, split over the markers by way of the mark stack, mark.c. *)
(*                                                                         *)
(* Each bottom_index is pushed as an entry that says how far down it has   *)
(* been walked.  A marker that pops one walks a bit further, leaves the    *)
(* rest in its place and the work it has found above it; at the end of the *)
(* index a dummy stays behind.  Phase 1 is done with a block at once,      *)
(* phase 2 pushes ranges that GC_mark_no_push_from scans later.            *)
(*                                                                         *)
(* How entries are stolen and how markers wait is ParallelMark's; here an  *)
(* entry goes to one or more markers in one step, and marking is over when *)
(* no entry is left.                                                       *)
(***************************************************************************)
EXTENDS Integers, Sequences, FiniteSets, Bags, FiniteSetsExt

CONSTANTS
  Marker,
  Heaps,                  \* the heaps: sets of blocks [at, sz, free, ranges, hdr]
  BOTTOM_SZ,              \* slots of a bottom_index
  MAX_JUMP,               \* largest forwarding count
  PARAM_NUM_HBLKS_PER_STEP,
  MAX_STEAL,              \* entries a marker takes at a time
  LOCAL_MARK_STACK_SIZE, GC_mark_stack_size,
  Discards,               \* GC_MARK_STACK_DISCARDS
  INT_MAX                 \* of the type of covered

Used(heap) == {b \in heap : ~b.free}
Inside(b) == b.at + 1 .. b.at + b.sz - 1

ASSUME ConstantsAssumption ==
  /\ IsFiniteSet(Marker) /\ Marker # {}
  /\ BOTTOM_SZ \in Nat \ {0} /\ MAX_JUMP \in Nat \ {0}
  /\ PARAM_NUM_HBLKS_PER_STEP \in Nat \ {0} /\ MAX_STEAL \in Nat \ {0}
  /\ GC_mark_stack_size \in Nat \ {0}
  /\ LOCAL_MARK_STACK_SIZE \in Nat /\ Discards \in 1 .. LOCAL_MARK_STACK_SIZE - MAX_STEAL
  /\ INT_MAX \in Nat /\ INT_MAX >= BOTTOM_SZ
  /\ \A blocks \in Heaps :
       /\ IsFiniteSet(blocks)
       /\ \A b \in blocks :
            /\ b \in [at : Nat, sz : Nat \ {0}, free : BOOLEAN, ranges : Nat,
                      hdr : -INT_MAX - 1 .. INT_MAX]
            /\ \A c \in blocks : c = b \/ c.at \notin b.at .. b.at + b.sz - 1
            /\ LOCAL_MARK_STACK_SIZE >= MAX_STEAL + (PARAM_NUM_HBLKS_PER_STEP + 1) * b.ranges

VARIABLES
  heap,      \* the blocks; their headers do not change while the world is stopped
  phase,     \* 1 or 2
  stage,     \* progress of HINTGC_bsp_phase_generic
  stack,     \* entries of the global mark stack that nobody has taken
  top,       \* GC_mark_stack_top: entries ever put there in this phase
  local,     \* the markers' own stacks, top last
  stealing,  \* the marker takes entries from the global stack
  called,    \* blocks that the per-block function was called for
  scanned,   \* ranges that were scanned
  GC_mark_stack_too_small

vars == <<heap, phase, stage, stack, top, local, stealing, called, scanned,
          GC_mark_stack_too_small>>

------------------------------------------------------------------------------
(* Headers and entries.                                                    *)

IsHeader == MAX_JUMP + 1               \* a slot that holds a pointer

\* The slot for address x: a header, the distance to one as far as it can be
\* told, or nil.
Slot(x) ==
  IF \E b \in heap : b.at = x THEN IsHeader
  ELSE IF \E b \in Used(heap) : x \in Inside(b)
       THEN Min({x - b.at : b \in {c \in Used(heap) : x \in Inside(c)}} \cup {MAX_JUMP})
       ELSE 0

BlockAt(x) == CHOOSE b \in heap : b.at = x

\* The slot taken as a number: hdr is the address of the header, cut to an int.
SlotValue(x) == IF Slot(x) = IsHeader THEN BlockAt(x).hdr ELSE Slot(x)

\* What an int holds after n was assigned to it.
ToInt(n) == ((n + INT_MAX + 1) % (2 * (INT_MAX + 1))) - (INT_MAX + 1)

Addresses == UNION {b.at .. b.at + b.sz - 1 : b \in heap}
GC_all_bottom_indices == {x \div BOTTOM_SZ : x \in {y \in Addresses : Slot(y) # 0}}

IndexEntry(key, j) == [kind |-> "index", x |-> key, y |-> j]
RangeEntry(b, k) == [kind |-> "range", x |-> b.at, y |-> k]
Dummy == [kind |-> "dummy", x |-> 0, y |-> BOTTOM_SZ]

RangesOf(b) == IF phase = 1 THEN 0 ELSE b.ranges
RangesPushed(b) == {RangeEntry(b, k) : k \in 1 .. RangesOf(b)}
Ranges == UNION {RangesPushed(b) : b \in Used(heap)}

\* Down from slot first, until a block in use is reached when covered is
\* perStep or more.  The result is the next j and the blocks whose function was
\* called.  After a jump by the forwarding count, covered takes the slot at the
\* new j, which is the header if the jump has reached the block's first slot.  (A
\* jump past the beginning reads what lies before the index; it ends the walk.)
Walk(key, first, perStep) ==
  LET walk[j \in -MAX_JUMP .. first] ==
        [covered \in Int |->
           LET x == key * BOTTOM_SZ + j
               s == Slot(x)
               down == walk[j - 1][ToInt(covered + 1)]
           IN IF j < 0 THEN [j |-> j, blocks |-> <<>>]
              ELSE IF s = 0 THEN walk[j - 1][covered]
              ELSE IF s # IsHeader THEN walk[j - s][ToInt(covered + SlotValue(x - s))]
              ELSE IF BlockAt(x).free THEN down
              ELSE IF covered >= perStep
                   THEN [j |-> j - 1, blocks |-> <<BlockAt(x)>>]
                   ELSE [down EXCEPT !.blocks = <<BlockAt(x)>> \o @]]
  IN walk[first][0]

\* Mutant: the index is walked to its end in one step.
HINTGC_process_index_step_Unlimited(key, first) == Walk(key, first, INT_MAX)

HINTGC_process_index_step(key, first) ==
  Walk(key, first, PARAM_NUM_HBLKS_PER_STEP)

\* What the functions of the blocks push, in the order of the calls.
Pushed(blocks) ==
  LET after[n \in 0 .. Len(blocks)] ==
        IF n = 0 THEN <<>>
        ELSE after[n - 1] \o [k \in 1 .. RangesOf(blocks[n]) |-> RangeEntry(blocks[n], k)]
  IN after[Len(blocks)]

------------------------------------------------------------------------------
TypeOK ==
  /\ heap \in Heaps /\ phase \in {1, 2} /\ stage \in {"push", "mark", "done", "abort"}
  /\ LET Entry == {IndexEntry(key, j) : key \in GC_all_bottom_indices, j \in 0 .. BOTTOM_SZ - 1}
                  \cup Ranges \cup {Dummy}
     IN /\ IsABag(stack) /\ BagToSet(stack) \subseteq Entry
        /\ \A m \in Marker : \A i \in DOMAIN local[m] : local[m][i] \in Entry
  /\ top \in 0 .. GC_mark_stack_size
  /\ stealing \in [Marker -> BOOLEAN]
  /\ called \subseteq Used(heap) /\ scanned \subseteq Ranges
  /\ GC_mark_stack_too_small \in BOOLEAN

Init ==
  /\ heap \in Heaps
  /\ phase = 1 /\ stage = "push"
  /\ stack = EmptyBag /\ top = 0
  /\ local = [m \in Marker |-> <<>>] /\ stealing = [m \in Marker |-> TRUE]
  /\ called = {} /\ scanned = {}
  /\ GC_mark_stack_too_small = FALSE

\* The stack is large enough for the indices, or the program aborts.
HINTGC_push_all_bottom_indices ==
  /\ stage = "push"
  /\ Cardinality(GC_all_bottom_indices) <= GC_mark_stack_size
  /\ stack' = SetToBag({IndexEntry(key, BOTTOM_SZ - 1) : key \in GC_all_bottom_indices})
  /\ top' = Cardinality(GC_all_bottom_indices)
  /\ stage' = "mark"
  /\ UNCHANGED <<heap, phase, local, stealing, called, scanned, GC_mark_stack_too_small>>

\* Several markers may read an entry before one of them clears it.
GC_steal_mark_stack(takers) ==
  /\ stage = "mark" /\ takers # {}
  /\ \A m \in takers : stealing[m] /\ Len(local[m]) < MAX_STEAL
  /\ \E e \in BagToSet(stack) :
       /\ stack' = stack (-) SetToBag({e})
       /\ local' = [m \in Marker |-> IF m \in takers THEN Append(local[m], e) ELSE local[m]]
  /\ UNCHANGED <<heap, phase, stage, top, stealing, called, scanned, GC_mark_stack_too_small>>

GC_do_local_mark(m) ==
  /\ stage = "mark" /\ stealing[m] /\ local[m] # <<>>
  /\ stealing' = [stealing EXCEPT ![m] = FALSE]
  /\ UNCHANGED <<heap, phase, stage, stack, top, local, called, scanned, GC_mark_stack_too_small>>

------------------------------------------------------------------------------
(* GC_mark_no_push_from.                                                   *)

Top(m) == local[m][Len(local[m])]
Below(m) == SubSeq(local[m], 1, Len(local[m]) - 1)

\* The local stack of m becomes s.
Becomes(m, s) ==
  /\ stage = "mark"
  /\ local' = [local EXCEPT ![m] = s]
  /\ stealing' = [stealing EXCEPT ![m] = s = <<>>]
  /\ UNCHANGED <<heap, phase, stage>>

Marking(m, kind) == stage = "mark" /\ ~stealing[m] /\ Top(m).kind = kind

\* A range is scanned at once; the code splits a large one into several entries.
ScanRange(m) ==
  /\ Marking(m, "range")
  /\ Becomes(m, Below(m))
  /\ scanned' = scanned \cup {Top(m)}
  /\ UNCHANGED <<stack, top, called, GC_mark_stack_too_small>>

\* The end of an index, left for the entries above it.
PopDummy(m) ==
  /\ Marking(m, "dummy")
  /\ Becomes(m, Below(m))
  /\ UNCHANGED <<stack, top, called, scanned, GC_mark_stack_too_small>>

\* The blocks of the step were called, and the stack became s.
StepTo(m, s, step) ==
  /\ Becomes(m, s)
  /\ called' = called \cup {step.blocks[i] : i \in DOMAIN step.blocks}
  /\ UNCHANGED <<stack, top, scanned>>

StepOf(m) == HINTGC_process_index_step(Top(m).x, Top(m).y)

\* Mutant: the end of an index is recognised by the j that the assertion expects.
Rest_Exactly(m, step) == IF step.j = -1 THEN Dummy ELSE IndexEntry(Top(m).x, step.j)

\* Mutant: the descriptor is not set for the next step.
Rest_Unstepped(m, step) == IF step.j < 0 THEN Dummy ELSE Top(m)

\* What stays of the entry.
Rest(m, step) == IF step.j < 0 THEN Dummy ELSE IndexEntry(Top(m).x, step.j)

\* The stack as it would be with unlimited room: what was found goes above the rest.
AfterStep(m, step) == Below(m) \o (<<Rest(m, step)>> \o Pushed(step.blocks))

\* Each time PUSH_OBJ finds no room it drops the Discards entries it would come
\* after, and goes on from there.
Discarded(s) ==
  LET last == ((Len(s) - LOCAL_MARK_STACK_SIZE - 1) % Discards) + 1
  IN SubSeq(s, 1, LOCAL_MARK_STACK_SIZE - Discards) \o SubSeq(s, Len(s) - last + 1, Len(s))

\* Mutant: at the end of an index the top of the stack is popped.
HINTGC_process_custom_descr_PopsTop(m) ==
  /\ Marking(m, "index")
  /\ \E step \in {StepOf(m)} : \E s \in {AfterStep(m, step)} :
       /\ Len(s) <= LOCAL_MARK_STACK_SIZE
       /\ StepTo(m, IF step.j < 0 THEN SubSeq(s, 1, Len(s) - 1) ELSE s, step)
       /\ UNCHANGED GC_mark_stack_too_small

HINTGC_process_custom_descr(m) ==
  /\ Marking(m, "index")
  /\ \E step \in {StepOf(m)} : \E s \in {AfterStep(m, step)} :
       \/ /\ Len(s) <= LOCAL_MARK_STACK_SIZE
          /\ StepTo(m, s, step)
          /\ UNCHANGED GC_mark_stack_too_small
       \/ /\ Len(s) > LOCAL_MARK_STACK_SIZE
          /\ StepTo(m, Discarded(s), step)
          /\ GC_mark_stack_too_small' = TRUE

\* The next step from the top entry of m finds no room for a range.
Overflows(m) == Marking(m, "index") /\ Len(AfterStep(m, StepOf(m))) > LOCAL_MARK_STACK_SIZE

\* A block whose objects may hold pointers anywhere is pushed as one range by
\* GC_push_all_impl, which ends the program if there is no room.  Which kind of
\* block comes when the stack is full is left open.
GC_push_all_impl_Aborts(m) ==
  /\ Overflows(m)
  /\ stage' = "abort"
  /\ UNCHANGED <<heap, phase, stack, top, local, stealing, called, scanned,
                 GC_mark_stack_too_small>>

------------------------------------------------------------------------------
(* GC_do_local_mark, after GC_mark_no_push_from has used up its credit.    *)

\* s is copied to the global stack, or dropped if there is no room.
GC_return_mark_stack(s) ==
  IF top + Len(s) > GC_mark_stack_size
  THEN /\ GC_mark_stack_too_small' = TRUE
       /\ UNCHANGED <<stack, top>>
  ELSE /\ stack' = stack (+) [e \in {s[i] : i \in DOMAIN s} |->
                                Cardinality({i \in DOMAIN s : s[i] = e})]
       /\ top' = top + Len(s)
       /\ UNCHANGED GC_mark_stack_too_small

ReturnAll(m) ==
  /\ ~stealing[m] /\ Len(local[m]) - 1 >= LOCAL_MARK_STACK_SIZE \div 2
  /\ GC_return_mark_stack(local[m])
  /\ Becomes(m, <<>>)
  /\ UNCHANGED <<called, scanned>>

Starving == stack = EmptyBag /\ \E m \in Marker : local[m] = <<>>

ShareBottom(m) ==
  /\ ~stealing[m] /\ Starving /\ Len(local[m]) > 2
  /\ LET given == (Len(local[m]) - 1) \div 2
     IN /\ GC_return_mark_stack(SubSeq(local[m], 1, given))
        /\ Becomes(m, SubSeq(local[m], given + 1, Len(local[m])))
  /\ UNCHANGED <<called, scanned>>

\* GC_do_parallel_mark has returned.
PhaseDone ==
  /\ stage = "mark" /\ stack = EmptyBag /\ \A m \in Marker : local[m] = <<>>
  /\ IF phase = 1 THEN phase' = 2 /\ stage' = "push" ELSE stage' = "done" /\ UNCHANGED phase
  /\ top' = 0 /\ called' = {} /\ scanned' = {}
  /\ UNCHANGED <<heap, stack, local, stealing, GC_mark_stack_too_small>>

------------------------------------------------------------------------------
MarkerStep(m) ==
  \/ GC_do_local_mark(m)
  \/ ScanRange(m) \/ PopDummy(m)
  \/ HINTGC_process_custom_descr(m) \/ GC_push_all_impl_Aborts(m)
  \/ ReturnAll(m) \/ ShareBottom(m)

PhaseStep ==
  \/ HINTGC_push_all_bottom_indices
  \/ \E takers \in SUBSET Marker : GC_steal_mark_stack(takers)
  \/ PhaseDone

Next == PhaseStep \/ \E m \in Marker : MarkerStep(m)

Spec == Init /\ [][Next]_vars

\* The world is stopped and the markers run on; somebody takes what is there.
FairSpec == Spec /\ WF_vars(PhaseStep) /\ \A m \in Marker : WF_vars(MarkerStep(m))

------------------------------------------------------------------------------
(* Properties.                                                             *)

Entries == BagToSet(stack) \cup UNION {{local[m][i] : i \in DOMAIN local[m]} : m \in Marker}

\* Unless entries were dropped, the function of each block in use was called or
\* the walk over its index will still get to it, and each range that was pushed
\* is scanned or waits: at the end of a phase nothing was left out.
NoBlockForgotten ==
  stage = "mark" /\ ~GC_mark_stack_too_small =>
    \A b \in Used(heap) :
      IF b \in called THEN RangesPushed(b) \subseteq scanned \cup Entries
      ELSE \E e \in Entries :
             /\ e.kind = "index" /\ e.x = b.at \div BOTTOM_SZ
             /\ b.at % BOTTOM_SZ <= e.y

\* A step has room for what it pushes: nothing is dropped, and GC_push_all_impl
\* does not abort (mark.c:1591 and 2066 take this for granted).
StepsFit == \A m \in Marker : ~Overflows(m)

\* The header of a large block counts as slots, and as enough of them.
LimitHolds(blocks) ==
  \A b \in Used(blocks) :
    b.sz > 1 => b.hdr \in PARAM_NUM_HBLKS_PER_STEP .. INT_MAX - BOTTOM_SZ

\* A step never pushes more than fits on the local stack, whatever was stolen
\* before, if no header makes covered smaller: a step then calls at most
\* PARAM_NUM_HBLKS_PER_STEP blocks and one more.
LocalStackFits == LimitHolds(heap) => StepsFit

\* Both phases end, or the program was aborted in one of them.
PhasesEnd ==
  <>(stage \in {"done", "abort"})

=============================================================================
