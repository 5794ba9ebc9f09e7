---------------------------- MODULE ParallelMark ----------------------------
(***************************************************************************)
(* Parallel marking (mark.c, PARALLEL_MARK): the thread that collects      *)
(* starts GC_do_parallel_mark on the mark stack the roots were pushed on,  *)
(* and the mark threads (GC_mark_thread, pthread_support.c) help it.  Each *)
(* marker steals entries from the global stack without a lock, marks from  *)
(* a local stack and gives entries back when it has too many or when       *)
(* others starve.  Marking is over when the counts say that nobody is      *)
(* active and the stack is used up.                                        *)
(*                                                                         *)
(* A section of code under the mark lock is one step, except that waiting  *)
(* on mark_cv gives the lock up and that a notification sent after the     *)
(* unlock is a step of its own.  Reads and writes without the lock are     *)
(* steps of their own.  A marker that waits is in `waiting' until somebody *)
(* notifies, so a lost notification leaves it there.                       *)
(*                                                                         *)
(* An entry of a mark stack is a whole object holding pointers.            *)
(***************************************************************************)
EXTENDS Integers, Sequences, FiniteSets, Functions

CONSTANTS
  Initiator,     \* the thread in GC_do_parallel_mark
  Helpers,       \* the mark threads: at most GC_markers - 1
  Obj, NoObj,    \* objects that hold pointers; no object
  Graphs,        \* the heap graphs to consider: what each object points to
  Seeds,         \* the mark stacks the roots may leave: sequences of objects
  Weight,        \* descr / 256 of an object
  MarkStackSize, \* GC_mark_stack_size
  LocalSize,     \* LOCAL_MARK_STACK_SIZE
  Discards,      \* GC_MARK_STACK_DISCARDS
  ENTRIES_TO_GET,
  GC_markers,    \* number of markers the collector was started with
  MaxMarkNo      \* bound: parallel marks of a behaviour

Markers == Helpers \cup {Initiator}

ASSUME MarkersAssumption == Initiator \notin Helpers /\ IsFiniteSet(Helpers)
ASSUME HeapAssumption ==
  /\ NoObj \notin Obj
  /\ Graphs \subseteq [Obj -> SUBSET Obj]
  /\ Seeds \subseteq {s \in Seq(Obj) : Len(s) <= MarkStackSize}
  /\ Weight \in [Obj -> Nat]
ASSUME SizeAssumption ==
  /\ MarkStackSize \in Nat /\ MaxMarkNo \in Nat /\ GC_markers \in Nat
  /\ Discards \in Nat \ {0} /\ ENTRIES_TO_GET \in Nat \ {0}
  /\ LocalSize \in Nat /\ Discards <= LocalSize

VARIABLES
  pc,                \* where each marker is
  after,             \* where it goes on after a notification
  waiting,           \* markers blocked on mark_cv
  contents,          \* the heap graph; the world is stopped
  seeds,             \* objects the roots pushed
  hb_marks,          \* objects whose mark byte is set
  GC_mark_stack,     \* mse_start of the entries up to GC_mark_stack_top
  taken,             \* positions of the entries whose mse_descr is zero
  GC_first_nonempty, \* position below which every entry is taken
  GC_mark_state, GC_mark_stack_too_small,
  GC_help_wanted, GC_helper_count, GC_active_count, GC_mark_no,
  my_mark_no,        \* of each helper
  my_first_nonempty, \* of each marker, and `p' while it steals
  seen_first,        \* global_first_nonempty of each marker
  my_top,            \* my_top of each marker
  want,              \* how much GC_steal_mark_stack still takes (max - i)
  local,             \* local_mark_stack of each marker
  cur,               \* pointers of the object a marker is scanning
  found              \* the unmarked object it has just seen, or NoObj

stackVars == <<GC_mark_stack, taken, GC_first_nonempty>>
stateVars == <<hb_marks, GC_mark_state, GC_mark_stack_too_small>>
teamVars  == <<GC_help_wanted, GC_helper_count, GC_active_count, GC_mark_no, my_mark_no>>
lookVars  == <<my_first_nonempty, seen_first, my_top, want>>
localVars == <<local, cur, found>>
heapVars  == <<contents, seeds>>
vars == <<pc, after, waiting, heapVars, stackVars, stateVars, teamVars, lookVars, localVars>>

top == Len(GC_mark_stack)

Locations == {"offer", "enter", "look", "advance", "peek", "check", "await",
              "steal", "take", "mark", "set_mark", "share",
              "notify", "left", "await_helpers", "idle", "push_roots",
              "mark_some", "marked", "done", "abort"}

TypeOK ==
  /\ pc \in [Markers -> Locations] /\ after \in [Markers -> Locations]
  /\ waiting \in SUBSET Markers
  /\ contents \in [Obj -> SUBSET Obj] /\ seeds \in SUBSET Obj
  /\ hb_marks \in SUBSET Obj
  /\ GC_mark_stack \in Seq(Obj) /\ Len(GC_mark_stack) <= MarkStackSize
  /\ taken \in SUBSET (1 .. top)
  /\ GC_first_nonempty \in Nat \ {0}
  /\ GC_mark_state \in {"MS_NONE", "MS_ROOTS_PUSHED", "MS_INVALID"}
  /\ GC_mark_stack_too_small \in BOOLEAN /\ GC_help_wanted \in BOOLEAN
  /\ GC_helper_count \in Nat /\ GC_active_count \in Nat /\ GC_mark_no \in Nat
  /\ my_mark_no \in [Helpers -> Nat]
  /\ my_first_nonempty \in [Markers -> Nat \ {0}]
  /\ seen_first \in [Markers -> Nat \ {0}]
  /\ my_top \in [Markers -> Nat]
  /\ want \in [Markers -> Int]
  /\ local \in [Markers -> Seq(Obj)]
  /\ cur \in [Markers -> SUBSET Obj]
  /\ found \in [Markers -> Obj \cup {NoObj}]

PointedToBy(S) == UNION {contents[o] : o \in S}
Closed(S) == PointedToBy(S) \subseteq S

Go(m, there) == pc' = [pc EXCEPT ![m] = there]
NotifyThen(m, there) == Go(m, "notify") /\ after' = [after EXCEPT ![m] = there]

(***************************************************************************)
(* Waiting and notifying on mark_cv.                                       *)
(***************************************************************************)
GC_notify_all_marker(m) ==
  /\ pc[m] = "notify"
  /\ waiting' = {}
  /\ Go(m, after[m])
  /\ after' = [after EXCEPT ![m] = "notify"]
  /\ UNCHANGED <<heapVars, stackVars, stateVars, teamVars, lookVars, localVars>>

GC_wait_marker(m, there) == waiting' = waiting \cup {m} /\ Go(m, there)

(***************************************************************************)
(* GC_do_parallel_mark: starting and ending a parallel mark.               *)
(***************************************************************************)
GC_do_parallel_mark ==
  /\ pc[Initiator] = "mark_some" /\ GC_mark_state = "MS_ROOTS_PUSHED"
  /\ IF GC_help_wanted \/ GC_active_count # 0 \/ GC_helper_count # 0
     THEN /\ Go(Initiator, "abort")
          /\ UNCHANGED <<after, GC_first_nonempty, teamVars>>
     ELSE /\ NotifyThen(Initiator, "enter")
          /\ GC_first_nonempty' = 1
          /\ GC_active_count' = 0 /\ GC_helper_count' = 1 /\ GC_help_wanted' = TRUE
          /\ UNCHANGED <<GC_mark_no, my_mark_no>>
  /\ UNCHANGED <<waiting, heapVars, GC_mark_stack, taken, stateVars, lookVars, localVars>>

\* The loop on GC_helper_count that ends GC_do_parallel_mark.
AwaitHelpers ==
  IF GC_helper_count > 0
  THEN /\ GC_wait_marker(Initiator, "await_helpers")
       /\ UNCHANGED <<after, GC_mark_no>>
  ELSE /\ NotifyThen(Initiator, "marked")
       /\ GC_mark_no' = GC_mark_no + 1
       /\ UNCHANGED waiting

Finish ==
  /\ pc[Initiator] = "left"
  /\ GC_help_wanted' = FALSE
  /\ AwaitHelpers
  /\ UNCHANGED <<heapVars, stackVars, stateVars, GC_helper_count, GC_active_count,
                 my_mark_no, lookVars, localVars>>

FinishAwoken ==
  /\ pc[Initiator] = "await_helpers" /\ Initiator \notin waiting
  /\ AwaitHelpers
  /\ UNCHANGED <<heapVars, stackVars, stateVars, GC_help_wanted, GC_helper_count,
                 GC_active_count, my_mark_no, lookVars, localVars>>

\* Mutant: an overflow is forgotten.
Returned_IgnoresState ==
  /\ pc[Initiator] = "marked"
  /\ GC_mark_stack' = <<>> /\ taken' = {}
  /\ GC_mark_stack_too_small' = FALSE
  /\ Go(Initiator, "done") /\ GC_mark_state' = "MS_NONE"
  /\ UNCHANGED <<after, waiting, heapVars, GC_first_nonempty, hb_marks, teamVars, lookVars,
                 localVars>>

\* What GC_mark_some does once GC_do_parallel_mark has returned.
Returned ==
  /\ pc[Initiator] = "marked"
  /\ GC_mark_stack' = <<>> /\ taken' = {}
  /\ GC_mark_stack_too_small' = FALSE
  /\ IF GC_mark_state = "MS_ROOTS_PUSHED"
     THEN Go(Initiator, "done") /\ GC_mark_state' = "MS_NONE"
     ELSE Go(Initiator, "mark_some") /\ UNCHANGED GC_mark_state
  /\ UNCHANGED <<after, waiting, heapVars, GC_first_nonempty, hb_marks, teamVars, lookVars, localVars>>

\* After an overflow GC_mark_some marks serially from all marked objects
\* (HintMark has the steps), and pushes the roots again.
Rescan ==
  /\ pc[Initiator] = "mark_some" /\ GC_mark_state = "MS_INVALID" /\ ~Closed(hb_marks)
  /\ hb_marks' = hb_marks \cup PointedToBy(hb_marks)
  /\ UNCHANGED <<pc, after, waiting, heapVars, stackVars, GC_mark_state,
                 GC_mark_stack_too_small, teamVars, lookVars, localVars>>

PushedRoots == {s \in Seeds : Range(s) = seeds}

RescanDone ==
  /\ pc[Initiator] = "mark_some" /\ GC_mark_state = "MS_INVALID" /\ Closed(hb_marks)
  /\ GC_mark_stack' \in PushedRoots
  /\ GC_mark_state' = "MS_ROOTS_PUSHED"
  /\ UNCHANGED <<pc, after, waiting, heapVars, hb_marks, taken, GC_first_nonempty,
                 GC_mark_stack_too_small, teamVars, lookVars, localVars>>

\* GC_finish_collection, then the next collection: GC_clear_marks, and the
\* roots are marked and pushed.
FinishCollection ==
  /\ pc[Initiator] = "done" /\ Go(Initiator, "idle")
  /\ UNCHANGED <<after, waiting, heapVars, stackVars, stateVars, teamVars, lookVars, localVars>>

StartMarking ==
  /\ pc[Initiator] = "idle" /\ GC_mark_no < MaxMarkNo
  /\ Go(Initiator, "push_roots")
  /\ hb_marks' = {}
  /\ seeds' \in {Range(s) : s \in Seeds}
  /\ UNCHANGED <<after, waiting, contents, stackVars, GC_mark_state,
                 GC_mark_stack_too_small, teamVars, lookVars, localVars>>

PushRoots ==
  /\ pc[Initiator] = "push_roots" /\ Go(Initiator, "mark_some")
  /\ hb_marks' = seeds
  /\ GC_mark_stack' \in PushedRoots
  /\ GC_mark_state' = "MS_ROOTS_PUSHED"
  /\ UNCHANGED <<after, waiting, heapVars, taken, GC_first_nonempty,
                 GC_mark_stack_too_small, teamVars, lookVars, localVars>>

(***************************************************************************)
(* GC_help_marker: a mark thread waits for a parallel mark and joins it.   *)
(***************************************************************************)
GC_help_marker(h) ==
  /\ pc[h] = "offer" /\ h \notin waiting
  /\ IF GC_mark_no < my_mark_no[h] \/ (~GC_help_wanted /\ GC_mark_no = my_mark_no[h])
     THEN GC_wait_marker(h, "offer") /\ UNCHANGED GC_helper_count
     ELSE IF GC_mark_no # my_mark_no[h] \/ GC_helper_count >= GC_markers
     THEN Go(h, "left") /\ UNCHANGED <<waiting, GC_helper_count>>
     ELSE /\ Go(h, "enter")
          /\ GC_helper_count' = GC_helper_count + 1
          /\ UNCHANGED waiting
  /\ UNCHANGED <<after, heapVars, stackVars, stateVars, GC_help_wanted, GC_active_count,
                 GC_mark_no, my_mark_no, lookVars, localVars>>

\* The loop of GC_mark_thread: the next mark number, or the current one when
\* the thread is far off.  GC_mark_no is read without the lock.
GC_mark_thread(h) ==
  /\ pc[h] = "left"
  /\ LET next == my_mark_no[h] + 1
     IN my_mark_no' = [my_mark_no EXCEPT ![h] =
          IF next < GC_mark_no \/ next > GC_mark_no + 2 THEN GC_mark_no ELSE next]
  /\ Go(h, "offer")
  /\ UNCHANGED <<after, waiting, heapVars, stackVars, stateVars, GC_help_wanted,
                 GC_helper_count, GC_active_count, GC_mark_no, lookVars, localVars>>

(***************************************************************************)
(* GC_mark_local: look for work until there is none and nobody is active.  *)
(***************************************************************************)
Enter(m) ==
  /\ pc[m] = "enter"
  /\ GC_active_count' = GC_active_count + 1
  /\ my_first_nonempty' = [my_first_nonempty EXCEPT ![m] = GC_first_nonempty]
  /\ Go(m, "look")
  /\ UNCHANGED <<after, waiting, heapVars, stackVars, stateVars, GC_help_wanted,
                 GC_helper_count, GC_mark_no, my_mark_no, seen_first, my_top, want, localVars>>

Look(m) ==
  /\ pc[m] = "look"
  /\ seen_first' = [seen_first EXCEPT ![m] = GC_first_nonempty]
  /\ Go(m, "advance")
  /\ UNCHANGED <<after, waiting, heapVars, stackVars, stateVars, teamVars,
                 my_first_nonempty, my_top, want, localVars>>

\* Mutant: a plain store instead of the compare-and-swap.
Advance_Stores(m) ==
  /\ pc[m] = "advance"
  /\ IF my_first_nonempty[m] < seen_first[m]
     THEN /\ my_first_nonempty' = [my_first_nonempty EXCEPT ![m] = seen_first[m]]
          /\ UNCHANGED GC_first_nonempty
     ELSE /\ GC_first_nonempty' = my_first_nonempty[m]
          /\ UNCHANGED my_first_nonempty
  /\ seen_first' = [seen_first EXCEPT ![m] = 1]
  /\ Go(m, "peek")
  /\ UNCHANGED <<after, waiting, heapVars, GC_mark_stack, taken, stateVars, teamVars,
                 my_top, want, localVars>>

\* Catch up with the others, or a compare-and-swap that may fail.
Advance(m) ==
  /\ pc[m] = "advance"
  /\ IF my_first_nonempty[m] < seen_first[m]
     THEN /\ my_first_nonempty' = [my_first_nonempty EXCEPT ![m] = seen_first[m]]
          /\ UNCHANGED GC_first_nonempty
     ELSE /\ GC_first_nonempty' = IF GC_first_nonempty = seen_first[m]
                                  THEN my_first_nonempty[m] ELSE GC_first_nonempty
          /\ UNCHANGED my_first_nonempty
  /\ seen_first' = [seen_first EXCEPT ![m] = 1]
  /\ Go(m, "peek")
  /\ UNCHANGED <<after, waiting, heapVars, GC_mark_stack, taken, stateVars, teamVars,
                 my_top, want, localVars>>

\* n_on_stack entries are there to steal from.
StartStealing(m) ==
  LET n_on_stack == top - my_first_nonempty[m] + 1
  IN /\ Go(m, "steal")
     /\ my_top' = [my_top EXCEPT ![m] = top]
     /\ want' = [want EXCEPT ![m] = IF n_on_stack < 2 * ENTRIES_TO_GET THEN 1
                                    ELSE ENTRIES_TO_GET]

Empty(m) == top - my_first_nonempty[m] + 1 = 0

Peek(m) ==
  /\ pc[m] = "peek"
  /\ IF Empty(m) THEN Go(m, "check") /\ UNCHANGED <<my_top, want>>
                 ELSE StartStealing(m)
  /\ UNCHANGED <<after, waiting, heapVars, stackVars, stateVars, teamVars,
                 my_first_nonempty, seen_first, localVars>>

\* Mutant: a marker leaves although others are active.
Idle_Impatient(m, active) ==
  IF GC_first_nonempty <= top
  THEN /\ Go(m, "look")
       /\ GC_active_count' = active + 1
       /\ UNCHANGED <<after, GC_helper_count>>
  ELSE /\ GC_active_count' = active
       /\ GC_helper_count' = GC_helper_count - 1
       /\ IF GC_helper_count = 1 THEN NotifyThen(m, "left")
                                 ELSE Go(m, "left") /\ UNCHANGED after

\* The loop of a marker without work, holding the mark lock, `active' being
\* the markers still active: wait, leave, or look again.
Idle(m, active) ==
  IF GC_first_nonempty <= top
  THEN /\ Go(m, "look")
       /\ GC_active_count' = active + 1
       /\ UNCHANGED <<after, GC_helper_count>>
  ELSE IF active > 0
  THEN /\ Go(m, "await")
       /\ GC_active_count' = active
       /\ UNCHANGED <<after, GC_helper_count>>
  ELSE /\ GC_active_count' = 0
       /\ GC_helper_count' = GC_helper_count - 1
       /\ IF GC_helper_count = 1 THEN NotifyThen(m, "left")
                                 ELSE Go(m, "left") /\ UNCHANGED after

\* Those whom the wait of m would leave waiting.
Waiters(m, active, others) ==
  IF active > 0 /\ GC_first_nonempty > top THEN others \cup {m} ELSE others

\* Mutant: the last active marker does not notify those that wait for it.
Check_NoNotify(m) ==
  /\ pc[m] = "check"
  /\ IF Empty(m)
     THEN LET active == GC_active_count - 1
          IN /\ Idle(m, active)
             /\ waiting' = Waiters(m, active, waiting)
             /\ UNCHANGED <<my_top, want>>
     ELSE /\ StartStealing(m)
          /\ UNCHANGED <<after, waiting, GC_active_count, GC_helper_count>>
  /\ UNCHANGED <<heapVars, stackVars, stateVars, GC_help_wanted, GC_mark_no, my_mark_no,
                 my_first_nonempty, seen_first, localVars>>

Check(m) ==
  /\ pc[m] = "check"
  /\ IF Empty(m)
     THEN LET active == GC_active_count - 1
          IN /\ Idle(m, active)
             /\ waiting' = Waiters(m, active, IF active = 0 THEN {} ELSE waiting)
             /\ UNCHANGED <<my_top, want>>
     ELSE /\ StartStealing(m)
          /\ UNCHANGED <<after, waiting, GC_active_count, GC_helper_count>>
  /\ UNCHANGED <<heapVars, stackVars, stateVars, GC_help_wanted, GC_mark_no, my_mark_no,
                 my_first_nonempty, seen_first, localVars>>

Awoken(m) ==
  /\ pc[m] = "await" /\ m \notin waiting
  /\ Idle(m, GC_active_count)
  /\ waiting' = Waiters(m, GC_active_count, waiting)
  /\ UNCHANGED <<heapVars, stackVars, stateVars, GC_help_wanted, GC_mark_no, my_mark_no,
                 lookVars, localVars>>

(***************************************************************************)
(* GC_steal_mark_stack: read mse_descr, then clear it.  Two markers may    *)
(* both read it before either clears it, and both take the entry.          *)
(***************************************************************************)
ReadDescr(m) ==
  /\ pc[m] = "steal"
  /\ my_first_nonempty[m] <= my_top[m] /\ want[m] >= 0
  /\ IF my_first_nonempty[m] \in taken
     THEN /\ my_first_nonempty' = [my_first_nonempty EXCEPT ![m] = @ + 1]
          /\ UNCHANGED pc
     ELSE Go(m, "take") /\ UNCHANGED my_first_nonempty
  /\ UNCHANGED <<after, waiting, heapVars, stackVars, stateVars, teamVars, seen_first,
                 my_top, want, localVars>>

Take(m) ==
  /\ pc[m] = "take"
  /\ LET p == my_first_nonempty[m]
         o == GC_mark_stack[p]
     IN /\ taken' = taken \cup {p}
        /\ local' = [local EXCEPT ![m] = Append(@, o)]
        /\ want' = [want EXCEPT ![m] = @ - 1 - Weight[o]]
        /\ my_first_nonempty' = [my_first_nonempty EXCEPT ![m] = p + 1]
  /\ Go(m, "steal")
  /\ UNCHANGED <<after, waiting, heapVars, GC_mark_stack, GC_first_nonempty, stateVars,
                 teamVars, seen_first, my_top, cur, found>>

StopStealing(m) ==
  /\ pc[m] = "steal"
  /\ my_first_nonempty[m] > my_top[m] \/ want[m] < 0
  /\ Go(m, "mark")
  /\ my_top' = [my_top EXCEPT ![m] = 0] /\ want' = [want EXCEPT ![m] = 0]
  /\ UNCHANGED <<after, waiting, heapVars, stackVars, stateVars, teamVars,
                 my_first_nonempty, seen_first, localVars>>

(***************************************************************************)
(* GC_mark_from on the local stack.  The mark byte is read, then written:  *)
(* two markers may both find an object unmarked, and both push it.         *)
(***************************************************************************)
Scanning(m) == pc[m] = "mark" /\ cur[m] # {}
Between(m)  == pc[m] = "mark" /\ cur[m] = {}

PopLocal(m) ==
  /\ Between(m) /\ local[m] # <<>>
  /\ LET n == Len(local[m])
     IN /\ cur' = [cur EXCEPT ![m] = contents[local[m][n]]]
        /\ local' = [local EXCEPT ![m] = SubSeq(@, 1, n - 1)]
  /\ UNCHANGED <<pc, after, waiting, heapVars, stackVars, stateVars, teamVars, lookVars, found>>

ReadMark(m) ==
  /\ Scanning(m)
  /\ \E o \in cur[m] :
       /\ cur' = [cur EXCEPT ![m] = @ \ {o}]
       /\ IF o \in hb_marks THEN UNCHANGED <<pc, found>>
          ELSE Go(m, "set_mark") /\ found' = [found EXCEPT ![m] = o]
  /\ UNCHANGED <<after, waiting, heapVars, stackVars, stateVars, teamVars, lookVars, local>>

\* SET_MARK_BIT_EXIT_IF_SET, then PUSH_OBJ: on a full local stack
\* GC_signal_mark_stack_overflow drops entries first.
SetMark(m) ==
  /\ pc[m] = "set_mark"
  /\ hb_marks' = hb_marks \cup {found[m]}
  /\ IF Len(local[m]) >= LocalSize
     THEN /\ local' = [local EXCEPT ![m] =
                         Append(SubSeq(@, 1, Len(@) - Discards), found[m])]
          /\ GC_mark_state' = "MS_INVALID" /\ GC_mark_stack_too_small' = TRUE
     ELSE /\ local' = [local EXCEPT ![m] = Append(@, found[m])]
          /\ UNCHANGED <<GC_mark_state, GC_mark_stack_too_small>>
  /\ found' = [found EXCEPT ![m] = NoObj]
  /\ Go(m, "mark")
  /\ UNCHANGED <<after, waiting, heapVars, stackVars, teamVars, lookVars, cur>>

(***************************************************************************)
(* GC_do_local_mark between two calls of GC_mark_from.                     *)
(***************************************************************************)

\* Mutant: dropped entries leave the mark state valid.
GC_return_mark_stack_Silent(m, entries, there) ==
  /\ NotifyThen(m, there)
  /\ GC_mark_stack' = IF top + Len(entries) > MarkStackSize THEN GC_mark_stack
                      ELSE GC_mark_stack \o entries
  /\ UNCHANGED <<waiting, heapVars, taken, GC_first_nonempty, stateVars, teamVars, lookVars,
                 cur, found>>

\* Copy entries back to the global stack, or drop them for want of room.
GC_return_mark_stack(m, entries, there) ==
  /\ NotifyThen(m, there)
  /\ IF top + Len(entries) > MarkStackSize
     THEN /\ GC_mark_state' = "MS_INVALID" /\ GC_mark_stack_too_small' = TRUE
          /\ UNCHANGED GC_mark_stack
     ELSE /\ GC_mark_stack' = GC_mark_stack \o entries
          /\ UNCHANGED <<GC_mark_state, GC_mark_stack_too_small>>
  /\ UNCHANGED <<waiting, heapVars, taken, GC_first_nonempty, hb_marks, teamVars, lookVars,
                 cur, found>>

HalfFull(m) == Len(local[m]) - 1 >= LocalSize \div 2

LocalDone(m) ==
  /\ Between(m) /\ local[m] = <<>>
  /\ Go(m, "look")
  /\ UNCHANGED <<after, waiting, heapVars, stackVars, stateVars, teamVars, lookVars, localVars>>

ReturnAll(m) ==
  /\ Between(m) /\ local[m] # <<>> /\ HalfFull(m)
  /\ local' = [local EXCEPT ![m] = <<>>]
  /\ GC_return_mark_stack(m, local[m], "look")

\* The stack and the counts are read without the lock.
Starving(m) ==
  /\ Between(m) /\ local[m] # <<>> /\ ~HalfFull(m)
  /\ top < GC_first_nonempty /\ GC_active_count < GC_helper_count /\ Len(local[m]) > 2
  /\ Go(m, "share")
  /\ UNCHANGED <<after, waiting, heapVars, stackVars, stateVars, teamVars, lookVars, localVars>>

\* Mutant: the entries kept start one too high.
ShareBottom_OffByOne(m) ==
  /\ pc[m] = "share"
  /\ LET half == (Len(local[m]) - 1) \div 2
     IN /\ GC_return_mark_stack(m, SubSeq(local[m], 1, half), "mark")
        /\ local' = [local EXCEPT ![m] = SubSeq(@, half + 2, Len(@))]

ShareBottom(m) ==
  /\ pc[m] = "share"
  /\ LET half == (Len(local[m]) - 1) \div 2
     IN /\ GC_return_mark_stack(m, SubSeq(local[m], 1, half), "mark")
        /\ local' = [local EXCEPT ![m] = SubSeq(@, half + 1, Len(@))]

(***************************************************************************)
(* The specification.                                                      *)
(***************************************************************************)
Init ==
  /\ contents \in Graphs
  /\ GC_mark_stack = <<>> /\ seeds = {} /\ hb_marks = {}
  /\ GC_mark_state = "MS_NONE" /\ GC_mark_stack_too_small = FALSE
  /\ taken = {} /\ GC_first_nonempty = 1
  /\ pc = [m \in Markers |-> IF m = Initiator THEN "idle" ELSE "offer"]
  /\ after = [m \in Markers |-> "notify"]
  /\ waiting = {}
  /\ GC_help_wanted = FALSE /\ GC_helper_count = 0 /\ GC_active_count = 0
  /\ GC_mark_no = 0 /\ my_mark_no = [h \in Helpers |-> 0]
  /\ my_first_nonempty = [m \in Markers |-> 1] /\ seen_first = [m \in Markers |-> 1]
  /\ my_top = [m \in Markers |-> 0] /\ want = [m \in Markers |-> 0]
  /\ local = [m \in Markers |-> <<>>] /\ cur = [m \in Markers |-> {}]
  /\ found = [m \in Markers |-> NoObj]

Initiating == \/ GC_do_parallel_mark \/ Finish \/ FinishAwoken \/ Returned \/ Rescan
              \/ RescanDone \/ FinishCollection \/ StartMarking \/ PushRoots
Helping(h) == GC_help_marker(h) \/ GC_mark_thread(h)
LookForWork(m) == \/ Enter(m) \/ Look(m) \/ Advance(m) \/ Peek(m) \/ Check(m) \/ Awoken(m)
Steal(m) == ReadDescr(m) \/ Take(m) \/ StopStealing(m)
GC_mark_from(m) == PopLocal(m) \/ ReadMark(m) \/ SetMark(m)
GC_do_local_mark(m) == LocalDone(m) \/ ReturnAll(m) \/ Starving(m) \/ ShareBottom(m)

Marking(m) == \/ GC_notify_all_marker(m) \/ LookForWork(m) \/ Steal(m) \/ GC_mark_from(m)
              \/ GC_do_local_mark(m)

Next == \/ Initiating
        \/ \E h \in Helpers : Helping(h)
        \/ \E m \in Markers : Marking(m)

Spec == Init /\ [][Next]_vars

\* Mutexes and the scheduler let every thread that can go on go on.
Progress == \/ GC_do_parallel_mark \/ Finish \/ FinishAwoken \/ Returned \/ Rescan
            \/ RescanDone \/ PushRoots
Fairness == WF_vars(Progress) /\ \A m \in Markers : WF_vars(Marking(m))

FairSpec == Spec /\ Fairness

(***************************************************************************)
(* Properties.                                                             *)
(***************************************************************************)
\* The marker is between GC_active_count++ and GC_active_count--.
Active(m) == \/ pc[m] \in {"look", "advance", "peek", "check", "steal", "take", "mark",
                           "set_mark", "share"}
             \/ pc[m] = "notify" /\ after[m] \in {"look", "mark"}

HoldsNothing(m) == local[m] = <<>> /\ cur[m] = {} /\ found[m] = NoObj /\ pc[m] # "take"

\* The Initiator has left GC_mark_local and not yet seen the stack reset.
Departed == \/ pc[Initiator] \in {"left", "await_helpers", "marked"}
            \/ pc[Initiator] = "notify" /\ after[Initiator] \in {"left", "marked"}
Underway == Departed \/ Active(Initiator) \/ pc[Initiator] \in {"enter", "await"}
                     \/ pc[Initiator] = "notify"

\* A marked object that has pointers nobody has looked at is on the global
\* stack ahead of every cursor, or with a marker, unless entries were dropped
\* and the mark state says so (GC_steal_mark_stack, GC_return_mark_stack).
OnStack(o) == \E i \in GC_first_nonempty .. top : i \notin taken /\ GC_mark_stack[i] = o
WithMarker(o) == \E m \in Markers : o \in Range(local[m])
InHand(c) == \E m \in Markers : c \in cur[m] \/ c = found[m]
Finished(o) == \A c \in contents[o] : c \in hb_marks \/ InHand(c)

NothingLost ==
  Underway /\ GC_mark_state # "MS_INVALID" =>
    \A o \in hb_marks : OnStack(o) \/ WithMarker(o) \/ Finished(o)

\* When GC_do_parallel_mark returns and no entry was dropped, what the roots
\* lead to is marked.
MarkingComplete ==
  pc[Initiator] = "marked" /\ GC_mark_state # "MS_INVALID" =>
    seeds \subseteq hb_marks /\ Closed(hb_marks)

\* "We know that both conditions actually held simultaneously" (GC_mark_local):
\* once a marker has left, no marker holds work and the stack is used up, even
\* if a helper joins late.
LeavingMeansDone ==
  Departed => taken = 1 .. top /\ \A m \in Markers : HoldsNothing(m)

\* The assertions on the cursors in GC_mark_local and GC_steal_mark_stack: the
\* size_t n_on_stack never wraps.
CursorsInBounds ==
  \A m \in Markers : Active(m) =>
    /\ my_first_nonempty[m] <= top + 1 /\ GC_first_nonempty <= top + 1
    /\ pc[m] \in {"steal", "take"} => my_top[m] >= my_first_nonempty[m] - 1

\* GC_first_nonempty never moves back while anybody marks, although cursors
\* are published without the lock.
CursorAdvances ==
  [][GC_first_nonempty' < GC_first_nonempty => \A m \in Markers : ~Active(m)]_vars

\* Every parallel mark ends: no marker misses a notification, and markers that
\* share do not do so for ever.
MarkingEnds == (pc[Initiator] = "mark_some") ~> (pc[Initiator] = "done")

\* Whatever the interleaving, it is the abstract marking.
Promise == INSTANCE MarkSpec WITH
  Uncollectable <- {},
  Scanned <- Obj,
  status <- IF pc[Initiator] = "idle" THEN "idle"
            ELSE IF pc[Initiator] = "done" THEN "marked" ELSE "marking",
  marks <- hb_marks
ImplementsMarkSpec == Promise!Spec

=============================================================================
