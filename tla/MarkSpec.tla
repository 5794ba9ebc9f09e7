------------------------------ MODULE MarkSpec ------------------------------
(***************************************************************************)
(* What a stop-the-world marking promises, whatever the order in which it  *)
(* marks, the size of its mark stack and the number of its rescans         *)
(* (GC_stopped_mark and GC_hintgc_stopped_mark, alloc.c): starting from    *)
(* the seeds it marks what they lead to, one set of objects after the      *)
(* other, never an object that nothing leads to, and it is over only when  *)
(* nothing reachable is left unmarked.                                     *)
(***************************************************************************)

CONSTANTS
  Obj,           \* object slots
  Uncollectable, \* objects that keep their mark bits from one collection to the next
  Scanned,       \* objects that may hold pointers
  Graphs         \* the heap graphs to consider

VARIABLES
  status,        \* "idle", "marking" or "marked"
  contents,      \* what each object points to
  seeds,         \* where marking starts
  marks          \* marked objects

vars == <<status, contents, seeds, marks>>

TypeOK ==
  /\ status \in {"idle", "marking", "marked"}
  /\ contents \in [Obj -> SUBSET Obj]
  /\ seeds \in SUBSET Obj
  /\ marks \in SUBSET Obj

PointedToBy(S) == UNION {contents[o] : o \in S}

Closed(S) == seeds \cup PointedToBy(S \cap Scanned) \subseteq S
Live == {o \in Obj : \A S \in SUBSET Obj : Closed(S) => o \in S}

Init ==
  /\ status = "idle" /\ contents \in Graphs
  /\ seeds \in SUBSET Obj /\ marks = Uncollectable

Start ==
  /\ status = "idle" /\ status' = "marking"
  /\ seeds' \in SUBSET Obj /\ Uncollectable \subseteq seeds'
  /\ marks' = marks \cap Uncollectable
  /\ UNCHANGED contents

\* Several objects may be marked at once: phase 1 marks whole blocks.
Mark ==
  /\ status = "marking"
  /\ marks' \in SUBSET (marks \cup seeds \cup PointedToBy(marks \cap Scanned))
  /\ marks \subseteq marks'
  /\ UNCHANGED <<status, contents, seeds>>

Finish ==
  /\ status = "marking" /\ Closed(marks)
  /\ status' = "marked"
  /\ UNCHANGED <<contents, seeds, marks>>

Sweep ==
  /\ status = "marked" /\ status' = "idle"
  /\ seeds' \in SUBSET Obj
  /\ UNCHANGED <<contents, marks>>

Next == Start \/ Mark \/ Finish \/ Sweep

Spec == Init /\ [][Next]_vars

\* When marking is over, exactly the live objects are marked.
MarksExactlyLive == status = "marked" => marks = Live

=============================================================================
