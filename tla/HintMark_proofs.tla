-------------------------- MODULE HintMark_proofs --------------------------
(***************************************************************************)
(* Proofs about the serial marking of HintMark, for every heap and every   *)
(* size of the mark stack: its types, the inductive invariant MarkingInv,  *)
(* and what follows from it: a collection marks exactly the live objects.  *)
(***************************************************************************)
EXTENDS HintMark, SequenceTheorems, TLAPS

(***************************************************************************)
(* What the ranges on the mark stack point to.                             *)
(***************************************************************************)

LEMMA TargetsType ==
  ASSUME NEW s \in Seq(SUBSET Obj)
  PROVE  Targets(s) \in SUBSET Obj
BY DEF Targets

LEMMA TargetsEmpty == Targets(<<>>) = {}
BY DEF Targets

LEMMA TargetsOne ==
  ASSUME NEW r \in SUBSET Obj
  PROVE  <<r>> \in Seq(SUBSET Obj) /\ Targets(<<r>>) = r /\ Len(<<r>>) = 1
BY DEF Targets

LEMMA TargetsAppend ==
  ASSUME NEW s \in Seq(SUBSET Obj), NEW r \in SUBSET Obj
  PROVE  /\ Append(s, r) \in Seq(SUBSET Obj)
         /\ Len(Append(s, r)) = Len(s) + 1
         /\ Targets(Append(s, r)) = Targets(s) \cup r
<1>1. \A i \in 1 .. Len(s) : Append(s, r)[i] = s[i]
  OBVIOUS
<1>2. Append(s, r)[Len(s) + 1] = r /\ DOMAIN Append(s, r) = 1 .. (Len(s) + 1) /\ DOMAIN s = 1 .. Len(s)
  OBVIOUS
<1>3. 1 .. (Len(s) + 1) = (1 .. Len(s)) \cup {Len(s) + 1}
  OBVIOUS
<1>4. Targets(Append(s, r)) = Targets(s) \cup r
  BY <1>1, <1>2, <1>3, Zenon DEF Targets
<1> QED
  BY <1>4

LEMMA TargetsPop ==
  ASSUME NEW s \in Seq(SUBSET Obj), s # <<>>
  PROVE  /\ s[Len(s)] \in SUBSET Obj
         /\ SubSeq(s, 1, Len(s) - 1) \in Seq(SUBSET Obj)
         /\ Len(SubSeq(s, 1, Len(s) - 1)) = Len(s) - 1
         /\ Targets(s) = Targets(SubSeq(s, 1, Len(s) - 1)) \cup s[Len(s)]
<1> DEFINE n == Len(s) - 1
           t == SubSeq(s, 1, n)
<1>1. n \in Nat /\ Len(s) = n + 1
  BY EmptySeq
<1>2. \A i \in 1 .. n : s[i] \in SUBSET Obj
  BY <1>1
<1>3. t \in Seq(SUBSET Obj) /\ Len(t) = n /\ \A i \in 1 .. n : t[i] = s[i]
  <2> HIDE DEF n
  <2>1. (IF 1 <= n THEN n - 1 + 1 ELSE 0) = n /\ 1 \in Int /\ n \in Int
    BY <1>1
  <2>2. \A i \in 1 .. n - 1 + 1 : 1 + i - 1 = i
    BY <1>1
  <2> QED
    BY <1>1, <1>2, <2>1, <2>2, SubSeqProperties
<1>4. DOMAIN t = 1 .. n /\ \A i \in DOMAIN t : t[i] = s[i]
  <2> HIDE DEF t, n
  <2> QED BY <1>3
<1>5. DOMAIN s = DOMAIN t \cup {Len(s)}
  <2> HIDE DEF t, n
  <2> QED BY <1>1, <1>4
<1>6. s[Len(s)] \in SUBSET Obj
  BY <1>1
<1>7. Targets(s) = Targets(t) \cup s[Len(s)]
  <2> HIDE DEF t, n
  <2>1. \A i \in DOMAIN t : t[i] = s[i]
    BY <1>4
  <2> QED BY <2>1, <1>5, Zenon DEF Targets
<1> QED
  BY <1>3, <1>6, <1>7

LEMMA TargetsPrefix ==
  ASSUME NEW s \in Seq(SUBSET Obj), NEW n \in Nat, n <= Len(s)
  PROVE  /\ SubSeq(s, 1, n) \in Seq(SUBSET Obj)
         /\ Len(SubSeq(s, 1, n)) = n
         /\ Targets(SubSeq(s, 1, n)) \subseteq Targets(s)
<1> DEFINE t == SubSeq(s, 1, n)
<1>1. t \in Seq(SUBSET Obj) /\ Len(t) = n
  OBVIOUS
<1>2. DOMAIN t \subseteq DOMAIN s /\ \A i \in DOMAIN t : t[i] = s[i]
  OBVIOUS
<1>3. Targets(t) \subseteq Targets(s)
  <2> HIDE DEF t
  <2> QED BY <1>2, Zenon DEF Targets
<1> QED
  BY <1>1, <1>3

LEMMA TargetsConcat ==
  ASSUME NEW s \in Seq(SUBSET Obj), NEW t \in Seq(SUBSET Obj)
  PROVE  /\ s \o t \in Seq(SUBSET Obj)
         /\ Len(s \o t) = Len(s) + Len(t)
         /\ Targets(s \o t) = Targets(s) \cup Targets(t)
<1> DEFINE u == s \o t
<1>1. u \in Seq(SUBSET Obj) /\ Len(u) = Len(s) + Len(t)
  OBVIOUS
<1>2. \A i \in 1 .. Len(s) : i \in DOMAIN u /\ u[i] = s[i]
  OBVIOUS
<1>3. \A i \in 1 .. Len(t) : Len(s) + i \in DOMAIN u /\ u[Len(s) + i] = t[i]
  OBVIOUS
<1>4. \A j \in DOMAIN u : \/ j \in 1 .. Len(s) /\ u[j] = s[j]
                          \/ \E i \in 1 .. Len(t) : u[j] = t[i]
  <2> SUFFICES ASSUME NEW j \in DOMAIN u, j > Len(s)
               PROVE  \E i \in 1 .. Len(t) : u[j] = t[i]
    OBVIOUS
  <2>1. j - Len(s) \in 1 .. Len(t) /\ u[j] = t[j - Len(s)]
    OBVIOUS
  <2> QED BY <2>1
<1>5. DOMAIN s = 1 .. Len(s) /\ DOMAIN t = 1 .. Len(t)
  OBVIOUS
<1>6. Targets(u) = Targets(s) \cup Targets(t)
  <2> HIDE DEF u
  <2> QED BY <1>2, <1>3, <1>4, <1>5, Zenon DEF Targets
<1> QED
  BY <1>1, <1>6

(***************************************************************************)
(* Types.                                                                  *)
(***************************************************************************)

\* Entries are ranges whatever was thrown away below them.
LEMMA DiscardType ==
  ASSUME NEW s \in Seq(SUBSET Obj)
  PROVE  SubSeq(s, 1, Len(s) - Discards) \in Seq(SUBSET Obj)
<1>1. Discards \in Nat
  BY StackAssumption
<1>2. CASE Len(s) - Discards \in Nat
  BY <1>1, <1>2, TargetsPrefix
<1>3. CASE Len(s) - Discards < 1
  <2>1. SubSeq(s, 1, Len(s) - Discards) = <<>>
    BY <1>1, <1>3, SubSeqEmpty
  <2> QED
    BY <2>1, EmptySeq
<1> QED
  BY <1>1, <1>2, <1>3

LEMMA PushType ==
  ASSUME TypeOK, NEW o \in Obj, PUSH_OBJ(o)
  PROVE  /\ GC_mark_stack' \in Seq(SUBSET Obj)
         /\ GC_mark_stack_size' = GC_mark_stack_size
         /\ GC_mark_stack_too_small' \in BOOLEAN
         /\ GC_mark_state' \in MarkStates
<1>1. contents[o] \in SUBSET Obj
  BY DEF TypeOK
<1>2. /\ Append(GC_mark_stack, contents[o]) \in Seq(SUBSET Obj)
      /\ Append(SubSeq(GC_mark_stack, 1, Len(GC_mark_stack) - Discards), contents[o])
           \in Seq(SUBSET Obj)
  BY <1>1, DiscardType, TargetsAppend DEF TypeOK
<1> QED
  BY <1>2 DEF PUSH_OBJ, TypeOK, MarkStates, stackVars

LEMMA SetMarkType ==
  ASSUME TypeOK, NEW o \in Obj, SetMarkBit(o)
  PROVE  hb_marks' \in SUBSET Obj /\ hb_n_marks' \in [Block -> Nat]
<1>1. BlockOf[o] \in Block /\ hb_n_marks[BlockOf[o]] + 1 \in Nat
  BY HeapAssumption DEF TypeOK
<1> QED
  BY <1>1 DEF SetMarkBit, TypeOK

LEMMA PopType ==
  ASSUME TypeOK, PopRange
  PROVE  /\ cur' \in SUBSET Obj /\ GC_mark_stack' \in Seq(SUBSET Obj)
         /\ cur = {}
         /\ Len(GC_mark_stack') = Len(GC_mark_stack) - 1
         /\ Targets(GC_mark_stack) = Targets(GC_mark_stack') \cup cur'
         /\ UNCHANGED <<GC_mark_stack_size, GC_mark_stack_too_small>>
BY TargetsPop DEF PopRange, TypeOK

LEMMA RootsType ==
  ASSUME TypeOK, GC_push_roots
  PROVE  /\ GC_mark_stack' \in Seq(SUBSET Obj)
         /\ UNCHANGED <<GC_mark_stack_size, GC_mark_stack_too_small>>
BY TargetsConcat DEF GC_push_roots, TypeOK

LEMMA AllocType ==
  ASSUME TypeOK, alloc_mark_stack
  PROVE  /\ GC_mark_stack' = <<>> /\ GC_mark_stack' \in Seq(SUBSET Obj)
         /\ GC_mark_stack_size' \in Nat /\ GC_mark_stack_size' >= GC_mark_stack_size
         /\ GC_mark_stack_too_small' = FALSE
<1>1. <<>> \in Seq(SUBSET Obj) /\ GC_mark_stack_size \in Nat
  BY DEF TypeOK
<1> QED
  BY <1>1 DEF alloc_mark_stack

\* GC_push_marked, GC_set_hdr_marks and GC_mark_from keep every variable in
\* its type.
THEOREM TypeCorrect == Spec => []TypeOK
<1>1. Init => TypeOK
  <2> SUFFICES ASSUME Init PROVE TypeOK
    OBVIOUS
  <2>1. UncollectableObjs \subseteq Obj
    BY DEF UncollectableObjs
  <2>2. hb_n_marks \in [Block -> Nat]
    BY HeapAssumption DEF Init
  <2>3. roots \in Seq(SUBSET Obj) /\ GC_mark_stack \in Seq(SUBSET Obj)
    BY EmptySeq DEF Init
  <2>4. contents \in [Obj -> SUBSET Obj] /\ GC_mark_stack_size \in Nat /\ scan_ptr \in 0 .. NBlocks
    BY HeapAssumption, StackAssumption DEF Init
  <2> QED
    BY <2>1, <2>2, <2>3, <2>4
    DEF Init, TypeOK, Locations, MarkStates
<1>2. TypeOK /\ [Next]_vars => TypeOK'
  <2> SUFFICES ASSUME TypeOK, [Next]_vars PROVE TypeOK'
    OBVIOUS
  <2> USE DEF TypeOK, Locations, MarkStates, heapVars, markVars, stackVars, stateVars, walkVars
  <2>1. ASSUME NEW kind \in {"hinted", "full"}, StartCollection(kind), todo' \subseteq Block,
               pc' \in Locations
        PROVE  TypeOK'
    <3>1. roots' \in Seq(SUBSET Obj) /\ pending' \in SUBSET Block
      BY <2>1, HeapAssumption DEF StartCollection
    <3>2. hb_n_marks' \in [Block -> Nat] /\ hb_marks' \in SUBSET Obj
      BY <2>1 DEF StartCollection, GC_clear_marks
    <3>3. GC_mark_stack' \in Seq(SUBSET Obj)
      BY <2>1, EmptySeq DEF StartCollection
    <3>4. scan_ptr' \in 0 .. NBlocks
      BY <2>1, HeapAssumption DEF StartCollection, GC_clear_marks
    <3> QED
      BY <2>1, <3>1, <3>2, <3>3, <3>4 DEF StartCollection, GC_clear_marks
  <2>2. CASE StartHinted
    BY <2>1, <2>2 DEF StartHinted
  <2>3. CASE StartFull
    BY <2>1, <2>3 DEF StartFull
  <2>4. ASSUME NEW b \in Block, Phase1Block(b) PROVE TypeOK'
    <3>1. hb_marks' \in SUBSET Obj /\ hb_n_marks' \in [Block -> Nat]
      BY <2>4, HeapAssumption DEF Phase1Block, GC_set_hdr_marks, ObjectsIn
    <3> QED
      BY <2>4, <3>1 DEF Phase1Block
  <2>5. CASE Phase1Done
    BY <2>5 DEF Phase1Done
  <2>6. ASSUME NEW b \in Block, Phase2Block(b) PROVE TypeOK'
    <3>1. UNION {contents[o] : o \in ObjectsIn(b)} \in SUBSET Obj
      BY DEF ObjectsIn
    <3>2. <<UNION {contents[o] : o \in ObjectsIn(b)}>> \in Seq(SUBSET Obj)
      <4> HIDE DEF TypeOK
      <4> QED
        BY <3>1, TargetsOne
    <3>3. GC_mark_stack' \in Seq(SUBSET Obj)
      BY <2>6, <3>2, EmptySeq DEF Phase2Block
    <3> QED
      BY <2>6, <3>3 DEF Phase2Block
  <2>7. CASE Phase2Pop
    BY <2>7, PopType DEF Phase2Pop
  <2>8. ASSUME NEW o \in Obj, Phase2Mark(o) PROVE TypeOK'
    <3>1. hb_marks' \in SUBSET Obj /\ hb_n_marks' \in [Block -> Nat]
      BY <2>8, SetMarkType DEF Phase2Mark, MARK_NO_PUSH
    <3> QED
      BY <2>8, <3>1 DEF Phase2Mark
  <2>9. CASE PushRootsWithCheck
    BY <2>9, RootsType DEF PushRootsWithCheck
  <2>10. ASSUME NEW b \in Block, Phase3Block(b) PROVE TypeOK'
    BY <2>10 DEF Phase3Block, ObjectsIn
  <2>11. CASE Phase3Pushed \/ Phase3Drained \/ Phase3Overflowed \/ Phase3Done
    BY <2>11 DEF Phase3Pushed, Phase3Drained, Phase3Overflowed, Phase3Done
  <2>12. CASE Phase3Grow
    BY <2>12, AllocType DEF Phase3Grow
  <2>13. CASE MarkFromPop
    BY <2>13, PopType DEF MarkFromPop
  <2>14. ASSUME NEW o \in Obj, MarkFromScan(o) PROVE TypeOK'
    <3>1. /\ hb_marks' \in SUBSET Obj /\ hb_n_marks' \in [Block -> Nat]
          /\ GC_mark_stack' \in Seq(SUBSET Obj) /\ GC_mark_stack_size' \in Nat
          /\ GC_mark_stack_too_small' \in BOOLEAN /\ GC_mark_state' \in MarkStates
      BY <2>14, SetMarkType, PushType DEF MarkFromScan, PUSH_CONTENTS
    <3> QED
      BY <2>14, <3>1 DEF MarkFromScan
  <2>15. ASSUME NEW o \in Obj, PushMarked(o) PROVE TypeOK'
    BY <2>15, PushType DEF PushMarked
  <2>16. CASE MarkDuringUncollectable \/ MarkToEmpty
    BY <2>16, PopType DEF MarkDuringUncollectable, MarkToEmpty, EnterMarkFrom
  <2>17. CASE MarkFromReturn \/ PushedBlock \/ BeginUncollectable \/ RescanAgain
    BY <2>17 DEF MarkFromReturn, PushedBlock, BeginUncollectable, RescanAgain, Rescanning
  <2>18. ASSUME NEW b \in Block, PushBlock(b), UNCHANGED <<stackVars, GC_mark_state>>
         PROVE  TypeOK'
    <3>1. scan_ptr' \in 0 .. NBlocks
      BY <2>18, HeapAssumption DEF PushBlock, Block
    <3>2. /\ pc' \in Locations /\ pushing' \in SUBSET Obj
          /\ GC_objects_are_marked' \in BOOLEAN /\ todo' \in SUBSET Block
      BY <2>18 DEF PushBlock
    <3> QED
      BY <2>18, <3>1, <3>2 DEF PushBlock
  <2>19. ASSUME NEW b \in Block, PushUncollectable(b) PROVE TypeOK'
    BY <2>18, <2>19 DEF PushUncollectable
  <2>20. CASE RescanBlock
    <3>1. scan_ptr + 1 \in Block
      BY <2>20, HeapAssumption DEF RescanBlock, Block
    <3> QED
      BY <2>18, <2>20, <3>1 DEF RescanBlock
  <2>21. CASE UncollectableDone \/ RescanDone
    <3>1. PushRootsAfterWalk
      BY <2>21 DEF UncollectableDone, RescanDone
    <3> QED
      BY <3>1, RootsType, HeapAssumption DEF PushRootsAfterWalk
  <2>22. CASE BeginRescan
    BY <2>22, AllocType DEF BeginRescan, Rescanning
  <2>23. CASE MarkDone
    BY <2>23, AllocType DEF MarkDone
  <2>24. CASE FinishCollection
    BY <2>24 DEF FinishCollection
  <2>25. CASE UNCHANGED vars
    BY <2>25 DEF vars
  <2> QED
    BY <2>2, <2>3, <2>4, <2>5, <2>6, <2>7, <2>8, <2>9, <2>10, <2>11, <2>12, <2>13, <2>14,
       <2>15, <2>16, <2>17, <2>19, <2>20, <2>21, <2>22, <2>23, <2>24, <2>25
    DEF Next, Collector, Phase1, Phase2, Phase3, MarkFrom, GC_mark_some
<1> QED
  BY <1>1, <1>2, PTL DEF Spec

(***************************************************************************)
(* What the operations on the mark stack do to the set of objects that are *)
(* marked or wait to be marked.                                            *)
(***************************************************************************)

\* What PUSH_OBJ puts on the stack for o.
Pushed(o) == IF Scannable(o) THEN contents[o] ELSE {}

LEMMA PushEffect ==
  ASSUME TypeOK, ControlInv, NEW o \in Obj, PUSH_OBJ(o)
  PROVE  /\ Len(GC_mark_stack') <= GC_mark_stack_size'
         /\ GC_mark_stack_size' = GC_mark_stack_size
         /\ Targets(GC_mark_stack') \subseteq Targets(GC_mark_stack) \cup Pushed(o)
         /\ \/ /\ Targets(GC_mark_stack') = Targets(GC_mark_stack) \cup Pushed(o)
               /\ UNCHANGED <<GC_mark_stack_too_small, GC_mark_state>>
            \/ GC_mark_stack_too_small' = TRUE /\ GC_mark_state' = "MS_INVALID"
<1>1. CASE ~Scannable(o)
  BY <1>1 DEF PUSH_OBJ, Pushed, ControlInv, MarkStackInBounds, stackVars
<1>2. CASE Scannable(o)
  <2> DEFINE n == Len(GC_mark_stack) - Discards
             kept == SubSeq(GC_mark_stack, 1, n)
  <2>1. contents[o] \in SUBSET Obj /\ Pushed(o) = contents[o] /\ GC_mark_stack \in Seq(SUBSET Obj)
    BY <1>2 DEF TypeOK, Pushed
  <2>2. CASE StackFull
    <3>1. n \in Nat /\ n <= Len(GC_mark_stack) /\ n + 1 <= GC_mark_stack_size
      BY <2>1, <2>2, StackAssumption DEF StackFull, ControlInv, MarkStackInBounds, TypeOK
    <3>2. kept \in Seq(SUBSET Obj) /\ Len(kept) = n /\ Targets(kept) \subseteq Targets(GC_mark_stack)
      BY <2>1, <3>1, TargetsPrefix
    <3>3. GC_mark_stack' = Append(kept, contents[o])
      BY <1>2, <2>2 DEF PUSH_OBJ
    <3>4. Len(GC_mark_stack') = n + 1 /\ Targets(GC_mark_stack') = Targets(kept) \cup contents[o]
      <4> HIDE DEF kept, n
      <4> QED BY <2>1, <3>2, <3>3, TargetsAppend
    <3> QED
      <4> HIDE DEF kept, n
      <4> QED BY <1>2, <2>1, <2>2, <3>1, <3>2, <3>4 DEF PUSH_OBJ
  <2>3. CASE ~StackFull
    <3>1. Len(GC_mark_stack) + 1 <= GC_mark_stack_size
      BY <2>1, <2>3 DEF StackFull, TypeOK
    <3>2. GC_mark_stack' = Append(GC_mark_stack, contents[o])
      BY <1>2, <2>3 DEF PUSH_OBJ
    <3>3. /\ Len(GC_mark_stack') = Len(GC_mark_stack) + 1
          /\ Targets(GC_mark_stack') = Targets(GC_mark_stack) \cup contents[o]
      BY <2>1, <3>2, TargetsAppend
    <3> QED
      BY <1>2, <2>1, <2>3, <3>1, <3>3 DEF PUSH_OBJ
  <2> QED
    BY <2>2, <2>3
<1> QED
  BY <1>1, <1>2

\* GC_mark_from looks at a pointer: its object is marked, and scanned later
\* unless the stack overflows.
LEMMA ScanEffect ==
  ASSUME TypeOK, ControlInv, NEW o \in cur, cur' = cur \ {o}, PUSH_CONTENTS(o), UNCHANGED contents
  PROVE  /\ Len(GC_mark_stack') <= GC_mark_stack_size'
         /\ GC_mark_stack_size' = GC_mark_stack_size
         /\ hb_marks' = hb_marks \cup {o}
         /\ cur' \cup Targets(GC_mark_stack') \subseteq cur \cup Targets(GC_mark_stack) \cup Pushed(o)
         /\ \/ /\ Covered \subseteq Covered'
               /\ o \notin hb_marks => Pushed(o) \subseteq Covered'
               /\ UNCHANGED <<GC_mark_stack_too_small, GC_mark_state>>
            \/ GC_mark_stack_too_small' = TRUE /\ GC_mark_state' = "MS_INVALID"
<1>1. o \in Obj
  BY DEF TypeOK
<1>2. CASE o \in hb_marks
  BY <1>2 DEF PUSH_CONTENTS, markVars, stackVars, Covered, ControlInv, MarkStackInBounds
<1>3. CASE o \notin hb_marks
  <2>1. PUSH_OBJ(o) /\ hb_marks' = hb_marks \cup {o}
    BY <1>3 DEF PUSH_CONTENTS, SetMarkBit
  <2> QED
    BY <1>1, <2>1, PushEffect DEF Covered
<1> QED
  BY <1>2, <1>3

\* A range moves from the stack to the registers.
LEMMA PopEffect ==
  ASSUME TypeOK, ControlInv, PopRange, UNCHANGED hb_marks
  PROVE  /\ Len(GC_mark_stack') <= GC_mark_stack_size'
         /\ cur' \cup Targets(GC_mark_stack') = cur \cup Targets(GC_mark_stack)
         /\ Covered' = Covered
<1>1. /\ GC_mark_stack \in Seq(SUBSET Obj) /\ GC_mark_stack' \in Seq(SUBSET Obj)
      /\ GC_mark_stack_size \in Nat
  BY PopType DEF TypeOK
<1> QED
  BY <1>1, PopType DEF Covered, ControlInv, MarkStackInBounds

\* The roots are added to what waits on the stack.
LEMMA RootsEffect ==
  ASSUME TypeOK, ControlInv, GC_push_roots, UNCHANGED hb_marks, cur = {}, cur' = {}
  PROVE  /\ Len(GC_mark_stack') <= GC_mark_stack_size'
         /\ Targets(GC_mark_stack') \subseteq Targets(GC_mark_stack) \cup Targets(roots)
         /\ Covered \subseteq Covered'
         /\ RootsFit => Targets(roots) \subseteq Covered'
<1>1. /\ GC_mark_stack \in Seq(SUBSET Obj) /\ roots \in Seq(SUBSET Obj)
      /\ GC_mark_stack_size \in Nat
  BY DEF TypeOK
<1>2. CASE RootsFit
  <2>1. GC_mark_stack' = GC_mark_stack \o roots /\ GC_mark_stack_size' = GC_mark_stack_size
    BY <1>2 DEF GC_push_roots
  <2>2. /\ Len(GC_mark_stack') = Len(GC_mark_stack) + Len(roots)
        /\ Targets(GC_mark_stack') = Targets(GC_mark_stack) \cup Targets(roots)
    BY <1>1, <2>1, TargetsConcat
  <2> QED
    BY <1>2, <2>1, <2>2 DEF RootsFit, Covered
<1>3. CASE ~RootsFit
  BY <1>3 DEF GC_push_roots, Covered, ControlInv, MarkStackInBounds
<1> QED
  BY <1>2, <1>3

\* The stack is emptied when nothing is on it.
LEMMA AllocEffect ==
  ASSUME TypeOK, Drained, UNCHANGED <<hb_marks, cur>>,
         alloc_mark_stack \/ UNCHANGED stackVars
  PROVE  Covered' = Covered /\ Covered = hb_marks /\ GC_mark_stack' = <<>> /\ cur' = {}
BY TargetsEmpty DEF alloc_mark_stack, Drained, Covered, stackVars

(***************************************************************************)
(* The parts of MarkingInv are preserved by every step.                    *)
(***************************************************************************)

\* What an optional alloc_mark_stack does to the stack.
GrownOrKept ==
  \/ UNCHANGED <<GC_mark_stack, GC_mark_stack_size>>
  \/ GC_mark_stack' = <<>> /\ GC_mark_stack_size' \in Nat /\ GC_mark_stack_size' >= GC_mark_stack_size

LEMMA ControlStep ==
  ASSUME TypeOK, ControlInv, [Next]_vars
  PROVE  ControlInv'
<1> USE DEF ControlInv, Phase3Locations, MarkStackInBounds,
            heapVars, markVars, stackVars, stateVars, walkVars
<1>a. /\ GC_mark_stack \in Seq(SUBSET Obj) /\ Len(GC_mark_stack) \in Nat
      /\ GC_mark_stack_size \in Nat /\ InitialMarkStackSize \in Nat
      /\ InitialMarkStackSize >= 1 /\ Len(<<>>) = 0
  BY StackAssumption, EmptySeq DEF TypeOK
<1>1. CASE StartHinted \/ StartFull
  BY <1>1, <1>a DEF StartHinted, StartFull, StartCollection, GC_clear_marks
<1>2. ASSUME NEW b \in Block, Phase1Block(b) PROVE ControlInv'
  BY <1>2, <1>a DEF Phase1Block, GC_set_hdr_marks
<1>3. CASE Phase1Done
  BY <1>3, <1>a DEF Phase1Done
<1>4. ASSUME NEW b \in Block, Phase2Block(b) PROVE ControlInv'
  <2>1. Len(GC_mark_stack') <= GC_mark_stack_size'
    BY <1>4, <1>a DEF Phase2Block
  <2> QED
    BY <1>4, <1>a, <2>1 DEF Phase2Block
<1>5. CASE Phase2Pop
  BY <1>5, <1>a, PopEffect DEF Phase2Pop, PopRange
<1>6. ASSUME NEW o \in Obj, Phase2Mark(o) PROVE ControlInv'
  BY <1>6, <1>a DEF Phase2Mark, MARK_NO_PUSH, SetMarkBit
<1>7. CASE PushRootsWithCheck
  <2>1. Len(GC_mark_stack') <= GC_mark_stack_size' /\ GC_mark_stack_size' = GC_mark_stack_size
    BY <1>7, RootsEffect, RootsType DEF PushRootsWithCheck, Drained
  <2> QED
    BY <1>7, <1>a, <2>1 DEF PushRootsWithCheck, Drained
<1>8. ASSUME NEW b \in Block, Phase3Block(b) PROVE ControlInv'
  BY <1>8, <1>a DEF Phase3Block
<1>9. CASE Phase3Pushed \/ Phase3Drained \/ Phase3Overflowed \/ Phase3Done
  BY <1>9, <1>a DEF Phase3Pushed, Phase3Drained, Phase3Overflowed, Phase3Done, Drained
<1>10. CASE Phase3Grow
  BY <1>10, <1>a, AllocType DEF Phase3Grow, Drained
<1>11. CASE MarkFromPop
  BY <1>11, <1>a, PopEffect, PopType DEF MarkFromPop
<1>12. ASSUME NEW o \in Obj, MarkFromScan(o) PROVE ControlInv'
  <2>1. /\ Len(GC_mark_stack') <= GC_mark_stack_size' /\ GC_mark_stack_size' = GC_mark_stack_size
        /\ hb_marks \subseteq hb_marks' /\ GC_mark_state' \in {GC_mark_state, "MS_INVALID"}
    BY <1>12, ScanEffect DEF MarkFromScan
  <2> QED
    BY <1>12, <1>a, <2>1 DEF MarkFromScan
<1>13. ASSUME NEW o \in Obj, PushMarked(o) PROVE ControlInv'
  <2>1. /\ Len(GC_mark_stack') <= GC_mark_stack_size' /\ GC_mark_stack_size' = GC_mark_stack_size
        /\ GC_mark_state' \in {GC_mark_state, "MS_INVALID"}
    BY <1>13, PushEffect DEF PushMarked
  <2> QED
    BY <1>13, <1>a, <2>1 DEF PushMarked
<1>14. CASE MarkDuringUncollectable \/ MarkToEmpty
  <2>1. EnterMarkFrom /\ pc = "mark_some"
    BY <1>14 DEF MarkDuringUncollectable, MarkToEmpty
  <2> QED
    BY <1>a, <2>1, PopEffect, PopType DEF EnterMarkFrom
<1>15. CASE MarkFromReturn \/ PushedBlock \/ BeginUncollectable \/ RescanAgain
  BY <1>15, <1>a DEF MarkFromReturn, PushedBlock, BeginUncollectable, RescanAgain, Rescanning
<1>16. ASSUME NEW b \in Block, PushUncollectable(b) PROVE ControlInv'
  BY <1>16, <1>a DEF PushUncollectable, PushBlock
<1>17. CASE RescanBlock
  BY <1>17, <1>a DEF RescanBlock, Rescanning, PushBlock
<1>18. CASE UncollectableDone \/ RescanDone
  <2>1. PushRootsAfterWalk /\ pc = "mark_some"
    BY <1>18 DEF UncollectableDone, RescanDone, Rescanning
  <2>2. Len(GC_mark_stack') <= GC_mark_stack_size' /\ GC_mark_stack_size' = GC_mark_stack_size
    BY <2>1, RootsEffect, RootsType DEF PushRootsAfterWalk
  <2> QED
    BY <1>a, <2>1, <2>2 DEF PushRootsAfterWalk
<1>19. CASE BeginRescan
  <2>1. GrownOrKept
    BY <1>19, AllocType DEF BeginRescan, GrownOrKept
  <2> QED
    BY <1>19, <1>a, <2>1 DEF BeginRescan, Rescanning, Drained, GrownOrKept
<1>20. CASE MarkDone
  <2>1. GrownOrKept
    BY <1>20, AllocType DEF MarkDone, GrownOrKept
  <2> QED
    BY <1>20, <1>a, <2>1 DEF MarkDone, Drained, GrownOrKept
<1>21. CASE FinishCollection
  BY <1>21, <1>a DEF FinishCollection
<1>22. CASE UNCHANGED vars
  BY <1>22, <1>a DEF vars
<1> QED
  BY <1>1, <1>2, <1>3, <1>4, <1>5, <1>6, <1>7, <1>8, <1>9, <1>10, <1>11, <1>12, <1>13, <1>14,
     <1>15, <1>16, <1>17, <1>18, <1>19, <1>20, <1>21, <1>22
  DEF Next, Collector, Phase1, Phase2, Phase3, MarkFrom, GC_mark_some

\* A block's mark count misses its marked objects only where phase 2 has
\* already dealt with what they point to.
LEMMA CountStep ==
  ASSUME SmallUncollectable, TypeOK, ControlInv, CountInv, [Next]_vars
  PROVE  CountInv'
<1> USE DEF CountInv, GC_block_empty, heapVars, markVars
<1>1. CASE StartHinted \/ StartFull
  <2> SUFFICES ASSUME NEW o \in hb_marks' \cap Scanned, hb_n_marks'[BlockOf[o]] = 0 PROVE FALSE
    OBVIOUS
  <2>1. GC_clear_marks
    BY <1>1 DEF StartHinted, StartFull, StartCollection
  <2>2. o \in hb_marks /\ o \in Obj /\ o \in UncollectableObjs /\ BlockOf[o] \in Block
    BY <2>1, HeapAssumption DEF GC_clear_marks, Scanned
  <2>3. Kind[BlockOf[o]] = "UNCOLLECTABLE"
    BY <2>2 DEF UncollectableObjs, IS_UNCOLLECTABLE, Scanned, Scannable, PointerFree
  <2>4. hb_n_marks[BlockOf[o]] = 0
    BY <2>1, <2>2 DEF GC_clear_marks, UncollectableObjs
  <2> QED
    BY <2>2, <2>3, <2>4
<1>2. ASSUME NEW b \in Block, Phase1Block(b) PROVE CountInv'
  <2>1. CASE b \in pending
    BY <1>2, <2>1 DEF Phase1Block
  <2>2. CASE b \notin pending
    <3>1. GC_set_hdr_marks(b) /\ gc_kind = "hinted" /\ UNCHANGED <<gc_kind, pending>>
      BY <1>2, <2>2 DEF Phase1Block, ControlInv
    <3> SUFFICES ASSUME NEW o \in hb_marks' \cap Scanned, hb_n_marks'[BlockOf[o]] = 0
                 PROVE  BlockOf[o] \notin pending /\ Kind[BlockOf[o]] # "UNCOLLECTABLE"
      BY <3>1
    <3>2. BlockOf[o] \in Block
      BY HeapAssumption DEF Scanned
    <3>3. CASE BlockOf[o] = b
      <4>1. HBLK_OBJS[b] = 0
        BY <3>1, <3>3 DEF GC_set_hdr_marks, TypeOK
      <4> QED
        BY <2>2, <3>3, <4>1 DEF SmallUncollectable
    <3>4. CASE BlockOf[o] # b
      BY <3>1, <3>2, <3>4 DEF GC_set_hdr_marks, TypeOK, ObjectsIn
    <3> QED
      BY <3>3, <3>4
  <2> QED
    BY <2>1, <2>2
<1>3. ASSUME NEW o \in Obj, SetMarkBit(o), UNCHANGED <<gc_kind, pending>> PROVE CountInv'
  <2> SUFFICES ASSUME NEW p \in hb_marks' \cap Scanned, hb_n_marks'[BlockOf[p]] = 0
               PROVE  p \in hb_marks /\ hb_n_marks[BlockOf[p]] = 0
    BY <1>3
  <2>1. BlockOf[o] \in Block /\ BlockOf[p] \in Block
    BY HeapAssumption DEF Scanned
  <2>2. BlockOf[p] # BlockOf[o]
    BY <1>3, <2>1 DEF SetMarkBit, TypeOK
  <2> QED
    BY <1>3, <2>1, <2>2 DEF SetMarkBit, TypeOK
<1>4. ASSUME NEW o \in Obj, Phase2Mark(o) PROVE CountInv'
  <2>1. UNCHANGED markVars \/ SetMarkBit(o)
    BY <1>4 DEF Phase2Mark, MARK_NO_PUSH
  <2> QED
    BY <1>3, <1>4, <2>1 DEF Phase2Mark
<1>5. ASSUME NEW o \in Obj, MarkFromScan(o) PROVE CountInv'
  <2>1. UNCHANGED markVars \/ SetMarkBit(o)
    BY <1>5 DEF MarkFromScan, PUSH_CONTENTS
  <2> QED
    BY <1>3, <1>5, <2>1 DEF MarkFromScan
<1>6. CASE FinishCollection
  BY <1>6 DEF FinishCollection
<1>7. ASSUME UNCHANGED <<gc_kind, pending, hb_marks, hb_n_marks>> PROVE CountInv'
  BY <1>7
<1>8. CASE Phase1Done \/ Phase2Pop \/ PushRootsWithCheck \/ \E b \in Block : Phase2Block(b)
  BY <1>7, <1>8 DEF Phase1Done, Phase2Pop, PushRootsWithCheck, Phase2Block
<1>9. CASE \/ Phase3Pushed \/ Phase3Drained \/ Phase3Overflowed \/ Phase3Grow \/ Phase3Done
           \/ \E b \in Block : Phase3Block(b)
  BY <1>7, <1>9 DEF Phase3Pushed, Phase3Drained, Phase3Overflowed, Phase3Grow, Phase3Done, Phase3Block
<1>10. CASE MarkFromPop \/ MarkFromReturn \/ \E o \in Obj : PushMarked(o)
  BY <1>7, <1>10 DEF MarkFromPop, MarkFromReturn, PushMarked
<1>11. CASE GC_mark_some
  BY <1>7, <1>11
  DEF GC_mark_some, BeginUncollectable, MarkDuringUncollectable, UncollectableDone, MarkToEmpty,
      EnterMarkFrom, BeginRescan, RescanBlock, RescanAgain, RescanDone, MarkDone, PushedBlock,
      PushUncollectable, PushBlock, PushRootsAfterWalk
<1>12. CASE UNCHANGED vars
  BY <1>7, <1>12 DEF vars
<1> QED
  BY <1>1, <1>2, <1>4, <1>5, <1>6, <1>8, <1>9, <1>10, <1>11, <1>12
  DEF Next, Collector, Phase1, Phase2, Phase3, MarkFrom

\* The heap graph, the roots and the hints of the collection under way.
SameHeap == UNCHANGED <<gc_kind, contents, roots, pending>>

LEMMA SameHeapEffect ==
  ASSUME SameHeap
  PROVE  /\ Unhinted' = Unhinted
         /\ PointedToBy(Unhinted)' = PointedToBy(Unhinted)
         /\ Targets(roots)' = Targets(roots)
         /\ Seeds' = Seeds
         /\ \A S : Closed(S)' <=> Closed(S)
BY DEF SameHeap, Unhinted, PointedToBy, Targets, Seeds, Closed

\* After phase 2 the seeds stay marked, and the roots stay covered unless
\* the mark state becomes invalid.
LEMMA SeedKept ==
  ASSUME SeedInv, SameHeap, hb_marks \subseteq hb_marks',
         pc \notin {"idle", "phase1", "phase2"}, pc' \notin {"phase1", "phase2"},
         \/ Covered \subseteq Covered' /\ GC_mark_state' = GC_mark_state /\ pc # "abort"
         \/ GC_mark_state' # "MS_ROOTS_PUSHED"
         \/ pc' = "abort"
         \/ Targets(roots) \subseteq Covered'
  PROVE  SeedInv'
BY SameHeapEffect DEF SeedInv, SeedInvariants, SameHeap

LEMMA SeedStep ==
  ASSUME TypeOK, ControlInv, SeedInv, [Next]_vars
  PROVE  SeedInv'
<1> USE DEF heapVars, markVars, stackVars, stateVars, walkVars
<1>1. CASE StartHinted \/ StartFull
  <2>1. hb_marks' = UncollectableObjs
    BY <1>1 DEF StartHinted, StartFull, StartCollection, GC_clear_marks, SeedInv
  <2>2. CASE StartHinted
    <3>1. VisitedUnhinted' = {}
      BY <2>2, HeapAssumption DEF StartHinted, VisitedUnhinted, Unhinted
    <3> QED
      BY <2>1, <2>2, <3>1 DEF StartHinted, SeedInv, SeedInvariants
  <2>3. CASE StartFull
    BY <2>1, <2>3 DEF StartFull, StartCollection, SeedInv, SeedInvariants
  <2> QED
    BY <1>1, <2>2, <2>3
<1>2. ASSUME NEW b \in Block, Phase1Block(b) PROVE SeedInv'
  <2>1. SameHeap /\ pc = "phase1" /\ pc' = "phase1" /\ hb_marks \subseteq hb_marks'
    BY <1>2 DEF Phase1Block, GC_set_hdr_marks, SameHeap
  <2>2. ASSUME NEW o \in VisitedUnhinted' PROVE o \in hb_marks'
    <3>1. o \in Unhinted
      BY <2>1, <2>2, SameHeapEffect DEF VisitedUnhinted
    <3>2. CASE BlockOf[o] = b
      BY <1>2, <3>1, <3>2 DEF Phase1Block, GC_set_hdr_marks, ObjectsIn, Unhinted
    <3>3. CASE BlockOf[o] # b
      <4>1. o \in VisitedUnhinted
        BY <1>2, <2>2, <3>1, <3>3 DEF Phase1Block, VisitedUnhinted
      <4> QED
        BY <2>1, <4>1 DEF SeedInv
    <3> QED
      BY <3>2, <3>3
  <2> QED
    BY <2>1, <2>2 DEF SeedInv, SeedInvariants
<1>3. CASE Phase1Done
  <2>1. Unhinted' \subseteq hb_marks'
    BY <1>3 DEF Phase1Done, SeedInv, VisitedUnhinted, Unhinted
  <2>2. VisitedUnhinted' = {}
    BY <1>3, HeapAssumption DEF Phase1Done, VisitedUnhinted, Unhinted
  <2>3. PointedToBy(VisitedUnhinted)' = {}
    BY <2>2 DEF PointedToBy
  <2> QED
    BY <1>3, <2>1, <2>3 DEF Phase1Done, SeedInv, SeedInvariants
<1>4. ASSUME SameHeap, pc = "phase2", pc' = "phase2", todo' = todo, hb_marks \subseteq hb_marks',
             Covered \subseteq Covered'
      PROVE  SeedInv'
  <2>1. VisitedUnhinted' = VisitedUnhinted /\ PointedToBy(VisitedUnhinted)' = PointedToBy(VisitedUnhinted)
    BY <1>4, SameHeapEffect DEF VisitedUnhinted, PointedToBy, SameHeap
  <2> QED
    BY <1>4, <2>1, SameHeapEffect DEF SeedInv, SeedInvariants
<1>5. ASSUME NEW b \in Block, Phase2Block(b) PROVE SeedInv'
  <2> DEFINE R == UNION {contents[o] : o \in ObjectsIn(b)}
  <2>1. SameHeap /\ pc = "phase2" /\ pc' = "phase2" /\ hb_marks' = hb_marks
    BY <1>5 DEF Phase2Block, SameHeap
  <2>2. Covered = hb_marks /\ hb_marks \subseteq Covered'
    BY <1>5, TargetsEmpty DEF Phase2Block, Drained, Covered
  <2>3. b \notin pending => R \subseteq Covered'
    <3>1. R \in SUBSET Obj
      BY DEF TypeOK, ObjectsIn
    <3>2. Targets(<<R>>) = R
      <4> HIDE DEF R
      <4> QED BY <3>1, TargetsOne
    <3>3. b \notin pending => GC_mark_stack' = <<R>>
      BY <1>5 DEF Phase2Block
    <3> HIDE DEF R
    <3> QED
      BY <3>2, <3>3 DEF Covered
  <2>4. ASSUME NEW o \in VisitedUnhinted' PROVE contents[o] \subseteq Covered'
    <3>1. o \in Unhinted
      BY <2>1, <2>4, SameHeapEffect DEF VisitedUnhinted
    <3>2. CASE BlockOf[o] = b
      BY <2>3, <3>1, <3>2 DEF ObjectsIn, Unhinted
    <3>3. CASE BlockOf[o] # b
      <4>1. o \in VisitedUnhinted
        BY <1>5, <2>4, <3>1, <3>3 DEF Phase2Block, VisitedUnhinted
      <4> QED
        BY <2>1, <2>2, <4>1 DEF SeedInv, PointedToBy
    <3> QED
      BY <3>2, <3>3
  <2>5. PointedToBy(VisitedUnhinted)' \subseteq Covered'
    BY <2>1, <2>4 DEF PointedToBy, SameHeap
  <2> QED
    BY <2>1, <2>5, SameHeapEffect DEF SeedInv, SeedInvariants
<1>6. CASE Phase2Pop
  BY <1>4, <1>6, PopEffect DEF Phase2Pop, SameHeap
<1>7. ASSUME NEW o \in Obj, Phase2Mark(o) PROVE SeedInv'
  <2>1. o \in hb_marks'
    BY <1>7 DEF Phase2Mark, MARK_NO_PUSH, SetMarkBit, SeedInv, Unhinted
  <2>2. hb_marks \subseteq hb_marks'
    BY <1>7 DEF Phase2Mark, MARK_NO_PUSH, SetMarkBit
  <2> QED
    BY <1>4, <1>7, <2>1, <2>2 DEF Phase2Mark, SameHeap, Covered
<1>8. CASE PushRootsWithCheck
  <2>1. /\ SameHeap /\ pc' \in {"phase3", "abort"} /\ hb_marks' = hb_marks
        /\ pc' # "abort" => Targets(roots) \subseteq Covered'
    BY <1>8, RootsEffect DEF PushRootsWithCheck, SameHeap, Drained
  <2>2. Covered = hb_marks /\ VisitedUnhinted = Unhinted
    BY <1>8, TargetsEmpty DEF PushRootsWithCheck, Drained, Covered, VisitedUnhinted, Unhinted
  <2>3. Unhinted \cup PointedToBy(Unhinted) \subseteq hb_marks
    BY <1>8, <2>2 DEF PushRootsWithCheck, SeedInv
  <2> QED
    BY <2>1, <2>3, SameHeapEffect DEF SeedInv, SeedInvariants
<1>9. ASSUME NEW b \in Block, Phase3Block(b) PROVE SeedInv'
  BY <1>9, SeedKept DEF Phase3Block, SameHeap, Covered
<1>10. CASE Phase3Pushed \/ Phase3Drained \/ Phase3Overflowed \/ Phase3Done
  BY <1>10, SeedKept DEF Phase3Pushed, Phase3Drained, Phase3Overflowed, Phase3Done, SameHeap, Covered
<1>11. CASE Phase3Grow
  BY <1>11, SeedKept, AllocEffect DEF Phase3Grow, SameHeap
<1>12. CASE MarkFromPop
  BY <1>12, SeedKept, PopEffect DEF MarkFromPop, SameHeap
<1>13. ASSUME NEW o \in Obj, MarkFromScan(o) PROVE SeedInv'
  <2>1. SameHeap /\ pc' = pc /\ pc \in {"dfs3", "grow3", "mark_from"}
    BY <1>13 DEF MarkFromScan, SameHeap
  <2>2. /\ hb_marks \subseteq hb_marks'
        /\ \/ Covered \subseteq Covered' /\ GC_mark_state' = GC_mark_state
           \/ GC_mark_state' = "MS_INVALID"
    BY <1>13, ScanEffect DEF MarkFromScan
  <2> QED
    BY <2>1, <2>2, SeedKept
<1>14. ASSUME NEW o \in Obj, PushMarked(o) PROVE SeedInv'
  <2>1. SameHeap /\ pc' = pc /\ pc \in {"push3", "push_some"} /\ hb_marks' = hb_marks
    BY <1>14 DEF PushMarked, SameHeap
  <2>2. \/ Covered \subseteq Covered' /\ GC_mark_state' = GC_mark_state
        \/ GC_mark_state' = "MS_INVALID"
    BY <1>14, PushEffect DEF PushMarked, Covered
  <2> QED
    BY <2>1, <2>2, SeedKept
<1>15. CASE MarkDuringUncollectable \/ MarkToEmpty
  <2>1. EnterMarkFrom /\ pc = "mark_some"
    BY <1>15 DEF MarkDuringUncollectable, MarkToEmpty
  <2> QED
    BY <2>1, SeedKept, PopEffect DEF EnterMarkFrom, SameHeap
<1>16. CASE MarkFromReturn \/ PushedBlock \/ BeginUncollectable \/ RescanAgain
  BY <1>16, SeedKept
  DEF MarkFromReturn, PushedBlock, BeginUncollectable, RescanAgain, Rescanning, SameHeap, Covered
<1>17. ASSUME NEW b \in Block, PushUncollectable(b) PROVE SeedInv'
  BY <1>17, SeedKept DEF PushUncollectable, PushBlock, SameHeap, Covered
<1>18. CASE RescanBlock
  BY <1>18, SeedKept DEF RescanBlock, Rescanning, PushBlock, SameHeap, Covered
<1>19. CASE UncollectableDone \/ RescanDone
  <2>1. PushRootsAfterWalk /\ pc = "mark_some" /\ cur = {}
    BY <1>19 DEF UncollectableDone, RescanDone, Rescanning, ControlInv
  <2> QED
    BY <2>1, SeedKept, RootsEffect DEF PushRootsAfterWalk, SameHeap
<1>20. CASE BeginRescan \/ MarkDone
  BY <1>20, SeedKept DEF BeginRescan, MarkDone, Rescanning, SameHeap
<1>21. CASE FinishCollection
  BY <1>21 DEF FinishCollection, SeedInv, SeedInvariants
<1>22. CASE UNCHANGED vars
  <2>1. SameHeap /\ VisitedUnhinted' = VisitedUnhinted /\ Covered' = Covered
    BY <1>22 DEF vars, VisitedUnhinted, Unhinted, Covered, SameHeap
  <2>2. PointedToBy(VisitedUnhinted)' = PointedToBy(VisitedUnhinted)
    BY <1>22, <2>1 DEF vars, PointedToBy
  <2> QED
    BY <1>22, <2>1, <2>2, SameHeapEffect DEF vars, SeedInv, SeedInvariants
<1> QED
  BY <1>1, <1>2, <1>3, <1>5, <1>6, <1>7, <1>8, <1>9, <1>10, <1>11, <1>12, <1>13, <1>14,
     <1>15, <1>16, <1>17, <1>18, <1>19, <1>20, <1>21, <1>22
  DEF Next, Collector, Phase1, Phase2, Phase3, MarkFrom, GC_mark_some

\* Steps that mark and push without an overflow: no object becomes
\* unfinished.
LEMMA EdgeKept ==
  ASSUME EdgeInv, SameHeap,
         UNCHANGED <<GC_mark_state, GC_mark_stack_too_small, scan_ptr, todo>>,
         GC_objects_are_marked' \in {GC_objects_are_marked, TRUE},
         Covered \subseteq Covered',
         \A o \in hb_marks' \cap Scanned : Finished(o)' \/ (o \in hb_marks /\ ~Finished(o)),
         \/ pc \in Phase3Locations /\ pc' \in Phase3Locations
         \/ pc \in LoopLocations /\ pc' \in LoopLocations
  PROVE  EdgeInv'
<1>1. Targets(roots)' = Targets(roots)
  BY SameHeapEffect
<1>2. CASE pc \in Phase3Locations
  BY <1>2 DEF EdgeInv, Phase3Locations, LoopLocations
<1>3. CASE pc \in LoopLocations
  BY <1>1, <1>3 DEF EdgeInv, Phase3Locations, LoopLocations
<1> QED
  BY <1>2, <1>3

\* A step that overflows the stack leaves nothing to be shown.
LEMMA EdgeOverflow ==
  ASSUME pc' = pc, GC_mark_stack_too_small' = TRUE, GC_mark_state' = "MS_INVALID",
         pc \in Phase3Locations \/ (pc \in LoopLocations /\ GC_objects_are_marked')
  PROVE  EdgeInv'
BY DEF EdgeInv, Phase3Locations, LoopLocations

\* The block just pushed: its marked objects are about to be pushed, or
\* there is nothing to push.
LEMMA SkipEffect ==
  ASSUME TypeOK, CountInv, SeedInv, pc \in Phase3Locations \cup LoopLocations,
         NEW b \in Block, GC_push_marked_skips(b),
         NEW o \in hb_marks \cap Scanned, BlockOf[o] = b
  PROVE  /\ gc_kind = "hinted" /\ b \notin pending /\ Kind[b] # "UNCOLLECTABLE"
         /\ contents[o] \subseteq hb_marks
<1>1. GC_block_empty(b)
  BY DEF GC_push_marked_skips, Scanned, Scannable
<1>2. gc_kind = "hinted" /\ b \notin pending /\ Kind[b] # "UNCOLLECTABLE"
  BY <1>1 DEF CountInv
<1>3. o \in Unhinted
  BY <1>2 DEF Unhinted, Scanned
<1> QED
  BY <1>2, <1>3 DEF SeedInv, SeedInvariants, Phase3Locations, LoopLocations, PointedToBy

\* The end of a walk: nothing is unfinished when the roots are pushed.
LEMMA EdgeRoots ==
  ASSUME TypeOK, ControlInv, PushRootsAfterWalk, pc = "mark_some",
         \A o \in hb_marks \cap Scanned : Finished(o)
  PROVE  EdgeInv'
<1> USE DEF heapVars, markVars, walkVars
<1>1. CASE RootsFit
  <2>1. SameHeap /\ hb_marks' = hb_marks /\ pushing' = pushing /\ pc' = "mark_some"
        /\ GC_mark_state' = "MS_ROOTS_PUSHED" /\ cur = {} /\ cur' = {} /\ GC_push_roots
    BY <1>1 DEF PushRootsAfterWalk, SameHeap, ControlInv
  <2>2. Covered \subseteq Covered' /\ Targets(roots) \subseteq Covered'
    BY <1>1, <2>1, RootsEffect
  <2>3. \A o \in hb_marks' \cap Scanned : Finished(o)'
    BY <2>1, <2>2 DEF Finished, SameHeap
  <2> QED
    BY <2>1, <2>2, <2>3, SameHeapEffect DEF EdgeInv, Phase3Locations, LoopLocations
<1>2. CASE ~RootsFit
  BY <1>2 DEF PushRootsAfterWalk, EdgeInv, Phase3Locations, LoopLocations
<1> QED
  BY <1>1, <1>2

LEMMA EdgeStep ==
  ASSUME TypeOK, ControlInv, CountInv, SeedInv, EdgeInv, [Next]_vars
  PROVE  EdgeInv'
<1> USE DEF Phase3Locations, LoopLocations, heapVars, markVars, stackVars, stateVars, walkVars
<1>1. CASE StartHinted
  BY <1>1 DEF StartHinted, EdgeInv
<1>2. CASE StartFull
  <2>1. hb_marks' \subseteq UncollectableObjs /\ scan_ptr' = 0 /\ GC_mark_state' = "MS_INVALID"
        /\ pc' = "mark_some"
    BY <1>2 DEF StartFull, StartCollection, GC_clear_marks
  <2>2. \A o \in hb_marks' \cap Scanned : Kind[BlockOf[o]] = "UNCOLLECTABLE"
    BY <2>1 DEF UncollectableObjs, IS_UNCOLLECTABLE, Scanned, Scannable, PointerFree
  <2> QED
    BY <2>1, <2>2 DEF EdgeInv
<1>3. CASE Phase1Done \/ Phase2Pop \/ \E b \in Block : Phase1Block(b) \/ Phase2Block(b)
  BY <1>3 DEF Phase1Done, Phase2Pop, Phase1Block, Phase2Block, EdgeInv
<1>4. CASE \E o \in Obj : Phase2Mark(o)
  BY <1>4 DEF Phase2Mark, EdgeInv
<1>5. CASE PushRootsWithCheck \/ Phase3Grow
  <2>1. todo' = Block /\ pc' \in {"phase3", "abort"}
    BY <1>5 DEF PushRootsWithCheck, Phase3Grow
  <2>2. \A o \in Scanned : BlockOf[o] \in Block
    BY HeapAssumption DEF Scanned
  <2> QED
    BY <2>1, <2>2 DEF EdgeInv
<1>6. ASSUME NEW b \in Block, Phase3Block(b) PROVE EdgeInv'
  <2>1. /\ SameHeap /\ pc = "phase3" /\ pc' \in {"phase3", "push3"} /\ todo' = todo \ {b}
        /\ hb_marks' = hb_marks /\ Covered' = Covered /\ pushing = {}
        /\ GC_mark_stack_too_small' = GC_mark_stack_too_small
    BY <1>6 DEF Phase3Block, SameHeap, Covered, ControlInv
  <2>2. ASSUME NEW o \in hb_marks \cap Scanned, BlockOf[o] = b PROVE Finished(o)'
    <3>1. CASE b \notin pending
      <4>1. o \in Unhinted /\ gc_kind = "hinted"
        BY <2>1, <2>2, <3>1 DEF Unhinted, Scanned, ControlInv
      <4>2. contents[o] \subseteq hb_marks
        BY <2>1, <4>1 DEF SeedInv, SeedInvariants, PointedToBy
      <4> QED
        BY <2>1, <4>2 DEF Finished, Covered, SameHeap
    <3>2. CASE b \in pending /\ ~GC_push_marked_skips(b)
      <4>1. o \in pushing'
        BY <1>6, <2>2, <3>2 DEF Phase3Block, ObjectsIn, Scanned
      <4> QED
        BY <4>1 DEF Finished
    <3>3. CASE b \in pending /\ GC_push_marked_skips(b)
      BY <2>1, <2>2, <3>3, SkipEffect
    <3> QED
      BY <3>1, <3>2, <3>3
  <2>3. ASSUME NEW o \in hb_marks \cap Scanned, Finished(o) PROVE Finished(o)'
    BY <2>1, <2>3 DEF Finished, SameHeap
  <2> QED
    BY <2>1, <2>2, <2>3 DEF EdgeInv
<1>7. CASE Phase3Pushed \/ Phase3Drained \/ Phase3Overflowed \/ MarkFromReturn \/ PushedBlock
  <2>1. SameHeap /\ Covered' = Covered /\ \A o : Finished(o)' = Finished(o)
    BY <1>7
    DEF Phase3Pushed, Phase3Drained, Phase3Overflowed, MarkFromReturn, PushedBlock, SameHeap, Covered, Finished
  <2> QED
    BY <1>7, <2>1, EdgeKept
    DEF Phase3Pushed, Phase3Drained, Phase3Overflowed, MarkFromReturn, PushedBlock
<1>8. CASE Phase3Done
  <2>1. /\ SameHeap /\ Covered' = Covered /\ hb_marks' = hb_marks /\ pc = "phase3" /\ pc' = "mark_some"
        /\ scan_ptr' = 0 /\ GC_mark_state' = GC_mark_state /\ gc_kind = "hinted"
        /\ GC_mark_state' \in {"MS_ROOTS_PUSHED", "MS_INVALID"}
    BY <1>8 DEF Phase3Done, SameHeap, Covered, ControlInv
  <2>2. \A o \in hb_marks' \cap Scanned : Finished(o)'
    BY <1>8, <2>1 DEF Phase3Done, EdgeInv, Finished, SameHeap
  <2>3. GC_mark_state' = "MS_ROOTS_PUSHED" => Targets(roots)' \subseteq Covered'
    BY <2>1, SameHeapEffect DEF SeedInv, SeedInvariants
  <2> QED
    BY <2>1, <2>2, <2>3 DEF EdgeInv
<1>9. ASSUME PopRange, UNCHANGED <<hb_marks, pushing, GC_mark_state, scan_ptr, todo>>, SameHeap,
             GC_objects_are_marked',
             \/ pc \in Phase3Locations /\ pc' \in Phase3Locations
             \/ pc \in LoopLocations /\ pc' \in LoopLocations
      PROVE  EdgeInv'
  <2>1. Covered' = Covered /\ GC_mark_stack_too_small' = GC_mark_stack_too_small
    BY <1>9, PopEffect DEF PopRange
  <2>2. \A o : Finished(o)' = Finished(o)
    BY <1>9, <2>1 DEF Finished, SameHeap
  <2> QED
    BY <1>9, <2>1, <2>2, EdgeKept DEF TypeOK
<1>10. CASE MarkFromPop \/ MarkDuringUncollectable \/ MarkToEmpty
  BY <1>9, <1>10 DEF MarkFromPop, MarkDuringUncollectable, MarkToEmpty, EnterMarkFrom, SameHeap
<1>11. ASSUME NEW o \in Obj, MarkFromScan(o) PROVE EdgeInv'
  <2>1. /\ SameHeap /\ pc' = pc /\ pc \in {"dfs3", "grow3", "mark_from"} /\ o \in cur
        /\ cur' = cur \ {o} /\ PUSH_CONTENTS(o) /\ pushing' = pushing
        /\ UNCHANGED <<contents, scan_ptr, todo, GC_objects_are_marked>>
    BY <1>11 DEF MarkFromScan, SameHeap
  <2>2. CASE GC_mark_stack_too_small' = TRUE /\ GC_mark_state' = "MS_INVALID"
    BY <2>1, <2>2, EdgeOverflow DEF ControlInv
  <2>3. CASE /\ Covered \subseteq Covered'
             /\ o \notin hb_marks => Pushed(o) \subseteq Covered'
             /\ UNCHANGED <<GC_mark_stack_too_small, GC_mark_state>>
    <3>1. hb_marks' = hb_marks \cup {o}
      BY <2>1, ScanEffect
    <3>2. ASSUME NEW p \in hb_marks' \cap Scanned PROVE Finished(p)' \/ (p \in hb_marks /\ ~Finished(p))
      <4>1. CASE p \in hb_marks
        BY <2>1, <2>3, <4>1 DEF Finished, SameHeap
      <4>2. CASE p \notin hb_marks
        BY <2>1, <2>3, <3>1, <3>2, <4>2 DEF Finished, SameHeap, Pushed, Scanned
      <4> QED
        BY <4>1, <4>2
    <3> QED
      BY <2>1, <2>3, <3>2, EdgeKept
  <2> QED
    BY <2>1, <2>2, <2>3, ScanEffect
<1>12. ASSUME NEW o \in Obj, PushMarked(o) PROVE EdgeInv'
  <2>1. /\ SameHeap /\ pc' = pc /\ pc \in {"push3", "push_some"} /\ hb_marks' = hb_marks
        /\ cur' = cur /\ PUSH_OBJ(o) /\ o \in pushing /\ pushing' = pushing \ {o}
        /\ UNCHANGED <<scan_ptr, todo, GC_objects_are_marked>>
    BY <1>12 DEF PushMarked, SameHeap
  <2>2. CASE GC_mark_stack_too_small' = TRUE /\ GC_mark_state' = "MS_INVALID"
    BY <2>1, <2>2, EdgeOverflow DEF ControlInv
  <2>3. CASE /\ Targets(GC_mark_stack') = Targets(GC_mark_stack) \cup Pushed(o)
             /\ UNCHANGED <<GC_mark_stack_too_small, GC_mark_state>>
    <3>1. Covered \subseteq Covered' /\ Pushed(o) \subseteq Covered'
      BY <2>1, <2>3 DEF Covered
    <3>2. ASSUME NEW p \in hb_marks' \cap Scanned PROVE Finished(p)' \/ (p \in hb_marks /\ ~Finished(p))
      <4>1. CASE p = o
        BY <2>1, <3>1, <3>2, <4>1 DEF Finished, SameHeap, Pushed, Scanned
      <4>2. CASE p # o
        BY <2>1, <3>1, <3>2, <4>2 DEF Finished, SameHeap
      <4> QED
        BY <4>1, <4>2
    <3> QED
      BY <2>1, <2>3, <3>1, <3>2, EdgeKept
  <2> QED
    BY <2>1, <2>2, <2>3, PushEffect
<1>13. CASE BeginUncollectable
  <2>1. GC_mark_state = "MS_INVALID" /\ scan_ptr = 0
    BY <1>13 DEF BeginUncollectable, EdgeInv
  <2>2. \A o \in Scanned : BlockOf[o] > 0
    BY HeapAssumption DEF Scanned, Block
  <2>3. \A o : Finished(o)' = Finished(o)
    BY <1>13 DEF BeginUncollectable, Finished, Covered
  <2> QED
    BY <1>13, <2>1, <2>2, <2>3 DEF BeginUncollectable, EdgeInv
<1>14. ASSUME NEW b \in Block, PushBlock(b), pc = "mark_some", UNCHANGED stackVars,
              NEW o \in hb_marks \cap Scanned, BlockOf[o] = b
       PROVE  Finished(o)' \/ (Kind[b] # "UNCOLLECTABLE" /\ contents'[o] \subseteq Covered')
  <2>1. SameHeap /\ Covered' = Covered
    BY <1>14 DEF PushBlock, SameHeap, Covered
  <2>2. CASE GC_push_marked_skips(b)
    BY <1>14, <2>1, <2>2, SkipEffect DEF SameHeap, Covered
  <2>3. CASE ~GC_push_marked_skips(b)
    <3>1. o \in hb_marks \cap ObjectsIn(b)
      BY <1>14 DEF ObjectsIn, Scanned
    <3>2. pushing' = hb_marks \cap ObjectsIn(b)
      BY <1>14, <2>3 DEF PushBlock
    <3> QED
      BY <3>1, <3>2 DEF Finished
  <2> QED
    BY <2>2, <2>3
<1>15. ASSUME NEW b \in Block, PushBlock(b), pc = "mark_some", UNCHANGED stackVars,
              NEW o \in hb_marks \cap Scanned, Finished(o)
       PROVE  Finished(o)'
  <2>1. pushing = {}
    BY <1>15 DEF ControlInv
  <2> QED
    BY <1>15, <2>1 DEF PushBlock, Finished, Covered
<1>16. ASSUME NEW b \in Block, PushUncollectable(b) PROVE EdgeInv'
  <2>1. /\ PushBlock(b) /\ pc = "mark_some" /\ pc' = "push_some" /\ scan_ptr' = b
        /\ hb_marks' = hb_marks /\ GC_mark_state' = "MS_PUSH_UNCOLLECTABLE" /\ UNCHANGED stackVars
        /\ GC_mark_state = "MS_PUSH_UNCOLLECTABLE"
    BY <1>16 DEF PushUncollectable, PushBlock
  <2>2. ASSUME NEW o \in hb_marks \cap Scanned
        PROVE  Finished(o)' \/ (Kind[BlockOf[o]] = "UNCOLLECTABLE" /\ BlockOf[o] > b)
    <3>1. BlockOf[o] \in Block /\ scan_ptr \in Nat /\ b \in Nat /\ BlockOf[o] \in Nat
      BY HeapAssumption DEF Scanned, TypeOK, Block
    <3>2. CASE Finished(o)
      BY <2>1, <1>15, <3>2
    <3>3. CASE Kind[BlockOf[o]] = "UNCOLLECTABLE" /\ BlockOf[o] > scan_ptr
      <4>1. BlockOf[o] \in UncollectableAhead
        BY <3>1, <3>3 DEF UncollectableAhead
      <4>2. b <= BlockOf[o]
        BY <1>16, <4>1 DEF PushUncollectable
      <4>3. BlockOf[o] = b => Finished(o)'
        BY <1>14, <2>1, <3>3 DEF Finished
      <4> QED
        BY <3>1, <3>3, <4>2, <4>3
    <3> QED
      BY <2>1, <3>2, <3>3 DEF EdgeInv
  <2> QED
    BY <2>1, <2>2 DEF EdgeInv
<1>17. CASE RescanBlock
  <2>1. /\ PushBlock(scan_ptr + 1) /\ pc = "mark_some" /\ pc' = "push_some" /\ scan_ptr' = scan_ptr + 1
        /\ hb_marks' = hb_marks /\ GC_mark_state' = GC_mark_state /\ UNCHANGED stackVars
        /\ GC_mark_state \in {"MS_PARTIALLY_INVALID", "MS_INVALID"} /\ GC_objects_are_marked'
        /\ scan_ptr + 1 \in Block /\ scan_ptr \in Nat
    BY <1>17, HeapAssumption DEF RescanBlock, PushBlock, Rescanning, TypeOK, Block
  <2>2. ASSUME NEW o \in hb_marks \cap Scanned, GC_mark_state = "MS_PARTIALLY_INVALID"
        PROVE  Finished(o)' \/ BlockOf[o] > scan_ptr + 1
    <3>1. BlockOf[o] \in Nat
      BY HeapAssumption DEF Scanned, Block
    <3>2. CASE Finished(o)
      BY <2>1, <1>15, <3>2
    <3>3. CASE BlockOf[o] > scan_ptr
      <4>1. BlockOf[o] = scan_ptr + 1 => Finished(o)'
        BY <1>14, <2>1 DEF Finished
      <4> QED
        BY <2>1, <3>1, <3>3, <4>1
    <3> QED
      BY <2>1, <2>2, <3>2, <3>3 DEF EdgeInv
  <2> QED
    BY <2>1, <2>2 DEF EdgeInv
<1>18. CASE RescanAgain
  BY <1>18 DEF RescanAgain, Rescanning, EdgeInv
<1>19. CASE BeginRescan
  <2>1. \A o \in Scanned : BlockOf[o] > 0
    BY HeapAssumption DEF Scanned, Block
  <2> QED
    BY <1>19, <2>1 DEF BeginRescan, Rescanning, EdgeInv
<1>20. CASE UncollectableDone
  <2>1. \A o \in hb_marks \cap Scanned : Kind[BlockOf[o]] = "UNCOLLECTABLE" => ~(BlockOf[o] > scan_ptr)
    BY <1>20, HeapAssumption DEF UncollectableDone, UncollectableAhead, Scanned
  <2>2. \A o \in hb_marks \cap Scanned : Finished(o)
    BY <1>20, <2>1 DEF UncollectableDone, EdgeInv
  <2> QED
    BY <1>20, <2>2, EdgeRoots DEF UncollectableDone
<1>21. CASE RescanDone
  <2>1. \A o \in Scanned : ~(BlockOf[o] > NBlocks)
    BY HeapAssumption DEF Scanned, Block
  <2>2. \A o \in hb_marks \cap Scanned : Finished(o)
    BY <1>21, <2>1 DEF RescanDone, Rescanning, EdgeInv
  <2> QED
    BY <1>21, <2>2, EdgeRoots DEF RescanDone, Rescanning
<1>22. CASE MarkDone
  <2>1. /\ SameHeap /\ hb_marks' = hb_marks /\ pc = "mark_some" /\ pc' = "marked" /\ pushing = {}
        /\ GC_mark_state = "MS_ROOTS_PUSHED" /\ Drained
    BY <1>22 DEF MarkDone, SameHeap, ControlInv
  <2>2. Covered = hb_marks
    BY <2>1, TargetsEmpty DEF Drained, Covered
  <2>3. Targets(roots) \subseteq hb_marks /\ \A o \in hb_marks \cap Scanned : contents[o] \subseteq hb_marks
    BY <2>1, <2>2 DEF EdgeInv, Finished
  <2>4. Seeds \subseteq hb_marks
    BY <2>1, <2>3 DEF Seeds, SeedInv, SeedInvariants
  <2>5. Closed(hb_marks)
    BY <2>3, <2>4 DEF Closed, PointedToBy
  <2> QED
    BY <2>1, <2>5, SameHeapEffect DEF EdgeInv
<1>23. CASE FinishCollection
  BY <1>23 DEF FinishCollection, EdgeInv
<1>24. CASE UNCHANGED vars
  <2>1. SameHeap /\ Covered' = Covered /\ \A o : Finished(o)' = Finished(o)
    BY <1>24 DEF vars, SameHeap, Covered, Finished
  <2>2. Closed(hb_marks)' <=> Closed(hb_marks)
    BY <1>24, <2>1 DEF vars, Closed, Seeds, PointedToBy, Unhinted, Targets
  <2> QED
    BY <1>24, <2>1, <2>2, SameHeapEffect DEF vars, EdgeInv
<1> QED
  BY <1>1, <1>2, <1>3, <1>4, <1>5, <1>6, <1>7, <1>8, <1>10, <1>11, <1>12, <1>13,
     <1>16, <1>17, <1>18, <1>19, <1>20, <1>21, <1>22, <1>23, <1>24
  DEF Next, Collector, Phase1, Phase2, Phase3, MarkFrom, GC_mark_some

\* What an object that is marked points to is part of the frontier.
LEMMA FrontierPushed ==
  ASSUME TypeOK, NEW o \in hb_marks
  PROVE  Pushed(o) \subseteq Frontier
BY DEF Pushed, Frontier, PointedToBy, Scanned, TypeOK

\* A closed set that holds the marks holds the frontier.
LEMMA FrontierClosed ==
  ASSUME NEW S \in SUBSET Obj, Closed(S), hb_marks \subseteq S
  PROVE  Frontier \subseteq S
BY DEF Closed, Frontier, PointedToBy

\* Steps of a collection that mark objects of the frontier and put parts of
\* the frontier on the stack.
LEMMA PreciseKept ==
  ASSUME TypeOK, PreciseInv, SameHeap, pc # "idle",
         hb_marks \subseteq hb_marks', hb_marks' \subseteq hb_marks \cup Frontier,
         cur' \cup Targets(GC_mark_stack') \subseteq Frontier'
  PROVE  PreciseInv'
<1>1. ASSUME NEW S \in SUBSET Obj, Closed(S)' PROVE hb_marks' \subseteq S
  <2>1. Closed(S)
    BY <1>1, SameHeapEffect
  <2> QED
    BY <2>1, FrontierClosed DEF PreciseInv
<1>2. Targets(GC_mark_stack') = Targets(GC_mark_stack)'
  BY DEF Targets
<1> QED
  BY <1>1, <1>2 DEF PreciseInv

LEMMA FrontierGrows ==
  ASSUME SameHeap, hb_marks \subseteq hb_marks'
  PROVE  Frontier \subseteq Frontier'
BY SameHeapEffect DEF Frontier, PointedToBy, SameHeap

LEMMA PreciseStep ==
  ASSUME TypeOK, TypeOK', ControlInv, SeedInv, PreciseInv, [Next]_vars
  PROVE  PreciseInv'
<1> USE DEF heapVars, markVars, stackVars, stateVars, walkVars
<1>1. CASE StartHinted \/ StartFull
  <2>1. cur' = {} /\ GC_mark_stack' = <<>> /\ hb_marks' \subseteq UncollectableObjs
    BY <1>1 DEF StartHinted, StartFull, StartCollection, GC_clear_marks, ControlInv
  <2>2. Targets(GC_mark_stack)' = {}
    BY <2>1, TargetsEmpty DEF Targets
  <2>3. \A S \in SUBSET Obj : Closed(S)' => UncollectableObjs \subseteq S
    BY DEF Closed, Seeds
  <2> QED
    BY <2>1, <2>2, <2>3 DEF PreciseInv
<1>2. ASSUME SameHeap, pc # "idle", hb_marks' = hb_marks,
             cur' \cup Targets(GC_mark_stack') \subseteq Frontier
      PROVE  PreciseInv'
  BY <1>2, PreciseKept, FrontierGrows
<1>3. ASSUME SameHeap, pc # "idle", hb_marks' = hb_marks, PopRange PROVE PreciseInv'
  BY <1>2, <1>3, PopEffect DEF PreciseInv
<1>4. ASSUME SameHeap, pc # "idle", hb_marks' = hb_marks, cur' = cur,
             Targets(GC_mark_stack') \subseteq Targets(GC_mark_stack)
      PROVE  PreciseInv'
  BY <1>2, <1>4 DEF PreciseInv
<1>5. ASSUME SameHeap, pc # "idle", hb_marks' = hb_marks, cur = {}, cur' = {}, GC_push_roots
      PROVE  PreciseInv'
  <2>1. Targets(roots) \subseteq Frontier
    BY DEF Frontier, Seeds
  <2> QED
    BY <1>2, <1>5, <2>1, RootsEffect DEF PreciseInv
<1>6. ASSUME NEW b \in Block, Phase1Block(b) PROVE PreciseInv'
  <2>1. SameHeap /\ pc = "phase1" /\ gc_kind = "hinted" /\ UNCHANGED <<cur, GC_mark_stack>>
    BY <1>6 DEF Phase1Block, SameHeap, ControlInv
  <2>2. hb_marks \subseteq hb_marks' /\ hb_marks' \subseteq hb_marks \cup Unhinted
    BY <1>6 DEF Phase1Block, GC_set_hdr_marks, ObjectsIn, Unhinted
  <2>3. Unhinted \subseteq Frontier
    BY <2>1 DEF Frontier, Seeds
  <2> QED
    BY <2>1, <2>2, <2>3, PreciseKept, FrontierGrows DEF PreciseInv
<1>7. CASE Phase1Done \/ \E b \in Block : Phase3Block(b)
  BY <1>4, <1>7 DEF Phase1Done, Phase3Block, SameHeap
<1>8. ASSUME NEW b \in Block, Phase2Block(b) PROVE PreciseInv'
  <2> DEFINE R == UNION {contents[o] : o \in ObjectsIn(b)}
  <2>1. SameHeap /\ pc = "phase2" /\ gc_kind = "hinted" /\ hb_marks' = hb_marks /\ cur' = {}
    BY <1>8 DEF Phase2Block, SameHeap, ControlInv, Drained
  <2>2. R \in SUBSET Obj
    BY DEF TypeOK, ObjectsIn
  <2>3. b \notin pending => R \subseteq Frontier
    BY <2>1 DEF ObjectsIn, Frontier, Seeds, Unhinted, PointedToBy
  <2>4. GC_mark_stack' = <<>> \/ (b \notin pending /\ GC_mark_stack' = <<R>>)
    BY <1>8 DEF Phase2Block
  <2>5. Targets(GC_mark_stack') \subseteq Frontier
    <3> HIDE DEF R
    <3> QED
      BY <2>2, <2>3, <2>4, TargetsEmpty, TargetsOne
  <2> QED
    BY <1>2, <2>1, <2>5
<1>9. CASE Phase2Pop
  BY <1>3, <1>9 DEF Phase2Pop, SameHeap
<1>10. ASSUME NEW o \in Obj, Phase2Mark(o) PROVE PreciseInv'
  <2>1. SameHeap /\ pc = "phase2" /\ o \in cur /\ cur' \subseteq cur /\ GC_mark_stack' = GC_mark_stack
    BY <1>10 DEF Phase2Mark, SameHeap
  <2>2. hb_marks \subseteq hb_marks' /\ hb_marks' \subseteq hb_marks \cup {o}
    BY <1>10 DEF Phase2Mark, MARK_NO_PUSH, SetMarkBit
  <2>3. o \in Frontier
    BY <2>1 DEF PreciseInv
  <2> QED
    BY <2>1, <2>2, <2>3, PreciseKept, FrontierGrows DEF PreciseInv
<1>11. CASE PushRootsWithCheck
  BY <1>5, <1>11 DEF PushRootsWithCheck, Drained, SameHeap
<1>12. CASE Phase3Pushed \/ Phase3Drained \/ Phase3Overflowed \/ Phase3Done
  BY <1>4, <1>12 DEF Phase3Pushed, Phase3Drained, Phase3Overflowed, Phase3Done, SameHeap
<1>13. CASE Phase3Grow
  <2>1. GC_mark_stack' = GC_mark_stack
    BY <1>13 DEF Phase3Grow, Drained, alloc_mark_stack
  <2> QED
    BY <1>4, <1>13, <2>1 DEF Phase3Grow, SameHeap
<1>14. CASE MarkFromPop
  BY <1>3, <1>14 DEF MarkFromPop, SameHeap
<1>15. ASSUME NEW o \in Obj, MarkFromScan(o) PROVE PreciseInv'
  <2>1. SameHeap /\ pc # "idle" /\ o \in cur /\ cur' = cur \ {o} /\ PUSH_CONTENTS(o)
    BY <1>15 DEF MarkFromScan, SameHeap
  <2>2. /\ hb_marks' = hb_marks \cup {o}
        /\ cur' \cup Targets(GC_mark_stack') \subseteq cur \cup Targets(GC_mark_stack) \cup Pushed(o)
    BY <2>1, ScanEffect DEF SameHeap
  <2>3. o \in Frontier /\ Frontier \subseteq Frontier'
    BY <2>1, <2>2, FrontierGrows DEF PreciseInv
  <2>4. Pushed(o) \subseteq Frontier'
    BY <2>1, <2>2 DEF Pushed, Frontier, PointedToBy, Scanned, TypeOK, SameHeap
  <2> QED
    BY <2>1, <2>2, <2>3, <2>4, PreciseKept DEF PreciseInv
<1>16. ASSUME NEW o \in Obj, PushMarked(o) PROVE PreciseInv'
  <2>1. /\ SameHeap /\ pc # "idle" /\ hb_marks' = hb_marks /\ cur' = cur /\ PUSH_OBJ(o)
        /\ o \in hb_marks
    BY <1>16 DEF PushMarked, SameHeap, ControlInv
  <2>2. Targets(GC_mark_stack') \subseteq Targets(GC_mark_stack) \cup Pushed(o)
    BY <2>1, PushEffect
  <2> QED
    BY <1>2, <2>1, <2>2, FrontierPushed DEF PreciseInv
<1>17. CASE MarkDuringUncollectable \/ MarkToEmpty
  BY <1>3, <1>17 DEF MarkDuringUncollectable, MarkToEmpty, EnterMarkFrom, SameHeap
<1>18. CASE MarkFromReturn \/ PushedBlock \/ BeginUncollectable \/ RescanAgain \/ RescanBlock
            \/ \E b \in Block : PushUncollectable(b)
  BY <1>4, <1>18
  DEF MarkFromReturn, PushedBlock, BeginUncollectable, RescanAgain, RescanBlock, Rescanning,
      PushUncollectable, PushBlock, SameHeap
<1>19. CASE UncollectableDone \/ RescanDone
  <2>1. PushRootsAfterWalk /\ pc = "mark_some" /\ cur = {}
    BY <1>19 DEF UncollectableDone, RescanDone, Rescanning, ControlInv
  <2> QED
    BY <1>5, <2>1 DEF PushRootsAfterWalk, SameHeap
<1>20. CASE BeginRescan \/ MarkDone
  <2>1. GC_mark_stack' = GC_mark_stack
    BY <1>20 DEF BeginRescan, MarkDone, Rescanning, Drained, alloc_mark_stack
  <2> QED
    BY <1>4, <1>20, <2>1 DEF BeginRescan, MarkDone, Rescanning, SameHeap
<1>21. CASE FinishCollection
  BY <1>21 DEF FinishCollection, PreciseInv
<1>22. CASE UNCHANGED vars
  <2>1. SameHeap
    BY <1>22 DEF vars, SameHeap
  <2>2. pc = "idle" => PreciseInv'
    BY <1>22 DEF vars, PreciseInv
  <2> QED
    BY <1>4, <1>22, <2>1, <2>2 DEF vars
<1> QED
  BY <1>1, <1>6, <1>7, <1>8, <1>9, <1>10, <1>11, <1>12, <1>13, <1>14, <1>15, <1>16, <1>17,
     <1>18, <1>19, <1>20, <1>21, <1>22
  DEF Next, Collector, Phase1, Phase2, Phase3, MarkFrom, GC_mark_some

(***************************************************************************)
(* The theorems.                                                           *)
(***************************************************************************)

\* The mark stack never leaves its allocation (PUSH_OBJ, GC_push_all), and
\* the registers of the marking routines agree with the location.
THEOREM StackInBounds == Spec => []MarkStackInBounds
<1>1. Init => ControlInv
  <2>1. ASSUME Init PROVE Len(GC_mark_stack) <= GC_mark_stack_size
    BY <2>1, StackAssumption, EmptySeq DEF Init
  <2> QED
    BY <2>1, StackAssumption DEF Init, ControlInv, MarkStackInBounds, Phase3Locations
<1>2. TypeOK /\ ControlInv /\ [Next]_vars => ControlInv'
  BY ControlStep
<1>3. ControlInv => MarkStackInBounds
  BY DEF ControlInv
<1> QED
  BY <1>1, <1>2, <1>3, TypeCorrect, PTL DEF Spec

\* Phase 1, phase 2, the hinted phase 3 with its overflow loop and the
\* GC_mark_some fallback together preserve MarkingInv, on a heap whose
\* uncollectable blocks are counted.
THEOREM MarkingInvHolds ==
  ASSUME SmallUncollectable
  PROVE  Spec => []MarkingInv
<1>1. Init => ControlInv /\ CountInv /\ SeedInv /\ EdgeInv /\ PreciseInv
  <2> SUFFICES ASSUME Init PROVE ControlInv /\ CountInv /\ SeedInv /\ EdgeInv /\ PreciseInv
    OBVIOUS
  <2>1. ControlInv
    <3>1. Len(GC_mark_stack) <= GC_mark_stack_size
      BY StackAssumption, EmptySeq DEF Init
    <3> QED
      BY <3>1, StackAssumption DEF Init, ControlInv, MarkStackInBounds, Phase3Locations
  <2>2. CountInv
    <3> SUFFICES ASSUME NEW o \in hb_marks \cap Scanned PROVE hb_n_marks[BlockOf[o]] # 0
      BY DEF CountInv, GC_block_empty
    <3>1. BlockOf[o] \in Block /\ IS_UNCOLLECTABLE(Kind[BlockOf[o]])
      BY HeapAssumption DEF Init, UncollectableObjs
    <3> QED
      BY <3>1, HeapAssumption DEF Init
  <2>3. SeedInv /\ EdgeInv /\ PreciseInv
    BY DEF Init, SeedInv, SeedInvariants, EdgeInv, Phase3Locations, LoopLocations, PreciseInv
  <2> QED
    BY <2>1, <2>2, <2>3
<1>2. /\ TypeOK /\ TypeOK' /\ ControlInv /\ CountInv /\ SeedInv /\ EdgeInv /\ PreciseInv /\ [Next]_vars
      => ControlInv' /\ CountInv' /\ SeedInv' /\ EdgeInv' /\ PreciseInv'
  BY ControlStep, CountStep, SeedStep, EdgeStep, PreciseStep
<1> QED
  BY <1>1, <1>2, TypeCorrect, PTL DEF Spec, MarkingInv

\* When a collection is over, whatever it had to mark is marked: no live
\* object is reclaimed by the sweep after a hinted collection.
THEOREM HintedComplete ==
  ASSUME SmallUncollectable
  PROVE  Spec => []HintedMarkComplete
<1>1. MarkingInv => HintedMarkComplete
  BY DEF MarkingInv, EdgeInv, HintedMarkComplete, Live, TypeOK
<1> QED
  BY <1>1, MarkingInvHolds, PTL

\* The same after a full collection, however many hinted ones came before.
THEOREM FullComplete ==
  ASSUME SmallUncollectable
  PROVE  Spec => []FullMarkComplete
<1>1. MarkingInv => FullMarkComplete
  BY DEF MarkingInv, EdgeInv, FullMarkComplete, Live, TypeOK
<1> QED
  BY <1>1, MarkingInvHolds, PTL

\* Nothing is retained that a collection need not retain.
THEOREM Precise ==
  ASSUME SmallUncollectable
  PROVE  Spec => []MarkPrecise
<1>1. MarkingInv => MarkPrecise
  BY DEF MarkingInv, PreciseInv, MarkPrecise, Live, TypeOK
<1> QED
  BY <1>1, MarkingInvHolds, PTL

\* The three invariants GC_hintgc_stopped_mark states before phase 3.
THEOREM SeedsCovered ==
  ASSUME SmallUncollectable
  PROVE  Spec => []SeedInvariants
<1>1. MarkingInv => SeedInvariants
  BY DEF MarkingInv, SeedInv
<1> QED
  BY <1>1, MarkingInvHolds, PTL

(***************************************************************************)
(* Refinement.                                                             *)
(***************************************************************************)

LEMMA SeedsType ==
  ASSUME TypeOK
  PROVE  Seeds \in SUBSET Obj /\ UncollectableObjs \subseteq Seeds
<1>1. Targets(roots) \in SUBSET Obj
  BY TargetsType DEF TypeOK
<1> QED
  BY <1>1 DEF TypeOK, Seeds, Unhinted, PointedToBy, UncollectableObjs

\* Every other step than the first, MarkDone and FinishCollection marks
\* some of the frontier, or nothing.
LEMMA WithinFrontier ==
  ASSUME TypeOK, ControlInv, PreciseInv,
         Phase1 \/ Phase2 \/ Phase3 \/ MarkFrom \/ (GC_mark_some /\ ~MarkDone)
           \/ \E o \in Obj : PushMarked(o)
  PROVE  /\ SameHeap /\ pc \notin {"idle", "marked"} /\ pc' \notin {"idle", "marked"}
         /\ hb_marks \subseteq hb_marks' /\ hb_marks' \subseteq hb_marks \cup Frontier
<1> USE DEF heapVars, markVars, SameHeap
<1>1. CASE Phase1
  <2>1. CASE Phase1Done
    BY <2>1 DEF Phase1Done
  <2>2. ASSUME NEW b \in Block, Phase1Block(b) PROVE /\ hb_marks \subseteq hb_marks'
                                                    /\ hb_marks' \subseteq hb_marks \cup Frontier
    BY <2>2 DEF Phase1Block, GC_set_hdr_marks, ObjectsIn, Frontier, Seeds, Unhinted, ControlInv
  <2> QED
    BY <1>1, <2>1, <2>2 DEF Phase1, Phase1Block
<1>2. CASE Phase2
  <2>1. CASE Phase2Pop \/ PushRootsWithCheck \/ \E b \in Block : Phase2Block(b)
    BY <2>1 DEF Phase2Pop, PushRootsWithCheck, Phase2Block
  <2>2. ASSUME NEW o \in Obj, Phase2Mark(o) PROVE /\ hb_marks \subseteq hb_marks'
                                                 /\ hb_marks' \subseteq hb_marks \cup Frontier
    BY <2>2 DEF Phase2Mark, MARK_NO_PUSH, SetMarkBit, PreciseInv
  <2> QED
    BY <1>2, <2>1, <2>2 DEF Phase2, Phase2Mark
<1>3. CASE Phase3 \/ \E o \in Obj : PushMarked(o)
  BY <1>3
  DEF Phase3, Phase3Pushed, Phase3Drained, Phase3Overflowed, Phase3Grow, Phase3Done, Phase3Block, PushMarked
<1>4. CASE MarkFrom
  <2>1. CASE MarkFromPop \/ MarkFromReturn
    BY <2>1 DEF MarkFromPop, MarkFromReturn
  <2>2. ASSUME NEW o \in Obj, MarkFromScan(o) PROVE /\ hb_marks \subseteq hb_marks'
                                                   /\ hb_marks' \subseteq hb_marks \cup Frontier
    BY <2>2 DEF MarkFromScan, PUSH_CONTENTS, SetMarkBit, PreciseInv
  <2> QED
    BY <1>4, <2>1, <2>2 DEF MarkFrom, MarkFromScan
<1>5. CASE GC_mark_some /\ ~MarkDone
  BY <1>5
  DEF GC_mark_some, BeginUncollectable, MarkDuringUncollectable, UncollectableDone, MarkToEmpty,
      EnterMarkFrom, BeginRescan, RescanBlock, RescanAgain, RescanDone, Rescanning, PushedBlock,
      PushUncollectable, PushBlock, PushRootsAfterWalk
<1> QED
  BY <1>1, <1>2, <1>3, <1>4, <1>5

\* Hinted and full collections implement the abstract marking: whatever the
\* phases, the overflows and the rescans do, seen from outside it is one
\* marking from the seeds (GC_hintgc_stopped_mark, GC_stopped_mark).
THEOREM Implements ==
  ASSUME SmallUncollectable
  PROVE  Spec => ImplementsMarkSpec
<1>1. Init => Promise!Init
  <2> SUFFICES ASSUME Init PROVE Promise!Init
    OBVIOUS
  <2>1. TypeOK
    <3>1. UncollectableObjs \subseteq Obj /\ hb_n_marks \in [Block -> Nat]
      BY HeapAssumption DEF Init, UncollectableObjs
    <3>2. roots \in Seq(SUBSET Obj) /\ GC_mark_stack \in Seq(SUBSET Obj)
      BY EmptySeq DEF Init
    <3>3. contents \in [Obj -> SUBSET Obj] /\ GC_mark_stack_size \in Nat /\ scan_ptr \in 0 .. NBlocks
      BY HeapAssumption, StackAssumption DEF Init
    <3> QED
      BY <3>1, <3>2, <3>3 DEF Init, TypeOK, Locations, MarkStates
  <2> QED
    BY <2>1, SeedsType DEF Init, Promise!Init
<1>2. MarkingInv /\ MarkingInv' /\ [Next]_vars => [Promise!Next]_(Promise!vars)
  <2> SUFFICES ASSUME MarkingInv, MarkingInv', [Next]_vars PROVE [Promise!Next]_(Promise!vars)
    OBVIOUS
  <2>1. /\ Seeds \in SUBSET Obj /\ Seeds' \in SUBSET Obj /\ UncollectableObjs \subseteq Seeds'
        /\ Unhinted' \subseteq Obj
    <3>1. Targets(roots') \in SUBSET Obj
      BY TargetsType DEF MarkingInv, TypeOK
    <3>2. Targets(roots)' = Targets(roots')
      BY DEF Targets
    <3>3. Seeds' \in SUBSET Obj /\ UncollectableObjs \subseteq Seeds'
      BY <3>1, <3>2 DEF MarkingInv, TypeOK, Seeds, Unhinted, PointedToBy, UncollectableObjs
    <3> QED
      BY <3>3, SeedsType DEF MarkingInv, Unhinted
  <2>2. CASE StartHinted \/ StartFull
    <3>1. Promise!Start
      BY <2>1, <2>2
      DEF StartHinted, StartFull, StartCollection, GC_clear_marks, Promise!Start
    <3> QED
      BY <3>1 DEF Promise!Next
  <2>3. CASE MarkDone
    <3>1. SameHeap /\ pc = "mark_some" /\ pc' = "marked" /\ hb_marks' = hb_marks
      BY <2>3 DEF MarkDone, SameHeap, heapVars, markVars
    <3>2. Closed(hb_marks)
      BY <3>1, SameHeapEffect DEF MarkingInv, EdgeInv
    <3>3. Promise!Finish
      BY <3>1, <3>2, SameHeapEffect
      DEF Promise!Finish, Promise!Closed, Promise!PointedToBy, Closed, PointedToBy, SameHeap
    <3> QED
      BY <3>3 DEF Promise!Next
  <2>4. CASE FinishCollection
    <3>1. Promise!Sweep
      BY <2>1, <2>4 DEF FinishCollection, Promise!Sweep, markVars
    <3> QED
      BY <3>1 DEF Promise!Next
  <2>5. CASE UNCHANGED vars
    <3>1. SameHeap
      BY <2>5 DEF vars, heapVars, SameHeap
    <3> QED
      BY <2>5, <3>1, SameHeapEffect DEF vars, heapVars, markVars, Promise!vars
  <2>6. CASE Phase1 \/ Phase2 \/ Phase3 \/ MarkFrom \/ (GC_mark_some /\ ~MarkDone)
             \/ \E o \in Obj : PushMarked(o)
    <3>1. /\ SameHeap /\ pc \notin {"idle", "marked"} /\ pc' \notin {"idle", "marked"}
          /\ hb_marks \subseteq hb_marks' /\ hb_marks' \subseteq hb_marks \cup Frontier
      BY <2>6, WithinFrontier DEF MarkingInv
    <3>2. Promise!Mark
      BY <3>1, SameHeapEffect
      DEF Promise!Mark, Promise!PointedToBy, Frontier, PointedToBy, SameHeap
    <3> QED
      BY <3>2 DEF Promise!Next
  <2> QED
    BY <2>2, <2>3, <2>4, <2>5, <2>6 DEF Next, Collector
<1> QED
  BY <1>1, <1>2, MarkingInvHolds, PTL DEF Spec, ImplementsMarkSpec, Promise!Spec

(***************************************************************************)
(* What the abstract marking promises, it keeps.                           *)
(***************************************************************************)

\* How far the abstract marking has come.
Status == IF pc \in {"idle", "marked"} THEN pc ELSE "marking"

\* While marking goes on, the marks lie in every closed set; at its end
\* they are one.
PromiseInv ==
  /\ UncollectableObjs \subseteq hb_marks
  /\ Status # "idle" => \A S \in SUBSET Obj : Promise!Closed(S) => hb_marks \subseteq S
  /\ Status = "marked" => Promise!Closed(hb_marks)

\* The abstract marking keeps its variables in their types.
LEMMA PromiseTypes == Promise!Spec => []Promise!TypeOK
<1>0. UncollectableObjs \subseteq Obj /\ Graphs \subseteq [Obj -> SUBSET Obj]
  BY HeapAssumption DEF UncollectableObjs
<1>1. Promise!Init => Promise!TypeOK
  BY <1>0 DEF Promise!Init, Promise!TypeOK
<1>2. Promise!TypeOK /\ [Promise!Next]_(Promise!vars) => Promise!TypeOK'
  <2> SUFFICES ASSUME Promise!TypeOK, [Promise!Next]_(Promise!vars) PROVE Promise!TypeOK'
    OBVIOUS
  <2>1. CASE Promise!Start
    BY <2>1, <1>0 DEF Promise!Start, Promise!TypeOK
  <2>2. CASE Promise!Mark
    <3>1. Promise!PointedToBy(hb_marks \cap Scanned) \subseteq Obj
      BY DEF Promise!TypeOK, Promise!PointedToBy
    <3> QED
      BY <2>2, <3>1 DEF Promise!Mark, Promise!TypeOK
  <2>3. CASE Promise!Finish
    BY <2>3 DEF Promise!Finish, Promise!TypeOK
  <2>4. CASE Promise!Sweep
    BY <2>4 DEF Promise!Sweep, Promise!TypeOK
  <2>5. CASE UNCHANGED Promise!vars
    BY <2>5 DEF Promise!vars, Promise!TypeOK
  <2> QED
    BY <2>1, <2>2, <2>3, <2>4, <2>5 DEF Promise!Next
<1> QED
  BY <1>1, <1>2, PTL DEF Promise!Spec

\* Its marks are what its seeds lead to.
LEMMA PromiseInvHolds == Promise!Spec => []PromiseInv
<1>1. Promise!Init => PromiseInv
  BY DEF Promise!Init, PromiseInv, Status
<1>2. Promise!TypeOK /\ PromiseInv /\ [Promise!Next]_(Promise!vars) => PromiseInv'
  <2> SUFFICES ASSUME Promise!TypeOK, PromiseInv, [Promise!Next]_(Promise!vars)
               PROVE  PromiseInv'
    OBVIOUS
  <2>1. CASE Promise!Start
    <3>1. /\ Status = "idle" /\ Status' = "marking" /\ UncollectableObjs \subseteq Seeds'
          /\ hb_marks' = hb_marks \cap UncollectableObjs
      BY <2>1 DEF Promise!Start, Status
    <3>2. ASSUME NEW S, Promise!Closed(S)' PROVE UncollectableObjs \subseteq S
      BY <3>1, <3>2 DEF Promise!Closed
    <3> QED
      BY <3>1, <3>2 DEF PromiseInv
  <2>2. CASE Promise!Mark
    <3>0. /\ Status = "marking" /\ Status' = "marking" /\ contents' = contents /\ Seeds' = Seeds
          /\ hb_marks \subseteq hb_marks'
          /\ hb_marks' \subseteq hb_marks \cup Seeds \cup Promise!PointedToBy(hb_marks \cap Scanned)
      BY <2>2 DEF Promise!Mark, Status
    <3>1. ASSUME NEW S \in SUBSET Obj, Promise!Closed(S)' PROVE hb_marks' \subseteq S
      <4>1. Promise!Closed(S)
        BY <3>0, <3>1 DEF Promise!Closed, Promise!PointedToBy
      <4>2. hb_marks \subseteq S
        BY <3>0, <4>1 DEF PromiseInv
      <4>3. Promise!PointedToBy(hb_marks \cap Scanned) \subseteq S
        BY <4>1, <4>2 DEF Promise!Closed, Promise!PointedToBy
      <4> QED
        BY <3>0, <4>1, <4>2, <4>3 DEF Promise!Closed
    <3> QED
      BY <3>0, <3>1 DEF PromiseInv
  <2>3. ASSUME Promise!Finish \/ UNCHANGED Promise!vars PROVE PromiseInv'
    <3>0. /\ contents' = contents /\ Seeds' = Seeds /\ hb_marks' = hb_marks
          /\ \/ Status' = Status
             \/ Status = "marking" /\ Status' = "marked" /\ Promise!Closed(hb_marks)
      BY <2>3 DEF Promise!Finish, Promise!vars, Status
    <3>1. \A S : Promise!Closed(S)' <=> Promise!Closed(S)
      BY <3>0 DEF Promise!Closed, Promise!PointedToBy
    <3>2. (Promise!Closed(hb_marks))' <=> Promise!Closed(hb_marks)
      BY <3>0 DEF Promise!Closed, Promise!PointedToBy
    <3> QED
      BY <3>0, <3>1, <3>2 DEF PromiseInv
  <2>4. CASE Promise!Sweep
    <3>1. Status' = "idle" /\ hb_marks' = hb_marks
      BY <2>4 DEF Promise!Sweep, Status
    <3> QED
      BY <3>1 DEF PromiseInv
  <2> QED
    BY <2>1, <2>2, <2>3, <2>4 DEF Promise!Next
<1> QED
  BY <1>1, <1>2, PromiseTypes, PTL DEF Promise!Spec

\* When the abstract marking is over, exactly the live objects are marked:
\* what GC_stopped_mark and GC_hintgc_stopped_mark owe to the sweep.
THEOREM MarksLive == Promise!Spec => []Promise!MarksExactlyLive
<1>1. Promise!TypeOK /\ PromiseInv => Promise!MarksExactlyLive
  BY DEF Promise!TypeOK, PromiseInv, Promise!MarksExactlyLive, Promise!Live, Status
<1> QED
  BY <1>1, PromiseTypes, PromiseInvHolds, PTL

\* So do hinted and full marking: not one live object is left for the sweep, and
\* nothing else is kept.
THEOREM CollectionMarksLive ==
  ASSUME SmallUncollectable
  PROVE  Spec => []Promise!MarksExactlyLive
<1> QED
  BY Implements, MarksLive, PTL DEF ImplementsMarkSpec

=============================================================================
