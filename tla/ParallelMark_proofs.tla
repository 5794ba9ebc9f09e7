------------------------- MODULE ParallelMark_proofs -------------------------
(***************************************************************************)
(* For any number of mark threads, any heap and any sizes of the stacks:   *)
(* no entry is lost without the mark state saying so, a marker leaves only *)
(* when marking is over, and parallel marking implements MarkSpec.         *)
(***************************************************************************)
EXTENDS ParallelMark, TLAPS, FiniteSetTheorems, SequenceTheorems

\* The Initiator is outside GC_do_parallel_mark, or has seen every helper go.
HomeLocations == {"offer", "idle", "push_roots", "mark_some", "done", "abort"}
Home == pc[Initiator] \in HomeLocations
Ended == \/ pc[Initiator] = "marked"
         \/ pc[Initiator] = "notify" /\ after[Initiator] = "marked"

\* The marker is counted in GC_helper_count, or in GC_active_count.
Joined(m) == \/ Active(m) \/ pc[m] \in {"enter", "await"}
             \/ pc[m] = "notify" /\ after[m] = "enter"
JoinedSet == {m \in Markers : Joined(m)}
ActiveSet == {m \in Markers : Active(m)}

\* The counts are right; nobody helps unless the Initiator is there.
TeamInv ==
  /\ GC_helper_count = Cardinality(JoinedSet)
  /\ GC_active_count = Cardinality(ActiveSet)
  /\ GC_help_wanted => ~Home /\ ~Ended /\ pc[Initiator] # "await_helpers"
  /\ Home \/ Ended => JoinedSet = {}

\* What the Initiator relies on between two parallel marks.
HomeInv ==
  /\ pc[Initiator] # "abort"
  /\ Home => taken = {}
  /\ pc[Initiator] \in {"idle", "push_roots", "done"} => GC_mark_stack = <<>>
  /\ pc[Initiator] = "push_roots" => hb_marks = {}
  /\ pc[Initiator] \notin {"idle", "push_roots"} => seeds \subseteq hb_marks
  /\ pc[Initiator] = "done" => Closed(hb_marks)
  /\ pc[Initiator] = "mark_some" /\ GC_mark_state # "MS_INVALID" =>
       \A o \in hb_marks : o \in Range(GC_mark_stack) \/ contents[o] \subseteq hb_marks

\* Every entry below the cursor is taken.
Below(n) == 1 .. n - 1 \subseteq taken
CursorInv(m) ==
  /\ Active(m) \/ pc[m] = "await" => Below(my_first_nonempty[m])
  /\ pc[m] = "advance" => Below(seen_first[m])
  /\ pc[m] \in {"steal", "take"} => my_top[m] <= top /\ my_first_nonempty[m] <= my_top[m] + 1
  /\ pc[m] = "take" => my_first_nonempty[m] <= my_top[m]

\* A marker holds entries, pointers or an object only where it works on them.
HandInv(m) ==
  /\ pc[m] = "notify" => after[m] \in {"enter", "look", "mark", "left", "marked"}
  /\ found[m] # NoObj <=> pc[m] = "set_mark"
  /\ cur[m] # {} => pc[m] \in {"mark", "set_mark"}
  /\ local[m] # <<>> => \/ pc[m] \in {"steal", "take", "mark", "set_mark", "share"}
                        \/ pc[m] = "notify" /\ after[m] = "mark"
  /\ pc[m] = "share" => Len(local[m]) > 2

\* Whatever is marked or about to be marked was pointed to by a marked object.
PreciseInv(m) ==
  /\ Range(local[m]) \subseteq hb_marks
  /\ cur[m] \subseteq PointedToBy(hb_marks)
  /\ found[m] # NoObj => found[m] \in PointedToBy(hb_marks)

MarkerInv(m) == CursorInv(m) /\ HandInv(m) /\ PreciseInv(m)

\* Once the Initiator has left there is nothing to do for those who come late.
Drained ==
  /\ 1 .. top \subseteq taken /\ GC_first_nonempty = top + 1
  /\ \A m \in Markers : Active(m) => /\ pc[m] \in {"look", "advance", "peek", "check"}
                                     /\ my_first_nonempty[m] = top + 1

IInv ==
  /\ TypeOK /\ TeamInv /\ HomeInv
  /\ \A m \in Markers : MarkerInv(m)
  /\ ~Home => Below(GC_first_nonempty)
  /\ Range(GC_mark_stack) \subseteq hb_marks
  /\ Departed => Drained
  /\ NothingLost

------------------------------------------------------------------------------
(* Sequences and what is in them.                                          *)

LEMMA RangeEmpty == Range(<<>>) = {}
  BY DEF Range

LEMMA RangeAppend ==
  ASSUME NEW s \in Seq(Obj), NEW o \in Obj
  PROVE  /\ Append(s, o) \in Seq(Obj)
         /\ Range(Append(s, o)) = Range(s) \cup {o}
<1> DEFINE t == Append(s, o)
<1>1. t \in Seq(Obj) /\ Len(t) = Len(s) + 1
  OBVIOUS
<1>2. t[Len(t)] = o /\ \A i \in 1 .. Len(s) : t[i] = s[i]
  OBVIOUS
<1>3. DOMAIN t = DOMAIN s \cup {Len(t)} /\ DOMAIN s = 1 .. Len(s)
  OBVIOUS
<1>4. Range(t) = Range(s) \cup {o}
  <2> HIDE DEF t
  <2> QED BY <1>2, <1>3, ZenonT(40) DEF Range
<1> QED BY <1>1, <1>4

LEMMA RangePrefix ==
  ASSUME NEW s \in Seq(Obj), NEW n \in 0 .. Len(s)
  PROVE  /\ SubSeq(s, 1, n) \in Seq(Obj)
         /\ Range(SubSeq(s, 1, n)) \subseteq Range(s)
         /\ n < Len(s) => Range(s) = Range(SubSeq(s, 1, n)) \cup Range(SubSeq(s, n + 1, Len(s)))
         /\ SubSeq(s, n + 1, Len(s)) \in Seq(Obj)
<1> DEFINE t == SubSeq(s, 1, n)
           u == SubSeq(s, n + 1, Len(s))
<1>1. /\ t \in Seq(Obj) /\ DOMAIN t = 1 .. n /\ \A i \in 1 .. n : t[i] = s[i]
      /\ DOMAIN s = 1 .. Len(s)
  OBVIOUS
<1>2. /\ u \in Seq(Obj) /\ DOMAIN u = 1 .. Len(s) - n
      /\ \A i \in 1 .. Len(s) - n : u[i] = s[n + i]
  <2>1. \A i \in n + 1 .. Len(s) : s[i] \in Obj
    OBVIOUS
  <2>2. u \in Seq(Obj) /\ Len(u) = (IF n + 1 <= Len(s) THEN Len(s) - (n + 1) + 1 ELSE 0)
        /\ \A i \in 1 .. Len(s) - (n + 1) + 1 : u[i] = s[(n + 1) + i - 1]
    BY <2>1, SubSeqProperties
  <2>3. Len(u) = Len(s) - n
    BY <2>2
  <2>4. DOMAIN u = 1 .. Len(u)
    BY <2>2, LenProperties
  <2> HIDE DEF u
  <2> QED BY <2>2, <2>3, <2>4
<1>3. Range(t) \subseteq Range(s)
  <2> HIDE DEF t
  <2> QED BY <1>1 DEF Range
<1>4. Range(u) \subseteq Range(s)
  <2>1. \A i \in DOMAIN u : n + i \in DOMAIN s /\ u[i] = s[n + i]
    BY <1>1, <1>2
  <2> HIDE DEF u
  <2> QED BY <2>1, Zenon DEF Range
<1>5. Range(s) \subseteq Range(t) \cup Range(u)
  <2> SUFFICES ASSUME NEW i \in 1 .. Len(s) PROVE s[i] \in Range(t) \cup Range(u)
    BY <1>1 DEF Range
  <2>1. CASE i <= n
    <3> HIDE DEF t
    <3> QED BY <1>1, <2>1 DEF Range
  <2>2. CASE i > n
    <3>1. i - n \in 1 .. Len(s) - n /\ s[i] = s[n + (i - n)]
      BY <2>2
    <3>2. s[i] = u[i - n]
      BY <3>1, <1>2
    <3> HIDE DEF u
    <3> QED BY <3>1, <3>2, <1>2 DEF Range
  <2> QED BY <2>1, <2>2
<1> QED BY <1>1, <1>2, <1>3, <1>4, <1>5

LEMMA RangePop ==
  ASSUME NEW s \in Seq(Obj), s # <<>>
  PROVE  /\ SubSeq(s, 1, Len(s) - 1) \in Seq(Obj)
         /\ s[Len(s)] \in Range(s) /\ s[Len(s)] \in Obj
         /\ Range(s) = Range(SubSeq(s, 1, Len(s) - 1)) \cup {s[Len(s)]}
<1> DEFINE n == Len(s)
           t == SubSeq(s, 1, n - 1)
<1>1. n \in Nat /\ n > 0 /\ n - 1 \in 0 .. n /\ DOMAIN s = 1 .. n
  BY EmptySeq
<1>2. /\ t \in Seq(Obj) /\ DOMAIN t = 1 .. n - 1 /\ \A i \in 1 .. n - 1 : t[i] = s[i]
  <2>1. \A i \in 1 .. n - 1 : s[i] \in Obj
    OBVIOUS
  <2>2. /\ t \in Seq(Obj) /\ Len(t) = (IF 1 <= n - 1 THEN (n - 1) - 1 + 1 ELSE 0)
        /\ \A i \in 1 .. (n - 1) - 1 + 1 : t[i] = s[1 + i - 1]
    BY <2>1, <1>1, SubSeqProperties
  <2>3. DOMAIN t = 1 .. Len(t)
    BY <2>2, LenProperties
  <2>4. n - 1 \in Nat /\ (n - 1) - 1 + 1 = n - 1 /\ \A i \in Nat : 1 + i - 1 = i
    BY <1>1
  <2>5. Len(t) = n - 1
    BY <2>2, <2>4
  <2> HIDE DEF t, n
  <2> QED BY <2>2, <2>3, <2>4, <2>5
<1>3. DOMAIN s = DOMAIN t \cup {n}
  <2> HIDE DEF t
  <2> QED BY <1>1, <1>2
<1>4. Range(s) = Range(t) \cup {s[n]}
  <2> HIDE DEF t, n
  <2> QED BY <1>1, <1>2, <1>3, ZenonT(40) DEF Range
<1>5. s[n] \in Range(s) /\ s[n] \in Obj
  <2>1. n \in 1 .. Len(s)
    BY <1>1
  <2> QED BY <2>1, <1>4, ElementOfSeq
<1> QED BY <1>1, <1>2, <1>4, <1>5

LEMMA RangeConcat ==
  ASSUME NEW s \in Seq(Obj), NEW t \in Seq(Obj)
  PROVE  /\ s \o t \in Seq(Obj) /\ Len(s \o t) = Len(s) + Len(t)
         /\ \A i \in 1 .. Len(s) : (s \o t)[i] = s[i]
         /\ \A o \in Range(t) : \E i \in Len(s) + 1 .. Len(s) + Len(t) : (s \o t)[i] = o
         /\ Range(s \o t) = Range(s) \cup Range(t)
<1> DEFINE u == s \o t
<1>1. u \in Seq(Obj) /\ Len(u) = Len(s) + Len(t) /\ DOMAIN u = 1 .. Len(s) + Len(t)
  OBVIOUS
<1>2. \A i \in 1 .. Len(s) : i \in DOMAIN u /\ u[i] = s[i]
  OBVIOUS
<1>3. \A i \in 1 .. Len(t) : Len(s) + i \in DOMAIN u /\ u[Len(s) + i] = t[i]
  OBVIOUS
<1>4. \A j \in DOMAIN u : \/ j \in 1 .. Len(s) /\ u[j] = s[j]
                          \/ \E i \in 1 .. Len(t) : u[j] = t[i]
  <2> SUFFICES ASSUME NEW j \in DOMAIN u, j > Len(s)
               PROVE  \E i \in 1 .. Len(t) : u[j] = t[i]
    OBVIOUS
  <2>1. j - Len(s) \in 1 .. Len(t) /\ u[j] = t[j - Len(s)]
    OBVIOUS
  <2> QED BY <2>1
<1>5. DOMAIN s = 1 .. Len(s) /\ DOMAIN t = 1 .. Len(t)
  OBVIOUS
<1>6. Range(u) = Range(s) \cup Range(t)
  <2>1. Range(u) \subseteq Range(s) \cup Range(t)
    <3> HIDE DEF u
    <3> QED BY <1>4, <1>5, Zenon DEF Range
  <2>2. Range(s) \subseteq Range(u)
    <3> HIDE DEF u
    <3> QED BY <1>2, <1>5, Zenon DEF Range
  <2>3. Range(t) \subseteq Range(u)
    <3> HIDE DEF u
    <3> QED BY <1>3, <1>5, Zenon DEF Range
  <2> QED BY <2>1, <2>2, <2>3
<1>7. \A o \in Range(t) : \E i \in Len(s) + 1 .. Len(s) + Len(t) : u[i] = o
  <2> SUFFICES ASSUME NEW k \in 1 .. Len(t)
               PROVE  \E i \in Len(s) + 1 .. Len(s) + Len(t) : u[i] = t[k]
    BY <1>5 DEF Range
  <2>1. Len(s) + k \in Len(s) + 1 .. Len(s) + Len(t) /\ u[Len(s) + k] = t[k]
    BY <1>3
  <2> QED BY <2>1
<1> QED BY <1>1, <1>2, <1>6, <1>7

------------------------------------------------------------------------------
(* Steps of one marker change nothing of the others, and what is marked,   *)
(* taken or on the stack stays so.                                         *)

OwnStep(m) ==
  \/ Marking(m)
  \/ m \in Helpers /\ Helping(m)
  \/ m = Initiator /\ (GC_do_parallel_mark \/ Finish \/ FinishAwoken \/ Rescan \/ FinishCollection)
Resetting == Returned \/ RescanDone \/ StartMarking \/ PushRoots

SameMarker(k) ==
  /\ pc'[k] = pc[k] /\ after'[k] = after[k]
  /\ my_first_nonempty'[k] = my_first_nonempty[k] /\ seen_first'[k] = seen_first[k]
  /\ my_top'[k] = my_top[k]
  /\ local'[k] = local[k] /\ cur'[k] = cur[k] /\ found'[k] = found[k]
FrameOf(m) == \A k \in Markers \ {m} : SameMarker(k)

Grows ==
  /\ contents' = contents /\ seeds' = seeds
  /\ hb_marks \subseteq hb_marks' /\ taken \subseteq taken'
  /\ Len(GC_mark_stack) <= Len(GC_mark_stack')
  /\ \A i \in 1 .. Len(GC_mark_stack) : GC_mark_stack'[i] = GC_mark_stack[i]

LEMMA NextCases ==
  ASSUME Next PROVE Resetting \/ \E m \in Markers : OwnStep(m)
  BY DEF Next, Initiating, Resetting, OwnStep, Markers

LEMMA ReturnEffect ==
  ASSUME TypeOK, NEW m \in Markers, NEW e \in Seq(Obj), NEW there,
         GC_return_mark_stack(m, e, there)
  PROVE  /\ GC_mark_stack' \in Seq(Obj) /\ Len(GC_mark_stack') <= MarkStackSize
         /\ Len(GC_mark_stack) <= Len(GC_mark_stack')
         /\ \A i \in 1 .. Len(GC_mark_stack) : GC_mark_stack'[i] = GC_mark_stack[i]
         /\ Range(GC_mark_stack') \subseteq Range(GC_mark_stack) \cup Range(e)
         /\ GC_mark_state' # "MS_INVALID" =>
              \A o \in Range(e) : \E i \in top + 1 .. Len(GC_mark_stack') : GC_mark_stack'[i] = o
<1>1. GC_mark_stack \in Seq(Obj) /\ Len(GC_mark_stack) \in Nat
      /\ Len(GC_mark_stack) <= MarkStackSize /\ MarkStackSize \in Nat /\ Len(e) \in Nat
  BY SizeAssumption DEF TypeOK
<1>2. CASE top + Len(e) > MarkStackSize
  BY <1>1, <1>2 DEF GC_return_mark_stack
<1>3. CASE ~(top + Len(e) > MarkStackSize)
  <2>1. GC_mark_stack' = GC_mark_stack \o e
    BY <1>3 DEF GC_return_mark_stack
  <2> DEFINE Appended(u) ==
               /\ u \in Seq(Obj) /\ Len(u) = Len(GC_mark_stack) + Len(e)
               /\ \A i \in 1 .. Len(GC_mark_stack) : u[i] = GC_mark_stack[i]
               /\ Range(u) = Range(GC_mark_stack) \cup Range(e)
               /\ \A o \in Range(e) :
                    \E i \in Len(GC_mark_stack) + 1 .. Len(GC_mark_stack) + Len(e) : u[i] = o
  <2>2. Appended(GC_mark_stack \o e)
    BY <1>1, RangeConcat, Zenon
  <2>3. Appended(GC_mark_stack')
    <3> HIDE DEF Appended
    <3> QED BY <2>1, <2>2
  <2> QED BY <1>1, <1>3, <2>3 DEF top
<1> QED BY <1>2, <1>3

\* What ShareBottom cuts its stack into.
LEMMA Halves ==
  ASSUME NEW s \in Seq(Obj), Len(s) > 2
  PROVE  LET half == (Len(s) - 1) \div 2
         IN  /\ half \in 0 .. Len(s) /\ half < Len(s)
             /\ SubSeq(s, 1, half) \in Seq(Obj) /\ SubSeq(s, half + 1, Len(s)) \in Seq(Obj)
             /\ Range(s) = Range(SubSeq(s, 1, half)) \cup Range(SubSeq(s, half + 1, Len(s)))
<1> DEFINE half == (Len(s) - 1) \div 2
<1>1. half \in 0 .. Len(s) /\ half < Len(s)
  OBVIOUS
<1> HIDE DEF half
<1> QED BY <1>1, RangePrefix

LEMMA StepFrame ==
  ASSUME TypeOK, NEW m \in Markers, OwnStep(m)
  PROVE  FrameOf(m)
<1> USE DEF TypeOK, FrameOf, SameMarker, lookVars, localVars, Go, NotifyThen
<1>1. CASE GC_notify_all_marker(m)
  BY <1>1 DEF GC_notify_all_marker
<1>2. CASE Enter(m) \/ Look(m)
  BY <1>2 DEF Enter, Look
<1>3. CASE Advance(m)
  BY <1>3 DEF Advance
<1>4. CASE Peek(m)
  BY <1>4 DEF Peek, StartStealing
<1>5. CASE Check(m)
  BY <1>5, SMTT(40) DEF Check, StartStealing, Idle
<1>6. CASE Awoken(m)
  BY <1>6 DEF Awoken, Idle
<1>7. CASE ReadDescr(m)
  BY <1>7 DEF ReadDescr
<1>8. CASE Take(m)
  BY <1>8 DEF Take
<1>9. CASE StopStealing(m)
  BY <1>9 DEF StopStealing
<1>10. CASE PopLocal(m)
  BY <1>10 DEF PopLocal
<1>11. CASE ReadMark(m)
  BY <1>11 DEF ReadMark
<1>12. CASE SetMark(m)
  BY <1>12 DEF SetMark
<1>13. CASE LocalDone(m) \/ Starving(m)
  BY <1>13 DEF LocalDone, Starving
<1>14. CASE ReturnAll(m)
  BY <1>14 DEF ReturnAll, GC_return_mark_stack
<1>15. CASE ShareBottom(m)
  BY <1>15 DEF ShareBottom, GC_return_mark_stack
<1>16. CASE m \in Helpers /\ Helping(m)
  BY <1>16 DEF Helping, GC_help_marker, GC_mark_thread, GC_wait_marker
<1>17. CASE m = Initiator /\ GC_do_parallel_mark
  BY <1>17 DEF GC_do_parallel_mark
<1>18. CASE m = Initiator /\ (Finish \/ FinishAwoken)
  BY <1>18 DEF Finish, FinishAwoken, AwaitHelpers, GC_wait_marker
<1>19. CASE m = Initiator /\ (Rescan \/ FinishCollection)
  BY <1>19 DEF Rescan, FinishCollection
<1> QED
  BY <1>1, <1>2, <1>3, <1>4, <1>5, <1>6, <1>7, <1>8, <1>9, <1>10, <1>11, <1>12, <1>13, <1>14,
     <1>15, <1>16, <1>17, <1>18, <1>19
  DEF OwnStep, Marking, LookForWork, Steal, GC_mark_from, GC_do_local_mark

\* Steps that leave the stack, what is taken and the marks alone.
LEMMA QuietStep ==
  ASSUME TypeOK, NEW m \in Markers, OwnStep(m),
         ~Take(m), ~SetMark(m), ~ReturnAll(m), ~ShareBottom(m), ~Rescan
  PROVE  UNCHANGED <<contents, seeds, hb_marks, taken, GC_mark_stack, GC_mark_state>>
<1> USE DEF heapVars, stackVars, stateVars
<1>1. CASE Marking(m)
  BY <1>1
  DEF Marking, LookForWork, Steal, GC_mark_from, GC_do_local_mark, GC_notify_all_marker, Enter,
      Look, Advance, Peek, Check, Awoken, ReadDescr, StopStealing, PopLocal, ReadMark, LocalDone,
      Starving
<1>2. CASE m \in Helpers /\ Helping(m)
  BY <1>2 DEF Helping, GC_help_marker, GC_mark_thread
<1>3. CASE m = Initiator /\ (GC_do_parallel_mark \/ Finish \/ FinishAwoken \/ FinishCollection)
  BY <1>3 DEF GC_do_parallel_mark, Finish, FinishAwoken, FinishCollection
<1> QED
  BY <1>1, <1>2, <1>3 DEF OwnStep

LEMMA StepGrows ==
  ASSUME TypeOK, NEW m \in Markers, OwnStep(m)
  PROVE  Grows
<1> USE DEF Grows, heapVars, stackVars, stateVars
<1>1. GC_mark_stack \in Seq(Obj) /\ Len(GC_mark_stack) \in Nat
  BY DEF TypeOK
<1>2. CASE Take(m) \/ SetMark(m) \/ Rescan
  BY <1>1, <1>2 DEF Take, SetMark, Rescan
<1>3. CASE ReturnAll(m)
  <2>1. local[m] \in Seq(Obj) /\ GC_return_mark_stack(m, local[m], "look")
    BY <1>3 DEF ReturnAll, TypeOK
  <2>2. UNCHANGED <<contents, seeds, hb_marks, taken>>
    BY <2>1 DEF GC_return_mark_stack
  <2> QED BY <2>1, <2>2, ReturnEffect
<1>4. CASE ShareBottom(m)
  <2> DEFINE e == SubSeq(local[m], 1, (Len(local[m]) - 1) \div 2)
  <2>1. GC_return_mark_stack(m, e, "mark")
    BY <1>4 DEF ShareBottom
  <2>2. e \in Seq(Obj)
    BY DEF TypeOK
  <2>3. UNCHANGED <<contents, seeds, hb_marks, taken>>
    BY <2>1 DEF GC_return_mark_stack
  <2> HIDE DEF e
  <2> QED BY <2>1, <2>2, <2>3, ReturnEffect
<1>5. CASE ~Take(m) /\ ~SetMark(m) /\ ~ReturnAll(m) /\ ~ShareBottom(m) /\ ~Rescan
  BY <1>1, <1>5, QuietStep
<1> QED BY <1>2, <1>3, <1>4, <1>5

------------------------------------------------------------------------------
(* Counting the team.                                                      *)

LEMMA TeamFinite ==
  /\ IsFiniteSet(Markers) /\ IsFiniteSet(JoinedSet) /\ IsFiniteSet(ActiveSet)
  /\ IsFiniteSet(JoinedSet') /\ IsFiniteSet(ActiveSet')
<1>1. IsFiniteSet(Markers)
  BY MarkersAssumption, FS_AddElement DEF Markers
<1>2. JoinedSet \subseteq Markers /\ ActiveSet \subseteq Markers
      /\ JoinedSet' \subseteq Markers /\ ActiveSet' \subseteq Markers
  BY DEF JoinedSet, ActiveSet
<1> QED BY <1>1, <1>2, FS_Subset

\* Two sets that differ in m at most.
LEMMA CountOne ==
  ASSUME NEW S, NEW T, NEW m, IsFiniteSet(S), IsFiniteSet(T), S \ {m} = T \ {m}
  PROVE  /\ Cardinality(S) \in Nat /\ Cardinality(T) \in Nat
         /\ (m \in S <=> m \in T) => Cardinality(T) = Cardinality(S)
         /\ m \in S /\ m \notin T => Cardinality(T) = Cardinality(S) - 1
         /\ m \notin S /\ m \in T => Cardinality(T) = Cardinality(S) + 1
         /\ m \in S => Cardinality(S) > 0
         /\ Cardinality(S) = 0 <=> S = {}
<1>1. Cardinality(S) \in Nat /\ Cardinality(T) \in Nat
  BY FS_CardinalityType
<1>2. Cardinality(S) = 0 <=> S = {}
  BY FS_EmptySet
<1>3. (m \in S <=> m \in T) => Cardinality(T) = Cardinality(S)
  <2>1. (m \in S <=> m \in T) => S = T
    OBVIOUS
  <2> QED BY <2>1
<1>4. m \in S /\ m \notin T => Cardinality(T) = Cardinality(S) - 1
  <2>1. m \in S /\ m \notin T => T = S \ {m}
    OBVIOUS
  <2> QED BY <2>1, FS_RemoveElement
<1>5. m \notin S /\ m \in T => Cardinality(T) = Cardinality(S) + 1
  <2>1. m \notin S /\ m \in T => T = S \cup {m}
    OBVIOUS
  <2> QED BY <2>1, FS_AddElement
<1>6. m \in S => Cardinality(S) > 0
  <2>1. m \in S => S # {}
    OBVIOUS
  <2> QED BY <1>1, <1>2, <2>1
<1> QED BY <1>1, <1>2, <1>3, <1>4, <1>5, <1>6

\* A step of m changes the counts by what m does.
LEMMA TeamEffect ==
  ASSUME TypeOK, NEW m \in Markers, FrameOf(m)
  PROVE  LET j == Cardinality(JoinedSet)  jj == Cardinality(JoinedSet')
             a == Cardinality(ActiveSet)  aa == Cardinality(ActiveSet')
         IN  /\ j \in Nat /\ jj \in Nat /\ a \in Nat /\ aa \in Nat
             /\ (Joined(m) <=> Joined(m)') => jj = j
             /\ Joined(m) /\ ~Joined(m)' => jj = j - 1
             /\ ~Joined(m) /\ Joined(m)' => jj = j + 1
             /\ Joined(m) => j > 0
             /\ j = 0 <=> JoinedSet = {}
             /\ (Active(m) <=> Active(m)') => aa = a
             /\ Active(m) /\ ~Active(m)' => aa = a - 1
             /\ ~Active(m) /\ Active(m)' => aa = a + 1
             /\ Active(m) => a > 0
             /\ a = 0 <=> ActiveSet = {}
<1>1. ASSUME NEW k \in Markers \ {m} PROVE (Joined(k) <=> Joined(k)') /\ (Active(k) <=> Active(k)')
  BY <1>1 DEF FrameOf, SameMarker, Joined, Active
<1>2. JoinedSet \ {m} = JoinedSet' \ {m} /\ ActiveSet \ {m} = ActiveSet' \ {m}
  BY <1>1 DEF JoinedSet, ActiveSet
<1>3. /\ (m \in JoinedSet <=> Joined(m)) /\ (m \in ActiveSet <=> Active(m))
      /\ (m \in JoinedSet' <=> Joined(m)') /\ (m \in ActiveSet' <=> Active(m)')
  BY DEF JoinedSet, ActiveSet
<1> HIDE DEF JoinedSet, ActiveSet
<1>4. /\ Cardinality(JoinedSet) \in Nat /\ Cardinality(JoinedSet') \in Nat
      /\ (Joined(m) <=> Joined(m)') => Cardinality(JoinedSet') = Cardinality(JoinedSet)
      /\ Joined(m) /\ ~Joined(m)' => Cardinality(JoinedSet') = Cardinality(JoinedSet) - 1
      /\ ~Joined(m) /\ Joined(m)' => Cardinality(JoinedSet') = Cardinality(JoinedSet) + 1
      /\ Joined(m) => Cardinality(JoinedSet) > 0
      /\ Cardinality(JoinedSet) = 0 <=> JoinedSet = {}
  <2>1. JoinedSet \ {m} = JoinedSet' \ {m} /\ IsFiniteSet(JoinedSet) /\ IsFiniteSet(JoinedSet')
    BY <1>2, TeamFinite
  <2> QED BY <2>1, <1>3, CountOne
<1>5. /\ Cardinality(ActiveSet) \in Nat /\ Cardinality(ActiveSet') \in Nat
      /\ (Active(m) <=> Active(m)') => Cardinality(ActiveSet') = Cardinality(ActiveSet)
      /\ Active(m) /\ ~Active(m)' => Cardinality(ActiveSet') = Cardinality(ActiveSet) - 1
      /\ ~Active(m) /\ Active(m)' => Cardinality(ActiveSet') = Cardinality(ActiveSet) + 1
      /\ Active(m) => Cardinality(ActiveSet) > 0
      /\ Cardinality(ActiveSet) = 0 <=> ActiveSet = {}
  <2>1. ActiveSet \ {m} = ActiveSet' \ {m} /\ IsFiniteSet(ActiveSet) /\ IsFiniteSet(ActiveSet')
    BY <1>2, TeamFinite
  <2> QED BY <2>1, <1>3, CountOne
<1> QED BY <1>4, <1>5

------------------------------------------------------------------------------
(* Types.                                                                  *)

LEMMA TypeStep == IInv /\ [Next]_vars => TypeOK'
<1> SUFFICES ASSUME IInv, Next PROVE TypeOK'
  <2>1. CASE UNCHANGED vars
    BY <2>1 DEF vars, heapVars, stackVars, stateVars, teamVars, lookVars, localVars, IInv, TypeOK, top
  <2> QED BY <2>1
<1>0. TypeOK /\ GC_mark_stack \in Seq(Obj) /\ Len(GC_mark_stack) \in Nat
  BY DEF IInv, TypeOK
<1> USE DEF heapVars, stackVars, stateVars, teamVars, lookVars, localVars, Go, NotifyThen, top,
            Locations
<1>1. CASE Returned
  <2>1. GC_mark_stack' \in Seq(Obj) /\ Len(GC_mark_stack') = 0 /\ taken' = {}
    BY <1>1, EmptySeq DEF Returned
  <2>2. pc' \in [Markers -> Locations] /\ GC_mark_state' \in {"MS_NONE", "MS_ROOTS_PUSHED", "MS_INVALID"}
    BY <1>0, <1>1 DEF Returned, TypeOK
  <2>3. Len(GC_mark_stack') <= MarkStackSize
    BY <2>1, SizeAssumption
  <2> QED BY <1>0, <1>1, <2>1, <2>2, <2>3 DEF Returned, TypeOK
<1>2. CASE RescanDone
  BY <1>0, <1>2, HeapAssumption DEF RescanDone, TypeOK, PushedRoots, IInv, HomeInv, Home, HomeLocations
<1>3. CASE StartMarking
  <2>1. \A s \in Seeds : Range(s) \in SUBSET Obj
    BY HeapAssumption DEF Range
  <2>2. seeds' \in SUBSET Obj /\ hb_marks' \in SUBSET Obj
    BY <1>3, <2>1 DEF StartMarking
  <2> QED BY <1>0, <1>3, <2>2 DEF StartMarking, TypeOK
<1>4. CASE PushRoots
  BY <1>0, <1>4, HeapAssumption DEF PushRoots, TypeOK, PushedRoots, IInv, HomeInv, Home, HomeLocations
<1>5. ASSUME NEW m \in Markers, OwnStep(m) PROVE TypeOK'
  <2> USE <1>0 DEF TypeOK
  <2>0. MarkerInv(m) /\ m \in Markers
    BY DEF IInv
  <2>1. CASE GC_notify_all_marker(m)
    BY <2>1 DEF GC_notify_all_marker
  <2>2. CASE Enter(m)
    BY <2>2 DEF Enter
  <2>3. CASE Look(m)
    BY <2>3 DEF Look
  <2>4. CASE Advance(m)
    BY <2>4, SMTT(40) DEF Advance
  <2>24. ASSUME StartStealing(m)
         PROVE  /\ pc' \in [Markers -> Locations] /\ my_top' \in [Markers -> Nat]
                /\ want' \in [Markers -> Int]
    <3>1. pc' \in [Markers -> Locations] /\ my_top' \in [Markers -> Nat]
      BY <2>24 DEF StartStealing
    <3>2. want' \in [Markers -> Int]
      BY <2>24, SizeAssumption DEF StartStealing
    <3> QED BY <3>1, <3>2
  <2>5. CASE Peek(m)
    <3>1. CASE Empty(m)
      BY <2>5, <3>1 DEF Peek
    <3>2. CASE ~Empty(m)
      <4>1. StartStealing(m) /\ UNCHANGED <<after, waiting, heapVars, stackVars, stateVars, teamVars,
                                            my_first_nonempty, seen_first, localVars>>
        BY <2>5, <3>2 DEF Peek
      <4> QED BY <2>24, <4>1
    <3> QED BY <3>1, <3>2
  <2>6. ASSUME NEW active \in Nat, Idle(m, active), Joined(m)
        PROVE  GC_active_count' \in Nat /\ GC_helper_count' \in Nat
               /\ pc' \in [Markers -> Locations] /\ after' \in [Markers -> Locations]
    <3>1. GC_helper_count - 1 \in Nat
      <4>1. m \in JoinedSet
        BY <2>6 DEF JoinedSet
      <4>2. Cardinality(JoinedSet) \in Nat /\ Cardinality(JoinedSet) # 0
        BY <4>1, TeamFinite, FS_CardinalityType, FS_EmptySet
      <4> QED BY <4>2 DEF IInv, TeamInv
    <3>2. CASE GC_first_nonempty <= top
      <4>1. pc' \in [Markers -> Locations] /\ after' = after /\ GC_helper_count' = GC_helper_count
        BY <2>6, <3>2 DEF Idle
      <4>2. GC_active_count' \in Nat
        BY <2>6, <3>2 DEF Idle
      <4> QED BY <4>1, <4>2
    <3>3. CASE ~(GC_first_nonempty <= top) /\ active > 0
      BY <2>6, <3>1, <3>3 DEF Idle
    <3>4. CASE ~(GC_first_nonempty <= top) /\ ~(active > 0)
      <4>1. pc' \in [Markers -> Locations] /\ after' \in [Markers -> Locations]
        BY <2>6, <3>4 DEF Idle
      <4> QED BY <2>6, <3>1, <3>4, <4>1, SMTT(40) DEF Idle
    <3> QED BY <3>2, <3>3, <3>4
  <2>7. CASE Check(m)
    <3>1. CASE Empty(m)
      <4>1. GC_active_count - 1 \in Nat /\ Joined(m)
        <5>1. m \in ActiveSet /\ Joined(m)
          BY <2>7 DEF ActiveSet, Check, Active, Joined
        <5>2. Cardinality(ActiveSet) \in Nat /\ Cardinality(ActiveSet) # 0
          BY <5>1, TeamFinite, FS_CardinalityType, FS_EmptySet
        <5> QED BY <5>1, <5>2 DEF IInv, TeamInv
      <4> QED BY <2>6, <2>7, <3>1, <4>1, SMTT(40) DEF Check, Waiters
    <3>2. CASE ~Empty(m)
      <4>1. StartStealing(m) /\ UNCHANGED <<after, waiting, heapVars, stackVars, stateVars, teamVars,
                                            my_first_nonempty, seen_first, localVars>>
        BY <2>7, <3>2 DEF Check
      <4> QED BY <2>24, <4>1
    <3> QED BY <3>1, <3>2
  <2>8. CASE Awoken(m)
    <3>1. Joined(m)
      BY <2>8 DEF Awoken, Joined
    <3> QED BY <2>6, <2>8, <3>1 DEF Awoken, Waiters
  <2>9. CASE ReadDescr(m)
    <3>1. pc' \in [Markers -> Locations] /\ my_first_nonempty' \in [Markers -> Nat \ {0}]
      <4>1. CASE my_first_nonempty[m] \in taken
        BY <2>9, <4>1 DEF ReadDescr
      <4>2. CASE my_first_nonempty[m] \notin taken
        BY <2>9, <4>2 DEF ReadDescr
      <4> QED BY <4>1, <4>2
    <3> QED BY <2>9, <3>1 DEF ReadDescr
  <2>10. CASE Take(m)
    <3>1. my_first_nonempty[m] \in 1 .. Len(GC_mark_stack)
      BY <2>0, <2>10 DEF MarkerInv, CursorInv, Take
    <3>2. GC_mark_stack[my_first_nonempty[m]] \in Obj
      BY <3>1, ElementOfSeq
    <3>3. Append(local[m], GC_mark_stack[my_first_nonempty[m]]) \in Seq(Obj)
          /\ want[m] - 1 - Weight[GC_mark_stack[my_first_nonempty[m]]] \in Int
      BY <3>2, HeapAssumption
    <3>4. local' \in [Markers -> Seq(Obj)] /\ want' \in [Markers -> Int]
      BY <2>10, <3>3 DEF Take
    <3>5. /\ my_first_nonempty' \in [Markers -> Nat \ {0}] /\ pc' \in [Markers -> Locations]
          /\ taken' \in SUBSET (1 .. Len(GC_mark_stack))
      <4>1. my_first_nonempty' \in [Markers -> Nat \ {0}]
        BY <2>10 DEF Take
      <4>2. pc' \in [Markers -> Locations]
        BY <2>10 DEF Take
      <4>3. taken' \in SUBSET (1 .. Len(GC_mark_stack))
        BY <2>10, <3>1 DEF Take
      <4> QED BY <4>1, <4>2, <4>3
    <3> QED BY <2>10, <3>4, <3>5 DEF Take
  <2>11. CASE StopStealing(m)
    BY <2>11 DEF StopStealing
  <2>12. CASE PopLocal(m)
    BY <2>12, RangePop DEF PopLocal
  <2>13. CASE ReadMark(m)
    <3>1. pc' \in [Markers -> Locations] /\ found' \in [Markers -> Obj \cup {NoObj}]
          /\ cur' \in [Markers -> SUBSET Obj]
      <4> PICK o \in cur[m] :
            /\ cur' = [cur EXCEPT ![m] = @ \ {o}]
            /\ IF o \in hb_marks THEN UNCHANGED <<pc, found>>
               ELSE Go(m, "set_mark") /\ found' = [found EXCEPT ![m] = o]
        BY <2>13 DEF ReadMark
      <4>1. cur' \in [Markers -> SUBSET Obj] /\ o \in Obj
        OBVIOUS
      <4>2. CASE o \in hb_marks
        BY <4>1, <4>2
      <4>3. CASE o \notin hb_marks
        <5>1. pc' \in [Markers -> Locations]
          BY <4>3
        <5>2. found' \in [Markers -> Obj \cup {NoObj}]
          BY <4>1, <4>3, ZenonT(40)
        <5> QED BY <4>1, <5>1, <5>2
      <4> QED BY <4>2, <4>3
    <3> QED BY <2>13, <3>1 DEF ReadMark
  <2>14. CASE SetMark(m)
    <3>1. found[m] \in Obj
      BY <2>0, <2>14 DEF SetMark, MarkerInv, HandInv
    <3>2. /\ Append(local[m], found[m]) \in Seq(Obj)
          /\ Append(SubSeq(local[m], 1, Len(local[m]) - Discards), found[m]) \in Seq(Obj)
      BY <3>1, SizeAssumption
    <3> QED BY <2>14, <3>1, <3>2, ZenonT(40) DEF SetMark
  <2>15. CASE LocalDone(m) \/ Starving(m)
    BY <2>15, ZenonT(40) DEF LocalDone, Starving
  <2>16. ASSUME NEW e \in Seq(Obj), NEW rest \in Seq(Obj), NEW there \in Locations,
                GC_return_mark_stack(m, e, there), local' = [local EXCEPT ![m] = rest]
         PROVE  TypeOK'
    <3>1. GC_mark_stack' \in Seq(Obj) /\ Len(GC_mark_stack') <= MarkStackSize
          /\ Len(GC_mark_stack) <= Len(GC_mark_stack')
      BY <2>16, ReturnEffect
    <3>2. GC_mark_state' \in {"MS_NONE", "MS_ROOTS_PUSHED", "MS_INVALID"}
          /\ GC_mark_stack_too_small' \in BOOLEAN
      BY <2>16 DEF GC_return_mark_stack
    <3> QED BY <2>16, <3>1, <3>2, SMTT(40) DEF GC_return_mark_stack
  <2>17. CASE ReturnAll(m)
    BY <2>16, <2>17, EmptySeq DEF ReturnAll
  <2>18. CASE ShareBottom(m)
    <3>1. Len(local[m]) > 2
      BY <2>0, <2>18 DEF ShareBottom, MarkerInv, HandInv
    <3> QED BY <2>16, <2>18, <3>1, Halves, ZenonT(40) DEF ShareBottom
  <2>19. CASE m \in Helpers /\ GC_help_marker(m)
    <3>1. pc' \in [Markers -> Locations] /\ waiting' \in SUBSET Markers /\ GC_helper_count' \in Nat
      <4>1. \A there \in Locations : GC_wait_marker(m, there) =>
              pc' \in [Markers -> Locations] /\ waiting' \in SUBSET Markers
        BY DEF GC_wait_marker
      <4>2. \A there \in Locations : Go(m, there) => pc' \in [Markers -> Locations]
        OBVIOUS
      <4>3. "offer" \in Locations /\ "left" \in Locations /\ "enter" \in Locations
        OBVIOUS
      <4>4. GC_helper_count + 1 \in Nat
        OBVIOUS
      <4> HIDE DEF Go, Locations
      <4> QED BY <2>19, <4>1, <4>2, <4>3, <4>4 DEF GC_help_marker
    <3> QED BY <2>19, <3>1 DEF GC_help_marker
  <2>20. CASE m \in Helpers /\ GC_mark_thread(m)
    BY <2>20, SMTT(40) DEF GC_mark_thread
  <2>21. CASE m = Initiator /\ GC_do_parallel_mark
    <3>1. /\ pc' \in [Markers -> Locations] /\ after' \in [Markers -> Locations]
          /\ GC_first_nonempty' \in Nat \ {0} /\ GC_help_wanted' \in BOOLEAN
          /\ GC_helper_count' \in Nat /\ GC_active_count' \in Nat
          /\ UNCHANGED <<GC_mark_no, my_mark_no>>
      <4>1. CASE GC_help_wanted \/ GC_active_count # 0 \/ GC_helper_count # 0
        BY <2>21, <4>1 DEF GC_do_parallel_mark
      <4>2. CASE ~(GC_help_wanted \/ GC_active_count # 0 \/ GC_helper_count # 0)
        <5>1. pc' \in [Markers -> Locations]
          BY <2>21, <4>2, ZenonT(40) DEF GC_do_parallel_mark
        <5>2. after' \in [Markers -> Locations]
          BY <2>21, <4>2 DEF GC_do_parallel_mark
        <5>3. /\ GC_first_nonempty' = 1 /\ GC_help_wanted' = TRUE
              /\ GC_active_count' = 0 /\ GC_helper_count' = 1
              /\ UNCHANGED <<GC_mark_no, my_mark_no>>
          BY <2>21, <4>2, Zenon DEF GC_do_parallel_mark
        <5> QED BY <5>1, <5>2, <5>3, SMTT(40)
      <4> QED BY <4>1, <4>2
    <3> QED BY <2>21, <3>1 DEF GC_do_parallel_mark
  <2>22. CASE m = Initiator /\ (Finish \/ FinishAwoken)
    <3>1. AwaitHelpers => /\ pc' \in [Markers -> Locations] /\ after' \in [Markers -> Locations]
                          /\ waiting' \in SUBSET Markers /\ GC_mark_no' \in Nat
      <4>1. CASE GC_helper_count > 0
        BY <2>22, <4>1, ZenonT(40) DEF AwaitHelpers, GC_wait_marker
      <4>2. CASE ~(GC_helper_count > 0)
        <5>1. AwaitHelpers => pc' \in [Markers -> Locations]
          BY <2>22, <4>2 DEF AwaitHelpers
        <5>2. AwaitHelpers => after' \in [Markers -> Locations]
          BY <2>22, <4>2 DEF AwaitHelpers
        <5> QED BY <2>22, <4>2, <5>1, <5>2 DEF AwaitHelpers
      <4> QED BY <4>1, <4>2
    <3> QED BY <2>22, <3>1 DEF Finish, FinishAwoken
  <2>23. CASE m = Initiator /\ (Rescan \/ FinishCollection)
    <3>1. hb_marks' \in SUBSET Obj
      BY <2>23 DEF Rescan, FinishCollection, PointedToBy
    <3>2. CASE Rescan
      BY <3>1, <3>2, SMTT(40) DEF Rescan
    <3>3. CASE FinishCollection
      <4>1. pc' \in [Markers -> Locations]
        BY <2>23, <3>3 DEF FinishCollection
      <4> QED BY <3>1, <3>3, <4>1, SMTT(40) DEF FinishCollection
    <3> QED BY <2>23, <3>2, <3>3
  <2> QED
    BY <1>5, <2>1, <2>2, <2>3, <2>4, <2>5, <2>7, <2>8, <2>9, <2>10, <2>11, <2>12, <2>13, <2>14,
       <2>15, <2>17, <2>18, <2>19, <2>20, <2>21, <2>22, <2>23
    DEF OwnStep, Marking, LookForWork, Steal, GC_mark_from, GC_do_local_mark, Helping
<1> QED BY <1>1, <1>2, <1>3, <1>4, <1>5, NextCases DEF Resetting

------------------------------------------------------------------------------
(* What a marker holds, and its cursors.                                   *)

LEMMA HandStep ==
  ASSUME IInv, NEW m \in Markers, OwnStep(m)
  PROVE  HandInv(m)'
<1>0. /\ pc \in [Markers -> Locations] /\ after \in [Markers -> Locations]
      /\ local \in [Markers -> Seq(Obj)] /\ cur \in [Markers -> SUBSET Obj]
      /\ found \in [Markers -> Obj \cup {NoObj}] /\ NoObj \notin Obj
      /\ HandInv(m)
  BY HeapAssumption DEF IInv, TypeOK, MarkerInv
<1> USE <1>0 DEF HandInv, Go, NotifyThen, lookVars, localVars
<1>1. CASE GC_notify_all_marker(m)
  BY <1>1 DEF GC_notify_all_marker
<1>2. CASE Enter(m) \/ Look(m)
  BY <1>2 DEF Enter, Look
<1>3. CASE Advance(m)
  BY <1>3 DEF Advance
<1>4. CASE Peek(m)
  BY <1>4 DEF Peek, StartStealing
<1>5. CASE Check(m)
  BY <1>5 DEF Check, StartStealing, Idle
<1>6. CASE Awoken(m)
  BY <1>6 DEF Awoken, Idle
<1>7. CASE ReadDescr(m)
  BY <1>7 DEF ReadDescr
<1>8. CASE Take(m)
  BY <1>8 DEF Take
<1>9. CASE StopStealing(m)
  BY <1>9 DEF StopStealing
<1>10. CASE PopLocal(m)
  BY <1>10 DEF PopLocal, Between
<1>11. CASE ReadMark(m)
  BY <1>11 DEF ReadMark, Scanning
<1>12. CASE SetMark(m)
  BY <1>12 DEF SetMark
<1>13. CASE LocalDone(m) \/ Starving(m)
  BY <1>13 DEF LocalDone, Starving, Between
<1>14. CASE ReturnAll(m)
  BY <1>14 DEF ReturnAll, GC_return_mark_stack, Between
<1>15. CASE ShareBottom(m)
  BY <1>15 DEF ShareBottom, GC_return_mark_stack
<1>16. CASE m \in Helpers /\ Helping(m)
  BY <1>16 DEF Helping, GC_help_marker, GC_mark_thread, GC_wait_marker
<1>17. CASE m = Initiator /\ GC_do_parallel_mark
  BY <1>17 DEF GC_do_parallel_mark
<1>18. CASE m = Initiator /\ (Finish \/ FinishAwoken)
  BY <1>18 DEF Finish, FinishAwoken, AwaitHelpers, GC_wait_marker
<1>19. CASE m = Initiator /\ (Rescan \/ FinishCollection)
  BY <1>19 DEF Rescan, FinishCollection
<1> QED
  BY <1>1, <1>2, <1>3, <1>4, <1>5, <1>6, <1>7, <1>8, <1>9, <1>10, <1>11, <1>12, <1>13, <1>14,
     <1>15, <1>16, <1>17, <1>18, <1>19
  DEF OwnStep, Marking, LookForWork, Steal, GC_mark_from, GC_do_local_mark

\* What is below a cursor stays taken.
LEMMA BelowKept ==
  ASSUME taken \subseteq taken', NEW n PROVE Below(n) => 1 .. n - 1 \subseteq taken'
  BY DEF Below

LEMMA BelowBound ==
  ASSUME TypeOK, NEW n \in Nat \ {0}, Below(n) PROVE n <= Len(GC_mark_stack) + 1
<1>1. Len(GC_mark_stack) \in Nat /\ taken \subseteq 1 .. Len(GC_mark_stack)
  BY DEF TypeOK, top
<1>2. CASE n = 1
  BY <1>1, <1>2
<1>3. CASE n # 1
  <2>1. n - 1 \in 1 .. n - 1
    BY <1>3
  <2> QED BY <1>1, <2>1 DEF Below
<1> QED BY <1>2, <1>3

LEMMA ActiveUnderway ==
  ASSUME IInv, NEW m \in Markers, Joined(m) PROVE ~Home /\ ~Ended
  BY DEF IInv, TeamInv, JoinedSet

\* Only what starts and ends a parallel mark or publishes a cursor sets the
\* cursor that all share.
LEMMA FirstKept ==
  ASSUME NEW m \in Markers, OwnStep(m), ~Advance(m), ~GC_do_parallel_mark
  PROVE  GC_first_nonempty' = GC_first_nonempty
<1> USE DEF stackVars
<1>1. CASE Marking(m)
  BY <1>1
  DEF Marking, LookForWork, Steal, GC_mark_from, GC_do_local_mark, GC_notify_all_marker, Enter,
      Look, Peek, Check, Awoken, ReadDescr, Take, StopStealing, PopLocal, ReadMark, SetMark,
      LocalDone, Starving, ReturnAll, ShareBottom, GC_return_mark_stack
<1>2. CASE m \in Helpers /\ Helping(m)
  BY <1>2 DEF Helping, GC_help_marker, GC_mark_thread
<1>3. CASE m = Initiator /\ (Rescan \/ Finish \/ FinishAwoken \/ FinishCollection)
  BY <1>3 DEF Rescan, Finish, FinishAwoken, FinishCollection
<1> QED
  BY <1>1, <1>2, <1>3 DEF OwnStep

LEMMA CursorStep ==
  ASSUME IInv, NEW m \in Markers, OwnStep(m)
  PROVE  CursorInv(m)'
<1>0. /\ pc \in [Markers -> Locations] /\ after \in [Markers -> Locations]
      /\ my_first_nonempty \in [Markers -> Nat \ {0}] /\ seen_first \in [Markers -> Nat \ {0}]
      /\ GC_first_nonempty \in Nat \ {0} /\ my_top \in [Markers -> Nat]
      /\ Len(GC_mark_stack) \in Nat /\ taken \subseteq 1 .. Len(GC_mark_stack)
      /\ HandInv(m) /\ CursorInv(m) /\ TypeOK
  <2>1. TypeOK /\ HandInv(m) /\ CursorInv(m)
    BY DEF IInv, MarkerInv
  <2> QED BY <2>1, SMTT(40) DEF TypeOK, top
<1>U. pc[m] \in {"enter", "look"} => Below(GC_first_nonempty)
  BY ActiveUnderway DEF IInv, Joined, Active
<1>T. taken \subseteq taken' /\ Len(GC_mark_stack) <= Len(GC_mark_stack')
  BY StepGrows DEF IInv, Grows
<1> USE <1>0, <1>U, <1>T DEF CursorInv, HandInv, Active, Below, Go, NotifyThen, localVars, top
<1>1. CASE GC_notify_all_marker(m)
  BY <1>1 DEF GC_notify_all_marker, lookVars
<1>2. CASE Enter(m)
  BY <1>2 DEF Enter
<1>21. CASE Look(m)
  BY <1>21 DEF Look
<1>3. CASE Advance(m)
  BY <1>3 DEF Advance
<1>4. ASSUME pc[m] \in {"peek", "check"}, StartStealing(m), ~Empty(m),
             UNCHANGED my_first_nonempty
      PROVE  CursorInv(m)'
  <2>1. my_first_nonempty[m] <= Len(GC_mark_stack) + 1
    BY <1>4, BelowBound
  <2> QED BY <1>4, <2>1 DEF StartStealing
<1>5. CASE Peek(m)
  <2>1. CASE Empty(m)
    BY <1>5, <2>1 DEF Peek
  <2>2. CASE ~Empty(m)
    BY <1>4, <1>5, <2>2 DEF Peek
  <2> QED BY <2>1, <2>2
<1>6. CASE Check(m)
  <2>1. CASE Empty(m)
    BY <1>6, <2>1 DEF Check, Idle
  <2>2. CASE ~Empty(m)
    BY <1>4, <1>6, <2>2 DEF Check
  <2> QED BY <2>1, <2>2
<1>7. CASE Awoken(m)
  BY <1>7 DEF Awoken, Idle, lookVars
<1>8. CASE ReadDescr(m)
  BY <1>8 DEF ReadDescr, stackVars
<1>9. CASE Take(m)
  BY <1>9 DEF Take
<1>10. CASE StopStealing(m)
  BY <1>10 DEF StopStealing
<1>11. CASE PopLocal(m)
  BY <1>11 DEF PopLocal, Between, lookVars
<1>12. CASE ReadMark(m)
  BY <1>12 DEF ReadMark, Scanning, lookVars
<1>13. CASE SetMark(m)
  BY <1>13 DEF SetMark, lookVars
<1>14. CASE LocalDone(m) \/ Starving(m)
  BY <1>14 DEF LocalDone, Starving, Between, lookVars
<1>15. CASE ReturnAll(m) \/ ShareBottom(m)
  BY <1>15 DEF ReturnAll, ShareBottom, GC_return_mark_stack, Between, lookVars
<1>16. CASE m \in Helpers /\ Helping(m)
  BY <1>16 DEF Helping, GC_help_marker, GC_mark_thread, GC_wait_marker, lookVars
<1>17. CASE m = Initiator /\ GC_do_parallel_mark
  BY <1>17 DEF GC_do_parallel_mark, lookVars
<1>18. CASE m = Initiator /\ (Finish \/ FinishAwoken)
  BY <1>18 DEF Finish, FinishAwoken, AwaitHelpers, GC_wait_marker, lookVars
<1>19. CASE m = Initiator /\ (Rescan \/ FinishCollection)
  BY <1>19 DEF Rescan, FinishCollection, lookVars
<1> QED
  BY <1>1, <1>2, <1>21, <1>3, <1>5, <1>6, <1>7, <1>8, <1>9, <1>10, <1>11, <1>12, <1>13, <1>14,
     <1>15, <1>16, <1>17, <1>18, <1>19
  DEF OwnStep, Marking, LookForWork, Steal, GC_mark_from, GC_do_local_mark

LEMMA PreciseStep ==
  ASSUME IInv, NEW m \in Markers, OwnStep(m)
  PROVE  PreciseInv(m)'
<1>0. /\ local \in [Markers -> Seq(Obj)] /\ cur \in [Markers -> SUBSET Obj]
      /\ found \in [Markers -> Obj \cup {NoObj}] /\ NoObj \notin Obj
      /\ hb_marks \in SUBSET Obj /\ contents \in [Obj -> SUBSET Obj]
      /\ HandInv(m) /\ PreciseInv(m) /\ CursorInv(m) /\ TypeOK
      /\ Range(GC_mark_stack) \subseteq hb_marks
  BY HeapAssumption DEF IInv, TypeOK, MarkerInv
<1>1. contents' = contents /\ hb_marks \subseteq hb_marks'
  BY <1>0, StepGrows DEF Grows
<1>2. PointedToBy(hb_marks) \subseteq PointedToBy(hb_marks')
      /\ PointedToBy(hb_marks)' = PointedToBy(hb_marks')
  BY <1>1 DEF PointedToBy
<1>3. CASE UNCHANGED <<local, cur, found>>
  BY <1>0, <1>1, <1>2, <1>3 DEF PreciseInv
<1>4. CASE Take(m)
  <2> DEFINE o == GC_mark_stack[my_first_nonempty[m]]
  <2>1. my_first_nonempty[m] \in 1 .. Len(GC_mark_stack)
    BY <1>0, <1>4 DEF TypeOK, CursorInv, Take, top
  <2>2. o \in Range(GC_mark_stack) /\ o \in Obj
    BY <1>0, <2>1, ElementOfSeq DEF Range, TypeOK
  <2>3. local'[m] = Append(local[m], o) /\ cur' = cur /\ found' = found
    BY <1>0, <1>4 DEF Take
  <2>4. Range(local'[m]) = Range(local[m]) \cup {o}
    BY <1>0, <2>2, <2>3, RangeAppend
  <2> HIDE DEF o
  <2> QED BY <1>0, <1>1, <1>2, <2>2, <2>3, <2>4 DEF PreciseInv
<1>5. CASE PopLocal(m)
  <2> DEFINE o == local[m][Len(local[m])]
             t == SubSeq(local[m], 1, Len(local[m]) - 1)
  <2>1. local'[m] = t /\ cur'[m] = contents[o] /\ found' = found
    BY <1>0, <1>5 DEF PopLocal
  <2>2. Range(local[m]) = Range(t) \cup {o} /\ o \in Obj
    BY <1>0, <1>5, RangePop DEF PopLocal
  <2> HIDE DEF o, t
  <2>3. contents[o] \subseteq PointedToBy(hb_marks)
    BY <1>0, <2>2 DEF PreciseInv, PointedToBy
  <2> QED BY <1>0, <1>1, <1>2, <2>1, <2>2, <2>3 DEF PreciseInv
<1>6. CASE ReadMark(m)
  <2>1. local' = local /\ cur'[m] \subseteq cur[m] /\ found'[m] \in {found[m]} \cup cur[m]
    BY <1>0, <1>6 DEF ReadMark
  <2> QED BY <1>0, <1>1, <1>2, <2>1 DEF PreciseInv
<1>7. CASE SetMark(m)
  <2> DEFINE o == found[m]
             t == SubSeq(local[m], 1, Len(local[m]) - Discards)
  <2>1. o \in Obj
    BY <1>0, <1>7 DEF SetMark, HandInv
  <2>2. Len(local[m]) >= LocalSize => t \in Seq(Obj) /\ Range(t) \subseteq Range(local[m])
    <3>1. Len(local[m]) >= LocalSize => Len(local[m]) - Discards \in 0 .. Len(local[m])
      BY <1>0, SizeAssumption
    <3> QED BY <1>0, <3>1, RangePrefix
  <2>3. /\ local'[m] = IF Len(local[m]) >= LocalSize THEN Append(t, o) ELSE Append(local[m], o)
        /\ cur' = cur /\ found'[m] = NoObj /\ hb_marks' = hb_marks \cup {o}
    BY <1>0, <1>7 DEF SetMark
  <2> HIDE DEF o, t
  <2>4. Range(local'[m]) \subseteq Range(local[m]) \cup {o}
    BY <1>0, <2>1, <2>2, <2>3, RangeAppend
  <2> QED BY <1>0, <1>1, <1>2, <2>3, <2>4, ZenonT(40) DEF PreciseInv
<1>8. CASE ReturnAll(m)
  <2>1. local'[m] = <<>> /\ cur' = cur /\ found' = found
    BY <1>0, <1>8 DEF ReturnAll, GC_return_mark_stack
  <2> QED BY <1>0, <1>1, <1>2, <2>1, RangeEmpty DEF PreciseInv
<1>9. CASE ShareBottom(m)
  <2> DEFINE t == SubSeq(local[m], (Len(local[m]) - 1) \div 2 + 1, Len(local[m]))
  <2>1. local'[m] = t /\ cur' = cur /\ found' = found
    BY <1>0, <1>9 DEF ShareBottom, GC_return_mark_stack
  <2>2. Len(local[m]) > 2
    BY <1>0, <1>9 DEF ShareBottom, HandInv
  <2>3. Range(t) \subseteq Range(local[m])
    BY <1>0, <2>2, Halves
  <2> HIDE DEF t
  <2> QED BY <1>0, <1>1, <1>2, <2>1, <2>3 DEF PreciseInv
<1>10. UNCHANGED <<local, cur, found>> \/ Take(m) \/ PopLocal(m) \/ ReadMark(m) \/ SetMark(m)
       \/ ReturnAll(m) \/ ShareBottom(m)
  <2> USE DEF localVars
  <2>1. CASE Marking(m)
    BY <2>1
    DEF Marking, LookForWork, Steal, GC_mark_from, GC_do_local_mark, GC_notify_all_marker, Enter,
        Look, Advance, Peek, Check, Awoken, ReadDescr, StopStealing, LocalDone, Starving
  <2>2. CASE m \in Helpers /\ Helping(m)
    BY <2>2 DEF Helping, GC_help_marker, GC_mark_thread
  <2>3. CASE m = Initiator /\ (GC_do_parallel_mark \/ Finish \/ FinishAwoken \/ Rescan
                               \/ FinishCollection)
    BY <2>3 DEF GC_do_parallel_mark, Finish, FinishAwoken, Rescan, FinishCollection
  <2> QED BY <2>1, <2>2, <2>3 DEF OwnStep
<1> QED BY <1>3, <1>4, <1>5, <1>6, <1>7, <1>8, <1>9, <1>10

\* The other markers.
LEMMA OthersKept ==
  ASSUME IInv, NEW m \in Markers, OwnStep(m), NEW k \in Markers, k # m
  PROVE  MarkerInv(k)'
<1>1. SameMarker(k) /\ Grows /\ MarkerInv(k)
  BY StepFrame, StepGrows DEF IInv, FrameOf
<1>2. Len(GC_mark_stack) \in Nat /\ Len(GC_mark_stack') \in Nat /\ my_top[k] \in Nat
  <2>1. Next
    BY DEF OwnStep, Next, Initiating, Markers
  <2>2. TypeOK /\ TypeOK'
    BY <2>1, TypeStep DEF IInv
  <2>3. GC_mark_stack \in Seq(Obj) /\ GC_mark_stack' \in Seq(Obj) /\ my_top \in [Markers -> Nat]
    BY <2>2 DEF TypeOK
  <2> QED BY <2>3
<1>3. PointedToBy(hb_marks) \subseteq PointedToBy(hb_marks)'
  BY <1>1 DEF Grows, PointedToBy
<1>4. CursorInv(k)'
  BY <1>1, <1>2 DEF MarkerInv, CursorInv, SameMarker, Active, Below, Grows, top
<1>5. HandInv(k)'
  BY <1>1 DEF MarkerInv, HandInv, SameMarker
<1>6. PreciseInv(k)'
  BY <1>1, <1>3 DEF MarkerInv, PreciseInv, SameMarker, Grows
<1> QED BY <1>4, <1>5, <1>6 DEF MarkerInv

\* Between two parallel marks nobody has any work.
LEMMA ResetStep ==
  ASSUME IInv, Resetting, NEW k \in Markers
  PROVE  MarkerInv(k)' /\ ~Joined(k) /\ ~Joined(k)' /\ ~Underway'
<1>1. /\ pc \in [Markers -> Locations] /\ ~Joined(k) /\ HandInv(k) /\ Initiator \in Markers
  BY DEF IInv, TypeOK, TeamInv, MarkerInv, JoinedSet, Resetting, Returned, RescanDone, StartMarking,
         PushRoots, Home, HomeLocations, Ended, Markers
<1>2. /\ \/ pc'[k] = pc[k]
         \/ k = Initiator /\ pc'[k] \in {"done", "mark_some", "push_roots"}
      /\ UNCHANGED <<after, local, cur, found>>
      /\ pc'[Initiator] \in {"done", "mark_some", "push_roots"}
  <2> USE DEF Go, localVars
  <2>1. CASE Returned
    BY <1>1, <2>1 DEF Returned
  <2>2. CASE RescanDone
    BY <1>1, <2>2 DEF RescanDone
  <2>3. CASE StartMarking \/ PushRoots
    BY <1>1, <2>3 DEF StartMarking, PushRoots
  <2> QED BY <2>1, <2>2, <2>3 DEF Resetting
<1>3. pc[Initiator] \in {"marked", "mark_some", "idle", "push_roots"}
  BY DEF Resetting, Returned, RescanDone, StartMarking, PushRoots
<1>4. local[k] = <<>> /\ cur[k] = {} /\ found[k] = NoObj /\ pc[k] # "share"
  BY <1>1 DEF HandInv, Joined, Active
<1>5. ~Joined(k)' /\ ~Underway'
  BY <1>1, <1>2 DEF Joined, Active, Underway, Departed
<1>6. HandInv(k)' /\ PreciseInv(k)'
  BY <1>1, <1>2, <1>3, <1>4, RangeEmpty DEF HandInv, PreciseInv
<1>7. CursorInv(k)'
  BY <1>5 DEF CursorInv, Joined, Active
<1> QED BY <1>1, <1>5, <1>6, <1>7 DEF MarkerInv

------------------------------------------------------------------------------
(* The counts.                                                             *)

LEMMA TypesOfTeam ==
  ASSUME TypeOK
  PROVE  /\ pc \in [Markers -> Locations] /\ after \in [Markers -> Locations]
         /\ GC_helper_count \in Nat /\ GC_active_count \in Nat /\ GC_help_wanted \in BOOLEAN
         /\ Initiator \in Markers
  BY DEF TypeOK, Markers

\* Whether the Initiator is away does not change when another marker moves.
LEMMA SameInitiator ==
  ASSUME NEW m \in Markers, FrameOf(m), m # Initiator
  PROVE  /\ pc'[Initiator] = pc[Initiator] /\ after'[Initiator] = after[Initiator]
         /\ Home' = Home /\ Ended' = Ended /\ Departed' = Departed /\ Underway' = Underway
<1>1. SameMarker(Initiator)
  BY DEF FrameOf, Markers
<1> QED BY <1>1 DEF SameMarker, Home, Ended, Departed, Underway, Active

\* Steps in which m neither joins nor leaves anything.
LEMMA SameTeam ==
  ASSUME IInv, NEW m \in Markers, FrameOf(m),
         UNCHANGED <<GC_help_wanted, GC_helper_count, GC_active_count>>,
         (Joined(m) <=> Joined(m)'), (Active(m) <=> Active(m)'),
         m = Initiator => /\ (Home <=> Home') /\ (Ended <=> Ended')
                          /\ (pc[Initiator] = "await_helpers" <=> pc'[Initiator] = "await_helpers")
  PROVE  TeamInv'
<1>1. /\ Cardinality(JoinedSet') = Cardinality(JoinedSet)
      /\ Cardinality(ActiveSet') = Cardinality(ActiveSet)
  BY TeamEffect DEF IInv
<1>2. JoinedSet = {} => JoinedSet' = {}
  BY <1>1, TeamFinite, FS_EmptySet
<1>3. /\ (Home <=> Home') /\ (Ended <=> Ended')
      /\ (pc[Initiator] = "await_helpers" <=> pc'[Initiator] = "await_helpers")
  BY SameInitiator
<1> HIDE DEF JoinedSet, ActiveSet, Home, Ended
<1> QED BY <1>1, <1>2, <1>3 DEF TeamInv, IInv

\* Steps of a marker at work.
Working(m) == \/ Look(m) \/ Advance(m) \/ Peek(m) \/ (Check(m) /\ ~Empty(m))
              \/ Steal(m) \/ GC_mark_from(m) \/ GC_do_local_mark(m)

LEMMA WorkingStep ==
  ASSUME IInv, NEW m \in Markers, Working(m)
  PROVE  /\ UNCHANGED <<GC_help_wanted, GC_helper_count, GC_active_count>>
         /\ Active(m) /\ Active(m)' /\ Joined(m) /\ Joined(m)'
         /\ pc'[m] \notin HomeLocations \cup {"marked", "await_helpers"}
         /\ pc'[m] = "notify" => after'[m] \in {"look", "mark"}
<1>0. pc \in [Markers -> Locations] /\ after \in [Markers -> Locations]
  BY DEF IInv, TypeOK
<1> USE <1>0 DEF Active, Joined, Go, NotifyThen, HomeLocations, teamVars
<1>1. CASE Look(m) \/ Advance(m)
  BY <1>1 DEF Look, Advance
<1>2. CASE Peek(m)
  BY <1>2 DEF Peek, StartStealing
<1>3. CASE Check(m) /\ ~Empty(m)
  BY <1>3 DEF Check, StartStealing
<1>4. CASE Steal(m)
  BY <1>4 DEF Steal, ReadDescr, Take, StopStealing
<1>5. CASE GC_mark_from(m)
  BY <1>5 DEF GC_mark_from, PopLocal, ReadMark, SetMark, Between, Scanning
<1>6. CASE GC_do_local_mark(m)
  BY <1>6 DEF GC_do_local_mark, LocalDone, Starving, ReturnAll, ShareBottom,
              GC_return_mark_stack, Between
<1> QED BY <1>1, <1>2, <1>3, <1>4, <1>5, <1>6 DEF Working

\* What Idle does to the counts: m was counted as joined, and a markers are
\* active, m not among them.
LEMMA IdleTeam ==
  ASSUME IInv, NEW m \in Markers, FrameOf(m), pc[m] \in {"check", "await"},
         NEW a \in Nat, a = Cardinality(ActiveSet \ {m}), Idle(m, a),
         UNCHANGED GC_help_wanted
  PROVE  TeamInv'
<1>1. pc \in [Markers -> Locations] /\ after \in [Markers -> Locations]
      /\ GC_helper_count \in Nat /\ Initiator \in Markers
  BY TypesOfTeam DEF IInv
<1>2. Joined(m) /\ (Active(m) <=> pc[m] = "check")
  BY DEF Joined, Active
<1>3. ~Home /\ ~Ended
  BY <1>2, ActiveUnderway
<1>4. Cardinality(ActiveSet) = IF Active(m) THEN a + 1 ELSE a
  <2>1. IsFiniteSet(ActiveSet) /\ Cardinality(ActiveSet) \in Nat
    BY TeamFinite, FS_CardinalityType
  <2>2. m \in ActiveSet <=> Active(m)
    BY DEF ActiveSet
  <2>3. Cardinality(ActiveSet \ {m}) = (IF m \in ActiveSet THEN Cardinality(ActiveSet) - 1
                                        ELSE Cardinality(ActiveSet))
    BY <2>1, FS_RemoveElement
  <2> QED BY <2>1, <2>2, <2>3
<1>5. GC_helper_count = Cardinality(JoinedSet)
      /\ (GC_help_wanted => ~Home /\ ~Ended /\ pc[Initiator] # "await_helpers")
  BY DEF IInv, TeamInv
<1>6. m = Initiator \/ (Home' = Home /\ Ended' = Ended /\ pc'[Initiator] = pc[Initiator])
  BY SameInitiator
<1>7. CASE GC_first_nonempty <= top \/ a > 0
  <2>1. /\ GC_helper_count' = GC_helper_count /\ Joined(m)'
        /\ GC_active_count' = IF pc'[m] = "look" THEN a + 1 ELSE a
        /\ pc'[m] \in {"look", "await"}
    BY <1>1, <1>7 DEF Idle, Go, Joined, Active
  <2>2. Active(m)' <=> pc'[m] = "look"
    BY <2>1 DEF Active
  <2>3. /\ Cardinality(JoinedSet') = Cardinality(JoinedSet)
        /\ Cardinality(ActiveSet') = IF pc'[m] = "look" THEN a + 1 ELSE a
    <3>1. /\ Cardinality(JoinedSet') = Cardinality(JoinedSet)
          /\ Active(m) /\ Active(m)' => Cardinality(ActiveSet') = a + 1
          /\ ~Active(m) /\ ~Active(m)' => Cardinality(ActiveSet') = a
      BY <1>2, <1>4, <2>1, TeamEffect DEF IInv
    <3>2. /\ Active(m) /\ ~Active(m)' => Cardinality(ActiveSet') = a
          /\ ~Active(m) /\ Active(m)' => Cardinality(ActiveSet') = a + 1
      <4>1. /\ Active(m) /\ ~Active(m)' => Cardinality(ActiveSet') = Cardinality(ActiveSet) - 1
            /\ ~Active(m) /\ Active(m)' => Cardinality(ActiveSet') = Cardinality(ActiveSet) + 1
        BY TeamEffect DEF IInv
      <4> HIDE DEF ActiveSet
      <4> QED BY <1>4, <4>1
    <3> QED BY <2>2, <3>1, <3>2
  <2>4. ~Home' /\ ~Ended' /\ (GC_help_wanted' => pc'[Initiator] # "await_helpers")
    BY <1>3, <1>5, <1>6, <2>1 DEF Home, Ended, HomeLocations
  <2> QED BY <1>5, <2>1, <2>3, <2>4 DEF TeamInv
<1>8. CASE ~(GC_first_nonempty <= top) /\ ~(a > 0)
  <2>1. /\ GC_helper_count' = GC_helper_count - 1 /\ GC_active_count' = 0
        /\ pc'[m] = "left" \/ (pc'[m] = "notify" /\ after'[m] = "left")
    BY <1>1, <1>8 DEF Idle, Go, NotifyThen
  <2>2. ~Active(m)' /\ ~Joined(m)'
    BY <2>1 DEF Active, Joined
  <2>3. /\ Cardinality(JoinedSet') = Cardinality(JoinedSet) - 1
        /\ Cardinality(ActiveSet') = 0
    BY <1>2, <1>4, <1>8, <2>2, TeamEffect DEF IInv
  <2>4. ~Home' /\ ~Ended' /\ (GC_help_wanted' => pc'[Initiator] # "await_helpers")
    BY <1>3, <1>5, <1>6, <2>1 DEF Home, Ended, HomeLocations
  <2> QED BY <1>5, <2>1, <2>3, <2>4 DEF TeamInv
<1> QED BY <1>7, <1>8

LEMMA TeamStep ==
  ASSUME IInv, NEW m \in Markers, OwnStep(m)
  PROVE  TeamInv'
<1>0. /\ pc \in [Markers -> Locations] /\ after \in [Markers -> Locations]
      /\ GC_helper_count \in Nat /\ GC_active_count \in Nat /\ Initiator \in Markers
      /\ HandInv(m) /\ FrameOf(m)
  BY TypesOfTeam, StepFrame DEF IInv, MarkerInv
<1>T. GC_helper_count = Cardinality(JoinedSet) /\ GC_active_count = Cardinality(ActiveSet)
      /\ (GC_help_wanted => ~Home /\ ~Ended /\ pc[Initiator] # "await_helpers")
      /\ (Home \/ Ended => JoinedSet = {})
  BY DEF IInv, TeamInv
<1>E. /\ Cardinality(JoinedSet) \in Nat /\ Cardinality(ActiveSet) \in Nat
      /\ (GC_helper_count = 0 <=> JoinedSet = {})
      /\ Joined(m) => JoinedSet # {}
  BY <1>T, TeamFinite, FS_CardinalityType, FS_EmptySet DEF JoinedSet
<1>1. CASE GC_notify_all_marker(m)
  <2>1. UNCHANGED <<GC_help_wanted, GC_helper_count, GC_active_count>>
        /\ pc[m] = "notify" /\ pc'[m] = after[m] /\ pc'[m] # "notify"
        /\ after[m] \in {"enter", "look", "mark", "left", "marked"}
    BY <1>0, <1>1 DEF GC_notify_all_marker, HandInv, teamVars, Go
  <2>2. (Joined(m) <=> Joined(m)') /\ (Active(m) <=> Active(m)')
    BY <2>1 DEF Joined, Active
  <2>3. m = Initiator => /\ (Home <=> Home') /\ (Ended <=> Ended')
                         /\ (pc[Initiator] = "await_helpers" <=> pc'[Initiator] = "await_helpers")
    BY <2>1 DEF Home, Ended, HomeLocations
  <2> QED BY <1>0, <2>1, <2>2, <2>3, SameTeam
<1>2. CASE Enter(m)
  <2>1. /\ GC_active_count' = GC_active_count + 1 /\ GC_helper_count' = GC_helper_count
        /\ GC_help_wanted' = GC_help_wanted /\ pc[m] = "enter" /\ pc'[m] = "look"
    BY <1>0, <1>2 DEF Enter, Go
  <2>2. Joined(m) /\ Joined(m)' /\ ~Active(m) /\ Active(m)'
    BY <2>1 DEF Joined, Active
  <2>3. Cardinality(JoinedSet') = Cardinality(JoinedSet)
        /\ Cardinality(ActiveSet') = Cardinality(ActiveSet) + 1
    BY <1>0, <2>2, TeamEffect DEF IInv
  <2>4. ~Home' /\ ~Ended' /\ (GC_help_wanted' => pc'[Initiator] # "await_helpers")
    BY <1>T, <1>E, <1>0, <2>1, <2>2, SameInitiator DEF Home, Ended, HomeLocations
  <2> QED BY <1>T, <2>1, <2>3, <2>4 DEF TeamInv
<1>3. CASE Working(m)
  <2>1. m = Initiator => /\ (Home <=> Home') /\ (Ended <=> Ended')
                         /\ (pc[Initiator] = "await_helpers" <=> pc'[Initiator] = "await_helpers")
    BY <1>3, WorkingStep DEF Home, Ended, HomeLocations, Active
  <2> QED BY <1>0, <1>3, <2>1, WorkingStep, SameTeam
<1>4. CASE Check(m) /\ Empty(m)
  <2>1. Idle(m, GC_active_count - 1) /\ pc[m] = "check" /\ UNCHANGED GC_help_wanted
    BY <1>4 DEF Check
  <2>2. m \in ActiveSet
    BY <2>1 DEF ActiveSet, Active
  <2>3. Cardinality(ActiveSet \ {m}) = GC_active_count - 1
    BY <1>T, <2>2, TeamFinite, FS_RemoveElement
  <2>4. Cardinality(ActiveSet \ {m}) \in Nat
    BY TeamFinite, FS_RemoveElement, FS_CardinalityType
  <2> QED BY <1>0, <2>1, <2>3, <2>4, IdleTeam
<1>5. CASE Awoken(m)
  <2>1. Idle(m, GC_active_count) /\ pc[m] = "await" /\ UNCHANGED GC_help_wanted
    BY <1>5 DEF Awoken
  <2>2. m \notin ActiveSet
    BY <2>1 DEF ActiveSet, Active
  <2>3. ActiveSet \ {m} = ActiveSet
    BY <2>2
  <2> QED BY <1>0, <1>T, <2>1, <2>3, IdleTeam
<1>6. CASE m \in Helpers /\ GC_help_marker(m)
  <2>1. m # Initiator /\ pc[m] = "offer" /\ UNCHANGED <<GC_active_count, GC_help_wanted>>
    BY <1>6, MarkersAssumption DEF GC_help_marker
  <2>2. Home' = Home /\ Ended' = Ended /\ pc'[Initiator] = pc[Initiator]
    BY <1>0, <2>1, SameInitiator
  <2>3. CASE pc'[m] = "enter"
    <3>1. GC_help_wanted /\ GC_helper_count' = GC_helper_count + 1
      BY <1>0, <1>6, <2>3 DEF GC_help_marker, GC_wait_marker, Go
    <3>2. ~Joined(m) /\ Joined(m)' /\ ~Active(m) /\ ~Active(m)'
      BY <2>1, <2>3 DEF Joined, Active
    <3>3. Cardinality(JoinedSet') = Cardinality(JoinedSet) + 1
          /\ Cardinality(ActiveSet') = Cardinality(ActiveSet)
      BY <1>0, <3>2, TeamEffect DEF IInv
    <3> QED BY <1>T, <2>1, <2>2, <3>1, <3>3 DEF TeamInv
  <2>4. CASE pc'[m] # "enter"
    <3>1. pc'[m] \in {"offer", "left"} /\ GC_helper_count' = GC_helper_count
      BY <1>0, <1>6, <2>4 DEF GC_help_marker, GC_wait_marker, Go
    <3>2. ~Joined(m) /\ ~Joined(m)' /\ ~Active(m) /\ ~Active(m)'
      BY <2>1, <3>1 DEF Joined, Active
    <3> QED BY <1>0, <2>1, <3>1, <3>2, SameTeam
  <2> QED BY <2>3, <2>4
<1>7. CASE m \in Helpers /\ GC_mark_thread(m)
  <2>1. m # Initiator /\ pc[m] = "left" /\ pc'[m] = "offer"
        /\ UNCHANGED <<GC_active_count, GC_help_wanted, GC_helper_count>>
    BY <1>0, <1>7, MarkersAssumption DEF GC_mark_thread, Go
  <2>2. ~Joined(m) /\ ~Joined(m)' /\ ~Active(m) /\ ~Active(m)'
    BY <2>1 DEF Joined, Active
  <2> QED BY <1>0, <2>1, <2>2, SameTeam
<1>8. CASE m = Initiator /\ GC_do_parallel_mark
  <2>1. pc[m] = "mark_some" /\ Home /\ JoinedSet = {} /\ ~Joined(m) /\ ~Active(m)
    BY <1>8, <1>T DEF GC_do_parallel_mark, Home, HomeLocations, Joined, Active
  <2>2. ActiveSet = {} /\ GC_helper_count = 0 /\ GC_active_count = 0 /\ ~GC_help_wanted
    <3>1. ActiveSet \subseteq JoinedSet
      BY DEF ActiveSet, JoinedSet, Joined
    <3> QED BY <1>T, <1>E, <2>1, <3>1, FS_EmptySet
  <2>3. /\ pc'[m] = "notify" /\ after'[m] = "enter"
        /\ GC_active_count' = 0 /\ GC_helper_count' = 1
    BY <1>0, <1>8, <2>2 DEF GC_do_parallel_mark, NotifyThen, Go
  <2>4. Joined(m)' /\ ~Active(m)' /\ ~Home' /\ ~Ended' /\ pc'[Initiator] # "await_helpers"
    BY <1>8, <2>3 DEF Joined, Active, Home, Ended, HomeLocations
  <2>5. Cardinality(JoinedSet') = Cardinality(JoinedSet) + 1
        /\ Cardinality(ActiveSet') = Cardinality(ActiveSet)
    BY <1>0, <2>1, <2>4, TeamEffect DEF IInv
  <2>6. Cardinality(JoinedSet') = 1 /\ Cardinality(ActiveSet') = 0
    <3>1. Cardinality(JoinedSet) = 0 /\ Cardinality(ActiveSet) = 0
      BY <1>T, <2>2
    <3> QED BY <2>5, <3>1
  <2> QED BY <2>3, <2>4, <2>6 DEF TeamInv
<1>9. CASE m = Initiator /\ (Finish \/ FinishAwoken)
  <2>1. /\ AwaitHelpers /\ pc[m] \in {"left", "await_helpers"} /\ ~GC_help_wanted'
        /\ UNCHANGED <<GC_helper_count, GC_active_count>>
    BY <1>9, <1>T DEF Finish, FinishAwoken
  <2>2. /\ pc'[m] = "await_helpers" \/ (pc'[m] = "notify" /\ after'[m] = "marked")
        /\ pc'[m] = "notify" => GC_helper_count = 0
    BY <1>0, <1>9, <2>1 DEF AwaitHelpers, GC_wait_marker, NotifyThen, Go
  <2>3. ~Joined(m) /\ ~Joined(m)' /\ ~Active(m) /\ ~Active(m)' /\ ~Home'
    BY <1>9, <2>1, <2>2 DEF Joined, Active, Home, HomeLocations
  <2>4. Cardinality(JoinedSet') = Cardinality(JoinedSet)
        /\ Cardinality(ActiveSet') = Cardinality(ActiveSet)
    BY <1>0, <2>3, TeamEffect DEF IInv
  <2>5. Ended' => JoinedSet' = {}
    <3>1. Ended' => GC_helper_count = 0
      BY <1>9, <2>2 DEF Ended
    <3> QED BY <1>T, <2>4, <3>1, TeamFinite, FS_EmptySet
  <2> QED BY <1>T, <2>1, <2>3, <2>4, <2>5 DEF TeamInv
<1>10. CASE m = Initiator /\ (Rescan \/ FinishCollection)
  <2>1. /\ pc[m] \in {"mark_some", "done"} /\ pc'[m] \in {"mark_some", "idle"}
        /\ UNCHANGED <<GC_active_count, GC_help_wanted, GC_helper_count>>
    BY <1>0, <1>10 DEF Rescan, FinishCollection, Go, teamVars
  <2>2. ~Joined(m) /\ ~Joined(m)' /\ ~Active(m) /\ ~Active(m)'
    BY <2>1 DEF Joined, Active
  <2>3. m = Initiator => /\ (Home <=> Home') /\ (Ended <=> Ended')
                         /\ (pc[Initiator] = "await_helpers" <=> pc'[Initiator] = "await_helpers")
    BY <2>1 DEF Home, Ended, HomeLocations
  <2> QED BY <1>0, <2>1, <2>2, <2>3, SameTeam
<1> QED
  BY <1>1, <1>2, <1>3, <1>4, <1>5, <1>6, <1>7, <1>8, <1>9, <1>10
  DEF OwnStep, Marking, LookForWork, Helping, Working

LEMMA TeamReset ==
  ASSUME IInv, Resetting PROVE TeamInv'
<1>1. JoinedSet = {} /\ JoinedSet' = {} /\ ActiveSet = {} /\ ActiveSet' = {}
  BY ResetStep DEF JoinedSet, ActiveSet, Joined
<1>2. UNCHANGED <<GC_helper_count, GC_active_count, GC_help_wanted>>
  BY DEF Resetting, Returned, RescanDone, StartMarking, PushRoots, teamVars
<1>3. ~GC_help_wanted
  BY DEF IInv, TeamInv, Resetting, Returned, RescanDone, StartMarking, PushRoots, Home,
         HomeLocations, Ended
<1> QED BY <1>1, <1>2, <1>3 DEF IInv, TeamInv

------------------------------------------------------------------------------
(* Before and after a parallel mark.                                       *)

LEMMA UnderwayOrHome ==
  ASSUME TypeOK PROVE (Underway <=> ~Home) /\ (Departed => Underway)
<1>1. pc[Initiator] \in Locations
  BY TypesOfTeam
<1> QED BY <1>1 DEF Locations, Underway, Departed, Active, Home, HomeLocations

\* Steps outside GC_do_parallel_mark leave alone what the next one needs.
LEMMA HomeFrame ==
  ASSUME IInv, NEW m \in Markers, OwnStep(m),
         ~(m = Initiator /\ (GC_do_parallel_mark \/ Rescan \/ FinishCollection))
  PROVE  \/ ~Home /\ ~Home'
         \/ /\ Home /\ Home' /\ pc'[Initiator] = pc[Initiator]
            /\ UNCHANGED <<contents, seeds, hb_marks, taken, GC_mark_stack, GC_mark_state>>
<1>0. /\ pc \in [Markers -> Locations] /\ after \in [Markers -> Locations]
      /\ Initiator \in Markers /\ Initiator \notin Helpers /\ HandInv(m) /\ TypeOK
  BY TypesOfTeam, MarkersAssumption DEF IInv, MarkerInv
<1>1. CASE m # Initiator
  <2>1. Home' = Home /\ pc'[Initiator] = pc[Initiator]
    BY <1>1, StepFrame, SameInitiator DEF IInv
  <2>2. ASSUME Home
        PROVE  UNCHANGED <<contents, seeds, hb_marks, taken, GC_mark_stack, GC_mark_state>>
    <3>1. ~Active(m)
      BY <2>2, ActiveUnderway DEF Joined
    <3>2. ~Take(m) /\ ~SetMark(m) /\ ~ReturnAll(m) /\ ~ShareBottom(m)
      BY <3>1 DEF Active, Take, SetMark, ReturnAll, ShareBottom, Between
    <3>3. ~Rescan
      <4>1. Marking(m) \/ (m \in Helpers /\ Helping(m))
        BY <1>1 DEF OwnStep
      <4>2. ASSUME Rescan PROVE FALSE
        <5>1. pc' = pc /\ UNCHANGED <<my_mark_no, my_first_nonempty, seen_first>>
              /\ hb_marks' # hb_marks
          <6>1. ~(PointedToBy(hb_marks) \subseteq hb_marks)
                /\ hb_marks' = hb_marks \cup PointedToBy(hb_marks)
            BY <4>2 DEF Rescan, Closed
          <6> QED BY <4>2, <6>1 DEF Rescan, teamVars, lookVars
        <5>2. hb_marks' = hb_marks \/ SetMark(m)
          <6> USE DEF stateVars
          <6>1. CASE Marking(m)
            BY <6>1 DEF Marking, LookForWork, Steal, GC_mark_from, GC_do_local_mark,
                 GC_notify_all_marker, Enter, Look, Advance, Peek, Check, Awoken, ReadDescr, Take,
                 StopStealing, PopLocal, ReadMark, LocalDone, Starving, ReturnAll, ShareBottom,
                 GC_return_mark_stack
          <6>2. CASE m \in Helpers /\ Helping(m)
            BY <6>2 DEF Helping, GC_help_marker, GC_mark_thread
          <6> QED BY <4>1, <6>1, <6>2
        <5> QED BY <3>2, <5>1, <5>2
      <4> QED BY <4>2
    <3> QED BY <1>0, <3>2, <3>3, QuietStep
  <2> QED BY <2>1, <2>2
<1>2. CASE m = Initiator
  <2>1. Marking(m) \/ Finish \/ FinishAwoken
    BY <1>0, <1>2 DEF OwnStep
  <2>2. pc[m] \notin HomeLocations
    BY <2>1, <1>2 DEF Marking, LookForWork, Steal, GC_mark_from, GC_do_local_mark, HomeLocations,
         GC_notify_all_marker, Enter, Look, Advance, Peek, Check, Awoken, ReadDescr, Take,
         StopStealing, PopLocal, ReadMark, SetMark, LocalDone, Starving, ReturnAll, ShareBottom,
         Between, Scanning, Finish, FinishAwoken
  <2>3. pc'[m] \notin HomeLocations
    <3> USE DEF HomeLocations, Go, NotifyThen
    <3>1. CASE GC_notify_all_marker(m)
      BY <1>0, <3>1 DEF GC_notify_all_marker, HandInv
    <3>2. CASE Enter(m)
      BY <1>0, <3>2 DEF Enter
    <3>3. CASE Working(m)
      BY <3>3, WorkingStep
    <3>4. CASE Awoken(m) \/ (Check(m) /\ Empty(m))
      BY <1>0, <3>4 DEF Awoken, Check, Idle
    <3>5. CASE Finish \/ FinishAwoken
      BY <1>0, <1>2, <3>5 DEF Finish, FinishAwoken, AwaitHelpers, GC_wait_marker
    <3> QED BY <2>1, <3>1, <3>2, <3>3, <3>4, <3>5 DEF Marking, LookForWork, Working
  <2> QED BY <1>2, <2>2, <2>3 DEF Home
<1> QED BY <1>1, <1>2

LEMMA ClosedSame ==
  ASSUME UNCHANGED <<contents, hb_marks>> PROVE Closed(hb_marks)' <=> Closed(hb_marks)
  BY DEF Closed, PointedToBy

LEMMA HomeStep ==
  ASSUME IInv, NEW m \in Markers, OwnStep(m)
  PROVE  HomeInv' /\ (~Home' => Below(GC_first_nonempty)')
<1>0. /\ pc \in [Markers -> Locations] /\ after \in [Markers -> Locations]
      /\ Initiator \in Markers /\ Grows /\ TypeOK /\ HomeInv
      /\ my_first_nonempty \in [Markers -> Nat \ {0}]
  BY TypesOfTeam, StepGrows DEF IInv, TypeOK
<1>1. CASE m = Initiator /\ GC_do_parallel_mark
  <2>1. Home /\ pc[m] = "mark_some" /\ JoinedSet = {}
    BY <1>1 DEF IInv, TeamInv, GC_do_parallel_mark, Home, HomeLocations
  <2>2. ~GC_help_wanted /\ GC_helper_count = 0 /\ GC_active_count = 0
    <3>1. ActiveSet = {}
      BY <2>1 DEF ActiveSet, JoinedSet, Joined
    <3> QED BY <2>1, <3>1, FS_EmptySet DEF IInv, TeamInv
  <2>3. pc'[m] = "notify" /\ GC_first_nonempty' = 1 /\ UNCHANGED <<seeds, hb_marks>>
    BY <1>0, <1>1, <2>2 DEF GC_do_parallel_mark, NotifyThen, Go, heapVars, stateVars
  <2>4. seeds \subseteq hb_marks
    BY <1>1, <2>1 DEF IInv, HomeInv
  <2>5. ~Home' /\ Below(GC_first_nonempty)'
    BY <1>1, <2>3 DEF Home, HomeLocations, Below
  <2> QED BY <1>1, <2>3, <2>4, <2>5 DEF HomeInv, HomeLocations
<1>2. CASE m = Initiator /\ Rescan
  <2>1. UNCHANGED <<pc, contents, seeds, taken, GC_mark_stack, GC_mark_state>>
        /\ pc[Initiator] = "mark_some" /\ GC_mark_state = "MS_INVALID" /\ hb_marks \subseteq hb_marks'
    BY <1>2 DEF Rescan, heapVars, stackVars
  <2> QED BY <1>0, <2>1 DEF HomeInv, Home, HomeLocations
<1>3. CASE m = Initiator /\ FinishCollection
  <2>1. /\ pc[Initiator] = "done" /\ pc'[Initiator] = "idle"
        /\ UNCHANGED <<contents, seeds, hb_marks, taken, GC_mark_stack, GC_mark_state>>
    BY <1>0, <1>3 DEF FinishCollection, Go, heapVars, stackVars, stateVars
  <2> QED BY <1>0, <2>1 DEF HomeInv, Home, HomeLocations
<1>4. CASE ~(m = Initiator /\ (GC_do_parallel_mark \/ Rescan \/ FinishCollection))
  <2>1. CASE Home
    <3>1. /\ Home' /\ pc'[Initiator] = pc[Initiator]
          /\ UNCHANGED <<contents, seeds, hb_marks, taken, GC_mark_stack, GC_mark_state>>
      BY <1>4, <2>1, HomeFrame
    <3>2. Closed(hb_marks)' <=> Closed(hb_marks)
      BY <3>1, ClosedSame
    <3> HIDE DEF Closed, Home
    <3> QED BY <1>0, <2>1, <3>1, <3>2 DEF HomeInv
  <2>2. CASE ~Home
    <3>1. ~Home'
      BY <1>4, <2>2, HomeFrame
    <3>2. HomeInv'
      <4>1. seeds' \subseteq hb_marks'
        BY <1>0, <2>2 DEF HomeInv, Home, HomeLocations, Grows
      <4> QED BY <3>1, <4>1 DEF HomeInv, Home, HomeLocations
    <3>3. Below(GC_first_nonempty)'
      <4>1. Below(GC_first_nonempty) /\ taken \subseteq taken'
        BY <1>0, <2>2 DEF IInv, Grows
      <4>2. CASE GC_first_nonempty' = GC_first_nonempty
        BY <4>1, <4>2 DEF Below
      <4>3. CASE GC_first_nonempty' # GC_first_nonempty
        <5>1. Advance(m)
          <6>1. ~GC_do_parallel_mark
            BY <2>2 DEF GC_do_parallel_mark, Home, HomeLocations
          <6> QED BY <4>3, <6>1, FirstKept
        <5>2. Below(my_first_nonempty[m]) /\ GC_first_nonempty' = my_first_nonempty[m]
          BY <4>3, <5>1 DEF IInv, MarkerInv, CursorInv, Active, Advance
        <5> QED BY <4>1, <5>2 DEF Below
      <4> QED BY <4>2, <4>3
    <3> QED BY <3>1, <3>2, <3>3
  <2> QED BY <2>1, <2>2
<1> QED BY <1>1, <1>2, <1>3, <1>4

LEMMA StackStep ==
  ASSUME IInv, NEW m \in Markers, OwnStep(m)
  PROVE  Range(GC_mark_stack') \subseteq hb_marks'
<1>0. /\ Grows /\ TypeOK /\ Range(GC_mark_stack) \subseteq hb_marks /\ Range(local[m]) \subseteq hb_marks
      /\ local[m] \in Seq(Obj)
  BY StepGrows DEF IInv, TypeOK, MarkerInv, PreciseInv
<1>1. CASE ReturnAll(m)
  BY <1>0, <1>1, ReturnEffect DEF ReturnAll, Grows
<1>2. CASE ShareBottom(m)
  <2>1. Len(local[m]) > 2
    BY <1>2 DEF ShareBottom, IInv, MarkerInv, HandInv
  <2> DEFINE e == SubSeq(local[m], 1, (Len(local[m]) - 1) \div 2)
  <2>2. GC_return_mark_stack(m, e, "mark")
    BY <1>2 DEF ShareBottom
  <2>3. e \in Seq(Obj) /\ Range(e) \subseteq Range(local[m])
    BY <1>0, <2>1, Halves
  <2> HIDE DEF e
  <2> QED BY <1>0, <2>2, <2>3, ReturnEffect DEF Grows
<1>3. CASE ~ReturnAll(m) /\ ~ShareBottom(m)
  <2>1. GC_mark_stack' = GC_mark_stack
    BY <1>0, <1>3, QuietStep DEF Take, SetMark, Rescan, stackVars
  <2> QED BY <1>0, <2>1 DEF Grows
<1> QED BY <1>1, <1>2, <1>3

------------------------------------------------------------------------------
(* Once the Initiator has left, those who come late find nothing to do.    *)

\* What m does when everything is taken.
LEMMA DrainedEffect ==
  ASSUME IInv, Drained, NEW m \in Markers, OwnStep(m), ~GC_do_parallel_mark
  PROVE  /\ UNCHANGED <<taken, GC_mark_stack>> /\ GC_first_nonempty' = top + 1
         /\ Active(m)' => /\ pc'[m] \in {"look", "advance", "peek", "check"}
                          /\ my_first_nonempty'[m] = top + 1
<1>0. /\ pc \in [Markers -> Locations] /\ after \in [Markers -> Locations]
      /\ my_first_nonempty \in [Markers -> Nat \ {0}] /\ seen_first \in [Markers -> Nat \ {0}]
      /\ Len(GC_mark_stack) \in Nat /\ TypeOK /\ HandInv(m) /\ CursorInv(m)
  BY DEF IInv, TypeOK, MarkerInv
<1>D. /\ GC_first_nonempty = Len(GC_mark_stack) + 1
      /\ Active(m) => /\ pc[m] \in {"look", "advance", "peek", "check"}
                      /\ my_first_nonempty[m] = Len(GC_mark_stack) + 1
  BY DEF Drained, top
<1>1. /\ ~Steal(m) /\ ~GC_mark_from(m) /\ ~GC_do_local_mark(m)
  BY <1>D DEF Active, Steal, ReadDescr, Take, StopStealing, GC_mark_from, PopLocal, ReadMark,
     SetMark, GC_do_local_mark, LocalDone, ReturnAll, Starving, ShareBottom, Between, Scanning
<1>2. UNCHANGED <<taken, GC_mark_stack>>
  <2>1. CASE Rescan
    BY <2>1 DEF Rescan, stackVars
  <2>2. CASE ~Rescan
    BY <1>0, <1>1, <2>2, QuietStep DEF Steal, GC_mark_from, GC_do_local_mark
  <2> QED BY <2>1, <2>2
<1>3. CASE Advance(m)
  <2>1. Active(m) /\ pc[m] = "advance"
    BY <1>3 DEF Advance, Active
  <2>2. seen_first[m] <= Len(GC_mark_stack) + 1
    BY <1>0, <2>1, BelowBound DEF CursorInv
  <2>3. ~(my_first_nonempty[m] < seen_first[m])
    BY <1>0, <1>D, <2>1, <2>2
  <2>4. pc'[m] = "peek" /\ my_first_nonempty' = my_first_nonempty
        /\ GC_first_nonempty' \in {GC_first_nonempty, my_first_nonempty[m]}
    BY <1>0, <1>3, <2>3 DEF Advance, Go
  <2> QED BY <1>2, <1>D, <2>1, <2>4 DEF top
<1>4. CASE ~Advance(m)
  <2>1. GC_first_nonempty' = GC_first_nonempty
    BY <1>4, FirstKept
  <2> USE DEF Active, Go, NotifyThen, lookVars, top
  <2>2. CASE GC_notify_all_marker(m)
    BY <1>0, <1>2, <1>D, <2>1, <2>2 DEF GC_notify_all_marker, HandInv
  <2>3. CASE Enter(m) \/ Look(m)
    BY <1>0, <1>2, <1>D, <2>1, <2>3 DEF Enter, Look
  <2>4. CASE Peek(m)
    BY <1>0, <1>2, <1>D, <2>1, <2>4 DEF Peek, Empty
  <2>5. CASE Check(m)
    BY <1>0, <1>2, <1>D, <2>1, <2>5 DEF Check, Empty, Idle
  <2>6. CASE Awoken(m)
    BY <1>0, <1>2, <1>D, <2>1, <2>6 DEF Awoken, Idle
  <2>7. CASE m \in Helpers /\ Helping(m)
    BY <1>0, <1>2, <1>D, <2>1, <2>7 DEF Helping, GC_help_marker, GC_mark_thread, GC_wait_marker
  <2>8. CASE m = Initiator /\ (Finish \/ FinishAwoken)
    BY <1>0, <1>2, <1>D, <2>1, <2>8 DEF Finish, FinishAwoken, AwaitHelpers, GC_wait_marker
  <2>9. CASE m = Initiator /\ (Rescan \/ FinishCollection)
    BY <1>0, <1>2, <1>D, <2>1, <2>9 DEF Rescan, FinishCollection
  <2> QED
    BY <1>1, <1>4, <2>2, <2>3, <2>4, <2>5, <2>6, <2>7, <2>8, <2>9
    DEF OwnStep, Marking, LookForWork
<1> QED BY <1>3, <1>4

LEMMA DrainedKept ==
  ASSUME IInv, Drained, NEW m \in Markers, OwnStep(m), ~GC_do_parallel_mark
  PROVE  Drained'
<1>1. /\ UNCHANGED <<taken, GC_mark_stack>> /\ GC_first_nonempty' = top + 1
      /\ Active(m)' => /\ pc'[m] \in {"look", "advance", "peek", "check"}
                       /\ my_first_nonempty'[m] = top + 1
  BY DrainedEffect
<1>2. ASSUME NEW k \in Markers, k # m, Active(k)'
      PROVE  pc'[k] \in {"look", "advance", "peek", "check"} /\ my_first_nonempty'[k] = top + 1
  <2>1. SameMarker(k)
    BY <1>2, StepFrame DEF IInv, FrameOf
  <2>2. Active(k)
    BY <1>2, <2>1 DEF SameMarker, Active
  <2> QED BY <1>2, <2>1, <2>2 DEF SameMarker, Drained
<1>3. top' = top /\ 1 .. top \subseteq taken
  BY <1>1 DEF top, Drained
<1> QED BY <1>1, <1>2, <1>3 DEF Drained

\* The Initiator leaves.
LEMMA LeavingDrains ==
  ASSUME IInv, OwnStep(Initiator), ~Departed, Departed'
  PROVE  Drained'
<1> DEFINE m == Initiator
<1>0. /\ pc \in [Markers -> Locations] /\ after \in [Markers -> Locations]
      /\ m \in Markers /\ m \notin Helpers /\ TypeOK /\ HandInv(m)
      /\ GC_active_count \in Nat /\ GC_first_nonempty \in Nat \ {0}
      /\ Len(GC_mark_stack) \in Nat /\ GC_active_count = Cardinality(ActiveSet)
  BY MarkersAssumption DEF IInv, TypeOK, MarkerInv, Markers, TeamInv
<1>1. \/ Check(m) /\ Empty(m) /\ Idle(m, GC_active_count - 1)
      \/ Awoken(m) /\ Idle(m, GC_active_count)
  <2> USE DEF Departed, Go, NotifyThen
  <2>1. ~GC_notify_all_marker(m)
    BY <1>0 DEF GC_notify_all_marker, HandInv
  <2>2. ~Enter(m)
    BY <1>0 DEF Enter
  <2>3. ~Working(m)
    BY <1>0, WorkingStep DEF Active
  <2>4. ~GC_do_parallel_mark
    BY <1>0 DEF GC_do_parallel_mark
  <2>5. ~Finish /\ ~FinishAwoken
    BY DEF Finish, FinishAwoken
  <2>6. ~Rescan /\ ~FinishCollection
    BY <1>0 DEF Rescan, FinishCollection
  <2>7. (Check(m) /\ Empty(m)) \/ Awoken(m)
    BY <1>0, <2>1, <2>2, <2>3, <2>4, <2>5, <2>6 DEF OwnStep, Marking, LookForWork, Working
  <2> QED BY <2>7 DEF Check, Awoken
<1>2. pc[m] \in {"check", "await"} /\ pc'[m] \notin {"look", "await"}
  BY <1>1 DEF Check, Awoken, Departed
<1>3. PICK a \in Int : Idle(m, a) /\ (a = GC_active_count \/ a = GC_active_count - 1)
                       /\ (pc[m] = "check" <=> a = GC_active_count - 1)
  BY <1>0, <1>1 DEF Check, Awoken
<1>4. ~(GC_first_nonempty <= top) /\ ~(a > 0)
  BY <1>0, <1>2, <1>3 DEF Idle, Go
<1>5. ActiveSet \subseteq {m}
  <2>1. CASE pc[m] = "await"
    BY <1>0, <1>3, <1>4, <2>1, TeamFinite, FS_EmptySet
  <2>2. CASE pc[m] = "check"
    <3>1. m \in ActiveSet
      BY <1>0, <2>2 DEF ActiveSet, Active
    <3>2. Cardinality(ActiveSet) <= 1
      BY <1>0, <1>3, <1>4, <2>2
    <3>3. IsFiniteSet(ActiveSet \ {m}) /\ Cardinality(ActiveSet \ {m}) = Cardinality(ActiveSet) - 1
      BY <3>1, TeamFinite, FS_RemoveElement
    <3>4. Cardinality(ActiveSet \ {m}) = 0
      BY <3>2, <3>3, <1>0, FS_CardinalityType
    <3> QED BY <3>3, <3>4, FS_EmptySet
  <2> QED BY <1>2, <2>1, <2>2
<1>6. ASSUME NEW k \in Markers PROVE ~Active(k)'
  <2>1. CASE k = m
    BY <1>2, <2>1 DEF Departed, Active
  <2>2. CASE k # m
    <3>1. ~Active(k) /\ SameMarker(k)
      BY <1>5, <2>2, <1>0, StepFrame DEF ActiveSet, FrameOf
    <3> QED BY <3>1 DEF SameMarker, Active
  <2> QED BY <2>1, <2>2
<1>7. UNCHANGED <<taken, GC_mark_stack, GC_first_nonempty>>
  BY <1>1 DEF Check, Awoken, stackVars
<1>8. Below(GC_first_nonempty)
  <2>1. Joined(m)
    BY <1>2 DEF Joined, Active
  <2> QED BY <1>0, <2>1, ActiveUnderway DEF IInv
<1>9. GC_first_nonempty = Len(GC_mark_stack) + 1
  BY <1>0, <1>4, <1>8, BelowBound DEF top
<1>10. 1 .. Len(GC_mark_stack) \subseteq taken
  BY <1>0, <1>8, <1>9 DEF Below
<1> QED BY <1>6, <1>7, <1>9, <1>10 DEF Drained, top

LEMMA DrainedStep ==
  ASSUME IInv, NEW m \in Markers, OwnStep(m)
  PROVE  Departed' => Drained'
<1> SUFFICES ASSUME Departed' PROVE Drained'
  OBVIOUS
<1>1. CASE GC_do_parallel_mark /\ m = Initiator
  <2>1. pc'[Initiator] \in {"abort", "notify"} /\ (pc'[Initiator] = "notify" => after'[Initiator] = "enter")
    BY <1>1, TypesOfTeam DEF IInv, GC_do_parallel_mark, Go, NotifyThen
  <2> QED BY <2>1 DEF Departed
<1>2. CASE Departed
  <2>1. ~GC_do_parallel_mark
    BY <1>2 DEF Departed, GC_do_parallel_mark
  <2> QED BY <1>2, <2>1, DrainedKept DEF IInv
<1>3. CASE ~Departed /\ m = Initiator
  BY <1>3, LeavingDrains
<1>4. CASE ~Departed /\ m # Initiator
  BY <1>4, StepFrame, SameInitiator DEF IInv
<1> QED BY <1>1, <1>2, <1>3, <1>4

------------------------------------------------------------------------------
(* Nothing is lost.                                                        *)

Covered(o) == OnStack(o) \/ WithMarker(o) \/ Finished(o)

\* Once the mark state is invalid it stays so until the mark is over.
LEMMA StateKept ==
  ASSUME TypeOK, NEW m \in Markers, OwnStep(m), GC_mark_state' # "MS_INVALID"
  PROVE  GC_mark_state # "MS_INVALID"
<1>1. CASE Take(m) \/ Rescan
  BY <1>1 DEF Take, Rescan, stateVars
<1>2. CASE SetMark(m) \/ ReturnAll(m) \/ ShareBottom(m)
  BY <1>2 DEF SetMark, ReturnAll, ShareBottom, GC_return_mark_stack
<1> QED BY <1>1, <1>2, QuietStep

\* What the markers hold changes only where they work.
LEMMA HandsKept ==
  ASSUME NEW m \in Markers, OwnStep(m),
         ~Take(m), ~PopLocal(m), ~ReadMark(m), ~SetMark(m), ~ReturnAll(m), ~ShareBottom(m)
  PROVE  UNCHANGED <<local, cur, found>>
<1> USE DEF localVars
<1>1. CASE Marking(m)
  BY <1>1
  DEF Marking, LookForWork, Steal, GC_mark_from, GC_do_local_mark, GC_notify_all_marker, Enter,
      Look, Advance, Peek, Check, Awoken, ReadDescr, StopStealing, LocalDone, Starving
<1>2. CASE m \in Helpers /\ Helping(m)
  BY <1>2 DEF Helping, GC_help_marker, GC_mark_thread
<1>3. CASE m = Initiator /\ (GC_do_parallel_mark \/ Finish \/ FinishAwoken \/ Rescan
                             \/ FinishCollection)
  BY <1>3 DEF GC_do_parallel_mark, Finish, FinishAwoken, Rescan, FinishCollection
<1> QED BY <1>1, <1>2, <1>3 DEF OwnStep

\* An object scanned stays so while what is in hand stays there or is marked.
LEMMA FinishedKept ==
  ASSUME Grows, NEW o \in Obj, Finished(o),
         \A c : InHand(c) => InHand(c)' \/ c \in hb_marks'
  PROVE  Finished(o)'
  BY DEF Finished, Grows

\* An entry stays on the stack unless it is taken or the cursor passes it.
LEMMA OnStackKept ==
  ASSUME Grows, TypeOK, TypeOK', NEW o, OnStack(o), taken' = taken,
         GC_first_nonempty' = GC_first_nonempty
  PROVE  OnStack(o)'
<1>1. PICK i \in GC_first_nonempty .. top : i \notin taken /\ GC_mark_stack[i] = o
  BY DEF OnStack
<1>2. GC_first_nonempty \in Nat \ {0} /\ Len(GC_mark_stack) \in Nat /\ Len(GC_mark_stack') \in Nat
  BY DEF TypeOK
<1>3. i \in GC_first_nonempty .. Len(GC_mark_stack') /\ GC_mark_stack'[i] = o
  BY <1>1, <1>2 DEF Grows, top
<1> QED BY <1>1, <1>3 DEF OnStack, top

LEMMA LostAtStart ==
  ASSUME IInv, GC_do_parallel_mark PROVE NothingLost'
<1>1. /\ GC_first_nonempty' \in {1, GC_first_nonempty} /\ Home /\ Len(GC_mark_stack) \in Nat
      /\ UNCHANGED <<contents, hb_marks, GC_mark_stack, taken, GC_mark_state>>
      /\ pc[Initiator] = "mark_some" /\ GC_mark_state # "MS_INVALID"
      /\ pc'[Initiator] = "abort" \/ GC_first_nonempty' = 1
  BY TypesOfTeam DEF IInv, TypeOK, GC_do_parallel_mark, Home, HomeLocations, heapVars, stateVars, Go
<1>2. SUFFICES ASSUME Underway', NEW o \in hb_marks PROVE Covered(o)'
  BY <1>1 DEF NothingLost, Covered
<1>3. GC_first_nonempty' = 1 /\ taken = {}
  BY <1>1, <1>2 DEF IInv, HomeInv, Underway, Departed, Active
<1>4. o \in Range(GC_mark_stack) \/ contents[o] \subseteq hb_marks
  BY <1>1 DEF IInv, HomeInv
<1>5. CASE o \in Range(GC_mark_stack)
  <2>1. PICK i \in 1 .. Len(GC_mark_stack) : GC_mark_stack[i] = o
    BY <1>5 DEF Range, IInv, TypeOK
  <2> QED BY <1>1, <1>3, <2>1 DEF Covered, OnStack, top
<1>6. CASE contents[o] \subseteq hb_marks
  BY <1>1, <1>6 DEF Covered, Finished
<1> QED BY <1>4, <1>5, <1>6

LEMMA LostStep ==
  ASSUME IInv, TypeOK', NEW m \in Markers, OwnStep(m)
  PROVE  NothingLost'
<1>0. /\ TypeOK /\ Grows /\ FrameOf(m) /\ MarkerInv(m)
      /\ local \in [Markers -> Seq(Obj)] /\ cur \in [Markers -> SUBSET Obj]
      /\ found \in [Markers -> Obj \cup {NoObj}] /\ hb_marks \in SUBSET Obj
      /\ contents \in [Obj -> SUBSET Obj]
  BY StepFrame, StepGrows DEF IInv, TypeOK
<1>1. CASE GC_do_parallel_mark
  BY <1>1, LostAtStart
<1>2. CASE ~GC_do_parallel_mark
  <2>1. SUFFICES ASSUME Underway', GC_mark_state' # "MS_INVALID", NEW o \in hb_marks'
                 PROVE  Covered(o)'
    BY DEF NothingLost, Covered
  <2>2. Underway /\ GC_mark_state # "MS_INVALID"
    <3>1. ~Home'
      BY <2>1, UnderwayOrHome DEF Underway, Departed, Active, Home, HomeLocations
    <3>2. CASE m = Initiator /\ (Rescan \/ FinishCollection)
      <4>1. Home'
        BY <3>2, TypesOfTeam, <1>0 DEF Rescan, FinishCollection, Go, Home, HomeLocations
      <4> QED BY <3>1, <4>1
    <3>3. CASE ~(m = Initiator /\ (Rescan \/ FinishCollection))
      <4>1. ~Home
        BY <1>2, <3>1, <3>3, HomeFrame
      <4> QED BY <1>0, <2>1, <4>1, UnderwayOrHome, StateKept
    <3> QED BY <3>2, <3>3
  <2>3. \A x \in hb_marks : Covered(x)
    BY <2>2 DEF IInv, NothingLost, Covered
  <2>4. \A k \in Markers \ {m} : local'[k] = local[k] /\ cur'[k] = cur[k] /\ found'[k] = found[k]
    BY <1>0 DEF FrameOf, SameMarker
  <2>F. o \in Obj
    BY <2>1 DEF TypeOK
  <2>5. CASE Take(m)
    <3> DEFINE p == my_first_nonempty[m]
    <3>1. /\ taken' = taken \cup {p} /\ hb_marks' = hb_marks
          /\ local'[m] = Append(local[m], GC_mark_stack[p])
          /\ UNCHANGED <<cur, found, GC_mark_stack, GC_first_nonempty>>
      BY <1>0, <2>5 DEF Take, stateVars
    <3>2. p \in 1 .. Len(GC_mark_stack) /\ GC_mark_stack[p] \in Obj
      <4>1. p \in 1 .. Len(GC_mark_stack)
        BY <1>0, <2>5 DEF TypeOK, MarkerInv, CursorInv, Take, top
      <4> QED BY <1>0, <4>1, ElementOfSeq DEF TypeOK
    <3>3. Range(local'[m]) = Range(local[m]) \cup {GC_mark_stack[p]}
      BY <1>0, <3>1, <3>2, RangeAppend
    <3> HIDE DEF p
    <3>4. CASE OnStack(o)
      <4>1. PICK i \in GC_first_nonempty .. top : i \notin taken /\ GC_mark_stack[i] = o
        BY <3>4 DEF OnStack
      <4>2. CASE i = p
        BY <3>3, <4>1, <4>2 DEF Covered, WithMarker
      <4>3. CASE i # p
        BY <3>1, <4>1, <4>3 DEF Covered, OnStack, top
      <4> QED BY <4>2, <4>3
    <3>5. CASE WithMarker(o)
      <4>1. PICK k \in Markers : o \in Range(local[k])
        BY <3>5 DEF WithMarker
      <4>2. o \in Range(local'[k])
        BY <2>4, <3>3, <4>1
      <4> QED BY <4>2 DEF Covered, WithMarker
    <3>6. CASE Finished(o)
      <4>1. \A c : InHand(c) => InHand(c)'
        BY <3>1 DEF InHand
      <4> QED BY <1>0, <2>F, <3>6, <4>1, FinishedKept DEF Covered
    <3> QED BY <2>3, <3>1, <3>4, <3>5, <3>6 DEF Covered
  <2>6. CASE PopLocal(m)
    <3> DEFINE n == Len(local[m])
               t == SubSeq(local[m], 1, n - 1)
               x == local[m][n]
    <3>1. /\ cur'[m] = contents[x] /\ local'[m] = t /\ cur[m] = {}
          /\ UNCHANGED <<found, taken, GC_mark_stack, GC_first_nonempty, hb_marks>>
      BY <1>0, <2>6 DEF PopLocal, Between, stackVars, stateVars
    <3>2. Range(local[m]) = Range(t) \cup {x}
      BY <1>0, <2>6, RangePop DEF PopLocal
    <3> HIDE DEF n, t, x
    <3>3. CASE OnStack(o)
      BY <1>0, <3>1, <3>3, OnStackKept DEF Covered
    <3>4. CASE WithMarker(o)
      <4>1. PICK k \in Markers : o \in Range(local[k])
        BY <3>4 DEF WithMarker
      <4>2. CASE k = m /\ o = x
        <5>1. \A c \in contents[o] : InHand(c)'
          BY <3>1, <4>2 DEF InHand
        <5> QED BY <1>0, <5>1 DEF Covered, Finished, Grows
      <4>3. CASE ~(k = m /\ o = x)
        <5>1. o \in Range(local'[k])
          BY <2>4, <3>1, <3>2, <4>1, <4>3
        <5> QED BY <5>1 DEF Covered, WithMarker
      <4> QED BY <4>2, <4>3
    <3>5. CASE Finished(o)
      <4>1. \A c : InHand(c) => InHand(c)'
        BY <2>4, <3>1 DEF InHand
      <4> QED BY <1>0, <2>F, <3>5, <4>1, FinishedKept DEF Covered
    <3> QED BY <2>3, <3>1, <3>3, <3>4, <3>5 DEF Covered
  <2>7. CASE ReadMark(m)
    <3>1. UNCHANGED <<local, taken, GC_mark_stack, GC_first_nonempty, hb_marks>>
      BY <2>7 DEF ReadMark, stackVars, stateVars
    <3>2. PICK c \in cur[m] : /\ cur' = [cur EXCEPT ![m] = @ \ {c}]
                              /\ IF c \in hb_marks THEN UNCHANGED <<pc, found>>
                                 ELSE Go(m, "set_mark") /\ found' = [found EXCEPT ![m] = c]
      BY <2>7 DEF ReadMark
    <3>3. cur'[m] = cur[m] \ {c} /\ (c \in hb_marks => found' = found)
          /\ (c \notin hb_marks => found'[m] = c)
      BY <1>0, <3>2
    <3>4. found[m] = NoObj
      BY <1>0, <2>7 DEF MarkerInv, HandInv, ReadMark, Scanning
    <3>5. CASE OnStack(o)
      BY <1>0, <3>1, <3>5, OnStackKept DEF Covered
    <3>6. CASE WithMarker(o)
      BY <3>1, <3>6 DEF Covered, WithMarker
    <3>7. CASE Finished(o)
      <4>1. ASSUME NEW d \in contents[o], InHand(d) PROVE InHand(d)' \/ d \in hb_marks'
        <5>1. d \in Obj /\ d # NoObj
          BY <1>0, <2>F, HeapAssumption
        <5>2. PICK k \in Markers : d \in cur[k] \/ d = found[k]
          BY <4>1 DEF InHand
        <5>3. CASE k # m
          BY <2>4, <5>2, <5>3 DEF InHand
        <5>4. CASE k = m
          BY <3>1, <3>3, <3>4, <5>1, <5>2, <5>4 DEF InHand
        <5> QED BY <5>3, <5>4
      <4> QED BY <1>0, <3>7, <4>1 DEF Covered, Finished, Grows
    <3> QED BY <2>3, <3>1, <3>5, <3>6, <3>7 DEF Covered
  <2>8. CASE SetMark(m)
    <3>1. /\ hb_marks' = hb_marks \cup {found[m]} /\ found'[m] = NoObj
          /\ local'[m] = Append(local[m], found[m])
          /\ UNCHANGED <<cur, taken, GC_mark_stack, GC_first_nonempty>>
      BY <1>0, <2>1, <2>8 DEF SetMark, stackVars
    <3>2. found[m] \in Obj
      BY <1>0, <2>8 DEF SetMark, MarkerInv, HandInv
    <3>3. Range(local'[m]) = Range(local[m]) \cup {found[m]}
      BY <1>0, <3>1, <3>2, RangeAppend
    <3>4. CASE OnStack(o)
      BY <1>0, <3>1, <3>4, OnStackKept DEF Covered
    <3>5. CASE WithMarker(o) \/ o = found[m]
      <4>1. \E k \in Markers : o \in Range(local'[k])
        BY <2>4, <3>3, <3>5 DEF WithMarker
      <4> QED BY <4>1 DEF Covered, WithMarker
    <3>6. CASE Finished(o)
      <4>1. \A c : InHand(c) => InHand(c)' \/ c \in hb_marks'
        BY <2>4, <3>1 DEF InHand
      <4> QED BY <1>0, <2>F, <3>6, <4>1, FinishedKept DEF Covered
    <3> QED BY <2>1, <2>3, <3>1, <3>4, <3>5, <3>6 DEF Covered
  <2>9. ASSUME NEW e \in Seq(Obj), NEW there, GC_return_mark_stack(m, e, there),
               Range(local[m]) \subseteq Range(e) \cup Range(local'[m])
        PROVE  Covered(o)'
    <3>1. /\ UNCHANGED <<cur, found, taken, GC_first_nonempty, hb_marks>>
          /\ \A x \in Range(e) :
               \E i \in Len(GC_mark_stack) + 1 .. Len(GC_mark_stack') : GC_mark_stack'[i] = x
      BY <1>0, <2>1, <2>9, ReturnEffect DEF GC_return_mark_stack, top
    <3>2. CASE OnStack(o)
      BY <1>0, <3>1, <3>2, OnStackKept DEF Covered
    <3>3. CASE WithMarker(o)
      <4>1. PICK k \in Markers : o \in Range(local[k])
        BY <3>3 DEF WithMarker
      <4>2. CASE o \in Range(local'[k])
        BY <4>2 DEF Covered, WithMarker
      <4>3. CASE o \notin Range(local'[k])
        <5>1. k = m /\ o \in Range(e)
          BY <2>4, <2>9, <4>1, <4>3
        <5>2. PICK i \in Len(GC_mark_stack) + 1 .. Len(GC_mark_stack') : GC_mark_stack'[i] = o
          BY <3>1, <5>1
        <5>3. GC_first_nonempty \in Nat \ {0} /\ Len(GC_mark_stack) \in Nat
              /\ Len(GC_mark_stack') \in Nat /\ taken \subseteq 1 .. Len(GC_mark_stack)
          <6>1. GC_mark_stack \in Seq(Obj) /\ GC_mark_stack' \in Seq(Obj)
            BY <1>0 DEF TypeOK
          <6>2. Len(GC_mark_stack) \in Nat /\ Len(GC_mark_stack') \in Nat
            BY <6>1
          <6>3. GC_first_nonempty \in Nat \ {0} /\ taken \subseteq 1 .. Len(GC_mark_stack)
            BY <1>0 DEF TypeOK, top
          <6> QED BY <6>2, <6>3
        <5>4. GC_first_nonempty <= Len(GC_mark_stack) + 1
          <6>1. Below(GC_first_nonempty)
            BY <1>0, <2>2, UnderwayOrHome DEF IInv
          <6> QED BY <1>0, <5>3, <6>1, BelowBound
        <5>5. i \in GC_first_nonempty .. Len(GC_mark_stack') /\ i \notin taken
          BY <5>2, <5>3, <5>4
        <5> QED BY <3>1, <5>2, <5>5 DEF Covered, OnStack, top
      <4> QED BY <4>2, <4>3
    <3>4. CASE Finished(o)
      <4>1. \A c : InHand(c) => InHand(c)'
        BY <3>1 DEF InHand
      <4> QED BY <1>0, <2>F, <3>4, <4>1, FinishedKept DEF Covered
    <3> QED BY <2>3, <3>1, <3>2, <3>3, <3>4 DEF Covered
  <2>10. CASE ReturnAll(m)
    BY <1>0, <2>9, <2>10 DEF ReturnAll
  <2>11. CASE ShareBottom(m)
    <3> DEFINE half == (Len(local[m]) - 1) \div 2
               e == SubSeq(local[m], 1, half)
               t == SubSeq(local[m], half + 1, Len(local[m]))
    <3>1. GC_return_mark_stack(m, e, "mark") /\ local'[m] = t
      BY <1>0, <2>11 DEF ShareBottom
    <3>2. Len(local[m]) > 2
      BY <1>0, <2>11 DEF ShareBottom, MarkerInv, HandInv
    <3>3. e \in Seq(Obj) /\ Range(local[m]) = Range(e) \cup Range(t)
      BY <1>0, <3>2, Halves
    <3> HIDE DEF half, e, t
    <3> QED BY <2>9, <3>1, <3>3
  <2>12. CASE Advance(m)
    <3>1. /\ UNCHANGED <<local, cur, found, taken, GC_mark_stack, hb_marks>>
          /\ GC_first_nonempty' \in {GC_first_nonempty, my_first_nonempty[m]}
      BY <2>12 DEF Advance, localVars, stateVars
    <3>2. Below(my_first_nonempty[m])
      BY <1>0, <2>12 DEF MarkerInv, CursorInv, Active, Advance
    <3>3. CASE OnStack(o)
      <4>1. PICK i \in GC_first_nonempty .. top : i \notin taken /\ GC_mark_stack[i] = o
        BY <3>3 DEF OnStack
      <4>2. /\ GC_first_nonempty \in Nat \ {0} /\ my_first_nonempty[m] \in Nat \ {0}
            /\ Len(GC_mark_stack) \in Nat
        BY <1>0 DEF TypeOK
      <4>3. i >= my_first_nonempty[m]
        BY <3>2, <4>1, <4>2 DEF Below, top
      <4>4. i \in GC_first_nonempty' .. Len(GC_mark_stack)
        BY <3>1, <4>1, <4>2, <4>3 DEF top
      <4> QED BY <3>1, <4>1, <4>4 DEF Covered, OnStack, top
    <3>4. CASE WithMarker(o)
      BY <3>1, <3>4 DEF Covered, WithMarker
    <3>5. CASE Finished(o)
      <4>1. \A c : InHand(c) => InHand(c)'
        BY <3>1 DEF InHand
      <4> QED BY <1>0, <2>F, <3>5, <4>1, FinishedKept DEF Covered
    <3> QED BY <2>3, <3>1, <3>3, <3>4, <3>5 DEF Covered
  <2>13. CASE Rescan
    BY <2>2, <2>13 DEF Rescan
  <2>14. CASE /\ ~Take(m) /\ ~PopLocal(m) /\ ~ReadMark(m) /\ ~SetMark(m) /\ ~ReturnAll(m)
              /\ ~ShareBottom(m) /\ ~Advance(m) /\ ~Rescan
    <3>1. UNCHANGED <<local, cur, found, taken, GC_mark_stack, hb_marks, GC_first_nonempty>>
      BY <1>0, <1>2, <2>14, HandsKept, QuietStep, FirstKept
    <3>2. CASE OnStack(o)
      BY <1>0, <3>1, <3>2, OnStackKept DEF Covered
    <3>3. CASE WithMarker(o)
      BY <3>1, <3>3 DEF Covered, WithMarker
    <3>4. CASE Finished(o)
      <4>1. \A c : InHand(c) => InHand(c)'
        BY <3>1 DEF InHand
      <4> QED BY <1>0, <2>F, <3>4, <4>1, FinishedKept DEF Covered
    <3> QED BY <2>3, <3>1, <3>2, <3>3, <3>4 DEF Covered
  <2> QED BY <2>5, <2>6, <2>7, <2>8, <2>10, <2>11, <2>12, <2>13, <2>14
<1> QED BY <1>1, <1>2

------------------------------------------------------------------------------
(* The invariant.                                                          *)

\* When the mark is over and nothing was dropped, marking is complete.
LEMMA CompleteAtEnd ==
  ASSUME IInv, pc[Initiator] = "marked", GC_mark_state # "MS_INVALID"
  PROVE  seeds \subseteq hb_marks /\ Closed(hb_marks)
<1>1. /\ seeds \subseteq hb_marks /\ Drained
      /\ \A o \in hb_marks : OnStack(o) \/ WithMarker(o) \/ Finished(o)
      /\ hb_marks \subseteq Obj /\ GC_first_nonempty \in Nat \ {0} /\ Len(GC_mark_stack) \in Nat
      /\ local \in [Markers -> Seq(Obj)] /\ contents \in [Obj -> SUBSET Obj] /\ NoObj \notin Obj
  BY HeapAssumption DEF IInv, HomeInv, Departed, NothingLost, Underway, TypeOK
<1>2. ASSUME NEW m \in Markers PROVE local[m] = <<>> /\ cur[m] = {} /\ found[m] = NoObj
  BY DEF IInv, MarkerInv, HandInv, TeamInv, Ended, JoinedSet, Joined, Active
<1>3. ASSUME NEW o \in hb_marks PROVE contents[o] \subseteq hb_marks
  <2>1. ~OnStack(o)
    BY <1>1 DEF OnStack, Drained, top
  <2>2. ~WithMarker(o)
    BY <1>2, RangeEmpty DEF WithMarker
  <2>3. Finished(o)
    BY <1>1, <2>1, <2>2
  <2>4. \A c \in contents[o] : ~InHand(c)
    BY <1>1, <1>2 DEF InHand
  <2> QED BY <2>3, <2>4 DEF Finished
<1> QED BY <1>1, <1>3 DEF Closed, PointedToBy

LEMMA HomeReset ==
  ASSUME IInv, Resetting
  PROVE  HomeInv' /\ Home' /\ Range(GC_mark_stack') \subseteq hb_marks'
<1>0. /\ pc \in [Markers -> Locations] /\ Initiator \in Markers /\ HomeInv
      /\ Range(GC_mark_stack) \subseteq hb_marks
  BY TypesOfTeam DEF IInv
<1> USE DEF Home, HomeLocations, heapVars, stackVars, stateVars, Go
<1>1. CASE Returned
  <2>1. /\ pc[Initiator] = "marked" /\ GC_mark_stack' = <<>> /\ taken' = {}
        /\ UNCHANGED <<contents, seeds, hb_marks>>
        /\ \/ /\ GC_mark_state = "MS_ROOTS_PUSHED" /\ pc'[Initiator] = "done"
           \/ /\ GC_mark_state # "MS_ROOTS_PUSHED" /\ pc'[Initiator] = "mark_some"
              /\ GC_mark_state' = GC_mark_state
    BY <1>0, <1>1 DEF Returned
  <2>2. GC_mark_state # "MS_INVALID" => Closed(hb_marks)
    BY <2>1, CompleteAtEnd
  <2>3. Closed(hb_marks)' <=> Closed(hb_marks)
    BY <2>1, ClosedSame
  <2>4. seeds \subseteq hb_marks
    BY <1>0, <2>1 DEF HomeInv
  <2>5. GC_mark_state # "MS_INVALID" => \A o \in hb_marks : contents[o] \subseteq hb_marks
    BY <2>2 DEF Closed, PointedToBy
  <2> HIDE DEF Closed
  <2> QED BY <2>1, <2>2, <2>3, <2>4, <2>5, RangeEmpty DEF HomeInv
<1>2. CASE RescanDone
  <2>1. /\ pc[Initiator] = "mark_some" /\ pc' = pc /\ Range(GC_mark_stack') = seeds
        /\ UNCHANGED <<contents, seeds, hb_marks, taken>> /\ Closed(hb_marks)
    BY <1>2 DEF RescanDone, PushedRoots
  <2>2. \A o \in hb_marks : contents[o] \subseteq hb_marks
    BY <2>1 DEF Closed, PointedToBy
  <2> HIDE DEF Closed
  <2> QED BY <1>0, <2>1, <2>2 DEF HomeInv
<1>3. CASE StartMarking
  <2>1. /\ pc[Initiator] = "idle" /\ pc'[Initiator] = "push_roots" /\ hb_marks' = {}
        /\ UNCHANGED <<taken, GC_mark_stack>>
    BY <1>0, <1>3 DEF StartMarking
  <2> QED BY <1>0, <2>1, RangeEmpty DEF HomeInv
<1>4. CASE PushRoots
  <2>1. /\ pc[Initiator] = "push_roots" /\ pc'[Initiator] = "mark_some" /\ hb_marks' = seeds
        /\ Range(GC_mark_stack') = seeds /\ UNCHANGED <<taken, seeds>>
    BY <1>0, <1>4 DEF PushRoots, PushedRoots
  <2> QED BY <1>0, <2>1 DEF HomeInv
<1> QED BY <1>1, <1>2, <1>3, <1>4 DEF Resetting

LEMMA InitInv == Init => IInv
<1> SUFFICES ASSUME Init PROVE IInv
  OBVIOUS
<1>1. Initiator \in Markers /\ pc \in [Markers -> {"idle", "offer"}] /\ pc[Initiator] = "idle"
  BY DEF Init, Markers
<1>2. TypeOK
  <2>1. contents \in [Obj -> SUBSET Obj]
    BY HeapAssumption DEF Init
  <2>2. /\ pc \in [Markers -> Locations] /\ after \in [Markers -> Locations]
        /\ waiting \in SUBSET Markers
    BY <1>1 DEF Init, Locations
  <2>3. /\ GC_mark_stack \in Seq(Obj) /\ Len(GC_mark_stack) <= MarkStackSize
        /\ taken \in SUBSET (1 .. top)
    BY SizeAssumption, EmptySeq DEF Init, top
  <2>4. /\ my_mark_no \in [Helpers -> Nat] /\ my_first_nonempty \in [Markers -> Nat \ {0}]
        /\ seen_first \in [Markers -> Nat \ {0}] /\ my_top \in [Markers -> Nat]
        /\ want \in [Markers -> Int]
    BY DEF Init
  <2>5. /\ local \in [Markers -> Seq(Obj)] /\ cur \in [Markers -> SUBSET Obj]
        /\ found \in [Markers -> Obj \cup {NoObj}]
    BY EmptySeq DEF Init
  <2>6. /\ seeds \in SUBSET Obj /\ hb_marks \in SUBSET Obj
        /\ GC_mark_state \in {"MS_NONE", "MS_ROOTS_PUSHED", "MS_INVALID"}
    BY DEF Init
  <2>7. GC_mark_stack_too_small \in BOOLEAN /\ GC_help_wanted \in BOOLEAN
    BY Zenon DEF Init
  <2>8. /\ GC_first_nonempty \in Nat \ {0}
        /\ GC_helper_count \in Nat /\ GC_active_count \in Nat /\ GC_mark_no \in Nat
    BY DEF Init
  <2> QED BY <2>1, <2>2, <2>3, <2>4, <2>5, <2>6, <2>7, <2>8 DEF TypeOK
<1>3. \A m \in Markers : pc[m] \in {"idle", "offer"} /\ ~Joined(m)
  BY <1>1 DEF Joined, Active
<1>4. JoinedSet = {} /\ ActiveSet = {}
  BY <1>3 DEF JoinedSet, ActiveSet, Joined
<1>5. TeamInv
  BY <1>4, FS_EmptySet DEF TeamInv, Init
<1>6. HomeInv /\ Home /\ ~Departed /\ ~Underway
  BY <1>1 DEF HomeInv, Home, HomeLocations, Departed, Underway, Active, Init
<1>7. ASSUME NEW m \in Markers PROVE MarkerInv(m)
  <2>1. local[m] = <<>> /\ cur[m] = {} /\ found[m] = NoObj
    BY DEF Init
  <2>2. CursorInv(m) /\ HandInv(m)
    BY <1>3, <2>1 DEF CursorInv, HandInv, Active
  <2>3. PreciseInv(m)
    BY <2>1, RangeEmpty DEF PreciseInv
  <2> QED BY <2>2, <2>3 DEF MarkerInv
<1>8. Range(GC_mark_stack) \subseteq hb_marks
  BY RangeEmpty DEF Init
<1> QED BY <1>2, <1>5, <1>6, <1>7, <1>8 DEF IInv, NothingLost

LEMMA NextInv == IInv /\ [Next]_vars => IInv'
<1> SUFFICES ASSUME IInv, [Next]_vars PROVE IInv'
  OBVIOUS
<1>1. TypeOK'
  BY TypeStep
<1>2. ASSUME NEW m \in Markers, OwnStep(m) PROVE IInv'
  <2>1. TeamInv' /\ HomeInv' /\ (~Home' => Below(GC_first_nonempty)')
    BY <1>2, TeamStep, HomeStep
  <2>2. ASSUME NEW k \in Markers PROVE MarkerInv(k)'
    BY <1>2, HandStep, CursorStep, PreciseStep, OthersKept DEF MarkerInv
  <2>3. Range(GC_mark_stack') \subseteq hb_marks' /\ (Departed' => Drained') /\ NothingLost'
    BY <1>1, <1>2, StackStep, DrainedStep, LostStep
  <2>4. Range(GC_mark_stack)' = Range(GC_mark_stack')
    BY DEF Range
  <2> QED BY <1>1, <2>1, <2>2, <2>3, <2>4 DEF IInv
<1>3. CASE Resetting
  <2>1. TeamInv' /\ HomeInv' /\ Home' /\ Range(GC_mark_stack') \subseteq hb_marks'
    BY <1>3, TeamReset, HomeReset
  <2>2. \A k \in Markers : MarkerInv(k)'
    BY <1>3, ResetStep
  <2>3. ~Underway' /\ ~Departed'
    BY <1>3, ResetStep, TypesOfTeam DEF IInv, Underway
  <2>4. NothingLost'
    BY <2>3 DEF NothingLost
  <2>5. Range(GC_mark_stack)' = Range(GC_mark_stack')
    BY DEF Range
  <2> QED BY <1>1, <2>1, <2>2, <2>3, <2>4, <2>5 DEF IInv
<1>4. CASE UNCHANGED vars
  <2>1. /\ UNCHANGED <<pc, after, waiting, contents, seeds, GC_mark_stack, taken, GC_first_nonempty>>
        /\ UNCHANGED <<hb_marks, GC_mark_state, GC_help_wanted, GC_helper_count, GC_active_count>>
        /\ UNCHANGED <<my_first_nonempty, seen_first, my_top, local, cur, found>>
    BY <1>4 DEF vars, heapVars, stackVars, stateVars, teamVars, lookVars, localVars
  <2>2. TeamInv' = TeamInv
    BY <2>1 DEF TeamInv, Home, Ended, JoinedSet, ActiveSet, Joined, Active
  <2>3. HomeInv' = HomeInv /\ Home' = Home
    BY <2>1 DEF HomeInv, Home, Closed, PointedToBy
  <2>4. \A m \in Markers : MarkerInv(m)' = MarkerInv(m)
    BY <2>1 DEF MarkerInv, CursorInv, HandInv, PreciseInv, Active, Below, top, PointedToBy
  <2>5. Departed' = Departed /\ Drained' = Drained
    BY <2>1 DEF Departed, Drained, Active, top
  <2>6. NothingLost' = NothingLost
    BY <2>1 DEF NothingLost, Underway, Departed, Active, OnStack, WithMarker, Finished, InHand, top
  <2> QED BY <1>1, <2>1, <2>2, <2>3, <2>4, <2>5, <2>6 DEF IInv, Below
<1> QED BY <1>2, <1>3, <1>4, NextCases

LEMMA IInvHolds == Spec => []IInv
  BY InitInv, NextInv, PTL DEF Spec

------------------------------------------------------------------------------
(* The theorems.                                                           *)

\* All variables have their types.
THEOREM TypeCorrect == Spec => []TypeOK
<1>1. IInv => TypeOK
  BY DEF IInv
<1> QED BY <1>1, IInvHolds, PTL

\* No cursor ever runs past the stack: n_on_stack does not wrap
\* (GC_mark_local, GC_steal_mark_stack).
THEOREM CursorsStayInBounds == Spec => []CursorsInBounds
<1>1. IInv => CursorsInBounds
  <2> SUFFICES ASSUME IInv, NEW m \in Markers, Active(m)
               PROVE  /\ my_first_nonempty[m] <= top + 1 /\ GC_first_nonempty <= top + 1
                      /\ pc[m] \in {"steal", "take"} => my_top[m] >= my_first_nonempty[m] - 1
    BY DEF CursorsInBounds
  <2>1. TypeOK /\ CursorInv(m) /\ Below(GC_first_nonempty)
    BY ActiveUnderway DEF IInv, MarkerInv, Joined
  <2>2. /\ my_first_nonempty[m] \in Nat \ {0} /\ GC_first_nonempty \in Nat \ {0}
        /\ my_top[m] \in Nat
    BY <2>1 DEF TypeOK
  <2> QED BY <2>1, <2>2, BelowBound DEF CursorInv, top
<1> QED BY <1>1, IInvHolds, PTL

\* The shared cursor never moves back while anybody marks.
THEOREM CursorNeverBack == Spec => CursorAdvances
<1>1. IInv /\ [Next]_vars => [GC_first_nonempty' < GC_first_nonempty =>
                                \A m \in Markers : ~Active(m)]_vars
  <2> SUFFICES ASSUME IInv, Next, GC_first_nonempty' < GC_first_nonempty, NEW k \in Markers
               PROVE  ~Active(k)
    OBVIOUS
  <2>1. GC_first_nonempty \in Nat
    BY DEF IInv, TypeOK
  <2>2. CASE Resetting
    BY <2>2, ResetStep DEF Joined
  <2>3. ASSUME NEW m \in Markers, OwnStep(m) PROVE ~Active(k)
    <3>1. CASE GC_do_parallel_mark
      <4>1. Home
        BY <3>1 DEF GC_do_parallel_mark, Home, HomeLocations
      <4> QED BY <4>1, ActiveUnderway DEF Joined
    <3>2. ~Advance(m)
      BY <2>1 DEF Advance, IInv, TypeOK
    <3>3. CASE ~GC_do_parallel_mark
      BY <2>1, <2>3, <3>2, <3>3, FirstKept
    <3> QED BY <3>1, <3>3
  <2> QED BY <2>2, <2>3, NextCases
<1> QED BY <1>1, IInvHolds, PTL DEF Spec, CursorAdvances

\* Whatever is marked has been looked at, is waiting on a stack, or is in the
\* hands of a marker, unless the mark state says that entries were dropped.
THEOREM NothingGetsLost == Spec => []NothingLost
<1>1. IInv => NothingLost
  BY DEF IInv
<1> QED BY <1>1, IInvHolds, PTL

\* When the Initiator has left GC_mark_local the stack is used up and nobody
\* holds work, late helpers included.
THEOREM LeavingIsSafe == Spec => []LeavingMeansDone
<1>1. IInv => LeavingMeansDone
  <2> SUFFICES ASSUME IInv, Departed PROVE taken = 1 .. top /\ \A m \in Markers : HoldsNothing(m)
    BY DEF LeavingMeansDone
  <2>1. taken = 1 .. top
    BY DEF IInv, Drained, TypeOK
  <2>2. ASSUME NEW m \in Markers PROVE HoldsNothing(m)
    BY DEF IInv, Drained, MarkerInv, HandInv, HoldsNothing, Active
  <2> QED BY <2>1, <2>2
<1> QED BY <1>1, IInvHolds, PTL

\* When GC_do_parallel_mark returns and nothing was dropped, what the roots
\* lead to is marked.
THEOREM ParallelComplete == Spec => []MarkingComplete
<1>1. IInv => MarkingComplete
  BY CompleteAtEnd DEF MarkingComplete
<1> QED BY <1>1, IInvHolds, PTL

------------------------------------------------------------------------------
(* The refinement of MarkSpec.                                             *)

Status == IF pc[Initiator] = "idle" THEN "idle"
          ELSE IF pc[Initiator] = "done" THEN "marked" ELSE "marking"

\* A step of marking: the marks grow by what marked objects point to.
LEMMA MarkingStep ==
  ASSUME IInv, NEW m \in Markers, OwnStep(m), ~FinishCollection
  PROVE  /\ UNCHANGED <<contents, seeds>> /\ hb_marks \subseteq hb_marks'
         /\ hb_marks' \subseteq hb_marks \cup PointedToBy(hb_marks)
         /\ Status' = Status /\ (hb_marks' # hb_marks => Status = "marking")
<1>0. /\ pc \in [Markers -> Locations] /\ Initiator \in Markers /\ Grows /\ TypeOK
      /\ MarkerInv(m)
  BY TypesOfTeam, StepGrows DEF IInv
<1>1. CASE m = Initiator /\ GC_do_parallel_mark
  <2>1. pc[Initiator] = "mark_some" /\ pc'[Initiator] \in {"abort", "notify"} /\ hb_marks' = hb_marks
    BY <1>0, <1>1 DEF GC_do_parallel_mark, Go, NotifyThen, stateVars
  <2> QED BY <1>0, <2>1 DEF Status, Grows
<1>2. CASE m = Initiator /\ Rescan
  <2>1. pc[Initiator] = "mark_some" /\ pc' = pc
        /\ hb_marks' = hb_marks \cup PointedToBy(hb_marks)
    BY <1>2 DEF Rescan
  <2> QED BY <1>0, <2>1 DEF Status, Grows
<1>3. CASE ~(m = Initiator /\ (GC_do_parallel_mark \/ Rescan \/ FinishCollection))
  <2>1. \/ ~Home /\ ~Home'
        \/ Home /\ Home' /\ pc'[Initiator] = pc[Initiator] /\ hb_marks' = hb_marks
    BY <1>3, HomeFrame
  <2>2. Status' = Status /\ (hb_marks' # hb_marks => Status = "marking")
    BY <2>1 DEF Status, Home, HomeLocations
  <2>3. hb_marks' \subseteq hb_marks \cup PointedToBy(hb_marks)
    <3>1. CASE SetMark(m)
      <4>1. found[m] \in PointedToBy(hb_marks) /\ hb_marks' = hb_marks \cup {found[m]}
        BY <1>0, <3>1 DEF SetMark, MarkerInv, PreciseInv, HandInv
      <4> QED BY <4>1
    <3>2. CASE ~SetMark(m)
      <4>1. hb_marks' = hb_marks \/ hb_marks' = hb_marks \cup PointedToBy(hb_marks)
        <5>1. CASE Take(m) \/ ReturnAll(m) \/ ShareBottom(m)
          BY <5>1 DEF Take, ReturnAll, ShareBottom, GC_return_mark_stack, stateVars
        <5>2. CASE Rescan
          BY <5>2 DEF Rescan
        <5> QED BY <1>0, <3>2, <5>1, <5>2, QuietStep
      <4> QED BY <4>1
    <3> QED BY <3>1, <3>2
  <2> QED BY <1>0, <2>2, <2>3 DEF Grows
<1> QED BY <1>1, <1>2, <1>3

\* Whatever the interleaving, parallel marking is the abstract marking.
THEOREM Implements == Spec => ImplementsMarkSpec
<1>S. Promise!vars = <<Status, contents, seeds, hb_marks>>
  BY DEF Promise!vars, Status
<1>1. Init => Promise!Init
  BY HeapAssumption DEF Init, Promise!Init, Markers
<1>2. IInv /\ IInv' /\ [Next]_vars => [Promise!Next]_(Promise!vars)
  <2> SUFFICES ASSUME IInv, IInv', [Next]_vars PROVE [Promise!Next]_(Promise!vars)
    OBVIOUS
  <2>0. /\ pc \in [Markers -> Locations] /\ Initiator \in Markers /\ hb_marks \in SUBSET Obj
        /\ seeds \in SUBSET Obj /\ seeds' \in SUBSET Obj /\ hb_marks' \in SUBSET Obj
    BY TypesOfTeam DEF IInv, TypeOK
  <2>1. CASE FinishCollection
    <3>1. /\ pc[Initiator] = "done" /\ pc'[Initiator] = "idle"
          /\ UNCHANGED <<contents, seeds, hb_marks>>
      BY <2>0, <2>1 DEF FinishCollection, Go, heapVars, stateVars
    <3>2. Promise!Sweep
      BY <2>0, <3>1 DEF Promise!Sweep
    <3> QED BY <3>2 DEF Promise!Next
  <2>2. ASSUME NEW m \in Markers, OwnStep(m), ~FinishCollection
        PROVE  [Promise!Next]_(Promise!vars)
    <3>1. /\ UNCHANGED <<contents, seeds>> /\ hb_marks \subseteq hb_marks'
          /\ hb_marks' \subseteq hb_marks \cup PointedToBy(hb_marks)
          /\ Status' = Status /\ (hb_marks' # hb_marks => Status = "marking")
      BY <2>2, MarkingStep
    <3>2. CASE hb_marks' = hb_marks
      BY <3>1, <3>2, <1>S DEF Promise!vars, Status
    <3>3. CASE hb_marks' # hb_marks
      <4>1. hb_marks \cap Obj = hb_marks
        BY <2>0
      <4>2. Promise!Mark
        BY <3>1, <3>3, <4>1 DEF Promise!Mark, Promise!PointedToBy, PointedToBy, Status
      <4> QED BY <4>2 DEF Promise!Next
    <3> QED BY <3>2, <3>3
  <2>3. CASE Returned
    <3>1. /\ pc[Initiator] = "marked" /\ UNCHANGED <<contents, seeds, hb_marks>>
          /\ \/ GC_mark_state = "MS_ROOTS_PUSHED" /\ pc'[Initiator] = "done"
             \/ pc'[Initiator] = "mark_some"
      BY <2>0, <2>3 DEF Returned, Go, heapVars
    <3>2. CASE pc'[Initiator] = "mark_some"
      BY <3>1, <3>2 DEF Promise!vars
    <3>3. CASE pc'[Initiator] # "mark_some"
      <4>1. seeds \subseteq hb_marks /\ Closed(hb_marks)
        BY <3>1, <3>3, CompleteAtEnd
      <4>2. hb_marks \cap Obj = hb_marks
        BY <2>0
      <4>3. Promise!Finish
        BY <3>1, <3>3, <4>1, <4>2
        DEF Promise!Finish, Promise!Closed, Promise!PointedToBy, Closed, PointedToBy
      <4> QED BY <4>3 DEF Promise!Next
    <3> QED BY <3>2, <3>3
  <2>4. CASE RescanDone
    <3>1. pc' = pc /\ UNCHANGED <<contents, seeds, hb_marks>>
      BY <2>4 DEF RescanDone, heapVars
    <3> QED BY <3>1 DEF Promise!vars
  <2>5. CASE StartMarking
    <3>1. /\ pc[Initiator] = "idle" /\ pc'[Initiator] = "push_roots"
          /\ contents' = contents /\ hb_marks' = {}
      BY <2>0, <2>5 DEF StartMarking, Go
    <3>2. Promise!Start
      BY <2>0, <3>1 DEF Promise!Start
    <3> QED BY <3>2 DEF Promise!Next
  <2>6. CASE PushRoots
    <3>1. /\ pc[Initiator] = "push_roots" /\ pc'[Initiator] = "mark_some"
          /\ UNCHANGED <<contents, seeds>> /\ hb_marks' = seeds /\ hb_marks = {}
      BY <2>0, <2>6 DEF PushRoots, Go, heapVars, IInv, HomeInv
    <3>2. Promise!Mark
      BY <2>0, <3>1 DEF Promise!Mark
    <3> QED BY <3>2 DEF Promise!Next
  <2>7. CASE UNCHANGED vars
    <3>1. pc' = pc /\ UNCHANGED <<contents, seeds, hb_marks>>
      BY <2>7 DEF vars, heapVars, stateVars
    <3> QED BY <3>1 DEF Promise!vars
  <2> QED
    BY <2>1, <2>2, <2>3, <2>4, <2>5, <2>6, <2>7, NextCases DEF Resetting
<1> QED
  BY <1>1, <1>2, IInvHolds, PTL DEF Spec, ImplementsMarkSpec, Promise!Spec

=============================================================================
