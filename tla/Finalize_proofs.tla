--------------------------- MODULE Finalize_proofs ---------------------------
(***************************************************************************)
(* For any finite number of threads, objects, links and finalizers, and    *)
(* any procedures: a collection frees nothing the program, the queue or    *)
(* the tables can still lead to, no link is left that would be cleared in  *)
(* memory that is no longer its owner's, and no object waits for its       *)
(* finalizer that the program can come to.                                 *)
(***************************************************************************)
EXTENDS Finalize, TLAPS, SequenceTheorems

-----------------------------------------------------------------------------
(* The inductive invariant                                                 *)

Passes == {"links", "mark", "enqueue", "java", "revive", "dangling", "sweep"}

\* The set C holds what the program has, what is in the queue, and what is in
\* the tables.
ProgramIn(C) ==
  /\ held \subseteq C
  /\ \A t \in Threads :
       /\ request[t].obj \in C \cup {Nowhere}
       /\ request[t].link \in Link => Home[request[t].link] \in C \cup {Nowhere}
QueueIn(C) == \A e \in Queued : e.obj \in C
TablesIn(C) ==
  /\ Registered \subseteq C
  /\ \A l \in Linked : ToSet(dl_head[l]) \subseteq C /\ Home[l] \in C \cup {Nowhere}

\* All of it is allocated, and what that points to.
AllocInv ==
  \E C \in SUBSET allocated : Closed(C) /\ ProgramIn(C) /\ QueueIn(C) /\ TablesIn(C)

\* Who has the lock, and what an unfinished call is about.
CallInv ==
  /\ \A t \in Threads : /\ pc[t] \in {"fo", "link", "dl"} => request[t].obj \in Obj
                        /\ IF pc[t] \in {"link", "dl"} THEN request[t].link \in Link
                           ELSE request[t].link = Nowhere
                        /\ pc[t] = "enqueue" => phase = "all"
  /\ \A t, u \in Threads : pc[t] = "enqueue" /\ pc[u] = "enqueue" => t = u

\* Procedures are those of the program.
UsesInv ==
  /\ \A o \in Obj : ToSet(fo_head[o]) \subseteq program.uses[o]
  /\ \A e \in Queued : e.proc \in program.uses[e.obj]
  /\ \A t \in Threads : pc[t] = "fo" => request[t].proc \in program.uses[request[t].obj]

\* A link is registered for one object.
OneLink == \A l \in Link : dl_head[l] = <<>> \/ \E o \in Obj : dl_head[l] = <<o>>

\* A link that the program can read holds what it is, or is about to be,
\* registered for.
CellInv ==
  /\ \A t \in Threads :
       request[t].link \in Link => cell[request[t].link] \in {request[t].obj, Nowhere}
  /\ \A l \in Link :
       /\ cell[l] # Nowhere
       /\ Home[l] \in allocated \cup {Nowhere}
       /\ phase = "sweep" => Home[l] \in marks \cup {Nowhere}
       => \/ cell[l] \in ToSet(dl_head[l])
          \/ \E t \in Threads : request[t].link = l /\ request[t].obj = cell[l]

\* A finalizer of a marked object, or one whose contents have been marked.
Traced(o, p) == o \in marks \/ Pushes(o, p) \subseteq marks

\* What is marked in each pass.
LinksMarked(L) == \A l \in L : ToSet(dl_head[l]) \subseteq marks
TableTraced(S) == \A o \in S : \A p \in ToSet(fo_head[o]) : Traced(o, p)
QueueTraced == \A e \in Queued : Traced(e.obj, e.proc)
QueueMarked(n, procs) ==
  \A i \in DOMAIN GC_finalize_now :
    i < n /\ GC_finalize_now[i].proc \in procs => GC_finalize_now[i].obj \in marks

PassInv ==
  /\ phase = "links" => todo \subseteq Linked /\ LinksMarked(Linked \ todo)
  /\ phase \in Passes \ {"links"} => LinksMarked(Linked)
  /\ phase \in {"links", "mark", "dangling", "sweep"} => QueueIn(marks)
  /\ phase = "mark" => TableTraced(Registered \ todo)
  /\ phase = "enqueue" => /\ Registered \ todo \subseteq marks
                          /\ TableTraced(Registered) /\ QueueTraced
                          /\ java \/ QueueIn(marks)
  /\ phase \in {"enqueue", "all"} => todo \subseteq Registered
  /\ phase \in {"java", "revive"} => java /\ at >= 1 /\ QueueTraced
  /\ phase \in {"java", "revive", "dangling", "sweep"} => Registered \subseteq marks
  /\ phase = "java" => QueueMarked(at, Procs \ {"unreachable"})
  /\ phase = "revive" => /\ QueueMarked(at, Procs)
                         /\ QueueMarked(Len(GC_finalize_now) + 1, Procs \ {"unreachable"})
  /\ phase = "sweep" => \A l \in Linked : Home[l] \in marks \cup {Nowhere}

MarkInv == /\ phase \in Passes => Closed(marks) /\ ProgramIn(marks)
           /\ PassInv

IInv == /\ TypeOK /\ CallInv /\ UsesInv /\ OneLink
        /\ AllocInv /\ CellInv /\ MarkInv

-----------------------------------------------------------------------------
(* Sequences                                                               *)

\* Another first element.
LEMMA FirstReplaced ==
  ASSUME NEW S, NEW s \in Seq(S), s # <<>>, NEW e \in S
  PROVE  /\ [s EXCEPT ![1] = e] \in Seq(S) /\ [s EXCEPT ![1] = e] # <<>>
         /\ Len([s EXCEPT ![1] = e]) = Len(s)
         /\ ToSet([s EXCEPT ![1] = e]) \subseteq ToSet(s) \cup {e}
<1> DEFINE s2 == [s EXCEPT ![1] = e]
<1>1. 1 \in 1 .. Len(s) /\ DOMAIN s = 1 .. Len(s)
  BY EmptySeq, LenProperties
<1>2. s2 \in Seq(S) /\ Len(s2) = Len(s) /\ \A j \in 1 .. Len(s) : s2[j] = IF j = 1 THEN e ELSE s[j]
  BY <1>1, ExceptSeq
<1>3. DOMAIN s2 = 1 .. Len(s)
  BY <1>2, LenProperties
<1>4. ToSet(s2) \subseteq ToSet(s) \cup {e}
  BY <1>1, <1>2, <1>3 DEF ToSet
<1> QED
  BY <1>1, <1>2, <1>4, EmptySeq

\* One more in front.
LEMMA FirstAdded ==
  ASSUME NEW S, NEW s \in Seq(S), NEW e \in S
  PROVE  /\ <<e>> \o s \in Seq(S) /\ <<e>> \o s # <<>>
         /\ Len(<<e>> \o s) = Len(s) + 1
         /\ ToSet(<<e>> \o s) = ToSet(s) \cup {e}
         /\ \A i \in 1 .. Len(s) + 1 : (<<e>> \o s)[i] = IF i = 1 THEN e ELSE s[i - 1]
<1> DEFINE s2 == <<e>> \o s
<1>1. <<e>> \in Seq(S) /\ Len(<<e>>) = 1 /\ <<e>>[1] = e
  OBVIOUS
<1>2. /\ s2 \in Seq(S) /\ Len(s2) = Len(s) + 1 /\ Len(s) \in Nat
      /\ \A i \in 1 .. Len(s) + 1 : s2[i] = IF i <= 1 THEN <<e>>[i] ELSE s[i - 1]
  BY <1>1, ConcatProperties, LenProperties
<1>3. \A i \in 1 .. Len(s) + 1 : s2[i] = IF i = 1 THEN e ELSE s[i - 1]
  BY <1>1, <1>2
<1>4. DOMAIN s2 = 1 .. Len(s) + 1 /\ DOMAIN s = 1 .. Len(s)
  BY <1>2, LenProperties
<1>5. ToSet(s2) = ToSet(s) \cup {e}
  <2>1. ToSet(s2) \subseteq ToSet(s) \cup {e}
    BY <1>2, <1>3, <1>4 DEF ToSet
  <2>2. e \in ToSet(s2)
    BY <1>2, <1>3, <1>4 DEF ToSet
  <2>3. ASSUME NEW i \in 1 .. Len(s) PROVE s[i] \in ToSet(s2)
    <3>1. i + 1 \in 1 .. Len(s) + 1 /\ s2[i + 1] = s[i]
      BY <1>2, <1>3
    <3> QED
      BY <3>1, <1>4 DEF ToSet
  <2> QED
    BY <2>1, <2>2, <2>3, <1>4 DEF ToSet
<1>6. s2 # <<>>
  BY <1>2, EmptySeq
<1> QED
  BY <1>2, <1>3, <1>5, <1>6

\* One fewer in front.
LEMMA FirstRemoved ==
  ASSUME NEW S, NEW s \in Seq(S), s # <<>>
  PROVE  /\ Tail(s) \in Seq(S) /\ Head(s) \in S /\ Head(s) \in ToSet(s)
         /\ Len(Tail(s)) = Len(s) - 1
         /\ ToSet(Tail(s)) \subseteq ToSet(s)
<1>1. DOMAIN s = 1 .. Len(s) /\ Len(s) \in Nat \ {0} /\ Head(s) = s[1]
  BY LenProperties, EmptySeq
<1>2. /\ Tail(s) \in Seq(S) /\ Len(Tail(s)) = Len(s) - 1
      /\ \A i \in 1 .. Len(Tail(s)) : Tail(s)[i] = s[i + 1]
  BY HeadTailProperties
<1>3. DOMAIN Tail(s) = 1 .. Len(Tail(s))
  BY <1>2, LenProperties
<1>4. ToSet(Tail(s)) \subseteq ToSet(s)
  BY <1>1, <1>2, <1>3 DEF ToSet
<1>5. Head(s) \in ToSet(s)
  BY <1>1 DEF ToSet
<1> QED
  BY <1>2, <1>4, <1>5, HeadTailProperties

\* One fewer somewhere.
LEMMA OneRemoved ==
  ASSUME NEW S, NEW s \in Seq(S), NEW n \in 1 .. Len(s)
  PROVE  /\ RemoveAt(s, n) \in Seq(S)
         /\ Len(RemoveAt(s, n)) = Len(s) - 1
         /\ ToSet(RemoveAt(s, n)) \subseteq ToSet(s)
         /\ \A i \in 1 .. Len(s) - 1 : RemoveAt(s, n)[i] = s[IF i < n THEN i ELSE i + 1]
<1> DEFINE a == SubSeq(s, 1, n - 1)
           b == SubSeq(s, n + 1, Len(s))
<1>1. DOMAIN s = 1 .. Len(s) /\ Len(s) \in Nat /\ \A i \in 1 .. Len(s) : s[i] \in S
  BY LenProperties
<1>2. a \in Seq(S) /\ Len(a) = n - 1 /\ \A i \in 1 .. n - 1 : a[i] = s[i]
  <2>1. \A i \in 1 .. n - 1 : s[i] \in S
    BY <1>1
  <2> QED
    BY <2>1, <1>1, SubSeqProperties
<1>3. b \in Seq(S) /\ Len(b) = Len(s) - n /\ \A i \in 1 .. Len(s) - n : b[i] = s[n + i]
  <2>1. \A i \in n + 1 .. Len(s) : s[i] \in S
    BY <1>1
  <2>2. b \in Seq(S) /\ Len(b) = (IF n + 1 <= Len(s) THEN Len(s) - (n + 1) + 1 ELSE 0)
        /\ \A i \in 1 .. Len(s) - (n + 1) + 1 : b[i] = s[(n + 1) + i - 1]
    BY <2>1, <1>1, SubSeqProperties
  <2> HIDE DEF b
  <2>3. Len(b) = Len(s) - n
    <3>1. Len(b) = IF n + 1 <= Len(s) THEN Len(s) - (n + 1) + 1 ELSE 0
      BY <2>2
    <3>2. Len(s) \in Nat
      BY <1>1
    <3> QED
      BY <3>1, <3>2
  <2>4. ASSUME NEW i \in 1 .. Len(s) - n PROVE b[i] = s[n + i]
    <3>1. i \in 1 .. Len(s) - (n + 1) + 1 /\ (n + 1) + i - 1 = n + i
      BY <1>1
    <3> QED
      BY <3>1, <2>2
  <2> QED
    BY <2>2, <2>3, <2>4
<1>4. RemoveAt(s, n) = a \o b
  BY DEF RemoveAt
<1> HIDE DEF a, b
<1>5. /\ a \o b \in Seq(S) /\ Len(a \o b) = Len(s) - 1
      /\ \A i \in 1 .. Len(a) + Len(b) : (a \o b)[i] = IF i <= Len(a) THEN a[i] ELSE b[i - Len(a)]
  <2>1. /\ a \o b \in Seq(S) /\ Len(a \o b) = Len(a) + Len(b)
        /\ \A i \in 1 .. Len(a) + Len(b) : (a \o b)[i] = IF i <= Len(a) THEN a[i] ELSE b[i - Len(a)]
    BY <1>2, <1>3, ConcatProperties
  <2> QED
    BY <2>1, <1>1, <1>2, <1>3
<1>6. \A i \in 1 .. Len(s) - 1 : (a \o b)[i] = s[IF i < n THEN i ELSE i + 1]
  BY <1>1, <1>2, <1>3, <1>5
<1>7. DOMAIN (a \o b) = 1 .. Len(s) - 1
  BY <1>5, LenProperties
<1>8. ToSet(a \o b) \subseteq ToSet(s)
  <2>1. ASSUME NEW i \in 1 .. Len(s) - 1 PROVE (a \o b)[i] \in ToSet(s)
    <3>1. (IF i < n THEN i ELSE i + 1) \in 1 .. Len(s)
      BY <1>1
    <3> QED
      BY <3>1, <1>1, <1>6 DEF ToSet
  <2> QED
    BY <2>1, <1>7 DEF ToSet
<1> QED
  BY <1>4, <1>5, <1>6, <1>8

-----------------------------------------------------------------------------
(* What objects lead to                                                    *)

\* The program is one of those the constants allow.
LEMMA ProgramType ==
  ASSUME TypeOK
  PROVE  /\ java \in BOOLEAN /\ program.points \in [Obj -> SUBSET Obj]
         /\ Home \in [Link -> Obj \cup {Nowhere}] /\ program.uses \in [Obj -> SUBSET Procs]
         /\ java \/ \A o \in Obj : program.uses[o] \subseteq {"normal", "ignore_self"}
  BY ConstantsAssumption DEF TypeOK, java, Home

\* Reach(S) is the smallest closed set with S in it.
LEMMA ReachFacts ==
  ASSUME TypeOK, NEW S \in SUBSET Obj
  PROVE  /\ Reach(S) \in SUBSET Obj /\ S \subseteq Reach(S) /\ Closed(Reach(S))
         /\ \A C \in SUBSET Obj : S \subseteq C /\ Closed(C) => Reach(S) \subseteq C
<1>1. Reach(S) \in SUBSET Obj /\ S \subseteq Reach(S)
  BY DEF Reach
<1>2. \A C \in SUBSET Obj : S \subseteq C /\ Closed(C) => Reach(S) \subseteq C
  BY DEF Reach
<1>3. ASSUME NEW o \in Reach(S) PROVE program.points[o] \subseteq Reach(S)
  <2>1. program.points[o] \subseteq Obj
    BY <1>1, ProgramType
  <2>2. ASSUME NEW C \in SUBSET Obj, S \subseteq C, Closed(C) PROVE program.points[o] \subseteq C
    BY <2>2, <1>2 DEF Closed
  <2> QED
    BY <2>1, <2>2 DEF Reach
<1> QED
  BY <1>1, <1>2, <1>3 DEF Closed

-----------------------------------------------------------------------------
(* How the tables and the queue change                                     *)

\* An object gets a finalizer, in place of one or not.
LEMMA FinalizerAdded ==
  ASSUME TypeOK, NEW o \in Obj, NEW p \in Procs,
         (o \in Registered /\ Replace(o, p)) \/ AddEntry(o, p)
  PROVE  /\ fo_head' \in [Obj -> Seq(Procs)] /\ Registered' = Registered \cup {o}
         /\ \A x \in Obj : x # o => fo_head'[x] = fo_head[x]
         /\ ToSet(fo_head'[o]) \subseteq ToSet(fo_head[o]) \cup {p}
<1>1. fo_head[o] \in Seq(Procs) /\ fo_head \in [Obj -> Seq(Procs)]
  BY DEF TypeOK
<1>2. PICK s \in Seq(Procs) : /\ fo_head' = [fo_head EXCEPT ![o] = s] /\ s # <<>>
                              /\ ToSet(s) \subseteq ToSet(fo_head[o]) \cup {p}
  <2>1. CASE o \in Registered /\ Replace(o, p)
    <3>1. fo_head[o] # <<>>
      BY <2>1 DEF Registered
    <3>2. fo_head' = [fo_head EXCEPT ![o] = [fo_head[o] EXCEPT ![1] = p]]
      BY <2>1 DEF Replace
    <3> DEFINE s == [fo_head[o] EXCEPT ![1] = p]
    <3>3. s \in Seq(Procs) /\ s # <<>> /\ ToSet(s) \subseteq ToSet(fo_head[o]) \cup {p}
      BY <3>1, <1>1, FirstReplaced
    <3> HIDE DEF s
    <3>4. fo_head' = [fo_head EXCEPT ![o] = s]
      BY <3>2 DEF s
    <3> QED
      BY <3>3, <3>4
  <2>2. CASE AddEntry(o, p)
    <3> DEFINE s == <<p>> \o fo_head[o]
    <3>1. s \in Seq(Procs) /\ s # <<>> /\ ToSet(s) \subseteq ToSet(fo_head[o]) \cup {p}
      BY <1>1, FirstAdded
    <3> HIDE DEF s
    <3>2. fo_head' = [fo_head EXCEPT ![o] = s]
      BY <2>2 DEF AddEntry, s
    <3> QED
      BY <3>1, <3>2
  <2> QED
    BY <2>1, <2>2
<1> QED
  BY <1>1, <1>2 DEF Registered

\* An object loses one.
LEMMA FinalizerRemoved ==
  ASSUME TypeOK, NEW o \in Registered, fo_head' = [fo_head EXCEPT ![o] = Tail(@)]
  PROVE  /\ fo_head' \in [Obj -> Seq(Procs)]
         /\ Registered' = IF Tail(fo_head[o]) = <<>> THEN Registered \ {o} ELSE Registered
         /\ \A x \in Obj : x # o => fo_head'[x] = fo_head[x]
         /\ ToSet(fo_head'[o]) \subseteq ToSet(fo_head[o])
         /\ Head(fo_head[o]) \in Procs /\ Head(fo_head[o]) \in ToSet(fo_head[o])
<1>1. /\ o \in Obj /\ fo_head[o] \in Seq(Procs) /\ fo_head[o] # <<>>
      /\ fo_head \in [Obj -> Seq(Procs)]
  BY DEF TypeOK, Registered
<1>2. fo_head' = [fo_head EXCEPT ![o] = Tail(fo_head[o])]
  OBVIOUS
<1>3. /\ Tail(fo_head[o]) \in Seq(Procs) /\ ToSet(Tail(fo_head[o])) \subseteq ToSet(fo_head[o])
      /\ Head(fo_head[o]) \in Procs /\ Head(fo_head[o]) \in ToSet(fo_head[o])
  BY <1>1, FirstRemoved
<1> QED
  BY <1>1, <1>2, <1>3 DEF Registered

\* An object moves from the table to the queue.
LEMMA Enqueueing ==
  ASSUME TypeOK, NEW o \in Registered, Enqueue(o)
  PROVE  /\ fo_head' \in [Obj -> Seq(Procs)] /\ GC_finalize_now' \in Seq(Entry)
         /\ Registered' \subseteq Registered
         /\ todo \subseteq Registered => todo' \subseteq Registered'
         /\ Registered' \ todo' \subseteq Registered \ todo
         /\ todo' \subseteq todo /\ phase' = phase /\ at' = at
         /\ \A x \in Obj : ToSet(fo_head'[x]) \subseteq ToSet(fo_head[x])
         /\ \E p \in ToSet(fo_head[o]) \cap Procs : Queued' = Queued \cup {[obj |-> o, proc |-> p]}
<1>1. fo_head' = [fo_head EXCEPT ![o] = Tail(@)] /\ o \in Obj
  BY DEF Enqueue, Registered
<1>2. /\ fo_head' \in [Obj -> Seq(Procs)]
      /\ Registered' = IF Tail(fo_head[o]) = <<>> THEN Registered \ {o} ELSE Registered
      /\ \A x \in Obj : x # o => fo_head'[x] = fo_head[x]
      /\ ToSet(fo_head'[o]) \subseteq ToSet(fo_head[o])
      /\ Head(fo_head[o]) \in Procs /\ Head(fo_head[o]) \in ToSet(fo_head[o])
  BY <1>1, FinalizerRemoved
<1> DEFINE e == [obj |-> o, proc |-> Head(fo_head[o])]
<1>3. e \in Entry /\ GC_finalize_now \in Seq(Entry)
  BY <1>1, <1>2 DEF Entry, TypeOK
<1>4. GC_finalize_now' = <<e>> \o GC_finalize_now
  BY DEF Enqueue
<1> HIDE DEF e
<1>5. GC_finalize_now' \in Seq(Entry) /\ Queued' = Queued \cup {e}
  BY <1>3, <1>4, FirstAdded DEF Queued
<1>6. /\ todo' = IF Tail(fo_head[o]) = <<>> THEN todo \ {o} ELSE todo
      /\ phase' = phase /\ at' = at
  BY DEF Enqueue
<1>7. \A x \in Obj : ToSet(fo_head'[x]) \subseteq ToSet(fo_head[x])
  BY <1>2
<1>8. \E p \in ToSet(fo_head[o]) \cap Procs : Queued' = Queued \cup {[obj |-> o, proc |-> p]}
  BY <1>2, <1>5 DEF e
<1> QED
  BY <1>2, <1>5, <1>6, <1>7, <1>8

\* A link is registered, for another object or anew.
LEMMA LinkAdded ==
  ASSUME TypeOK, OneLink, NEW l \in Link, NEW o \in Obj,
         (l \in Linked /\ ReplaceLink(l, o)) \/ (l \notin Linked /\ AddLink(l, o))
  PROVE  /\ dl_head' = [dl_head EXCEPT ![l] = <<o>>] /\ Linked' = Linked \cup {l}
         /\ dl_head' \in [Link -> Seq(Obj)] /\ OneLink'
<1>1. dl_head \in [Link -> Seq(Obj)] /\ <<o>> \in Seq(Obj) /\ <<o>> # <<>>
  BY DEF TypeOK
<1>2. CASE l \in Linked /\ ReplaceLink(l, o)
  <2>1. PICK x \in Obj : dl_head[l] = <<x>>
    BY <1>2 DEF OneLink, Linked
  <2>2. [dl_head[l] EXCEPT ![1] = o] = <<o>>
    BY <2>1
  <2>3. dl_head' = [dl_head EXCEPT ![l] = [dl_head[l] EXCEPT ![1] = o]]
    BY <1>2 DEF ReplaceLink
  <2> QED
    BY <2>2, <2>3, <1>1 DEF OneLink, Linked
<1>3. CASE l \notin Linked /\ AddLink(l, o)
  <2>1. dl_head[l] = <<>> /\ <<o>> \o <<>> = <<o>>
    BY <1>3, <1>1, ConcatEmptySeq DEF Linked
  <2>2. dl_head' = [dl_head EXCEPT ![l] = <<o>> \o dl_head[l]]
    BY <1>3 DEF AddLink
  <2> QED
    BY <2>1, <2>2, <1>1 DEF OneLink, Linked
<1> QED
  BY <1>2, <1>3

\* Its entry then is for that object.
LEMMA LinkEntry ==
  ASSUME TypeOK, NEW l \in Link, NEW o \in Obj, dl_head' = [dl_head EXCEPT ![l] = <<o>>]
  PROVE  ToSet(dl_head'[l]) = {o} /\ \A x \in Link : x # l => dl_head'[x] = dl_head[x]
<1>1. ToSet(<<o>>) = {o}
  BY DEF ToSet
<1> QED
  BY <1>1 DEF TypeOK

\* A link is no longer registered.
LEMMA LinkRemoved ==
  ASSUME TypeOK, OneLink, NEW l \in Linked, dl_head' = [dl_head EXCEPT ![l] = Tail(@)]
  PROVE  /\ dl_head' = [dl_head EXCEPT ![l] = <<>>] /\ Linked' = Linked \ {l}
         /\ dl_head' \in [Link -> Seq(Obj)] /\ OneLink'
<1>1. l \in Link /\ dl_head \in [Link -> Seq(Obj)] /\ <<>> \in Seq(Obj)
  BY DEF TypeOK, Linked
<1>2. PICK x \in Obj : dl_head[l] = <<x>>
  BY DEF OneLink, Linked
<1>3. Tail(dl_head[l]) = <<>>
  BY <1>2
<1> QED
  BY <1>1, <1>3 DEF OneLink, Linked

-----------------------------------------------------------------------------
(* Each part of the invariant, action by action                            *)

\* No request is about nothing.
LEMMA NoRequestFields == NoRequest.obj = Nowhere /\ NoRequest.link = Nowhere
  BY DEF NoRequest

\* A call asks for something.
LEMMA AskChange ==
  ASSUME TypeOK, NEW t \in Threads, NEW o, NEW p, NEW l, Asks(t, o, p, l)
  PROVE  /\ request'[t].obj = o /\ request'[t].link = l /\ request'[t].proc = p
         /\ \A u \in Threads : u # t => request'[u] = request[u]
  BY DEF Asks, TypeOK

\* A call is done.
LEMMA DoneChange ==
  ASSUME TypeOK, NEW t \in Threads, Done(t)
  PROVE  /\ request'[t].obj = Nowhere /\ request'[t].link = Nowhere /\ pc'[t] = "run"
         /\ \A u \in Threads : u # t => request'[u] = request[u] /\ pc'[u] = pc[u]
  BY NoRequestFields DEF Done, Go, TypeOK

\* What is asked for, or nothing, is a request.
LEMMA RequestTypes ==
  /\ NoRequest \in Request
  /\ \A o \in Obj, p \in Procs, l \in Link \cup {Nowhere} :
       [obj |-> o, proc |-> p, link |-> l] \in Request
  BY DEF NoRequest, Request, Procs

\* Every step keeps the types.
LEMMA TypeStep ==
  ASSUME IInv, Next
  PROVE  TypeOK'
<1> USE DEF IInv, TypeOK, Go, Asks, Done, StartPass, LookedAt, Registered, Linked, threadVars,
          passVars, heapVars, tableVars
<1>1. ASSUME NEW t \in Threads, RegisterWithNewEntry(t) PROVE TypeOK'
  <2>1. request[t].obj \in Obj /\ request[t].proc \in Procs
    BY <1>1 DEF RegisterWithNewEntry, CallInv, Request
  <2>2. fo_head' \in [Obj -> Seq(Procs)]
    BY <1>1, <2>1, FinalizerAdded DEF RegisterWithNewEntry
  <2> QED
    BY <1>1, <2>2, RequestTypes DEF RegisterWithNewEntry
<1>2. ASSUME NEW t \in Threads, NEW o \in Obj, NEW p \in Procs, GC_register_finalizer(t, o, p)
      PROVE  TypeOK'
  <2>1. fo_head' \in [Obj -> Seq(Procs)]
    <3>1. CASE UNCHANGED fo_head
      BY <3>1
    <3>2. CASE ~UNCHANGED fo_head
      BY <1>2, <3>2, FinalizerAdded DEF GC_register_finalizer
    <3> QED
      BY <3>1, <3>2
  <2>2. [obj |-> o, proc |-> p, link |-> Nowhere] \in Request
    BY RequestTypes
  <2> QED
    BY <1>2, <2>1, <2>2 DEF GC_register_finalizer
<1>3. ASSUME NEW t \in Threads, NEW o \in Obj, GC_unregister_finalizer(t, o) PROVE TypeOK'
  <2>1. fo_head' \in [Obj -> Seq(Procs)]
    BY <1>3, FinalizerRemoved DEF GC_unregister_finalizer
  <2> QED
    BY <1>3, <2>1 DEF GC_unregister_finalizer
<1>4. ASSUME NEW t \in Threads, GC_general_register_disappearing_link(t) PROVE TypeOK'
  <2>1. request[t].obj \in Obj /\ request[t].link \in Link
    BY <1>4 DEF GC_general_register_disappearing_link, CallInv
  <2>2. dl_head' \in [Link -> Seq(Obj)]
    <3>1. CASE UNCHANGED dl_head
      BY <3>1
    <3>2. CASE ~UNCHANGED dl_head
      BY <1>4, <2>1, <3>2, LinkAdded DEF GC_general_register_disappearing_link
    <3> QED
      BY <3>1, <3>2
  <2> QED
    BY <1>4, <2>2, RequestTypes, ZenonT(40) DEF GC_general_register_disappearing_link
<1>5. ASSUME NEW t \in Threads, LinkWithNewEntry(t) PROVE TypeOK'
  <2>1. request[t].obj \in Obj /\ request[t].link \in Link
    BY <1>5 DEF LinkWithNewEntry, CallInv
  <2>2. dl_head' \in [Link -> Seq(Obj)]
    <3>1. CASE UNCHANGED dl_head
      BY <3>1
    <3>2. CASE ~UNCHANGED dl_head
      BY <1>5, <2>1, <3>2, LinkAdded DEF LinkWithNewEntry
    <3> QED
      BY <3>1, <3>2
  <2> QED
    BY <1>5, <2>2, RequestTypes DEF LinkWithNewEntry
<1>6. ASSUME NEW t \in Threads, NEW l \in Link, GC_unregister_disappearing_link(t, l)
      PROVE  TypeOK'
  <2>1. dl_head' \in [Link -> Seq(Obj)]
    BY <1>6, LinkRemoved DEF GC_unregister_disappearing_link
  <2> QED
    BY <1>6, <2>1 DEF GC_unregister_disappearing_link
<1>7. ASSUME NEW l \in Link, ClearLink(l) PROVE TypeOK'
  <2>1. l \in Linked
    BY <1>7 DEF ClearLink, MarkInv, PassInv
  <2>2. dl_head' \in [Link -> Seq(Obj)]
    <3>1. CASE UNCHANGED dl_head
      BY <3>1
    <3>2. CASE ~UNCHANGED dl_head
      BY <1>7, <2>1, <3>2, LinkRemoved DEF ClearLink
    <3> QED
      BY <3>1, <3>2
  <2> QED
    BY <1>7, <2>2 DEF ClearLink
<1>8. CASE Mark
  <2>1. PICK kept \in SUBSET marks : marks' = Reach(Roots \cup kept)
    BY <1>8 DEF Mark
  <2>2. marks' \in SUBSET Obj
    BY <2>1 DEF Reach
  <2> QED
    BY <1>8, <2>2 DEF Mark, Linked
<1>9. ASSUME NEW o \in Obj, MarkFromFinalizable(o) PROVE TypeOK'
  <2>1. marks' \in SUBSET Obj
    BY <1>9 DEF MarkFromFinalizable, Reach
  <2> QED
    BY <1>9, <2>1 DEF MarkFromFinalizable
<1>10. ASSUME NEW o \in Obj, EnqueueUnreachable(o) PROVE TypeOK'
  <2>1. CASE o \in marks
    BY <1>10, <2>1 DEF EnqueueUnreachable
  <2>2. CASE o \notin marks
    <3>1. o \in Registered /\ Enqueue(o)
      BY <1>10, <2>2 DEF EnqueueUnreachable, MarkInv, PassInv
    <3>2. marks' \in SUBSET Obj /\ todo' \in SUBSET (Obj \cup Link)
      BY <1>10, <3>1, Enqueueing DEF EnqueueUnreachable
    <3> QED
      BY <1>10, <3>1, <3>2, Enqueueing DEF EnqueueUnreachable
  <2> QED
    BY <2>1, <2>2
<1>11. ASSUME NEW o \in Obj, EnqueueAny(o) PROVE TypeOK'
  <2>1. o \in Registered /\ Enqueue(o)
    BY <1>11 DEF EnqueueAny, MarkInv, PassInv
  <2>2. marks' \in SUBSET Obj /\ todo' \in SUBSET (Obj \cup Link)
    BY <1>11, <2>1, Enqueueing DEF EnqueueAny, Reach
  <2> QED
    BY <1>11, <2>1, <2>2, Enqueueing DEF EnqueueAny
<1>12. CASE JavaMark
  <2>1. GC_finalize_now[at] \in Entry
    BY <1>12, ElementOfSeq DEF JavaMark, MarkInv, PassInv
  <2>2. marks' \in SUBSET Obj
    BY <1>12, <2>1 DEF JavaMark, Reach, Entry
  <2> QED
    BY <1>12, <2>2 DEF JavaMark
<1>13. CASE Revive
  <2>1. at \in 1 .. Len(GC_finalize_now)
    BY <1>13, LenProperties DEF Revive, MarkInv, PassInv
  <2>2. GC_finalize_now[at] \in Entry
    BY <2>1, ElementOfSeq
  <2> DEFINE e == GC_finalize_now[at]
  <2>3. e.obj \in Obj /\ e.proc \in Procs
    BY <2>2 DEF Entry
  <2>4. fo_head' \in [Obj -> Seq(Procs)]
    <3>1. CASE UNCHANGED fo_head
      BY <3>1
    <3>2. CASE ~UNCHANGED fo_head
      <4>1. AddEntry(e.obj, e.proc)
        BY <1>13, <3>2 DEF Revive, AddEntry
      <4> QED
        BY <2>3, <4>1, FinalizerAdded
    <3> QED
      BY <3>1, <3>2
  <2>5. GC_finalize_now' \in Seq(Entry)
    <3>1. RemoveAt(GC_finalize_now, at) \in Seq(Entry)
      BY <2>1, OneRemoved
    <3> QED
      BY <1>13, <3>1 DEF Revive
  <2>6. marks' \in SUBSET Obj
    BY <1>13, <2>3 DEF Revive
  <2> QED
    BY <1>13, <2>4, <2>5, <2>6 DEF Revive
<1>14. CASE RemoveDangling
  <2>1. dl_head' \in [Link -> Seq(Obj)]
    BY <1>14, EmptySeq DEF RemoveDangling
  <2> QED
    BY <1>14, <2>1 DEF RemoveDangling
<1>15. ASSUME NEW t \in Threads, InvokeFirst(t) PROVE TypeOK'
  <2>1. Tail(GC_finalize_now) \in Seq(Entry) /\ Head(GC_finalize_now) \in Entry
    BY <1>15, FirstRemoved DEF InvokeFirst
  <2> QED
    BY <1>15, <2>1 DEF InvokeFirst, Entry
<1>16. ASSUME NEW t \in Threads, RegisterFails(t) PROVE TypeOK'
  BY <1>16, RequestTypes DEF RegisterFails
<1>17. ASSUME NEW t \in Threads, LinkFails(t) PROVE TypeOK'
  BY <1>17, RequestTypes DEF LinkFails
<1>18. ASSUME NEW t \in Threads, NEW l \in Link, NEW o \in Obj, WriteLink(t, l, o)
       PROVE  TypeOK'
  <2>1. [obj |-> o, proc |-> "normal", link |-> l] \in Request
    BY RequestTypes DEF Procs
  <2> QED
    BY <1>18, <2>1 DEF WriteLink
<1>19. ASSUME NEW o \in Obj, Drop(o) PROVE TypeOK'
  BY <1>19 DEF Drop
<1>20. ASSUME NEW o \in Obj, Load(o) PROVE TypeOK'
  BY <1>20 DEF Load
<1>21. ASSUME NEW l \in Link, Reveal(l) PROVE TypeOK'
  BY <1>21 DEF Reveal, Unlocked
<1>22. CASE LinksCleared
  BY <1>22 DEF LinksCleared
<1>23. CASE MarkedFromFinalizable
  BY <1>23 DEF MarkedFromFinalizable
<1>24. CASE Enqueued
  BY <1>24 DEF Enqueued
<1>25. CASE JavaMarked
  BY <1>25 DEF JavaMarked
<1>26. CASE Revived
  BY <1>26 DEF Revived
<1>27. CASE Sweep
  BY <1>27 DEF Sweep
<1>28. ASSUME NEW t \in Threads, GC_invoke_finalizers(t) PROVE TypeOK'
  BY <1>28 DEF GC_invoke_finalizers
<1>29. ASSUME NEW t \in Threads, NoneLeft(t) PROVE TypeOK'
  BY <1>29 DEF NoneLeft, After
<1>30. ASSUME NEW t \in Threads, GC_finalize_all(t) PROVE TypeOK'
  BY <1>30 DEF GC_finalize_all
<1>31. ASSUME NEW t \in Threads, NothingRegistered(t) PROVE TypeOK'
  BY <1>31 DEF NothingRegistered, Unlocked
<1>32. ASSUME NEW t \in Threads, GC_enqueue_all_finalizers(t) PROVE TypeOK'
  BY <1>32 DEF GC_enqueue_all_finalizers, Unlocked
<1>33. ASSUME NEW t \in Threads, AllEnqueued(t) PROVE TypeOK'
  BY <1>33 DEF AllEnqueued
<1> QED
  BY <1>1, <1>2, <1>3, <1>4, <1>5, <1>6, <1>7, <1>8, <1>9, <1>10, <1>11, <1>12, <1>13, <1>14,
     <1>15, <1>16, <1>17, <1>18, <1>19, <1>20, <1>21, <1>22, <1>23, <1>24, <1>25, <1>26,
     <1>27, <1>28, <1>29, <1>30, <1>31, <1>32, <1>33
  DEF Next, Program, Calls, Collection

\* Every step keeps who has the lock and what calls are about.
LEMMA CallStep ==
  ASSUME IInv, Next
  PROVE  CallInv'
<1> USE DEF IInv, TypeOK, CallInv, Go, StartPass, LookedAt, Enqueue, threadVars, passVars,
          heapVars, tableVars
<1>1. CASE
         \/ \E o \in Obj : Drop(o) \/ Load(o)
         \/ \E l \in Link : Reveal(l)
         \/ \E t \in Threads : \E o \in Obj : GC_unregister_finalizer(t, o)
         \/ \E t \in Threads : \E l \in Link : GC_unregister_disappearing_link(t, l)
         \/ \E t \in Threads : InvokeFirst(t)
  BY <1>1 DEF Drop, Load, Reveal, GC_unregister_finalizer, GC_unregister_disappearing_link,
     InvokeFirst, Unlocked
<1>2. CASE
         \/ Mark \/ LinksCleared \/ MarkedFromFinalizable \/ Enqueued \/ JavaMark
            \/ JavaMarked \/ Revive \/ Revived \/ RemoveDangling \/ Sweep
         \/ \E l \in Link : ClearLink(l)
         \/ \E o \in Obj : MarkFromFinalizable(o)
  BY <1>2 DEF Mark, ClearLink, LinksCleared, MarkFromFinalizable, MarkedFromFinalizable,
     Enqueued, JavaMark, JavaMarked, Revive, Revived, RemoveDangling, Sweep, Unlocked
<1>3. ASSUME NEW t \in Threads, RegisterWithNewEntry(t) PROVE CallInv'
  <2>1. Done(t) /\ phase' = phase
    BY <1>3 DEF RegisterWithNewEntry, Unlocked
  <2> QED
    BY <2>1, DoneChange
<1>4. ASSUME NEW t \in Threads, RegisterFails(t) PROVE CallInv'
  <2>1. Done(t) /\ phase' = phase
    BY <1>4 DEF RegisterFails
  <2> QED
    BY <2>1, DoneChange
<1>5. ASSUME NEW t \in Threads, LinkWithNewEntry(t) PROVE CallInv'
  <2>1. Done(t) /\ phase' = phase
    BY <1>5 DEF LinkWithNewEntry, Unlocked
  <2> QED
    BY <2>1, DoneChange
<1>6. ASSUME NEW t \in Threads, LinkFails(t) PROVE CallInv'
  <2>1. Done(t) /\ phase' = phase
    BY <1>6 DEF LinkFails
  <2> QED
    BY <2>1, DoneChange
<1>7. ASSUME NEW t \in Threads, NEW l \in Link, NEW o \in Obj, WriteLink(t, l, o)
      PROVE  CallInv'
  <2>1. Asks(t, o, "normal", l) /\ Go(t, "link") /\ phase' = phase
    BY <1>7 DEF WriteLink
  <2> QED
    BY <2>1, AskChange
<1>8. ASSUME NEW t \in Threads, NEW o \in Obj, NEW p \in Procs, GC_register_finalizer(t, o, p)
      PROVE  CallInv'
  <2>1. CASE UNCHANGED threadVars
    BY <1>8, <2>1 DEF GC_register_finalizer
  <2>2. CASE Go(t, "fo") /\ Asks(t, o, p, Nowhere)
    <3>1. phase' = phase
      BY <1>8 DEF GC_register_finalizer
    <3> QED
      BY <2>2, <3>1, AskChange
  <2> QED
    BY <1>8, <2>1, <2>2 DEF GC_register_finalizer
<1>9. ASSUME NEW t \in Threads, GC_general_register_disappearing_link(t) PROVE CallInv'
  <2>1. CASE Done(t)
    <3>1. phase' = phase
      BY <1>9 DEF GC_general_register_disappearing_link
    <3> QED
      BY <2>1, <3>1, DoneChange
  <2>2. CASE Go(t, "dl") /\ UNCHANGED request
    BY <1>9, <2>2 DEF GC_general_register_disappearing_link
  <2> QED
    BY <1>9, <2>1, <2>2 DEF GC_general_register_disappearing_link
<1>10. ASSUME NEW o \in Obj, EnqueueUnreachable(o) PROVE CallInv'
  BY <1>10 DEF EnqueueUnreachable
<1>11. ASSUME NEW t \in Threads, GC_invoke_finalizers(t) PROVE CallInv'
  BY <1>11 DEF GC_invoke_finalizers
<1>12. ASSUME NEW t \in Threads, NoneLeft(t) PROVE CallInv'
  BY <1>12 DEF NoneLeft, After
<1>13. ASSUME NEW t \in Threads, GC_finalize_all(t) PROVE CallInv'
  BY <1>13 DEF GC_finalize_all
<1>14. ASSUME NEW t \in Threads, NothingRegistered(t) PROVE CallInv'
  BY <1>14 DEF NothingRegistered, Unlocked
<1>15. ASSUME NEW t \in Threads, GC_enqueue_all_finalizers(t) PROVE CallInv'
  BY <1>15 DEF GC_enqueue_all_finalizers, Unlocked
<1>16. ASSUME NEW o \in Obj, EnqueueAny(o) PROVE CallInv'
  BY <1>16 DEF EnqueueAny
<1>17. ASSUME NEW t \in Threads, AllEnqueued(t) PROVE CallInv'
  BY <1>17 DEF AllEnqueued
<1> QED
  BY <1>1, <1>2, <1>3, <1>4, <1>5, <1>6, <1>7, <1>8, <1>9, <1>10, <1>11, <1>12, <1>13, <1>14,
     <1>15, <1>16, <1>17
  DEF Next, Program, Calls, Collection

\* Every step keeps a link registered for one object.
LEMMA LinkStep ==
  ASSUME IInv, Next
  PROVE  OneLink'
<1> USE DEF IInv, OneLink, threadVars, passVars, heapVars, tableVars
<1>1. CASE
         \/ \E o \in Obj : Drop(o) \/ Load(o) \/ MarkFromFinalizable(o)
                           \/ EnqueueUnreachable(o) \/ EnqueueAny(o)
         \/ \E l \in Link : Reveal(l)
         \/ Mark \/ LinksCleared \/ MarkedFromFinalizable \/ Enqueued \/ JavaMark
            \/ JavaMarked \/ Revive \/ Revived \/ Sweep
  BY <1>1 DEF Drop, Load, Reveal, Mark, LinksCleared, MarkFromFinalizable,
     MarkedFromFinalizable, EnqueueUnreachable, Enqueued, JavaMark, JavaMarked, Revive,
     Revived, Sweep, EnqueueAny, Unlocked
<1>2. CASE
         \/ \E t \in Threads : \E o \in Obj : \E p \in Procs : GC_register_finalizer(t, o, p)
         \/ \E t \in Threads : \E o \in Obj : GC_unregister_finalizer(t, o)
         \/ \E t \in Threads : RegisterWithNewEntry(t) \/ RegisterFails(t) \/ LinkFails(t)
                               \/ GC_invoke_finalizers(t) \/ InvokeFirst(t) \/ NoneLeft(t)
                                  \/ GC_finalize_all(t) \/ NothingRegistered(t)
                                     \/ GC_enqueue_all_finalizers(t) \/ AllEnqueued(t)
         \/ \E t \in Threads : \E l \in Link : \E o \in Obj : WriteLink(t, l, o)
  BY <1>2 DEF GC_register_finalizer, GC_unregister_finalizer, RegisterWithNewEntry,
     RegisterFails, WriteLink, LinkFails, GC_invoke_finalizers, InvokeFirst, NoneLeft,
     GC_finalize_all, NothingRegistered, GC_enqueue_all_finalizers, AllEnqueued, Unlocked, After
<1>3. ASSUME NEW t \in Threads, NEW l \in Link, GC_unregister_disappearing_link(t, l)
      PROVE  OneLink'
  BY <1>3, LinkRemoved DEF GC_unregister_disappearing_link
<1>4. ASSUME NEW l \in Link, ClearLink(l) PROVE OneLink'
  <2>1. l \in Linked
    BY <1>4 DEF ClearLink, MarkInv, PassInv
  <2> QED
    BY <1>4, <2>1, LinkRemoved DEF ClearLink
<1>5. ASSUME NEW t \in Threads, GC_general_register_disappearing_link(t) PROVE OneLink'
  <2>1. request[t].obj \in Obj /\ request[t].link \in Link
    BY <1>5 DEF GC_general_register_disappearing_link, CallInv
  <2> QED
    BY <1>5, <2>1, LinkAdded DEF GC_general_register_disappearing_link
<1>6. ASSUME NEW t \in Threads, LinkWithNewEntry(t) PROVE OneLink'
  <2>1. request[t].obj \in Obj /\ request[t].link \in Link
    BY <1>6 DEF LinkWithNewEntry, CallInv
  <2> QED
    BY <1>6, <2>1, LinkAdded DEF LinkWithNewEntry
<1>7. CASE RemoveDangling
  BY <1>7 DEF RemoveDangling
<1> QED
  BY <1>1, <1>2, <1>3, <1>4, <1>5, <1>6, <1>7
  DEF Next, Program, Calls, Collection

\* A finalizer of the program is added.
LEMMA FinalizerUses ==
  ASSUME TypeOK, UsesInv, NEW o \in Obj, NEW p \in Procs, p \in program.uses[o],
         (o \in Registered /\ Replace(o, p)) \/ AddEntry(o, p)
  PROVE  \A x \in Obj : ToSet(fo_head'[x]) \subseteq program.uses[x]
<1>1. /\ \A x \in Obj : x # o => fo_head'[x] = fo_head[x]
      /\ ToSet(fo_head'[o]) \subseteq ToSet(fo_head[o]) \cup {p}
  BY FinalizerAdded
<1>2. \A x \in Obj : ToSet(fo_head[x]) \subseteq program.uses[x]
  BY DEF UsesInv
<1> QED
  BY <1>1, <1>2

\* Every step keeps the procedures those of the program.
LEMMA UsesStep ==
  ASSUME IInv, Next
  PROVE  UsesInv'
<1> USE DEF IInv, TypeOK, UsesInv, Queued, Go, Asks, Done, threadVars, passVars, heapVars,
          tableVars
<1>1. CASE
         \/ \E o \in Obj : Drop(o) \/ Load(o) \/ MarkFromFinalizable(o)
         \/ \E l \in Link : Reveal(l) \/ ClearLink(l)
         \/ \E t \in Threads : \E l \in Link : GC_unregister_disappearing_link(t, l)
         \/ Mark \/ LinksCleared \/ MarkedFromFinalizable \/ Enqueued \/ JavaMark
            \/ JavaMarked \/ Revived \/ RemoveDangling \/ Sweep
  BY <1>1 DEF Drop, Load, Reveal, GC_unregister_disappearing_link, Mark, ClearLink,
     LinksCleared, MarkFromFinalizable, MarkedFromFinalizable, Enqueued, JavaMark, JavaMarked,
     Revived, RemoveDangling, Sweep, Unlocked
<1>2. CASE
         \/ \E t \in Threads : RegisterFails(t) \/ GC_general_register_disappearing_link(t)
                               \/ LinkWithNewEntry(t) \/ LinkFails(t)
         \/ \E t \in Threads : \E l \in Link : \E o \in Obj : WriteLink(t, l, o)
  BY <1>2, ZenonT(40) DEF RegisterFails, WriteLink, GC_general_register_disappearing_link,
     LinkWithNewEntry, LinkFails, Unlocked
<1>3. CASE \E t \in Threads : GC_invoke_finalizers(t) \/ NoneLeft(t) \/ GC_finalize_all(t)
                              \/ NothingRegistered(t) \/ GC_enqueue_all_finalizers(t)
                                 \/ AllEnqueued(t)
  <2> PICK t \in Threads : GC_invoke_finalizers(t) \/ NoneLeft(t) \/ GC_finalize_all(t)
                           \/ NothingRegistered(t) \/ GC_enqueue_all_finalizers(t)
                           \/ AllEnqueued(t)
    BY <1>3
  <2>1. CASE GC_invoke_finalizers(t) \/ NoneLeft(t)
    BY <2>1, SMTT(40) DEF GC_invoke_finalizers, NoneLeft, After
  <2>2. CASE GC_finalize_all(t)
    BY <2>2, SMTT(40) DEF GC_finalize_all
  <2>3. CASE NothingRegistered(t)
    BY <2>3, SMTT(40) DEF NothingRegistered
  <2>4. CASE GC_enqueue_all_finalizers(t)
    BY <2>4, SMTT(40) DEF GC_enqueue_all_finalizers
  <2>5. CASE AllEnqueued(t)
    BY <2>5, SMTT(40) DEF AllEnqueued
  <2> QED BY <2>1, <2>2, <2>3, <2>4, <2>5
<1>4. ASSUME NEW t \in Threads, NEW o \in Obj, NEW p \in Procs, GC_register_finalizer(t, o, p)
      PROVE  UsesInv'
  <2>1. \A x \in Obj : ToSet(fo_head'[x]) \subseteq program.uses[x]
    <3>1. CASE UNCHANGED fo_head
      BY <3>1
    <3>2. CASE ~UNCHANGED fo_head
      BY <1>4, <3>2, FinalizerUses DEF GC_register_finalizer
    <3> QED
      BY <3>1, <3>2
  <2> QED
    BY <1>4, <2>1 DEF GC_register_finalizer
<1>5. ASSUME NEW t \in Threads, RegisterWithNewEntry(t) PROVE UsesInv'
  <2>1. request[t].obj \in Obj /\ request[t].proc \in Procs
    BY <1>5 DEF RegisterWithNewEntry, CallInv, Request
  <2>2. \A x \in Obj : ToSet(fo_head'[x]) \subseteq program.uses[x]
    BY <1>5, <2>1, FinalizerUses DEF RegisterWithNewEntry
  <2> QED
    BY <1>5, <2>2 DEF RegisterWithNewEntry
<1>6. ASSUME NEW t \in Threads, NEW o \in Obj, GC_unregister_finalizer(t, o)
      PROVE  UsesInv'
  BY <1>6, FinalizerRemoved DEF GC_unregister_finalizer
<1>7. ASSUME NEW o \in Obj, EnqueueUnreachable(o) PROVE UsesInv'
  <2>1. CASE o \in marks
    BY <1>7, <2>1 DEF EnqueueUnreachable
  <2>2. CASE o \notin marks
    <3>1. o \in Registered /\ Enqueue(o)
      BY <1>7, <2>2 DEF EnqueueUnreachable, MarkInv, PassInv
    <3> HIDE DEF Queued
    <3>2. (\A x \in Obj : ToSet(fo_head'[x]) \subseteq program.uses[x])
          /\ \A e \in Queued' : e.proc \in program.uses[e.obj]
      BY <3>1, Enqueueing
    <3> QED
      BY <1>7, <3>2 DEF EnqueueUnreachable
  <2> QED
    BY <2>1, <2>2
<1>8. ASSUME NEW o \in Obj, EnqueueAny(o) PROVE UsesInv'
  <2>1. o \in Registered /\ Enqueue(o)
    BY <1>8 DEF EnqueueAny, MarkInv, PassInv
  <2> HIDE DEF Queued
  <2>2. (\A x \in Obj : ToSet(fo_head'[x]) \subseteq program.uses[x])
        /\ \A e \in Queued' : e.proc \in program.uses[e.obj]
    BY <2>1, Enqueueing
  <2> QED
    BY <1>8, <2>2 DEF EnqueueAny
<1>9. CASE Revive
  <2>1. at \in 1 .. Len(GC_finalize_now)
    BY <1>9, LenProperties DEF Revive, MarkInv, PassInv
  <2> DEFINE e == GC_finalize_now[at]
  <2>2. e \in Queued /\ e \in Entry
    BY <2>1, LenProperties, ElementOfSeq DEF ToSet
  <2>3. \A x \in Obj : ToSet(fo_head'[x]) \subseteq program.uses[x]
    <3>1. CASE UNCHANGED fo_head
      BY <3>1
    <3>2. CASE ~UNCHANGED fo_head
      <4>1. AddEntry(e.obj, e.proc)
        BY <1>9, <3>2 DEF Revive, AddEntry
      <4>2. e.obj \in Obj /\ e.proc \in Procs /\ e.proc \in program.uses[e.obj]
        BY <2>2 DEF Entry
      <4> QED
        BY <4>1, <4>2, FinalizerUses
    <3> QED
      BY <3>1, <3>2
  <2>4. Queued' \subseteq Queued
    BY <1>9, <2>1, OneRemoved DEF Revive
  <2> HIDE DEF Queued
  <2> QED
    BY <1>9, <2>3, <2>4 DEF Revive
<1>10. ASSUME NEW t \in Threads, InvokeFirst(t) PROVE UsesInv'
  <2>1. Queued' \subseteq Queued
    BY <1>10, FirstRemoved DEF InvokeFirst
  <2> QED
    BY <1>10, <2>1 DEF InvokeFirst
<1> QED
  BY <1>1, <1>2, <1>3, <1>4, <1>5, <1>6, <1>7, <1>8, <1>9, <1>10
  DEF Next, Program, Calls, Collection

\* The program has what it had when no call asks for more.
LEMMA ProgramKept ==
  ASSUME NEW C, ProgramIn(C), NEW t \in Threads, held' = held, program' = program,
         \A u \in Threads : u # t => request'[u] = request[u],
         request'[t].obj \in C \cup {Nowhere},
         request'[t].link \in Link => Home[request'[t].link] \in C \cup {Nowhere}
  PROVE  ProgramIn(C)'
<1>1. held' \subseteq C
  BY DEF ProgramIn
<1>2. Home' = Home
  BY DEF Home
<1>3. ASSUME NEW u \in Threads
      PROVE  /\ request'[u].obj \in C \cup {Nowhere}
             /\ request'[u].link \in Link => Home'[request'[u].link] \in C \cup {Nowhere}
  <2>1. CASE u = t
    BY <2>1, <1>2
  <2>2. CASE u # t
    BY <2>2, <1>2 DEF ProgramIn
  <2> QED
    BY <2>1, <2>2
<1> QED
  BY <1>1, <1>3 DEF ProgramIn

\* It has less when a call is done.
LEMMA ProgramDone ==
  ASSUME TypeOK, NEW C, ProgramIn(C), NEW t \in Threads, Done(t), held' = held, program' = program
  PROVE  ProgramIn(C)'
  BY DoneChange, ProgramKept, ConstantsAssumption

\* Every link but those that are cleared keeps what it is, or is about to be,
\* registered for, if the call of t accounts for its own.
LEMMA CellKept ==
  ASSUME CellInv, NEW t \in Threads, UNCHANGED <<program, allocated, phase, marks>>,
         \A u \in Threads : u # t => request'[u] = request[u],
         \A u \in Threads : request'[u].link \in Link =>
                            cell'[request'[u].link] \in {request'[u].obj, Nowhere},
         \A x \in Link : cell'[x] # Nowhere =>
           \/ request'[t].link = x /\ request'[t].obj = cell'[x]
           \/ cell'[x] \in ToSet(dl_head'[x])
           \/ /\ cell'[x] = cell[x] /\ dl_head'[x] = dl_head[x]
              /\ request[t].link # x
  PROVE  CellInv'
<1>1. ASSUME NEW x \in Link, cell'[x] # Nowhere, Home'[x] \in allocated' \cup {Nowhere},
             phase' = "sweep" => Home'[x] \in marks' \cup {Nowhere}
      PROVE  \/ cell'[x] \in ToSet(dl_head'[x])
             \/ \E u \in Threads : request'[u].link = x /\ request'[u].obj = cell'[x]
  <2>1. CASE request'[t].link = x /\ request'[t].obj = cell'[x]
    BY <2>1
  <2>2. CASE cell'[x] = cell[x] /\ dl_head'[x] = dl_head[x] /\ request[t].link # x
    <3>1. \/ cell[x] \in ToSet(dl_head[x])
          \/ \E u \in Threads : request[u].link = x /\ request[u].obj = cell[x]
      BY <1>1, <2>2 DEF CellInv, Home
    <3> QED
      BY <2>2, <3>1
  <2> QED
    BY <1>1, <2>1, <2>2
<1> QED
  BY <1>1 DEF CellInv

\* Every step keeps links holding what they are registered for.
LEMMA CellStep ==
  ASSUME IInv, Next
  PROVE  CellInv'
<1> USE DEF IInv, TypeOK, CellInv, Home, Go, StartPass, LookedAt, Enqueue, threadVars,
          passVars, heapVars, tableVars
<1>1. CASE
         \/ \E o \in Obj : Drop(o) \/ Load(o)
         \/ \E l \in Link : Reveal(l)
  BY <1>1, ZenonT(40) DEF Drop, Load, Reveal, Unlocked
<1>2. CASE \E t \in Threads : GC_invoke_finalizers(t) \/ NoneLeft(t) \/ GC_finalize_all(t)
                              \/ NothingRegistered(t) \/ GC_enqueue_all_finalizers(t)
                                 \/ AllEnqueued(t) \/ InvokeFirst(t)
  BY <1>2 DEF GC_invoke_finalizers, NoneLeft, GC_finalize_all, NothingRegistered,
     GC_enqueue_all_finalizers, AllEnqueued, InvokeFirst, After, Unlocked, CallInv
<1>3. CASE
         \/ Mark \/ LinksCleared \/ MarkedFromFinalizable \/ Enqueued \/ JavaMark
            \/ JavaMarked \/ Revive \/ Revived
         \/ \E o \in Obj : MarkFromFinalizable(o)
  BY <1>3, ZenonT(40) DEF Mark, LinksCleared, MarkFromFinalizable, MarkedFromFinalizable, Enqueued,
     JavaMark, JavaMarked, Revive, Revived, Unlocked
<1>4. ASSUME NEW t \in Threads, NEW o \in Obj, GC_unregister_finalizer(t, o)
      PROVE  CellInv'
  BY <1>4 DEF GC_unregister_finalizer, Unlocked
<1>5. ASSUME NEW t \in Threads, NEW o \in Obj, NEW p \in Procs, GC_register_finalizer(t, o, p)
      PROVE  CellInv'
  <2>1. CASE UNCHANGED threadVars
    BY <1>5, <2>1 DEF GC_register_finalizer
  <2>2. CASE Asks(t, o, p, Nowhere)
    <3>1. request[t].link = Nowhere /\ Nowhere \notin Link
      BY <1>5, ConstantsAssumption DEF GC_register_finalizer, CallInv
    <3>2. request'[t].link = Nowhere /\ \A u \in Threads : u # t => request'[u] = request[u]
      BY <2>2, AskChange
    <3>3. UNCHANGED <<cell, program, phase, allocated, marks, dl_head>>
      BY <1>5 DEF GC_register_finalizer
    <3>4. \A u \in Threads : request'[u].link \in Link =>
                               cell'[request'[u].link] \in {request'[u].obj, Nowhere}
      <4> SUFFICES ASSUME NEW u \in Threads, request'[u].link \in Link
                   PROVE  cell'[request'[u].link] \in {request'[u].obj, Nowhere}
        OBVIOUS
      <4>1. u # t /\ request'[u] = request[u]
        BY <3>1, <3>2
      <4> QED
        BY <4>1, <3>3
    <3> HIDE DEF TypeOK, CellInv
    <3> QED
      BY <3>1, <3>2, <3>3, <3>4, CellKept
  <2> QED
    BY <1>5, <2>1, <2>2 DEF GC_register_finalizer
<1>6. ASSUME NEW t \in Threads, RegisterWithNewEntry(t) PROVE CellInv'
  <2>1. request[t].link = Nowhere /\ Nowhere \notin Link
    BY <1>6, ConstantsAssumption DEF RegisterWithNewEntry, CallInv
  <2>2. request'[t].link = Nowhere /\ \A u \in Threads : u # t => request'[u] = request[u]
    BY <1>6, DoneChange DEF RegisterWithNewEntry
  <2>3. UNCHANGED <<cell, program, phase, allocated, marks, dl_head>>
    BY <1>6 DEF RegisterWithNewEntry
  <2>4. \A u \in Threads : request'[u].link \in Link =>
                             cell'[request'[u].link] \in {request'[u].obj, Nowhere}
    <3> SUFFICES ASSUME NEW u \in Threads, request'[u].link \in Link
                 PROVE  cell'[request'[u].link] \in {request'[u].obj, Nowhere}
      OBVIOUS
    <3>1. u # t /\ request'[u] = request[u]
      BY <2>1, <2>2
    <3> QED
      BY <3>1, <2>3
  <2> HIDE DEF TypeOK, CellInv
  <2> QED
    BY <2>1, <2>2, <2>3, <2>4, CellKept
<1>7. ASSUME NEW t \in Threads, RegisterFails(t) PROVE CellInv'
  <2>1. request[t].link = Nowhere /\ Nowhere \notin Link
    BY <1>7, ConstantsAssumption DEF RegisterFails, CallInv
  <2>2. request'[t].link = Nowhere /\ \A u \in Threads : u # t => request'[u] = request[u]
    BY <1>7, DoneChange DEF RegisterFails
  <2>3. UNCHANGED <<cell, program, phase, allocated, marks, dl_head>>
    BY <1>7 DEF RegisterFails
  <2>4. \A u \in Threads : request'[u].link \in Link =>
                             cell'[request'[u].link] \in {request'[u].obj, Nowhere}
    <3> SUFFICES ASSUME NEW u \in Threads, request'[u].link \in Link
                 PROVE  cell'[request'[u].link] \in {request'[u].obj, Nowhere}
      OBVIOUS
    <3>1. u # t /\ request'[u] = request[u]
      BY <2>1, <2>2
    <3> QED
      BY <3>1, <2>3
  <2> HIDE DEF TypeOK, CellInv
  <2> QED
    BY <2>1, <2>2, <2>3, <2>4, CellKept
<1>8. CASE \E o \in Obj : EnqueueUnreachable(o) \/ EnqueueAny(o)
  BY <1>8, ZenonT(40) DEF EnqueueUnreachable, EnqueueAny
<1>9. ASSUME NEW t \in Threads, NEW l \in Link, NEW o \in Obj, WriteLink(t, l, o)
      PROVE  CellInv'
  <2>1. request[t].link = Nowhere /\ Nowhere \notin Link
    BY <1>9, ConstantsAssumption DEF WriteLink, CallInv
  <2>2. /\ request'[t].obj = o /\ request'[t].link = l
        /\ \A u \in Threads : u # t => request'[u] = request[u]
    BY <1>9, AskChange DEF WriteLink
  <2>3. cell' = [cell EXCEPT ![l] = o] /\ \A u \in Threads : request[u].link = l => request[u].obj = o
    BY <1>9 DEF WriteLink
  <2>4. UNCHANGED <<program, phase, allocated, marks, dl_head>>
    BY <1>9 DEF WriteLink
  <2>5. \A u \in Threads : request'[u].link \in Link =>
                             cell'[request'[u].link] \in {request'[u].obj, Nowhere}
    <3> SUFFICES ASSUME NEW u \in Threads, request'[u].link \in Link
                 PROVE  cell'[request'[u].link] \in {request'[u].obj, Nowhere}
      OBVIOUS
    <3>1. CASE u = t
      BY <3>1, <2>2, <2>3
    <3>2. CASE u # t
      BY <3>2, <2>2, <2>3
    <3> QED
      BY <3>1, <3>2
  <2>6. \A x \in Link : x # l => cell'[x] = cell[x]
    BY <2>3
  <2>7. cell'[l] = o
    BY <2>3
  <2> HIDE DEF TypeOK, CellInv
  <2> QED
    BY <2>1, <2>2, <2>4, <2>5, <2>6, <2>7, CellKept
<1>10. ASSUME NEW t \in Threads, LinkFails(t) PROVE CellInv'
  <2>1. request[t].link \in Link /\ Nowhere \notin Link
    BY <1>10, ConstantsAssumption DEF LinkFails, CallInv
  <2>2. request'[t].link = Nowhere /\ \A u \in Threads : u # t => request'[u] = request[u]
    BY <1>10, DoneChange DEF LinkFails
  <2>3. UNCHANGED <<program, phase, allocated, marks, dl_head>>
        /\ cell' = [cell EXCEPT ![request[t].link] = Nowhere]
    BY <1>10 DEF LinkFails
  <2>4. \A u \in Threads : request'[u].link \in Link =>
                             cell'[request'[u].link] \in {request'[u].obj, Nowhere}
    <3> SUFFICES ASSUME NEW u \in Threads, request'[u].link \in Link
                 PROVE  cell'[request'[u].link] \in {request'[u].obj, Nowhere}
      OBVIOUS
    <3>1. u # t /\ request'[u] = request[u] /\ cell[request[u].link] \in {request[u].obj, Nowhere}
      BY <2>1, <2>2
    <3> QED
      BY <3>1, <2>3
  <2>5. cell'[request[t].link] = Nowhere /\ \A x \in Link : x # request[t].link => cell'[x] = cell[x]
    BY <2>1, <2>3
  <2> HIDE DEF TypeOK, CellInv
  <2> QED
    BY <2>1, <2>2, <2>3, <2>4, <2>5, CellKept
<1>11. ASSUME NEW l \in Link, ClearLink(l) PROVE CellInv'
  <2>1. l \in Linked
    BY <1>11 DEF ClearLink, MarkInv, PassInv
  <2>2. CASE UNCHANGED <<cell, dl_head>>
    BY <1>11, <2>2 DEF ClearLink
  <2>3. CASE cell' = [cell EXCEPT ![l] = Nowhere] /\ dl_head' = [dl_head EXCEPT ![l] = Tail(@)]
    <3>1. UNCHANGED <<program, phase, allocated, marks, request>>
      BY <1>11 DEF ClearLink
    <3>2. l \in Link /\ \A x \in Link : x # l => dl_head'[x] = dl_head[x]
      BY <2>1, <2>3 DEF Linked
    <3> QED
      BY <2>3, <3>1, <3>2, ZenonT(40)
  <2>4. \/ UNCHANGED <<cell, dl_head>>
        \/ cell' = [cell EXCEPT ![l] = Nowhere] /\ dl_head' = [dl_head EXCEPT ![l] = Tail(@)]
    BY <1>11 DEF ClearLink
  <2> QED
    BY <2>2, <2>3, <2>4
<1>12. ASSUME NEW t \in Threads, GC_general_register_disappearing_link(t) PROVE CellInv'
  <2>1. request[t].obj \in Obj /\ request[t].link \in Link
    BY <1>12 DEF GC_general_register_disappearing_link, CallInv
  <2>2. CASE UNCHANGED <<dl_head, request>>
    BY <1>12, <2>2 DEF GC_general_register_disappearing_link, Unlocked
  <2>3. CASE Done(t) /\ ~UNCHANGED <<dl_head, request>>
    <3>1. /\ ToSet(dl_head'[request[t].link]) = {request[t].obj}
          /\ \A x \in Link : x # request[t].link => dl_head'[x] = dl_head[x]
      <4>1. dl_head' = [dl_head EXCEPT ![request[t].link] = <<request[t].obj>>]
        BY <1>12, <2>1, <2>3, LinkAdded DEF GC_general_register_disappearing_link
      <4> QED
        BY <2>1, <4>1, LinkEntry
    <3>2. /\ request'[t].link = Nowhere /\ Nowhere \notin Link
          /\ \A u \in Threads : u # t => request'[u] = request[u]
      BY <2>3, DoneChange, ConstantsAssumption
    <3>3. UNCHANGED <<phase, cell, program, allocated>> /\ phase = "none"
      BY <1>12 DEF GC_general_register_disappearing_link, Unlocked
    <3>4. \A u \in Threads : request'[u].link \in Link =>
                             cell'[request'[u].link] \in {request'[u].obj, Nowhere}
      BY <3>2, <3>3
    <3>5. cell'[request[t].link] \in {request[t].obj, Nowhere}
      BY <2>1, <3>3
    <3>6. UNCHANGED marks
      BY <1>12 DEF GC_general_register_disappearing_link
    <3> HIDE DEF TypeOK, CellInv
    <3> QED
      BY <3>1, <3>2, <3>3, <3>4, <3>5, <3>6, CellKept
  <2> QED
    BY <1>12, <2>2, <2>3 DEF GC_general_register_disappearing_link
<1>13. ASSUME NEW t \in Threads, LinkWithNewEntry(t) PROVE CellInv'
  <2>1. request[t].obj \in Obj /\ request[t].link \in Link
    BY <1>13 DEF LinkWithNewEntry, CallInv
  <2>2. CASE UNCHANGED <<dl_head, request>>
    BY <1>13, <2>2 DEF LinkWithNewEntry, Unlocked
  <2>3. CASE Done(t) /\ ~UNCHANGED <<dl_head, request>>
    <3>1. /\ ToSet(dl_head'[request[t].link]) = {request[t].obj}
          /\ \A x \in Link : x # request[t].link => dl_head'[x] = dl_head[x]
      <4>1. dl_head' = [dl_head EXCEPT ![request[t].link] = <<request[t].obj>>]
        BY <1>13, <2>1, <2>3, LinkAdded DEF LinkWithNewEntry
      <4> QED
        BY <2>1, <4>1, LinkEntry
    <3>2. /\ request'[t].link = Nowhere /\ Nowhere \notin Link
          /\ \A u \in Threads : u # t => request'[u] = request[u]
      BY <2>3, DoneChange, ConstantsAssumption
    <3>3. UNCHANGED <<phase, cell, program, allocated>> /\ phase = "none"
      BY <1>13 DEF LinkWithNewEntry, Unlocked
    <3>4. \A u \in Threads : request'[u].link \in Link =>
                             cell'[request'[u].link] \in {request'[u].obj, Nowhere}
      BY <3>2, <3>3
    <3>5. cell'[request[t].link] \in {request[t].obj, Nowhere}
      BY <2>1, <3>3
    <3>6. UNCHANGED marks
      BY <1>13 DEF LinkWithNewEntry
    <3> HIDE DEF TypeOK, CellInv
    <3> QED
      BY <3>1, <3>2, <3>3, <3>4, <3>5, <3>6, CellKept
  <2> QED
    BY <1>13, <2>2, <2>3 DEF LinkWithNewEntry
<1>14. ASSUME NEW t \in Threads, NEW l \in Link, GC_unregister_disappearing_link(t, l)
       PROVE  CellInv'
  BY <1>14 DEF GC_unregister_disappearing_link, Unlocked
<1>15. CASE RemoveDangling
  BY <1>15 DEF RemoveDangling
<1>16. CASE Sweep
  BY <1>16 DEF Sweep
<1> QED
  BY <1>1, <1>2, <1>3, <1>4, <1>5, <1>6, <1>7, <1>8, <1>9, <1>10, <1>11, <1>12, <1>13, <1>14,
     <1>15, <1>16
  DEF Next, Program, Calls, Collection

\* Every step keeps allocated what can be come to.
LEMMA AllocStep ==
  ASSUME IInv, Next
  PROVE  AllocInv'
<1> USE DEF IInv, TypeOK, Go, StartPass, LookedAt, threadVars, passVars, heapVars, tableVars
<1>1. ASSUME NEW o \in Obj, Drop(o) PROVE AllocInv'
  <2>1. PICK C \in SUBSET allocated : Closed(C) /\ ProgramIn(C) /\ QueueIn(C) /\ TablesIn(C)
    BY DEF AllocInv
  <2>8. Closed(C)' /\ ProgramIn(C)' /\ QueueIn(C)' /\ TablesIn(C)' /\ allocated' = allocated
    BY <1>1, <2>1 DEF Drop, Closed, ProgramIn, QueueIn, TablesIn, Queued, Registered, Linked,
       Home
  <2> QED
    BY <2>1, <2>8 DEF AllocInv
<1>2. ASSUME NEW o \in Obj, Load(o) PROVE AllocInv'
  <2>1. PICK C \in SUBSET allocated : Closed(C) /\ ProgramIn(C) /\ QueueIn(C) /\ TablesIn(C)
    BY DEF AllocInv
  <2>8. Closed(C)' /\ ProgramIn(C)' /\ QueueIn(C)' /\ TablesIn(C)' /\ allocated' = allocated
    BY <1>2, <2>1 DEF Load, Closed, ProgramIn, QueueIn, TablesIn, Queued, Registered, Linked,
       Home
  <2> QED
    BY <2>1, <2>8 DEF AllocInv
<1>3. CASE \E t \in Threads : GC_invoke_finalizers(t) \/ NoneLeft(t) \/ GC_finalize_all(t)
                              \/ NothingRegistered(t) \/ GC_enqueue_all_finalizers(t)
                                 \/ AllEnqueued(t)
  <2>1. PICK C \in SUBSET allocated : Closed(C) /\ ProgramIn(C) /\ QueueIn(C) /\ TablesIn(C)
    BY DEF AllocInv
  <2>8. Closed(C)' /\ ProgramIn(C)' /\ QueueIn(C)' /\ TablesIn(C)' /\ allocated' = allocated
    BY <1>3, <2>1 DEF GC_invoke_finalizers, NoneLeft, GC_finalize_all, NothingRegistered,
       GC_enqueue_all_finalizers, AllEnqueued, After, Unlocked, Closed, ProgramIn, QueueIn,
       TablesIn, Queued, Registered, Linked, Home
  <2> QED
    BY <2>1, <2>8 DEF AllocInv
<1>4. CASE
         \/ LinksCleared \/ MarkedFromFinalizable \/ Enqueued \/ JavaMark \/ JavaMarked
            \/ Revived \/ Mark
         \/ \E o \in Obj : MarkFromFinalizable(o)
  <2>1. PICK C \in SUBSET allocated : Closed(C) /\ ProgramIn(C) /\ QueueIn(C) /\ TablesIn(C)
    BY DEF AllocInv
  <2>8. Closed(C)' /\ ProgramIn(C)' /\ QueueIn(C)' /\ TablesIn(C)' /\ allocated' = allocated
    BY <1>4, <2>1 DEF LinksCleared, MarkFromFinalizable, MarkedFromFinalizable, Enqueued,
       JavaMark, JavaMarked, Revived, Mark, Unlocked, Closed, ProgramIn, QueueIn, TablesIn,
       Queued, Registered, Linked, Home
  <2> QED
    BY <2>1, <2>8 DEF AllocInv
<1>5. ASSUME NEW t \in Threads, RegisterFails(t) PROVE AllocInv'
  <2>1. PICK C \in SUBSET allocated : Closed(C) /\ ProgramIn(C) /\ QueueIn(C) /\ TablesIn(C)
    BY DEF AllocInv
  <2>2. ProgramIn(C)'
    BY <1>5, <2>1, ProgramDone DEF RegisterFails
  <2>3. Closed(C)' /\ QueueIn(C)' /\ TablesIn(C)' /\ allocated' = allocated
    BY <1>5, <2>1 DEF RegisterFails, Closed, QueueIn, TablesIn, Queued, Registered, Linked, Home
  <2> QED
    BY <2>1, <2>2, <2>3 DEF AllocInv
<1>6. ASSUME NEW t \in Threads, LinkFails(t) PROVE AllocInv'
  <2>1. PICK C \in SUBSET allocated : Closed(C) /\ ProgramIn(C) /\ QueueIn(C) /\ TablesIn(C)
    BY DEF AllocInv
  <2>2. ProgramIn(C)'
    BY <1>6, <2>1, ProgramDone DEF LinkFails
  <2>3. Closed(C)' /\ QueueIn(C)' /\ TablesIn(C)' /\ allocated' = allocated
    BY <1>6, <2>1 DEF LinkFails, Closed, QueueIn, TablesIn, Queued, Registered, Linked, Home
  <2> QED
    BY <2>1, <2>2, <2>3 DEF AllocInv
<1>7. ASSUME NEW t \in Threads, NEW l \in Link, NEW o \in Obj, WriteLink(t, l, o)
      PROVE  AllocInv'
  <2>1. PICK C \in SUBSET allocated : Closed(C) /\ ProgramIn(C) /\ QueueIn(C) /\ TablesIn(C)
    BY DEF AllocInv
  <2>2. /\ request'[t].obj = o /\ request'[t].link = l
        /\ \A u \in Threads : u # t => request'[u] = request[u]
    BY <1>7, AskChange DEF WriteLink
  <2>3. o \in C /\ Home[l] \in C \cup {Nowhere}
    BY <1>7, <2>1 DEF WriteLink, Accessible, ProgramIn
  <2>4. ProgramIn(C)'
    BY <1>7, <2>1, <2>2, <2>3, ProgramKept DEF WriteLink
  <2>5. Closed(C)' /\ QueueIn(C)' /\ TablesIn(C)' /\ allocated' = allocated
    BY <1>7, <2>1 DEF WriteLink, Closed, QueueIn, TablesIn, Queued, Registered, Linked, Home
  <2> QED
    BY <2>1, <2>4, <2>5 DEF AllocInv
<1>8. ASSUME NEW l \in Link, Reveal(l) PROVE AllocInv'
  <2>1. PICK C \in SUBSET allocated : Closed(C) /\ ProgramIn(C) /\ QueueIn(C) /\ TablesIn(C)
    BY DEF AllocInv
  <2>2. cell[l] \in C
    <3>1. Home[l] \in allocated \cup {Nowhere}
      BY <1>8, <2>1 DEF Reveal, Accessible, ProgramIn
    <3>2. \/ cell[l] \in ToSet(dl_head[l])
          \/ \E t \in Threads : request[t].link = l /\ request[t].obj = cell[l]
      BY <1>8, <3>1 DEF Reveal, Unlocked, CellInv
    <3>3. ToSet(dl_head[l]) \subseteq C
      BY <2>1 DEF TablesIn, Linked, ToSet
    <3> QED
      BY <1>8, <2>1, <3>2, <3>3 DEF Reveal, ProgramIn
  <2>8. Closed(C)' /\ ProgramIn(C)' /\ QueueIn(C)' /\ TablesIn(C)' /\ allocated' = allocated
    BY <1>8, <2>1, <2>2 DEF Reveal, Unlocked, Closed, ProgramIn, QueueIn, TablesIn, Queued,
       Registered, Linked, Home
  <2> QED
    BY <2>1, <2>8 DEF AllocInv
<1>9. ASSUME NEW t \in Threads, NEW o \in Obj, NEW p \in Procs, GC_register_finalizer(t, o, p)
      PROVE  AllocInv'
  <2>1. PICK C \in SUBSET allocated : Closed(C) /\ ProgramIn(C) /\ QueueIn(C) /\ TablesIn(C)
    BY DEF AllocInv
  <2>2. Registered' \subseteq Registered \cup {o}
    <3>1. CASE UNCHANGED fo_head
      BY <3>1 DEF Registered
    <3>2. CASE ~UNCHANGED fo_head
      BY <1>9, <3>2, FinalizerAdded DEF GC_register_finalizer
    <3> QED
      BY <3>1, <3>2
  <2>3. o \in C /\ Nowhere \notin Link
    BY <1>9, <2>1, ConstantsAssumption DEF GC_register_finalizer, ProgramIn
  <2>4. ProgramIn(C)'
    <3>1. CASE UNCHANGED request
      BY <1>9, <2>1, <3>1 DEF GC_register_finalizer, ProgramIn, Home
    <3>2. CASE Asks(t, o, p, Nowhere)
      <4>1. /\ request'[t].obj = o /\ request'[t].link = Nowhere
            /\ \A u \in Threads : u # t => request'[u] = request[u]
        BY <3>2, AskChange
      <4>2. held' = held /\ program' = program
        BY <1>9 DEF GC_register_finalizer
      <4> QED
        BY <2>1, <2>3, <4>1, <4>2, ProgramKept
    <3> QED
      BY <1>9, <3>1, <3>2 DEF GC_register_finalizer
  <2>5. Closed(C)' /\ QueueIn(C)' /\ TablesIn(C)' /\ allocated' = allocated
    BY <1>9, <2>1, <2>2, <2>3 DEF GC_register_finalizer, Closed, QueueIn, TablesIn, Queued,
       Linked, Home
  <2> QED
    BY <2>1, <2>4, <2>5 DEF AllocInv
<1>10. ASSUME NEW t \in Threads, RegisterWithNewEntry(t) PROVE AllocInv'
  <2>1. PICK C \in SUBSET allocated : Closed(C) /\ ProgramIn(C) /\ QueueIn(C) /\ TablesIn(C)
    BY DEF AllocInv
  <2>2. Registered' \subseteq Registered \cup {request[t].obj} /\ request[t].obj \in Obj
    BY <1>10, FinalizerAdded DEF RegisterWithNewEntry, CallInv, Request
  <2>3. request[t].obj \in C
    BY <2>1, <2>2, ConstantsAssumption DEF ProgramIn
  <2>4. ProgramIn(C)'
    BY <1>10, <2>1, ProgramDone DEF RegisterWithNewEntry
  <2>5. Closed(C)' /\ QueueIn(C)' /\ TablesIn(C)' /\ allocated' = allocated
    BY <1>10, <2>1, <2>2, <2>3 DEF RegisterWithNewEntry, Closed, QueueIn, TablesIn, Queued,
       Linked, Home
  <2> QED
    BY <2>1, <2>4, <2>5 DEF AllocInv
<1>11. ASSUME NEW t \in Threads, NEW o \in Obj, GC_unregister_finalizer(t, o)
       PROVE  AllocInv'
  <2>1. PICK C \in SUBSET allocated : Closed(C) /\ ProgramIn(C) /\ QueueIn(C) /\ TablesIn(C)
    BY DEF AllocInv
  <2>2. Registered' \subseteq Registered
    BY <1>11, FinalizerRemoved DEF GC_unregister_finalizer
  <2>8. Closed(C)' /\ ProgramIn(C)' /\ QueueIn(C)' /\ TablesIn(C)' /\ allocated' = allocated
    BY <1>11, <2>1, <2>2 DEF GC_unregister_finalizer, Unlocked, Closed, ProgramIn, QueueIn,
       TablesIn, Queued, Linked, Home
  <2> QED
    BY <2>1, <2>8 DEF AllocInv
<1>12. ASSUME NEW t \in Threads, GC_general_register_disappearing_link(t) PROVE AllocInv'
  <2>1. PICK C \in SUBSET allocated : Closed(C) /\ ProgramIn(C) /\ QueueIn(C) /\ TablesIn(C)
    BY DEF AllocInv
  <2>2. request[t].obj \in Obj /\ request[t].link \in Link
    BY <1>12 DEF GC_general_register_disappearing_link, CallInv
  <2>3. /\ request[t].obj \in C /\ Home[request[t].link] \in C \cup {Nowhere}
    BY <2>1, <2>2, ConstantsAssumption DEF ProgramIn
  <2>4. TablesIn(C)'
    <3>1. CASE UNCHANGED dl_head
      BY <1>12, <2>1, <3>1 DEF GC_general_register_disappearing_link, TablesIn, Registered,
         Linked, Home
    <3>2. CASE ~UNCHANGED dl_head
      <4>1. dl_head' = [dl_head EXCEPT ![request[t].link] = <<request[t].obj>>]
            /\ Linked' = Linked \cup {request[t].link}
        BY <1>12, <2>2, <3>2, LinkAdded DEF GC_general_register_disappearing_link
      <4>2. ToSet(dl_head'[request[t].link]) \subseteq C
        BY <4>1, <2>2, <2>3 DEF ToSet
      <4>3. \A x \in Linked' : ToSet(dl_head'[x]) \subseteq C /\ Home[x] \in C \cup {Nowhere}
        BY <2>1, <2>2, <2>3, <4>1, <4>2 DEF TablesIn, Linked
      <4> QED
        BY <1>12, <2>1, <4>3 DEF GC_general_register_disappearing_link, TablesIn, Registered,
           Home
    <3> QED
      BY <3>1, <3>2
  <2>5. ProgramIn(C)'
    <3>1. CASE UNCHANGED request
      BY <1>12, <2>1, <3>1 DEF GC_general_register_disappearing_link, ProgramIn, Home
    <3>2. CASE Done(t)
      BY <1>12, <2>1, <3>2, ProgramDone DEF GC_general_register_disappearing_link
    <3> QED
      BY <1>12, <3>1, <3>2 DEF GC_general_register_disappearing_link
  <2>6. Closed(C)' /\ QueueIn(C)' /\ allocated' = allocated
    BY <1>12, <2>1 DEF GC_general_register_disappearing_link, Closed, QueueIn, Queued
  <2> QED
    BY <2>1, <2>4, <2>5, <2>6 DEF AllocInv
<1>13. ASSUME NEW t \in Threads, LinkWithNewEntry(t) PROVE AllocInv'
  <2>1. PICK C \in SUBSET allocated : Closed(C) /\ ProgramIn(C) /\ QueueIn(C) /\ TablesIn(C)
    BY DEF AllocInv
  <2>2. request[t].obj \in Obj /\ request[t].link \in Link
    BY <1>13 DEF LinkWithNewEntry, CallInv
  <2>3. /\ request[t].obj \in C /\ Home[request[t].link] \in C \cup {Nowhere}
    BY <2>1, <2>2, ConstantsAssumption DEF ProgramIn
  <2>4. TablesIn(C)'
    <3>1. CASE UNCHANGED dl_head
      BY <1>13, <2>1, <3>1 DEF LinkWithNewEntry, TablesIn, Registered, Linked, Home
    <3>2. CASE ~UNCHANGED dl_head
      <4>1. dl_head' = [dl_head EXCEPT ![request[t].link] = <<request[t].obj>>]
            /\ Linked' = Linked \cup {request[t].link}
        BY <1>13, <2>2, <3>2, LinkAdded DEF LinkWithNewEntry
      <4>2. ToSet(dl_head'[request[t].link]) \subseteq C
        BY <4>1, <2>2, <2>3 DEF ToSet
      <4>3. \A x \in Linked' : ToSet(dl_head'[x]) \subseteq C /\ Home[x] \in C \cup {Nowhere}
        BY <2>1, <2>2, <2>3, <4>1, <4>2 DEF TablesIn, Linked
      <4> QED
        BY <1>13, <2>1, <4>3 DEF LinkWithNewEntry, TablesIn, Registered, Home
    <3> QED
      BY <3>1, <3>2
  <2>5. ProgramIn(C)'
    <3>1. CASE UNCHANGED request
      BY <1>13, <2>1, <3>1 DEF LinkWithNewEntry, ProgramIn, Home
    <3>2. CASE Done(t)
      BY <1>13, <2>1, <3>2, ProgramDone DEF LinkWithNewEntry
    <3> QED
      BY <1>13, <3>1, <3>2 DEF LinkWithNewEntry
  <2>6. Closed(C)' /\ QueueIn(C)' /\ allocated' = allocated
    BY <1>13, <2>1 DEF LinkWithNewEntry, Closed, QueueIn, Queued
  <2> QED
    BY <2>1, <2>4, <2>5, <2>6 DEF AllocInv
<1>14. ASSUME NEW t \in Threads, NEW l \in Link, GC_unregister_disappearing_link(t, l)
       PROVE  AllocInv'
  <2>1. PICK C \in SUBSET allocated : Closed(C) /\ ProgramIn(C) /\ QueueIn(C) /\ TablesIn(C)
    BY DEF AllocInv
  <2>2. l \in Linked
    BY <1>14 DEF GC_unregister_disappearing_link
  <2>3. Linked' \subseteq Linked /\ \A x \in Linked' : dl_head'[x] = dl_head[x]
    <3>1. CASE UNCHANGED dl_head
      BY <3>1 DEF Linked
    <3>2. CASE ~UNCHANGED dl_head
      BY <1>14, <2>2, <3>2, LinkRemoved DEF GC_unregister_disappearing_link, Linked
    <3> QED
      BY <3>1, <3>2
  <2>8. Closed(C)' /\ ProgramIn(C)' /\ QueueIn(C)' /\ TablesIn(C)' /\ allocated' = allocated
    BY <1>14, <2>1, <2>3 DEF GC_unregister_disappearing_link, Closed, ProgramIn, QueueIn,
       TablesIn, Queued, Registered, Home
  <2> QED
    BY <2>1, <2>8 DEF AllocInv
<1>15. ASSUME NEW l \in Link, ClearLink(l) PROVE AllocInv'
  <2>1. PICK C \in SUBSET allocated : Closed(C) /\ ProgramIn(C) /\ QueueIn(C) /\ TablesIn(C)
    BY DEF AllocInv
  <2>2. l \in Linked
    BY <1>15 DEF ClearLink, MarkInv, PassInv
  <2>3. Linked' \subseteq Linked /\ \A x \in Linked' : dl_head'[x] = dl_head[x]
    <3>1. CASE UNCHANGED dl_head
      BY <3>1 DEF Linked
    <3>2. CASE ~UNCHANGED dl_head
      BY <1>15, <2>2, <3>2, LinkRemoved DEF ClearLink, Linked
    <3> QED
      BY <3>1, <3>2
  <2>8. Closed(C)' /\ ProgramIn(C)' /\ QueueIn(C)' /\ TablesIn(C)' /\ allocated' = allocated
    BY <1>15, <2>1, <2>3 DEF ClearLink, Closed, ProgramIn, QueueIn, TablesIn, Queued,
       Registered, Home
  <2> QED
    BY <2>1, <2>8 DEF AllocInv
<1>16. CASE RemoveDangling
  <2>1. PICK C \in SUBSET allocated : Closed(C) /\ ProgramIn(C) /\ QueueIn(C) /\ TablesIn(C)
    BY DEF AllocInv
  <2>8. Closed(C)' /\ ProgramIn(C)' /\ QueueIn(C)' /\ TablesIn(C)' /\ allocated' = allocated
    BY <1>16, <2>1 DEF RemoveDangling, Closed, ProgramIn, QueueIn, TablesIn, Queued,
       Registered, Linked, Home
  <2> QED
    BY <2>1, <2>8 DEF AllocInv
<1>17. ASSUME NEW o \in Obj, EnqueueAny(o) PROVE AllocInv'
  <2>1. PICK C \in SUBSET allocated : Closed(C) /\ ProgramIn(C) /\ QueueIn(C) /\ TablesIn(C)
    BY DEF AllocInv
  <2>2. o \in Registered /\ Enqueue(o)
    BY <1>17 DEF EnqueueAny, MarkInv, PassInv
  <2>3. Registered' \subseteq Registered /\ QueueIn(C)'
    BY <2>1, <2>2, Enqueueing DEF QueueIn, TablesIn
  <2>4. TablesIn(C)'
    BY <1>17, <2>1, <2>3 DEF EnqueueAny, TablesIn, Linked, Home
  <2>5. Closed(C)' /\ ProgramIn(C)' /\ allocated' = allocated
    BY <1>17, <2>1 DEF EnqueueAny, Closed, ProgramIn, Home
  <2> QED
    BY <2>1, <2>3, <2>4, <2>5 DEF AllocInv
<1>18. ASSUME NEW o \in Obj, EnqueueUnreachable(o) PROVE AllocInv'
  <2>1. PICK C \in SUBSET allocated : Closed(C) /\ ProgramIn(C) /\ QueueIn(C) /\ TablesIn(C)
    BY DEF AllocInv
  <2>2. CASE o \in marks
    <3>1. Closed(C)' /\ ProgramIn(C)' /\ QueueIn(C)' /\ TablesIn(C)' /\ allocated' = allocated
      BY <1>18, <2>1, <2>2 DEF EnqueueUnreachable, Closed, ProgramIn, QueueIn, TablesIn,
         Queued, Registered, Linked, Home
    <3> QED
      BY <2>1, <3>1 DEF AllocInv
  <2>3. CASE o \notin marks
    <3>1. o \in Registered /\ Enqueue(o)
      BY <1>18, <2>3 DEF EnqueueUnreachable, MarkInv, PassInv
    <3>2. Registered' \subseteq Registered /\ QueueIn(C)'
      BY <2>1, <3>1, Enqueueing DEF QueueIn, TablesIn
    <3>3. TablesIn(C)'
      BY <1>18, <2>1, <3>2 DEF EnqueueUnreachable, TablesIn, Linked, Home
    <3>4. Closed(C)' /\ ProgramIn(C)' /\ allocated' = allocated
      BY <1>18, <2>1 DEF EnqueueUnreachable, Closed, ProgramIn, Home
    <3> QED
      BY <2>1, <3>2, <3>3, <3>4 DEF AllocInv
  <2> QED
    BY <2>2, <2>3
<1>19. CASE Revive
  <2>1. PICK C \in SUBSET allocated : Closed(C) /\ ProgramIn(C) /\ QueueIn(C) /\ TablesIn(C)
    BY DEF AllocInv
  <2>2. at \in 1 .. Len(GC_finalize_now)
    BY <1>19, LenProperties DEF Revive, MarkInv, PassInv
  <2> DEFINE e == GC_finalize_now[at]
  <2>3. e \in Queued /\ e \in Entry
    BY <2>2, LenProperties, ElementOfSeq DEF Queued, ToSet
  <2>4. e.obj \in C /\ e.obj \in Obj /\ e.proc \in Procs
    BY <2>1, <2>3 DEF QueueIn, Entry
  <2>5. Registered' \subseteq Registered \cup {e.obj}
    <3>1. CASE UNCHANGED fo_head
      BY <3>1 DEF Registered
    <3>2. CASE ~UNCHANGED fo_head
      <4>1. AddEntry(e.obj, e.proc)
        BY <1>19, <3>2 DEF Revive, AddEntry
      <4> QED
        BY <4>1, <2>4, FinalizerAdded
    <3> QED
      BY <3>1, <3>2
  <2>6. Queued' \subseteq Queued
    BY <1>19, <2>2, OneRemoved DEF Revive, Queued
  <2> HIDE DEF e
  <2>7. TablesIn(C)' /\ QueueIn(C)'
    BY <1>19, <2>1, <2>4, <2>5, <2>6 DEF Revive, TablesIn, QueueIn, Linked, Home
  <2>8. Closed(C)' /\ ProgramIn(C)' /\ allocated' = allocated
    BY <1>19, <2>1 DEF Revive, Closed, ProgramIn, Home
  <2> QED
    BY <2>1, <2>7, <2>8 DEF AllocInv
<1>20. ASSUME NEW t \in Threads, InvokeFirst(t) PROVE AllocInv'
  <2>1. PICK C \in SUBSET allocated : Closed(C) /\ ProgramIn(C) /\ QueueIn(C) /\ TablesIn(C)
    BY DEF AllocInv
  <2>2. Queued' \subseteq Queued /\ Head(GC_finalize_now) \in Queued
    BY <1>20, FirstRemoved DEF InvokeFirst, Queued
  <2>8. Closed(C)' /\ ProgramIn(C)' /\ QueueIn(C)' /\ TablesIn(C)' /\ allocated' = allocated
    BY <1>20, <2>1, <2>2 DEF InvokeFirst, Unlocked, Closed, ProgramIn, QueueIn, TablesIn,
       Registered, Linked, Home
  <2> QED
    BY <2>1, <2>8 DEF AllocInv
<1>21. CASE Sweep
  <2>1. PICK C \in SUBSET allocated : Closed(C) /\ ProgramIn(C) /\ QueueIn(C) /\ TablesIn(C)
    BY DEF AllocInv
  <2>2. Closed(marks) /\ ProgramIn(marks) /\ QueueIn(marks) /\ TablesIn(marks)
    BY <1>21 DEF Sweep, MarkInv, PassInv, Passes, TablesIn, LinksMarked
  <2>3. PICK D \in SUBSET allocated' : D = C \cap marks
    BY <1>21 DEF Sweep
  <2>4. (Closed(D) /\ ProgramIn(D) /\ QueueIn(D) /\ TablesIn(D))'
    BY <1>21, <2>1, <2>2, <2>3 DEF Sweep, Closed, ProgramIn, QueueIn, TablesIn, Queued,
       Registered, Linked, Home
  <2> QED
    BY <2>4 DEF AllocInv
<1> QED
  BY <1>1, <1>2, <1>3, <1>4, <1>5, <1>6, <1>7, <1>8, <1>9, <1>10, <1>11, <1>12, <1>13, <1>14,
     <1>15, <1>16, <1>17, <1>18, <1>19, <1>20, <1>21
  DEF Next, Program, Calls, Collection

\* The union of two closed sets is closed.
LEMMA ClosedUnion ==
  ASSUME NEW C, NEW D, Closed(C), Closed(D)
  PROVE  Closed(C \cup D)
  BY DEF Closed

\* What marks grow by leaves what was marked.
LEMMA MarksGrow ==
  ASSUME ProgramIn(marks), marks \subseteq marks', UNCHANGED <<program, held, request>>
  PROVE  ProgramIn(marks)'
  BY DEF ProgramIn, Home

\* Closed means the same in the next state.
LEMMA ClosedLater ==
  ASSUME NEW C, Closed(C), program' = program, marks' = C
  PROVE  Closed(marks)'
  BY DEF Closed

\* A finalizer that respects the order pushes all that the object points to,
\* but perhaps itself.
LEMMA OrderedPushes ==
  ASSUME TypeOK, NEW o \in Obj, NEW p \in Procs, p # "null"
  PROVE  program.points[o] \subseteq Pushes(o, p) \cup {o}
  BY DEF Pushes, Procs

\* The entry that the passes of GC_java_finalization look at.
LEMMA EntryAt ==
  ASSUME TypeOK, at >= 1, at <= Len(GC_finalize_now)
  PROVE  /\ at \in 1 .. Len(GC_finalize_now) /\ at \in DOMAIN GC_finalize_now
         /\ GC_finalize_now[at] \in Entry /\ GC_finalize_now[at] \in Queued
         /\ GC_finalize_now[at].obj \in Obj /\ GC_finalize_now[at].proc \in Procs
<1>1. GC_finalize_now \in Seq(Entry) /\ at \in Nat
  BY DEF TypeOK
<1>2. Len(GC_finalize_now) \in Nat /\ DOMAIN GC_finalize_now = 1 .. Len(GC_finalize_now)
  BY <1>1, LenProperties
<1>3. at \in 1 .. Len(GC_finalize_now)
  BY <1>1, <1>2
<1>4. GC_finalize_now[at] \in Entry
  BY <1>1, <1>3, ElementOfSeq
<1> QED
  BY <1>2, <1>3, <1>4 DEF Queued, ToSet, Entry

\* Every step keeps marked, in a pass, what the program has and what that
\* points to.
LEMMA MarkedStep ==
  ASSUME IInv, Next
  PROVE  phase' \in Passes => Closed(marks)' /\ ProgramIn(marks)'
<1> USE DEF IInv, TypeOK, Go, StartPass, LookedAt, Unlocked, threadVars, passVars, heapVars,
          tableVars
<1>1. CASE
         \/ \E o \in Obj : Drop(o) \/ Load(o)
         \/ \E t \in Threads : GC_invoke_finalizers(t) \/ NoneLeft(t) \/ GC_finalize_all(t)
                               \/ NothingRegistered(t)
  BY <1>1 DEF Drop, Load, GC_invoke_finalizers, NoneLeft, GC_finalize_all, NothingRegistered,
     After, Unlocked, Closed, ProgramIn, Home, Passes, MarkInv
<1>2. CASE
         \/ \E l \in Link : Reveal(l)
         \/ \E t \in Threads : \E o \in Obj : \E p \in Procs : GC_register_finalizer(t, o, p)
         \/ \E t \in Threads : RegisterWithNewEntry(t)
                               \/ GC_general_register_disappearing_link(t)
                                  \/ LinkWithNewEntry(t) \/ InvokeFirst(t)
                                     \/ GC_enqueue_all_finalizers(t)
         \/ \E t \in Threads : \E o \in Obj : GC_unregister_finalizer(t, o)
         \/ \E t \in Threads : \E l \in Link : GC_unregister_disappearing_link(t, l)
  BY <1>2 DEF Reveal, GC_register_finalizer, RegisterWithNewEntry, GC_unregister_finalizer,
     GC_general_register_disappearing_link, LinkWithNewEntry, GC_unregister_disappearing_link,
     InvokeFirst, GC_enqueue_all_finalizers, Unlocked, Passes
<1>3. CASE
         \/ \E t \in Threads : AllEnqueued(t)
         \/ Sweep
  BY <1>3 DEF AllEnqueued, Sweep, Passes
<1>4. ASSUME NEW o \in Obj, EnqueueAny(o)
      PROVE  phase' \in Passes => Closed(marks)' /\ ProgramIn(marks)'
  BY <1>4 DEF EnqueueAny, Enqueue, Passes
<1>5. ASSUME NEW t \in Threads, RegisterFails(t)
      PROVE  phase' \in Passes => Closed(marks)' /\ ProgramIn(marks)'
  <2>1. SUFFICES ASSUME phase \in Passes PROVE Closed(marks)' /\ ProgramIn(marks)'
    BY <1>5 DEF RegisterFails
  <2>2. Closed(marks) /\ ProgramIn(marks)
    BY <2>1 DEF MarkInv
  <2>3. Done(t) /\ UNCHANGED <<held, program, marks>>
    BY <1>5 DEF RegisterFails
  <2>4. ProgramIn(marks)'
    BY <2>2, <2>3, ProgramDone
  <2> QED
    BY <2>2, <2>3, <2>4 DEF Closed
<1>6. ASSUME NEW t \in Threads, LinkFails(t)
      PROVE  phase' \in Passes => Closed(marks)' /\ ProgramIn(marks)'
  <2>1. SUFFICES ASSUME phase \in Passes PROVE Closed(marks)' /\ ProgramIn(marks)'
    BY <1>6 DEF LinkFails
  <2>2. Closed(marks) /\ ProgramIn(marks)
    BY <2>1 DEF MarkInv
  <2>3. Done(t) /\ UNCHANGED <<held, program, marks>>
    BY <1>6 DEF LinkFails
  <2>4. ProgramIn(marks)'
    BY <2>2, <2>3, ProgramDone
  <2> QED
    BY <2>2, <2>3, <2>4 DEF Closed
<1>7. ASSUME NEW t \in Threads, NEW l \in Link, NEW o \in Obj, WriteLink(t, l, o)
      PROVE  phase' \in Passes => Closed(marks)' /\ ProgramIn(marks)'
  <2>1. SUFFICES ASSUME phase \in Passes PROVE Closed(marks)' /\ ProgramIn(marks)'
    BY <1>7 DEF WriteLink
  <2>2. Closed(marks) /\ ProgramIn(marks)
    BY <2>1 DEF MarkInv
  <2>3. Asks(t, o, "normal", l) /\ UNCHANGED <<held, program, marks>>
    BY <1>7 DEF WriteLink
  <2>4. o \in marks /\ Home[l] \in marks \cup {Nowhere}
    BY <1>7, <2>2 DEF WriteLink, Accessible, ProgramIn
  <2>5. ProgramIn(marks)'
    <3>1. /\ request'[t].obj = o /\ request'[t].link = l
          /\ \A u \in Threads : u # t => request'[u] = request[u]
      BY <2>3, AskChange
    <3> QED
      BY <2>2, <2>3, <2>4, <3>1, ProgramKept
  <2> QED
    BY <2>2, <2>3, <2>5 DEF Closed
<1>8. CASE Mark
  <2>1. PICK kept \in SUBSET marks : marks' = Reach(Roots \cup kept)
    BY <1>8 DEF Mark
  <2>2. Roots \cup kept \in SUBSET Obj
    <3>1. Queued \subseteq Entry
      BY ElementOfSeq, LenProperties DEF Queued, ToSet
    <3>2. InCalls \subseteq Obj \cup {Nowhere}
      BY ProgramType DEF InCalls, Request
    <3> QED
      BY <3>1, <3>2 DEF Roots, Entry
  <2>3. Closed(marks') /\ Roots \subseteq marks'
    BY <2>1, <2>2, ReachFacts
  <2>4. UNCHANGED <<program, held, request>>
    BY <1>8 DEF Mark
  <2>5. ProgramIn(marks)'
    <3>1. held \subseteq marks' /\ InCalls \subseteq marks' \cup {Nowhere}
      BY <2>3 DEF Roots
    <3> QED
      BY <2>4, <3>1 DEF ProgramIn, InCalls, Home
  <2> QED
    BY <2>3, <2>4, <2>5, ClosedLater
<1>9. CASE
         \/ \E l \in Link : ClearLink(l)
         \/ LinksCleared \/ MarkedFromFinalizable \/ Enqueued \/ JavaMarked \/ Revived
            \/ RemoveDangling
  BY <1>9 DEF ClearLink, LinksCleared, MarkedFromFinalizable, Enqueued, JavaMarked, Revived,
     RemoveDangling, Closed, ProgramIn, Home, Passes, MarkInv
<1>10. ASSUME NEW o \in Obj, MarkFromFinalizable(o)
       PROVE  phase' \in Passes => Closed(marks)' /\ ProgramIn(marks)'
  <2>1. Closed(marks) /\ ProgramIn(marks)
    BY <1>10 DEF MarkFromFinalizable, MarkInv, Passes
  <2> DEFINE pushed == UNION {Pushes(o, p) : p \in ToSet(fo_head[o])}
  <2>2. Closed(marks') /\ marks \subseteq marks'
    <3>1. pushed \in SUBSET Obj
      BY ProgramType DEF Pushes
    <3>2. Closed(marks \cup Reach(pushed))
      BY <2>1, <3>1, ReachFacts, ClosedUnion
    <3>3. marks \cup {o} \in SUBSET Obj
      OBVIOUS
    <3>4. Closed(Reach(marks \cup {o})) /\ marks \subseteq Reach(marks \cup {o})
      BY <3>3, ReachFacts
    <3> HIDE DEF pushed
    <3>5. \/ marks' = marks \/ marks' = marks \cup Reach(pushed) \/ marks' = Reach(marks \cup {o})
      BY <1>10 DEF MarkFromFinalizable, pushed
    <3> QED
      BY <2>1, <3>2, <3>4, <3>5
  <2> QED
    BY <1>10, <2>1, <2>2, MarksGrow, ClosedLater DEF MarkFromFinalizable
<1>11. ASSUME NEW o \in Obj, EnqueueUnreachable(o)
       PROVE  phase' \in Passes => Closed(marks)' /\ ProgramIn(marks)'
  <2>1. Closed(marks) /\ ProgramIn(marks)
    BY <1>11 DEF EnqueueUnreachable, MarkInv, Passes
  <2>2. Closed(marks') /\ marks \subseteq marks'
    <3>1. CASE marks' = marks
      BY <2>1, <3>1
    <3>2. CASE o \notin marks /\ ~java /\ marks' = marks \cup {o}
      <4>1. o \in Registered /\ TableTraced(Registered)
        BY <1>11 DEF EnqueueUnreachable, MarkInv, PassInv
      <4>2. Head(fo_head[o]) \in ToSet(fo_head[o]) /\ Head(fo_head[o]) \in Procs
        BY <4>1, FirstRemoved DEF Registered
      <4>3. Pushes(o, Head(fo_head[o])) \subseteq marks
        BY <3>2, <4>1, <4>2 DEF TableTraced, Traced
      <4>4. Head(fo_head[o]) # "null"
        BY <3>2, <4>2, ProgramType DEF UsesInv
      <4>5. program.points[o] \subseteq marks \cup {o}
        BY <4>2, <4>3, <4>4, OrderedPushes
      <4> QED
        BY <2>1, <3>2, <4>5 DEF Closed
    <3> QED
      BY <1>11, <3>1, <3>2 DEF EnqueueUnreachable
  <2> QED
    BY <1>11, <2>1, <2>2, MarksGrow, ClosedLater DEF EnqueueUnreachable
<1>12. CASE JavaMark
  <2>1. Closed(marks) /\ ProgramIn(marks)
    BY <1>12 DEF JavaMark, MarkInv, Passes
  <2> DEFINE e == GC_finalize_now[at]
  <2>2. Closed(marks') /\ marks \subseteq marks'
    <3>1. at >= 1 /\ QueueTraced
      BY <1>12 DEF JavaMark, MarkInv, PassInv
    <3>2. e.obj \in Obj /\ e.proc \in Procs /\ e \in Queued
      BY <1>12, <3>1, EntryAt DEF JavaMark
    <3> HIDE DEF e
    <3>3. Traced(e.obj, e.proc)
      BY <3>1, <3>2 DEF QueueTraced
    <3>4. CASE marks' = marks
      BY <2>1, <3>4
    <3>5. CASE e.obj \notin marks /\ e.proc = "null" /\ marks' = marks \cup Reach(program.points[e.obj]) \cup {e.obj}
      <4>1. program.points[e.obj] \in SUBSET Obj
        BY <3>2, ProgramType
      <4>2. Closed(marks \cup Reach(program.points[e.obj])) /\ program.points[e.obj] \subseteq Reach(program.points[e.obj])
        BY <2>1, <4>1, ReachFacts, ClosedUnion
      <4> QED
        BY <3>5, <4>2 DEF Closed
    <3>6. CASE e.obj \notin marks /\ e.proc \notin {"null", "unreachable"} /\ marks' = marks \cup {e.obj}
      <4>1. program.points[e.obj] \subseteq marks \cup {e.obj}
        BY <3>2, <3>3, <3>6, OrderedPushes DEF Traced
      <4> QED
        BY <2>1, <3>6, <4>1 DEF Closed
    <3>7. \/ marks' = marks
          \/ e.obj \notin marks /\ e.proc = "null" /\ marks' = marks \cup Reach(program.points[e.obj]) \cup {e.obj}
          \/ e.obj \notin marks /\ e.proc \notin {"null", "unreachable"} /\ marks' = marks \cup {e.obj}
      BY <1>12 DEF JavaMark, e
    <3> QED
      BY <3>4, <3>5, <3>6, <3>7
  <2> QED
    BY <1>12, <2>1, <2>2, MarksGrow, ClosedLater DEF JavaMark
<1>13. CASE Revive
  <2>1. Closed(marks) /\ ProgramIn(marks)
    BY <1>13 DEF Revive, MarkInv, Passes
  <2> DEFINE e == GC_finalize_now[at]
  <2>2. Closed(marks') /\ marks \subseteq marks'
    <3>1. at >= 1 /\ QueueTraced
      BY <1>13 DEF Revive, MarkInv, PassInv
    <3>2. e.obj \in Obj /\ e.proc \in Procs /\ e \in Queued
      BY <1>13, <3>1, EntryAt DEF Revive
    <3> HIDE DEF e
    <3>3. CASE marks' = marks
      BY <2>1, <3>3
    <3>4. CASE e.proc = "unreachable" /\ e.obj \notin marks /\ marks' = marks \cup {e.obj}
      <4>1. Pushes(e.obj, e.proc) \subseteq marks
        BY <3>1, <3>2, <3>4 DEF QueueTraced, Traced
      <4>2. program.points[e.obj] \subseteq marks \cup {e.obj}
        BY <3>2, <3>4, <4>1, OrderedPushes
      <4> QED
        BY <2>1, <3>4, <4>2 DEF Closed
    <3>5. \/ marks' = marks
          \/ e.proc = "unreachable" /\ e.obj \notin marks /\ marks' = marks \cup {e.obj}
      BY <1>13 DEF Revive, e
    <3> QED
      BY <3>3, <3>4, <3>5
  <2> QED
    BY <1>13, <2>1, <2>2, MarksGrow, ClosedLater DEF Revive
<1> QED
  BY <1>1, <1>2, <1>3, <1>4, <1>5, <1>6, <1>7, <1>8, <1>9, <1>10, <1>11, <1>12, <1>13
  DEF Next, Program, Calls, Collection


\* Without a pass there is nothing to show.
LEMMA PassNone ==
  ASSUME phase' = "none"
  PROVE  PassInv'
  BY DEF PassInv, Passes

\* Nor if all it is about stays.
LEMMA PassSame ==
  ASSUME PassInv, UNCHANGED <<program, passVars, heapVars, tableVars>>
  PROVE  PassInv'
  BY ZenonT(40) DEF PassInv, passVars, heapVars, tableVars, Linked, Registered, LinksMarked, QueueIn,
     Queued,
         TableTraced, QueueTraced, QueueMarked, Traced, Pushes, java, Home

\* Every step keeps what is marked in each pass.
LEMMA PassStep ==
  ASSUME IInv, Next
  PROVE  PassInv'
<1> USE DEF IInv, Go, StartPass, LookedAt, Unlocked, threadVars
<1>1. CASE
         \/ \E o \in Obj : Drop(o) \/ Load(o)
         \/ \E l \in Link : Reveal(l)
         \/ \E t \in Threads : \E l \in Link : \E o \in Obj : WriteLink(t, l, o)
         \/ \E t \in Threads : RegisterFails(t) \/ LinkFails(t) \/ GC_invoke_finalizers(t)
                               \/ NoneLeft(t) \/ GC_finalize_all(t) \/ NothingRegistered(t)
  BY <1>1, PassSame DEF Drop, Load, Reveal, WriteLink, RegisterFails, LinkFails,
     GC_invoke_finalizers, NoneLeft, GC_finalize_all, NothingRegistered, Unlocked, After,
     MarkInv, passVars, heapVars, tableVars
<1>2. CASE
         \/ \E t \in Threads : \E o \in Obj : \E p \in Procs : GC_register_finalizer(t, o, p)
         \/ \E t \in Threads : RegisterWithNewEntry(t)
                               \/ GC_general_register_disappearing_link(t)
                                  \/ LinkWithNewEntry(t) \/ InvokeFirst(t)
         \/ \E t \in Threads : \E o \in Obj : GC_unregister_finalizer(t, o)
         \/ \E t \in Threads : \E l \in Link : GC_unregister_disappearing_link(t, l)
  BY <1>2, PassNone DEF GC_register_finalizer, RegisterWithNewEntry, GC_unregister_finalizer,
     GC_general_register_disappearing_link, LinkWithNewEntry, GC_unregister_disappearing_link,
     InvokeFirst, Unlocked, passVars
<1>3. CASE
         \/ \E t \in Threads : AllEnqueued(t)
         \/ Sweep
  BY <1>3, PassNone DEF AllEnqueued, Sweep
<1>4. ASSUME NEW t \in Threads, GC_enqueue_all_finalizers(t) PROVE PassInv'
  BY <1>4 DEF GC_enqueue_all_finalizers, StartPass, PassInv, Passes, Registered, tableVars
<1>5. ASSUME NEW o \in Obj, EnqueueAny(o) PROVE PassInv'
  <2>1. phase = "all" /\ Enqueue(o) /\ todo \subseteq Registered /\ o \in Registered
    BY <1>5 DEF EnqueueAny, MarkInv, PassInv
  <2>2. todo' \subseteq Registered' /\ phase' = "all"
    BY <2>1, Enqueueing
  <2> QED
    BY <2>2 DEF PassInv, Passes
<1>6. CASE Mark
  <2>1. PICK kept \in SUBSET marks : marks' = Reach(Roots \cup kept)
    BY <1>6 DEF Mark
  <2>2. Roots \cup kept \in SUBSET Obj
    <3>1. Queued \subseteq Entry
      BY ElementOfSeq, LenProperties DEF Queued, ToSet, TypeOK
    <3>2. InCalls \subseteq Obj \cup {Nowhere}
      BY ProgramType DEF InCalls, Request, TypeOK
    <3> QED
      BY <3>1, <3>2 DEF Roots, Entry, TypeOK
  <2>3. \A e \in Queued : e.obj \in marks'
    <3>1. Roots \subseteq marks'
      BY <2>1, <2>2, ReachFacts
    <3> QED
      BY <3>1 DEF Roots
  <2>4. phase' = "links" /\ todo' = Linked /\ UNCHANGED tableVars
    BY <1>6 DEF Mark, StartPass
  <2>5. Linked' = Linked /\ Queued' = Queued
    BY <2>4 DEF Linked, Queued, tableVars
  <2> QED
    BY <2>3, <2>4, <2>5 DEF PassInv, Passes, LinksMarked, QueueIn
<1>7. ASSUME NEW l \in Link, ClearLink(l) PROVE PassInv'
  <2>1. /\ phase = "links" /\ l \in todo /\ todo \subseteq Linked
        /\ LinksMarked(Linked \ todo) /\ QueueIn(marks)
    BY <1>7 DEF ClearLink, MarkInv, PassInv
  <2>2. /\ phase' = "links" /\ todo' = todo \ {l}
        /\ UNCHANGED <<marks, GC_finalize_now>>
    BY <1>7, <2>1 DEF ClearLink, LookedAt, heapVars
  <2>3. QueueIn(marks)'
    BY <2>1, <2>2 DEF QueueIn, Queued
  <2>4. todo' \subseteq Linked' /\ LinksMarked(Linked \ todo)'
    <3>1. CASE Head(dl_head[l]) \in marks /\ UNCHANGED dl_head
      <4>1. PICK x \in Obj : dl_head[l] = <<x>>
        BY <2>1 DEF OneLink, Linked
      <4>2. ToSet(dl_head[l]) \subseteq marks
        BY <3>1, <4>1 DEF ToSet
      <4> QED
        BY <2>1, <2>2, <3>1, <4>2 DEF LinksMarked, Linked
    <3>2. CASE dl_head' = [dl_head EXCEPT ![l] = Tail(@)]
      <4>1. Linked' = Linked \ {l} /\ dl_head' = [dl_head EXCEPT ![l] = <<>>]
        BY <2>1, <3>2, LinkRemoved
      <4>2. \A x \in Linked' : dl_head'[x] = dl_head[x]
        BY <4>1 DEF Linked
      <4> QED
        BY <2>1, <2>2, <4>1, <4>2 DEF LinksMarked
    <3> QED
      BY <1>7, <3>1, <3>2 DEF ClearLink
  <2> QED
    BY <2>2, <2>3, <2>4 DEF PassInv, Passes
<1>8. CASE LinksCleared
  BY <1>8 DEF LinksCleared, StartPass, MarkInv, PassInv, Passes, heapVars, tableVars, Linked,
     Registered, LinksMarked, QueueIn, Queued, TableTraced, QueueTraced, QueueMarked, Traced,
     Pushes, java, Home
<1>9. CASE MarkedFromFinalizable
  BY <1>9 DEF MarkedFromFinalizable, StartPass, MarkInv, PassInv, Passes, heapVars, tableVars,
     Linked, Registered, LinksMarked, QueueIn, Queued, TableTraced, QueueTraced, QueueMarked,
     Traced, Pushes, java, Home
<1>10. ASSUME NEW o \in Obj, MarkFromFinalizable(o) PROVE PassInv'
  <2> DEFINE pushed == UNION {Pushes(o, p) : p \in ToSet(fo_head[o])}
  <2>1. /\ phase = "mark" /\ o \in todo /\ TableTraced(Registered \ todo)
        /\ LinksMarked(Linked) /\ QueueIn(marks)
    BY <1>10 DEF MarkFromFinalizable, MarkInv, PassInv, Passes
  <2>2. /\ phase' = "mark" /\ todo' = todo \ {o} /\ UNCHANGED <<program, tableVars>>
    BY <1>10, <2>1 DEF MarkFromFinalizable, LookedAt
  <2>3. marks \subseteq marks' /\ (o \in marks' \/ pushed \subseteq marks')
    <3>1. pushed \in SUBSET Obj
      BY ProgramType DEF Pushes
    <3>2. pushed \subseteq Reach(pushed)
      BY <3>1, ReachFacts
    <3>3. marks \cup {o} \in SUBSET Obj
      BY DEF TypeOK
    <3>4. marks \cup {o} \subseteq Reach(marks \cup {o})
      BY <3>3, ReachFacts
    <3> HIDE DEF pushed
    <3>5. \/ o \in marks /\ marks' = marks
          \/ marks' = marks \cup Reach(pushed)
          \/ marks' = Reach(marks \cup {o})
      BY <1>10 DEF MarkFromFinalizable, pushed, heapVars
    <3> QED
      BY <3>2, <3>4, <3>5
  <2>4. \A p \in ToSet(fo_head[o]) : Traced(o, p)'
    BY <2>2, <2>3 DEF Traced, Pushes
  <2>5. \A x \in Obj : \A p : Traced(x, p) => Traced(x, p)'
    BY <2>2, <2>3 DEF Traced, Pushes
  <2>6. TableTraced(Registered \ todo)'
    <3>1. Registered' = Registered /\ fo_head' = fo_head
      BY <2>2 DEF Registered, tableVars
    <3> QED
      BY <2>1, <2>2, <2>4, <2>5, <3>1 DEF TableTraced, Registered
  <2>7. LinksMarked(Linked)' /\ QueueIn(marks)'
    BY <2>1, <2>2, <2>3 DEF LinksMarked, Linked, QueueIn, Queued, tableVars
  <2> QED
    BY <2>2, <2>6, <2>7 DEF PassInv, Passes
<1>11. ASSUME NEW o \in Obj, EnqueueUnreachable(o) PROVE PassInv'
  <2>1. /\ phase = "enqueue" /\ o \in todo /\ Registered \ todo \subseteq marks
        /\ TableTraced(Registered) /\ QueueTraced /\ (java \/ QueueIn(marks))
        /\ todo \subseteq Registered /\ LinksMarked(Linked)
    BY <1>11 DEF EnqueueUnreachable, MarkInv, PassInv, Passes
  <2>2. LinksMarked(Linked)' /\ marks \subseteq marks' /\ program' = program
    BY <1>11, <2>1 DEF EnqueueUnreachable, LinksMarked, Linked
  <2>3. CASE o \in marks
    BY <1>11, <2>1, <2>2, <2>3 DEF EnqueueUnreachable, LookedAt, PassInv, Passes, Registered,
       TableTraced,
       QueueTraced, QueueIn, Queued, Traced, Pushes, java
  <2>4. CASE o \notin marks
    <3>1. o \in Registered /\ Enqueue(o) /\ marks' = IF java THEN marks ELSE marks \cup {o}
      BY <1>11, <2>1, <2>4 DEF EnqueueUnreachable
    <3>2. /\ Registered' \subseteq Registered /\ todo' \subseteq Registered'
          /\ Registered' \ todo' \subseteq Registered \ todo /\ phase' = phase
          /\ \A x \in Obj : ToSet(fo_head'[x]) \subseteq ToSet(fo_head[x])
      BY <2>1, <3>1, Enqueueing
    <3>3. PICK p \in ToSet(fo_head[o]) : Queued' = Queued \cup {[obj |-> o, proc |-> p]}
      BY <3>1, Enqueueing
    <3>4. \A x, q : Traced(x, q) => Traced(x, q)'
      BY <2>2 DEF Traced, Pushes
    <3>5. TableTraced(Registered)'
      BY <2>1, <3>2, <3>4 DEF TableTraced, Registered
    <3>6. QueueTraced'
      BY <2>1, <3>1, <3>3, <3>4 DEF QueueTraced, TableTraced
    <3>7. java' \/ QueueIn(marks)'
      BY <2>1, <2>2, <3>1, <3>3 DEF QueueIn, java
    <3>8. Registered' \ todo' \subseteq marks'
      BY <2>1, <2>2, <3>2
    <3> QED
      BY <2>1, <2>2, <3>2, <3>5, <3>6, <3>7, <3>8 DEF PassInv, Passes
  <2> QED
    BY <2>3, <2>4
<1>12. CASE Enqueued
  <2>1. /\ phase = "enqueue" /\ Registered \subseteq marks /\ QueueTraced
        /\ (java \/ QueueIn(marks)) /\ LinksMarked(Linked)
    BY <1>12 DEF Enqueued, MarkInv, PassInv, Passes
  <2>2. UNCHANGED <<program, marks, tableVars>>
    BY <1>12 DEF Enqueued, heapVars
  <2>3. /\ Registered' \subseteq marks' /\ QueueTraced' /\ java' = java
        /\ (QueueIn(marks) => QueueIn(marks)') /\ LinksMarked(Linked)'
    BY <2>1, <2>2 DEF Linked, Registered, LinksMarked, QueueIn, Queued, TableTraced,
       QueueTraced, QueueMarked, Traced, Pushes, java, Home, tableVars
  <2>4. CASE java /\ phase' = "java" /\ at' = 1
    <3>1. DOMAIN GC_finalize_now \subseteq Nat \ {0}
      BY LenProperties DEF TypeOK
    <3>2. QueueMarked(at, Procs \ {"unreachable"})'
      BY <2>2, <2>4, <3>1 DEF QueueMarked, tableVars
    <3> QED
      BY <2>3, <2>4, <3>2 DEF PassInv, Passes
  <2>5. CASE ~java /\ phase' = "dangling"
    BY <2>1, <2>3, <2>5 DEF PassInv, Passes
  <2> QED
    BY <1>12, <2>4, <2>5 DEF Enqueued, StartPass
<1>13. CASE JavaMark
  <2> DEFINE e == GC_finalize_now[at]
  <2>1. /\ phase = "java" /\ java /\ at >= 1 /\ QueueTraced /\ LinksMarked(Linked)
        /\ Registered \subseteq marks /\ QueueMarked(at, Procs \ {"unreachable"})
    BY <1>13 DEF JavaMark, MarkInv, PassInv, Passes
  <2>2. phase' = "java" /\ at' = at + 1 /\ UNCHANGED <<program, tableVars>>
    BY <1>13, <2>1 DEF JavaMark
  <2>3. marks \subseteq marks' /\ (e.proc # "unreachable" => e.obj \in marks')
    BY <1>13 DEF JavaMark
  <2>4. QueueTraced' /\ LinksMarked(Linked)' /\ Registered' \subseteq marks' /\ java'
    BY <2>1, <2>2, <2>3 DEF Linked, Registered, LinksMarked, QueueIn, Queued, TableTraced,
       QueueTraced, QueueMarked, Traced, Pushes, java, Home, tableVars
  <2>5. QueueMarked(at, Procs \ {"unreachable"})'
    <3>1. at \in Nat /\ DOMAIN GC_finalize_now \subseteq Nat
      BY LenProperties DEF TypeOK
    <3>2. ASSUME NEW i \in DOMAIN GC_finalize_now, i < at + 1,
                 GC_finalize_now[i].proc \in Procs \ {"unreachable"}
          PROVE  GC_finalize_now[i].obj \in marks'
      <4>1. i < at \/ i = at
        BY <3>1, <3>2
      <4> QED
        BY <2>1, <2>3, <3>2, <4>1 DEF QueueMarked
    <3> QED
      BY <2>2, <3>2 DEF QueueMarked, tableVars
  <2>6. at' >= 1
    BY <2>1, <2>2 DEF TypeOK
  <2> QED
    BY <2>2, <2>4, <2>5, <2>6 DEF PassInv, Passes
<1>14. CASE JavaMarked
  <2>1. /\ phase = "java" /\ java /\ QueueTraced /\ LinksMarked(Linked)
        /\ Registered \subseteq marks /\ QueueMarked(at, Procs \ {"unreachable"})
        /\ at > Len(GC_finalize_now)
    BY <1>14 DEF JavaMarked, MarkInv, PassInv, Passes
  <2>2. phase' = "revive" /\ at' = 1 /\ UNCHANGED <<program, marks, tableVars>>
    BY <1>14, <2>1 DEF JavaMarked, StartPass, heapVars
  <2>3. QueueTraced' /\ LinksMarked(Linked)' /\ Registered' \subseteq marks' /\ java'
    BY <2>1, <2>2 DEF Linked, Registered, LinksMarked, QueueIn, Queued, TableTraced,
       QueueTraced, QueueMarked, Traced, Pushes, java, Home, tableVars
  <2>4. /\ DOMAIN GC_finalize_now = 1 .. Len(GC_finalize_now)
        /\ Len(GC_finalize_now) \in Nat /\ at \in Nat
    BY LenProperties DEF TypeOK
  <2>5. QueueMarked(at, Procs)'
    BY <2>2, <2>4 DEF QueueMarked, tableVars
  <2>6. QueueMarked(Len(GC_finalize_now) + 1, Procs \ {"unreachable"})'
    BY <2>1, <2>2, <2>4 DEF QueueMarked, tableVars
  <2> QED
    BY <2>2, <2>3, <2>5, <2>6 DEF PassInv, Passes
<1>15. CASE Revive
  <2> DEFINE q == GC_finalize_now
             e == q[at]
  <2>1. /\ phase = "revive" /\ java /\ at >= 1 /\ QueueTraced /\ LinksMarked(Linked)
        /\ Registered \subseteq marks
        /\ QueueMarked(at, Procs) /\ QueueMarked(Len(q) + 1, Procs \ {"unreachable"})
    BY <1>15 DEF Revive, MarkInv, PassInv, Passes
  <2>2. /\ phase' = "revive" /\ java' /\ marks \subseteq marks'
        /\ UNCHANGED <<program, dl_head>>
    BY <1>15, <2>1 DEF Revive, java
  <2>3. LinksMarked(Linked)'
    BY <2>1, <2>2 DEF LinksMarked, Linked
  <2>4. /\ at \in 1 .. Len(q) /\ at \in DOMAIN q /\ e.obj \in Obj /\ e.proc \in Procs
    BY <1>15, <2>1, EntryAt DEF Revive
  <2>5. q \in Seq(Entry) /\ DOMAIN q = 1 .. Len(q) /\ Len(q) \in Nat
    BY LenProperties DEF TypeOK
  <2>6. CASE /\ at' = at + 1 /\ e.obj \in marks' /\ UNCHANGED <<fo_head, GC_finalize_now>>
    <3>1. QueueTraced' /\ Registered' \subseteq marks'
      BY <2>1, <2>2, <2>6 DEF QueueTraced, Queued, Registered, Traced, Pushes
    <3>2. QueueMarked(at, Procs)'
      <4>1. ASSUME NEW i \in DOMAIN q, i < at + 1, q[i].proc \in Procs
            PROVE  q[i].obj \in marks'
        <5>1. i < at \/ i = at
          BY <2>4, <2>5, <4>1
        <5> QED
          BY <2>1, <2>2, <2>6, <4>1, <5>1 DEF QueueMarked
      <4> QED
        BY <2>6, <4>1 DEF QueueMarked
    <3>3. QueueMarked(Len(q) + 1, Procs \ {"unreachable"})'
      BY <2>1, <2>2, <2>6 DEF QueueMarked
    <3>4. at' >= 1
      BY <2>4, <2>6
    <3> QED
      BY <2>2, <2>3, <3>1, <3>2, <3>3, <3>4 DEF PassInv, Passes
  <2>7. CASE /\ e.obj \in marks /\ GC_finalize_now' = RemoveAt(GC_finalize_now, at)
             /\ AddEntry(e.obj, e.proc) /\ UNCHANGED at
    <3>1. Registered' \subseteq marks'
      BY <2>1, <2>2, <2>4, <2>7, FinalizerAdded
    <3>2. /\ Queued' \subseteq Queued /\ Len(q') = Len(q) - 1
          /\ DOMAIN q' = 1 .. Len(q) - 1
          /\ \A i \in 1 .. Len(q) - 1 : q'[i] = q[IF i < at THEN i ELSE i + 1]
      <4>1. /\ q' \in Seq(Entry) /\ ToSet(q') \subseteq ToSet(q) /\ Len(q') = Len(q) - 1
            /\ \A i \in 1 .. Len(q) - 1 : q'[i] = q[IF i < at THEN i ELSE i + 1]
        BY <2>4, <2>5, <2>7, OneRemoved, ZenonT(40)
      <4> QED
        BY <4>1, LenProperties, SMTT(30) DEF Queued
    <3>3. QueueTraced'
      BY <2>1, <2>2, <3>2 DEF QueueTraced, Traced, Pushes
    <3>4. ASSUME NEW i \in 1 .. Len(q) - 1
          PROVE  (IF i < at THEN i ELSE i + 1) \in DOMAIN q
      BY <2>4, <2>5
    <3>5. QueueMarked(at, Procs)'
      <4>1. ASSUME NEW i \in 1 .. Len(q) - 1, i < at, q'[i].proc \in Procs
            PROVE  q'[i].obj \in marks'
        BY <2>1, <2>2, <3>2, <3>4, <4>1 DEF QueueMarked
      <4> QED
        BY <2>7, <3>2, <4>1 DEF QueueMarked
    <3>6. QueueMarked(Len(q) + 1, Procs \ {"unreachable"})'
      <4>1. ASSUME NEW i \in 1 .. Len(q) - 1, q'[i].proc \in Procs \ {"unreachable"}
            PROVE  q'[i].obj \in marks'
        <5>1. PICK j \in DOMAIN q : q'[i] = q[j]
          BY <3>2, <3>4
        <5>2. j < Len(q) + 1
          BY <2>5
        <5> QED
          BY <2>1, <2>2, <4>1, <5>1, <5>2 DEF QueueMarked
      <4> QED
        BY <3>2, <4>1 DEF QueueMarked
    <3>7. at' >= 1
      BY <2>1, <2>7
    <3> QED
      BY <2>2, <2>3, <3>1, <3>3, <3>5, <3>6, <3>7 DEF PassInv, Passes
  <2>8. CASE /\ e.proc # "unreachable" /\ at' = at + 1
             /\ UNCHANGED <<marks, fo_head, GC_finalize_now>>
    <3>1. e.obj \in marks'
      <4>1. at < Len(q) + 1
        BY <2>4, <2>5
      <4> QED
        BY <2>1, <2>4, <2>8, <4>1 DEF QueueMarked
    <3> QED
      BY <2>6, <2>8, <3>1
  <2> QED
    BY <1>15, <2>6, <2>7, <2>8 DEF Revive, AddEntry
<1>16. CASE Revived
  <2>1. /\ phase = "revive" /\ LinksMarked(Linked) /\ Registered \subseteq marks
        /\ QueueMarked(at, Procs) /\ at > Len(GC_finalize_now)
    BY <1>16 DEF Revived, MarkInv, PassInv, Passes
  <2>2. phase' = "dangling" /\ UNCHANGED <<program, marks, tableVars>>
    BY <1>16, <2>1 DEF Revived, StartPass, heapVars
  <2>3. QueueIn(marks)
    <3>1. ASSUME NEW i \in DOMAIN GC_finalize_now PROVE GC_finalize_now[i].obj \in marks
      <4>1. i \in 1 .. Len(GC_finalize_now) /\ Len(GC_finalize_now) \in Nat /\ at \in Nat
        BY LenProperties DEF TypeOK
      <4>2. GC_finalize_now[i] \in Entry
        <5>1. GC_finalize_now \in Seq(Entry)
          BY DEF TypeOK
        <5> QED
          BY <4>1, <5>1, ElementOfSeq
      <4>3. GC_finalize_now[i].proc \in Procs
        BY <4>2 DEF Entry
      <4> QED
        BY <2>1, <4>1, <4>3 DEF QueueMarked
    <3> QED
      BY <3>1 DEF QueueIn, Queued, ToSet
  <2> QED
    BY <2>1, <2>2, <2>3 DEF PassInv, Passes, LinksMarked, Linked, Registered, QueueIn, Queued,
       tableVars
<1>17. CASE RemoveDangling
  BY <1>17 DEF RemoveDangling, StartPass, MarkInv, PassInv, Passes, heapVars, Linked,
     Registered, LinksMarked, QueueIn, Queued, TableTraced, QueueTraced, QueueMarked, Traced,
     Pushes, java, Home
<1> QED
  BY <1>1, <1>2, <1>3, <1>4, <1>5, <1>6, <1>7, <1>8, <1>9, <1>10, <1>11, <1>12, <1>13, <1>14,
     <1>15, <1>16, <1>17
  DEF Next, Program, Calls, Collection

-----------------------------------------------------------------------------
(* The theorems                                                            *)

\* The invariant holds initially.
LEMMA InitInv ==
  ASSUME Init
  PROVE  IInv
<1>1. /\ program \in Programs /\ held = Obj /\ pc = [t \in Threads |-> "run"]
      /\ request = [t \in Threads |-> NoRequest] /\ cell = [l \in Link |-> Nowhere]
      /\ phase = "none" /\ todo = {} /\ at = 0 /\ allocated = Obj /\ marks = {}
      /\ fo_head = [o \in Obj |-> <<>>] /\ dl_head = [l \in Link |-> <<>>]
      /\ GC_finalize_now = <<>>
  BY DEF Init
<1>2. /\ \A S : <<>> \in Seq(S)
      /\ ToSet(<<>>) = {}
  BY DEF ToSet
<1>3. TypeOK
  BY <1>1, <1>2, RequestTypes DEF TypeOK
<1>4. Queued = {} /\ Registered = {} /\ Linked = {}
  BY <1>1, <1>2 DEF Queued, Registered, Linked
<1>5. \A t \in Threads : request[t].obj = Nowhere /\ request[t].link = Nowhere
  BY <1>1, NoRequestFields
<1>6. CallInv
  BY <1>1, <1>5 DEF CallInv
<1>7. UsesInv
  BY <1>1, <1>2, <1>4 DEF UsesInv
<1>8. OneLink
  BY <1>1 DEF OneLink
<1>9. AllocInv
  <2>1. Closed(Obj)
    BY <1>3, ProgramType DEF Closed
  <2>2. ProgramIn(Obj)
    BY <1>1, <1>3, <1>5, ProgramType DEF ProgramIn
  <2>3. QueueIn(Obj) /\ TablesIn(Obj)
    BY <1>4 DEF QueueIn, TablesIn
  <2> QED
    BY <1>1, <2>1, <2>2, <2>3 DEF AllocInv
<1>10. CellInv
  BY <1>1, <1>5, ConstantsAssumption DEF CellInv
<1>11. MarkInv
  BY <1>1 DEF MarkInv, PassInv, Passes
<1> QED
  BY <1>3, <1>6, <1>7, <1>8, <1>9, <1>10, <1>11 DEF IInv

\* It is kept when nothing changes.
LEMMA Stuttering ==
  ASSUME IInv, UNCHANGED vars
  PROVE  IInv'
<1> USE DEF vars, threadVars, passVars, heapVars, tableVars
<1>1. TypeOK' /\ CallInv' /\ OneLink'
  BY DEF IInv, TypeOK, CallInv, OneLink
<1>2. UsesInv'
  BY DEF IInv, UsesInv, Queued
<1>3. AllocInv'
  <2>1. PICK C \in SUBSET allocated : Closed(C) /\ ProgramIn(C) /\ QueueIn(C) /\ TablesIn(C)
    BY DEF IInv, AllocInv
  <2>2. Closed(C)' /\ ProgramIn(C)' /\ QueueIn(C)' /\ TablesIn(C)'
    BY <2>1 DEF Closed, ProgramIn, QueueIn, TablesIn, Queued, Registered, Linked, Home
  <2> QED
    BY <2>1, <2>2 DEF AllocInv
<1>4. CellInv'
  BY DEF IInv, CellInv, Home
<1>5. MarkInv'
  BY PassSame DEF IInv, MarkInv, Closed, ProgramIn, Home
<1> QED
  BY <1>1, <1>2, <1>3, <1>4, <1>5 DEF IInv

\* It is kept by every step.
LEMMA NextInv ==
  ASSUME IInv, [Next]_vars
  PROVE  IInv'
<1>1. CASE Next
  <2>1. MarkInv'
    BY <1>1, MarkedStep, PassStep DEF MarkInv
  <2> QED
    BY <1>1, <2>1, TypeStep, CallStep, UsesStep, LinkStep, AllocStep, CellStep DEF IInv
<1>2. CASE UNCHANGED vars
  BY <1>2, Stuttering
<1> QED
  BY <1>1, <1>2

\* Every variable has its type.
THEOREM TypeCorrect == Spec => []TypeOK
<1>1. IInv => TypeOK
  BY DEF IInv
<1> QED
  BY <1>1, InitInv, NextInv, PTL DEF Spec

\* What GC_finalize leaves unmarked, and the sweep frees, is nothing that the
\* program, the queue, the tables or a link the program can read leads to.
THEOREM AllocatedStays == Spec => []NothingDangles
<1>1. ASSUME IInv PROVE NothingDangles
  <2>1. TypeOK /\ AllocInv /\ CellInv
    BY <1>1 DEF IInv
  <2>2. PICK C \in SUBSET allocated : Closed(C) /\ ProgramIn(C) /\ QueueIn(C) /\ TablesIn(C)
    BY <2>1 DEF AllocInv
  <2>3. C \in SUBSET Obj
    BY <2>1, <2>2 DEF TypeOK
  <2>4. Roots \subseteq C
    BY <2>2 DEF Roots, InCalls, ProgramIn, QueueIn
  <2>5. Roots \in SUBSET Obj /\ Reach(Roots) \subseteq C
    BY <2>1, <2>2, <2>3, <2>4, ReachFacts
  <2>6. Registered \subseteq allocated
    BY <2>2 DEF TablesIn
  <2>7. ASSUME NEW l \in Link, Unlocked, Home[l] \in allocated \cup {Nowhere}
        PROVE  cell[l] \in allocated \cup {Nowhere}
    <3>1. ToSet(dl_head[l]) \subseteq C
      BY <2>2 DEF TablesIn, Linked, ToSet
    <3>2. \A t \in Threads : request[t].obj \in C \cup {Nowhere}
      BY <2>2 DEF ProgramIn
    <3> QED
      BY <2>1, <2>2, <2>7, <3>1, <3>2 DEF CellInv, Unlocked
  <2> QED
    BY <2>2, <2>5, <2>6, <2>7 DEF NothingDangles
<1> QED
  BY <1>1, InitInv, NextInv, PTL DEF Spec

\* Every link GC_finalize may clear lies in memory that is still its owner's,
\* and is for an object that is allocated.
THEOREM LinksStayValid == Spec => []LinksValid
<1>1. ASSUME IInv PROVE LinksValid
  <2>1. PICK C \in SUBSET allocated : TablesIn(C)
    BY <1>1 DEF IInv, AllocInv
  <2> QED
    BY <2>1 DEF TablesIn, LinksValid
<1> QED
  BY <1>1, InitInv, NextInv, PTL DEF Spec

\* A finalizer registered for an object that has one replaces it.
LEMMA NoSecondFinalizer ==
  ASSUME TypeOK, NEW o \in Obj, NEW p \in Procs,
         IF o \in Registered THEN Replace(o, p) ELSE AddEntry(o, p)
  PROVE  \A x \in Registered : Len(fo_head'[x]) <= Len(fo_head[x])
<1> SUFFICES ASSUME NEW x \in Registered PROVE Len(fo_head'[x]) <= Len(fo_head[x])
  OBVIOUS
<1>1. x \in Obj /\ fo_head[x] \in Seq(Procs) /\ fo_head[x] # <<>> /\ Len(fo_head[x]) \in Nat
  BY LenProperties DEF TypeOK, Registered
<1>2. CASE x # o
  <2>1. fo_head'[x] = fo_head[x]
    BY <1>1, <1>2 DEF TypeOK, Replace, AddEntry
  <2> QED
    BY <1>1, <2>1
<1>3. CASE x = o
  <2>1. fo_head' = [fo_head EXCEPT ![o] = [fo_head[o] EXCEPT ![1] = p]]
    BY <1>3 DEF Replace
  <2>2. Len([fo_head[o] EXCEPT ![1] = p]) = Len(fo_head[o])
    BY <1>1, <1>3, FirstReplaced
  <2>3. fo_head'[o] = [fo_head[o] EXCEPT ![1] = p]
    BY <2>1 DEF TypeOK
  <2> QED
    BY <1>1, <1>3, <2>2, <2>3
<1> QED
  BY <1>2, <1>3

\* An object registered for a link that has one replaces it.
LEMMA NoSecondLink ==
  ASSUME TypeOK, OneLink, NEW l \in Link, NEW o \in Obj,
         (l \in Linked /\ ReplaceLink(l, o)) \/ (l \notin Linked /\ AddLink(l, o))
  PROVE  \A x \in Linked : Len(dl_head'[x]) <= Len(dl_head[x])
<1>1. dl_head' = [dl_head EXCEPT ![l] = <<o>>] /\ dl_head \in [Link -> Seq(Obj)]
  BY LinkAdded DEF TypeOK
<1> SUFFICES ASSUME NEW x \in Linked PROVE Len(dl_head'[x]) <= Len(dl_head[x])
  OBVIOUS
<1>2. PICK y \in Obj : x \in Link /\ dl_head[x] = <<y>>
  BY DEF OneLink, Linked
<1>3. dl_head'[x] = <<y>> \/ dl_head'[x] = <<o>>
  BY <1>1, <1>2
<1>4. Len(<<o>>) = 1 /\ Len(<<y>>) = 1
  OBVIOUS
<1>5. Len(dl_head[x]) = 1 /\ Len(dl_head'[x]) = 1
  BY <1>2, <1>3, <1>4
<1> QED
  BY <1>5


\* RegisteringReplaces speaks of the steps that have this.
OneForEach == Unlocked => /\ \A o \in Registered : Len(fo_head'[o]) <= Len(fo_head[o])
                          /\ \A l \in Linked : Len(dl_head'[l]) <= Len(dl_head[l])

\* What a step that leaves a table alone does to it.
LEMMA TablesKept ==
  ASSUME TypeOK
  PROVE  /\ UNCHANGED fo_head => \A o \in Registered : Len(fo_head'[o]) <= Len(fo_head[o])
         /\ UNCHANGED dl_head => \A l \in Linked : Len(dl_head'[l]) <= Len(dl_head[l])
  BY LenProperties DEF TypeOK, Registered, Linked

\* No step adds a second entry while nobody has the lock for a pass.
LEMMA NoSecondEntry ==
  ASSUME IInv, Next
  PROVE  OneForEach
<1> USE DEF IInv
<1>1. ASSUME NEW t \in Threads, NEW o \in Obj, NEW p \in Procs, GC_register_finalizer(t, o, p)
      PROVE  OneForEach
  <2>1. \A x \in Registered : Len(fo_head'[x]) <= Len(fo_head[x])
    BY <1>1, TablesKept, NoSecondFinalizer DEF GC_register_finalizer
  <2> QED
    BY <1>1, <2>1, TablesKept DEF GC_register_finalizer, OneForEach
<1>2. ASSUME NEW t \in Threads, RegisterWithNewEntry(t) PROVE OneForEach
  <2>1. request[t].obj \in Obj /\ request[t].proc \in Procs
    BY <1>2 DEF RegisterWithNewEntry, CallInv, TypeOK, Request
  <2>2. \A x \in Registered : Len(fo_head'[x]) <= Len(fo_head[x])
    BY <1>2, <2>1, NoSecondFinalizer DEF RegisterWithNewEntry
  <2> QED
    BY <1>2, <2>2, TablesKept DEF RegisterWithNewEntry, OneForEach
<1>3. ASSUME NEW t \in Threads, NEW o \in Obj, GC_unregister_finalizer(t, o)
      PROVE  OneForEach
  <2>1. \A x \in Registered : Len(fo_head'[x]) <= Len(fo_head[x])
    <3> SUFFICES ASSUME NEW x \in Registered PROVE Len(fo_head'[x]) <= Len(fo_head[x])
      OBVIOUS
    <3>1. fo_head[x] \in Seq(Procs) /\ fo_head[x] # <<>> /\ x \in Obj
      BY DEF TypeOK, Registered
    <3>2. Len(Tail(fo_head[x])) = Len(fo_head[x]) - 1 /\ Len(fo_head[x]) \in Nat
      BY <3>1, FirstRemoved, LenProperties
    <3>3. fo_head'[x] = fo_head[x] \/ fo_head'[x] = Tail(fo_head[x])
      BY <1>3, <3>1 DEF GC_unregister_finalizer, TypeOK
    <3>4. Len(fo_head'[x]) = Len(fo_head[x]) \/ Len(fo_head'[x]) = Len(fo_head[x]) - 1
      BY <3>2, <3>3
    <3>5. \A n \in Nat : n <= n /\ n - 1 <= n
      OBVIOUS
    <3> QED
      BY <3>2, <3>4, <3>5
  <2> QED
    BY <1>3, <2>1, TablesKept DEF GC_unregister_finalizer, OneForEach
<1>4. ASSUME NEW t \in Threads, GC_general_register_disappearing_link(t) PROVE OneForEach
  <2>1. request[t].obj \in Obj /\ request[t].link \in Link
    BY <1>4 DEF GC_general_register_disappearing_link, CallInv
  <2>2. \A x \in Linked : Len(dl_head'[x]) <= Len(dl_head[x])
    BY <1>4, <2>1, TablesKept, NoSecondLink DEF GC_general_register_disappearing_link
  <2> QED
    BY <1>4, <2>2, TablesKept DEF GC_general_register_disappearing_link, OneForEach
<1>5. ASSUME NEW t \in Threads, LinkWithNewEntry(t) PROVE OneForEach
  <2>1. request[t].obj \in Obj /\ request[t].link \in Link
    BY <1>5 DEF LinkWithNewEntry, CallInv
  <2>2. \A x \in Linked : Len(dl_head'[x]) <= Len(dl_head[x])
    BY <1>5, <2>1, TablesKept, NoSecondLink DEF LinkWithNewEntry
  <2> QED
    BY <1>5, <2>2, TablesKept DEF LinkWithNewEntry, OneForEach
<1>6. ASSUME NEW t \in Threads, NEW l \in Link, GC_unregister_disappearing_link(t, l)
      PROVE  OneForEach
  <2>1. \A x \in Linked : Len(dl_head'[x]) <= Len(dl_head[x])
    <3> SUFFICES ASSUME NEW x \in Linked PROVE Len(dl_head'[x]) <= Len(dl_head[x])
      OBVIOUS
    <3>1. PICK y \in Obj : x \in Link /\ dl_head[x] = <<y>>
      BY DEF OneLink, Linked
    <3>2. dl_head'[x] = <<y>> \/ dl_head'[x] = Tail(<<y>>)
      BY <1>6, <3>1 DEF GC_unregister_disappearing_link, TypeOK
    <3>3. Len(<<y>>) = 1 /\ Len(Tail(<<y>>)) = 0
      OBVIOUS
    <3>4. CASE dl_head'[x] = <<y>>
      BY <3>1, <3>3, <3>4
    <3>5. CASE dl_head'[x] = Tail(<<y>>)
      BY <3>1, <3>3, <3>5
    <3> QED
      BY <3>2, <3>4, <3>5
  <2> QED
    BY <1>6, <2>1, TablesKept DEF GC_unregister_disappearing_link, OneForEach
<1>7. CASE
         \/ \E l \in Link : ClearLink(l)
         \/ LinksCleared \/ MarkedFromFinalizable \/ Enqueued \/ JavaMark \/ JavaMarked
            \/ Revive \/ Revived \/ RemoveDangling \/ Sweep
         \/ \E o \in Obj : MarkFromFinalizable(o) \/ EnqueueUnreachable(o) \/ EnqueueAny(o)
  BY <1>7 DEF ClearLink, LinksCleared, MarkFromFinalizable, MarkedFromFinalizable,
     EnqueueUnreachable, Enqueued, JavaMark, JavaMarked, Revive, Revived, RemoveDangling,
     Sweep, EnqueueAny, Unlocked, OneForEach
<1>8. CASE
         \/ \E o \in Obj : Drop(o) \/ Load(o)
         \/ \E l \in Link : Reveal(l)
         \/ \E t \in Threads : RegisterFails(t) \/ LinkFails(t) \/ GC_invoke_finalizers(t)
                               \/ InvokeFirst(t) \/ NoneLeft(t) \/ GC_finalize_all(t)
                                  \/ NothingRegistered(t) \/ GC_enqueue_all_finalizers(t)
                                     \/ AllEnqueued(t)
         \/ \E t \in Threads : \E l \in Link : \E o \in Obj : WriteLink(t, l, o)
         \/ Mark
  BY <1>8, TablesKept DEF Drop, Load, Reveal, RegisterFails, WriteLink, LinkFails, Mark,
     GC_invoke_finalizers, InvokeFirst, NoneLeft, GC_finalize_all, NothingRegistered,
     GC_enqueue_all_finalizers, AllEnqueued, Unlocked, After, tableVars, OneForEach
<1> QED
  BY <1>1, <1>2, <1>3, <1>4, <1>5, <1>6, <1>7, <1>8
  DEF Next, Program, Calls, Collection

\* GC_register_finalizer and GC_general_register_disappearing_link never add a
\* second finalizer or a second object, with GC_oom_fn called in between or not.
THEOREM RegistrationsReplace == Spec => RegisteringReplaces
<1>1. ASSUME IInv, [Next]_vars PROVE [OneForEach]_vars
  BY <1>1, NoSecondEntry
<1>2. [OneForEach]_vars =>
      [Unlocked => /\ \A o \in Registered : Len(fo_head'[o]) <= Len(fo_head[o])
                   /\ \A l \in Linked : Len(dl_head'[l]) <= Len(dl_head[l])]_vars
  BY DEF OneForEach
<1> QED
  BY <1>1, <1>2, InitInv, NextInv, PTL DEF Spec, RegisteringReplaces

-----------------------------------------------------------------------------
(* What a finalizer is invoked on                                          *)

\* Marked is what is allocated, also between collections.
MarksInv == marks \subseteq allocated /\ Closed(marks)

\* GC_finalize_all is left out.
NotAll ==
  /\ ~program.all /\ phase # "all"
  /\ \A t \in Threads : pc[t] \notin {"all", "enqueue", "invoke_all"}

\* An object has one finalizer; one that is to be finalized when unreachable
\* has no second in the queue either.
SingleInv ==
  /\ \A o \in Obj : Len(fo_head[o]) <= 1
  /\ \A i \in DOMAIN GC_finalize_now :
       GC_finalize_now[i].proc = "unreachable" =>
         /\ GC_finalize_now[i].obj \notin Registered
         /\ \A j \in DOMAIN GC_finalize_now \ {i} :
              GC_finalize_now[j].obj # GC_finalize_now[i].obj
  /\ phase = "enqueue" => \A e \in Queued : e.obj \in Registered => e.obj \in marks

Unordered == \E o \in Obj : "null" \in program.uses[o]
Hard(e) == e.proc = "unreachable" \/ ~Unordered

\* The set C holds all that the program may come to without the i-th entry of
\* the queue, but not the object of that entry.
LinksIn(C) == \A l \in Link : Home[l] \in C \cup {Nowhere} => cell[l] \in C \cup {Nowhere}
Around(C) == Closed(C) /\ ProgramIn(C) /\ Registered \subseteq C /\ LinksIn(C)
Apart(i, C) ==
  /\ Around(C)
  /\ \A j \in DOMAIN GC_finalize_now \ {i} : GC_finalize_now[j].obj \in C
  /\ GC_finalize_now[i].obj \notin C

\* What an unordered finalizer leads to is known once the pass that puts
\* entries back has been at the entry.
Settled(i) ==
  Unordered => \/ phase \notin {"enqueue", "java", "revive"}
               \/ phase = "revive" /\ i < at

ApartInv ==
  \A i \in DOMAIN GC_finalize_now :
    Hard(GC_finalize_now[i]) /\ Settled(i) => \E C \in SUBSET Obj : Apart(i, C)

QInv == /\ IInv /\ MarksInv
        /\ ~program.all => NotAll /\ SingleInv /\ ApartInv

\* What the roots lead to is allocated.
LEMMA AllocatedFrom ==
  ASSUME IInv, MarksInv
  PROVE  \E D \in SUBSET allocated : /\ Closed(D) /\ Roots \subseteq D /\ marks \subseteq D
                                     /\ Registered \subseteq D /\ QueueIn(D)
                                     /\ \A S \in SUBSET D : Reach(S) \subseteq D
<1>1. TypeOK
  BY DEF IInv
<1>2. PICK C \in SUBSET allocated : Closed(C) /\ ProgramIn(C) /\ QueueIn(C) /\ TablesIn(C)
  BY DEF IInv, AllocInv
<1> DEFINE D == C \cup marks
<1>3. D \in SUBSET allocated /\ D \in SUBSET Obj /\ Closed(D)
  BY <1>1, <1>2, ClosedUnion DEF MarksInv, TypeOK
<1>4. Roots \subseteq D
  BY <1>2 DEF Roots, InCalls, ProgramIn, QueueIn
<1>5. Registered \subseteq D /\ marks \subseteq D /\ QueueIn(D)
  BY <1>2 DEF TablesIn, QueueIn
<1> HIDE DEF D
<1>6. \A S \in SUBSET D : Reach(S) \subseteq D
  BY <1>1, <1>3, ReachFacts
<1> QED
  BY <1>3, <1>4, <1>5, <1>6

\* Every step keeps what is marked allocated and closed.
LEMMA MarksStep ==
  ASSUME IInv, MarksInv, Next
  PROVE  MarksInv'
<1> USE DEF MarksInv
<1>1. CASE
         \/ \E o \in Obj : Drop(o) \/ Load(o)
         \/ \E l \in Link : Reveal(l) \/ ClearLink(l)
         \/ \E t \in Threads : \E o \in Obj : \E p \in Procs : GC_register_finalizer(t, o, p)
         \/ \E t \in Threads : RegisterWithNewEntry(t) \/ RegisterFails(t)
                               \/ GC_general_register_disappearing_link(t)
                                  \/ LinkWithNewEntry(t) \/ LinkFails(t)
                                     \/ GC_invoke_finalizers(t) \/ InvokeFirst(t)
                                        \/ NoneLeft(t) \/ GC_finalize_all(t)
                                           \/ NothingRegistered(t)
                                              \/ GC_enqueue_all_finalizers(t) \/ AllEnqueued(t)
         \/ \E t \in Threads : \E o \in Obj : GC_unregister_finalizer(t, o)
         \/ \E t \in Threads : \E l \in Link : \E o \in Obj : WriteLink(t, l, o)
         \/ \E t \in Threads : \E l \in Link : GC_unregister_disappearing_link(t, l)
         \/ LinksCleared \/ MarkedFromFinalizable \/ Enqueued \/ JavaMarked \/ Revived
            \/ RemoveDangling
  BY <1>1 DEF Drop, Load, Reveal, GC_register_finalizer, RegisterWithNewEntry, RegisterFails,
     GC_unregister_finalizer, WriteLink, GC_general_register_disappearing_link,
     LinkWithNewEntry, LinkFails, GC_unregister_disappearing_link, ClearLink, LinksCleared,
     MarkedFromFinalizable, Enqueued, JavaMarked, Revived, RemoveDangling,
     GC_invoke_finalizers, InvokeFirst, NoneLeft, GC_finalize_all, NothingRegistered,
     GC_enqueue_all_finalizers, AllEnqueued, Unlocked, After, heapVars, Closed
<1>2. CASE Sweep
  BY <1>2 DEF Sweep, Closed
<1>3. CASE Mark
  <2>1. PICK D \in SUBSET allocated : /\ Closed(D) /\ Roots \subseteq D /\ marks \subseteq D
                                      /\ Registered \subseteq D /\ QueueIn(D)
                                      /\ \A S \in SUBSET D : Reach(S) \subseteq D
    BY AllocatedFrom
  <2>2. PICK kept \in SUBSET marks : marks' = Reach(Roots \cup kept)
    BY <1>3 DEF Mark
  <2>3. phase' \in Passes /\ allocated' = allocated
    BY <1>3 DEF Mark, StartPass, Passes
  <2>4. marks' \subseteq D
    <3>1. Roots \cup kept \in SUBSET D
      BY <2>1, <2>2
    <3> QED
      BY <2>1, <2>2, <3>1
  <2> QED
    BY <2>1, <2>3, <2>4, MarkedStep
<1>4. ASSUME NEW o \in Obj, MarkFromFinalizable(o) PROVE MarksInv'
  <2>1. PICK D \in SUBSET allocated : /\ Closed(D) /\ Roots \subseteq D /\ marks \subseteq D
                                      /\ Registered \subseteq D /\ QueueIn(D)
                                      /\ \A S \in SUBSET D : Reach(S) \subseteq D
    BY AllocatedFrom
  <2> DEFINE pushed == UNION {Pushes(o, p) : p \in ToSet(fo_head[o])}
  <2>2. phase' \in Passes /\ allocated' = allocated
    BY <1>4 DEF MarkFromFinalizable, LookedAt, Passes
  <2>3. pushed # {} => o \in Registered
    BY DEF Registered, ToSet
  <2>4. pushed \subseteq program.points[o]
    BY DEF Pushes
  <2>5. pushed \in SUBSET D
    BY <2>1, <2>3, <2>4 DEF Closed
  <2> HIDE DEF pushed
  <2>6. \/ marks' = marks \/ marks' = marks \cup Reach(pushed)
        \/ pushed # {} /\ marks' = Reach(marks \cup {o})
    BY <1>4 DEF MarkFromFinalizable, pushed
  <2>7. marks' \subseteq D
    <3>1. pushed # {} => marks \cup {o} \in SUBSET D
      BY <2>1, <2>3
    <3> QED
      BY <2>1, <2>5, <2>6, <3>1
  <2> QED
    BY <2>1, <2>2, <2>7, MarkedStep
<1>5. ASSUME NEW o \in Obj, EnqueueUnreachable(o) PROVE MarksInv'
  <2>1. PICK D \in SUBSET allocated : /\ Closed(D) /\ Roots \subseteq D /\ marks \subseteq D
                                      /\ Registered \subseteq D /\ QueueIn(D)
                                      /\ \A S \in SUBSET D : Reach(S) \subseteq D
    BY AllocatedFrom
  <2>2. phase' \in Passes /\ allocated' = allocated
    BY <1>5 DEF EnqueueUnreachable, LookedAt, Enqueue, Passes
  <2>3. o \in Registered
    BY <1>5 DEF EnqueueUnreachable, IInv, MarkInv, PassInv
  <2>4. marks' \subseteq marks \cup {o}
    BY <1>5 DEF EnqueueUnreachable
  <2> QED
    BY <2>1, <2>2, <2>3, <2>4, MarkedStep
<1>6. ASSUME NEW o \in Obj, EnqueueAny(o) PROVE MarksInv'
  <2>1. PICK D \in SUBSET allocated : /\ Closed(D) /\ Roots \subseteq D /\ marks \subseteq D
                                      /\ Registered \subseteq D /\ QueueIn(D)
                                      /\ \A S \in SUBSET D : Reach(S) \subseteq D
    BY AllocatedFrom
  <2>6. o \in Registered /\ {o} \in SUBSET D
    BY <1>6, <2>1 DEF EnqueueAny, IInv, MarkInv, PassInv
  <2>2. allocated' = allocated /\ marks' = marks \cup Reach({o}) /\ program' = program
    BY <1>6 DEF EnqueueAny
  <2>3. Reach({o}) \subseteq D
    BY <2>1, <2>6
  <2>4. Closed(Reach({o}))
    BY ReachFacts DEF IInv
  <2>5. Closed(marks \cup Reach({o}))
    BY <2>4, ClosedUnion
  <2> QED
    BY <2>1, <2>2, <2>3, <2>5, ClosedLater
<1>7. CASE JavaMark
  <2>1. PICK D \in SUBSET allocated : /\ Closed(D) /\ Roots \subseteq D /\ marks \subseteq D
                                      /\ Registered \subseteq D /\ QueueIn(D)
                                      /\ \A S \in SUBSET D : Reach(S) \subseteq D
    BY AllocatedFrom
  <2> DEFINE e == GC_finalize_now[at]
  <2>2. phase' \in Passes /\ allocated' = allocated
    BY <1>7 DEF JavaMark, Passes
  <2>3. e \in Queued
    BY <1>7, EntryAt DEF JavaMark, IInv, MarkInv, PassInv
  <2> HIDE DEF e
  <2>4. e.obj \in D /\ program.points[e.obj] \in SUBSET D
    BY <2>1, <2>3 DEF QueueIn, Closed
  <2>5. marks' \subseteq marks \cup Reach(program.points[e.obj]) \cup {e.obj}
    BY <1>7 DEF JavaMark, e
  <2>6. Reach(program.points[e.obj]) \subseteq D
    BY <2>1, <2>4
  <2> QED
    BY <2>1, <2>2, <2>4, <2>5, <2>6, MarkedStep
<1>8. CASE Revive
  <2>1. PICK D \in SUBSET allocated : /\ Closed(D) /\ Roots \subseteq D /\ marks \subseteq D
                                      /\ Registered \subseteq D /\ QueueIn(D)
                                      /\ \A S \in SUBSET D : Reach(S) \subseteq D
    BY AllocatedFrom
  <2> DEFINE e == GC_finalize_now[at]
  <2>2. phase' \in Passes /\ allocated' = allocated
    BY <1>8 DEF Revive, Passes
  <2>3. e \in Queued
    BY <1>8, EntryAt DEF Revive, IInv, MarkInv, PassInv
  <2> HIDE DEF e
  <2>4. e.obj \in D
    BY <2>1, <2>3 DEF QueueIn
  <2>5. marks' \subseteq marks \cup {e.obj}
    BY <1>8 DEF Revive, e
  <2> QED
    BY <2>1, <2>2, <2>4, <2>5, MarkedStep
<1> QED
  BY <1>1, <1>2, <1>3, <1>4, <1>5, <1>6, <1>7, <1>8
  DEF Next, Program, Calls, Collection

\* Without GC_finalize_all, its passes are never under way.
LEMMA NotAllStep ==
  ASSUME TypeOK, NotAll, Next
  PROVE  NotAll'
<1> USE DEF NotAll, Go, Done, StartPass, LookedAt, Enqueue, TypeOK, threadVars, passVars,
          heapVars, tableVars
<1>1. CASE
         \/ \E o \in Obj : Drop(o) \/ Load(o)
         \/ \E l \in Link : Reveal(l)
         \/ \E t \in Threads : RegisterFails(t) \/ RegisterWithNewEntry(t) \/ LinkFails(t)
                               \/ GC_general_register_disappearing_link(t)
                                  \/ LinkWithNewEntry(t)
         \/ \E t \in Threads : \E o \in Obj : \E p \in Procs : GC_register_finalizer(t, o, p)
         \/ \E t \in Threads : \E o \in Obj : GC_unregister_finalizer(t, o)
         \/ \E t \in Threads : \E l \in Link : \E o \in Obj : WriteLink(t, l, o)
         \/ \E t \in Threads : \E l \in Link : GC_unregister_disappearing_link(t, l)
  BY <1>1 DEF Drop, Load, Reveal, RegisterFails, RegisterWithNewEntry, GC_register_finalizer,
     GC_unregister_finalizer, WriteLink, LinkFails, GC_general_register_disappearing_link,
     LinkWithNewEntry, GC_unregister_disappearing_link, Unlocked
<1>2. CASE \E t \in Threads : GC_invoke_finalizers(t) \/ InvokeFirst(t) \/ NoneLeft(t)
  BY <1>2 DEF GC_invoke_finalizers, InvokeFirst, NoneLeft, Unlocked, After
<1>3. CASE
         \/ \E t \in Threads : GC_finalize_all(t) \/ NothingRegistered(t)
                               \/ GC_enqueue_all_finalizers(t) \/ AllEnqueued(t)
         \/ \E o \in Obj : EnqueueAny(o)
  BY <1>3 DEF GC_finalize_all, NothingRegistered, GC_enqueue_all_finalizers, AllEnqueued,
     EnqueueAny, Unlocked
<1>4. CASE
         \/ Mark \/ LinksCleared \/ MarkedFromFinalizable
         \/ \E l \in Link : ClearLink(l)
         \/ \E o \in Obj : MarkFromFinalizable(o)
  BY <1>4 DEF Mark, ClearLink, LinksCleared, MarkFromFinalizable, MarkedFromFinalizable,
     Unlocked
<1>5. CASE Enqueued \/ JavaMark \/ JavaMarked \/ Revive \/ Revived \/ RemoveDangling \/ Sweep
  BY <1>5 DEF Enqueued, JavaMark, JavaMarked, Revive, Revived, RemoveDangling, Sweep
<1>6. ASSUME NEW o \in Obj, EnqueueUnreachable(o) PROVE NotAll'
  BY <1>6 DEF EnqueueUnreachable
<1> QED
  BY <1>1, <1>2, <1>3, <1>4, <1>5, <1>6
  DEF Next, Program, Calls, Collection

\* The tail of a sequence of one is empty.
LEMMA OneOnly ==
  ASSUME NEW S, NEW s \in Seq(S), s # <<>>, Len(s) <= 1
  PROVE  Tail(s) = <<>>
<1>1. Len(s) \in Nat /\ Len(s) # 0
  BY EmptySeq, LenProperties
<1>2. \A n \in Nat : n <= 1 /\ n # 0 => n - 1 = 0
  OBVIOUS
<1>3. Len(s) - 1 = 0
  BY <1>1, <1>2, Zenon
<1>4. Tail(s) \in Seq(S) /\ Len(Tail(s)) = 0
  BY <1>3, FirstRemoved
<1> QED
  BY <1>4, EmptySeq

\* The queue is a sequence of entries.
LEMMA QueueType ==
  ASSUME TypeOK
  PROVE  /\ GC_finalize_now \in Seq(Entry) /\ Len(GC_finalize_now) \in Nat
         /\ DOMAIN GC_finalize_now = 1 .. Len(GC_finalize_now)
         /\ \A i \in DOMAIN GC_finalize_now :
              /\ GC_finalize_now[i] \in Entry /\ GC_finalize_now[i] \in Queued
              /\ GC_finalize_now[i].obj \in Obj /\ GC_finalize_now[i].proc \in Procs
<1>1. /\ GC_finalize_now \in Seq(Entry) /\ Len(GC_finalize_now) \in Nat
      /\ DOMAIN GC_finalize_now = 1 .. Len(GC_finalize_now)
  BY LenProperties DEF TypeOK
<1>2. ASSUME NEW i \in DOMAIN GC_finalize_now
      PROVE  GC_finalize_now[i] \in Entry /\ GC_finalize_now[i] \in Queued
  BY <1>1, <1>2, LenProperties DEF Queued, ToSet
<1>3. \A e \in Entry : e.obj \in Obj /\ e.proc \in Procs
  BY DEF Entry
<1> QED
  BY <1>1, <1>2, <1>3

\* A new entry is the first of the queue.
LEMMA QueueFront ==
  ASSUME TypeOK, NEW o \in Registered, Enqueue(o)
  PROVE  /\ DOMAIN GC_finalize_now' = 1 .. Len(GC_finalize_now) + 1
         /\ GC_finalize_now'[1] = [obj |-> o, proc |-> Head(fo_head[o])]
         /\ \A i \in DOMAIN GC_finalize_now : GC_finalize_now'[i + 1] = GC_finalize_now[i]
         /\ \A k \in DOMAIN GC_finalize_now' \ {1} :
              /\ k - 1 \in DOMAIN GC_finalize_now
              /\ GC_finalize_now'[k] = GC_finalize_now[k - 1]
<1> DEFINE e == [obj |-> o, proc |-> Head(fo_head[o])]
<1>1. o \in Obj /\ fo_head[o] # <<>> /\ fo_head[o] \in Seq(Procs)
  BY DEF Registered, TypeOK
<1>2. Head(fo_head[o]) \in Procs
  BY <1>1, FirstRemoved
<1>3. e \in Entry
  BY <1>1, <1>2 DEF Entry
<1>4. GC_finalize_now' = <<e>> \o GC_finalize_now
  BY DEF Enqueue
<1> HIDE DEF e
<1>5. /\ GC_finalize_now' \in Seq(Entry) /\ Len(GC_finalize_now') = Len(GC_finalize_now) + 1
      /\ \A i \in 1 .. Len(GC_finalize_now) + 1 :
           GC_finalize_now'[i] = IF i = 1 THEN e ELSE GC_finalize_now[i - 1]
  BY <1>3, <1>4, QueueType, FirstAdded
<1>6. DOMAIN GC_finalize_now' = 1 .. Len(GC_finalize_now) + 1
  BY <1>5, LenProperties
<1>7. Len(GC_finalize_now) \in Nat /\ DOMAIN GC_finalize_now = 1 .. Len(GC_finalize_now)
  BY QueueType
<1>8. \A i \in 1 .. Len(GC_finalize_now) :
        i + 1 \in 1 .. Len(GC_finalize_now) + 1 /\ i + 1 # 1 /\ (i + 1) - 1 = i
  BY <1>7
<1>9. \A k \in (1 .. Len(GC_finalize_now) + 1) \ {1} : k - 1 \in 1 .. Len(GC_finalize_now)
  BY <1>7
<1> QED
  BY <1>5, <1>6, <1>7, <1>8, <1>9 DEF e

\* The first entry is taken.
LEMMA QueueRest ==
  ASSUME TypeOK, GC_finalize_now # <<>>, GC_finalize_now' = Tail(GC_finalize_now)
  PROVE  /\ 1 \in DOMAIN GC_finalize_now /\ Head(GC_finalize_now) = GC_finalize_now[1]
         /\ \A k \in DOMAIN GC_finalize_now' :
              /\ k + 1 \in DOMAIN GC_finalize_now /\ k + 1 # 1
              /\ GC_finalize_now'[k] = GC_finalize_now[k + 1]
<1>1. /\ GC_finalize_now \in Seq(Entry) /\ Len(GC_finalize_now) \in Nat
      /\ DOMAIN GC_finalize_now = 1 .. Len(GC_finalize_now)
  BY QueueType
<1>2. /\ GC_finalize_now' \in Seq(Entry) /\ Len(GC_finalize_now') = Len(GC_finalize_now) - 1
      /\ \A i \in 1 .. Len(GC_finalize_now) - 1 : GC_finalize_now'[i] = GC_finalize_now[i + 1]
      /\ Len(GC_finalize_now) > 0 /\ Head(GC_finalize_now) = GC_finalize_now[1]
  BY <1>1, HeadTailProperties, EmptySeq
<1>3. DOMAIN GC_finalize_now' = 1 .. Len(GC_finalize_now) - 1
  BY <1>2, LenProperties
<1>4. \A k \in 1 .. Len(GC_finalize_now) - 1 : k + 1 \in 1 .. Len(GC_finalize_now) /\ k + 1 # 1
  BY <1>1
<1> QED
  BY <1>1, <1>2, <1>3, <1>4

\* Where the k-th entry was before the n-th was removed.
Before(n, k) == IF k < n THEN k ELSE k + 1

\* An entry goes back to the table.
LEMMA QueueWithout ==
  ASSUME TypeOK, NEW n \in DOMAIN GC_finalize_now, GC_finalize_now' = RemoveAt(GC_finalize_now, n)
  PROVE  \A k \in DOMAIN GC_finalize_now' :
              /\ k \in Nat
              /\ Before(n, k) \in DOMAIN GC_finalize_now /\ Before(n, k) # n
              /\ GC_finalize_now'[k] = GC_finalize_now[Before(n, k)]
              /\ \A j \in DOMAIN GC_finalize_now' \ {k} : Before(n, j) # Before(n, k)
<1>1. /\ GC_finalize_now \in Seq(Entry) /\ Len(GC_finalize_now) \in Nat
      /\ DOMAIN GC_finalize_now = 1 .. Len(GC_finalize_now)
  BY QueueType
<1> DEFINE q == GC_finalize_now
<1> HIDE DEF q
<1>5. n \in 1 .. Len(q) /\ q \in Seq(Entry) /\ GC_finalize_now' = RemoveAt(q, n)
  BY <1>1 DEF q
<1>6. /\ RemoveAt(q, n) \in Seq(Entry) /\ Len(RemoveAt(q, n)) = Len(q) - 1
      /\ \A i \in 1 .. Len(q) - 1 : RemoveAt(q, n)[i] = q[IF i < n THEN i ELSE i + 1]
  BY <1>5, OneRemoved, Zenon
<1>2. /\ GC_finalize_now' \in Seq(Entry) /\ Len(GC_finalize_now') = Len(GC_finalize_now) - 1
      /\ \A i \in 1 .. Len(GC_finalize_now) - 1 :
           GC_finalize_now'[i] = GC_finalize_now[IF i < n THEN i ELSE i + 1]
  BY <1>5, <1>6 DEF q
<1>3. DOMAIN GC_finalize_now' = 1 .. Len(GC_finalize_now) - 1
  BY <1>2, LenProperties
<1>4. \A k \in 1 .. Len(GC_finalize_now) - 1 :
        /\ Before(n, k) \in 1 .. Len(GC_finalize_now) /\ Before(n, k) # n /\ k \in Nat
        /\ \A j \in (1 .. Len(GC_finalize_now) - 1) \ {k} : Before(n, j) # Before(n, k)
  BY <1>1 DEF Before
<1> QED
  BY <1>1, <1>2, <1>3, <1>4 DEF Before

\* The program does not change what it is like.
LEMMA SameProgram ==
  ASSUME Next
  PROVE  program' = program
<1>1. ASSUME Program PROVE program' = program
  BY <1>1 DEF Program, Drop, Load, Reveal
<1>2. ASSUME NEW t \in Threads, Calls(t) PROVE program' = program
  BY <1>2 DEF Calls, RegisterFails, RegisterWithNewEntry, GC_register_finalizer,
     GC_unregister_finalizer, WriteLink, LinkFails, GC_general_register_disappearing_link,
     LinkWithNewEntry, GC_unregister_disappearing_link, GC_invoke_finalizers, InvokeFirst,
     NoneLeft, GC_finalize_all, NothingRegistered, GC_enqueue_all_finalizers, AllEnqueued
<1>3. ASSUME Collection PROVE program' = program
  BY <1>3 DEF Collection, Mark, ClearLink, LinksCleared, MarkFromFinalizable,
     EnqueueUnreachable,
     EnqueueAny, MarkedFromFinalizable, Enqueued, JavaMark, JavaMarked, Revive, Revived,
     RemoveDangling, Sweep
<1> QED
  BY <1>1, <1>2, <1>3 DEF Next

\* Without GC_finalize_all, what holds of the queue and the tables.
QueueInv == IInv /\ MarksInv /\ NotAll /\ SingleInv /\ ApartInv

\* An entry that respects the order is apart from what the program has.
LEMMA Secluded ==
  ASSUME QueueInv, Unlocked, NEW i \in DOMAIN GC_finalize_now, Hard(GC_finalize_now[i])
  PROVE  \E C \in SUBSET Obj : Apart(i, C)
BY DEF QueueInv, ApartInv, Settled, Unlocked

\* Nothing changes for the finalizers.
LEMMA SingleSame ==
  ASSUME SingleInv, UNCHANGED <<fo_head, GC_finalize_now>>, marks \subseteq marks',
         phase' = "enqueue" => phase = "enqueue"
  PROVE  SingleInv'
BY DEF SingleInv, Registered, Queued

\* An object that has the program's, or is being registered, gets a finalizer.
LEMMA SingleAdded ==
  ASSUME QueueInv, NEW o \in Obj, NEW p \in Procs, Unlocked,
         (o \in Registered /\ Replace(o, p)) \/ (o \notin Registered /\ AddEntry(o, p)),
         UNCHANGED <<GC_finalize_now, phase>>,
         \A C \in SUBSET Obj : ProgramIn(C) => o \in C
  PROVE  SingleInv'
<1>1. TypeOK /\ SingleInv
  BY DEF QueueInv, IInv
<1>2. /\ Registered' = Registered \cup {o}
      /\ \A x \in Obj : x # o => fo_head'[x] = fo_head[x]
  BY <1>1, FinalizerAdded
<1>3. fo_head[o] \in Seq(Procs) /\ fo_head \in [Obj -> Seq(Procs)] /\ Len(fo_head[o]) <= 1
  BY <1>1 DEF TypeOK, SingleInv
<1>4. Len(fo_head'[o]) <= 1
  <2>1. CASE o \in Registered /\ Replace(o, p)
    <3>1. fo_head[o] # <<>> /\ fo_head'[o] = [fo_head[o] EXCEPT ![1] = p]
      BY <2>1, <1>3 DEF Registered, Replace
    <3> QED
      BY <3>1, <1>3, FirstReplaced
  <2>2. CASE o \notin Registered /\ AddEntry(o, p)
    <3>1. fo_head[o] = <<>> /\ fo_head'[o] = <<p>> \o fo_head[o]
      BY <2>2, <1>3 DEF Registered, AddEntry
    <3> QED
      BY <3>1, <1>3, FirstAdded, EmptySeq
  <2> QED
    BY <2>1, <2>2
<1>5. ASSUME NEW i \in DOMAIN GC_finalize_now, GC_finalize_now[i].proc = "unreachable"
      PROVE  GC_finalize_now[i].obj # o
  <2>1. PICK C \in SUBSET Obj : Apart(i, C)
    BY <1>5, Secluded DEF Hard
  <2> QED
    BY <2>1 DEF Apart, Around
<1> QED
  BY <1>1, <1>2, <1>4, <1>5 DEF SingleInv, Unlocked

\* Every step keeps an object with one finalizer.
LEMMA SingleStep ==
  ASSUME QueueInv, Next
  PROVE  SingleInv'
<1>1. TypeOK /\ SingleInv /\ NotAll /\ CallInv /\ PassInv /\ OneLink
  BY DEF QueueInv, IInv, MarkInv
<1>2. CASE \/ \E o \in Obj : Drop(o) \/ Load(o)
           \/ \E l \in Link : Reveal(l) \/ ClearLink(l)
           \/ \E t \in Threads : \E l \in Link : \/ \E o \in Obj : WriteLink(t, l, o)
                                                 \/ GC_unregister_disappearing_link(t, l)
           \/ \E t \in Threads :
                \/ RegisterFails(t) \/ GC_general_register_disappearing_link(t)
                \/ LinkWithNewEntry(t) \/ LinkFails(t) \/ GC_invoke_finalizers(t) \/ NoneLeft(t)
                \/ GC_finalize_all(t) \/ NothingRegistered(t) \/ AllEnqueued(t)
                \/ GC_enqueue_all_finalizers(t)
           \/ LinksCleared \/ Enqueued \/ JavaMarked \/ Revived \/ RemoveDangling \/ Sweep
  <2>1. UNCHANGED <<fo_head, GC_finalize_now, marks>> /\ (phase' = "enqueue" => phase = "enqueue")
    BY <1>1, <1>2 DEF Drop, Load, Reveal, WriteLink, RegisterFails, LinkFails, LinkWithNewEntry,
       GC_general_register_disappearing_link, GC_unregister_disappearing_link, ClearLink,
       LinksCleared, Enqueued, JavaMarked, Revived, RemoveDangling, Sweep, GC_invoke_finalizers,
       NoneLeft, GC_finalize_all, NothingRegistered, GC_enqueue_all_finalizers, AllEnqueued,
       StartPass, passVars, heapVars, tableVars, LookedAt
  <2> QED
    BY <1>1, <2>1, SingleSame
<1>3. CASE Mark
  <2>1. UNCHANGED <<fo_head, GC_finalize_now>> /\ phase' = "links"
    BY <1>3 DEF Mark, StartPass, tableVars
  <2> QED
    BY <1>1, <2>1 DEF SingleInv, Registered, Queued
<1>4. CASE \/ \E o \in Obj : MarkFromFinalizable(o)
           \/ JavaMark
  <2>1. UNCHANGED <<fo_head, GC_finalize_now, phase>> /\ phase # "enqueue"
    BY <1>4 DEF MarkFromFinalizable, JavaMark, tableVars, LookedAt
  <2> QED
    BY <1>1, <2>1 DEF SingleInv, Registered, Queued
<1>5. ASSUME NEW t \in Threads, NEW o \in Obj, NEW p \in Procs, GC_register_finalizer(t, o, p)
      PROVE  SingleInv'
  <2>1. CASE UNCHANGED fo_head
    BY <1>1, <1>5, <2>1, SingleSame DEF GC_register_finalizer, passVars, heapVars
  <2>2. CASE (o \in Registered /\ Replace(o, p)) \/ (o \notin Registered /\ AddEntry(o, p))
    <3>1. o \in held /\ Unlocked /\ UNCHANGED <<GC_finalize_now, phase>>
      BY <1>5 DEF GC_register_finalizer, passVars
    <3>2. \A C \in SUBSET Obj : ProgramIn(C) => o \in C
      BY <3>1 DEF ProgramIn
    <3> QED
      BY <2>2, <3>1, <3>2, SingleAdded
  <2> QED
    BY <1>5, <2>1, <2>2 DEF GC_register_finalizer
<1>6. ASSUME NEW t \in Threads, RegisterWithNewEntry(t) PROVE SingleInv'
  <2> DEFINE o == request[t].obj
             p == request[t].proc
  <2>1. o \in Obj /\ Nowhere \notin Obj /\ p \in Procs
    BY <1>1, <1>6, ConstantsAssumption DEF RegisterWithNewEntry, CallInv, TypeOK, Request
  <2>2. /\ (o \in Registered /\ Replace(o, p)) \/ (o \notin Registered /\ AddEntry(o, p))
        /\ Unlocked /\ UNCHANGED <<GC_finalize_now, phase>>
    BY <1>6 DEF RegisterWithNewEntry, passVars
  <2>3. \A C \in SUBSET Obj : ProgramIn(C) => o \in C
    BY <2>1 DEF ProgramIn
  <2> HIDE DEF o, p
  <2> QED
    BY <2>1, <2>2, <2>3, SingleAdded
<1>7. ASSUME NEW t \in Threads, NEW o \in Obj, GC_unregister_finalizer(t, o) PROVE SingleInv'
  <2>1. /\ o \in Registered /\ fo_head' = [fo_head EXCEPT ![o] = Tail(@)]
        /\ UNCHANGED <<GC_finalize_now, phase, marks>>
    BY <1>7 DEF GC_unregister_finalizer, passVars, heapVars
  <2>2. Registered' \subseteq Registered /\ \A x \in Obj : x # o => fo_head'[x] = fo_head[x]
    BY <1>1, <2>1, FinalizerRemoved
  <2>3. fo_head[o] \in Seq(Procs) /\ fo_head[o] # <<>> /\ fo_head'[o] = Tail(fo_head[o])
        /\ Len(fo_head[o]) <= 1
    BY <1>1, <2>1 DEF TypeOK, Registered, SingleInv
  <2>4. Len(fo_head'[o]) <= 1
    BY <2>3, FirstRemoved, LenProperties
  <2> QED
    BY <1>1, <2>1, <2>2, <2>4 DEF SingleInv, Queued
<1>8. CASE MarkedFromFinalizable
  <2>1. UNCHANGED <<fo_head, GC_finalize_now, marks>> /\ QueueIn(marks)
    BY <1>1, <1>8 DEF MarkedFromFinalizable, tableVars, heapVars, PassInv
  <2> QED
    BY <1>1, <2>1 DEF SingleInv, Registered, Queued, QueueIn
<1>9. ASSUME NEW o \in Obj, EnqueueUnreachable(o) PROVE SingleInv'
  <2>1. CASE o \in marks
    BY <1>1, <1>9, <2>1, SingleSame DEF EnqueueUnreachable, LookedAt
  <2>2. CASE o \notin marks
    <3>1. /\ Enqueue(o) /\ o \in Registered /\ phase = "enqueue" /\ phase' = phase
          /\ marks \subseteq marks'
      BY <1>1, <1>9, <2>2 DEF EnqueueUnreachable, PassInv, Enqueue
    <3>2. fo_head' = [fo_head EXCEPT ![o] = Tail(@)] /\ fo_head \in [Obj -> Seq(Procs)]
      BY <1>1, <3>1 DEF Enqueue, TypeOK
    <3>3. fo_head[o] \in Seq(Procs) /\ fo_head[o] # <<>> /\ Len(fo_head[o]) <= 1
      BY <1>1, <3>1, <3>2 DEF Registered, SingleInv
    <3>4. Tail(fo_head[o]) = <<>>
      BY <3>3, OneOnly
    <3>5. Registered' = Registered \ {o} /\ \A x \in Obj : x # o => fo_head'[x] = fo_head[x]
      BY <1>1, <3>1, <3>2, <3>4, FinalizerRemoved
    <3>6. \A x \in Obj : Len(fo_head'[x]) <= 1
      BY <1>1, <3>2, <3>4, <3>5, EmptySeq DEF SingleInv
    <3>7. \A i \in DOMAIN GC_finalize_now : GC_finalize_now[i].obj # o
      BY <1>1, <2>2, <3>1, QueueType DEF SingleInv
    <3>8. /\ GC_finalize_now'[1].obj = o
          /\ \A k \in DOMAIN GC_finalize_now' \ {1} :
               /\ k - 1 \in DOMAIN GC_finalize_now
               /\ GC_finalize_now'[k] = GC_finalize_now[k - 1]
          /\ DOMAIN GC_finalize_now' \subseteq Nat
      <4>1. /\ GC_finalize_now'[1] = [obj |-> o, proc |-> Head(fo_head[o])]
            /\ \A k \in DOMAIN GC_finalize_now' \ {1} :
                 /\ k - 1 \in DOMAIN GC_finalize_now
                 /\ GC_finalize_now'[k] = GC_finalize_now[k - 1]
            /\ DOMAIN GC_finalize_now' = 1 .. Len(GC_finalize_now) + 1
        BY <1>1, <3>1, QueueFront
      <4>2. Len(GC_finalize_now) \in Nat
        BY <1>1, QueueType
      <4> QED
        BY <4>1, <4>2
    <3>9. ASSUME NEW k \in DOMAIN GC_finalize_now', GC_finalize_now'[k].proc = "unreachable"
          PROVE  /\ GC_finalize_now'[k].obj \notin Registered'
                 /\ \A j \in DOMAIN GC_finalize_now' \ {k} :
                      GC_finalize_now'[j].obj # GC_finalize_now'[k].obj
      <4>1. CASE k = 1
        BY <3>5, <3>7, <3>8, <4>1
      <4>2. CASE k # 1
        <5>1. /\ k - 1 \in DOMAIN GC_finalize_now
              /\ GC_finalize_now'[k] = GC_finalize_now[k - 1]
          BY <3>8, <4>2
        <5>2. GC_finalize_now'[k].obj \notin Registered'
          BY <1>1, <3>5, <3>9, <5>1 DEF SingleInv
        <5>3. ASSUME NEW j \in DOMAIN GC_finalize_now' \ {k, 1}
              PROVE  GC_finalize_now'[j].obj # GC_finalize_now'[k].obj
          <6>1. j - 1 # k - 1
            BY <3>8
          <6>2. /\ j - 1 \in DOMAIN GC_finalize_now \ {k - 1}
                /\ GC_finalize_now'[j] = GC_finalize_now[j - 1]
            BY <3>8, <6>1
          <6> QED
            BY <1>1, <3>9, <5>1, <6>2 DEF SingleInv
        <5> QED
          BY <3>7, <3>8, <5>1, <5>2, <5>3
      <4> QED
        BY <4>1, <4>2
    <3>10. \A e \in Queued' : e.obj \in Registered' => e.obj \in marks'
      <4>1. PICK p \in ToSet(fo_head[o]) \cap Procs :
              Queued' = Queued \cup {[obj |-> o, proc |-> p]}
        BY <1>1, <3>1, Enqueueing
      <4> QED
        BY <1>1, <3>1, <3>5, <4>1 DEF SingleInv
    <3> QED
      BY <3>6, <3>9, <3>10 DEF SingleInv
  <2> QED
    BY <2>1, <2>2
<1>10. CASE Revive
  <2> DEFINE e == GC_finalize_now[at]
  <2>1. /\ phase = "revive" /\ phase' = phase /\ at \in DOMAIN GC_finalize_now
        /\ e.obj \in Obj /\ e.proc \in Procs
    BY <1>1, <1>10, EntryAt DEF Revive, PassInv
  <2>2. CASE UNCHANGED <<fo_head, GC_finalize_now>>
    BY <1>1, <2>1, <2>2 DEF SingleInv, Registered, Queued
  <2>3. CASE /\ e.proc = "unreachable" /\ GC_finalize_now' = RemoveAt(GC_finalize_now, at)
             /\ AddEntry(e.obj, e.proc)
    <3>1. e.obj \notin Registered /\ \A j \in DOMAIN GC_finalize_now \ {at} :
                                       GC_finalize_now[j].obj # e.obj
      BY <1>1, <2>1, <2>3 DEF SingleInv
    <3>2. fo_head \in [Obj -> Seq(Procs)] /\ fo_head[e.obj] = <<>>
      BY <1>1, <2>1, <3>1 DEF TypeOK, Registered
    <3>3. fo_head'[e.obj] = <<e.proc>> \o fo_head[e.obj]
      BY <2>1, <2>3, <3>2 DEF AddEntry
    <3>4. /\ Registered' = Registered \cup {e.obj}
          /\ \A x \in Obj : x # e.obj => fo_head'[x] = fo_head[x]
      BY <1>1, <2>1, <2>3, FinalizerAdded
    <3>5. \A k \in DOMAIN GC_finalize_now' :
              /\ Before(at, k) \in DOMAIN GC_finalize_now /\ Before(at, k) # at
              /\ GC_finalize_now'[k] = GC_finalize_now[Before(at, k)]
              /\ \A j \in DOMAIN GC_finalize_now' \ {k} : Before(at, j) # Before(at, k)
      BY <1>1, <2>1, <2>3, QueueWithout
    <3> HIDE DEF e
    <3>6. Len(fo_head'[e.obj]) <= 1
      BY <2>1, <3>2, <3>3, FirstAdded, EmptySeq
    <3>7. \A x \in Obj : Len(fo_head'[x]) <= 1
      BY <1>1, <3>4, <3>6 DEF SingleInv
    <3>8. ASSUME NEW k \in DOMAIN GC_finalize_now', GC_finalize_now'[k].proc = "unreachable"
          PROVE  /\ GC_finalize_now'[k].obj \notin Registered'
                 /\ \A j \in DOMAIN GC_finalize_now' \ {k} :
                      GC_finalize_now'[j].obj # GC_finalize_now'[k].obj
      BY <1>1, <3>1, <3>4, <3>5, <3>8 DEF SingleInv
    <3> QED
      BY <2>1, <3>7, <3>8 DEF SingleInv
  <2> QED
    BY <1>10, <2>2, <2>3 DEF Revive, AddEntry
<1>11. ASSUME NEW t \in Threads, InvokeFirst(t) PROVE SingleInv'
  <2>1. /\ GC_finalize_now # <<>> /\ GC_finalize_now' = Tail(GC_finalize_now)
        /\ UNCHANGED <<fo_head, phase, marks>> /\ phase # "enqueue"
    BY <1>11 DEF InvokeFirst, passVars, heapVars, Unlocked
  <2>2. \A k \in DOMAIN GC_finalize_now' :
              /\ k + 1 \in DOMAIN GC_finalize_now
              /\ GC_finalize_now'[k] = GC_finalize_now[k + 1]
    BY <1>1, <2>1, QueueRest
  <2>3. DOMAIN GC_finalize_now' \subseteq Nat
    BY <1>1, <2>1, FirstRemoved, QueueType, LenProperties
  <2>4. \A j, k \in DOMAIN GC_finalize_now' : j # k => j + 1 # k + 1
    BY <2>3
  <2> QED
    BY <1>1, <2>1, <2>2, <2>4 DEF SingleInv, Registered
<1>12. ASSUME NEW o \in Obj, EnqueueAny(o) PROVE SingleInv'
  BY <1>1, <1>12 DEF EnqueueAny, NotAll
<1> QED
  BY <1>2, <1>3, <1>4, <1>5, <1>6, <1>7, <1>8, <1>9, <1>10, <1>11, <1>12
  DEF Next, Program, Calls, Collection

\* Around(C) means the same in the next state, if it still holds of the
\* program's pointers, the table and the links.
LEMMA AroundKept ==
  ASSUME NEW C, Closed(C), LinksIn(C), program' = program, Registered' \subseteq C, ProgramIn(C)',
         \A l \in Link : cell'[l] = cell[l] \/ cell'[l] \in C \cup {Nowhere}
  PROVE  Around(C)'
<1>1. Closed(C)'
  BY DEF Closed
<1>2. LinksIn(C)'
  BY DEF LinksIn, Home
<1> QED
  BY <1>1, <1>2 DEF Around

\* No step gets out of a set the program is kept in, but by a new order of the
\* queue.
LEMMA AroundStep ==
  ASSUME QueueInv, Next, NEW C \in SUBSET Obj, Around(C),
         GC_finalize_now' = GC_finalize_now \/ Registered' \cup held' \subseteq C
  PROVE  Around(C)'
<1>1. TypeOK /\ CallInv /\ OneLink /\ NotAll /\ PassInv
  BY DEF QueueInv, IInv, MarkInv
<1>2. /\ Closed(C) /\ ProgramIn(C) /\ Registered \subseteq C /\ LinksIn(C) /\ held \subseteq C
  BY DEF Around, ProgramIn
<1>3. program' = program
  BY SameProgram
<1>4. CASE UNCHANGED <<held, request, fo_head, cell>>
  <2>1. ProgramIn(C)' /\ Registered' \subseteq C
    BY <1>2, <1>3, <1>4 DEF ProgramIn, Home, Registered
  <2> QED
    BY <1>2, <1>3, <1>4, <2>1, AroundKept
<1>5. CASE \/ \E t \in Threads :
                \/ GC_invoke_finalizers(t) \/ NoneLeft(t)
                \/ GC_finalize_all(t) \/ NothingRegistered(t) \/ AllEnqueued(t)
                \/ GC_enqueue_all_finalizers(t)
           \/ \E o \in Obj : MarkFromFinalizable(o)
           \/ Mark \/ LinksCleared \/ MarkedFromFinalizable \/ Enqueued \/ JavaMark
              \/ JavaMarked
           \/ Revived \/ RemoveDangling \/ Sweep
  <2>1. UNCHANGED <<held, request, fo_head, cell>>
    BY <1>5 DEF LinksCleared, Enqueued, JavaMarked, Revived, RemoveDangling, Sweep,
       GC_invoke_finalizers, NoneLeft, GC_finalize_all, NothingRegistered,
       GC_enqueue_all_finalizers, AllEnqueued, Mark, MarkedFromFinalizable, MarkFromFinalizable,
       JavaMark, tableVars, threadVars
  <2> QED
    BY <1>4, <2>1
<1>6. ASSUME NEW o \in Obj, Drop(o) \/ Load(o) PROVE Around(C)'
  <2>1. UNCHANGED <<request, fo_head, cell>> /\ held' \subseteq C
    BY <1>2, <1>6 DEF Drop, Load, Closed, threadVars, tableVars
  <2>2. ProgramIn(C)' /\ Registered' \subseteq C
    BY <1>2, <1>3, <2>1 DEF ProgramIn, Home, Registered
  <2> QED
    BY <1>2, <1>3, <2>1, <2>2, AroundKept
<1>7. ASSUME NEW l \in Link, Reveal(l) PROVE Around(C)'
  <2>1. cell[l] \in C
    BY <1>2, <1>7 DEF Reveal, Accessible, LinksIn
  <2>2. UNCHANGED <<request, fo_head, cell>> /\ held' \subseteq C
    BY <1>2, <1>7, <2>1 DEF Reveal, threadVars, tableVars
  <2>3. ProgramIn(C)' /\ Registered' \subseteq C
    BY <1>2, <1>3, <2>2 DEF ProgramIn, Home, Registered
  <2> QED
    BY <1>2, <1>3, <2>2, <2>3, AroundKept
<1>8. ASSUME NEW t \in Threads, NEW o \in Obj, NEW p \in Procs, GC_register_finalizer(t, o, p)
      PROVE  Around(C)'
  <2>1. o \in C /\ UNCHANGED <<held, cell>>
    BY <1>2, <1>8 DEF GC_register_finalizer
  <2>2. ProgramIn(C)'
    <3>1. CASE UNCHANGED threadVars
      BY <1>2, <1>3, <2>1, <3>1 DEF threadVars, ProgramIn, Home
    <3>2. CASE Asks(t, o, p, Nowhere)
      <4>1. /\ request'[t].obj = o /\ request'[t].link = Nowhere
            /\ \A u \in Threads : u # t => request'[u] = request[u]
        BY <1>1, <3>2, AskChange
      <4> QED
        BY <1>2, <1>3, <2>1, <4>1, ProgramKept, ConstantsAssumption
    <3> QED
      BY <1>8, <3>1, <3>2 DEF GC_register_finalizer
  <2>3. Registered' \subseteq C
    <3>1. CASE UNCHANGED fo_head
      BY <1>2, <3>1 DEF Registered
    <3>2. CASE (o \in Registered /\ Replace(o, p)) \/ AddEntry(o, p)
      BY <1>1, <1>2, <2>1, <3>2, FinalizerAdded
    <3> QED
      BY <1>8, <3>1, <3>2 DEF GC_register_finalizer
  <2> QED
    BY <1>2, <1>3, <2>1, <2>2, <2>3, AroundKept
<1>9. ASSUME NEW t \in Threads, RegisterWithNewEntry(t) PROVE Around(C)'
  <2> DEFINE o == request[t].obj
             p == request[t].proc
  <2>1. o \in Obj /\ Nowhere \notin Obj /\ p \in Procs
    BY <1>1, <1>9, ConstantsAssumption DEF RegisterWithNewEntry, CallInv, TypeOK, Request
  <2>2. /\ (o \in Registered /\ Replace(o, p)) \/ AddEntry(o, p)
        /\ Done(t) /\ UNCHANGED <<held, cell>>
    BY <1>9 DEF RegisterWithNewEntry
  <2>3. o \in C
    BY <1>2, <2>1 DEF ProgramIn
  <2>4. ProgramIn(C)'
    BY <1>1, <1>2, <1>3, <2>2, ProgramDone
  <2> HIDE DEF o, p
  <2>5. Registered' \subseteq C
    BY <1>1, <1>2, <2>1, <2>2, <2>3, FinalizerAdded
  <2> QED
    BY <1>2, <1>3, <2>2, <2>4, <2>5, AroundKept
<1>10. ASSUME NEW t \in Threads, RegisterFails(t) PROVE Around(C)'
  <2>1. Done(t) /\ UNCHANGED <<held, cell, fo_head>>
    BY <1>10 DEF RegisterFails, tableVars
  <2>2. ProgramIn(C)' /\ Registered' \subseteq C
    BY <1>1, <1>2, <1>3, <2>1, ProgramDone DEF Registered
  <2> QED
    BY <1>2, <1>3, <2>1, <2>2, AroundKept
<1>11. ASSUME NEW t \in Threads, NEW o \in Obj, GC_unregister_finalizer(t, o) PROVE Around(C)'
  <2>1. /\ o \in Registered /\ fo_head' = [fo_head EXCEPT ![o] = Tail(@)]
        /\ UNCHANGED <<held, cell, request>>
    BY <1>11 DEF GC_unregister_finalizer, threadVars
  <2>2. Registered' \subseteq C
    BY <1>1, <1>2, <2>1, FinalizerRemoved
  <2>3. ProgramIn(C)'
    BY <1>2, <1>3, <2>1 DEF ProgramIn, Home
  <2> QED
    BY <1>2, <1>3, <2>1, <2>2, <2>3, AroundKept
<1>12. ASSUME NEW t \in Threads, NEW l \in Link, NEW o \in Obj, WriteLink(t, l, o) PROVE Around(C)'
  <2>1. /\ o \in C /\ Home[l] \in C \cup {Nowhere} /\ cell' = [cell EXCEPT ![l] = o]
        /\ Asks(t, o, "normal", l) /\ UNCHANGED <<held, fo_head>>
    BY <1>2, <1>12 DEF WriteLink, Accessible, tableVars
  <2>2. /\ request'[t].obj = o /\ request'[t].link = l
        /\ \A u \in Threads : u # t => request'[u] = request[u]
    BY <1>1, <2>1, AskChange
  <2>3. Home' = Home
    BY <1>3 DEF Home
  <2>4. ProgramIn(C)'
    BY <1>2, <1>3, <2>1, <2>2, <2>3, ProgramKept
  <2>5. Registered' \subseteq C /\ \A x \in Link : cell'[x] = cell[x] \/ cell'[x] \in C \cup {Nowhere}
    BY <1>1, <1>2, <2>1 DEF Registered, TypeOK
  <2> QED
    BY <1>2, <1>3, <2>4, <2>5, AroundKept
<1>13. ASSUME NEW t \in Threads,
              GC_general_register_disappearing_link(t) \/ LinkWithNewEntry(t)
       PROVE  Around(C)'
  <2>1. UNCHANGED <<held, cell, fo_head>> /\ (request' = request \/ Done(t))
    BY <1>13 DEF GC_general_register_disappearing_link, LinkWithNewEntry
  <2>2. ProgramIn(C)'
    <3>1. CASE request' = request
      BY <1>2, <1>3, <2>1, <3>1 DEF ProgramIn, Home
    <3> QED
      BY <1>1, <1>2, <1>3, <2>1, <3>1, ProgramDone
  <2>3. Registered' \subseteq C
    BY <1>2, <2>1 DEF Registered
  <2> QED
    BY <1>2, <1>3, <2>1, <2>2, <2>3, AroundKept
<1>14. ASSUME NEW t \in Threads, LinkFails(t) PROVE Around(C)'
  <2>1. /\ Done(t) /\ cell' = [cell EXCEPT ![request[t].link] = Nowhere]
        /\ UNCHANGED <<held, fo_head>>
    BY <1>14 DEF LinkFails, tableVars
  <2>2. ProgramIn(C)' /\ Registered' \subseteq C
    BY <1>1, <1>2, <1>3, <2>1, ProgramDone DEF Registered
  <2>3. \A x \in Link : cell'[x] = cell[x] \/ cell'[x] = Nowhere
    BY <1>1, <2>1 DEF TypeOK
  <2> QED
    BY <1>2, <1>3, <2>2, <2>3, AroundKept
<1>15. ASSUME NEW l \in Link,
              ClearLink(l) \/ \E t \in Threads : GC_unregister_disappearing_link(t, l)
       PROVE  Around(C)'
  <2>1. /\ cell' = cell \/ cell' = [cell EXCEPT ![l] = Nowhere]
        /\ UNCHANGED <<held, request, fo_head>>
    BY <1>15 DEF ClearLink, GC_unregister_disappearing_link, threadVars
  <2>2. ProgramIn(C)' /\ Registered' \subseteq C
    BY <1>2, <1>3, <2>1 DEF ProgramIn, Home, Registered
  <2>3. \A x \in Link : cell'[x] = cell[x] \/ cell'[x] = Nowhere
    BY <1>1, <2>1 DEF TypeOK
  <2> QED
    BY <1>2, <1>3, <2>2, <2>3, AroundKept
<1>16. ASSUME NEW o \in Obj, EnqueueUnreachable(o) PROVE Around(C)'
  <2>1. UNCHANGED <<held, request, cell>> /\ phase = "enqueue" /\ o \in todo
    BY <1>16 DEF EnqueueUnreachable, threadVars
  <2>2. o \in Registered
    BY <1>1, <2>1 DEF PassInv
  <2>3. Registered' \subseteq Registered
    <3>1. CASE fo_head' = fo_head
      BY <3>1 DEF Registered
    <3>2. CASE Enqueue(o)
      BY <1>1, <2>2, <3>2, Enqueueing
    <3> QED
      BY <1>16, <3>1, <3>2 DEF EnqueueUnreachable
  <2>4. ProgramIn(C)'
    BY <1>2, <1>3, <2>1 DEF ProgramIn, Home
  <2> QED
    BY <1>2, <1>3, <2>1, <2>3, <2>4, AroundKept
<1>17. CASE Revive
  <2>1. UNCHANGED <<held, request, cell>>
    BY <1>17 DEF Revive, threadVars
  <2>2. ProgramIn(C)'
    BY <1>2, <1>3, <2>1 DEF ProgramIn, Home
  <2>3. Registered' \subseteq C
    <3>1. CASE fo_head' = fo_head
      BY <1>2, <3>1 DEF Registered
    <3>2. CASE GC_finalize_now' = RemoveAt(GC_finalize_now, at)
      <4>1. at \in 1 .. Len(GC_finalize_now) /\ GC_finalize_now \in Seq(Entry)
        BY <1>1, <1>17, EntryAt DEF Revive, PassInv, TypeOK
      <4>2. Len(GC_finalize_now') # Len(GC_finalize_now)
        BY <3>2, <4>1, OneRemoved, LenProperties
      <4> QED
        BY <4>2
    <3> QED
      BY <1>17, <3>1, <3>2 DEF Revive
  <2> QED
    BY <1>2, <1>3, <2>1, <2>2, <2>3, AroundKept
<1>18. ASSUME NEW t \in Threads, InvokeFirst(t) PROVE Around(C)'
  <2>1. /\ GC_finalize_now # <<>> /\ GC_finalize_now' = Tail(GC_finalize_now)
        /\ UNCHANGED <<request, cell, fo_head>>
    BY <1>18 DEF InvokeFirst, threadVars
  <2>2. Len(GC_finalize_now') # Len(GC_finalize_now)
    <3>1. GC_finalize_now \in Seq(Entry) /\ Len(GC_finalize_now) \in Nat
      BY <1>1, QueueType
    <3>2. Len(GC_finalize_now') = Len(GC_finalize_now) - 1
      BY <2>1, <3>1, FirstRemoved
    <3> QED
      BY <3>1, <3>2
  <2>3. held' \subseteq C /\ Registered' \subseteq C
    BY <2>2
  <2>4. ProgramIn(C)'
    BY <1>2, <1>3, <2>1, <2>3 DEF ProgramIn, Home
  <2> QED
    BY <1>2, <1>3, <2>1, <2>3, <2>4, AroundKept
<1>19. ASSUME NEW o \in Obj, EnqueueAny(o) PROVE Around(C)'
  BY <1>1, <1>19 DEF EnqueueAny, NotAll
<1> QED
  BY <1>5, <1>6, <1>7, <1>8, <1>9, <1>10, <1>11, <1>12, <1>13, <1>14, <1>15, <1>16, <1>17,
     <1>18, <1>19
  DEF Next, Program, Calls, Collection

\* What is marked, and more, is a set the links of the program do not lead out
\* of: those that could have been cleared.
LEMMA LinksFromMarks ==
  ASSUME IInv, phase \in Passes \ {"links", "sweep"}, NEW C \in SUBSET allocated, marks \subseteq C
  PROVE  LinksIn(C)
<1>1. LinksMarked(Linked) /\ ProgramIn(marks) /\ CellInv
  BY DEF IInv, MarkInv, PassInv
<1>2. SUFFICES ASSUME NEW l \in Link, Home[l] \in C \cup {Nowhere}, cell[l] # Nowhere
               PROVE  cell[l] \in C \cup {Nowhere}
  BY DEF LinksIn
<1>3. \/ cell[l] \in ToSet(dl_head[l])
      \/ \E t \in Threads : request[t].link = l /\ request[t].obj = cell[l]
  BY <1>1, <1>2 DEF CellInv
<1>4. cell[l] \in ToSet(dl_head[l]) => l \in Linked
  BY DEF Linked, ToSet
<1> QED
  BY <1>1, <1>3, <1>4 DEF LinksMarked, ProgramIn

\* A finalizer that respects the order has marked all its object points to,
\* but perhaps the object.
LEMMA TracedPoints ==
  ASSUME TypeOK, NEW o \in Obj, NEW p \in Procs, p # "null", Traced(o, p), Closed(marks)
  PROVE  program.points[o] \subseteq marks \cup {o}
BY OrderedPushes DEF Traced, Closed

\* The first entry after it was enqueued, when there is no finalizer without
\* an order.
LEMMA FirstApart ==
  ASSUME QueueInv, ~Unordered, NEW o \in Obj, EnqueueUnreachable(o), o \notin marks
  PROVE  \E C \in SUBSET Obj : Apart(1, C)'
<1>1. /\ TypeOK /\ PassInv /\ UsesInv /\ MarksInv /\ SingleInv /\ phase = "enqueue" /\ o \in Registered
      /\ ProgramIn(marks)
  BY DEF QueueInv, IInv, MarkInv, PassInv, EnqueueUnreachable, Passes
<1>2. Enqueue(o) /\ UNCHANGED <<program, held, request, cell>>
  BY DEF EnqueueUnreachable, threadVars
<1>0. PICK C : C = marks \cup ((Registered \cup {e.obj : e \in Queued}) \ {o})
  OBVIOUS
<1>3. C \in SUBSET allocated
  BY <1>0, AllocatedFrom DEF QueueIn, QueueInv
<1>4. C \in SUBSET Obj /\ o \notin C
  BY <1>0, <1>1, <1>3 DEF TypeOK
<1>5. ASSUME NEW x \in C PROVE program.points[x] \subseteq C
  <2>1. CASE x \in marks
    BY <1>0, <1>1, <2>1 DEF MarksInv, Closed
  <2>2. CASE x \in Registered
    <3>1. fo_head[x] # <<>> /\ fo_head[x] \in Seq(Procs) /\ x \in Obj
      BY <1>1, <2>2 DEF Registered, TypeOK
    <3>2. PICK p \in Procs : p \in ToSet(fo_head[x])
      BY <3>1, FirstRemoved
    <3>3. p # "null"
      BY <1>1, <3>1, <3>2 DEF UsesInv, Unordered
    <3>4. Traced(x, p)
      BY <1>1, <2>2, <3>2 DEF PassInv, TableTraced
    <3> QED
      BY <1>0, <1>1, <1>5, <2>2, <3>1, <3>3, <3>4, TracedPoints DEF MarksInv
  <2>3. CASE \E e \in Queued : e.obj = x
    <3>1. PICK e \in Queued : e.obj = x
      BY <2>3
    <3>2. e.obj \in Obj /\ e.proc \in Procs
      BY <1>1, <3>1, QueueType DEF Queued, ToSet
    <3>3. e.proc # "null"
      BY <1>1, <3>1, <3>2 DEF UsesInv, Unordered
    <3>4. Traced(x, e.proc)
      BY <1>1, <3>1 DEF PassInv, QueueTraced
    <3> QED
      BY <1>0, <1>1, <1>5, <3>1, <3>2, <3>3, <3>4, TracedPoints DEF MarksInv
  <2> QED
    BY <1>0, <2>1, <2>2, <2>3
<1>6. Closed(C)
  BY <1>5 DEF Closed
<1>7. LinksIn(C)
  BY <1>0, <1>1, <1>3, LinksFromMarks DEF QueueInv, Passes
<1>8. ProgramIn(C)'
  BY <1>0, <1>1, <1>2 DEF ProgramIn, Home
<1>9. Registered' \subseteq C
  <2>1. fo_head' = [fo_head EXCEPT ![o] = Tail(@)]
    BY <1>2 DEF Enqueue
  <2>2. fo_head[o] \in Seq(Procs) /\ fo_head[o] # <<>> /\ Len(fo_head[o]) <= 1
    BY <1>1 DEF Registered, TypeOK, SingleInv
  <2>6. Tail(fo_head[o]) = <<>>
    BY <2>2, OneOnly
  <2>7. Registered' = Registered \ {o}
    BY <1>1, <2>1, <2>6, FinalizerRemoved
  <2> QED
    BY <1>0, <2>7
<1>10. /\ GC_finalize_now'[1].obj = o
       /\ \A k \in DOMAIN GC_finalize_now' \ {1} : GC_finalize_now'[k].obj \in C
  <2>1. /\ GC_finalize_now'[1].obj = o
        /\ \A k \in DOMAIN GC_finalize_now' \ {1} :
             /\ k - 1 \in DOMAIN GC_finalize_now
             /\ GC_finalize_now'[k] = GC_finalize_now[k - 1]
    <3>1. /\ GC_finalize_now'[1] = [obj |-> o, proc |-> Head(fo_head[o])]
          /\ \A k \in DOMAIN GC_finalize_now' \ {1} :
               /\ k - 1 \in DOMAIN GC_finalize_now
               /\ GC_finalize_now'[k] = GC_finalize_now[k - 1]
      BY <1>1, <1>2, QueueFront
    <3> QED
      BY <3>1
  <2>2. ASSUME NEW i \in DOMAIN GC_finalize_now PROVE GC_finalize_now[i].obj \in C
    <3>1. GC_finalize_now[i] \in Queued
      BY <1>1, QueueType
    <3>2. GC_finalize_now[i].obj # o
      BY <1>1, <3>1 DEF SingleInv
    <3> QED
      BY <1>0, <3>1, <3>2
  <2> QED
    BY <2>1, <2>2
<1>11. Around(C)'
  BY <1>2, <1>6, <1>7, <1>8, <1>9, AroundKept
<1>12. Apart(1, C)'
  BY <1>4, <1>10, <1>11 DEF Apart
<1> QED
  BY <1>4, <1>12

\* An entry that is not put back.
LEMMA RevivedApart ==
  ASSUME QueueInv, Revive, NEW n, n = at, GC_finalize_now[at].proc = "unreachable",
         GC_finalize_now[at].obj \notin marks
  PROVE  \E C \in SUBSET Obj : Apart(n, C)'
<1> DEFINE q == GC_finalize_now
<1>0. PICK C : C = marks \cup {q[j].obj : j \in DOMAIN q \ {at}}
  OBVIOUS
<1>1. /\ TypeOK /\ PassInv /\ UsesInv /\ MarksInv /\ SingleInv /\ phase = "revive" /\ ProgramIn(marks)
      /\ at >= 1 /\ at <= Len(q)
  BY DEF QueueInv, IInv, MarkInv, PassInv, Revive, Passes
<1>2. at \in DOMAIN q
  BY <1>1, EntryAt
<1>3. UNCHANGED <<program, held, request, cell, fo_head, GC_finalize_now>>
  BY DEF Revive, threadVars
<1>4. C \in SUBSET allocated
  BY <1>0, <1>1, AllocatedFrom, QueueType DEF QueueIn, QueueInv
<1>5. C \in SUBSET Obj /\ q[at].obj \notin C
  BY <1>0, <1>1, <1>2, <1>4 DEF TypeOK, SingleInv
<1>6. ASSUME NEW x \in C PROVE program.points[x] \subseteq C
  <2>1. CASE x \in marks
    BY <1>0, <1>1, <2>1 DEF MarksInv, Closed
  <2>2. ASSUME NEW j \in DOMAIN q \ {at}, x = q[j].obj, x \notin marks PROVE program.points[x] \subseteq C
    <3>1. j \in 1 .. Len(q) /\ q[j] \in Queued /\ q[j].obj \in Obj /\ q[j].proc \in Procs
      BY <1>1, QueueType
    <3>2. Len(q) \in Nat
      BY <1>1, QueueType
    <3>3. q[j].proc = "unreachable"
      BY <1>1, <2>2, <3>1, <3>2 DEF PassInv, QueueMarked
    <3>4. Traced(x, "unreachable")
      BY <1>1, <2>2, <3>1, <3>3 DEF PassInv, QueueTraced
    <3> QED
      BY <1>0, <1>1, <1>6, <2>2, <3>1, <3>4, TracedPoints DEF MarksInv, Procs
  <2> QED
    BY <1>0, <2>1, <2>2
<1>7. Closed(C)
  BY <1>6 DEF Closed
<1>8. LinksIn(C)
  BY <1>0, <1>1, <1>4, LinksFromMarks DEF QueueInv, Passes
<1>9. ProgramIn(C)' /\ Registered' \subseteq C
  BY <1>0, <1>1, <1>3 DEF ProgramIn, Home, Registered, PassInv
<1>10. \A j \in DOMAIN q \ {at} : q[j].obj \in C
  BY <1>0
<1>11. Around(C)'
  BY <1>3, <1>7, <1>8, <1>9, AroundKept
<1>12. Apart(n, C)'
  BY <1>3, <1>5, <1>10, <1>11 DEF Apart
<1> QED
  BY <1>5, <1>12

\* An entry that keeps its place, or gets another one.
LEMMA ApartMoved ==
  ASSUME NEW i \in DOMAIN GC_finalize_now, NEW k \in DOMAIN GC_finalize_now', NEW C, Apart(i, C),
         Around(C)', GC_finalize_now'[k] = GC_finalize_now[i],
         \A j \in DOMAIN GC_finalize_now' \ {k} : GC_finalize_now'[j].obj \in C
  PROVE  Apart(k, C)'
BY DEF Apart

\* It is known what an entry leads to that was already looked at.
LEMMA SettledBefore ==
  ASSUME QueueInv, Next, NEW i \in DOMAIN GC_finalize_now, GC_finalize_now' = GC_finalize_now,
         Hard(GC_finalize_now[i]), Settled(i)'
  PROVE  Settled(i) \/ (Revive /\ i = at /\ at' = at + 1)
<1>1. TypeOK /\ PassInv /\ UsesInv /\ NotAll
  BY DEF QueueInv, IInv, MarkInv
<1>2. i \in Nat /\ at \in Nat /\ at' \in Nat
  BY <1>1, QueueType, TypeStep DEF QueueInv, TypeOK
<1>3. Unordered' = Unordered
  BY SameProgram DEF Unordered
<1>4. SUFFICES ASSUME Unordered, phase \in {"enqueue", "java", "revive"}
               PROVE  Settled(i) \/ (Revive /\ i = at /\ at' = at + 1)
  BY DEF Settled
<1>5. java
  BY <1>4, ProgramType, <1>1 DEF Unordered
<1>6. phase' \notin {"enqueue", "java", "revive"} \/ (phase' = "revive" /\ i < at')
  <2>1. Unordered'
    BY <1>4, SameProgram DEF Unordered
  <2> QED
    BY <2>1 DEF Settled
<1>7. CASE \/ phase' = phase /\ at' = at
  BY <1>6, <1>7 DEF Settled
<1>8. CASE \E o \in Obj : Drop(o) \/ Load(o)
  BY <1>7, <1>8 DEF Drop, Load, passVars
<1>9. CASE \E t \in Threads :
                \/ RegisterFails(t) \/ LinkFails(t) \/ GC_invoke_finalizers(t) \/ NoneLeft(t)
                \/ \E l \in Link : \E o \in Obj : WriteLink(t, l, o)
  BY <1>7, <1>9 DEF RegisterFails, LinkFails, GC_invoke_finalizers, NoneLeft, WriteLink,
     passVars
<1>10. CASE \/ \E l \in Link : Reveal(l)
            \/ \E t \in Threads :
                \/ \E o \in Obj : \/ \E p \in Procs : GC_register_finalizer(t, o, p)
                                  \/ GC_unregister_finalizer(t, o)
                \/ \E l \in Link : GC_unregister_disappearing_link(t, l)
                \/ RegisterWithNewEntry(t) \/ GC_general_register_disappearing_link(t)
                \/ LinkWithNewEntry(t) \/ InvokeFirst(t) \/ NothingRegistered(t)
                \/ GC_enqueue_all_finalizers(t)
            \/ Mark
  BY <1>4, <1>10 DEF Reveal, GC_register_finalizer, GC_unregister_finalizer,
     GC_unregister_disappearing_link, RegisterWithNewEntry,
     GC_general_register_disappearing_link,
     LinkWithNewEntry, InvokeFirst, NothingRegistered, GC_enqueue_all_finalizers, Mark, Unlocked
<1>11. CASE \E t \in Threads : GC_finalize_all(t) \/ AllEnqueued(t)
  BY <1>1, <1>7, <1>11 DEF GC_finalize_all, AllEnqueued, NotAll, passVars
<1>12. CASE \/ \E l \in Link : ClearLink(l)
            \/ \E o \in Obj : MarkFromFinalizable(o) \/ EnqueueAny(o)
            \/ LinksCleared \/ MarkedFromFinalizable \/ RemoveDangling \/ Sweep
  BY <1>4, <1>12 DEF ClearLink, MarkFromFinalizable, EnqueueAny, LinksCleared,
     MarkedFromFinalizable, RemoveDangling, Sweep
<1>13. CASE \/ \E o \in Obj : EnqueueUnreachable(o)
            \/ Enqueued \/ JavaMark
  BY <1>5, <1>6, <1>13 DEF EnqueueUnreachable, LookedAt, Enqueue, Enqueued, StartPass, JavaMark
<1>14. CASE JavaMarked
  <2>1. phase' = "revive" /\ at' = 1 /\ i >= 1
    BY <1>1, <1>14, QueueType DEF JavaMarked, StartPass
  <2> QED
    BY <1>2, <1>6, <2>1
<1>15. CASE Revive
  <2>1. phase = "revive" /\ phase' = "revive" /\ (at' = at \/ at' = at + 1)
    BY <1>15 DEF Revive
  <2>2. i < at'
    BY <1>6, <2>1
  <2>3. i < at \/ i = at
    BY <1>2, <2>1, <2>2
  <2> QED
    BY <1>7, <1>15, <2>1, <2>3 DEF Settled
<1>16. CASE Revived
  <2>1. phase = "revive" /\ at > Len(GC_finalize_now) /\ i \in 1 .. Len(GC_finalize_now)
    BY <1>1, <1>16, QueueType DEF Revived
  <2>2. Len(GC_finalize_now) \in Nat
    BY <1>1, QueueType
  <2>3. i < at
    BY <1>2, <2>1, <2>2
  <2> QED
    BY <2>1, <2>3 DEF Settled
<1> QED
  BY <1>8, <1>9, <1>10, <1>11, <1>12, <1>13, <1>14, <1>15, <1>16
  DEF Next, Program, Calls, Collection

\* Every step keeps each entry that respects the order apart from what the
\* program can come to.
LEMMA ApartStep ==
  ASSUME QueueInv, Next
  PROVE  ApartInv'
<1>1. TypeOK /\ PassInv /\ UsesInv /\ NotAll /\ ApartInv
  BY DEF QueueInv, IInv, MarkInv
<1>2. Unordered' = Unordered
  BY SameProgram DEF Unordered
<1>3. CASE GC_finalize_now' = GC_finalize_now
  <2>1. SUFFICES ASSUME NEW i \in DOMAIN GC_finalize_now, Hard(GC_finalize_now[i]), Settled(i)'
                 PROVE  \E C \in SUBSET Obj : Apart(i, C)'
    BY <1>2, <1>3 DEF ApartInv, Hard
  <2>2. CASE Settled(i)
    <3>1. PICK C \in SUBSET Obj : Apart(i, C)
      BY <1>1, <2>1, <2>2 DEF ApartInv
    <3>2. Around(C)'
      BY <1>3, <3>1, AroundStep DEF Apart
    <3>3. Apart(i, C)'
      BY <1>3, <3>1, <3>2 DEF Apart
    <3> QED
      BY <3>3
  <2>3. ASSUME ~Settled(i), Revive, i = at PROVE \E C \in SUBSET Obj : Apart(i, C)'
    <3>1. Unordered
      BY <2>3 DEF Settled
    <3>2. GC_finalize_now[at].proc = "unreachable"
      BY <2>1, <2>3, <3>1 DEF Hard
    <3>3. GC_finalize_now[at].obj \notin marks
      <4>1. at \in 1 .. Len(GC_finalize_now) /\ GC_finalize_now \in Seq(Entry)
        BY <1>1, <2>1, <2>3, QueueType
      <4>2. Len(RemoveAt(GC_finalize_now, at)) # Len(GC_finalize_now)
        BY <4>1, OneRemoved, LenProperties
      <4> QED
        BY <1>3, <2>3, <3>2, <4>2 DEF Revive
    <3> QED
      BY <2>3, <3>2, <3>3, RevivedApart
  <2> QED
    BY <1>3, <2>1, <2>2, <2>3, SettledBefore
<1>4. ASSUME NEW o \in Obj, EnqueueUnreachable(o), GC_finalize_now' # GC_finalize_now PROVE ApartInv'
  <2>1. /\ phase = "enqueue" /\ phase' = "enqueue" /\ o \in todo /\ o \notin marks /\ Enqueue(o)
        /\ held' = held
    BY <1>4 DEF EnqueueUnreachable, Enqueue
  <2>2. o \in Registered
    BY <1>1, <2>1 DEF PassInv
  <2>3. Registered' \subseteq Registered
    BY <1>1, <2>1, <2>2, Enqueueing
  <2>4. /\ GC_finalize_now'[1] = [obj |-> o, proc |-> Head(fo_head[o])]
        /\ \A k \in DOMAIN GC_finalize_now' \ {1} :
             /\ k - 1 \in DOMAIN GC_finalize_now
             /\ GC_finalize_now'[k] = GC_finalize_now[k - 1]
        /\ DOMAIN GC_finalize_now' = 1 .. Len(GC_finalize_now) + 1
    BY <1>1, <2>1, <2>2, QueueFront
  <2>5. DOMAIN GC_finalize_now' \subseteq Nat
    BY <1>1, <2>4, QueueType
  <2>6. SUFFICES ASSUME NEW k \in DOMAIN GC_finalize_now', ~Unordered
                 PROVE  \E C \in SUBSET Obj : Apart(k, C)'
    BY <1>2, <2>1 DEF ApartInv, Settled
  <2>7. CASE k = 1
    BY <1>4, <2>1, <2>6, <2>7, FirstApart
  <2>8. CASE k # 1
    <3>1. k - 1 \in DOMAIN GC_finalize_now /\ GC_finalize_now'[k] = GC_finalize_now[k - 1]
      BY <2>4, <2>6, <2>8
    <3>2. PICK C \in SUBSET Obj : Apart(k - 1, C)
      BY <1>1, <2>6, <3>1 DEF ApartInv, Hard, Settled
    <3>3. Around(C) /\ Registered \subseteq C /\ held \subseteq C
      BY <3>2 DEF Apart, Around, ProgramIn
    <3>4. Around(C)'
      BY <2>1, <2>3, <3>3, AroundStep
    <3>5. ASSUME NEW j \in DOMAIN GC_finalize_now' \ {k} PROVE GC_finalize_now'[j].obj \in C
      <4>1. CASE j = 1
        BY <2>2, <2>4, <3>3, <4>1
      <4>2. CASE j # 1
        <5>1. j - 1 # k - 1
          BY <2>5, <2>6
        <5> QED
          BY <2>4, <3>2, <4>2, <5>1 DEF Apart
      <4> QED
        BY <4>1, <4>2
    <3>6. Apart(k, C)'
      BY <2>6, <3>1, <3>2, <3>4, <3>5, ApartMoved
    <3> QED
      BY <3>6
  <2> QED
    BY <2>7, <2>8
<1>5. ASSUME Revive, GC_finalize_now' # GC_finalize_now PROVE ApartInv'
  <2> DEFINE e == GC_finalize_now[at]
  <2>1. /\ phase = "revive" /\ phase' = phase /\ at \in DOMAIN GC_finalize_now
        /\ e.obj \in Obj /\ e.proc \in Procs /\ at \in Nat
    BY <1>1, <1>5, EntryAt DEF Revive, PassInv, TypeOK
  <2>2. /\ GC_finalize_now' = RemoveAt(GC_finalize_now, at) /\ AddEntry(e.obj, e.proc)
        /\ held' = held /\ at' = at
    BY <1>5 DEF Revive, AddEntry
  <2>3. Registered' = Registered \cup {e.obj}
    BY <1>1, <2>1, <2>2, FinalizerAdded
  <2>4. \A k \in DOMAIN GC_finalize_now' :
              /\ k \in Nat
              /\ Before(at, k) \in DOMAIN GC_finalize_now /\ Before(at, k) # at
              /\ GC_finalize_now'[k] = GC_finalize_now[Before(at, k)]
              /\ \A j \in DOMAIN GC_finalize_now' \ {k} : Before(at, j) # Before(at, k)
    BY <1>1, <2>1, <2>2, QueueWithout
  <2>5. SUFFICES ASSUME NEW k \in DOMAIN GC_finalize_now', Hard(GC_finalize_now[k])', Settled(k)'
                 PROVE  \E C \in SUBSET Obj : Apart(k, C)'
    BY DEF ApartInv
  <2>6. PICK i \in DOMAIN GC_finalize_now : i = Before(at, k)
    BY <2>4, <2>5
  <2>7. Hard(GC_finalize_now[i])
    BY <1>2, <2>4, <2>5, <2>6 DEF Hard
  <2>8. Settled(i)
    BY <1>2, <2>1, <2>2, <2>5, <2>6 DEF Settled, Before
  <2>9. PICK C \in SUBSET Obj : Apart(i, C)
    BY <1>1, <2>7, <2>8 DEF ApartInv
  <2>10. Around(C) /\ Registered \subseteq C /\ held \subseteq C /\ e.obj \in C
    BY <2>1, <2>4, <2>5, <2>6, <2>9 DEF Apart, Around, ProgramIn
  <2> HIDE DEF e
  <2>11. Around(C)'
    BY <1>5, <2>2, <2>3, <2>10, AroundStep
  <2>12. \A j \in DOMAIN GC_finalize_now' \ {k} : GC_finalize_now'[j].obj \in C
    BY <2>4, <2>5, <2>6, <2>9 DEF Apart
  <2>13. Apart(k, C)'
    BY <2>4, <2>5, <2>6, <2>9, <2>11, <2>12, ApartMoved
  <2> QED
    BY <2>13
<1>6. ASSUME NEW t \in Threads, InvokeFirst(t) PROVE ApartInv'
  <2>1. /\ GC_finalize_now # <<>> /\ GC_finalize_now' = Tail(GC_finalize_now)
        /\ held' = held \cup {Head(GC_finalize_now).obj}
        /\ fo_head' = fo_head /\ phase = "none"
    BY <1>6 DEF InvokeFirst, Unlocked
  <2>2. /\ 1 \in DOMAIN GC_finalize_now /\ Head(GC_finalize_now) = GC_finalize_now[1]
        /\ \A k \in DOMAIN GC_finalize_now' :
              /\ k + 1 \in DOMAIN GC_finalize_now /\ k + 1 # 1
              /\ GC_finalize_now'[k] = GC_finalize_now[k + 1]
    BY <1>1, <2>1, QueueRest
  <2>3. DOMAIN GC_finalize_now' \subseteq Nat
    BY <1>1, <2>1, FirstRemoved, QueueType, LenProperties
  <2>4. SUFFICES ASSUME NEW k \in DOMAIN GC_finalize_now', Hard(GC_finalize_now[k])'
                 PROVE  \E C \in SUBSET Obj : Apart(k, C)'
    BY DEF ApartInv
  <2>5. Hard(GC_finalize_now[k + 1]) /\ Settled(k + 1)
    BY <1>2, <2>1, <2>2, <2>4 DEF Hard, Settled
  <2>6. PICK C \in SUBSET Obj : Apart(k + 1, C)
    BY <1>1, <2>2, <2>4, <2>5 DEF ApartInv
  <2>7. Around(C) /\ Registered \subseteq C /\ held \subseteq C /\ Head(GC_finalize_now).obj \in C
    BY <2>2, <2>4, <2>6 DEF Apart, Around, ProgramIn
  <2>8. Registered' \cup held' \subseteq C
    BY <2>1, <2>7 DEF Registered
  <2>9. Around(C)'
    BY <2>7, <2>8, AroundStep
  <2>10. ASSUME NEW j \in DOMAIN GC_finalize_now' \ {k} PROVE GC_finalize_now'[j].obj \in C
    <3>1. j + 1 # k + 1
      BY <2>3, <2>4
    <3> QED
      BY <2>2, <2>6, <3>1 DEF Apart
  <2>11. Apart(k, C)'
    BY <2>2, <2>4, <2>6, <2>9, <2>10, ApartMoved
  <2> QED
    BY <2>11
<1>7. ASSUME NEW o \in Obj, EnqueueAny(o) PROVE ApartInv'
  BY <1>1, <1>7 DEF EnqueueAny, NotAll
<1>8. ASSUME Program PROVE GC_finalize_now' = GC_finalize_now
  BY <1>8 DEF Program, Drop, Load, Reveal, tableVars
<1>9. ASSUME NEW t \in Threads, Calls(t)
      PROVE  InvokeFirst(t) \/ GC_finalize_now' = GC_finalize_now
  BY <1>9 DEF Calls, RegisterFails, RegisterWithNewEntry, GC_register_finalizer,
     GC_unregister_finalizer, WriteLink, LinkFails, GC_general_register_disappearing_link,
     LinkWithNewEntry, GC_unregister_disappearing_link, GC_invoke_finalizers,
     NoneLeft, GC_finalize_all, NothingRegistered, GC_enqueue_all_finalizers, AllEnqueued,
     tableVars
<1>10. ASSUME Collection
       PROVE  \/ \E o \in Obj : EnqueueUnreachable(o) \/ EnqueueAny(o)
              \/ Revive \/ GC_finalize_now' = GC_finalize_now
  BY <1>10 DEF Collection, Mark, ClearLink, LinksCleared, MarkFromFinalizable,
     MarkedFromFinalizable, Enqueued, JavaMark, JavaMarked, Revived, RemoveDangling, Sweep,
     tableVars
<1> QED
  BY <1>3, <1>4, <1>5, <1>6, <1>7, <1>8, <1>9, <1>10 DEF Next

\* The invariant holds initially.
LEMMA InitQueue ==
  ASSUME Init
  PROVE  QInv
<1>1. IInv /\ MarksInv
  BY InitInv DEF Init, MarksInv, Closed
<1>2. NotAll \/ program.all
  BY DEF Init, NotAll
<1>3. SingleInv /\ ApartInv
  <2>1. DOMAIN GC_finalize_now = {} /\ phase = "none" /\ \A o \in Obj : Len(fo_head[o]) = 0
    BY DEF Init
  <2> QED
    BY <2>1 DEF SingleInv, ApartInv
<1> QED
  BY <1>1, <1>2, <1>3 DEF QInv

\* It is kept by every step.
LEMMA NextQueue ==
  ASSUME QInv, [Next]_vars
  PROVE  QInv'
<1>1. IInv'
  BY NextInv DEF QInv
<1>2. CASE UNCHANGED vars
  <2>1. MarksInv'
    BY <1>2 DEF QInv, MarksInv, vars, heapVars, Closed
  <2>2. (~program.all => NotAll /\ SingleInv /\ ApartInv)'
    BY <1>2 DEF QInv, NotAll, SingleInv, ApartInv, Settled, Hard, Unordered, Apart, Around,
       Closed,
       ProgramIn, LinksIn, Home, Registered, Queued, vars, threadVars, passVars, heapVars,
       tableVars
  <2> QED
    BY <1>1, <2>1, <2>2 DEF QInv
<1>3. CASE Next
  <2>1. program' = program
    BY <1>3, SameProgram
  <2>2. MarksInv'
    BY <1>3, MarksStep DEF QInv
  <2>3. CASE program.all
    BY <1>1, <2>1, <2>2, <2>3 DEF QInv
  <2>4. CASE ~program.all
    <3>1. QueueInv /\ TypeOK
      BY <2>4 DEF QInv, QueueInv, IInv
    <3>2. NotAll'
      BY <1>3, <3>1, NotAllStep DEF QueueInv
    <3>3. SingleInv' /\ ApartInv'
      BY <1>3, <3>1, SingleStep, ApartStep
    <3> QED
      BY <1>1, <2>2, <3>2, <3>3 DEF QInv
  <2> QED
    BY <2>3, <2>4
<1> QED
  BY <1>2, <1>3

\* While an object waits in the queue, nothing but its finalizer brings the
\* program to it: no pointer or link of its own, and no other finalizer.
THEOREM FinalizersWait == Spec => []NeverAccessible
<1>1. ASSUME QInv PROVE NeverAccessible
  <2>1. SUFFICES ASSUME Unlocked, ~program.all, NEW e \in Queued, e.proc = "unreachable" \/ ~Unordered
                 PROVE  e.obj \notin Reach(held)
    BY DEF NeverAccessible, Unordered
  <2>2. QueueInv /\ TypeOK
    BY <1>1, <2>1 DEF QInv, QueueInv, IInv
  <2>3. PICK i \in DOMAIN GC_finalize_now : e = GC_finalize_now[i]
    BY <2>1 DEF Queued, ToSet
  <2>4. PICK C \in SUBSET Obj : Apart(i, C)
    BY <2>1, <2>2, <2>3, Secluded DEF Hard
  <2>5. held \subseteq C /\ Closed(C) /\ e.obj \notin C /\ held \in SUBSET Obj
    BY <2>2, <2>3, <2>4 DEF Apart, Around, ProgramIn, TypeOK
  <2> QED
    BY <2>2, <2>5, ReachFacts
<1> QED
  BY <1>1, InitQueue, NextQueue, PTL DEF Spec
=============================================================================
