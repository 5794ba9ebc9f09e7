------------------------------ MODULE Finalize ------------------------------
(***************************************************************************)
(* Finalizers and disappearing links, finalize.c.                          *)
(*                                                                         *)
(* A collection that has marked calls GC_finalize with the allocation lock *)
(* and the world running.  In passes over its tables it clears the links   *)
(* to unmarked objects, marks what finalizable objects lead to, enqueues   *)
(* those still unmarked and marks them, puts back what must wait, and      *)
(* forgets the links that lie in unmarked objects; then the sweep frees    *)
(* what is unmarked.  Each pass relies on the marks the others left.       *)
(*                                                                         *)
(* Meanwhile threads go on with whatever they can reach.  Links, being     *)
(* disguised, they read with the allocation lock only; to register they    *)
(* need it too, but give it up while GC_oom_fn finds them memory.          *)
(*                                                                         *)
(* The chain of a hash bucket is a chain for each key.  What marking marks *)
(* is HintMark's: everything reachable and, in a hinted collection, what   *)
(* objects outside the hinted blocks lead to that were marked before.      *)
(***************************************************************************)
EXTENDS Integers, Sequences, SequencesExt, FiniteSets

CONSTANTS
  Threads,
  Obj,          \* the objects of the heap
  Link,         \* the locations of links
  Nowhere,      \* outside the heap; also no object
  Programs,     \* what the program is like: see Init
  MaxEntries    \* bound on the finalizers registered or enqueued at a time

Procs == {"normal", "ignore_self", "null", "unreachable"}

ASSUME ConstantsAssumption ==
  /\ IsFiniteSet(Threads) /\ IsFiniteSet(Obj) /\ Nowhere \notin Obj \cup Link
  /\ MaxEntries \in Nat
  \* gc.h: unordered finalization wants GC_java_finalization.
  /\ \A p \in Programs :
       /\ {p.java, p.all} \subseteq BOOLEAN /\ p.points \in [Obj -> SUBSET Obj]
       /\ p.home \in [Link -> Obj \cup {Nowhere}]
       /\ p.uses \in [Obj -> SUBSET Procs]
       /\ p.java \/ \A o \in Obj : p.uses[o] \subseteq {"normal", "ignore_self"}

VARIABLES
  program,      \* GC_java_finalization, whether GC_finalize_all is called, the
                \* pointers, the objects links are fields of, the procedures used
  held,         \* what stacks and static data of the program point to
  pc,           \* where each thread is
  request,      \* the object, procedure and link of its unfinished call
  cell,         \* the contents of the links
  phase,        \* the pass under way: somebody has the allocation lock
  todo,         \* the objects or links the pass has not looked at yet
  at,           \* its position in GC_finalize_now
  allocated,    \* the objects that have not been freed
  marks,        \* the marked objects
  fo_head,      \* the finalizers registered for each object
  dl_head,      \* the objects registered for each link
  GC_finalize_now

threadVars == <<pc, request>>
passVars == <<phase, todo, at>>
heapVars == <<allocated, marks>>
tableVars == <<fo_head, dl_head, GC_finalize_now>>
vars == <<program, held, threadVars, cell, passVars, heapVars, tableVars>>

Request == [obj : Obj \cup {Nowhere}, proc : Procs, link : Link \cup {Nowhere}]
NoRequest == [obj |-> Nowhere, proc |-> "normal", link |-> Nowhere]
Entry == [obj : Obj, proc : Procs]

TypeOK ==
  /\ program \in Programs
  /\ held \in SUBSET Obj
  /\ pc \in [Threads -> {"run", "fo", "link", "dl", "invoke", "all", "enqueue", "invoke_all"}]
  /\ request \in [Threads -> Request]
  /\ cell \in [Link -> Obj \cup {Nowhere}]
  /\ phase \in {"none", "links", "mark", "enqueue", "java", "revive", "dangling", "sweep", "all"}
  /\ todo \in SUBSET (Obj \cup Link) /\ at \in Nat
  /\ allocated \in SUBSET Obj /\ marks \in SUBSET Obj
  /\ fo_head \in [Obj -> Seq(Procs)]
  /\ dl_head \in [Link -> Seq(Obj)]
  /\ GC_finalize_now \in Seq(Entry)

java == program.java
Home == program.home
Unlocked == phase = "none"
Queued == ToSet(GC_finalize_now)
Registered == {o \in Obj : fo_head[o] # <<>>}
Linked == {l \in Link : dl_head[l] # <<>>}

Closed(S) == \A o \in S : program.points[o] \subseteq S
Reach(S) == {o \in Obj : \A C \in SUBSET Obj : S \subseteq C /\ Closed(C) => o \in C}

\* A location that exists and that the program can get at.
Accessible(l) == Home[l] \in held \cup {Nowhere}

InCalls == {request[t].obj : t \in Threads} \cup
           {Home[request[t].link] : t \in {u \in Threads : request[u].link \in Link}}

\* The roots: GC_push_finalizer_structures adds the queue, whose objects are
\* no longer disguised, but neither of the tables.
Roots == held \cup {e.obj : e \in Queued} \cup (InCalls \ {Nowhere})

Init ==
  /\ program \in Programs
  /\ held = Obj
  /\ pc = [t \in Threads |-> "run"]
  /\ request = [t \in Threads |-> NoRequest]
  /\ cell = [l \in Link |-> Nowhere]
  /\ phase = "none" /\ todo = {} /\ at = 0
  /\ allocated = Obj /\ marks = {}
  /\ fo_head = [o \in Obj |-> <<>>]
  /\ dl_head = [l \in Link |-> <<>>]
  /\ GC_finalize_now = <<>>

Go(t, there) == pc' = [pc EXCEPT ![t] = there]
Asks(t, o, p, l) == request' = [request EXCEPT ![t] = [obj |-> o, proc |-> p, link |-> l]]
Done(t) == Go(t, "run") /\ request' = [request EXCEPT ![t] = NoRequest]

-----------------------------------------------------------------------------
(* The program uses its objects, whether a collection is under way or not. *)

Drop(o) ==
  /\ o \in held
  /\ held' = held \ {o}
  /\ UNCHANGED <<program, threadVars, cell, passVars, heapVars, tableVars>>

Load(o) ==
  /\ \E h \in held : o \in program.points[h] \ held
  /\ held' = held \cup {o}
  /\ UNCHANGED <<program, threadVars, cell, passVars, heapVars, tableVars>>

\* GC_call_with_alloc_lock: a disguised pointer becomes a pointer again.
Reveal(l) ==
  /\ Unlocked /\ Accessible(l) /\ cell[l] # Nowhere
  /\ cell[l] \notin held
  /\ held' = held \cup {cell[l]}
  /\ UNCHANGED <<program, threadVars, cell, passVars, heapVars, tableVars>>

-----------------------------------------------------------------------------
(* GC_register_finalizer_inner                                             *)

Entries == MapThenSumSet(LAMBDA o : Len(fo_head[o]), Obj) + Len(GC_finalize_now)
           + Cardinality({t \in Threads : pc[t] = "fo"})

\* One finalizer for each object: the entry found is used again.
Replace(o, p) == fo_head' = [fo_head EXCEPT ![o][1] = p]
AddEntry(o, p) == fo_head' = [fo_head EXCEPT ![o] = <<p>> \o @]

GC_register_finalizer(t, o, p) ==
  /\ pc[t] = "run" /\ Unlocked /\ o \in held /\ p \in program.uses[o]
  /\ Entries < MaxEntries
  /\ \/ /\ o \in Registered /\ Replace(o, p)
        /\ UNCHANGED threadVars
     \/ /\ o \notin Registered /\ AddEntry(o, p)
        /\ UNCHANGED threadVars
     \/ /\ o \notin Registered               \* no memory: unlock and ask GC_oom_fn
        /\ Go(t, "fo") /\ Asks(t, o, p, Nowhere)
        /\ UNCHANGED fo_head
  /\ UNCHANGED <<program, held, cell, passVars, heapVars, dl_head, GC_finalize_now>>

\* Mutant: the table is not searched again after the lock was given up.
RegisterWithNewEntry_NoSearch(t) ==
  /\ pc[t] = "fo" /\ Unlocked
  /\ AddEntry(request[t].obj, request[t].proc)
  /\ Done(t)
  /\ UNCHANGED <<program, held, cell, passVars, heapVars, dl_head, GC_finalize_now>>

\* With the memory of GC_oom_fn; another thread may have been faster.
RegisterWithNewEntry(t) ==
  /\ pc[t] = "fo" /\ Unlocked
  /\ LET o == request[t].obj  p == request[t].proc
     IN  IF o \in Registered THEN Replace(o, p) ELSE AddEntry(o, p)
  /\ Done(t)
  /\ UNCHANGED <<program, held, cell, passVars, heapVars, dl_head, GC_finalize_now>>

RegisterFails(t) ==
  /\ pc[t] = "fo" /\ Done(t)
  /\ UNCHANGED <<program, held, cell, passVars, heapVars, tableVars>>

\* With fn = 0.
GC_unregister_finalizer(t, o) ==
  /\ pc[t] = "run" /\ Unlocked /\ o \in held /\ o \in Registered
  /\ fo_head' = [fo_head EXCEPT ![o] = Tail(@)]
  /\ UNCHANGED <<program, held, threadVars, cell, passVars, heapVars, dl_head, GC_finalize_now>>

-----------------------------------------------------------------------------
(* GC_general_register_disappearing_link                                   *)

\* The program disguises a pointer to o and stores it at l.  It does not
\* register two objects for a link at a time.
WriteLink(t, l, o) ==
  /\ pc[t] = "run" /\ o \in held /\ Accessible(l)
  /\ \A u \in Threads : request[u].link = l => request[u].obj = o
  /\ cell' = [cell EXCEPT ![l] = o]
  /\ Go(t, "link") /\ Asks(t, o, "normal", l)
  /\ UNCHANGED <<program, held, passVars, heapVars, tableVars>>

ReplaceLink(l, o) == dl_head' = [dl_head EXCEPT ![l][1] = o]
AddLink(l, o) == dl_head' = [dl_head EXCEPT ![l] = <<o>> \o @]

GC_general_register_disappearing_link(t) ==
  /\ pc[t] = "link" /\ Unlocked
  /\ LET o == request[t].obj  l == request[t].link
     IN  \/ l \in Linked /\ ReplaceLink(l, o) /\ Done(t)
         \/ l \notin Linked /\ AddLink(l, o) /\ Done(t)
         \/ /\ l \notin Linked               \* no memory
            /\ Go(t, "dl") /\ UNCHANGED <<request, dl_head>>
  /\ UNCHANGED <<program, held, cell, passVars, heapVars, fo_head, GC_finalize_now>>

LinkWithNewEntry(t) ==
  /\ pc[t] = "dl" /\ Unlocked
  /\ LET o == request[t].obj  l == request[t].link
     IN  IF l \in Linked THEN ReplaceLink(l, o) ELSE AddLink(l, o)
  /\ Done(t)
  /\ UNCHANGED <<program, held, cell, passVars, heapVars, fo_head, GC_finalize_now>>

\* GC_NO_MEMORY: the program gives the link up.
LinkFails(t) ==
  /\ pc[t] = "dl" /\ Done(t)
  /\ cell' = [cell EXCEPT ![request[t].link] = Nowhere]
  /\ UNCHANGED <<program, held, passVars, heapVars, tableVars>>

GC_unregister_disappearing_link(t, l) ==
  /\ pc[t] = "run" /\ Unlocked /\ Accessible(l) /\ l \in Linked
  /\ \A u \in Threads : request[u].link # l
  /\ dl_head' = [dl_head EXCEPT ![l] = Tail(@)]
  /\ cell' = [cell EXCEPT ![l] = Nowhere]
  /\ UNCHANGED <<program, held, threadVars, passVars, heapVars, fo_head, GC_finalize_now>>

-----------------------------------------------------------------------------
(* A collection, from the result of its marking to its sweep               *)

StartPass(name, keys) == phase' = name /\ todo' = keys /\ at' = 1
LookedAt(k) == todo' = todo \ {k} /\ UNCHANGED <<phase, at>>

Mark ==
  /\ Unlocked
  /\ \E kept \in SUBSET marks : marks' = Reach(Roots \cup kept)
  /\ StartPass("links", Linked)
  /\ UNCHANGED <<program, held, threadVars, cell, allocated, tableVars>>

\* Mutant: the entry goes, the link stays.
ClearLink_KeepsCell(l) ==
  /\ phase = "links" /\ l \in todo
  /\ dl_head' = IF Head(dl_head[l]) \in marks THEN dl_head
                ELSE [dl_head EXCEPT ![l] = Tail(@)]
  /\ LookedAt(l)
  /\ UNCHANGED <<program, held, threadVars, cell, heapVars, fo_head, GC_finalize_now>>

\* "Make disappearing links disappear."
ClearLink(l) ==
  /\ phase = "links" /\ l \in todo
  /\ IF Head(dl_head[l]) \in marks
     THEN UNCHANGED <<cell, dl_head>>
     ELSE /\ cell' = [cell EXCEPT ![l] = Nowhere]
          /\ dl_head' = [dl_head EXCEPT ![l] = Tail(@)]
  /\ LookedAt(l)
  /\ UNCHANGED <<program, held, threadVars, heapVars, fo_head, GC_finalize_now>>

LinksCleared ==
  /\ phase = "links" /\ todo = {}
  /\ StartPass("mark", Registered)
  /\ UNCHANGED <<program, held, threadVars, cell, heapVars, tableVars>>

\* What the procedure of a finalizer pushes.
Pushes(o, p) ==
  CASE p \in {"normal", "unreachable"} -> program.points[o]
    [] p = "ignore_self" -> program.points[o] \ {o}
    [] OTHER -> {}

\* GC_MARK_FO.  If the mark stack overflows, the object itself is marked and
\* the heap searched for marked objects with unmarked contents.
MarkFromFinalizable(o) ==
  /\ phase = "mark" /\ o \in todo
  /\ LET pushed == UNION {Pushes(o, p) : p \in ToSet(fo_head[o])}
     IN  \/ o \in marks /\ UNCHANGED marks
         \/ o \notin marks /\ marks' = marks \cup Reach(pushed)
         \/ o \notin marks /\ pushed # {} /\ marks' = Reach(marks \cup {o})
  /\ LookedAt(o)
  /\ UNCHANGED <<program, held, threadVars, cell, allocated, tableVars>>

MarkedFromFinalizable ==
  /\ phase = "mark" /\ todo = {}
  /\ StartPass("enqueue", Registered)
  /\ UNCHANGED <<program, held, threadVars, cell, heapVars, tableVars>>

Enqueue(o) ==
  /\ fo_head' = [fo_head EXCEPT ![o] = Tail(@)]
  /\ GC_finalize_now' = <<[obj |-> o, proc |-> Head(fo_head[o])]>> \o GC_finalize_now
  /\ todo' = IF Tail(fo_head[o]) = <<>> THEN todo \ {o} ELSE todo
  /\ UNCHANGED <<phase, at>>

\* Mutant: the object is left to the passes of GC_java_finalization.
EnqueueUnreachable_Unmarked(o) ==
  /\ phase = "enqueue" /\ o \in todo
  /\ \/ /\ o \in marks
        /\ LookedAt(o)
        /\ UNCHANGED <<fo_head, GC_finalize_now>>
     \/ o \notin marks /\ Enqueue(o)
  /\ UNCHANGED <<program, held, threadVars, cell, heapVars, dl_head>>

\* Without GC_java_finalization the object is marked at once.
EnqueueUnreachable(o) ==
  /\ phase = "enqueue" /\ o \in todo
  /\ \/ /\ o \in marks
        /\ LookedAt(o)
        /\ UNCHANGED <<marks, fo_head, GC_finalize_now>>
     \/ /\ o \notin marks
        /\ Enqueue(o)
        /\ marks' = IF java THEN marks ELSE marks \cup {o}
  /\ UNCHANGED <<program, held, threadVars, cell, allocated, dl_head>>

Enqueued ==
  /\ phase = "enqueue" /\ todo = {}
  /\ IF java THEN StartPass("java", {}) ELSE StartPass("dangling", {})
  /\ UNCHANGED <<program, held, threadVars, cell, heapVars, tableVars>>

\* "Make sure we mark everything reachable from objects finalized using the
\* no_order mark_proc."
JavaMark ==
  /\ phase = "java" /\ at <= Len(GC_finalize_now)
  /\ LET e == GC_finalize_now[at]
     IN  IF e.obj \in marks THEN UNCHANGED marks
         ELSE marks' = marks \cup (IF e.proc = "null" THEN Reach(program.points[e.obj]) ELSE {})
                             \cup (IF e.proc = "unreachable" THEN {} ELSE {e.obj})
  /\ at' = at + 1
  /\ UNCHANGED <<program, held, threadVars, cell, phase, todo, allocated, tableVars>>

JavaMarked ==
  /\ phase = "java" /\ at > Len(GC_finalize_now)
  /\ StartPass("revive", {})
  /\ UNCHANGED <<program, held, threadVars, cell, heapVars, tableVars>>

\* "Now revive finalize-when-unreachable objects reachable from other
\* finalizable objects": they go back to the table.
Revive ==
  /\ phase = "revive" /\ at <= Len(GC_finalize_now)
  /\ LET e == GC_finalize_now[at]
     IN  \/ /\ e.proc # "unreachable"
            /\ at' = at + 1 /\ UNCHANGED <<marks, fo_head, GC_finalize_now>>
         \/ /\ e.proc = "unreachable" /\ e.obj \notin marks
            /\ marks' = marks \cup {e.obj}
            /\ at' = at + 1 /\ UNCHANGED <<fo_head, GC_finalize_now>>
         \/ /\ e.proc = "unreachable" /\ e.obj \in marks
            /\ GC_finalize_now' = RemoveAt(GC_finalize_now, at)
            /\ fo_head' = [fo_head EXCEPT ![e.obj] = <<e.proc>> \o @]
            /\ UNCHANGED <<marks, at>>
  /\ UNCHANGED <<program, held, threadVars, cell, phase, todo, allocated, dl_head>>

Revived ==
  /\ phase = "revive" /\ at > Len(GC_finalize_now)
  /\ StartPass("dangling", {})
  /\ UNCHANGED <<program, held, threadVars, cell, heapVars, tableVars>>

\* Mutant: the links are looked at in place of the objects they are in.
RemoveDangling_ByObject ==
  /\ phase = "dangling"
  /\ dl_head' = [l \in Link |-> SelectSeq(dl_head[l], LAMBDA o : o \in marks)]
  /\ StartPass("sweep", {})
  /\ UNCHANGED <<program, held, threadVars, cell, heapVars, fo_head, GC_finalize_now>>

\* "Remove dangling disappearing links."
RemoveDangling ==
  /\ phase = "dangling"
  /\ dl_head' = [l \in Link |-> IF Home[l] \in marks \cup {Nowhere} THEN dl_head[l] ELSE <<>>]
  /\ StartPass("sweep", {})
  /\ UNCHANGED <<program, held, threadVars, cell, heapVars, fo_head, GC_finalize_now>>

\* GC_start_reclaim; when a block is swept later, nobody sees it.
Sweep ==
  /\ phase = "sweep"
  /\ allocated' = allocated \cap marks
  /\ phase' = "none" /\ UNCHANGED <<todo, at>>
  /\ UNCHANGED <<program, held, threadVars, cell, marks, tableVars>>

-----------------------------------------------------------------------------
(* GC_invoke_finalizers and GC_finalize_all.  A finalizer is one more      *)
(* activity of the program, which holds the object.                        *)

\* The queue is tested without the lock.
GC_invoke_finalizers(t) ==
  /\ pc[t] = "run" /\ GC_finalize_now # <<>>
  /\ Go(t, "invoke")
  /\ UNCHANGED <<program, held, request, cell, passVars, heapVars, tableVars>>

\* Where the loop ends: back in the program, or in GC_finalize_all.
After(t) == IF pc[t] = "invoke" THEN "run" ELSE "all"

InvokeFirst(t) ==
  /\ pc[t] \in {"invoke", "invoke_all"} /\ Unlocked /\ GC_finalize_now # <<>>
  /\ held' = held \cup {Head(GC_finalize_now).obj}
  /\ GC_finalize_now' = Tail(GC_finalize_now)
  /\ UNCHANGED <<program, threadVars, cell, passVars, heapVars, fo_head, dl_head>>

\* Another thread has taken the last one, between the test and the lock or before.
NoneLeft(t) ==
  /\ pc[t] \in {"invoke", "invoke_all"} /\ GC_finalize_now = <<>>
  /\ Go(t, After(t))
  /\ UNCHANGED <<program, held, request, cell, passVars, heapVars, tableVars>>

GC_finalize_all(t) ==
  /\ program.all /\ pc[t] = "run"
  /\ Go(t, "all")
  /\ UNCHANGED <<program, held, request, cell, passVars, heapVars, tableVars>>

NothingRegistered(t) ==
  /\ pc[t] = "all" /\ Unlocked /\ Registered = {}
  /\ Go(t, "run")
  /\ UNCHANGED <<program, held, request, cell, passVars, heapVars, tableVars>>

GC_enqueue_all_finalizers(t) ==
  /\ pc[t] = "all" /\ Unlocked /\ Registered # {}
  /\ Go(t, "enqueue") /\ StartPass("all", Registered)
  /\ UNCHANGED <<program, held, request, cell, heapVars, tableVars>>

EnqueueAny(o) ==
  /\ phase = "all" /\ o \in todo
  /\ marks' = marks \cup Reach({o})
  /\ Enqueue(o)
  /\ UNCHANGED <<program, held, threadVars, cell, allocated, dl_head>>

AllEnqueued(t) ==
  /\ pc[t] = "enqueue" /\ todo = {}
  /\ Go(t, "invoke_all")
  /\ phase' = "none" /\ UNCHANGED <<todo, at>>
  /\ UNCHANGED <<program, held, request, cell, heapVars, tableVars>>

-----------------------------------------------------------------------------
Program ==
  \/ \E o \in Obj : Drop(o) \/ Load(o)
  \/ \E l \in Link : Reveal(l)

Calls(t) ==
  \/ \E o \in Obj : \/ \E p \in Procs : GC_register_finalizer(t, o, p)
                    \/ GC_unregister_finalizer(t, o)
  \/ \E l \in Link : \/ \E o \in Obj : WriteLink(t, l, o)
                     \/ GC_unregister_disappearing_link(t, l)
  \/ RegisterWithNewEntry(t) \/ RegisterFails(t)
  \/ GC_general_register_disappearing_link(t)
  \/ LinkWithNewEntry(t) \/ LinkFails(t)
  \/ GC_invoke_finalizers(t) \/ InvokeFirst(t) \/ NoneLeft(t)
  \/ GC_finalize_all(t) \/ NothingRegistered(t)
  \/ GC_enqueue_all_finalizers(t) \/ AllEnqueued(t)

Collection ==
  \/ Mark
  \/ \E l \in Link : ClearLink(l)
  \/ LinksCleared
  \/ \E o \in Obj : MarkFromFinalizable(o) \/ EnqueueUnreachable(o) \/ EnqueueAny(o)
  \/ MarkedFromFinalizable \/ Enqueued
  \/ JavaMark \/ JavaMarked \/ Revive \/ Revived
  \/ RemoveDangling \/ Sweep

Next == Program \/ (\E t \in Threads : Calls(t)) \/ Collection

Spec == Init /\ [][Next]_vars

-----------------------------------------------------------------------------
(* Correctness                                                             *)

\* Nothing is freed that the program can still come to: what it reaches
\* from its own pointers and from the queue, what a finalizer is registered
\* for, and what a link it can read discloses.
NothingDangles ==
  /\ Reach(Roots) \subseteq allocated
  /\ Registered \subseteq allocated
  /\ \A l \in Link : Unlocked /\ Home[l] \in allocated \cup {Nowhere}
                       => cell[l] \in allocated \cup {Nowhere}

\* No entry of the link table outlives a collection that frees its object
\* or the object its link lies in: GC_finalize would clear a word of
\* somebody else's object, or of a free list.
LinksValid ==
  Unlocked => \A l \in Linked : /\ ToSet(dl_head[l]) \subseteq allocated
                                /\ Home[l] \in allocated \cup {Nowhere}

\* gc.h: "Fn is never invoked on an accessible object, provided hidden
\* pointers are converted to real pointers only if the allocation lock is
\* held": neither its own pointers, nor a link, nor the finalizer of another
\* object leads the program to an object that waits in the queue.
\* Finalizers without an order are an exception, and what they lead to
\* unless it is to be finalized when unreachable; GC_finalize_all is another.
NeverAccessible ==
  Unlocked /\ ~program.all =>
    \A e \in Queued : \/ e.obj \notin Reach(held)
                      \/ e.proc # "unreachable" /\ \E o \in Obj : "null" \in program.uses[o]

\* A registration never adds a second finalizer to an object, nor a second
\* object to a link, also if another thread registers one while the lock is
\* given up for GC_oom_fn.
RegisteringReplaces ==
  [][Unlocked => /\ \A o \in Registered : Len(fo_head'[o]) <= Len(fo_head[o])
                 /\ \A l \in Linked : Len(dl_head'[l]) <= Len(dl_head[l])]_vars

=============================================================================
