----------------------------- MODULE BlockAlloc -----------------------------
(***************************************************************************)
(* The heap block allocator, allchblk.c, on the two-level table of block   *)
(* headers, headers.c: first fit over free lists by size, splitting around *)
(* black-listed blocks, dropping blocks that are black-listed altogether,  *)
(* and coalescing on GC_freehblk.  Sizes and addresses are in heap blocks. *)
(*                                                                         *)
(* A search is a sequence of steps, one for each block of a free list that *)
(* it looks at; everything happens under the allocation lock.  Built       *)
(* without USE_MUNMAP and GC_ASSERTIONS; GC_all_interior_pointers is set.  *)
(***************************************************************************)
EXTENDS Integers, FiniteSets, FiniteSetsExt

CONSTANTS
  Sections,              \* memory GC_add_to_heap may be given: <<first block, number of blocks>>
  MAX_JUMP,              \* largest forwarding count
  UNIQUE_THRESHOLD, HUGE_THRESHOLD, FL_COMPRESSION,
  MAX_BLACK_LIST_ALLOC,  \* largest pointer-free block put on black-listed memory
  BL_LIMIT,              \* GC_black_list_spacing
  BlackLists,            \* the sets of blocks a collection may black-list
  Sizes,                 \* sizes that are requested
  Failing                \* where GC_scratch_alloc may fail: see FailurePoints

FailurePoints == {"section", "advance", "drop", "rest", "counts", "map"}

SectionBlocks(s) == s[1] .. s[1] + s[2] - 1
Memory == UNION {SectionBlocks(s) : s \in Sections}
Null == 0                              \* the null pointer, no heap block

ASSUME ConstantsAssumption ==
  /\ Sections \subseteq (Nat \ {0}) \X (Nat \ {0}) /\ IsFiniteSet(Sections) /\ Sections # {}
  /\ \A s, r \in Sections : s # r => SectionBlocks(s) \cap SectionBlocks(r) = {}
  /\ MAX_JUMP \in Nat \ {0}
  /\ UNIQUE_THRESHOLD \in Nat \ {0} /\ FL_COMPRESSION \in Nat \ {0}
  /\ HUGE_THRESHOLD \in Nat /\ HUGE_THRESHOLD > UNIQUE_THRESHOLD
  /\ MAX_BLACK_LIST_ALLOC \in Nat /\ BL_LIMIT \in Nat
  /\ BlackLists \subseteq SUBSET Memory /\ BlackLists # {}
  /\ Sizes \subseteq Nat \ {0} /\ Sizes # {}
  /\ Failing \subseteq FailurePoints

VARIABLES
  heap,                  \* [index, hdr, fl, free_bytes]: the header table, the
                         \* headers, GC_hblkfreelist and GC_free_bytes
  GC_large_free_bytes,
  added,                 \* sections added to the heap
  black,                 \* what GC_is_black_listed looks up
  pc,                    \* progress of GC_allochblk
  req,                   \* what it is asked for
  n, may_split,          \* arguments of GC_allochblk_nth
  split_limit,
  hbp                    \* the block it looks at

search == <<req, n, may_split, split_limit, hbp>>
vars == <<heap, GC_large_free_bytes, added, black, pc, search>>

Addr == 0 .. Max(Memory) + 1
N_HBLK_FLS == (HUGE_THRESHOLD - UNIQUE_THRESHOLD) \div FL_COMPRESSION + UNIQUE_THRESHOLD
Lists == 0 .. N_HBLK_FLS
IsHeader == MAX_JUMP + 1               \* an entry of the table that is a pointer
NoHeader == [sz |-> 0, free |-> FALSE, prev |-> Null, next |-> Null]

GC_hblk_fl_from_blocks(b) ==
  IF b <= UNIQUE_THRESHOLD THEN b
  ELSE IF b >= HUGE_THRESHOLD THEN N_HBLK_FLS
  ELSE (b - UNIQUE_THRESHOLD) \div FL_COMPRESSION + UNIQUE_THRESHOLD

------------------------------------------------------------------------------
(* The header table: f is a value of the variable heap.                    *)

HasHeader(f, a) == f.index[a] = IsHeader
IsFree(f, a) == HasHeader(f, a) /\ f.hdr[a].free
Headers(f) == {a \in Addr : HasHeader(f, a)}

\* GC_install_header, with the size and flags its callers fill in.
GC_install_header(f, a, sz) ==
  [f EXCEPT !.index[a] = IsHeader, !.hdr[a] = [NoHeader EXCEPT !.sz = sz]]

GC_remove_header(f, a) ==
  [f EXCEPT !.index[a] = 0, !.hdr[a] = NoHeader]

Inside(a, sz) == a + 1 .. a + sz - 1

GC_install_counts(f, a, sz) ==
  [f EXCEPT !.index = [x \in Addr |-> IF x \in Inside(a, sz) THEN Min({x - a, MAX_JUMP}) ELSE @[x]]]

\* Mutant: the last count stays.
GC_remove_counts_KeepsLast(f, a, sz) ==
  [f EXCEPT !.index = [x \in Addr |-> IF x \in Inside(a, sz - 1) THEN 0 ELSE @[x]]]

GC_remove_counts(f, a, sz) ==
  [f EXCEPT !.index = [x \in Addr |-> IF x \in Inside(a, sz) THEN 0 ELSE @[x]]]

\* Where the forwarding counts lead from a.
Forwarded(f, a) ==
  LET from[x \in Addr] == IF f.index[x] \in 1 .. MAX_JUMP THEN from[x - f.index[x]] ELSE x
  IN from[a]

GC_prev_block(f, a) ==
  LET before == {b \in Headers(f) : b <= a} IN IF before = {} THEN Null ELSE Max(before)

GC_free_block_ending_at(f, a) ==
  LET p == Forwarded(f, a - 1)
      q == GC_prev_block(f, a - 1)
  IN IF HasHeader(f, p) THEN IF f.hdr[p].free THEN p ELSE Null
     ELSE IF q # Null /\ f.hdr[q].free /\ q + f.hdr[q].sz = a THEN q ELSE Null

------------------------------------------------------------------------------
(* The free lists, doubly linked through the headers.                      *)

\* b follows a on list i, where a null pointer is the list itself or its end.
LinkNext(f, i, a, b) ==
  IF a = Null THEN [f EXCEPT !.fl[i] = b] ELSE [f EXCEPT !.hdr[a].next = b]
LinkPrev(f, a, b) ==
  IF b = Null THEN f ELSE [f EXCEPT !.hdr[b].prev = a]

GC_remove_from_fl(f, h, i) ==
  LET p == f.hdr[h].prev
      q == f.hdr[h].next
  IN LinkPrev([LinkNext(f, i, p, q) EXCEPT !.free_bytes[i] = @ - f.hdr[h].sz], p, q)

ListOf(f, h) == GC_hblk_fl_from_blocks(f.hdr[h].sz)

\* Mutant: the block that was first is not linked back.
GC_add_to_fl_NoBackLink(f, h) ==
  LET i == ListOf(f, h)
  IN [f EXCEPT !.fl[i] = h, !.free_bytes[i] = @ + f.hdr[h].sz,
               !.hdr[h] = [@ EXCEPT !.free = TRUE, !.prev = Null, !.next = f.fl[i]]]

GC_add_to_fl(f, h) ==
  LET i == ListOf(f, h)
      second == f.fl[i]
      linked == [f EXCEPT !.fl[i] = h, !.free_bytes[i] = @ + f.hdr[h].sz,
                          !.hdr[h] = [@ EXCEPT !.free = TRUE, !.prev = Null, !.next = second]]
  IN LinkPrev(linked, h, second)

\* The first sz blocks of h, on list i, come off the lists.  If the rest gets no
\* header the whole of h does.
GC_get_first_part(f, h, sz, i, rest_fails) ==
  LET total == f.hdr[h].sz
      removed == GC_remove_from_fl(f, h, i)
  IN IF total = sz \/ rest_fails THEN removed
     ELSE GC_add_to_fl(GC_install_header(removed, h + sz, total - sz), h + sz)

\* m, inside the free block h on list i, becomes a block of its own.  It takes
\* the place of h on list i, whatever its size.
GC_split_block(f, h, m, i) ==
  LET p == f.hdr[h].prev
      q == f.hdr[h].next
      headed == [GC_install_header(f, m, f.hdr[h].sz - (m - h))
                   EXCEPT !.hdr[m].prev = p, !.hdr[m].next = q, !.hdr[m].free = TRUE,
                          !.free_bytes[i] = @ - (m - h), !.hdr[h].sz = m - h]
  IN GC_add_to_fl(LinkPrev(LinkNext(headed, i, p, m), m, q), h)

\* setup_header and GC_install_counts: h is a block in use.
InUse(f, h, sz) ==
  GC_install_counts(GC_install_header(f, h, sz), h, sz)

------------------------------------------------------------------------------
TypeOK ==
  /\ heap \in [index : [Addr -> 0 .. IsHeader],
               hdr : [Addr -> [sz : Nat, free : BOOLEAN, prev : Addr, next : Addr]],
               fl : [Lists -> Addr], free_bytes : [Lists -> Nat]]
  /\ GC_large_free_bytes \in Nat /\ added \subseteq Sections /\ black \in BlackLists
  /\ pc \in {"idle", "search", "failed"}
  /\ req \in [blocks : Sizes, checked : BOOLEAN, ignore_off_page : BOOLEAN]
  /\ n \in Lists /\ may_split \in BOOLEAN /\ split_limit \in Lists /\ hbp \in Addr

NoRequest == [blocks |-> Min(Sizes), checked |-> FALSE, ignore_off_page |-> FALSE]

Init ==
  /\ heap = [index |-> [a \in Addr |-> 0], hdr |-> [a \in Addr |-> NoHeader],
             fl |-> [i \in Lists |-> Null], free_bytes |-> [i \in Lists |-> 0]]
  /\ GC_large_free_bytes = 0 /\ added = {} /\ black \in BlackLists
  /\ pc = "idle" /\ req = NoRequest
  /\ n = 0 /\ may_split = FALSE /\ split_limit = 0 /\ hbp = Null

\* The search is over.
Finish ==
  /\ pc' = "idle" /\ req' = NoRequest
  /\ n' = 0 /\ may_split' = FALSE /\ split_limit' = 0 /\ hbp' = Null

------------------------------------------------------------------------------
(* Freeing.                                                                *)

\* Mutant: the successor is not merged.
Freed_NoSuccessor(f, h) ==
  LET sz == f.hdr[h].sz
      prev == GC_free_block_ending_at(f, h)
      bare == [GC_remove_counts(f, h, sz) EXCEPT !.hdr[h].free = TRUE]
      grown == [GC_remove_from_fl(bare, prev, ListOf(bare, prev))
                  EXCEPT !.hdr[prev].sz = @ + bare.hdr[h].sz]
  IN IF prev = Null THEN GC_add_to_fl(bare, h)
     ELSE GC_add_to_fl(GC_remove_header(grown, h), prev)

\* What GC_freehblk makes of the heap.
Freed(f, h) ==
  LET sz == f.hdr[h].sz
      next == h + sz
      prev == GC_free_block_ending_at(f, h)
      bare == [GC_remove_counts(f, h, sz) EXCEPT !.hdr[h].free = TRUE]
      merged == IF IsFree(bare, next)
                THEN GC_remove_header([GC_remove_from_fl(bare, next, ListOf(bare, next))
                                         EXCEPT !.hdr[h].sz = @ + bare.hdr[next].sz], next)
                ELSE bare
      grown == [GC_remove_from_fl(merged, prev, ListOf(merged, prev))
                  EXCEPT !.hdr[prev].sz = @ + merged.hdr[h].sz]
  IN IF prev = Null THEN GC_add_to_fl(merged, h)
     ELSE GC_add_to_fl(GC_remove_header(grown, h), prev)

\* Mutant: the free bytes are not counted.
GC_freehblk_Uncounted(h) ==
  /\ pc = "idle"
  /\ HasHeader(heap, h) /\ ~heap.hdr[h].free
  /\ heap' = Freed(heap, h)
  /\ UNCHANGED <<GC_large_free_bytes, added, black, pc, search>>

GC_freehblk(h) ==
  /\ pc = "idle"
  /\ HasHeader(heap, h) /\ ~heap.hdr[h].free
  /\ heap' = Freed(heap, h)
  /\ GC_large_free_bytes' = GC_large_free_bytes + heap.hdr[h].sz
  /\ UNCHANGED <<added, black, pc, search>>

\* GC_add_to_heap: a section without a header for its first block is lost.
GC_add_to_heap(s) ==
  /\ pc = "idle" /\ s \in Sections \ added
  /\ added' = added \cup {s}
  /\ \/ /\ heap' = Freed(GC_install_header(heap, s[1], s[2]), s[1])
        /\ GC_large_free_bytes' = GC_large_free_bytes + s[2]
     \/ /\ "section" \in Failing
        /\ UNCHANGED <<heap, GC_large_free_bytes>>
  /\ UNCHANGED <<black, pc, search>>

\* A collection promotes the black lists.
GC_promote_black_lists ==
  /\ pc = "idle"
  /\ black' \in BlackLists
  /\ UNCHANGED <<heap, GC_large_free_bytes, added, pc, search>>

------------------------------------------------------------------------------
(* Searching.                                                              *)

\* Uncollectable objects and small pointer-free ones may be black-listed.
GC_allochblk(sz, kind, iop) ==
  /\ pc = "idle"
  /\ req' = [blocks |-> sz, ignore_off_page |-> iop,
             checked |-> \/ kind = "normal"
                         \/ kind = "ptrfree" /\ sz > MAX_BLACK_LIST_ALLOC]
  /\ n' = GC_hblk_fl_from_blocks(sz) /\ may_split' = FALSE /\ split_limit' = 0
  /\ hbp' = heap.fl[n']
  /\ pc' = "search"
  /\ UNCHANGED <<heap, GC_large_free_bytes, added, black>>

\* The end of a list.  How far to split is decided by the state of the heap and
\* of the collector after the exact match has failed: any limit is possible.
NextList ==
  /\ pc = "search" /\ hbp = Null
  /\ LET start == GC_hblk_fl_from_blocks(req.blocks)
         following == IF may_split THEN n + 1
                      ELSE IF start < UNIQUE_THRESHOLD THEN start + 1 ELSE start
     IN /\ split_limit' \in IF may_split THEN {split_limit} ELSE Lists
        /\ may_split' = TRUE
        /\ IF following <= split_limit'
           THEN n' = following /\ hbp' = heap.fl[n'] /\ UNCHANGED pc
           ELSE pc' = "failed" /\ UNCHANGED <<n, hbp>>
  /\ UNCHANGED <<heap, GC_large_free_bytes, added, black, req>>

\* GC_allochblk returns 0, and its caller collects or expands the heap.
ReturnFailure ==
  /\ pc = "failed"
  /\ Finish
  /\ UNCHANGED <<heap, GC_large_free_bytes, added, black>>

IsBlackListed(a, sz) == \E x \in a .. a + sz - 1 : x \in black

\* Places in the block h for the request that are not black-listed.
ClearPlaces(h) ==
  {a \in h .. h + heap.hdr[h].sz - req.blocks :
     ~IsBlackListed(a, IF req.ignore_off_page THEN 1 ELSE req.blocks)}

\* Mutant: the black list is not asked about the next block.
NextIsBetter_Unlisted(h) ==
  LET next == heap.hdr[h].next
  IN /\ next # Null
     /\ heap.hdr[next].sz < heap.hdr[h].sz /\ heap.hdr[next].sz >= req.blocks

\* The next block of the list is obviously better.
NextIsBetter(h) ==
  LET next == heap.hdr[h].next
  IN /\ next # Null
     /\ heap.hdr[next].sz < heap.hdr[h].sz /\ heap.hdr[next].sz >= req.blocks
     /\ ~IsBlackListed(next, req.blocks)

Fits(h) ==
  \/ heap.hdr[h].sz = req.blocks
  \/ heap.hdr[h].sz > req.blocks /\ may_split /\ ~NextIsBetter(h)

\* A very large request in a much larger block takes black-listed memory.
Punt(h) == req.blocks > BL_LIMIT /\ heap.hdr[h].sz - req.blocks > BL_LIMIT

\* A block that is black-listed altogether.
Hopeless(h) == req.checked /\ ClearPlaces(h) = {} /\ ~Punt(h)

Looking == pc = "search" /\ hbp # Null

Skip ==
  /\ Looking
  /\ ~Fits(hbp) \/ Hopeless(hbp)
  /\ hbp' = heap.hdr[hbp].next
  /\ UNCHANGED <<heap, GC_large_free_bytes, added, black, pc, req, n, may_split, split_limit>>

\* Mutant: the list is searched again though nothing was dropped.
Drop_Keeps ==
  /\ Looking /\ Fits(hbp) /\ Hopeless(hbp) /\ req.blocks = 1
  /\ hbp' = heap.fl[n]
  /\ UNCHANGED <<heap, GC_large_free_bytes, added, black, pc, req, n, may_split, split_limit>>

\* Every fourth time a block is found hopeless for a request of one block it is
\* given up as pointer-free objects of a block each; the search goes on from the
\* block before it, or from the start of the list.
Drop ==
  /\ Looking /\ Fits(hbp) /\ Hopeless(hbp) /\ req.blocks = 1
  /\ \E lost \in SUBSET Inside(hbp, heap.hdr[hbp].sz) :
       /\ lost # {} => "drop" \in Failing
       /\ LET last == hbp + heap.hdr[hbp].sz - 1
              prev == heap.hdr[hbp].prev
              removed == GC_remove_from_fl(heap, hbp, n)
              kept == (hbp .. last) \ lost
              dropped == [removed EXCEPT
                            !.index = [a \in Addr |-> IF a \in kept THEN IsHeader ELSE @[a]],
                            !.hdr = [a \in Addr |-> IF a \in kept THEN [NoHeader EXCEPT !.sz = 1]
                                                    ELSE @[a]]]
          IN /\ heap' = dropped
             /\ GC_large_free_bytes' = GC_large_free_bytes - heap.hdr[hbp].sz
             /\ hbp' = IF prev = Null THEN dropped.fl[n] ELSE dropped.hdr[prev].next
  /\ UNCHANGED <<added, black, pc, req, n, may_split, split_limit>>

\* The block at h, on list n of f, is handed out.
HandOut(f, h) ==
  /\ Finish
  /\ heap' = InUse(GC_get_first_part(f, h, req.blocks, n, FALSE), h, req.blocks)
  /\ GC_large_free_bytes' = GC_large_free_bytes - req.blocks

\* A header or an index is missing: the block leaks, and the search goes on with
\* the next list.
Leak(f, h) ==
  LET first == GC_get_first_part(f, h, req.blocks, n, FALSE)
  IN /\ heap' \in
          {GC_get_first_part(f, h, req.blocks, n, TRUE) :
             x \in Failing \cap (IF f.hdr[h].sz > req.blocks THEN {"rest"} ELSE {})}
          \cup {first : x \in Failing \cap {"counts"}}
          \cup {InUse(first, h, 1) : x \in Failing \cap {"map"}}
     /\ hbp' = Null
     /\ UNCHANGED <<GC_large_free_bytes, pc, req, n, may_split, split_limit>>

Allocate(f, h) ==
  /\ HandOut(f, h) \/ Leak(f, h)
  /\ UNCHANGED <<added, black>>

\* The block is taken from its start: it is not checked, or clear there, or it is
\* taken all the same.
TakeFirst ==
  /\ Looking /\ Fits(hbp) /\ ~Hopeless(hbp)
  /\ \/ ~req.checked
     \/ ClearPlaces(hbp) = {}
     \/ hbp \in ClearPlaces(hbp)
     \/ "advance" \in Failing
  /\ Allocate(heap, hbp)

\* The block is split at the first clear place.
TakeAdvanced ==
  /\ Looking /\ Fits(hbp) /\ req.checked
  /\ ClearPlaces(hbp) # {} /\ hbp \notin ClearPlaces(hbp)
  /\ LET place == Min(ClearPlaces(hbp))
     IN Allocate(GC_split_block(heap, hbp, place, n), place)

------------------------------------------------------------------------------
Search == NextList \/ Skip \/ Drop \/ TakeFirst \/ TakeAdvanced \/ ReturnFailure

Next ==
  \/ \E h \in Memory : GC_freehblk(h)
  \/ \E s \in Sections : GC_add_to_heap(s)
  \/ GC_promote_black_lists
  \/ \E sz \in Sizes, kind \in {"normal", "ptrfree", "uncollectable"}, iop \in BOOLEAN :
       GC_allochblk(sz, kind, iop)
  \/ Search

Spec == Init /\ [][Next]_vars

\* GC_allochblk is a plain call: it runs on until it returns.
FairSpec == Spec /\ WF_vars(Search)

------------------------------------------------------------------------------
(* Properties.                                                             *)

BlocksOf(f, h) == h .. h + f.hdr[h].sz - 1

\* The headers describe disjoint blocks of the heap: inside one there is no
\* other header, from every place in a block in use the forwarding counts lead
\* to its header, and elsewhere there are none.
HeadersDescribeBlocks ==
  /\ \A h \in Headers(heap) :
       /\ heap.hdr[h].sz > 0 /\ BlocksOf(heap, h) \subseteq UNION {SectionBlocks(s) : s \in added}
       /\ \A a \in BlocksOf(heap, h) \ {h} :
            IF heap.hdr[h].free THEN heap.index[a] = 0
            ELSE heap.index[a] \in 1 .. MAX_JUMP /\ Forwarded(heap, a) = h
  /\ \A a \in Addr \ UNION {BlocksOf(heap, h) : h \in Headers(heap)} : heap.index[a] = 0

\* The blocks that can be reached on list i within k steps.
OnList(i) ==
  LET reach[k \in 0 .. Cardinality(Memory)] ==
        IF k = 0 THEN {heap.fl[i]} ELSE reach[k - 1] \cup {heap.hdr[b].next : b \in reach[k - 1]}
  IN reach[Cardinality(Memory)] \ {Null}

\* Each free block is on the list for its size, linked both ways, nothing else
\* is on any list, and the byte counts are those of the lists.
FreeListsConsistent ==
  /\ \A i \in Lists :
       /\ OnList(i) = {h \in Headers(heap) : heap.hdr[h].free /\ ListOf(heap, h) = i}
       /\ heap.free_bytes[i] = SumFunctionOnSet([h \in Addr |-> heap.hdr[h].sz], OnList(i))
       /\ \A h \in OnList(i) :
            /\ heap.hdr[h].prev = Null <=> heap.fl[i] = h
            /\ heap.hdr[h].next # Null => heap.hdr[heap.hdr[h].next].prev = h
  /\ GC_large_free_bytes = SumFunction(heap.free_bytes)

\* Adjacent free blocks are coalesced, as GC_add_to_fl asserts.
NoAdjacentFree ==
  \A h \in Headers(heap) : heap.hdr[h].free => ~IsFree(heap, h + heap.hdr[h].sz)

\* A request that may split any block fails only if no free block has room for
\* it outside the black list.
FailsOnlyWhenFull ==
  pc = "failed" /\ split_limit = N_HBLK_FLS =>
    \A h \in Headers(heap) : heap.hdr[h].free /\ heap.hdr[h].sz >= req.blocks => Hopeless(h)

\* The search ends, though it starts again after it has dropped a block.
AllocationReturns ==
  pc = "search" ~> pc = "idle"
=============================================================================
