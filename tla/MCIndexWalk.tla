----------------------------- MODULE MCIndexWalk -----------------------------
(* Small instances of IndexWalk for TLC. *)
EXTENDS IndexWalk

InUse(a, sz, r, h) == [at |-> a, sz |-> sz, free |-> FALSE, ranges |-> r, hdr |-> h]
Free(a, sz) == [at |-> a, sz |-> sz, free |-> TRUE, ranges |-> 0, hdr |-> 0]

\* A block of two slots whose header's address is a negative int, above two other
\* blocks of its index; and a second index.
BadHeap == {InUse(0, 1, 1, 1), InUse(1, 1, 1, 2), InUse(2, 2, 1, -5), InUse(4, 1, 1, 3)}

\* Small blocks, one of them with hints, and a free block; a large object across
\* both indices; a second index that holds one block.
MCHeaps ==
  { {InUse(0, 1, 1, 1), InUse(1, 1, 0, -4), InUse(2, 1, 1, 7), InUse(3, 1, 1, 2),
     Free(4, 2), InUse(6, 1, 1, -1)},
    {InUse(0, 1, 1, 1), InUse(1, 5, 1, 3), InUse(6, 2, 1, 2)},
    {InUse(1, 1, 1, -2), Free(2, 4), InUse(6, 1, 1, 1)},
    BadHeap }

MCBadHeaps == {BadHeap}
=============================================================================
