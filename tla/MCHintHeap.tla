----------------------------- MODULE MCHintHeap -----------------------------
(***************************************************************************)
(* Small heaps; blocks are interchangeable, and so are the objects of a    *)
(* block.                                                                  *)
(***************************************************************************)
EXTENDS HintHeap, TLC

BothKinds == {"NORMAL", "UNCOLLECTABLE"}

Symmetry == Permutations(Blocks) \cup Permutations(Index)

=============================================================================
