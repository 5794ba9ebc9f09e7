---------------------------- MODULE MCHintFlags ----------------------------
(***************************************************************************)
(* Three threads and two blocks: one thread collects, one waits for the    *)
(* lock, one frees.  Threads and blocks are interchangeable.               *)
(***************************************************************************)
EXTENDS HintFlags, TLC

Symmetry == Permutations(Thread) \cup Permutations(Blocks)

=============================================================================
