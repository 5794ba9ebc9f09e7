---------------------------- MODULE MCBlockAlloc ----------------------------
(* Small instances of BlockAlloc for TLC. *)
EXTENDS BlockAlloc, TLC

\* Two sections that touch, and one behind a gap.
MCSections == {<<1, 2>>, <<3, 2>>, <<6, 2>>}
MCBlackLists == {{1, 2, 6, 7}, {3}}
=============================================================================
