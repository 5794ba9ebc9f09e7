----------------------------- MODULE MCHintMark -----------------------------
(***************************************************************************)
(* Small heaps for HintMark.  Two shapes:                                  *)
(*   Mixed  two blocks of two small objects, a large object, an            *)
(*          uncollectable one and two pointer-free ones, with many         *)
(*          combinations of outgoing pointers, and roots that fill the     *)
(*          mark stack of three entries: what an overflow throws away can  *)
(*          overflow the stack again;                                      *)
(*   Large  an uncollectable object bigger than a block.                   *)
(***************************************************************************)
EXTENDS HintMark

MixedObj == 1 .. 8
MixedBlockOf == <<1, 1, 2, 4, 3, 4, 5, 5>>
MixedKind == <<"NORMAL", "NORMAL", "UNCOLLECTABLE", "PTRFREE", "NORMAL">>
MixedHBLK_OBJS == <<2, 0, 1, 2, 2>>
MixedGraphs ==
  {<<a, b, c, {1, 6}, d, {4}, {3, 5}, {}>> :
     a \in {{}, {2, 3, 6}}, b \in {{1}, {4, 6}, {3, 7, 8}},
     c \in {{}, {2, 4}, {1, 6}}, d \in {{}, {2, 3}}}
MixedRootSets == {<<{1}, {3, 6}>>, <<{}, {6}, {1, 2}>>, <<{}>>}
MixedHintSets == {{}, {1, 2}, {1, 2, 4}}

LargeObj == 1 .. 2
LargeBlockOf == <<1, 2>>
LargeKind == <<"UNCOLLECTABLE", "NORMAL">>
LargeHBLK_OBJS == <<0, 1>>
LargeGraphs == {<<{2}, {}>>, <<{}, {1}>>}
LargeRootSets == {<<{}>>, <<{1}>>, <<{2}>>}
LargeHintSets == {{}, {2}}

=============================================================================
