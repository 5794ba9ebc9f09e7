--------------------------- MODULE MCParallelMark ---------------------------
(***************************************************************************)
(* "a" leads to three or four others, so that a marker that scans it has   *)
(* something to share or to return.  In Fan two of them lead to "e", so    *)
(* that two markers may find "e" unmarked at once; in Broad the four do    *)
(* not fit on the global stack, and what is dropped with "b" loses "f".    *)
(* The roots push "a", or "c" below it.                                    *)
(***************************************************************************)
EXTENDS ParallelMark

Heap(edges) == [o \in Obj |-> {e[2] : e \in {x \in edges : x[1] = o}}]

MCObj == {"a", "b", "c", "d", "e", "f"}
Fan == Heap({<<"a", "b">>, <<"a", "c">>, <<"a", "d">>, <<"b", "e">>, <<"c", "e">>})
Broad == Heap({<<"a", "b">>, <<"a", "c">>, <<"a", "d">>, <<"a", "e">>, <<"b", "f">>})
MCGraphs == {Fan, Broad}
MCSeeds == {<<"a">>, <<"c", "a">>}

\* A heavy object ends the stealing that took it.
MCWeight == [o \in Obj |-> IF o = "c" THEN 2 ELSE 0]

=============================================================================
