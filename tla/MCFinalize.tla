----------------------------- MODULE MCFinalize -----------------------------
(***************************************************************************)
(* Three objects and one link, a static location or a field.  With Java   *)
(* an unordered object leads to one that must be unreachable; without it   *)
(* there are a chain, and an object that points to itself and into a cycle.*)
(***************************************************************************)
EXTENDS Finalize, TLC

Heap(edges) == [o \in Obj |-> {e[2] : e \in {x \in edges : x[1] = o}}]
Using(a, b, c) == [o \in Obj |-> CASE o = "a" -> a [] o = "b" -> b [] OTHER -> c]
Chain == {<<"a", "b">>, <<"b", "c">>}
In(o) == [l \in Link |-> o]

MCPrograms ==
  {[java |-> TRUE, all |-> FALSE, points |-> Heap(Chain), home |-> In(Nowhere),
    uses |-> Using({"null", "normal"}, {"unreachable"}, {})],
   [java |-> TRUE, all |-> TRUE, points |-> Heap(Chain), home |-> In("c"),
    uses |-> Using({"null"}, {"unreachable"}, {})],
   [java |-> FALSE, all |-> FALSE, points |-> Heap(Chain), home |-> In("a"),
    uses |-> Using({"normal"}, {"normal"}, {})],
   [java |-> FALSE, all |-> TRUE, points |-> Heap(Chain \cup {<<"a", "a">>, <<"c", "b">>}),
    home |-> In(Nowhere), uses |-> Using({"ignore_self"}, {"normal"}, {})]}

Symmetry == Permutations(Threads)
=============================================================================
