---------------------------- MODULE MCLocalAlloc ----------------------------
(***************************************************************************)
(* Two threads and two blocks of two objects: one thread builds a list or  *)
(* allocates from its own while the other collects or builds as well.      *)
(***************************************************************************)
EXTENDS LocalAlloc
=============================================================================
