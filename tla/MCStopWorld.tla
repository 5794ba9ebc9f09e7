---------------------------- MODULE MCStopWorld ----------------------------
(* Small instances of StopWorld for TLC. *)
EXTENDS StopWorld, TLC

CONSTANTS t1, t2, t3

ThreeThreads == {t1, t2, t3}
=============================================================================
