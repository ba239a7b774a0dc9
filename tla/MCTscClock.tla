----------------------------- MODULE MCTscClock -----------------------------
(* Two threads; a window that is not positive and one that is. *)
EXTENDS TscClock

CONSTANTS t1, t2

TwoThreads == {t1, t2}
SomeWindows == {0, 2}
=============================================================================
