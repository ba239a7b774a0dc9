----------------------- MODULE MCMutexVectorSpscQueue -----------------------
(* MutexVectorSpscQueue with two threads that each call every operation. *)
EXTENDS MutexVectorSpscQueue

CONSTANTS a, b, t1, t2

TwoValues == {a, b}
TwoThreads == {t1, t2}
=============================================================================
