------------------------ MODULE MCFalseSharingBarrier ------------------------
(* Three batches of two increments. *)
EXTENDS FalseSharingBarrier

CONSTANTS first, second

TwoWorkers == {first, second}
=============================================================================
