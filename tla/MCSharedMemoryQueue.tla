------------------------- MODULE MCSharedMemoryQueue -------------------------
(* A message of one byte and one of two. *)
EXTENDS SharedMemoryQueue

CONSTANTS short, long

TwoMessages == {short, long}
Sizes == [m \in TwoMessages |-> IF m = long THEN 2 ELSE 1]
=============================================================================
