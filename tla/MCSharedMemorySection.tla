------------------------ MODULE MCSharedMemorySection ------------------------
(***************************************************************************)
(* A process with two queues and one with a single queue of the same type, *)
(* and one with a larger queue.                                            *)
(***************************************************************************)
EXTENDS SharedMemorySection

CONSTANTS a1, a2, b, c, p1, p2, p3, small, large

FourQueues == {a1, a2, b, c}
Owners == [q \in FourQueues |-> CASE q = b -> p2 [] q = c -> p3 [] OTHER -> p1]
TwoLayouts == [q \in FourQueues |-> IF q = c THEN large ELSE small]
Sizes == [l \in {small, large} |-> IF l = large THEN 2 ELSE 1]
=============================================================================
