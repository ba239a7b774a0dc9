---------------------- MODULE MCSingleThreadBenchmark ----------------------
(* A batch of a few operations. *)
EXTENDS SingleThreadBenchmark

Numbers == 0 .. Operations - 1
=============================================================================
