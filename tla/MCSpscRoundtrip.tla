-------------------------- MODULE MCSpscRoundtrip --------------------------
(* SpscRoundtrip with a few messages through a ring that wraps. *)
EXTENDS SpscRoundtrip

Messages == 0 .. MessageCount - 1
=============================================================================
