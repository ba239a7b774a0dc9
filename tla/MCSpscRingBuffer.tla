-------------------------- MODULE MCSpscRingBuffer --------------------------
(* SpscRingBuffer on a small ring whose indices wrap after two laps. *)
EXTENDS SpscRingBuffer, TLC

CONSTANTS a, b

TwoValues == {a, b}
ValueSymmetry == Permutations(TwoValues)
=============================================================================
