------------------------------ MODULE RingIndex ------------------------------
(***************************************************************************)
(* The arithmetic of the indices of every LoLaKit ring: unsigned words     *)
(* that only ever grow by one, wrap, and are masked to reach a slot.       *)
(*                                                                         *)
(* A word counts modulo Laps * Capacity.  In the code that is 2^64 and     *)
(* Capacity is a power of two of at least 2 (the static_asserts), so the   *)
(* capacity divides the word and at least two laps fit: that is all the    *)
(* models and the proofs use.                                              *)
(***************************************************************************)
EXTENDS Integers

CONSTANTS
  Capacity,    \* slots of the ring
  Laps         \* times the ring goes round before an index wraps to 0

ASSUME CapacityAssumption == Capacity \in Nat /\ Capacity >= 2
ASSUME LapsAssumption == Laps \in Nat /\ Laps >= 2

WordSize == Laps * Capacity

Word == 0 .. WordSize - 1

SlotIds == 0 .. Capacity - 1

\* Mutant: an index too wide to wrap with the word.
IncUnwrapped(x) == x + 1

Inc(x) == IF x = WordSize - 1 THEN 0 ELSE x + 1

\* The unsigned difference a - b.
Sub(a, b) == IF b <= a THEN a - b ELSE (a + WordSize) - b

\* Mutant: a mask one too small.
ShortSlot(x) == x % (Capacity - 1)

\* index & kIndexMask
Slot(x) == x % Capacity

\* The index k places further on, at most once round the word.
Ahead(x, k) == IF x + k < WordSize THEN x + k ELSE x + k - WordSize
=============================================================================
