---------------------------- MODULE BoundedFifo ----------------------------
(***************************************************************************)
(* What every LoLaKit queue promises its callers: a first-in first-out     *)
(* queue of at most Capacity values whose operations take effect at once.  *)
(* try_push answers TRUE and appends, or answers FALSE and changes         *)
(* nothing; try_pop returns the oldest value, or None and changes nothing. *)
(*                                                                         *)
(* Strict says how much a refusal tells.  A queue behind a mutex (or on a  *)
(* sequentially consistent machine) refuses only when it really is full or *)
(* empty at that moment.  With acquire loads alone a thread may refuse on  *)
(* an index that is already out of date, so Strict is FALSE and a refusal  *)
(* is always allowed.                                                      *)
(***************************************************************************)
EXTENDS Integers, Sequences

CONSTANTS Capacity, Values, None, Strict

VARIABLES
  queue,        \* the values pushed and not yet popped, oldest first
  push_result,  \* what the last try_push returned
  pop_result    \* what the last try_pop returned, None for nothing

fifoVars == <<queue, push_result, pop_result>>

Init ==
  /\ queue = <<>>
  /\ push_result = FALSE
  /\ pop_result = None

Push(v) ==
  /\ Len(queue) < Capacity
  /\ queue' = Append(queue, v)
  /\ push_result' = TRUE
  /\ UNCHANGED pop_result

PushRefused ==
  /\ Strict => Len(queue) = Capacity
  /\ push_result' = FALSE
  /\ UNCHANGED <<queue, pop_result>>

Pop ==
  /\ queue # <<>>
  /\ pop_result' = Head(queue)
  /\ queue' = Tail(queue)
  /\ UNCHANGED push_result

PopRefused ==
  /\ Strict => queue = <<>>
  /\ pop_result' = None
  /\ UNCHANGED <<queue, push_result>>

Clear ==
  /\ queue' = <<>>
  /\ UNCHANGED <<push_result, pop_result>>

Next ==
  \/ \E v \in Values : Push(v)
  \/ PushRefused
  \/ Pop
  \/ PopRefused
  \/ Clear

Spec == Init /\ [][Next]_fifoVars
=============================================================================
