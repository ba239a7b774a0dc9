-------------------------- MODULE SharedMemoryQueue --------------------------
(***************************************************************************)
(* The data path of SharedMemorySpscQueue (shared_memory_queue.hpp, the    *)
(* Windows branch): a producer process and a consumer process push and pop *)
(* messages of varying size through one section, open and close it at any  *)
(* time, and may die in the middle of an operation.                        *)
(*                                                                         *)
(* How a section comes to be ready is SharedMemorySection; here opening is *)
(* one step.  The indices and the slots live in the section and go when    *)
(* nobody has it open; the two cached indices live in the queue objects    *)
(* and start at 0 with every open.  So a side may come back to a section   *)
(* only while 0 is an index it could have cached; Reattach holds the sides *)
(* that come back at any time.                                             *)
(***************************************************************************)
EXTENDS RingIndex, Sequences

CONSTANTS
  Messages,     \* what callers push
  SizeOf,       \* SizeOf[m]: the bytes of a message
  PayloadSize,  \* the bytes of a slot
  None,         \* no message
  Torn,         \* bytes of different messages
  Reattach,     \* the sides that open a section whatever its indices
  StaleReads    \* an acquire load may lag behind the current value

ASSUME PayloadSizeAssumption == PayloadSize \in Nat /\ PayloadSize > 0
ASSUME SizesAssumption == SizeOf \in [Messages -> 1 .. PayloadSize]
ASSUME NoneAssumption == {None, Torn} \cap Messages = {}

VARIABLES
  producer_index, consumer_index, slots,   \* in the section
  producer_open, producer_cached_consumer_,
  producer_pc, data, push_result,
  consumer_open, consumer_cached_producer_,
  consumer_pc, out_capacity, typed, out, pop_result,
  reported                                 \* the size the last refused pop gave

sectionVars == <<producer_index, consumer_index, slots>>
producerVars == <<producer_open, producer_cached_consumer_, producer_pc, data,
                  push_result>>
consumerVars == <<consumer_open, consumer_cached_producer_, consumer_pc,
                  out_capacity, typed, out, pop_result, reported>>
vars == <<sectionVars, producerVars, consumerVars>>

EmptySlot == [size |-> 0, payload |-> None]

Init ==
  /\ producer_index = 0
  /\ consumer_index = 0
  /\ slots = [s \in SlotIds |-> EmptySlot]
  /\ producer_open = FALSE
  /\ producer_cached_consumer_ = 0
  /\ producer_pc = "idle"
  /\ data = None
  /\ push_result = FALSE
  /\ consumer_open = FALSE
  /\ consumer_cached_producer_ = 0
  /\ consumer_pc = "idle"
  /\ out_capacity = 0
  /\ typed = FALSE
  /\ out = None
  /\ pop_result = None
  /\ reported = 0

-----------------------------------------------------------------------------
(* Opening and closing *)

\* A cached consumer index of 0 is between the consumer's and the producer's, and
\* no further behind the producer than a full queue ...
ProducerStartsAtZero ==
  /\ Sub(producer_index, 0) <= Capacity
  /\ Sub(consumer_index, 0) <= Sub(producer_index, 0)

\* ... and so is a cached producer index of 0.
ConsumerStartsAtZero ==
  Sub(0, consumer_index) <= Sub(producer_index, consumer_index)

\* open and attach forget what the object had cached.
ProducerOpens ==
  /\ ~producer_open
  /\ "producer" \in Reattach \/ ProducerStartsAtZero
  /\ producer_open' = TRUE
  /\ producer_cached_consumer_' = 0
  /\ UNCHANGED <<sectionVars, producer_pc, data, push_result, consumerVars>>

ConsumerOpens ==
  /\ ~consumer_open
  /\ "consumer" \in Reattach \/ ConsumerStartsAtZero
  /\ consumer_open' = TRUE
  /\ consumer_cached_producer_' = 0
  /\ UNCHANGED <<sectionVars, consumer_pc, out_capacity, typed, out, pop_result,
                 reported, producerVars>>

\* The section lives on while somebody has it open; the next open of the name
\* gets a new one.
Leave(inUse) ==
  IF inUse
  THEN UNCHANGED sectionVars
  ELSE /\ producer_index' = 0
       /\ consumer_index' = 0
       /\ slots' = [s \in SlotIds |-> EmptySlot]

\* close(), the destructor, or the death of the process at any point of a push.
ProducerCloses ==
  /\ producer_open
  /\ producer_open' = FALSE
  /\ producer_cached_consumer_' = 0
  /\ producer_pc' = "idle"
  /\ data' = None
  /\ Leave(consumer_open)
  /\ UNCHANGED <<push_result, consumerVars>>

ConsumerCloses ==
  /\ consumer_open
  /\ consumer_open' = FALSE
  /\ consumer_cached_producer_' = 0
  /\ consumer_pc' = "idle"
  /\ out_capacity' = 0
  /\ typed' = FALSE
  /\ out' = None
  /\ reported' = 0
  /\ Leave(producer_open)
  /\ UNCHANGED <<pop_result, producerVars>>

-----------------------------------------------------------------------------
(* try_push and full *)

\* What an acquire load may return to a side that has cached an older value.
Visible(cached, current) ==
  IF StaleReads
  THEN {x \in Word : Sub(x, cached) <= Sub(current, cached)}
  ELSE {current}

\* Mutant: the comparison lets one message too many in.
CacheSaysOverfull == Sub(producer_index, producer_cached_consumer_) > Capacity

CacheSaysFull == Sub(producer_index, producer_cached_consumer_) = Capacity

\* No data, a size of 0, one beyond a slot, or a queue that is not open: try_push
\* returns false at once.
PushRejected ==
  /\ producer_pc = "idle"
  /\ push_result' = FALSE
  /\ UNCHANGED <<sectionVars, producer_open, producer_cached_consumer_,
                 producer_pc, data, consumerVars>>

\* try_push of a message that fits a slot; try_push<T> is one of sizeof(T) bytes.
PushCall(m) ==
  /\ producer_open
  /\ producer_pc = "idle"
  /\ data' = m
  /\ producer_pc' = IF CacheSaysFull THEN "refresh" ELSE "copy"
  /\ UNCHANGED <<sectionVars, producer_open, producer_cached_consumer_,
                 push_result, consumerVars>>

PushFull ==
  /\ producer_pc = "refresh"
  /\ producer_cached_consumer_' \in
       Visible(producer_cached_consumer_, consumer_index)
  /\ Sub(producer_index, producer_cached_consumer_') = Capacity
  /\ producer_pc' = "idle"
  /\ data' = None
  /\ push_result' = FALSE
  /\ UNCHANGED <<sectionVars, producer_open, consumerVars>>

PushRefresh ==
  /\ producer_pc = "refresh"
  /\ producer_cached_consumer_' \in
       Visible(producer_cached_consumer_, consumer_index)
  /\ Sub(producer_index, producer_cached_consumer_') # Capacity
  /\ producer_pc' = "copy"
  /\ UNCHANGED <<sectionVars, producer_open, data, push_result, consumerVars>>

\* The memcpy into the slot: its size is still that of an older message.
CopyIn ==
  /\ producer_pc = "copy"
  /\ slots' = [slots EXCEPT ![Slot(producer_index)].payload = data]
  /\ producer_pc' = "size"
  /\ UNCHANGED <<producer_index, consumer_index, producer_open,
                 producer_cached_consumer_, data, push_result, consumerVars>>

\* Mutant: the slot is handed over before its size is there.
StoreNoSize ==
  /\ producer_pc = "size"
  /\ producer_pc' = "publish"
  /\ UNCHANGED <<sectionVars, producer_open, producer_cached_consumer_, data,
                 push_result, consumerVars>>

StoreSize ==
  /\ producer_pc = "size"
  /\ slots' = [slots EXCEPT ![Slot(producer_index)].size = SizeOf[data]]
  /\ producer_pc' = "publish"
  /\ UNCHANGED <<producer_index, consumer_index, producer_open,
                 producer_cached_consumer_, data, push_result, consumerVars>>

\* The release store, and return true.
PublishPush ==
  /\ producer_pc = "publish"
  /\ producer_index' = Inc(producer_index)
  /\ producer_pc' = "idle"
  /\ data' = None
  /\ push_result' = TRUE
  /\ UNCHANGED <<consumer_index, slots, producer_open,
                 producer_cached_consumer_, consumerVars>>

\* full() loads into the cache when the cache says full.
Full ==
  /\ producer_open
  /\ producer_pc = "idle"
  /\ CacheSaysFull
  /\ producer_cached_consumer_' \in
       Visible(producer_cached_consumer_, consumer_index)
  /\ UNCHANGED <<sectionVars, producer_open, producer_pc, data, push_result,
                 consumerVars>>

\* What size() may return to either side; empty() is whether it is 0.
ProducerSizes ==
  {Sub(producer_index, c) : c \in Visible(producer_cached_consumer_, consumer_index)}

ConsumerSizes ==
  {Sub(p, consumer_index) : p \in Visible(consumer_cached_producer_, producer_index)}

-----------------------------------------------------------------------------
(* try_pop *)

\* No buffer, or a queue that is not open: try_pop returns false at once.
PopRejected ==
  /\ consumer_pc = "idle"
  /\ pop_result' = None
  /\ reported' = 0
  /\ UNCHANGED <<sectionVars, consumer_open, consumer_cached_producer_,
                 consumer_pc, out_capacity, typed, out, producerVars>>

\* try_pop into a buffer of n bytes, which may be none, or try_pop<T> into a T of
\* that size.
PopCall(n, isTyped) ==
  /\ consumer_open
  /\ isTyped => n > 0
  /\ consumer_pc = "idle"
  /\ out_capacity' = n
  /\ typed' = isTyped
  /\ reported' = 0
  /\ consumer_pc' = IF consumer_index = consumer_cached_producer_
                    THEN "refresh" ELSE "check"
  /\ UNCHANGED <<sectionVars, consumer_open, consumer_cached_producer_, out,
                 pop_result, producerVars>>

\* What try_pop leaves behind when it returns false; size is its out parameter.
PopReturnsFalse(size) ==
  /\ consumer_pc' = "idle"
  /\ out_capacity' = 0
  /\ typed' = FALSE
  /\ reported' = size
  /\ UNCHANGED <<sectionVars, consumer_open, out, producerVars>>

PopEmpty ==
  /\ consumer_pc = "refresh"
  /\ consumer_cached_producer_' \in
       Visible(consumer_cached_producer_, producer_index)
  /\ consumer_cached_producer_' = consumer_index
  /\ pop_result' = None
  /\ PopReturnsFalse(0)

PopRefresh ==
  /\ consumer_pc = "refresh"
  /\ consumer_cached_producer_' \in
       Visible(consumer_cached_producer_, producer_index)
  /\ consumer_cached_producer_' # consumer_index
  /\ consumer_pc' = "check"
  /\ UNCHANGED <<sectionVars, consumer_open, out_capacity, typed, out,
                 pop_result, reported, producerVars>>

OldestSlot == slots[Slot(consumer_index)]

\* The message does not fit the buffer: it stays, and its size is reported to
\* all but the callers of try_pop<T>.
PopTooSmall ==
  /\ consumer_pc = "check"
  /\ out_capacity < OldestSlot.size
  /\ pop_result' = None
  /\ PopReturnsFalse(IF typed THEN 0 ELSE OldestSlot.size)
  /\ UNCHANGED consumer_cached_producer_

\* The bytes memcpy finds in a slot.
Bytes(slot) ==
  IF slot.payload \in Messages /\ SizeOf[slot.payload] = slot.size
  THEN slot.payload ELSE Torn

\* Mutant: the buffer is not measured.
CopyOutUnchecked ==
  /\ consumer_pc = "check"
  /\ out' = Bytes([OldestSlot EXCEPT !.size = out_capacity])
  /\ consumer_pc' = "publish"
  /\ UNCHANGED <<sectionVars, consumer_open, consumer_cached_producer_,
                 out_capacity, typed, pop_result, reported, producerVars>>

\* The memcpy out of the slot.
CopyOut ==
  /\ consumer_pc = "check"
  /\ out_capacity >= OldestSlot.size
  /\ out' = Bytes(OldestSlot)
  /\ consumer_pc' = "publish"
  /\ UNCHANGED <<sectionVars, consumer_open, consumer_cached_producer_,
                 out_capacity, typed, pop_result, reported, producerVars>>

\* try_pop<T> finds a size that is not that of a T.
WrongSize == typed /\ OldestSlot.size # out_capacity

\* true and the message, or the false of try_pop<T> although it has consumed one.
Answer == IF WrongSize THEN None ELSE out

\* The release store, and return.
PublishPop ==
  /\ consumer_pc = "publish"
  /\ consumer_index' = Inc(consumer_index)
  /\ consumer_pc' = "idle"
  /\ pop_result' = Answer
  /\ out' = None
  /\ out_capacity' = 0
  /\ typed' = FALSE
  /\ UNCHANGED <<producer_index, slots, consumer_open,
                 consumer_cached_producer_, reported, producerVars>>

-----------------------------------------------------------------------------
Push == PushFull \/ PushRefresh \/ CopyIn \/ StoreSize \/ PublishPush

Pop == PopEmpty \/ PopRefresh \/ PopTooSmall \/ CopyOut \/ PublishPop

Next ==
  \/ ProducerOpens
  \/ ProducerCloses
  \/ PushRejected
  \/ \E m \in Messages : PushCall(m)
  \/ Push
  \/ Full
  \/ ConsumerOpens
  \/ ConsumerCloses
  \/ PopRejected
  \/ \E n \in 0 .. PayloadSize, isTyped \in BOOLEAN : PopCall(n, isTyped)
  \/ Pop

Spec == Init /\ [][Next]_vars

-----------------------------------------------------------------------------
TypeOK ==
  /\ {producer_index, consumer_index} \subseteq Word
  /\ {producer_cached_consumer_, consumer_cached_producer_} \subseteq Word
  /\ slots \in [SlotIds -> [size : 0 .. PayloadSize,
                            payload : Messages \cup {None}]]
  /\ {producer_open, consumer_open, push_result, typed} \subseteq BOOLEAN
  /\ producer_pc \in {"idle", "refresh", "copy", "size", "publish"}
  /\ data \in Messages \cup {None}
  /\ consumer_pc \in {"idle", "refresh", "check", "publish"}
  /\ {out_capacity, reported} \subseteq 0 .. PayloadSize
  /\ {out, pop_result} \subseteq Messages \cup {None}

\* The size a refused try_pop reports keeps its word: it is that of a message
\* that is still the oldest of the section when the consumer comes back with a
\* larger buffer, whatever the producer does or however it dies meanwhile.
ReportedSizeFits ==
  reported # 0 =>
    /\ producer_index # consumer_index
    /\ Bytes(OldestSlot) \in Messages
    /\ SizeOf[Bytes(OldestSlot)] = reported

\* size() never exceeds the capacity for either side, so empty() and full() speak
\* of the same queue, whichever side has closed, died and come back meanwhile.
SizesInRange ==
  /\ producer_open => \A n \in ProducerSizes : n <= Capacity
  /\ consumer_open => \A n \in ConsumerSizes : n <= Capacity

\* A push is accepted only into a queue that is not full, so it overwrites no
\* message that has not been popped, and a pop only from a queue that is not
\* empty, so it returns no message twice and no slot nobody filled.
RefusesWhenFullOrEmpty ==
  [][/\ PublishPush => Sub(producer_index, consumer_index) < Capacity
     /\ PublishPop => producer_index # consumer_index]_vars

\* The k-th index of the queue, counted from the consumer's.
Nth(k) == Ahead(consumer_index, k - 1)

Contents ==
  [k \in 1 .. Sub(producer_index, consumer_index) |-> Bytes(slots[Slot(Nth(k))])]

Fifo == INSTANCE BoundedFifo WITH
  queue <- Contents, Values <- Messages, Strict <- FALSE

\* try_pop<T> meets a message of another size: the message is gone and the caller
\* is told there was none.
Mismatch ==
  /\ PublishPop
  /\ WrongSize
  /\ Contents' = Tail(Contents)
  /\ pop_result' = None
  /\ UNCHANGED push_result

\* The two processes see one bounded FIFO queue of whole messages: whenever one
\* of them closes or dies, in the middle of a memcpy even, the other finds the
\* messages that were published and no others, a consumer that died before its
\* release store leaves the message to the next one, and only the end of the
\* section empties the queue.  No pop that returns false loses a message, but
\* for try_pop<T> of a message of another size.
FifoSpec ==
  Fifo!Init /\ [][Fifo!Next \/ Mismatch]_<<Contents, push_result, pop_result>>
=============================================================================
