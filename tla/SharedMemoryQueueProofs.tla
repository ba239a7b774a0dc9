---------------------- MODULE SharedMemoryQueueProofs ----------------------
(***************************************************************************)
(* The theorems about SharedMemoryQueue, for every capacity, word size,    *)
(* set of messages of any sizes up to that of a slot, with and without     *)
(* stale loads, and with sides that close or die in the middle of any      *)
(* operation.  They are about sides that open a section only while an      *)
(* index of 0 is one they could have cached: without that the run          *)
(* shm_reattach has a counterexample.                                      *)
(***************************************************************************)
EXTENDS SharedMemoryQueue, RingIndexProofs

\* No side opens a section whose indices its new cache does not fit.
FitsOnOpen == Reattach = {}

-----------------------------------------------------------------------------
(* The inductive invariant *)

\* How far an index is behind the producer's.
Lag(x) == Sub(producer_index, x)

\* Going back from producer_index one meets the producer index the consumer has
\* cached, the consumer's index, and the consumer index the producer has cached,
\* within one lap; a side that is not open has no cache to be wrong.
IndexOrder ==
  /\ Lag(consumer_index) <= Capacity
  /\ producer_open => /\ Lag(consumer_index) <= Lag(producer_cached_consumer_)
                      /\ Lag(producer_cached_consumer_) <= Capacity
  /\ consumer_open => Lag(consumer_cached_producer_) <= Lag(consumer_index)

\* What the producer has established at each point of a push.
ProducerProgress ==
  /\ producer_pc # "idle" => producer_open /\ data \in Messages
  /\ producer_pc \in {"copy", "size", "publish"} => ~CacheSaysFull

\* What the consumer has established at each point of a pop, and after one that
\* reported the size of a message.
ConsumerProgress ==
  /\ consumer_pc # "idle" => consumer_open /\ reported = 0
  /\ consumer_pc \in {"check", "publish"} \/ reported # 0 =>
       consumer_index # consumer_cached_producer_
  /\ consumer_pc = "publish" => out = Bytes(OldestSlot)
  /\ reported # 0 => consumer_open /\ reported = OldestSlot.size

\* The indices of the messages in the queue.
Occupied == Between(producer_index, consumer_index)

\* What the slots hold: whole messages between the indices, and at the producer's
\* index as much as the running push has copied.
SlotContents ==
  /\ \A x \in Occupied : Bytes(slots[Slot(x)]) \in Messages
  /\ producer_pc \in {"size", "publish"} =>
       slots[Slot(producer_index)].payload = data
  /\ producer_pc = "publish" => slots[Slot(producer_index)].size = SizeOf[data]

\* The part of the invariant that does not look into the slots.
IndexInv == TypeOK /\ IndexOrder /\ ProducerProgress /\ ConsumerProgress

IInv == IndexInv /\ SlotContents

-----------------------------------------------------------------------------
(* The indices *)

\* The distances behind producer_index are numbers, 0 only for itself.
LEMMA Lags ==
  ASSUME TypeOK
  PROVE  /\ Lag(producer_index) = 0
         /\ \A x \in Word : /\ Lag(x) \in 0 .. WordSize - 1
                            /\ Lag(x) = Lag(consumer_index) => x = consumer_index
                            /\ Lag(x) = 0 => x = producer_index
<1>1. producer_index \in Word /\ consumer_index \in Word
  BY DEF TypeOK
<1>. QED
  BY <1>1, SubFacts, SubRange, SubInjective DEF Lag

\* What the producer's acquire load gives it: no older an index than it has cached,
\* and none that the consumer has not reached.
LEMMA ProducerLoads ==
  ASSUME IndexInv, producer_open,
         NEW x \in Visible(producer_cached_consumer_, consumer_index)
  PROVE  /\ x \in Word
         /\ Lag(consumer_index) <= Lag(x)
         /\ Lag(x) <= Lag(producer_cached_consumer_)
<1>1. /\ producer_index \in Word /\ consumer_index \in Word
      /\ producer_cached_consumer_ \in Word
      /\ Lag(consumer_index) <= Lag(producer_cached_consumer_)
  BY DEF IndexInv, TypeOK, IndexOrder
<1>2. Lag(consumer_index) \in 0 .. WordSize - 1
  BY <1>1, Lags DEF IndexInv
<1>3. CASE StaleReads
  BY <1>1, <1>3, SubBetween DEF Visible, Lag
<1>4. CASE ~StaleReads
  BY <1>1, <1>2, <1>4, WordFacts DEF Visible
<1>. QED
  BY <1>3, <1>4

\* What the consumer's acquire load gives it: no older an index than it has cached.
LEMMA ConsumerLoads ==
  ASSUME IndexInv, consumer_open,
         NEW x \in Visible(consumer_cached_producer_, producer_index)
  PROVE  /\ x \in Word
         /\ Lag(x) <= Lag(consumer_cached_producer_)
         /\ Lag(x) <= Lag(consumer_index)
<1>1. /\ producer_index \in Word /\ consumer_cached_producer_ \in Word
      /\ consumer_index \in Word /\ Lag(consumer_cached_producer_) <= Lag(consumer_index)
  BY DEF IndexInv, TypeOK, IndexOrder
<1>2. /\ Lag(producer_index) = 0
      /\ \A y \in Word : Lag(y) \in 0 .. WordSize - 1
  BY Lags DEF IndexInv
<1>3. x \in Word /\ Lag(x) <= Lag(consumer_cached_producer_)
  BY <1>1, <1>2, SubBetween DEF Visible, Lag
<1>. QED
  BY <1>1, <1>2, <1>3, WordFacts

\* While the producer fills a slot the queue is not full.
LEMMA ProducerHasRoom ==
  ASSUME IndexInv, producer_pc \in {"copy", "size", "publish"}
  PROVE  /\ producer_open /\ data \in Messages
         /\ Lag(producer_cached_consumer_) < Capacity
         /\ Lag(consumer_index) < Capacity
BY Lags, WordFacts DEF IndexInv, TypeOK, IndexOrder, ProducerProgress, CacheSaysFull, Lag

\* Once the consumer has found a message there is one, not yet popped.
LEMMA ConsumerHasMessage ==
  ASSUME IndexInv, consumer_pc \in {"check", "publish"} \/ reported # 0
  PROVE  /\ consumer_open
         /\ consumer_index # producer_index
         /\ consumer_index \in Occupied
         /\ Lag(consumer_cached_producer_) < Lag(consumer_index)
<1>1. consumer_open /\ consumer_index # consumer_cached_producer_
  BY DEF IndexInv, ConsumerProgress
<1>2. Lag(consumer_cached_producer_) < Lag(consumer_index)
  BY <1>1, Lags DEF IndexInv, TypeOK, IndexOrder
<1>3. consumer_index # producer_index
  BY <1>2, Lags DEF IndexInv, TypeOK
<1>. QED
  BY <1>1, <1>2, <1>3, BetweenPop DEF Occupied, IndexInv, TypeOK

\* The slot that is being filled is that of no message in the queue.
LEMMA ProducerSlotFree ==
  ASSUME IndexInv, producer_pc \in {"copy", "size", "publish"}, NEW x \in Occupied
  PROVE  x \in Word /\ Slot(x) \in SlotIds /\ Slot(x) # Slot(producer_index)
<1>1. /\ producer_index \in Word /\ consumer_index \in Word
      /\ Sub(producer_index, consumer_index) < Capacity
      /\ Sub(producer_index, consumer_index) \in Nat
  BY ProducerHasRoom, SubRange DEF IndexInv, TypeOK, Lag
<1>2. x \in Word /\ x # producer_index
  BY <1>1, SubFacts DEF Occupied, Between
<1>. QED
  BY <1>1, <1>2, BetweenApart, SlotInRange, WordFacts DEF Occupied

\* The initial state: a new section that nobody has open.
LEMMA IInvInit == Init => IInv
<1>. SUFFICES ASSUME Init PROVE IInv
  OBVIOUS
<1>1. 0 \in Word /\ Sub(0, 0) = 0
  BY WordFacts, SubFacts DEF Word
<1>2. TypeOK
  <2>1. 0 \in 0 .. PayloadSize
    BY PayloadSizeAssumption
  <2>2. slots \in [SlotIds -> [size : 0 .. PayloadSize, payload : Messages \cup {None}]]
    BY <2>1 DEF Init, EmptySlot
  <2>. QED
    BY <1>1, <2>1, <2>2 DEF Init, TypeOK
<1>3. IndexOrder
  BY <1>1, WordFacts DEF Init, IndexOrder, Lag
<1>4. ProducerProgress /\ ConsumerProgress
  BY DEF Init, ProducerProgress, ConsumerProgress
<1>5. SlotContents
  BY <1>1 DEF Init, SlotContents, Occupied, Between
<1>. QED
  BY <1>2, <1>3, <1>4, <1>5 DEF IInv, IndexInv

-----------------------------------------------------------------------------
(* Opening and closing *)

\* A producer that opens the section while an index of 0 is as good as any it
\* could have cached has a cache in order.
LEMMA ProducerOpensStep ==
  ASSUME IInv, FitsOnOpen, ProducerOpens
  PROVE  IInv'
<1>. USE DEF ProducerOpens, IInv, IndexInv
<1>1. 0 \in Word
  BY WordFacts DEF Word
<1>2. Lag(0) <= Capacity /\ Sub(consumer_index, 0) <= Lag(0)
  BY DEF FitsOnOpen, ProducerStartsAtZero, Lag
<1>3. Lag(consumer_index) <= Lag(0)
  BY <1>1, <1>2, WordFacts DEF TypeOK, IndexOrder, Lag, Sub, Word
<1>4. TypeOK'
  BY <1>1 DEF TypeOK, sectionVars, consumerVars
<1>5. IndexOrder'
  BY <1>2, <1>3 DEF IndexOrder, Lag, sectionVars, consumerVars
<1>6. producer_pc = "idle"
  BY DEF ProducerProgress
<1>7. ProducerProgress' /\ ConsumerProgress'
  BY <1>6 DEF ProducerProgress, ConsumerProgress, OldestSlot, sectionVars, consumerVars
<1>8. SlotContents'
  BY <1>6 DEF SlotContents, Occupied, sectionVars
<1>. QED
  BY <1>4, <1>5, <1>7, <1>8

\* The same of the consumer.
LEMMA ConsumerOpensStep ==
  ASSUME IInv, FitsOnOpen, ConsumerOpens
  PROVE  IInv'
<1>. USE DEF ConsumerOpens, IInv, IndexInv
<1>1. 0 \in Word
  BY WordFacts DEF Word
<1>2. Sub(0, consumer_index) <= Lag(consumer_index)
  BY DEF FitsOnOpen, ConsumerStartsAtZero, Lag
<1>3. Lag(0) <= Lag(consumer_index)
  BY <1>1, <1>2, WordFacts DEF TypeOK, Lag, Sub, Word
<1>4. TypeOK'
  BY <1>1 DEF TypeOK, sectionVars, producerVars
<1>5. IndexOrder'
  BY <1>3 DEF IndexOrder, Lag, sectionVars, producerVars
<1>6. consumer_pc = "idle" /\ reported = 0
  BY DEF ConsumerProgress
<1>7. ProducerProgress' /\ ConsumerProgress'
  BY <1>6 DEF ProducerProgress, ConsumerProgress, CacheSaysFull, sectionVars, producerVars
<1>8. SlotContents'
  BY DEF SlotContents, Occupied, sectionVars, producerVars
<1>. QED
  BY <1>4, <1>5, <1>7, <1>8

\* The section of a side that stays open is left alone; that of nobody is new.
LEMMA LeaveStep ==
  ASSUME IInv, NEW inUse \in BOOLEAN, Leave(inUse)
  PROVE  /\ {producer_index', consumer_index'} \subseteq Word
         /\ slots' \in [SlotIds -> [size : 0 .. PayloadSize,
                                    payload : Messages \cup {None}]]
         /\ Sub(producer_index', consumer_index') <= Capacity
         /\ \A x \in Occupied' : Bytes(slots'[Slot(x)]) \in Messages
<1>1. CASE inUse
  BY <1>1 DEF Leave, IInv, IndexInv, TypeOK, IndexOrder, Lag, SlotContents, Occupied,
     sectionVars
<1>2. CASE ~inUse
  <2>1. 0 \in Word /\ Sub(0, 0) = 0 /\ 0 \in 0 .. PayloadSize
    BY WordFacts, SubFacts, PayloadSizeAssumption DEF Word
  <2>2. Occupied' = {}
    BY <1>2, <2>1 DEF Leave, Occupied, Between
  <2>. QED
    BY <1>2, <2>1, <2>2, WordFacts DEF Leave, EmptySlot
<1>. QED
  BY <1>1, <1>2

\* A producer that closes or dies leaves the published messages to the consumer.
LEMMA ProducerClosesStep ==
  ASSUME IInv, ProducerCloses
  PROVE  IInv'
<1>. USE DEF ProducerCloses, IInv, IndexInv
<1>1. consumer_open \in BOOLEAN
  BY DEF TypeOK
<1>2. 0 \in Word
  BY WordFacts DEF Word
<1>3. TypeOK'
  BY <1>1, <1>2, LeaveStep DEF TypeOK, consumerVars
<1>4. IndexOrder'
  <2>1. Lag(consumer_index)' <= Capacity
    BY <1>1, LeaveStep DEF Lag
  <2>2. consumer_open => UNCHANGED sectionVars
    BY DEF Leave
  <2>. QED
    BY <2>1, <2>2 DEF IndexOrder, Lag, consumerVars, sectionVars
<1>5. ProducerProgress'
  BY DEF ProducerProgress
<1>6. ConsumerProgress'
  BY DEF ConsumerProgress, Leave, OldestSlot, consumerVars, sectionVars
<1>7. SlotContents'
  BY <1>1, LeaveStep DEF SlotContents
<1>. QED
  BY <1>3, <1>4, <1>5, <1>6, <1>7

\* A consumer that closes or dies leaves the messages it has not popped, the one it
\* was copying included.
LEMMA ConsumerClosesStep ==
  ASSUME IInv, ConsumerCloses
  PROVE  IInv'
<1>. USE DEF ConsumerCloses, IInv, IndexInv
<1>1. producer_open \in BOOLEAN
  BY DEF TypeOK
<1>2. 0 \in Word /\ 0 \in 0 .. PayloadSize
  BY WordFacts, PayloadSizeAssumption DEF Word
<1>3. TypeOK'
  BY <1>1, <1>2, LeaveStep DEF TypeOK, producerVars
<1>4. producer_open => UNCHANGED sectionVars
  BY DEF Leave
<1>5. IndexOrder'
  <2>1. Lag(consumer_index)' <= Capacity
    BY <1>1, LeaveStep DEF Lag
  <2>. QED
    BY <1>4, <2>1 DEF IndexOrder, Lag, producerVars, sectionVars
<1>6. ProducerProgress'
  BY <1>4 DEF ProducerProgress, CacheSaysFull, producerVars, sectionVars
<1>7. ConsumerProgress'
  BY DEF ConsumerProgress
<1>8. SlotContents'
  <2>1. producer_pc \in {"size", "publish"} => producer_open
    BY DEF ProducerProgress
  <2>. QED
    BY <1>1, <1>4, <2>1, LeaveStep DEF SlotContents, producerVars, sectionVars
<1>. QED
  BY <1>3, <1>5, <1>6, <1>7, <1>8

-----------------------------------------------------------------------------
(* The steps of a push *)

\* A step that leaves the section alone, and fills no slot, keeps what the slots
\* hold.
LEMMA SlotsUntouched ==
  ASSUME SlotContents, UNCHANGED sectionVars,
         producer_pc' \in {"size", "publish"} =>
           producer_pc' = producer_pc /\ data' = data
  PROVE  SlotContents'
<1>1. Occupied' = Occupied
  BY DEF Occupied, sectionVars
<1>. QED
  BY <1>1 DEF SlotContents, sectionVars

\* The call of try_push, and one that is rejected at once, move no index.
LEMMA PushCallStep ==
  ASSUME IInv, PushRejected \/ \E m \in Messages : PushCall(m)
  PROVE  IInv'
<1>. USE DEF PushRejected, PushCall, IInv, IndexInv
<1>1. producer_pc' \in {"idle", "refresh", "copy"} /\ data' \in Messages \cup {None}
  BY DEF TypeOK
<1>2. TypeOK' /\ IndexOrder'
  <2>1. TypeOK'
    BY <1>1 DEF TypeOK, sectionVars, consumerVars
  <2>. QED
    BY <2>1 DEF IndexOrder, Lag, sectionVars, consumerVars
<1>3. ProducerProgress'
  BY DEF ProducerProgress, CacheSaysFull, sectionVars
<1>4. ConsumerProgress'
  BY DEF ConsumerProgress, OldestSlot, sectionVars, consumerVars
<1>5. SlotContents'
  BY SlotsUntouched
<1>. QED
  BY <1>2, <1>3, <1>4, <1>5

\* The acquire loads of try_push and of full() keep the indices in order.
LEMMA PushLoadStep ==
  ASSUME IInv, PushFull \/ PushRefresh \/ Full
  PROVE  IInv'
<1>. DEFINE x == producer_cached_consumer_'
<1>. USE DEF PushFull, PushRefresh, Full, IInv, IndexInv
<1>1. /\ producer_open
      /\ x \in Visible(producer_cached_consumer_, consumer_index)
      /\ UNCHANGED <<sectionVars, producer_open, consumerVars>>
      /\ producer_pc' \in {"idle", "copy"}
  BY DEF ProducerProgress
<1>2. x \in Word /\ Lag(consumer_index) <= Lag(x)
      /\ Lag(x) <= Lag(producer_cached_consumer_)
  BY <1>1, ProducerLoads
<1>3. TypeOK'
  BY <1>1, <1>2 DEF TypeOK, sectionVars, consumerVars
<1>4. IndexOrder'
  <2>1. Lag(x) <= Capacity
    BY <1>1, <1>2, Lags, WordFacts DEF TypeOK, IndexOrder
  <2>. QED
    BY <1>1, <1>2, <2>1 DEF IndexOrder, Lag, sectionVars, consumerVars
<1>5. ProducerProgress'
  BY <1>1 DEF ProducerProgress, CacheSaysFull, sectionVars
<1>6. ConsumerProgress'
  BY <1>1 DEF ConsumerProgress, OldestSlot, sectionVars, consumerVars
<1>7. SlotContents'
  BY <1>1, SlotsUntouched
<1>. QED
  BY <1>3, <1>4, <1>5, <1>6, <1>7

\* Filling the slot, its bytes and then its size, disturbs no message.
LEMMA FillStep ==
  ASSUME IInv, CopyIn \/ StoreSize
  PROVE  IInv'
<1>. DEFINE p == producer_index
<1>. USE DEF CopyIn, StoreSize, IInv, IndexInv
<1>1. producer_pc \in {"copy", "size"} /\ producer_pc' \in {"size", "publish"}
  OBVIOUS
<1>2. /\ UNCHANGED <<producer_index, consumer_index, producer_open,
                     producer_cached_consumer_, data, push_result>>
      /\ UNCHANGED consumerVars
  OBVIOUS
<1>3. p \in Word /\ Slot(p) \in SlotIds /\ data \in Messages
  BY <1>1, ProducerHasRoom, SlotInRange DEF TypeOK
<1>4. /\ slots' \in [SlotIds -> [size : 0 .. PayloadSize,
                                 payload : Messages \cup {None}]]
      /\ \A s \in SlotIds : s # Slot(p) => slots'[s] = slots[s]
  BY <1>3, SizesAssumption DEF TypeOK
<1>5. /\ slots'[Slot(p)].payload = data
      /\ producer_pc' = "publish" => slots'[Slot(p)].size = SizeOf[data]
  BY <1>1, <1>3 DEF TypeOK, SlotContents
<1>6. \A x \in Occupied :
        x \in Word /\ Slot(x) # Slot(p) /\ slots'[Slot(x)] = slots[Slot(x)]
  BY <1>1, <1>4, ProducerSlotFree
<1>7. TypeOK'
  BY <1>1, <1>2, <1>4 DEF TypeOK, consumerVars
<1>8. IndexOrder'
  BY <1>2 DEF IndexOrder, Lag, consumerVars
<1>9. ProducerProgress'
  BY <1>1, <1>2 DEF ProducerProgress, CacheSaysFull
<1>10. ConsumerProgress'
  <2>1. consumer_pc \in {"check", "publish"} \/ reported # 0 => OldestSlot' = OldestSlot
    BY <1>2, <1>6, ConsumerHasMessage DEF OldestSlot, Slot
  <2>. QED
    BY <1>2, <2>1 DEF ConsumerProgress, consumerVars
<1>11. SlotContents'
  BY <1>1, <1>2, <1>5, <1>6 DEF SlotContents, Occupied
<1>. QED
  BY <1>7, <1>8, <1>9, <1>10, <1>11

\* The slot that is published holds a whole message.
LEMMA PublishedWhole ==
  ASSUME IInv, producer_pc = "publish"
  PROVE  Bytes(slots[Slot(producer_index)]) = data /\ data \in Messages
BY ProducerHasRoom DEF IInv, SlotContents, Bytes

\* The release store of a push adds the message to those in the queue.
LEMMA PublishPushStep ==
  ASSUME IInv, PublishPush
  PROVE  IInv'
<1>. DEFINE p == producer_index
<1>. USE DEF PublishPush, IInv, IndexInv
<1>1. /\ p \in Word /\ consumer_index \in Word /\ producer_cached_consumer_ \in Word
      /\ consumer_cached_producer_ \in Word
  BY DEF TypeOK
<1>2. /\ producer_open /\ Lag(producer_cached_consumer_) \in Nat /\ Lag(consumer_index) \in Nat
      /\ Lag(producer_cached_consumer_) < Capacity /\ Lag(consumer_index) < Capacity
      /\ Lag(consumer_index) <= Lag(producer_cached_consumer_)
  BY <1>1, ProducerHasRoom, Lags DEF IndexOrder
<1>3. /\ p' \in Word
      /\ Lag(consumer_index)' = Lag(consumer_index) + 1
      /\ Lag(producer_cached_consumer_)' = Lag(producer_cached_consumer_) + 1
      /\ Occupied' = Occupied \cup {p}
  BY <1>1, <1>2, BetweenPush DEF Lag, Occupied, consumerVars
<1>4. ASSUME consumer_open
      PROVE  Lag(consumer_cached_producer_)' = Lag(consumer_cached_producer_) + 1
  <2>1. /\ Lag(consumer_cached_producer_) <= Lag(consumer_index)
        /\ Lag(consumer_cached_producer_) \in Nat
    BY <1>1, <1>4, Lags DEF IndexOrder
  <2>2. Lag(consumer_cached_producer_) < Capacity
    BY <1>2, <2>1, WordFacts
  <2>. QED
    BY <1>1, <2>2, BetweenPush DEF Lag, consumerVars
<1>5. TypeOK'
  BY <1>3 DEF TypeOK, consumerVars
<1>6. IndexOrder'
  <2>1. consumer_open => Lag(consumer_cached_producer_) \in Nat
    BY <1>1, Lags
  <2>. QED
    BY <1>2, <1>3, <1>4, <2>1, WordFacts DEF IndexOrder, consumerVars
<1>7. ProducerProgress'
  BY DEF ProducerProgress
<1>8. ConsumerProgress'
  BY DEF ConsumerProgress, OldestSlot, consumerVars
<1>9. SlotContents'
  BY <1>3, PublishedWhole DEF SlotContents
<1>. QED
  BY <1>5, <1>6, <1>7, <1>8, <1>9

-----------------------------------------------------------------------------
(* The steps of a pop *)

\* The call of try_pop, and one that is rejected at once, move no index.
LEMMA PopCallStep ==
  ASSUME IInv,
         PopRejected \/ \E n \in 0 .. PayloadSize, isTyped \in BOOLEAN : PopCall(n, isTyped)
  PROVE  IInv'
<1>. USE DEF PopRejected, PopCall, IInv, IndexInv
<1>1. 0 \in 0 .. PayloadSize
  BY PayloadSizeAssumption
<1>2. TypeOK'
  BY <1>1 DEF TypeOK, sectionVars, producerVars
<1>3. IndexOrder' /\ ProducerProgress'
  BY DEF IndexOrder, Lag, ProducerProgress, CacheSaysFull, sectionVars, producerVars
<1>4. ConsumerProgress'
  BY DEF ConsumerProgress, sectionVars
<1>5. SlotContents'
  BY SlotsUntouched DEF producerVars
<1>. QED
  BY <1>2, <1>3, <1>4, <1>5

\* The acquire load of try_pop keeps the indices in order.
LEMMA PopLoadStep ==
  ASSUME IInv, PopEmpty \/ PopRefresh
  PROVE  IInv'
<1>. DEFINE x == consumer_cached_producer_'
<1>. USE DEF PopEmpty, PopRefresh, PopReturnsFalse, IInv, IndexInv
<1>1. /\ consumer_open /\ reported = 0 /\ reported' = 0
      /\ x \in Visible(consumer_cached_producer_, producer_index)
      /\ UNCHANGED <<sectionVars, consumer_open, producerVars>>
  BY DEF ConsumerProgress
<1>2. x \in Word /\ Lag(x) <= Lag(consumer_index)
  BY <1>1, ConsumerLoads
<1>3. TypeOK'
  BY <1>1, <1>2, PayloadSizeAssumption DEF TypeOK, sectionVars, producerVars
<1>4. IndexOrder' /\ ProducerProgress'
  BY <1>1, <1>2 DEF IndexOrder, Lag, ProducerProgress, CacheSaysFull, sectionVars,
     producerVars
<1>5. ConsumerProgress'
  BY <1>1 DEF ConsumerProgress, sectionVars
<1>6. SlotContents'
  BY <1>1, SlotsUntouched DEF producerVars
<1>. QED
  BY <1>3, <1>4, <1>5, <1>6

\* What the consumer finds at its index is a whole message.
LEMMA OldestWhole ==
  ASSUME IInv, consumer_pc \in {"check", "publish"} \/ reported # 0
  PROVE  /\ Bytes(OldestSlot) \in Messages
         /\ SizeOf[Bytes(OldestSlot)] = OldestSlot.size
         /\ OldestSlot.size \in 1 .. PayloadSize
<1>1. Bytes(OldestSlot) \in Messages
  BY ConsumerHasMessage DEF IInv, SlotContents, OldestSlot
<1>2. Bytes(OldestSlot) # Torn
  BY <1>1, NoneAssumption
<1>. QED
  BY <1>1, <1>2, SizesAssumption DEF Bytes

\* A buffer that is too small leaves the message where it is, and its size with
\* the caller.
LEMMA PopTooSmallStep ==
  ASSUME IInv, PopTooSmall
  PROVE  IInv'
<1>. USE DEF PopTooSmall, PopReturnsFalse, IInv, IndexInv
<1>1. OldestSlot.size \in 0 .. PayloadSize /\ consumer_open
  BY OldestWhole, ConsumerHasMessage
<1>2. TypeOK'
  <2>1. 0 \in 0 .. PayloadSize
    BY PayloadSizeAssumption
  <2>2. reported' \in 0 .. PayloadSize
    BY <1>1, <2>1
  <2>. QED
    BY <2>1, <2>2 DEF TypeOK, sectionVars, producerVars
<1>3. IndexOrder' /\ ProducerProgress'
  BY DEF IndexOrder, Lag, ProducerProgress, CacheSaysFull, sectionVars, producerVars
<1>4. ConsumerProgress'
  BY <1>1 DEF ConsumerProgress, OldestSlot, sectionVars
<1>5. SlotContents'
  BY SlotsUntouched DEF producerVars
<1>. QED
  BY <1>2, <1>3, <1>4, <1>5

\* The memcpy out of the slot takes a whole message.
LEMMA CopyOutStep ==
  ASSUME IInv, CopyOut
  PROVE  IInv'
<1>. USE DEF CopyOut, IInv, IndexInv
<1>1. Bytes(OldestSlot) \in Messages
  BY OldestWhole
<1>2. TypeOK'
  BY <1>1 DEF TypeOK, sectionVars, producerVars
<1>3. IndexOrder' /\ ProducerProgress'
  BY DEF IndexOrder, Lag, ProducerProgress, CacheSaysFull, sectionVars, producerVars
<1>4. ConsumerProgress'
  BY DEF ConsumerProgress, OldestSlot, sectionVars
<1>5. SlotContents'
  BY SlotsUntouched DEF producerVars
<1>. QED
  BY <1>2, <1>3, <1>4, <1>5

\* The release store of a pop takes the oldest message out of the queue.
LEMMA PublishPopStep ==
  ASSUME IInv, PublishPop
  PROVE  IInv'
<1>. DEFINE c == consumer_index
<1>. USE DEF PublishPop, IInv, IndexInv
<1>1. /\ producer_index \in Word /\ c \in Word
      /\ producer_cached_consumer_ \in Word /\ consumer_cached_producer_ \in Word
  BY DEF TypeOK
<1>2. /\ consumer_open /\ producer_index # c /\ reported = 0
      /\ Lag(consumer_cached_producer_) < Lag(c)
  BY ConsumerHasMessage DEF ConsumerProgress
<1>3. /\ c' \in Word
      /\ Lag(c)' = Lag(c) - 1
      /\ Occupied' = Occupied \ {c}
  BY <1>1, <1>2, BetweenPop DEF Lag, Occupied
<1>4. TypeOK'
  <2>1. 0 \in 0 .. PayloadSize
    BY PayloadSizeAssumption
  <2>2. pop_result' \in Messages \cup {None}
    BY DEF Answer, TypeOK
  <2>. QED
    BY <1>3, <2>1, <2>2 DEF TypeOK, producerVars
<1>5. /\ Lag(producer_cached_consumer_)' = Lag(producer_cached_consumer_)
      /\ Lag(consumer_cached_producer_)' = Lag(consumer_cached_producer_)
  BY DEF Lag, producerVars
<1>6. IndexOrder'
  BY <1>1, <1>2, <1>3, <1>5, Lags, WordFacts DEF IndexOrder, producerVars
<1>7. ProducerProgress'
  BY DEF ProducerProgress, CacheSaysFull, producerVars
<1>8. ConsumerProgress'
  BY <1>2 DEF ConsumerProgress
<1>9. SlotContents'
  BY <1>3 DEF SlotContents, producerVars
<1>. QED
  BY <1>4, <1>6, <1>7, <1>8, <1>9

-----------------------------------------------------------------------------
(* The invariant and what follows from it *)

\* The invariant is inductive: one lemma per action, or per group of actions alike.
LEMMA IInvStep == FitsOnOpen /\ IInv /\ [Next]_vars => IInv'
<1>. SUFFICES ASSUME FitsOnOpen, IInv, [Next]_vars PROVE IInv'
  OBVIOUS
<1>1. CASE UNCHANGED vars
  <2>1. UNCHANGED <<sectionVars, producerVars, consumerVars>>
    BY <1>1 DEF vars
  <2>2. TypeOK' /\ IndexOrder' /\ ProducerProgress' /\ ConsumerProgress'
    BY <2>1 DEF IInv, IndexInv, TypeOK, IndexOrder, ProducerProgress, ConsumerProgress,
       Lag, CacheSaysFull, OldestSlot, sectionVars, producerVars, consumerVars
  <2>3. SlotContents'
    BY <2>1, SlotsUntouched DEF IInv, producerVars
  <2>. QED
    BY <2>2, <2>3 DEF IInv, IndexInv
<1>. QED
  BY <1>1, ProducerOpensStep, ConsumerOpensStep, ProducerClosesStep, ConsumerClosesStep,
     PushCallStep, PushLoadStep, FillStep, PublishPushStep, PopCallStep, PopLoadStep,
     PopTooSmallStep, CopyOutStep, PublishPopStep
  DEF Next, Push, Pop

\* The inductive invariant holds in every reachable state.
THEOREM InvariantHolds ==
  ASSUME FitsOnOpen
  PROVE  Spec => []IInv
<1>1. FitsOnOpen
  OBVIOUS
<1>2. IInv /\ [Next]_vars => IInv'
  BY <1>1, IInvStep
<1>. QED
  BY <1>2, IInvInit, PTL DEF Spec

\* Every variable has its type: no pop ever returns bytes of different messages.
THEOREM TypeCorrect ==
  ASSUME FitsOnOpen
  PROVE  Spec => []TypeOK
<1>1. IInv => TypeOK
  BY DEF IInv, IndexInv
<1>2. Spec => []IInv
  BY InvariantHolds
<1>. QED
  BY <1>1, <1>2, PTL

\* try_pop with a buffer that is too small: the size it reports is that of the
\* message the next call finds, whatever the producer does or however it dies in
\* between.
THEOREM ReportedSizeKept ==
  ASSUME FitsOnOpen
  PROVE  Spec => []ReportedSizeFits
<1>1. IInv => ReportedSizeFits
  BY ConsumerHasMessage, OldestWhole DEF IInv, IndexInv, ConsumerProgress, ReportedSizeFits
<1>2. Spec => []IInv
  BY InvariantHolds
<1>. QED
  BY <1>1, <1>2, PTL

\* size(), with stale loads too, is at most Capacity for either side, whoever has
\* closed, died and come back.
THEOREM SizesCorrect ==
  ASSUME FitsOnOpen
  PROVE  Spec => []SizesInRange
<1>1. ASSUME IInv PROVE SizesInRange
  <2>. USE <1>1 DEF IInv
  <2>1. ASSUME producer_open,
               NEW x \in Visible(producer_cached_consumer_, consumer_index)
        PROVE  Sub(producer_index, x) <= Capacity
    BY <2>1, ProducerLoads, Lags, WordFacts DEF IndexInv, IndexOrder, TypeOK, Lag
  <2>2. ASSUME consumer_open,
               NEW x \in Visible(consumer_cached_producer_, producer_index)
        PROVE  Sub(x, consumer_index) <= Capacity
    <3>1. x \in Word /\ Lag(x) <= Lag(consumer_index)
      BY <2>2, ConsumerLoads
    <3>2. Sub(x, consumer_index) = Lag(consumer_index) - Lag(x)
      BY <3>1, SubDifference DEF IndexInv, TypeOK, Lag
    <3>. QED
      BY <3>1, <3>2, Lags, WordFacts DEF IndexInv, IndexOrder, TypeOK
  <2>. QED
    BY <2>1, <2>2 DEF SizesInRange, ProducerSizes, ConsumerSizes
<1>2. Spec => []IInv
  BY InvariantHolds
<1>. QED
  BY <1>1, <1>2, PTL

\* The release stores: no push is published into a full queue, and no pop out of an
\* empty one.
THEOREM RefusesCorrectly ==
  ASSUME FitsOnOpen
  PROVE  Spec => RefusesWhenFullOrEmpty
<1>1. IInv /\ PublishPush => Sub(producer_index, consumer_index) < Capacity
  BY ProducerHasRoom DEF IInv, PublishPush, Lag
<1>2. IInv /\ PublishPop => producer_index # consumer_index
  BY ConsumerHasMessage DEF IInv, PublishPop
<1>3. Spec => []IInv
  BY InvariantHolds
<1>. QED
  BY <1>1, <1>2, <1>3, PTL DEF RefusesWhenFullOrEmpty, Spec

-----------------------------------------------------------------------------
(* The queue the section stands for *)

Size == Sub(producer_index, consumer_index)

\* The k-th message is in the queue, and is the oldest only for k = 1.
LEMMA NthFacts ==
  ASSUME IInv, NEW k \in 1 .. Size
  PROVE  Nth(k) \in Occupied /\ (k = 1 => Nth(k) = consumer_index)
<1>1. producer_index \in Word /\ consumer_index \in Word /\ Size \in Nat
  BY SubRange DEF IInv, IndexInv, TypeOK, Size
<1>2. k - 1 \in 0 .. Size /\ k - 1 < Size
  BY <1>1
<1>. QED
  BY <1>1, <1>2, AheadFacts DEF Nth, Size, Occupied

\* The contents are a sequence of at most Capacity whole messages.
QueueInRing ==
  /\ Size \in 0 .. Capacity
  /\ Contents \in [1 .. Size -> Messages]
  /\ Len(Contents) = Size
  /\ Size = 0 <=> Contents = << >>

\* In every state of the invariant they are.
LEMMA ContentsFacts == IInv => QueueInRing
<1>. SUFFICES ASSUME IInv PROVE QueueInRing
  OBVIOUS
<1>1. Size \in 0 .. Capacity
  BY SubRange, WordFacts DEF IInv, IndexInv, TypeOK, IndexOrder, Lag, Size
<1>2. \A k \in 1 .. Size : Bytes(slots[Slot(Nth(k))]) \in Messages
  BY NthFacts DEF IInv, SlotContents
<1>3. Contents \in [1 .. Size -> Messages]
  BY <1>2 DEF Contents, Size
<1>. QED
  BY <1>1, <1>3, Sequence, WordFacts DEF QueueInRing

\* The same of the next state.
LEMMA ContentsFactsNext == IInv' => QueueInRing'
BY ContentsFacts, PTL

\* A step that leaves the section alone leaves the contents alone.
LEMMA ContentsUntouched ==
  ASSUME UNCHANGED sectionVars
  PROVE  Contents' = Contents
BY DEF Contents, Nth, sectionVars

\* Filling a slot changes no message in the queue.
LEMMA FillContents ==
  ASSUME IInv, CopyIn \/ StoreSize
  PROVE  Contents' = Contents
<1>1. producer_pc \in {"copy", "size"}
  BY DEF CopyIn, StoreSize
<1>2. UNCHANGED <<producer_index, consumer_index>>
  BY DEF CopyIn, StoreSize
<1>3. ASSUME NEW k \in 1 .. Size PROVE slots'[Slot(Nth(k))] = slots[Slot(Nth(k))]
  <2>1. Slot(Nth(k)) \in SlotIds /\ Slot(Nth(k)) # Slot(producer_index)
    BY <1>1, NthFacts, ProducerSlotFree DEF IInv
  <2>. QED
    BY <2>1 DEF CopyIn, StoreSize, IInv, IndexInv, TypeOK
<1>4. Contents' = [k \in 1 .. Size |-> Bytes(slots'[Slot(Nth(k))])]
  BY <1>2 DEF Contents, Size, Nth
<1>. QED
  BY <1>3, <1>4 DEF Contents, Size

\* The producer's release store appends the message.
LEMMA PublishPushFifo ==
  ASSUME IInv, PublishPush
  PROVE  Fifo!Push(data) /\ data \in Messages
<1>. DEFINE p == producer_index
<1>. USE DEF PublishPush
<1>1. p \in Word /\ consumer_index \in Word
  BY DEF IInv, IndexInv, TypeOK
<1>2. Size < Capacity /\ Size \in Nat
  BY ProducerHasRoom, ContentsFacts, WordFacts DEF IInv, QueueInRing, Lag, Size
<1>3. Size' = Size + 1
  BY <1>1, <1>2, BetweenPush DEF Size
<1>4. /\ Contents \in [1 .. Size -> Messages] /\ Len(Contents) = Size
      /\ Contents' \in [1 .. Size + 1 -> Messages]
  BY <1>3, ContentsFacts, ContentsFactsNext, PublishPushStep DEF QueueInRing
<1>5. Contents' = [k \in 1 .. Size + 1 |-> Bytes(slots[Slot(Nth(k))])]
  BY <1>3 DEF Contents, Size, Nth
<1>6. ASSUME NEW k \in 1 .. Size PROVE Contents'[k] = Contents[k]
  <2>1. k \in 1 .. Size + 1
    BY <1>2
  <2>2. Contents'[k] = Bytes(slots[Slot(Nth(k))])
    BY <1>5, <2>1
  <2>. QED
    BY <2>2 DEF Contents, Size
<1>7. Contents'[Size + 1] = data /\ data \in Messages
  <2>1. Nth(Size + 1) = p
    BY <1>1, <1>2, AheadFacts DEF Nth, Size
  <2>. QED
    BY <1>2, <1>5, <2>1, PublishedWhole
<1>8. Contents' = Append(Contents, data)
  <2>1. Contents' = Append(Contents, Contents'[Size + 1])
    BY <1>2, <1>4, <1>6, Appended
  <2>. QED
    BY <1>7, <2>1
<1>. QED
  BY <1>2, <1>4, <1>7, <1>8 DEF Fifo!Push, consumerVars

\* The consumer's release store takes the head off, and returns it, or nothing if a
\* try_pop<T> has met another size.
LEMMA PublishPopFifo ==
  ASSUME IInv, PublishPop
  PROVE  Fifo!Pop \/ Mismatch
<1>. USE DEF PublishPop
<1>1. /\ producer_index \in Word /\ consumer_index \in Word
      /\ producer_index # consumer_index
  BY ConsumerHasMessage DEF IInv, IndexInv, TypeOK
<1>2. Size \in Nat \ {0} /\ Size' = Size - 1 /\ Size <= Capacity
  BY <1>1, BetweenPop, ContentsFacts DEF Size, QueueInRing
<1>3. /\ Contents \in [1 .. Size -> Messages]
      /\ Contents' \in [1 .. Size - 1 -> Messages]
  BY <1>2, ContentsFacts, ContentsFactsNext, PublishPopStep DEF QueueInRing
<1>4. ASSUME NEW k \in 1 .. Size - 1 PROVE Contents'[k] = Contents[k + 1]
  <2>1. k - 1 \in Nat /\ k - 1 < WordSize - 1 /\ (k - 1) + 1 = (k + 1) - 1
    BY <1>2, WordFacts
  <2>2. Nth(k)' = Nth(k + 1)
    BY <1>1, <2>1, AheadInc DEF Nth, Ahead
  <2>3. k + 1 \in 1 .. Size
    BY <1>2
  <2>4. Contents'[k] = Bytes(slots[Slot(Nth(k + 1))])
    BY <1>2, <2>2 DEF Contents, Size, Slot
  <2>. QED
    BY <2>3, <2>4 DEF Contents, Size
<1>5. Contents # << >> /\ Head(Contents) = Contents[1] /\ Contents' = Tail(Contents)
  BY <1>2, <1>3, <1>4, TailOf
<1>6. Contents[1] = out
  <2>1. Contents[1] = Bytes(OldestSlot)
    BY <1>2, NthFacts DEF Contents, Size, OldestSlot
  <2>. QED
    BY <2>1 DEF IInv, IndexInv, ConsumerProgress
<1>7. push_result' = push_result
  BY DEF producerVars
<1>8. CASE WrongSize
  BY <1>5, <1>7, <1>8 DEF Mismatch, Answer
<1>9. CASE ~WrongSize
  BY <1>5, <1>6, <1>7, <1>9 DEF Fifo!Pop, Answer
<1>. QED
  BY <1>8, <1>9

\* A side that leaves the section to the other changes no contents; with the last
\* one the section goes, and its messages with it.
LEMMA CloseFifo ==
  ASSUME IInv, ProducerCloses \/ ConsumerCloses
  PROVE  Fifo!Clear \/ UNCHANGED <<Contents, push_result, pop_result>>
<1>1. UNCHANGED <<push_result, pop_result>>
  BY DEF ProducerCloses, ConsumerCloses, producerVars, consumerVars
<1>2. PICK inUse \in {producer_open, consumer_open} : Leave(inUse)
  BY DEF ProducerCloses, ConsumerCloses
<1>3. CASE inUse
  BY <1>1, <1>2, <1>3, ContentsUntouched DEF Leave
<1>4. CASE ~inUse
  <2>1. Size' = 0
    BY <1>2, <1>4, WordFacts, SubFacts DEF Leave, Size, Word
  <2>2. IInv'
    BY ProducerClosesStep, ConsumerClosesStep
  <2>3. Contents' = << >>
    BY <2>1, <2>2, ContentsFactsNext DEF QueueInRing
  <2>. QED
    BY <1>1, <2>3 DEF Fifo!Clear
<1>. QED
  BY <1>3, <1>4

\* The initial state is an empty queue.
LEMMA FifoInit == Init => Fifo!Init
<1>. SUFFICES ASSUME Init PROVE Fifo!Init
  OBVIOUS
<1>1. Size = 0
  BY WordFacts, SubFacts DEF Init, Size, Word
<1>2. Contents = << >>
  BY <1>1, IInvInit, ContentsFacts DEF QueueInRing
<1>. QED
  BY <1>2 DEF Init, Fifo!Init

\* Every step is one of the FIFO queue, a try_pop<T> of another size, or none.
LEMMA FifoStep ==
  IInv /\ [Next]_vars =>
    [Fifo!Next \/ Mismatch]_<<Contents, push_result, pop_result>>
<1>. SUFFICES ASSUME IInv, [Next]_vars
              PROVE  \/ Fifo!Next \/ Mismatch
                     \/ UNCHANGED <<Contents, push_result, pop_result>>
  OBVIOUS
<1>1. CASE ProducerCloses \/ ConsumerCloses
  BY <1>1, CloseFifo DEF Fifo!Next
<1>2. CASE PushRejected \/ PushFull
  <2>1. Contents' = Contents
    BY <1>2, ContentsUntouched DEF PushRejected, PushFull
  <2>2. Fifo!PushRefused
    BY <1>2, <2>1 DEF Fifo!PushRefused, PushRejected, PushFull, consumerVars
  <2>. QED
    BY <2>2 DEF Fifo!Next
<1>3. CASE PopRejected \/ PopEmpty \/ PopTooSmall
  <2>1. Contents' = Contents
    BY <1>3, ContentsUntouched DEF PopRejected, PopEmpty, PopTooSmall, PopReturnsFalse
  <2>2. Fifo!PopRefused
    BY <1>3, <2>1
    DEF Fifo!PopRefused, PopRejected, PopEmpty, PopTooSmall, PopReturnsFalse, producerVars
  <2>. QED
    BY <2>2 DEF Fifo!Next
<1>4. CASE CopyIn \/ StoreSize
  BY <1>4, FillContents DEF CopyIn, StoreSize, consumerVars
<1>5. CASE PublishPush
  BY <1>5, PublishPushFifo DEF Fifo!Next
<1>6. CASE PublishPop
  BY <1>6, PublishPopFifo DEF Fifo!Next
<1>7. CASE \/ ProducerOpens \/ ConsumerOpens \/ Full \/ PushRefresh
           \/ \E m \in Messages : PushCall(m)
  <2>1. UNCHANGED sectionVars /\ UNCHANGED <<push_result, pop_result>>
    BY <1>7 DEF ProducerOpens, ConsumerOpens, Full, PushRefresh, PushCall, producerVars,
       consumerVars
  <2>. QED
    BY <2>1, ContentsUntouched
<1>8. CASE \/ PopRefresh \/ CopyOut
           \/ \E n \in 0 .. PayloadSize, isTyped \in BOOLEAN : PopCall(n, isTyped)
  <2>1. UNCHANGED sectionVars /\ UNCHANGED <<push_result, pop_result>>
    BY <1>8 DEF PopRefresh, CopyOut, PopCall, producerVars
  <2>. QED
    BY <2>1, ContentsUntouched
<1>9. CASE UNCHANGED vars
  BY <1>9, ContentsUntouched DEF vars, producerVars, consumerVars
<1>. QED
  BY <1>1, <1>2, <1>3, <1>4, <1>5, <1>6, <1>7, <1>8, <1>9 DEF Next, Push, Pop

\* The two processes see one bounded FIFO queue of whole messages, whoever closes or
\* dies at whatever point of an operation: no message is lost, duplicated,
\* reordered or torn, but for the one a try_pop<T> of another size consumes.
THEOREM ImplementsFifo ==
  ASSUME FitsOnOpen
  PROVE  Spec => FifoSpec
<1>1. Spec => []IInv
  BY InvariantHolds
<1>. QED
  BY <1>1, FifoInit, FifoStep, PTL DEF Spec, FifoSpec
=============================================================================
