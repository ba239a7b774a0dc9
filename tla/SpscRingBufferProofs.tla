------------------------ MODULE SpscRingBufferProofs ------------------------
(***************************************************************************)
(* The theorems about SpscRingBuffer, for every capacity, word size and    *)
(* set of values, with and without lifetimes, throwing constructors and    *)
(* stale loads.                                                            *)
(*                                                                         *)
(* The last part shows that the ring implements BoundedFifo: its initial   *)
(* state is the empty queue and every step of it is a step of the queue or *)
(* leaves the queue alone.  Only five steps of the ring are steps of the   *)
(* queue that change what it holds or answers: the two release stores, the *)
(* two refusals, and clear.                                                *)
(***************************************************************************)
EXTENDS SpscRingBuffer, RingIndexProofs

-----------------------------------------------------------------------------
\* A load returns an index between the one already seen and the current one.
LEMMA VisibleRange ==
  ASSUME NEW a \in Word, NEW seen \in Word, NEW current \in Word,
         Sub(a, current) <= Sub(a, seen),
         NEW x \in Visible(seen, current)
  PROVE  /\ x \in Word
         /\ Sub(a, current) <= Sub(a, x)
         /\ Sub(a, x) <= Sub(a, seen)
<1>1. CASE StaleReads
  <2>1. x \in Word /\ Sub(x, seen) <= Sub(current, seen)
    BY <1>1 DEF Visible
  <2>. QED
    BY <2>1, SubBetween
<1>2. CASE ~StaleReads
  <2>1. x = current
    BY <1>2 DEF Visible
  <2>. QED
    BY <2>1, SubFacts DEF Word
<1>. QED
  BY <1>1, <1>2

-----------------------------------------------------------------------------
(* The indices *)

\* The part of the invariant that does not look into the slots.
IndexInv == TypeOK /\ IndexOrder /\ Progress /\ Promises

\* The distances behind producer_index_ are numbers, 0 for itself.
LEMMA Lags ==
  ASSUME TypeOK
  PROVE  /\ Lag(producer_index_) = 0
         /\ \A x \in Word : Lag(x) \in Word
<1>1. producer_index_ \in Word
  BY DEF TypeOK
<1>. QED
  BY <1>1, SubFacts DEF Lag

\* A new ring, all of whose indices are 0, satisfies the invariant.
LEMMA IInvInit == Init => IInv
<1>. SUFFICES ASSUME Init PROVE IInv
  OBVIOUS
<1>1. 0 \in Word
  BY WordFacts DEF Word
<1>2. Sub(0, 0) = 0
  BY <1>1, SubFacts
<1>3. TypeOK
  <2>1. slots_ \in [SlotIds -> Values \cup {None}]
    BY DEF Init
  <2>2. {promised_pushes, promised_pops} \subseteq 0 .. Capacity
    BY WordFacts DEF Init
  <2>. QED
    BY <1>1, <2>1, <2>2 DEF Init, TypeOK
<1>4. IndexOrder /\ Promises
  BY <1>2, WordFacts DEF Init, IndexOrder, Promises, Lag
<1>5. Progress
  BY DEF Init, Progress
<1>6. Alive = {}
  BY <1>2 DEF Init, Alive, Occupied
<1>7. SlotContents
  BY <1>6 DEF Init, SlotContents
<1>. QED
  BY <1>3, <1>4, <1>5, <1>7 DEF IInv

\* The call of emplace moves no index.
LEMMA EmplaceCallIndices ==
  ASSUME IndexInv, NEW v \in Values, EmplaceCall(v)
  PROVE  IndexInv'
BY DEF IndexInv, EmplaceCall, TypeOK, IndexOrder, Progress, Promises, Lag,
       CacheSaysFull, consumerVars

\* A refused emplace keeps the indices in order: what it loads and caches lies
\* between what the producer had seen and the consumer's index.
LEMMA EmplaceFullIndices ==
  ASSUME IndexInv, EmplaceFull
  PROVE  IndexInv' /\ promised_pushes = 0
<1>1. PICK x \in Word : LoadConsumerIndex(x) /\ Sub(producer_index_, x) = Capacity
  BY DEF EmplaceFull
<1>2. /\ Lag(consumer_index_) <= Lag(x)
      /\ Lag(x) <= Lag(producer_seen)
  BY <1>1, VisibleRange DEF LoadConsumerIndex, Lag, IndexInv, TypeOK, IndexOrder
<1>3. TypeOK'
  BY <1>1 DEF EmplaceFull, LoadConsumerIndex, IndexInv, TypeOK, consumerVars
<1>4. IndexOrder'
  BY <1>1, <1>2, Lags, WordFacts DEF EmplaceFull, LoadConsumerIndex, IndexInv, IndexOrder,
     Lag, consumerVars, Word, TypeOK
<1>5. Progress'
  BY DEF EmplaceFull, IndexInv, Progress, consumerVars
<1>6. promised_pushes = 0
  BY <1>1, <1>2, Lags, WordFacts DEF IndexInv, Promises, Lag, TypeOK, Word, IndexOrder
<1>7. Promises'
  BY <1>1, <1>6, WordFacts DEF EmplaceFull, LoadConsumerIndex, IndexInv, Promises, Lag,
     consumerVars
<1>. QED
  BY <1>3, <1>4, <1>5, <1>6, <1>7 DEF IndexInv

\* What the producer's acquire load gives it.
LEMMA LoadConsumerRange ==
  ASSUME IndexInv, NEW x \in Visible(producer_seen, consumer_index_)
  PROVE  /\ x \in Word
         /\ Lag(consumer_index_) <= Lag(x)
         /\ Lag(x) <= Lag(producer_seen)
BY VisibleRange DEF Lag, IndexInv, TypeOK, IndexOrder

\* What the consumer's acquire load gives it.
LEMMA LoadProducerRange ==
  ASSUME IndexInv, NEW x \in Visible(consumer_seen, producer_index_)
  PROVE  /\ x \in Word
         /\ 0 <= Lag(x)
         /\ Lag(x) <= Lag(consumer_seen)
<1>1. Lag(producer_index_) = 0 /\ 0 <= Lag(consumer_seen)
  BY Lags DEF IndexInv, TypeOK, Word
<1>. QED
  BY <1>1, VisibleRange DEF Lag, IndexInv, TypeOK

\* An emplace whose load finds room keeps the indices in order, and its cache
\* no longer says full.
LEMMA EmplaceRefreshIndices ==
  ASSUME IndexInv, EmplaceRefresh
  PROVE  IndexInv'
<1>1. PICK x \in Word : LoadConsumerIndex(x) /\ Sub(producer_index_, x) # Capacity
  BY DEF EmplaceRefresh
<1>2. /\ Lag(consumer_index_) <= Lag(x)
      /\ Lag(x) <= Lag(producer_seen)
  BY <1>1, LoadConsumerRange DEF LoadConsumerIndex
<1>3. TypeOK'
  BY <1>1 DEF EmplaceRefresh, LoadConsumerIndex, IndexInv, TypeOK, consumerVars
<1>4. IndexOrder'
  BY <1>1, <1>2, Lags, WordFacts DEF EmplaceRefresh, LoadConsumerIndex,
     IndexInv, IndexOrder, Lag, consumerVars, Word, TypeOK
<1>5. Progress'
  BY <1>1 DEF EmplaceRefresh, LoadConsumerIndex, IndexInv, Progress,
     CacheSaysFull, consumerVars
<1>6. Promises'
  BY <1>1, <1>2, Lags, WordFacts DEF EmplaceRefresh, LoadConsumerIndex,
     IndexInv, Promises, Lag, consumerVars, TypeOK, Word
<1>. QED
  BY <1>3, <1>4, <1>5, <1>6 DEF IndexInv

\* Writing the slot moves no index.
LEMMA ConstructIndices ==
  ASSUME IndexInv, Construct
  PROVE  IndexInv'
<1>1. TypeOK'
  <2>1. item \in Values
    BY DEF Construct, IndexInv, Progress
  <2>. QED
    BY <2>1 DEF Construct, IndexInv, TypeOK, consumerVars
<1>2. IndexOrder' /\ Promises'
  BY DEF Construct, IndexInv, IndexOrder, Promises, Lag, consumerVars
<1>3. Progress'
  BY DEF Construct, IndexInv, Progress, CacheSaysFull, consumerVars
<1>. QED
  BY <1>1, <1>2, <1>3 DEF IndexInv

\* A constructor that throws moves no index.
LEMMA ConstructThrowsIndices ==
  ASSUME IndexInv, ConstructThrows
  PROVE  IndexInv'
BY DEF ConstructThrows, IndexInv, TypeOK, IndexOrder, Progress, Promises, Lag,
       CacheSaysFull, consumerVars

\* Publishing a push puts every index one further behind.
LEMMA PublishPushLags ==
  ASSUME IndexInv, PublishPush
  PROVE  /\ producer_index_' \in Word
         /\ Lag(producer_cached_consumer_) < Capacity
         /\ \A x \in Word :
              Lag(x) <= Capacity => Sub(producer_index_', x) = Lag(x) + 1
<1>1. producer_index_ \in Word /\ producer_index_' = Inc(producer_index_)
  BY DEF PublishPush, IndexInv, TypeOK
<1>2. producer_index_' \in Word
  BY <1>1, WordFacts DEF Inc, Word
<1>3. Lag(producer_cached_consumer_) < Capacity
  BY Lags, WordFacts DEF PublishPush, IndexInv, Progress, CacheSaysFull, IndexOrder,
     Lag, TypeOK, Word
<1>4. ASSUME NEW x \in Word, Lag(x) <= Capacity
      PROVE  Sub(producer_index_', x) = Lag(x) + 1
  <2>1. Sub(producer_index_, x) < WordSize - 1
    BY <1>1, <1>4, SubFacts, WordFacts DEF Lag, Word
  <2>2. Sub(Inc(producer_index_), x) = Sub(producer_index_, x) + 1
    BY <1>1, <2>1, SubIncLeft
  <2>. QED
    BY <1>1, <2>2 DEF Lag
<1>. QED
  BY <1>2, <1>3, <1>4

\* The release store of a push lengthens every lag by one, and the cache that
\* did not say full leaves room for that.
LEMMA PublishPushIndices ==
  ASSUME IndexInv, PublishPush
  PROVE  IndexInv'
<1>. DEFINE Others == {producer_cached_consumer_, producer_seen, consumer_index_,
                       consumer_cached_producer_, consumer_seen}
<1>1. /\ producer_index_' \in Word
      /\ Lag(producer_cached_consumer_) < Capacity
      /\ \A x \in Others : 
             /\ x \in Word
             /\ Lag(x) \in Int
             /\ Sub(producer_index_', x) = Lag(x) + 1
  BY PublishPushLags, Lags, WordFacts DEF IndexInv, IndexOrder, TypeOK, Word
<1>2. TypeOK'
  BY <1>1, WordFacts DEF PublishPush, IndexInv, TypeOK, consumerVars, OneLess
<1>3. IndexOrder'
  BY <1>1, WordFacts DEF PublishPush, IndexInv, IndexOrder, Lag, consumerVars
<1>4. Progress'
  BY DEF PublishPush, IndexInv, Progress, consumerVars
<1>5. Promises'
  BY <1>1, WordFacts DEF PublishPush, IndexInv, IndexOrder, Promises, Lag, OneLess,
     TypeOK, consumerVars
<1>. QED
  BY <1>2, <1>3, <1>4, <1>5 DEF IndexInv

\* full() keeps the indices in order, and its promise of one push is covered by
\* what it has seen.
LEMMA FullIndices ==
  ASSUME IndexInv, Full
  PROVE  IndexInv'
<1>1. PICK x \in Word :
        /\ producer_cached_consumer_' = x
        /\ Lag(consumer_index_) <= Lag(x)
        /\ Lag(x) <= Lag(producer_cached_consumer_)
        /\ Lag(consumer_index_) <= Lag(producer_seen')
        /\ Lag(producer_seen') <= Lag(x)
        /\ Lag(producer_seen') <= Lag(producer_seen)
        /\ producer_seen' \in Word
  <2>1. CASE CacheSaysFull
    <3>1. PICK x \in Word : LoadConsumerIndex(x)
      BY <2>1 DEF Full
    <3>. QED
      BY <3>1, LoadConsumerRange, Lags, WordFacts
      DEF LoadConsumerIndex, IndexInv, IndexOrder, TypeOK, Word
  <2>2. CASE ~CacheSaysFull
    BY <2>2, Lags, WordFacts DEF Full, IndexInv, IndexOrder, TypeOK, Word
  <2>. QED
    BY <2>1, <2>2
<1>2. producer_index_' = producer_index_ /\ UNCHANGED consumerVars
  BY DEF Full
<1>3. TypeOK'
  BY <1>1, <1>2, WordFacts DEF Full, IndexInv, TypeOK, consumerVars, Greater
<1>4. IndexOrder'
  BY <1>1, <1>2, Lags, WordFacts
  DEF IndexInv, IndexOrder, Lag, consumerVars, Word, TypeOK
<1>5. Progress'
  BY DEF Full, IndexInv, Progress, consumerVars
<1>6. Promises'
  <2>1. promised_pushes' <= Capacity - Lag(producer_seen')
    BY <1>1, <1>2, Lags, WordFacts
    DEF Full, IndexInv, IndexOrder, Promises, Lag, Word, TypeOK, Greater
  <2>. QED
    BY <1>2, <2>1 DEF IndexInv, Promises, Lag, consumerVars
<1>. QED
  BY <1>3, <1>4, <1>5, <1>6 DEF IndexInv

\* size() called by the producer keeps the indices in order, and the pushes it
\* promises are covered by what it has seen.
LEMMA ProducerSizeIndices ==
  ASSUME IndexInv, ProducerSize
  PROVE  IndexInv'
<1>1. PICK x \in Visible(producer_seen, consumer_index_) :
        /\ producer_seen' = x
        /\ promised_pushes' = Greater(promised_pushes, Capacity - Lag(x))
  BY DEF ProducerSize, Lag
<1>2. /\ x \in Word
      /\ Lag(consumer_index_) <= Lag(x)
      /\ Lag(x) <= Lag(producer_seen)
  BY LoadConsumerRange
<1>3. TypeOK'
  BY <1>1, <1>2, Lags, WordFacts
  DEF ProducerSize, IndexInv, IndexOrder, TypeOK, consumerVars, Greater, Word
<1>4. IndexOrder'
  BY <1>1, <1>2, Lags, WordFacts
  DEF ProducerSize, IndexInv, IndexOrder, Lag, consumerVars, Word, TypeOK
<1>5. Progress'
  BY DEF ProducerSize, IndexInv, Progress, CacheSaysFull, consumerVars
<1>6. Promises'
  BY <1>1, <1>2, Lags, WordFacts
  DEF ProducerSize, IndexInv, Promises, Lag, consumerVars, Word, TypeOK, Greater
<1>. QED
  BY <1>3, <1>4, <1>5, <1>6 DEF IndexInv

\* The call of try_pop moves no index.
LEMMA TryPopCallIndices ==
  ASSUME IndexInv, TryPopCall
  PROVE  IndexInv'
BY DEF TryPopCall, IndexInv, TypeOK, IndexOrder, Progress, Promises, Lag,
       CacheSaysFull, producerVars

\* A refused try_pop keeps the indices in order.
LEMMA TryPopEmptyIndices ==
  ASSUME IndexInv, TryPopEmpty
  PROVE  IndexInv' /\ promised_pops = 0
<1>1. LoadProducerIndex(consumer_index_)
  BY DEF TryPopEmpty
<1>2. Lag(consumer_index_) <= Lag(consumer_seen)
  BY <1>1, LoadProducerRange DEF LoadProducerIndex
<1>3. Lag(consumer_index_) = Lag(consumer_seen)
  BY <1>2, Lags DEF IndexInv, IndexOrder, TypeOK, Word
<1>4. promised_pops = 0
  BY <1>3, Lags, WordFacts DEF IndexInv, Promises, TypeOK, Word
<1>5. TypeOK'
  BY <1>1 DEF TryPopEmpty, LoadProducerIndex, IndexInv, TypeOK, producerVars
<1>6. IndexOrder'
  BY <1>1, <1>2, Lags, WordFacts DEF TryPopEmpty, LoadProducerIndex, IndexInv,
     IndexOrder, Lag, producerVars, Word, TypeOK
<1>7. Progress'
  BY DEF TryPopEmpty, IndexInv, Progress, CacheSaysFull, producerVars
<1>8. Promises'
  BY <1>1, <1>4, Lags, WordFacts DEF TryPopEmpty, LoadProducerIndex, IndexInv,
     Promises, Lag, producerVars, TypeOK, Word
<1>. QED
  BY <1>4, <1>5, <1>6, <1>7, <1>8 DEF IndexInv

\* A try_pop whose load finds a value keeps the indices in order.
LEMMA TryPopRefreshIndices ==
  ASSUME IndexInv, TryPopRefresh
  PROVE  IndexInv'
<1>1. PICK x \in Word : LoadProducerIndex(x) /\ x # consumer_index_
  BY DEF TryPopRefresh
<1>2. /\ 0 <= Lag(x)
      /\ Lag(x) <= Lag(consumer_seen)
  BY <1>1, LoadProducerRange DEF LoadProducerIndex
<1>3. TypeOK'
  BY <1>1 DEF TryPopRefresh, LoadProducerIndex, IndexInv, TypeOK, producerVars
<1>4. IndexOrder'
  BY <1>1, <1>2, Lags, WordFacts DEF TryPopRefresh, LoadProducerIndex, IndexInv,
     IndexOrder, Lag, producerVars, Word, TypeOK
<1>5. Progress'
  BY <1>1 DEF TryPopRefresh, LoadProducerIndex, IndexInv, Progress,
     CacheSaysFull, producerVars
<1>6. Promises'
  BY <1>1, <1>2, Lags, WordFacts DEF TryPopRefresh, LoadProducerIndex, IndexInv,
     Promises, Lag, producerVars, TypeOK, Word
<1>. QED
  BY <1>3, <1>4, <1>5, <1>6 DEF IndexInv

\* At the point of moving a value out there is one that has been published.
LEMMA ConsumerHoldsValue ==
  ASSUME IndexInv, consumer_pc \in {"take", "publish"}
  PROVE  /\ Lag(consumer_cached_producer_) < Lag(consumer_index_)
         /\ Lag(consumer_index_) \in 1 .. Capacity
<1>1. consumer_index_ # consumer_cached_producer_
  BY DEF IndexInv, Progress
<1>2. Lag(consumer_index_) # Lag(consumer_cached_producer_)
  BY <1>1, SubInjective DEF IndexInv, TypeOK, Lag
<1>. QED
  BY <1>2, Lags, WordFacts DEF IndexInv, IndexOrder, TypeOK, Word

\* Moving the value out of its slot moves no index.
LEMMA TakeIndices ==
  ASSUME IndexInv, Take, slots_[Slot(consumer_index_)] \in Values
  PROVE  IndexInv'
<1>1. TypeOK'
  <2>1. slots_' \in [SlotIds -> Values \cup {None}]
    BY DEF Take, Vacated, IndexInv, TypeOK
  <2>. QED
    BY <2>1 DEF Take, IndexInv, TypeOK, producerVars
<1>2. IndexOrder' /\ Promises'
  BY DEF Take, IndexInv, IndexOrder, Promises, Lag, producerVars
<1>3. Progress'
  BY DEF Take, IndexInv, Progress, CacheSaysFull, producerVars
<1>. QED
  BY <1>1, <1>2, <1>3 DEF IndexInv

\* A move that throws moves no index.
LEMMA TakeThrowsIndices ==
  ASSUME IndexInv, TakeThrows
  PROVE  IndexInv'
BY DEF TakeThrows, IndexInv, TypeOK, IndexOrder, Progress, Promises, Lag,
       CacheSaysFull, producerVars

\* The release store of a pop brings the consumer one closer to the producer.
LEMMA PublishPopLag ==
  ASSUME IndexInv, PublishPop
  PROVE  /\ consumer_index_' \in Word
         /\ Lag(consumer_index_)' = Lag(consumer_index_) - 1
<1>1. Lag(producer_index_) = 0 /\ Lag(consumer_index_) >= 1
  BY ConsumerHoldsValue, Lags, WordFacts DEF PublishPop, IndexInv
<1>2. producer_index_ # consumer_index_
  BY <1>1
<1>. QED
  BY <1>2, SubIncRight DEF PublishPop, IndexInv, TypeOK, Lag, producerVars

\* The release store of a pop keeps the consumer behind what it has cached.
LEMMA PublishPopIndices ==
  ASSUME IndexInv, PublishPop
  PROVE  IndexInv'
<1>1. /\ consumer_index_' \in Word
      /\ Lag(consumer_index_)' = Lag(consumer_index_) - 1
      /\ Lag(consumer_cached_producer_) < Lag(consumer_index_)
  BY PublishPopLag, ConsumerHoldsValue DEF PublishPop
<1>3. UNCHANGED producerVars /\ UNCHANGED <<consumer_cached_producer_, consumer_seen>>
  BY DEF PublishPop
<1>4. TypeOK'
  BY <1>1, WordFacts DEF PublishPop, IndexInv, TypeOK, producerVars, OneLess
<1>5. IndexOrder'
  BY <1>1, <1>3, Lags, WordFacts DEF IndexInv, IndexOrder, Lag, producerVars, Word,
     TypeOK
<1>6. Progress'
  BY <1>3 DEF PublishPop, IndexInv, Progress, CacheSaysFull, producerVars
<1>7. Promises'
  BY <1>1, <1>3, Lags, WordFacts DEF PublishPop, IndexInv, IndexOrder, Promises,
     Lag, OneLess, TypeOK, producerVars, Word
<1>. QED
  BY <1>4, <1>5, <1>6, <1>7 DEF IndexInv

\* size() called by the consumer keeps the indices in order, and the pops it
\* promises are covered by what it has seen.
LEMMA ConsumerSizeIndices ==
  ASSUME IndexInv, ConsumerSize
  PROVE  IndexInv'
<1>1. PICK x \in Visible(consumer_seen, producer_index_) :
        /\ consumer_seen' = x
        /\ promised_pops' = Greater(promised_pops, Sub(x, consumer_index_))
  BY DEF ConsumerSize
<1>2. /\ x \in Word
      /\ 0 <= Lag(x)
      /\ Lag(x) <= Lag(consumer_seen)
  BY LoadProducerRange
<1>3. Lag(x) <= Lag(consumer_index_)
  BY <1>2, Lags DEF IndexInv, IndexOrder, TypeOK, Word
<1>4. Sub(x, consumer_index_) = Lag(consumer_index_) - Lag(x)
  BY <1>2, <1>3, SubDifference DEF IndexInv, TypeOK, Lag
<1>5. TypeOK'
  BY <1>1, <1>2, <1>4, Lags, WordFacts
  DEF ConsumerSize, IndexInv, IndexOrder, TypeOK, producerVars, Greater, Word
<1>6. IndexOrder'
  BY <1>1, <1>2, Lags, WordFacts
  DEF ConsumerSize, IndexInv, IndexOrder, Lag, producerVars, Word, TypeOK
<1>7. Progress'
  BY DEF ConsumerSize, IndexInv, Progress, CacheSaysFull, producerVars
<1>8. Promises'
  BY <1>1, <1>2, <1>4, Lags, WordFacts
  DEF ConsumerSize, IndexInv, Promises, Lag, producerVars, Word, TypeOK, Greater
<1>. QED
  BY <1>5, <1>6, <1>7, <1>8 DEF IndexInv

\* clear() brings all the indices and caches together.
LEMMA ClearIndices ==
  ASSUME IndexInv, Clear
  PROVE  IndexInv'
<1>1. TypeOK'
  <2>1. slots_' \in [SlotIds -> Values \cup {None}]
    BY DEF Clear, ResetCaches, Vacated, IndexInv, TypeOK
  <2>. QED
    BY <2>1, WordFacts DEF Clear, ResetCaches, IndexInv, TypeOK
<1>2. Lag(producer_index_) = 0
  BY Lags DEF IndexInv
<1>3. IndexOrder'
  BY <1>2, WordFacts DEF Clear, ResetCaches, IndexOrder, Lag
<1>4. Progress'
  BY DEF Clear, ResetCaches, IndexInv, Progress
<1>5. Promises'
  BY <1>2, WordFacts DEF Clear, ResetCaches, IndexInv, TypeOK, Promises, Lag
<1>. QED
  BY <1>1, <1>3, <1>4, <1>5 DEF IndexInv

-----------------------------------------------------------------------------
(* The slots *)

\* Indices whose distances behind the producer differ by less than a lap have
\* slots of their own.
LEMMA NearbyDistinct ==
  ASSUME IndexInv, NEW x \in Word, NEW y \in Word, x # y,
         Lag(x) - Lag(y) < Capacity, Lag(y) - Lag(x) < Capacity
  PROVE  Slot(x) # Slot(y)
<1>1. /\ producer_index_ \in Word
      /\ Lag(x) \in Int
      /\ Lag(y) \in Int
  BY Lags DEF IndexInv, TypeOK, Word
<1>2. CASE Lag(x) <= Lag(y)
  <2>1. Sub(x, y) = Lag(y) - Lag(x)
    BY <1>1, <1>2, SubDifference DEF Lag
  <2>. QED
    BY <2>1, SlotsDistinct
<1>3. CASE Lag(y) <= Lag(x)
  <2>1. Sub(y, x) = Lag(x) - Lag(y)
    BY <1>1, <1>3, SubDifference DEF Lag
  <2>. QED
    BY <2>1, SlotsDistinct
<1>. QED
  BY <1>1, <1>2, <1>3

\* The occupied indices are at most Capacity behind the producer.
LEMMA OccupiedLags ==
  ASSUME IndexInv, NEW x \in Occupied
  PROVE  /\ x \in Word
         /\ Lag(x) \in 1 .. Lag(consumer_index_)
         /\ Lag(consumer_index_) \in 0 .. Capacity
BY Lags, WordFacts DEF Occupied, Lag, IndexInv, IndexOrder, TypeOK, Word

\* While emplace is filling a slot, that slot belongs to no occupied index.
LEMMA ProducerSlotFree ==
  ASSUME IndexInv, producer_pc \in {"construct", "publish"}, NEW x \in Occupied
  PROVE  x # producer_index_ /\ Slot(x) # Slot(producer_index_)
<1>1. /\ Lag(producer_cached_consumer_) # Capacity
      /\ Lag(producer_index_) = 0
      /\ producer_index_ \in Word
  BY Lags DEF IndexInv, Progress, CacheSaysFull, Lag, TypeOK
<1>2. Lag(consumer_index_) < Capacity
  BY <1>1, Lags, WordFacts DEF IndexInv, IndexOrder, TypeOK, Word
<1>3. x \in Word /\ Lag(x) \in 1 .. Capacity - 1
  BY <1>2, OccupiedLags, WordFacts
<1>. QED
  BY <1>1, <1>3, NearbyDistinct, WordFacts

\* The consumer's index is occupied while it has a value to deliver, and its
\* slot belongs to no other index.
LEMMA ConsumerSlotApart ==
  ASSUME IndexInv, consumer_pc \in {"take", "publish"}
  PROVE  /\ consumer_index_ \in Occupied
         /\ \A x \in Occupied : x # consumer_index_ => Slot(x) # Slot(consumer_index_)
<1>1. Lag(consumer_index_) \in 1 .. Capacity /\ consumer_index_ \in Word
  BY ConsumerHoldsValue DEF IndexInv, TypeOK
<1>2. consumer_index_ \in Occupied
  BY <1>1 DEF Occupied, Lag
<1>3. ASSUME NEW x \in Occupied, x # consumer_index_
      PROVE  Slot(x) # Slot(consumer_index_)
  BY <1>1, <1>3, OccupiedLags, NearbyDistinct, WordFacts
<1>. QED
  BY <1>2, <1>3

\* A step that moves no published index and touches no slot keeps what the
\* slots hold.
LEMMA SlotsUntouched ==
  ASSUME SlotContents,
         UNCHANGED <<producer_index_, consumer_index_, slots_>>,
         producer_pc' = "publish" <=> producer_pc = "publish",
         consumer_pc' = "publish" <=> consumer_pc = "publish",
         producer_pc = "publish" => item' = item
  PROVE  SlotContents'
<1>1. Occupied' = Occupied
  BY DEF Occupied
<1>2. Alive' = Alive
  BY <1>1 DEF Alive
<1>. QED
  BY <1>2 DEF SlotContents

\* The slot emplace writes is that of no value in the ring, and holds the item
\* afterwards.
LEMMA ConstructSlots ==
  ASSUME IndexInv, SlotContents, Construct
  PROVE  SlotContents'
<1>. DEFINE p == producer_index_
<1>1. /\ p \in Word /\ Slot(p) \in SlotIds
      /\ slots_ \in [SlotIds -> Values \cup {None}]
      /\ item \in Values
  BY SlotInRange DEF IndexInv, TypeOK, Progress, Construct
<1>2. slots_' = [slots_ EXCEPT ![Slot(p)] = item]
  BY DEF Construct
<1>3. Occupied' = Occupied
  BY DEF Construct, Occupied, consumerVars
<1>4. Alive' = Alive \cup {p} /\ Alive \subseteq Occupied
  BY <1>3 DEF Construct, Alive, consumerVars
<1>5. \A x \in Alive : Slot(x) \in SlotIds /\ Slot(x) # Slot(p)
  BY <1>4, ProducerSlotFree, SlotInRange DEF Construct, Occupied
<1>6. \A x \in Alive' : slots_'[Slot(x)] \in Values
  BY <1>1, <1>2, <1>4, <1>5 DEF SlotContents
<1>7. slots_'[Slot(p)] = item
  BY <1>1, <1>2
<1>8. ASSUME ~Trivial, NEW s \in SlotIds, slots_'[s] # None
      PROVE  \E x \in Alive' : Slot(x) = s
  <2>1. CASE s = Slot(p)
    BY <2>1, <1>4
  <2>2. CASE s # Slot(p)
    BY <2>2, <1>1, <1>2, <1>4, <1>8 DEF SlotContents
  <2>. QED
    BY <2>1, <2>2
<1>. QED
  BY <1>6, <1>7, <1>8 DEF SlotContents, Construct

\* The release store of a push adds the slot just written to those in the ring.
LEMMA PublishPushSlots ==
  ASSUME IndexInv, SlotContents, PublishPush
  PROVE  SlotContents'
<1>. DEFINE p == producer_index_
<1>1. p \in Word /\ consumer_index_ \in Word /\ p' = Inc(p)
  BY DEF IndexInv, TypeOK, PublishPush
<1>2. /\ Sub(p', consumer_index_) = Lag(consumer_index_) + 1
      /\ Lag(consumer_index_) \in 0 .. Capacity - 1
  <2>1. Lag(consumer_index_) \in 0 .. Capacity - 1
    BY PublishPushLags, Lags, WordFacts DEF IndexInv, IndexOrder, TypeOK, Word
  <2>2. Lag(consumer_index_) <= Capacity
    BY <2>1, WordFacts
  <2>. QED
    BY <1>1, <2>1, <2>2, PublishPushLags
<1>3. \A x \in Word : x \in Occupied' <=> x \in Occupied \/ x = p
  <2>1. \A x \in Word : x \in Occupied' <=> Sub(p', x) \in 1 .. Lag(consumer_index_) + 1
    BY <1>2 DEF Occupied, PublishPush, consumerVars
  <2>2. ASSUME NEW x \in Word
        PROVE  Sub(Inc(p), x) \in 1 .. Lag(consumer_index_) + 1
                 <=> Sub(p, x) \in 1 .. Lag(consumer_index_) \/ x = p
    BY <1>1, <1>2, WordFacts DEF Sub, Inc, Word
  <2>. QED
    BY <1>1, <2>1, <2>2 DEF Occupied, Lag
<1>4. Occupied' = Occupied \cup {p}
  BY <1>1, <1>3 DEF Occupied
<1>5. consumer_pc = "publish" => consumer_index_ # p
  BY ConsumerSlotApart, ProducerSlotFree DEF PublishPush
<1>6. Alive' = Alive
  BY <1>4, <1>5 DEF Alive, PublishPush, consumerVars
<1>. QED
  BY <1>6 DEF SlotContents, PublishPush

\* try_pop vacates the slot of the oldest value and no other.
LEMMA TakeSlots ==
  ASSUME IndexInv, SlotContents, Take
  PROVE  SlotContents' /\ slots_[Slot(consumer_index_)] \in Values
<1>. DEFINE c == consumer_index_
<1>1. c \in Occupied /\ \A x \in Occupied : x # c => Slot(x) # Slot(c)
  BY ConsumerSlotApart DEF Take
<1>2. /\ Slot(c) \in SlotIds
      /\ slots_ \in [SlotIds -> Values \cup {None}]
      /\ producer_index_ \in Word /\ Slot(producer_index_) \in SlotIds
  BY SlotInRange DEF IndexInv, TypeOK
<1>3. slots_' = [slots_ EXCEPT ![Slot(c)] = Vacated(slots_[Slot(c)])]
  BY DEF Take
<1>4. Occupied' = Occupied
  BY DEF Take, Occupied, producerVars
<1>5. /\ c \in Alive
      /\ Alive' = Alive \ {c}
      /\ \A x \in Alive' : Slot(x) \in SlotIds /\ Slot(x) # Slot(c)
      /\ producer_pc = "publish" => Slot(producer_index_) # Slot(c)
  <2>1. producer_pc = "publish" =>
          Slot(producer_index_) # Slot(c) /\ producer_index_ # c
    BY <1>1, ProducerSlotFree
  <2>. QED
    BY <1>1, <1>2, <1>4, <2>1, SlotInRange DEF Alive, Take, Occupied, producerVars
<1>6. \A x \in Alive' : slots_'[Slot(x)] \in Values
  BY <1>2, <1>3, <1>5 DEF SlotContents
<1>7. producer_pc' = "publish" => slots_'[Slot(producer_index_)] = item
  BY <1>2, <1>3, <1>5 DEF SlotContents, Take, producerVars
<1>8. ASSUME ~Trivial, NEW s \in SlotIds, slots_'[s] # None
      PROVE  \E x \in Alive' : Slot(x) = s
  <2>1. s # Slot(c) /\ slots_[s] # None
    BY <1>2, <1>3, <1>8 DEF Vacated
  <2>. QED
    BY <2>1, <1>5, <1>8 DEF SlotContents
<1>. QED
  BY <1>5, <1>6, <1>7, <1>8 DEF SlotContents, Take, producerVars

\* The release store of a pop takes the vacated slot out of the ring.
LEMMA PublishPopSlots ==
  ASSUME IndexInv, SlotContents, PublishPop
  PROVE  SlotContents'
<1>. DEFINE c == consumer_index_
<1>1. c \in Occupied /\ c \in Word /\ producer_index_ \in Word
  BY ConsumerSlotApart DEF PublishPop, IndexInv, TypeOK
<1>2. Sub(producer_index_, c') = Lag(c) - 1 /\ producer_index_' = producer_index_
  BY PublishPopLag DEF Lag, PublishPop, producerVars
<1>3. ASSUME NEW x \in Word
      PROVE  x \in Occupied' <=> x \in Occupied /\ x # c
  <2>1. Lag(x) \in Int /\ Lag(c) \in Int /\ (Lag(x) = Lag(c) <=> x = c)
    BY <1>1, Lags, SubInjective DEF IndexInv, Lag, Word
  <2>2. x \in Occupied' <=> Lag(x) \in 1 .. Lag(c) - 1
    BY <1>2 DEF Occupied, Lag
  <2>. QED
    BY <2>1, <2>2 DEF Occupied, Lag
<1>4. Occupied' = Occupied \ {c}
  BY <1>3 DEF Occupied
<1>5. producer_pc = "publish" => producer_index_ # c
  BY <1>1, ProducerSlotFree
<1>6. Alive' = Alive
  BY <1>4, <1>5 DEF Alive, PublishPop, producerVars
<1>. QED
  BY <1>6 DEF SlotContents, PublishPop, producerVars

\* clear() vacates the slots of the values in the ring and leaves none.
LEMMA ClearSlots ==
  ASSUME IndexInv, SlotContents, Clear
  PROVE  SlotContents'
<1>1. Occupied' = {}
  <2>1. Sub(producer_index_, producer_index_) = 0
    BY SubFacts DEF IndexInv, TypeOK
  <2>. QED
    BY <2>1 DEF Occupied, Clear
<1>2. Alive' = {} /\ Alive = Occupied
  BY <1>1 DEF Alive, Clear
<1>3. ASSUME ~Trivial, NEW s \in SlotIds
      PROVE  slots_'[s] = None
  <2>1. CASE \E x \in Occupied : Slot(x) = s
    BY <2>1, <1>3 DEF Clear, ResetCaches, Vacated
  <2>2. CASE ~ \E x \in Occupied : Slot(x) = s
    BY <2>2, <1>2, <1>3 DEF Clear, ResetCaches, SlotContents
  <2>. QED
    BY <2>1, <2>2
<1>. QED
  BY <1>2, <1>3 DEF SlotContents, Clear

-----------------------------------------------------------------------------
(* The inductive invariant and what follows from it *)

\* The invariant without and with what the slots hold.
LEMMA SplitInv == IInv <=> IndexInv /\ SlotContents
BY DEF IInv, IndexInv

\* Every step keeps the invariant: one case per action.
LEMMA IInvStep == IInv /\ [Next]_vars => IInv'
<1>. SUFFICES ASSUME IndexInv, SlotContents, [Next]_vars
              PROVE  IndexInv' /\ SlotContents'
  BY SplitInv DEF IInv, IndexInv
<1>1. CASE \E v \in Values : EmplaceCall(v)
  <2>. PICK v \in Values : EmplaceCall(v)
    BY <1>1
  <2>1. IndexInv'
    BY EmplaceCallIndices
  <2>2. SlotContents'
    BY SlotsUntouched DEF EmplaceCall, consumerVars
  <2>. QED
    BY <2>1, <2>2
<1>2. CASE EmplaceFull
  <2>1. SlotContents'
    BY <1>2, SlotsUntouched DEF EmplaceFull, consumerVars
  <2>. QED
    BY <1>2, <2>1, EmplaceFullIndices
<1>3. CASE EmplaceRefresh
  <2>1. SlotContents'
    BY <1>3, SlotsUntouched DEF EmplaceRefresh, consumerVars
  <2>. QED
    BY <1>3, <2>1, EmplaceRefreshIndices
<1>4. CASE Construct
  BY <1>4, ConstructIndices, ConstructSlots
<1>5. CASE ConstructThrows
  <2>1. SlotContents'
    BY <1>5, SlotsUntouched DEF ConstructThrows, consumerVars
  <2>. QED
    BY <1>5, <2>1, ConstructThrowsIndices
<1>6. CASE PublishPush
  BY <1>6, PublishPushIndices, PublishPushSlots
<1>7. CASE Full
  <2>1. SlotContents'
    BY <1>7, SlotsUntouched DEF Full, consumerVars
  <2>. QED
    BY <1>7, <2>1, FullIndices
<1>8. CASE ProducerSize
  <2>1. SlotContents'
    BY <1>8, SlotsUntouched DEF ProducerSize, consumerVars
  <2>. QED
    BY <1>8, <2>1, ProducerSizeIndices
<1>9. CASE TryPopCall
  <2>1. SlotContents'
    BY <1>9, SlotsUntouched DEF TryPopCall, producerVars
  <2>. QED
    BY <1>9, <2>1, TryPopCallIndices
<1>10. CASE TryPopEmpty
  <2>1. SlotContents'
    BY <1>10, SlotsUntouched DEF TryPopEmpty, producerVars
  <2>. QED
    BY <1>10, <2>1, TryPopEmptyIndices
<1>11. CASE TryPopRefresh
  <2>1. SlotContents'
    BY <1>11, SlotsUntouched DEF TryPopRefresh, producerVars
  <2>. QED
    BY <1>11, <2>1, TryPopRefreshIndices
<1>12. CASE Take
  BY <1>12, TakeSlots, TakeIndices
<1>13. CASE TakeThrows
  <2>1. SlotContents'
    BY <1>13, SlotsUntouched DEF TakeThrows, producerVars
  <2>. QED
    BY <1>13, <2>1, TakeThrowsIndices
<1>14. CASE PublishPop
  BY <1>14, PublishPopIndices, PublishPopSlots
<1>15. CASE ConsumerSize
  <2>1. SlotContents'
    BY <1>15, SlotsUntouched DEF ConsumerSize, producerVars
  <2>. QED
    BY <1>15, <2>1, ConsumerSizeIndices
<1>16. CASE Clear
  BY <1>16, ClearIndices, ClearSlots
<1>17. CASE UNCHANGED vars
  <2>1. IndexInv'
    BY <1>17 DEF vars, producerVars, consumerVars, IndexInv, TypeOK, IndexOrder,
       Progress, Promises, Lag, CacheSaysFull
  <2>2. SlotContents'
    BY <1>17, SlotsUntouched DEF vars, producerVars, consumerVars
  <2>. QED
    BY <2>1, <2>2
<1>. QED
  BY <1>1, <1>2, <1>3, <1>4, <1>5, <1>6, <1>7, <1>8, <1>9, <1>10, <1>11, <1>12,
     <1>13, <1>14, <1>15, <1>16, <1>17 DEF Next, Emplace, TryPop

\* The invariant of the ring: the order of the six indices, what each side
\* knows where, the promises, and what the slots hold.
THEOREM InvariantHolds == Spec => []IInv
<1>1. Init => IInv
  BY IInvInit
<1>. QED
  BY <1>1, IInvStep, PTL DEF Spec

\* Every variable keeps its type: in particular no index leaves the word and
\* no slot outside the ring is touched.
THEOREM TypeCorrect == Spec => []TypeOK
<1>1. IInv => TypeOK
  BY DEF IInv
<1>. QED
  BY <1>1, InvariantHolds, PTL

\* emplace and try_pop never touch a slot that the other side may still be
\* using, whatever the interleaving and however stale the loads.
THEOREM RaceFree == Spec => []NoDataRace
<1>1. IInv => NoDataRace
  <2>. SUFFICES ASSUME IndexInv PROVE NoDataRace
    BY SplitInv
  <2>1. ASSUME producer_pc = "construct"
        PROVE  Sub(producer_index_, producer_seen) < Capacity
    <3>1. Lag(producer_cached_consumer_) # Capacity
      BY <2>1 DEF IndexInv, Progress, CacheSaysFull, Lag
    <3>2. Lag(producer_seen) < Capacity
      BY <3>1, Lags, WordFacts DEF IndexInv, IndexOrder, TypeOK, Word
    <3>. QED
      BY <3>2 DEF Lag
  <2>2. ASSUME consumer_pc = "take"
        PROVE  consumer_index_ # consumer_seen
    <3>1. Lag(consumer_seen) < Lag(consumer_index_)
      BY <2>2, ConsumerHoldsValue, Lags DEF IndexInv, IndexOrder, TypeOK, Word
    <3>. QED
      BY <3>1, Lags DEF IndexInv, TypeOK, Word
  <2>3. ASSUME producer_pc = "construct", consumer_pc = "take"
        PROVE  Slot(producer_index_) # Slot(consumer_index_)
    BY <2>3, ConsumerSlotApart, ProducerSlotFree
  <2>. QED
    BY <2>1, <2>2, <2>3 DEF NoDataRace
<1>. QED
  BY <1>1, InvariantHolds, PTL

\* Objects live exactly in the slots the indices account for.
THEOREM LifetimesCorrect == Spec => []SlotLifetimes
<1>1. IInv => SlotLifetimes
  <2>. SUFFICES ASSUME IInv, ~Trivial
                PROVE  {s \in SlotIds : slots_[s] # None} = {Slot(x) : x \in Alive}
    BY DEF SlotLifetimes
  <2>1. ASSUME NEW s \in SlotIds, slots_[s] # None
        PROVE  \E x \in Alive : Slot(x) = s
    BY <2>1 DEF IInv, SlotContents
  <2>2. ASSUME NEW x \in Alive
        PROVE  Slot(x) \in SlotIds /\ slots_[Slot(x)] # None
    <3>1. x \in Word
      BY DEF Alive, Occupied, IInv, TypeOK
    <3>2. slots_[Slot(x)] \in Values
      BY DEF IInv, SlotContents
    <3>. QED
      BY <3>1, <3>2, SlotInRange, NoneAssumption
  <2>. QED
    BY <2>1, <2>2
<1>. QED
  BY <1>1, InvariantHolds, PTL

\* A push is refused only to a producer that was promised none, and a pop only
\* to a consumer that was promised none.
THEOREM PromisesAreKept == Spec => PromisesKept
<1>1. IInv /\ [Next]_vars =>
        [/\ EmplaceFull => promised_pushes = 0
         /\ TryPopEmpty => promised_pops = 0]_vars
  BY SplitInv, EmplaceFullIndices, TryPopEmptyIndices
<1>. QED
  BY <1>1, InvariantHolds, PTL DEF Spec, PromisesKept

-----------------------------------------------------------------------------
(* The sequence of values in the ring *)

\* The k-th index is occupied, and is k - 1 nearer to the producer.
LEMMA NthFacts ==
  ASSUME IndexInv, NEW k \in 1 .. Lag(consumer_index_)
  PROVE  /\ Nth(k) \in Word
         /\ Lag(Nth(k)) = Lag(consumer_index_) - k + 1
         /\ Nth(k) \in Occupied
         /\ k # 1 => Nth(k) # consumer_index_
         /\ Nth(1) = consumer_index_
<1>1. /\ producer_index_ \in Word /\ consumer_index_ \in Word
      /\ Lag(consumer_index_) \in 0 .. Capacity
  BY Lags, WordFacts DEF IndexInv, IndexOrder, TypeOK, Word
<1>2. Nth(k) \in Word /\ Nth(1) = consumer_index_
  BY <1>1, WordFacts DEF Nth, Ahead, Word
<1>3. Lag(Nth(k)) = Lag(consumer_index_) - k + 1
  BY <1>1, WordFacts DEF Nth, Ahead, Lag, Sub, Word
<1>4. Nth(k) \in Occupied
  BY <1>1, <1>2, <1>3 DEF Occupied, Lag
<1>5. k # 1 => Nth(k) # consumer_index_
  BY <1>1, <1>3
<1>. QED
  BY <1>2, <1>3, <1>4, <1>5

\* The k-th value.
ValueAt(k) ==
  IF k = 1 /\ consumer_pc = "publish" THEN out ELSE slots_[Slot(Nth(k))]

\* The queue the ring stands for: as long as the distance of the two indices,
\* and every element a pushed value.
QueueInRing ==
  /\ Contents \in Seq(Values)
  /\ Len(Contents) = Lag(consumer_index_)
  /\ Lag(consumer_index_) \in 0 .. Capacity
  /\ \A k \in 1 .. Lag(consumer_index_) :
        Contents[k] = ValueAt(k) /\ ValueAt(k) \in Values

\* In a state of the invariant the queue of the refinement mapping is a sequence
\* of at most Capacity values.
LEMMA ContentsFacts == IInv => QueueInRing
<1>. SUFFICES ASSUME IInv PROVE QueueInRing
  OBVIOUS
<1>1. IndexInv /\ SlotContents
  BY SplitInv
<1>2. Lag(consumer_index_) \in 0 .. Capacity
  BY <1>1, Lags, WordFacts DEF IndexInv, IndexOrder, TypeOK, Word
<1>3. ASSUME NEW k \in 1 .. Lag(consumer_index_)
      PROVE  ValueAt(k) \in Values
  <2>1. CASE k = 1 /\ consumer_pc = "publish"
    BY <2>1, <1>1 DEF ValueAt, IndexInv, Progress
  <2>2. CASE ~(k = 1 /\ consumer_pc = "publish")
    <3>1. Nth(k) \in Alive
      BY <2>2, <1>1, NthFacts DEF Alive
    <3>. QED
      BY <3>1, <2>2, <1>1 DEF ValueAt, SlotContents
  <2>. QED
    BY <2>1, <2>2
<1>4. Contents = [k \in 1 .. Lag(consumer_index_) |-> ValueAt(k)]
  BY DEF Contents, ValueAt, Lag
<1>5. Contents \in [1 .. Lag(consumer_index_) -> Values]
  BY <1>3, <1>4
<1>6. Contents \in Seq(Values)
  BY <1>2, <1>5, SeqDef
<1>7. Len(Contents) = Lag(consumer_index_)
  BY <1>2, <1>4, <1>6, LenProperties
<1>. QED
  BY <1>2, <1>3, <1>4, <1>6, <1>7 DEF QueueInRing

\* The same of the next state.
LEMMA ContentsFactsNext == IInv' => QueueInRing'
BY ContentsFacts, PTL

\* A step after which the k-th value is what it was, for every k, and there are
\* as many of them, does not change the queue.
LEMMA ContentsUnchanged ==
  ASSUME IInv, IInv',
         Lag(consumer_index_)' = Lag(consumer_index_),
         \A k \in 1 .. Lag(consumer_index_) : ValueAt(k)' = ValueAt(k)
  PROVE  Contents' = Contents
BY DEF Contents, ValueAt, Lag

\* A step that leaves the published indices and the slots alone does not change
\* the queue.
LEMMA ContentsUntouched ==
  ASSUME UNCHANGED <<producer_index_, consumer_index_, slots_>>,
         consumer_pc' = "publish" <=> consumer_pc = "publish",
         out' = out
  PROVE  Contents' = Contents
BY DEF Contents, Nth

-----------------------------------------------------------------------------
(* The steps that reach the slots or the indices *)

\* An object that is not published yet is in no queue.
LEMMA ConstructContents ==
  ASSUME IInv, Construct
  PROVE  Contents' = Contents
<1>1. IndexInv
  BY SplitInv
<1>2. IInv'
  BY IInvStep DEF Next, Emplace
<1>3. Lag(consumer_index_)' = Lag(consumer_index_)
  BY DEF Construct, Lag, consumerVars
<1>4. ASSUME NEW k \in 1 .. Lag(consumer_index_)
      PROVE  ValueAt(k)' = ValueAt(k)
  <2>1. Nth(k)' = Nth(k)
    BY DEF Construct, Nth, consumerVars
  <2>2. Slot(Nth(k)) # Slot(producer_index_) /\ Slot(Nth(k)) \in SlotIds
    BY <1>1, NthFacts, ProducerSlotFree, SlotInRange DEF Construct
  <2>3. slots_'[Slot(Nth(k))] = slots_[Slot(Nth(k))]
    BY <1>1, <2>2 DEF Construct, IndexInv, TypeOK
  <2>. QED
    BY <2>1, <2>3 DEF ValueAt, Construct, consumerVars
<1>. QED
  BY <1>2, <1>3, <1>4, ContentsUnchanged

\* Moving a value out of its slot changes no queue: the popped value counts until
\* the pop is published.
LEMMA TakeContents ==
  ASSUME IInv, Take
  PROVE  Contents' = Contents
<1>1. IndexInv
  BY SplitInv
<1>2. IInv'
  BY IInvStep DEF Next, TryPop
<1>3. Lag(consumer_index_)' = Lag(consumer_index_)
  BY DEF Take, Lag, producerVars
<1>4. ASSUME NEW k \in 1 .. Lag(consumer_index_)
      PROVE  ValueAt(k)' = ValueAt(k)
  <2>1. Nth(k)' = Nth(k)
    BY DEF Take, Nth
  <2>2. CASE k = 1
    BY <2>1, <2>2, <1>1, NthFacts DEF ValueAt, Take
  <2>3. CASE k # 1
    <3>1. Slot(Nth(k)) # Slot(consumer_index_) /\ Slot(Nth(k)) \in SlotIds
      BY <2>3, <1>1, NthFacts, ConsumerSlotApart, SlotInRange DEF Take
    <3>2. slots_'[Slot(Nth(k))] = slots_[Slot(Nth(k))]
      BY <1>1, <3>1 DEF Take, IndexInv, TypeOK
    <3>. QED
      BY <2>1, <2>3, <3>2 DEF ValueAt
  <2>. QED
    BY <2>2, <2>3
<1>. QED
  BY <1>2, <1>3, <1>4, ContentsUnchanged

\* The producer's release store appends the item.
LEMMA PublishPushContents ==
  ASSUME IInv, PublishPush
  PROVE  /\ Contents' = Append(Contents, item)
         /\ Len(Contents) < Capacity
         /\ item \in Values
<1>1. IndexInv /\ SlotContents /\ item \in Values
  BY SplitInv DEF PublishPush, IndexInv, Progress
<1>2. IInv'
  BY IInvStep DEF Next, Emplace
<1>. PICK n \in 0 .. Capacity : n = Lag(consumer_index_)
  BY ContentsFacts DEF QueueInRing
<1>3. n < Capacity /\ Lag(consumer_index_)' = n + 1
  <2>1. n < Capacity
    BY <1>1, PublishPushLags, Lags, WordFacts DEF IndexInv, IndexOrder, TypeOK, Word
  <2>2. Sub(producer_index_', consumer_index_) = n + 1
    BY <1>1, <2>1, WordFacts, PublishPushLags DEF IndexInv, TypeOK
  <2>. QED
    BY <2>1, <2>2 DEF Lag, PublishPush, consumerVars
<1>4. ASSUME NEW k \in 1 .. n PROVE ValueAt(k)' = Contents[k]
  BY ContentsFacts DEF QueueInRing, ValueAt, Nth, PublishPush, consumerVars
<1>5. ValueAt(n + 1)' = item
  <2>1. consumer_pc = "publish" => n >= 1
    BY <1>1, ConsumerHoldsValue
  <2>2. Nth(n + 1) = producer_index_
    BY <1>1, <1>3, WordFacts DEF Nth, Ahead, Lag, Sub, Word, IndexInv,
       TypeOK
  <2>3. Nth(n + 1)' = Nth(n + 1)
    BY DEF Nth, PublishPush, consumerVars
  <2>4. n + 1 = 1 => consumer_pc' # "publish"
    BY <1>3, <2>1 DEF PublishPush, consumerVars
  <2>5. slots_'[Slot(producer_index_)] = item
    BY <1>1 DEF PublishPush, SlotContents
  <2>. QED
    BY <2>2, <2>3, <2>4, <2>5 DEF ValueAt
<1>6. /\ Contents' \in Seq(Values)
      /\ Len(Contents') = n + 1
      /\ \A k \in 1 .. n + 1 : Contents'[k] = ValueAt(k)'
  BY <1>2, <1>3, ContentsFactsNext DEF QueueInRing
<1>7. /\ Append(Contents, item) \in Seq(Values)
      /\ Len(Append(Contents, item)) = n + 1
      /\ \A k \in 1 .. n : Append(Contents, item)[k] = Contents[k]
      /\ Append(Contents, item)[n + 1] = item
  BY <1>1, ContentsFacts, AppendProperties DEF QueueInRing
<1>8. ASSUME NEW k \in 1 .. n + 1 PROVE Contents'[k] = Append(Contents, item)[k]
  <2>1. k \in 1 .. n \/ k = n + 1
    BY <1>3
  <2>. QED
    BY <2>1, <1>4, <1>5, <1>6, <1>7
<1>9. Contents' = Append(Contents, item)
  BY <1>6, <1>7, <1>8, SeqEqual
<1>. QED
  BY <1>1, <1>3, <1>9, ContentsFacts DEF QueueInRing

\* The consumer's release store takes the head away, and the head is what
\* try_pop returns.
LEMMA PublishPopContents ==
  ASSUME IInv, PublishPop
  PROVE  /\ Contents # << >>
         /\ Contents' = Tail(Contents)
         /\ pop_result' = Head(Contents)
<1>1. IndexInv /\ consumer_pc = "publish"
  BY SplitInv DEF PublishPop
<1>2. IInv'
  BY IInvStep DEF Next, TryPop
<1>. PICK n \in 1 .. Capacity : n = Lag(consumer_index_)
  BY <1>1, ConsumerHoldsValue
<1>3. Lag(consumer_index_)' = n - 1
  BY <1>1, PublishPopLag
<1>4. /\ Contents \in Seq(Values)
      /\ Len(Contents) = n
      /\ \A k \in 1 .. n : Contents[k] = ValueAt(k)
  BY ContentsFacts DEF QueueInRing
<1>5. Contents # << >>
  BY <1>4, EmptySeq
<1>6. pop_result' = Head(Contents)
  <2>1. Contents[1] = out
    BY <1>1, <1>4, WordFacts DEF ValueAt
  <2>. QED
    BY <2>1, <1>4, <1>5 DEF PublishPop
<1>7. ASSUME NEW k \in 1 .. n - 1 PROVE ValueAt(k)' = ValueAt(k + 1)
  <2>1. Nth(k)' = Nth(k + 1)
    <3>1. consumer_index_' = Inc(consumer_index_) /\ consumer_index_ \in Word
      BY <1>1 DEF PublishPop, IndexInv, TypeOK
    <3>2. n <= Capacity
      OBVIOUS
    <3>. QED
      BY <3>1, <3>2, WordFacts DEF Nth, Ahead, Inc, Word
  <2>2. ValueAt(k)' = slots_'[Slot(Nth(k)')]
    BY DEF ValueAt, PublishPop, Slot
  <2>3. ValueAt(k + 1) = slots_[Slot(Nth(k + 1))]
    BY DEF ValueAt
  <2>. QED
    BY <2>1, <2>2, <2>3 DEF PublishPop
<1>8. /\ Contents' \in Seq(Values)
      /\ Len(Contents') = n - 1
      /\ \A k \in 1 .. n - 1 : Contents'[k] = ValueAt(k)'
  BY <1>2, <1>3, ContentsFactsNext DEF QueueInRing
<1>9. /\ Tail(Contents) \in Seq(Values)
      /\ Len(Tail(Contents)) = n - 1
      /\ \A k \in 1 .. n - 1 : Tail(Contents)[k] = Contents[k + 1]
  BY <1>4, <1>5, HeadTailProperties
<1>10. ASSUME NEW k \in 1 .. n - 1 PROVE Contents'[k] = Tail(Contents)[k]
  <2>1. k + 1 \in 1 .. n
    OBVIOUS
  <2>. QED
    BY <2>1, <1>4, <1>7, <1>8, <1>9
<1>11. Contents' = Tail(Contents)
  BY <1>8, <1>9, <1>10, SeqEqual
<1>. QED
  BY <1>5, <1>6, <1>11

\* An empty distance is the empty queue.
LEMMA EmptyContents == QueueInRing /\ Lag(consumer_index_) = 0 => Contents = << >>
<1>1. \A s \in Seq(Values) : s # << >> => Len(s) # 0
  BY EmptySeq
<1>. QED
  BY <1>1 DEF QueueInRing

\* clear() maps to the empty queue.
LEMMA ClearContents ==
  ASSUME IInv, Clear
  PROVE  Contents' = << >>
<1>1. IInv'
  BY IInvStep DEF Next
<1>2. Lag(consumer_index_)' = 0
  BY SubFacts DEF Clear, Lag, IInv, TypeOK
<1>3. Contents' \in Seq(Values) /\ Len(Contents') = 0
  BY <1>1, <1>2, ContentsFactsNext DEF QueueInRing
<1>. QED
  BY <1>3, EmptySeq

-----------------------------------------------------------------------------
(* The refusals *)

\* Without stale loads the queue is full when a push is refused.
LEMMA RefusedPush ==
  ASSUME IInv, EmplaceFull
  PROVE  ~StaleReads => Len(Contents) = Capacity
<1>1. PICK x \in Word : LoadConsumerIndex(x) /\ Sub(producer_index_, x) = Capacity
  BY DEF EmplaceFull
<1>2. ~StaleReads => x = consumer_index_
  BY <1>1 DEF LoadConsumerIndex, Visible
<1>. QED
  BY <1>1, <1>2, ContentsFacts DEF QueueInRing, Lag

\* Without stale loads the queue is empty when a pop is refused.
LEMMA RefusedPop ==
  ASSUME IInv, TryPopEmpty
  PROVE  ~StaleReads => Contents = << >>
<1>1. ~StaleReads => consumer_index_ = producer_index_
  BY DEF TryPopEmpty, LoadProducerIndex, Visible
<1>2. ~StaleReads => Lag(consumer_index_) = 0
  BY <1>1, Lags DEF IInv
<1>. QED
  BY <1>2, ContentsFacts, EmptyContents

-----------------------------------------------------------------------------
\* The initial states map to the initial states of the FIFO queue.
LEMMA FifoInit == Init => Fifo!Init
<1>. SUFFICES ASSUME Init PROVE Fifo!Init
  OBVIOUS
<1>1. Lag(consumer_index_) = 0
  BY IInvInit, Lags DEF Init, IInv
<1>2. Contents = << >>
  BY <1>1, IInvInit, ContentsFacts, EmptyContents
<1>. QED
  BY <1>2 DEF Init, Fifo!Init

\* Every step of the ring maps to a step of the FIFO queue or to no change of it.
LEMMA FifoStep == IInv /\ [Next]_vars => [Fifo!Next]_Fifo!fifoVars
<1>. SUFFICES ASSUME IInv, [Next]_vars
              PROVE  Fifo!Next \/ UNCHANGED Fifo!fifoVars
  BY DEF Fifo!fifoVars
<1>1. CASE \/ \E v \in Values : EmplaceCall(v)
           \/ EmplaceRefresh
           \/ ConstructThrows
           \/ Full
           \/ ProducerSize
  <2>1. UNCHANGED <<producer_index_, consumer_index_, slots_, consumer_pc, out,
                    push_result, pop_result>>
    BY <1>1 DEF EmplaceCall, EmplaceRefresh, ConstructThrows, Full, ProducerSize,
       consumerVars
  <2>2. Contents' = Contents
    BY <2>1, ContentsUntouched
  <2>. QED
    BY <2>1, <2>2 DEF Fifo!fifoVars
<1>2. CASE EmplaceFull
  <2>1. Contents' = Contents
    BY <1>2, ContentsUntouched DEF EmplaceFull, consumerVars
  <2>2. Fifo!PushRefused
    BY <1>2, <2>1, RefusedPush DEF Fifo!PushRefused, EmplaceFull, consumerVars
  <2>. QED
    BY <2>2 DEF Fifo!Next
<1>3. CASE Construct
  <2>1. UNCHANGED <<push_result, pop_result>>
    BY <1>3 DEF Construct, consumerVars
  <2>. QED
    BY <1>3, <2>1, ConstructContents DEF Fifo!fifoVars
<1>4. CASE PublishPush
  <2>1. push_result' = TRUE /\ pop_result' = pop_result
    BY <1>4 DEF PublishPush, consumerVars
  <2>2. Fifo!Push(item) /\ item \in Values
    BY <1>4, <2>1, PublishPushContents DEF Fifo!Push
  <2>. QED
    BY <2>2 DEF Fifo!Next
<1>5. CASE \/ TryPopCall
           \/ TryPopRefresh
           \/ TakeThrows
           \/ ConsumerSize
  <2>1. UNCHANGED <<producer_index_, consumer_index_, slots_, out, push_result,
                    pop_result>>
    BY <1>5 DEF TryPopCall, TryPopRefresh, TakeThrows, ConsumerSize, producerVars
  <2>2. consumer_pc' = "publish" <=> consumer_pc = "publish"
    BY <1>5 DEF TryPopCall, TryPopRefresh, TakeThrows, ConsumerSize
  <2>3. Contents' = Contents
    BY <2>1, <2>2, ContentsUntouched
  <2>. QED
    BY <2>1, <2>3 DEF Fifo!fifoVars
<1>6. CASE TryPopEmpty
  <2>1. Contents' = Contents
    BY <1>6, ContentsUntouched DEF TryPopEmpty, producerVars
  <2>2. Fifo!PopRefused
    BY <1>6, <2>1, RefusedPop DEF Fifo!PopRefused, TryPopEmpty, producerVars
  <2>. QED
    BY <2>2 DEF Fifo!Next
<1>7. CASE Take
  <2>1. UNCHANGED <<push_result, pop_result>>
    BY <1>7 DEF Take, producerVars
  <2>. QED
    BY <1>7, <2>1, TakeContents DEF Fifo!fifoVars
<1>8. CASE PublishPop
  <2>1. push_result' = push_result
    BY <1>8 DEF PublishPop, producerVars
  <2>2. Fifo!Pop
    BY <1>8, <2>1, PublishPopContents DEF Fifo!Pop
  <2>. QED
    BY <2>2 DEF Fifo!Next
<1>9. CASE Clear
  <2>1. UNCHANGED <<push_result, pop_result>>
    BY <1>9 DEF Clear
  <2>2. Fifo!Clear
    BY <1>9, <2>1, ClearContents DEF Fifo!Clear
  <2>. QED
    BY <2>2 DEF Fifo!Next
<1>10. CASE UNCHANGED vars
  <2>1. Contents' = Contents
    BY <1>10, ContentsUntouched DEF vars, producerVars, consumerVars
  <2>. QED
    BY <1>10, <2>1 DEF Fifo!fifoVars, vars, producerVars, consumerVars
<1>. QED
  BY <1>1, <1>2, <1>3, <1>4, <1>5, <1>6, <1>7, <1>8, <1>9, <1>10
  DEF Next, Emplace, TryPop

\* The lock-free ring implements the bounded FIFO queue: no value is lost,
\* duplicated, reordered or made up, each push and pop takes effect at its
\* release store, and without stale loads a refusal is true when it is given.
THEOREM ImplementsFifo == Spec => FifoSpec
BY FifoInit, FifoStep, InvariantHolds, PTL DEF Spec, FifoSpec, Fifo!Spec
=============================================================================
