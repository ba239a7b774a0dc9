--------------------------- MODULE SpscRingBuffer ---------------------------
(***************************************************************************)
(* The lock-free single-producer single-consumer ring of                   *)
(* spsc_ring_buffer.hpp.  The four classes SpscRingBuffer,                 *)
(* TrivialSpscRingBuffer and their twins over std::vector in               *)
(* vector_spsc_ring_buffer.hpp run the same steps; Trivial tells the two   *)
(* kinds apart (a trivial slot has no lifetime and keeps its bytes).       *)
(*                                                                         *)
(* The memory model.  Each index is an atomic written by one thread with   *)
(* release and read by the other with acquire, so a load may return any    *)
(* value from the newest one this thread has synchronised with up to the   *)
(* current one, and from then on everything before that store has          *)
(* happened.  producer_seen and consumer_seen hold that newest value: they *)
(* are no program state, they are what C++ coherence and happens-before    *)
(* remember.  With StaleReads = FALSE a load returns the current value.    *)
(***************************************************************************)
EXTENDS RingIndex, Sequences

CONSTANTS
  Values,      \* what callers push
  None,        \* a slot without an object, nothing pushed, nothing popped
  Trivial,     \* the ring of trivially copyable values
  MayThrow,    \* the constructors of T may throw
  StaleReads   \* an acquire load may lag behind the current value

ASSUME NoneAssumption == None \notin Values
ASSUME FlagsAssumption == {Trivial, MayThrow, StaleReads} \subseteq BOOLEAN

VARIABLES
  producer_index_, producer_cached_consumer_,
  consumer_index_, consumer_cached_producer_,
  slots_,
  producer_seen, consumer_seen,
  producer_pc, item, push_result,   \* where emplace is, its argument, its last answer
  consumer_pc, out, pop_result,     \* where try_pop is, the moved value, its last answer
  promised_pushes, promised_pops    \* what full(), size() and empty() have led each
                                    \* side to count on

producerVars == <<producer_index_, producer_cached_consumer_, producer_seen,
                  producer_pc, item, push_result, promised_pushes>>
consumerVars == <<consumer_index_, consumer_cached_producer_, consumer_seen,
                  consumer_pc, out, pop_result, promised_pops>>
vars == <<producerVars, consumerVars, slots_>>

-----------------------------------------------------------------------------
(* Atomics *)

\* What an acquire load may return to a thread that has seen `seen'.
Visible(seen, current) ==
  IF StaleReads
  THEN {x \in Word : Sub(x, seen) <= Sub(current, seen)}
  ELSE {current}

Greater(a, b) == IF a >= b THEN a ELSE b

\* A promise of n operations after one of them has been carried out.
OneLess(n) == IF n = 0 THEN 0 ELSE n - 1

-----------------------------------------------------------------------------
Init ==
  /\ producer_index_ = 0
  /\ producer_cached_consumer_ = 0
  /\ consumer_index_ = 0
  /\ consumer_cached_producer_ = 0
  /\ slots_ = [s \in SlotIds |-> None]
  /\ producer_seen = 0
  /\ consumer_seen = 0
  /\ producer_pc = "idle"
  /\ item = None
  /\ push_result = FALSE
  /\ consumer_pc = "idle"
  /\ out = None
  /\ pop_result = None
  /\ promised_pushes = 0
  /\ promised_pops = 0

-----------------------------------------------------------------------------
(* The producer: emplace, try_push, full *)

\* Mutant: the comparison lets one value too many in.
CacheSaysOverfull == Sub(producer_index_, producer_cached_consumer_) > Capacity

\* The cached index says the ring is full.
CacheSaysFull == Sub(producer_index_, producer_cached_consumer_) = Capacity

\* try_push or emplace is called: its own index and the cache decide whether
\* the consumer's index must be loaded.
EmplaceCall(v) ==
  /\ producer_pc = "idle"
  /\ item' = v
  /\ producer_pc' = IF CacheSaysFull THEN "refresh" ELSE "construct"
  /\ UNCHANGED <<producer_index_, producer_cached_consumer_, producer_seen,
                 push_result, promised_pushes, consumerVars, slots_>>

\* Mutant: a relaxed load, which synchronises with nothing.
LoadConsumerRelaxed(consumer) ==
  /\ consumer \in Visible(producer_seen, consumer_index_)
  /\ producer_seen' = producer_seen
  /\ producer_cached_consumer_' = consumer

\* Mutant: the cache is read again instead of the index.
LoadConsumerCached(consumer) ==
  /\ consumer = producer_cached_consumer_
  /\ UNCHANGED <<producer_seen, producer_cached_consumer_>>

\* The acquire load of consumer_index_, and the cache that remembers it.
LoadConsumerIndex(consumer) ==
  /\ consumer \in Visible(producer_seen, consumer_index_)
  /\ producer_seen' = consumer
  /\ producer_cached_consumer_' = consumer

\* The loaded index still says full: return false.
EmplaceFull ==
  /\ producer_pc = "refresh"
  /\ \E consumer \in Word :
       /\ LoadConsumerIndex(consumer)
       /\ Sub(producer_index_, consumer) = Capacity
  /\ producer_pc' = "idle"
  /\ item' = None
  /\ push_result' = FALSE
  /\ UNCHANGED <<producer_index_, promised_pushes, consumerVars, slots_>>

\* The consumer has moved on since the cache was filled.
EmplaceRefresh ==
  /\ producer_pc = "refresh"
  /\ \E consumer \in Word :
       /\ LoadConsumerIndex(consumer)
       /\ Sub(producer_index_, consumer) # Capacity
  /\ producer_pc' = "construct"
  /\ UNCHANGED <<producer_index_, item, push_result, promised_pushes,
                 consumerVars, slots_>>

\* The placement new into the slot (an assignment in the trivial ring).
Construct ==
  /\ producer_pc = "construct"
  /\ slots_' = [slots_ EXCEPT ![Slot(producer_index_)] = item]
  /\ producer_pc' = "publish"
  /\ UNCHANGED <<producer_index_, producer_cached_consumer_, producer_seen,
                 item, push_result, promised_pushes, consumerVars>>

\* The constructor of T throws out of emplace: the slot stays as it was.
ConstructThrows ==
  /\ MayThrow
  /\ producer_pc = "construct"
  /\ producer_pc' = "idle"
  /\ item' = None
  /\ UNCHANGED <<producer_index_, producer_cached_consumer_, producer_seen,
                 push_result, promised_pushes, consumerVars, slots_>>

\* The release store that hands the slot to the consumer, and return true.
PublishPush ==
  /\ producer_pc = "publish"
  /\ producer_index_' = Inc(producer_index_)
  /\ producer_pc' = "idle"
  /\ item' = None
  /\ push_result' = TRUE
  /\ promised_pushes' = OneLess(promised_pushes)
  /\ UNCHANGED <<producer_cached_consumer_, producer_seen, consumerVars, slots_>>

\* full(): loads the consumer's index only when the cache says full, and
\* writes what it loads into the cache.  The answer false promises one push.
Full ==
  /\ producer_pc = "idle"
  /\ IF CacheSaysFull
     THEN \E consumer \in Word : LoadConsumerIndex(consumer)
     ELSE UNCHANGED <<producer_cached_consumer_, producer_seen>>
  /\ promised_pushes' = IF Sub(producer_index_, producer_cached_consumer_') = Capacity
                        THEN promised_pushes
                        ELSE Greater(promised_pushes, 1)
  /\ UNCHANGED <<producer_index_, producer_pc, item, push_result, consumerVars,
                 slots_>>

\* size() or empty() called by the producer.  The size n promises
\* Capacity - n pushes.  The cache is not touched.
ProducerSize ==
  /\ producer_pc = "idle"
  /\ \E consumer \in Visible(producer_seen, consumer_index_) :
       /\ producer_seen' = consumer
       /\ promised_pushes' =
            Greater(promised_pushes, Capacity - Sub(producer_index_, consumer))
  /\ UNCHANGED <<producer_index_, producer_cached_consumer_, producer_pc, item,
                 push_result, consumerVars, slots_>>

-----------------------------------------------------------------------------
(* The consumer: try_pop *)

\* try_pop is called: an empty range up to the cached index sends it to load
\* the producer's index.
TryPopCall ==
  /\ consumer_pc = "idle"
  /\ consumer_pc' = IF consumer_index_ = consumer_cached_producer_
                    THEN "refresh" ELSE "take"
  /\ UNCHANGED <<consumer_index_, consumer_cached_producer_, consumer_seen, out,
                 pop_result, promised_pops, producerVars, slots_>>

\* Mutant: the cache does not remember what was loaded.
LoadProducerUncached(producer) ==
  /\ producer \in Visible(consumer_seen, producer_index_)
  /\ consumer_seen' = producer
  /\ consumer_cached_producer_' = consumer_cached_producer_

\* The acquire load of producer_index_, and the cache that remembers it.
LoadProducerIndex(producer) ==
  /\ producer \in Visible(consumer_seen, producer_index_)
  /\ consumer_seen' = producer
  /\ consumer_cached_producer_' = producer

\* Still nothing to take: return false or nullopt.
TryPopEmpty ==
  /\ consumer_pc = "refresh"
  /\ \E producer \in Word :
       /\ LoadProducerIndex(producer)
       /\ producer = consumer_index_
  /\ consumer_pc' = "idle"
  /\ pop_result' = None
  /\ UNCHANGED <<consumer_index_, out, promised_pops, producerVars, slots_>>

TryPopRefresh ==
  /\ consumer_pc = "refresh"
  /\ \E producer \in Word :
       /\ LoadProducerIndex(producer)
       /\ producer # consumer_index_
  /\ consumer_pc' = "take"
  /\ UNCHANGED <<consumer_index_, out, pop_result, promised_pops, producerVars,
                 slots_>>

\* Mutant: the destructor is forgotten.
Undestroyed(v) == v

\* A slot whose object has been moved out and destroyed.
Vacated(v) == IF Trivial THEN v ELSE None

\* The move out of the slot and the destructor of what is left there.
Take ==
  /\ consumer_pc = "take"
  /\ out' = slots_[Slot(consumer_index_)]
  /\ slots_' = [slots_ EXCEPT ![Slot(consumer_index_)] = Vacated(@)]
  /\ consumer_pc' = "publish"
  /\ UNCHANGED <<consumer_index_, consumer_cached_producer_, consumer_seen,
                 pop_result, promised_pops, producerVars>>

\* The move of T throws out of try_pop; the object is still in its slot.
TakeThrows ==
  /\ MayThrow
  /\ ~Trivial
  /\ consumer_pc = "take"
  /\ consumer_pc' = "idle"
  /\ UNCHANGED <<consumer_index_, consumer_cached_producer_, consumer_seen, out,
                 pop_result, promised_pops, producerVars, slots_>>

\* The release store that hands the slot back, and return the value.
PublishPop ==
  /\ consumer_pc = "publish"
  /\ consumer_index_' = Inc(consumer_index_)
  /\ consumer_pc' = "idle"
  /\ pop_result' = out
  /\ out' = None
  /\ promised_pops' = OneLess(promised_pops)
  /\ UNCHANGED <<consumer_cached_producer_, consumer_seen, producerVars, slots_>>

\* size() or empty() called by the consumer: n values promise n pops.
ConsumerSize ==
  /\ consumer_pc = "idle"
  /\ \E producer \in Visible(consumer_seen, producer_index_) :
       /\ consumer_seen' = producer
       /\ promised_pops' = Greater(promised_pops, Sub(producer, consumer_index_))
  /\ UNCHANGED <<consumer_index_, consumer_cached_producer_, consumer_pc, out,
                 pop_result, producerVars, slots_>>

-----------------------------------------------------------------------------
(* clear *)

\* The indices clear() walks over: from the consumer's up to the producer's.
Occupied ==
  {x \in Word : Sub(producer_index_, x) \in
                  1 .. Sub(producer_index_, consumer_index_)}

\* Mutant: the consumer keeps its old cache.
ResetProducerCache ==
  /\ producer_cached_consumer_' = producer_index_
  /\ consumer_cached_producer_' = consumer_cached_producer_

\* Both caches start again at the producer's index.
ResetCaches ==
  /\ producer_cached_consumer_' = producer_index_
  /\ consumer_cached_producer_' = producer_index_

\* clear() and the destructor.  Its relaxed accesses ask the caller to have
\* stopped both sides and to be synchronised with them.
Clear ==
  /\ producer_pc = "idle"
  /\ consumer_pc = "idle"
  /\ slots_' = [s \in SlotIds |->
                  IF \E x \in Occupied : Slot(x) = s
                  THEN Vacated(slots_[s]) ELSE slots_[s]]
  /\ consumer_index_' = producer_index_
  /\ ResetCaches
  /\ producer_seen' = producer_index_
  /\ consumer_seen' = producer_index_
  /\ promised_pops' = 0
  /\ UNCHANGED <<producer_index_, producer_pc, item, push_result,
                 promised_pushes, consumer_pc, out, pop_result>>

-----------------------------------------------------------------------------
Emplace ==
  \/ EmplaceFull
  \/ EmplaceRefresh
  \/ Construct
  \/ ConstructThrows
  \/ PublishPush

TryPop ==
  \/ TryPopEmpty
  \/ TryPopRefresh
  \/ Take
  \/ TakeThrows
  \/ PublishPop

Next ==
  \/ \E v \in Values : EmplaceCall(v)
  \/ Emplace
  \/ Full
  \/ ProducerSize
  \/ TryPopCall
  \/ TryPop
  \/ ConsumerSize
  \/ Clear

Spec == Init /\ [][Next]_vars

-----------------------------------------------------------------------------
(* What must hold *)

\* Every variable holds a value the code's declarations allow.
TypeOK ==
  /\ {producer_index_, producer_cached_consumer_, producer_seen} \subseteq Word
  /\ {consumer_index_, consumer_cached_producer_, consumer_seen} \subseteq Word
  /\ slots_ \in [SlotIds -> Values \cup {None}]
  /\ producer_pc \in {"idle", "refresh", "construct", "publish"}
  /\ consumer_pc \in {"idle", "refresh", "take", "publish"}
  /\ {item, out, pop_result} \subseteq Values \cup {None}
  /\ push_result \in BOOLEAN
  /\ {promised_pushes, promised_pops} \subseteq 0 .. Capacity

\* A slot is never touched by both sides at once, and each access to a slot
\* happens after the other side's last access to it: the producer has
\* synchronised with the pop that freed the slot, the consumer with the push
\* that filled it.  This is what the acquire loads on lines 64 and 82 and the
\* release stores on lines 73 and 93 are for.
NoDataRace ==
  /\ producer_pc = "construct" => Sub(producer_index_, producer_seen) < Capacity
  /\ consumer_pc = "take" => consumer_index_ # consumer_seen
  /\ ~ /\ producer_pc = "construct"
       /\ consumer_pc = "take"
       /\ Slot(producer_index_) = Slot(consumer_index_)

\* The indices whose slot holds an object: those in the ring, except the one
\* try_pop has just destroyed, and the one emplace has just constructed.
Alive ==
  (Occupied \ (IF consumer_pc = "publish" THEN {consumer_index_} ELSE {}))
    \cup (IF producer_pc = "publish" THEN {producer_index_} ELSE {})

\* Objects live exactly in the slots the indices say: emplace constructs over
\* no live object, try_pop and clear() destroy each object once and leak none
\* (test_spsc_wraparound_and_clear counts them on one thread).
SlotLifetimes ==
  ~Trivial => {s \in SlotIds : slots_[s] # None} = {Slot(x) : x \in Alive}

\* A full() that answered false, or a size() below Capacity, is a promise to
\* the producer: that many pushes are not refused, however stale the loads
\* that follow.  A size() or a false empty() promises pops to the consumer.
PromisesKept ==
  [][/\ EmplaceFull => promised_pushes = 0
     /\ TryPopEmpty => promised_pops = 0]_vars

-----------------------------------------------------------------------------
(* Why it holds: the inductive invariant *)

\* How far an index is behind the producer's.
Lag(x) == Sub(producer_index_, x)

\* Going back from producer_index_ one meets, in this order, what the consumer
\* has seen of it and cached of it, the consumer's index, and what the producer
\* has seen and cached of that: all within one lap of the ring, so a cached
\* index is never ahead of the truth.
IndexOrder ==
  /\ Lag(consumer_seen) <= Lag(consumer_cached_producer_)
  /\ Lag(consumer_cached_producer_) <= Lag(consumer_index_)
  /\ Lag(consumer_index_) <= Lag(producer_seen)
  /\ Lag(producer_seen) <= Lag(producer_cached_consumer_)
  /\ Lag(producer_cached_consumer_) <= Capacity

\* What each side has established at each point of its operation.
Progress ==
  /\ producer_pc = "refresh" => CacheSaysFull
  /\ producer_pc \in {"construct", "publish"} => ~CacheSaysFull
  /\ producer_pc # "idle" => item \in Values
  /\ consumer_pc = "refresh" => consumer_index_ = consumer_cached_producer_
  /\ consumer_pc \in {"take", "publish"} =>
        consumer_index_ # consumer_cached_producer_
  /\ consumer_pc = "publish" => out \in Values

\* A promise is covered by what the promised side has already seen.
Promises ==
  /\ promised_pushes <= Capacity - Lag(producer_seen)
  /\ promised_pops <= Lag(consumer_index_) - Lag(consumer_seen)

\* What the slots hold.
SlotContents ==
  /\ \A x \in Alive : slots_[Slot(x)] \in Values
  /\ producer_pc = "publish" => slots_[Slot(producer_index_)] = item
  /\ ~Trivial =>
        \A s \in SlotIds : slots_[s] # None => \E x \in Alive : Slot(x) = s

IInv ==
  /\ TypeOK
  /\ IndexOrder
  /\ Progress
  /\ Promises
  /\ SlotContents

-----------------------------------------------------------------------------
(* The promise to the callers *)

\* The k-th index of the ring, counted from the consumer's.
Nth(k) == Ahead(consumer_index_, k - 1)

\* The values in the ring, oldest first.  A pop takes effect when it is
\* published, so the value try_pop holds still counts.
Contents ==
  [k \in 1 .. Sub(producer_index_, consumer_index_) |->
     IF k = 1 /\ consumer_pc = "publish" THEN out ELSE slots_[Slot(Nth(k))]]

Fifo == INSTANCE BoundedFifo WITH
  queue <- Contents, Strict <- ~StaleReads

\* The ring is a bounded FIFO queue: nothing is lost, duplicated, reordered or
\* made up, a push and a pop each take effect at their release store, and a
\* refusal changes nothing (and is true at that moment without stale loads).
FifoSpec == Fifo!Spec
=============================================================================
