--------------------------- MODULE BenchmarkProofs ---------------------------
(***************************************************************************)
(* The theorems about the drivers that run the library: the two threads on *)
(* a ring, the single-thread loop, the false-sharing benchmark and the     *)
(* file benchmarks, for any ring, any number of messages, operations and   *)
(* batches, and any command line.                                          *)
(***************************************************************************)
EXTENDS SpscRoundtrip, SingleThreadBenchmark, FalseSharingBarrier, FileWriters,
        SpscRingBufferProofs, FiniteSetTheorems

-----------------------------------------------------------------------------
(* The inductive invariant of the two threads on a ring *)

\* The ring holds the messages from the one the consumer expects up to the one
\* before the producer's next, in their order.
InFlight ==
  /\ next_value \in 0 .. MessageCount
  /\ expected \in Nat
  /\ Len(Contents) = next_value - expected
  /\ \A k \in 1 .. Len(Contents) : Contents[k] = expected + (k - 1)

\* A push under way is that of the producer's next message.
Pushing == producer_pc # "idle" => item = next_value /\ next_value < MessageCount

\* The consumer has added up the messages before the one it expects.
Summed == local_sum \in Nat /\ 2 * local_sum = (expected - 1) * expected

RoundtripInv == IInv /\ InFlight /\ Pushing /\ Summed

-----------------------------------------------------------------------------
(* The steps of the two threads *)

\* Every step of the two threads is one of the ring's, or leaves it alone.
LEMMA RingStep == InFlight /\ [RoundtripNext]_roundtripVars => [Next]_vars
<1>. SUFFICES ASSUME InFlight, [RoundtripNext]_roundtripVars PROVE [Next]_vars
  OBVIOUS
<1>1. CASE ProducerStep
  <2>1. next_value < MessageCount => next_value \in Values
    BY MessagesAssumption DEF InFlight
  <2>. QED
    BY <1>1, <2>1 DEF ProducerStep, Next, Emplace
<1>2. CASE ProducerAdvance
  BY <1>2 DEF ProducerAdvance, Next, Emplace
<1>3. CASE ConsumerStep
  BY <1>3 DEF ConsumerStep, Next, TryPop
<1>4. CASE ConsumerAdvance
  BY <1>4 DEF ConsumerAdvance, Next, TryPop
<1>5. CASE UNCHANGED roundtripVars
  BY <1>5 DEF roundtripVars
<1>. QED
  BY <1>1, <1>2, <1>3, <1>4, <1>5 DEF RoundtripNext, RoundtripTerminated

\* Nothing has been sent at first.
LEMMA RoundtripInvInit == RoundtripInit => RoundtripInv
<1>. SUFFICES ASSUME RoundtripInit PROVE RoundtripInv
  OBVIOUS
<1>1. IInv
  BY IInvInit DEF RoundtripInit
<1>2. Contents = << >>
  BY FifoInit DEF RoundtripInit, Fifo!Init
<1>3. InFlight
  BY <1>2, MessagesAssumption DEF InFlight, RoundtripInit
<1>. QED
  BY <1>1, <1>3 DEF RoundtripInv, Pushing, Summed, RoundtripInit, Init

\* Between the release stores nothing the invariant says of the messages changes.
LEMMA QuietStep ==
  ASSUME RoundtripInv, Contents' = Contents,
         UNCHANGED <<next_value, expected, local_sum>>
  PROVE  InFlight' /\ Summed'
BY DEF RoundtripInv, InFlight, Summed

\* The producer calls try_push, and the call runs up to its release store.
LEMMA ProducerStepInv ==
  ASSUME RoundtripInv, ProducerStep
  PROVE  InFlight' /\ Pushing' /\ Summed'
<1>1. Contents' = Contents
  <2>1. CASE EmplaceCall(next_value) \/ EmplaceFull \/ EmplaceRefresh
    BY <2>1, ContentsUntouched DEF EmplaceCall, EmplaceFull, EmplaceRefresh,
       consumerVars
  <2>2. CASE Construct
    BY <2>2, ConstructContents DEF RoundtripInv
  <2>. QED
    BY <2>1, <2>2 DEF ProducerStep
<1>2. Pushing'
  BY DEF ProducerStep, RoundtripInv, Pushing, EmplaceCall, EmplaceFull,
         EmplaceRefresh, Construct
<1>. QED
  BY <1>1, <1>2, QuietStep DEF ProducerStep

\* A push has succeeded: the next message is the one after it in the ring.
LEMMA ProducerAdvanceInv ==
  ASSUME RoundtripInv, ProducerAdvance
  PROVE  InFlight' /\ Pushing' /\ Summed'
<1>1. PublishPush /\ next_value' = next_value + 1 /\ expected' = expected
  BY DEF ProducerAdvance
<1>2. Contents \in Seq(Values)
  BY ContentsFacts DEF RoundtripInv, QueueInRing
<1>3. item = next_value /\ item \in Values /\ next_value < MessageCount
  BY <1>1, PublishPushContents DEF RoundtripInv, Pushing, PublishPush
<1>4. Contents' = Append(Contents, item)
  BY <1>1, PublishPushContents DEF RoundtripInv
<1>5. /\ Len(Contents') = Len(Contents) + 1
      /\ \A k \in 1 .. Len(Contents) : Contents'[k] = Contents[k]
      /\ Contents'[Len(Contents) + 1] = next_value
  BY <1>2, <1>3, <1>4, AppendProperties
<1>6. Len(Contents) \in Nat
  BY <1>2, LenProperties
<1>7. next_value' \in 0 .. MessageCount
  BY <1>1, <1>3, MessagesAssumption DEF RoundtripInv, InFlight
<1>8. InFlight'
  BY <1>1, <1>5, <1>6, <1>7 DEF RoundtripInv, InFlight
<1>. QED
  BY <1>1, <1>8 DEF ProducerAdvance, RoundtripInv, Pushing, Summed, PublishPush

\* The consumer calls try_pop, and the call runs up to its release store.
LEMMA ConsumerStepInv ==
  ASSUME RoundtripInv, ConsumerStep
  PROVE  InFlight' /\ Pushing' /\ Summed'
<1>1. Contents' = Contents
  <2>1. CASE TryPopCall \/ TryPopEmpty \/ TryPopRefresh
    BY <2>1, ContentsUntouched DEF TryPopCall, TryPopEmpty, TryPopRefresh,
       producerVars
  <2>2. CASE Take
    BY <2>2, TakeContents DEF RoundtripInv
  <2>. QED
    BY <2>1, <2>2 DEF ConsumerStep
<1>2. Pushing'
  BY DEF ConsumerStep, RoundtripInv, Pushing, TryPopCall, TryPopEmpty,
         TryPopRefresh, Take, producerVars
<1>. QED
  BY <1>1, <1>2, QuietStep DEF ConsumerStep

\* The value try_pop is about to return is the message expected.
LEMMA PopsExpected ==
  ASSUME RoundtripInv, consumer_pc = "publish"
  PROVE  out = expected /\ Contents # << >>
<1>1. IndexInv
  BY SplitInv DEF RoundtripInv
<1>2. Lag(consumer_index_) \in 1 .. Capacity
  BY <1>1, ConsumerHoldsValue
<1>3. Len(Contents) = Lag(consumer_index_) /\ Contents[1] = ValueAt(1)
  BY <1>2, ContentsFacts, WordFacts DEF RoundtripInv, QueueInRing
<1>4. out = Contents[1]
  BY <1>3 DEF ValueAt
<1>5. Contents[1] = expected
  BY <1>2, <1>3, WordFacts DEF RoundtripInv, InFlight
<1>. QED
  BY <1>2, <1>3, <1>4, <1>5, WordFacts

\* The sum of one more message.
LEMMA SumStep ==
  ASSUME NEW e \in Nat, NEW s \in Nat, 2 * s = (e - 1) * e
  PROVE  s + e \in Nat /\ 2 * (s + e) = ((e + 1) - 1) * (e + 1)
OBVIOUS

\* A pop has succeeded: the consumer adds what it got and expects the next.
LEMMA ConsumerAdvanceInv ==
  ASSUME RoundtripInv, ConsumerAdvance
  PROVE  InFlight' /\ Pushing' /\ Summed'
<1>1. /\ PublishPop /\ consumer_pc = "publish"
      /\ local_sum' = local_sum + out /\ expected' = expected + 1
      /\ next_value' = next_value
  BY DEF ConsumerAdvance, PublishPop
<1>2. out = expected
  BY <1>1, PopsExpected
<1>3. Contents \in Seq(Values) /\ Contents # << >> /\ Contents' = Tail(Contents)
  BY <1>1, PublishPopContents, ContentsFacts DEF RoundtripInv, QueueInRing
<1>4. /\ Len(Contents') = Len(Contents) - 1
      /\ \A k \in 1 .. Len(Contents) - 1 : Contents'[k] = Contents[k + 1]
      /\ Len(Contents) \in Nat
  BY <1>3, HeadTailProperties, LenProperties
<1>5. InFlight'
  BY <1>1, <1>4 DEF RoundtripInv, InFlight
<1>6. Summed'
  BY <1>1, <1>2, SumStep DEF RoundtripInv, InFlight, Summed
<1>7. Pushing'
  BY <1>1 DEF RoundtripInv, Pushing, PublishPop, producerVars
<1>. QED
  BY <1>5, <1>6, <1>7

\* Every step of the two threads keeps the invariant.
LEMMA RoundtripInvStep ==
  RoundtripInv /\ [RoundtripNext]_roundtripVars => RoundtripInv'
<1>. SUFFICES ASSUME RoundtripInv, [RoundtripNext]_roundtripVars
              PROVE  RoundtripInv'
  OBVIOUS
<1>1. IInv'
  BY RingStep, IInvStep DEF RoundtripInv
<1>2. CASE UNCHANGED roundtripVars
  <2>1. Contents' = Contents
    BY <1>2, ContentsUntouched DEF roundtripVars, vars, producerVars, consumerVars
  <2>2. InFlight' /\ Summed'
    BY <1>2, <2>1, QuietStep DEF roundtripVars
  <2>3. Pushing'
    BY <1>2 DEF RoundtripInv, Pushing, roundtripVars, vars, producerVars
  <2>. QED
    BY <1>1, <2>2, <2>3 DEF RoundtripInv
<1>. QED
  BY <1>1, <1>2, ProducerStepInv, ProducerAdvanceInv, ConsumerStepInv,
     ConsumerAdvanceInv
  DEF RoundtripInv, RoundtripNext, RoundtripTerminated

-----------------------------------------------------------------------------
(* The theorems about the two threads *)

\* The invariant holds in every state of the two threads.
THEOREM RoundtripInvariantHolds == RoundtripSpec => []RoundtripInv
BY RoundtripInvInit, RoundtripInvStep, PTL DEF RoundtripSpec

\* The asserts of test_spsc_threaded_roundtrip hold for every number of messages:
\* each pop returns the message expected, and when both threads are joined the sum
\* is right and the ring empty (core_unit_tests.cpp:311, 325, 327).
THEOREM AssertsHold == RoundtripSpec => []RoundtripAsserts
<1>1. RoundtripInv => RoundtripAsserts
  <2>. SUFFICES ASSUME RoundtripInv PROVE RoundtripAsserts
    OBVIOUS
  <2>1. consumer_pc = "publish" => out = expected
    BY PopsExpected
  <2>2. ASSUME Joined
        PROVE  /\ 2 * local_sum = (MessageCount - 1) * MessageCount
               /\ producer_index_ = consumer_index_
    <3>1. expected = MessageCount /\ next_value = MessageCount
      BY <2>2 DEF Joined
    <3>2. Len(Contents) = 0
      BY <3>1, MessagesAssumption DEF RoundtripInv, InFlight
    <3>3. Lag(consumer_index_) = 0
      BY <3>2, ContentsFacts DEF RoundtripInv, QueueInRing
    <3>4. producer_index_ = consumer_index_
      BY <3>3, SubFacts DEF Lag, RoundtripInv, IInv, TypeOK
    <3>. QED
      BY <3>1, <3>4 DEF RoundtripInv, Summed
  <2>. QED
    BY <2>1, <2>2 DEF RoundtripAsserts
<1>. QED
  BY <1>1, RoundtripInvariantHolds, PTL

\* The two threads are a behaviour of the ring, so what is proved of that holds of
\* them: in particular the ring is a FIFO queue between them.
THEOREM RoundtripIsFifo == RoundtripSpec => FifoSpec
<1>1. RoundtripInv => InFlight
  BY DEF RoundtripInv
<1>2. RoundtripInit => Init
  BY DEF RoundtripInit
<1>3. RoundtripSpec => Spec
  BY <1>1, <1>2, RingStep, RoundtripInvariantHolds, PTL DEF RoundtripSpec, Spec
<1>. QED
  BY <1>3, ImplementsFifo

-----------------------------------------------------------------------------
(* The inductive invariant of the single-thread loop *)

\* One thread sees its own stores, and it pushes values the ring is for.
OneThread == ~StaleReads /\ Operations \in Nat /\ 0 .. Operations - 1 \subseteq Values

\* The ring holds the value just pushed from the push to the pop, in a build that
\* pushes; otherwise it is empty, and so are then the pops.
LoopInv ==
  /\ IInv
  /\ ndebug \in BOOLEAN
  /\ i \in Nat
  /\ at \in {"push", "pop", "use"}
  /\ at # "push" \/ ndebug => producer_pc = "idle"
  /\ at # "pop" => consumer_pc = "idle"
  /\ Lag(consumer_index_) = IF at = "pop" /\ ~ndebug THEN 1 ELSE 0
  /\ at = "use" => (pop_result = None <=> ndebug)

loopSub == <<vars, loopVars>>

-----------------------------------------------------------------------------
(* The steps of the single-thread loop *)

\* Every step of the loop is one of the ring's, or leaves it alone.
LEMMA LoopRingStep ==
  ASSUME OneThread, LoopInv, [BenchNext]_loopSub
  PROVE  IInv'
<1>1. CASE AssertPush
  <2>1. i \in Values
    BY <1>1 DEF AssertPush, OneThread, LoopInv
  <2>2. Next
    BY <1>1, <2>1 DEF AssertPush, Next, Emplace
  <2>. QED
    BY <2>2, IInvStep DEF LoopInv
<1>2. CASE Pop
  <2>1. Next
    BY <1>2 DEF Pop, Next, TryPop
  <2>. QED
    BY <2>1, IInvStep DEF LoopInv
<1>3. CASE SkipPush \/ UseValue \/ BenchTerminated \/ UNCHANGED loopSub
  <2>1. UNCHANGED vars
    BY <1>3 DEF SkipPush, UseValue, BenchTerminated, loopSub
  <2>. QED
    BY <2>1, IInvStep DEF LoopInv
<1>. QED
  BY <1>1, <1>2, <1>3 DEF BenchNext

\* At first the ring is empty.
LEMMA LoopInvInit == BenchInit => LoopInv
<1>. SUFFICES ASSUME BenchInit PROVE LoopInv
  OBVIOUS
<1>1. IInv
  BY IInvInit DEF BenchInit
<1>2. Lag(consumer_index_) = 0
  BY <1>1, SubFacts DEF BenchInit, Init, Lag, IInv, TypeOK
<1>. QED
  BY <1>1, <1>2 DEF BenchInit, Init, LoopInv

\* The push inside the assertion is not refused: the ring is empty.
LEMMA AssertPushInv ==
  ASSUME OneThread, LoopInv, AssertPush
  PROVE  LoopInv'
<1>1. IndexInv /\ IInv'
  BY LoopRingStep, SplitInv DEF LoopInv, BenchNext
<1>2. /\ at = "push" /\ ~ndebug /\ consumer_pc = "idle" /\ i \in Nat
      /\ Lag(consumer_index_) = 0
      /\ ndebug' = ndebug /\ i' = i
  BY DEF AssertPush, LoopInv
<1>3. ~EmplaceFull
  <2>1. ASSUME EmplaceFull PROVE Sub(producer_index_, consumer_index_) = Capacity
    BY <2>1 DEF EmplaceFull, LoadConsumerIndex, Visible, OneThread
  <2>. QED
    BY <1>2, <2>1, WordFacts DEF Lag
<1>4. CASE PublishPush
  <2>1. at' = "pop"
    BY <1>3, <1>4 DEF AssertPush
  <2>2. consumer_index_' = consumer_index_ /\ consumer_pc' = "idle" /\ producer_pc' = "idle"
    BY <1>2, <1>4 DEF PublishPush, consumerVars
  <2>3. Lag(consumer_index_)' = 1
    BY <1>1, <1>2, <1>4, <2>2, PublishPushLags, WordFacts DEF Lag, IndexInv, TypeOK
  <2>. QED
    BY <1>1, <1>2, <2>1, <2>2, <2>3 DEF LoopInv
<1>5. CASE EmplaceCall(i) \/ EmplaceRefresh \/ Construct
  <2>1. ~PublishPush
    BY <1>5 DEF EmplaceCall, EmplaceRefresh, Construct, PublishPush
  <2>2. at' = "push"
    BY <1>3, <2>1 DEF AssertPush
  <2>3. UNCHANGED <<producer_index_, consumerVars>>
    BY <1>5 DEF EmplaceCall, EmplaceRefresh, Construct
  <2>. QED
    BY <1>1, <1>2, <2>2, <2>3 DEF LoopInv, Lag, consumerVars
<1>. QED
  BY <1>3, <1>4, <1>5 DEF AssertPush

\* A pop finds what the push has left, and nothing if there was none.
LEMMA LoopPopInv ==
  ASSUME OneThread, LoopInv, Pop
  PROVE  LoopInv'
<1>1. IndexInv /\ IInv'
  BY LoopRingStep, SplitInv DEF LoopInv, BenchNext
<1>2. /\ at = "pop" /\ producer_pc = "idle" /\ i \in Nat /\ ndebug \in BOOLEAN
      /\ Lag(consumer_index_) = IF ndebug THEN 0 ELSE 1
      /\ ndebug' = ndebug /\ i' = i
  BY DEF Pop, LoopInv
<1>3. CASE PublishPop
  <2>1. at' = "use"
    BY <1>3 DEF Pop
  <2>2. Lag(consumer_index_) \in 1 .. Capacity
    BY <1>1, <1>3, ConsumerHoldsValue DEF PublishPop
  <2>3. ~ndebug /\ Lag(consumer_index_) = 1
    BY <1>2, <2>2
  <2>4. Lag(consumer_index_)' = 0
    BY <1>1, <1>3, <2>3, PublishPopLag
  <2>5. pop_result' # None
    BY <1>1, <1>3, NoneAssumption DEF PublishPop, IndexInv, Progress
  <2>6. consumer_pc' = "idle" /\ producer_pc' = "idle"
    BY <1>2, <1>3 DEF PublishPop, producerVars
  <2>. QED
    BY <1>1, <1>2, <2>1, <2>3, <2>4, <2>5, <2>6 DEF LoopInv
<1>4. CASE TryPopEmpty
  <2>1. at' = "use"
    BY <1>4 DEF Pop
  <2>2. producer_index_ = consumer_index_
    BY <1>4 DEF TryPopEmpty, LoadProducerIndex, Visible, OneThread
  <2>3. Lag(consumer_index_) = 0
    BY <1>1, <2>2, Lags DEF IndexInv
  <2>4. ndebug
    BY <1>2, <2>3
  <2>5. /\ UNCHANGED <<producer_index_, consumer_index_>>
        /\ consumer_pc' = "idle" /\ producer_pc' = "idle" /\ pop_result' = None
    BY <1>2, <1>4 DEF TryPopEmpty, producerVars
  <2>. QED
    BY <1>1, <1>2, <2>1, <2>3, <2>4, <2>5 DEF LoopInv, Lag
<1>5. CASE TryPopCall \/ TryPopRefresh \/ Take
  <2>1. ~TryPopEmpty /\ ~PublishPop
    BY <1>5 DEF TryPopCall, TryPopRefresh, Take, TryPopEmpty, PublishPop
  <2>2. at' = "pop"
    BY <2>1 DEF Pop
  <2>3. UNCHANGED <<producer_index_, consumer_index_, producer_pc>>
    BY <1>5 DEF TryPopCall, TryPopRefresh, Take, producerVars
  <2>. QED
    BY <1>1, <1>2, <2>2, <2>3 DEF LoopInv, Lag
<1>. QED
  BY <1>3, <1>4, <1>5 DEF Pop

\* The steps between the calls leave the ring as it is.
LEMMA LoopStepInv ==
  ASSUME OneThread, LoopInv, SkipPush \/ UseValue \/ BenchTerminated \/ UNCHANGED loopSub
  PROVE  LoopInv'
<1>1. IInv'
  BY LoopRingStep DEF BenchNext
<1>2. UNCHANGED <<producer_index_, consumer_index_, producer_pc, consumer_pc, pop_result>>
  BY DEF SkipPush, UseValue, BenchTerminated, loopSub, vars, producerVars, consumerVars
<1>3. CASE SkipPush
  BY <1>1, <1>2, <1>3 DEF SkipPush, LoopInv, Lag
<1>4. CASE UseValue
  BY <1>1, <1>2, <1>4 DEF UseValue, LoopInv, Lag
<1>5. CASE BenchTerminated \/ UNCHANGED loopSub
  BY <1>1, <1>2, <1>5 DEF BenchTerminated, loopSub, loopVars, LoopInv, Lag
<1>. QED
  BY <1>3, <1>4, <1>5

\* Every step of the loop keeps the invariant.
LEMMA LoopInvStep ==
  ASSUME OneThread
  PROVE  LoopInv /\ [BenchNext]_loopSub => LoopInv'
BY AssertPushInv, LoopPopInv, LoopStepInv DEF BenchNext

-----------------------------------------------------------------------------
(* The values that go through the loop *)

\* The value of this iteration goes into the ring, out of it and into the sum.
PassedOn ==
  /\ at = "push" /\ producer_pc # "idle" => item = i
  /\ at = "pop" /\ ~ndebug => Contents[1] = i
  /\ at = "use" /\ ~ndebug => pop_result = i
  /\ popped_sum \in Nat /\ 2 * popped_sum = (i - 1) * i

\* The push of the value of this iteration.
LEMMA AssertPushPasses ==
  ASSUME OneThread, LoopInv, PassedOn, AssertPush
  PROVE  PassedOn'
<1>1. /\ at = "push" /\ ~ndebug /\ Lag(consumer_index_) = 0 /\ IInv
      /\ UNCHANGED <<ndebug, i, popped_sum>>
  BY DEF AssertPush, LoopInv
<1>2. CASE PublishPush
  <2>1. at' = "pop" /\ item = i
    BY <1>1, <1>2 DEF AssertPush, PassedOn, PublishPush, EmplaceFull
  <2>2. Contents \in Seq(Values) /\ Len(Contents) = 0
    BY <1>1, ContentsFacts DEF QueueInRing
  <2>3. Contents' = Append(Contents, item) /\ item \in Values
    BY <1>1, <1>2, PublishPushContents
  <2>4. Contents'[1] = item
    BY <2>2, <2>3, AppendProperties
  <2>. QED
    BY <1>1, <2>1, <2>4 DEF PassedOn
<1>3. CASE EmplaceCall(i) \/ EmplaceFull \/ EmplaceRefresh \/ Construct
  <2>1. at' \in {"push", "aborted"}
    BY <1>3 DEF AssertPush, EmplaceCall, EmplaceFull, EmplaceRefresh, Construct, PublishPush
  <2>2. producer_pc' # "idle" => item' = i
    BY <1>1, <1>3 DEF EmplaceCall, EmplaceFull, EmplaceRefresh, Construct, PassedOn
  <2>. QED
    BY <1>1, <2>1, <2>2 DEF PassedOn
<1>. QED
  BY <1>2, <1>3 DEF AssertPush

\* The pop returns what is in the ring.
LEMMA LoopPopPasses ==
  ASSUME OneThread, LoopInv, PassedOn, Pop
  PROVE  PassedOn'
<1>1. at = "pop" /\ IInv /\ UNCHANGED <<ndebug, i, popped_sum>>
  BY DEF Pop, LoopInv
<1>2. CASE PublishPop
  <2>1. at' = "use"
    BY <1>2 DEF Pop
  <2>2. Contents \in Seq(Values) /\ Contents # << >> /\ pop_result' = Head(Contents)
    BY <1>1, <1>2, PublishPopContents, ContentsFacts DEF QueueInRing
  <2>3. pop_result' = Contents[1]
    BY <2>2
  <2>. QED
    BY <1>1, <2>1, <2>3 DEF PassedOn
<1>3. CASE TryPopEmpty
  <2>1. at' = "use" /\ pop_result' = None
    BY <1>3 DEF Pop, TryPopEmpty
  <2>2. ndebug'
    BY <2>1, LoopPopInv DEF LoopInv
  <2>. QED
    BY <1>1, <2>1, <2>2 DEF PassedOn
<1>4. CASE TryPopCall \/ TryPopRefresh \/ Take
  <2>1. at' = "pop"
    BY <1>4 DEF Pop, TryPopCall, TryPopRefresh, Take, TryPopEmpty, PublishPop
  <2>2. Contents' = Contents
    <3>1. CASE TryPopCall \/ TryPopRefresh
      BY <3>1, ContentsUntouched DEF TryPopCall, TryPopRefresh, producerVars
    <3>2. CASE Take
      BY <1>1, <3>2, TakeContents
    <3>. QED
      BY <1>4, <3>1, <3>2
  <2>. QED
    BY <1>1, <2>1, <2>2 DEF PassedOn
<1>. QED
  BY <1>2, <1>3, <1>4 DEF Pop

\* The sum takes the value, and the next iteration begins.
LEMMA UseValuePasses ==
  ASSUME LoopInv, PassedOn, UseValue
  PROVE  PassedOn'
<1>1. /\ at = "use" /\ ~ndebug /\ pop_result = i /\ i \in Nat
      /\ producer_pc' = "idle" /\ at' = "push"
  BY DEF UseValue, LoopInv, PassedOn, vars, producerVars
<1>2. i' = i + 1 /\ popped_sum' = popped_sum + i
  BY <1>1 DEF UseValue
<1>3. popped_sum' \in Nat /\ 2 * popped_sum' = (i' - 1) * i'
  BY <1>1, <1>2, SumStep DEF PassedOn
<1>. QED
  BY <1>1, <1>3 DEF PassedOn

\* The steps of the build with NDEBUG and those that change nothing.
LEMMA LoopRestPasses ==
  ASSUME LoopInv, PassedOn, SkipPush \/ BenchTerminated \/ UNCHANGED loopSub
  PROVE  PassedOn'
<1>1. UNCHANGED <<vars, ndebug, i, popped_sum>>
  BY DEF SkipPush, BenchTerminated, loopSub, loopVars
<1>2. Contents' = Contents /\ UNCHANGED <<producer_pc, item, pop_result>>
  BY <1>1, ContentsUntouched DEF vars, producerVars, consumerVars
<1>3. at' = at \/ (ndebug /\ at' = "pop")
  BY DEF SkipPush, BenchTerminated, loopSub, loopVars
<1>. QED
  BY <1>1, <1>2, <1>3 DEF PassedOn

\* Every step passes the values on.
LEMMA LoopPasses ==
  ASSUME OneThread
  PROVE  LoopInv /\ PassedOn /\ [BenchNext]_loopSub => PassedOn'
BY AssertPushPasses, LoopPopPasses, UseValuePasses, LoopRestPasses DEF BenchNext

-----------------------------------------------------------------------------
(* The theorem about the single-thread loop *)

\* What LOLAKIT_ASSERT makes of the loop: it never stops the program, a build
\* without NDEBUG pops what it has just pushed, and one with NDEBUG nothing at all.
\* The sum is that of the iterations done.
OnlyNdebugPopsNothing ==
  /\ at # "aborted"
  /\ at = "use" => IF ndebug THEN pop_result = None
                   ELSE pop_result = i /\ pop_result # None
  /\ 2 * popped_sum = (i - 1) * i

\* The loop of spsc_single_thread is right in a build without NDEBUG, for any number
\* of operations: its push is not refused and its pop returns the value pushed.  In
\* one with NDEBUG none of its pops returns a value (core_benchmark.cpp:811-815,
\* assert.hpp:46).
THEOREM LoopDependsOnBuild ==
  ASSUME OneThread
  PROVE  BenchSpec => []OnlyNdebugPopsNothing
<1>1. BenchInit => LoopInv /\ PassedOn
  BY LoopInvInit DEF BenchInit, Init, PassedOn
<1>2. LoopInv /\ PassedOn /\ [BenchNext]_loopSub => (LoopInv /\ PassedOn)'
  BY LoopInvStep, LoopPasses
<1>3. LoopInv /\ PassedOn => OnlyNdebugPopsNothing
  BY DEF LoopInv, PassedOn, OnlyNdebugPopsNothing
<1>. QED
  BY <1>1, <1>2, <1>3, PTL DEF BenchSpec, loopSub

-----------------------------------------------------------------------------
(* The inductive invariant of the barrier *)

\* A worker is past its wait in the main thread's batch; it has reported it.
Inside(w) == worker_batch[w] = main_batch /\ worker_pc[w] # "wait"
Reported == {w \in Workers : worker_batch[w] = main_batch /\ worker_pc[w] = "leave"}

\* The main thread has cleared the reports; it has cleared the counters.
Settled == main_pc \in {"start", "await", "measure"}
Cleared == main_pc = "reset_completed" \/ Settled

\* Every worker is in the main thread's batch, or on its way out of the one before.
Places ==
  /\ \/ current_batch = main_batch
     \/ /\ main_batch = 0 /\ current_batch = NoBatch
        /\ main_pc \in {"reset_counters", "reset_completed", "start"}
  /\ main_pc \in {"join", "done"} <=> main_batch = BatchCount
  /\ main_pc \in {"await", "measure"} => current_batch = main_batch
  /\ \A w \in Workers :
       /\ \/ worker_batch[w] = main_batch
          \/ worker_batch[w] = main_batch - 1 /\ worker_pc[w] = "leave"
       /\ Inside(w) => current_batch = main_batch /\ main_batch < BatchCount
       /\ worker_pc[w] = "leave" => worker_i[w] = BatchSize

\* The reports that were counted are those of this batch, and until the reset at
\* its beginning two of the one before.  Only an erased report is missing.
Reports ==
  /\ completed_threads <= Cardinality(Reported) + (IF Settled THEN 0 ELSE 2)
  /\ Settled /\ ~lost => completed_threads = Cardinality(Reported)
  /\ main_pc = "measure" => Reported = Workers

\* The counters show the increments of this batch but those that were erased, and
\* until they are cleared those of the one before as well.
Made(w) == IF Inside(w) THEN worker_i[w] ELSE 0
Increments ==
  \A w \in Workers :
    IF Cleared THEN /\ counters[w] <= Made(w)
                    /\ w \in disturbed \/ counters[w] = Made(w)
    ELSE counters[w] <= BatchSize + Made(w)

BarrierInv == BarrierTypeOK /\ Places /\ Reports /\ Increments

-----------------------------------------------------------------------------
(* The steps of the barrier *)

\* There are never more reports of a batch than workers.
LEMMA ReportedCount ==
  /\ IsFiniteSet(Reported)
  /\ Cardinality(Reported) \in 0 .. 2
  /\ Cardinality(Reported) = 2 => Reported = Workers
<1>1. Reported \in SUBSET Workers
  BY DEF Reported
<1>2. QED
  BY <1>1, FS_Subset, FS_CardinalityType, WorkersAssumption

\* At the beginning nobody has reported anything.
LEMMA BarrierInitInv == BarrierInit => BarrierInv
<1> SUFFICES ASSUME BarrierInit PROVE BarrierInv
  OBVIOUS
<1>1. BarrierTypeOK
  <2>1. 0 \in 0 .. BatchCount /\ 0 \in 0 .. BatchSize /\ 0 \in 0 .. 2 * BatchSize
    BY CountsAssumption
  <2>2. completed_threads \in 0 .. 4
    BY DEF BarrierInit
  <2>3. lost \in BOOLEAN
    BY Zenon DEF BarrierInit
  <2>4. QED
    BY <2>1, <2>2, <2>3, Zenon DEF BarrierInit, BarrierTypeOK
<1>2. Places
  BY CountsAssumption DEF BarrierInit, Places, Inside
<1>3. Reports
  BY ReportedCount DEF BarrierInit, Reports, Settled
<1>4. Increments
  BY CountsAssumption DEF BarrierInit, Increments, Made, Inside, Cleared, Settled
<1>5. QED
  BY <1>1, <1>2, <1>3, <1>4 DEF BarrierInv

\* A worker finds its batch: nothing is reported or counted yet.
LEMMA EnterInv ==
  ASSUME BarrierInv, NEW v \in Workers, Enter(v)
  PROVE  BarrierInv'
<1> USE DEF BarrierInv, Enter, mainVars, ghostVars
<1>1. worker_batch[v] = main_batch /\ main_batch < BatchCount
  BY NoBatchAssumption, CountsAssumption DEF BarrierTypeOK, Places
<1>2. Reported' = Reported
  BY DEF Reported, BarrierTypeOK
<1>3. BarrierTypeOK'
  BY CountsAssumption DEF BarrierTypeOK
<1>4. Places'
  BY <1>1 DEF Places, Inside, BarrierTypeOK
<1>5. Reports'
  BY <1>2 DEF Reports, Settled
<1>6. \A w \in Workers : Made(w)' = Made(w)
  BY <1>1 DEF Made, Inside, BarrierTypeOK
<1>7. Increments'
  BY <1>6 DEF Increments, Cleared, Settled
<1>8. QED
  BY <1>3, <1>4, <1>5, <1>7

\* One increment of both the counter and the worker's loop.
LEMMA CountInv ==
  ASSUME BarrierInv, NEW v \in Workers, Count(v)
  PROVE  BarrierInv'
<1> USE DEF BarrierInv, Count, mainVars, ghostVars
<1>1. worker_batch[v] = main_batch
  BY DEF Places
<1>2. Reported' = Reported
  BY DEF Reported
<1>3. \A w \in Workers : /\ Made(w) \in 0 .. BatchSize
                         /\ Made(w)' = IF w = v THEN Made(w) + 1 ELSE Made(w)
  BY <1>1, CountsAssumption DEF Made, Inside, BarrierTypeOK
<1>4. \A w \in Workers : counters[w]' = IF w = v THEN counters[w] + 1 ELSE counters[w]
  BY DEF BarrierTypeOK
<1>5. \A w \in Workers : Made(w)' \in 0 .. BatchSize
  BY <1>1, CountsAssumption DEF Made, Inside, BarrierTypeOK
<1>6. Increments'
  BY <1>3, <1>4, CountsAssumption DEF Increments, Cleared, Settled, BarrierTypeOK
<1>7. BarrierTypeOK'
  <2>1. \A w \in Workers : counters[w]' <= 2 * BatchSize
    BY <1>4, <1>5, <1>6, CountsAssumption DEF Increments, BarrierTypeOK
  <2>2. QED
    BY <2>1, CountsAssumption DEF BarrierTypeOK
<1>8. Places'
  BY DEF Places, Inside, BarrierTypeOK
<1>9. Reports'
  BY <1>2 DEF Reports, Settled
<1>10. QED
  BY <1>6, <1>7, <1>8, <1>9

\* A worker reports: one more is counted, of this batch.
LEMMA ReportInv ==
  ASSUME BarrierInv, NEW v \in Workers, Report(v)
  PROVE  BarrierInv'
<1> USE DEF BarrierInv, Report, mainVars, ghostVars
<1>1. worker_batch[v] = main_batch
  BY DEF Places
<1>2. v \notin Reported /\ Reported' = Reported \cup {v}
  BY <1>1 DEF Reported, BarrierTypeOK
<1>3. Cardinality(Reported') = Cardinality(Reported) + 1
  BY <1>2, ReportedCount, FS_AddElement
<1>4. Cardinality(Reported') \in 0 .. 2
  <2>1. Reported' \in SUBSET Workers
    BY DEF Reported
  <2>2. QED
    BY <2>1, FS_Subset, FS_CardinalityType, WorkersAssumption
<1>5. main_pc # "measure"
  BY <1>2 DEF Reports
<1>6. Reports'
  BY <1>3, <1>5, ReportedCount DEF Reports, Settled, BarrierTypeOK
<1>7. BarrierTypeOK'
  BY <1>3, <1>4, ReportedCount, CountsAssumption DEF BarrierTypeOK, Reports
<1>8. Places'
  BY DEF Places, Inside, BarrierTypeOK
<1>9. \A w \in Workers : Made(w)' = Made(w)
  BY DEF Made, Inside, BarrierTypeOK
<1>10. Increments'
  BY <1>9 DEF Increments, Cleared, Settled
<1>11. QED
  BY <1>6, <1>7, <1>8, <1>10

\* A worker leaves the batch before: the one of the main thread keeps it.
LEMMA LeaveInv ==
  ASSUME BarrierInv, NEW v \in Workers, Leave(v)
  PROVE  BarrierInv'
<1> USE DEF BarrierInv, Leave, mainVars, ghostVars
<1>1. worker_batch[v] = main_batch - 1
  BY DEF Places, Inside
<1>2. worker_batch'[v] = main_batch /\ main_batch - 1 # main_batch
  BY <1>1, CountsAssumption DEF BarrierTypeOK
<1>3. Reported' = Reported
  BY <1>1, <1>2 DEF Reported, BarrierTypeOK
<1>4. BarrierTypeOK'
  BY <1>2 DEF BarrierTypeOK
<1>5. Places'
  BY <1>2 DEF Places, Inside, BarrierTypeOK
<1>6. Reports'
  BY <1>3 DEF Reports, Settled
<1>7. \A w \in Workers : Made(w)' = Made(w)
  BY <1>1, <1>2 DEF Made, Inside, BarrierTypeOK
<1>8. Increments'
  BY <1>7 DEF Increments, Cleared, Settled
<1>9. QED
  BY <1>4, <1>5, <1>6, <1>8

\* The counters are cleared; who had increments in this batch is disturbed.
LEMMA ResetCountersInv ==
  ASSUME BarrierInv, ResetCounters
  PROVE  BarrierInv'
<1> USE DEF BarrierInv, ResetCounters, workerVars
<1>1. Reported' = Reported
  BY DEF Reported
<1>2. BarrierTypeOK'
  BY CountsAssumption DEF BarrierTypeOK
<1>3. Places'
  BY DEF Places, Inside
<1>4. Reports'
  BY <1>1 DEF Reports, Settled
<1>5. \A w \in Workers : Made(w)' = Made(w)
  BY DEF Made, Inside
<1>6. \A w \in Workers : /\ 0 <= Made(w)
                         /\ w \notin disturbed' => Made(w) = 0
  BY CountsAssumption DEF Made, Inside, BarrierTypeOK
<1>7. \A w \in Workers : counters'[w] = 0
  OBVIOUS
<1>8. Increments'
  BY <1>5, <1>6, <1>7 DEF Increments, Cleared
<1>9. QED
  BY <1>2, <1>3, <1>4, <1>8

\* The reports are cleared: one of this batch that was there is lost.
LEMMA ResetCompletedInv ==
  ASSUME BarrierInv, ResetCompleted
  PROVE  BarrierInv'
<1> USE DEF BarrierInv, ResetCompleted, workerVars
<1>1. Reported' = Reported
  BY DEF Reported
<1>2. lost' <=> lost \/ Reported # {}
  BY DEF Reported
<1>3. BarrierTypeOK'
  BY DEF BarrierTypeOK
<1>4. Places'
  BY DEF Places, Inside
<1>5. Reports'
  BY <1>1, <1>2, ReportedCount, FS_EmptySet DEF Reports, Settled
<1>6. Increments'
  BY DEF Increments, Cleared, Settled, Made, Inside
<1>7. QED
  BY <1>3, <1>4, <1>5, <1>6

\* The first store of the batch's number.
LEMMA AnnounceInv ==
  ASSUME BarrierInv, AnnounceBatch
  PROVE  BarrierInv'
<1> USE DEF BarrierInv, AnnounceBatch, workerVars, ghostVars
<1>1. Reported' = Reported
  BY DEF Reported
<1>2. BarrierTypeOK'
  BY DEF BarrierTypeOK
<1>3. main_batch < BatchCount
  BY CountsAssumption DEF Places, BarrierTypeOK
<1>4. Places'
  BY <1>3 DEF Places, Inside
<1>5. Reports'
  BY <1>1 DEF Reports, Settled
<1>6. Increments'
  BY DEF Increments, Cleared, Settled, Made, Inside
<1>7. QED
  BY <1>2, <1>4, <1>5, <1>6

\* Two reports are counted, so both workers have reported this batch.
LEMMA AwaitInv ==
  ASSUME BarrierInv, AwaitCompletion
  PROVE  BarrierInv'
<1> USE DEF BarrierInv, AwaitCompletion, workerVars, ghostVars
<1>1. Reported' = Reported
  BY DEF Reported
<1>2. Cardinality(Reported) = 2 /\ Reported = Workers
  BY ReportedCount DEF Reports, Settled
<1>3. BarrierTypeOK'
  BY DEF BarrierTypeOK
<1>4. Places'
  BY DEF Places, Inside
<1>5. Reports'
  BY <1>1, <1>2 DEF Reports, Settled
<1>6. Increments'
  BY DEF Increments, Cleared, Settled, Made, Inside
<1>7. QED
  BY <1>3, <1>4, <1>5, <1>6

\* The batch is measured and the workers are let out of it into the next.
LEMMA FinishInv ==
  ASSUME BarrierInv, FinishBatch
  PROVE  BarrierInv'
<1> USE DEF BarrierInv, FinishBatch, workerVars, ghostVars
<1>1. main_batch < BatchCount
  BY CountsAssumption DEF Places, BarrierTypeOK
<1>2. \A w \in Workers : /\ worker_batch[w] = main_batch' - 1
                         /\ worker_batch[w] # main_batch'
                         /\ worker_pc[w] = "leave"
  BY DEF Reports, Reported, BarrierTypeOK
<1>3. BarrierTypeOK'
  BY <1>1, CountsAssumption DEF BarrierTypeOK
<1>4. Places'
  BY <1>1, <1>2, CountsAssumption DEF Places, Inside, BarrierTypeOK
<1>5. Reported' = {}
  BY <1>2 DEF Reported
<1>6. completed_threads <= 2
  BY ReportedCount DEF Reports, Settled, BarrierTypeOK
<1>7. Reports'
  BY <1>5, <1>6, FS_EmptySet DEF Reports, Settled
<1>8. \A w \in Workers : counters[w] <= BatchSize
  BY CountsAssumption DEF Increments, Cleared, Settled, Made, Inside, BarrierTypeOK
<1>9. \A w \in Workers : Made(w)' = 0
  BY <1>2 DEF Made, Inside
<1>10. Increments'
  BY <1>8, <1>9, CountsAssumption DEF Increments, Cleared, Settled, BarrierTypeOK
<1>11. QED
  BY <1>3, <1>4, <1>7, <1>10

\* The threads are joined.
LEMMA JoinInv ==
  ASSUME BarrierInv, Join
  PROVE  BarrierInv'
<1> USE DEF BarrierInv, Join, workerVars, ghostVars
<1>1. Reported' = Reported
  BY DEF Reported
<1>2. QED
  BY <1>1 DEF BarrierTypeOK, Places, Reports, Settled, Increments, Cleared, Made, Inside

\* Every step keeps the invariant.
LEMMA BarrierNextInv == BarrierInv /\ [BarrierNext]_barrierVars => BarrierInv'
<1> SUFFICES ASSUME BarrierInv, [BarrierNext]_barrierVars PROVE BarrierInv'
  OBVIOUS
<1>1. CASE MainStep
  BY <1>1, ResetCountersInv, ResetCompletedInv, AnnounceInv, AwaitInv, FinishInv, JoinInv
  DEF MainStep
<1>2. CASE \E w \in Workers : WorkerStep(w)
  BY <1>2, EnterInv, CountInv, ReportInv, LeaveInv DEF WorkerStep
<1>3. CASE UNCHANGED barrierVars
  BY <1>3 DEF BarrierInv, BarrierTypeOK, Places, Reports, Reported, Settled, Increments,
     Cleared, Made, Inside, barrierVars, mainVars, workerVars, ghostVars
<1>4. QED
  BY <1>1, <1>2, <1>3 DEF BarrierNext

-----------------------------------------------------------------------------
(* The theorems about the barrier *)

\* The invariant holds in every state of the three threads.
THEOREM BarrierInvariantHolds == BarrierSpec => []BarrierInv
BY BarrierInitInv, BarrierNextInv, PTL DEF BarrierSpec

\* The types: among them that no more than two batches' reports and increments ever
\* add up.
THEOREM BarrierTypeCorrect == BarrierSpec => []BarrierTypeOK
<1>1. BarrierInv => BarrierTypeOK
  BY DEF BarrierInv
<1>2. QED
  BY <1>1, BarrierInvariantHolds, PTL

\* run_false_sharing_benchmark: what is measured is a whole batch, although its
\* number is announced before it is prepared.
THEOREM OnlyWholeIsMeasured == BarrierSpec => []MeasuredWhole
<1>1. BarrierInv => MeasuredWhole
  <2> SUFFICES ASSUME BarrierInv, main_pc = "measure", NEW w \in Workers
               PROVE  /\ worker_batch[w] = main_batch
                      /\ worker_i[w] = BatchSize
                      /\ w \in disturbed \/ counters[w] = BatchSize
    BY DEF MeasuredWhole
  <2>1. worker_batch[w] = main_batch /\ worker_pc[w] = "leave"
    BY DEF BarrierInv, Reports, Reported
  <2>2. worker_i[w] = BatchSize
    BY <2>1 DEF BarrierInv, Places
  <2>3. QED
    BY <2>1, <2>2 DEF BarrierInv, Increments, Cleared, Settled, Made, Inside
<1>2. QED
  BY <1>1, BarrierInvariantHolds, PTL

\* What the main thread waits for has come if both workers have reported this batch
\* and no report of it was erased.
ReportsCount ==
  main_pc = "await" /\ ~lost /\ (\A w \in Workers : w \in Reported) =>
    completed_threads = 2

\* While the main thread waits and no report of this batch was erased, two finished
\* workers are counted as two.
THEOREM BlockedOnlyByLoss == BarrierSpec => []ReportsCount
<1>1. BarrierInv => ReportsCount
  <2> SUFFICES ASSUME BarrierInv, main_pc = "await", ~lost,
                      \A w \in Workers : w \in Reported
               PROVE  completed_threads = 2
    BY DEF ReportsCount
  <2>1. Reported = Workers
    BY DEF Reported
  <2>2. QED
    BY <2>1, WorkersAssumption DEF BarrierInv, Reports, Settled
<1>2. QED
  BY <1>1, BarrierInvariantHolds, PTL

-----------------------------------------------------------------------------
(* The inductive invariant of the file benchmarks *)

\* The places where there is a complete writer; where it can go on.
Complete == {"batches", "write", "destroy", "unwind"}
Operating == {"batches", "write", "destroy"}

\* The operations the command line asks for, and those that are left of them.
Asked == options.iterations + options.warmup_iterations
Left == remaining + operations + (IF measuring THEN 0 ELSE options.iterations)

\* What the constructor's calls have made so far is what there is, besides the files
\* of earlier writers that the system refused to remove.
Owning ==
  /\ handles = {Calls[k] : k \in 1 .. made} \ {"space"}
  /\ files = (IF made > 0 THEN {writer} ELSE {}) \cup unremoved
  /\ pc # "failed" => unremoved \subseteq 1 .. writer - 1
  /\ pc # "returned" => writer \in 1 .. Len(Writers)
  /\ pc = "construct" => made < Len(Calls)
  /\ pc \in Complete => made = Len(Calls)
  /\ pc = "returned" => made = 0

\* What is written and what is left make the whole, and what is measured is what the
\* measured loop has taken.
Working ==
  /\ pc = "construct" => ~measuring /\ measured = 0 /\ position = 0
  /\ pc \in {"construct", "batches", "destroy"} => operations = 0
  /\ pc \in Operating =>
       /\ position + Left * options.block_size = Asked * options.block_size
       /\ measured = IF measuring THEN options.iterations - remaining ELSE 0
  /\ pc = "destroy" => measuring /\ remaining = 0

FilesInv == FilesTypeOK /\ Owning /\ Working

-----------------------------------------------------------------------------
(* What the file benchmarks are made of *)

\* The calls of a constructor: the file comes first.
LEMMA CallsAre ==
  /\ Len(Calls) \in {2, 4}
  /\ Calls[1] = "file"
  /\ \A k \in 1 .. Len(Calls) : Calls[k] \in {"file", "space", "mapping", "view"}
BY DEF Calls

\* parse_options leaves no zero that something is divided by or counted in.
LEMMA NormalizedType ==
  ASSUME NEW a \in Arguments
  PROVE  Normalized(a) \in [iterations : Nat \ {0}, warmup_iterations : Nat,
                            batch_size : Nat \ {0}, block_size : Nat \ {0}]
<1> DEFINE iterations == IF a.iterations = 0 THEN 1 ELSE a.iterations
           batch == IF a.batch_size = 0 THEN iterations ELSE a.batch_size
           block == IF a.block_size = 0 THEN 1 ELSE a.block_size
<1>1. a \in [iterations : Nat, warmup_iterations : Nat, batch_size : Nat, block_size : Nat]
  BY ArgumentsAssumption
<1>2. iterations \in Nat \ {0} /\ batch \in Nat \ {0} /\ block \in Nat \ {0}
  BY <1>1
<1>3. a = [iterations |-> a.iterations, warmup_iterations |-> a.warmup_iterations,
           batch_size |-> a.batch_size, block_size |-> a.block_size]
  BY <1>1
<1>4. Normalized(a) = [[[a EXCEPT !.iterations = iterations] EXCEPT !.batch_size = batch]
                         EXCEPT !.block_size = block]
  BY <1>1 DEF Normalized
<1>5. Normalized(a) = [iterations |-> iterations,
                       warmup_iterations |-> a.warmup_iterations,
                       batch_size |-> batch, block_size |-> block]
  BY <1>3, <1>4
<1>6. QED
  BY <1>1, <1>2, <1>5

\* The smaller of two numbers.
LEMMA MinOfTwo ==
  ASSUME NEW a \in Nat, NEW b \in Nat
  PROVE  Min({a, b}) = IF a <= b THEN a ELSE b
<1>1. \E x \in {a, b} : \A y \in {a, b} : x <= y
  OBVIOUS
<1>2. Min({a, b}) \in {a, b} /\ \A y \in {a, b} : Min({a, b}) <= y
  BY <1>1 DEF Min
<1>3. QED
  BY <1>2

\* The larger of two numbers.
LEMMA MaxOfTwo ==
  ASSUME NEW a \in Nat, NEW b \in Nat
  PROVE  Max({a, b}) = IF a >= b THEN a ELSE b
<1>1. \E x \in {a, b} : \A y \in {a, b} : x >= y
  OBVIOUS
<1>2. Max({a, b}) \in {a, b} /\ \A y \in {a, b} : Max({a, b}) >= y
  BY <1>1 DEF Max
<1>3. QED
  BY <1>2

\* A batch is not empty and takes no more than there is.
LEMMA BatchTakes ==
  ASSUME NEW r \in Nat, NEW b \in Nat, r > 0, b > 0
  PROVE  /\ Min({r, b}) \in Nat
         /\ Min({r, b}) > 0
         /\ Min({r, b}) <= r
BY MinOfTwo

\* Products of what is left.
LEMMA OneBlockLess ==
  ASSUME NEW n \in Nat, NEW b \in Nat, n > 0
  PROVE  /\ n * b \in Nat
         /\ (n - 1) * b = n * b - b
         /\ b <= n * b
<1>1. (n - 1) * b = n * b - b
  OBVIOUS
<1>2. (n - 1) * b \in Nat
  OBVIOUS
<1>3. QED
  BY <1>1, <1>2

-----------------------------------------------------------------------------
(* The steps of the file benchmarks *)

\* The number types, and what the calls are, as the steps need them.
LEMMA Numbers ==
  ASSUME FilesTypeOK
  PROVE  /\ options.iterations \in Nat \ {0} /\ options.warmup_iterations \in Nat
         /\ options.batch_size \in Nat \ {0} /\ options.block_size \in Nat \ {0}
         /\ remaining \in Nat /\ operations \in Nat /\ position \in Nat
         /\ measured \in Nat /\ measuring \in BOOLEAN
         /\ Left \in Nat /\ Asked \in Nat
<1>1. options \in [iterations : Nat \ {0}, warmup_iterations : Nat,
                   batch_size : Nat \ {0}, block_size : Nat \ {0}]
  BY DEF FilesTypeOK
<1>2. measuring \in BOOLEAN
  BY DEF FilesTypeOK
<1>3. {remaining, operations, position, measured} \subseteq Nat
  BY DEF FilesTypeOK
<1>4. Left \in Nat /\ Asked \in Nat
  BY <1>1, <1>2, <1>3 DEF Left, Asked
<1>5. QED
  BY <1>1, <1>2, <1>3, <1>4

\* Before main's first block nothing is open and nothing done.
LEMMA FilesInitInv == FilesInit => FilesInv
<1> SUFFICES ASSUME FilesInit PROVE FilesInv
  OBVIOUS
<1>1. FilesTypeOK
  <2>1. options \in [iterations : Nat \ {0}, warmup_iterations : Nat,
                     batch_size : Nat \ {0}, block_size : Nat \ {0}]
    BY NormalizedType DEF FilesInit
  <2>2. writer \in 1 .. Len(Writers) + 1
    BY WritersAssumption DEF FilesInit
  <2>3. measuring \in BOOLEAN
    BY Zenon DEF FilesInit
  <2>4. made \in 0 .. 4 /\ {remaining, operations, position, measured} \subseteq Nat
    BY DEF FilesInit
  <2>5. QED
    BY <2>1, <2>2, <2>3, <2>4 DEF FilesInit, FilesTypeOK
<1>2. Owning
  <2>1. {Calls[k] : k \in 1 .. made} = {}
    BY DEF FilesInit
  <2>2. Len(Writers) >= 1
    BY WritersAssumption
  <2>3. QED
    BY <2>1, <2>2, CallsAre DEF FilesInit, Owning, Complete
<1>3. Working
  BY DEF FilesInit, Working, Operating
<1>4. QED
  BY <1>1, <1>2, <1>3 DEF FilesInv

\* One more call has succeeded, and what it opened is owned; the last one starts the
\* warmup with everything still to do.
LEMMA AcquireInv ==
  ASSUME FilesInv, Acquire
  PROVE  FilesInv'
<1> USE DEF FilesInv, Acquire
<1>1. /\ made \in 0 .. 3 /\ made + 1 \in 1 .. Len(Calls)
      /\ pc' \in {"construct", "batches"}
      /\ pc' = "construct" <=> made + 1 # Len(Calls)
  <2>1. made \in 0 .. 4 /\ made < Len(Calls)
    BY DEF FilesTypeOK, Owning
  <2>2. made \in 0 .. 3 /\ made + 1 \in 1 .. Len(Calls)
    BY <2>1, CallsAre
  <2>3. IF made + 1 = Len(Calls) THEN pc' = "batches" ELSE pc' = "construct"
    OBVIOUS
  <2>4. QED
    BY <2>2, <2>3
<1>2. Calls' = Calls
  BY DEF Calls
<1>3. {Calls[k] : k \in 1 .. made + 1} = {Calls[k] : k \in 1 .. made} \cup {Calls[made + 1]}
  <2>1. 1 .. made + 1 = (1 .. made) \cup {made + 1}
    BY <1>1
  <2>2. QED
    BY <2>1
<1>4. Owning'
  <2>1. handles' = {Calls[k] : k \in 1 .. made + 1} \ {"space"}
    BY <1>3 DEF Owning
  <2>2. files' = {writer} \cup unremoved
    BY <1>1 DEF Owning
  <2>3. /\ pc' = "construct" => made' < Len(Calls)
        /\ pc' = "batches" => made' = Len(Calls)
        /\ made' > 0
    BY <1>1, CallsAre
  <2>4. QED
    BY <2>1, <2>2, <2>3, <1>1, <1>2 DEF Owning, Complete
<1>5. remaining' \in Nat
  BY Numbers
<1>6. FilesTypeOK'
  <2>1. handles' \subseteq {"file", "mapping", "view"}
    BY <1>1, CallsAre DEF FilesTypeOK
  <2>2. files' \subseteq 1 .. Len(Writers)
    BY DEF FilesTypeOK, Owning
  <2>3. made' \in 0 .. 4
    BY <1>1
  <2>4. QED
    BY <1>1, <1>5, <2>1, <2>2, <2>3 DEF FilesTypeOK
<1>7. Working'
  <2>1. CASE pc' = "construct"
    BY <2>1 DEF Working, Operating
  <2>2. CASE pc' = "batches"
    <3>1. /\ remaining' = options.warmup_iterations /\ operations = 0
          /\ ~measuring /\ measured = 0 /\ position = 0
      BY <2>2 DEF Working
    <3>2. Left' = Asked
      BY <3>1, Numbers DEF Left, Asked
    <3>3. Asked * options.block_size \in Nat
      BY Numbers
    <3>4. position' + Left' * options'.block_size = Asked' * options'.block_size
      BY <3>1, <3>2, <3>3 DEF Asked
    <3>5. QED
      BY <2>2, <3>1, <3>4 DEF Working
  <2>3. QED
    BY <1>1, <2>1, <2>2
<1>8. QED
  BY <1>4, <1>6, <1>7

\* Steps that leave the writer, its progress and main's place alone.
LEMMA Kept ==
  ASSUME FilesInv, UNCHANGED <<options, writer, writerVars>>,
         pc # "construct", pc' \in {"batches", "write", "destroy", "unwind"},
         pc \in Complete,
         {remaining', operations', measured'} \subseteq Nat, measuring' \in BOOLEAN
  PROVE  FilesTypeOK' /\ Owning'
<1> USE DEF FilesInv, writerVars
<1>1. Calls' = Calls
  BY DEF Calls
<1>2. Owning'
  BY <1>1 DEF Owning, Complete
<1>3. FilesTypeOK'
  BY DEF FilesTypeOK
<1>4. QED
  BY <1>2, <1>3

\* The constructor throws: nothing but what it had opened is left.
LEMMA AcquireFailsInv ==
  ASSUME FilesInv, AcquireFails
  PROVE  FilesInv'
<1> USE DEF FilesInv, AcquireFails, writerVars, batchVars
<1>1. Calls' = Calls
  BY DEF Calls
<1>2. Owning'
  BY <1>1 DEF Owning, Complete
<1>3. FilesTypeOK'
  BY DEF FilesTypeOK
<1>4. Working'
  BY DEF Working, Operating
<1>5. QED
  BY <1>2, <1>3, <1>4

\* A batch is taken from what remains; what is left to do is the same.
LEMMA StartBatchInv ==
  ASSUME FilesInv, StartBatch
  PROVE  FilesInv' /\ operations' > 0
<1> USE DEF FilesInv, StartBatch
<1>1. operations' \in Nat /\ operations' > 0 /\ operations' <= remaining
  BY Numbers, BatchTakes
<1>2. remaining' \in Nat /\ remaining' + operations' = remaining
  BY <1>1, Numbers
<1>3. measured' \in Nat
  BY <1>1, Numbers
<1>4. FilesTypeOK' /\ Owning'
  BY <1>1, <1>2, <1>3, Kept, Numbers DEF Complete
<1>5. operations = 0
  BY DEF Working
<1>6. Left' = Left
  BY <1>2, <1>5, Numbers DEF Left
<1>7. measured' = IF measuring' THEN options'.iterations - remaining' ELSE 0
  BY <1>1, <1>2, Numbers DEF Working, Operating
<1>8. position' + Left' * options'.block_size = Asked' * options'.block_size
  BY <1>6 DEF Working, Operating, Asked, writerVars
<1>9. Working'
  BY <1>7, <1>8 DEF Working
<1>10. QED
  BY <1>1, <1>4, <1>9

\* One block is written, and one operation less is left.
LEMMA WriteInv ==
  ASSUME FilesInv, Write
  PROVE  FilesInv'
<1> USE DEF FilesInv, Write
<1>1. operations' \in Nat /\ operations' = operations - 1
  BY Numbers
<1>2. position' \in Nat /\ position' = position + options.block_size
  BY Numbers
<1>3. Left' = Left - 1 /\ Left > 0
  BY Numbers DEF Left
<1>4. Calls' = Calls
  BY DEF Calls
<1>5. Owning'
  BY <1>4 DEF Owning
<1>6. FilesTypeOK'
  BY <1>1, <1>2 DEF FilesTypeOK
<1>7. Left' * options.block_size = Left * options.block_size - options.block_size
  BY <1>3, OneBlockLess, Numbers
<1>8. position' + Left' * options'.block_size = Asked' * options'.block_size
  <2>1. Left * options.block_size \in Nat
    BY <1>3, OneBlockLess, Numbers
  <2>2. position + Left * options.block_size = Asked * options.block_size
    BY DEF Working, Operating
  <2>3. position' + Left' * options.block_size = position + Left * options.block_size
    BY <1>2, <1>7, <2>1, Numbers
  <2>4. QED
    BY <2>2, <2>3 DEF Asked
<1>9. Working'
  BY <1>8 DEF Working, Operating
<1>10. QED
  BY <1>5, <1>6, <1>9

\* A write fails: the complete writer is still there to be destroyed.
LEMMA WriteFailsInv ==
  ASSUME FilesInv, WriteFails
  PROVE  FilesInv'
<1> USE DEF FilesInv, WriteFails, batchVars
<1>1. FilesTypeOK' /\ Owning'
  BY Kept, Numbers DEF Complete
<1>2. Working'
  BY DEF Working, Operating
<1>3. QED
  BY <1>1, <1>2

\* The batch is written.
LEMMA EndBatchInv ==
  ASSUME FilesInv, EndBatch
  PROVE  FilesInv'
<1> USE DEF FilesInv, EndBatch, batchVars
<1>1. FilesTypeOK' /\ Owning'
  BY Kept, Numbers DEF Complete
<1>2. Working'
  BY DEF Working, Operating, Left, Asked, writerVars
<1>3. QED
  BY <1>1, <1>2

\* The measured loop takes over what was left to it.
LEMMA StartMeasuringInv ==
  ASSUME FilesInv, StartMeasuring
  PROVE  FilesInv'
<1> USE DEF FilesInv, StartMeasuring
<1>1. FilesTypeOK' /\ Owning'
  BY Kept, Numbers DEF Complete
<1>2. operations = 0 /\ measured = 0
  BY DEF Working, Operating
<1>3. Left' = Left
  BY <1>2, Numbers DEF Left
<1>4. position' + Left' * options'.block_size = Asked' * options'.block_size
  BY <1>3 DEF Working, Operating, Asked, writerVars
<1>5. measured' = options'.iterations - remaining'
  BY <1>2, Numbers
<1>6. Working'
  BY <1>2, <1>4, <1>5 DEF Working
<1>7. QED
  BY <1>1, <1>6

\* Nothing is left: all of the iterations are measured.
LEMMA EndBenchmarkInv ==
  ASSUME FilesInv, EndBenchmark
  PROVE  FilesInv' /\ measured = options.iterations
<1> USE DEF FilesInv, EndBenchmark, batchVars
<1>1. FilesTypeOK' /\ Owning'
  BY Kept, Numbers DEF Complete
<1>2. Working'
  BY DEF Working, Operating, Left, Asked, writerVars
<1>3. measured = options.iterations
  BY Numbers DEF Working, Operating
<1>4. QED
  BY <1>1, <1>2, <1>3

\* The destructor closes all a complete writer has and then removes its file, or the
\* system refuses that.
LEMMA DestroysAll ==
  ASSUME FilesInv, CloseThenRemove, pc \in Complete
  PROVE  /\ handles' = {}
         /\ files' = unremoved'
         /\ unremoved' \subseteq 1 .. writer
         /\ writer \in 1 .. Len(Writers)
<1>1. handles' = {}
  BY DEF FilesInv, FilesTypeOK, CloseThenRemove
<1>2. /\ files = {writer} \cup unremoved
      /\ unremoved \subseteq 1 .. writer - 1
      /\ writer \in 1 .. Len(Writers) /\ Len(Writers) \in Nat
  BY CallsAre, WritersAssumption DEF FilesInv, Owning, Complete
<1>3. \/ files' = files \ {writer} /\ unremoved' = unremoved
      \/ files' = files /\ unremoved' = unremoved \cup {writer}
  BY <1>1 DEF CloseThenRemove, RemoveFile
<1>4. writer \notin unremoved /\ unremoved \subseteq 1 .. writer /\ writer \in 1 .. writer
  BY <1>2
<1>5. files' = unremoved'
  BY <1>2, <1>3, <1>4
<1>6. unremoved' \subseteq 1 .. writer
  BY <1>3, <1>4
<1>7. QED
  BY <1>1, <1>2, <1>5, <1>6

\* The block of a writer ends: the next one starts from nothing of its own.
LEMMA DestroyInv ==
  ASSUME FilesInv, Destroy
  PROVE  FilesInv'
<1> USE DEF FilesInv, Destroy
<1>1. /\ handles' = {} /\ files' = unremoved'
      /\ unremoved' \subseteq 1 .. writer /\ writer \in 1 .. Len(Writers)
  BY DestroysAll DEF Complete
<1>2. {Calls'[k] : k \in 1 .. made'} = {}
  OBVIOUS
<1>3. Len(Writers) \in Nat /\ writer' - 1 = writer /\ unremoved' \subseteq 1 .. Len(Writers)
  BY <1>1, WritersAssumption
<1>4. Len(Calls') > 0
  BY DEF Calls
<1>5. Owning'
  BY <1>1, <1>2, <1>3, <1>4 DEF Owning, Complete
<1>6. FilesTypeOK'
  <2>1. measuring' \in BOOLEAN
    BY Zenon
  <2>2. QED
    BY <1>1, <1>3, <2>1 DEF FilesTypeOK
<1>7. Working'
  BY DEF Working, Operating
<1>8. QED
  BY <1>5, <1>6, <1>7

\* An exception destroys the writer.
LEMMA UnwindInv ==
  ASSUME FilesInv, Unwind
  PROVE  FilesInv'
<1> USE DEF FilesInv, Unwind, batchVars
<1>1. /\ handles' = {} /\ files' = unremoved'
      /\ unremoved' \subseteq 1 .. writer /\ writer \in 1 .. Len(Writers)
  BY DestroysAll DEF Complete
<1>2. {Calls'[k] : k \in 1 .. made'} = {}
  OBVIOUS
<1>3. unremoved' \subseteq 1 .. Len(Writers)
  BY <1>1, WritersAssumption
<1>4. Owning'
  BY <1>1, <1>2 DEF Owning, Complete
<1>5. FilesTypeOK'
  BY <1>1, <1>3 DEF FilesTypeOK
<1>6. Working'
  BY DEF Working, Operating
<1>7. QED
  BY <1>4, <1>5, <1>6

\* Nothing changes.
LEMMA FilesStutterInv ==
  ASSUME FilesInv, UNCHANGED filesVars
  PROVE  FilesInv'
BY DEF FilesInv, FilesTypeOK, Owning, Working, Calls, Complete, Operating, Left, Asked,
   filesVars, writerVars, batchVars

\* Every step keeps the invariant.
LEMMA FilesNextInv == FilesInv /\ [FilesNext]_filesVars => FilesInv'
BY AcquireInv, AcquireFailsInv, StartBatchInv, WriteInv, WriteFailsInv, EndBatchInv,
   StartMeasuringInv, EndBenchmarkInv, DestroyInv, UnwindInv, FilesStutterInv
DEF FilesNext, Step, FilesTerminated

-----------------------------------------------------------------------------
(* The theorems about the file benchmarks *)

\* The invariant holds in every state of main.
THEOREM FilesInvariantHolds == FilesSpec => []FilesInv
BY FilesInitInv, FilesNextInv, PTL DEF FilesSpec

\* The types: among them that no option that divides or counts is zero.
THEOREM FilesTypeCorrect == FilesSpec => []FilesTypeOK
<1>1. FilesInv => FilesTypeOK
  BY DEF FilesInv
<1>2. QED
  BY <1>1, FilesInvariantHolds, PTL

\* io_benchmark.cpp, main: whatever fails, only a constructor that throws leaves a
\* handle, and a temporary file is left only by such a constructor or because its
\* removal was refused after the writer had closed it.
THEOREM LeftoversExplained == FilesSpec => []LeftByThrowOrRefusal
<1>1. FilesInv => LeftByThrowOrRefusal
  BY DEF FilesInv, Owning, LeftByThrowOrRefusal
<1>2. QED
  BY <1>1, FilesInvariantHolds, PTL

\* The writes stay in the space the constructor reserved and fill it, whatever the
\* batches, as long as the total fits the word.
THEOREM SpaceIsFilled == FilesSpec => []FillsItsSpace
<1>1. FilesInv => FillsItsSpace
  <2> SUFFICES ASSUME FilesInv, Asked * options.block_size < SizeWord
               PROVE  /\ pc = "write" /\ operations > 0 =>
                           position + options.block_size <= total_bytes
                      /\ pc = "destroy" => position = total_bytes
    BY DEF FillsItsSpace, Asked
  <2> USE Numbers DEF FilesInv
  <2>1. total_bytes = Asked * options.block_size
    <3>1. Asked * options.block_size \in Nat /\ Asked * options.block_size >= 1
      <4>1. Asked > 0
        BY DEF Asked
      <4>2. QED
        BY <4>1, OneBlockLess
    <3>2. (Asked * options.block_size) % SizeWord = Asked * options.block_size
      BY <3>1, SizeWordAssumption
    <3>3. QED
      BY <3>1, <3>2, MaxOfTwo DEF total_bytes, Asked
  <2>2. ASSUME pc = "write", operations > 0
        PROVE  position + options.block_size <= total_bytes
    <3>1. Left > 0
      BY <2>2 DEF Left
    <3>2. options.block_size <= Left * options.block_size /\ Left * options.block_size \in Nat
      BY <3>1, OneBlockLess
    <3>3. position + Left * options.block_size = total_bytes
      BY <2>1, <2>2 DEF Working, Operating
    <3>4. QED
      BY <3>2, <3>3
  <2>3. ASSUME pc = "destroy"
        PROVE  position = total_bytes
    <3>1. Left = 0
      BY <2>3 DEF Working, Left
    <3>2. position + Left * options.block_size = total_bytes
      BY <2>1, <2>3 DEF Working, Operating
    <3>3. QED
      BY <3>1, <3>2
  <2>4. QED
    BY <2>2, <2>3
<1>2. QED
  BY <1>1, FilesInvariantHolds, PTL

\* run_batched_benchmark: no batch is empty, and the samples of a writer are exactly
\* the iterations asked for, without the warmup.
THEOREM SamplesAreWhole == FilesSpec => MeasuresAllOnce
<1>1. FilesInv /\ [FilesNext]_filesVars =>
        [/\ pc = "batches" /\ pc' = "write" => operations' > 0
         /\ pc' = "destroy" => measured = options.iterations]_filesVars
  <2> SUFFICES ASSUME FilesInv, FilesNext
               PROVE  /\ pc = "batches" /\ pc' = "write" => operations' > 0
                      /\ pc' = "destroy" =>
                           measured = options.iterations \/ UNCHANGED filesVars
    OBVIOUS
  <2>1. CASE Acquire
    BY <2>1, CallsAre DEF Acquire, FilesInv, Owning
  <2>2. CASE StartBatch
    BY <2>2, StartBatchInv DEF StartBatch
  <2>3. CASE EndBenchmark
    BY <2>3, EndBenchmarkInv DEF EndBenchmark
  <2>4. CASE AcquireFails \/ Write \/ WriteFails \/ EndBatch \/ StartMeasuring
    BY <2>4 DEF AcquireFails, Write, WriteFails, EndBatch, StartMeasuring
  <2>5. CASE Destroy \/ Unwind
    BY <2>5 DEF Destroy, Unwind
  <2>6. CASE FilesTerminated
    BY <2>6 DEF FilesTerminated, filesVars
  <2>7. QED
    BY <2>1, <2>2, <2>3, <2>4, <2>5, <2>6 DEF FilesNext, Step
<1>2. QED
  BY <1>1, FilesInvariantHolds, PTL DEF FilesSpec, MeasuresAllOnce
=============================================================================
