---------------------------- MODULE SpscRoundtrip ----------------------------
(***************************************************************************)
(* Two threads that run the ring as test_spsc_threaded_roundtrip and       *)
(* run_two_thread_benchmark do: the producer pushes 0, 1, 2, ... and tries *)
(* again until each push succeeds, the consumer pops until it has them     *)
(* all.  SpinWait::pause only passes time, so a retry is the next call.    *)
(***************************************************************************)
EXTENDS SpscRingBuffer

CONSTANT MessageCount

ASSUME MessagesAssumption ==
  MessageCount \in Nat /\ 0 .. MessageCount - 1 \subseteq Values

VARIABLES
  next_value,  \* the producer's loop counter
  expected,    \* the consumer's loop counter
  local_sum    \* the sum of what it popped

roundtripVars == <<vars, next_value, expected, local_sum>>

RoundtripInit ==
  /\ Init
  /\ next_value = 0
  /\ expected = 0
  /\ local_sum = 0

\* while (!queue.try_push(i)): the call, and what happens inside it.
ProducerStep ==
  /\ \/ next_value < MessageCount /\ EmplaceCall(next_value)
     \/ EmplaceFull
     \/ EmplaceRefresh
     \/ Construct
  /\ UNCHANGED <<next_value, expected, local_sum>>

\* The push returns true: ++next_value.
ProducerAdvance ==
  /\ PublishPush
  /\ next_value' = next_value + 1
  /\ UNCHANGED <<expected, local_sum>>

\* The consumer polls while it expects more.
ConsumerStep ==
  /\ \/ expected < MessageCount /\ TryPopCall
     \/ TryPopEmpty
     \/ TryPopRefresh
     \/ Take
  /\ UNCHANGED <<next_value, expected, local_sum>>

\* The pop returns a value: it is added up and the next one expected.
ConsumerAdvance ==
  /\ PublishPop
  /\ local_sum' = local_sum + out
  /\ expected' = expected + 1
  /\ UNCHANGED next_value

\* Both threads have left their loops and been joined.
Joined ==
  /\ next_value = MessageCount
  /\ expected = MessageCount
  /\ producer_pc = "idle"
  /\ consumer_pc = "idle"

RoundtripTerminated == Joined /\ UNCHANGED roundtripVars

RoundtripNext ==
  \/ ProducerStep
  \/ ProducerAdvance
  \/ ConsumerStep
  \/ ConsumerAdvance
  \/ RoundtripTerminated

\* Both threads keep running.  A store becomes visible to the other thread in
\* a finite time (the promise C++ makes of every atomic), so a load that is
\* repeated for ever does not answer with the old value for ever.
RoundtripFairness ==
  /\ WF_roundtripVars(ProducerStep)
  /\ WF_roundtripVars(ProducerAdvance)
  /\ WF_roundtripVars(ConsumerStep)
  /\ WF_roundtripVars(ConsumerAdvance)
  /\ SF_roundtripVars(EmplaceRefresh /\ ProducerStep)
  /\ SF_roundtripVars(TryPopRefresh /\ ConsumerStep)

RoundtripSpec ==
  /\ RoundtripInit
  /\ [][RoundtripNext]_roundtripVars
  /\ RoundtripFairness

-----------------------------------------------------------------------------
\* What the test asserts: each value popped is the one expected
\* (core_unit_tests.cpp:311), and after the joins the sum is that of all the
\* messages and the ring is empty (325, 327).
RoundtripAsserts ==
  /\ consumer_pc = "publish" => out = expected
  /\ Joined => /\ 2 * local_sum = (MessageCount - 1) * MessageCount
               /\ producer_index_ = consumer_index_

\* Both threads come to their end: no push or pop is refused for ever, and
\* neither waits for the other while the other waits for it.
RoundtripEnds == <>Joined
=============================================================================
