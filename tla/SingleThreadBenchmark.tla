----------------------- MODULE SingleThreadBenchmark -----------------------
(***************************************************************************)
(* The single-thread benchmarks of core_benchmark.cpp: one thread pushes   *)
(* each i into a ring of its own and pops it again, and the push stands    *)
(* inside LOLAKIT_ASSERT.  Without NDEBUG the macro evaluates what it is   *)
(* given; with NDEBUG it is sizeof(expr), which evaluates nothing.         *)
(***************************************************************************)
EXTENDS SpscRingBuffer

CONSTANT Operations   \* of a batch; the values are 0 .. Operations - 1

VARIABLES
  ndebug,     \* which build it is
  i,          \* the loop counter
  at,         \* where in the loop's body
  popped_sum  \* the loop's local_sum

loopVars == <<ndebug, i, at, popped_sum>>

BenchInit ==
  /\ Init
  /\ ndebug \in BOOLEAN
  /\ i = 0
  /\ at = "push"
  /\ popped_sum = 0

\* LOLAKIT_ASSERT(queue.try_push(i)) of a build with NDEBUG.
SkipPush ==
  /\ at = "push"
  /\ i < Operations
  /\ ndebug
  /\ at' = "pop"
  /\ UNCHANGED <<vars, ndebug, i, popped_sum>>

\* LOLAKIT_ASSERT(queue.try_push(i)) of the other builds: the push returns true,
\* or the assertion fails and the program stops.
AssertPush ==
  /\ at = "push"
  /\ i < Operations
  /\ ~ndebug
  /\ EmplaceCall(i) \/ EmplaceFull \/ EmplaceRefresh \/ Construct \/ PublishPush
  /\ at' = IF EmplaceFull THEN "aborted" ELSE IF PublishPush THEN "pop" ELSE "push"
  /\ UNCHANGED <<ndebug, i, popped_sum>>

\* auto value = queue.try_pop();
Pop ==
  /\ at = "pop"
  /\ TryPopCall \/ TryPopEmpty \/ TryPopRefresh \/ Take \/ PublishPop
  /\ at' = IF TryPopEmpty \/ PublishPop THEN "use" ELSE "pop"
  /\ UNCHANGED <<ndebug, i, popped_sum>>

\* local_sum += *value;
UseValue ==
  /\ at = "use"
  /\ pop_result # None
  /\ popped_sum' = popped_sum + pop_result
  /\ i' = i + 1
  /\ at' = "push"
  /\ UNCHANGED <<vars, ndebug>>

\* The loop is over, or the assertion has stopped the program.
BenchTerminated ==
  /\ at = "aborted" \/ i = Operations
  /\ UNCHANGED <<vars, loopVars>>

BenchNext == SkipPush \/ AssertPush \/ Pop \/ UseValue \/ BenchTerminated

BenchSpec == BenchInit /\ [][BenchNext]_<<vars, loopVars>>

-----------------------------------------------------------------------------
\* LOLAKIT_ASSERT(value.has_value()) of core_benchmark.cpp:813: each pop returns
\* the value just pushed, so the optional the next statements dereference has one.
PoppedHasValue == at = "use" => pop_result # None
=============================================================================
