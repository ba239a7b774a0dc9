# LoLaKit in TLA+

LoLaKit is a header-only C++17 kit for low-latency programs: bounded
single-producer single-consumer queues (in memory, behind a mutex, in shared
memory), a double-checked singleton, a clock on the time stamp counter, spinning
and atomic helpers, and benchmarks that run them. This directory models the parts
with state that several threads or processes share, checks them with TLC and
proves with TLAPS, for every value of their constants, the safety properties of all of
them: the queues, the named section, the singleton, the clock and the benchmarks.

## 1. The system

| Part | Source | State it keeps | Operations |
|---|---|---|---|
| Lock-free ring, array | `include/lolakit/core/spsc_ring_buffer.hpp` | two atomic indices, a cached copy of the other side's index per side, the slots | `emplace`/`try_push`, `try_pop`, `full`, `size`, `empty`, `clear`, destructor |
| Lock-free ring, vector | `vector_spsc_ring_buffer.hpp` | the same, slots on the heap | the same |
| Mutex ring | `mutex_vector_spsc_queue.hpp` | a mutex, two plain indices, the slots | the same, from any thread |
| Shared-memory queue | `shared_memory_queue.hpp` | in a named section: header, indices, slots with sizes; in each process: handle, view, `created_`, `last_error_`, the two caches | `create`, `attach`, `open`, `close`, `try_push`, `try_pop`, `full`, `size`, `empty`, move |
| Singletons | `singleton.hpp` | an atomic pointer and a mutex, both static | `instance` |
| Clock | `tsc_clock.hpp` | a once flag, the calibration, `initialized` | `initialize`, `is_initialized`, `now_ns`, `now_cycles`, the two ratios |
| Helpers | `spin_wait.hpp`, `atomic.hpp`, `cacheline.hpp`, `noncopyable.hpp`, `assert.hpp`, `macros.hpp`, `config.hpp` | the back-off exponent of a `SpinWait` | `pause`, loads, stores, read-modify-writes |
| Benchmarks | `benchmarks/core_benchmark.cpp` | per run: batches, start and end times, a hand-made barrier | `run_two_thread_benchmark`, `run_false_sharing_benchmark`, single-thread loops, statistics |
| File benchmarks | `benchmarks/io_benchmark.cpp` | file, mapping and view handles, the write offset | construct, `write_batch`, destroy |
| Tests | `tests/core_unit_tests.cpp` | | say what the parts promise |

How they interact. The two sides of a ring share nothing but the two indices and
the slots: a release store of one's own index hands slots over, an acquire load of
the other's takes them. The shared-memory queue runs the same steps across
processes on memory that outlives either of them, after an open that elects one
creator and makes the others spin until it has written the header. The benchmarks
and the threaded tests compose a ring with two threads that spin on it. The
false-sharing benchmark synchronises three threads through two atomics of its own.

What is hard: interleavings of the two sides with loads that lag behind; objects
whose constructors throw half-way; indices that wrap; processes that die between
two stores; handles on every error path; a clock that is calibrated while time goes
on between any two statements; a state in the process (the caches) that
must agree with a state in the section (the indices); and hand-made waiting.
`PROJECT.json` lists these hazards at their lines with the properties that
watch them. For each component the properties that make it correct are:

* every queue: a bounded FIFO queue (nothing lost, duplicated, reordered, made up);
* the rings: no data race on a slot, exact object lifetimes, no refusal after a
  promise, progress of two spinning threads;
* the mutex ring: also for any number of threads, and the mutex is always released;
* the section: an open queue sees a finished header of its own layout, errors leak
  no handle, an open returns unless its creator is gone;
* the singleton: one object, seen constructed, and every call returns;
* the barrier: a measured batch is a finished batch, and the benchmark ends;
* the clock: one calibration over a whole window, read only when it is finished, as
  accurate as the calibrating thread was undisturbed, a clock that never goes back;
* the file benchmarks: everything opened is closed, and removed unless the system
  refuses it; the writes stay in the space reserved, the samples are the iterations asked for.

## 2. The modules

| Module | Models | Checked by |
|---|---|---|
| `BoundedFifo` | the abstract queue: what `try_push`, `try_pop`, `clear` promise | (refined by the three queues) |
| `RingIndex` | index arithmetic: unsigned words that wrap, the mask | (used by the rings) |
| `SpscRingBuffer` | the lock-free ring, array or vector, trivial or not | `ring_lockfree` |
| `RingIndexProofs` | lemmas on the arithmetic | tlapm |
| `SpscRingBufferProofs` | the ring's inductive invariant, what follows from it, and that it implements `BoundedFifo` | tlapm |
| `SpscRoundtrip` | the ring composed with two spinning threads | `ring_roundtrip` |
| `SingleThreadBenchmark` | the ring composed with the single-thread loop, with and without NDEBUG | `assert_ndebug` |
| `MutexVectorSpscQueue` | the ring behind a mutex | `mutex_queue` |
| `MutexVectorSpscQueueProofs` | mutual exclusion, sizes, the refinement, for any number of threads | tlapm |
| `SharedMemorySection` | open, initialise, wait, close, move; the named section | `shm_open` |
| `SharedMemorySectionProofs` | who is open, who owns what, who waits for whom | tlapm |
| `SharedMemoryQueue` | messages through a ready section | `shm_queue`, `shm_reattach` |
| `SharedMemoryQueueProofs` | sizes and the refinement where caches fit | tlapm |
| `FalseSharingBarrier` | the batches of the false-sharing benchmark | `barrier_measures`, `barrier_ends` |
| `DclpSingleton` | double-checked locking | `dclp_singleton` |
| `DclpSingletonProofs` | one object, seen constructed, for any number of threads | tlapm |
| `TscClock` | the calibration and its readers | `tsc_clock` |
| `TscClockProofs` | the calibration, its accuracy and monotonicity | tlapm |
| `FileWriters` | the four file benchmarks, their handles and files | `file_writers` |
| `BenchmarkProofs` | the drivers: the two threads, the single-thread loop, the barrier, the file benchmarks | tlapm |

Each `MC...` module gives the constants of its namesake small values. The drivers
call their initial states, steps and types `RoundtripInit`, `BenchNext`,
`BarrierTypeOK`, `FilesSpec`, ..., so that `BenchmarkProofs` can extend all of them.

Variables keep the names of the code's members (`producer_index_`,
`consumer_cached_producer_`, `mutex_`, `created_`, ...); a `pc` says where each
thread or process is between two accesses of shared state; what an operation last
returned is in `push_result`, `pop_result`, `result`, `last_error_`. Definitions
whose comment begins with `Mutant:` are plausible bugs, never part of a
specification: each property must fail when one of them takes the place of the
definition it follows.

### The memory model

An index of the ring is written by one thread with release and read by the other
with acquire. `Visible` lets such a load return any value between the newest one
this thread has synchronised with and the current one. `producer_seen` and
`consumer_seen` record that newest value; they are the happens-before knowledge of
the thread, and `NoDataRace` is stated with them: a slot is accessed only by a
thread that has synchronised with the store that handed it over. A mutant that
makes the load relaxed breaks it. `StaleReads = FALSE` is sequential consistency;
then a refusal must be true at that moment (`Strict` in `BoundedFifo`).
`DclpSingleton` uses the same idea: a fast load may return an old null to a thread
that has not synchronised with the publication (`aware`), and so may a load of
`TscClock`'s flag. `SharedMemoryQueue` lets
a load lag back to the cached value, the oldest this side could still be at.
`MutexVectorSpscQueue` needs none of this, and `FalseSharingBarrier` is sequentially
consistent: its counter of reports is changed by read-modify-writes and stores only,
and a late load of a spinning thread is a later step.

### How the actions follow the code

* **Ring.** `EmplaceCall` is lines 59-63 (the cached index decides), `EmplaceFull`
  and `EmplaceRefresh` the two outcomes of the load on line 64, `Construct` or
  `ConstructThrows` the placement new, `PublishPush` the release store. `TryPop...`
  mirrors them. `Full` writes the producer's cache as the code does. `Clear` is
  one step: its accesses are relaxed and its callers (destructor, tests) have
  stopped both sides. It does not touch promises already made to the producer.
* **Mutex ring.** Each operation locks, runs its body in one or more steps, and
  returns or throws; both ways release the mutex. The bodies are split where a
  wrong lock would show.
* **Section.** The three open modes differ in whether they may create the section
  and in what an existing one means. `created` is a local of the code until
  the view is mapped; the model keeps it in `created_` from the call on. The
  kernel's part is external: sections start zeroed, a view larger than the section
  cannot be mapped, a section ends with its last handle and view. The kernel counts
  the handles and views of a process (`handles`, `views`), the queues remember what
  they believe they own (`handle`, `view`); `NoHandleLeak` compares the two, which
  is what makes moves between the queues of one process worth checking. `supported`
  tells the Windows build from the others, where an open only sets `last_error_`
  (a number in the code, here whether it is an error).
* **Messages.** A message is a value with a size. A slot holds a size and the
  bytes last copied in; bytes read with another message's size are `Torn`.
  `PushRejected` and `PopRejected` are the arguments the code refuses at once.
  `try_push<T>` and `try_pop<T>` are the raw operations on `sizeof(T)` bytes;
  `try_pop<T>` hides the size of a message that is too large, and consumes one that
  is too small and returns false. That is the one false that loses a message, and
  `FifoSpec` allows it by name (`Mismatch`). Opening is one step here, at the call
  that gets the handle, from which on the section cannot go away; that the section
  is initialised once and before its first use is what `SharedMemorySection` shows.
  A side may come back to a section as long as 0 lies where its cache may lie
  (`ProducerStartsAtZero`, `ConsumerStartsAtZero`); `Reattach` lifts that.
* **Barrier.** One action per access of `current_batch` and `completed_threads`;
  the two relaxed stores that clear the counters are one step. `lost` and
  `disturbed` are ghosts: they say that a report, or increments, of a batch that
  had started early were erased.
* **Clock.** `cycles` is the counter, the steady clock one nanosecond every
  `CyclesPerNs` of it, and `Tick` may come between any two steps: between the two
  readings of a pair as well, and `held` remembers how long that was. One counter
  for all processors is assumed, as the code does. A ratio is the pair of integers
  it is the quotient of, in the place of a double, and `now_ns` cuts the product as
  the code's cast does. `now_cycles` and the two ratios read the same state and are
  one operation. Outside x86-64 (`native = FALSE`) the clock is read instead.
* **Files.** One action per system call of a constructor, per block written, per
  batch; a destructor is one step whose order, close before remove, is kept in
  `CloseThenRemove`, since a file open without sharing cannot be removed. The removal
  may fail even so, when another program has opened the file; the code ignores that and
  `main` goes on (`RemoveFile`). `unremoved`, a history variable, remembers those files,
  so that `LeftByThrowOrRefusal` can tell them from the ones the program itself leaves.
  Closing a valid handle and unmapping a view are assumed to succeed. Any other call
  that fails throws: past the destructor of a finished writer (`Unwind`), past
  none if the writer is under construction (`AcquireFails`).

## 3. What the runs show

| Run | Bounds | Shows |
|---|---|---|
| `ring_lockfree` | 4 slots, words of 2 laps, 2 values up to symmetry, stale loads, throwing T | no race, exact lifetimes, promises kept, FIFO (a refusal may be stale), and the inductive invariant of the proofs |
| `ring_roundtrip` | trivial ring of 4 slots, 10 messages: the indices wrap; stale loads | two spinning threads: FIFO, messages arrive in order, the sum is right, both threads end |
| `mutex_queue` | 2 threads, each calling anything, 2 slots, 2 laps, 2 values | strict FIFO, sizes in range, mutex always released, also after exceptions |
| `shm_open` | 4 queues of 3 processes, one of a larger layout; moves, failures and deaths anywhere | an open queue is ready and of its layout; every handle the kernel keeps has exactly one owner; who waits has a creator or an orphan; every open returns unless its creator let go of the section too early |
| `shm_queue` | 2 slots, 2 laps, messages of size 1 and 2, raw buffers of 0 to 2 and typed ones of 1 and 2, deaths and returns anywhere, stale loads | FIFO of whole messages, one lost only to a typed pop of another size; a reported size stays right; sizes in range |
| `shm_reattach` | as above, up-to-date loads, both sides attach whenever they like | **violated**: a pop from an empty queue |
| `barrier_measures` | 2 workers, 3 batches of 2 increments | measured batches are finished; only a lost report can block the end |
| `barrier_ends` | the same | **violated**: the benchmark can hang |
| `dclp_singleton` | 3 threads, throwing constructor | one object, seen constructed; every call returns once the constructor stops throwing |
| `tsc_clock` | 2 threads, both builds, windows asked for 0 and 2 ns and the default, 2 cycles a nanosecond, 9 cycles | the calibration spans its window and is read only when finished; the error is bounded by the hold-ups; no call returns less than one that returned before it began; every call returns |
| `file_writers` | the 4 writers of `main`, 54 command lines (48 once zeros are replaced), some with a total beyond the word; constructor calls, writes, flushes and removals failing | only a throwing constructor leaves a handle, and only that or a refused removal a file; writes fill the space and stay in it; samples are the iterations; `main` ends |
| `assert_ndebug` | 5 operations, both builds | **violated**: with NDEBUG the popped optional is empty |

Why the bounds are enough to meet the interesting cases: two slots are the
smallest capacity the code accepts and already tell full, empty and neither apart
(the symmetry of `ring_lockfree` is sound: all its properties are safety properties
in which the two values play the same part);
with two laps every index wraps within a few operations, so each comparison is met
on both sides of the wrap (the code's words hold 2^64 / Capacity laps; the proofs
cover any number). Two values tell one message from another; FIFO order and
duplication show with two. Three processes are a creator, a waiter and a third with
another layout; two queues in the first are a source and a target of a move. Three
batches are a first, a middle and a last one. Three threads
let one hold the singleton's mutex, one wait for it and one take the fast path.
Two threads let one calibrate while the other waits, or reads what it made. The
file benchmarks' options have zeros, batches that divide the operations and batches
that do not, and one total beyond the word (there `FillsItsSpace` promises nothing:
the program reserves the wrapped total, and it does not check).
The cap on the indices is `WordSize`, on the messages `MessageCount`, on the batches
`BatchCount`, on the loop `Operations`, on file sizes `SizeWord`. Time in `TscClock` is
capped by three horizons: until the first pair is read (`IdleHorizon`), until the
calibration is stored (`MeasureHorizon`) and for ever (`Horizon`);
`HorizonAssumption` says that every window ends before the second. They bound how
long a thread is held up, and they leave room for hold-ups at either pair.

That the ring with up-to-date loads is the strict FIFO queue needs no run of its
own: `ImplementsFifo` proves it for every constant, `StaleReads = FALSE` included.

Deadlock is checked everywhere but in the two barrier runs: the benchmark stops
when it is done, and it can hang, which `barrier_ends` is about.

### Fairness

* `SpscRoundtrip`: weak fairness of each thread's steps (the scheduler runs both),
  and strong fairness of a load that sees the new value: C++ asks that a store
  become visible in a finite time, so a load repeated for ever does not return the
  old value for ever. Without that a stale load could starve the loop.
* `MutexVectorSpscQueue`: a thread inside an operation is not suspended for ever.
  Nothing is assumed of who gets the mutex.
* `SharedMemorySection`: a process inside `open` keeps running.
* `FalseSharingBarrier`: all three threads keep running.
* `DclpSingleton`: a thread inside `instance()` keeps running and takes a mutex that
  stays free. That is enough because each thread takes the slow path only until it
  has seen the object; with a constructor that throws for ever it would not be (nothing
  says who gets a contended mutex), so `CallsReturn` speaks of executions in which the
  constructor throws finitely often.
* `TscClock`: time goes on (up to the horizons) and a thread inside a call keeps
  running. A thread in `call_once` waits for the one that calibrates, no other.
* `FileWriters`: `main` keeps running. Any system call may fail at any time.

### Findings

1. **Attaching again to a used section breaks the queue**
   (`shared_memory_queue.hpp:345-346`). The caches start at 0 with every open, the
   indices in the section do not. A consumer whose `consumer_index` is not 0 differs
   from its cache and pops from an empty queue (`shm_reattach`: one push, one pop,
   close, attach, pop). A producer whose `producer_index` is past
   `Capacity` no longer meets `producer - cache == Capacity` and overwrites messages
   (the same run shows it when only the producer may come back, `Reattach =
   {"producer"}`). Starting the caches from the section's `consumer_index` and
   `producer_index` would cure both; `shm_queue` shows that a side that comes back
   while 0 is still a value it could have cached is served correctly.
2. **The false-sharing benchmark can hang** (`core_benchmark.cpp:540` and `552`).
   The next batch is announced before it is prepared; a worker fast enough to finish
   it before the reset has its report erased, and main waits for two
   (`barrier_ends`). `barrier_measures` shows that this is the only way not to end,
   and `BlockedOnlyByLoss` proves that a report that was not erased is counted.
3. **The single-thread benchmarks measure nothing with NDEBUG**
   (`core_benchmark.cpp:811`, `assert.hpp:46`). The push stands inside
   `LOLAKIT_ASSERT`, which evaluates nothing in such a build; the pop returns an
   empty optional and the next line dereferences it (`assert_ndebug`).
   `LoopDependsOnBuild` proves that the build is the only reason.

## 4. What is proved

Each proof module extends the module it is about and states one inductive
invariant, `IInv`; `BenchmarkProofs` extends the four drivers and states one for each
(`RoundtripInv`, `LoopInv`, `BarrierInv`, `FilesInv`). The theorem `InvariantHolds` is
`Spec => []IInv`; the others follow from it, or from one more look at each step. The
invariants were checked with TLC on the bounds of section 3 before they were proved.

| Module | Theorem | Says |
|---|---|---|
| `SpscRingBufferProofs` | `TypeCorrect`, `RaceFree`, `LifetimesCorrect` | `Spec => []TypeOK`, `[]NoDataRace`, `[]SlotLifetimes` |
| | `PromisesAreKept` | `Spec => PromisesKept` |
| | `ImplementsFifo` | `Spec => FifoSpec`: the ring implements `BoundedFifo` |
| `MutexVectorSpscQueueProofs` | `TypeCorrect`, `MutualExclusion`, `SizesCorrect` | `Spec => []TypeOK`, `[]MutexHeld`, `[]SizesInRange` |
| | `ImplementsFifo` | `Spec => FifoSpec`, the strict queue |
| `SharedMemorySectionProofs` | `TypeCorrect`, `OnlyReadyIsOpened`, `HandlesBalance`, `WaitersHaveCreator` | `Spec => []TypeOK`, `[]OpenIsReady`, `[]NoHandleLeak`, `[]WaitHasCreator` |
| `SharedMemoryQueueProofs` | `TypeCorrect`, `ReportedSizeKept`, `SizesCorrect` | with `FitsOnOpen`: `Spec => []TypeOK`, `[]ReportedSizeFits`, `[]SizesInRange` |
| | `RefusesCorrectly` | with `FitsOnOpen`: `Spec => RefusesWhenFullOrEmpty` |
| | `ImplementsFifo` | with `FitsOnOpen`: `Spec => FifoSpec` |
| `DclpSingletonProofs` | `TypeCorrect`, `ConstructedOnce`, `GivenConstructed`, `MutualExclusion` | `Spec => []TypeOK`, `[]ConstructsOnce`, `[]ResultIsConstructed`, `[]MutexHeld` |
| `TscClockProofs` | `TypeCorrect`, `ReadsAreFinished`, `WindowMeasured`, `Accurate` | `Spec => []TypeOK`, `[]ReadsFinished`, `[]MeasuredWholeWindow`, `[]AccurateUnlessHeldUp` |
| | `Monotonic` | `Spec => NeverGoesBack` |
| `BenchmarkProofs` | `AssertsHold`, `RoundtripIsFifo` | `RoundtripSpec => []RoundtripAsserts`, `RoundtripSpec => FifoSpec` |
| | `LoopDependsOnBuild` | with `OneThread`: `BenchSpec => []OnlyNdebugPopsNothing` |
| | `BarrierTypeCorrect`, `OnlyWholeIsMeasured`, `BlockedOnlyByLoss` | `BarrierSpec => []BarrierTypeOK`, `[]MeasuredWhole`, `[]ReportsCount` |
| | `FilesTypeCorrect`, `LeftoversExplained`, `SpaceIsFilled` | `FilesSpec => []FilesTypeOK`, `[]LeftByThrowOrRefusal`, `[]FillsItsSpace` |
| | `SamplesAreWhole` | `FilesSpec => MeasuresAllOnce` |

### The assumptions

* The queues: a capacity of at least 2, a word of at least two laps
  (`CapacityAssumption`, `LapsAssumption` of `RingIndex`), any set of values that
  does not contain the mark of an empty slot, any set of threads, trivial or not,
  throwing or not, with stale loads or without.
* The section: finitely many queues (`QueuesAssumption`), in any processes and of any
  layouts; the mark of an absent section is none of the sections (`NoneAssumption`).
* The shared-memory queue: messages of at least one byte that fit a slot, as the
  `static_assert` of line 29 and the refusals of `try_push` ensure
  (`PayloadSizeAssumption`, `SizesAssumption`). Every theorem has the hypothesis
  `FitsOnOpen`, that is `Reattach = {}`: a side comes back to a section only while 0
  is an index it could have cached. Without it they are false, which is finding 1;
  so `RefusesCorrectly` and the run `shm_reattach` together say that of all a side may
  do here, only attaching again to a used section breaks the queue.
* The singleton: any set of threads, of which the mark of a free mutex is none.
* The clock: any threads, windows and speed of the counter, both builds, any
  horizons as `HorizonAssumption` has them, hence hold-ups of any length.
* The two threads: any number of messages, among the values the ring is for
  (`MessagesAssumption`). These assumptions on the drivers are why their proofs are
  not part of the ring's.
* The single-thread loop: `LoopDependsOnBuild` has the hypothesis `OneThread`, because
  a thread sees its own stores at once and its values are among those of the ring.
* The barrier: two workers (`WorkersAssumption`), as in the code, whose main thread
  waits for the number 2 (`core_benchmark.cpp:545`); any number and size of batches.
* The file benchmarks: any list of writers that is not empty (`WritersAssumption`), any
  options, any word.

### The arguments

* **Ring.** That a producer constructs in a free slot depends on its cache being no
  newer than the truth, which depends on what each side has seen. `IndexOrder` is
  the heart of it: going back from `producer_index_` one meets what the
  consumer has seen, what it has cached, the consumer's own index, what the producer
  has seen of that and what it has cached, all within one lap. Distances (`Lag`),
  not indices, are compared, so the wrap never appears in it; `RingIndexProofs`
  shows once that distances behave (`Sub` and `Inc` on words, different slots within
  a lap). `Progress` records what each side has established at each point, `Promises`
  bounds the promises by what the promised side has seen, and `SlotContents` says
  which slots hold objects. Each action has a lemma on the indices and, where it
  touches slots, one on the slots. For the refinement the queue is `Contents`: the
  slots from the consumer's index to the producer's, with a value that is being
  popped still counting until its release store. Pushes and pops map to the abstract
  ones at their release stores, refusals to refusals, everything else to stuttering.
* **Two threads.** `Contents` is the messages from the one expected up to the one
  before the producer's next (`InFlight`); every step of the threads is one of the
  ring's, so the ring's step lemma and its refinement say how `Contents` changes.
  The sum is carried as `2 * local_sum = (expected - 1) * expected`.
* **Single-thread loop.** The ring is empty whenever a push begins, so none is refused,
  and holds one value between a push and its pop; both by the ring's lemmas on
  distances, while the lemmas on `Contents` say which value it is (`PassedOn`). With
  NDEBUG nothing has been pushed and the pop finds the ring empty.
* **Barrier.** A worker is in main's batch or on its way out of the one before
  (`Places`). `Reports` is the heart: until main has cleared them, the reports counted
  are at most those of this batch and two of the one before; afterwards at most those
  of this batch, and exactly those unless one was erased (`lost`). So when main counts
  two, both workers have reported this very batch, which is `MeasuredWhole`; `Increments` says the
  same of the counters and `disturbed`.
* **File benchmarks.** `Owning`: what there is to close or remove is what the
  constructor's calls have opened so far, and other files there are only those of
  earlier writers whose removal was refused. `Working`: what is written and what is left
  make the total, in whole blocks, which keeps the products of options in one equation
  that each write changes by one block; and the samples and what remains make the
  iterations.
* **Mutex ring.** Exactly the thread inside an operation holds the mutex
  (`MutexHeld`), so that what it established at one step is true at the next
  (`Progress`). An exception in `construct` gives the mutex back with nothing else
  changed. Being alone, it needs no `IndexOrder`: one distance, within a lap.
* **Section.** `Counting` says that the kernel's counts are the cardinalities of the
  sets of queues that own a handle or a view, and lemmas on those sets say how a
  gain, a loss, a move or a death of a process changes them. `Ownership` ties what
  a queue owns to the point it is at. `SectionInv` has one creator at most, and
  says that a section that is not ready has a creator at work or an orphan's mark;
  `LastOneOut` shows that the section goes with its last handle or view.
* **Messages.** The ring's order, with two indices that survive a death and two
  caches that do not: what a side has established holds as long as it is open. A
  death between the copy and the release store leaves bytes beyond `producer_index`,
  which no invariant speaks about; one inside a pop leaves `consumer_index` alone.
  An open with `FitsOnOpen` puts 0 where `IndexOrder` allows it.
* **Singleton.** Besides `MutexHeld`: whoever constructs is the first, whoever
  publishes has the only object (`Progress`); an object that exists is published or
  in the hands of the thread in the block (`Published`); and a free mutex hands on
  the knowledge of a published object (`MutexTells`), which is why the relaxed second
  check is enough.
* **Clock.** One thread is inside `call_once` (`OnceInv`). What it has read is
  related to the moments it read it at (`HasMeasured`): a clock reading is that of a
  time at which the counter was `held` lower. `CalibrationInv` remembers both pairs,
  so that the error of a later reading is that of two quotients (`ErrorBound`);
  `LatestInv` with the monotonicity of a quotient gives `NeverGoesBack`.

### Only model-checked

* Liveness: `RoundtripEnds`, `MutexReleased`, `OpenReturns`, `CallsReturn` (singleton
  and clock), `EndsUnlessReportLost`, `MainEnds`. TLAPS has no rules for fairness and
  ENABLED here.

Every invariant and every action property of the passing runs is proved, and so are the three
refinements of `BoundedFifo`.

## 5. What is not modelled, and why

* `Singleton`: one function-local static, the language's own guarantee.
* `SpinWait`'s back-off: passes time only. Padding, macros, configuration: no state.
  The read-modify-write helpers of `atomic.hpp`: one instruction each.
* A third thread that calls `size()` of a lock-free ring, and calls of `size()`,
  `full()` or `empty()` of a shared-memory queue that is not open (a null pointer is
  dereferenced): outside what the classes can be called for.
* Several producers or consumers at once on one ring or section: outside the contract.
* The statistics (percentiles, means), option parsing but for its handling of zeros,
  printing, CSV and thread affinity: sequential arithmetic and output. Output fails when
  nothing is open; an allocation that fails in the statistics of the file benchmarks
  leaves the writer's block as a failed write does (`Unwind`).
* In `SingleThreadBenchmark`, the loops of the other queues: they differ from the one
  modelled in the name of the queue and in popping into a parameter inside the
  macro, so that with NDEBUG their bodies are empty.
* In `TscClock`, the rounding of doubles and a counter that differs between
  processors, or that reads 0 always, as `read_native_cycles` does for a compiler that
  is none of the three named (`tsc_clock.hpp:168`). That the counter moves between two
  reads of it is an assumption on the processor, the guard of `EndCycles`; the
  assertion of line 63 checks it, and `MeasuredWholeWindow` is about the window.
* In `FileWriters`, options whose total wraps the word: the code neither checks for them
  nor says what they should do.

## 6. Plan

Done: the core in the order of importance (ring, its proofs, mutex ring, section,
messages, two threads), the barrier and the singleton, then moves and several queues
a process, typed messages and coming back to a section, the clock, the file
benchmarks and the single-thread loop; then the proofs of everything the library
promises, and of the benchmark drivers.

Left, where the code or the tools get there:
1. The liveness properties for every value of the constants: a rank for `MutexReleased`
   and `MainEnds` is plain, but the step from fairness to progress needs ENABLED.
2. A strict specification of the shared-memory queue with `Reattach` unrestricted, once
   the caches are started from the section's indices (finding 1): `FitsOnOpen` can then
   go from the theorems.
3. The barrier with the announcement after the preparation (finding 2): `lost` is then
   never set, and `EndsUnlessReportLost` becomes `BenchmarkEnds`.
