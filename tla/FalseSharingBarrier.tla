------------------------- MODULE FalseSharingBarrier -------------------------
(***************************************************************************)
(* The batches of run_false_sharing_benchmark (core_benchmark.cpp): the    *)
(* main thread starts each batch by publishing its number, two workers     *)
(* increment a counter each and report, the main thread waits for both     *)
(* reports, measures, and moves on.                                        *)
(*                                                                         *)
(* The number of the next batch is published twice: at the end of a batch  *)
(* to let the workers out of it, and again when that batch is prepared.    *)
(***************************************************************************)
EXTENDS Integers, FiniteSets

CONSTANTS
  Workers,     \* the two threads
  BatchCount,  \* batches, the warm-up ones included
  BatchSize,   \* increments of each worker in a batch
  NoBatch      \* no batch yet: the largest size_t

ASSUME WorkersAssumption == IsFiniteSet(Workers) /\ Cardinality(Workers) = 2
ASSUME CountsAssumption == {BatchCount, BatchSize} \subseteq Nat \ {0}
ASSUME NoBatchAssumption == NoBatch \notin Nat

VARIABLES
  current_batch, completed_threads, counters,
  main_pc, main_batch,
  worker_pc, worker_batch, worker_i,
  lost,        \* a report was erased before the main thread counted it
  disturbed    \* the workers whose increments of this batch were erased

mainVars == <<main_pc, main_batch>>
workerVars == <<worker_pc, worker_batch, worker_i>>
ghostVars == <<lost, disturbed>>
barrierVars == <<current_batch, completed_threads, counters, mainVars,
                 workerVars, ghostVars>>

BarrierInit ==
  /\ current_batch = NoBatch
  /\ completed_threads = 0
  /\ counters = [w \in Workers |-> 0]
  /\ main_pc = "reset_counters"
  /\ main_batch = 0
  /\ worker_pc = [w \in Workers |-> "wait"]
  /\ worker_batch = [w \in Workers |-> 0]
  /\ worker_i = [w \in Workers |-> 0]
  /\ lost = FALSE
  /\ disturbed = {}

-----------------------------------------------------------------------------
(* The worker threads *)

\* current_batch is the worker's batch.
Enter(w) ==
  /\ worker_pc[w] = "wait"
  /\ worker_batch[w] < BatchCount
  /\ current_batch = worker_batch[w]
  /\ worker_pc' = [worker_pc EXCEPT ![w] = "count"]
  /\ worker_i' = [worker_i EXCEPT ![w] = 0]
  /\ UNCHANGED <<current_batch, completed_threads, counters, mainVars,
                 worker_batch, ghostVars>>

\* One relaxed fetch_add.
Count(w) ==
  /\ worker_pc[w] = "count"
  /\ worker_i[w] < BatchSize
  /\ counters' = [counters EXCEPT ![w] = @ + 1]
  /\ worker_i' = [worker_i EXCEPT ![w] = @ + 1]
  /\ UNCHANGED <<current_batch, completed_threads, mainVars, worker_pc,
                 worker_batch, ghostVars>>

\* Mutant: the increments are reported before the last one is made.
ReportEarly(w) ==
  /\ worker_pc[w] = "count"
  /\ worker_i[w] = BatchSize - 1
  /\ completed_threads' = completed_threads + 1
  /\ worker_pc' = [worker_pc EXCEPT ![w] = "leave"]
  /\ UNCHANGED <<current_batch, counters, mainVars, worker_batch, worker_i,
                 ghostVars>>

\* completed_threads.fetch_add(1)
Report(w) ==
  /\ worker_pc[w] = "count"
  /\ worker_i[w] = BatchSize
  /\ completed_threads' = completed_threads + 1
  /\ worker_pc' = [worker_pc EXCEPT ![w] = "leave"]
  /\ UNCHANGED <<current_batch, counters, mainVars, worker_batch, worker_i,
                 ghostVars>>

\* The batch is over: take the next, or end the thread.
Leave(w) ==
  /\ worker_pc[w] = "leave"
  /\ current_batch # worker_batch[w]
  /\ worker_batch' = [worker_batch EXCEPT ![w] = @ + 1]
  /\ worker_pc' = [worker_pc EXCEPT ![w] = "wait"]
  /\ UNCHANGED <<current_batch, completed_threads, counters, mainVars, worker_i,
                 ghostVars>>

-----------------------------------------------------------------------------
(* The main thread *)

\* The two relaxed stores that clear the counters.  (One step: no property
\* tells their order.)
ResetCounters ==
  /\ main_pc = "reset_counters"
  /\ main_batch < BatchCount
  /\ counters' = [w \in Workers |-> 0]
  /\ disturbed' = {w \in Workers : /\ worker_batch[w] = main_batch
                                   /\ worker_pc[w] # "wait"
                                   /\ worker_i[w] # 0}
  /\ main_pc' = "reset_completed"
  /\ UNCHANGED <<current_batch, completed_threads, main_batch, workerVars, lost>>

\* Mutant: the reports of the last batch still count.
KeepCompleted ==
  /\ main_pc = "reset_completed"
  /\ main_pc' = "start"
  /\ UNCHANGED <<current_batch, completed_threads, counters, main_batch,
                 workerVars, ghostVars>>

\* completed_threads.store(0): a report of the new batch that is already there
\* is erased with those of the old one.
ResetCompleted ==
  /\ main_pc = "reset_completed"
  /\ completed_threads' = 0
  /\ lost' = (lost \/ \E w \in Workers : /\ worker_batch[w] = main_batch
                                          /\ worker_pc[w] = "leave")
  /\ main_pc' = "start"
  /\ UNCHANGED <<current_batch, counters, main_batch, workerVars, disturbed>>

\* The first store of the batch's number.
AnnounceBatch ==
  /\ main_pc = "start"
  /\ current_batch' = main_batch
  /\ main_pc' = "await"
  /\ UNCHANGED <<completed_threads, counters, main_batch, workerVars, ghostVars>>

\* Mutant: the batch number stays where it is.
FinishUnpublished ==
  /\ main_pc = "measure"
  /\ main_batch' = main_batch + 1
  /\ main_pc' = IF main_batch + 1 < BatchCount THEN "reset_counters" ELSE "join"
  /\ UNCHANGED <<current_batch, completed_threads, counters, workerVars, ghostVars>>

\* Both reports are in.
AwaitCompletion ==
  /\ main_pc = "await"
  /\ completed_threads = 2
  /\ main_pc' = "measure"
  /\ UNCHANGED <<current_batch, completed_threads, counters, main_batch,
                 workerVars, ghostVars>>

\* The counters are read and the next number published.
FinishBatch ==
  /\ main_pc = "measure"
  /\ current_batch' = main_batch + 1
  /\ main_batch' = main_batch + 1
  /\ main_pc' = IF main_batch + 1 < BatchCount THEN "reset_counters" ELSE "join"
  /\ UNCHANGED <<completed_threads, counters, workerVars, ghostVars>>

Join ==
  /\ main_pc = "join"
  /\ \A w \in Workers : worker_pc[w] = "wait" /\ worker_batch[w] = BatchCount
  /\ main_pc' = "done"
  /\ UNCHANGED <<current_batch, completed_threads, counters, main_batch,
                 workerVars, ghostVars>>

-----------------------------------------------------------------------------
MainStep ==
  \/ ResetCounters
  \/ ResetCompleted
  \/ AnnounceBatch
  \/ AwaitCompletion
  \/ FinishBatch
  \/ Join

WorkerStep(w) == Enter(w) \/ Count(w) \/ Report(w) \/ Leave(w)

BarrierNext == MainStep \/ \E w \in Workers : WorkerStep(w)

\* Every thread keeps running; a spinning one is waiting for its guard.
BarrierFairness ==
  /\ WF_barrierVars(MainStep)
  /\ \A w \in Workers : WF_barrierVars(WorkerStep(w))

BarrierSpec == BarrierInit /\ [][BarrierNext]_barrierVars /\ BarrierFairness

-----------------------------------------------------------------------------
BarrierTypeOK ==
  /\ current_batch \in 0 .. BatchCount \cup {NoBatch}
  /\ completed_threads \in 0 .. 4
  /\ counters \in [Workers -> 0 .. 2 * BatchSize]
  /\ main_pc \in {"reset_counters", "reset_completed", "start", "await",
                  "measure", "join", "done"}
  /\ main_batch \in 0 .. BatchCount
  /\ worker_pc \in [Workers -> {"wait", "count", "leave"}]
  /\ worker_batch \in [Workers -> 0 .. BatchCount]
  /\ worker_i \in [Workers -> 0 .. BatchSize]
  /\ lost \in BOOLEAN
  /\ disturbed \subseteq Workers

\* A batch is measured only when both workers have made all its increments,
\* and then the counters show them all, except those the main thread itself
\* erased from a worker that had started early.
MeasuredWhole ==
  main_pc = "measure" =>
    \A w \in Workers :
      /\ worker_batch[w] = main_batch
      /\ worker_i[w] = BatchSize
      /\ w \in disturbed \/ counters[w] = BatchSize

\* The benchmark returns its result.
BenchmarkEnds == <>(main_pc = "done")

\* Only an erased report keeps the benchmark from ending.
EndsUnlessReportLost == <>(main_pc = "done" \/ lost)
=============================================================================
