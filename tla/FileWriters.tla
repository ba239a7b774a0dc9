----------------------------- MODULE FileWriters -----------------------------
(***************************************************************************)
(* io_benchmark.cpp: main runs four writers one after the other, each made *)
(* from a few system calls, driven over warmup and measured batches by     *)
(* run_batched_benchmark and destroyed at the end of its block.  Any call  *)
(* may fail, and then an exception goes to main's catch: past a destructor *)
(* if the writer was complete, past none if it was under construction.     *)
(*                                                                         *)
(* Sizes are in bytes, modulo SizeWord as the 64-bit ones of the code. The *)
(* system calls are external; a file cannot be removed while it is open,   *)
(* since the writers open it without sharing, and even one that is closed  *)
(* may not be removed: another program may have opened it.  Unmapping the  *)
(* view and closing a handle are assumed to succeed, as they do for one    *)
(* that is valid.                                                          *)
(***************************************************************************)
EXTENDS Integers, Sequences, FiniteSetsExt

CONSTANTS
  Arguments,   \* what the command line may ask for
  Writers,     \* the writers in main's order: "direct" or "mapped"
  SizeWord

ASSUME ArgumentsAssumption ==
  Arguments \subseteq [iterations : Nat, warmup_iterations : Nat,
                       batch_size : Nat, block_size : Nat]

ASSUME WritersAssumption ==
  Writers \in Seq({"direct", "mapped"}) /\ Writers # <<>>

ASSUME SizeWordAssumption == SizeWord \in Nat \ {0}

VARIABLES
  options,
  writer,               \* main's place in Writers
  pc,
  made,                 \* how many of the constructor's calls have succeeded
  handles,              \* what the kernel keeps open for the process
  files,                \* the writers whose temporary file is on the disk
  unremoved,            \* history: those whose closed file was refused removal
  measuring, remaining, \* run_batched_benchmark: its loop, and what it has to do
  operations,           \* what the batch has still to do
  position,             \* offset_bytes_, or the file pointer
  measured              \* the operations of the samples

writerVars == <<made, handles, files, unremoved, position>>
batchVars == <<measuring, remaining, operations, measured>>
filesVars == <<options, writer, pc, writerVars, batchVars>>

-----------------------------------------------------------------------------
\* Mutant: zeros are taken as they are.
AsAsked(a) == a

\* What parse_options makes of zeros.
Normalized(a) ==
  LET iterations == IF a.iterations = 0 THEN 1 ELSE a.iterations
  IN  [a EXCEPT !.iterations = iterations,
                !.batch_size = IF @ = 0 THEN iterations ELSE @,
                !.block_size = IF @ = 0 THEN 1 ELSE @]

\* Mutant: no room for the warmup.
MeasuredBytes == Max({1, (options.iterations * options.block_size) % SizeWord})

total_bytes ==
  Max({1, ((options.iterations + options.warmup_iterations) * options.block_size)
            % SizeWord})

\* The calls of a constructor, in their order; "space" is preallocate_file.
Calls == IF Writers[writer] = "direct" THEN <<"file", "space">>
         ELSE <<"file", "space", "mapping", "view">>

FilesInit ==
  /\ options \in {Normalized(a) : a \in Arguments}
  /\ writer = 1
  /\ pc = "construct"
  /\ handles = {}
  /\ files = {}
  /\ unremoved = {}
  /\ measuring = FALSE
  /\ remaining = 0
  /\ operations = 0
  /\ measured = 0
  /\ made = 0
  /\ position = 0

-----------------------------------------------------------------------------
(* The constructors *)

\* The next call succeeds.  The last one leaves a writer to be warmed up.
Acquire ==
  /\ pc = "construct"
  /\ made' = made + 1
  /\ handles' = handles \cup ({Calls[made + 1]} \ {"space"})
  /\ files' = IF made = 0 THEN files \cup {writer} ELSE files
  /\ IF made' = Len(Calls)
     THEN /\ pc' = "batches"
          /\ remaining' = options.warmup_iterations
     ELSE UNCHANGED <<pc, remaining>>
  /\ UNCHANGED <<options, writer, unremoved, measuring, operations, position, measured>>

\* It fails, and the constructor throws: there is no destructor to run.
AcquireFails ==
  /\ pc = "construct"
  /\ pc' = "failed"
  /\ UNCHANGED <<options, writer, writerVars, batchVars>>

-----------------------------------------------------------------------------
(* run_batched_benchmark *)

\* Mutant: the warmup is measured as well.
StartSample ==
  /\ pc = "batches"
  /\ remaining > 0
  /\ operations' = Min({remaining, options.batch_size})
  /\ remaining' = remaining - operations'
  /\ measured' = measured + operations'
  /\ pc' = "write"
  /\ UNCHANGED <<options, writer, writerVars, measuring>>

\* The next element of split_iterations; measured is the sum of the samples.
StartBatch ==
  /\ pc = "batches"
  /\ remaining > 0
  /\ operations' = Min({remaining, options.batch_size})
  /\ remaining' = remaining - operations'
  /\ measured' = IF measuring THEN measured + operations' ELSE measured
  /\ pc' = "write"
  /\ UNCHANGED <<options, writer, writerVars, measuring>>

\* write_batch_impl: one block, and its flush if that is asked for.
Write ==
  /\ pc = "write"
  /\ operations > 0
  /\ operations' = operations - 1
  /\ position' = position + options.block_size
  /\ UNCHANGED <<options, writer, pc, made, handles, files, unremoved, measuring,
                 remaining, measured>>

\* WriteFile or a flush fails: the exception passes the writer's destructor.
WriteFails ==
  /\ pc = "write"
  /\ operations > 0
  /\ pc' = "unwind"
  /\ UNCHANGED <<options, writer, writerVars, batchVars>>

EndBatch ==
  /\ pc = "write"
  /\ operations = 0
  /\ pc' = "batches"
  /\ UNCHANGED <<options, writer, writerVars, batchVars>>

\* The warmup is over and the measured batches follow.
StartMeasuring ==
  /\ pc = "batches"
  /\ remaining = 0
  /\ ~measuring
  /\ measuring' = TRUE
  /\ remaining' = options.iterations
  /\ UNCHANGED <<options, writer, pc, writerVars, operations, measured>>

\* build_result, and the block of the writer ends.
EndBenchmark ==
  /\ pc = "batches"
  /\ remaining = 0
  /\ measuring
  /\ pc' = "destroy"
  /\ UNCHANGED <<options, writer, writerVars, batchVars>>

-----------------------------------------------------------------------------
(* The destructors *)

\* std::filesystem::remove(path_, ignored) while the handles in open are there: it
\* fails if they include the file's, and it may fail if they do not.  The error is
\* ignored either way.
RemoveFile(open) ==
  \E refused \in BOOLEAN :
    /\ files' = IF refused \/ "file" \in open THEN files ELSE files \ {writer}
    /\ unremoved' = IF refused /\ "file" \notin open THEN unremoved \cup {writer}
                    ELSE unremoved

\* Mutant: the file is removed first and closed afterwards.
RemoveThenClose ==
  /\ RemoveFile(handles)
  /\ handles' = {}

\* The view, the mapping and the file are closed, and then the file is removed.
CloseThenRemove ==
  /\ handles' = handles \ {"view", "mapping", "file"}
  /\ RemoveFile(handles')

\* The writer's block ends: main goes on to the next one, or prints and returns.
Destroy ==
  /\ pc = "destroy"
  /\ CloseThenRemove
  /\ writer' = writer + 1
  /\ pc' = IF writer = Len(Writers) THEN "returned" ELSE "construct"
  /\ made' = 0 /\ position' = 0
  /\ measuring' = FALSE /\ measured' = 0
  /\ UNCHANGED <<options, remaining, operations>>

\* An exception passes the writer on its way to main's catch.
Unwind ==
  /\ pc = "unwind"
  /\ CloseThenRemove
  /\ pc' = "failed"
  /\ made' = 0
  /\ UNCHANGED <<options, writer, position, batchVars>>

\* main has returned 0 or 1.
FilesTerminated == pc \in {"returned", "failed"} /\ UNCHANGED filesVars

-----------------------------------------------------------------------------
Step ==
  \/ Acquire
  \/ AcquireFails
  \/ StartBatch
  \/ Write
  \/ WriteFails
  \/ EndBatch
  \/ StartMeasuring
  \/ EndBenchmark
  \/ Destroy
  \/ Unwind

FilesNext == Step \/ FilesTerminated

\* main keeps running.
FilesSpec == FilesInit /\ [][FilesNext]_filesVars /\ WF_filesVars(Step)

-----------------------------------------------------------------------------
FilesTypeOK ==
  /\ options \in [iterations : Nat \ {0}, warmup_iterations : Nat,
                  batch_size : Nat \ {0}, block_size : Nat \ {0}]
  /\ writer \in 1 .. Len(Writers) + 1
  /\ pc \in {"construct", "batches", "write", "destroy", "unwind", "returned",
             "failed"}
  /\ made \in 0 .. 4
  /\ handles \subseteq {"file", "mapping", "view"}
  /\ files \subseteq 1 .. Len(Writers)
  /\ unremoved \subseteq 1 .. Len(Writers)
  /\ measuring \in BOOLEAN
  /\ {remaining, operations, position, measured} \subseteq Nat

\* Whatever call failed, main ends with every handle closed, unless a constructor
\* threw: then exactly what that constructor had opened is left.  The temporary
\* files left on the disk are the one of such a constructor and those whose removal
\* was refused although the program had closed them, and no others: no writer
\* forgets to remove its file, or stands in the way of that itself.
LeftByThrowOrRefusal ==
  pc \in {"returned", "failed"} =>
    /\ handles = {Calls[k] : k \in 1 .. made} \ {"space"}
    /\ files = (IF made > 0 THEN {writer} ELSE {}) \cup unremoved

\* A write never passes the end of the space the constructor reserved (for a
\* mapped writer: of its view), as long as the total fits the word, and the
\* batches of both loops fill it to the last byte and not twice.
FillsItsSpace ==
  (options.iterations + options.warmup_iterations) * options.block_size < SizeWord =>
    /\ pc = "write" /\ operations > 0 =>
         position + options.block_size <= total_bytes
    /\ pc = "destroy" => position = total_bytes

\* What is measured is exactly the iterations asked for, without the warmup, in
\* batches none of which is empty: a sample divides by its operations.
MeasuresAllOnce ==
  [][/\ pc = "batches" /\ pc' = "write" => operations' > 0
     /\ pc' = "destroy" => measured = options.iterations]_filesVars

\* main comes to its end, with a result or an error, whatever it was asked for.
MainEnds == <>(pc \in {"returned", "failed"})
=============================================================================
