---------------------------- MODULE MCFileWriters ----------------------------
(***************************************************************************)
(* The four writers of main.  The arguments have zeros for parse_options,  *)
(* batches that do and do not divide the operations, and a total beyond    *)
(* the word.                                                               *)
(***************************************************************************)
EXTENDS FileWriters

FourWriters == <<"direct", "direct", "mapped", "mapped">>
SomeArguments == [iterations : {0, 3, 4}, warmup_iterations : {0, 2},
                  batch_size : {0, 1, 2}, block_size : {0, 2, 3}]
=============================================================================
