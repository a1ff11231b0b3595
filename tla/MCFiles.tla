------------------------------- MODULE MCFiles -------------------------------
(* The files service with model values; TLC takes threads, upload ids and    *)
(* ciphertexts as interchangeable in the safety run.                         *)
EXTENDS FilesService, TLC

(* Every call there is, with the deadlines; the relay beside the calls that  *)
(* write events; and the file that two overlapping calls create, up to two   *)
(* finalisations and a download.                                             *)
McWorkloads ==
  {[ops |-> Ops, calls |-> 5, lapses |-> Deadlines, batches |-> 0],
   [ops |-> Ops \ {"cancel"}, calls |-> 4, lapses |-> {"retention"}, batches |-> 2],
   [ops |-> {"create", "chunk", "finalize", "download"}, calls |-> 7, lapses |-> {}, batches |-> 0]}

Symm == Permutations(Threads) \cup Permutations(Contents) \cup Permutations(Uploads)
=============================================================================
