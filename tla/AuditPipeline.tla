---------------------------- MODULE AuditPipeline -----------------------------
(***************************************************************************)
(* AuditIngestionPipeline: envelopes pass a bounded input queue, validation*)
(* workers, a bounded queue, the batch aggregator, a bounded queue of      *)
(* batches and the insert workers, and every envelope carries a promise    *)
(* that some stage must complete.  Shutdown closes the stages from the     *)
(* front to the back and joins the threads of one before it closes the next*)
(***************************************************************************)
EXTENDS AuditStore

CONSTANTS
  Envelopes,     \* submissions, each made at most once
  Validators,    \* threads of the validation pool
  Inserters,     \* threads of the insert pool
  Aggregator,    \* the thread of the batch aggregator
  QueueCapacity, \* max_queued_events, of both envelope queues
  BatchCapacity, \* batches the batch queue holds: 32
  BatchSize      \* max_batch_size

ASSUME PipelineAssumption ==
  /\ QueueCapacity \in Nat \ {0} /\ BatchCapacity \in Nat \ {0}
  /\ BatchSize \in Nat \ {0}
  /\ Validators # {} /\ Inserters # {} /\ Validators \cap Inserters = {}
  /\ Aggregator \notin Validators \cup Inserters

None == [event |-> "none"]

VARIABLES
  env,           \* [Envelopes -> [pc, event, done, ok]]
  inputQ, validQ, batchQ,
  closed,        \* the queues whose shutdown_ flag is set
  stage,         \* how far AuditServer::stop and shutdown() have come
  validator,     \* [Validators -> <<>> or the envelope being validated]
  active,        \* active_batch_ of the aggregator
  outgoing,      \* the batch flush_active_batch is pushing
  draining,      \* stop() was called on the aggregator
  inserter,      \* [Inserters -> the batch being inserted]
  joined         \* the threads that have ended

pipelineVars == <<env, inputQ, validQ, batchQ, closed, stage, validator,
                  active, outgoing, draining, inserter, joined>>

Fresh == [pc |-> "idle", event |-> None, done |-> 0, ok |-> FALSE]

PipelineInit ==
  /\ env = [p \in Envelopes |-> Fresh]
  /\ inputQ = <<>> /\ validQ = <<>> /\ batchQ = <<>>
  /\ closed = {}
  /\ stage = "running"
  /\ validator = [v \in Validators |-> <<>>]
  /\ active = <<>> /\ outgoing = <<>>
  /\ draining = FALSE /\ joined = {}
  /\ inserter = [w \in Inserters |-> <<>>]

(* A promise is completed; a second completion would throw future_error    *)
(* in a worker thread and end the process.                                 *)
Complete(batch, ok) ==
  [p \in Envelopes |->
     IF p \in ToSet(batch)
     THEN [env[p] EXCEPT !.done = @ + 1, !.ok = ok] ELSE env[p]]

-----------------------------------------------------------------------------
(* submit: the flag is read without the lock of the queue. *)
PipelineSubmit(p, e) ==
  /\ env[p].pc = "idle"
  /\ env' = [env EXCEPT ![p] =
       [Fresh EXCEPT !.event = e,
          !.pc = IF stage = "running" THEN "pushing" ELSE "refused"]]
  /\ UNCHANGED <<inputQ, validQ, batchQ, closed, stage, validator, active,
                 outgoing, draining, inserter, joined>>

(* BoundedIngestionQueue::try_push *)
TryPush(p) ==
  LET fits == "input" \notin closed /\ Len(inputQ) < QueueCapacity
  IN /\ env[p].pc = "pushing"
     /\ env' = [env EXCEPT ![p].pc = IF fits THEN "accepted" ELSE "refused"]
     /\ inputQ' = IF fits THEN Append(inputQ, p) ELSE inputQ
     /\ UNCHANGED <<validQ, batchQ, closed, stage, validator, active,
                    outgoing, draining, inserter, joined>>

(* A mutant of ValidatorPop: the failed envelope is answered and passed on.*)
AnswerAndPass(v) ==
  LET p == Head(inputQ)
  IN /\ v \notin joined /\ validator[v] = <<>> /\ inputQ # <<>>
     /\ inputQ' = Tail(inputQ)
     /\ validator' = [validator EXCEPT ![v] = <<p>>]
     /\ env' = IF Valid(env[p].event) THEN env ELSE Complete(<<p>>, FALSE)
     /\ UNCHANGED <<validQ, batchQ, closed, stage, active, outgoing,
                    draining, inserter, joined>>

(* ValidationWorkerPool::worker_loop takes an envelope; one that fails the *)
(* validation is answered at once.  The deduplication hook is the no-op    *)
(* manager the pipeline is built with.                                     *)
ValidatorPop(v) ==
  LET p == Head(inputQ)
  IN /\ v \notin joined /\ validator[v] = <<>> /\ inputQ # <<>>
     /\ inputQ' = Tail(inputQ)
     /\ IF Valid(env[p].event)
        THEN /\ validator' = [validator EXCEPT ![v] = <<p>>]
             /\ UNCHANGED env
        ELSE /\ env' = Complete(<<p>>, FALSE)
             /\ UNCHANGED validator
     /\ UNCHANGED <<validQ, batchQ, closed, stage, active, outgoing,
                    draining, inserter, joined>>

(* push_with_timeout, repeated until there is room; a queue that was shut  *)
(* down meanwhile makes the worker drop the envelope.                      *)
ValidatorPush(v) ==
  /\ validator[v] # <<>>
  /\ \/ /\ "valid" \notin closed /\ Len(validQ) < QueueCapacity
        /\ validQ' = validQ \o validator[v]
     \/ "valid" \in closed /\ UNCHANGED validQ
  /\ validator' = [validator EXCEPT ![v] = <<>>]
  /\ UNCHANGED <<env, inputQ, batchQ, closed, stage, active, outgoing,
                 draining, inserter, joined>>

(* The loop ends when the queue is shut down and empty. *)
ValidatorExit(v) ==
  /\ v \notin joined
  /\ validator[v] = <<>> /\ inputQ = <<>> /\ "input" \in closed
  /\ joined' = joined \cup {v}
  /\ UNCHANGED <<env, inputQ, validQ, batchQ, closed, stage, validator,
                 active, outgoing, draining, inserter>>

-----------------------------------------------------------------------------
(* BatchAggregator: one thread takes envelopes and flushes a batch when it *)
(* is full or old enough.  After stop() it drains its queue and flushes    *)
(* what is left.                                                           *)
AggregatorPop ==
  /\ Aggregator \notin joined /\ outgoing = <<>> /\ validQ # <<>>
  /\ Len(active) < BatchSize
  /\ active' = Append(active, Head(validQ))
  /\ validQ' = Tail(validQ)
  /\ UNCHANGED <<env, inputQ, batchQ, closed, stage, validator, outgoing,
                 draining, inserter, joined>>

(* The count, the timer, or the end of the drain triggers the flush. *)
Flush ==
  /\ outgoing = <<>> /\ active # <<>>
  /\ draining => Len(active) = BatchSize \/ validQ = <<>>
  /\ outgoing' = active /\ active' = <<>>
  /\ UNCHANGED <<env, inputQ, validQ, batchQ, closed, stage, validator,
                 draining, inserter, joined>>

(* The batch is pushed when there is room, and dropped when its queue was  *)
(* shut down.                                                              *)
FlushPush ==
  /\ outgoing # <<>>
  /\ \/ /\ "batch" \notin closed /\ Len(batchQ) < BatchCapacity
        /\ batchQ' = Append(batchQ, outgoing)
     \/ "batch" \in closed /\ UNCHANGED batchQ
  /\ outgoing' = <<>>
  /\ UNCHANGED <<env, inputQ, validQ, closed, stage, validator, active,
                 draining, inserter, joined>>

AggregatorExit ==
  /\ draining /\ Aggregator \notin joined
  /\ validQ = <<>> /\ active = <<>> /\ outgoing = <<>>
  /\ joined' = joined \cup {Aggregator}
  /\ UNCHANGED <<env, inputQ, validQ, batchQ, closed, stage, validator,
                 active, outgoing, draining, inserter>>

-----------------------------------------------------------------------------
(* InsertWorkerPool::worker_loop *)
InserterPop(w) ==
  /\ w \notin joined /\ inserter[w] = <<>> /\ batchQ # <<>>
  /\ inserter' = [inserter EXCEPT ![w] = Head(batchQ)]
  /\ batchQ' = Tail(batchQ)
  /\ UNCHANGED <<env, inputQ, validQ, closed, stage, validator, active,
                 outgoing, draining, joined>>

(* Every exception of the client is caught and completes the batch with a  *)
(* failure; the producer is told to retry, whatever the server did.        *)
InserterInsert(w, ending) ==
  /\ inserter[w] # <<>>
  /\ ExecuteInsert([k \in 1..Len(inserter[w]) |-> env[inserter[w][k]].event],
                   ending)
  /\ env' = Complete(inserter[w], ~Threw(ending))
  /\ inserter' = [inserter EXCEPT ![w] = <<>>]
  /\ UNCHANGED <<inputQ, validQ, batchQ, closed, stage, validator, active,
                 outgoing, draining, joined>>

InserterExit(w) ==
  /\ w \notin joined
  /\ inserter[w] = <<>> /\ batchQ = <<>> /\ "batch" \in closed
  /\ joined' = joined \cup {w}
  /\ UNCHANGED <<env, inputQ, validQ, batchQ, closed, stage, validator,
                 active, outgoing, draining, inserter>>

-----------------------------------------------------------------------------
(* shutdown(): refuse new envelopes, then close each queue once the threads*)
(* that fill it are joined.                                                *)
Shutdown ==
  /\ \/ stage = "running" /\ stage' = "refusing" /\ UNCHANGED <<closed, draining>>
     \/ /\ stage = "refusing" /\ stage' = "input_closed"
        /\ closed' = closed \cup {"input"} /\ UNCHANGED draining
     \/ /\ stage = "input_closed" /\ Validators \subseteq joined
        /\ stage' = "valid_closed" /\ draining' = TRUE
        /\ closed' = closed \cup {"valid"}
     \/ /\ stage = "valid_closed" /\ Aggregator \in joined
        /\ stage' = "batch_closed"
        /\ closed' = closed \cup {"batch"} /\ UNCHANGED draining
     \/ /\ stage = "batch_closed" /\ Inserters \subseteq joined
        /\ stage' = "inserters_joined" /\ UNCHANGED <<closed, draining>>
  /\ UNCHANGED <<env, inputQ, validQ, batchQ, validator, active, outgoing,
                 inserter, joined>>

PipelineTypeOK ==
  /\ Len(inputQ) <= QueueCapacity /\ Len(validQ) <= QueueCapacity
  /\ Len(batchQ) <= BatchCapacity
  /\ \A k \in 1..Len(batchQ) : Len(batchQ[k]) \in 1..BatchSize
  /\ \A p \in Envelopes : env[p].done \in Nat
  /\ closed \subseteq {"input", "valid", "batch"}
=============================================================================
