----------------------------- MODULE AuditServer ------------------------------
(***************************************************************************)
(* The audit server: the ingestion service, the pipeline and the queries   *)
(* over one table, from the start of the server to the end of stop().      *)
(***************************************************************************)
EXTENDS AuditIngestion, AuditPipeline, AuditQuery

CONSTANTS
  Deployments,   \* records [table, cache]: the events already in the table, and
                 \* whether the service is given a cache.  The server gives none
  MaxRequests    \* bound: calls, envelopes and walks together

ASSUME DeploymentsAssumption ==
  /\ Deployments \subseteq [table : SUBSET Events, cache : BOOLEAN]
  /\ MaxRequests \in Nat

vars == <<storeVars, ingestionVars, pipelineVars, queryVars>>

Init ==
  /\ \E d \in Deployments : StoreInit(d.table) /\ IngestionInit(d.cache)
  /\ PipelineInit /\ QueryInit

Started ==
  Cardinality({c \in Calls : call[c].pc # "idle"})
  + Cardinality({p \in Envelopes : env[p].pc # "idle"})
  + Cardinality({q \in Readers : walk[q].pc # "idle"})

Admitted == Started < MaxRequests

(* The gRPC server takes new calls until stop() has drained the pipeline.  *)
Serving == stage \notin {"server_closing", "stopped"}

CallsInProgress ==
  \/ \E c \in Calls : InProgress(c)
  \/ \E q \in Readers : walk[q].pc \in {"querying", "looking"}

(* The rest of AuditServer::stop: the server refuses new calls and returns *)
(* when the handlers that run have ended.                                  *)
StopServer ==
  /\ \/ stage = "inserters_joined" /\ stage' = "server_closing"
     \/ stage = "server_closing" /\ ~CallsInProgress /\ stage' = "stopped"
  /\ UNCHANGED <<storeVars, ingestionVars, queryVars, env, inputQ, validQ,
                 batchQ, closed, validator, active, outgoing, draining,
                 inserter, joined>>

StoreStep ==
  (LateInsert \/ Tick) /\ UNCHANGED <<ingestionVars, pipelineVars, queryVars>>

IngestionStep ==
  /\ \E c \in Calls :
       \/ /\ Serving /\ Admitted
          /\ \E e \in Events : SubmitAuditEvent(c, e, e.producer)
          /\ UNCHANGED storeVars
       \/ /\ Serving /\ Admitted
          /\ \E es \in Batches, peer \in Producers :
               BatchSubmitAuditEvents(c, es, peer)
          /\ UNCHANGED storeVars
       \/ \E ending \in Endings : Insert(c, ending)
       \/ /\ \/ Acquire(c) \/ Acquired(c) \/ Commit(c) \/ Committed(c)
             \/ Rollback(c) \/ Awaited(c) \/ AwaitTimedOut(c) \/ Answer(c)
          /\ UNCHANGED storeVars
  /\ UNCHANGED <<pipelineVars, queryVars>>

PipelineStep ==
  /\ \/ /\ \/ \E p \in Envelopes :
                \/ Admitted /\ \E e \in Events : PipelineSubmit(p, e)
                \/ TryPush(p)
           \/ \E v \in Validators :
                ValidatorPop(v) \/ ValidatorPush(v) \/ ValidatorExit(v)
           \/ AggregatorPop \/ Flush \/ FlushPush \/ AggregatorExit
           \/ \E w \in Inserters : InserterPop(w) \/ InserterExit(w)
           \/ Shutdown
        /\ UNCHANGED storeVars
     \/ \E w \in Inserters, ending \in Endings : InserterInsert(w, ending)
  /\ UNCHANGED <<ingestionVars, queryVars>>

QueryStep ==
  /\ \E q \in Readers :
       \/ \E r \in Requests :
            /\ Serving
            /\ Admitted \/ walk[q].pc # "idle"
            /\ QueryAuditEvents(q, r) \/ GetAuditEventById(q, r)
       \/ PageRead(q) \/ QueryFailed(q)
       \/ \E i \in Ids : LookedUp(q, i)
  /\ UNCHANGED <<storeVars, ingestionVars, pipelineVars>>

(* The process has exited. *)
Exited == stage = "stopped" /\ UNCHANGED vars

Next == StoreStep \/ IngestionStep \/ PipelineStep \/ QueryStep
        \/ StopServer \/ Exited

Spec == Init /\ [][Next]_vars

-----------------------------------------------------------------------------
(* The state of every part has its type, no queue or list exceeds its      *)
(* capacity, and the committed list holds an id once.                      *)
TypeOK == StoreTypeOK /\ IngestionTypeOK /\ PipelineTypeOK /\ QueryTypeOK

(* A producer that is told an event was persisted, was committed before, or*)
(* shared the insert of a concurrent call, finds that very event, with its *)
(* contents, in the table; so does one whose envelope was completed with   *)
(* success.  The producer drops the event on that answer.                  *)
AckedIsStored ==
  /\ \A c \in Calls : \A x \in call[c].results :
       x[2] \in Accepted => rows[x[1]] > 0
  /\ \A p \in Envelopes : env[p].ok => rows[env[p].event] > 0

(* With the cache, concurrent submissions of one event id never write it   *)
(* twice: no two calls are inserting it, and no batch contains it twice.   *)
OneWriterPerId ==
  cached => \A c, d \in Calls :
    call[c].pc = "insert" /\ call[d].pc = "insert" =>
      \A i \in 1..Len(call[c].own), j \in 1..Len(call[d].own) :
        call[c].own[i].id = call[d].own[j].id => c = d /\ i = j

(* A reservation that later submissions of the id wait on belongs to a call*)
(* that is still going to resolve it.  The one exception is a batch whose  *)
(* insert threw: ingest_batch has no reservation guard.                    *)
ReservationHasOwner ==
  \A i \in Ids : \A r \in inflight[i] :
    \/ InProgress(r.owner)
    \/ call[r.owner].kind = "batch" /\ call[r.owner].pc = "threw"

(* The promise of an envelope is completed at most once: a second          *)
(* set_value would throw in a worker thread.                               *)
PromiseOnce == \A p \in Envelopes : env[p].done <= 1

(* Graceful drain: once shutdown() has joined the insert workers, every    *)
(* envelope that submit() accepted has been answered.                      *)
DrainComplete ==
  stage \in {"inserters_joined", "server_closing", "stopped"} =>
    \A p \in Envelopes : env[p].pc = "accepted" => env[p].done = 1

(* The pages of a walk, read one after the other while events arrive, are  *)
(* strictly in the order of the query: no row is returned twice.           *)
WalkInOrder ==
  \A q \in Readers : \A i, j \in 1..Len(walk[q].seen) :
    i < j => First(walk[q].filter, walk[q].seen[i], walk[q].seen[j])

(* A walk that reached its last page has returned every event id that      *)
(* matched when it began.                                                  *)
WalkComplete ==
  \A q \in Readers : walk[q].pc = "done" =>
    \A e \in walk[q].present : \E k \in 1..Len(walk[q].seen) :
      walk[q].seen[k].id = e.id

(* The bulkhead counts the queries that run, also after errors. *)
BulkheadExact ==
  queries = Cardinality({q \in Readers : walk[q].pc \in {"querying", "looking"}})

(* The deduplication cache lets one submission of an event id through and  *)
(* never keeps a reservation nobody will resolve.                          *)
Deduplicated == TypeOK /\ OneWriterPerId /\ ReservationHasOwner

(* Every envelope the pipeline accepted is answered exactly once, also     *)
(* when stop() overtakes it.                                               *)
PipelineDrains == PromiseOnce /\ DrainComplete

(* Walks over the growing table are exact, and the bulkhead in front of    *)
(* them is.                                                                *)
QueriesExact == WalkInOrder /\ WalkComplete /\ BulkheadExact
=============================================================================
