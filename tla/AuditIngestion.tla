---------------------------- MODULE AuditIngestion ----------------------------
(***************************************************************************)
(* AuditServiceImpl over AuditIngestionService: the gRPC calls that submit *)
(* one event or a batch, the deduplication cache in front of the           *)
(* repository, and the promises through which concurrent submissions of    *)
(* one event share the outcome of a single insert.                         *)
(*                                                                         *)
(* Calls run concurrently.  A step is one critical section of the cache,   *)
(* one insert, or the end of one wait.                                     *)
(***************************************************************************)
EXTENDS AuditStore

CONSTANTS
  Calls,         \* gRPC calls, each made at most once
  Batches,       \* the batches producers send: sequences of events
  BatchLimit,    \* most events of a batch: 100
  Capacity,      \* committed entries the (one modelled) shard keeps
  Ttl            \* lifetime of a committed entry

ASSUME IngestionAssumption ==
  /\ Batches \subseteq Seq(Events) /\ BatchLimit \in Nat
  /\ Capacity \in Nat \ {0} /\ Ttl \in Nat

VARIABLES
  cached,        \* dedup_cache_ is not null
  inflight,      \* in_flight_map: [Ids -> {} or {[fp, owner]}]
  committed,     \* committed_lru_list, most recently used first
  promise,       \* [Calls -> [Ids -> outcome]]: the promises a call owns
  call           \* the calls and their local state

ingestionVars == <<cached, inflight, committed, promise, call>>

Outcomes == {"PersistedNew", "DuplicateCommitted", "DuplicateCoalesced",
             "ValidationRejected", "IdempotencyConflict",
             "PersistenceAmbiguous", "PersistenceFailed"}

(* The answers that tell the producer to drop the event from its outbox.   *)
Accepted == {"PersistedNew", "DuplicateCommitted", "DuplicateCoalesced"}

Idle == [kind |-> "none", pc |-> "idle", todo |-> <<>>, now |-> 0,
         own |-> <<>>, waits |-> <<>>, ack |-> <<>>, ending |-> "none",
         results |-> {}]

IngestionInit(cache) ==
  /\ cached = cache
  /\ inflight = [i \in Ids |-> {}]
  /\ committed = <<>>
  /\ promise = [c \in Calls |-> [i \in Ids |-> "pending"]]
  /\ call = [c \in Calls |-> Idle]

-----------------------------------------------------------------------------
(* BoundedDeduplicationCache *)
EntryOf(i) == {k \in 1..Len(committed) : committed[k].id = i}

(* committed_map points to the entry of an id in the list; erase takes it  *)
(* out of the list.                                                        *)
Found(i) == committed[CHOOSE k \in EntryOf(i) : TRUE]
Without(i) ==
  IF EntryOf(i) = {} THEN committed
  ELSE RemoveAt(committed, CHOOSE k \in EntryOf(i) : TRUE)

(* A mutant of Decision: the in-flight entry is matched by id alone. *)
MatchById(e, now) ==
  LET hit == {k \in EntryOf(e.id) : now < committed[k].expires}
  IN CASE \E k \in hit : committed[k].fp = Fingerprint(e) -> "AlreadyCommitted"
       [] \E k \in hit : committed[k].fp # Fingerprint(e) -> "PayloadConflict"
       [] hit = {} /\ inflight[e.id] # {} -> "CoalescedInFlight"
       [] OTHER -> "AcquiredNewInFlight"

(* What try_acquire decides for an event at the caller's time.             *)
Decision(e, now) ==
  LET hit == {k \in EntryOf(e.id) : now < committed[k].expires}
      other == {r \in inflight[e.id] : r.fp # Fingerprint(e)}
  IN CASE \E k \in hit : committed[k].fp = Fingerprint(e) -> "AlreadyCommitted"
       [] \E k \in hit : committed[k].fp # Fingerprint(e) -> "PayloadConflict"
       [] hit = {} /\ other # {} -> "PayloadConflict"
       [] hit = {} /\ other = {} /\ inflight[e.id] # {} -> "CoalescedInFlight"
       [] OTHER -> "AcquiredNewInFlight"

(* A mutant of TryAcquire: the reservation is only entered when the event  *)
(* is committed.                                                           *)
NoReservation(c, e, now) == UNCHANGED <<committed, inflight, promise>>

(* An expired entry of the id is dropped on the way, a hit is promoted to  *)
(* the front of the list, a new event gets a reservation and a promise.    *)
TryAcquire(c, e, now) ==
  LET d == Decision(e, now)
      expired == EntryOf(e.id) # {} /\ now >= Found(e.id).expires
  IN /\ committed' = IF d = "AlreadyCommitted"
                     THEN Cons(Found(e.id), Without(e.id))
                     ELSE IF expired THEN Without(e.id) ELSE committed
     /\ inflight' = IF d = "AcquiredNewInFlight"
                    THEN [inflight EXCEPT ![e.id] =
                            {[fp |-> Fingerprint(e), owner |-> c]}]
                    ELSE inflight
     /\ UNCHANGED promise

(* mark_committed: the reservation becomes the most recent entry, the      *)
(* oldest entries beyond the capacity go, and the waiters are told.        *)
MarkCommitted(e, now) ==
  IF inflight[e.id] = {}
  THEN UNCHANGED <<inflight, committed, promise>>
  ELSE LET r == CHOOSE r \in inflight[e.id] : TRUE
           list == Cons([id |-> e.id, fp |-> r.fp, expires |-> now + Ttl],
                        Without(e.id))
       IN /\ inflight' = [inflight EXCEPT ![e.id] = {}]
          /\ committed' = SubSeq(list, 1, IF Len(list) < Capacity
                                          THEN Len(list) ELSE Capacity)
          /\ promise' = [promise EXCEPT ![r.owner][e.id] = "DuplicateCoalesced"]

(* rollback_in_flight: the reservation goes and the waiters get the failure.*)
RollbackInFlight(e, outcome) ==
  /\ IF inflight[e.id] = {}
     THEN UNCHANGED <<inflight, promise>>
     ELSE LET r == CHOOSE r \in inflight[e.id] : TRUE
          IN /\ inflight' = [inflight EXCEPT ![e.id] = {}]
             /\ promise' = [promise EXCEPT ![r.owner][e.id] = outcome]
  /\ UNCHANGED committed

-----------------------------------------------------------------------------
(* The call reads the clock once; reservations and entries carry that time.*)
Submit(c, kind, events) ==
  /\ call[c].pc = "idle"
  /\ call' = [call EXCEPT ![c] =
                [Idle EXCEPT !.kind = kind, !.pc = "acquire",
                             !.todo = events, !.now = clock]]
  /\ UNCHANGED <<cached, inflight, committed, promise>>

(* SubmitAuditEvent: a peer that does not match the declared producer is   *)
(* refused before anything is touched.                                     *)
SubmitAuditEvent(c, e, peer) ==
  /\ PeerAuthorized(peer, e)
  /\ Submit(c, "single", <<e>>)

(* BatchSubmitAuditEvents: every event must match the peer.  A batch over  *)
(* the limit is answered with every event rejected.                        *)
BatchSubmitAuditEvents(c, es, peer) ==
  /\ \A k \in 1..Len(es) : PeerAuthorized(peer, es[k])
  /\ \/ Len(es) <= BatchLimit /\ Submit(c, "batch", es)
     \/ /\ Len(es) > BatchLimit
        /\ call[c].pc = "idle"
        /\ call' = [call EXCEPT ![c] =
             [Idle EXCEPT !.kind = "batch", !.pc = "answered",
                !.results = {<<e, "ValidationRejected">> : e \in ToSet(es)}]]
        /\ UNCHANGED <<cached, inflight, committed, promise>>

Result(c, e, status) == [call[c] EXCEPT !.results = @ \cup {<<e, status>>}]

(* The loop over the events of a call: validate one and ask the cache.     *)
Acquire(c) ==
  LET e == Head(call[c].todo)
      d == Decision(e, call[c].now)
      next(r) == [r EXCEPT !.todo = Tail(@)]
  IN /\ call[c].pc = "acquire" /\ call[c].todo # <<>>
     /\ IF Valid(e) /\ cached
        THEN TryAcquire(c, e, call[c].now)
        ELSE UNCHANGED <<inflight, committed, promise>>
     /\ call' = [call EXCEPT ![c] = next(
          CASE ~Valid(e) -> Result(c, e, "ValidationRejected")
            [] Valid(e) /\ ~cached -> [call[c] EXCEPT !.own = Append(@, e)]
            [] Valid(e) /\ cached /\ d = "AlreadyCommitted"
                 -> Result(c, e, "DuplicateCommitted")
            [] Valid(e) /\ cached /\ d = "PayloadConflict"
                 -> Result(c, e, "IdempotencyConflict")
            [] Valid(e) /\ cached /\ d = "CoalescedInFlight"
                 -> [call[c] EXCEPT !.waits = Append(@,
                       [event |-> e,
                        owner |-> (CHOOSE r \in inflight[e.id] : TRUE).owner])]
            [] OTHER -> [call[c] EXCEPT !.own = Append(@, e)])]
     /\ UNCHANGED cached

Acquired(c) ==
  /\ call[c].pc = "acquire" /\ call[c].todo = <<>>
  /\ call' = [call EXCEPT ![c].pc =
                IF call[c].own # <<>> THEN "insert" ELSE "wait"]
  /\ UNCHANGED <<cached, inflight, committed, promise>>

(* insert_batch_classified: the default of the interface turns TRUE into   *)
(* Committed and FALSE into a failure; the ClickHouse repository never     *)
(* returns FALSE and what its client throws passes through.                *)
(*   - ingest_single with a cache: the reservation guard rolls back and the*)
(*     exception leaves the handler;                                       *)
(*   - ingest_single without a cache answers PersistenceFailed;            *)
(*   - ingest_batch has neither a guard nor a handler.                     *)
Insert(c, ending) ==
  /\ call[c].pc = "insert"
  /\ ExecuteInsert(call[c].own, ending)
  /\ call' = [call EXCEPT ![c] =
       [call[c] EXCEPT !.ending = ending,
          !.ack = call[c].own,
          !.pc = CASE ~Threw(ending) -> "commit"
                   [] Threw(ending) /\ call[c].kind = "single" -> "rollback"
                   [] OTHER -> "threw"]]
  /\ UNCHANGED <<cached, inflight, committed, promise>>

(* on_batch_persisted: one entry after the other, at the call's own time.  *)
Commit(c) ==
  /\ call[c].pc = "commit" /\ call[c].ack # <<>>
  /\ IF cached THEN MarkCommitted(Head(call[c].ack), call[c].now)
               ELSE UNCHANGED <<inflight, committed, promise>>
  /\ call' = [call EXCEPT ![c].ack = Tail(@)]
  /\ UNCHANGED cached

Committed(c) ==
  /\ call[c].pc = "commit" /\ call[c].ack = <<>>
  /\ call' = [call EXCEPT ![c] =
       [call[c] EXCEPT !.pc = "wait",
          !.results = @ \cup {<<e, "PersistedNew">> : e \in ToSet(call[c].own)}]]
  /\ UNCHANGED <<cached, inflight, committed, promise>>

(* The guard's destructor, or the catch of the path without a cache.       *)
Rollback(c) ==
  /\ call[c].pc = "rollback"
  /\ IF cached
     THEN /\ RollbackInFlight(Head(call[c].own), "PersistenceFailed")
          /\ call' = [call EXCEPT ![c].pc = "threw"]
     ELSE /\ call' = [call EXCEPT ![c] =
                [Result(c, Head(call[c].own), "PersistenceFailed")
                   EXCEPT !.pc = "wait"]]
          /\ UNCHANGED <<inflight, committed, promise>>
  /\ UNCHANGED cached

(* The future of the first waiter is ready. *)
Awaited(c) ==
  LET w == Head(call[c].waits)
      p == promise[w.owner][w.event.id]
  IN /\ call[c].pc = "wait" /\ call[c].waits # <<>>
     /\ p # "pending"
     /\ call' = [call EXCEPT ![c] =
                   [Result(c, w.event, p) EXCEPT !.waits = Tail(@)]]
     /\ UNCHANGED <<cached, inflight, committed, promise>>

(* in_flight_timeout_ passes first. *)
AwaitTimedOut(c) ==
  LET w == Head(call[c].waits)
  IN /\ call[c].pc = "wait" /\ call[c].waits # <<>>
     /\ promise[w.owner][w.event.id] = "pending"
     /\ call' = [call EXCEPT ![c] =
                   [Result(c, w.event, "PersistenceAmbiguous")
                      EXCEPT !.waits = Tail(@)]]
     /\ UNCHANGED <<cached, inflight, committed, promise>>

Answer(c) ==
  /\ call[c].pc = "wait" /\ call[c].waits = <<>>
  /\ call' = [call EXCEPT ![c].pc = "answered"]
  /\ UNCHANGED <<cached, inflight, committed, promise>>

-----------------------------------------------------------------------------
InProgress(c) == call[c].pc \notin {"idle", "answered", "threw"}

IngestionTypeOK ==
  /\ cached \in BOOLEAN
  /\ \A i \in Ids : \A r \in inflight[i] : r.owner \in Calls
  /\ Len(committed) <= Capacity
  /\ IsInjective([k \in 1..Len(committed) |-> committed[k].id])
  /\ promise \in [Calls -> [Ids -> {"pending"} \cup Outcomes]]
  /\ \A c \in Calls : call[c].results \subseteq Events \X Outcomes
=============================================================================
