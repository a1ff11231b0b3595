------------------------------- MODULE Gateway -------------------------------
(***************************************************************************)
(* The HTTP gateway: the middleware pipeline every request passes (drain   *)
(* gate, resource limiter, authentication against the auth service with a  *)
(* cache, token bucket rate limiter, authorization), the proxy handlers    *)
(* with their bulkhead, circuit breaker, deadline budget and retry policy, *)
(* the cancellation of calls, and the graceful shutdown of main.           *)
(*                                                                         *)
(* A worker thread of the server runs one request at a time; everything it *)
(* shares with the others is one atomic step.  The clock is discrete: it   *)
(* does not pass the deadline of a call that has not returned.             *)
(***************************************************************************)
EXTENDS GatewayRoutes, Integers, FiniteSets, Sequences, SequencesExt

Categories == {"auth", "messaging", "files", "emergency"}

CONSTANTS
  Threads,          \* worker threads of the HTTP server
  Workloads,        \* what clients ask for; one of these is chosen at the start
  RequestIds,       \* values of X-Request-ID; a client may repeat one
  Timeout,          \* the timeout of each service, in ticks
  MinDeadline, MaxDeadline,
  MaxAttempts, Backoff,       \* retry policy
  Threshold, Recovery, Probes,   \* circuit breaker
  Slots,            \* concurrent requests of each workload category
  MaxConnections,   \* max_concurrent_connections
  CacheTtl, RpcTimeout,       \* token validator
  Burst, Refill, ClientTtl, MaxTracked,  \* rate limiter
  DrainTimeout,     \* the argument of start_drain
  Chunks,           \* chunks of a streamed file
  LastArrival       \* bound: the tick of the last request

(* A workload: the routes requests ask for, how many there are, the values  *)
(* of X-Request-Timeout (0: no header), and the contexts the auth service   *)
(* may answer with.                                                         *)
Workload == [routes : SUBSET AllRoutes, requests : Nat,
             timeouts : SUBSET Nat, sessions : SUBSET Contexts]

ASSUME GatewayAssumption ==
  /\ Threads \subseteq Nat \ {0} /\ IsFiniteSet(Threads)
  /\ AllRoutes \subseteq Route /\ Workloads \subseteq Workload
  /\ Timeout \in [Categories -> Nat \ {0}]
  /\ MinDeadline \in Nat \ {0} /\ MaxDeadline \in Nat /\ MaxDeadline >= MinDeadline
  /\ MaxAttempts \in Nat \ {0} /\ Backoff \in Nat \ {0}
  /\ Threshold \in Nat \ {0} /\ Recovery \in Nat \ {0} /\ Probes \in Nat \ {0}
  /\ Slots \in [Categories -> Nat \ {0}] /\ MaxConnections \in Nat \ {0}
  /\ CacheTtl \in Nat \ {0} /\ RpcTimeout \in Nat \ {0}
  /\ Burst \in Nat \ {0} /\ Refill \in Nat \ {0} /\ MaxTracked \in Nat \ {0}
  /\ ClientTtl \in Nat \ {0}
  /\ DrainTimeout \in Nat /\ Chunks \in Nat /\ LastArrival \in Nat

VARIABLES
  load,       \* the workload
  now,        \* steady clock
  server,     \* progress of main: running, draining, drained, timedOut,
              \* stopping, closed
  drainAt,    \* when start_drain was called
  inFlight,   \* DrainManager::in_flight_requests_
  conns,      \* ResourceLimiterMiddleware::active_connections_
  cache,      \* AuthServiceTokenValidator::cache_: the entry of the one token
  revokedAt,  \* when the session of that token was revoked, or Never
  buckets,    \* RateLimiterMiddleware::client_map_
  lru,        \* RateLimiterMiddleware::lru_list_, most recent first
  granted,    \* history: requests the rate limiter let through, per key
  active,     \* active_calls_ of each proxy: the thread whose call it points to
  used,       \* WorkloadBulkhead::active_count_ per category
  breaker,    \* the CircuitBreaker of each service
  req,        \* the request each thread runs
  arrived     \* requests received so far

vars == <<load, now, server, drainAt, inFlight, conns, cache, revokedAt, buckets, lru,
          granted, active, used, breaker, req, arrived>>

gateVars == <<load, server, drainAt, inFlight, conns>>
authVars == <<cache, revokedAt>>
rateVars == <<buckets, lru, granted>>
callVars == <<active, used, breaker>>

Never == -1
None == "none"
NoCall == 0
Keys == {"user", "ip"}
NoContext == [level |-> None, device |-> FALSE]
NoCache == [ctx |-> NoContext, until |-> 0]
ClosedBreaker == [state |-> "Closed", failures |-> 0, probes |-> 0, since |-> 0]

Draining == server # "running"

NoRequest ==
  [pc |-> "idle", route |-> None, rid |-> None, start |-> 0, deadline |-> 0,
   sent |-> 0, until |-> 0, ctx |-> NoContext, status |-> None,
   leased |-> FALSE, chunk |-> 0]

At(t, p) == req[t].pc = p
Goto(t, p) == req' = [req EXCEPT ![t].pc = p]
Finish(t) == req' = [req EXCEPT ![t] = NoRequest]

(* Where a request counts as a connection, and as past the drain gate. *)
Connected == {"auth", "validating", "answered", "rate", "admit",
              "dispatch", "call", "backoff", "leave"}
PastGate == Connected \cup {"limiter"}
Health(t) == req[t].route.svc = "emergency"
Running == {t \in Threads : req[t].pc # "idle"}
Waiting == {t \in Threads : req[t].pc \in {"validating", "call", "backoff", "chunk"}}

Init ==
  /\ load \in Workloads
  /\ now = 0 /\ server = "running" /\ drainAt = 0
  /\ inFlight = 0 /\ conns = 0
  /\ cache = NoCache /\ revokedAt = Never
  /\ buckets = [k \in Keys |-> [tokens |-> 0, last |-> 0]] /\ lru = <<>>
  /\ granted = [k \in Keys |-> 0]
  /\ active = [c \in Categories \X RequestIds |-> NoCall]
  /\ used = [c \in Categories |-> 0]
  /\ breaker = [c \in Categories |-> ClosedBreaker]
  /\ req = [t \in Threads |-> NoRequest]
  /\ arrived = 0

-----------------------------------------------------------------------------
(* Time, and the auth service revoking the session behind the token.       *)
Tick ==
  /\ \/ Waiting # {}
     \/ server = "draining" /\ now < drainAt + DrainTimeout
     \/ now < LastArrival
  /\ \A t \in Waiting : now < req[t].until
  /\ now' = now + 1
  /\ UNCHANGED <<gateVars, authVars, rateVars, callVars, req, arrived>>

RevokeSession ==
  /\ revokedAt = Never /\ now <= LastArrival
  /\ revokedAt' = now
  /\ UNCHANGED <<now, gateVars, cache, rateVars, callVars, req, arrived>>

-----------------------------------------------------------------------------
(* The pipeline.  Health checks go round the drain gate.  The idle threads *)
(* are interchangeable: the first one takes the request.                   *)
(* DrainManager::try_acquire looks, counts, and looks again.               *)
Receive(t) ==
  /\ At(t, "idle") /\ server \in {"running", "draining", "drained", "timedOut"}
  /\ \A u \in Threads : At(u, "idle") => t <= u
  /\ arrived < load.requests /\ now <= LastArrival
  /\ arrived' = arrived + 1
  /\ \E r \in load.routes, i \in RequestIds :
       LET health == r.svc = "emergency"
           entry == CASE health -> "limiter"
                      [] ~health /\ Draining -> "idle"
                      [] OTHER -> "gated"
       IN req' = [req EXCEPT ![t] =
            IF entry = "idle" THEN NoRequest
            ELSE [NoRequest EXCEPT !.pc = entry, !.route = r, !.rid = i]]
  /\ UNCHANGED <<now, gateVars, authVars, rateVars, callVars>>

CountInFlight(t) ==
  /\ At(t, "gated")
  /\ inFlight' = inFlight + 1
  /\ Goto(t, "counted")
  /\ UNCHANGED <<load, now, server, drainAt, conns, authVars, rateVars, callVars, arrived>>

(* A mutant of Recheck: the second look is missing. *)
NoSecondLook(t) ==
  /\ At(t, "counted")
  /\ Goto(t, "limiter")
  /\ UNCHANGED <<now, gateVars, authVars, rateVars, callVars, arrived>>

Recheck(t) ==
  /\ At(t, "counted")
  /\ inFlight' = IF Draining THEN inFlight - 1 ELSE inFlight
  /\ IF Draining THEN Finish(t) ELSE Goto(t, "limiter")
  /\ UNCHANGED <<load, now, server, drainAt, conns, authVars, rateVars, callVars, arrived>>

(* ResourceLimiterMiddleware: a request may exceed a size limit; otherwise *)
(* it counts itself, and is refused when there was no room.                *)
LimitResources(t) ==
  /\ At(t, "limiter")
  /\ \/ /\ Finish(t)
        /\ inFlight' = IF Health(t) THEN inFlight ELSE inFlight - 1
        /\ conns' = conns
     \/ /\ conns' = conns + 1
        /\ inFlight' = inFlight
        /\ Goto(t, IF conns >= MaxConnections THEN "leave" ELSE "auth")
  /\ UNCHANGED <<load, now, server, drainAt, authVars, rateVars, callVars, arrived>>

(* The end of AuthenticationMiddleware: a caller who lacks the second      *)
(* factor, the device binding or a scope is refused, any other goes on     *)
(* with the context bound to the request.                                  *)
EvaluateRule(r, ctx) == IF Permits(r, ctx) THEN "rate" ELSE "leave"

(* AuthenticationMiddleware: public routes pass, a request without a token *)
(* is refused, and a token is looked up in the cache before the auth       *)
(* service is asked.  The clock is read once, before the call.             *)
Authenticate(t) ==
  /\ At(t, "auth")
  /\ \/ /\ req[t].route.access = "Public"
        /\ Goto(t, "rate")
        /\ cache' = cache
     \/ /\ req[t].route.access # "Public"
        /\ Goto(t, "leave")
        /\ cache' = cache
     \/ /\ req[t].route.access # "Public"
        /\ IF now < cache.until
           THEN /\ req' = [req EXCEPT ![t].ctx = cache.ctx,
                     ![t].pc = EvaluateRule(req[t].route, cache.ctx)]
                /\ cache' = cache
           ELSE /\ req' = [req EXCEPT ![t].pc = "validating", ![t].start = now,
                                      ![t].until = now + RpcTimeout]
                /\ cache' = NoCache
  /\ UNCHANGED <<now, gateVars, revokedAt, rateVars, callVars, arrived>>

(* ValidateSession of the auth service reads the session; a refusal and a  *)
(* failed call both end the request.                                       *)
ValidateSession(t) ==
  /\ At(t, "validating")
  /\ \/ req' = [req EXCEPT ![t].pc = "leave", ![t].until = 0, ![t].start = 0]
     \/ /\ revokedAt = Never
        /\ \E c \in load.sessions :
             req' = [req EXCEPT ![t].pc = "answered", ![t].ctx = c, ![t].until = 0]
  /\ UNCHANGED <<now, gateVars, authVars, rateVars, callVars, arrived>>

(* A mutant of ValidUntil: the entry lives from when it is inserted. *)
FromInsertion(sampled) == now + CacheTtl
ValidUntil(sampled) == sampled + CacheTtl

StoreInCache(t) ==
  /\ At(t, "answered")
  /\ cache' = [ctx |-> req[t].ctx, until |-> ValidUntil(req[t].start)]
  /\ req' = [req EXCEPT ![t].start = 0,
               ![t].pc = EvaluateRule(req[t].route, req[t].ctx)]
  /\ UNCHANGED <<now, gateVars, revokedAt, rateVars, callVars, arrived>>

-----------------------------------------------------------------------------
(* The token bucket rate limiter: tracked clients in least recently used   *)
(* order, a bucket that is refilled when it is looked at.                  *)
ResolveClientKey(t) == IF req[t].ctx = NoContext THEN "ip" ELSE "user"

Refilled(k) ==
  LET elapsed == now - buckets[k].last
      tokens == buckets[k].tokens + elapsed * Refill
  IN IF elapsed >= ClientTtl \/ tokens > Burst THEN Burst ELSE tokens

Tracked(k) == Contains(lru, k)

(* The list after k was looked at: a tracked client moves to the front; a  *)
(* new one enters there, and the oldest leave when there is no room.       *)
Touched(k) ==
  LET place == CHOOSE i \in 1..Len(lru) : lru[i] = k
      kept == IF Len(lru) < MaxTracked THEN Len(lru) ELSE MaxTracked - 1
  IN IF Tracked(k)
     THEN [i \in 1..Len(lru) |-> CASE i = 1 -> k
                                  [] i > 1 /\ i <= place -> lru[i - 1]
                                  [] OTHER -> lru[i]]
     ELSE [i \in 1..kept + 1 |-> IF i = 1 THEN k ELSE lru[i - 1]]

(* Router::dispatch_route: a request that matches no route, and a stub,    *)
(* are answered at once; a proxy handler takes the time and may refuse a   *)
(* path parameter.                                                         *)
DispatchRoute(t) ==
  LET r == req[t].route
  IN \/ (r.early \/ ~r.proxied) /\ Goto(t, "leave")
     \/ r.proxied /\ req' = [req EXCEPT ![t].pc = "admit", ![t].start = now]

(* AuthorizationMiddleware evaluates the rule again. *)
Authorize(t) ==
  LET r == req[t].route
  IN IF r.access # "Public" /\ ~Permits(r, req[t].ctx)
     THEN Goto(t, "leave") ELSE DispatchRoute(t)

(* RateLimiterMiddleware::acquire *)
Available(k) == IF Tracked(k) THEN Refilled(k) ELSE Burst
Acquire(k, allowed) ==
  /\ lru' = Touched(k)
  /\ buckets' = [buckets EXCEPT
       ![k] = [tokens |-> IF allowed THEN Available(k) - 1 ELSE Available(k),
               last |-> now]]
  /\ granted' = [granted EXCEPT ![k] = IF allowed THEN @ + 1 ELSE @]

RateLimit(t) ==
  LET k == ResolveClientKey(t)
      allowed == Available(k) >= 1
  IN /\ At(t, "rate")
     /\ Acquire(k, allowed)
     /\ IF allowed THEN Authorize(t) ELSE Goto(t, "leave")
     /\ UNCHANGED <<now, gateVars, authVars, callVars, arrived>>

-----------------------------------------------------------------------------
(* The proxy handlers.                                                     *)
(* WorkloadBulkhead::try_acquire. *)
TryAcquireSlot(c) == used[c] < Slots[c]

(* CircuitBreaker::allow_request, and the breaker afterwards. *)
Allows(b) ==
  \/ b.state = "Closed"
  \/ b.state = "Open" /\ now - b.since >= Recovery
  \/ b.state = "HalfOpen" /\ b.probes < Probes

Admitting(b) ==
  CASE b.state = "Closed" -> b
    [] b.state = "Open" -> [b EXCEPT !.state = "HalfOpen", !.probes = 1, !.since = 0]
    [] b.state = "HalfOpen" -> [b EXCEPT !.probes = @ + 1]

RecordSuccess(b) ==
  CASE b.state = "HalfOpen" -> ClosedBreaker
    [] b.state = "Closed" -> [b EXCEPT !.failures = 0]
    [] b.state = "Open" -> b

Opened(b) == [b EXCEPT !.state = "Open", !.probes = 0, !.since = now]

RecordFailure(b) ==
  CASE b.state = "HalfOpen" -> Opened(b)
    [] b.state = "Closed" /\ b.failures + 1 >= Threshold ->
         [Opened(b) EXCEPT !.failures = b.failures + 1]
    [] b.state = "Closed" /\ b.failures + 1 < Threshold ->
         [b EXCEPT !.failures = @ + 1]
    [] b.state = "Open" -> b

IsTransient(s) == s \in {"UNAVAILABLE", "DEADLINE_EXCEEDED"}

RecordStatus(b, s) ==
  CASE s = "OK" -> RecordSuccess(b)
    [] IsTransient(s) -> RecordFailure(b)
    [] OTHER -> b

(* The deadline of the request: its header within the configured bounds.   *)
EffectiveDeadline(c, client) ==
  CASE client = 0 -> Timeout[c]
    [] client > 0 /\ client < MinDeadline -> MinDeadline
    [] client > MaxDeadline -> MaxDeadline
    [] OTHER -> client

Elapsed(t) == now - req[t].start

(* The checks between the breaker and the call: deadline, caller, body.    *)
Prepare(t) ==
  \E client \in load.timeouts :
    LET r == req[t].route
        deadline == EffectiveDeadline(r.svc, client)
        late == r.retried /\ Elapsed(t) >= deadline
        refused == r.mfa /\ req[t].ctx.level # "MFA_VERIFIED"
    IN \/ /\ late \/ refused \/ r.checked
          /\ req' = [req EXCEPT ![t].pc = "leave", ![t].leased = TRUE]
       \/ /\ ~late /\ ~refused
          /\ req' = [req EXCEPT ![t].pc = "dispatch", ![t].leased = TRUE,
                                ![t].deadline = deadline]

(* A handler takes a slot of its bulkhead and asks the breaker; a request  *)
(* the breaker refuses gives its slot back when it leaves.                 *)
Admit(t) ==
  LET c == req[t].route.svc
  IN /\ At(t, "admit")
     /\ IF ~TryAcquireSlot(c)
        THEN /\ UNCHANGED <<used, breaker>>
             /\ Goto(t, "leave")
        ELSE /\ used' = [used EXCEPT ![c] = @ + 1]
             /\ IF Allows(breaker[c])
                THEN /\ breaker' = [breaker EXCEPT ![c] = Admitting(@)]
                     /\ Prepare(t)
                ELSE /\ breaker' = breaker
                     /\ req' = [req EXCEPT ![t].pc = "leave", ![t].leased = TRUE]
     /\ UNCHANGED <<now, gateVars, authVars, rateVars, active, arrived>>

DownstreamBudget(t) ==
  LET remaining == req[t].deadline - Elapsed(t)
      timeout == Timeout[req[t].route.svc]
  IN IF timeout < remaining THEN timeout ELSE remaining

CallKey(t) == <<req[t].route.svc, req[t].rid>>
Register(t) ==
  active' = IF req[t].route.guarded THEN [active EXCEPT ![CallKey(t)] = t] ELSE active

(* A mutant of Unregister: only a call that succeeded is taken out. *)
UnregisterOnSuccess(t, s) ==
  active' = IF req[t].route.guarded /\ s = "OK"
            THEN [active EXCEPT ![CallKey(t)] = NoCall] ELSE active

Unregister(t, s) ==
  active' = IF req[t].route.guarded THEN [active EXCEPT ![CallKey(t)] = NoCall] ELSE active

(* ClientCallContext: the deadline of one call, and its cancellation.      *)
InitializeContext(t, budget) ==
  req' = [req EXCEPT ![t].pc = "call", ![t].until = now + budget, ![t].sent = @ + 1]
CancelContext(t) == req' = [req EXCEPT ![t].until = now]

(* One attempt: RetryPolicy::execute computes what is left of the deadline *)
(* and gives up without a call when nothing is.                            *)
Dispatch(t) ==
  LET r == req[t].route
      budget == IF r.retried THEN DownstreamBudget(t) ELSE req[t].deadline
  IN /\ At(t, "dispatch")
     /\ IF budget <= 0
        THEN /\ req' = [req EXCEPT ![t].pc = "leave", ![t].status = "DEADLINE_EXCEEDED"]
             /\ active' = active
        ELSE InitializeContext(t, budget) /\ Register(t)
     /\ UNCHANGED <<now, gateVars, authVars, rateVars, used, breaker, arrived>>

(* A mutant of ShouldRetry: the operation's idempotency is not asked. *)
RetryAll(t, s) == req[t].sent < MaxAttempts /\ s = "UNAVAILABLE"

ShouldRetry(t, s) ==
  /\ req[t].route.retried
  /\ req[t].route.idem # "NON_IDEMPOTENT"
  /\ req[t].sent < MaxAttempts
  /\ s = "UNAVAILABLE"

FitsDeadline(t, d) == Elapsed(t) + d + MinDeadline <= req[t].deadline

(* Each method of a service client makes its call once, with the context   *)
(* of the call, and returns the answer or the error its status stands for. *)
DependencyErrors == {"UNAVAILABLE", "DEADLINE_EXCEEDED", "OTHER"}
ClientAnswers == {"OK"} \cup DependencyErrors

(* The call returns; the policy decides whether there is another attempt.  *)
(* DEADLINE_EXCEEDED is what gRPC answers when the call's time is up.      *)
CallReturns(t) ==
  /\ At(t, "call")
  /\ \E s \in ClientAnswers :
       /\ s = "DEADLINE_EXCEEDED" => now = req[t].until
       /\ Unregister(t, s)
       /\ \E d \in 1..Backoff :
            req' = IF ShouldRetry(t, s) /\ FitsDeadline(t, d)
                   THEN [req EXCEPT ![t].pc = "backoff", ![t].until = now + d]
                   ELSE [req EXCEPT ![t].pc = "leave", ![t].status = s,
                                       ![t].until = 0, ![t].start = 0]
  /\ UNCHANGED <<now, gateVars, authVars, rateVars, used, breaker, arrived>>

BackoffEnds(t) ==
  /\ At(t, "backoff") /\ now >= req[t].until
  /\ req' = [req EXCEPT ![t].pc = "dispatch", ![t].until = 0]
  /\ UNCHANGED <<now, gateVars, authVars, rateVars, callVars, arrived>>

(* cancel_request: the context the map holds is cancelled, and its call    *)
(* returns at once.                                                        *)
CancelRequest(i) ==
  /\ \E c \in {"auth", "files"} :
       /\ active[<<c, i>>] # NoCall
       /\ req[active[<<c, i>>]].until > now
       /\ CancelContext(active[<<c, i>>])
  /\ UNCHANGED <<now, gateVars, authVars, rateVars, callVars, arrived>>

(* What a handler that made a call tells the breaker: a streaming download *)
(* nothing, and nothing about a device that turned out to be another's.    *)
RecordOutcome(t) ==
  LET r == req[t].route
      s == req[t].status
  IN \/ /\ s = None \/ r.stream \/ (r.owned /\ s = "OK")
        /\ breaker' = breaker
     \/ /\ s # None /\ ~r.stream
        /\ breaker' = [breaker EXCEPT ![r.svc] = RecordStatus(@, s)]

Release(t) ==
  used' = IF req[t].leased THEN [used EXCEPT ![req[t].route.svc] = @ - 1] ELSE used

Streams(t) == req[t].route.stream /\ req[t].status = "OK"

(* The handler's lease is released, unless a stream's state took it over.  *)
ReleaseLease(t) == IF Streams(t) THEN used' = used ELSE Release(t)

(* The handler and the pipeline return: the outcome is recorded, bulkhead  *)
(* lease, connection count and drain lease are given back; a stream's      *)
(* content provider follows.                                               *)
Leave(t) ==
  /\ At(t, "leave")
  /\ RecordOutcome(t)
  /\ ReleaseLease(t)
  /\ conns' = conns - 1
  /\ inFlight' = IF Health(t) THEN inFlight ELSE inFlight - 1
  /\ IF Streams(t) THEN Goto(t, "stream") ELSE Finish(t)
  /\ UNCHANGED <<load, now, server, drainAt, authVars, rateVars, active, arrived>>

-----------------------------------------------------------------------------
(* The content provider of a streaming download runs after the pipeline.   *)
NextChunk(t) ==
  /\ At(t, "stream")
  /\ \/ /\ req[t].chunk < Chunks
        /\ req' = [req EXCEPT ![t].pc = "chunk", ![t].until = now + req[t].deadline]
        /\ Register(t)
        /\ used' = used
     \/ /\ Finish(t)   \* end of file, or the client went away
        /\ Release(t)
        /\ active' = active
  /\ UNCHANGED <<now, gateVars, authVars, rateVars, breaker, arrived>>

ChunkReturns(t) ==
  /\ At(t, "chunk")
  /\ \/ /\ req' = [req EXCEPT ![t].pc = "stream", ![t].chunk = @ + 1, ![t].until = 0]
        /\ Unregister(t, "OK")
        /\ used' = used
     \/ /\ Finish(t)   \* the call or the write failed
        /\ Unregister(t, "OTHER")
        /\ Release(t)
  /\ UNCHANGED <<now, gateVars, authVars, rateVars, breaker, arrived>>

-----------------------------------------------------------------------------
(* main after the shutdown signal: drain, stop the server, reset channels. *)
StartDrain ==
  /\ server = "running"
  /\ server' = "draining" /\ drainAt' = now
  /\ UNCHANGED <<load, now, inFlight, conns, authVars, rateVars, callVars, req, arrived>>

DrainEnds ==
  /\ server = "draining"
  /\ \/ inFlight = 0 /\ server' = "drained"
     \/ now >= drainAt + DrainTimeout /\ server' = "timedOut"
  /\ drainAt' = 0
  /\ UNCHANGED <<load, now, inFlight, conns, authVars, rateVars, callVars, req, arrived>>

StopServer ==
  /\ server \in {"drained", "timedOut"}
  /\ server' = "stopping"
  /\ UNCHANGED <<load, now, drainAt, inFlight, conns, authVars, rateVars, callVars, req, arrived>>

JoinWorkers ==
  /\ server = "stopping" /\ Running = {}
  /\ server' = "closed"
  /\ UNCHANGED <<load, now, drainAt, inFlight, conns, authVars, rateVars, callVars, req, arrived>>

-----------------------------------------------------------------------------
Step(t) ==
  \/ CountInFlight(t) \/ Recheck(t) \/ LimitResources(t)
  \/ Authenticate(t) \/ ValidateSession(t) \/ StoreInCache(t) \/ RateLimit(t)
  \/ Admit(t) \/ Dispatch(t) \/ CallReturns(t) \/ BackoffEnds(t)
  \/ Leave(t) \/ NextChunk(t) \/ ChunkReturns(t)

(* The process has returned from main: the only state without a next step. *)
Exited == server = "closed" /\ UNCHANGED vars

Main == StartDrain \/ DrainEnds \/ StopServer \/ JoinWorkers \/ Exited

Next ==
  \/ \E t \in Threads : Receive(t) \/ Step(t)
  \/ \E i \in RequestIds : CancelRequest(i)
  \/ Tick \/ RevokeSession \/ Main

Spec == Init /\ [][Next]_vars

-----------------------------------------------------------------------------
Pcs == PastGate \cup {"idle", "gate", "gated", "counted", "stream", "chunk"}

(* The types of the gateway's state. *)
TypeOK ==
  /\ now \in Nat /\ drainAt \in 0..now /\ arrived \in 0..load.requests
  /\ server \in {"running", "draining", "drained", "timedOut", "stopping", "closed"}
  /\ inFlight \in 0..Cardinality(Threads) /\ conns \in 0..Cardinality(Threads)
  /\ cache.ctx \in Contexts \cup {NoContext} /\ cache.until \in Nat
  /\ revokedAt \in {Never} \cup 0..now
  /\ buckets \in [Keys -> [tokens : 0..Burst, last : 0..now]]
  /\ Len(lru) <= MaxTracked /\ IsInjective(lru)
  /\ active \in [Categories \X RequestIds -> Threads \cup {NoCall}]
  /\ \A c \in Categories :
       /\ used[c] \in 0..Slots[c]
       /\ breaker[c].state \in {"Closed", "Open", "HalfOpen"}
       /\ breaker[c].probes \in 0..Probes /\ breaker[c].failures \in 0..Threshold
  /\ \A t \in Threads : req[t].pc \in Pcs

(* Whatever way a request leaves the pipeline, and in whatever order the    *)
(* threads do: the drain counter, the connection counter and the bulkheads  *)
(* count exactly the requests that are inside.  A slot counted twice or     *)
(* never given back would shrink the gateway for good.                      *)
CountersExact ==
  /\ conns = Cardinality({t \in Threads : req[t].pc \in Connected})
  /\ inFlight = Cardinality({t \in Running : /\ req[t].pc \in PastGate \cup {"counted"}
                                             /\ ~Health(t)})
  /\ \A c \in Categories :
       used[c] = Cardinality({t \in Running : req[t].leased /\ req[t].route.svc = c})

(* start_drain reported that everything is drained: no request that passed  *)
(* the gate is still in the pipeline, even one that looked at the flag      *)
(* before it was set and counted itself after the counter was read.         *)
DrainComplete ==
  server = "drained" =>
    \A t \in Running : req[t].pc \in PastGate => Health(t)

(* A command is sent to the service at most once, however the call fails    *)
(* and whatever time is left.                                               *)
NonIdempotentOnce ==
  \A t \in Running : req[t].route.idem = "NON_IDEMPOTENT" => req[t].sent <= 1

(* No attempt outlives the deadline of its request, and a backoff leaves    *)
(* room for one more attempt of the minimum length.                         *)
BudgetHonoured ==
  \A t \in Running :
    req[t].route.proxied /\ req[t].route.retried =>
      /\ At(t, "call") => req[t].until <= req[t].start + req[t].deadline
      /\ At(t, "backoff") =>
           req[t].until + MinDeadline <= req[t].start + req[t].deadline

(* A context in active_calls_ belongs to a call that is running: cancelling *)
(* through the map never touches a context that is gone, also when clients  *)
(* reuse a request id.                                                      *)
ActiveCallIsLive ==
  \A k \in DOMAIN active :
    active[k] # NoCall => /\ req[active[k]].pc \in {"call", "chunk"}
                        /\ CallKey(active[k]) = k

(* The rates a client can really get: a bucket idle for the client lifetime *)
(* is filled to the burst, whatever the refill rate, so no rate below either *)
(* the refill or one burst per lifetime bounds what is let through.          *)
EffectiveRates == {r \in Refill..(Refill + Burst) : r * ClientTtl >= Burst}

(* What the rate limiter lets through for one client is bounded by its     *)
(* burst and the effective rate since the start, while every client is      *)
(* tracked.                                                                 *)
RateBounded ==
  \A k \in Keys, r \in EffectiveRates : granted[k] <= Burst + r * now

(* The cache never admits a session that was revoked a cache lifetime ago,  *)
(* however long the call that filled it took.                               *)
NoStaleHit ==
  [][\A t \in Threads :
       At(t, "auth") /\ req'[t].pc = "rate" /\ req[t].route.access # "Public"
         => revokedAt = Never \/ now < revokedAt + CacheTtl]_vars

(* What the gateway counts is exact: requests, connections and bulkhead     *)
(* slots, the drain it reports, and what the rate limiter lets through.     *)
Accounted == TypeOK /\ CountersExact /\ DrainComplete /\ RateBounded

(* Retrying never repeats a command and never outlives the deadline the     *)
(* client was promised.                                                     *)
RetriesHonest == NonIdempotentOnce /\ BudgetHonoured
=============================================================================
