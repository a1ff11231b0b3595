---------------------------- MODULE GatewayProofs ----------------------------
(***************************************************************************)
(* Proofs about the gateway, for any number of worker threads, any         *)
(* workload and any configuration.                                         *)
(***************************************************************************)
EXTENDS Gateway, FiniteSetTheorems, TLAPS

(***************************************************************************)
(* The inductive invariant                                                 *)
(***************************************************************************)

Statuses == {None} \cup ClientAnswers

Request ==
  [pc : Pcs, route : Route \cup {None}, rid : RequestIds \cup {None},
   start : Nat, deadline : Nat, sent : Nat, until : Nat,
   ctx : Contexts \cup {NoContext}, status : Statuses, leased : BOOLEAN,
   chunk : Nat]

(* The requests are records of their type; a thread that runs one knows its *)
(* route and its identifier.                                               *)
Typed ==
  /\ load \in Workloads /\ now \in Nat
  /\ req \in [Threads -> Request]
  /\ \A t \in Threads :
       req[t].pc # "idle" => req[t].route \in Route /\ req[t].rid \in RequestIds
  /\ active \in [Categories \X RequestIds -> Threads \cup {NoCall}]
  /\ cache \in [ctx : Contexts \cup {NoContext}, until : Nat]

(* ActiveCallIsLive, and only guarded calls are registered. *)
LiveCalls ==
  \A k \in Categories \X RequestIds :
    active[k] # NoCall =>
      /\ req[active[k]].pc \in {"call", "chunk"}
      /\ CallKey(active[k]) = k
      /\ req[active[k]].route.guarded

(* What the cache holds, and what a call in progress will put there, was    *)
(* sampled before the session was revoked.                                 *)
CacheFresh ==
  /\ revokedAt \in {Never} \cup 0..now
  /\ cache.until <= now + CacheTtl
  /\ revokedAt # Never => cache.until <= revokedAt + CacheTtl
  /\ \A t \in Threads :
       /\ req[t].pc \in {"validating", "answered"} => req[t].start <= now
       /\ req[t].pc = "answered" /\ revokedAt # Never => req[t].start <= revokedAt

(* Where a request can hold a slot, and what passes the gate. *)
Leases ==
  \A t \in Threads :
    /\ req[t].leased =>
         req[t].pc \in {"dispatch", "call", "backoff", "leave", "stream", "chunk"}
    /\ req[t].pc \in {"gated", "counted"} => ~Health(t)

(* What was granted and what is left fit in the burst and the refill. *)
Rates ==
  /\ lru \in Seq(Keys) /\ Len(lru) <= MaxTracked
  /\ \A i, j \in 1..Len(lru) : lru[i] = lru[j] => i = j
  /\ buckets \in [Keys -> [tokens : 0..Burst, last : 0..now]]
  /\ granted \in [Keys -> Nat]

Earned ==
  \A r \in EffectiveRates, k \in Keys :
    IF Tracked(k) THEN granted[k] + buckets[k].tokens <= Burst + r * buckets[k].last
    ELSE granted[k] = 0
-----------------------------------------------------------------------------
(***************************************************************************)
(* Types                                                                   *)
(***************************************************************************)

(* An idle thread's record is a request. *)
LEMMA NoRequestType == NoRequest \in Request
  BY DEF NoRequest, Request, Pcs, PastGate, Connected, NoContext, Statuses

(* The program counters a request goes through. *)
LEMMA PcNames ==
  /\ {"idle", "gated", "counted", "limiter", "auth", "validating", "answered",
      "rate", "admit", "dispatch", "call", "backoff", "leave", "stream",
      "chunk"} \subseteq Pcs
  /\ \A p \in Pcs : p # "idle" =>
       p \in {"gate", "gated", "counted", "limiter", "auth", "validating",
              "answered", "rate", "admit", "dispatch", "call", "backoff",
              "leave", "stream", "chunk"}
  BY DEF Pcs, PastGate, Connected

(* The types hold when the gateway starts. *)
LEMMA TypedInit == Init => Typed
<1> SUFFICES ASSUME Init PROVE Typed OBVIOUS
<1>1. req \in [Threads -> Request] BY NoRequestType DEF Init
<1>2. \A t \in Threads : req[t].pc = "idle" BY DEF Init, NoRequest
<1>3. active \in [Categories \X RequestIds -> Threads \cup {NoCall}] BY DEF Init
<1>4. cache \in [ctx : Contexts \cup {NoContext}, until : Nat] BY DEF Init, NoCache
<1> QED BY <1>1, <1>2, <1>3, <1>4 DEF Typed, Init

(* The request of thread t and what the configuration says of it. *)
LEMMA RequestFacts ==
  ASSUME Typed, NEW t \in Threads
  PROVE  /\ req[t] \in Request
         /\ req[t].start \in Nat /\ req[t].deadline \in Nat
         /\ req[t].sent \in Nat /\ req[t].until \in Nat /\ req[t].chunk \in Nat
         /\ now \in Nat
         /\ req[t].pc # "idle" => /\ req[t].route \in Route
                                  /\ req[t].rid \in RequestIds
                                  /\ CallKey(t) \in Categories \X RequestIds
  BY DEF Typed, Request, CallKey, Route, Categories

(* Entering and leaving the map keeps its type. *)
LEMMA RegisterType ==
  ASSUME Typed, NEW t \in Threads, req[t].pc # "idle"
  PROVE  /\ Register(t) =>
              active' \in [Categories \X RequestIds -> Threads \cup {NoCall}]
         /\ \A s : Unregister(t, s) =>
              active' \in [Categories \X RequestIds -> Threads \cup {NoCall}]
<1>1. CallKey(t) \in Categories \X RequestIds BY RequestFacts
<1>2. active \in [Categories \X RequestIds -> Threads \cup {NoCall}] BY DEF Typed
<1> QED BY <1>1, <1>2 DEF Register, Unregister

(* Everything but the request of thread t stays. *)
Others(t) == \A u \in Threads : u # t => req'[u] = req[u]

(* The request of t keeps its route and its identifier ... *)
Carries(t) ==
  /\ req'[t].route = req[t].route /\ req'[t].rid = req[t].rid

(* ... and all that the call and the lease need. *)
Keeps(t) ==
  /\ Carries(t)
  /\ req'[t].deadline = req[t].deadline /\ req'[t].sent = req[t].sent
  /\ req'[t].status = req[t].status /\ req'[t].leased = req[t].leased
  /\ req'[t].chunk = req[t].chunk

(* A step that only moves the request of t on. *)
LEMMA GotoDoes ==
  ASSUME Typed, NEW t \in Threads, NEW p \in Pcs, Goto(t, p)
  PROVE  /\ req' \in [Threads -> Request] /\ Others(t)
         /\ req'[t].pc = p /\ Keeps(t)
         /\ req'[t].start = req[t].start /\ req'[t].until = req[t].until
         /\ req'[t].ctx = req[t].ctx
<1>1. req[t] \in Request /\ req \in [Threads -> Request] BY DEF Typed
<1>2. req' = [req EXCEPT ![t] = [req[t] EXCEPT !.pc = p]] BY DEF Goto
<1>3. [req[t] EXCEPT !.pc = p] \in Request BY <1>1 DEF Request
<1>4. req' \in [Threads -> Request] /\ Others(t)
      /\ req'[t] = [req[t] EXCEPT !.pc = p]
  BY <1>1, <1>2, <1>3 DEF Others
<1> QED BY <1>1, <1>4 DEF Request, Keeps, Carries

(* A step that ends the request of t. *)
LEMMA FinishDoes ==
  ASSUME Typed, NEW t \in Threads, Finish(t)
  PROVE  /\ req' \in [Threads -> Request] /\ Others(t)
         /\ req'[t] = NoRequest /\ req'[t].pc = "idle"
         /\ req'[t].leased = FALSE
  BY NoRequestType DEF Typed, Finish, Others, NoRequest

(* A step that sets fields of the request of t. *)
LEMMA UpdateDoes ==
  ASSUME Typed, NEW t \in Threads, NEW r \in Request,
         req' = [req EXCEPT ![t] = r]
  PROVE  req' \in [Threads -> Request] /\ Others(t) /\ req'[t] = r
  BY DEF Typed, Others

(* What each action does to the request of its thread.  The drain gate: *)
LEMMA CountInFlightDoes ==
  ASSUME Typed, NEW t \in Threads, CountInFlight(t)
  PROVE  /\ req' \in [Threads -> Request] /\ Others(t) /\ Keeps(t)
         /\ req[t].pc = "gated" /\ req'[t].pc = "counted"
         /\ active' = active /\ load' = load
  BY PcNames, GotoDoes DEF CountInFlight, At, callVars

(* the second look at the flag, *)
LEMMA RecheckDoes ==
  ASSUME Typed, NEW t \in Threads, Recheck(t)
  PROVE  /\ req' \in [Threads -> Request] /\ Others(t)
         /\ req[t].pc = "counted"
         /\ \/ /\ Draining /\ req'[t] = NoRequest /\ req'[t].pc = "idle"
               /\ req'[t].leased = FALSE
            \/ ~Draining /\ req'[t].pc = "limiter" /\ Keeps(t)
         /\ active' = active
  BY PcNames, GotoDoes, FinishDoes DEF Recheck, At, callVars

(* the resource limiter, *)
LEMMA LimitResourcesDoes ==
  ASSUME Typed, NEW t \in Threads, LimitResources(t)
  PROVE  /\ req' \in [Threads -> Request] /\ Others(t)
         /\ req[t].pc = "limiter"
         /\ \/ /\ req'[t] = NoRequest /\ req'[t].pc = "idle"
               /\ req'[t].leased = FALSE
               /\ inFlight' = (IF Health(t) THEN inFlight ELSE inFlight - 1)
               /\ conns' = conns
            \/ /\ req'[t].pc \in {"leave", "auth"} /\ Keeps(t)
               /\ inFlight' = inFlight /\ conns' = conns + 1
         /\ active' = active
  BY PcNames, GotoDoes, FinishDoes DEF LimitResources, At, callVars

(* the lookup in the token cache, *)
LEMMA AuthenticateDoes ==
  ASSUME Typed, NEW t \in Threads, Authenticate(t)
  PROVE  /\ req' \in [Threads -> Request] /\ Others(t) /\ Keeps(t)
         /\ req[t].pc = "auth" /\ req'[t].pc \in {"rate", "leave", "validating"}
         /\ active' = active
         /\ \/ /\ req[t].route.access = "Public" /\ req'[t].pc = "rate"
               /\ cache' = cache
            \/ req'[t].pc = "leave" /\ cache' = cache
            \/ req'[t].pc = "rate" /\ now < cache.until /\ cache' = cache
            \/ /\ req'[t].pc = "validating" /\ req'[t].start = now
               /\ cache' = NoCache
<1>0. /\ req[t] \in Request /\ req[t].pc = "auth" /\ active' = active
      /\ now \in Nat /\ RpcTimeout \in Nat
      /\ cache.ctx \in Contexts \cup {NoContext}
  BY GatewayAssumption DEF Authenticate, At, callVars, Typed
<1>1. CASE req[t].route.access = "Public" /\ Goto(t, "rate") /\ cache' = cache
  BY <1>0, <1>1, PcNames, GotoDoes
<1>2. CASE Goto(t, "leave") /\ cache' = cache BY <1>0, <1>2, PcNames, GotoDoes
<1>3. CASE /\ now < cache.until
           /\ req' = [req EXCEPT ![t].ctx = cache.ctx,
                        ![t].pc = EvaluateRule(req[t].route, cache.ctx)]
           /\ cache' = cache
  <2> DEFINE p == EvaluateRule(req[t].route, cache.ctx)
             r == [req[t] EXCEPT !.ctx = cache.ctx, !.pc = p]
  <2>1. p \in {"rate", "leave"} /\ p \in Pcs BY PcNames DEF EvaluateRule
  <2> HIDE DEF p
  <2>2. r \in Request /\ r.pc = p /\ r.route = req[t].route
        /\ r.rid = req[t].rid /\ r.deadline = req[t].deadline
        /\ r.sent = req[t].sent /\ r.status = req[t].status
        /\ r.leased = req[t].leased /\ r.chunk = req[t].chunk
    BY <1>0, <2>1 DEF Request
  <2>3. req' = [req EXCEPT ![t] = r] BY <1>3 DEF p
  <2> HIDE DEF r
  <2>4. req' \in [Threads -> Request] /\ Others(t) /\ req'[t] = r BY <2>2, <2>3, UpdateDoes
  <2> QED BY <1>0, <1>3, <2>1, <2>2, <2>4 DEF Keeps, Carries
<1>4. CASE /\ req' = [req EXCEPT ![t].pc = "validating", ![t].start = now,
                                    ![t].until = now + RpcTimeout]
           /\ cache' = NoCache
  <2> DEFINE end == now + RpcTimeout
  <2>r. req' = [req EXCEPT ![t] = [req[t] EXCEPT !.pc = "validating",
              !.start = now, !.until = end]]
    BY <1>4
  <2>t. "validating" \in Pcs /\ now \in Nat /\ end \in Nat BY <1>4, <1>0, PcNames
  <2> DEFINE r == [req[t] EXCEPT !.pc = "validating", !.start = now, !.until = end]
  <2> HIDE DEF end
  <2>f. /\ r \in Request /\ r.pc = "validating"
       /\ r.start = now /\ r.until = end
       /\ r.route = req[t].route /\ r.rid = req[t].rid
       /\ r.deadline = req[t].deadline /\ r.sent = req[t].sent
       /\ r.ctx = req[t].ctx /\ r.status = req[t].status
       /\ r.leased = req[t].leased /\ r.chunk = req[t].chunk
    BY <1>0, <2>t DEF Request
  <2> HIDE DEF r
  <2>u. req' \in [Threads -> Request] /\ Others(t) /\ req'[t] = r
    BY <2>r, <2>f, UpdateDoes DEF r
  <2> QED BY <1>0, <1>4, <2>f, <2>u DEF Keeps, Carries
<1> QED BY <1>1, <1>2, <1>3, <1>4 DEF Authenticate

(* the answer of the auth service, *)
LEMMA ValidateSessionDoes ==
  ASSUME Typed, NEW t \in Threads, ValidateSession(t)
  PROVE  /\ req' \in [Threads -> Request] /\ Others(t)
         /\ req[t].pc = "validating" /\ req'[t].pc \in {"leave", "answered"}
         /\ Keeps(t) /\ active' = active
         /\ req'[t].pc = "answered" =>
              req'[t].start = req[t].start /\ revokedAt = Never
<1>0. /\ req[t] \in Request /\ req[t].pc = "validating" /\ active' = active
      /\ load.sessions \subseteq Contexts
  BY GatewayAssumption DEF ValidateSession, At, callVars, Typed, Workload
<1>1. CASE req' = [req EXCEPT ![t].pc = "leave", ![t].until = 0, ![t].start = 0]
  <2>r. req' = [req EXCEPT ![t] = [req[t] EXCEPT !.pc = "leave", !.until = 0,
              !.start = 0]]
    BY <1>1
  <2>t. "leave" \in Pcs /\ 0 \in Nat /\ 0 \in Nat BY <1>1, PcNames
  <2> DEFINE r == [req[t] EXCEPT !.pc = "leave", !.until = 0, !.start = 0]
  <2>f. /\ r \in Request /\ r.pc = "leave"
       /\ r.until = 0 /\ r.start = 0
       /\ r.route = req[t].route /\ r.rid = req[t].rid
       /\ r.deadline = req[t].deadline /\ r.sent = req[t].sent
       /\ r.ctx = req[t].ctx /\ r.status = req[t].status
       /\ r.leased = req[t].leased /\ r.chunk = req[t].chunk
    BY <1>0, <2>t DEF Request
  <2> HIDE DEF r
  <2>u. req' \in [Threads -> Request] /\ Others(t) /\ req'[t] = r
    BY <2>r, <2>f, UpdateDoes DEF r
  <2> QED BY <1>0, <1>1, <2>f, <2>u DEF Keeps, Carries
<1>2. CASE revokedAt = Never /\ \E c \in load.sessions :
             req' = [req EXCEPT ![t].pc = "answered", ![t].ctx = c, ![t].until = 0]
  <2>0. /\ req[t] \in Request /\ req[t].pc = "validating" /\ active' = active
        /\ revokedAt = Never
    BY <1>0, <1>2
  <2>1. PICK c \in load.sessions :
           req' = [req EXCEPT ![t].pc = "answered", ![t].ctx = c, ![t].until = 0]
    BY <1>2
  <2>2. CASE req' = [req EXCEPT ![t].pc = "answered", ![t].ctx = c, ![t].until = 0]
    <3>r. req' = [req EXCEPT ![t] = [req[t] EXCEPT !.pc = "answered", !.ctx = c,
                !.until = 0]]
      BY <2>2
    <3>t. "answered" \in Pcs /\ c \in Contexts \cup {NoContext} /\ 0 \in Nat
      BY <2>2, <1>0, PcNames
    <3> DEFINE r == [req[t] EXCEPT !.pc = "answered", !.ctx = c, !.until = 0]
    <3>f. /\ r \in Request /\ r.pc = "answered"
         /\ r.ctx = c /\ r.until = 0
         /\ r.route = req[t].route /\ r.rid = req[t].rid
         /\ r.start = req[t].start /\ r.deadline = req[t].deadline
         /\ r.sent = req[t].sent /\ r.status = req[t].status
         /\ r.leased = req[t].leased /\ r.chunk = req[t].chunk
      BY <2>0, <3>t DEF Request
    <3> HIDE DEF r
    <3>u. req' \in [Threads -> Request] /\ Others(t) /\ req'[t] = r
      BY <3>r, <3>f, UpdateDoes DEF r
    <3> QED BY <2>0, <2>2, <3>f, <3>u DEF Keeps, Carries
  <2> QED BY <2>1, <2>2
<1> QED BY <1>1, <1>2 DEF ValidateSession

(* its way into the cache, *)
LEMMA StoreInCacheDoes ==
  ASSUME Typed, NEW t \in Threads, StoreInCache(t)
  PROVE  /\ req' \in [Threads -> Request] /\ Others(t)
         /\ req[t].pc = "answered" /\ req'[t].pc \in {"leave", "rate"}
         /\ Keeps(t) /\ active' = active
         /\ cache' = [ctx |-> req[t].ctx, until |-> req[t].start + CacheTtl]
<1>0. /\ req[t] \in Request /\ req[t].pc = "answered" /\ active' = active
      /\ cache' = [ctx |-> req[t].ctx, until |-> req[t].start + CacheTtl]
      /\ EvaluateRule(req[t].route, req[t].ctx) \in {"leave", "rate"}
  BY DEF StoreInCache, At, callVars, Typed, ValidUntil, EvaluateRule
<1>1. CASE req' = [req EXCEPT ![t].start = 0,
             ![t].pc = EvaluateRule(req[t].route, req[t].ctx)]
  <2> DEFINE p == EvaluateRule(req[t].route, req[t].ctx)
  <2>r. req' = [req EXCEPT ![t] = [req[t] EXCEPT !.start = 0, !.pc = p]] BY <1>1
  <2>t. 0 \in Nat /\ p \in Pcs BY <1>1, <1>0, PcNames
  <2> DEFINE r == [req[t] EXCEPT !.start = 0, !.pc = p]
  <2> HIDE DEF p
  <2>f. /\ r \in Request /\ r.start = 0
       /\ r.pc = p /\ r.route = req[t].route
       /\ r.rid = req[t].rid /\ r.deadline = req[t].deadline
       /\ r.sent = req[t].sent /\ r.until = req[t].until
       /\ r.ctx = req[t].ctx /\ r.status = req[t].status
       /\ r.leased = req[t].leased /\ r.chunk = req[t].chunk
    BY <1>0, <2>t DEF Request
  <2> HIDE DEF r
  <2>u. req' \in [Threads -> Request] /\ Others(t) /\ req'[t] = r
    BY <2>r, <2>f, UpdateDoes DEF r
  <2> QED BY <1>0, <1>1, <2>f, <2>u DEF Keeps, Carries, p
<1> QED BY <1>1 DEF StoreInCache

(* the token bucket and the authorization, *)
LEMMA RateLimitDoes ==
  ASSUME Typed, NEW t \in Threads, RateLimit(t)
  PROVE  /\ req' \in [Threads -> Request] /\ Others(t)
         /\ req[t].pc = "rate" /\ req'[t].pc \in {"leave", "admit"}
         /\ Keeps(t) /\ active' = active
<1>0. req[t] \in Request /\ req[t].pc = "rate" /\ active' = active /\ now \in Nat
  BY DEF RateLimit, At, callVars, Typed
<1>1. CASE Goto(t, "leave") BY <1>0, <1>1, PcNames, GotoDoes
<1>2. CASE req' = [req EXCEPT ![t].pc = "admit", ![t].start = now]
  <2>r. req' = [req EXCEPT ![t] = [req[t] EXCEPT !.pc = "admit", !.start = now]] BY <1>2
  <2>t. "admit" \in Pcs /\ now \in Nat BY <1>2, <1>0, PcNames
  <2> DEFINE r == [req[t] EXCEPT !.pc = "admit", !.start = now]
  <2>f. /\ r \in Request /\ r.pc = "admit"
       /\ r.start = now /\ r.route = req[t].route
       /\ r.rid = req[t].rid /\ r.deadline = req[t].deadline
       /\ r.sent = req[t].sent /\ r.until = req[t].until
       /\ r.ctx = req[t].ctx /\ r.status = req[t].status
       /\ r.leased = req[t].leased /\ r.chunk = req[t].chunk
    BY <1>0, <2>t DEF Request
  <2> HIDE DEF r
  <2>u. req' \in [Threads -> Request] /\ Others(t) /\ req'[t] = r
    BY <2>r, <2>f, UpdateDoes DEF r
  <2> QED BY <1>0, <1>2, <2>f, <2>u DEF Keeps, Carries
<1> QED BY <1>1, <1>2 DEF RateLimit, Authorize, DispatchRoute

(* the bulkhead, the breaker and the checks before the call, *)
LEMMA AdmitDoes ==
  ASSUME Typed, NEW t \in Threads, Admit(t)
  PROVE  /\ req' \in [Threads -> Request] /\ Others(t)
         /\ req[t].pc = "admit" /\ req'[t].pc \in {"leave", "dispatch"}
         /\ Carries(t) /\ req'[t].sent = req[t].sent /\ active' = active
         /\ \/ used' = used /\ req'[t].leased = req[t].leased
            \/ /\ used[req[t].route.svc] < Slots[req[t].route.svc]
               /\ used' = [used EXCEPT ![req[t].route.svc] = @ + 1]
               /\ req'[t].leased = TRUE
<1>0. req[t] \in Request /\ req[t].pc = "admit" /\ active' = active BY DEF Admit, At, Typed
<1>1. CASE used' = used /\ Goto(t, "leave")
  BY <1>0, <1>1, PcNames, GotoDoes DEF Keeps, Carries
<1>2. CASE /\ used[req[t].route.svc] < Slots[req[t].route.svc]
           /\ used' = [used EXCEPT ![req[t].route.svc] = @ + 1]
           /\ req' = [req EXCEPT ![t].pc = "leave", ![t].leased = TRUE]
  <2>r. req' = [req EXCEPT ![t] = [req[t] EXCEPT !.pc = "leave", !.leased = TRUE]] BY <1>2
  <2>t. "leave" \in Pcs /\ TRUE \in BOOLEAN BY <1>2, PcNames
  <2> DEFINE r == [req[t] EXCEPT !.pc = "leave", !.leased = TRUE]
  <2>f. /\ r \in Request /\ r.pc = "leave"
       /\ r.leased = TRUE /\ r.route = req[t].route
       /\ r.rid = req[t].rid /\ r.start = req[t].start
       /\ r.deadline = req[t].deadline /\ r.sent = req[t].sent
       /\ r.until = req[t].until /\ r.ctx = req[t].ctx
       /\ r.status = req[t].status /\ r.chunk = req[t].chunk
    BY <1>0, <2>t DEF Request
  <2> HIDE DEF r
  <2>u. req' \in [Threads -> Request] /\ Others(t) /\ req'[t] = r
    BY <2>r, <2>f, UpdateDoes DEF r
  <2> QED BY <1>0, <1>2, <2>f, <2>u DEF Keeps, Carries
<1>3. CASE /\ used[req[t].route.svc] < Slots[req[t].route.svc]
           /\ used' = [used EXCEPT ![req[t].route.svc] = @ + 1]
           /\ \E client \in load.timeouts :
                req' = [req EXCEPT ![t].pc = "dispatch", ![t].leased = TRUE,
                   ![t].deadline = EffectiveDeadline(req[t].route.svc, client)]
  <2>1. PICK client \in load.timeouts :
           req' = [req EXCEPT ![t].pc = "dispatch", ![t].leased = TRUE,
                   ![t].deadline = EffectiveDeadline(req[t].route.svc, client)]
    BY <1>3
  <2>2. EffectiveDeadline(req[t].route.svc, client) \in Nat
    <3>1. client \in Nat BY GatewayAssumption DEF Typed, Workload
    <3>2. req[t].route.svc \in Categories BY <1>0, RequestFacts DEF Route, Categories
    <3> QED BY <3>1, <3>2, GatewayAssumption DEF EffectiveDeadline
  <2>0. /\ req[t] \in Request /\ req[t].pc = "admit" /\ active' = active
        /\ used[req[t].route.svc] < Slots[req[t].route.svc]
        /\ used' = [used EXCEPT ![req[t].route.svc] = @ + 1]
    BY <1>0, <1>3
  <2>3. CASE req' = [req EXCEPT ![t].pc = "dispatch", ![t].leased = TRUE,
                   ![t].deadline = EffectiveDeadline(req[t].route.svc, client)]
    <3> DEFINE d == EffectiveDeadline(req[t].route.svc, client)
    <3>r. req' = [req EXCEPT ![t] = [req[t] EXCEPT !.pc = "dispatch",
                !.leased = TRUE, !.deadline = d]]
      BY <2>3
    <3>t. "dispatch" \in Pcs /\ TRUE \in BOOLEAN /\ d \in Nat BY <2>3, <2>2, PcNames
    <3> DEFINE r == [req[t] EXCEPT !.pc = "dispatch", !.leased = TRUE, !.deadline = d]
    <3> HIDE DEF d
    <3>f. /\ r \in Request /\ r.pc = "dispatch"
         /\ r.leased = TRUE /\ r.deadline = d
         /\ r.route = req[t].route /\ r.rid = req[t].rid
         /\ r.start = req[t].start /\ r.sent = req[t].sent
         /\ r.until = req[t].until /\ r.ctx = req[t].ctx
         /\ r.status = req[t].status /\ r.chunk = req[t].chunk
      BY <2>0, <3>t DEF Request
    <3> HIDE DEF r
    <3>u. req' \in [Threads -> Request] /\ Others(t) /\ req'[t] = r
      BY <3>r, <3>f, UpdateDoes DEF r
    <3> QED BY <2>0, <2>3, <3>f, <3>u DEF Keeps, Carries
  <2> QED BY <2>1, <2>3
<1> QED BY <1>1, <1>2, <1>3 DEF Admit, TryAcquireSlot, Prepare

(* one attempt, *)
LEMMA DispatchDoes ==
  ASSUME Typed, NEW t \in Threads, Dispatch(t)
  PROVE  /\ req' \in [Threads -> Request] /\ Others(t)
         /\ req[t].pc = "dispatch" /\ Carries(t)
         /\ req'[t].leased = req[t].leased /\ req'[t].start = req[t].start
         /\ req'[t].deadline = req[t].deadline
         /\ \/ /\ req'[t].pc = "leave" /\ active' = active
               /\ req'[t].sent = req[t].sent
            \/ /\ req'[t].pc = "call" /\ Register(t)
               /\ req'[t].sent = req[t].sent + 1
               /\ req[t].route.retried =>
                    req'[t].until <= req[t].start + req[t].deadline
<1> DEFINE budget == IF req[t].route.retried THEN DownstreamBudget(t)
                     ELSE req[t].deadline
<1>0. /\ req[t] \in Request /\ req[t].pc = "dispatch" /\ now \in Nat
      /\ req[t].start \in Nat /\ req[t].deadline \in Nat /\ req[t].sent \in Nat
  BY RequestFacts DEF Dispatch, At
<1>b. /\ budget \in Int
      /\ req[t].route.retried => budget <= req[t].deadline - (now - req[t].start)
  <2>1. req[t].route.svc \in Categories BY <1>0, RequestFacts DEF Route, Categories
  <2>2. Timeout[req[t].route.svc] \in Nat BY <2>1, GatewayAssumption
  <2> QED BY <1>0, <2>2 DEF DownstreamBudget, Elapsed
<1>1. CASE req' = [req EXCEPT ![t].pc = "leave", ![t].status = "DEADLINE_EXCEEDED"]
           /\ active' = active
  <2>r. req' = [req EXCEPT ![t] = [req[t] EXCEPT !.pc = "leave",
              !.status = "DEADLINE_EXCEEDED"]]
    BY <1>1
  <2>t. "leave" \in Pcs /\ "DEADLINE_EXCEEDED" \in Statuses
    BY <1>1, PcNames DEF Statuses, ClientAnswers, DependencyErrors
  <2> DEFINE r == [req[t] EXCEPT !.pc = "leave", !.status = "DEADLINE_EXCEEDED"]
  <2>f. /\ r \in Request /\ r.pc = "leave"
       /\ r.status = "DEADLINE_EXCEEDED" /\ r.route = req[t].route
       /\ r.rid = req[t].rid /\ r.start = req[t].start
       /\ r.deadline = req[t].deadline /\ r.sent = req[t].sent
       /\ r.until = req[t].until /\ r.ctx = req[t].ctx
       /\ r.leased = req[t].leased /\ r.chunk = req[t].chunk
    BY <1>0, <2>t DEF Request
  <2> HIDE DEF r
  <2>u. req' \in [Threads -> Request] /\ Others(t) /\ req'[t] = r
    BY <2>r, <2>f, UpdateDoes DEF r
  <2> QED BY <1>0, <1>1, <2>f, <2>u DEF Keeps, Carries
<1>2. CASE /\ budget > 0 /\ Register(t)
           /\ req' = [req EXCEPT ![t].pc = "call", ![t].until = now + budget,
                                 ![t].sent = @ + 1]
  <2> DEFINE end == now + budget
             n == req[t].sent + 1
  <2>r. req' = [req EXCEPT ![t] = [req[t] EXCEPT !.pc = "call", !.until = end,
              !.sent = n]]
    BY <1>2
  <2>t. "call" \in Pcs /\ end \in Nat /\ n \in Nat BY <1>2, <1>0, <1>b, PcNames
  <2> DEFINE r == [req[t] EXCEPT !.pc = "call", !.until = end, !.sent = n]
  <2> HIDE DEF end, n
  <2>f. /\ r \in Request /\ r.pc = "call"
       /\ r.until = end /\ r.sent = n
       /\ r.route = req[t].route /\ r.rid = req[t].rid
       /\ r.start = req[t].start /\ r.deadline = req[t].deadline
       /\ r.ctx = req[t].ctx /\ r.status = req[t].status
       /\ r.leased = req[t].leased /\ r.chunk = req[t].chunk
    BY <1>0, <2>t DEF Request
  <2> HIDE DEF r
  <2>u. req' \in [Threads -> Request] /\ Others(t) /\ req'[t] = r
    BY <2>r, <2>f, UpdateDoes DEF r
  <2> QED BY <1>0, <1>2, <2>f, <2>u, <1>b DEF Keeps, Carries, end, n
<1> QED BY <1>b, <1>1, <1>2 DEF Dispatch, InitializeContext

(* its answer, *)
LEMMA CallReturnsDoes ==
  ASSUME Typed, NEW t \in Threads, CallReturns(t)
  PROVE  /\ req' \in [Threads -> Request] /\ Others(t)
         /\ req[t].pc = "call" /\ Carries(t) /\ req'[t].sent = req[t].sent
         /\ req'[t].leased = req[t].leased
         /\ \E s \in ClientAnswers : Unregister(t, s)
         /\ \/ req'[t].pc = "leave"
            \/ /\ req'[t].pc = "backoff"
               /\ req[t].route.idem # "NON_IDEMPOTENT"
               /\ req'[t].until + MinDeadline <= req'[t].start + req'[t].deadline
<1>1. PICK s \in ClientAnswers, d \in 1..Backoff :
         /\ Unregister(t, s)
         /\ req' = IF ShouldRetry(t, s) /\ FitsDeadline(t, d)
                   THEN [req EXCEPT ![t].pc = "backoff", ![t].until = now + d]
                   ELSE [req EXCEPT ![t].pc = "leave", ![t].status = s,
                                     ![t].until = 0, ![t].start = 0]
  BY DEF CallReturns
<1>0. /\ req[t] \in Request /\ req[t].pc = "call" /\ now \in Nat
      /\ req[t].start \in Nat /\ req[t].deadline \in Nat
      /\ d \in Nat /\ MinDeadline \in Nat
      /\ \E a \in ClientAnswers : Unregister(t, a)
  BY <1>1, RequestFacts, GatewayAssumption DEF CallReturns, At
<1>2. CASE /\ ShouldRetry(t, s) /\ FitsDeadline(t, d)
           /\ req' = [req EXCEPT ![t].pc = "backoff", ![t].until = now + d]
  <2> DEFINE end == now + d
  <2>r. req' = [req EXCEPT ![t] = [req[t] EXCEPT !.pc = "backoff", !.until = end]] BY <1>2
  <2>t. "backoff" \in Pcs /\ end \in Nat BY <1>2, <1>0, PcNames
  <2> DEFINE r == [req[t] EXCEPT !.pc = "backoff", !.until = end]
  <2> HIDE DEF end
  <2>f. /\ r \in Request /\ r.pc = "backoff"
       /\ r.until = end /\ r.route = req[t].route
       /\ r.rid = req[t].rid /\ r.start = req[t].start
       /\ r.deadline = req[t].deadline /\ r.sent = req[t].sent
       /\ r.ctx = req[t].ctx /\ r.status = req[t].status
       /\ r.leased = req[t].leased /\ r.chunk = req[t].chunk
    BY <1>0, <2>t DEF Request
  <2> HIDE DEF r
  <2>u. req' \in [Threads -> Request] /\ Others(t) /\ req'[t] = r
    BY <2>r, <2>f, UpdateDoes DEF r
  <2> QED BY <1>0, <1>2, <2>f, <2>u DEF Keeps, Carries, ShouldRetry, FitsDeadline,
              Elapsed, end
<1>3. CASE req' = [req EXCEPT ![t].pc = "leave", ![t].status = s,
                                     ![t].until = 0, ![t].start = 0]
  <2>r. req' = [req EXCEPT ![t] = [req[t] EXCEPT !.pc = "leave", !.status = s,
              !.until = 0, !.start = 0]]
    BY <1>3
  <2>t. "leave" \in Pcs /\ s \in Statuses /\ 0 \in Nat /\ 0 \in Nat
    BY <1>3, PcNames DEF Statuses
  <2> DEFINE r == [req[t] EXCEPT !.pc = "leave", !.status = s, !.until = 0,
              !.start = 0]
  <2>f. /\ r \in Request /\ r.pc = "leave"
       /\ r.status = s /\ r.until = 0
       /\ r.start = 0 /\ r.route = req[t].route
       /\ r.rid = req[t].rid /\ r.deadline = req[t].deadline
       /\ r.sent = req[t].sent /\ r.ctx = req[t].ctx
       /\ r.leased = req[t].leased /\ r.chunk = req[t].chunk
    BY <1>0, <2>t DEF Request
  <2> HIDE DEF r
  <2>u. req' \in [Threads -> Request] /\ Others(t) /\ req'[t] = r
    BY <2>r, <2>f, UpdateDoes DEF r
  <2> QED BY <1>0, <1>3, <2>f, <2>u DEF Keeps, Carries
<1> QED BY <1>1, <1>2, <1>3

(* the end of a backoff, *)
LEMMA BackoffEndsDoes ==
  ASSUME Typed, NEW t \in Threads, BackoffEnds(t)
  PROVE  /\ req' \in [Threads -> Request] /\ Others(t)
         /\ req[t].pc = "backoff" /\ req'[t].pc = "dispatch" /\ Keeps(t)
         /\ active' = active
<1>0. req[t] \in Request /\ req[t].pc = "backoff" /\ active' = active
  BY DEF BackoffEnds, At, Typed, callVars
<1>1. CASE req' = [req EXCEPT ![t].pc = "dispatch", ![t].until = 0]
  <2>r. req' = [req EXCEPT ![t] = [req[t] EXCEPT !.pc = "dispatch", !.until = 0]] BY <1>1
  <2>t. "dispatch" \in Pcs /\ 0 \in Nat BY <1>1, PcNames
  <2> DEFINE r == [req[t] EXCEPT !.pc = "dispatch", !.until = 0]
  <2>f. /\ r \in Request /\ r.pc = "dispatch"
       /\ r.until = 0 /\ r.route = req[t].route
       /\ r.rid = req[t].rid /\ r.start = req[t].start
       /\ r.deadline = req[t].deadline /\ r.sent = req[t].sent
       /\ r.ctx = req[t].ctx /\ r.status = req[t].status
       /\ r.leased = req[t].leased /\ r.chunk = req[t].chunk
    BY <1>0, <2>t DEF Request
  <2> HIDE DEF r
  <2>u. req' \in [Threads -> Request] /\ Others(t) /\ req'[t] = r
    BY <2>r, <2>f, UpdateDoes DEF r
  <2> QED BY <1>0, <1>1, <2>f, <2>u DEF Keeps, Carries
<1> QED BY <1>1 DEF BackoffEnds

(* the way out of the pipeline, *)
LEMMA LeaveDoes ==
  ASSUME Typed, NEW t \in Threads, Leave(t)
  PROVE  /\ req' \in [Threads -> Request] /\ Others(t)
         /\ req[t].pc = "leave" /\ active' = active
         /\ \/ /\ ~Streams(t) /\ Release(t)
               /\ req'[t] = NoRequest /\ req'[t].pc = "idle"
               /\ req'[t].leased = FALSE
            \/ /\ Streams(t) /\ used' = used
               /\ req'[t].pc = "stream" /\ Keeps(t)
  BY PcNames, GotoDoes, FinishDoes DEF Leave, At, ReleaseLease

(* the next chunk of a stream, *)
LEMMA NextChunkDoes ==
  ASSUME Typed, NEW t \in Threads, NextChunk(t)
  PROVE  /\ req' \in [Threads -> Request] /\ Others(t)
         /\ req[t].pc = "stream"
         /\ \/ /\ Release(t) /\ active' = active
               /\ req'[t] = NoRequest /\ req'[t].pc = "idle"
               /\ req'[t].leased = FALSE
            \/ /\ Register(t) /\ used' = used
               /\ req'[t].pc = "chunk" /\ Keeps(t)
<1>0. /\ req[t] \in Request /\ req[t].pc = "stream" /\ now \in Nat
      /\ req[t].deadline \in Nat
  BY RequestFacts DEF NextChunk, At
<1>1. CASE Finish(t) /\ Release(t) /\ active' = active BY <1>0, <1>1, FinishDoes
<1>2. CASE /\ Register(t) /\ used' = used
           /\ req' = [req EXCEPT ![t].pc = "chunk",
                       ![t].until = now + req[t].deadline]
  <2> DEFINE end == now + req[t].deadline
  <2>r. req' = [req EXCEPT ![t] = [req[t] EXCEPT !.pc = "chunk", !.until = end]] BY <1>2
  <2>t. "chunk" \in Pcs /\ end \in Nat BY <1>2, <1>0, PcNames
  <2> DEFINE r == [req[t] EXCEPT !.pc = "chunk", !.until = end]
  <2> HIDE DEF end
  <2>f. /\ r \in Request /\ r.pc = "chunk"
       /\ r.until = end /\ r.route = req[t].route
       /\ r.rid = req[t].rid /\ r.start = req[t].start
       /\ r.deadline = req[t].deadline /\ r.sent = req[t].sent
       /\ r.ctx = req[t].ctx /\ r.status = req[t].status
       /\ r.leased = req[t].leased /\ r.chunk = req[t].chunk
    BY <1>0, <2>t DEF Request
  <2> HIDE DEF r
  <2>u. req' \in [Threads -> Request] /\ Others(t) /\ req'[t] = r
    BY <2>r, <2>f, UpdateDoes DEF r
  <2> QED BY <1>0, <1>2, <2>f, <2>u DEF Keeps, Carries
<1> QED BY <1>1, <1>2 DEF NextChunk

(* and its answer. *)
LEMMA ChunkReturnsDoes ==
  ASSUME Typed, NEW t \in Threads, ChunkReturns(t)
  PROVE  /\ req' \in [Threads -> Request] /\ Others(t)
         /\ req[t].pc = "chunk"
         /\ \E s \in {"OK", "OTHER"} : Unregister(t, s)
         /\ \/ /\ Release(t)
               /\ req'[t] = NoRequest /\ req'[t].pc = "idle"
               /\ req'[t].leased = FALSE
            \/ used' = used /\ req'[t].pc = "stream" /\ Carries(t)
               /\ req'[t].sent = req[t].sent /\ req'[t].leased = req[t].leased
<1>0. /\ req[t] \in Request /\ req[t].pc = "chunk" /\ req[t].chunk \in Nat
      /\ \E s \in {"OK", "OTHER"} : Unregister(t, s)
  BY RequestFacts DEF ChunkReturns, At
<1>1. CASE Finish(t) /\ Release(t) BY <1>0, <1>1, FinishDoes
<1>2. CASE /\ used' = used
           /\ req' = [req EXCEPT ![t].pc = "stream", ![t].chunk = @ + 1,
                       ![t].until = 0]
  <2> DEFINE n == req[t].chunk + 1
  <2>r. req' = [req EXCEPT ![t] = [req[t] EXCEPT !.pc = "stream", !.chunk = n,
              !.until = 0]]
    BY <1>2
  <2>t. "stream" \in Pcs /\ n \in Nat /\ 0 \in Nat BY <1>2, <1>0, PcNames
  <2> DEFINE r == [req[t] EXCEPT !.pc = "stream", !.chunk = n, !.until = 0]
  <2> HIDE DEF n
  <2>f. /\ r \in Request /\ r.pc = "stream"
       /\ r.chunk = n /\ r.until = 0
       /\ r.route = req[t].route /\ r.rid = req[t].rid
       /\ r.start = req[t].start /\ r.deadline = req[t].deadline
       /\ r.sent = req[t].sent /\ r.ctx = req[t].ctx
       /\ r.status = req[t].status /\ r.leased = req[t].leased
    BY <1>0, <2>t DEF Request
  <2> HIDE DEF r
  <2>u. req' \in [Threads -> Request] /\ Others(t) /\ req'[t] = r
    BY <2>r, <2>f, UpdateDoes DEF r
  <2> QED BY <1>0, <1>2, <2>f, <2>u DEF Keeps, Carries
<1> QED BY <1>1, <1>2 DEF ChunkReturns

(* A request arrives on an idle thread. *)
LEMMA ReceiveDoes ==
  ASSUME Typed, NEW t \in Threads, Receive(t)
  PROVE  /\ req' \in [Threads -> Request] /\ Others(t)
         /\ req[t].pc = "idle" /\ active' = active
         /\ \/ req'[t] = NoRequest /\ req'[t].pc = "idle"
            \/ /\ req'[t].pc \in {"gated", "limiter"}
               /\ req'[t].route \in Route /\ req'[t].rid \in RequestIds
               /\ req'[t].pc = "limiter" <=> req'[t].route.svc = "emergency"
               /\ req'[t].pc = "gated" => ~Draining
               /\ req'[t].sent = 0
         /\ req'[t].leased = FALSE
<1>0. req[t].pc = "idle" /\ active' = active /\ load.routes \subseteq Route
  BY GatewayAssumption DEF Receive, At, callVars, Typed, Workload
<1>1. PICK r \in load.routes, i \in RequestIds :
         LET health == r.svc = "emergency"
             entry == CASE health -> "limiter"
                        [] ~health /\ Draining -> "idle"
                        [] OTHER -> "gated"
         IN req' = [req EXCEPT ![t] =
              IF entry = "idle" THEN NoRequest
              ELSE [NoRequest EXCEPT !.pc = entry, !.route = r, !.rid = i]]
  BY DEF Receive
<1>2. CASE r.svc # "emergency" /\ Draining
  <2>1. Finish(t) BY <1>1, <1>2 DEF Finish
  <2> QED BY <1>0, <2>1, FinishDoes
<1>3. CASE r.svc = "emergency" \/ ~Draining
  <2> DEFINE entry == IF r.svc = "emergency" THEN "limiter" ELSE "gated"
             q == [NoRequest EXCEPT !.pc = entry, !.route = r, !.rid = i]
  <2>1. req' = [req EXCEPT ![t] = q]
    <3>1. CASE r.svc = "emergency" BY <1>1, <3>1
    <3>2. CASE r.svc # "emergency" BY <1>1, <1>3, <3>2
    <3> QED BY <3>1, <3>2
  <2>2. /\ q \in Request /\ q.pc = entry /\ q.route = r /\ q.rid = i
        /\ q.sent = 0 /\ q.leased = FALSE
    BY <1>0, NoRequestType, PcNames DEF NoRequest, Request
  <2> HIDE DEF q
  <2>3. req' \in [Threads -> Request] /\ Others(t) /\ req'[t] = q BY <2>1, <2>2, UpdateDoes
  <2> QED BY <1>0, <1>3, <2>2, <2>3
<1> QED BY <1>2, <1>3

(* A cancellation only shortens a call in progress. *)
LEMMA CancelRequestDoes ==
  ASSUME Typed, NEW i \in RequestIds, CancelRequest(i)
  PROVE  \E t \in Threads :
           /\ req' \in [Threads -> Request] /\ Others(t) /\ Keeps(t)
           /\ req'[t].pc = req[t].pc /\ req'[t].start = req[t].start
           /\ req[t].until > now /\ req'[t].until = now
           /\ \E k \in Categories \X RequestIds : active[k] = t
           /\ active' = active
<1>1. PICK c \in {"auth", "files"} :
         /\ active[<<c, i>>] # NoCall
         /\ req[active[<<c, i>>]].until > now
         /\ CancelContext(active[<<c, i>>])
  BY DEF CancelRequest
<1> DEFINE t == active[<<c, i>>]
<1>2. <<c, i>> \in Categories \X RequestIds BY DEF Categories
<1>3. t \in Threads BY <1>1, <1>2 DEF Typed
<1>4. \E k \in Categories \X RequestIds : active[k] = t BY <1>2
<1> HIDE DEF t
<1>0. /\ req[t] \in Request /\ now \in Nat /\ active' = active
      /\ req[t].until > now
  BY <1>1, <1>3, RequestFacts DEF CancelRequest, callVars, t
<1>5. CASE req' = [req EXCEPT ![t].until = now]
  <2>r. req' = [req EXCEPT ![t] = [req[t] EXCEPT !.until = now]] BY <1>5
  <2>t. now \in Nat BY <1>5, <1>0
  <2> DEFINE r == [req[t] EXCEPT !.until = now]
  <2>f. /\ r \in Request /\ r.until = now
       /\ r.pc = req[t].pc /\ r.route = req[t].route
       /\ r.rid = req[t].rid /\ r.start = req[t].start
       /\ r.deadline = req[t].deadline /\ r.sent = req[t].sent
       /\ r.ctx = req[t].ctx /\ r.status = req[t].status
       /\ r.leased = req[t].leased /\ r.chunk = req[t].chunk
    BY <1>0, <2>t DEF Request
  <2> HIDE DEF r
  <2>u. req' \in [Threads -> Request] /\ Others(t) /\ req'[t] = r
    BY <2>r, <2>f, <1>3, UpdateDoes DEF r
  <2> QED BY <1>0, <1>3, <1>5, <2>f, <2>u, <1>3, <1>4 DEF Keeps, Carries
<1> QED BY <1>1, <1>5 DEF CancelContext, t

(* The types after a step of thread t. *)
LEMMA TypedAfter ==
  ASSUME Typed, NEW t \in Threads, Others(t), load' = load, now' \in Nat,
         req' \in [Threads -> Request],
         active' \in [Categories \X RequestIds -> Threads \cup {NoCall}],
         cache' \in [ctx : Contexts \cup {NoContext}, until : Nat],
         req'[t].pc # "idle" => req'[t].route \in Route /\ req'[t].rid \in RequestIds
  PROVE  Typed'
  BY DEF Typed, Others

(* Every step of a thread keeps the types ... *)
LEMMA TypedStep ==
  ASSUME Typed, NEW t \in Threads, Step(t)
  PROVE  Typed'
<1>0. /\ active \in [Categories \X RequestIds -> Threads \cup {NoCall}]
      /\ cache \in [ctx : Contexts \cup {NoContext}, until : Nat] /\ now \in Nat
      /\ req[t].pc # "idle" => req[t].route \in Route /\ req[t].rid \in RequestIds
  BY DEF Typed
<1>1. CASE CountInFlight(t)
  BY <1>0, <1>1, CountInFlightDoes, TypedAfter
  DEF CountInFlight, Keeps, Carries, gateVars, authVars
<1>2. CASE Recheck(t)
  BY <1>0, <1>2, RecheckDoes, TypedAfter
  DEF Recheck, Keeps, Carries, gateVars, authVars
<1>3. CASE LimitResources(t)
  BY <1>0, <1>3, LimitResourcesDoes, TypedAfter
  DEF LimitResources, Keeps, Carries, gateVars, authVars
<1>4. CASE Authenticate(t)
  <2>1. cache' \in [ctx : Contexts \cup {NoContext}, until : Nat]
    BY <1>0, <1>4, AuthenticateDoes, RequestFacts, GatewayAssumption DEF NoCache,
       Request
  <2> QED BY <1>0, <1>4, <2>1, AuthenticateDoes, TypedAfter
           DEF Authenticate, Keeps, Carries, gateVars
<1>5. CASE ValidateSession(t)
  BY <1>0, <1>5, ValidateSessionDoes, TypedAfter
  DEF ValidateSession, Keeps, Carries, gateVars, authVars
<1>6. CASE StoreInCache(t)
  <2>1. cache' \in [ctx : Contexts \cup {NoContext}, until : Nat]
    BY <1>0, <1>6, StoreInCacheDoes, RequestFacts, GatewayAssumption DEF NoCache,
       Request
  <2>2. load' = load /\ now' \in Nat BY <1>0, <1>6 DEF StoreInCache, gateVars
  <2>3. req'[t].route \in Route /\ req'[t].rid \in RequestIds
    BY <1>0, <1>6, StoreInCacheDoes DEF Keeps, Carries
  <2> QED BY <1>0, <1>6, <2>1, <2>2, <2>3, StoreInCacheDoes, TypedAfter
<1>7. CASE RateLimit(t)
  BY <1>0, <1>7, RateLimitDoes, TypedAfter
  DEF RateLimit, Keeps, Carries, gateVars, authVars
<1>8. CASE Admit(t)
  BY <1>0, <1>8, AdmitDoes, TypedAfter
  DEF Admit, Keeps, Carries, gateVars, authVars
<1>9. CASE Dispatch(t)
  <2>1. active' \in [Categories \X RequestIds -> Threads \cup {NoCall}]
    BY <1>0, <1>9, DispatchDoes, RegisterType
  <2> QED BY <1>0, <1>9, <2>1, DispatchDoes, TypedAfter
           DEF Dispatch, Keeps, Carries, gateVars, authVars
<1>10. CASE CallReturns(t)
  <2>1. active' \in [Categories \X RequestIds -> Threads \cup {NoCall}]
    BY <1>0, <1>10, CallReturnsDoes, RegisterType
  <2> QED BY <1>0, <1>10, <2>1, CallReturnsDoes, TypedAfter
           DEF CallReturns, Keeps, Carries, gateVars, authVars
<1>11. CASE BackoffEnds(t)
  <2>1. load' = load /\ now' \in Nat /\ cache' = cache
    BY <1>0, <1>11 DEF BackoffEnds, gateVars, authVars
  <2>2. req'[t].route \in Route /\ req'[t].rid \in RequestIds
    BY <1>0, <1>11, BackoffEndsDoes DEF Keeps, Carries
  <2> QED BY <1>0, <1>11, <2>1, <2>2, BackoffEndsDoes, TypedAfter
<1>12. CASE Leave(t)
  BY <1>0, <1>12, LeaveDoes, TypedAfter
  DEF Leave, Keeps, Carries, gateVars, authVars
<1>13. CASE NextChunk(t)
  <2>1. active' \in [Categories \X RequestIds -> Threads \cup {NoCall}]
    BY <1>0, <1>13, NextChunkDoes, RegisterType
  <2> QED BY <1>0, <1>13, <2>1, NextChunkDoes, TypedAfter
           DEF NextChunk, Keeps, Carries, gateVars, authVars
<1>14. CASE ChunkReturns(t)
  <2>1. active' \in [Categories \X RequestIds -> Threads \cup {NoCall}]
    BY <1>0, <1>14, ChunkReturnsDoes, RegisterType
  <2> QED BY <1>0, <1>14, <2>1, ChunkReturnsDoes, TypedAfter
           DEF ChunkReturns, Keeps, Carries, gateVars, authVars
<1> QED BY <1>1, <1>2, <1>3, <1>4, <1>5, <1>6, <1>7, <1>8, <1>9, <1>10, <1>11,
            <1>12, <1>13, <1>14 DEF Step

(* ... and so does every step of the gateway. *)
LEMMA TypedNext == Typed /\ [Next]_vars => Typed'
<1> SUFFICES ASSUME Typed, [Next]_vars PROVE Typed' OBVIOUS
<1>0. /\ active \in [Categories \X RequestIds -> Threads \cup {NoCall}]
      /\ cache \in [ctx : Contexts \cup {NoContext}, until : Nat] /\ now \in Nat
  BY DEF Typed
<1>1. ASSUME NEW t \in Threads, Receive(t) PROVE Typed'
  BY <1>0, <1>1, ReceiveDoes, TypedAfter DEF Receive, gateVars, authVars
<1>2. ASSUME NEW t \in Threads, Step(t) PROVE Typed' BY <1>2, TypedStep
<1>3. ASSUME NEW i \in RequestIds, CancelRequest(i) PROVE Typed'
  <2>1. PICK t \in Threads :
          /\ req' \in [Threads -> Request] /\ Others(t) /\ Keeps(t)
          /\ req'[t].pc = req[t].pc /\ active' = active
    BY <1>3, CancelRequestDoes
  <2>2. req[t].pc # "idle" => req[t].route \in Route /\ req[t].rid \in RequestIds
    BY DEF Typed
  <2> QED BY <1>0, <1>3, <2>1, <2>2, TypedAfter
           DEF CancelRequest, Keeps, Carries, gateVars, authVars
<1>4. CASE Tick \/ RevokeSession \/ Main
  <2>1. /\ load' = load /\ req' = req /\ active' = active /\ cache' = cache
        /\ now' \in Nat
    BY <1>0, <1>4
    DEF Tick, RevokeSession, Main, StartDrain, DrainEnds, StopServer,
        JoinWorkers, Exited, gateVars, authVars, callVars, vars
  <2> QED BY <2>1 DEF Typed
<1>5. CASE UNCHANGED vars BY <1>5 DEF vars, Typed
<1> QED BY <1>1, <1>2, <1>3, <1>4, <1>5 DEF Next
-----------------------------------------------------------------------------
(***************************************************************************)
(* Cancellation                                                            *)
(***************************************************************************)

(* A thread without a call in progress is not in the map. *)
LEMMA LiveKept ==
  ASSUME Typed, LiveCalls, NEW t \in Threads, Others(t),
         req[t].pc \notin {"call", "chunk"}, active' = active
  PROVE  LiveCalls'
<1> SUFFICES ASSUME NEW k \in Categories \X RequestIds, active[k] # NoCall
             PROVE  /\ req'[active[k]].pc \in {"call", "chunk"}
                    /\ CallKey(active[k])' = k
                    /\ req'[active[k]].route.guarded
  BY DEF LiveCalls
<1>1. active[k] # t /\ active[k] \in Threads BY DEF LiveCalls, Typed
<1>2. req'[active[k]] = req[active[k]] BY <1>1 DEF Others
<1> QED BY <1>2 DEF LiveCalls, CallKey

(* A call that starts is entered, in place of one with the same key. *)
LEMMA LiveRegistered ==
  ASSUME Typed, LiveCalls, NEW t \in Threads, Others(t), Carries(t), Register(t),
         req[t].pc \notin {"idle", "call", "chunk"},
         req'[t].pc \in {"call", "chunk"}
  PROVE  LiveCalls'
<1> SUFFICES ASSUME NEW k \in Categories \X RequestIds, active'[k] # NoCall
             PROVE  /\ req'[active'[k]].pc \in {"call", "chunk"}
                    /\ CallKey(active[k])' = k
                    /\ req'[active'[k]].route.guarded
  BY DEF LiveCalls
<1>0. /\ active \in [Categories \X RequestIds -> Threads \cup {NoCall}]
      /\ CallKey(t) \in Categories \X RequestIds
  BY RequestFacts DEF Typed
<1>1. CASE req[t].route.guarded /\ k = CallKey(t)
  <2>1. active'[k] = t BY <1>0, <1>1 DEF Register
  <2> QED BY <1>1, <2>1 DEF Carries, CallKey
<1>2. CASE ~(req[t].route.guarded /\ k = CallKey(t))
  <2>1. active'[k] = active[k] BY <1>0, <1>2 DEF Register
  <2>2. active[k] # t /\ active[k] \in Threads BY <1>0, <2>1 DEF LiveCalls
  <2>3. req'[active'[k]] = req[active[k]] BY <2>1, <2>2 DEF Others
  <2> QED BY <2>1, <2>3 DEF LiveCalls, CallKey
<1> QED BY <1>1, <1>2

(* A call that returned is taken out, whatever its outcome. *)
LEMMA LiveUnregistered ==
  ASSUME Typed, LiveCalls, NEW t \in Threads, Others(t), NEW s, Unregister(t, s),
         req[t].pc \in {"call", "chunk"}
  PROVE  LiveCalls'
<1> SUFFICES ASSUME NEW k \in Categories \X RequestIds, active'[k] # NoCall
             PROVE  /\ req'[active'[k]].pc \in {"call", "chunk"}
                    /\ CallKey(active[k])' = k
                    /\ req'[active'[k]].route.guarded
  BY DEF LiveCalls
<1>0. /\ active \in [Categories \X RequestIds -> Threads \cup {NoCall}]
      /\ CallKey(t) \in Categories \X RequestIds
  BY RequestFacts DEF Typed
<1>1. active'[k] = active[k] /\ ~(req[t].route.guarded /\ k = CallKey(t))
  BY <1>0 DEF Unregister
<1>2. active[k] # t /\ active[k] \in Threads BY <1>0, <1>1 DEF LiveCalls
<1>3. req'[active'[k]] = req[active[k]] BY <1>1, <1>2 DEF Others
<1> QED BY <1>1, <1>3 DEF LiveCalls, CallKey

(* Every step of a thread keeps the map of active calls. *)
LEMMA LiveStep ==
  ASSUME Typed, LiveCalls, NEW t \in Threads, Step(t)
  PROVE  LiveCalls'
<1>1. CASE CountInFlight(t) BY <1>1, CountInFlightDoes, LiveKept
<1>2. CASE Recheck(t) BY <1>2, RecheckDoes, LiveKept
<1>3. CASE LimitResources(t) BY <1>3, LimitResourcesDoes, LiveKept
<1>4. CASE Authenticate(t) BY <1>4, AuthenticateDoes, LiveKept
<1>5. CASE ValidateSession(t) BY <1>5, ValidateSessionDoes, LiveKept
<1>6. CASE StoreInCache(t) BY <1>6, StoreInCacheDoes, LiveKept
<1>7. CASE RateLimit(t) BY <1>7, RateLimitDoes, LiveKept
<1>8. CASE Admit(t) BY <1>8, AdmitDoes, LiveKept
<1>9. CASE Dispatch(t) BY <1>9, DispatchDoes, LiveKept, LiveRegistered
<1>10. CASE CallReturns(t) BY <1>10, CallReturnsDoes, LiveUnregistered
<1>11. CASE BackoffEnds(t) BY <1>11, BackoffEndsDoes, LiveKept
<1>12. CASE Leave(t) BY <1>12, LeaveDoes, LiveKept
<1>13. CASE NextChunk(t) BY <1>13, NextChunkDoes, LiveKept, LiveRegistered DEF Keeps
<1>14. CASE ChunkReturns(t) BY <1>14, ChunkReturnsDoes, LiveUnregistered
<1> QED BY <1>1, <1>2, <1>3, <1>4, <1>5, <1>6, <1>7, <1>8, <1>9, <1>10, <1>11,
            <1>12, <1>13, <1>14 DEF Step

(* Every step keeps the map of active calls live. *)
LEMMA LiveNext == Typed /\ LiveCalls /\ [Next]_vars => LiveCalls'
<1> SUFFICES ASSUME Typed, LiveCalls, [Next]_vars PROVE LiveCalls' OBVIOUS
<1>1. ASSUME NEW t \in Threads, Receive(t) PROVE LiveCalls' BY <1>1, ReceiveDoes, LiveKept
<1>2. ASSUME NEW t \in Threads, Step(t) PROVE LiveCalls' BY <1>2, LiveStep
<1>3. ASSUME NEW i \in RequestIds, CancelRequest(i) PROVE LiveCalls'
  <2>1. PICK t \in Threads : /\ Others(t) /\ Keeps(t) /\ active' = active
                             /\ req'[t].pc = req[t].pc
    BY <1>3, CancelRequestDoes
  <2>2. \A u \in Threads : /\ req'[u].pc = req[u].pc
                            /\ req'[u].route = req[u].route
                            /\ req'[u].rid = req[u].rid
    BY <2>1 DEF Others, Keeps, Carries
  <2>3. \A k \in Categories \X RequestIds : active[k] # NoCall => active[k] \in Threads
    BY DEF Typed
  <2> QED BY <2>1, <2>2, <2>3 DEF LiveCalls, CallKey
<1>4. CASE Tick \/ RevokeSession \/ Main \/ UNCHANGED vars
  <2>1. req' = req /\ active' = active
    BY <1>4
    DEF Tick, RevokeSession, Main, StartDrain, DrainEnds, StopServer,
        JoinWorkers, Exited, callVars, vars
  <2> QED BY <2>1 DEF LiveCalls, CallKey
<1> QED BY <1>1, <1>2, <1>3, <1>4 DEF Next

(* Cancelling by request identifier only ever reaches a call in progress    *)
(* that was entered under this very key, for any number of threads and any  *)
(* reuse of identifiers by the clients.                                     *)
THEOREM CancelsLiveCalls == Spec => []ActiveCallIsLive
<1>1. Init => LiveCalls BY DEF Init, LiveCalls
<1>2. Typed /\ LiveCalls => ActiveCallIsLive BY DEF Typed, LiveCalls, ActiveCallIsLive
<1> QED BY <1>1, <1>2, TypedInit, TypedNext, LiveNext, PTL DEF Spec
-----------------------------------------------------------------------------
(***************************************************************************)
(* Retries                                                                 *)
(***************************************************************************)

(* What the retry policy promises about the request of thread t. *)
Honest(t) ==
  req[t].pc # "idle" =>
    /\ req[t].route.idem = "NON_IDEMPOTENT" =>
         /\ req[t].pc # "backoff"
         /\ req[t].sent <= 1
         /\ req[t].pc \notin {"call", "leave", "stream", "chunk"} => req[t].sent = 0
    /\ req[t].route.retried =>
         /\ req[t].pc = "call" => req[t].until <= req[t].start + req[t].deadline
         /\ req[t].pc = "backoff" =>
              req[t].until + MinDeadline <= req[t].start + req[t].deadline

(* The promise is about one request at a time. *)
LEMMA HonestAfter ==
  ASSUME \A u \in Threads : Honest(u), NEW t \in Threads, Others(t), Honest(t)'
  PROVE  \A u \in Threads : Honest(u)'
  BY DEF Others, Honest

(* A thread without a request, and a step between calls that sends nothing. *)
LEMMA HonestIdle ==
  ASSUME NEW t \in Threads, req'[t].pc = "idle"
  PROVE  Honest(t)'
  BY DEF Honest

(* A step away from the calls keeps a request honest. *)
LEMMA HonestQuiet ==
  ASSUME NEW t \in Threads, Honest(t), Carries(t), req[t].pc # "idle",
         req'[t].sent = req[t].sent, req'[t].pc \notin {"call", "backoff"},
         \/ req[t].pc \notin {"call", "leave", "stream", "chunk"}
         \/ req'[t].pc \in {"call", "leave", "stream", "chunk"}
  PROVE  Honest(t)'
  BY DEF Honest, Carries

(* Every step of a thread keeps the promise about its request. *)
LEMMA HonestStep ==
  ASSUME Typed, NEW t \in Threads, Honest(t), Step(t)
  PROVE  Honest(t)'
<1>0. req[t].sent \in Nat BY RequestFacts
<1>1. CASE CountInFlight(t)
  BY <1>0, <1>1, CountInFlightDoes, HonestIdle, HonestQuiet DEF Keeps, Carries
<1>2. CASE Recheck(t) BY <1>0, <1>2, RecheckDoes, HonestIdle, HonestQuiet DEF Keeps, Carries
<1>3. CASE LimitResources(t)
  BY <1>0, <1>3, LimitResourcesDoes, HonestIdle, HonestQuiet DEF Keeps, Carries
<1>4. CASE Authenticate(t)
  BY <1>0, <1>4, AuthenticateDoes, HonestIdle, HonestQuiet DEF Keeps, Carries
<1>5. CASE ValidateSession(t)
  BY <1>0, <1>5, ValidateSessionDoes, HonestIdle, HonestQuiet DEF Keeps, Carries
<1>6. CASE StoreInCache(t)
  BY <1>0, <1>6, StoreInCacheDoes, HonestIdle, HonestQuiet DEF Keeps, Carries
<1>7. CASE RateLimit(t)
  BY <1>0, <1>7, RateLimitDoes, HonestIdle, HonestQuiet DEF Keeps, Carries
<1>8. CASE Admit(t) BY <1>0, <1>8, AdmitDoes, HonestIdle, HonestQuiet DEF Keeps, Carries
<1>9. CASE Dispatch(t) BY <1>0, <1>9, DispatchDoes DEF Honest, Keeps, Carries
<1>10. CASE CallReturns(t) BY <1>0, <1>10, CallReturnsDoes DEF Honest, Keeps, Carries
<1>11. CASE BackoffEnds(t)
  BY <1>0, <1>11, BackoffEndsDoes, HonestIdle, HonestQuiet DEF Keeps, Carries
<1>12. CASE Leave(t) BY <1>0, <1>12, LeaveDoes, HonestIdle, HonestQuiet DEF Keeps, Carries
<1>13. CASE NextChunk(t)
  BY <1>0, <1>13, NextChunkDoes, HonestIdle, HonestQuiet DEF Keeps, Carries
<1>14. CASE ChunkReturns(t)
  BY <1>0, <1>14, ChunkReturnsDoes, HonestIdle, HonestQuiet DEF Keeps, Carries
<1> QED BY <1>1, <1>2, <1>3, <1>4, <1>5, <1>6, <1>7, <1>8, <1>9, <1>10, <1>11,
            <1>12, <1>13, <1>14 DEF Step

(* Every step keeps the promise about all requests. *)
LEMMA HonestNext ==
  ASSUME Typed, \A t \in Threads : Honest(t), [Next]_vars
  PROVE  \A t \in Threads : Honest(t)'
<1>1. ASSUME NEW t \in Threads, Receive(t) PROVE \A u \in Threads : Honest(u)'
  <2>1. Honest(t)'
    <3>1. CASE req'[t].pc = "idle" BY <3>1, HonestIdle
    <3>2. CASE req'[t].pc \in {"gated", "limiter"} /\ req'[t].sent = 0 BY <3>2 DEF Honest
    <3> QED BY <1>1, <3>1, <3>2, ReceiveDoes
  <2> QED BY <1>1, <2>1, ReceiveDoes, HonestAfter
<1>2. ASSUME NEW t \in Threads, Step(t) PROVE \A u \in Threads : Honest(u)'
  <2>1. Honest(t)' BY <1>2, HonestStep
  <2>2. Others(t)
    BY <1>2, CountInFlightDoes, RecheckDoes, LimitResourcesDoes, AuthenticateDoes,
       ValidateSessionDoes, StoreInCacheDoes, RateLimitDoes, AdmitDoes,
       DispatchDoes, CallReturnsDoes, BackoffEndsDoes, LeaveDoes, NextChunkDoes,
       ChunkReturnsDoes
    DEF Step
  <2> QED BY <2>1, <2>2, HonestAfter
<1>3. ASSUME NEW i \in RequestIds, CancelRequest(i)
      PROVE  \A u \in Threads : Honest(u)'
  <2>1. PICK t \in Threads :
          /\ Others(t) /\ Keeps(t) /\ req'[t].pc = req[t].pc
          /\ req'[t].start = req[t].start
          /\ req[t].until > now /\ req'[t].until = now
    BY <1>3, CancelRequestDoes
  <2>2. /\ now \in Nat /\ req[t].until \in Nat /\ req[t].start \in Nat
        /\ req[t].deadline \in Nat /\ MinDeadline \in Nat
    BY RequestFacts, GatewayAssumption
  <2>3. Honest(t)' BY <2>1, <2>2 DEF Honest, Keeps, Carries
  <2> QED BY <2>1, <2>3, HonestAfter
<1>4. CASE Tick \/ RevokeSession \/ Main \/ UNCHANGED vars
  <2>1. req' = req
    BY <1>4
    DEF Tick, RevokeSession, Main, StartDrain, DrainEnds, StopServer,
        JoinWorkers, Exited, vars
  <2> QED BY <2>1 DEF Honest
<1> QED BY <1>1, <1>2, <1>3, <1>4 DEF Next

(* For any retry policy, deadlines and number of threads: a command is sent *)
(* at most once, no attempt may run beyond the deadline of its request, and *)
(* a backoff leaves room for another attempt.                               *)
THEOREM RetriesAreHonest == Spec => []RetriesHonest
<1>1. Init => \A t \in Threads : Honest(t) BY DEF Init, Honest, NoRequest
<1>2. (\A t \in Threads : Honest(t)) => RetriesHonest
  BY DEF Honest, RetriesHonest, NonIdempotentOnce, BudgetHonoured, Running, At
<1>3. Typed /\ (\A t \in Threads : Honest(t)) /\ [Next]_vars
        => (\A t \in Threads : Honest(t))'
  BY HonestNext
<1> QED BY <1>1, <1>2, <1>3, TypedInit, TypedNext, PTL DEF Spec
-----------------------------------------------------------------------------
(***************************************************************************)
(* The cache of the token validator                                        *)
(***************************************************************************)

(* CacheFresh spelled out for the steps of thread t. *)
LEMMA CacheFacts ==
  ASSUME Typed, CacheFresh
  PROVE  /\ now \in Nat /\ cache.until \in Nat /\ CacheTtl \in Nat
         /\ revokedAt \in {Never} \cup 0..now /\ Never \notin Nat
         /\ NoCache.until = 0
  BY GatewayAssumption DEF Typed, CacheFresh, Never, NoCache

(* A step of t that leaves the cache alone, or throws its entry away. *)
LEMMA FreshAfter ==
  ASSUME Typed, CacheFresh, NEW t \in Threads, Others(t),
         now' = now, revokedAt' = revokedAt, cache' \in {cache, NoCache},
         req'[t].pc = "validating" => req'[t].start = now,
         req'[t].pc = "answered" =>
           /\ req'[t].start = req[t].start /\ revokedAt = Never
           /\ req[t].pc = "validating"
  PROVE  CacheFresh'
<1>1. cache'.until <= now + CacheTtl
      /\ (revokedAt # Never => cache'.until <= revokedAt + CacheTtl)
  BY CacheFacts DEF CacheFresh
<1>2. \A u \in Threads :
         /\ req'[u].pc \in {"validating", "answered"} => req'[u].start <= now
         /\ req'[u].pc = "answered" /\ revokedAt # Never => req'[u].start <= revokedAt
  BY CacheFacts DEF CacheFresh, Others
<1> QED BY <1>1, <1>2, CacheFacts DEF CacheFresh

(* Every step keeps the cache fresh. *)
LEMMA FreshNext == Typed /\ CacheFresh /\ [Next]_vars => CacheFresh'
<1> SUFFICES ASSUME Typed, CacheFresh, [Next]_vars PROVE CacheFresh' OBVIOUS
<1>1. ASSUME NEW t \in Threads, Receive(t) PROVE CacheFresh'
  BY <1>1, ReceiveDoes, FreshAfter DEF Receive, authVars
<1>2. ASSUME NEW t \in Threads, Step(t) PROVE CacheFresh'
  <2>1. CASE CountInFlight(t)
    BY <2>1, CountInFlightDoes, FreshAfter DEF CountInFlight, authVars
  <2>2. CASE Recheck(t) BY <2>2, RecheckDoes, FreshAfter DEF Recheck, authVars
  <2>3. CASE LimitResources(t)
    BY <2>3, LimitResourcesDoes, FreshAfter DEF LimitResources, authVars
  <2>4. CASE Authenticate(t) BY <2>4, AuthenticateDoes, FreshAfter DEF Authenticate, authVars
  <2>5. CASE ValidateSession(t)
    BY <2>5, ValidateSessionDoes, FreshAfter DEF ValidateSession, authVars
  <2>6. CASE StoreInCache(t)
    <3>1. /\ cache'.until = req[t].start + CacheTtl /\ req[t].pc = "answered"
          /\ revokedAt' = revokedAt /\ now' = now /\ Others(t)
          /\ req'[t].pc \notin {"validating", "answered"}
      BY <2>6, StoreInCacheDoes DEF StoreInCache, authVars
    <3>2. /\ req[t].start \in Nat /\ req[t].start <= now
          /\ revokedAt # Never => req[t].start <= revokedAt
      BY <3>1, RequestFacts DEF CacheFresh
    <3>3. /\ cache'.until <= now + CacheTtl
          /\ revokedAt # Never => cache'.until <= revokedAt + CacheTtl
      BY <3>1, <3>2, CacheFacts
    <3> QED BY <3>1, <3>3 DEF CacheFresh, Others
  <2>7. CASE RateLimit(t) BY <2>7, RateLimitDoes, FreshAfter DEF RateLimit, authVars
  <2>8. CASE Admit(t) BY <2>8, AdmitDoes, FreshAfter DEF Admit, authVars
  <2>9. CASE Dispatch(t) BY <2>9, DispatchDoes, FreshAfter DEF Dispatch, authVars
  <2>10. CASE CallReturns(t) BY <2>10, CallReturnsDoes, FreshAfter DEF CallReturns, authVars
  <2>11. CASE BackoffEnds(t) BY <2>11, BackoffEndsDoes, FreshAfter DEF BackoffEnds, authVars
  <2>12. CASE Leave(t) BY <2>12, LeaveDoes, FreshAfter DEF Leave, authVars
  <2>13. CASE NextChunk(t) BY <2>13, NextChunkDoes, FreshAfter DEF NextChunk, authVars
  <2>14. CASE ChunkReturns(t)
    BY <2>14, ChunkReturnsDoes, FreshAfter DEF ChunkReturns, authVars
  <2> QED BY <1>2, <2>1, <2>2, <2>3, <2>4, <2>5, <2>6, <2>7, <2>8, <2>9, <2>10,
              <2>11, <2>12, <2>13, <2>14 DEF Step
<1>3. ASSUME NEW i \in RequestIds, CancelRequest(i) PROVE CacheFresh'
  <2>1. PICK t \in Threads : /\ Others(t) /\ req'[t].pc = req[t].pc
                             /\ req'[t].start = req[t].start
    BY <1>3, CancelRequestDoes
  <2>2. now' = now /\ cache' = cache /\ revokedAt' = revokedAt
    BY <1>3 DEF CancelRequest, authVars
  <2> QED BY <2>1, <2>2 DEF CacheFresh, Others
<1>4. CASE Tick
  <2>1. now' = now + 1 /\ cache' = cache /\ revokedAt' = revokedAt /\ req' = req
    BY <1>4 DEF Tick, authVars
  <2>2. \A t \in Threads : req[t].start \in Nat BY RequestFacts
  <2> QED BY <2>1, <2>2, CacheFacts DEF CacheFresh
<1>5. CASE RevokeSession
  <2>1. /\ revokedAt' = now /\ now' = now /\ cache' = cache /\ req' = req
    BY <1>5 DEF RevokeSession
  <2> QED BY <2>1, CacheFacts DEF CacheFresh
<1>6. CASE Main \/ UNCHANGED vars
  <2>1. now' = now /\ cache' = cache /\ revokedAt' = revokedAt /\ req' = req
    BY <1>6
    DEF Main, StartDrain, DrainEnds, StopServer, JoinWorkers, Exited, authVars, vars
  <2> QED BY <2>1 DEF CacheFresh
<1> QED BY <1>1, <1>2, <1>3, <1>4, <1>5, <1>6 DEF Next

(* A step that lets an authenticated request past the cache. *)
LEMMA HitIsFresh ==
  ASSUME Typed, CacheFresh, Next, NEW t \in Threads,
         req[t].pc = "auth", req'[t].pc = "rate", req[t].route.access # "Public"
  PROVE  revokedAt = Never \/ now < revokedAt + CacheTtl
<1>1. ASSUME NEW u \in Threads, Receive(u) \/ Step(u), u # t PROVE FALSE
  <2>1. Others(u)
    BY <1>1, ReceiveDoes, CountInFlightDoes, RecheckDoes, LimitResourcesDoes,
       AuthenticateDoes, ValidateSessionDoes, StoreInCacheDoes, RateLimitDoes,
       AdmitDoes, DispatchDoes, CallReturnsDoes, BackoffEndsDoes, LeaveDoes,
       NextChunkDoes, ChunkReturnsDoes
    DEF Step
  <2> QED BY <1>1, <2>1 DEF Others
<1>2. ASSUME NEW i \in RequestIds, CancelRequest(i) PROVE FALSE
  BY <1>2, CancelRequestDoes DEF Others
<1>3. CASE Tick \/ RevokeSession \/ Main
  BY <1>3
  DEF Tick, RevokeSession, Main, StartDrain, DrainEnds, StopServer,
        JoinWorkers, Exited, vars
<1>4. CASE Receive(t) \/ Step(t)
  <2>1. Authenticate(t)
    BY <1>4, ReceiveDoes
    DEF Step, At, CountInFlight, Recheck, LimitResources, ValidateSession,
        StoreInCache, RateLimit, Admit, Dispatch, CallReturns, BackoffEnds,
        Leave, NextChunk, ChunkReturns
  <2>2. now < cache.until BY <2>1, AuthenticateDoes
  <2> QED BY <2>2, CacheFacts DEF CacheFresh
<1> QED BY <1>1, <1>2, <1>3, <1>4 DEF Next

(* However long the auth service takes to answer, and whenever the session  *)
(* is revoked: no request is admitted from the cache once a cache lifetime  *)
(* has passed since the revocation.                                         *)
THEOREM CacheIsNeverStale == Spec => NoStaleHit
<1>1. Init => CacheFresh BY GatewayAssumption DEF Init, CacheFresh, NoCache, NoRequest, Never
<1>2. Typed /\ CacheFresh /\ [Next]_vars
        => [\A t \in Threads :
              At(t, "auth") /\ req'[t].pc = "rate" /\ req[t].route.access # "Public"
                => revokedAt = Never \/ now < revokedAt + CacheTtl]_vars
  BY HitIsFresh DEF At
<1> QED BY <1>1, <1>2, TypedInit, TypedNext, FreshNext, PTL DEF Spec, NoStaleHit
-----------------------------------------------------------------------------
(***************************************************************************)
(* The counters                                                            *)
(***************************************************************************)

(* A request that is counted as a connection, as in flight, and as the      *)
(* holder of a slot.                                                       *)
Linked(t) == req[t].pc \in Connected
Gated(t) == req[t].pc \in PastGate \cup {"counted"} /\ ~Health(t)
Holds(t, c) == req[t].leased /\ req[t].route.svc = c

Linking == {t \in Threads : Linked(t)}
Gating == {t \in Threads : Gated(t)}
Holding(c) == {t \in Threads : Holds(t, c)}

SlotUse == {u \in [Categories -> Nat] : \A c \in Categories : u[c] <= Slots[c]}

Counted ==
  /\ conns = Cardinality(Linking)
  /\ inFlight = Cardinality(Gating)
  /\ used \in SlotUse
  /\ \A c \in Categories : used[c] = Cardinality(Holding(c))

(* A set of threads that only one thread can enter or leave. *)
LEMMA OneThread ==
  ASSUME NEW S, S \subseteq Threads, NEW T, T \subseteq Threads,
         NEW t \in Threads,
         \A u \in Threads : u # t => (u \in T <=> u \in S)
  PROVE  /\ Cardinality(S) \in Nat /\ Cardinality(T) \in Nat
         /\ (t \in S <=> t \in T) => Cardinality(T) = Cardinality(S)
         /\ t \notin S /\ t \in T => Cardinality(T) = Cardinality(S) + 1
         /\ t \in S /\ t \notin T => Cardinality(T) = Cardinality(S) - 1
<1>1. IsFiniteSet(S) /\ IsFiniteSet(T) BY GatewayAssumption, FS_Subset
<1>2. Cardinality(S) \in Nat /\ Cardinality(T) \in Nat BY <1>1, FS_CardinalityType
<1>3. CASE t \in S <=> t \in T
  <2>1. S = T BY <1>3
  <2> QED BY <1>2, <1>3, <2>1
<1>4. CASE t \notin S /\ t \in T
  <2>1. T = S \cup {t} BY <1>4
  <2> QED BY <1>1, <1>2, <1>4, <2>1, FS_AddElement
<1>5. CASE t \in S /\ t \notin T
  <2>1. T = S \ {t} BY <1>5
  <2> QED BY <1>1, <1>2, <1>5, <2>1, FS_RemoveElement
<1> QED BY <1>3, <1>4, <1>5

(* The three counts after a step of thread t. *)
LEMMA LinkingAfter ==
  ASSUME NEW t \in Threads, Others(t)
  PROVE  /\ Cardinality(Linking) \in Nat /\ Cardinality(Linking') \in Nat
         /\ (Linked(t) <=> Linked(t)') => Cardinality(Linking') = Cardinality(Linking)
         /\ ~Linked(t) /\ Linked(t)' => Cardinality(Linking') = Cardinality(Linking) + 1
         /\ Linked(t) /\ ~Linked(t)' => Cardinality(Linking') = Cardinality(Linking) - 1
<1>1. Linking \subseteq Threads /\ Linking' \subseteq Threads BY DEF Linking
<1>2. \A u \in Threads : u # t => (u \in Linking' <=> u \in Linking)
  BY DEF Linking, Linked, Others
<1>3. (t \in Linking <=> Linked(t)) /\ (t \in Linking' <=> Linked(t)') BY DEF Linking
<1> QED BY <1>1, <1>2, <1>3, OneThread

(* The same for the requests in flight ... *)
LEMMA GatingAfter ==
  ASSUME NEW t \in Threads, Others(t)
  PROVE  /\ Cardinality(Gating) \in Nat /\ Cardinality(Gating') \in Nat
         /\ (Gated(t) <=> Gated(t)') => Cardinality(Gating') = Cardinality(Gating)
         /\ ~Gated(t) /\ Gated(t)' => Cardinality(Gating') = Cardinality(Gating) + 1
         /\ Gated(t) /\ ~Gated(t)' => Cardinality(Gating') = Cardinality(Gating) - 1
<1>1. Gating \subseteq Threads /\ Gating' \subseteq Threads BY DEF Gating
<1>2. \A u \in Threads : u # t => (u \in Gating' <=> u \in Gating)
  BY DEF Gating, Gated, Health, Others
<1>3. (t \in Gating <=> Gated(t)) /\ (t \in Gating' <=> Gated(t)') BY DEF Gating
<1> QED BY <1>1, <1>2, <1>3, OneThread

(* ... and for the holders of a slot. *)
LEMMA HoldingAfter ==
  ASSUME NEW t \in Threads, Others(t), NEW c \in Categories
  PROVE  /\ Cardinality(Holding(c)) \in Nat /\ Cardinality(Holding(c)') \in Nat
         /\ (Holds(t, c) <=> Holds(t, c)') =>
              Cardinality(Holding(c)') = Cardinality(Holding(c))
         /\ ~Holds(t, c) /\ Holds(t, c)' =>
              Cardinality(Holding(c)') = Cardinality(Holding(c)) + 1
         /\ Holds(t, c) /\ ~Holds(t, c)' =>
              Cardinality(Holding(c)') = Cardinality(Holding(c)) - 1
<1>1. Holding(c) \subseteq Threads /\ Holding(c)' \subseteq Threads BY DEF Holding
<1>2. \A u \in Threads : u # t => (u \in Holding(c)' <=> u \in Holding(c))
  BY DEF Holding, Holds, Others
<1>3. (t \in Holding(c) <=> Holds(t, c)) /\ (t \in Holding(c)' <=> Holds(t, c)')
  BY DEF Holding
<1> QED BY <1>1, <1>2, <1>3, OneThread

(* A step after which t holds what it held. *)
LEMMA SlotsKept ==
  ASSUME Counted, NEW t \in Threads, Others(t), used' = used,
         \A c \in Categories : Holds(t, c) <=> Holds(t, c)'
  PROVE  /\ used' \in SlotUse
         /\ \A c \in Categories : used'[c] = Cardinality(Holding(c)')
  BY HoldingAfter DEF Counted

(* A request that held a slot gives back its own. *)
LEMMA SlotReleased ==
  ASSUME Counted, NEW t \in Threads, Others(t), Release(t),
         req[t].leased => req[t].route.svc \in Categories, ~req'[t].leased
  PROVE  /\ used' \in SlotUse
         /\ \A c \in Categories : used'[c] = Cardinality(Holding(c)')
<1>0. used \in [Categories -> Nat] /\ \A c \in Categories : Slots[c] \in Nat
  BY GatewayAssumption DEF Counted, SlotUse
<1>1. CASE ~req[t].leased BY <1>1, SlotsKept DEF Release, Holds
<1>2. CASE req[t].leased
  <2> DEFINE k == req[t].route.svc
  <2>1. k \in Categories /\ used' = [used EXCEPT ![k] = @ - 1] BY <1>2 DEF Release
  <2>2. ASSUME NEW c \in Categories
        PROVE  used'[c] = Cardinality(Holding(c)') /\ used'[c] \in 0..Slots[c]
    <3>1. (Holds(t, c) <=> c = k) /\ ~Holds(t, c)' BY <1>2 DEF Holds
    <3>2. used'[c] = IF c = k THEN used[c] - 1 ELSE used[c] BY <1>0, <2>1
    <3>3. used[c] = Cardinality(Holding(c)) /\ used[c] \in 0..Slots[c]
      BY <1>0 DEF Counted, SlotUse
    <3> HIDE DEF k
    <3>4. Cardinality(Holding(c)') \in Nat
          /\ Cardinality(Holding(c)') = IF c = k THEN used[c] - 1 ELSE used[c]
      BY <3>1, <3>3, HoldingAfter
    <3> QED BY <3>2, <3>3, <3>4, <1>0
  <2>3. used' = [c \in Categories |-> used'[c]] BY <1>0, <2>1
  <2> QED BY <1>0, <2>2, <2>3 DEF SlotUse
<1> QED BY <1>1, <1>2

(* A request that takes a slot did not hold one. *)
LEMMA SlotTaken ==
  ASSUME Counted, NEW t \in Threads, Others(t), NEW k \in Categories,
         used[k] < Slots[k], used' = [used EXCEPT ![k] = @ + 1],
         ~req[t].leased, req'[t].leased, req'[t].route.svc = k
  PROVE  /\ used' \in SlotUse
         /\ \A c \in Categories : used'[c] = Cardinality(Holding(c)')
<1>0. used \in [Categories -> Nat] /\ \A c \in Categories : Slots[c] \in Nat
  BY GatewayAssumption DEF Counted, SlotUse
<1>2. ASSUME NEW c \in Categories
      PROVE  used'[c] = Cardinality(Holding(c)') /\ used'[c] \in 0..Slots[c]
  <2>1. ~Holds(t, c) /\ (Holds(t, c)' <=> c = k) BY DEF Holds
  <2>2. used'[c] = IF c = k THEN used[c] + 1 ELSE used[c] BY <1>0
  <2>3. used[c] = Cardinality(Holding(c)) /\ used[c] \in 0..Slots[c]
    BY <1>0 DEF Counted, SlotUse
  <2>4. Cardinality(Holding(c)') = IF c = k THEN used[c] + 1 ELSE used[c]
    BY <2>1, <2>3, HoldingAfter
  <2> QED BY <2>2, <2>3, <2>4, <1>0
<1>3. used' = [c \in Categories |-> used'[c]] BY <1>0
<1> QED BY <1>0, <1>2, <1>3 DEF SlotUse

(* Where a request can hold a slot, and what stands at the gate. *)
LEMMA LeasesStep ==
  ASSUME Typed, Leases, NEW t \in Threads, Step(t)
  PROVE  Leases'
<1>0. ASSUME Others(t),
             req'[t].leased => req'[t].pc \in {"dispatch", "call", "backoff",
                                               "leave", "stream", "chunk"},
             req'[t].pc \in {"gated", "counted"} => ~Health(t)'
      PROVE  Leases'
  BY <1>0 DEF Leases, Others, Health
<1>1. CASE CountInFlight(t)
  BY <1>0, <1>1, CountInFlightDoes DEF Leases, Health, Keeps, Carries
<1>2. CASE Recheck(t) BY <1>0, <1>2, RecheckDoes DEF Leases, Health, Keeps, Carries
<1>3. CASE LimitResources(t)
  BY <1>0, <1>3, LimitResourcesDoes DEF Leases, Health, Keeps, Carries
<1>4. CASE Authenticate(t) BY <1>0, <1>4, AuthenticateDoes DEF Leases, Health, Keeps, Carries
<1>5. CASE ValidateSession(t)
  BY <1>0, <1>5, ValidateSessionDoes DEF Leases, Health, Keeps, Carries
<1>6. CASE StoreInCache(t) BY <1>0, <1>6, StoreInCacheDoes DEF Leases, Health, Keeps, Carries
<1>7. CASE RateLimit(t) BY <1>0, <1>7, RateLimitDoes DEF Leases, Health, Keeps, Carries
<1>8. CASE Admit(t) BY <1>0, <1>8, AdmitDoes DEF Leases, Health, Keeps, Carries
<1>9. CASE Dispatch(t) BY <1>0, <1>9, DispatchDoes DEF Leases, Health, Keeps, Carries
<1>10. CASE CallReturns(t) BY <1>0, <1>10, CallReturnsDoes DEF Leases, Health, Keeps, Carries
<1>11. CASE BackoffEnds(t) BY <1>0, <1>11, BackoffEndsDoes DEF Leases, Health, Keeps, Carries
<1>12. CASE Leave(t) BY <1>0, <1>12, LeaveDoes DEF Leases, Health, Keeps, Carries
<1>13. CASE NextChunk(t) BY <1>0, <1>13, NextChunkDoes DEF Leases, Health, Keeps, Carries
<1>14. CASE ChunkReturns(t)
  BY <1>0, <1>14, ChunkReturnsDoes DEF Leases, Health, Keeps, Carries
<1> QED BY <1>1, <1>2, <1>3, <1>4, <1>5, <1>6, <1>7, <1>8, <1>9, <1>10, <1>11,
            <1>12, <1>13, <1>14 DEF Step

(* Every step keeps the places where a slot is held. *)
LEMMA LeasesNext == Typed /\ Leases /\ [Next]_vars => Leases'
<1> SUFFICES ASSUME Typed, Leases, [Next]_vars PROVE Leases' OBVIOUS
<1>1. ASSUME NEW t \in Threads, Receive(t) PROVE Leases'
  BY <1>1, ReceiveDoes DEF Leases, Others, Health
<1>2. ASSUME NEW t \in Threads, Step(t) PROVE Leases' BY <1>2, LeasesStep
<1>3. ASSUME NEW i \in RequestIds, CancelRequest(i) PROVE Leases'
  BY <1>3, CancelRequestDoes DEF Leases, Others, Health, Keeps, Carries
<1>4. CASE Tick \/ RevokeSession \/ Main \/ UNCHANGED vars
  <2>1. req' = req
    BY <1>4
    DEF Tick, RevokeSession, Main, StartDrain, DrainEnds, StopServer,
        JoinWorkers, Exited, vars
  <2> QED BY <2>1 DEF Leases, Health
<1> QED BY <1>1, <1>2, <1>3, <1>4 DEF Next

(* The program counters that count. *)
LEMMA CountedPcs ==
  /\ Connected = {"auth", "validating", "answered", "rate", "admit", "dispatch",
                  "call", "backoff", "leave"}
  /\ PastGate = {"auth", "validating", "answered", "rate", "admit", "dispatch",
                 "call", "backoff", "leave", "limiter"}
  BY DEF Connected, PastGate

(* A step of t between two places of the pipeline that count the same, with *)
(* the counters as they were.                                              *)
LEMMA CountsKept ==
  ASSUME Counted, NEW t \in Threads, Others(t),
         conns' = conns, inFlight' = inFlight, used' = used,
         Linked(t) <=> Linked(t)', Gated(t) <=> Gated(t)',
         \A c \in Categories : Holds(t, c) <=> Holds(t, c)'
  PROVE  Counted'
<1>1. Cardinality(Linking') = conns BY LinkingAfter DEF Counted
<1>2. Cardinality(Gating') = inFlight BY GatingAfter DEF Counted
<1> QED BY <1>1, <1>2, SlotsKept DEF Counted

(* Every step of a thread keeps the counters exact. *)
LEMMA CountedStep ==
  ASSUME Typed, Leases, Counted, NEW t \in Threads, Step(t)
  PROVE  Counted'
<1>0. conns = Cardinality(Linking) /\ inFlight = Cardinality(Gating) BY DEF Counted
<1>s. req[t].leased => req[t].route.svc \in Categories
  BY RequestFacts DEF Leases, Route, Categories
<1>1. CASE CountInFlight(t)
  <2>1. /\ Others(t) /\ Keeps(t) /\ req[t].pc = "gated" /\ req'[t].pc = "counted"
        /\ inFlight' = inFlight + 1 /\ conns' = conns /\ used' = used
        /\ ~Health(t)
    BY <1>1, CountInFlightDoes DEF CountInFlight, callVars, Leases
  <2>2. ~Linked(t) /\ ~Linked(t)' /\ ~Gated(t) /\ Gated(t)'
    BY <2>1, CountedPcs DEF Linked, Gated, Health, Keeps, Carries
  <2>3. \A c \in Categories : Holds(t, c) <=> Holds(t, c)' BY <2>1 DEF Holds, Keeps, Carries
  <2>4. Cardinality(Linking') = conns BY <1>0, <2>1, <2>2, LinkingAfter
  <2>5. Cardinality(Gating') = inFlight + 1 BY <1>0, <2>1, <2>2, GatingAfter
  <2> QED BY <2>1, <2>3, <2>4, <2>5, SlotsKept DEF Counted
<1>2. CASE Recheck(t)
  <2>1. /\ Others(t) /\ req[t].pc = "counted" /\ conns' = conns /\ used' = used
        /\ inFlight' = IF Draining THEN inFlight - 1 ELSE inFlight
        /\ ~Health(t) /\ ~req[t].leased
    BY <1>2, RecheckDoes DEF Recheck, callVars, Leases
  <2>2. ~Linked(t) /\ Gated(t) BY <2>1, CountedPcs DEF Linked, Gated
  <2>3. CASE Draining /\ req'[t].pc = "idle" /\ req'[t].leased = FALSE
    <3>1. ~Linked(t)' /\ ~Gated(t)' BY <2>3, CountedPcs DEF Linked, Gated
    <3>2. \A c \in Categories : Holds(t, c) <=> Holds(t, c)' BY <2>1, <2>3 DEF Holds
    <3>3. Cardinality(Linking') = conns BY <1>0, <2>1, <2>2, <3>1, LinkingAfter
    <3>4. Cardinality(Gating') = inFlight - 1 BY <1>0, <2>1, <2>2, <3>1, GatingAfter
    <3> QED BY <2>1, <2>3, <3>2, <3>3, <3>4, SlotsKept DEF Counted
  <2>4. CASE ~Draining /\ req'[t].pc = "limiter" /\ Keeps(t)
    <3>1. ~Linked(t)' /\ Gated(t)'
      BY <2>1, <2>4, CountedPcs DEF Linked, Gated, Health, Keeps, Carries
    <3>2. \A c \in Categories : Holds(t, c) <=> Holds(t, c)'
      BY <2>4 DEF Holds, Keeps, Carries
    <3> QED BY <2>1, <2>2, <2>4, <3>1, <3>2, CountsKept
  <2> QED BY <1>2, <2>3, <2>4, RecheckDoes
<1>3. CASE LimitResources(t)
  <2>1. Others(t) /\ req[t].pc = "limiter" /\ used' = used /\ ~req[t].leased
    BY <1>3, LimitResourcesDoes DEF LimitResources, callVars, Leases
  <2>2. ~Linked(t) /\ (Gated(t) <=> ~Health(t)) BY <2>1, CountedPcs DEF Linked, Gated
  <2>3. CASE /\ req'[t].pc = "idle" /\ req'[t].leased = FALSE
             /\ inFlight' = (IF Health(t) THEN inFlight ELSE inFlight - 1)
             /\ conns' = conns
    <3>1. ~Linked(t)' /\ ~Gated(t)' BY <2>3, CountedPcs DEF Linked, Gated
    <3>2. \A c \in Categories : Holds(t, c) <=> Holds(t, c)' BY <2>1, <2>3 DEF Holds
    <3>3. Cardinality(Linking') = conns BY <1>0, <2>1, <2>2, <3>1, LinkingAfter
    <3>4. Cardinality(Gating') = IF Health(t) THEN inFlight ELSE inFlight - 1
      BY <1>0, <2>1, <2>2, <3>1, GatingAfter
    <3> QED BY <2>1, <2>3, <3>2, <3>3, <3>4, SlotsKept DEF Counted
  <2>4. CASE /\ req'[t].pc \in {"leave", "auth"} /\ Keeps(t)
             /\ inFlight' = inFlight /\ conns' = conns + 1
    <3>1. Linked(t)' /\ (Gated(t)' <=> ~Health(t))
      BY <2>1, <2>4, CountedPcs DEF Linked, Gated, Health, Keeps, Carries
    <3>2. \A c \in Categories : Holds(t, c) <=> Holds(t, c)'
      BY <2>4 DEF Holds, Keeps, Carries
    <3>3. Cardinality(Linking') = conns + 1 BY <1>0, <2>1, <2>2, <3>1, LinkingAfter
    <3>4. Cardinality(Gating') = inFlight BY <1>0, <2>1, <2>2, <3>1, GatingAfter
    <3> QED BY <2>1, <2>4, <3>2, <3>3, <3>4, SlotsKept DEF Counted
  <2> QED BY <1>3, <2>3, <2>4, LimitResourcesDoes
<1>4. CASE Authenticate(t)
  <2>1. /\ conns' = conns /\ inFlight' = inFlight /\ used' = used
        /\ Others(t) /\ Carries(t) /\ req'[t].leased = req[t].leased
    BY <1>4, AuthenticateDoes DEF Authenticate, gateVars, callVars, Keeps
  <2>2. Linked(t) /\ Linked(t)' BY <1>4, AuthenticateDoes, CountedPcs DEF Linked
  <2>3. req[t].pc \in PastGate /\ req'[t].pc \in PastGate BY <2>2 DEF Linked, PastGate
  <2>4. Gated(t) <=> Gated(t)' BY <2>1, <2>3 DEF Gated, Health, Carries
  <2>5. \A c \in Categories : Holds(t, c) <=> Holds(t, c)' BY <2>1 DEF Holds, Carries
  <2> QED BY <2>1, <2>2, <2>4, <2>5, CountsKept
<1>5. CASE ValidateSession(t)
  <2>1. /\ conns' = conns /\ inFlight' = inFlight /\ used' = used
        /\ Others(t) /\ Carries(t) /\ req'[t].leased = req[t].leased
    BY <1>5, ValidateSessionDoes DEF ValidateSession, gateVars, callVars, Keeps
  <2>2. Linked(t) /\ Linked(t)' BY <1>5, ValidateSessionDoes, CountedPcs DEF Linked
  <2>3. req[t].pc \in PastGate /\ req'[t].pc \in PastGate BY <2>2 DEF Linked, PastGate
  <2>4. Gated(t) <=> Gated(t)' BY <2>1, <2>3 DEF Gated, Health, Carries
  <2>5. \A c \in Categories : Holds(t, c) <=> Holds(t, c)' BY <2>1 DEF Holds, Carries
  <2> QED BY <2>1, <2>2, <2>4, <2>5, CountsKept
<1>6. CASE StoreInCache(t)
  <2>1. /\ conns' = conns /\ inFlight' = inFlight /\ used' = used
        /\ Others(t) /\ Carries(t) /\ req'[t].leased = req[t].leased
    BY <1>6, StoreInCacheDoes DEF StoreInCache, gateVars, callVars, Keeps
  <2>2. Linked(t) /\ Linked(t)' BY <1>6, StoreInCacheDoes, CountedPcs DEF Linked
  <2>3. req[t].pc \in PastGate /\ req'[t].pc \in PastGate BY <2>2 DEF Linked, PastGate
  <2>4. Gated(t) <=> Gated(t)' BY <2>1, <2>3 DEF Gated, Health, Carries
  <2>5. \A c \in Categories : Holds(t, c) <=> Holds(t, c)' BY <2>1 DEF Holds, Carries
  <2> QED BY <2>1, <2>2, <2>4, <2>5, CountsKept
<1>7. CASE RateLimit(t)
  <2>1. /\ conns' = conns /\ inFlight' = inFlight /\ used' = used
        /\ Others(t) /\ Carries(t) /\ req'[t].leased = req[t].leased
    BY <1>7, RateLimitDoes DEF RateLimit, gateVars, callVars, Keeps
  <2>2. Linked(t) /\ Linked(t)' BY <1>7, RateLimitDoes, CountedPcs DEF Linked
  <2>3. req[t].pc \in PastGate /\ req'[t].pc \in PastGate BY <2>2 DEF Linked, PastGate
  <2>4. Gated(t) <=> Gated(t)' BY <2>1, <2>3 DEF Gated, Health, Carries
  <2>5. \A c \in Categories : Holds(t, c) <=> Holds(t, c)' BY <2>1 DEF Holds, Carries
  <2> QED BY <2>1, <2>2, <2>4, <2>5, CountsKept
<1>9. CASE Dispatch(t)
  <2>1. /\ conns' = conns /\ inFlight' = inFlight /\ used' = used
        /\ Others(t) /\ Carries(t) /\ req'[t].leased = req[t].leased
    BY <1>9, DispatchDoes DEF Dispatch, gateVars, callVars, Keeps
  <2>2. Linked(t) /\ Linked(t)' BY <1>9, DispatchDoes, CountedPcs DEF Linked
  <2>3. req[t].pc \in PastGate /\ req'[t].pc \in PastGate BY <2>2 DEF Linked, PastGate
  <2>4. Gated(t) <=> Gated(t)' BY <2>1, <2>3 DEF Gated, Health, Carries
  <2>5. \A c \in Categories : Holds(t, c) <=> Holds(t, c)' BY <2>1 DEF Holds, Carries
  <2> QED BY <2>1, <2>2, <2>4, <2>5, CountsKept
<1>10. CASE CallReturns(t)
  <2>1. /\ conns' = conns /\ inFlight' = inFlight /\ used' = used
        /\ Others(t) /\ Carries(t) /\ req'[t].leased = req[t].leased
    BY <1>10, CallReturnsDoes DEF CallReturns, gateVars, callVars, Keeps
  <2>2. Linked(t) /\ Linked(t)' BY <1>10, CallReturnsDoes, CountedPcs DEF Linked
  <2>3. req[t].pc \in PastGate /\ req'[t].pc \in PastGate BY <2>2 DEF Linked, PastGate
  <2>4. Gated(t) <=> Gated(t)' BY <2>1, <2>3 DEF Gated, Health, Carries
  <2>5. \A c \in Categories : Holds(t, c) <=> Holds(t, c)' BY <2>1 DEF Holds, Carries
  <2> QED BY <2>1, <2>2, <2>4, <2>5, CountsKept
<1>11. CASE BackoffEnds(t)
  <2>1. /\ conns' = conns /\ inFlight' = inFlight /\ used' = used
        /\ Others(t) /\ Carries(t) /\ req'[t].leased = req[t].leased
    BY <1>11, BackoffEndsDoes DEF BackoffEnds, gateVars, callVars, Keeps
  <2>2. Linked(t) /\ Linked(t)' BY <1>11, BackoffEndsDoes, CountedPcs DEF Linked
  <2>3. req[t].pc \in PastGate /\ req'[t].pc \in PastGate BY <2>2 DEF Linked, PastGate
  <2>4. Gated(t) <=> Gated(t)' BY <2>1, <2>3 DEF Gated, Health, Carries
  <2>5. \A c \in Categories : Holds(t, c) <=> Holds(t, c)' BY <2>1 DEF Holds, Carries
  <2> QED BY <2>1, <2>2, <2>4, <2>5, CountsKept
<1>8. CASE Admit(t)
  <2>1. /\ conns' = conns /\ inFlight' = inFlight /\ Others(t) /\ Carries(t)
        /\ req[t].pc = "admit" /\ req'[t].pc \in {"leave", "dispatch"}
        /\ ~req[t].leased
    BY <1>8, AdmitDoes DEF Admit, gateVars, Leases
  <2>2. Linked(t) /\ Linked(t)' /\ (Gated(t) <=> Gated(t)')
    BY <2>1, CountedPcs DEF Linked, Gated, Health, Carries
  <2>3. /\ used' \in SlotUse
        /\ \A c \in Categories : used'[c] = Cardinality(Holding(c)')
    <3>1. CASE used' = used /\ req'[t].leased = req[t].leased
      BY <2>1, <3>1, SlotsKept DEF Holds, Carries
    <3>2. CASE /\ used[req[t].route.svc] < Slots[req[t].route.svc]
               /\ used' = [used EXCEPT ![req[t].route.svc] = @ + 1]
               /\ req'[t].leased = TRUE
      <4>1. req[t].route.svc \in Categories BY <2>1, RequestFacts DEF Route, Categories
      <4> QED BY <2>1, <3>2, <4>1, SlotTaken DEF Carries
    <3> QED BY <1>8, <3>1, <3>2, AdmitDoes
  <2>4. Cardinality(Linking') = conns BY <1>0, <2>1, <2>2, LinkingAfter
  <2>5. Cardinality(Gating') = inFlight BY <1>0, <2>1, <2>2, GatingAfter
  <2> QED BY <2>1, <2>3, <2>4, <2>5 DEF Counted
<1>12. CASE Leave(t)
  <2>1. /\ conns' = conns - 1 /\ Others(t) /\ req[t].pc = "leave"
        /\ inFlight' = IF Health(t) THEN inFlight ELSE inFlight - 1
    BY <1>12, LeaveDoes DEF Leave
  <2>2. Linked(t) /\ (Gated(t) <=> ~Health(t)) BY <2>1, CountedPcs DEF Linked, Gated
  <2>3. ~Linked(t)' /\ ~Gated(t)' BY <1>12, LeaveDoes, CountedPcs DEF Linked, Gated
  <2>4. Cardinality(Linking') = conns - 1 BY <1>0, <2>1, <2>2, <2>3, LinkingAfter
  <2>5. Cardinality(Gating') = IF Health(t) THEN inFlight ELSE inFlight - 1
    BY <1>0, <2>1, <2>2, <2>3, GatingAfter
  <2>6. /\ used' \in SlotUse
        /\ \A c \in Categories : used'[c] = Cardinality(Holding(c)')
    <3>1. CASE Release(t) /\ req'[t].leased = FALSE BY <1>s, <2>1, <3>1, SlotReleased
    <3>2. CASE used' = used /\ Keeps(t) BY <2>1, <3>2, SlotsKept DEF Holds, Keeps, Carries
    <3> QED BY <1>12, <3>1, <3>2, LeaveDoes
  <2> QED BY <2>1, <2>4, <2>5, <2>6 DEF Counted
<1>13. CASE NextChunk(t)
  <2>1. conns' = conns /\ inFlight' = inFlight /\ Others(t)
    BY <1>13, NextChunkDoes DEF NextChunk, gateVars
  <2>2. ~Linked(t) /\ ~Gated(t) /\ ~Linked(t)' /\ ~Gated(t)'
    BY <1>13, NextChunkDoes, CountedPcs DEF Linked, Gated
  <2>3. Cardinality(Linking') = conns BY <1>0, <2>1, <2>2, LinkingAfter
  <2>4. Cardinality(Gating') = inFlight BY <1>0, <2>1, <2>2, GatingAfter
  <2>5. /\ used' \in SlotUse
        /\ \A c \in Categories : used'[c] = Cardinality(Holding(c)')
    <3>1. CASE Release(t) /\ req'[t].leased = FALSE BY <1>s, <2>1, <3>1, SlotReleased
    <3>2. CASE used' = used /\ Carries(t) /\ req'[t].leased = req[t].leased
      BY <2>1, <3>2, SlotsKept DEF Holds, Carries
    <3> QED BY <1>13, <3>1, <3>2, NextChunkDoes DEF Keeps
  <2> QED BY <2>1, <2>3, <2>4, <2>5 DEF Counted
<1>14. CASE ChunkReturns(t)
  <2>1. conns' = conns /\ inFlight' = inFlight /\ Others(t)
    BY <1>14, ChunkReturnsDoes DEF ChunkReturns, gateVars
  <2>2. ~Linked(t) /\ ~Gated(t) /\ ~Linked(t)' /\ ~Gated(t)'
    BY <1>14, ChunkReturnsDoes, CountedPcs DEF Linked, Gated
  <2>3. Cardinality(Linking') = conns BY <1>0, <2>1, <2>2, LinkingAfter
  <2>4. Cardinality(Gating') = inFlight BY <1>0, <2>1, <2>2, GatingAfter
  <2>5. /\ used' \in SlotUse
        /\ \A c \in Categories : used'[c] = Cardinality(Holding(c)')
    <3>1. CASE Release(t) /\ req'[t].leased = FALSE BY <1>s, <2>1, <3>1, SlotReleased
    <3>2. CASE used' = used /\ Carries(t) /\ req'[t].leased = req[t].leased
      BY <2>1, <3>2, SlotsKept DEF Holds, Carries
    <3> QED BY <1>14, <3>1, <3>2, ChunkReturnsDoes DEF Keeps
  <2> QED BY <2>1, <2>3, <2>4, <2>5 DEF Counted
<1> QED BY <1>1, <1>2, <1>3, <1>4, <1>5, <1>6, <1>7, <1>8, <1>9, <1>10, <1>11,
            <1>12, <1>13, <1>14 DEF Step

(* Every step keeps the counters exact. *)
LEMMA CountedNext == Typed /\ Leases /\ Counted /\ [Next]_vars => Counted'
<1> SUFFICES ASSUME Typed, Leases, Counted, [Next]_vars PROVE Counted' OBVIOUS
<1>1. ASSUME NEW t \in Threads, Receive(t) PROVE Counted'
  <2>1. /\ conns' = conns /\ inFlight' = inFlight /\ used' = used /\ Others(t)
        /\ req[t].pc = "idle" /\ ~req[t].leased /\ ~req'[t].leased
    BY <1>1, ReceiveDoes DEF Receive, gateVars, callVars, Leases
  <2>2. ~Linked(t) /\ ~Gated(t) /\ ~Linked(t)' /\ ~Gated(t)'
    BY <1>1, ReceiveDoes, CountedPcs DEF Linked, Gated, Health
  <2> QED BY <2>1, <2>2, CountsKept DEF Holds
<1>2. ASSUME NEW t \in Threads, Step(t) PROVE Counted' BY <1>2, CountedStep
<1>3. ASSUME NEW i \in RequestIds, CancelRequest(i) PROVE Counted'
  <2>1. PICK t \in Threads : Others(t) /\ Keeps(t) /\ req'[t].pc = req[t].pc
    BY <1>3, CancelRequestDoes
  <2>2. conns' = conns /\ inFlight' = inFlight /\ used' = used
    BY <1>3 DEF CancelRequest, gateVars, callVars
  <2>3. (Linked(t) <=> Linked(t)') /\ (Gated(t) <=> Gated(t)')
    BY <2>1 DEF Linked, Gated, Health, Keeps, Carries
  <2>4. \A c \in Categories : Holds(t, c) <=> Holds(t, c)' BY <2>1 DEF Holds, Keeps, Carries
  <2> QED BY <2>1, <2>2, <2>3, <2>4, CountsKept
<1>4. CASE Tick \/ RevokeSession \/ Main \/ UNCHANGED vars
  <2>1. req' = req /\ conns' = conns /\ inFlight' = inFlight /\ used' = used
    BY <1>4
    DEF Tick, RevokeSession, Main, StartDrain, DrainEnds, StopServer,
        JoinWorkers, Exited, vars, gateVars, callVars
  <2>2. Linking' = Linking /\ Gating' = Gating
    BY <2>1 DEF Linking, Gating, Linked, Gated, Health
  <2>3. \A c \in Categories : Holding(c)' = Holding(c) BY <2>1 DEF Holding, Holds
  <2> QED BY <2>1, <2>2, <2>3 DEF Counted
<1> QED BY <1>1, <1>2, <1>3, <1>4 DEF Next
-----------------------------------------------------------------------------
(***************************************************************************)
(* Drain and shutdown                                                      *)
(***************************************************************************)

(* What main and the arrivals keep. *)
Served ==
  /\ server \in {"running", "draining", "drained", "timedOut", "stopping", "closed"}
  /\ drainAt \in 0..now /\ arrived \in 0..load.requests
  /\ server = "drained" => \A t \in Threads : req[t].pc \in PastGate => Health(t)

(* A thread can pass the gate of a drained gateway only with a health check. *)
LEMMA DrainedAfter ==
  ASSUME Served, NEW t \in Threads, Others(t), server' = server,
         server = "drained" /\ req'[t].pc \in PastGate =>
           Health(t)' \/ (req[t].pc \in PastGate /\ Carries(t))
  PROVE  server' = "drained" => \A u \in Threads : req'[u].pc \in PastGate => Health(u)'
  BY DEF Served, Others, Health, Carries

(* Every step of a thread keeps a reported drain true. *)
LEMMA ServedStep ==
  ASSUME Typed, Served, NEW t \in Threads, Step(t)
  PROVE  Served'
<1>1. /\ server' = server /\ drainAt' = drainAt /\ now' = now
      /\ arrived' = arrived /\ load' = load
  BY DEF Step, CountInFlight, Recheck, LimitResources, Authenticate,
         ValidateSession, StoreInCache, RateLimit, Admit, Dispatch, CallReturns,
         BackoffEnds, Leave, NextChunk, ChunkReturns, gateVars
<1>2. Others(t)
  BY CountInFlightDoes, RecheckDoes, LimitResourcesDoes, AuthenticateDoes,
     ValidateSessionDoes, StoreInCacheDoes, RateLimitDoes, AdmitDoes, DispatchDoes,
     CallReturnsDoes, BackoffEndsDoes, LeaveDoes, NextChunkDoes, ChunkReturnsDoes
  DEF Step
<1>3. server = "drained" /\ req'[t].pc \in PastGate =>
        Health(t)' \/ (req[t].pc \in PastGate /\ Carries(t))
  <2>1. CASE CountInFlight(t) BY <2>1, CountInFlightDoes, CountedPcs DEF Keeps
  <2>2. CASE Recheck(t) BY <2>2, RecheckDoes, CountedPcs DEF Keeps, Draining
  <2>3. CASE LimitResources(t) BY <2>3, LimitResourcesDoes, CountedPcs DEF Keeps
  <2>4. CASE Authenticate(t) BY <2>4, AuthenticateDoes, CountedPcs DEF Keeps
  <2>5. CASE ValidateSession(t) BY <2>5, ValidateSessionDoes, CountedPcs DEF Keeps
  <2>6. CASE StoreInCache(t) BY <2>6, StoreInCacheDoes, CountedPcs DEF Keeps
  <2>7. CASE RateLimit(t) BY <2>7, RateLimitDoes, CountedPcs DEF Keeps
  <2>8. CASE Admit(t) BY <2>8, AdmitDoes, CountedPcs DEF Keeps
  <2>9. CASE Dispatch(t) BY <2>9, DispatchDoes, CountedPcs DEF Keeps
  <2>10. CASE CallReturns(t) BY <2>10, CallReturnsDoes, CountedPcs DEF Keeps
  <2>11. CASE BackoffEnds(t) BY <2>11, BackoffEndsDoes, CountedPcs DEF Keeps
  <2>12. CASE Leave(t) BY <2>12, LeaveDoes, CountedPcs DEF Keeps
  <2>13. CASE NextChunk(t) BY <2>13, NextChunkDoes, CountedPcs DEF Keeps
  <2>14. CASE ChunkReturns(t) BY <2>14, ChunkReturnsDoes, CountedPcs DEF Keeps
  <2> QED BY <2>1, <2>2, <2>3, <2>4, <2>5, <2>6, <2>7, <2>8, <2>9, <2>10, <2>11,
              <2>12, <2>13, <2>14 DEF Step
<1>4. server' = "drained" => \A u \in Threads : req'[u].pc \in PastGate => Health(u)'
  BY <1>1, <1>2, <1>3, DrainedAfter
<1> QED BY <1>1, <1>4 DEF Served

(* No request in flight: nothing but health checks is past the gate. *)
LEMMA NothingInFlight ==
  ASSUME Counted, inFlight = 0
  PROVE  \A t \in Threads : req[t].pc \in PastGate => Health(t)
<1>1. Gating \subseteq Threads BY DEF Gating
<1>2. IsFiniteSet(Gating) /\ Cardinality(Gating) = 0
  BY <1>1, GatewayAssumption, FS_Subset DEF Counted
<1>3. Gating = {} BY <1>2, FS_EmptySet
<1> QED BY <1>3 DEF Gating, Gated

(* Every step keeps it. *)
LEMMA ServedNext == Typed /\ Counted /\ Served /\ [Next]_vars => Served'
<1> SUFFICES ASSUME Typed, Counted, Served, [Next]_vars PROVE Served' OBVIOUS
<1>0. now \in Nat /\ load.requests \in Nat BY GatewayAssumption DEF Typed, Workload
<1>1. ASSUME NEW t \in Threads, Receive(t) PROVE Served'
  <2>1. /\ server' = server /\ drainAt' = drainAt /\ now' = now
        /\ arrived < load.requests /\ arrived' = arrived + 1 /\ load' = load
    BY <1>1 DEF Receive, gateVars
  <2>2. Others(t) /\ (req'[t].pc \in PastGate => Health(t)')
    BY <1>1, ReceiveDoes, CountedPcs DEF Health
  <2>3. server' = "drained" => \A u \in Threads : req'[u].pc \in PastGate => Health(u)'
    BY <2>1, <2>2, DrainedAfter
  <2> QED BY <1>0, <2>1, <2>3 DEF Served
<1>2. ASSUME NEW t \in Threads, Step(t) PROVE Served' BY <1>2, ServedStep
<1>3. ASSUME NEW i \in RequestIds, CancelRequest(i) PROVE Served'
  <2>1. PICK t \in Threads : Others(t) /\ Keeps(t) /\ req'[t].pc = req[t].pc
    BY <1>3, CancelRequestDoes
  <2>2. /\ server' = server /\ drainAt' = drainAt /\ now' = now
        /\ arrived' = arrived /\ load' = load
    BY <1>3 DEF CancelRequest, gateVars
  <2>3. server' = "drained" => \A u \in Threads : req'[u].pc \in PastGate => Health(u)'
    BY <2>1, <2>2, DrainedAfter DEF Keeps
  <2> QED BY <2>2, <2>3 DEF Served
<1>4. CASE Tick BY <1>0, <1>4 DEF Tick, Served, gateVars, Health
<1>5. CASE RevokeSession \/ UNCHANGED vars
  BY <1>5 DEF RevokeSession, Served, gateVars, vars, Health
<1>6. CASE StartDrain BY <1>0, <1>6 DEF StartDrain, Served
<1>7. CASE DrainEnds
  <2>1. /\ drainAt' = 0 /\ now' = now /\ arrived' = arrived /\ load' = load
        /\ req' = req /\ server' \in {"drained", "timedOut"}
        /\ server' = "drained" => inFlight = 0
    BY <1>7 DEF DrainEnds
  <2>2. server' = "drained" => \A t \in Threads : req'[t].pc \in PastGate => Health(t)'
    BY <2>1, NothingInFlight DEF Health
  <2> QED BY <1>0, <2>1, <2>2 DEF Served
<1>8. CASE StopServer \/ JoinWorkers \/ Exited
  BY <1>8 DEF StopServer, JoinWorkers, Exited, Served, vars, Health
<1> QED BY <1>1, <1>2, <1>3, <1>4, <1>5, <1>6, <1>7, <1>8 DEF Next, Main
-----------------------------------------------------------------------------
(***************************************************************************)
(* The circuit breakers                                                    *)
(***************************************************************************)

Breaker == [state : {"Closed", "Open", "HalfOpen"}, failures : 0..Threshold,
            probes : 0..Probes, since : Nat]

(* A breaker that is closed has not failed too often. *)
Sound(b) == b \in Breaker /\ (b.state = "Closed" => b.failures < Threshold)

(* The thresholds are positive and a new breaker is sound. *)
LEMMA BreakerConfig ==
  /\ Threshold \in Nat /\ Threshold >= 1 /\ Probes \in Nat /\ Probes >= 1
  /\ Sound(ClosedBreaker)
  BY GatewayAssumption DEF Sound, Breaker, ClosedBreaker

(* Admitting a request keeps a breaker sound ... *)
LEMMA AdmittingSound ==
  ASSUME NEW b, Sound(b), Allows(b)
  PROVE  Sound(Admitting(b))
<1>0. /\ b \in Breaker /\ b.probes \in 0..Probes /\ b.failures \in 0..Threshold
      /\ b.state \in {"Closed", "Open", "HalfOpen"}
  BY DEF Sound, Breaker
<1>1. CASE b.state = "Closed" BY <1>1 DEF Admitting
<1>2. CASE b.state = "Open"
  <2>1. 1 \in 0..Probes /\ 0 \in Nat BY BreakerConfig
  <2>2. Admitting(b) = [b EXCEPT !.state = "HalfOpen", !.probes = 1, !.since = 0]
    BY <1>2 DEF Admitting
  <2> QED BY <1>0, <2>1, <2>2 DEF Sound, Breaker
<1>3. CASE b.state = "HalfOpen"
  <2>1. b.probes + 1 \in 0..Probes BY <1>0, <1>3, BreakerConfig DEF Allows
  <2>2. Admitting(b) = [b EXCEPT !.probes = b.probes + 1] BY <1>3 DEF Admitting
  <2> QED BY <1>0, <1>3, <2>1, <2>2 DEF Sound, Breaker
<1> QED BY <1>0, <1>1, <1>2, <1>3

(* ... and so does recording its outcome. *)
LEMMA RecordSound ==
  ASSUME NEW b, Sound(b), NEW s, now \in Nat
  PROVE  Sound(RecordStatus(b, s))
<1>0. /\ b \in Breaker /\ b.probes \in 0..Probes /\ b.failures \in 0..Threshold
      /\ b.state \in {"Closed", "Open", "HalfOpen"}
  BY DEF Sound, Breaker
<1>o. /\ Opened(b) \in Breaker /\ Opened(b).state = "Open"
  <2>1. 0 \in 0..Probes BY BreakerConfig
  <2> QED BY <1>0, <2>1 DEF Opened, Breaker
<1>1. Sound(RecordSuccess(b))
  <2>1. CASE b.state = "HalfOpen" BY <2>1, BreakerConfig DEF RecordSuccess
  <2>2. CASE b.state = "Closed"
    BY <1>0, <2>2, BreakerConfig DEF RecordSuccess, Sound, Breaker
  <2>3. CASE b.state = "Open" BY <2>3 DEF RecordSuccess
  <2> QED BY <1>0, <2>1, <2>2, <2>3
<1>2. Sound(RecordFailure(b))
  <2>1. CASE b.state = "HalfOpen" BY <1>o, <2>1 DEF RecordFailure, Sound
  <2>2. CASE b.state = "Closed" /\ b.failures + 1 >= Threshold
    <3>1. b.failures + 1 \in 0..Threshold BY <1>0, <2>2, BreakerConfig DEF Sound
    <3>2. RecordFailure(b) = [Opened(b) EXCEPT !.failures = b.failures + 1]
      BY <1>0, <2>2, BreakerConfig DEF RecordFailure
    <3> QED BY <1>o, <3>1, <3>2 DEF Sound, Breaker
  <2>3. CASE b.state = "Closed" /\ b.failures + 1 < Threshold
    <3>1. b.failures + 1 \in 0..Threshold BY <1>0, <2>3, BreakerConfig
    <3>2. RecordFailure(b) = [b EXCEPT !.failures = b.failures + 1]
      BY <1>0, <2>3, BreakerConfig DEF RecordFailure
    <3> QED BY <1>0, <2>3, <3>1, <3>2 DEF Sound, Breaker
  <2>4. CASE b.state = "Open" BY <2>4 DEF RecordFailure
  <2>5. b.failures + 1 >= Threshold \/ b.failures + 1 < Threshold BY <1>0, BreakerConfig
  <2> QED BY <1>0, <2>1, <2>2, <2>3, <2>4, <2>5
<1>3. RecordStatus(b, s) \in {RecordSuccess(b), RecordFailure(b), b}
  BY DEF RecordStatus, IsTransient
<1> QED BY <1>1, <1>2, <1>3

Breakers ==
  /\ breaker \in [Categories -> Breaker]
  /\ \A c \in Categories : Sound(breaker[c])

(* Every step keeps the breakers sound. *)
LEMMA BreakersNext == Typed /\ Breakers /\ [Next]_vars => Breakers'
<1> SUFFICES ASSUME Typed, Breakers, [Next]_vars PROVE Breakers' OBVIOUS
<1>0. ASSUME NEW c \in Categories, NEW b, Sound(b),
             breaker' = [breaker EXCEPT ![c] = b]
      PROVE  Breakers'
  BY <1>0 DEF Breakers, Sound
<1>1. ASSUME NEW t \in Threads, Admit(t) PROVE Breakers'
  <2>1. req[t].route.svc \in Categories
    BY <1>1, RequestFacts DEF Admit, At, Route, Categories
  <2>2. CASE breaker' = breaker BY <2>2 DEF Breakers
  <2>3. CASE /\ Allows(breaker[req[t].route.svc])
             /\ breaker' = [breaker EXCEPT ![req[t].route.svc] = Admitting(@)]
    BY <1>0, <2>1, <2>3, AdmittingSound DEF Breakers
  <2> QED BY <1>1, <2>2, <2>3 DEF Admit
<1>2. ASSUME NEW t \in Threads, Leave(t) PROVE Breakers'
  <2>1. req[t].route.svc \in Categories /\ now \in Nat
    BY <1>2, RequestFacts DEF Leave, At, Route, Categories
  <2>2. CASE breaker' = breaker BY <2>2 DEF Breakers
  <2>3. CASE breaker' = [breaker EXCEPT ![req[t].route.svc] =
                            RecordStatus(@, req[t].status)]
    BY <1>0, <2>1, <2>3, RecordSound DEF Breakers
  <2> QED BY <1>2, <2>2, <2>3 DEF Leave, RecordOutcome
<1>3. ASSUME NEW t \in Threads, Receive(t) \/ Step(t), ~Admit(t), ~Leave(t)
      PROVE  breaker' = breaker
  BY <1>3 DEF Receive, Step, CountInFlight, Recheck, LimitResources, Authenticate,
         ValidateSession, StoreInCache, RateLimit, Dispatch, CallReturns,
         BackoffEnds, NextChunk, ChunkReturns, callVars
<1>4. ASSUME NEW i \in RequestIds, CancelRequest(i) PROVE breaker' = breaker
  BY <1>4 DEF CancelRequest, callVars
<1>5. CASE Tick \/ RevokeSession \/ Main \/ UNCHANGED vars
  <2>1. breaker' = breaker
    BY <1>5
    DEF Tick, RevokeSession, Main, StartDrain, DrainEnds, StopServer,
        JoinWorkers, Exited, vars, callVars
  <2> QED BY <2>1 DEF Breakers
<1>6. CASE breaker' = breaker BY <1>6 DEF Breakers
<1> QED BY <1>1, <1>2, <1>3, <1>4, <1>5, <1>6 DEF Next, Step
-----------------------------------------------------------------------------
(***************************************************************************)
(* The rate limiter                                                        *)
(***************************************************************************)

(* The list of tracked clients spelled out. *)
LEMMA RateFacts ==
  ASSUME Typed, Rates
  PROVE  /\ Len(lru) \in Nat /\ MaxTracked \in Nat /\ MaxTracked >= 1
         /\ Len(lru) <= MaxTracked
         /\ \A i \in 1..Len(lru) : lru[i] \in Keys
         /\ \A i, j \in 1..Len(lru) : lru[i] = lru[j] => i = j
         /\ Burst \in Nat /\ Burst >= 1 /\ Refill \in Nat /\ now \in Nat
         /\ \A k \in Keys : /\ buckets[k].tokens \in 0..Burst
                             /\ buckets[k].last \in 0..now
                             /\ granted[k] \in Nat
  BY GatewayAssumption DEF Typed, Rates

(* splice: the looked at client moves to the front of the list. *)
LEMMA MovedToFront ==
  ASSUME Typed, Rates, NEW k \in Keys, Tracked(k)
  PROVE  /\ Touched(k) \in Seq(Keys) /\ Len(Touched(k)) = Len(lru)
         /\ \A i, j \in 1..Len(lru) : Touched(k)[i] = Touched(k)[j] => i = j
         /\ \A e \in Keys : Contains(Touched(k), e) <=> Tracked(e)
<1> DEFINE n == Len(lru)
           p == CHOOSE i \in 1..n : lru[i] = k
           from(i) == IF i = 1 THEN p ELSE IF i <= p THEN i - 1 ELSE i
           f == [i \in 1..n |-> CASE i = 1 -> k
                                   [] i > 1 /\ i <= p -> lru[i - 1]
                                   [] OTHER -> lru[i]]
<1>1. p \in 1..n /\ lru[p] = k BY DEF Tracked, Contains
<1>2. Touched(k) = f BY DEF Touched
<1>3. n \in Nat BY RateFacts
<1> HIDE DEF p
<1>4. ASSUME NEW i \in 1..n PROVE from(i) \in 1..n /\ f[i] = lru[from(i)]
  <2>1. CASE i = 1 BY <1>1, <1>3, <2>1
  <2>2. CASE i > 1 /\ i <= p BY <1>1, <1>3, <2>2
  <2>3. CASE i > 1 /\ i > p BY <1>1, <1>3, <2>3
  <2>4. i \in Nat /\ i >= 1 /\ p \in Nat BY <1>1, <1>3
  <2>5. i = 1 \/ (i > 1 /\ i <= p) \/ (i > 1 /\ i > p) BY <2>4
  <2> QED BY <2>1, <2>2, <2>3, <2>5
<1>5. f \in [1..n -> Keys] BY <1>4, RateFacts
<1>6. \A i, j \in 1..n : f[i] = f[j] => from(i) = from(j) BY <1>4, RateFacts
<1>7. \A i, j \in 1..n : from(i) = from(j) => i = j BY <1>1, <1>3
<1>8. ASSUME NEW i \in 1..n PROVE \E j \in 1..n : from(j) = i
  <2>1. i \in Nat /\ i >= 1 /\ i <= n /\ p \in Nat /\ p >= 1 /\ p <= n BY <1>1, <1>3
  <2>2. CASE i = p
    <3>1. 1 \in 1..n /\ from(1) = i BY <1>3, <2>1, <2>2
    <3> QED BY <3>1
  <2>3. CASE i < p
    <3>1. i + 1 \in 1..n /\ from(i + 1) = i BY <1>3, <2>1, <2>3
    <3> QED BY <3>1
  <2>4. CASE i > p
    <3>1. i \in 1..n /\ from(i) = i BY <1>3, <2>1, <2>4
    <3> QED BY <3>1
  <2> QED BY <2>1, <2>2, <2>3, <2>4
<1> HIDE DEF f, from
<1>9. Touched(k) \in Seq(Keys) /\ Len(Touched(k)) = n BY <1>2, <1>3, <1>5
<1>10. ASSUME NEW e \in Keys PROVE Contains(Touched(k), e) <=> Tracked(e)
  <2>1. ASSUME NEW i \in 1..n, lru[i] = e PROVE \E j \in 1..n : f[j] = e BY <1>4, <1>8, <2>1
  <2>2. ASSUME NEW j \in 1..n, f[j] = e PROVE \E i \in 1..n : lru[i] = e BY <1>4, <2>2
  <2> QED BY <1>2, <1>9, <2>1, <2>2 DEF Contains, Tracked
<1> QED BY <1>2, <1>6, <1>7, <1>9, <1>10

(* push_front: a new client enters there, and the oldest may leave. *)
LEMMA EnteredInFront ==
  ASSUME Typed, Rates, NEW k \in Keys, ~Tracked(k)
  PROVE  /\ Touched(k) \in Seq(Keys) /\ Len(Touched(k)) <= MaxTracked
         /\ \A i, j \in 1..Len(Touched(k)) : Touched(k)[i] = Touched(k)[j] => i = j
         /\ Contains(Touched(k), k)
         /\ Len(lru) < MaxTracked =>
              \A e \in Keys : Contains(Touched(k), e) <=> e = k \/ Tracked(e)
<1> DEFINE n == Len(lru)
           m == IF n < MaxTracked THEN n ELSE MaxTracked - 1
           f == [i \in 1..m + 1 |-> IF i = 1 THEN k ELSE lru[i - 1]]
<1>1. Touched(k) = f BY DEF Touched
<1>2. m \in Nat /\ m <= n /\ m + 1 <= MaxTracked /\ (n < MaxTracked => m = n)
      /\ n \in Nat
  BY RateFacts
<1>3. \A i \in 1..n : lru[i] # k BY DEF Tracked, Contains
<1> HIDE DEF m
<1>4. \A i \in 1..m + 1 : i # 1 => i - 1 \in 1..n BY <1>2
<1>5. f \in [1..m + 1 -> Keys] BY <1>4, RateFacts
<1>6. ASSUME NEW i \in 1..m + 1, NEW j \in 1..m + 1, f[i] = f[j] PROVE i = j
  <2>1. CASE i = 1 \/ j = 1 BY <1>3, <1>4, <1>6, <2>1
  <2>2. CASE i # 1 /\ j # 1
    <3>1. lru[i - 1] = lru[j - 1] /\ i - 1 \in 1..n /\ j - 1 \in 1..n BY <1>4, <1>6, <2>2
    <3>2. i - 1 = j - 1 BY <3>1, RateFacts
    <3> QED BY <1>2, <3>2
  <2> QED BY <2>1, <2>2
<1>7. 1 \in 1..m + 1 /\ f[1] = k BY <1>2
<1>8. ASSUME n < MaxTracked, NEW e \in Keys
      PROVE  (\E i \in 1..m + 1 : f[i] = e) <=> e = k \/ (\E i \in 1..n : lru[i] = e)
  <2>0. m = n BY <1>2, <1>8
  <2>1. ASSUME NEW i \in 1..n, lru[i] = e PROVE \E j \in 1..m + 1 : f[j] = e
    <3>1. i + 1 \in 1..m + 1 /\ f[i + 1] = lru[i] BY <1>2, <2>0
    <3> QED BY <2>1, <3>1
  <2>2. ASSUME NEW j \in 1..m + 1, f[j] = e PROVE e = k \/ \E i \in 1..n : lru[i] = e
    BY <1>4, <2>2
  <2> QED BY <1>7, <2>1, <2>2
<1> HIDE DEF f
<1>9. Touched(k) \in Seq(Keys) /\ Len(Touched(k)) = m + 1 BY <1>1, <1>2, <1>5
<1> QED BY <1>1, <1>2, <1>6, <1>7, <1>8, <1>9 DEF Contains, Tracked

(* With room for every client nobody is ever forgotten. *)
LEMMA RoomForAll ==
  ASSUME Typed, Rates, NEW k \in Keys, ~Tracked(k), MaxTracked >= 2
  PROVE  Len(lru) < MaxTracked
<1> SUFFICES ASSUME Len(lru) >= 2 PROVE FALSE BY RateFacts
<1>1. 1 \in 1..Len(lru) /\ 2 \in 1..Len(lru) BY RateFacts
<1>2. lru[1] # lru[2] /\ lru[1] \in Keys /\ lru[2] \in Keys BY <1>1, RateFacts
<1>3. lru[1] # k /\ lru[2] # k BY <1>1 DEF Tracked, Contains
<1> QED BY <1>2, <1>3 DEF Keys

(* What a full or a refilled bucket holds, and that refilling pays for it. *)
LEMMA Products ==
  ASSUME NEW a \in Nat, NEW b \in Nat, NEW c \in Nat
  PROVE  /\ a * b \in Nat
         /\ a <= b => a * c <= b * c
         /\ a <= b => (b - a) * c = b * c - a * c
         /\ a * b = b * a
<1>1. a * b \in Nat /\ a * c \in Nat /\ b * c \in Nat /\ a * b = b * a OBVIOUS
<1>2. (b - a) * c = b * c - a * c OBVIOUS
<1>3. ASSUME a <= b PROVE a * c <= b * c
  <2>1. b - a \in Nat BY <1>3
  <2>2. (b - a) * c \in Nat BY <2>1
  <2> QED BY <1>1, <1>2, <2>2
<1> QED BY <1>1, <1>2, <1>3

(* An effective rate is at least the refill, and fills the bucket of a      *)
(* client within its lifetime.                                              *)
LEMMA RateType ==
  ASSUME NEW r \in EffectiveRates
  PROVE  r \in Nat /\ r >= Refill /\ r * ClientTtl >= Burst
  BY GatewayAssumption DEF EffectiveRates

(* A client can spend what its bucket holds ... *)
LEMMA AvailableType ==
  ASSUME Typed, Rates, NEW k \in Keys
  PROVE  Available(k) \in 0..Burst
<1> DEFINE n == now - buckets[k].last
           x == n * Refill
<1>0. /\ Burst \in Nat /\ Refill \in Nat /\ now \in Nat
      /\ buckets[k].tokens \in 0..Burst /\ buckets[k].last \in Nat
      /\ buckets[k].last <= now
  BY RateFacts, GatewayAssumption
<1>1. n \in Nat BY <1>0
<1>2. x \in Nat
  <2> HIDE DEF n
  <2> QED BY <1>0, <1>1, Products
<1>3. Refilled(k) = IF n >= ClientTtl \/ buckets[k].tokens + x > Burst THEN Burst
                    ELSE buckets[k].tokens + x
  BY DEF Refilled
<1> HIDE DEF x, n
<1> QED BY <1>0, <1>2, <1>3 DEF Available

(* ... which is what it held and what was earned since at an effective rate. *)
LEMMA AvailableBounds ==
  ASSUME Typed, Rates, NEW k \in Keys, NEW r \in EffectiveRates, Tracked(k)
  PROVE  Available(k) <= buckets[k].tokens + (r * now - r * buckets[k].last)
<1> DEFINE n == now - buckets[k].last
           x == n * Refill
           z == n * r
<1>0. /\ Burst \in Nat /\ Refill \in Nat /\ now \in Nat /\ ClientTtl \in Nat
      /\ r \in Nat /\ r >= Refill /\ r * ClientTtl >= Burst
      /\ buckets[k].tokens \in 0..Burst /\ buckets[k].last \in Nat
      /\ buckets[k].last <= now
  BY RateFacts, RateType, GatewayAssumption
<1>1. n \in Nat BY <1>0
<1>2. z = r * now - r * buckets[k].last BY <1>0, Products
<1>3. x \in Nat /\ z \in Nat /\ x <= z
  <2> HIDE DEF n
  <2>1. Refill * n <= r * n BY <1>0, <1>1, Products
  <2>2. x = Refill * n /\ z = r * n /\ x \in Nat /\ z \in Nat BY <1>0, <1>1, Products
  <2> QED BY <2>1, <2>2
<1>4. n >= ClientTtl => z >= Burst
  <2> HIDE DEF n
  <2>1. n >= ClientTtl => ClientTtl * r <= z BY <1>0, <1>1, Products
  <2>2. ClientTtl * r \in Nat /\ ClientTtl * r = r * ClientTtl BY <1>0, Products
  <2> HIDE DEF z
  <2> QED BY <1>0, <1>3, <2>1, <2>2
<1>5. Refilled(k) = IF n >= ClientTtl \/ buckets[k].tokens + x > Burst THEN Burst
                    ELSE buckets[k].tokens + x
  BY DEF Refilled
<1> HIDE DEF x, z, n
<1>6. Refilled(k) <= buckets[k].tokens + z BY <1>0, <1>3, <1>4, <1>5
<1> QED BY <1>2, <1>6 DEF Available

(* The key a request is counted under. *)
LEMMA KeyType ==
  ASSUME NEW t PROVE ResolveClientKey(t) \in Keys
  BY DEF ResolveClientKey, Keys

(* What a look at the bucket of k writes. *)
LEMMA AcquireDoes ==
  ASSUME Typed, Rates, NEW k \in Keys, NEW a \in BOOLEAN, a <=> Available(k) >= 1,
         Acquire(k, a), now' = now
  PROVE  /\ Rates'
         /\ \A e \in Keys : e # k => /\ granted'[e] = granted[e]
                                     /\ buckets'[e] = buckets[e]
         /\ buckets'[k].last = now
         /\ granted'[k] + buckets'[k].tokens = granted[k] + Available(k)
<1> DEFINE w == IF a THEN Available(k) - 1 ELSE Available(k)
           g == IF a THEN granted[k] + 1 ELSE granted[k]
<1>0. /\ Burst \in Nat /\ now \in Nat /\ granted[k] \in Nat
      /\ Available(k) \in 0..Burst
  BY RateFacts, AvailableType
<1>1. w \in 0..Burst /\ g \in Nat /\ g + w = granted[k] + Available(k)
      /\ now \in 0..now
  BY <1>0
<1>2. /\ buckets' = [buckets EXCEPT ![k] = [tokens |-> w, last |-> now]]
      /\ granted' = [granted EXCEPT ![k] = g] /\ lru' = Touched(k)
  BY DEF Acquire
<1> HIDE DEF w, g
<1>3. [tokens |-> w, last |-> now] \in [tokens : 0..Burst, last : 0..now] BY <1>1
<1>4. /\ buckets \in [Keys -> [tokens : 0..Burst, last : 0..now]]
      /\ granted \in [Keys -> Nat]
  BY DEF Rates
<1>5. /\ buckets' \in [Keys -> [tokens : 0..Burst, last : 0..now]]
      /\ granted' \in [Keys -> Nat]
      /\ \A e \in Keys : e # k => /\ granted'[e] = granted[e]
                                  /\ buckets'[e] = buckets[e]
      /\ buckets'[k].last = now /\ buckets'[k].tokens = w /\ granted'[k] = g
  BY <1>1, <1>2, <1>3, <1>4
<1>6. /\ lru' \in Seq(Keys) /\ Len(lru') <= MaxTracked
      /\ \A i, j \in 1..Len(lru') : lru'[i] = lru'[j] => i = j
  <2>1. CASE Tracked(k) BY <1>2, <2>1, MovedToFront DEF Rates
  <2>2. CASE ~Tracked(k) BY <1>2, <2>2, EnteredInFront
  <2> QED BY <2>1, <2>2
<1> QED BY <1>1, <1>5, <1>6 DEF Rates

(* Only one action touches the buckets. *)
LEMMA RatesQuiet ==
  ASSUME Typed, NEW t \in Threads, Receive(t) \/ Step(t), ~RateLimit(t)
  PROVE  rateVars' = rateVars /\ now' = now
<1>1. CASE Receive(t) BY ONLY <1>1 DEF Receive
<1>2. CASE ValidateSession(t)
  <2>1. now' = now BY <1>2, Zenon DEF ValidateSession
  <2>2. rateVars' = rateVars BY <1>2, Zenon DEF ValidateSession
  <2> QED BY <2>1, <2>2
<1>3. CASE CountInFlight(t) BY <1>3 DEF CountInFlight, rateVars
<1>4. CASE Recheck(t) BY <1>4 DEF Recheck, rateVars
<1>5. CASE LimitResources(t) BY <1>5 DEF LimitResources, rateVars
<1>6. CASE Authenticate(t) BY <1>6 DEF Authenticate, rateVars
<1>7. CASE StoreInCache(t) BY <1>7 DEF StoreInCache, rateVars
<1>8. CASE Admit(t) BY <1>8 DEF Admit, rateVars
<1>9. CASE Dispatch(t) BY <1>9 DEF Dispatch, rateVars
<1>10. CASE CallReturns(t) BY <1>10 DEF CallReturns, rateVars
<1>11. CASE BackoffEnds(t) BY <1>11 DEF BackoffEnds, rateVars
<1>12. CASE Leave(t) BY <1>12 DEF Leave, rateVars
<1>13. CASE NextChunk(t) BY <1>13 DEF NextChunk, rateVars
<1>14. CASE ChunkReturns(t) BY <1>14 DEF ChunkReturns, rateVars
<1> QED BY <1>1, <1>2, <1>3, <1>4, <1>5, <1>6, <1>7, <1>8, <1>9, <1>10, <1>11,
            <1>12, <1>13, <1>14 DEF Step

(* Every step keeps the types of the rate limiter. *)
LEMMA RatesNext == Typed /\ Rates /\ [Next]_vars => Rates'
<1> SUFFICES ASSUME Typed, Rates, [Next]_vars PROVE Rates' OBVIOUS
<1>0. CASE rateVars' = rateVars /\ now' = now BY <1>0 DEF rateVars, Rates
<1>1. ASSUME NEW t \in Threads, RateLimit(t) PROVE Rates'
  <2>1. now' = now BY <1>1 DEF RateLimit
  <2>2. PICK a \in BOOLEAN : a <=> Available(ResolveClientKey(t)) >= 1 OBVIOUS
  <2>3. Acquire(ResolveClientKey(t), a) BY <1>1, <2>2 DEF RateLimit, Acquire
  <2> QED BY <2>1, <2>2, <2>3, KeyType, AcquireDoes
<1>2. CASE Tick
  <2>1. /\ buckets' = buckets /\ lru' = lru /\ granted' = granted
        /\ now' = now + 1 /\ now \in Nat
    BY <1>2 DEF Tick, rateVars, Typed
  <2>2. \A n \in 0..now : n \in 0..now' BY <2>1
  <2>3. buckets' \in [Keys -> [tokens : 0..Burst, last : 0..now']] BY <2>1, <2>2 DEF Rates
  <2> QED BY <2>1, <2>3 DEF Rates
<1>3. ASSUME NEW t \in Threads, Receive(t) \/ Step(t), ~RateLimit(t)
      PROVE  rateVars' = rateVars /\ now' = now
  BY <1>3, RatesQuiet
<1>4. ASSUME NEW i \in RequestIds, CancelRequest(i)
      PROVE  rateVars' = rateVars /\ now' = now
  BY <1>4 DEF CancelRequest, rateVars
<1>5. ASSUME RevokeSession \/ Main \/ UNCHANGED vars
      PROVE  rateVars' = rateVars /\ now' = now
  BY <1>5 DEF RevokeSession, Main, StartDrain, DrainEnds, StopServer,
        JoinWorkers, Exited, vars, rateVars
<1> QED BY <1>0, <1>1, <1>2, <1>3, <1>4, <1>5 DEF Next, Step

(* With room for every client, every step keeps what was earned. *)
LEMMA EarnedNext ==
  ASSUME MaxTracked >= 2
  PROVE  Typed /\ Rates /\ Earned /\ [Next]_vars => Earned'
<1> SUFFICES ASSUME Typed, Rates, Earned, [Next]_vars PROVE Earned' OBVIOUS
<1>0. CASE rateVars' = rateVars BY <1>0 DEF rateVars, Earned, Tracked, EffectiveRates
<1>1. ASSUME NEW t \in Threads, RateLimit(t) PROVE Earned'
  <2> DEFINE k == ResolveClientKey(t)
  <2>1. now' = now /\ k \in Keys BY <1>1, KeyType DEF RateLimit
  <2>2. PICK a \in BOOLEAN : a <=> Available(k) >= 1 OBVIOUS
  <2>3. Acquire(k, a) /\ lru' = Touched(k) BY <1>1, <2>2 DEF RateLimit, Acquire
  <2> HIDE DEF k
  <2>4. /\ \A e \in Keys : e # k => /\ granted'[e] = granted[e]
                                    /\ buckets'[e] = buckets[e]
        /\ buckets'[k].last = now
        /\ granted'[k] + buckets'[k].tokens = granted[k] + Available(k)
    BY <2>1, <2>2, <2>3, AcquireDoes
  <2>5. \A e \in Keys : Contains(lru', e) <=> e = k \/ Tracked(e)
    <3>1. CASE Tracked(k) BY <2>1, <2>3, <3>1, MovedToFront
    <3>2. CASE ~Tracked(k) BY <2>1, <2>3, <3>2, RoomForAll, EnteredInFront
    <3> QED BY <3>1, <3>2
  <2>6. ASSUME NEW r \in EffectiveRates
        PROVE  granted[k] + Available(k) <= Burst + r * now
    <3>1. /\ granted[k] \in Nat /\ Available(k) \in 0..Burst /\ Burst \in Nat
          /\ buckets[k].tokens \in 0..Burst /\ buckets[k].last \in Nat
          /\ r \in Nat /\ now \in Nat
      BY <2>1, RateFacts, AvailableType, RateType
    <3>2. r * now \in Nat /\ r * buckets[k].last \in Nat BY <3>1, Products
    <3>3. CASE Tracked(k)
      <4>1. granted[k] + buckets[k].tokens <= Burst + r * buckets[k].last
        BY <2>1, <3>3 DEF Earned
      <4>2. Available(k) <= buckets[k].tokens + (r * now - r * buckets[k].last)
        BY <2>1, <3>3, AvailableBounds
      <4> QED BY <3>1, <3>2, <4>1, <4>2
    <3>4. CASE ~Tracked(k)
      <4>1. granted[k] = 0 BY <2>1, <3>4 DEF Earned
      <4> QED BY <3>1, <3>2, <4>1
    <3> QED BY <3>3, <3>4
  <2>7. ASSUME NEW r \in EffectiveRates, NEW e \in Keys
        PROVE  IF Tracked(e)'
               THEN granted'[e] + buckets'[e].tokens <= Burst + r * buckets'[e].last
               ELSE granted'[e] = 0
    <3>1. Tracked(e)' <=> e = k \/ Tracked(e) BY <2>5 DEF Tracked
    <3>2. CASE e = k BY <2>4, <2>6, <3>1, <3>2
    <3>3. CASE e # k BY <2>4, <3>1, <3>3 DEF Earned
    <3> QED BY <3>2, <3>3
  <2> QED BY <2>7 DEF Earned, EffectiveRates
<1>2. CASE Tick \/ RevokeSession \/ Main \/ UNCHANGED vars
  <2>1. rateVars' = rateVars
    BY <1>2 DEF Tick, RevokeSession, Main, StartDrain, DrainEnds, StopServer,
        JoinWorkers, Exited, vars, rateVars
  <2> QED BY <1>0, <2>1
<1>3. ASSUME NEW t \in Threads, Receive(t) \/ Step(t), ~RateLimit(t)
      PROVE  rateVars' = rateVars
  BY <1>3, RatesQuiet
<1>4. ASSUME NEW i \in RequestIds, CancelRequest(i) PROVE rateVars' = rateVars
  BY <1>4 DEF CancelRequest, rateVars
<1> QED BY <1>0, <1>1, <1>2, <1>3, <1>4 DEF Next, Step

(* What was earned stays within the burst and the effective rate. *)
LEMMA EarnedBounds == Typed /\ Rates /\ Earned => RateBounded
<1> SUFFICES ASSUME Typed, Rates, Earned, NEW k \in Keys,
                    NEW r \in EffectiveRates
             PROVE  granted[k] <= Burst + r * now
  BY DEF RateBounded
<1>1. /\ granted[k] \in Nat /\ Burst \in Nat /\ r \in Nat /\ now \in Nat
      /\ buckets[k].tokens \in 0..Burst /\ buckets[k].last \in Nat
      /\ buckets[k].last <= now
  BY RateFacts, RateType
<1>2. /\ r * now \in Nat /\ r * buckets[k].last \in Nat
      /\ r * buckets[k].last <= r * now
  BY <1>1, Products
<1>3. CASE Tracked(k)
  <2>1. granted[k] + buckets[k].tokens <= Burst + r * buckets[k].last BY <1>3 DEF Earned
  <2> QED BY <1>1, <1>2, <2>1
<1>4. CASE ~Tracked(k)
  <2>1. granted[k] = 0 BY <1>4 DEF Earned
  <2> QED BY <1>1, <1>2, <2>1
<1> QED BY <1>3, <1>4
-----------------------------------------------------------------------------
(***************************************************************************)
(* The accounts                                                            *)
(***************************************************************************)

(* The invariant of the counters, the drain, the breakers and the buckets. *)
Accounts == Typed /\ CacheFresh /\ Leases /\ Counted /\ Served /\ Breakers /\ Rates

(* It holds when the gateway starts. *)
LEMMA AccountsInit == Init => Accounts /\ Earned
<1> SUFFICES ASSUME Init PROVE Accounts /\ Earned OBVIOUS
<1>1. \A t \in Threads : req[t] = NoRequest /\ req[t].pc = "idle" /\ ~req[t].leased
  BY DEF Init, NoRequest
<1>2. CacheFresh /\ Leases
  BY <1>1, GatewayAssumption DEF Init, CacheFresh, Leases, NoCache, Never
<1>3. Counted
  <2>1. Linking = {} /\ Gating = {} /\ \A c \in Categories : Holding(c) = {}
    BY <1>1 DEF Linking, Linked, Gating, Gated, Holding, Holds, PastGate, Connected
  <2>2. Cardinality({}) = 0 BY FS_EmptySet
  <2>3. used \in SlotUse /\ \A c \in Categories : used[c] = 0
    BY GatewayAssumption DEF Init, SlotUse
  <2> QED BY <2>1, <2>2, <2>3 DEF Counted, Init
<1>4. Served BY <1>1, GatewayAssumption DEF Init, Served, Workload
<1>5. Breakers BY BreakerConfig DEF Init, Breakers, Sound
<1>6. Rates
  <2>1. lru = <<>> /\ Len(lru) = 0 /\ lru \in Seq(Keys) /\ 1..Len(lru) = {} BY DEF Init
  <2>2. [tokens |-> 0, last |-> 0] \in [tokens : 0..Burst, last : 0..now]
    BY GatewayAssumption DEF Init
  <2>3. buckets \in [Keys -> [tokens : 0..Burst, last : 0..now]] BY <2>2 DEF Init
  <2> QED BY <2>1, <2>3, GatewayAssumption DEF Init, Rates
<1>7. Earned BY DEF Init, Earned, Tracked, Contains
<1> QED BY <1>2, <1>3, <1>4, <1>5, <1>6, <1>7, TypedInit DEF Accounts

(* Every step keeps it. *)
LEMMA AccountsNext == Accounts /\ [Next]_vars => Accounts'
  BY TypedNext, FreshNext, LeasesNext, CountedNext, ServedNext, BreakersNext, RatesNext
  DEF Accounts

(* The types of the gateway's state follow. *)
LEMMA AccountsType == Accounts => TypeOK
<1> SUFFICES ASSUME Accounts PROVE TypeOK OBVIOUS
<1>1. inFlight \in 0..Cardinality(Threads) /\ conns \in 0..Cardinality(Threads)
  <2>1. Linking \subseteq Threads /\ Gating \subseteq Threads /\ IsFiniteSet(Threads)
    BY GatewayAssumption DEF Linking, Gating
  <2>2. /\ Cardinality(Linking) <= Cardinality(Threads)
        /\ Cardinality(Gating) <= Cardinality(Threads)
        /\ IsFiniteSet(Linking) /\ IsFiniteSet(Gating)
    BY <2>1, FS_Subset
  <2>3. /\ Cardinality(Threads) \in Nat /\ Cardinality(Linking) \in Nat
        /\ Cardinality(Gating) \in Nat
    BY <2>1, <2>2, FS_CardinalityType
  <2> QED BY <2>2, <2>3 DEF Accounts, Counted
<1>2. \A t \in Threads : req[t].pc \in Pcs BY DEF Accounts, Typed, Request
<1>3. /\ now \in Nat /\ cache.ctx \in Contexts \cup {NoContext} /\ cache.until \in Nat
      /\ active \in [Categories \X RequestIds -> Threads \cup {NoCall}]
  BY DEF Accounts, Typed
<1>4. revokedAt \in {Never} \cup 0..now BY DEF Accounts, CacheFresh
<1>5. /\ buckets \in [Keys -> [tokens : 0..Burst, last : 0..now]]
      /\ Len(lru) <= MaxTracked
  BY DEF Accounts, Rates
<1>6. IsInjective(lru)
  <2>1. DOMAIN lru = 1..Len(lru) BY DEF Accounts, Rates
  <2> QED BY <2>1 DEF Accounts, Rates, IsInjective
<1>7. \A c \in Categories : used[c] \in 0..Slots[c]
  BY GatewayAssumption DEF Accounts, Counted, SlotUse
<1>8. \A c \in Categories :
        /\ breaker[c].state \in {"Closed", "Open", "HalfOpen"}
        /\ breaker[c].probes \in 0..Probes /\ breaker[c].failures \in 0..Threshold
  BY DEF Accounts, Breakers, Breaker
<1>9. /\ drainAt \in 0..now /\ arrived \in 0..load.requests
      /\ server \in {"running", "draining", "drained", "timedOut", "stopping",
                      "closed"}
  BY DEF Accounts, Served
<1> QED BY <1>1, <1>2, <1>3, <1>4, <1>5, <1>6, <1>7, <1>8, <1>9 DEF TypeOK

(* The counters count exactly the requests inside, and a reported drain is  *)
(* true.                                                                   *)
LEMMA AccountsExact == Accounts => CountersExact /\ DrainComplete
<1> SUFFICES ASSUME Accounts PROVE CountersExact /\ DrainComplete OBVIOUS
<1>1. Linking = {t \in Threads : req[t].pc \in Connected} BY DEF Linking, Linked
<1>2. Gating = {t \in Running : /\ req[t].pc \in PastGate \cup {"counted"}
                                /\ ~Health(t)}
  BY DEF Gating, Gated, Running, PastGate, Connected
<1>3. ASSUME NEW c \in Categories
      PROVE  Holding(c) = {t \in Running : req[t].leased /\ req[t].route.svc = c}
  BY DEF Holding, Holds, Running, Accounts, Leases
<1>4. CountersExact BY <1>1, <1>2, <1>3 DEF Accounts, Counted, CountersExact
<1>5. DrainComplete BY DEF Accounts, Served, DrainComplete, Running
<1> QED BY <1>4, <1>5

(* Whatever way and in whatever order any number of requests leave the      *)
(* pipeline, the drain counter, the connection counter and the bulkheads    *)
(* count exactly the requests inside, every counter stays in its range, and *)
(* a drain reported as complete is complete.                                *)
THEOREM CountsAreExact == Spec => [](TypeOK /\ CountersExact /\ DrainComplete)
<1>1. Init => Accounts BY AccountsInit
<1> QED BY <1>1, AccountsNext, AccountsType, AccountsExact, PTL DEF Spec

(* All the accounts of the gateway, for every rate limiter that has room    *)
(* for the clients it serves (with eviction a client that was forgotten     *)
(* starts with a full burst again, so the bound on what it is granted needs *)
(* the room).                                                               *)
THEOREM AccountsAreKept ==
  ASSUME MaxTracked >= 2
  PROVE  Spec => []Accounted
<1>1. Init => Accounts /\ Earned BY AccountsInit
<1>2. Accounts /\ Earned /\ [Next]_vars => (Accounts /\ Earned)'
  BY AccountsNext, EarnedNext DEF Accounts
<1>3. Accounts /\ Earned => Accounted
  BY AccountsType, AccountsExact, EarnedBounds DEF Accounts, Accounted
<1> QED BY <1>1, <1>2, <1>3, PTL DEF Spec
====
