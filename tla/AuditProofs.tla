----------------------------- MODULE AuditProofs -----------------------------
(***************************************************************************)
(* What the audit server guarantees for every number of calls, envelopes,  *)
(* readers and threads, and every size of its queues: an accepted envelope *)
(* is answered exactly once, an acknowledged event is in the table, a      *)
(* reservation has an owner, and a walk over the growing table neither     *)
(* repeats nor skips.                                                      *)
(*                                                                         *)
(* The inductive invariant Inv has a part for the pipeline, one for the    *)
(* ingestion service and one for the queries; they meet in the table, whose*)
(* rows only grow.                                                         *)
(***************************************************************************)
EXTENDS AuditServer, FiniteSetTheorems, TLAPS

-----------------------------------------------------------------------------
(* The pipeline. *)
Stages == {"running", "refusing", "input_closed", "valid_closed", "batch_closed",
           "inserters_joined", "server_closing", "stopped"}
EnvType == [pc : {"idle", "pushing", "accepted", "refused"},
            event : Events \cup {None}, done : Nat, ok : BOOLEAN]

PipelineTyped ==
  /\ env \in [Envelopes -> EnvType]
  /\ inputQ \in Seq(Envelopes) /\ validQ \in Seq(Envelopes)
  /\ active \in Seq(Envelopes) /\ outgoing \in Seq(Envelopes)
  /\ batchQ \in Seq(Seq(Envelopes))
  /\ validator \in [Validators -> Seq(Envelopes)]
  /\ inserter \in [Inserters -> Seq(Envelopes)]
  /\ closed \subseteq {"input", "valid", "batch"}
  /\ stage \in Stages
  /\ draining \in BOOLEAN

(* No queue and no batch exceeds its limit. *)
Limited ==
  /\ Len(inputQ) <= QueueCapacity /\ Len(validQ) <= QueueCapacity
  /\ Len(batchQ) <= BatchCapacity
  /\ \A k \in 1..Len(batchQ) : Len(batchQ[k]) \in 1..BatchSize
  /\ Len(active) <= BatchSize /\ Len(outgoing) <= BatchSize
  /\ \A v \in Validators : Len(validator[v]) <= 1

(* Where an accepted envelope that is not answered yet can be. *)
Spots == {"out", "input", "validator", "valid", "active", "outgoing", "batch",
          "inserter"}

(* The family f of sequences, indexed by D, holds the envelopes that are at *)
(* x, each of them in one place only.                                      *)
Lists(loc, D, f, x) ==
  /\ \A d \in D : \A k \in 1..Len(f[d]) : loc[f[d][k]] = x
  /\ \A c, d \in D : \A j \in 1..Len(f[c]), k \in 1..Len(f[d]) :
       f[c][j] = f[d][k] => c = d /\ j = k
  /\ \A p \in Envelopes : loc[p] = x => \E d \in D : \E k \in 1..Len(f[d]) : f[d][k] = p

One == {0}
Single(q) == [d \in One |-> q]

Placed(loc) ==
  /\ loc \in [Envelopes -> Spots]
  /\ \A p \in Envelopes : loc[p] # "out" <=> env[p].pc = "accepted" /\ env[p].done = 0
  /\ Lists(loc, One, Single(inputQ), "input")
  /\ Lists(loc, Validators, validator, "validator")
  /\ Lists(loc, One, Single(validQ), "valid")
  /\ Lists(loc, One, Single(active), "active")
  /\ Lists(loc, One, Single(outgoing), "outgoing")
  /\ Lists(loc, 1..Len(batchQ), batchQ, "batch")
  /\ Lists(loc, Inserters, inserter, "inserter")

(* A submission is answered at most once, and only when it was accepted.   *)
Answers ==
  \A p \in Envelopes :
    /\ env[p].done <= 1
    /\ env[p].pc # "accepted" => env[p].done = 0
    /\ env[p].pc # "idle" => env[p].event \in Events

(* How far shutdown() has come, and what that leaves behind. *)
Closing ==
  /\ "input" \in closed <=> stage \notin {"running", "refusing"}
  /\ "valid" \in closed <=> stage \notin {"running", "refusing", "input_closed"}
  /\ "batch" \in closed
       <=> stage \notin {"running", "refusing", "input_closed", "valid_closed"}
  /\ draining <=> "valid" \in closed
  /\ \A v \in Validators : v \in joined =>
       "input" \in closed /\ inputQ = <<>> /\ validator[v] = <<>>
  /\ "valid" \in closed => Validators \subseteq joined
  /\ Aggregator \in joined =>
       "valid" \in closed /\ validQ = <<>> /\ active = <<>> /\ outgoing = <<>>
  /\ "batch" \in closed => Aggregator \in joined
  /\ \A w \in Inserters : w \in joined =>
       "batch" \in closed /\ batchQ = <<>> /\ inserter[w] = <<>>
  /\ stage \in {"inserters_joined", "server_closing", "stopped"}
       => Inserters \subseteq joined

Pipeline ==
  /\ PipelineTyped /\ Limited /\ Answers /\ Closing
  /\ \E loc \in [Envelopes -> Spots] : Placed(loc)

-----------------------------------------------------------------------------
(* The ingestion service. *)
Prints == Nat \X Nat \X Nat
WaitType == [event : Events, owner : Calls]
CallType ==
  [kind : {"none", "single", "batch"},
   pc : {"idle", "acquire", "insert", "commit", "rollback", "wait", "answered", "threw"},
   todo : Seq(Events), now : Nat, own : Seq(Events),
   waits : Seq(WaitType), ack : Seq(Events),
   ending : Endings \cup {"none"}, results : SUBSET (Events \X Outcomes)]

EntryType == [id : Ids, fp : Prints, expires : Nat]

IngestionTyped ==
  /\ cached \in BOOLEAN
  /\ inflight \in [Ids -> SUBSET [fp : Prints, owner : Calls]]
  /\ committed \in Seq(EntryType)
  /\ promise \in [Calls -> [Ids -> {"pending"} \cup Outcomes]]
  /\ call \in [Calls -> CallType]

(* The events whose reservation a call has still to resolve. *)
Owed(r) ==
  CASE r.pc \in {"acquire", "insert", "rollback"} -> r.own
    [] r.pc = "commit" -> r.ack
    [] r.pc = "threw" /\ r.kind = "batch" -> r.own
    [] OTHER -> <<>>

Reservation(c, e) == [fp |-> Fingerprint(e), owner |-> c]

(* Reservations and the events that calls owe correspond. *)
Reserved ==
  /\ ~cached => \A i \in Ids : inflight[i] = {}
  /\ cached => \A c \in Calls :
       /\ \A k \in 1..Len(Owed(call[c])) :
            inflight[Owed(call[c])[k].id] = {Reservation(c, Owed(call[c])[k])}
       /\ \A j, k \in 1..Len(Owed(call[c])) :
            Owed(call[c])[j].id = Owed(call[c])[k].id => j = k
  /\ \A i \in Ids : \A r \in inflight[i] :
       /\ promise[r.owner][i] = "pending"
       /\ \E k \in 1..Len(Owed(call[r.owner])) : Owed(call[r.owner])[k].id = i

(* What the local state r of a call c says about it. *)
LocalOf(c, r) ==
  /\ r.kind = "single" => Len(r.todo) + Len(r.own) <= 1
  /\ r.pc # "idle" => r.kind # "none"
  /\ r.pc = "rollback" => r.kind = "single"
  /\ r.pc \in {"insert", "rollback"} => r.own # <<>>
  /\ r.pc \in {"idle", "acquire"} => \A i \in Ids : promise[c][i] = "pending"
  /\ r.pc = "idle" => r = Idle

(* What a call has written or learnt, or waits for, is or will be in the table. *)
Answered(r) == \A x \in r.results : x[2] \in Accepted => rows[x[1]] > 0
Written(r) ==
  r.pc = "commit" => /\ \A k \in 1..Len(r.own) : rows[r.own[k]] > 0
                     /\ \A k \in 1..Len(r.ack) : rows[r.ack[k]] > 0
Shared(w) ==
  /\ promise[w.owner][w.event.id] = "pending"
       => inflight[w.event.id] = {Reservation(w.owner, w.event)}
  /\ promise[w.owner][w.event.id] \in Accepted => rows[w.event] > 0
Waiting(r) == \A k \in 1..Len(r.waits) : Shared(r.waits[k])

Local(c) == LocalOf(c, call[c])
Stored(c) == Answered(call[c]) /\ Written(call[c]) /\ Waiting(call[c])

(* So is what the cache remembers; it holds an id once. *)
Known(x) == \E e \in Events : x.fp = Fingerprint(e) /\ rows[e] > 0
Once(list) == \A j, k \in 1..Len(list) : list[j].id = list[k].id => j = k
Remembered ==
  /\ \A k \in 1..Len(committed) : Known(committed[k])
  /\ Len(committed) <= Capacity
  /\ Once(committed)

Ingestion ==
  /\ IngestionTyped /\ Reserved /\ Remembered
  /\ \A c \in Calls : Local(c) /\ Stored(c)

(* What the pipeline answered with success is in the table. *)
Delivered ==
  \A p \in Envelopes : env[p].ok => env[p].event \in Events /\ rows[env[p].event] > 0

-----------------------------------------------------------------------------
(* The queries. *)
Filters == [producers : SUBSET Nat, desc : BOOLEAN, from : Int, to : Int]
TokenType == [key : Prints, hash : Filters]
WalkType ==
  [pc : {"idle", "querying", "looking", "paged", "done", "refused", "failed", "found"},
   request : {<<>>} \cup Requests, filter : {<<>>} \cup Filters,
   token : Seq(TokenType), seen : Seq(Events),
   present : SUBSET Events, found : Seq(Events)]

(* The rows s are in the order of the filter f; they have the id of e. *)
Sorted(f, s) == \A i, j \in 1..Len(s) : i < j => First(f, s[i], s[j])
Held(s, e) == \E k \in 1..Len(s) : s[k].id = e.id

(* A walk that goes on: the token stands on the last row, and what was there*)
(* when the walk began and has not been returned is still to come.         *)
Open(r) ==
  /\ r.request \in Requests /\ r.filter \in Filters /\ r.filter.desc = r.request.desc
  /\ \/ r.seen = <<>> /\ r.token = <<>> /\ r.pc = "querying"
     \/ r.seen # <<>> /\ r.token = Encode(r.seen[Len(r.seen)], r.filter)
  /\ \A e \in r.present : Held(r.seen, e) \/ e \in Matching(r.filter, r.token)

Walked(r) ==
  /\ Sorted(r.filter, r.seen)
  /\ r.pc = "done" => \A e \in r.present : Held(r.seen, e)
  /\ r.pc = "idle" => r.seen = <<>> /\ r.token = <<>>
  /\ r.pc \in {"querying", "paged"} => Open(r)

Walks ==
  /\ walk \in [Readers -> WalkType]
  /\ queries \in 0..Workers
  /\ BulkheadExact
  /\ \A q \in Readers : Walked(walk[q])

Inv == StoreTypeOK /\ Pipeline /\ Ingestion /\ Delivered /\ Walks

-----------------------------------------------------------------------------
(* Envelopes on the move: those of S go to x. *)
Moved(loc, S, x) == [p \in Envelopes |-> IF p \in S THEN x ELSE loc[p]]

LEMMA MovedSpots ==
    ASSUME NEW loc \in [Envelopes -> Spots], NEW S, NEW x \in Spots
    PROVE  /\ Moved(loc, S, x) \in [Envelopes -> Spots]
           /\ \A p \in Envelopes : Moved(loc, S, x)[p] = IF p \in S THEN x ELSE loc[p]
  BY DEF Moved

(* A place that none of them enters or leaves. *)
LEMMA ListsKept ==
    ASSUME NEW loc, NEW D, NEW f, NEW x, NEW y, NEW S,
           Lists(loc, D, f, x), x # y, \A p \in S : loc[p] # x,
           \A d \in D : f[d] \in Seq(Envelopes)
    PROVE  Lists(Moved(loc, S, y), D, f, x)
<1>1. \A d \in D : \A k \in 1..Len(f[d]) : f[d][k] \in Envelopes OBVIOUS
<1> QED BY <1>1 DEF Lists, Moved

(* A sequence of the family is filled. *)
LEMMA ListsFilled ==
    ASSUME NEW loc, NEW D, NEW f \in [D -> Seq(Envelopes)], NEW x, NEW d \in D,
           NEW b \in Seq(Envelopes),
           Lists(loc, D, f, x), f[d] = <<>>,
           \A k \in 1..Len(b) : loc[b[k]] # x,
           \A j, k \in 1..Len(b) : b[j] = b[k] => j = k
    PROVE  Lists(Moved(loc, ToSet(b), x), D, [f EXCEPT ![d] = b], x)
<1> DEFINE g == [f EXCEPT ![d] = b]
           m == Moved(loc, ToSet(b), x)
<1>1. /\ g[d] = b
      /\ \A c \in D : c # d => g[c] = f[c]
      /\ \A c \in D : g[c] \in Seq(Envelopes)
  OBVIOUS
<1>2. \A p : p \in ToSet(b) <=> \E k \in 1..Len(b) : b[k] = p BY DEF ToSet
<1>3. \A p \in Envelopes : m[p] = IF p \in ToSet(b) THEN x ELSE loc[p] BY DEF Moved
<1>4. \A c \in D : \A k \in 1..Len(g[c]) : g[c][k] \in Envelopes BY <1>1
<1> HIDE DEF g, m
<1>5. \A c \in D : \A k \in 1..Len(g[c]) : m[g[c][k]] = x
  <2> SUFFICES ASSUME NEW c \in D, NEW k \in 1..Len(g[c])
               PROVE  m[g[c][k]] = x
    OBVIOUS
  <2>1. g[c][k] \in Envelopes BY <1>4
  <2>2. CASE c = d BY <2>1, <2>2, <1>1, <1>2, <1>3
  <2>3. CASE c # d BY <2>1, <2>3, <1>1, <1>3 DEF Lists
  <2> QED BY <2>2, <2>3
<1>6. \A c \in D : \A j \in 1..Len(g[c]), k \in 1..Len(b) : c # d => g[c][j] # b[k]
  BY <1>1 DEF Lists
<1>7. \A c, e \in D : \A j \in 1..Len(g[c]), k \in 1..Len(g[e]) :
        g[c][j] = g[e][k] => c = e /\ j = k
  <2> SUFFICES ASSUME NEW c \in D, NEW e \in D, NEW j \in 1..Len(g[c]),
                      NEW k \in 1..Len(g[e]), g[c][j] = g[e][k]
               PROVE  c = e /\ j = k
    OBVIOUS
  <2>1. CASE c # d /\ e # d BY <2>1, <1>1 DEF Lists
  <2>2. CASE c = d /\ e = d BY <2>2, <1>1
  <2>3. CASE c # d /\ e = d
    <3>1. k \in 1..Len(b) /\ g[e][k] = b[k] BY <2>3, <1>1
    <3> QED BY <3>1, <2>3, <1>6
  <2>4. CASE c = d /\ e # d
    <3>1. j \in 1..Len(b) /\ g[c][j] = b[j] BY <2>4, <1>1
    <3> QED BY <3>1, <2>4, <1>6
  <2> QED BY <2>1, <2>2, <2>3, <2>4
<1>8. \A p \in Envelopes : m[p] = x => \E c \in D : \E k \in 1..Len(g[c]) : g[c][k] = p
  <2> SUFFICES ASSUME NEW p \in Envelopes, m[p] = x
               PROVE  \E c \in D : \E k \in 1..Len(g[c]) : g[c][k] = p
    OBVIOUS
  <2>1. CASE p \in ToSet(b) BY <2>1, <1>1, <1>2
  <2>2. CASE p \notin ToSet(b)
    <3>1. PICK c \in D : \E k \in 1..Len(f[c]) : f[c][k] = p BY <2>2, <1>3 DEF Lists
    <3>2. c # d BY <3>1
    <3> QED BY <3>1, <3>2, <1>1
  <2> QED BY <2>1, <2>2
<1> QED BY <1>5, <1>7, <1>8 DEF Lists, g, m

(* A sequence of the family is emptied. *)
LEMMA ListsEmptied ==
    ASSUME NEW loc, NEW D, NEW f \in [D -> Seq(Envelopes)], NEW x, NEW y, NEW d \in D,
           Lists(loc, D, f, x), x # y
    PROVE  Lists(Moved(loc, ToSet(f[d]), y), D, [f EXCEPT ![d] = <<>>], x)
<1> DEFINE g == [f EXCEPT ![d] = <<>>]
           m == Moved(loc, ToSet(f[d]), y)
<1>1. /\ g[d] = <<>>
      /\ \A c \in D : c # d => g[c] = f[c]
      /\ \A c \in D : f[c] \in Seq(Envelopes)
  OBVIOUS
<1>2. \A p : p \in ToSet(f[d]) <=> \E k \in 1..Len(f[d]) : f[d][k] = p BY <1>1 DEF ToSet
<1>3. \A p \in Envelopes : m[p] = IF p \in ToSet(f[d]) THEN y ELSE loc[p] BY DEF Moved
<1>4. \A c \in D : \A k \in 1..Len(f[c]) : f[c][k] \in Envelopes BY <1>1
<1>5. \A c \in D : \A k \in 1..Len(g[c]) : c # d /\ k \in 1..Len(f[c]) /\ g[c][k] = f[c][k]
  BY <1>1
<1> HIDE DEF g, m
<1>6. \A c \in D : \A k \in 1..Len(g[c]) : m[g[c][k]] = x
  <2> SUFFICES ASSUME NEW c \in D, NEW k \in 1..Len(g[c])
               PROVE  m[g[c][k]] = x
    OBVIOUS
  <2>1. c # d /\ k \in 1..Len(f[c]) /\ g[c][k] = f[c][k] /\ f[c][k] \in Envelopes
    BY <1>4, <1>5
  <2>2. f[c][k] \notin ToSet(f[d]) /\ loc[f[c][k]] = x BY <2>1, <1>2 DEF Lists
  <2> QED BY <2>1, <2>2, <1>3
<1>7. \A c, e \in D : \A j \in 1..Len(g[c]), k \in 1..Len(g[e]) :
        g[c][j] = g[e][k] => c = e /\ j = k
  <2> SUFFICES ASSUME NEW c \in D, NEW e \in D, NEW j \in 1..Len(g[c]),
                      NEW k \in 1..Len(g[e]), g[c][j] = g[e][k]
               PROVE  c = e /\ j = k
    OBVIOUS
  <2>1. j \in 1..Len(f[c]) /\ k \in 1..Len(f[e]) /\ f[c][j] = f[e][k] BY <1>5
  <2> QED BY <2>1 DEF Lists
<1>8. \A p \in Envelopes : m[p] = x => \E c \in D : \E k \in 1..Len(g[c]) : g[c][k] = p
  <2> SUFFICES ASSUME NEW p \in Envelopes, m[p] = x
               PROVE  \E c \in D : \E k \in 1..Len(g[c]) : g[c][k] = p
    OBVIOUS
  <2>1. p \notin ToSet(f[d]) /\ loc[p] = x BY <1>3
  <2>2. PICK c \in D : \E k \in 1..Len(f[c]) : f[c][k] = p BY <2>1 DEF Lists
  <2> QED BY <2>1, <2>2, <1>1, <1>2
<1> QED BY <1>6, <1>7, <1>8 DEF Lists, g, m

(* One queue, in terms of its positions. *)
LEMMA SingleLists ==
    ASSUME NEW loc, NEW q, NEW x
    PROVE  Lists(loc, One, Single(q), x) <=>
             /\ \A k \in 1..Len(q) : loc[q[k]] = x
             /\ \A j, k \in 1..Len(q) : q[j] = q[k] => j = k
             /\ \A p \in Envelopes : loc[p] = x => \E k \in 1..Len(q) : q[k] = p
<1>1. 0 \in One /\ Single(q)[0] = q /\ \A d \in One : d = 0 BY DEF One, Single
<1>2. \A d \in One : Single(q)[d] = q BY <1>1
<1> QED BY <1>1, <1>2 DEF Lists

(* A queue grows by the sequence b. *)
LEMMA QueueJoined ==
    ASSUME NEW loc, NEW q \in Seq(Envelopes), NEW b \in Seq(Envelopes), NEW x,
           Lists(loc, One, Single(q), x),
           \A k \in 1..Len(b) : loc[b[k]] # x,
           \A j, k \in 1..Len(b) : b[j] = b[k] => j = k
    PROVE  Lists(Moved(loc, ToSet(b), x), One, Single(q \o b), x)
<1> DEFINE g == q \o b
           m == Moved(loc, ToSet(b), x)
<1>1. /\ g \in Seq(Envelopes) /\ Len(g) = Len(q) + Len(b)
      /\ Len(q) \in Nat /\ Len(b) \in Nat
      /\ \A k \in 1..Len(g) : IF k <= Len(q) THEN k \in 1..Len(q) /\ g[k] = q[k]
                              ELSE k - Len(q) \in 1..Len(b) /\ g[k] = b[k - Len(q)]
  OBVIOUS
<1>2. \A p : p \in ToSet(b) <=> \E k \in 1..Len(b) : b[k] = p BY DEF ToSet
<1>3. \A p \in Envelopes : m[p] = IF p \in ToSet(b) THEN x ELSE loc[p] BY DEF Moved
<1>4. /\ \A k \in 1..Len(q) : loc[q[k]] = x
      /\ \A j, k \in 1..Len(q) : q[j] = q[k] => j = k
      /\ \A p \in Envelopes : loc[p] = x => \E k \in 1..Len(q) : q[k] = p
  BY SingleLists
<1>5. \A j \in 1..Len(q), k \in 1..Len(b) : q[j] # b[k] BY <1>4
<1>6. \A k \in 1..Len(b) : Len(q) + k \in 1..Len(g) /\ g[Len(q) + k] = b[k] OBVIOUS
<1>7. \A k \in 1..Len(q) : k \in 1..Len(g) /\ g[k] = q[k] OBVIOUS
<1>8. \A k \in 1..Len(g) : g[k] \in Envelopes BY <1>1
<1> HIDE DEF g, m
<1>9. \A k \in 1..Len(g) : m[g[k]] = x
  <2> SUFFICES ASSUME NEW k \in 1..Len(g) PROVE m[g[k]] = x OBVIOUS
  <2>1. CASE k <= Len(q) BY <2>1, <1>1, <1>3, <1>4, <1>8
  <2>2. CASE ~(k <= Len(q))
    <3>1. k - Len(q) \in 1..Len(b) /\ g[k] = b[k - Len(q)] BY <2>2, <1>1
    <3>2. g[k] \in ToSet(b) BY <3>1, <1>2
    <3> QED BY <3>2, <1>3, <1>8
  <2> QED BY <2>1, <2>2
<1>10. \A j, k \in 1..Len(g) : g[j] = g[k] => j = k
  <2> SUFFICES ASSUME NEW j \in 1..Len(g), NEW k \in 1..Len(g), g[j] = g[k]
               PROVE  j = k
    OBVIOUS
  <2>1. CASE j <= Len(q) /\ k <= Len(q) BY <2>1, <1>1, <1>4
  <2>2. CASE ~(j <= Len(q)) /\ ~(k <= Len(q))
    <3>1. /\ j - Len(q) \in 1..Len(b) /\ g[j] = b[j - Len(q)]
          /\ k - Len(q) \in 1..Len(b) /\ g[k] = b[k - Len(q)]
      BY <2>2, <1>1
    <3>2. j - Len(q) = k - Len(q) BY <3>1
    <3> QED BY <3>2, <1>1
  <2>3. CASE j <= Len(q) /\ ~(k <= Len(q))
    <3>1. /\ j \in 1..Len(q) /\ g[j] = q[j]
          /\ k - Len(q) \in 1..Len(b) /\ g[k] = b[k - Len(q)]
      BY <2>3, <1>1
    <3> QED BY <3>1, <1>5
  <2>4. CASE ~(j <= Len(q)) /\ k <= Len(q)
    <3>1. /\ k \in 1..Len(q) /\ g[k] = q[k]
          /\ j - Len(q) \in 1..Len(b) /\ g[j] = b[j - Len(q)]
      BY <2>4, <1>1
    <3> QED BY <3>1, <1>5
  <2> QED BY <2>1, <2>2, <2>3, <2>4
<1>11. \A p \in Envelopes : m[p] = x => \E k \in 1..Len(g) : g[k] = p
  <2> SUFFICES ASSUME NEW p \in Envelopes, m[p] = x
               PROVE  \E k \in 1..Len(g) : g[k] = p
    OBVIOUS
  <2>1. CASE p \in ToSet(b) BY <2>1, <1>2, <1>6
  <2>2. CASE p \notin ToSet(b) BY <2>2, <1>3, <1>4, <1>7
  <2> QED BY <2>1, <2>2
<1> QED BY <1>9, <1>10, <1>11, SingleLists DEF g, m

(* The first element leaves a queue. *)
LEMMA QueueTaken ==
    ASSUME NEW loc, NEW q \in Seq(Envelopes), NEW x, NEW y, x # y, q # <<>>,
           Lists(loc, One, Single(q), x)
    PROVE  Lists(Moved(loc, ToSet(<<Head(q)>>), y), One, Single(Tail(q)), x)
<1> DEFINE g == Tail(q)
           m == Moved(loc, ToSet(<<Head(q)>>), y)
<1>1. /\ Len(q) \in Nat /\ Len(q) >= 1 /\ Len(g) = Len(q) - 1 /\ Head(q) = q[1]
      /\ \A k \in 1..Len(g) : g[k] = q[k + 1] /\ k + 1 \in 1..Len(q)
      /\ 1 \in 1..Len(q)
  OBVIOUS
<1>2. \A p : p \in ToSet(<<Head(q)>>) <=> p = q[1] BY <1>1 DEF ToSet
<1>3. \A p \in Envelopes : m[p] = IF p = q[1] THEN y ELSE loc[p] BY <1>2 DEF Moved
<1>4. /\ \A k \in 1..Len(q) : loc[q[k]] = x
      /\ \A j, k \in 1..Len(q) : q[j] = q[k] => j = k
      /\ \A p \in Envelopes : loc[p] = x => \E k \in 1..Len(q) : q[k] = p
  BY SingleLists
<1>5. \A k \in 1..Len(q) : q[k] \in Envelopes OBVIOUS
<1>6. \A k \in 1..Len(g) : k \in Int BY <1>1
<1> HIDE DEF g, m
<1>7. \A k \in 1..Len(g) : m[g[k]] = x
  <2> SUFFICES ASSUME NEW k \in 1..Len(g) PROVE m[g[k]] = x OBVIOUS
  <2>1. k \in Int /\ k + 1 \in 1..Len(q) /\ g[k] = q[k + 1] /\ k + 1 # 1 BY <1>1, <1>6
  <2>2. q[k + 1] # q[1] /\ q[k + 1] \in Envelopes /\ loc[q[k + 1]] = x
    BY <2>1, <1>1, <1>4, <1>5
  <2> QED BY <2>1, <2>2, <1>3
<1>8. \A j, k \in 1..Len(g) : g[j] = g[k] => j = k
  <2> SUFFICES ASSUME NEW j \in 1..Len(g), NEW k \in 1..Len(g), g[j] = g[k]
               PROVE  j = k
    OBVIOUS
  <2>1. j + 1 = k + 1 BY <1>1, <1>4
  <2> QED BY <2>1, <1>6
<1>9. \A p \in Envelopes : m[p] = x => \E k \in 1..Len(g) : g[k] = p
  <2> SUFFICES ASSUME NEW p \in Envelopes, m[p] = x
               PROVE  \E k \in 1..Len(g) : g[k] = p
    OBVIOUS
  <2>1. p # q[1] /\ loc[p] = x BY <1>3
  <2>2. PICK k \in 1..Len(q) : q[k] = p BY <2>1, <1>4
  <2>3. k - 1 \in 1..Len(g) /\ (k - 1) + 1 = k BY <2>1, <2>2, <1>1
  <2> QED BY <2>2, <2>3, <1>1
<1> QED BY <1>7, <1>8, <1>9, SingleLists DEF g, m

LEMMA ListsSame ==
    ASSUME NEW loc, NEW D, NEW f, NEW g, NEW x, \A d \in D : f[d] = g[d],
           Lists(loc, D, f, x)
    PROVE  Lists(loc, D, g, x)
  BY DEF Lists

(* A batch joins the queue of batches. *)
LEMMA BatchJoined ==
    ASSUME NEW loc, NEW q \in Seq(Seq(Envelopes)), NEW b \in Seq(Envelopes), NEW x,
           Lists(loc, 1..Len(q), q, x),
           \A k \in 1..Len(b) : loc[b[k]] # x,
           \A j, k \in 1..Len(b) : b[j] = b[k] => j = k
    PROVE  Lists(Moved(loc, ToSet(b), x), 1..Len(Append(q, b)), Append(q, b), x)
<1> DEFINE n == Len(q) + 1
           f == [d \in 1..n |-> IF d = n THEN <<>> ELSE q[d]]
<1>1. /\ Len(q) \in Nat /\ n \in 1..n /\ f[n] = <<>> /\ \A d \in 1..Len(q) : d \in 1..n /\ d # n /\ f[d] = q[d]
      /\ \A d \in 1..n : d = n \/ d \in 1..Len(q)
  OBVIOUS
<1>2. f \in [1..n -> Seq(Envelopes)] OBVIOUS
<1>3. Lists(loc, 1..n, f, x)
  <2> HIDE DEF n, f
  <2>1. \A d \in 1..n : \A k \in 1..Len(f[d]) :
          d \in 1..Len(q) /\ f[d] = q[d] /\ k \in 1..Len(q[d])
    BY <1>1
  <2>2. \A d \in 1..n : \A k \in 1..Len(f[d]) : loc[f[d][k]] = x BY <2>1 DEF Lists
  <2>3. \A c, d \in 1..n : \A j \in 1..Len(f[c]), k \in 1..Len(f[d]) :
          f[c][j] = f[d][k] => c = d /\ j = k
    <3> SUFFICES ASSUME NEW c \in 1..n, NEW d \in 1..n, NEW j \in 1..Len(f[c]),
                        NEW k \in 1..Len(f[d]), f[c][j] = f[d][k]
                 PROVE  c = d /\ j = k
      OBVIOUS
    <3>1. /\ c \in 1..Len(q) /\ f[c] = q[c] /\ j \in 1..Len(q[c])
          /\ d \in 1..Len(q) /\ f[d] = q[d] /\ k \in 1..Len(q[d])
      BY <2>1
    <3> QED BY <3>1 DEF Lists
  <2>4. \A p \in Envelopes : loc[p] = x => \E d \in 1..n : \E k \in 1..Len(f[d]) : f[d][k] = p
    <3> SUFFICES ASSUME NEW p \in Envelopes, loc[p] = x
                 PROVE  \E d \in 1..n : \E k \in 1..Len(f[d]) : f[d][k] = p
      OBVIOUS
    <3>1. PICK d \in 1..Len(q) : \E k \in 1..Len(q[d]) : q[d][k] = p BY DEF Lists
    <3> QED BY <3>1, <1>1
  <2> QED BY <2>2, <2>3, <2>4 DEF Lists
<1>4. Len(Append(q, b)) = n OBVIOUS
<1>5. \A d \in 1..n : [f EXCEPT ![n] = b][d] = Append(q, b)[d]
  <2> SUFFICES ASSUME NEW d \in 1..n PROVE [f EXCEPT ![n] = b][d] = Append(q, b)[d] OBVIOUS
  <2>1. CASE d = n BY <2>1, <1>2
  <2>2. CASE d # n BY <2>2, <1>1, <1>2
  <2> QED BY <2>1, <2>2
<1> HIDE DEF n, f
<1>6. Lists(Moved(loc, ToSet(b), x), 1..n, [f EXCEPT ![n] = b], x)
  BY <1>1, <1>2, <1>3, ListsFilled
<1>7. Lists(Moved(loc, ToSet(b), x), 1..n, Append(q, b), x) BY <1>5, <1>6, ListsSame
<1> QED BY <1>4, <1>7

(* The first batch leaves the queue of batches. *)
LEMMA BatchTaken ==
    ASSUME NEW loc, NEW q \in Seq(Seq(Envelopes)), NEW x, NEW y, x # y, q # <<>>,
           Lists(loc, 1..Len(q), q, x)
    PROVE  Lists(Moved(loc, ToSet(Head(q)), y), 1..Len(Tail(q)), Tail(q), x)
<1> DEFINE g == Tail(q)
           m == Moved(loc, ToSet(Head(q)), y)
           f == [q EXCEPT ![1] = <<>>]
<1>1. /\ Len(q) \in Nat /\ Len(q) >= 1 /\ Len(g) = Len(q) - 1 /\ Head(q) = q[1]
      /\ 1 \in 1..Len(q)
  OBVIOUS
<1>2. /\ f[1] = <<>>
      /\ \A k \in 1..Len(g) : g[k] = f[k + 1] /\ k + 1 \in 1..Len(q) /\ k \in Int
  OBVIOUS
<1>3. q \in [1..Len(q) -> Seq(Envelopes)] OBVIOUS
<1>4. Lists(m, 1..Len(q), f, x)
  <2> HIDE DEF f, m
  <2>1. Lists(Moved(loc, ToSet(q[1]), y), 1..Len(q), [q EXCEPT ![1] = <<>>], x)
    BY <1>1, <1>3, ListsEmptied
  <2> QED BY <2>1, <1>1 DEF f, m
<1> HIDE DEF g, m, f
<1>5. \A d \in 1..Len(g) : \A k \in 1..Len(g[d]) : m[g[d][k]] = x
  <2>1. \A d \in 1..Len(q) : \A k \in 1..Len(f[d]) : m[f[d][k]] = x BY <1>4 DEF Lists
  <2> SUFFICES ASSUME NEW d \in 1..Len(g), NEW k \in 1..Len(g[d])
               PROVE  m[g[d][k]] = x
    OBVIOUS
  <2>2. d + 1 \in 1..Len(q) /\ g[d] = f[d + 1] BY <1>2
  <2> QED BY <2>1, <2>2
<1>6. \A c, d \in 1..Len(g) : \A j \in 1..Len(g[c]), k \in 1..Len(g[d]) :
        g[c][j] = g[d][k] => c = d /\ j = k
  <2> SUFFICES ASSUME NEW c \in 1..Len(g), NEW d \in 1..Len(g), NEW j \in 1..Len(g[c]),
                      NEW k \in 1..Len(g[d]), g[c][j] = g[d][k]
               PROVE  c = d /\ j = k
    OBVIOUS
  <2>1. /\ c \in Int /\ d \in Int /\ c + 1 \in 1..Len(q) /\ d + 1 \in 1..Len(q)
        /\ g[c] = f[c + 1] /\ g[d] = f[d + 1]
    BY <1>2
  <2>2. c + 1 = d + 1 /\ j = k BY <2>1, <1>4 DEF Lists
  <2> QED BY <2>1, <2>2
<1>7. \A p \in Envelopes : m[p] = x => \E d \in 1..Len(g) : \E k \in 1..Len(g[d]) : g[d][k] = p
  <2> SUFFICES ASSUME NEW p \in Envelopes, m[p] = x
               PROVE  \E d \in 1..Len(g) : \E k \in 1..Len(g[d]) : g[d][k] = p
    OBVIOUS
  <2>1. PICK d \in 1..Len(q) : \E k \in 1..Len(f[d]) : f[d][k] = p BY <1>4 DEF Lists
  <2>2. d # 1 BY <2>1, <1>2
  <2>3. d - 1 \in 1..Len(g) /\ (d - 1) + 1 = d BY <2>2, <1>1
  <2> QED BY <2>1, <2>3, <1>2
<1> QED BY <1>5, <1>6, <1>7 DEF Lists, g, m

-----------------------------------------------------------------------------
(* The pipeline, step by step.  A step moves the envelopes of S to x. *)
LEMMA PipelineStarts == Init => Pipeline
<1> SUFFICES ASSUME Init PROVE Pipeline OBVIOUS
<1> USE DEF Init, PipelineInit
<1>1. /\ env = [p \in Envelopes |-> Fresh] /\ Fresh \in EnvType
      /\ Fresh.pc = "idle" /\ Fresh.done = 0
  BY DEF Fresh, EnvType
<1>2. \A p \in Envelopes : env[p] = Fresh BY <1>1
<1>3. PipelineTyped
  <2>1. env \in [Envelopes -> EnvType] BY <1>1
  <2>2. draining \in BOOLEAN OBVIOUS
  <2>3. /\ inputQ \in Seq(Envelopes) /\ validQ \in Seq(Envelopes)
        /\ active \in Seq(Envelopes) /\ outgoing \in Seq(Envelopes)
        /\ batchQ \in Seq(Seq(Envelopes))
        /\ validator \in [Validators -> Seq(Envelopes)]
        /\ inserter \in [Inserters -> Seq(Envelopes)]
    OBVIOUS
  <2>4. closed \subseteq {"input", "valid", "batch"} /\ stage \in Stages BY DEF Stages
  <2> QED BY <2>1, <2>2, <2>3, <2>4 DEF PipelineTyped
<1>4. Limited BY PipelineAssumption DEF Limited
<1>5. Answers BY <1>1, <1>2 DEF Answers
<1>6. Closing BY DEF Closing
<1>7. Placed([p \in Envelopes |-> "out"])
  <2> DEFINE loc == [p \in Envelopes |-> "out"]
  <2>1. loc \in [Envelopes -> Spots] /\ \A p \in Envelopes : loc[p] = "out" BY DEF Spots
  <2> HIDE DEF loc
  <2>2. \A p \in Envelopes : loc[p] # "out" <=> env[p].pc = "accepted" /\ env[p].done = 0
    BY <1>1, <1>2, <2>1
  <2>3. ASSUME NEW x \in Spots \ {"out"} PROVE Lists(loc, One, Single(<<>>), x)
    BY <2>1, <2>3, SingleLists
  <2>4. Lists(loc, Validators, validator, "validator") BY <2>1 DEF Lists
  <2>5. Lists(loc, Inserters, inserter, "inserter") BY <2>1 DEF Lists
  <2>6. Lists(loc, 1..Len(batchQ), batchQ, "batch") BY <2>1 DEF Lists
  <2>7. {"input", "valid", "active", "outgoing"} \subseteq Spots \ {"out"} BY DEF Spots
  <2> QED BY <2>1, <2>2, <2>3, <2>4, <2>5, <2>6, <2>7 DEF Placed
<1>8. [p \in Envelopes |-> "out"] \in [Envelopes -> Spots] BY DEF Spots
<1> QED BY <1>3, <1>4, <1>5, <1>6, <1>7, <1>8 DEF Pipeline

LEMMA PipelineKept == ASSUME Pipeline, UNCHANGED pipelineVars PROVE Pipeline'
<1>1. PipelineTyped' /\ Limited' /\ Answers' /\ Closing'
  BY DEF Pipeline, pipelineVars, PipelineTyped, Limited, Answers, Closing
<1>2. PICK loc \in [Envelopes -> Spots] : Placed(loc) BY DEF Pipeline
<1>3. Placed(loc)' BY <1>2 DEF Placed, pipelineVars, Single
<1> QED BY <1>1, <1>3 DEF Pipeline

LEMMA PlacedNext ==
    ASSUME NEW m \in [Envelopes -> Spots],
           \A p \in Envelopes : m[p] # "out" <=> env'[p].pc = "accepted" /\ env'[p].done = 0,
           Lists(m, One, Single(inputQ'), "input"),
           Lists(m, Validators, validator', "validator"),
           Lists(m, One, Single(validQ'), "valid"),
           Lists(m, One, Single(active'), "active"),
           Lists(m, One, Single(outgoing'), "outgoing"),
           Lists(m, 1..Len(batchQ'), batchQ', "batch"),
           Lists(m, Inserters, inserter', "inserter")
    PROVE  Placed(m)'
  BY DEF Placed, Single

(* The places that a step neither empties nor fills. *)
Elsewhere(m, from, to) ==
  /\ from # "input" /\ to # "input" => Lists(m, One, Single(inputQ), "input")
  /\ from # "validator" /\ to # "validator" => Lists(m, Validators, validator, "validator")
  /\ from # "valid" /\ to # "valid" => Lists(m, One, Single(validQ), "valid")
  /\ from # "active" /\ to # "active" => Lists(m, One, Single(active), "active")
  /\ from # "outgoing" /\ to # "outgoing" => Lists(m, One, Single(outgoing), "outgoing")
  /\ from # "batch" /\ to # "batch" => Lists(m, 1..Len(batchQ), batchQ, "batch")
  /\ from # "inserter" /\ to # "inserter" => Lists(m, Inserters, inserter, "inserter")

LEMMA PlacedElsewhere ==
    ASSUME PipelineTyped, NEW loc, Placed(loc), NEW S, NEW from \in Spots, NEW y \in Spots,
           \A p \in S : loc[p] = from
    PROVE  Elsewhere(Moved(loc, S, y), from, y)
<1>1. loc \in [Envelopes -> Spots] BY DEF Placed
<1>2. ASSUME NEW q \in Seq(Envelopes) PROVE \A d \in One : Single(q)[d] \in Seq(Envelopes)
  BY <1>2 DEF Single
<1>3. ASSUME NEW D, NEW f, NEW x, x # from, x # y, Lists(loc, D, f, x),
             \A d \in D : f[d] \in Seq(Envelopes)
      PROVE  Lists(Moved(loc, S, y), D, f, x)
  <2>1. \A p \in S : loc[p] # x BY <1>3
  <2> QED BY <1>3, <2>1, ListsKept
<1>5. from # "input" /\ y # "input" => Lists(Moved(loc, S, y), One, Single(inputQ), "input")
  BY <1>2, <1>3 DEF Placed, PipelineTyped
<1>6. from # "valid" /\ y # "valid" => Lists(Moved(loc, S, y), One, Single(validQ), "valid")
  BY <1>2, <1>3 DEF Placed, PipelineTyped
<1>7. from # "active" /\ y # "active" => Lists(Moved(loc, S, y), One, Single(active), "active")
  BY <1>2, <1>3 DEF Placed, PipelineTyped
<1>8. from # "outgoing" /\ y # "outgoing"
        => Lists(Moved(loc, S, y), One, Single(outgoing), "outgoing")
  BY <1>2, <1>3 DEF Placed, PipelineTyped
<1>9. from # "validator" /\ y # "validator"
        => Lists(Moved(loc, S, y), Validators, validator, "validator")
  <2>1. \A d \in Validators : validator[d] \in Seq(Envelopes) BY DEF PipelineTyped
  <2> QED BY <2>1, <1>3 DEF Placed
<1>10. from # "inserter" /\ y # "inserter"
         => Lists(Moved(loc, S, y), Inserters, inserter, "inserter")
  <2>1. \A d \in Inserters : inserter[d] \in Seq(Envelopes) BY DEF PipelineTyped
  <2> QED BY <2>1, <1>3 DEF Placed
<1>11. from # "batch" /\ y # "batch"
         => Lists(Moved(loc, S, y), 1..Len(batchQ), batchQ, "batch")
  <2>1. \A d \in 1..Len(batchQ) : batchQ[d] \in Seq(Envelopes) BY DEF PipelineTyped
  <2> QED BY <2>1, <1>3 DEF Placed
<1> QED BY <1>5, <1>6, <1>7, <1>8, <1>9, <1>10, <1>11 DEF Elsewhere

(* An envelope that stays where it is. *)
LEMMA PipelineSubmitStep ==
    ASSUME Pipeline, NEW p \in Envelopes, NEW e \in Events, PipelineSubmit(p, e)
    PROVE  Pipeline'
<1>1. PICK loc \in [Envelopes -> Spots] : Placed(loc) BY DEF Pipeline
<1>2. /\ env[p].pc = "idle" /\ env \in [Envelopes -> EnvType]
      /\ \E n \in EnvType : /\ env' = [env EXCEPT ![p] = n] /\ n.pc \in {"pushing", "refused"}
                          /\ n.event = e /\ n.done = 0
  <2> DEFINE n == [Fresh EXCEPT !.event = e,
                     !.pc = IF stage = "running" THEN "pushing" ELSE "refused"]
  <2>1. n \in EnvType /\ n.pc \in {"pushing", "refused"} /\ n.event = e /\ n.done = 0
    BY DEF EnvType, Fresh
  <2>2. env' = [env EXCEPT ![p] = n] /\ env[p].pc = "idle" BY DEF PipelineSubmit
  <2> HIDE DEF n
  <2> QED BY <2>1, <2>2 DEF Pipeline, PipelineTyped
<1>3. PICK n \in EnvType : /\ env' = [env EXCEPT ![p] = n] /\ n.pc \in {"pushing", "refused"}
                          /\ n.event = e /\ n.done = 0
  BY <1>2
<1>4. /\ env' \in [Envelopes -> EnvType] /\ env'[p] = n
      /\ \A o \in Envelopes : o # p => env'[o] = env[o]
  BY <1>2, <1>3
<1>5. UNCHANGED <<inputQ, validQ, batchQ, closed, stage, validator, active,
                  outgoing, draining, inserter, joined>>
  BY DEF PipelineSubmit
<1>6. PipelineTyped' /\ Limited' /\ Closing'
  BY <1>4, <1>5 DEF Pipeline, PipelineTyped, Limited, Closing
<1>7. Answers' BY <1>3, <1>4 DEF Pipeline, Answers
<1>8. \A o \in Envelopes : loc[o] # "out" <=> env'[o].pc = "accepted" /\ env'[o].done = 0
  BY <1>1, <1>2, <1>3, <1>4 DEF Placed
<1>9. Placed(loc)' BY <1>1, <1>5, <1>8, PlacedNext DEF Placed
<1> QED BY <1>6, <1>7, <1>9 DEF Pipeline

LEMMA TryPushStep ==
    ASSUME Pipeline, NEW p \in Envelopes, TryPush(p)
    PROVE  Pipeline'
<1>1. PICK loc \in [Envelopes -> Spots] : Placed(loc) BY DEF Pipeline
<1>2. PipelineTyped /\ env[p].pc = "pushing" /\ env \in [Envelopes -> EnvType]
      /\ inputQ \in Seq(Envelopes) /\ Len(inputQ) \in Nat
  BY DEF Pipeline, PipelineTyped, TryPush
<1>3. UNCHANGED <<validQ, batchQ, closed, stage, validator, active,
                  outgoing, draining, inserter, joined>>
  BY DEF TryPush
<1>4. loc[p] = "out" BY <1>1, <1>2 DEF Placed
<1>5. CASE "input" \notin closed /\ Len(inputQ) < QueueCapacity
  <2>1. env' = [env EXCEPT ![p].pc = "accepted"] /\ inputQ' = Append(inputQ, p)
    BY <1>5 DEF TryPush
  <2>2. /\ env' \in [Envelopes -> EnvType]
        /\ env'[p].pc = "accepted" /\ env'[p].done = env[p].done
        /\ env'[p].event = env[p].event
        /\ \A o \in Envelopes : o # p => env'[o] = env[o]
    BY <2>1, <1>2 DEF EnvType
  <2>3. inputQ' \in Seq(Envelopes) /\ Len(inputQ') = Len(inputQ) + 1 BY <2>1, <1>2
  <2>4. PipelineTyped' BY <2>2, <2>3, <1>2, <1>3 DEF PipelineTyped
  <2>5. Limited' BY <2>3, <1>2, <1>3, <1>5, PipelineAssumption DEF Pipeline, Limited
  <2>6. Answers' BY <2>2, <1>2 DEF Pipeline, Answers
  <2>7. Closing' BY <1>3, <1>5, <2>1 DEF Pipeline, Closing
  <2> DEFINE S == ToSet(<<p>>)
             m == Moved(loc, S, "input")
  <2>8. \A o : o \in S <=> o = p BY DEF ToSet
  <2>9. Lists(m, One, Single(inputQ'), "input")
    <3>1. <<p>> \in Seq(Envelopes) /\ Append(inputQ, p) = inputQ \o <<p>> BY <1>2
    <3>2. /\ \A k \in 1..Len(<<p>>) : loc[<<p>>[k]] # "input"
          /\ \A j, k \in 1..Len(<<p>>) : <<p>>[j] = <<p>>[k] => j = k
      BY <1>4
    <3> QED BY <3>1, <3>2, <2>1, <1>1, <1>2, QueueJoined DEF Placed
  <2> HIDE DEF S
  <2>10. \A o \in S : o \in Envelopes /\ loc[o] = "out" BY <2>8, <1>4
  <2>11. "input" \in Spots /\ "out" \in Spots BY DEF Spots
  <2>12. /\ m \in [Envelopes -> Spots]
         /\ \A o \in Envelopes : m[o] = IF o = p THEN "input" ELSE loc[o]
    BY <2>8, <2>11, <1>1, MovedSpots
  <2>13. \A o \in Envelopes : m[o] # "out" <=> env'[o].pc = "accepted" /\ env'[o].done = 0
    <3>1. env[p].done = 0 BY <1>2 DEF Pipeline, Answers
    <3>2. ASSUME NEW o \in Envelopes
          PROVE  m[o] # "out" <=> env'[o].pc = "accepted" /\ env'[o].done = 0
      <4> HIDE DEF m
      <4>1. CASE o = p BY <4>1, <3>1, <2>2, <2>12
      <4>2. CASE o # p BY <4>2, <2>2, <2>12, <1>1 DEF Placed
      <4> QED BY <4>1, <4>2
    <3> QED BY <3>2
  <2>14. Placed(m)'
    <3>1. Elsewhere(m, "out", "input") BY <2>10, <2>11, <1>1, <1>2, PlacedElsewhere
    <3> HIDE DEF m
    <3> QED BY <3>1, <2>9, <2>12, <2>13, <1>3, PlacedNext DEF Elsewhere
  <2> HIDE DEF m
  <2> QED BY <2>4, <2>5, <2>6, <2>7, <2>12, <2>14 DEF Pipeline
<1>6. CASE ~("input" \notin closed /\ Len(inputQ) < QueueCapacity)
  <2>1. env' = [env EXCEPT ![p].pc = "refused"] /\ inputQ' = inputQ BY <1>6 DEF TryPush
  <2>2. /\ env' \in [Envelopes -> EnvType]
        /\ env'[p].pc = "refused" /\ env'[p].done = env[p].done
        /\ env'[p].event = env[p].event
        /\ \A o \in Envelopes : o # p => env'[o] = env[o]
    BY <2>1, <1>2 DEF EnvType
  <2>3. PipelineTyped' /\ Limited' /\ Closing'
    BY <2>1, <2>2, <1>3 DEF Pipeline, PipelineTyped, Limited, Closing
  <2>4. Answers' BY <2>2, <1>2 DEF Pipeline, Answers
  <2>5. \A o \in Envelopes : loc[o] # "out" <=> env'[o].pc = "accepted" /\ env'[o].done = 0
    BY <1>1, <1>4, <2>2 DEF Placed
  <2>6. Placed(loc)' BY <1>1, <1>3, <2>1, <2>5, PlacedNext DEF Placed
  <2> QED BY <2>3, <2>4, <2>6 DEF Pipeline
<1> QED BY <1>5, <1>6

(* What a step that moves the envelopes of S, and no others, from one place *)
(* to another does to the places.                                          *)
Transit(loc, S, from, y) ==
  /\ loc \in [Envelopes -> Spots] /\ Placed(loc) /\ from \in Spots /\ y \in Spots
  /\ \A p \in S : loc[p] = from
  /\ \A p \in Envelopes : (IF p \in S THEN y ELSE loc[p]) # "out"
                            <=> env'[p].pc = "accepted" /\ env'[p].done = 0
  /\ \/ Lists(Moved(loc, S, y), One, Single(inputQ'), "input")
     \/ inputQ' = inputQ /\ from # "input" /\ y # "input"
  /\ \/ Lists(Moved(loc, S, y), Validators, validator', "validator")
     \/ validator' = validator /\ from # "validator" /\ y # "validator"
  /\ \/ Lists(Moved(loc, S, y), One, Single(validQ'), "valid")
     \/ validQ' = validQ /\ from # "valid" /\ y # "valid"
  /\ \/ Lists(Moved(loc, S, y), One, Single(active'), "active")
     \/ active' = active /\ from # "active" /\ y # "active"
  /\ \/ Lists(Moved(loc, S, y), One, Single(outgoing'), "outgoing")
     \/ outgoing' = outgoing /\ from # "outgoing" /\ y # "outgoing"
  /\ \/ Lists(Moved(loc, S, y), 1..Len(batchQ'), batchQ', "batch")
     \/ batchQ' = batchQ /\ from # "batch" /\ y # "batch"
  /\ \/ Lists(Moved(loc, S, y), Inserters, inserter', "inserter")
     \/ inserter' = inserter /\ from # "inserter" /\ y # "inserter"

LEMMA PlacedAfter ==
    ASSUME PipelineTyped, NEW loc, NEW S, NEW from, NEW y, Transit(loc, S, from, y)
    PROVE  \E l \in [Envelopes -> Spots] : Placed(l)'
<1> DEFINE m == Moved(loc, S, y)
<1>1. Elsewhere(m, from, y) BY PlacedElsewhere DEF Transit
<1>2. /\ m \in [Envelopes -> Spots]
      /\ \A p \in Envelopes : m[p] = IF p \in S THEN y ELSE loc[p]
  BY MovedSpots DEF Transit
<1> HIDE DEF m
<1>3. /\ Lists(m, One, Single(inputQ'), "input")
      /\ Lists(m, Validators, validator', "validator")
  BY <1>1 DEF Elsewhere, m, Transit
<1>4. Lists(m, One, Single(validQ'), "valid") /\ Lists(m, One, Single(active'), "active")
  BY <1>1 DEF Elsewhere, m, Transit
<1>5. /\ Lists(m, One, Single(outgoing'), "outgoing")
      /\ Lists(m, 1..Len(batchQ'), batchQ', "batch")
      /\ Lists(m, Inserters, inserter', "inserter")
  BY <1>1 DEF Elsewhere, m, Transit
<1>6. \A p \in Envelopes : m[p] # "out" <=> env'[p].pc = "accepted" /\ env'[p].done = 0
  BY <1>2 DEF Transit
<1>7. Placed(m)' BY <1>2, <1>3, <1>4, <1>5, <1>6, PlacedNext
<1> QED BY <1>2, <1>7

(* The promises of a batch are completed. *)
Completing(loc, b, from, ok) ==
  /\ Placed(loc) /\ b \in Seq(Envelopes) /\ from # "out" /\ ok \in BOOLEAN
  /\ \A k \in 1..Len(b) : loc[b[k]] = from
  /\ env' = Complete(b, ok)

LEMMA Completes ==
    ASSUME env \in [Envelopes -> EnvType], Answers,
           NEW loc, NEW b, NEW from, NEW ok, Completing(loc, b, from, ok)
    PROVE  /\ env' \in [Envelopes -> EnvType] /\ Answers'
           /\ \A p \in ToSet(b) : p \in Envelopes /\ loc[p] = from
           /\ \A p \in Envelopes : (IF p \in ToSet(b) THEN "out" ELSE loc[p]) # "out"
                                     <=> env'[p].pc = "accepted" /\ env'[p].done = 0
<1> USE DEF Completing
<1>1. \A p : p \in ToSet(b) <=> \E k \in 1..Len(b) : b[k] = p BY DEF ToSet
<1>2. \A k \in 1..Len(b) : b[k] \in Envelopes OBVIOUS
<1>3. \A p \in ToSet(b) : p \in Envelopes /\ loc[p] = from BY <1>1, <1>2
<1>4. \A p \in ToSet(b) : p \in Envelopes /\ env[p].pc = "accepted" /\ env[p].done = 0
  BY <1>3 DEF Placed
<1>5. \A p \in Envelopes : env'[p] = IF p \in ToSet(b)
                                     THEN [env[p] EXCEPT !.done = @ + 1, !.ok = ok]
                                     ELSE env[p]
  BY DEF Complete
<1>6. env' = [p \in Envelopes |-> env'[p]] BY DEF Complete
<1>7. \A p \in Envelopes : /\ env'[p] \in EnvType /\ env'[p].pc = env[p].pc
                           /\ env'[p].event = env[p].event
                           /\ p \in ToSet(b) => env'[p].done = 1
                           /\ p \notin ToSet(b) => env'[p].done = env[p].done
  <2> SUFFICES ASSUME NEW p \in Envelopes
               PROVE  /\ env'[p] \in EnvType /\ env'[p].pc = env[p].pc
                      /\ env'[p].event = env[p].event
                      /\ p \in ToSet(b) => env'[p].done = 1
                      /\ p \notin ToSet(b) => env'[p].done = env[p].done
    OBVIOUS
  <2>1. env[p] \in EnvType OBVIOUS
  <2>2. CASE p \in ToSet(b)
    <3>1. env'[p] = [env[p] EXCEPT !.done = @ + 1, !.ok = ok] /\ env[p].done = 0
      BY <2>2, <1>4, <1>5
    <3>2. env[p].done + 1 \in Nat /\ env[p].done + 1 = 1 BY <3>1
    <3>3. env'[p] \in EnvType BY <3>1, <3>2, <2>1 DEF EnvType
    <3>4. env'[p].pc = env[p].pc /\ env'[p].event = env[p].event /\ env'[p].done = 1
      BY <3>1, <3>2, <2>1 DEF EnvType
    <3> QED BY <3>3, <3>4, <2>2
  <2>3. CASE p \notin ToSet(b) BY <2>1, <2>3, <1>5
  <2> QED BY <2>2, <2>3
<1>8. env' \in [Envelopes -> EnvType] BY <1>6, <1>7
<1>9. Answers' BY <1>4, <1>7 DEF Answers
<1>10. \A p \in Envelopes : (IF p \in ToSet(b) THEN "out" ELSE loc[p]) # "out"
                              <=> env'[p].pc = "accepted" /\ env'[p].done = 0
  BY <1>4, <1>7 DEF Placed
<1> QED BY <1>3, <1>8, <1>9, <1>10

(* One envelope at a time. *)
LEMMA OneEnvelope ==
    ASSUME NEW p \in Envelopes
    PROVE  /\ <<p>> \in Seq(Envelopes) /\ Len(<<p>>) = 1
           /\ \A o : o \in ToSet(<<p>>) <=> o = p
           /\ \A k \in 1..Len(<<p>>) : <<p>>[k] = p
           /\ \A j, k \in 1..Len(<<p>>) : j = k
  BY DEF ToSet

LEMMA SpotNames ==
    {"out", "input", "validator", "valid", "active", "outgoing", "batch", "inserter"} = Spots
  BY DEF Spots

LEMMA ValidatorPopStep ==
    ASSUME Pipeline, NEW v \in Validators, ValidatorPop(v)
    PROVE  Pipeline'
<1> DEFINE p == Head(inputQ)
           S == ToSet(<<p>>)
<1>1. PICK loc \in [Envelopes -> Spots] : Placed(loc) BY DEF Pipeline
<1>2. /\ PipelineTyped /\ v \notin joined /\ validator[v] = <<>> /\ inputQ # <<>>
      /\ env \in [Envelopes -> EnvType] /\ Answers /\ Closing /\ Limited
      /\ inputQ \in Seq(Envelopes) /\ Len(inputQ) \in Nat
      /\ validator \in [Validators -> Seq(Envelopes)]
      /\ inputQ' = Tail(inputQ)
      /\ UNCHANGED <<validQ, batchQ, closed, stage, active, outgoing,
                     draining, inserter, joined>>
  BY DEF Pipeline, PipelineTyped, ValidatorPop
<1>3. /\ p \in Envelopes /\ inputQ' \in Seq(Envelopes) /\ Len(inputQ') = Len(inputQ) - 1
      /\ p = inputQ[1] /\ 1 \in 1..Len(inputQ)
  BY <1>2
<1>4. loc[p] = "input" BY <1>1, <1>3, SingleLists DEF Placed
<1> HIDE DEF p, S
<1>5. \A o : o \in S <=> o = p BY <1>3, OneEnvelope DEF S
<1>6. \A o \in S : o \in Envelopes /\ loc[o] = "input" BY <1>3, <1>4, <1>5
<1>7. ASSUME NEW y \in Spots, y # "input"
      PROVE  Lists(Moved(loc, S, y), One, Single(inputQ'), "input")
  BY <1>1, <1>2, <1>7, QueueTaken DEF Placed, S, p
<1>8. CASE Valid(env[p].event)
  <2>1. validator' = [validator EXCEPT ![v] = <<p>>] /\ env' = env
    BY <1>8 DEF ValidatorPop, p
  <2>2. /\ validator' \in [Validators -> Seq(Envelopes)]
        /\ \A u \in Validators : Len(validator'[u]) <= 1
        /\ \A u \in Validators : u # v => validator'[u] = validator[u]
    BY <2>1, <1>2, <1>3 DEF Limited
  <2>3. PipelineTyped' BY <2>1, <2>2, <1>2, <1>3 DEF PipelineTyped
  <2>4. Limited' BY <2>2, <1>2, <1>3, PipelineAssumption DEF Limited
  <2>5. Answers' BY <2>1, <1>2 DEF Answers
  <2>6. Closing' BY <2>2, <1>2 DEF Closing
  <2>7. Lists(Moved(loc, S, "validator"), Validators, validator', "validator")
    <3> DEFINE b == <<p>>
    <3>1. /\ b \in Seq(Envelopes) /\ \A k \in 1..Len(b) : loc[b[k]] # "validator"
          /\ \A j, k \in 1..Len(b) : b[j] = b[k] => j = k
      BY <1>3, <1>4, OneEnvelope
    <3>2. validator' = [validator EXCEPT ![v] = b] /\ S = ToSet(b) BY <2>1 DEF S
    <3> HIDE DEF b
    <3>3. Lists(loc, Validators, validator, "validator") BY <1>1 DEF Placed
    <3> QED BY <3>1, <3>2, <3>3, <1>2, ListsFilled
  <2>8. \E l \in [Envelopes -> Spots] : Placed(l)'
    <3>1. \A o \in Envelopes : (IF o \in S THEN "validator" ELSE loc[o]) # "out"
                                <=> env'[o].pc = "accepted" /\ env'[o].done = 0
      BY <2>1, <1>1, <1>6 DEF Placed
    <3>2. "input" \in Spots /\ "validator" \in Spots BY SpotNames
    <3>3. Transit(loc, S, "input", "validator")
      BY <3>1, <3>2, <2>7, <1>1, <1>2, <1>6, <1>7 DEF Transit
    <3> QED BY <3>3, <1>2, PlacedAfter
  <2> QED BY <2>3, <2>4, <2>5, <2>6, <2>8 DEF Pipeline
<1>9. CASE ~Valid(env[p].event)
  <2>1. env' = Complete(<<p>>, FALSE) /\ validator' = validator BY <1>9 DEF ValidatorPop, p
  <2>2. /\ env' \in [Envelopes -> EnvType] /\ Answers'
        /\ \A o \in Envelopes : (IF o \in ToSet(<<p>>) THEN "out" ELSE loc[o]) # "out"
                                  <=> env'[o].pc = "accepted" /\ env'[o].done = 0
    <3>1. \A k \in 1..Len(<<p>>) : loc[<<p>>[k]] = "input" BY <1>4
    <3>2. <<p>> \in Seq(Envelopes) BY <1>3
    <3> DEFINE b == <<p>>
               ok == FALSE
    <3> HIDE DEF b, ok
    <3>3. /\ b \in Seq(Envelopes) /\ (\A k \in 1..Len(b) : loc[b[k]] = "input")
          /\ env' = Complete(b, ok) /\ ok \in BOOLEAN
      BY <3>1, <3>2, <2>1 DEF b, ok
    <3>4. /\ env' \in [Envelopes -> EnvType] /\ Answers'
          /\ \A o \in Envelopes : (IF o \in ToSet(b) THEN "out" ELSE loc[o]) # "out"
                                    <=> env'[o].pc = "accepted" /\ env'[o].done = 0
      <4>1. Completing(loc, b, "input", ok) BY <3>3, <1>1 DEF Completing
      <4> QED BY <4>1, <1>2, Completes
    <3> QED BY <3>4 DEF b
  <2>3. PipelineTyped' BY <2>1, <2>2, <1>2, <1>3 DEF PipelineTyped
  <2>4. Limited' BY <2>1, <1>2, <1>3, PipelineAssumption DEF Limited
  <2>5. Closing' BY <2>1, <1>2 DEF Closing
  <2>6. \E l \in [Envelopes -> Spots] : Placed(l)'
    <3>1. \A o \in Envelopes : (IF o \in S THEN "out" ELSE loc[o]) # "out"
                                <=> env'[o].pc = "accepted" /\ env'[o].done = 0
      BY <2>2 DEF S
    <3>2. "input" \in Spots /\ "out" \in Spots BY SpotNames
    <3>3. Transit(loc, S, "input", "out")
      BY <3>1, <3>2, <2>1, <1>1, <1>2, <1>6, <1>7 DEF Transit
    <3> QED BY <3>3, <1>2, PlacedAfter
  <2> QED BY <2>2, <2>3, <2>4, <2>5, <2>6 DEF Pipeline
<1> QED BY <1>8, <1>9

LEMMA ValidatorPushStep ==
    ASSUME Pipeline, NEW v \in Validators, ValidatorPush(v)
    PROVE  Pipeline'
<1> DEFINE S == ToSet(validator[v])
<1>1. PICK loc \in [Envelopes -> Spots] : Placed(loc) BY DEF Pipeline
<1>2. /\ PipelineTyped /\ validator[v] # <<>>
      /\ Answers /\ Closing /\ Limited
      /\ validQ \in Seq(Envelopes) /\ Len(validQ) \in Nat
      /\ validator \in [Validators -> Seq(Envelopes)] /\ Len(validator[v]) <= 1
      /\ validator' = [validator EXCEPT ![v] = <<>>]
      /\ UNCHANGED <<env, inputQ, batchQ, closed, stage, active, outgoing,
                     draining, inserter, joined>>
  BY DEF Pipeline, PipelineTyped, ValidatorPush, Limited
<1>3. v \notin joined /\ "valid" \notin closed BY <1>2 DEF Closing
<1>4. Len(validQ) < QueueCapacity /\ validQ' = validQ \o validator[v]
  BY <1>3 DEF ValidatorPush
<1>5. validator[v] \in Seq(Envelopes) /\ Len(validator[v]) = 1
  <2>1. validator[v] \in Seq(Envelopes) BY <1>2
  <2>2. Len(validator[v]) \in Nat /\ Len(validator[v]) # 0 BY <2>1, <1>2
  <2>3. Len(validator[v]) <= 1 BY <1>2
  <2>4. ASSUME NEW n \in Nat, n # 0, n <= 1 PROVE n = 1 BY <2>4
  <2> QED BY <2>1, <2>2, <2>3, <2>4
<1>6. /\ validQ' \in Seq(Envelopes) /\ Len(validQ') = Len(validQ) + 1
      /\ validator' \in [Validators -> Seq(Envelopes)]
      /\ \A u \in Validators : Len(validator'[u]) <= 1
      /\ validator'[v] = <<>> /\ \A u \in Validators : u # v => validator'[u] = validator[u]
  BY <1>2, <1>4, <1>5 DEF Limited
<1>7. PipelineTyped' /\ Answers' BY <1>2, <1>6 DEF PipelineTyped, Answers
<1>8. Limited' BY <1>2, <1>4, <1>6, PipelineAssumption DEF Limited
<1>9. Closing'
  <2>1. Aggregator \notin joined BY <1>2, <1>3 DEF Closing
  <2> QED BY <2>1, <1>2, <1>3, <1>6 DEF Closing
<1>10. /\ \A k \in 1..Len(validator[v]) : loc[validator[v][k]] = "validator"
       /\ \A j, k \in 1..Len(validator[v]) : validator[v][j] = validator[v][k] => j = k
  BY <1>1 DEF Placed, Lists
<1>11. \A o \in S : loc[o] = "validator" BY <1>5, <1>10 DEF ToSet
<1>12. Lists(Moved(loc, S, "valid"), One, Single(validQ'), "valid")
  BY <1>1, <1>2, <1>4, <1>5, <1>10, QueueJoined DEF Placed
<1>13. Lists(Moved(loc, S, "valid"), Validators, validator', "validator")
  BY <1>1, <1>2, ListsEmptied DEF Placed
<1> HIDE DEF S
<1>14. \A o \in Envelopes : (IF o \in S THEN "valid" ELSE loc[o]) # "out"
                             <=> env'[o].pc = "accepted" /\ env'[o].done = 0
  BY <1>1, <1>2, <1>11 DEF Placed
<1>15. \E l \in [Envelopes -> Spots] : Placed(l)'
  <2>1. "validator" \in Spots /\ "valid" \in Spots BY SpotNames
  <2>2. Transit(loc, S, "validator", "valid")
    BY <2>1, <1>1, <1>2, <1>11, <1>12, <1>13, <1>14 DEF Transit
  <2> QED BY <2>2, <1>2, PlacedAfter
<1> QED BY <1>7, <1>8, <1>9, <1>15 DEF Pipeline

(* A thread ends. *)
LEMMA ExitStep ==
    ASSUME Pipeline, NEW t, joined' = joined \cup {t},
           UNCHANGED <<env, inputQ, validQ, batchQ, closed, stage, validator,
                       active, outgoing, draining, inserter>>,
           t \in Validators => "input" \in closed /\ inputQ = <<>> /\ validator[t] = <<>>,
           t = Aggregator => /\ draining /\ validQ = <<>> /\ active = <<>> /\ outgoing = <<>>,
           t \in Inserters => "batch" \in closed /\ batchQ = <<>> /\ inserter[t] = <<>>
    PROVE  Pipeline'
<1>1. PICK loc \in [Envelopes -> Spots] : Placed(loc) BY DEF Pipeline
<1>2. PipelineTyped' /\ Limited' /\ Answers' BY DEF Pipeline, PipelineTyped, Limited, Answers
<1>3. Closing'
  <2>1. Closing BY DEF Pipeline
  <2>2. \A v \in Validators : v \in joined' =>
          "input" \in closed /\ inputQ = <<>> /\ validator[v] = <<>>
    BY <2>1 DEF Closing
  <2>3. Aggregator \in joined' =>
          "valid" \in closed /\ validQ = <<>> /\ active = <<>> /\ outgoing = <<>>
    BY <2>1 DEF Closing
  <2>4. \A w \in Inserters : w \in joined' =>
          "batch" \in closed /\ batchQ = <<>> /\ inserter[w] = <<>>
    BY <2>1 DEF Closing
  <2> QED BY <2>1, <2>2, <2>3, <2>4 DEF Closing
<1>4. Placed(loc)' BY <1>1 DEF Placed, Single
<1> QED BY <1>2, <1>3, <1>4 DEF Pipeline

LEMMA ThreadsExit ==
    ASSUME Pipeline,
           \/ \E v \in Validators : ValidatorExit(v)
           \/ AggregatorExit
           \/ \E w \in Inserters : InserterExit(w)
    PROVE  Pipeline'
<1>1. ASSUME NEW v \in Validators, ValidatorExit(v) PROVE Pipeline'
  BY <1>1, ExitStep, PipelineAssumption DEF ValidatorExit
<1>2. ASSUME AggregatorExit PROVE Pipeline'
  BY <1>2, ExitStep, PipelineAssumption DEF AggregatorExit
<1>3. ASSUME NEW w \in Inserters, InserterExit(w) PROVE Pipeline'
  BY <1>3, ExitStep, PipelineAssumption DEF InserterExit
<1> QED BY <1>1, <1>2, <1>3

LEMMA AggregatorPopStep ==
    ASSUME Pipeline, AggregatorPop
    PROVE  Pipeline'
<1> DEFINE p == Head(validQ)
           b == <<p>>
           S == ToSet(b)
<1>1. PICK loc \in [Envelopes -> Spots] : Placed(loc) BY DEF Pipeline
<1>2. /\ PipelineTyped /\ Answers /\ Closing /\ Limited
      /\ Aggregator \notin joined /\ validQ # <<>> /\ Len(active) < BatchSize
      /\ validQ \in Seq(Envelopes) /\ Len(validQ) \in Nat
      /\ active \in Seq(Envelopes) /\ Len(active) \in Nat
      /\ active' = Append(active, p) /\ validQ' = Tail(validQ)
      /\ UNCHANGED <<env, inputQ, batchQ, closed, stage, validator, outgoing,
                     draining, inserter, joined>>
  BY DEF Pipeline, PipelineTyped, AggregatorPop
<1>3. /\ p \in Envelopes /\ validQ' \in Seq(Envelopes) /\ Len(validQ') = Len(validQ) - 1
      /\ p = validQ[1] /\ 1 \in 1..Len(validQ)
      /\ active' \in Seq(Envelopes) /\ Len(active') = Len(active) + 1
  BY <1>2
<1>4. loc[p] = "valid" BY <1>1, <1>3, SingleLists DEF Placed
<1>5. /\ b \in Seq(Envelopes) /\ \A k \in 1..Len(b) : loc[b[k]] # "active"
      /\ \A j, k \in 1..Len(b) : b[j] = b[k] => j = k
  <2> HIDE DEF p
  <2> QED BY <1>3, <1>4, OneEnvelope
<1>6. active' = active \o b BY <1>2, <1>3
<1>7. \A o : o \in S <=> o = p
  <2> HIDE DEF p
  <2> QED BY <1>3, OneEnvelope
<1>8. Lists(Moved(loc, S, "active"), One, Single(validQ'), "valid")
  BY <1>1, <1>2, QueueTaken DEF Placed
<1> HIDE DEF p, b
<1>9. Lists(Moved(loc, S, "active"), One, Single(active'), "active")
  <2>1. Lists(loc, One, Single(active), "active") BY <1>1 DEF Placed
  <2> QED BY <2>1, <1>2, <1>5, <1>6, QueueJoined
<1> HIDE DEF S
<1>10. \A o \in Envelopes : (IF o \in S THEN "active" ELSE loc[o]) # "out"
                             <=> env'[o].pc = "accepted" /\ env'[o].done = 0
  BY <1>1, <1>2, <1>4, <1>7 DEF Placed
<1>11. \E l \in [Envelopes -> Spots] : Placed(l)'
  <2>1. "valid" \in Spots /\ "active" \in Spots BY SpotNames
  <2>2. Transit(loc, S, "valid", "active")
    BY <2>1, <1>1, <1>2, <1>4, <1>7, <1>8, <1>9, <1>10 DEF Transit
  <2> QED BY <2>2, <1>2, PlacedAfter
<1>12. PipelineTyped' /\ Answers' BY <1>2, <1>3 DEF PipelineTyped, Answers
<1>13. Limited' BY <1>2, <1>3, PipelineAssumption DEF Limited
<1>14. Closing' BY <1>2 DEF Closing
<1> QED BY <1>11, <1>12, <1>13, <1>14 DEF Pipeline

LEMMA FlushStep ==
    ASSUME Pipeline, Flush
    PROVE  Pipeline'
<1> DEFINE S == ToSet(active)
<1>1. PICK loc \in [Envelopes -> Spots] : Placed(loc) BY DEF Pipeline
<1>2. /\ PipelineTyped /\ Answers /\ Closing /\ Limited
      /\ active # <<>> /\ outgoing = <<>>
      /\ active \in Seq(Envelopes) /\ outgoing' = active /\ active' = <<>>
      /\ UNCHANGED <<env, inputQ, validQ, batchQ, closed, stage, validator,
                     draining, inserter, joined>>
  BY DEF Pipeline, PipelineTyped, Flush
<1>3. /\ \A k \in 1..Len(active) : loc[active[k]] = "active"
      /\ \A j, k \in 1..Len(active) : active[j] = active[k] => j = k
      /\ \A p \in Envelopes : loc[p] = "active" => \E k \in 1..Len(active) : active[k] = p
      /\ \A p \in Envelopes : loc[p] # "outgoing"
  BY <1>1, <1>2, SingleLists DEF Placed
<1>4. \A o : o \in S <=> \E k \in 1..Len(active) : active[k] = o BY <1>2 DEF ToSet
<1>5. \A k \in 1..Len(active) : active[k] \in Envelopes BY <1>2
<1> HIDE DEF S
<1>6. \A o \in Envelopes : Moved(loc, S, "outgoing")[o] = IF o \in S THEN "outgoing" ELSE loc[o]
  BY DEF Moved
<1>7. Lists(Moved(loc, S, "outgoing"), One, Single(outgoing'), "outgoing")
  BY <1>2, <1>3, <1>4, <1>5, <1>6, SingleLists
<1>8. Lists(Moved(loc, S, "outgoing"), One, Single(active'), "active")
  <2>1. \A o \in Envelopes : Moved(loc, S, "outgoing")[o] # "active" BY <1>3, <1>4, <1>6
  <2> QED BY <2>1, <1>2, SingleLists
<1>9. \A o \in S : loc[o] = "active" BY <1>3, <1>4
<1>10. \A o \in Envelopes : (IF o \in S THEN "outgoing" ELSE loc[o]) # "out"
                             <=> env'[o].pc = "accepted" /\ env'[o].done = 0
  BY <1>1, <1>2, <1>9 DEF Placed
<1>11. \E l \in [Envelopes -> Spots] : Placed(l)'
  <2>1. "active" \in Spots /\ "outgoing" \in Spots BY SpotNames
  <2>2. Transit(loc, S, "active", "outgoing")
    BY <2>1, <1>1, <1>2, <1>7, <1>8, <1>9, <1>10 DEF Transit
  <2> QED BY <2>2, <1>2, PlacedAfter
<1>12. PipelineTyped' /\ Answers' BY <1>2 DEF PipelineTyped, Answers
<1>13. Limited' BY <1>2, PipelineAssumption DEF Limited
<1>14. Closing' BY <1>2 DEF Closing
<1> QED BY <1>11, <1>12, <1>13, <1>14 DEF Pipeline

LEMMA FlushPushStep ==
    ASSUME Pipeline, FlushPush
    PROVE  Pipeline'
<1> DEFINE S == ToSet(outgoing)
<1>1. PICK loc \in [Envelopes -> Spots] : Placed(loc) BY DEF Pipeline
<1>2. /\ PipelineTyped /\ Answers /\ Closing /\ Limited
      /\ outgoing # <<>> /\ outgoing' = <<>>
      /\ outgoing \in Seq(Envelopes) /\ batchQ \in Seq(Seq(Envelopes))
      /\ UNCHANGED <<env, inputQ, validQ, closed, stage, validator, active,
                     draining, inserter, joined>>
  BY DEF Pipeline, PipelineTyped, FlushPush
<1>3. Aggregator \notin joined /\ "batch" \notin closed BY <1>2 DEF Closing
<1>4. batchQ' = Append(batchQ, outgoing) /\ Len(batchQ) < BatchCapacity BY <1>3 DEF FlushPush
<1>5. /\ \A k \in 1..Len(outgoing) : loc[outgoing[k]] = "outgoing"
      /\ \A j, k \in 1..Len(outgoing) : outgoing[j] = outgoing[k] => j = k
      /\ \A p \in Envelopes : loc[p] = "outgoing"
           => \E k \in 1..Len(outgoing) : outgoing[k] = p
  BY <1>1, SingleLists DEF Placed
<1>6. \A o : o \in S <=> \E k \in 1..Len(outgoing) : outgoing[k] = o BY <1>2 DEF ToSet
<1>7. Lists(Moved(loc, S, "batch"), 1..Len(batchQ'), batchQ', "batch")
  <2>1. \A k \in 1..Len(outgoing) : loc[outgoing[k]] # "batch" BY <1>5
  <2> QED BY <2>1, <1>1, <1>2, <1>4, <1>5, BatchJoined DEF Placed
<1> HIDE DEF S
<1>8. \A o \in Envelopes : Moved(loc, S, "batch")[o] = IF o \in S THEN "batch" ELSE loc[o]
  BY DEF Moved
<1>9. Lists(Moved(loc, S, "batch"), One, Single(outgoing'), "outgoing")
  <2>1. \A o \in Envelopes : Moved(loc, S, "batch")[o] # "outgoing" BY <1>5, <1>6, <1>8
  <2> QED BY <2>1, <1>2, SingleLists
<1>10. \A o \in S : loc[o] = "outgoing" BY <1>5, <1>6
<1>11. \A o \in Envelopes : (IF o \in S THEN "batch" ELSE loc[o]) # "out"
                             <=> env'[o].pc = "accepted" /\ env'[o].done = 0
  BY <1>1, <1>2, <1>10 DEF Placed
<1>12. \E l \in [Envelopes -> Spots] : Placed(l)'
  <2>1. "outgoing" \in Spots /\ "batch" \in Spots BY SpotNames
  <2>2. Transit(loc, S, "outgoing", "batch")
    BY <2>1, <1>1, <1>2, <1>7, <1>9, <1>10, <1>11 DEF Transit
  <2> QED BY <2>2, <1>2, PlacedAfter
<1>13. batchQ' \in Seq(Seq(Envelopes)) BY <1>2, <1>4
<1>14. PipelineTyped' /\ Answers' BY <1>2, <1>13 DEF PipelineTyped, Answers
<1>15. Limited'
  <2>1. /\ Len(batchQ) \in Nat /\ Len(batchQ') = Len(batchQ) + 1
        /\ Len(outgoing) \in 1..BatchSize
        /\ \A k \in 1..Len(batchQ') : batchQ'[k] = IF k = Len(batchQ) + 1 THEN outgoing ELSE batchQ[k]
        /\ \A k \in 1..Len(batchQ') : k = Len(batchQ) + 1 \/ k \in 1..Len(batchQ)
    <3>1. Len(outgoing) \in Nat /\ Len(outgoing) # 0 BY <1>2
    <3>2. Len(outgoing) <= BatchSize BY <1>2 DEF Limited
    <3>3. Len(outgoing) \in 1..BatchSize BY <3>1, <3>2, PipelineAssumption
    <3> QED BY <3>3, <1>2, <1>4
  <2>2. \A k \in 1..Len(batchQ') : Len(batchQ'[k]) \in 1..BatchSize BY <2>1, <1>2 DEF Limited
  <2>3. Len(batchQ') <= BatchCapacity BY <2>1, <1>4, PipelineAssumption
  <2>4. Len(<<>>) <= BatchSize BY PipelineAssumption
  <2> QED BY <2>2, <2>3, <2>4, <1>2 DEF Limited
<1>16. Closing' BY <1>2, <1>3 DEF Closing
<1> QED BY <1>12, <1>14, <1>15, <1>16 DEF Pipeline

LEMMA InserterPopStep ==
    ASSUME Pipeline, NEW w \in Inserters, InserterPop(w)
    PROVE  Pipeline'
<1> DEFINE b == Head(batchQ)
           S == ToSet(b)
<1>1. PICK loc \in [Envelopes -> Spots] : Placed(loc) BY DEF Pipeline
<1>2. /\ PipelineTyped /\ Answers /\ Closing /\ Limited
      /\ w \notin joined /\ inserter[w] = <<>> /\ batchQ # <<>>
      /\ inserter' = [inserter EXCEPT ![w] = b] /\ batchQ' = Tail(batchQ)
      /\ batchQ \in Seq(Seq(Envelopes)) /\ inserter \in [Inserters -> Seq(Envelopes)]
      /\ UNCHANGED <<env, inputQ, validQ, closed, stage, validator, active,
                     outgoing, draining, joined>>
  BY DEF Pipeline, PipelineTyped, InserterPop
<1>3. /\ b = batchQ[1] /\ 1 \in 1..Len(batchQ) /\ b \in Seq(Envelopes)
      /\ Len(batchQ) \in Nat /\ Len(batchQ') = Len(batchQ) - 1
      /\ batchQ' \in Seq(Seq(Envelopes))
      /\ \A k \in 1..Len(batchQ') : batchQ'[k] = batchQ[k + 1] /\ k + 1 \in 1..Len(batchQ)
  BY <1>2
<1>4. Lists(Moved(loc, S, "inserter"), 1..Len(batchQ'), batchQ', "batch")
  BY <1>1, <1>2, BatchTaken DEF Placed
<1> HIDE DEF b
<1>5. /\ \A k \in 1..Len(b) : loc[b[k]] = "batch"
      /\ \A j, k \in 1..Len(b) : b[j] = b[k] => j = k
  BY <1>1, <1>3 DEF Placed, Lists
<1>6. Lists(Moved(loc, S, "inserter"), Inserters, inserter', "inserter")
  <2>1. \A k \in 1..Len(b) : loc[b[k]] # "inserter" BY <1>5
  <2>2. Lists(loc, Inserters, inserter, "inserter") BY <1>1 DEF Placed
  <2> QED BY <2>1, <2>2, <1>2, <1>3, <1>5, ListsFilled
<1>7. \A o \in S : loc[o] = "batch" BY <1>3, <1>5 DEF ToSet
<1> HIDE DEF S
<1>8. \A o \in Envelopes : (IF o \in S THEN "inserter" ELSE loc[o]) # "out"
                            <=> env'[o].pc = "accepted" /\ env'[o].done = 0
  BY <1>1, <1>2, <1>7 DEF Placed
<1>9. \E l \in [Envelopes -> Spots] : Placed(l)'
  <2>1. "batch" \in Spots /\ "inserter" \in Spots BY SpotNames
  <2>2. Transit(loc, S, "batch", "inserter")
    BY <2>1, <1>1, <1>2, <1>4, <1>6, <1>7, <1>8 DEF Transit
  <2> QED BY <2>2, <1>2, PlacedAfter
<1>10. /\ inserter' \in [Inserters -> Seq(Envelopes)]
       /\ \A u \in Inserters : u # w => inserter'[u] = inserter[u]
  BY <1>2, <1>3
<1>11. PipelineTyped' /\ Answers' BY <1>2, <1>3, <1>10 DEF PipelineTyped, Answers
<1>12. Limited'
  <2>1. Len(batchQ') <= BatchCapacity BY <1>2, <1>3, PipelineAssumption DEF Limited
  <2>2. \A k \in 1..Len(batchQ') : Len(batchQ'[k]) \in 1..BatchSize BY <1>2, <1>3 DEF Limited
  <2> QED BY <2>1, <2>2, <1>2 DEF Limited
<1>13. Closing' BY <1>2, <1>10 DEF Closing
<1> QED BY <1>9, <1>11, <1>12, <1>13 DEF Pipeline

LEMMA InserterInsertStep ==
    ASSUME Pipeline, NEW w \in Inserters, NEW ending \in Endings, InserterInsert(w, ending)
    PROVE  Pipeline'
<1> DEFINE b == inserter[w]
           S == ToSet(b)
           ok == ~Threw(ending)
<1>1. PICK loc \in [Envelopes -> Spots] : Placed(loc) BY DEF Pipeline
<1>2. /\ PipelineTyped /\ Answers /\ Closing /\ Limited
      /\ env \in [Envelopes -> EnvType]
      /\ inserter \in [Inserters -> Seq(Envelopes)]
      /\ inserter' = [inserter EXCEPT ![w] = <<>>]
      /\ UNCHANGED <<inputQ, validQ, batchQ, closed, stage, validator, active,
                     outgoing, draining, joined>>
  BY DEF Pipeline, PipelineTyped, InserterInsert
<1>3. env' = Complete(b, ok) /\ ok \in BOOLEAN BY DEF InserterInsert, Threw
<1>4. Lists(Moved(loc, S, "out"), Inserters, inserter', "inserter")
  <2>1. Lists(loc, Inserters, inserter, "inserter") BY <1>1 DEF Placed
  <2> QED BY <2>1, <1>2, ListsEmptied
<1>5. b \in Seq(Envelopes) /\ \A k \in 1..Len(b) : loc[b[k]] = "inserter"
  BY <1>1, <1>2 DEF Placed, Lists
<1> HIDE DEF b, ok
<1>6. Completing(loc, b, "inserter", ok) BY <1>1, <1>3, <1>5 DEF Completing
<1>7. /\ env' \in [Envelopes -> EnvType] /\ Answers'
      /\ \A o \in ToSet(b) : o \in Envelopes /\ loc[o] = "inserter"
      /\ \A o \in Envelopes : (IF o \in ToSet(b) THEN "out" ELSE loc[o]) # "out"
                                <=> env'[o].pc = "accepted" /\ env'[o].done = 0
  BY <1>2, <1>6, Completes
<1>8. \E l \in [Envelopes -> Spots] : Placed(l)'
  <2>1. "out" \in Spots /\ "inserter" \in Spots BY SpotNames
  <2>2. Transit(loc, S, "inserter", "out") BY <2>1, <1>1, <1>2, <1>4, <1>7 DEF Transit
  <2> QED BY <2>2, <1>2, PlacedAfter
<1>9. /\ inserter' \in [Inserters -> Seq(Envelopes)]
      /\ \A u \in Inserters : inserter[u] = <<>> => inserter'[u] = <<>>
  BY <1>2
<1>10. PipelineTyped' BY <1>2, <1>7, <1>9 DEF PipelineTyped
<1>11. Limited' BY <1>2 DEF Limited
<1>12. Closing' BY <1>2, <1>9 DEF Closing
<1> QED BY <1>7, <1>8, <1>10, <1>11, <1>12 DEF Pipeline

LEMMA ShutdownStep == ASSUME Pipeline, Shutdown PROVE Pipeline'
<1>1. PICK loc \in [Envelopes -> Spots] : Placed(loc) BY DEF Pipeline
<1>2. /\ PipelineTyped /\ Answers /\ Closing /\ Limited
      /\ UNCHANGED <<env, inputQ, validQ, batchQ, validator, active, outgoing,
                     inserter, joined>>
  BY DEF Pipeline, Shutdown
<1>3. Placed(loc)' BY <1>1, <1>2 DEF Placed, Single
<1>4. Limited' /\ Answers' BY <1>2 DEF Limited, Answers
<1>5. CASE stage = "running" /\ stage' = "refusing" /\ UNCHANGED <<closed, draining>>
  <2>1. PipelineTyped' BY <1>2, <1>5 DEF PipelineTyped, Stages
  <2>2. Closing' BY <1>2, <1>5 DEF Closing
  <2> QED BY <2>1, <2>2, <1>3, <1>4 DEF Pipeline
<1>6. CASE /\ stage = "refusing" /\ stage' = "input_closed"
           /\ closed' = closed \cup {"input"} /\ UNCHANGED draining
  <2>1. PipelineTyped' BY <1>2, <1>6 DEF PipelineTyped, Stages
  <2>2. Closing' BY <1>2, <1>6 DEF Closing
  <2> QED BY <2>1, <2>2, <1>3, <1>4 DEF Pipeline
<1>7. CASE /\ stage = "input_closed" /\ Validators \subseteq joined
           /\ stage' = "valid_closed" /\ draining' = TRUE
           /\ closed' = closed \cup {"valid"}
  <2>1. PipelineTyped' BY <1>2, <1>7 DEF PipelineTyped, Stages
  <2>2. Closing' BY <1>2, <1>7 DEF Closing
  <2> QED BY <2>1, <2>2, <1>3, <1>4 DEF Pipeline
<1>8. CASE /\ stage = "valid_closed" /\ Aggregator \in joined
           /\ stage' = "batch_closed"
           /\ closed' = closed \cup {"batch"} /\ UNCHANGED draining
  <2>1. PipelineTyped' BY <1>2, <1>8 DEF PipelineTyped, Stages
  <2>2. Closing' BY <1>2, <1>8 DEF Closing
  <2> QED BY <2>1, <2>2, <1>3, <1>4 DEF Pipeline
<1>9. CASE /\ stage = "batch_closed" /\ Inserters \subseteq joined
           /\ stage' = "inserters_joined" /\ UNCHANGED <<closed, draining>>
  <2>1. PipelineTyped' BY <1>2, <1>9 DEF PipelineTyped, Stages
  <2>2. Closing' BY <1>2, <1>9 DEF Closing
  <2> QED BY <2>1, <2>2, <1>3, <1>4 DEF Pipeline
<1> QED BY <1>5, <1>6, <1>7, <1>8, <1>9 DEF Shutdown

LEMMA StopServerStep == ASSUME Pipeline, StopServer PROVE Pipeline'
<1>1. PICK loc \in [Envelopes -> Spots] : Placed(loc) BY DEF Pipeline
<1>2. /\ PipelineTyped /\ Answers /\ Closing /\ Limited
      /\ UNCHANGED <<env, inputQ, validQ, batchQ, closed, draining, validator, active,
                     outgoing, inserter, joined>>
      /\ stage \in {"inserters_joined", "server_closing"}
      /\ stage' \in {"server_closing", "stopped"}
  BY DEF Pipeline, StopServer
<1>3. Placed(loc)' BY <1>1, <1>2 DEF Placed, Single
<1>4. Limited' /\ Answers' BY <1>2 DEF Limited, Answers
<1>5. PipelineTyped' BY <1>2 DEF PipelineTyped, Stages
<1>6. Closing' BY <1>2 DEF Closing
<1> QED BY <1>3, <1>4, <1>5, <1>6 DEF Pipeline

(* Every step keeps the envelopes in order. *)
LEMMA PipelineNext == ASSUME Pipeline, [Next]_vars PROVE Pipeline'
<1>1. CASE StoreStep \/ IngestionStep \/ QueryStep \/ Exited \/ UNCHANGED vars
  <2>1. UNCHANGED pipelineVars BY <1>1 DEF StoreStep, IngestionStep, QueryStep, Exited, vars
  <2> QED BY <2>1, PipelineKept
<1>2. CASE PipelineStep
  <2>1. ASSUME NEW p \in Envelopes, NEW e \in Events, PipelineSubmit(p, e) PROVE Pipeline'
    BY <2>1, PipelineSubmitStep
  <2>2. ASSUME NEW p \in Envelopes, TryPush(p) PROVE Pipeline' BY <2>2, TryPushStep
  <2>3. ASSUME NEW v \in Validators, ValidatorPop(v) \/ ValidatorPush(v) \/ ValidatorExit(v)
        PROVE  Pipeline'
    BY <2>3, ValidatorPopStep, ValidatorPushStep, ThreadsExit
  <2>4. ASSUME AggregatorPop \/ Flush \/ FlushPush \/ AggregatorExit PROVE Pipeline'
    BY <2>4, AggregatorPopStep, FlushStep, FlushPushStep, ThreadsExit
  <2>5. ASSUME NEW w \in Inserters, InserterPop(w) \/ InserterExit(w) PROVE Pipeline'
    BY <2>5, InserterPopStep, ThreadsExit
  <2>6. ASSUME NEW w \in Inserters, NEW ending \in Endings, InserterInsert(w, ending)
        PROVE  Pipeline'
    BY <2>6, InserterInsertStep
  <2> QED BY <1>2, <2>1, <2>2, <2>3, <2>4, <2>5, <2>6, ShutdownStep DEF PipelineStep
<1>3. CASE StopServer BY <1>3, StopServerStep
<1> QED BY <1>1, <1>2, <1>3 DEF Next

(* What the joined threads leave behind is empty, so nothing is left.      *)
LEMMA DrainedIsAnswered == Pipeline => PipelineDrains
<1> SUFFICES ASSUME Pipeline PROVE PipelineDrains OBVIOUS
<1>1. PromiseOnce BY DEF Pipeline, Answers, PromiseOnce
<1>2. ASSUME stage \in {"inserters_joined", "server_closing", "stopped"},
             NEW p \in Envelopes, env[p].pc = "accepted", env[p].done # 1
      PROVE  FALSE
  <2>1. PICK loc \in [Envelopes -> Spots] : Placed(loc) BY DEF Pipeline
  <2>2. env[p].done = 0
    <3>1. env[p].done \in Nat /\ env[p].done <= 1
      BY DEF Pipeline, PipelineTyped, EnvType, Answers
    <3> QED BY <3>1, <1>2
  <2>3. loc[p] # "out" BY <2>1, <2>2, <1>2 DEF Placed
  <2>4. /\ Inserters \subseteq joined /\ Aggregator \in joined /\ Validators \subseteq joined
    BY <1>2 DEF Pipeline, Closing
  <2>5. /\ inputQ = <<>> /\ validQ = <<>> /\ active = <<>> /\ outgoing = <<>> /\ batchQ = <<>>
        /\ \A v \in Validators : validator[v] = <<>>
        /\ \A w \in Inserters : inserter[w] = <<>>
    BY <2>4, PipelineAssumption DEF Pipeline, Closing
  <2>6. loc[p] \notin {"input", "valid", "active", "outgoing"}
    BY <2>1, <2>5, SingleLists DEF Placed
  <2>7. loc[p] # "validator" /\ loc[p] # "inserter" /\ loc[p] # "batch"
    BY <2>1, <2>5 DEF Placed, Lists
  <2>8. loc[p] \in Spots OBVIOUS
  <2> QED BY <2>3, <2>6, <2>7, <2>8 DEF Spots
<1> QED BY <1>1, <1>2 DEF PipelineDrains, DrainComplete

(* Every envelope that submit() of the pipeline accepted is answered       *)
(* exactly once, also when stop() overtakes it: no stage completes a       *)
(* promise twice, and none is left open once the insert workers are joined.*)
THEOREM PipelineAlwaysDrains == Spec => []PipelineDrains
<1>1. Init => Pipeline BY PipelineStarts
<1>2. Pipeline /\ [Next]_vars => Pipeline' BY PipelineNext
<1>3. Pipeline => PipelineDrains BY DrainedIsAnswered
<1> QED BY <1>1, <1>2, <1>3, PTL DEF Spec

-----------------------------------------------------------------------------
(* The table.  Its rows only grow. *)
Grown == \A e \in Events : rows[e] \in Nat /\ rows'[e] \in Nat /\ rows[e] <= rows'[e]

LEMMA EventFields ==
    /\ \A e \in Events : /\ e.id \in Ids /\ e.id \in Nat /\ e.at \in Nat /\ e.producer \in Nat
                         /\ Fingerprint(e) \in Prints
    /\ \A e, f \in Events : Fingerprint(e) = Fingerprint(f) => e = f
<1>1. \A e \in Events : e \in [id : Nat, at : Nat, producer : Nat] BY EventsAssumption
<1>2. \A e \in Events : /\ e.id \in Ids /\ e.id \in Nat /\ e.at \in Nat /\ e.producer \in Nat
  BY <1>1 DEF Ids
<1>3. \A e \in Events : Fingerprint(e) \in Prints BY <1>2 DEF Fingerprint, Prints
<1>4. \A e, f \in Events : Fingerprint(e) = Fingerprint(f) => e = f BY <1>1 DEF Fingerprint
<1> QED BY <1>2, <1>3, <1>4

LEMMA IdsAreNat == \A i \in Ids : i \in Nat
  BY EventFields DEF Ids

LEMMA AppendedRows ==
    ASSUME rows \in [Events -> Nat], NEW b \in Seq(Events)
    PROVE  /\ Appended(b) \in [Events -> Nat]
           /\ \A e \in Events : Appended(b)[e] \in Nat /\ rows[e] <= Appended(b)[e]
           /\ \A k \in 1..Len(b) : Appended(b)[b[k]] > 0
<1> DEFINE at(e) == {i \in 1..Len(b) : b[i] = e}
<1>1. IsFiniteSet(1..Len(b)) BY FS_Interval
<1>2. \A e : IsFiniteSet(at(e)) /\ Cardinality(at(e)) \in Nat
  BY <1>1, FS_Subset, FS_CardinalityType
<1>3. \A e : at(e) # {} => Cardinality(at(e)) # 0 BY <1>2, FS_EmptySet
<1>4. \A e \in Events : Appended(b)[e] = rows[e] + Cardinality(at(e)) BY DEF Appended
<1>5. \A k \in 1..Len(b) : b[k] \in Events /\ k \in at(b[k]) OBVIOUS
<1> HIDE DEF at
<1>6. \A e \in Events : Appended(b)[e] \in Nat /\ rows[e] <= Appended(b)[e] BY <1>2, <1>4
<1>7. \A k \in 1..Len(b) : Appended(b)[b[k]] > 0
  <2> SUFFICES ASSUME NEW k \in 1..Len(b) PROVE Appended(b)[b[k]] > 0 OBVIOUS
  <2> DEFINE e == b[k]
  <2>1. e \in Events /\ at(e) # {} BY <1>5
  <2> HIDE DEF e
  <2>2. Cardinality(at(e)) \in Nat /\ Cardinality(at(e)) # 0 /\ rows[e] \in Nat
    BY <2>1, <1>2, <1>3
  <2> QED BY <2>1, <2>2, <1>4 DEF e
<1>8. Appended(b) = [e \in Events |-> Appended(b)[e]] BY DEF Appended
<1> QED BY <1>6, <1>7, <1>8

LEMMA InsertRows ==
    ASSUME StoreTypeOK, NEW b \in Seq(Events), NEW ending \in Endings, ExecuteInsert(b, ending)
    PROVE  /\ StoreTypeOK' /\ Grown
           /\ ~Threw(ending) => \A k \in 1..Len(b) : rows'[b[k]] > 0
<1>1. /\ rows \in [Events -> Nat] /\ late \in Seq(Seq(Events))
      /\ faults \in 0..MaxFaults /\ clock \in 0..MaxClock
  BY DEF StoreTypeOK
<1>2. /\ Appended(b) \in [Events -> Nat]
      /\ \A e \in Events : Appended(b)[e] \in Nat /\ rows[e] <= Appended(b)[e]
      /\ \A k \in 1..Len(b) : Appended(b)[b[k]] > 0
  BY <1>1, AppendedRows
<1>3. rows' = Appended(b) \/ rows' = rows BY DEF ExecuteInsert
<1>4. rows' \in [Events -> Nat] /\ Grown BY <1>1, <1>2, <1>3 DEF Grown
<1>5. late' \in Seq(Seq(Events)) /\ clock' = clock BY <1>1 DEF ExecuteInsert
<1>6. faults' \in 0..MaxFaults BY <1>1, EventsAssumption DEF ExecuteInsert
<1>7. ~Threw(ending) => rows' = Appended(b) BY DEF ExecuteInsert, Threw
<1> QED BY <1>1, <1>2, <1>4, <1>5, <1>6, <1>7 DEF StoreTypeOK

LEMMA StoreKept == ASSUME StoreTypeOK, UNCHANGED storeVars PROVE StoreTypeOK' /\ Grown
  BY DEF StoreTypeOK, storeVars, Grown

LEMMA StoreSteps == ASSUME StoreTypeOK, StoreStep PROVE StoreTypeOK' /\ Grown
<1>1. /\ rows \in [Events -> Nat] /\ late \in Seq(Seq(Events))
      /\ faults \in 0..MaxFaults /\ clock \in 0..MaxClock
  BY DEF StoreTypeOK
<1>2. CASE LateInsert
  <2>1. Head(late) \in Seq(Events) /\ Tail(late) \in Seq(Seq(Events))
    BY <1>1, <1>2 DEF LateInsert
  <2>2. rows' \in [Events -> Nat] /\ Grown
    BY <2>1, <1>1, <1>2, AppendedRows DEF LateInsert, Grown
  <2> QED BY <2>1, <2>2, <1>1, <1>2 DEF LateInsert, StoreTypeOK
<1>3. CASE Tick
  <2>1. clock' \in 0..MaxClock BY <1>1, <1>3, EventsAssumption DEF Tick
  <2> QED BY <2>1, <1>1, <1>3 DEF Tick, StoreTypeOK, Grown
<1> QED BY <1>2, <1>3 DEF StoreStep

(* The batch of an insert worker consists of events. *)
LEMMA InserterBatch ==
    ASSUME Pipeline, NEW w \in Inserters
    PROVE  /\ inserter[w] \in Seq(Envelopes)
           /\ \A k \in 1..Len(inserter[w]) : /\ inserter[w][k] \in Envelopes
                                             /\ env[inserter[w][k]].event \in Events
           /\ [k \in 1..Len(inserter[w]) |-> env[inserter[w][k]].event] \in Seq(Events)
<1>1. PICK loc \in [Envelopes -> Spots] : Placed(loc) BY DEF Pipeline
<1>2. inserter[w] \in Seq(Envelopes) /\ Len(inserter[w]) \in Nat
  BY DEF Pipeline, PipelineTyped
<1>3. \A k \in 1..Len(inserter[w]) : inserter[w][k] \in Envelopes /\ loc[inserter[w][k]] = "inserter"
  BY <1>1, <1>2 DEF Placed, Lists
<1>4. \A p \in Envelopes : loc[p] = "inserter" => env[p].pc = "accepted" BY <1>1 DEF Placed
<1>5. \A p \in Envelopes : env[p].pc = "accepted" => env[p].event \in Events
  BY DEF Pipeline, Answers
<1>6. \A k \in 1..Len(inserter[w]) : env[inserter[w][k]].event \in Events BY <1>3, <1>4, <1>5
<1>7. [k \in 1..Len(inserter[w]) |-> env[inserter[w][k]].event] \in Seq(Events) BY <1>2, <1>6
<1> QED BY <1>2, <1>3, <1>6, <1>7

LEMMA StoreNext ==
    ASSUME StoreTypeOK, Pipeline, IngestionTyped, [Next]_vars
    PROVE  StoreTypeOK' /\ Grown
<1>1. CASE StoreStep BY <1>1, StoreSteps
<1>2. ASSUME NEW c \in Calls, NEW ending \in Endings, Insert(c, ending)
      PROVE  StoreTypeOK' /\ Grown
  <2>1. call[c].own \in Seq(Events) /\ ExecuteInsert(call[c].own, ending)
    BY <1>2 DEF Insert, IngestionTyped, CallType
  <2> QED BY <2>1, InsertRows
<1>3. ASSUME NEW w \in Inserters, NEW ending \in Endings, InserterInsert(w, ending)
      PROVE  StoreTypeOK' /\ Grown
  <2> DEFINE b == [k \in 1..Len(inserter[w]) |-> env[inserter[w][k]].event]
  <2>1. b \in Seq(Events) BY InserterBatch
  <2>2. ExecuteInsert(b, ending) BY <1>3 DEF InserterInsert
  <2> HIDE DEF b
  <2> QED BY <2>1, <2>2, InsertRows
<1>4. CASE UNCHANGED storeVars BY <1>4, StoreKept
<1>5. CASE IngestionStep BY <1>2, <1>4, <1>5 DEF IngestionStep
<1>6. CASE PipelineStep BY <1>3, <1>4, <1>6 DEF PipelineStep
<1>7. CASE QueryStep \/ StopServer \/ Exited \/ UNCHANGED vars
  BY <1>4, <1>7 DEF QueryStep, StopServer, Exited, vars
<1> QED BY <1>1, <1>5, <1>6, <1>7 DEF Next

(* An envelope is answered with success only when its batch was stored.    *)
LEMMA DeliveredKept ==
    ASSUME StoreTypeOK, Delivered, Grown, env' = env
    PROVE  Delivered'
<1> SUFFICES ASSUME NEW p \in Envelopes, env[p].ok
             PROVE  env[p].event \in Events /\ rows'[env[p].event] > 0
  BY DEF Delivered
<1>1. env[p].event \in Events /\ rows[env[p].event] > 0 BY DEF Delivered
<1> QED BY <1>1 DEF Grown

LEMMA DeliveredNext ==
    ASSUME StoreTypeOK, Pipeline, IngestionTyped, Delivered, [Next]_vars
    PROVE  Delivered'
<1>1. Grown BY StoreNext
<1>2. env \in [Envelopes -> EnvType] BY DEF Pipeline, PipelineTyped
<1>3. CASE env' = env BY <1>1, <1>3, DeliveredKept
<1>4. ASSUME NEW o \in Envelopes, NEW n, env' = [env EXCEPT ![o] = n],
             n.ok => env[o].ok /\ n.event = env[o].event
      PROVE  Delivered'
  <2> SUFFICES ASSUME NEW p \in Envelopes, env'[p].ok
               PROVE  env'[p].event \in Events /\ rows'[env'[p].event] > 0
    BY DEF Delivered
  <2>1. env[p].ok /\ env'[p].event = env[p].event
    <3>1. CASE p = o BY <3>1, <1>2, <1>4
    <3>2. CASE p # o BY <3>2, <1>2, <1>4
    <3> QED BY <3>1, <3>2
  <2>2. env[p].event \in Events /\ rows[env[p].event] > 0 BY <2>1 DEF Delivered
  <2> QED BY <2>1, <2>2, <1>1 DEF Grown
<1>5. ASSUME NEW p \in Envelopes, NEW e \in Events, PipelineSubmit(p, e)
      PROVE  Delivered'
  <2> DEFINE n == [Fresh EXCEPT !.event = e,
                     !.pc = IF stage = "running" THEN "pushing" ELSE "refused"]
  <2>1. env' = [env EXCEPT ![p] = n] BY <1>5 DEF PipelineSubmit
  <2>2. ~n.ok BY DEF Fresh
  <2> HIDE DEF n
  <2> QED BY <2>1, <2>2, <1>4
<1>6. ASSUME NEW p \in Envelopes, TryPush(p) PROVE Delivered'
  <2>1. PICK x : env' = [env EXCEPT ![p].pc = x] BY <1>6 DEF TryPush
  <2> DEFINE n == [env[p] EXCEPT !.pc = x]
  <2>2. env' = [env EXCEPT ![p] = n] /\ n.ok = env[p].ok /\ n.event = env[p].event
    BY <2>1, <1>2 DEF EnvType
  <2> HIDE DEF n
  <2> QED BY <2>2, <1>4
<1>7. ASSUME NEW b, NEW ok \in BOOLEAN, env' = Complete(b, ok),
             \A p \in Envelopes : p \in ToSet(b) /\ ok
               => env[p].event \in Events /\ rows'[env[p].event] > 0
      PROVE  Delivered'
  <2> SUFFICES ASSUME NEW p \in Envelopes, env'[p].ok
               PROVE  env'[p].event \in Events /\ rows'[env'[p].event] > 0
    BY DEF Delivered
  <2>1. env[p] \in EnvType BY <1>2
  <2>2. CASE p \in ToSet(b)
    <3>1. env'[p] = [env[p] EXCEPT !.done = @ + 1, !.ok = ok] BY <2>2, <1>7 DEF Complete
    <3>2. env'[p].event = env[p].event /\ env'[p].ok = ok BY <3>1, <2>1 DEF EnvType
    <3> QED BY <3>2, <2>2, <1>7
  <2>3. CASE p \notin ToSet(b)
    <3>1. env'[p] = env[p] BY <2>3, <1>7 DEF Complete
    <3>2. env[p].event \in Events /\ rows[env[p].event] > 0 BY <3>1 DEF Delivered
    <3> QED BY <3>1, <3>2, <1>1 DEF Grown
  <2> QED BY <2>2, <2>3
<1>8. ASSUME NEW v \in Validators, ValidatorPop(v) PROVE Delivered'
  <2>1. CASE env' = Complete(<<Head(inputQ)>>, FALSE)
    <3> DEFINE ok == FALSE
               b == <<Head(inputQ)>>
    <3>1. ok \in BOOLEAN /\ ~ok /\ env' = Complete(b, ok) BY <2>1
    <3> HIDE DEF ok, b
    <3> QED BY <3>1, <1>7
  <2> QED BY <2>1, <1>3, <1>8 DEF ValidatorPop
<1>9. ASSUME NEW w \in Inserters, NEW ending \in Endings, InserterInsert(w, ending)
      PROVE  Delivered'
  <2> DEFINE b == inserter[w]
             ok == ~Threw(ending)
             s == [k \in 1..Len(b) |-> env[b[k]].event]
  <2>1. /\ b \in Seq(Envelopes) /\ s \in Seq(Events)
        /\ \A k \in 1..Len(b) : b[k] \in Envelopes /\ env[b[k]].event \in Events
    BY InserterBatch
  <2>2. ExecuteInsert(s, ending) /\ env' = Complete(b, ok) /\ ok \in BOOLEAN
    BY <1>9 DEF InserterInsert, Threw
  <2>3. \A p \in ToSet(b) : \E k \in 1..Len(b) : p = b[k] BY <2>1 DEF ToSet
  <2>4. Len(s) = Len(b) /\ \A k \in 1..Len(b) : s[k] = env[b[k]].event BY <2>1
  <2> HIDE DEF b, s
  <2>5. ok => \A k \in 1..Len(s) : rows'[s[k]] > 0 BY <2>1, <2>2, InsertRows
  <2> HIDE DEF ok
  <2>6. \A p \in Envelopes : p \in ToSet(b) /\ ok
          => env[p].event \in Events /\ rows'[env[p].event] > 0
    BY <2>1, <2>3, <2>4, <2>5
  <2> QED BY <2>2, <2>6, <1>7
<1>10. CASE PipelineStep
  <2>1. ASSUME NEW v \in Validators, ValidatorPush(v) \/ ValidatorExit(v) PROVE env' = env
    BY <2>1 DEF ValidatorPush, ValidatorExit
  <2>2. AggregatorPop \/ Flush \/ FlushPush \/ AggregatorExit \/ Shutdown => env' = env
    BY DEF AggregatorPop, Flush, FlushPush, AggregatorExit, Shutdown
  <2>3. ASSUME NEW w \in Inserters, InserterPop(w) \/ InserterExit(w) PROVE env' = env
    BY <2>3 DEF InserterPop, InserterExit
  <2> QED BY <1>3, <1>5, <1>6, <1>8, <1>9, <1>10, <2>1, <2>2, <2>3 DEF PipelineStep
<1>11. CASE StoreStep \/ IngestionStep \/ QueryStep \/ StopServer \/ Exited \/ UNCHANGED vars
  <2>1. env' = env
    BY <1>11 DEF StoreStep, IngestionStep, QueryStep, StopServer, Exited, vars, pipelineVars
  <2> QED BY <2>1, <1>3
<1> QED BY <1>10, <1>11 DEF Next

-----------------------------------------------------------------------------
(* The list of committed entries. *)
LEMMA JoinedFacts ==
    ASSUME NEW T, NEW a \in Seq(T), NEW b \in Seq(T)
    PROVE  /\ a \o b \in Seq(T) /\ Len(a \o b) = Len(a) + Len(b)
           /\ Len(a) \in Nat /\ Len(b) \in Nat
           /\ \A k \in 1..Len(a) : (a \o b)[k] = a[k]
           /\ \A k \in 1..Len(b) : (a \o b)[Len(a) + k] = b[k]
  OBVIOUS

LEMMA RemoveAtFacts ==
    ASSUME NEW T, NEW s \in Seq(T), NEW n \in 1..Len(s)
    PROVE  /\ RemoveAt(s, n) \in Seq(T) /\ Len(RemoveAt(s, n)) = Len(s) - 1
           /\ \A k \in 1..Len(s) - 1 : RemoveAt(s, n)[k] = IF k < n THEN s[k] ELSE s[k + 1]
<1> DEFINE a == SubSeq(s, 1, n - 1)
           b == SubSeq(s, n + 1, Len(s))
<1>1. /\ Len(s) \in Nat /\ n \in Nat /\ n >= 1 /\ n <= Len(s) OBVIOUS
<1>2. a \in Seq(T) /\ Len(a) = n - 1 /\ \A k \in 1..n - 1 : a[k] = s[k] BY <1>1
<1>3. /\ b \in Seq(T) /\ Len(b) = Len(s) - n
      /\ \A k \in 1..Len(s) - n : b[k] = s[n + k]
  BY <1>1
<1>4. RemoveAt(s, n) = a \o b BY DEF RemoveAt
<1> HIDE DEF a, b
<1>5. RemoveAt(s, n) \in Seq(T) /\ Len(RemoveAt(s, n)) = Len(s) - 1
  <2>1. a \o b \in Seq(T) /\ Len(a \o b) = Len(a) + Len(b) BY <1>2, <1>3, JoinedFacts
  <2>2. (n - 1) + (Len(s) - n) = Len(s) - 1 BY <1>1
  <2> QED BY <2>1, <2>2, <1>2, <1>3, <1>4
<1>6. \A k \in 1..Len(s) - 1 : RemoveAt(s, n)[k] = IF k < n THEN s[k] ELSE s[k + 1]
  <2> SUFFICES ASSUME NEW k \in 1..Len(s) - 1
               PROVE  RemoveAt(s, n)[k] = IF k < n THEN s[k] ELSE s[k + 1]
    OBVIOUS
  <2>1. CASE k < n
    <3>1. (a \o b)[k] = a[k] /\ a[k] = s[k] BY <2>1, <1>1, <1>2, <1>3
    <3> QED BY <3>1, <2>1, <1>4
  <2>2. CASE ~(k < n)
    <3>1. k - (n - 1) \in 1..Len(s) - n /\ n + (k - (n - 1)) = k + 1 BY <2>2, <1>1
    <3>2. (a \o b)[k] = b[k - (n - 1)] BY <2>2, <1>1, <1>2, <1>3
    <3> QED BY <3>1, <3>2, <2>2, <1>3, <1>4
  <2> QED BY <2>1, <2>2
<1> QED BY <1>5, <1>6

(* Every entry of the list s is one of the list committed. *)
Among(s) == \A k \in 1..Len(s) : \E j \in 1..Len(committed) : s[k] = committed[j]

LEMMA WithoutFacts ==
    ASSUME committed \in Seq(EntryType), Once(committed), NEW i
    PROVE  /\ Without(i) \in Seq(EntryType) /\ Len(Without(i)) <= Len(committed)
           /\ Among(Without(i)) /\ Once(Without(i))
           /\ \A k \in 1..Len(Without(i)) : Without(i)[k].id # i
           /\ EntryOf(i) # {} => /\ Len(Without(i)) = Len(committed) - 1
                                 /\ Found(i).id = i
                                 /\ \E j \in 1..Len(committed) : Found(i) = committed[j]
                                 /\ \A k \in EntryOf(i) : committed[k] = Found(i)
<1>1. Len(committed) \in Nat OBVIOUS
<1>2. CASE EntryOf(i) = {}
  <2>1. Without(i) = committed BY <1>2 DEF Without
  <2>2. \A k \in 1..Len(committed) : committed[k].id # i BY <1>2 DEF EntryOf
  <2> QED BY <2>1, <2>2, <1>1, <1>2 DEF Among
<1>3. CASE EntryOf(i) # {}
  <2> DEFINE n == CHOOSE k \in EntryOf(i) : TRUE
             s == Without(i)
  <2>1. n \in EntryOf(i) BY <1>3
  <2>2. s = RemoveAt(committed, n) /\ Found(i) = committed[n] BY <1>3 DEF Without, Found
  <2> HIDE DEF n, s
  <2>3. n \in 1..Len(committed) /\ committed[n].id = i BY <2>1 DEF EntryOf
  <2>4. \A k \in EntryOf(i) : k = n BY <2>3 DEF EntryOf, Once
  <2>5. /\ s \in Seq(EntryType) /\ Len(s) = Len(committed) - 1
        /\ \A k \in 1..Len(committed) - 1 : s[k] = IF k < n THEN committed[k] ELSE committed[k + 1]
    BY <2>2, <2>3, RemoveAtFacts
  <2>6. \A k \in 1..Len(s) : \E j \in 1..Len(committed) :
          /\ s[k] = committed[j] /\ j # n
          /\ j = IF k < n THEN k ELSE k + 1
    <3> SUFFICES ASSUME NEW k \in 1..Len(s)
                 PROVE  \E j \in 1..Len(committed) :
                          /\ s[k] = committed[j] /\ j # n
                          /\ j = IF k < n THEN k ELSE k + 1
      OBVIOUS
    <3>1. k \in 1..Len(committed) - 1 /\ n \in Nat /\ k \in Nat BY <2>3, <2>5
    <3>2. CASE k < n BY <3>1, <3>2, <2>5, <1>1
    <3>3. CASE ~(k < n)
      <4>1. k + 1 \in 1..Len(committed) /\ k + 1 # n BY <3>1, <3>3, <1>1
      <4> QED BY <4>1, <3>1, <3>3, <2>5
    <3> QED BY <3>2, <3>3
  <2>7. Among(s) BY <2>6 DEF Among
  <2>8. \A k \in 1..Len(s) : s[k].id # i BY <2>3, <2>6 DEF Once
  <2>9. Once(s)
    <3> SUFFICES ASSUME NEW j \in 1..Len(s), NEW k \in 1..Len(s), s[j].id = s[k].id
                 PROVE  j = k
      BY DEF Once
    <3>1. PICK a \in 1..Len(committed) : s[j] = committed[a] /\ a = IF j < n THEN j ELSE j + 1
      BY <2>6
    <3>2. PICK b \in 1..Len(committed) : s[k] = committed[b] /\ b = IF k < n THEN k ELSE k + 1
      BY <2>6
    <3>3. a = b BY <3>1, <3>2 DEF Once
    <3>4. j \in Nat /\ k \in Nat /\ n \in Nat BY <2>3, <2>5
    <3> QED BY <3>1, <3>2, <3>3, <3>4
  <2>10. \A k \in EntryOf(i) : committed[k] = Found(i) BY <2>2, <2>4
  <2> QED BY <2>2, <2>3, <2>5, <2>7, <2>8, <2>9, <2>10, <1>1 DEF s
<1> QED BY <1>2, <1>3

(* The list t is the entry x in front of the list s. *)
InFront(t, x, s) ==
  /\ t \in Seq(EntryType) /\ Len(s) \in Nat /\ Len(t) = Len(s) + 1
  /\ \A k \in 1..Len(t) : \/ k = 1 /\ t[k] = x
                          \/ k # 1 /\ k - 1 \in 1..Len(s) /\ t[k] = s[k - 1]

LEMMA ConsFacts ==
    ASSUME NEW x \in EntryType, NEW s \in Seq(EntryType)
    PROVE  InFront(Cons(x, s), x, s)
<1>1. Len(s) \in Nat /\ <<x>> \in Seq(EntryType) /\ Len(<<x>>) = 1 /\ <<x>>[1] = x OBVIOUS
<1> DEFINE o == <<x>>
           t == Cons(x, s)
<1> HIDE DEF o
<1>2. o \in Seq(EntryType) /\ Len(o) = 1 /\ o[1] = x /\ t = o \o s BY <1>1 DEF o, Cons
<1> HIDE DEF t
<1>3. /\ t \in Seq(EntryType) /\ Len(t) = Len(s) + 1 /\ t[1] = x
      /\ \A k \in 1..Len(s) : t[1 + k] = s[k]
  <2>1. /\ o \o s \in Seq(EntryType) /\ Len(o \o s) = Len(o) + Len(s)
        /\ \A k \in 1..Len(o) : (o \o s)[k] = o[k]
        /\ \A k \in 1..Len(s) : (o \o s)[Len(o) + k] = s[k]
    <3>1. o \in Seq(EntryType) BY <1>2
    <3>2. o \o s \in Seq(EntryType) /\ Len(o \o s) = Len(o) + Len(s) BY <3>1, JoinedFacts
    <3>3. \A k \in 1..Len(o) : (o \o s)[k] = o[k] BY <3>1, JoinedFacts
    <3>4. \A k \in 1..Len(s) : (o \o s)[Len(o) + k] = s[k] BY <3>1, JoinedFacts
    <3> QED BY <3>2, <3>3, <3>4
  <2>2. 1 \in 1..Len(o) BY <1>2
  <2> QED BY <2>1, <2>2, <1>1, <1>2
<1>4. ASSUME NEW k \in 1..Len(t)
      PROVE  \/ k = 1 /\ t[k] = x
             \/ k # 1 /\ k - 1 \in 1..Len(s) /\ t[k] = s[k - 1]
  <2>1. CASE k = 1 BY <2>1, <1>3
  <2>2. CASE k # 1
    <3>1. k - 1 \in 1..Len(s) /\ 1 + (k - 1) = k BY <2>2, <1>1, <1>3
    <3> QED BY <3>1, <2>2, <1>3
  <2> QED BY <2>1, <2>2
<1> QED BY <1>1, <1>3, <1>4 DEF InFront, t

(* A new first entry with an id that the rest does not have. *)
LEMMA ConsOnce ==
    ASSUME NEW x \in EntryType, NEW s \in Seq(EntryType), Once(s),
           \A k \in 1..Len(s) : s[k].id # x.id
    PROVE  Once(Cons(x, s))
<1> DEFINE t == Cons(x, s)
<1>1. InFront(t, x, s) BY ConsFacts
<1> HIDE DEF t
<1>2. Len(s) \in Nat /\ Len(t) = Len(s) + 1 BY <1>1 DEF InFront
<1> SUFFICES ASSUME NEW j \in 1..Len(t), NEW k \in 1..Len(t), t[j].id = t[k].id
             PROVE  j = k
  BY DEF Once, t
<1>3. CASE j = 1 /\ k = 1 BY <1>3
<1>4. CASE j = 1 /\ k # 1 BY <1>1, <1>4 DEF InFront
<1>5. CASE j # 1 /\ k = 1 BY <1>1, <1>5 DEF InFront
<1>6. CASE j # 1 /\ k # 1
  <2>1. j - 1 = k - 1 BY <1>1, <1>6 DEF InFront, Once
  <2> QED BY <2>1, <1>2
<1> QED BY <1>3, <1>4, <1>5, <1>6

(* try_acquire reorders the list or drops an expired entry. *)
LEMMA TryAcquireList ==
    ASSUME IngestionTyped, Remembered, NEW c \in Calls, NEW e \in Events, NEW now \in Nat,
           TryAcquire(c, e, now)
    PROVE  /\ committed' \in Seq(EntryType) /\ Len(committed') <= Capacity /\ Once(committed')
           /\ \A k \in 1..Len(committed') : \E j \in 1..Len(committed) :
                committed'[k] = committed[j]
<1> DEFINE w == Without(e.id)
<1>1. /\ committed \in Seq(EntryType) /\ Once(committed) /\ Len(committed) <= Capacity
      /\ Len(committed) \in Nat
  BY DEF IngestionTyped, Remembered
<1>2. /\ w \in Seq(EntryType) /\ Len(w) <= Len(committed) /\ Among(w) /\ Once(w)
      /\ \A k \in 1..Len(w) : w[k].id # e.id
      /\ Len(w) \in Nat
  BY <1>1, WithoutFacts
<1>3. CASE committed' = committed BY <1>1, <1>3
<1>4. CASE committed' = w BY <1>1, <1>2, <1>4, IngestionAssumption DEF Among
<1>5. CASE Decision(e, now) = "AlreadyCommitted"
  <2>1. committed' = Cons(Found(e.id), w) BY <1>5 DEF TryAcquire
  <2>2. EntryOf(e.id) # {} BY <1>5 DEF Decision
  <2>3. /\ Found(e.id).id = e.id /\ Len(w) = Len(committed) - 1
        /\ \E j \in 1..Len(committed) : Found(e.id) = committed[j]
    BY <2>2, <1>1, WithoutFacts
  <2> DEFINE x == Found(e.id)
  <2> HIDE DEF x, w
  <2>4. x \in EntryType /\ x.id = e.id BY <2>3, <1>1 DEF x
  <2>5. committed' = Cons(x, w) BY <2>1 DEF x
  <2>6. InFront(committed', x, w) BY <2>4, <2>5, <1>2, ConsFacts
  <2>7. Once(committed') BY <2>4, <2>5, <1>2, ConsOnce
  <2>8. \A k \in 1..Len(committed') : \E j \in 1..Len(committed) : committed'[k] = committed[j]
    <3> SUFFICES ASSUME NEW k \in 1..Len(committed')
                 PROVE  \E j \in 1..Len(committed) : committed'[k] = committed[j]
      OBVIOUS
    <3>1. CASE k = 1 BY <3>1, <2>3, <2>6 DEF InFront, x
    <3>2. CASE k # 1
      <4>1. k - 1 \in 1..Len(w) /\ committed'[k] = w[k - 1] BY <3>2, <2>6 DEF InFront
      <4> QED BY <4>1, <1>2 DEF Among
    <3> QED BY <3>1, <3>2
  <2>9. committed' \in Seq(EntryType) /\ Len(committed') <= Capacity
    BY <2>3, <2>6, <1>1 DEF InFront
  <2> QED BY <2>7, <2>8, <2>9
<1> QED BY <1>3, <1>4, <1>5 DEF TryAcquire

-----------------------------------------------------------------------------
(* What the calls know stays true while the table grows. *)
LEMMA OwedTyped == \A r \in CallType : Owed(r) \in Seq(Events)
  BY DEF Owed, CallType

LEMMA AnsweredGrows ==
    ASSUME Grown, NEW r \in CallType, Answered(r)
    PROVE  Answered(r)'
<1> SUFFICES ASSUME NEW x \in r.results, x[2] \in Accepted PROVE rows'[x[1]] > 0
  BY DEF Answered
<1>1. x[1] \in Events /\ rows[x[1]] > 0 BY DEF CallType, Answered
<1> QED BY <1>1 DEF Grown

LEMMA WrittenGrows ==
    ASSUME Grown, NEW r \in CallType, Written(r)
    PROVE  Written(r)'
<1> SUFFICES ASSUME r.pc = "commit"
             PROVE  /\ \A k \in 1..Len(r.own) : rows'[r.own[k]] > 0
                    /\ \A k \in 1..Len(r.ack) : rows'[r.ack[k]] > 0
  BY DEF Written
<1>1. r.own \in Seq(Events) /\ r.ack \in Seq(Events) BY DEF CallType
<1>2. /\ \A k \in 1..Len(r.own) : r.own[k] \in Events /\ rows[r.own[k]] > 0
      /\ \A k \in 1..Len(r.ack) : r.ack[k] \in Events /\ rows[r.ack[k]] > 0
  BY <1>1 DEF Written
<1> QED BY <1>2 DEF Grown

LEMMA SharedGrows ==
    ASSUME Grown, NEW w \in WaitType, Shared(w),
           promise' = promise, inflight' = inflight
    PROVE  Shared(w)'
<1>1. w.event \in Events BY DEF WaitType
<1> QED BY <1>1 DEF Shared, Grown, Reservation, Fingerprint

LEMMA WaitingGrows ==
    ASSUME Grown, NEW r \in CallType, Waiting(r), promise' = promise, inflight' = inflight
    PROVE  Waiting(r)'
<1> SUFFICES ASSUME NEW k \in 1..Len(r.waits) PROVE Shared(r.waits[k])' BY DEF Waiting
<1>1. r.waits \in Seq(WaitType) BY DEF CallType
<1>2. r.waits[k] \in WaitType BY <1>1
<1>3. Shared(r.waits[k]) BY DEF Waiting
<1> QED BY <1>2, <1>3, SharedGrows

LEMMA KnownGrows ==
    ASSUME Grown, NEW x, Known(x)
    PROVE  Known(x)'
<1>1. PICK e \in Events : x.fp = Fingerprint(e) /\ rows[e] > 0 BY DEF Known
<1>2. rows'[e] > 0 BY <1>1 DEF Grown
<1> QED BY <1>1, <1>2 DEF Known, Fingerprint

(* The list of committed entries is kept, reordered or shortened. *)
Rearranged ==
  /\ committed' \in Seq(EntryType) /\ Len(committed') <= Capacity /\ Once(committed')
  /\ \A k \in 1..Len(committed') : \E j \in 1..Len(committed) : committed'[k] = committed[j]

LEMMA RememberedKept == ASSUME Grown, Remembered, Rearranged PROVE Remembered'
<1>1. ASSUME NEW k \in 1..Len(committed')
      PROVE  \E e \in Events : committed'[k].fp = Fingerprint(e) /\ rows'[e] > 0
  <2>1. PICK j \in 1..Len(committed) : committed'[k] = committed[j] BY DEF Rearranged
  <2>2. PICK x : x = committed[j] OBVIOUS
  <2>3. Known(x)' BY <2>2, KnownGrows DEF Remembered
  <2>4. PICK e \in Events : x.fp = Fingerprint(e) /\ rows'[e] > 0
    BY <2>3 DEF Known, Fingerprint
  <2> QED BY <2>1, <2>2, <2>4
<1>2. Once(committed)' /\ (Len(committed) <= Capacity)' BY DEF Rearranged, Once
<1> QED BY <1>1, <1>2 DEF Remembered, Known, Fingerprint

(* A call that keeps the reservations as they are. *)
Quiet(c, r) ==
  /\ c \in Calls /\ r \in CallType /\ call' = [call EXCEPT ![c] = r]
  /\ UNCHANGED <<cached, inflight, promise>> /\ Rearranged
  /\ cached => Owed(r) = Owed(call[c])
  /\ LocalOf(c, r)
  /\ Answered(r)' /\ Written(r)' /\ Waiting(r)'

LEMMA QuietStep == ASSUME Ingestion, Grown, NEW c, NEW r, Quiet(c, r) PROVE Ingestion'
<1>1. /\ IngestionTyped /\ Reserved /\ Remembered /\ c \in Calls /\ r \in CallType
      /\ call \in [Calls -> CallType] /\ call' = [call EXCEPT ![c] = r]
      /\ UNCHANGED <<cached, inflight, promise>>
  BY DEF Ingestion, IngestionTyped, Quiet
<1>2. /\ call' \in [Calls -> CallType] /\ call'[c] = r
      /\ \A d \in Calls : d # c => call'[d] = call[d]
  BY <1>1
<1>3. IngestionTyped' BY <1>1, <1>2 DEF IngestionTyped, Quiet, Rearranged
<1>4. Remembered' BY <1>1, RememberedKept DEF Quiet
<1>5. cached => \A d \in Calls : Owed(call'[d]) = Owed(call[d]) BY <1>2 DEF Quiet
<1>6. Reserved'
  <2>1. CASE cached
    <3>1. \A d \in Calls : Owed(call'[d]) = Owed(call[d]) BY <2>1, <1>5
    <3>2. \A i \in Ids : \A x \in inflight[i] : x.owner \in Calls BY <1>1 DEF IngestionTyped
    <3>3. \A d \in Calls :
            /\ \A k \in 1..Len(Owed(call'[d])) :
                 inflight[Owed(call'[d])[k].id] = {Reservation(d, Owed(call'[d])[k])}
            /\ \A j, k \in 1..Len(Owed(call'[d])) :
                 Owed(call'[d])[j].id = Owed(call'[d])[k].id => j = k
      <4> SUFFICES ASSUME NEW d \in Calls, NEW o, o = Owed(call'[d])
                   PROVE  /\ \A k \in 1..Len(o) : inflight[o[k].id] = {Reservation(d, o[k])}
                          /\ \A j, k \in 1..Len(o) : o[j].id = o[k].id => j = k
        OBVIOUS
      <4>1. o = Owed(call[d]) BY <3>1
      <4>2. /\ \A k \in 1..Len(Owed(call[d])) :
                 inflight[Owed(call[d])[k].id] = {Reservation(d, Owed(call[d])[k])}
            /\ \A j, k \in 1..Len(Owed(call[d])) :
                 Owed(call[d])[j].id = Owed(call[d])[k].id => j = k
        <5>1. Reserved BY <1>1
        <5> QED BY <5>1, <2>1 DEF Reserved
      <4> QED BY <4>1, <4>2
    <3>4. \A i \in Ids : \A x \in inflight[i] :
            /\ promise[x.owner][i] = "pending"
            /\ \E k \in 1..Len(Owed(call'[x.owner])) : Owed(call'[x.owner])[k].id = i
      BY <3>1, <3>2, <1>1 DEF Reserved
    <3> QED BY <3>3, <3>4, <2>1, <1>1 DEF Reserved, Reservation, Fingerprint, Owed
  <2>2. CASE ~cached
    <3>1. \A i \in Ids : inflight'[i] = {} BY <2>2, <1>1 DEF Reserved
    <3> QED BY <3>1, <2>2, <1>1 DEF Reserved
  <2> QED BY <2>1, <2>2
<1>7. ASSUME NEW d \in Calls PROVE Local(d)' /\ Stored(d)'
  <2>1. CASE d = c
    BY <2>1, <1>1, <1>2 DEF Local, LocalOf, Stored, Quiet, Answered, Written, Waiting
  <2>2. CASE d # c
    <3>1. PICK o \in CallType : o = call[d] BY <1>1
    <3>2. LocalOf(d, o) /\ Answered(o) /\ Written(o) /\ Waiting(o)
      BY <3>1 DEF Ingestion, Local, Stored
    <3>3. Answered(o)' /\ Written(o)' /\ Waiting(o)'
      BY <3>2, <1>1, AnsweredGrows, WrittenGrows, WaitingGrows
    <3>4. LocalOf(d, o)' BY <3>2, <1>1 DEF LocalOf
    <3> QED BY <3>1, <3>3, <3>4, <2>2, <1>2
              DEF Local, LocalOf, Stored, Answered, Written, Waiting
  <2> QED BY <2>1, <2>2
<1> QED BY <1>3, <1>4, <1>6, <1>7 DEF Ingestion

LEMMA IngestionKept == ASSUME Ingestion, Grown, UNCHANGED ingestionVars PROVE Ingestion'
<1>1. UNCHANGED <<cached, inflight, committed, promise, call>> BY DEF ingestionVars
<1>2. IngestionTyped' /\ Reserved'
  BY <1>1 DEF Ingestion, IngestionTyped, Reserved, Reservation, Fingerprint, Owed
<1>3. Rearranged BY <1>1 DEF Ingestion, IngestionTyped, Remembered, Rearranged, Once
<1>4. Remembered' BY <1>3, RememberedKept DEF Ingestion
<1>5. ASSUME NEW d \in Calls PROVE Local(d)' /\ Stored(d)'
  <2>1. PICK o \in CallType : o = call[d] BY DEF Ingestion, IngestionTyped
  <2>2. LocalOf(d, o) /\ Answered(o) /\ Written(o) /\ Waiting(o)
    BY <2>1 DEF Ingestion, Local, Stored
  <2>3. Answered(o)' /\ Written(o)' /\ Waiting(o)'
    BY <2>2, <1>1, AnsweredGrows, WrittenGrows, WaitingGrows
  <2>4. LocalOf(d, o)' BY <2>2, <1>1 DEF LocalOf
  <2> QED BY <2>1, <2>3, <2>4, <1>1 DEF Local, LocalOf, Stored, Answered, Written, Waiting
<1> QED BY <1>2, <1>4, <1>5 DEF Ingestion

-----------------------------------------------------------------------------
(* The steps of a call that leave the reservations alone. *)
LEMMA CallFacts ==
    ASSUME Ingestion, NEW c \in Calls
    PROVE  /\ call \in [Calls -> CallType] /\ call[c] \in CallType
           /\ LocalOf(c, call[c]) /\ Answered(call[c]) /\ Written(call[c]) /\ Waiting(call[c])
           /\ committed' = committed => Rearranged
<1>1. call \in [Calls -> CallType] /\ call[c] \in CallType BY DEF Ingestion, IngestionTyped
<1>2. LocalOf(c, call[c]) /\ Answered(call[c]) /\ Written(call[c]) /\ Waiting(call[c])
  BY DEF Ingestion, Local, Stored
<1>3. committed' = committed => Rearranged
  BY DEF Ingestion, IngestionTyped, Remembered, Rearranged, Once
<1> QED BY <1>1, <1>2, <1>3

LEMMA IdleTyped == Idle \in CallType /\ Idle.own = <<>> /\ Idle.waits = <<>> /\ Idle.results = {}
<1>1. <<>> \in Seq(Events) /\ <<>> \in Seq(WaitType) OBVIOUS
<1> QED BY <1>1 DEF Idle, CallType

(* A call that begins, or is refused at once. *)
LEMMA BeginStep ==
    ASSUME Ingestion, StoreTypeOK, Grown, NEW c \in Calls, NEW r \in CallType,
           call[c].pc = "idle", call' = [call EXCEPT ![c] = r],
           UNCHANGED <<cached, inflight, committed, promise>>,
           r.pc \in {"acquire", "answered"}, r.kind \in {"single", "batch"},
           r.kind = "single" => Len(r.todo) <= 1,
           r.own = <<>>, r.waits = <<>>, \A x \in r.results : x[2] = "ValidationRejected"
    PROVE  Ingestion'
<1>1. /\ LocalOf(c, call[c]) /\ Rearranged /\ call[c] = Idle BY CallFacts DEF LocalOf
<1>2. Owed(call[c]) = <<>> /\ Owed(r) = <<>> BY <1>1 DEF Owed, Idle
<1>3. LocalOf(c, r)
  <2>1. Len(r.own) = 0 /\ Len(r.todo) \in Nat BY DEF CallType
  <2>2. Len(r.todo) + Len(r.own) = Len(r.todo) BY <2>1
  <2>3. \A i \in Ids : promise[c][i] = "pending" BY <1>1 DEF LocalOf
  <2>4. r.kind = "single" => Len(r.todo) + Len(r.own) <= 1 BY <2>2
  <2> QED BY <2>3, <2>4 DEF LocalOf
<1>4. Answered(r)' /\ Written(r)' /\ Waiting(r)' BY DEF Answered, Written, Waiting, Accepted
<1>5. Quiet(c, r) BY <1>1, <1>2, <1>3, <1>4 DEF Quiet
<1> QED BY <1>5, QuietStep

LEMMA SubmitStep ==
    ASSUME Ingestion, StoreTypeOK, Grown, NEW c \in Calls, NEW kind \in {"single", "batch"},
           NEW es \in Seq(Events), kind = "single" => Len(es) <= 1, Submit(c, kind, es)
    PROVE  Ingestion'
<1> DEFINE r == [Idle EXCEPT !.kind = kind, !.pc = "acquire", !.todo = es, !.now = clock]
<1>1. clock \in Nat BY EventsAssumption DEF StoreTypeOK
<1>2. /\ r \in CallType /\ r.pc = "acquire" /\ r.kind = kind /\ r.todo = es
      /\ r.own = <<>> /\ r.waits = <<>> /\ r.results = {}
  BY <1>1, IdleTyped DEF CallType
<1>3. /\ call[c].pc = "idle" /\ call' = [call EXCEPT ![c] = r]
      /\ UNCHANGED <<cached, inflight, committed, promise>>
  BY DEF Submit
<1> HIDE DEF r
<1> QED BY <1>2, <1>3, BeginStep

LEMMA SubmitAuditEventStep ==
    ASSUME Ingestion, StoreTypeOK, Grown, NEW c \in Calls, NEW e \in Events, NEW peer,
           SubmitAuditEvent(c, e, peer)
    PROVE  Ingestion'
<1> DEFINE es == <<e>>
<1>1. es \in Seq(Events) /\ Len(es) <= 1 /\ Submit(c, "single", es) BY DEF SubmitAuditEvent
<1> HIDE DEF es
<1> QED BY <1>1, SubmitStep

LEMMA BatchSubmitStep ==
    ASSUME Ingestion, StoreTypeOK, Grown, NEW c \in Calls, NEW es \in Batches, NEW peer,
           BatchSubmitAuditEvents(c, es, peer)
    PROVE  Ingestion'
<1>1. es \in Seq(Events) BY IngestionAssumption
<1>2. CASE Submit(c, "batch", es) BY <1>1, <1>2, SubmitStep
<1>3. CASE ~Submit(c, "batch", es)
  <2> DEFINE r == [Idle EXCEPT !.kind = "batch", !.pc = "answered",
                     !.results = {<<e, "ValidationRejected">> : e \in ToSet(es)}]
  <2>1. /\ call[c].pc = "idle" /\ call' = [call EXCEPT ![c] = r]
        /\ UNCHANGED <<cached, inflight, committed, promise>>
    BY <1>3 DEF BatchSubmitAuditEvents
  <2>2. ToSet(es) \subseteq Events BY <1>1 DEF ToSet
  <2>3. {<<e, "ValidationRejected">> : e \in ToSet(es)} \in SUBSET (Events \X Outcomes)
    BY <2>2 DEF Outcomes
  <2>4. /\ r \in CallType /\ r.pc = "answered" /\ r.kind = "batch"
        /\ r.own = <<>> /\ r.waits = <<>>
        /\ r.results = {<<e, "ValidationRejected">> : e \in ToSet(es)}
    BY <2>3, IdleTyped DEF CallType
  <2>5. \A x \in r.results : x[2] = "ValidationRejected" BY <2>4
  <2> HIDE DEF r
  <2> QED BY <2>1, <2>4, <2>5, BeginStep
<1> QED BY <1>2, <1>3

LEMMA AcquiredStep ==
    ASSUME Ingestion, Grown, NEW c \in Calls, Acquired(c)
    PROVE  Ingestion'
<1>1. PICK o \in CallType : o = call[c] BY CallFacts
<1>2. /\ LocalOf(c, o) /\ Answered(o) /\ Waiting(o) /\ Rearranged
      /\ o.pc = "acquire" /\ o.todo = <<>>
      /\ UNCHANGED <<cached, inflight, committed, promise>>
  BY <1>1, CallFacts DEF Acquired
<1> DEFINE r == [o EXCEPT !.pc = IF o.own # <<>> THEN "insert" ELSE "wait"]
<1>3. call' = [call EXCEPT ![c] = r] BY <1>1, CallFacts DEF Acquired, CallType
<1>4. /\ r \in CallType /\ r.own = o.own /\ r.waits = o.waits /\ r.results = o.results
      /\ r.kind = o.kind /\ r.todo = o.todo
      /\ IF o.own # <<>> THEN r.pc = "insert" ELSE r.pc = "wait"
  BY DEF CallType
<1> HIDE DEF r
<1>5. Owed(r) = Owed(call[c]) BY <1>1, <1>2, <1>4 DEF Owed
<1>6. LocalOf(c, r) BY <1>2, <1>4 DEF LocalOf
<1>7. Answered(o)' /\ Waiting(o)' BY <1>2, AnsweredGrows, WaitingGrows
<1>8. Answered(r)' /\ Written(r)' /\ Waiting(r)' BY <1>4, <1>7 DEF Answered, Written, Waiting
<1>9. Quiet(c, r) BY <1>2, <1>3, <1>4, <1>5, <1>6, <1>8 DEF Quiet
<1> QED BY <1>9, QuietStep

LEMMA InsertStep ==
    ASSUME Ingestion, StoreTypeOK, NEW c \in Calls, NEW ending \in Endings, Insert(c, ending)
    PROVE  Ingestion'
<1>1. PICK o \in CallType : o = call[c] BY CallFacts
<1>2. /\ LocalOf(c, o) /\ Answered(o) /\ Waiting(o) /\ Rearranged
      /\ o.pc = "insert" /\ o.own \in Seq(Events)
      /\ UNCHANGED <<cached, inflight, committed, promise>>
      /\ ExecuteInsert(o.own, ending)
  BY <1>1, CallFacts DEF Insert, CallType
<1>3. Grown /\ (~Threw(ending) => \A k \in 1..Len(o.own) : rows'[o.own[k]] > 0)
  BY <1>2, InsertRows
<1>4. PICK x \in {"commit", "rollback", "threw"} :
        /\ call' = [call EXCEPT ![c] = [o EXCEPT !.ending = ending, !.ack = o.own, !.pc = x]]
        /\ x = "commit" => ~Threw(ending)
        /\ x = "rollback" => o.kind = "single"
        /\ x = "threw" => o.kind # "single"
  BY <1>1, CallFacts DEF Insert
<1> DEFINE r == [o EXCEPT !.ending = ending, !.ack = o.own, !.pc = x]
<1>5. /\ r \in CallType /\ r.own = o.own /\ r.waits = o.waits /\ r.results = o.results
      /\ r.kind = o.kind /\ r.todo = o.todo /\ r.ack = o.own /\ r.pc = x
  BY <1>2 DEF CallType
<1>6. call' = [call EXCEPT ![c] = r] BY <1>4
<1> HIDE DEF r
<1>7. o.kind \in {"single", "batch"} BY <1>2 DEF LocalOf, CallType
<1>8. Owed(r) = Owed(call[c]) BY <1>1, <1>2, <1>4, <1>5, <1>7 DEF Owed
<1>9. LocalOf(c, r) BY <1>2, <1>4, <1>5, <1>7 DEF LocalOf
<1>10. Answered(o)' /\ Waiting(o)' BY <1>2, <1>3, AnsweredGrows, WaitingGrows
<1>11. Answered(r)' /\ Waiting(r)' BY <1>5, <1>10 DEF Answered, Waiting
<1>12. Written(r)' BY <1>3, <1>4, <1>5 DEF Written
<1>13. Quiet(c, r) BY <1>2, <1>5, <1>6, <1>8, <1>9, <1>11, <1>12 DEF Quiet
<1> QED BY <1>3, <1>13, QuietStep

(* A call that has been answered, in part, while it waits for nothing it   *)
(* owes.                                                                   *)
LEMMA ResultStep ==
    ASSUME Ingestion, Grown, NEW c \in Calls, NEW r \in CallType,
           call' = [call EXCEPT ![c] = r], UNCHANGED <<cached, inflight, committed, promise>>,
           cached => Owed(call[c]) = <<>>, r.pc \in {"wait", "answered"},
           r.kind = call[c].kind, r.todo = call[c].todo, r.own = call[c].own,
           call[c].pc # "idle", Waiting(r),
           \A x \in r.results : x \in call[c].results \/ (x[2] \in Accepted => rows'[x[1]] > 0)
    PROVE  Ingestion'
<1>1. PICK o \in CallType : o = call[c] BY CallFacts
<1>2. LocalOf(c, o) /\ Answered(o) /\ Rearranged BY <1>1, CallFacts
<1>3. cached => Owed(r) = Owed(call[c]) BY DEF Owed
<1>4. LocalOf(c, r) BY <1>1, <1>2 DEF LocalOf
<1>5. Answered(o)' /\ Waiting(r)' BY <1>2, AnsweredGrows, WaitingGrows
<1>6. Answered(r)' BY <1>1, <1>5 DEF Answered
<1>7. Written(r)' BY DEF Written
<1>8. Quiet(c, r) BY <1>2, <1>3, <1>4, <1>5, <1>6, <1>7 DEF Quiet
<1> QED BY <1>8, QuietStep

LEMMA CommittedStep ==
    ASSUME Ingestion, Grown, NEW c \in Calls, Committed(c)
    PROVE  Ingestion'
<1>1. PICK o \in CallType : o = call[c] BY CallFacts
<1>2. /\ Written(o) /\ Waiting(o) /\ o.pc = "commit" /\ o.ack = <<>>
      /\ o.own \in Seq(Events) /\ UNCHANGED <<cached, inflight, committed, promise>>
  BY <1>1, CallFacts DEF Committed, CallType
<1> DEFINE new == {<<e, "PersistedNew">> : e \in ToSet(o.own)}
           r == [o EXCEPT !.pc = "wait", !.results = @ \cup new]
<1>3. call' = [call EXCEPT ![c] = r] BY <1>1, CallFacts DEF Committed
<1>4. \A x \in new : x[1] \in Events /\ x[2] = "PersistedNew" /\ rows'[x[1]] > 0
  <2> SUFFICES ASSUME NEW e \in ToSet(o.own) PROVE e \in Events /\ rows'[e] > 0 OBVIOUS
  <2>1. PICK k \in 1..Len(o.own) : e = o.own[k] BY <1>2 DEF ToSet
  <2>2. e \in Events /\ rows[e] > 0 BY <1>2, <2>1 DEF Written
  <2> QED BY <2>2 DEF Grown
<1>5. new \subseteq Events \X Outcomes
  <2>1. ToSet(o.own) \subseteq Events BY <1>2 DEF ToSet
  <2> QED BY <2>1 DEF Outcomes
<1> HIDE DEF new
<1>6. /\ r \in CallType /\ r.own = o.own /\ r.waits = o.waits /\ r.kind = o.kind
      /\ r.todo = o.todo /\ r.pc = "wait" /\ r.results = o.results \cup new
  BY <1>5 DEF CallType
<1> HIDE DEF r
<1>7. Owed(call[c]) = <<>> /\ Waiting(r) /\ call[c].pc # "idle"
  BY <1>1, <1>2, <1>6 DEF Owed, Waiting
<1>8. \A x \in r.results : x \in call[c].results \/ (x[2] \in Accepted => rows'[x[1]] > 0)
  BY <1>1, <1>4, <1>6
<1> QED BY <1>1, <1>2, <1>3, <1>6, <1>7, <1>8, ResultStep

(* A waiter that is answered: its result comes from the promise it waits on. *)
LEMMA WaiterStep ==
    ASSUME Ingestion, Grown, NEW c \in Calls, NEW p \in Outcomes, NEW w, w = Head(call[c].waits),
           call[c].pc = "wait", call[c].waits # <<>>,
           p \in Accepted => promise[w.owner][w.event.id] = p,
           call' = [call EXCEPT ![c] = [Result(c, w.event, p) EXCEPT !.waits = Tail(@)]],
           UNCHANGED <<cached, inflight, committed, promise>>
    PROVE  Ingestion'
<1>1. PICK o \in CallType : o = call[c] BY CallFacts
<1>2. o.waits \in Seq(WaitType) /\ o.waits # <<>> /\ o.pc = "wait" /\ Waiting(o)
  BY <1>1, CallFacts DEF CallType
<1>3. /\ w = o.waits[1] /\ 1 \in 1..Len(o.waits) /\ Tail(o.waits) \in Seq(WaitType)
      /\ \A k \in 1..Len(Tail(o.waits)) : k + 1 \in 1..Len(o.waits) /\ Tail(o.waits)[k] = o.waits[k + 1]
  BY <1>1, <1>2
<1>4. w \in WaitType BY <1>2, <1>3
<1>5. w.event \in Events /\ Shared(w) BY <1>2, <1>3, <1>4 DEF WaitType, Waiting
<1>6. p \in Accepted => rows[w.event] > 0 BY <1>5 DEF Shared
<1>7. p \in Accepted => rows'[w.event] > 0 BY <1>5, <1>6 DEF Grown
<1> DEFINE r == [o EXCEPT !.results = @ \cup {<<w.event, p>>}, !.waits = Tail(@)]
<1>8. call' = [call EXCEPT ![c] = r] BY <1>1 DEF Result
<1> DEFINE new == {<<w.event, p>>}
<1>13. new \subseteq Events \X Outcomes /\ r = [o EXCEPT !.results = @ \cup new, !.waits = Tail(@)]
  BY <1>5
<1> HIDE DEF new, r
<1>9. /\ r \in CallType /\ r.own = o.own /\ r.waits = Tail(o.waits) /\ r.kind = o.kind
      /\ r.todo = o.todo /\ r.pc = "wait" /\ r.results = o.results \cup new
  BY <1>2, <1>3, <1>13 DEF CallType
<1>10. Waiting(r) BY <1>2, <1>3, <1>9 DEF Waiting
<1>11. Owed(call[c]) = <<>> /\ call[c].pc # "idle" BY <1>1, <1>2 DEF Owed
<1>12. \A x \in r.results : x \in call[c].results \/ (x[2] \in Accepted => rows'[x[1]] > 0)
  BY <1>1, <1>7, <1>9 DEF new
<1> QED BY <1>1, <1>8, <1>9, <1>10, <1>11, <1>12, ResultStep

LEMMA AwaitedStep ==
    ASSUME Ingestion, Grown, NEW c \in Calls, Awaited(c)
    PROVE  Ingestion'
<1>1. PICK w : w = Head(call[c].waits) OBVIOUS
<1>2. PICK p : p = promise[w.owner][w.event.id] OBVIOUS
<1>3. /\ call[c].pc = "wait" /\ call[c].waits # <<>> /\ p # "pending"
      /\ call' = [call EXCEPT ![c] = [Result(c, w.event, p) EXCEPT !.waits = Tail(@)]]
      /\ UNCHANGED <<cached, inflight, committed, promise>>
  BY <1>1, <1>2 DEF Awaited
<1>4. call[c].waits \in Seq(WaitType) BY CallFacts DEF CallType
<1>5. w \in WaitType BY <1>1, <1>3, <1>4
<1>6. w.owner \in Calls /\ w.event.id \in Ids BY <1>5, EventFields DEF WaitType
<1>7. p \in {"pending"} \cup Outcomes BY <1>2, <1>6 DEF Ingestion, IngestionTyped
<1> QED BY <1>1, <1>2, <1>3, <1>7, WaiterStep

LEMMA AwaitTimedOutStep ==
    ASSUME Ingestion, Grown, NEW c \in Calls, AwaitTimedOut(c)
    PROVE  Ingestion'
<1>1. PICK w : w = Head(call[c].waits) OBVIOUS
<1>2. /\ call[c].pc = "wait" /\ call[c].waits # <<>>
      /\ call' = [call EXCEPT ![c] =
                   [Result(c, w.event, "PersistenceAmbiguous") EXCEPT !.waits = Tail(@)]]
      /\ UNCHANGED <<cached, inflight, committed, promise>>
  BY <1>1 DEF AwaitTimedOut
<1>3. "PersistenceAmbiguous" \in Outcomes /\ "PersistenceAmbiguous" \notin Accepted
  BY DEF Outcomes, Accepted
<1> QED BY <1>1, <1>2, <1>3, WaiterStep

LEMMA AnswerStep ==
    ASSUME Ingestion, Grown, NEW c \in Calls, Answer(c)
    PROVE  Ingestion'
<1>1. PICK o \in CallType : o = call[c] BY CallFacts
<1>2. /\ Waiting(o) /\ o.pc = "wait" /\ UNCHANGED <<cached, inflight, committed, promise>>
  BY <1>1, CallFacts DEF Answer
<1> DEFINE r == [o EXCEPT !.pc = "answered"]
<1>3. call' = [call EXCEPT ![c] = r] BY <1>1, CallFacts DEF Answer
<1>4. /\ r \in CallType /\ r.own = o.own /\ r.waits = o.waits /\ r.kind = o.kind
      /\ r.todo = o.todo /\ r.pc = "answered" /\ r.results = o.results
  BY DEF CallType
<1> HIDE DEF r
<1>5. Owed(call[c]) = <<>> /\ call[c].pc # "idle" /\ Waiting(r)
  BY <1>1, <1>2, <1>4 DEF Owed, Waiting
<1> QED BY <1>1, <1>2, <1>3, <1>4, <1>5, ResultStep

(* Without a cache nothing is reserved. *)
LEMMA PlainRollbackStep ==
    ASSUME Ingestion, Grown, NEW c \in Calls, Rollback(c), ~cached
    PROVE  Ingestion'
<1>1. PICK o \in CallType : o = call[c] BY CallFacts
<1>2. /\ LocalOf(c, o) /\ Waiting(o) /\ o.pc = "rollback" /\ o.own \in Seq(Events)
      /\ UNCHANGED <<cached, inflight, committed, promise>>
  BY <1>1, CallFacts DEF Rollback, CallType
<1>3. PICK e : e = Head(o.own) OBVIOUS
<1>4. e \in Events BY <1>2, <1>3 DEF LocalOf
<1> DEFINE r == [o EXCEPT !.results = @ \cup {<<e, "PersistenceFailed">>}, !.pc = "wait"]
<1>5. call' = [call EXCEPT ![c] = r] BY <1>1, <1>3, CallFacts DEF Rollback, Result
<1> DEFINE new == {<<e, "PersistenceFailed">>}
<1>9. new \subseteq Events \X Outcomes /\ r = [o EXCEPT !.results = @ \cup new, !.pc = "wait"]
  BY <1>4 DEF Outcomes
<1> HIDE DEF new, r
<1>6. /\ r \in CallType /\ r.own = o.own /\ r.waits = o.waits /\ r.kind = o.kind
      /\ r.todo = o.todo /\ r.pc = "wait" /\ r.results = o.results \cup new
  BY <1>9 DEF CallType
<1>7. Waiting(r) /\ call[c].pc # "idle" BY <1>1, <1>2, <1>6 DEF Waiting
<1>8. \A x \in r.results : x \in call[c].results \/ (x[2] \in Accepted => rows'[x[1]] > 0)
  BY <1>1, <1>6 DEF Accepted, new
<1> QED BY <1>1, <1>2, <1>5, <1>6, <1>7, <1>8, ResultStep

LEMMA PlainCommitStep ==
    ASSUME Ingestion, Grown, NEW c \in Calls, Commit(c), ~cached
    PROVE  Ingestion'
<1>1. PICK o \in CallType : o = call[c] BY CallFacts
<1>2. /\ LocalOf(c, o) /\ Answered(o) /\ Written(o) /\ Waiting(o)
      /\ o.pc = "commit" /\ o.ack \in Seq(Events) /\ o.ack # <<>> /\ o.own \in Seq(Events)
      /\ UNCHANGED <<cached, inflight, committed, promise>> /\ Rearranged
  BY <1>1, CallFacts DEF Commit, CallType
<1> DEFINE r == [o EXCEPT !.ack = Tail(@)]
<1>3. call' = [call EXCEPT ![c] = r] BY <1>1, CallFacts DEF Commit
<1>4. /\ r \in CallType /\ r.own = o.own /\ r.waits = o.waits /\ r.kind = o.kind
      /\ r.todo = o.todo /\ r.pc = "commit" /\ r.results = o.results /\ r.ack = Tail(o.ack)
  <2>1. Tail(o.ack) \in Seq(Events) BY <1>2
  <2> QED BY <2>1, <1>2 DEF CallType
<1> HIDE DEF r
<1>5. \A k \in 1..Len(r.ack) : k + 1 \in 1..Len(o.ack) /\ r.ack[k] = o.ack[k + 1]
  BY <1>2, <1>4
<1>6. Answered(o)' /\ Written(o)' /\ Waiting(o)'
  BY <1>2, AnsweredGrows, WrittenGrows, WaitingGrows
<1>7. Answered(r)' /\ Written(r)' /\ Waiting(r)'
  BY <1>2, <1>4, <1>5, <1>6 DEF Answered, Written, Waiting
<1>8. LocalOf(c, r) BY <1>2, <1>4 DEF LocalOf
<1>9. Quiet(c, r) BY <1>2, <1>3, <1>4, <1>7, <1>8 DEF Quiet
<1> QED BY <1>9, QuietStep

-----------------------------------------------------------------------------
(* The loop over the events of a call. *)
LEMMA AcquireFacts ==
    ASSUME Ingestion, NEW c \in Calls, Acquire(c)
    PROVE  /\ call[c].pc = "acquire" /\ call[c].todo \in Seq(Events) /\ call[c].todo # <<>>
           /\ Head(call[c].todo) \in Events /\ Tail(call[c].todo) \in Seq(Events)
           /\ Len(Tail(call[c].todo)) = Len(call[c].todo) - 1 /\ Len(call[c].todo) \in Nat
           /\ call[c].now \in Nat
           /\ IngestionTyped /\ Remembered
           /\ cached' = cached
<1>1. /\ call[c].pc = "acquire" /\ call[c].todo # <<>> /\ cached' = cached BY DEF Acquire
<1>2. call[c] \in CallType BY CallFacts
<1>3. PICK s \in Seq(Events) : s = call[c].todo BY <1>2 DEF CallType
<1>4. call[c].now \in Nat BY <1>2 DEF CallType
<1>5. /\ Head(s) \in Events /\ Tail(s) \in Seq(Events) /\ Len(s) \in Nat
      /\ Len(Tail(s)) = Len(s) - 1
  BY <1>1, <1>3
<1>6. IngestionTyped /\ Remembered BY DEF Ingestion
<1> QED BY <1>1, <1>3, <1>4, <1>5, <1>6

(* An event that gets its answer at once, waits for another call, or is    *)
(* owned without a reservation.                                            *)
LEMMA PassStep ==
    ASSUME Ingestion, Grown, NEW c \in Calls, NEW r \in CallType, Acquire(c),
           call' = [call EXCEPT ![c] = r],
           inflight' = inflight, promise' = promise, Rearranged,
           r.kind = call[c].kind, r.pc = "acquire", r.todo = Tail(call[c].todo),
           Len(r.own) <= Len(call[c].own) + 1, cached => r.own = call[c].own,
           Answered(r), Waiting(r)
    PROVE  Ingestion'
<1>1. PICK o \in CallType : o = call[c] BY CallFacts
<1>2. LocalOf(c, o) /\ o.pc = "acquire" BY <1>1, CallFacts, AcquireFacts
<1>3. cached => Owed(r) = Owed(call[c]) BY <1>1, <1>2 DEF Owed
<1>4. Len(r.todo) + Len(r.own) <= Len(o.todo) + Len(o.own)
  <2>1. Len(r.todo) = Len(o.todo) - 1 /\ Len(o.todo) \in Nat BY <1>1, AcquireFacts
  <2>2. Len(r.own) \in Nat /\ Len(o.own) \in Nat BY DEF CallType
  <2>3. ASSUME NEW a \in Nat, NEW b \in Nat, NEW x \in Nat, NEW y \in Nat, a = x - 1, b <= y + 1
        PROVE  a + b <= x + y
    BY <2>3
  <2>4. Len(r.todo) \in Nat /\ Len(r.own) <= Len(o.own) + 1 BY <1>1 DEF CallType
  <2> QED BY <2>1, <2>2, <2>3, <2>4
<1>5. LocalOf(c, r)
  <2>1. r.kind = "single" => Len(r.todo) + Len(r.own) <= 1
    <3>1. Len(r.todo) \in Nat /\ Len(r.own) \in Nat /\ Len(o.todo) \in Nat /\ Len(o.own) \in Nat
      BY DEF CallType
    <3>2. \A x, y \in Nat : x <= y /\ y <= 1 => x <= 1 OBVIOUS
    <3>3. r.kind = "single" => Len(o.todo) + Len(o.own) <= 1 BY <1>1, <1>2 DEF LocalOf
    <3>4. Len(r.todo) + Len(r.own) \in Nat /\ Len(o.todo) + Len(o.own) \in Nat
      <4>1. \A x, y \in Nat : x + y \in Nat OBVIOUS
      <4> QED BY <3>1, <4>1
    <3> QED BY <3>2, <3>3, <3>4, <1>4
  <2> QED BY <2>1, <1>1, <1>2 DEF LocalOf
<1>6. Answered(r)' /\ Waiting(r)' /\ Written(r)'
  <2>1. Written(r) BY DEF Written
  <2> QED BY <2>1, AnsweredGrows, WaitingGrows, WrittenGrows
<1>7. Quiet(c, r) BY <1>3, <1>5, <1>6, AcquireFacts DEF Quiet
<1> QED BY <1>7, QuietStep

LEMMA AnsweredAtOnce ==
    ASSUME Ingestion, Grown, NEW c \in Calls, Acquire(c),
           NEW e, e = Head(call[c].todo), NEW p \in Outcomes, p \in Accepted => rows[e] > 0,
           call' = [call EXCEPT ![c] = [Result(c, e, p) EXCEPT !.todo = Tail(@)]],
           inflight' = inflight, promise' = promise, Rearranged
    PROVE  Ingestion'
<1>1. PICK o \in CallType : o = call[c] BY CallFacts
<1>2. /\ o.pc = "acquire" /\ Answered(o) /\ Waiting(o)
      /\ e \in Events /\ Tail(o.todo) \in Seq(Events)
  BY <1>1, CallFacts, AcquireFacts
<1> DEFINE new == {<<e, p>>}
           r == [o EXCEPT !.results = @ \cup new, !.todo = Tail(@)]
<1>3. new \subseteq Events \X Outcomes BY <1>2
<1>4. call' = [call EXCEPT ![c] = r] BY <1>1 DEF Result
<1> HIDE DEF new
<1>5. /\ r \in CallType /\ r.kind = o.kind /\ r.pc = o.pc /\ r.todo = Tail(o.todo)
      /\ r.own = o.own /\ r.waits = o.waits /\ r.results = o.results \cup new
  BY <1>2, <1>3 DEF CallType
<1> HIDE DEF r
<1>6. Len(r.own) <= Len(o.own) + 1
  <2>1. Len(o.own) \in Nat BY DEF CallType
  <2> QED BY <2>1, <1>5
<1>7. Answered(r) /\ Waiting(r) BY <1>2, <1>5 DEF Answered, Waiting, new
<1> QED BY <1>1, <1>2, <1>4, <1>5, <1>6, <1>7, PassStep

LEMMA OwnedUnreserved ==
    ASSUME Ingestion, Grown, NEW c \in Calls, Acquire(c), ~cached,
           NEW e, e = Head(call[c].todo),
           call' = [call EXCEPT ![c] = [[call[c] EXCEPT !.own = Append(@, e)]
                                          EXCEPT !.todo = Tail(@)]],
           inflight' = inflight, promise' = promise, Rearranged
    PROVE  Ingestion'
<1>1. PICK o \in CallType : o = call[c] BY CallFacts
<1>2. /\ o.pc = "acquire" /\ Answered(o) /\ Waiting(o)
      /\ e \in Events /\ Tail(o.todo) \in Seq(Events)
  BY <1>1, CallFacts, AcquireFacts
<1> DEFINE own == Append(o.own, e)
           r == [o EXCEPT !.own = own, !.todo = Tail(@)]
<1>3. own \in Seq(Events) /\ Len(own) = Len(o.own) + 1 /\ Len(own) \in Nat /\ Len(o.own) \in Nat
  BY <1>2 DEF CallType
<1>4. call' = [call EXCEPT ![c] = r] BY <1>1
<1> HIDE DEF own
<1>5. /\ r \in CallType /\ r.kind = o.kind /\ r.pc = o.pc /\ r.todo = Tail(o.todo)
      /\ r.own = own /\ r.waits = o.waits /\ r.results = o.results
  BY <1>2, <1>3 DEF CallType
<1> HIDE DEF r
<1>6. Len(r.own) <= Len(o.own) + 1 BY <1>3, <1>5
<1>7. Answered(r) /\ Waiting(r) BY <1>2, <1>5 DEF Answered, Waiting
<1> QED BY <1>1, <1>2, <1>4, <1>5, <1>6, <1>7, PassStep

LEMMA WaitsForOther ==
    ASSUME Ingestion, Grown, NEW c \in Calls, Acquire(c),
           NEW w \in WaitType, Shared(w),
           call' = [call EXCEPT ![c] = [[call[c] EXCEPT !.waits = Append(@, w)]
                                          EXCEPT !.todo = Tail(@)]],
           inflight' = inflight, promise' = promise, Rearranged
    PROVE  Ingestion'
<1>1. PICK o \in CallType : o = call[c] BY CallFacts
<1>2. /\ o.pc = "acquire" /\ Answered(o) /\ Waiting(o) /\ Tail(o.todo) \in Seq(Events)
      /\ o.waits \in Seq(WaitType)
  BY <1>1, CallFacts, AcquireFacts DEF CallType
<1> DEFINE ws == Append(o.waits, w)
           r == [o EXCEPT !.waits = ws, !.todo = Tail(@)]
<1>3. /\ ws \in Seq(WaitType) /\ Len(ws) = Len(o.waits) + 1 /\ Len(o.waits) \in Nat
      /\ \A k \in 1..Len(o.waits) : ws[k] = o.waits[k]
      /\ ws[Len(o.waits) + 1] = w
  BY <1>2
<1>4. call' = [call EXCEPT ![c] = r] BY <1>1
<1> HIDE DEF ws
<1>5. /\ r \in CallType /\ r.kind = o.kind /\ r.pc = o.pc /\ r.todo = Tail(o.todo)
      /\ r.own = o.own /\ r.waits = ws /\ r.results = o.results
  BY <1>2, <1>3 DEF CallType
<1> HIDE DEF r
<1>6. Len(r.own) <= Len(o.own) + 1
  <2>1. Len(o.own) \in Nat BY DEF CallType
  <2> QED BY <2>1, <1>5
<1>7. Waiting(r)
  <2> SUFFICES ASSUME NEW k \in 1..Len(ws) PROVE Shared(ws[k]) BY <1>5 DEF Waiting
  <2>1. CASE k \in 1..Len(o.waits) BY <2>1, <1>2, <1>3 DEF Waiting
  <2>2. CASE k \notin 1..Len(o.waits)
    <3>1. k = Len(o.waits) + 1 BY <2>2, <1>3
    <3> QED BY <3>1, <1>3
  <2> QED BY <2>1, <2>2
<1>8. Answered(r) BY <1>2, <1>5 DEF Answered
<1> QED BY <1>1, <1>2, <1>4, <1>5, <1>6, <1>7, <1>8, PassStep

-----------------------------------------------------------------------------
(* A reservation is entered and resolved. *)
Sharing == \A w \in WaitType : Shared(w) => Shared(w)'

(* The step of one call that touches no promise of another. *)
OneCall(c, r) ==
  /\ c \in Calls /\ r \in CallType /\ call' = [call EXCEPT ![c] = r]
  /\ \A d \in Calls : d # c => promise'[d] = promise[d]
  /\ Sharing

LEMMA OneCallStep ==
    ASSUME Ingestion, Grown, NEW c, NEW r, OneCall(c, r),
           IngestionTyped', Reserved', Remembered',
           LocalOf(c, r)', Answered(r)', Written(r)'
    PROVE  (Waiting(r) => Waiting(r)') /\ (Waiting(r) => Ingestion')
<1>1. /\ c \in Calls /\ r \in CallType /\ call \in [Calls -> CallType]
      /\ call' = [call EXCEPT ![c] = r]
  BY DEF Ingestion, IngestionTyped, OneCall
<1>2. /\ call'[c] = r /\ \A d \in Calls : d # c => call'[d] = call[d] BY <1>1
<1>3. ASSUME NEW o \in CallType, Waiting(o) PROVE Waiting(o)'
  <2> SUFFICES ASSUME NEW k \in 1..Len(o.waits) PROVE Shared(o.waits[k])' BY DEF Waiting
  <2>1. o.waits \in Seq(WaitType) BY DEF CallType
  <2>2. PICK w \in WaitType : w = o.waits[k] BY <2>1
  <2>3. Shared(w)' BY <2>2, <1>3 DEF Waiting, OneCall, Sharing
  <2> QED BY <2>2, <2>3 DEF Shared, Reservation, Fingerprint
<1>4. Waiting(r) => Waiting(r)' BY <1>1, <1>3
<1>5. ASSUME Waiting(r), NEW d \in Calls PROVE Local(d)' /\ Stored(d)'
  <2>1. CASE d = c
    BY <2>1, <1>4, <1>5, <1>1, <1>2 DEF Local, LocalOf, Stored, Answered, Written, Waiting
  <2>2. CASE d # c
    <3>1. PICK o \in CallType : o = call[d] BY <1>1
    <3>2. LocalOf(d, o) /\ Answered(o) /\ Written(o) /\ Waiting(o)
      BY <3>1 DEF Ingestion, Local, Stored
    <3>3. Answered(o)' /\ Written(o)' /\ Waiting(o)'
      BY <3>2, <1>3, AnsweredGrows, WrittenGrows
    <3>4. LocalOf(d, o)' BY <3>2, <2>2 DEF LocalOf, OneCall
    <3> QED BY <3>1, <3>3, <3>4, <2>2, <1>2
              DEF Local, LocalOf, Stored, Answered, Written, Waiting
  <2> QED BY <2>1, <2>2
<1> QED BY <1>4, <1>5 DEF Ingestion

(* What Reserved says of one call, in terms of what it owes. *)
Owes(c, s, m) ==
  /\ \A k \in 1..Len(s) : m[s[k].id] = {Reservation(c, s[k])}
  /\ \A j, k \in 1..Len(s) : s[j].id = s[k].id => j = k

LEMMA ReservedFacts ==
    ASSUME Ingestion, cached
    PROVE  /\ \A c \in Calls : Owes(c, Owed(call[c]), inflight) /\ Owed(call[c]) \in Seq(Events)
           /\ \A i \in Ids : \A x \in inflight[i] :
                /\ x.owner \in Calls /\ promise[x.owner][i] = "pending"
                /\ \E k \in 1..Len(Owed(call[x.owner])) : Owed(call[x.owner])[k].id = i
<1>1. \A c \in Calls : Owes(c, Owed(call[c]), inflight) /\ Owed(call[c]) \in Seq(Events)
  <2> SUFFICES ASSUME NEW c \in Calls PROVE Owes(c, Owed(call[c]), inflight) /\ Owed(call[c]) \in Seq(Events)
    OBVIOUS
  <2>1. Owed(call[c]) \in Seq(Events) BY CallFacts, OwedTyped
  <2>2. Owes(c, Owed(call[c]), inflight) BY DEF Ingestion, Reserved, Owes
  <2> QED BY <2>1, <2>2
<1>2. \A i \in Ids : \A x \in inflight[i] : x.owner \in Calls
  BY DEF Ingestion, IngestionTyped
<1>3. \A i \in Ids : \A x \in inflight[i] :
        /\ promise[x.owner][i] = "pending"
        /\ \E k \in 1..Len(Owed(call[x.owner])) : Owed(call[x.owner])[k].id = i
  BY DEF Ingestion, Reserved
<1> QED BY <1>1, <1>2, <1>3

LEMMA ReservedAgain ==
    ASSUME cached', \A c \in Calls : Owes(c, Owed(call'[c]), inflight'),
           \A i \in Ids : \A x \in inflight'[i] :
             /\ promise'[x.owner][i] = "pending"
             /\ \E k \in 1..Len(Owed(call'[x.owner])) : Owed(call'[x.owner])[k].id = i
    PROVE  Reserved'
  BY DEF Reserved, Owes, Reservation, Fingerprint, Owed

(* Nobody else owes an event whose id is reserved by c. *)
LEMMA OnlyOwner ==
    ASSUME NEW c, NEW d, NEW e \in Events, NEW f \in Events,
           Reservation(c, e) = Reservation(d, f)
    PROVE  c = d /\ e = f
<1>1. c = d /\ Fingerprint(e) = Fingerprint(f) BY DEF Reservation
<1> QED BY <1>1, EventFields

LEMMA ReserveStep ==
    ASSUME Ingestion, Grown, NEW c \in Calls, Acquire(c), cached, Rearranged,
           NEW e, e = Head(call[c].todo), inflight[e.id] = {},
           call' = [call EXCEPT ![c] = [[call[c] EXCEPT !.own = Append(@, e)]
                                          EXCEPT !.todo = Tail(@)]],
           inflight' = [inflight EXCEPT ![e.id] = {Reservation(c, e)}], promise' = promise
    PROVE  Ingestion'
<1>1. PICK o \in CallType : o = call[c] BY CallFacts
<1>2. /\ o.pc = "acquire" /\ LocalOf(c, o) /\ Answered(o) /\ Waiting(o)
      /\ e \in Events /\ Tail(o.todo) \in Seq(Events) /\ o.own \in Seq(Events)
      /\ Len(Tail(o.todo)) = Len(o.todo) - 1 /\ Len(o.todo) \in Nat
      /\ IngestionTyped /\ Remembered /\ cached'
  BY <1>1, CallFacts, AcquireFacts DEF CallType
<1>3. e.id \in Ids BY <1>2, EventFields
<1> DEFINE own == Append(o.own, e)
           r == [o EXCEPT !.own = own, !.todo = Tail(@)]
<1>4. /\ own \in Seq(Events) /\ Len(own) = Len(o.own) + 1 /\ Len(own) \in Nat /\ Len(o.own) \in Nat
      /\ \A k \in 1..Len(o.own) : own[k] = o.own[k]
      /\ own[Len(o.own) + 1] = e
  BY <1>2
<1>5. call' = [call EXCEPT ![c] = r] BY <1>1
<1> HIDE DEF own
<1>6. /\ r \in CallType /\ r.kind = o.kind /\ r.pc = o.pc /\ r.todo = Tail(o.todo)
      /\ r.own = own /\ r.waits = o.waits /\ r.results = o.results
  BY <1>2, <1>4 DEF CallType
<1> HIDE DEF r
<1>7. /\ call' \in [Calls -> CallType] /\ call'[c] = r
      /\ \A d \in Calls : d # c => call'[d] = call[d]
  BY <1>2, <1>5, <1>6 DEF IngestionTyped
<1>8. /\ inflight'[e.id] = {Reservation(c, e)}
      /\ \A i \in Ids : i # e.id => inflight'[i] = inflight[i]
  BY <1>2, <1>3 DEF IngestionTyped
<1>9. Owed(call[c]) = o.own /\ Owed(r) = own BY <1>1, <1>2, <1>6 DEF Owed
<1>10. /\ \A d \in Calls : Owes(d, Owed(call[d]), inflight) /\ Owed(call[d]) \in Seq(Events)
       /\ \A i \in Ids : \A x \in inflight[i] :
            /\ x.owner \in Calls /\ promise[x.owner][i] = "pending"
            /\ \E k \in 1..Len(Owed(call[x.owner])) : Owed(call[x.owner])[k].id = i
  BY ReservedFacts
<1>11. ASSUME NEW d \in Calls, NEW s \in Seq(Events), Owes(d, s, inflight)
       PROVE  \A k \in 1..Len(s) : /\ s[k].id # e.id
                                   /\ inflight'[s[k].id] = {Reservation(d, s[k])}
  <2> SUFFICES ASSUME NEW k \in 1..Len(s)
               PROVE  s[k].id # e.id /\ inflight'[s[k].id] = {Reservation(d, s[k])}
    OBVIOUS
  <2>1. s[k] \in Events /\ inflight[s[k].id] = {Reservation(d, s[k])} BY <1>11 DEF Owes
  <2>2. s[k].id # e.id /\ s[k].id \in Ids BY <2>1, EventFields
  <2> QED BY <2>1, <2>2, <1>8
<1>12. ASSUME NEW d \in Calls PROVE Owes(d, Owed(call'[d]), inflight')
  <2>1. CASE d # c
    <3>1. PICK s \in Seq(Events) : s = Owed(call[d]) /\ Owes(d, s, inflight) BY <1>10
    <3>2. \A k \in 1..Len(s) : inflight'[s[k].id] = {Reservation(d, s[k])} BY <3>1, <1>11
    <3>3. Owed(call'[d]) = s BY <3>1, <2>1, <1>7
    <3>4. Owes(d, s, inflight') BY <3>1, <3>2 DEF Owes
    <3> QED BY <3>3, <3>4
  <2>2. CASE d = c
    <3>1. Owes(c, o.own, inflight) BY <1>9, <1>10
    <3>2. \A k \in 1..Len(o.own) : /\ o.own[k].id # e.id
                                   /\ inflight'[o.own[k].id] = {Reservation(c, o.own[k])}
      BY <3>1, <1>2, <1>11
    <3>3. \A k \in 1..Len(own) : k \in 1..Len(o.own) \/ k = Len(o.own) + 1 BY <1>4
    <3>4. \A k \in 1..Len(own) : inflight'[own[k].id] = {Reservation(c, own[k])}
      BY <3>2, <3>3, <1>4, <1>8
    <3>5. \A j, k \in 1..Len(own) : own[j].id = own[k].id => j = k
      BY <3>1, <3>2, <3>3, <1>4 DEF Owes
    <3>6. Owes(c, own, inflight') BY <3>4, <3>5 DEF Owes
    <3>7. Owed(call'[d]) = own BY <2>2, <1>7, <1>9
    <3> QED BY <2>2, <3>6, <3>7
  <2> QED BY <2>1, <2>2
<1>13. ASSUME NEW i \in Ids, NEW x \in inflight'[i]
       PROVE  /\ promise'[x.owner][i] = "pending"
              /\ \E k \in 1..Len(Owed(call'[x.owner])) : Owed(call'[x.owner])[k].id = i
  <2>1. CASE i = e.id
    <3>1. x = Reservation(c, e) BY <2>1, <1>8
    <3>2. x.owner = c BY <3>1 DEF Reservation
    <3>3. promise[c][i] = "pending" BY <1>2 DEF LocalOf
    <3>4. Owed(call'[x.owner]) = own /\ Len(o.own) + 1 \in 1..Len(own)
      BY <3>2, <1>4, <1>7, <1>9
    <3> QED BY <3>2, <3>3, <3>4, <2>1, <1>4
  <2>2. CASE i # e.id
    <3>1. /\ x.owner \in Calls /\ promise[x.owner][i] = "pending"
          /\ \E k \in 1..Len(Owed(call[x.owner])) : Owed(call[x.owner])[k].id = i
      BY <2>2, <1>8, <1>10
    <3>2. CASE x.owner # c BY <3>1, <3>2, <1>7
    <3>3. CASE x.owner = c
      <4>1. PICK k \in 1..Len(o.own) : o.own[k].id = i BY <3>1, <3>3, <1>9
      <4>2. k \in 1..Len(own) /\ own[k] = o.own[k] /\ Owed(call'[x.owner]) = own
        BY <3>3, <1>4, <1>7, <1>9
      <4> QED BY <4>1, <4>2, <3>1
    <3> QED BY <3>2, <3>3
  <2> QED BY <2>1, <2>2
<1>14. Reserved'
  <2>1. \A d \in Calls : Owes(d, Owed(call'[d]), inflight') BY <1>12
  <2> QED BY <2>1, <1>2, <1>13, ReservedAgain
<1>15. IngestionTyped'
  <2>1. Reservation(c, e) \in [fp : Prints, owner : Calls]
    BY <1>2, EventFields DEF Reservation
  <2>2. inflight' \in [Ids -> SUBSET [fp : Prints, owner : Calls]]
    BY <2>1, <1>2 DEF IngestionTyped
  <2> QED BY <2>2, <1>2, <1>7 DEF IngestionTyped, Rearranged
<1>16. Remembered' BY <1>2, RememberedKept
<1>17. Sharing
  <2> SUFFICES ASSUME NEW w \in WaitType, Shared(w) PROVE Shared(w)' BY DEF Sharing
  <2>1. w.event \in Events /\ w.event.id \in Ids BY EventFields DEF WaitType
  <2>2. promise[w.owner][w.event.id] = "pending"
          => inflight'[w.event.id] = {Reservation(w.owner, w.event)}
    <3> SUFFICES ASSUME promise[w.owner][w.event.id] = "pending"
                 PROVE  inflight'[w.event.id] = {Reservation(w.owner, w.event)}
      OBVIOUS
    <3>1. inflight[w.event.id] = {Reservation(w.owner, w.event)} BY DEF Shared
    <3>2. w.event.id # e.id BY <3>1
    <3> QED BY <3>1, <3>2, <2>1, <1>8
  <2>3. promise[w.owner][w.event.id] \in Accepted => rows'[w.event] > 0
    BY <2>1 DEF Shared, Grown
  <2> QED BY <2>2, <2>3 DEF Shared, Reservation, Fingerprint
<1>18. OneCall(c, r) BY <1>5, <1>6, <1>17 DEF OneCall
<1>19. LocalOf(c, r)'
  <2>1. Len(r.todo) + Len(r.own) = Len(o.todo) + Len(o.own)
    <3>1. Len(o.todo) \in Nat /\ Len(o.own) \in Nat BY <1>2, <1>4
    <3>2. \A x, y \in Nat : (x - 1) + (y + 1) = x + y OBVIOUS
    <3>3. Len(r.todo) = Len(o.todo) - 1 /\ Len(r.own) = Len(o.own) + 1 BY <1>2, <1>4, <1>6
    <3> QED BY <3>1, <3>2, <3>3
  <2> QED BY <2>1, <1>2, <1>6 DEF LocalOf
<1>20. Answered(r)' /\ Written(r)' /\ Waiting(r)
  <2>1. Answered(r) /\ Written(r) /\ Waiting(r) BY <1>2, <1>6 DEF Answered, Written, Waiting
  <2> QED BY <2>1, <1>6, AnsweredGrows, WrittenGrows
<1> QED BY <1>14, <1>15, <1>16, <1>18, <1>19, <1>20, OneCallStep

LEMMA ResolveStep ==
    ASSUME Ingestion, Grown, NEW c \in Calls, NEW r \in CallType, cached, cached' = cached,
           call' = [call EXCEPT ![c] = r], NEW s \in Seq(Events), s = Owed(call[c]), s # <<>>,
           NEW e, e = Head(s), Owed(r) = Tail(s),
           NEW p \in Outcomes, p \in Accepted => rows[e] > 0,
           inflight' = [inflight EXCEPT ![e.id] = {}],
           promise' = [promise EXCEPT ![c] = [@ EXCEPT ![e.id] = p]],
           committed' \in Seq(EntryType), Remembered',
           LocalOf(c, r), r.pc \notin {"idle", "acquire"}, Answered(r), Written(r), Waiting(r)
    PROVE  Ingestion'
<1>1. /\ e \in Events /\ e = s[1] /\ 1 \in 1..Len(s) /\ IngestionTyped
      /\ Tail(s) \in Seq(Events) /\ Len(Tail(s)) = Len(s) - 1 /\ Len(s) \in Nat
      /\ \A k \in 1..Len(Tail(s)) : k + 1 \in 1..Len(s) /\ Tail(s)[k] = s[k + 1]
  BY DEF Ingestion
<1>2. e.id \in Ids BY <1>1, EventFields
<1>3. /\ inflight'[e.id] = {} /\ \A i \in Ids : i # e.id => inflight'[i] = inflight[i]
      /\ promise'[c][e.id] = p /\ \A i \in Ids : i # e.id => promise'[c][i] = promise[c][i]
      /\ \A d \in Calls : d # c => promise'[d] = promise[d]
  BY <1>1, <1>2 DEF IngestionTyped
<1>4. /\ call' \in [Calls -> CallType] /\ call'[c] = r
      /\ \A d \in Calls : d # c => call'[d] = call[d]
  BY <1>1 DEF IngestionTyped
<1>5. /\ \A d \in Calls : Owes(d, Owed(call[d]), inflight) /\ Owed(call[d]) \in Seq(Events)
      /\ \A i \in Ids : \A x \in inflight[i] :
           /\ x.owner \in Calls /\ promise[x.owner][i] = "pending"
           /\ \E k \in 1..Len(Owed(call[x.owner])) : Owed(call[x.owner])[k].id = i
  BY ReservedFacts
<1>6. Owes(c, s, inflight) BY <1>5
<1>7. inflight[e.id] = {Reservation(c, e)} /\ promise[c][e.id] = "pending"
  <2>1. inflight[e.id] = {Reservation(c, e)} BY <1>1, <1>6 DEF Owes
  <2>2. Reservation(c, e) \in inflight[e.id] /\ Reservation(c, e).owner = c
    BY <2>1 DEF Reservation
  <2>3. PICK x \in inflight[e.id] : x.owner = c BY <2>2
  <2>4. promise[x.owner][e.id] = "pending" BY <1>2, <1>5
  <2> QED BY <2>1, <2>3, <2>4
<1>8. ASSUME NEW d \in Calls PROVE Owes(d, Owed(call'[d]), inflight')
  <2>1. CASE d # c
    <3>1. PICK t \in Seq(Events) : t = Owed(call[d]) /\ Owes(d, t, inflight) BY <1>5
    <3>2. ASSUME NEW k \in 1..Len(t) PROVE inflight'[t[k].id] = {Reservation(d, t[k])}
      <4>1. PICK f \in Events : f = t[k] /\ f.id \in Ids /\ inflight[f.id] = {Reservation(d, f)}
        <5>1. t[k] \in Events OBVIOUS
        <5>2. inflight[t[k].id] = {Reservation(d, t[k])} BY <3>1 DEF Owes
        <5> QED BY <5>1, <5>2, EventFields
      <4>2. f.id # e.id
        <5>1. f.id = e.id => Reservation(c, e) = Reservation(d, f)
          <6> SUFFICES ASSUME f.id = e.id PROVE Reservation(c, e) = Reservation(d, f) OBVIOUS
          <6>1. {Reservation(c, e)} = {Reservation(d, f)} BY <4>1, <1>7
          <6> QED BY <6>1
        <5> QED BY <5>1, <2>1, <1>1, OnlyOwner
      <4> QED BY <4>1, <4>2, <1>3
    <3>3. Owed(call'[d]) = t BY <3>1, <2>1, <1>4
    <3>4. Owes(d, t, inflight') BY <3>1, <3>2 DEF Owes
    <3> QED BY <3>3, <3>4
  <2>2. CASE d = c
    <3> DEFINE t == Tail(s)
    <3>1. /\ t \in Seq(Events)
          /\ \A k \in 1..Len(t) : k \in Nat /\ k + 1 \in 1..Len(s) /\ t[k] = s[k + 1] /\ k + 1 # 1
      BY <1>1
    <3> HIDE DEF t
    <3>2. ASSUME NEW k \in 1..Len(t) PROVE inflight'[t[k].id] = {Reservation(c, t[k])}
      <4>1. t[k] \in Events /\ t[k].id \in Ids BY <3>1, EventFields
      <4>2. t[k].id # e.id BY <3>1, <1>1, <1>6 DEF Owes
      <4>3. inflight[t[k].id] = {Reservation(c, t[k])} BY <3>1, <1>6 DEF Owes
      <4> QED BY <4>1, <4>2, <4>3, <1>3
    <3>3. ASSUME NEW j \in 1..Len(t), NEW k \in 1..Len(t), t[j].id = t[k].id PROVE j = k
      <4>1. s[j + 1].id = s[k + 1].id /\ j + 1 \in 1..Len(s) /\ k + 1 \in 1..Len(s)
        BY <3>1, <3>3
      <4>2. j + 1 = k + 1 BY <4>1, <1>6 DEF Owes
      <4> QED BY <4>2, <3>1
    <3>4. Owes(c, t, inflight') BY <3>2, <3>3 DEF Owes
    <3> QED BY <2>2, <3>4, <1>4 DEF t
  <2> QED BY <2>1, <2>2
<1>9. ASSUME NEW i \in Ids, NEW x \in inflight'[i]
      PROVE  /\ promise'[x.owner][i] = "pending"
             /\ \E k \in 1..Len(Owed(call'[x.owner])) : Owed(call'[x.owner])[k].id = i
  <2>1. i # e.id /\ x \in inflight[i] BY <1>3
  <2>2. x.owner \in Calls /\ promise[x.owner][i] = "pending" BY <2>1, <1>5
  <2>3. promise'[x.owner][i] = "pending" BY <2>1, <2>2, <1>3
  <2>4. PICK k \in 1..Len(Owed(call[x.owner])) : Owed(call[x.owner])[k].id = i BY <2>1, <1>5
  <2>5. CASE x.owner # c BY <2>2, <2>3, <2>4, <2>5, <1>4
  <2>6. CASE x.owner = c
    <3>1. k \in 1..Len(s) /\ s[k].id = i BY <2>4, <2>6
    <3>2. k # 1 BY <3>1, <2>1, <1>1
    <3>3. k - 1 \in 1..Len(Tail(s)) /\ (k - 1) + 1 = k BY <3>1, <3>2, <1>1
    <3>4. Tail(s)[k - 1].id = i BY <3>1, <3>3, <1>1
    <3>5. Owed(call'[x.owner]) = Tail(s) BY <2>6, <1>4
    <3> QED BY <3>3, <3>4, <3>5, <2>3
  <2> QED BY <2>5, <2>6
<1>10. Reserved'
  <2>1. \A d \in Calls : Owes(d, Owed(call'[d]), inflight') BY <1>8
  <2> QED BY <2>1, <1>9, ReservedAgain
<1>11. IngestionTyped'
  <2>1. inflight' \in [Ids -> SUBSET [fp : Prints, owner : Calls]] BY <1>1 DEF IngestionTyped
  <2>2. promise' \in [Calls -> [Ids -> {"pending"} \cup Outcomes]] BY <1>1 DEF IngestionTyped
  <2> QED BY <2>1, <2>2, <1>1, <1>4 DEF IngestionTyped
<1>12. Sharing
  <2> SUFFICES ASSUME NEW w \in WaitType, Shared(w) PROVE Shared(w)' BY DEF Sharing
  <2>1. w.event \in Events /\ w.event.id \in Ids /\ w.owner \in Calls
    BY EventFields DEF WaitType
  <2>2. CASE w.owner = c /\ w.event.id = e.id
    <3>1. inflight[w.event.id] = {Reservation(w.owner, w.event)} BY <2>2, <1>7 DEF Shared
    <3>2. w.event = e
      <4>1. {Reservation(w.owner, w.event)} = {Reservation(c, e)} BY <3>1, <2>2, <1>7
      <4>2. Reservation(w.owner, w.event) = Reservation(c, e) BY <4>1
      <4> QED BY <4>2, <2>1, <1>1, OnlyOwner
    <3>3. promise'[w.owner][w.event.id] = p /\ p # "pending" BY <2>2, <1>3 DEF Outcomes
    <3>4. p \in Accepted => rows'[w.event] > 0 BY <3>2, <1>1 DEF Grown
    <3> QED BY <3>3, <3>4 DEF Shared, Reservation, Fingerprint
  <2>3. CASE ~(w.owner = c /\ w.event.id = e.id)
    <3>1. promise'[w.owner][w.event.id] = promise[w.owner][w.event.id] BY <2>1, <2>3, <1>3
    <3>2. promise[w.owner][w.event.id] = "pending"
            => inflight'[w.event.id] = {Reservation(w.owner, w.event)}
      <4> SUFFICES ASSUME promise[w.owner][w.event.id] = "pending"
                   PROVE  inflight'[w.event.id] = {Reservation(w.owner, w.event)}
        OBVIOUS
      <4>1. inflight[w.event.id] = {Reservation(w.owner, w.event)} BY DEF Shared
      <4>2. w.event.id = e.id => w.owner = c
        <5> SUFFICES ASSUME w.event.id = e.id PROVE w.owner = c OBVIOUS
        <5>1. {Reservation(w.owner, w.event)} = {Reservation(c, e)} BY <4>1, <1>7
        <5>2. Reservation(w.owner, w.event) = Reservation(c, e) BY <5>1
        <5> QED BY <5>2, <2>1, <1>1, OnlyOwner
      <4> QED BY <4>1, <4>2, <2>1, <2>3, <1>3
    <3>3. promise[w.owner][w.event.id] \in Accepted => rows'[w.event] > 0
      BY <2>1 DEF Shared, Grown
    <3> QED BY <3>1, <3>2, <3>3 DEF Shared, Reservation, Fingerprint
  <2> QED BY <2>2, <2>3
<1>13. OneCall(c, r) BY <1>3, <1>12 DEF OneCall
<1>14. LocalOf(c, r)' BY DEF LocalOf
<1>15. Answered(r)' /\ Written(r)' BY AnsweredGrows, WrittenGrows
<1> QED BY <1>10, <1>11, <1>13, <1>14, <1>15, OneCallStep

(* The committed list with a new entry, cut to its capacity. *)
LEMMA MarkedList ==
    ASSUME IngestionTyped, Remembered, NEW x \in EntryType, Known(x), NEW list,
           list = Cons(x, Without(x.id)),
           NEW n, n = IF Len(list) < Capacity THEN Len(list) ELSE Capacity,
           committed' = SubSeq(list, 1, n), Grown
    PROVE  committed' \in Seq(EntryType) /\ Remembered'
<1> DEFINE w == Without(x.id)
<1>1. /\ committed \in Seq(EntryType) /\ Once(committed) /\ Capacity \in Nat
  BY IngestionAssumption DEF IngestionTyped, Remembered
<1>2. /\ w \in Seq(EntryType) /\ Among(w) /\ Once(w)
      /\ \A k \in 1..Len(w) : w[k].id # x.id
  BY <1>1, WithoutFacts
<1>3. list = Cons(x, w) OBVIOUS
<1> HIDE DEF w
<1>4. InFront(list, x, w) /\ Once(list) BY <1>2, <1>3, ConsFacts, ConsOnce
<1>5. list \in Seq(EntryType) /\ Len(list) \in Nat BY <1>4 DEF InFront
<1>6. n \in Nat /\ n <= Len(list) /\ n <= Capacity BY <1>1, <1>5
<1>7. /\ committed' \in Seq(EntryType) /\ Len(committed') = n
      /\ \A k \in 1..n : k \in 1..Len(list) /\ committed'[k] = list[k]
  BY <1>5, <1>6
<1>8. ASSUME NEW k \in 1..Len(list) PROVE Known(list[k])
  <2>1. CASE k = 1 BY <2>1, <1>4 DEF InFront
  <2>2. CASE k # 1
    <3>1. k - 1 \in 1..Len(w) /\ list[k] = w[k - 1] BY <2>2, <1>4 DEF InFront
    <3>2. PICK j \in 1..Len(committed) : w[k - 1] = committed[j] BY <3>1, <1>2 DEF Among
    <3> QED BY <3>1, <3>2 DEF Remembered
  <2> QED BY <2>1, <2>2
<1>9. ASSUME NEW k \in 1..Len(committed') PROVE Known(committed[k])'
  <2>1. PICK y : y = committed'[k] OBVIOUS
  <2>2. Known(y) BY <2>1, <1>7, <1>8
  <2>3. Known(y)' BY <2>2, KnownGrows
  <2> QED BY <2>1, <2>3 DEF Known, Fingerprint
<1>10. Once(committed)' /\ (Len(committed) <= Capacity)' BY <1>4, <1>6, <1>7 DEF Once
<1> QED BY <1>7, <1>9, <1>10 DEF Remembered

LEMMA CachedCommitStep ==
    ASSUME Ingestion, Grown, NEW c \in Calls, Commit(c), cached
    PROVE  Ingestion'
<1>1. PICK o \in CallType : o = call[c] BY CallFacts
<1>2. /\ LocalOf(c, o) /\ Answered(o) /\ Written(o) /\ Waiting(o)
      /\ o.pc = "commit" /\ o.ack \in Seq(Events) /\ o.ack # <<>> /\ o.now \in Nat
      /\ IngestionTyped /\ Remembered /\ cached' = cached
  BY <1>1, CallFacts DEF Commit, CallType, Ingestion
<1>3. PICK s \in Seq(Events) : s = o.ack BY <1>2
<1>4. PICK e : e = Head(s) OBVIOUS
<1>5. /\ e \in Events /\ e = s[1] /\ 1 \in 1..Len(s) /\ s # <<>> /\ e.id \in Ids
      /\ Tail(s) \in Seq(Events)
      /\ \A k \in 1..Len(Tail(s)) : k + 1 \in 1..Len(s) /\ Tail(s)[k] = s[k + 1]
  BY <1>2, <1>3, <1>4, EventFields
<1>6. s = Owed(call[c]) BY <1>1, <1>2, <1>3 DEF Owed
<1>7. rows[e] > 0 /\ "DuplicateCoalesced" \in Outcomes
  BY <1>2, <1>3, <1>5 DEF Written, Outcomes
<1>8. inflight[e.id] = {Reservation(c, e)} BY <1>5, <1>6, ReservedFacts DEF Owes
<1>9. PICK x : x = (CHOOSE y \in inflight[e.id] : TRUE) OBVIOUS
<1>10. x = Reservation(c, e) /\ x.fp = Fingerprint(e) /\ x.owner = c /\ inflight[e.id] # {}
  BY <1>8, <1>9 DEF Reservation
<1> DEFINE n == [id |-> e.id, fp |-> Fingerprint(e), expires |-> o.now + Ttl]
           list == Cons(n, Without(e.id))
           len == IF Len(list) < Capacity THEN Len(list) ELSE Capacity
<1>11. /\ inflight' = [inflight EXCEPT ![e.id] = {}]
       /\ promise' = [promise EXCEPT ![c] = [@ EXCEPT ![e.id] = "DuplicateCoalesced"]]
       /\ committed' = SubSeq(list, 1, len)
  <2>1. MarkCommitted(e, o.now) BY <1>1, <1>3, <1>4 DEF Commit
  <2>2. /\ inflight' = [inflight EXCEPT ![e.id] = {}]
        /\ promise' = [promise EXCEPT ![x.owner] = [@ EXCEPT ![e.id] = "DuplicateCoalesced"]]
        /\ committed' =
             LET all == Cons([id |-> e.id, fp |-> x.fp, expires |-> o.now + Ttl], Without(e.id))
             IN SubSeq(all, 1, IF Len(all) < Capacity THEN Len(all) ELSE Capacity)
    BY <2>1, <1>9, <1>10 DEF MarkCommitted
  <2> QED BY <2>2, <1>10
<1>12. n \in EntryType /\ n.id = e.id /\ n.fp = Fingerprint(e)
  <2>1. o.now + Ttl \in Nat /\ Fingerprint(e) \in Prints
    BY <1>2, <1>5, EventFields, IngestionAssumption
  <2> QED BY <2>1, <1>5 DEF EntryType
<1> HIDE DEF n
<1>13. Known(n) BY <1>5, <1>7, <1>12 DEF Known
<1>14. list = Cons(n, Without(n.id)) BY <1>12
<1> HIDE DEF list
<1> HIDE DEF len
<1>15. len = IF Len(list) < Capacity THEN Len(list) ELSE Capacity BY DEF len
<1>16. committed' \in Seq(EntryType) /\ Remembered'
  BY <1>2, <1>11, <1>12, <1>13, <1>14, <1>15, MarkedList
<1> DEFINE r == [o EXCEPT !.ack = Tail(s)]
<1>17. call' = [call EXCEPT ![c] = r] BY <1>1, <1>3, CallFacts DEF Commit
<1>18. /\ r \in CallType /\ r.own = o.own /\ r.waits = o.waits /\ r.kind = o.kind
       /\ r.todo = o.todo /\ r.pc = "commit" /\ r.results = o.results /\ r.ack = Tail(s)
  BY <1>2, <1>5 DEF CallType
<1> HIDE DEF r
<1>19. Answered(r) /\ Written(r) /\ Waiting(r)
  BY <1>2, <1>3, <1>5, <1>18 DEF Answered, Written, Waiting
<1>20. LocalOf(c, r) /\ r.pc \notin {"idle", "acquire"} BY <1>2, <1>18 DEF LocalOf
<1>21. Owed(r) = Tail(s) BY <1>18 DEF Owed
<1> QED BY <1>2, <1>4, <1>5, <1>6, <1>7, <1>11, <1>16, <1>17, <1>18, <1>19, <1>20, <1>21,
           ResolveStep

LEMMA CachedRollbackStep ==
    ASSUME Ingestion, Grown, NEW c \in Calls, Rollback(c), cached
    PROVE  Ingestion'
<1>1. PICK o \in CallType : o = call[c] BY CallFacts
<1>2. /\ LocalOf(c, o) /\ Answered(o) /\ Waiting(o)
      /\ o.pc = "rollback" /\ o.own \in Seq(Events) /\ o.todo \in Seq(Events)
      /\ IngestionTyped /\ Remembered /\ cached' = cached /\ committed' = committed
      /\ Rearranged
  BY <1>1, CallFacts DEF Rollback, RollbackInFlight, CallType, Ingestion
<1>3. PICK s \in Seq(Events) : s = o.own BY <1>2
<1>4. PICK e : e = Head(s) OBVIOUS
<1>5. o.kind = "single" /\ s # <<>> BY <1>2, <1>3 DEF LocalOf
<1>6. Tail(s) = <<>>
  <2>1. Len(o.todo) + Len(s) <= 1 /\ Len(o.todo) \in Nat /\ Len(s) \in Nat
    <3>1. o.kind = "single" => Len(o.todo) + Len(o.own) <= 1 BY <1>2 DEF LocalOf
    <3>2. Len(o.todo) + Len(s) <= 1 BY <3>1, <1>3, <1>5
    <3>3. Len(o.todo) \in Nat BY <1>2
    <3>4. Len(s) \in Nat OBVIOUS
    <3> QED BY <3>2, <3>3, <3>4
  <2>2. Len(s) <= 1 BY <2>1
  <2> QED BY <2>1, <2>2, <1>5
<1>7. e \in Events /\ e = s[1] /\ 1 \in 1..Len(s) /\ e.id \in Ids BY <1>4, <1>5, EventFields
<1>8. s = Owed(call[c]) BY <1>1, <1>2, <1>3 DEF Owed
<1>9. inflight[e.id] = {Reservation(c, e)} BY <1>7, <1>8, ReservedFacts DEF Owes
<1>10. PICK x : x = (CHOOSE y \in inflight[e.id] : TRUE) OBVIOUS
<1>11. x = Reservation(c, e) /\ x.owner = c /\ inflight[e.id] # {}
  BY <1>9, <1>10 DEF Reservation
<1>12. /\ inflight' = [inflight EXCEPT ![e.id] = {}]
       /\ promise' = [promise EXCEPT ![c] = [@ EXCEPT ![e.id] = "PersistenceFailed"]]
  <2>1. RollbackInFlight(e, "PersistenceFailed") BY <1>1, <1>3, <1>4 DEF Rollback
  <2>2. /\ inflight' = [inflight EXCEPT ![e.id] = {}]
        /\ promise' = [promise EXCEPT ![x.owner] = [@ EXCEPT ![e.id] = "PersistenceFailed"]]
    BY <2>1, <1>10, <1>11 DEF RollbackInFlight
  <2> QED BY <2>2, <1>11
<1>13. committed' \in Seq(EntryType) /\ Remembered' BY <1>2, RememberedKept DEF Rearranged
<1> DEFINE r == [o EXCEPT !.pc = "threw"]
<1>14. call' = [call EXCEPT ![c] = r] BY <1>1, CallFacts DEF Rollback
<1>15. /\ r \in CallType /\ r.own = o.own /\ r.waits = o.waits /\ r.kind = o.kind
       /\ r.todo = o.todo /\ r.pc = "threw" /\ r.results = o.results
  BY DEF CallType
<1> HIDE DEF r
<1>16. Answered(r) /\ Written(r) /\ Waiting(r) BY <1>2, <1>15 DEF Answered, Written, Waiting
<1>17. LocalOf(c, r) /\ r.pc \notin {"idle", "acquire"} BY <1>2, <1>15 DEF LocalOf
<1>18. Owed(r) = Tail(s) BY <1>5, <1>6, <1>15 DEF Owed
<1>19. "PersistenceFailed" \in Outcomes /\ "PersistenceFailed" \notin Accepted
  BY DEF Outcomes, Accepted
<1> QED BY <1>2, <1>4, <1>5, <1>8, <1>12, <1>13, <1>14, <1>15, <1>16, <1>17, <1>18, <1>19,
           ResolveStep

-----------------------------------------------------------------------------
(* What try_acquire decides, and what that says about the table. *)
LEMMA DecisionFacts ==
    ASSUME Ingestion, cached, NEW e \in Events, NEW now
    PROVE  /\ Decision(e, now) \in {"AlreadyCommitted", "PayloadConflict",
                                    "CoalescedInFlight", "AcquiredNewInFlight"}
           /\ Decision(e, now) = "AlreadyCommitted" => rows[e] > 0
           /\ Decision(e, now) = "CoalescedInFlight"
                => \E o \in Calls : inflight[e.id] = {Reservation(o, e)} /\ promise[o][e.id] = "pending"
           /\ Decision(e, now) = "AcquiredNewInFlight" => inflight[e.id] = {}
<1> DEFINE hit == {k \in EntryOf(e.id) : now < committed[k].expires}
           other == {r \in inflight[e.id] : r.fp # Fingerprint(e)}
           d == Decision(e, now)
<1>1. d = CASE \E k \in hit : committed[k].fp = Fingerprint(e) -> "AlreadyCommitted"
            [] \E k \in hit : committed[k].fp # Fingerprint(e) -> "PayloadConflict"
            [] hit = {} /\ other # {} -> "PayloadConflict"
            [] hit = {} /\ other = {} /\ inflight[e.id] # {} -> "CoalescedInFlight"
            [] OTHER -> "AcquiredNewInFlight"
  BY DEF Decision
<1>2. hit \subseteq 1..Len(committed) BY DEF EntryOf
<1>3. other \subseteq inflight[e.id] /\ \A r \in inflight[e.id] : r \in other <=> r.fp # Fingerprint(e)
  OBVIOUS
<1>4. \A j, k \in hit : j = k BY DEF EntryOf, Ingestion, Remembered, Once
<1>5. e.id \in Ids BY EventFields
<1> HIDE DEF hit, other, d
<1>6. CASE \E k \in hit : committed[k].fp = Fingerprint(e)
  <2>1. d = "AlreadyCommitted" BY <1>1, <1>4, <1>6
  <2>2. PICK k \in 1..Len(committed) : committed[k].fp = Fingerprint(e) BY <1>2, <1>6
  <2>3. PICK f \in Events : committed[k].fp = Fingerprint(f) /\ rows[f] > 0
    BY DEF Ingestion, Remembered, Known
  <2>4. f = e BY <2>2, <2>3, EventFields
  <2> QED BY <2>1, <2>3, <2>4 DEF d
<1>7. CASE \E k \in hit : committed[k].fp # Fingerprint(e)
  <2>1. d = "PayloadConflict" BY <1>1, <1>4, <1>7
  <2> QED BY <2>1 DEF d
<1>8. CASE hit = {} /\ other # {}
  <2>1. d = "PayloadConflict" BY <1>1, <1>8
  <2> QED BY <2>1 DEF d
<1>9. CASE hit = {} /\ other = {} /\ inflight[e.id] # {}
  <2>1. d = "CoalescedInFlight" BY <1>1, <1>9
  <2>2. PICK x \in inflight[e.id] : x.fp = Fingerprint(e) BY <1>3, <1>9
  <2>3. PICK o \in Calls : o = x.owner /\ promise[o][e.id] = "pending" BY <1>5, ReservedFacts
  <2>4. PICK s \in Seq(Events) : s = Owed(call[o]) /\ Owes(o, s, inflight) BY ReservedFacts
  <2>5. PICK k \in 1..Len(s) : s[k].id = e.id BY <2>3, <2>4, <1>5, ReservedFacts
  <2>6. PICK f \in Events : f = s[k] OBVIOUS
  <2>7. inflight[e.id] = {Reservation(o, f)} BY <2>4, <2>5, <2>6 DEF Owes
  <2>8. Fingerprint(f) = Fingerprint(e) BY <2>2, <2>7 DEF Reservation
  <2>9. f = e BY <2>8, EventFields
  <2> QED BY <2>1, <2>3, <2>7, <2>9 DEF d
<1>10. CASE hit = {} /\ inflight[e.id] = {}
  <2>1. d = "AcquiredNewInFlight" BY <1>1, <1>3, <1>10
  <2> QED BY <2>1, <1>10 DEF d
<1> QED BY <1>6, <1>7, <1>8, <1>9, <1>10

LEMMA AcquireStep ==
    ASSUME Ingestion, Grown, NEW c \in Calls, Acquire(c)
    PROVE  Ingestion'
<1>1. PICK e : e = Head(call[c].todo) OBVIOUS
<1>2. PICK now : now = call[c].now OBVIOUS
<1>3. /\ e \in Events /\ now \in Nat /\ IngestionTyped /\ Remembered /\ cached' = cached
  BY <1>1, <1>2, AcquireFacts
<1>4. CASE ~(Valid(e) /\ cached)
  <2>1. /\ inflight' = inflight /\ promise' = promise /\ committed' = committed /\ Rearranged
    BY <1>1, <1>4, CallFacts DEF Acquire
  <2>2. CASE ~Valid(e)
    <3>1. call' = [call EXCEPT ![c] = [Result(c, e, "ValidationRejected") EXCEPT !.todo = Tail(@)]]
      BY <2>2, <1>1 DEF Acquire
    <3>2. "ValidationRejected" \in Outcomes /\ "ValidationRejected" \notin Accepted
      BY DEF Outcomes, Accepted
    <3> QED BY <3>1, <3>2, <2>1, <1>1, AnsweredAtOnce
  <2>3. CASE Valid(e)
    <3>1. call' = [call EXCEPT ![c] = [[call[c] EXCEPT !.own = Append(@, e)] EXCEPT !.todo = Tail(@)]]
      BY <2>3, <1>1, <1>4 DEF Acquire
    <3> QED BY <3>1, <2>1, <2>3, <1>1, <1>4, OwnedUnreserved
  <2> QED BY <2>2, <2>3
<1>5. CASE Valid(e) /\ cached
  <2>1. TryAcquire(c, e, now) BY <1>1, <1>2, <1>5 DEF Acquire
  <2>2. Rearranged BY <2>1, <1>3, TryAcquireList DEF Rearranged
  <2>3. PICK d : d = Decision(e, now) OBVIOUS
  <2>4. /\ d \in {"AlreadyCommitted", "PayloadConflict",
                  "CoalescedInFlight", "AcquiredNewInFlight"}
        /\ d = "AlreadyCommitted" => rows[e] > 0
        /\ d = "CoalescedInFlight"
             => \E o \in Calls : inflight[e.id] = {Reservation(o, e)} /\ promise[o][e.id] = "pending"
        /\ d = "AcquiredNewInFlight" => inflight[e.id] = {}
    BY <2>3, <1>3, <1>5, DecisionFacts
  <2>5. promise' = promise /\ (d # "AcquiredNewInFlight" => inflight' = inflight)
    BY <2>1, <2>3 DEF TryAcquire
  <2>6. CASE d = "AlreadyCommitted"
    <3>1. call' = [call EXCEPT ![c] = [Result(c, e, "DuplicateCommitted") EXCEPT !.todo = Tail(@)]]
      BY <2>3, <2>6, <1>1, <1>2, <1>5 DEF Acquire
    <3>2. "DuplicateCommitted" \in Outcomes BY DEF Outcomes
    <3>3. inflight' = inflight BY <2>5, <2>6
    <3> QED BY <3>1, <3>2, <3>3, <2>2, <2>4, <2>5, <2>6, <1>1, AnsweredAtOnce
  <2>7. CASE d = "PayloadConflict"
    <3>1. call' = [call EXCEPT ![c] = [Result(c, e, "IdempotencyConflict") EXCEPT !.todo = Tail(@)]]
      BY <2>3, <2>7, <1>1, <1>2, <1>5 DEF Acquire
    <3>2. "IdempotencyConflict" \in Outcomes /\ "IdempotencyConflict" \notin Accepted
      BY DEF Outcomes, Accepted
    <3>3. inflight' = inflight BY <2>5, <2>7
    <3> QED BY <3>1, <3>2, <3>3, <2>2, <2>5, <1>1, AnsweredAtOnce
  <2>8. CASE d = "CoalescedInFlight"
    <3>1. PICK o \in Calls : inflight[e.id] = {Reservation(o, e)} /\ promise[o][e.id] = "pending"
      BY <2>4, <2>8
    <3>2. PICK x : x = (CHOOSE y \in inflight[e.id] : TRUE) OBVIOUS
    <3>3. x.owner = o
      <4>1. x \in {Reservation(o, e)} BY <3>1, <3>2
      <4> QED BY <4>1 DEF Reservation
    <3>4. PICK w : w = [event |-> e, owner |-> o] OBVIOUS
    <3>5. w \in WaitType /\ w.event = e /\ w.owner = o BY <3>4, <1>3 DEF WaitType
    <3>6. Shared(w) BY <3>1, <3>5 DEF Shared, Accepted
    <3>7. call' = [call EXCEPT ![c] = [[call[c] EXCEPT !.waits = Append(@, w)] EXCEPT !.todo = Tail(@)]]
      BY <3>2, <3>3, <3>4, <2>3, <2>8, <1>1, <1>2, <1>5 DEF Acquire
    <3>8. inflight' = inflight BY <2>5, <2>8
    <3> QED BY <3>5, <3>6, <3>7, <3>8, <2>2, <2>5, WaitsForOther
  <2>9. CASE d = "AcquiredNewInFlight"
    <3>1. call' = [call EXCEPT ![c] = [[call[c] EXCEPT !.own = Append(@, e)] EXCEPT !.todo = Tail(@)]]
      BY <2>3, <2>9, <1>1, <1>2, <1>5 DEF Acquire
    <3>2. inflight' = [inflight EXCEPT ![e.id] = {Reservation(c, e)}] /\ inflight[e.id] = {}
      BY <2>1, <2>3, <2>4, <2>9 DEF TryAcquire, Reservation
    <3> QED BY <3>1, <3>2, <2>2, <2>5, <1>1, <1>5, ReserveStep
  <2> QED BY <2>4, <2>6, <2>7, <2>8, <2>9
<1> QED BY <1>4, <1>5

-----------------------------------------------------------------------------
LEMMA IngestionStarts == Init => StoreTypeOK /\ Ingestion /\ Delivered
<1> SUFFICES ASSUME Init PROVE StoreTypeOK /\ Ingestion /\ Delivered OBVIOUS
<1>1. PICK d \in Deployments : StoreInit(d.table) /\ IngestionInit(d.cache) BY DEF Init
<1>2. d \in [table : SUBSET Events, cache : BOOLEAN] BY DeploymentsAssumption
<1>3. StoreTypeOK BY <1>1, EventsAssumption DEF StoreInit, StoreTypeOK
<1>4. IngestionTyped
  <2>1. cached \in BOOLEAN BY <1>1, <1>2 DEF IngestionInit
  <2>2. committed \in Seq(EntryType) BY <1>1 DEF IngestionInit
  <2>3. call \in [Calls -> CallType] BY <1>1, IdleTyped DEF IngestionInit
  <2> QED BY <2>1, <2>2, <2>3, <1>1 DEF IngestionInit, IngestionTyped
<1>5. \A c \in Calls : call[c] = Idle /\ Owed(call[c]) = <<>>
  BY <1>1 DEF IngestionInit, Owed, Idle
<1>6. Reserved
  <2>1. \A i \in Ids : inflight[i] = {} BY <1>1 DEF IngestionInit
  <2>2. \A c \in Calls : Len(Owed(call[c])) = 0 BY <1>5
  <2> QED BY <2>1, <2>2 DEF Reserved
<1>7. Remembered BY <1>1, IngestionAssumption DEF IngestionInit, Remembered, Once
<1>8. ASSUME NEW c \in Calls PROVE Local(c) /\ Stored(c)
  <2>1. LocalOf(c, Idle) /\ Answered(Idle) /\ Written(Idle) /\ Waiting(Idle)
    <3>1. \A i \in Ids : promise[c][i] = "pending" BY <1>1 DEF IngestionInit
    <3> QED BY <3>1 DEF LocalOf, Answered, Written, Waiting, Idle
  <2> QED BY <2>1, <1>5 DEF Local, Stored
<1>9. Delivered BY DEF Init, PipelineInit, Delivered, Fresh
<1> QED BY <1>3, <1>4, <1>6, <1>7, <1>8, <1>9 DEF Ingestion

LEMMA IngestionNext ==
    ASSUME StoreTypeOK, Pipeline, Ingestion, [Next]_vars
    PROVE  Ingestion'
<1>1. Grown BY StoreNext DEF Ingestion
<1>2. CASE UNCHANGED ingestionVars BY <1>1, <1>2, IngestionKept
<1>3. CASE IngestionStep
  <2>1. PICK c \in Calls :
          \/ \E e \in Events : SubmitAuditEvent(c, e, e.producer)
          \/ \E es \in Batches, peer \in Producers : BatchSubmitAuditEvents(c, es, peer)
          \/ \E ending \in Endings : Insert(c, ending)
          \/ Acquire(c) \/ Acquired(c) \/ Commit(c) \/ Committed(c)
          \/ Rollback(c) \/ Awaited(c) \/ AwaitTimedOut(c) \/ Answer(c)
    BY <1>3 DEF IngestionStep
  <2>2. CASE \E e \in Events : SubmitAuditEvent(c, e, e.producer)
    BY <2>2, <1>1, SubmitAuditEventStep
  <2>3. CASE \E es \in Batches, peer \in Producers : BatchSubmitAuditEvents(c, es, peer)
    BY <2>3, <1>1, BatchSubmitStep
  <2>4. CASE \E ending \in Endings : Insert(c, ending) BY <2>4, InsertStep
  <2>5. CASE Acquire(c) BY <2>5, <1>1, AcquireStep
  <2>6. CASE Acquired(c) BY <2>6, <1>1, AcquiredStep
  <2>7. CASE Commit(c) BY <2>7, <1>1, PlainCommitStep, CachedCommitStep
  <2>8. CASE Committed(c) BY <2>8, <1>1, CommittedStep
  <2>9. CASE Rollback(c) BY <2>9, <1>1, PlainRollbackStep, CachedRollbackStep
  <2>10. CASE Awaited(c) BY <2>10, <1>1, AwaitedStep
  <2>11. CASE AwaitTimedOut(c) BY <2>11, <1>1, AwaitTimedOutStep
  <2>12. CASE Answer(c) BY <2>12, <1>1, AnswerStep
  <2> QED BY <2>1, <2>2, <2>3, <2>4, <2>5, <2>6, <2>7, <2>8, <2>9, <2>10, <2>11, <2>12
<1>4. UNCHANGED ingestionVars \/ IngestionStep
  BY DEF Next, vars, StoreStep, PipelineStep, QueryStep, StopServer, Exited
<1> QED BY <1>2, <1>3, <1>4

(* What the producer and the pipeline's clients were told is in the table. *)
LEMMA AcknowledgedIsInTable == Ingestion /\ Delivered => AckedIsStored
  BY DEF Ingestion, Stored, Answered, Delivered, AckedIsStored

(* What a concurrent submission of an id finds: one call owes it. *)
LEMMA ReservationsAreOwned == Ingestion => OneWriterPerId /\ ReservationHasOwner
<1> SUFFICES ASSUME Ingestion PROVE OneWriterPerId /\ ReservationHasOwner OBVIOUS
<1>1. OneWriterPerId
  <2> SUFFICES ASSUME cached, NEW c \in Calls, NEW d \in Calls,
                      call[c].pc = "insert", call[d].pc = "insert",
                      NEW i \in 1..Len(call[c].own), NEW j \in 1..Len(call[d].own),
                      call[c].own[i].id = call[d].own[j].id
               PROVE  c = d /\ i = j
    BY DEF OneWriterPerId
  <2>1. PICK s \in Seq(Events) : s = call[c].own /\ Owes(c, s, inflight)
    BY ReservedFacts DEF Owed
  <2>2. PICK t \in Seq(Events) : t = call[d].own /\ Owes(d, t, inflight)
    BY ReservedFacts DEF Owed
  <2>3. s[i] \in Events /\ t[j] \in Events BY <2>1, <2>2
  <2>4. {Reservation(c, s[i])} = {Reservation(d, t[j])} BY <2>1, <2>2 DEF Owes
  <2>5. Reservation(c, s[i]) = Reservation(d, t[j]) BY <2>4
  <2>6. c = d BY <2>3, <2>5, OnlyOwner
  <2> QED BY <2>1, <2>2, <2>6 DEF Owes
<1>2. ReservationHasOwner
  <2> SUFFICES ASSUME NEW i \in Ids, NEW x \in inflight[i]
               PROVE  \/ InProgress(x.owner)
                      \/ call[x.owner].kind = "batch" /\ call[x.owner].pc = "threw"
    BY DEF ReservationHasOwner
  <2>1. x.owner \in Calls /\ \E k \in 1..Len(Owed(call[x.owner])) : Owed(call[x.owner])[k].id = i
    BY DEF Ingestion, IngestionTyped, Reserved
  <2>2. Owed(call[x.owner]) # <<>> BY <2>1
  <2>3. call[x.owner] \in CallType BY <2>1, CallFacts
  <2> QED BY <2>2, <2>3 DEF Owed, InProgress, CallType
<1> QED BY <1>1, <1>2

-----------------------------------------------------------------------------
(* The order of a query. *)
LEMMA KeyFacts ==
    /\ \A e \in Events : Key(e) \in Nat \X Nat \X Nat
    /\ \A e, f \in Events : Key(e) = Key(f) => e = f
<1>1. \A e \in Events : e \in [id : Nat, at : Nat, producer : Nat] BY EventsAssumption
<1> QED BY <1>1 DEF Key

LEMMA BeforeFacts ==
    ASSUME NEW a \in Nat \X Nat \X Nat, NEW b \in Nat \X Nat \X Nat, NEW c \in Nat \X Nat \X Nat
    PROVE  /\ ~Before(a, a)
           /\ Before(a, b) /\ Before(b, c) => Before(a, c)
           /\ a = b \/ Before(a, b) \/ Before(b, a)
<1>1. /\ a = <<a[1], a[2], a[3]>> /\ a[1] \in Nat /\ a[2] \in Nat /\ a[3] \in Nat
      /\ b = <<b[1], b[2], b[3]>> /\ b[1] \in Nat /\ b[2] \in Nat /\ b[3] \in Nat
      /\ c = <<c[1], c[2], c[3]>> /\ c[1] \in Nat /\ c[2] \in Nat /\ c[3] \in Nat
  OBVIOUS
<1>2. ~Before(a, a) BY <1>1 DEF Before
<1>3. Before(a, b) /\ Before(b, c) => Before(a, c) BY <1>1 DEF Before
<1>4. a = b \/ Before(a, b) \/ Before(b, a)
  <2> SUFFICES ASSUME ~Before(a, b), ~Before(b, a) PROVE a = b OBVIOUS
  <2>1. a[1] = b[1] /\ a[2] = b[2] /\ a[3] = b[3] BY <1>1 DEF Before
  <2> QED BY <2>1, <1>1
<1> QED BY <1>2, <1>3, <1>4

LEMMA FirstFacts ==
    ASSUME NEW f, NEW a \in Events, NEW b \in Events, NEW c \in Events
    PROVE  /\ ~First(f, a, a)
           /\ First(f, a, b) /\ First(f, b, c) => First(f, a, c)
           /\ a = b \/ First(f, a, b) \/ First(f, b, a)
<1>1. PICK x \in Nat \X Nat \X Nat : x = Key(a) BY KeyFacts
<1>2. PICK y \in Nat \X Nat \X Nat : y = Key(b) BY KeyFacts
<1>3. PICK z \in Nat \X Nat \X Nat : z = Key(c) BY KeyFacts
<1>4. ~Before(x, x) BY BeforeFacts
<1>5. Before(x, y) /\ Before(y, z) => Before(x, z) BY BeforeFacts
<1>6. Before(z, y) /\ Before(y, x) => Before(z, x) BY BeforeFacts
<1>7. x = y \/ Before(x, y) \/ Before(y, x) BY BeforeFacts
<1>8. x = y => a = b BY <1>1, <1>2, KeyFacts
<1> QED BY <1>1, <1>2, <1>3, <1>4, <1>5, <1>6, <1>7, <1>8 DEF First

(* The events of S that come before e. *)
Ahead(f, S, e) == {o \in S : First(f, o, e)}

LEMMA AheadFacts ==
    ASSUME NEW f, NEW S \in SUBSET Events
    PROVE  /\ IsFiniteSet(S) /\ Cardinality(S) \in Nat
           /\ \A e \in S : /\ IsFiniteSet(Ahead(f, S, e)) /\ Cardinality(Ahead(f, S, e)) \in Nat
                           /\ Cardinality(Ahead(f, S, e)) < Cardinality(S)
           /\ \A d, e \in S : First(f, d, e)
                => Cardinality(Ahead(f, S, d)) < Cardinality(Ahead(f, S, e))
<1>1. IsFiniteSet(S) /\ Cardinality(S) \in Nat
  BY EventsAssumption, FS_Subset, FS_CardinalityType
<1>2. \A e : Ahead(f, S, e) \subseteq S BY DEF Ahead
<1>3. \A e : IsFiniteSet(Ahead(f, S, e)) /\ Cardinality(Ahead(f, S, e)) \in Nat
  BY <1>1, <1>2, FS_Subset, FS_CardinalityType
<1>4. ASSUME NEW A, NEW B, IsFiniteSet(B), A \subseteq B, NEW x \in B, x \notin A
      PROVE  Cardinality(A) < Cardinality(B)
  <2>1. IsFiniteSet(A) /\ Cardinality(A) <= Cardinality(B) /\ Cardinality(A) # Cardinality(B)
    BY <1>4, FS_Subset
  <2>2. Cardinality(A) \in Nat /\ Cardinality(B) \in Nat BY <2>1, <1>4, FS_CardinalityType
  <2> QED BY <2>1, <2>2
<1>5. ASSUME NEW e \in S PROVE Cardinality(Ahead(f, S, e)) < Cardinality(S)
  <2>1. e \notin Ahead(f, S, e) BY FirstFacts DEF Ahead
  <2> QED BY <2>1, <1>1, <1>2, <1>4
<1>6. ASSUME NEW d \in S, NEW e \in S, First(f, d, e)
      PROVE  Cardinality(Ahead(f, S, d)) < Cardinality(Ahead(f, S, e))
  <2>1. d \in Ahead(f, S, e) /\ d \notin Ahead(f, S, d) BY <1>6, FirstFacts DEF Ahead
  <2>2. ASSUME NEW o \in Ahead(f, S, d) PROVE o \in Ahead(f, S, e)
    <3>1. o \in S /\ First(f, o, d) BY DEF Ahead
    <3>2. o \in Events /\ d \in Events /\ e \in Events BY <3>1
    <3>3. First(f, o, e) BY <3>1, <3>2, <1>6, FirstFacts
    <3> QED BY <3>1, <3>3 DEF Ahead
  <2>3. Ahead(f, S, d) \subseteq Ahead(f, S, e) BY <2>2
  <2> QED BY <2>1, <2>3, <1>3, <1>4
<1> QED BY <1>1, <1>3, <1>5, <1>6

(* The sequence s holds the events of S, each once, in the order of f. *)
Sorting(f, S, s) ==
  /\ s \in Seq(Events) /\ Len(s) \in Nat
  /\ \A k \in 1..Len(s) : s[k] \in S
  /\ \A e \in S : \E k \in 1..Len(s) : s[k] = e
  /\ Sorted(f, s)

LEMMA InOrderSorts ==
    ASSUME NEW f, NEW S \in SUBSET Events
    PROVE  Sorting(f, S, InOrder(f, S))
<1> DEFINE n == Cardinality(S)
           rank == [e \in S |-> Cardinality(Ahead(f, S, e))]
           s == InOrder(f, S)
           pick(k) == CHOOSE e \in S : Cardinality(Ahead(f, S, e)) = k - 1
<1>1. /\ IsFiniteSet(S) /\ n \in Nat
      /\ \A e \in S : rank[e] \in Nat /\ rank[e] < n
      /\ \A d, e \in S : First(f, d, e) => rank[d] < rank[e]
  BY AheadFacts
<1>2. \A d, e \in S : rank[d] = rank[e] => d = e
  <2> SUFFICES ASSUME NEW d \in S, NEW e \in S, rank[d] = rank[e], d # e PROVE FALSE OBVIOUS
  <2>1. First(f, d, e) \/ First(f, e, d) BY FirstFacts
  <2>2. rank[d] < rank[e] \/ rank[e] < rank[d] BY <2>1, <1>1
  <2> QED BY <2>2, <1>1
<1>3. \A k \in 0..n - 1 : \E e \in S : rank[e] = k
  <2> DEFINE T == 0..n - 1
  <2>1. IsFiniteSet(T) /\ Cardinality(T) = n
    <3>1. n - 1 \in Int /\ 0 \in Int BY <1>1
    <3>2. IsFiniteSet(T) /\ Cardinality(T) = IF 0 > n - 1 THEN 0 ELSE n - 1 - 0 + 1
      BY <3>1, FS_Interval
    <3> QED BY <3>2, <1>1
  <2>2. \A e \in S : rank[e] \in T BY <1>1
  <2> HIDE DEF T
  <2>3. rank \in [S -> T] BY <2>2
  <2> HIDE DEF rank
  <2>4. rank \in Injection(S, T) BY <2>3, <1>2 DEF Injection, IsInjective
  <2>5. rank \in Surjection(S, T) BY <2>1, <2>4, FS_Injection
  <2>6. \A k \in T : \E e \in S : rank[e] = k BY <2>5 DEF Surjection
  <2> QED BY <2>6 DEF T
<1>4. s = [k \in 1..n |-> pick(k)] BY DEF InOrder, Ahead
<1>5. ASSUME NEW k \in 1..n PROVE pick(k) \in S /\ rank[pick(k)] = k - 1
  <2>1. k - 1 \in 0..n - 1 BY <1>1
  <2>2. \E e \in S : Cardinality(Ahead(f, S, e)) = k - 1 BY <2>1, <1>3
  <2> QED BY <2>2
<1>6. \A k \in 1..n : s[k] \in S /\ rank[s[k]] = k - 1 BY <1>4, <1>5
<1>7. s \in Seq(Events) /\ Len(s) = n
  <2>1. \A k \in 1..n : pick(k) \in Events BY <1>5
  <2> QED BY <2>1, <1>1, <1>4
<1> HIDE DEF s, rank, n
<1>8. \A e \in S : \E k \in 1..n : s[k] = e
  <2> SUFFICES ASSUME NEW e \in S PROVE \E k \in 1..n : s[k] = e OBVIOUS
  <2>1. rank[e] + 1 \in 1..n /\ (rank[e] + 1) - 1 = rank[e] BY <1>1
  <2>2. s[rank[e] + 1] \in S /\ rank[s[rank[e] + 1]] = rank[e] BY <2>1, <1>6
  <2>3. s[rank[e] + 1] = e BY <2>2, <1>2
  <2> QED BY <2>1, <2>3
<1>9. ASSUME NEW i \in 1..n, NEW j \in 1..n, i < j PROVE First(f, s[i], s[j])
  <2>1. PICK a \in S : a = s[i] /\ rank[a] = i - 1 BY <1>6
  <2>2. PICK b \in S : b = s[j] /\ rank[b] = j - 1 BY <1>6
  <2>3. a # b /\ ~(rank[b] < rank[a]) BY <2>1, <2>2, <1>1, <1>9
  <2>4. a = b \/ First(f, a, b) \/ First(f, b, a)
    <3>1. a \in Events /\ b \in Events OBVIOUS
    <3> QED BY <3>1, FirstFacts
  <2> QED BY <2>1, <2>2, <2>3, <2>4, <1>1
<1>10. Sorting(f, S, s) BY <1>1, <1>6, <1>7, <1>8, <1>9 DEF Sorting, Sorted
<1> QED BY <1>10 DEF s

(* Of every id in m one event is left, and it comes before the others. *)
LEMMA OneOfEachId ==
    ASSUME NEW f, NEW m \in SUBSET Events
    PROVE  /\ FirstOfItsId(f, m) \in SUBSET Events /\ FirstOfItsId(f, m) \subseteq m
           /\ \A e \in m : \E o \in FirstOfItsId(f, m) : o.id = e.id /\ (o = e \/ First(f, o, e))
<1>1. FirstOfItsId(f, m) \in SUBSET Events /\ FirstOfItsId(f, m) \subseteq m
  BY DEF FirstOfItsId
<1>2. ASSUME NEW e \in m
      PROVE  \E o \in FirstOfItsId(f, m) : o.id = e.id /\ (o = e \/ First(f, o, e))
  <2> DEFINE S == {o \in m : o.id = e.id}
             s == InOrder(f, S)
  <2>1. S \in SUBSET Events /\ e \in S OBVIOUS
  <2>2. Sorting(f, S, s) BY <2>1, InOrderSorts
  <2> HIDE DEF s
  <2>3. PICK k \in 1..Len(s) : s[k] = e BY <2>1, <2>2 DEF Sorting
  <2>4. Len(s) \in Nat /\ 1 \in 1..Len(s) BY <2>2, <2>3 DEF Sorting
  <2>5. PICK o \in S : o = s[1] BY <2>2, <2>4 DEF Sorting
  <2>6. \A x \in S : x # o => First(f, o, x)
    <3> SUFFICES ASSUME NEW x \in S, x # o PROVE First(f, o, x) OBVIOUS
    <3>1. PICK j \in 1..Len(s) : s[j] = x BY <2>2 DEF Sorting
    <3>2. 1 < j BY <3>1, <2>4, <2>5
    <3> QED BY <3>1, <3>2, <2>2, <2>4, <2>5 DEF Sorting, Sorted
  <2>7. o \in FirstOfItsId(f, m) BY <2>6 DEF FirstOfItsId
  <2>8. o.id = e.id /\ (o = e \/ First(f, o, e)) BY <2>1, <2>6
  <2> QED BY <2>7, <2>8
<1> QED BY <1>1, <1>2

(* What a page of the query returns. *)
LEMMA QueryFacts ==
    ASSUME NEW f, NEW token
    PROVE  LET s == BuildFilterQuery(f, token)
           IN  /\ s \in Seq(Events) /\ Len(s) \in Nat /\ Sorted(f, s)
               /\ \A k \in 1..Len(s) : s[k] \in Matching(f, token)
               /\ \A e \in Matching(f, token) : \E k \in 1..Len(s) :
                    s[k].id = e.id /\ (s[k] = e \/ First(f, s[k], e))
<1> DEFINE m == Matching(f, token)
           S == FirstOfItsId(f, m)
           s == BuildFilterQuery(f, token)
<1>1. m \in SUBSET Events BY DEF Matching
<1>2. s = InOrder(f, S) BY DEF BuildFilterQuery
<1> HIDE DEF m, s
<1>3. /\ S \in SUBSET Events /\ S \subseteq m
      /\ \A e \in m : \E o \in S : o.id = e.id /\ (o = e \/ First(f, o, e))
  BY <1>1, OneOfEachId
<1> HIDE DEF S
<1>4. Sorting(f, S, s) BY <1>2, <1>3, InOrderSorts
<1>5. s \in Seq(Events) /\ Len(s) \in Nat /\ Sorted(f, s) BY <1>4 DEF Sorting
<1>6. \A k \in 1..Len(s) : s[k] \in m BY <1>3, <1>4 DEF Sorting
<1>7. \A e \in m : \E k \in 1..Len(s) : s[k].id = e.id /\ (s[k] = e \/ First(f, s[k], e))
  <2> SUFFICES ASSUME NEW e \in m
               PROVE  \E k \in 1..Len(s) : s[k].id = e.id /\ (s[k] = e \/ First(f, s[k], e))
    OBVIOUS
  <2>1. PICK o \in S : o.id = e.id /\ (o = e \/ First(f, o, e)) BY <1>3
  <2>2. PICK k \in 1..Len(s) : s[k] = o BY <1>4 DEF Sorting
  <2> QED BY <2>1, <2>2
<1> QED BY <1>5, <1>6, <1>7 DEF m, s

LEMMA PrefixFacts ==
    ASSUME NEW s \in Seq(Events), NEW n \in Nat, n <= Len(s)
    PROVE  /\ SubSeq(s, 1, n) \in Seq(Events) /\ Len(SubSeq(s, 1, n)) = n
           /\ \A k \in 1..n : k \in 1..Len(s) /\ SubSeq(s, 1, n)[k] = s[k]
  OBVIOUS

(* Rows that follow: t in order, and behind every row of s. *)
LEMMA JoinedSorted ==
    ASSUME NEW f, NEW s \in Seq(Events), NEW t \in Seq(Events), Sorted(f, s), Sorted(f, t),
           \A j \in 1..Len(s), k \in 1..Len(t) : First(f, s[j], t[k])
    PROVE  Sorted(f, s \o t)
<1> DEFINE u == s \o t
<1>1. /\ u \in Seq(Events) /\ Len(u) = Len(s) + Len(t) /\ Len(s) \in Nat /\ Len(t) \in Nat
      /\ \A k \in 1..Len(s) : u[k] = s[k]
      /\ \A k \in 1..Len(t) : u[Len(s) + k] = t[k]
  BY JoinedFacts
<1> HIDE DEF u
<1>2. \A k \in 1..Len(u) : \/ k \in 1..Len(s) /\ u[k] = s[k]
                           \/ k > Len(s) /\ k - Len(s) \in 1..Len(t) /\ u[k] = t[k - Len(s)]
  <2> SUFFICES ASSUME NEW k \in 1..Len(u), k \notin 1..Len(s)
               PROVE  k > Len(s) /\ k - Len(s) \in 1..Len(t) /\ u[k] = t[k - Len(s)]
    BY <1>1
  <2>1. k > Len(s) /\ k - Len(s) \in 1..Len(t) /\ Len(s) + (k - Len(s)) = k BY <1>1
  <2> QED BY <2>1, <1>1
<1> SUFFICES ASSUME NEW i \in 1..Len(u), NEW j \in 1..Len(u), i < j
             PROVE  First(f, u[i], u[j])
  BY DEF Sorted, u
<1>3. CASE i \in 1..Len(s) /\ j \in 1..Len(s) BY <1>1, <1>3 DEF Sorted
<1>4. CASE i \in 1..Len(s) /\ j \notin 1..Len(s) BY <1>1, <1>2, <1>4
<1>5. CASE i \notin 1..Len(s) /\ j \notin 1..Len(s)
  <2>1. PICK a \in 1..Len(t) : a = i - Len(s) /\ u[i] = t[a] BY <1>2, <1>5
  <2>2. PICK b \in 1..Len(t) : b = j - Len(s) /\ u[j] = t[b] BY <1>2, <1>5
  <2>3. a < b BY <2>1, <2>2, <1>1
  <2> QED BY <2>1, <2>2, <2>3 DEF Sorted
<1>6. i \notin 1..Len(s) => j \notin 1..Len(s) BY <1>1
<1> QED BY <1>3, <1>4, <1>5, <1>6

(* The cursor: what is beyond the token of a row comes after that row. *)
LEMMA CursorFacts ==
    ASSUME NEW f, NEW l \in Events, NEW e \in Events
    PROVE  Beyond(f, Encode(l, f), e) <=> First(f, l, e)
<1>1. PICK token : token = Encode(l, f) OBVIOUS
<1>2. token # <<>> /\ token[1].key = Key(l) BY <1>1 DEF Encode
<1> QED BY <1>1, <1>2 DEF Beyond, First

LEMMA MatchingFacts ==
    ASSUME NEW f, NEW token, NEW e
    PROVE  /\ e \in Matching(f, token) => e \in Events /\ e \in Matching(f, <<>>)
           /\ e \in Matching(f, token) => Beyond(f, token, e)
           /\ e \in Matching(f, <<>>) /\ Beyond(f, token, e) => e \in Matching(f, token)
           /\ e \in Matching(f, token) /\ Grown => (e \in Matching(f, token))'
<1>1. e \in Matching(f, token) => e \in Events /\ e \in Matching(f, <<>>)
  BY DEF Matching, Beyond
<1>2. e \in Matching(f, token) => Beyond(f, token, e) BY DEF Matching
<1>3. e \in Matching(f, <<>>) /\ Beyond(f, token, e) => e \in Matching(f, token)
  BY DEF Matching
<1>4. e \in Matching(f, token) /\ Grown => (e \in Matching(f, token))'
  BY DEF Matching, Grown, Beyond, Before, Key
<1> QED BY <1>1, <1>2, <1>3, <1>4

-----------------------------------------------------------------------------
(* The walks. *)
LEMMA WalkGrows ==
    ASSUME Grown, NEW r \in WalkType, Walked(r)
    PROVE  Walked(r)'
<1>1. r.pc \in {"querying", "paged"} => Open(r)'
  <2> SUFFICES ASSUME r.pc \in {"querying", "paged"} PROVE Open(r)' OBVIOUS
  <2>1. Open(r) BY DEF Walked
  <2>2. ASSUME NEW e \in r.present PROVE Held(r.seen, e) \/ (e \in Matching(r.filter, r.token))'
    <3>1. Held(r.seen, e) \/ e \in Matching(r.filter, r.token) BY <2>1 DEF Open
    <3>2. PICK f : f = r.filter OBVIOUS
    <3>3. PICK t : t = r.token OBVIOUS
    <3>4. e \in Matching(f, t) => (e \in Matching(f, t))' BY MatchingFacts
    <3> QED BY <3>1, <3>2, <3>3, <3>4
  <2> QED BY <2>1, <2>2 DEF Open
<1> QED BY <1>1 DEF Walked

Busy(r) == r.pc \in {"querying", "looking"}

(* A reader takes a step: it gets a slot, leaves it, or needs none. *)
Walking(q, r) ==
  /\ q \in Readers /\ r \in WalkType /\ walk' = [walk EXCEPT ![q] = r]
  /\ \/ ~Busy(walk[q]) /\ Busy(r) /\ queries < Workers /\ queries' = queries + 1
     \/ Busy(walk[q]) /\ ~Busy(r) /\ queries' = queries - 1
     \/ ~Busy(walk[q]) /\ ~Busy(r) /\ queries' = queries

LEMMA WalkStep ==
    ASSUME Walks, Grown, NEW q, NEW r, Walking(q, r), Walked(r)'
    PROVE  Walks'
<1> DEFINE B == {x \in Readers : walk[x].pc \in {"querying", "looking"}}
           C == {x \in Readers : walk'[x].pc \in {"querying", "looking"}}
<1>1. /\ q \in Readers /\ r \in WalkType /\ walk \in [Readers -> WalkType]
      /\ walk' = [walk EXCEPT ![q] = r] /\ queries \in 0..Workers /\ queries = Cardinality(B)
  BY DEF Walks, Walking, BulkheadExact
<1>2. /\ walk' \in [Readers -> WalkType] /\ walk'[q] = r
      /\ \A x \in Readers : x # q => walk'[x] = walk[x]
  BY <1>1
<1>3. IsFiniteSet(B) /\ Cardinality(B) \in Nat /\ Workers \in Nat
  BY QueryAssumption, FS_Subset, FS_CardinalityType
<1>4. queries' \in 0..Workers /\ queries' = Cardinality(C)
  <2>1. CASE ~Busy(walk[q]) /\ Busy(r) /\ queries < Workers /\ queries' = queries + 1
    <3>1. C = B \cup {q} /\ q \notin B BY <2>1, <1>1, <1>2 DEF Busy
    <3>2. Cardinality(B \cup {q}) = Cardinality(B) + 1 BY <3>1, <1>3, FS_AddElement
    <3>3. Cardinality(C) = queries' BY <3>1, <3>2, <2>1, <1>1
    <3> QED BY <3>3, <2>1, <1>1, <1>3
  <2>2. CASE Busy(walk[q]) /\ ~Busy(r) /\ queries' = queries - 1
    <3>1. C = B \ {q} /\ q \in B BY <2>2, <1>1, <1>2 DEF Busy
    <3>2. Cardinality(B \ {q}) = Cardinality(B) - 1 /\ Cardinality(B) # 0
      BY <3>1, <1>3, FS_RemoveElement, FS_EmptySet
    <3>3. Cardinality(C) = queries' BY <3>1, <3>2, <2>2, <1>1
    <3> QED BY <3>2, <3>3, <2>2, <1>1, <1>3
  <2>3. CASE ~Busy(walk[q]) /\ ~Busy(r) /\ queries' = queries
    <3>1. C = B BY <2>3, <1>1, <1>2 DEF Busy
    <3> QED BY <3>1, <2>3, <1>1
  <2> QED BY <2>1, <2>2, <2>3 DEF Walking
<1>5. ASSUME NEW x \in Readers PROVE Walked(walk[x])'
  <2>1. CASE x = q
    BY <2>1, <1>2 DEF Walked, Open, Matching, Sorted, Held, First, Encode, Key, FilterHash,
                      Beyond, Before
  <2>2. CASE x # q
    <3>1. PICK o \in WalkType : o = walk[x] BY <1>1
    <3>2. Walked(o)' BY <3>1, WalkGrows DEF Walks
    <3>3. walk'[x] = o BY <3>1, <2>2, <1>2
    <3> QED BY <3>2, <3>3 DEF Walked, Open, Matching, Sorted, Held, First, Encode, Key,
                               FilterHash, Beyond, Before
  <2> QED BY <2>1, <2>2
<1> QED BY <1>2, <1>4, <1>5 DEF Walks, BulkheadExact

LEMMA WalksKept == ASSUME Walks, Grown, UNCHANGED queryVars PROVE Walks'
<1>1. walk' = walk /\ queries' = queries BY DEF queryVars
<1>2. ASSUME NEW x \in Readers PROVE Walked(walk[x])'
  <2>1. PICK o \in WalkType : o = walk[x] BY DEF Walks
  <2>2. Walked(o)' BY <2>1, WalkGrows DEF Walks
  <2> QED BY <2>1, <2>2, <1>1 DEF Walked, Open, Matching, Sorted, Held, First, Encode, Key,
                               FilterHash, Beyond, Before
<1> QED BY <1>1, <1>2 DEF Walks, BulkheadExact

LEMMA WalkFacts ==
    ASSUME Walks, NEW q \in Readers
    PROVE  walk[q] \in WalkType /\ Walked(walk[q]) /\ queries \in Nat
  BY QueryAssumption DEF Walks

LEMMA QueryFailedStep ==
    ASSUME Walks, Grown, NEW q \in Readers, QueryFailed(q)
    PROVE  Walks'
<1>1. PICK o \in WalkType : o = walk[q] BY WalkFacts
<1>2. Walked(o) /\ o.pc \in {"querying", "looking"} /\ queries' = queries - 1
  BY <1>1, WalkFacts DEF QueryFailed, Released
<1> DEFINE r == [o EXCEPT !.pc = "failed"]
<1>3. walk' = [walk EXCEPT ![q] = r] BY <1>1 DEF QueryFailed
<1>4. r \in WalkType /\ r.pc = "failed" /\ r.filter = o.filter /\ r.seen = o.seen
  BY DEF WalkType
<1> HIDE DEF r
<1>5. Walked(r) BY <1>2, <1>4 DEF Walked
<1>6. Walked(r)' BY <1>4, <1>5, WalkGrows
<1>7. Walking(q, r) BY <1>1, <1>2, <1>3, <1>4 DEF Walking, Busy
<1> QED BY <1>6, <1>7, WalkStep

LEMMA LookUpStep ==
    ASSUME Walks, Grown, NEW q \in Readers, NEW s \in Requests, GetAuditEventById(q, s)
    PROVE  Walks'
<1>1. PICK o \in WalkType : o = walk[q] BY WalkFacts
<1> DEFINE ok == Authorized([s EXCEPT !.producers = {}]) /\ queries < Workers
           n == [o EXCEPT !.pc = IF ok THEN "looking" ELSE "refused", !.request = s]
<1>2. /\ Walked(o) /\ o.pc = "idle" /\ queries' = IF ok THEN queries + 1 ELSE queries
      /\ walk' = [walk EXCEPT ![q] = n] /\ ok \in BOOLEAN /\ (ok => queries < Workers)
  BY <1>1, WalkFacts DEF GetAuditEventById
<1> HIDE DEF ok
<1>7. PICK r : r = n OBVIOUS
<1>3. /\ r \in WalkType /\ r.filter = o.filter /\ r.seen = o.seen
      /\ r.pc = IF ok THEN "looking" ELSE "refused"
  BY <1>7 DEF WalkType
<1>8. walk' = [walk EXCEPT ![q] = r] BY <1>2, <1>7
<1> HIDE DEF n
<1>4. Walked(r) BY <1>2, <1>3 DEF Walked
<1>5. Walked(r)' BY <1>3, <1>4, WalkGrows
<1>6. Walking(q, r) BY <1>1, <1>2, <1>3, <1>8 DEF Walking, Busy
<1> QED BY <1>5, <1>6, WalkStep

LEMMA LookedUpStep ==
    ASSUME Walks, Grown, NEW q \in Readers, NEW i, LookedUp(q, i)
    PROVE  Walks'
<1>1. PICK o \in WalkType : o = walk[q] BY WalkFacts
<1>2. PICK f \in Seq(Events) : walk' = [walk EXCEPT ![q] = [o EXCEPT !.pc = "found", !.found = f]]
  <2> DEFINE hits == {e \in Events : e.id = i /\ rows[e] > 0 /\ NearItsId(e)}
  <2>1. \E f \in IF hits = {} THEN {<<>>} ELSE {<<e>> : e \in hits} :
          walk' = [walk EXCEPT ![q] = [o EXCEPT !.pc = "found", !.found = f]]
    BY <1>1 DEF LookedUp
  <2>2. \A f \in IF hits = {} THEN {<<>>} ELSE {<<e>> : e \in hits} : f \in Seq(Events)
    <3>1. hits \subseteq Events OBVIOUS
    <3> HIDE DEF hits
    <3>2. \A e \in hits : <<e>> \in Seq(Events) BY <3>1
    <3>3. <<>> \in Seq(Events) OBVIOUS
    <3> QED BY <3>2, <3>3
  <2> QED BY <2>1, <2>2
<1>3. Walked(o) /\ o.pc = "looking" /\ queries' = queries - 1
  BY <1>1, WalkFacts DEF LookedUp, Released
<1> DEFINE r == [o EXCEPT !.pc = "found", !.found = f]
<1>4. r \in WalkType /\ r.filter = o.filter /\ r.seen = o.seen /\ r.pc = "found"
  BY DEF WalkType
<1>5. walk' = [walk EXCEPT ![q] = r] BY <1>2
<1> HIDE DEF r
<1>6. Walked(r) BY <1>3, <1>4 DEF Walked
<1>7. Walked(r)' BY <1>4, <1>6, WalkGrows
<1>8. Walking(q, r) BY <1>1, <1>3, <1>4, <1>5 DEF Walking, Busy
<1> QED BY <1>7, <1>8, WalkStep

(* The filter of a request. *)
LEMMA NormalizedType ==
    ASSUME StoreTypeOK, NEW s \in Requests
    PROVE  Normalized(s) \in Filters /\ Normalized(s).desc = s.desc
<1>1. /\ s.producers \in SUBSET Nat /\ s.desc \in BOOLEAN
      /\ s.bounds = <<>> \/ s.bounds \in Int \X Int
  BY QueryAssumption
<1>2. clock \in Nat /\ DefaultSpan \in Nat
  BY EventsAssumption, QueryAssumption DEF StoreTypeOK
<1>3. clock - DefaultSpan \in Int /\ clock + 1 \in Int BY <1>2
<1>4. s.bounds # <<>> => s.bounds[1] \in Int /\ s.bounds[2] \in Int BY <1>1
<1> QED BY <1>1, <1>3, <1>4 DEF Normalized, Filters

LEMMA QueryStepOfWalk ==
    ASSUME Walks, StoreTypeOK, Grown, NEW q \in Readers, NEW s \in Requests, QueryAuditEvents(q, s)
    PROVE  Walks'
<1>1. PICK o \in WalkType : o = walk[q] BY WalkFacts
<1>2. PICK f \in Filters : f = Normalized(s) /\ f.desc = s.desc BY NormalizedType
<1> DEFINE first == o.pc = "idle"
           ok == /\ Authorized(s) /\ Acceptable(s)
                 /\ Decodes(o.token, f) /\ queries < Workers
           p == IF first THEN Matching(f, <<>>) ELSE o.present
           n == [o EXCEPT !.pc = IF ok THEN "querying" ELSE "refused",
                          !.request = s, !.filter = f, !.present = p]
<1>3. /\ Walked(o) /\ (first \/ (o.pc = "paged" /\ s = o.request))
      /\ queries' = IF ok THEN queries + 1 ELSE queries
      /\ walk' = [walk EXCEPT ![q] = n]
  BY <1>1, <1>2, WalkFacts DEF QueryAuditEvents
<1>4. ok \in BOOLEAN /\ (ok => queries < Workers) /\ (ok => Decodes(o.token, f)) OBVIOUS
<1>5. p \in SUBSET Events BY DEF WalkType, Matching
<1>6. first => p = Matching(f, <<>>) OBVIOUS
<1>7. ~first => p = o.present OBVIOUS
<1> HIDE DEF ok, p
<1>12. PICK r : r = n OBVIOUS
<1>13. walk' = [walk EXCEPT ![q] = r] BY <1>3, <1>12
<1>8. /\ r \in WalkType /\ r.filter = f /\ r.seen = o.seen /\ r.token = o.token
      /\ r.request = s /\ r.present = p
      /\ r.pc = IF ok THEN "querying" ELSE "refused"
  BY <1>5, <1>12 DEF WalkType
<1> HIDE DEF n
<1>9. Walked(r)
  <2>1. CASE first
    <3>1. o.seen = <<>> /\ o.token = <<>> BY <2>1, <1>3 DEF Walked
    <3>2. Sorted(r.filter, r.seen) BY <3>1, <1>8 DEF Sorted
    <3>3. r.pc = "querying" => Open(r) BY <3>1, <2>1, <1>2, <1>6, <1>8 DEF Open
    <3> QED BY <3>2, <3>3, <1>8 DEF Walked
  <2>2. CASE ~first
    <3>1. o.pc = "paged" /\ s = o.request /\ Open(o) /\ Sorted(o.filter, o.seen)
      BY <2>2, <1>3 DEF Walked
    <3>2. f.desc = o.filter.desc BY <3>1, <1>2 DEF Open
    <3>3. Sorted(f, o.seen) BY <3>1, <3>2 DEF Sorted, First
    <3>4. ok => f = o.filter
      <4> SUFFICES ASSUME ok PROVE f = o.filter OBVIOUS
      <4>1. PICK l : o.token = Encode(l, o.filter) BY <3>1 DEF Open
      <4>2. o.token # <<>> /\ o.token[1].hash = o.filter BY <4>1 DEF Encode, FilterHash
      <4> QED BY <4>2, <1>4 DEF Decodes, FilterHash
    <3>5. r.pc = "querying" => Open(r)
      <4> SUFFICES ASSUME ok PROVE Open(r) BY <1>8
      <4>1. f = o.filter BY <3>4
      <4>2. o.seen # <<>> /\ o.token = Encode(o.seen[Len(o.seen)], o.filter) BY <3>1 DEF Open
      <4>3. \A e \in o.present : Held(o.seen, e) \/ e \in Matching(f, o.token)
        BY <3>1, <4>1 DEF Open
      <4> QED BY <4>1, <4>2, <4>3, <2>2, <1>2, <1>7, <1>8 DEF Open
    <3> QED BY <3>3, <3>5, <1>8 DEF Walked
  <2> QED BY <2>1, <2>2
<1>10. Walked(r)' BY <1>8, <1>9, WalkGrows
<1>11. Walking(q, r)
  <2>1. ~Busy(o) BY <1>3 DEF Busy
  <2>2. ok => Busy(r) BY <1>8 DEF Busy
  <2>3. ~ok => ~Busy(r) BY <1>8 DEF Busy
  <2> QED BY <2>1, <2>2, <2>3, <1>1, <1>3, <1>4, <1>8, <1>13 DEF Walking
<1> QED BY <1>10, <1>11, WalkStep

(* The rows of a page follow the rows that were returned before.           *)
LEMMA PageFollows ==
    ASSUME NEW o \in WalkType, Walked(o), o.pc = "querying",
           NEW e \in Matching(o.filter, o.token), NEW j \in 1..Len(o.seen)
    PROVE  First(o.filter, o.seen[j], e)
<1>1. PICK f : f = o.filter OBVIOUS
<1>2. Open(o) /\ Sorted(f, o.seen) /\ o.seen \in Seq(Events) BY <1>1 DEF Walked, WalkType
<1>3. PICK s \in Seq(Events) : s = o.seen BY <1>2
<1>4. Len(s) \in Nat /\ Len(s) \in 1..Len(s) /\ s # <<>> BY <1>3
<1>5. PICK l \in Events : l = s[Len(s)] BY <1>4
<1>6. o.token = Encode(l, f) BY <1>1, <1>2, <1>3, <1>4, <1>5 DEF Open
<1>7. e \in Events /\ Beyond(f, o.token, e) BY <1>1, MatchingFacts
<1>8. First(f, l, e) BY <1>6, <1>7, CursorFacts
<1>9. CASE j = Len(s) BY <1>1, <1>3, <1>5, <1>8, <1>9
<1>10. CASE j # Len(s)
  <2>1. j \in 1..Len(s) /\ j < Len(s) BY <1>3, <1>4, <1>10
  <2>2. First(f, s[j], l) BY <2>1, <1>2, <1>3, <1>4, <1>5 DEF Sorted
  <2>3. s[j] \in Events BY <2>1
  <2>4. First(f, s[j], e) BY <2>2, <2>3, <1>7, <1>8, FirstFacts
  <2> QED BY <2>4, <1>1, <1>3
<1> QED BY <1>9, <1>10

(* The rows of a walk and the first n rows of its query. *)
Paged(o, s, n, all) ==
  /\ o \in WalkType /\ Walked(o) /\ o.pc = "querying"
  /\ s = BuildFilterQuery(o.filter, o.token)
  /\ n \in Nat /\ n <= Len(s) /\ all = o.seen \o SubSeq(s, 1, n)

(* What they add to a walk. *)
LEMMA PageAdds ==
    ASSUME NEW o, NEW s, NEW n, NEW all, Paged(o, s, n, all)
    PROVE  /\ all \in Seq(Events) /\ Sorted(o.filter, all)
           /\ \A e \in Events : Held(o.seen, e) => Held(all, e)
           /\ \A e \in Events : (\E k \in 1..n : s[k].id = e.id) => Held(all, e)
           /\ n >= 1 => all # <<>> /\ all[Len(all)] = s[n] /\ n \in 1..Len(s)
<1>1. PICK f : f = o.filter OBVIOUS
<1>2. /\ s \in Seq(Events) /\ Len(s) \in Nat /\ Sorted(f, s)
      /\ \A k \in 1..Len(s) : s[k] \in Matching(f, o.token)
  BY <1>1, QueryFacts DEF Paged
<1>3. PICK t : t = SubSeq(s, 1, n) OBVIOUS
<1>4. /\ t \in Seq(Events) /\ Len(t) = n
      /\ \A k \in 1..n : k \in 1..Len(s) /\ t[k] = s[k]
  BY <1>2, <1>3, PrefixFacts DEF Paged
<1>5. PICK u \in Seq(Events) : u = o.seen BY DEF Paged, WalkType
<1>15. all = u \o t /\ n \in Nat BY <1>3, <1>5 DEF Paged
<1>6. /\ all \in Seq(Events) /\ Len(all) = Len(u) + n /\ Len(u) \in Nat /\ n \in Nat
      /\ \A k \in 1..Len(u) : all[k] = u[k]
      /\ \A k \in 1..n : all[Len(u) + k] = t[k]
  <2>1. /\ u \o t \in Seq(Events) /\ Len(u \o t) = Len(u) + Len(t)
        /\ Len(u) \in Nat /\ Len(t) \in Nat
        /\ \A k \in 1..Len(u) : (u \o t)[k] = u[k]
        /\ \A k \in 1..Len(t) : (u \o t)[Len(u) + k] = t[k]
    <3>1. t \in Seq(Events) BY <1>4
    <3>2. u \o t \in Seq(Events) /\ Len(u \o t) = Len(u) + Len(t) BY <3>1, JoinedFacts
    <3>3. \A k \in 1..Len(u) : (u \o t)[k] = u[k] BY <3>1, JoinedFacts
    <3>4. \A k \in 1..Len(t) : (u \o t)[Len(u) + k] = t[k] BY <3>1, JoinedFacts
    <3> QED BY <3>1, <3>2, <3>3, <3>4
  <2> QED BY <2>1, <1>4, <1>15
<1>7. Sorted(f, u) /\ Sorted(f, t)
  <2>1. Sorted(f, u) BY <1>1, <1>5 DEF Walked, Paged
  <2>2. Sorted(f, t) BY <1>2, <1>4 DEF Sorted
  <2> QED BY <2>1, <2>2
<1>8. \A j \in 1..Len(u), k \in 1..Len(t) : First(f, u[j], t[k])
  <2> SUFFICES ASSUME NEW j \in 1..Len(u), NEW k \in 1..Len(t) PROVE First(f, u[j], t[k])
    OBVIOUS
  <2>1. t[k] \in Matching(o.filter, o.token) BY <1>1, <1>2, <1>4
  <2> QED BY <2>1, <1>1, <1>5, PageFollows DEF Paged
<1>9. Sorted(f, all) BY <1>4, <1>7, <1>8, <1>15, JoinedSorted
<1>10. \A k \in 1..Len(u) : k \in 1..Len(all) BY <1>6
<1>11. \A k \in 1..n : Len(u) + k \in 1..Len(all) BY <1>6
<1>12. \A e \in Events : Held(o.seen, e) => Held(all, e) BY <1>5, <1>6, <1>10 DEF Held
<1>13. \A e \in Events : (\E k \in 1..n : s[k].id = e.id) => Held(all, e)
  <2> SUFFICES ASSUME NEW e \in Events, NEW k \in 1..n, s[k].id = e.id PROVE Held(all, e)
    OBVIOUS
  <2>1. all[Len(u) + k].id = e.id BY <1>4, <1>6
  <2> QED BY <2>1, <1>11 DEF Held
<1>14. n >= 1 => all # <<>> /\ all[Len(all)] = s[n] /\ n \in 1..Len(s)
  <2> SUFFICES ASSUME n >= 1 PROVE all # <<>> /\ all[Len(all)] = s[n] /\ n \in 1..Len(s)
    OBVIOUS
  <2>1. n \in 1..n BY <1>6
  <2>2. all[Len(u) + n] = s[n] /\ n \in 1..Len(s) BY <2>1, <1>4, <1>6
  <2>3. Len(all) # 0 BY <1>6
  <2>4. all # <<>> BY <2>3
  <2> QED BY <2>2, <2>4, <1>6
<1> QED BY <1>1, <1>6, <1>9, <1>12, <1>13, <1>14

(* What is left of a query behind its n-th row. *)
LEMMA RestIsBeyond ==
    ASSUME NEW f, NEW token, NEW s, s = BuildFilterQuery(f, token),
           NEW n \in 1..Len(s), NEW e \in Matching(f, token)
    PROVE  \/ \E k \in 1..n : s[k].id = e.id
           \/ e \in Matching(f, Encode(s[n], f))
<1>1. /\ s \in Seq(Events) /\ Len(s) \in Nat /\ Sorted(f, s)
      /\ \A x \in Matching(f, token) : \E k \in 1..Len(s) :
           s[k].id = x.id /\ (s[k] = x \/ First(f, s[k], x))
  BY QueryFacts
<1>2. PICK k \in 1..Len(s) : s[k].id = e.id /\ (s[k] = e \/ First(f, s[k], e)) BY <1>1
<1>3. CASE k <= n BY <1>1, <1>2, <1>3
<1>4. CASE ~(k <= n)
  <2>1. n < k BY <1>1, <1>4
  <2>2. First(f, s[n], s[k]) BY <2>1, <1>1 DEF Sorted
  <2>3. s[n] \in Events /\ s[k] \in Events BY <1>1
  <2>4. e \in Events /\ e \in Matching(f, <<>>) BY MatchingFacts
  <2>5. First(f, s[n], e) BY <2>2, <2>3, <2>4, <1>2, FirstFacts
  <2>6. Beyond(f, Encode(s[n], f), e) BY <2>3, <2>4, <2>5, CursorFacts
  <2> QED BY <2>4, <2>6, MatchingFacts
<1> QED BY <1>3, <1>4

LEMMA PageSizeFacts == ASSUME NEW s \in Requests PROVE PageSize(s) \in Nat /\ PageSize(s) >= 1
<1>1. s.size \in Nat /\ DefaultPage \in Nat /\ DefaultPage >= 1 BY QueryAssumption
<1> QED BY <1>1 DEF PageSize

LEMMA PageReadStep ==
    ASSUME Walks, Grown, NEW q \in Readers, PageRead(q)
    PROVE  Walks'
<1>1. PICK o \in WalkType : o = walk[q] BY WalkFacts
<1>2. Walked(o) /\ o.pc = "querying" /\ Open(o) /\ queries' = queries - 1
  BY <1>1, WalkFacts DEF PageRead, Released, Walked
<1>3. PICK f \in Filters : f = o.filter BY <1>2 DEF Open
<1>4. PICK s : s = BuildFilterQuery(o.filter, o.token) OBVIOUS
<1>5. /\ s \in Seq(Events) /\ Len(s) \in Nat
      /\ \A e \in Matching(f, o.token) : \E k \in 1..Len(s) : s[k].id = e.id
  BY <1>3, <1>4, QueryFacts
<1>6. PICK m \in Nat : m = PageSize(o.request) /\ m >= 1 BY <1>2, PageSizeFacts DEF Open
<1>7. /\ o.present \in SUBSET Events
      /\ \A e \in o.present : Held(o.seen, e) \/ e \in Matching(f, o.token)
      /\ o.request \in Requests /\ f.desc = o.request.desc
  BY <1>2, <1>3 DEF Open, WalkType
<1>8. CASE Len(s) > m
  <2>1. m \in Nat /\ m <= Len(s) BY <1>5, <1>6, <1>8
  <2>2. PICK all : all = o.seen \o SubSeq(s, 1, m) OBVIOUS
  <2>3. /\ all \in Seq(Events) /\ Sorted(o.filter, all)
        /\ \A e \in Events : Held(o.seen, e) => Held(all, e)
        /\ \A e \in Events : (\E k \in 1..m : s[k].id = e.id) => Held(all, e)
        /\ all # <<>> /\ all[Len(all)] = s[m] /\ m \in 1..Len(s)
    <3>1. Paged(o, s, m, all) BY <2>1, <2>2, <1>2, <1>4 DEF Paged
    <3> QED BY <3>1, <1>6, PageAdds
  <2>4. PICK r : r = [o EXCEPT !.pc = "paged", !.seen = all, !.token = Encode(s[m], f)]
    OBVIOUS
  <2>5. walk' = [walk EXCEPT ![q] = r]
    BY <2>2, <2>4, <1>1, <1>3, <1>4, <1>6, <1>8 DEF PageRead, NextPage
  <2>6. Encode(s[m], f) \in Seq(TokenType)
    <3>1. Key(s[m]) \in Prints
      <4>1. s[m] \in Events BY <2>3, <1>5
      <4> QED BY <4>1, KeyFacts DEF Prints
    <3>2. PICK t \in TokenType : t = [key |-> Key(s[m]), hash |-> f] BY <3>1 DEF TokenType
    <3>3. Encode(s[m], f) = <<t>> BY <3>2 DEF Encode, FilterHash
    <3> QED BY <3>3
  <2>7. /\ r \in WalkType /\ r.pc = "paged" /\ r.seen = all /\ r.token = Encode(s[m], f)
        /\ r.filter = o.filter /\ r.request = o.request /\ r.present = o.present
    <3>1. PICK t \in Seq(TokenType) : t = Encode(s[m], f) BY <2>6
    <3>2. r = [o EXCEPT !.pc = "paged", !.seen = all, !.token = t] BY <3>1, <2>4
    <3> QED BY <3>1, <3>2, <2>3 DEF WalkType
  <2>8. ASSUME NEW e \in o.present PROVE Held(all, e) \/ e \in Matching(f, Encode(s[m], f))
    <3>1. e \in Events /\ (Held(o.seen, e) \/ e \in Matching(f, o.token)) BY <1>7
    <3>2. CASE Held(o.seen, e) BY <3>1, <3>2, <2>3
    <3>3. CASE e \in Matching(f, o.token)
      <4>1. \/ \E k \in 1..m : s[k].id = e.id
            \/ e \in Matching(f, Encode(s[m], f))
        BY <3>3, <2>3, <1>3, <1>4, RestIsBeyond
      <4> QED BY <4>1, <3>1, <2>3
    <3> QED BY <3>1, <3>2, <3>3
  <2>9. Open(r) BY <2>3, <2>7, <2>8, <1>3, <1>7 DEF Open
  <2>10. Walked(r) BY <2>3, <2>7, <2>9 DEF Walked
  <2>11. Walked(r)' BY <2>7, <2>10, WalkGrows
  <2>12. Walking(q, r) BY <2>5, <2>7, <1>1, <1>2 DEF Walking, Busy
  <2> QED BY <2>11, <2>12, WalkStep
<1>9. CASE ~(Len(s) > m)
  <2>1. PICK all : all = o.seen \o s OBVIOUS
  <2>2. SubSeq(s, 1, Len(s)) = s /\ Len(s) \in Nat /\ Len(s) <= Len(s) BY <1>5
  <2>3. PICK l \in Nat : l = Len(s) /\ l <= Len(s) /\ all = o.seen \o SubSeq(s, 1, l)
    BY <2>1, <2>2
  <2>4. /\ all \in Seq(Events) /\ Sorted(o.filter, all)
        /\ \A e \in Events : Held(o.seen, e) => Held(all, e)
        /\ \A e \in Events : (\E k \in 1..l : s[k].id = e.id) => Held(all, e)
    <3>1. Paged(o, s, l, all) BY <2>3, <1>2, <1>4 DEF Paged
    <3> QED BY <3>1, PageAdds
  <2>5. PICK r : r = [o EXCEPT !.pc = "done", !.seen = all, !.token = <<>>] OBVIOUS
  <2>6. walk' = [walk EXCEPT ![q] = r]
    BY <2>1, <2>5, <1>1, <1>4, <1>6, <1>9 DEF PageRead, NextPage
  <2>7. /\ r \in WalkType /\ r.pc = "done" /\ r.seen = all
        /\ r.filter = o.filter /\ r.present = o.present
    <3>1. <<>> \in Seq(TokenType) OBVIOUS
    <3> QED BY <3>1, <2>4, <2>5 DEF WalkType
  <2>8. ASSUME NEW e \in o.present PROVE Held(all, e) BY <2>3, <2>4, <1>5, <1>7
  <2>9. Walked(r) BY <2>4, <2>7, <2>8 DEF Walked
  <2>10. Walked(r)' BY <2>7, <2>9, WalkGrows
  <2>11. Walking(q, r) BY <2>6, <2>7, <1>1, <1>2 DEF Walking, Busy
  <2> QED BY <2>10, <2>11, WalkStep
<1> QED BY <1>8, <1>9

-----------------------------------------------------------------------------
LEMMA WalksStart == Init => Walks
<1> SUFFICES ASSUME Init PROVE Walks OBVIOUS
<1>1. queries = 0 /\ walk = [q \in Readers |-> Resting] BY DEF Init, QueryInit
<1>2. Resting \in WalkType
  <2>1. <<>> \in Seq(Events) /\ <<>> \in Seq(TokenType) /\ {} \in SUBSET Events OBVIOUS
  <2> QED BY <2>1 DEF Resting, WalkType
<1>3. Walked(Resting) BY DEF Walked, Resting, Sorted
<1>4. BulkheadExact
  <2>1. {q \in Readers : walk[q].pc \in {"querying", "looking"}} = {} BY <1>1 DEF Resting
  <2> QED BY <2>1, <1>1, FS_EmptySet DEF BulkheadExact
<1> QED BY <1>1, <1>2, <1>3, <1>4, QueryAssumption DEF Walks

LEMMA WalksNext ==
    ASSUME StoreTypeOK, Pipeline, Ingestion, Walks, [Next]_vars
    PROVE  Walks'
<1>1. Grown BY StoreNext DEF Ingestion
<1>2. CASE UNCHANGED queryVars BY <1>1, <1>2, WalksKept
<1>3. CASE QueryStep
  <2>1. PICK q \in Readers :
          \/ \E r \in Requests : QueryAuditEvents(q, r) \/ GetAuditEventById(q, r)
          \/ PageRead(q) \/ QueryFailed(q)
          \/ \E i \in Ids : LookedUp(q, i)
    BY <1>3 DEF QueryStep
  <2>2. CASE \E r \in Requests : QueryAuditEvents(q, r) BY <2>2, <1>1, QueryStepOfWalk
  <2>3. CASE \E r \in Requests : GetAuditEventById(q, r) BY <2>3, <1>1, LookUpStep
  <2>4. CASE PageRead(q) BY <2>4, <1>1, PageReadStep
  <2>5. CASE QueryFailed(q) BY <2>5, <1>1, QueryFailedStep
  <2>6. CASE \E i \in Ids : LookedUp(q, i) BY <2>6, <1>1, LookedUpStep
  <2> QED BY <2>1, <2>2, <2>3, <2>4, <2>5, <2>6
<1>4. UNCHANGED queryVars \/ QueryStep
  BY DEF Next, vars, StoreStep, PipelineStep, IngestionStep, StopServer, Exited
<1> QED BY <1>2, <1>3, <1>4

LEMMA WalksAreExact == Walks => QueriesExact
<1> SUFFICES ASSUME Walks PROVE QueriesExact OBVIOUS
<1>1. BulkheadExact BY DEF Walks
<1>2. WalkInOrder BY DEF Walks, Walked, Sorted, WalkInOrder
<1>3. WalkComplete BY DEF Walks, Walked, Held, WalkComplete
<1> QED BY <1>1, <1>2, <1>3 DEF QueriesExact

LEMMA TypesHold == Inv => TypeOK
<1> SUFFICES ASSUME Inv PROVE TypeOK OBVIOUS
<1>1. StoreTypeOK BY DEF Inv
<1>2. IngestionTypeOK
  <2>1. IngestionTyped /\ Remembered BY DEF Inv, Ingestion
  <2>2. \A i \in Ids : \A r \in inflight[i] : r.owner \in Calls BY <2>1 DEF IngestionTyped
  <2>3. IsInjective([k \in 1..Len(committed) |-> committed[k].id])
    BY <2>1 DEF Remembered, Once, IsInjective
  <2>4. \A c \in Calls : call[c].results \subseteq Events \X Outcomes
    BY <2>1 DEF IngestionTyped, CallType
  <2> QED BY <2>1, <2>2, <2>3, <2>4 DEF IngestionTypeOK, IngestionTyped, Remembered
<1>3. PipelineTypeOK
  <2>1. PipelineTyped /\ Limited BY DEF Inv, Pipeline
  <2>2. \A p \in Envelopes : env[p].done \in Nat BY <2>1 DEF PipelineTyped, EnvType
  <2> QED BY <2>1, <2>2 DEF PipelineTypeOK, PipelineTyped, Limited
<1>4. QueryTypeOK BY DEF Inv, Walks, WalkType, QueryTypeOK
<1> QED BY <1>1, <1>2, <1>3, <1>4 DEF TypeOK

LEMMA InvStarts == Init => Inv
  BY IngestionStarts, PipelineStarts, WalksStart DEF Inv

LEMMA InvNext == Inv /\ [Next]_vars => Inv'
<1> SUFFICES ASSUME Inv, [Next]_vars PROVE Inv' OBVIOUS
<1>1. StoreTypeOK /\ Pipeline /\ Ingestion /\ IngestionTyped /\ Delivered /\ Walks
  BY DEF Inv, Ingestion
<1>2. StoreTypeOK' /\ Pipeline' BY <1>1, StoreNext, PipelineNext
<1>3. Ingestion' /\ Delivered' /\ Walks' BY <1>1, IngestionNext, DeliveredNext, WalksNext
<1> QED BY <1>2, <1>3 DEF Inv

(* An acknowledged event is in the table with its contents: a producer that*)
(* drops it from its outbox loses nothing, whichever call wrote the row,   *)
(* and an envelope that the insert worker completed with success is stored.*)
THEOREM AcknowledgedIsStored == Spec => []AckedIsStored
<1>1. Inv => AckedIsStored BY AcknowledgedIsInTable DEF Inv
<1> QED BY <1>1, InvStarts, InvNext, PTL DEF Spec

(* The deduplication cache, with any number of calls and any batches: the  *)
(* state keeps its types and limits, two calls never insert one id at once,*)
(* and a reservation belongs to a call that is going to resolve it, or to a*)
(* batch whose insert threw.                                               *)
THEOREM SubmissionsAreDeduplicated == Spec => []Deduplicated
<1>1. Inv => Deduplicated BY TypesHold, ReservationsAreOwned DEF Inv, Deduplicated
<1> QED BY <1>1, InvStarts, InvNext, PTL DEF Spec

(* A walk over the pages of a query, while inserts go on, returns its rows *)
(* in order and no row twice, has every id that matched when it began once *)
(* its last page is read, and holds a slot of the bulkhead exactly while a *)
(* page of it is read.                                                     *)
THEOREM WalksStayExact == Spec => []QueriesExact
<1>1. Inv => QueriesExact BY WalksAreExact DEF Inv
<1> QED BY <1>1, InvStarts, InvNext, PTL DEF Spec
=============================================================================
