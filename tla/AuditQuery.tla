----------------------------- MODULE AuditQuery -------------------------------
(***************************************************************************)
(* AuditQueryServiceImpl over AuditQueryApplicationService: queries that   *)
(* page through the table with a keyset cursor while it grows, and lookups *)
(* of one event, behind a bulkhead of concurrent queries.                  *)
(*                                                                         *)
(* A reader walks: it asks for the first page of a filter and follows the  *)
(* page tokens with the same request.                                      *)
(***************************************************************************)
EXTENDS AuditStore

CONSTANTS
  Readers,       \* clients, each on one walk or lookup
  Requests,      \* records [peer, producers, desc, bounds, size]
  Workers,       \* slots of the query bulkhead
  DefaultSpan,   \* default_time_window_hours
  MaxSpan,       \* max_time_window_hours
  DefaultPage, MaxPage,
  Skew           \* ten minutes: how far a lookup strays from the id's time

ASSUME QueryAssumption ==
  /\ Workers \in Nat \ {0} /\ DefaultSpan \in Nat \ {0} /\ MaxSpan \in Nat
  /\ MaxPage \in Nat /\ DefaultPage \in 1..MaxPage /\ Skew \in Nat
  /\ IsFiniteSet(Readers)
  /\ Requests \subseteq [peer : Nat, producers : SUBSET Nat, desc : BOOLEAN,
                          bounds : {<<>>} \cup (Int \X Int), size : Nat]

VARIABLES
  queries,       \* active_queries_ of the bulkhead
  walk           \* [Readers -> state of its walk]

queryVars == <<queries, walk>>

Resting == [pc |-> "idle", request |-> <<>>, filter |-> <<>>, token |-> <<>>,
            seen |-> <<>>, present |-> {}, found |-> <<>>]

QueryInit ==
  /\ queries = 0
  /\ walk = [q \in Readers |-> Resting]

-----------------------------------------------------------------------------
(* AuditQueryAuthorizer::authorize_query: the audit service reads          *)
(* everything, every other service only what it produced itself.  The      *)
(* gateway is held to exactly that one filter.                             *)
Authorized(r) == r.peer = Audit \/ r.producers = {r.peer}

(* AuditQueryValidator::validate_and_normalize: a missing window becomes   *)
(* the default one, which ends a little after the present; a page size of  *)
(* zero becomes the default.                                               *)
Normalized(r) ==
  [producers |-> r.producers, desc |-> r.desc,
   from |-> IF r.bounds = <<>> THEN clock - DefaultSpan ELSE r.bounds[1],
   to |-> IF r.bounds = <<>> THEN clock + 1 ELSE r.bounds[2]]

PageSize(r) == IF r.size = 0 THEN DefaultPage ELSE r.size

Acceptable(r) ==
  LET f == Normalized(r)
  IN f.from < f.to /\ f.to - f.from <= MaxSpan /\ r.size <= MaxPage

(* compute_filter_hash: window, producers and order, not the page size.    *)
FilterHash(f) == f

(* The position of an event in the order of the table. *)
Key(e) == <<e.at, e.producer, e.id>>

(* A page token holds the key of the last row and the hash of its filter;  *)
(* it is refused with any other filter.                                    *)
Encode(e, f) == <<[key |-> Key(e), hash |-> FilterHash(f)]>>
Decodes(token, f) == token = <<>> \/ token[1].hash = FilterHash(f)
Before(a, b) ==
  \/ a[1] < b[1]
  \/ a[1] = b[1] /\ a[2] < b[2]
  \/ a[1] = b[1] /\ a[2] = b[2] /\ a[3] < b[3]

(* A mutant of Beyond: the row the cursor names is part of the next page.  *)
BeyondOrAt(f, token, e) ==
  \/ token = <<>> \/ Key(e) = token[1].key
  \/ f.desc /\ Before(Key(e), token[1].key)
  \/ ~f.desc /\ Before(token[1].key, Key(e))

(* The keyset predicate of build_filter_query. *)
Beyond(f, token, e) ==
  \/ token = <<>>
  \/ f.desc /\ Before(Key(e), token[1].key)
  \/ ~f.desc /\ Before(token[1].key, Key(e))

(* WHERE, ORDER BY and LIMIT 1 BY event_id: of an id that is stored more   *)
(* than once the first row in the order of the query stays.                *)
Matching(f, token) ==
  {e \in Events : /\ rows[e] > 0
                  /\ e.at >= f.from /\ e.at < f.to
                  /\ f.producers # {} => e.producer \in f.producers
                  /\ Beyond(f, token, e)}

First(f, a, b) == IF f.desc THEN Before(Key(b), Key(a)) ELSE Before(Key(a), Key(b))

(* A finite set of events in the order of a query: an event stands behind  *)
(* as many as come before it.                                              *)
InOrder(f, S) ==
  [k \in 1..Cardinality(S) |->
     CHOOSE e \in S : Cardinality({o \in S : First(f, o, e)}) = k - 1]

FirstOfItsId(f, m) ==
  {e \in m : \A o \in m : o.id = e.id /\ o # e => First(f, e, o)}

BuildFilterQuery(f, token) == InOrder(f, FirstOfItsId(f, Matching(f, token)))

(* One row more than the page is fetched; if it is there, the page ends    *)
(* with a cursor on its own last row.                                      *)
NextPage(found, size) ==
  IF Len(found) > size
  THEN [events |-> SubSeq(found, 1, size), more |-> TRUE, last |-> found[size]]
  ELSE [events |-> found, more |-> FALSE, last |-> <<>>]

-----------------------------------------------------------------------------
(* The lease ends with the call, whatever its outcome. *)
Released == queries - 1

(* QueryAuditEvents up to the bulkhead: refused callers, filters, tokens   *)
(* and a full bulkhead end the walk with an error.                         *)
QueryAuditEvents(q, r) ==
  LET f == Normalized(r)
      first == walk[q].pc = "idle"
      ok == /\ Authorized(r) /\ Acceptable(r)
            /\ Decodes(walk[q].token, f) /\ queries < Workers
  IN /\ \/ first
        \/ walk[q].pc = "paged" /\ r = walk[q].request
     /\ queries' = IF ok THEN queries + 1 ELSE queries
     /\ walk' = [walk EXCEPT ![q] =
          [walk[q] EXCEPT !.pc = IF ok THEN "querying" ELSE "refused",
             !.request = r, !.filter = f,
             !.present = IF first THEN Matching(f, <<>>) ELSE @]]

(* execute_paged_query and the page that is made of its answer. *)
PageRead(q) ==
  LET f == walk[q].filter
      page == NextPage(BuildFilterQuery(f, walk[q].token), PageSize(walk[q].request))
  IN /\ walk[q].pc = "querying"
     /\ queries' = Released
     /\ walk' = [walk EXCEPT ![q] =
          [walk[q] EXCEPT !.pc = IF page.more THEN "paged" ELSE "done",
             !.seen = @ \o page.events,
             !.token = IF page.more THEN Encode(page.last, f) ELSE <<>>]]

(* The repository throws; the handler turns it into a status. *)
QueryFailed(q) ==
  /\ walk[q].pc \in {"querying", "looking"}
  /\ queries' = Released
  /\ walk' = [walk EXCEPT ![q].pc = "failed"]

(* GetAuditEventById: authorised like a query without a filter, so only    *)
(* the audit service passes.                                               *)
GetAuditEventById(q, r) ==
  LET ok == Authorized([r EXCEPT !.producers = {}]) /\ queries < Workers
  IN /\ walk[q].pc = "idle"
     /\ queries' = IF ok THEN queries + 1 ELSE queries
     /\ walk' = [walk EXCEPT ![q] =
          [walk[q] EXCEPT !.pc = IF ok THEN "looking" ELSE "refused", !.request = r]]

(* build_get_by_id_query looks only near the time the id was made at; an   *)
(* event that occurred long before is stored but not found.                *)
NearItsId(e) == e.at - e.id \in -Skew..Skew

LookedUp(q, i) ==
  LET hits == {e \in Events : e.id = i /\ rows[e] > 0 /\ NearItsId(e)}
  IN /\ walk[q].pc = "looking"
     /\ queries' = Released
     /\ \E f \in IF hits = {} THEN {<<>>} ELSE {<<e>> : e \in hits} :
          walk' = [walk EXCEPT ![q] = [walk[q] EXCEPT !.pc = "found", !.found = f]]

QueryTypeOK ==
  /\ queries \in 0..Workers
  /\ \A q \in Readers : /\ walk[q].seen \in Seq(Events)
                        /\ walk[q].present \subseteq Events
=============================================================================
