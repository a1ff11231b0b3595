--------------------------- MODULE MessagingProofs ---------------------------
(***************************************************************************)
(* Proofs about the RPC front of the messaging service, for any users,     *)
(* devices, calls, workloads, pools and limits.                            *)
(***************************************************************************)
EXTENDS MessagingService, FiniteSetTheorems, WellFoundedInduction, TLAPS

-----------------------------------------------------------------------------
(***************************************************************************)
(* Numbers, checks and status codes                                        *)
(***************************************************************************)

\* A set of natural numbers that is not empty has a smallest element.
LEMMA SmallestOf ==
  ASSUME NEW S, S \subseteq Nat, S # {}
  PROVE  Min(S) \in S /\ \A x \in S : Min(S) <= x
<1> DEFINE R == OpToRel(<, Nat)
<1>1. R = {p \in Nat \X Nat : p[1] < p[2]} BY Zenon DEF OpToRel
<1>2. PICK m \in S : \A n \in S : ~ (<<n, m>> \in R) BY WFMin, NatLessThanWellFounded
<1> HIDE DEF R
<1>3. ASSUME NEW n \in S PROVE m <= n
  <2>1. ~ (<<n, m>> \in {p \in Nat \X Nat : p[1] < p[2]}) BY <1>1, <1>2
  <2>2. m \in Nat /\ n \in Nat OBVIOUS
  <2>3. <<n, m>> \in Nat \X Nat BY <2>2
  <2>4. ~ (n < m) BY <2>1, <2>3
  <2> QED BY <2>2, <2>4
<1> QED BY <1>2, <1>3 DEF Min

\* No check fails exactly if each one passes, and what fails is one of them.
LEMMA FirstErrorIs ==
  ASSUME NEW n \in Nat, NEW checks, DOMAIN checks = 1..n
  PROVE  /\ FirstError(checks) = "OK" <=> \A i \in 1..n : checks[i] = "OK"
         /\ FirstError(checks) # "OK" => \E i \in 1..n : FirstError(checks) = checks[i]
<1> DEFINE failed == {i \in DOMAIN checks : checks[i] # "OK"}
<1>1. CASE failed = {} BY <1>1 DEF FirstError
<1>2. CASE failed # {}
  <2>1. failed \subseteq Nat /\ failed \subseteq 1..n OBVIOUS
  <2>2. Min(failed) \in failed
    <3> HIDE DEF failed
    <3> QED BY <1>2, <2>1, SmallestOf
  <2>3. FirstError(checks) = checks[Min(failed)] BY <1>2 DEF FirstError
  <2>4. checks[Min(failed)] # "OK" /\ Min(failed) \in 1..n BY <2>2
  <2> QED BY <2>3, <2>4
<1> QED BY <1>1, <1>2

\* The same for the lengths that occur.
LEMMA FirstErrorOf2 ==
  ASSUME NEW a, NEW b
  PROVE  /\ FirstError(<<a, b>>) = "OK" <=> a = "OK" /\ b = "OK"
         /\ FirstError(<<a, b>>) \in {"OK", a, b}
<1> DEFINE s == <<a, b>>
<1>1. DOMAIN s = 1..2 /\ s[1] = a /\ s[2] = b OBVIOUS
<1>2. \A i \in 1..2 : i = 1 \/ i = 2 OBVIOUS
<1> HIDE DEF s
<1>3. /\ FirstError(s) = "OK" <=> \A i \in 1..2 : s[i] = "OK"
      /\ FirstError(s) # "OK" => \E i \in 1..2 : FirstError(s) = s[i]
  BY <1>1, FirstErrorIs
<1>4. FirstError(s) = "OK" <=> a = "OK" /\ b = "OK" BY <1>1, <1>2, <1>3
<1>5. FirstError(s) \in {"OK", a, b} BY <1>1, <1>2, <1>3
<1> QED BY <1>4, <1>5 DEF s

LEMMA FirstErrorOf3 ==
  ASSUME NEW a, NEW b, NEW e
  PROVE  /\ FirstError(<<a, b, e>>) = "OK" <=> a = "OK" /\ b = "OK" /\ e = "OK"
         /\ FirstError(<<a, b, e>>) \in {"OK", a, b, e}
<1> DEFINE s == <<a, b, e>>
<1>1. DOMAIN s = 1..3 /\ s[1] = a /\ s[2] = b /\ s[3] = e OBVIOUS
<1>2. \A i \in 1..3 : i = 1 \/ i = 2 \/ i = 3 OBVIOUS
<1> HIDE DEF s
<1>3. /\ FirstError(s) = "OK" <=> \A i \in 1..3 : s[i] = "OK"
      /\ FirstError(s) # "OK" => \E i \in 1..3 : FirstError(s) = s[i]
  BY <1>1, FirstErrorIs
<1>4. FirstError(s) = "OK" <=> a = "OK" /\ b = "OK" /\ e = "OK" BY <1>1, <1>2, <1>3
<1>5. FirstError(s) \in {"OK", a, b, e} BY <1>1, <1>2, <1>3
<1> QED BY <1>4, <1>5 DEF s

LEMMA FirstErrorOf4 ==
  ASSUME NEW a, NEW b, NEW e, NEW f
  PROVE  /\ FirstError(<<a, b, e, f>>) = "OK" <=> a = "OK" /\ b = "OK" /\ e = "OK" /\ f = "OK"
         /\ FirstError(<<a, b, e, f>>) \in {"OK", a, b, e, f}
<1> DEFINE s == <<a, b, e, f>>
<1>1. DOMAIN s = 1..4 /\ s[1] = a /\ s[2] = b /\ s[3] = e /\ s[4] = f OBVIOUS
<1>2. \A i \in 1..4 : i = 1 \/ i = 2 \/ i = 3 \/ i = 4 OBVIOUS
<1> HIDE DEF s
<1>3. /\ FirstError(s) = "OK" <=> \A i \in 1..4 : s[i] = "OK"
      /\ FirstError(s) # "OK" => \E i \in 1..4 : FirstError(s) = s[i]
  BY <1>1, FirstErrorIs
<1>4. FirstError(s) = "OK" <=> a = "OK" /\ b = "OK" /\ e = "OK" /\ f = "OK"
  BY <1>1, <1>2, <1>3
<1>5. FirstError(s) \in {"OK", a, b, e, f} BY <1>1, <1>2, <1>3
<1> QED BY <1>4, <1>5 DEF s

LEMMA FirstErrorOf5 ==
  ASSUME NEW a, NEW b, NEW e, NEW f, NEW g
  PROVE  /\ FirstError(<<a, b, e, f, g>>) = "OK" <=> a = "OK" /\ b = "OK" /\ e = "OK" /\ f = "OK" /\ g = "OK"
         /\ FirstError(<<a, b, e, f, g>>) \in {"OK", a, b, e, f, g}
<1> DEFINE s == <<a, b, e, f, g>>
<1>1. DOMAIN s = 1..5 /\ s[1] = a /\ s[2] = b /\ s[3] = e /\ s[4] = f /\ s[5] = g OBVIOUS
<1>2. \A i \in 1..5 : i = 1 \/ i = 2 \/ i = 3 \/ i = 4 \/ i = 5 OBVIOUS
<1> HIDE DEF s
<1>3. /\ FirstError(s) = "OK" <=> \A i \in 1..5 : s[i] = "OK"
      /\ FirstError(s) # "OK" => \E i \in 1..5 : FirstError(s) = s[i]
  BY <1>1, FirstErrorIs
<1>4. FirstError(s) = "OK" <=> a = "OK" /\ b = "OK" /\ e = "OK" /\ f = "OK" /\ g = "OK"
  BY <1>1, <1>2, <1>3
<1>5. FirstError(s) \in {"OK", a, b, e, f, g} BY <1>1, <1>2, <1>3
<1> QED BY <1>4, <1>5 DEF s

LEMMA FirstErrorOf6 ==
  ASSUME NEW a, NEW b, NEW e, NEW f, NEW g, NEW h
  PROVE  /\ FirstError(<<a, b, e, f, g, h>>) = "OK" <=> a = "OK" /\ b = "OK" /\ e = "OK" /\ f = "OK" /\ g = "OK" /\ h = "OK"
         /\ FirstError(<<a, b, e, f, g, h>>) \in {"OK", a, b, e, f, g, h}
<1> DEFINE s == <<a, b, e, f, g, h>>
<1>1. DOMAIN s = 1..6 /\ s[1] = a /\ s[2] = b /\ s[3] = e /\ s[4] = f /\ s[5] = g /\ s[6] = h
  OBVIOUS
<1>2. \A i \in 1..6 : i = 1 \/ i = 2 \/ i = 3 \/ i = 4 \/ i = 5 \/ i = 6 OBVIOUS
<1> HIDE DEF s
<1>3. /\ FirstError(s) = "OK" <=> \A i \in 1..6 : s[i] = "OK"
      /\ FirstError(s) # "OK" => \E i \in 1..6 : FirstError(s) = s[i]
  BY <1>1, FirstErrorIs
<1>4. FirstError(s) = "OK" <=> a = "OK" /\ b = "OK" /\ e = "OK" /\ f = "OK" /\ g = "OK" /\ h = "OK"
  BY <1>1, <1>2, <1>3
<1>5. FirstError(s) \in {"OK", a, b, e, f, g, h} BY <1>1, <1>2, <1>3
<1> QED BY <1>4, <1>5 DEF s

\* Only success is answered OK, and every answer is one.
LEMMA StatusOf ==
  ASSUME NEW e, e # "none"
  PROVE  ToGrpcStatus(e) # "none" /\ (ToGrpcStatus(e) = "OK" <=> e = "OK")
  BY DEF ToGrpcStatus

-----------------------------------------------------------------------------
(***************************************************************************)
(* Calls                                                                   *)
(***************************************************************************)
Fields == {"req", "pc", "task", "at", "todo", "conv", "users", "dir", "asked", "seq",
           "month", "page", "more", "shown", "res", "answer", "rivals", "before"}

\* A call has these fields and no other.
Shaped(x) == x = [f \in Fields |-> x[f]]

\* The calls x and y differ in their rivals at most.
Same(x, y) ==
  /\ y.req = x.req /\ y.pc = x.pc /\ y.task = x.task /\ y.at = x.at /\ y.todo = x.todo
  /\ y.conv = x.conv /\ y.users = x.users /\ y.dir = x.dir /\ y.asked = x.asked
  /\ y.seq = x.seq /\ y.month = x.month /\ y.page = x.page /\ y.more = x.more
  /\ y.shown = x.shown /\ y.res = x.res /\ y.answer = x.answer /\ y.before = x.before

\* Every call has its shape.
CallsShaped == call = [c \in Calls |-> call[c]] /\ \A c \in Calls : Shaped(call[c])

\* A step leaves the calls other than c alone.
Apart(c) == \A d \in Calls : d # c => Same(call[d], call'[d])

LEMMA UnusedShaped == Shaped(Unused)
  BY DEF Shaped, Fields, Unused

LEMMA GoesShaped ==
  ASSUME CallsShaped, NEW c \in Calls, NEW x, Shaped(x), Goes(c, x)
  PROVE  /\ CallsShaped' /\ Apart(c) /\ call'[c] = x
         /\ \A d \in Calls : d # c => call'[d] = call[d]
<1>1. call' = [call EXCEPT ![c] = x] BY DEF Goes
<1>2. call'[c] = x /\ \A d \in Calls : d # c => call'[d] = call[d] BY <1>1 DEF CallsShaped
<1>3. CallsShaped' BY <1>1, <1>2 DEF CallsShaped
<1>4. Apart(c) BY <1>2 DEF Apart, Same
<1> QED BY <1>2, <1>3, <1>4

\* A call that arrives: the others only learn of it.
Arrived(c, r) ==
  /\ phase = "serving" /\ call[c].pc = "idle" /\ r \in load.requests
  /\ load' = [load EXCEPT !.requests = @ \ {r}] /\ UNCHANGED <<clock, faults, phase>>
  /\ CallsShaped' /\ Apart(c)
  /\ \A d \in Calls : d # c =>
       call'[d].rivals = IF InFlight(d) THEN call[d].rivals \cup {c} ELSE call[d].rivals

InFlights == {d \in Calls : InFlight(d)}

Refusal(r, error) ==
  [Unused EXCEPT !.req = r, !.pc = "done", !.answer = ToGrpcStatus(error)]

LEMMA BeginArrives ==
  ASSUME CallsShaped, NEW c \in Calls, NEW r, NEW rpc, NEW error, NEW x, Shaped(x),
         Arrives(c, r, rpc), Begin(c, r, error, x)
  PROVE  /\ Arrived(c, r) /\ r.rpc = rpc
         /\ error = "OK" =>
              call'[c] = [x EXCEPT !.req = r, !.rivals = InFlights]
         /\ error # "OK" => call'[c] = Refusal(r, error)
<1> DEFINE others == InFlights
           met == [d \in Calls |->
              IF d \in others THEN [call[d] EXCEPT !.rivals = @ \cup {c}] ELSE call[d]]
           new == IF error = "OK" THEN [x EXCEPT !.req = r, !.rivals = others]
                  ELSE Refusal(r, error)
<1>1. call' = [met EXCEPT ![c] = new] BY DEF Begin, Refusal, InFlights
<1>2. call'[c] = new BY <1>1
<1>3. call' = [d \in Calls |-> call'[d]] BY <1>1
<1>4. Shaped(new)
  <2>1. Shaped([x EXCEPT !.req = r, !.rivals = others]) BY DEF Shaped, Fields
  <2>2. Shaped(Refusal(r, error)) BY UnusedShaped DEF Refusal, Shaped, Fields
  <2> QED BY <2>1, <2>2
<1>5. ASSUME NEW d \in Calls, d # c
      PROVE  /\ Shaped(call'[d]) /\ Same(call[d], call'[d])
             /\ call'[d].rivals = IF InFlight(d) THEN call[d].rivals \cup {c}
                                  ELSE call[d].rivals
  <2>1. call'[d] = IF InFlight(d) THEN [call[d] EXCEPT !.rivals = @ \cup {c}] ELSE call[d]
    BY <1>1, <1>5 DEF InFlights
  <2>2. Shaped(call[d]) BY DEF CallsShaped
  <2>3. CASE InFlight(d) BY <2>1, <2>2, <2>3 DEF Shaped, Fields, Same
  <2>4. CASE ~InFlight(d) BY <2>1, <2>2, <2>4 DEF Same
  <2> QED BY <2>3, <2>4
<1>6. CallsShaped' /\ Apart(c) BY <1>2, <1>3, <1>4, <1>5 DEF CallsShaped, Apart
<1>7. /\ phase = "serving" /\ call[c].pc = "idle" /\ r \in load.requests /\ r.rpc = rpc
      /\ load' = [load EXCEPT !.requests = @ \ {r}] /\ UNCHANGED <<clock, faults, phase>>
  BY DEF Begin, Arrives
<1> QED BY <1>2, <1>5, <1>6, <1>7 DEF Arrived

-----------------------------------------------------------------------------
(***************************************************************************)
(* What arrives                                                            *)
(***************************************************************************)

\* A call that has done nothing yet.
Fresh(x) ==
  /\ x.task = "none" /\ x.dir = <<>> /\ x.asked = None /\ x.seq = 0 /\ x.month = 0
  /\ x.page = {} /\ x.more = FALSE /\ x.res = "OK"

\* A call that was refused.
Refused(x, r) ==
  /\ Fresh(x) /\ x.req = r /\ x.pc = "done" /\ x.answer \notin {"OK", "none"}
  /\ x.at = 0 /\ x.todo = <<>> /\ x.conv = None /\ x.users = {} /\ x.shown = {}
  /\ x.before = {} /\ x.rivals = {}

\* A call that was accepted with nothing done yet.
Accepted(x, r, rivals) ==
  Fresh(x) /\ x.req = r /\ x.rivals = rivals /\ (x.answer = "none" <=> x.pc # "done")

LEMMA RefusalRefused ==
  ASSUME NEW r, NEW e, e \notin {"OK", "none"}
  PROVE  Refused(Refusal(r, e), r)
  BY StatusOf DEF Refused, Refusal, Fresh, Unused

\* A handler that begins either refuses or goes on with x.
LEMMA Begins ==
  ASSUME CallsShaped, NEW c \in Calls, NEW r, NEW rpc, NEW error, NEW x, Shaped(x),
         Arrives(c, r, rpc), Begin(c, r, error, x), error # "none"
  PROVE  /\ Arrived(c, r) /\ r.rpc = rpc
         /\ \/ error # "OK" /\ Refused(call'[c], r)
            \/ error = "OK" /\ call'[c] = [x EXCEPT !.req = r, !.rivals = InFlights]
<1>1. /\ Arrived(c, r) /\ r.rpc = rpc
      /\ error = "OK" => call'[c] = [x EXCEPT !.req = r, !.rivals = InFlights]
      /\ error # "OK" => call'[c] = Refusal(r, error)
  BY BeginArrives
<1> QED BY <1>1, RefusalRefused

LEMMA RejectIs ==
  ASSUME NEW condition, NEW error
  PROVE  (condition => Reject(condition, error) = error)
         /\ (~condition => Reject(condition, error) = "OK")
  BY DEF Reject

LEMMA CheckDeadlineIs ==
  ASSUME NEW r
  PROVE  CheckDeadline(r) # "none"
  BY FirstErrorOf2 DEF CheckDeadline, Reject

LEMMA ValidateCallerIs ==
  ASSUME NEW r
  PROVE  /\ ValidateCaller(r) # "none" /\ (ValidateCaller(r) = "OK" => r.user # None)
         /\ ValidateCallerInline(r) # "none" /\ (ValidateCallerInline(r) = "OK" => r.user # None)
  BY DEF ValidateCaller, ValidateCallerInline

LEMMA ParsedIs ==
  ASSUME NEW r
  PROVE  /\ OtherDevice(r) # "none" /\ NoDevice(r) # "none" /\ NoConversation(r) # "none"
         /\ NoMessage(r) # "none"
         /\ NoDevice(r) = "OK" => EffectiveDevice(r) # None
         /\ NoConversation(r) = "OK" => r.conv # None
  BY DEF OtherDevice, NoDevice, NoConversation, NoMessage, Reject

\* A request that waits for a pool, at pc.
Pending(x, r, pc, before) ==
  /\ Accepted(x, r, InFlights) /\ x.pc = pc /\ x.at = 0 /\ x.todo = <<>> /\ x.conv = r.conv
  /\ x.users = {} /\ x.shown = {} /\ x.before = before

LEMMA PendingIs ==
  ASSUME NEW r, NEW pc, pc # "done", NEW before,
         NEW x, x = [Unused EXCEPT !.pc = pc, !.conv = r.conv, !.before = before],
         NEW y, y = [x EXCEPT !.req = r, !.rivals = InFlights]
  PROVE  Shaped(x) /\ Pending(y, r, pc, before)
  BY DEF Pending, Accepted, Fresh, Unused, Shaped, Fields

StoredOf(k) == {s \in stored : s.conv = k}

LEMMA CheckedBegins ==
  ASSUME CallsShaped, NEW c \in Calls, NEW r, NEW rpc, Arrives(c, r, rpc),
         NEW pc, pc # "done", NEW check, CheckedBegin(c, r, check, pc),
         FirstError(<<CheckDeadline(r), ValidateCaller(r), check>>) # "none"
  PROVE  /\ Arrived(c, r) /\ r.rpc = rpc
         /\ \/ Refused(call'[c], r)
            \/ /\ FirstError(<<CheckDeadline(r), ValidateCaller(r), check>>) = "OK"
               /\ Pending(call'[c], r, pc, StoredOf(r.conv))
         /\ UNCHANGED <<tables, serviceVars>>
<1> DEFINE x == [Unused EXCEPT !.pc = pc, !.conv = r.conv, !.before = StoredOf(r.conv)]
           error == FirstError(<<CheckDeadline(r), ValidateCaller(r), check>>)
<1>1. Begin(c, r, error, x) /\ error # "none" /\ UNCHANGED <<tables, serviceVars>>
  BY DEF CheckedBegin, StoredOf
<1>2. Shaped(x) /\ Pending([x EXCEPT !.req = r, !.rivals = InFlights], r, pc, StoredOf(r.conv))
  BY PendingIs
<1> HIDE DEF x, error
<1>3. /\ Arrived(c, r) /\ r.rpc = rpc
      /\ \/ error # "OK" /\ Refused(call'[c], r)
         \/ error = "OK" /\ call'[c] = [x EXCEPT !.req = r, !.rivals = InFlights]
  BY <1>1, <1>2, Begins
<1> QED BY <1>1, <1>2, <1>3 DEF error

LEMMA UncheckedBegins ==
  ASSUME CallsShaped, NEW c \in Calls, NEW r, NEW rpc, Arrives(c, r, rpc),
         NEW check, UncheckedBegin(c, r, check),
         FirstError(<<CheckDeadline(r), NoDevice(r), check>>) # "none"
  PROVE  /\ Arrived(c, r) /\ r.rpc = rpc
         /\ \/ Refused(call'[c], r)
            \/ /\ FirstError(<<CheckDeadline(r), NoDevice(r), check>>) = "OK"
               /\ Pending(call'[c], r, "submit", {})
         /\ UNCHANGED <<tables, serviceVars>>
<1> DEFINE x == [Unused EXCEPT !.pc = "submit", !.conv = r.conv, !.before = {}]
           error == FirstError(<<CheckDeadline(r), NoDevice(r), check>>)
<1>1. x = [Unused EXCEPT !.pc = "submit", !.conv = r.conv]
  BY UnusedShaped DEF Unused, Shaped, Fields
<1>2. Begin(c, r, error, x) /\ error # "none" /\ UNCHANGED <<tables, serviceVars>>
  BY <1>1 DEF UncheckedBegin
<1>3. Shaped(x) /\ Pending([x EXCEPT !.req = r, !.rivals = InFlights], r, "submit", {})
  BY PendingIs
<1> HIDE DEF x, error
<1>4. /\ Arrived(c, r) /\ r.rpc = rpc
      /\ \/ error # "OK" /\ Refused(call'[c], r)
         \/ error = "OK" /\ call'[c] = [x EXCEPT !.req = r, !.rivals = InFlights]
  BY <1>2, <1>3, Begins
<1> QED BY <1>2, <1>3, <1>4 DEF error

\* The handlers of the pools, and what they have found out when they go on.
PoolRequest(c, r) ==
  \/ SendMessage(c, r) \/ GetMessages(c, r) \/ SyncDeviceMessages(c, r)
  \/ AcknowledgeDelivery(c, r) \/ SendReadReceipt(c, r)
  \/ GetSyncCursor(c, r) \/ UpdateSyncCursor(c, r)

\* What a request of a pool names when its handler goes on.
Named(r) ==
  /\ r.rpc \notin {"GetSyncCursor", "UpdateSyncCursor"} => r.user # None
  /\ r.rpc \in {"SendMessage", "UpdateSyncCursor"} => r.conv # None
  /\ r.rpc \notin {"GetMessages"} => EffectiveDevice(r) # None

StartsAt(r) ==
  IF r.rpc \in {"SendMessage", "GetSyncCursor", "UpdateSyncCursor"} THEN "submit" ELSE "device"

BeforeOf(r) ==
  IF r.rpc \in {"GetSyncCursor", "UpdateSyncCursor"} THEN {} ELSE StoredOf(r.conv)

LEMMA PoolRequestArrives ==
  ASSUME CallsShaped, NEW c \in Calls, NEW r, PoolRequest(c, r)
  PROVE  /\ Arrived(c, r) /\ r.rpc \in Pooled
         /\ \/ Refused(call'[c], r)
            \/ Named(r) /\ Pending(call'[c], r, StartsAt(r), BeforeOf(r))
         /\ UNCHANGED <<tables, serviceVars>>
<1> DEFINE D == CheckDeadline(r)
           V == ValidateCaller(r)
<1>0. /\ D # "none" /\ V # "none" /\ (V = "OK" => r.user # None)
      /\ OtherDevice(r) # "none" /\ NoDevice(r) # "none" /\ NoConversation(r) # "none"
      /\ NoMessage(r) # "none"
      /\ NoDevice(r) = "OK" => EffectiveDevice(r) # None
      /\ NoConversation(r) = "OK" => r.conv # None
  BY CheckDeadlineIs, ValidateCallerIs, ParsedIs
<1> HIDE DEF D, V
<1> DEFINE Goal(rpc) ==
      /\ Arrived(c, r) /\ r.rpc = rpc
      /\ \/ Refused(call'[c], r)
         \/ Named(r) /\ Pending(call'[c], r, StartsAt(r), BeforeOf(r))
      /\ UNCHANGED <<tables, serviceVars>>
<1>1. CASE SendMessage(c, r)
  <2> DEFINE check == FirstError(<<NoDevice(r), NoConversation(r)>>)
  <2>1. check # "none" /\ (check = "OK" => NoDevice(r) = "OK" /\ NoConversation(r) = "OK")
    BY <1>0, FirstErrorOf2 DEF Reject
  <2>2. Arrives(c, r, "SendMessage") /\ CheckedBegin(c, r, check, "submit")
    BY <1>1 DEF SendMessage
  <2> HIDE DEF check
  <2>3. /\ FirstError(<<D, V, check>>) # "none"
        /\ FirstError(<<D, V, check>>) = "OK" => V = "OK" /\ check = "OK"
    BY <1>0, <2>1, FirstErrorOf3
  <2>4. Goal("SendMessage")
    BY <1>0, <2>1, <2>2, <2>3, CheckedBegins DEF D, V, Named, StartsAt, BeforeOf
  <2> QED BY <2>4 DEF Pooled
<1>2. CASE GetMessages(c, r)
  <2> DEFINE check == OtherDevice(r)
  <2>1. check # "none" BY <1>0
  <2>2. Arrives(c, r, "GetMessages") /\ CheckedBegin(c, r, check, "device")
    BY <1>2 DEF GetMessages
  <2> HIDE DEF check
  <2>3. /\ FirstError(<<D, V, check>>) # "none"
        /\ FirstError(<<D, V, check>>) = "OK" => V = "OK" /\ check = "OK"
    BY <1>0, <2>1, FirstErrorOf3
  <2>4. Goal("GetMessages")
    BY <1>0, <2>1, <2>2, <2>3, CheckedBegins DEF D, V, Named, StartsAt, BeforeOf, check
  <2> QED BY <2>4 DEF Pooled
<1>3. CASE SyncDeviceMessages(c, r)
  <2> DEFINE check == FirstError(<<OtherDevice(r), NoDevice(r)>>)
  <2>1. check # "none" /\ (check = "OK" => OtherDevice(r) = "OK" /\ NoDevice(r) = "OK")
    BY <1>0, FirstErrorOf2 DEF Reject
  <2>2. Arrives(c, r, "SyncDeviceMessages") /\ CheckedBegin(c, r, check, "device")
    BY <1>3 DEF SyncDeviceMessages
  <2> HIDE DEF check
  <2>3. /\ FirstError(<<D, V, check>>) # "none"
        /\ FirstError(<<D, V, check>>) = "OK" => V = "OK" /\ check = "OK"
    BY <1>0, <2>1, FirstErrorOf3
  <2>4. Goal("SyncDeviceMessages")
    BY <1>0, <2>1, <2>2, <2>3, CheckedBegins DEF D, V, Named, StartsAt, BeforeOf
  <2> QED BY <2>4 DEF Pooled
<1>4. CASE AcknowledgeDelivery(c, r)
  <2> DEFINE check == FirstError(<<NoMessage(r), OtherDevice(r), NoDevice(r)>>)
  <2>1. check # "none" /\ (check = "OK" => NoMessage(r) = "OK" /\ OtherDevice(r) = "OK" /\ NoDevice(r) = "OK")
    BY <1>0, FirstErrorOf3 DEF Reject
  <2>2. Arrives(c, r, "AcknowledgeDelivery") /\ CheckedBegin(c, r, check, "device")
    BY <1>4 DEF AcknowledgeDelivery
  <2> HIDE DEF check
  <2>3. /\ FirstError(<<D, V, check>>) # "none"
        /\ FirstError(<<D, V, check>>) = "OK" => V = "OK" /\ check = "OK"
    BY <1>0, <2>1, FirstErrorOf3
  <2>4. Goal("AcknowledgeDelivery")
    BY <1>0, <2>1, <2>2, <2>3, CheckedBegins DEF D, V, Named, StartsAt, BeforeOf
  <2> QED BY <2>4 DEF Pooled
<1>5. CASE SendReadReceipt(c, r)
  <2> DEFINE check == FirstError(<<NoMessage(r), NoConversation(r), OtherDevice(r), NoDevice(r)>>)
  <2>1. check # "none" /\ (check = "OK" => NoMessage(r) = "OK" /\ NoConversation(r) = "OK" /\ OtherDevice(r) = "OK" /\ NoDevice(r) = "OK")
    BY <1>0, FirstErrorOf4 DEF Reject
  <2>2. Arrives(c, r, "SendReadReceipt") /\ CheckedBegin(c, r, check, "device")
    BY <1>5 DEF SendReadReceipt
  <2> HIDE DEF check
  <2>3. /\ FirstError(<<D, V, check>>) # "none"
        /\ FirstError(<<D, V, check>>) = "OK" => V = "OK" /\ check = "OK"
    BY <1>0, <2>1, FirstErrorOf3
  <2>4. Goal("SendReadReceipt")
    BY <1>0, <2>1, <2>2, <2>3, CheckedBegins DEF D, V, Named, StartsAt, BeforeOf
  <2> QED BY <2>4 DEF Pooled
<1>6. CASE GetSyncCursor(c, r)
  <2> DEFINE check == "OK"
  <2>1. check # "none" BY <1>0
  <2>2. Arrives(c, r, "GetSyncCursor") /\ UncheckedBegin(c, r, check)
    BY <1>6 DEF GetSyncCursor
  <2> HIDE DEF check
  <2>3. /\ FirstError(<<D, NoDevice(r), check>>) # "none"
        /\ FirstError(<<D, NoDevice(r), check>>) = "OK" => NoDevice(r) = "OK" /\ check = "OK"
    BY <1>0, <2>1, FirstErrorOf3
  <2>4. Goal("GetSyncCursor")
    BY <1>0, <2>1, <2>2, <2>3, UncheckedBegins DEF D, V, Named, StartsAt, BeforeOf
  <2> QED BY <2>4 DEF Pooled
<1>7. CASE UpdateSyncCursor(c, r)
  <2> DEFINE check == FirstError(<<NoConversation(r), Reject(r.seq < 0, "CURSOR_OUT_OF_BOUNDS")>>)
  <2>1. check # "none" /\ (check = "OK" => NoConversation(r) = "OK")
    BY <1>0, FirstErrorOf2 DEF Reject
  <2>2. Arrives(c, r, "UpdateSyncCursor") /\ UncheckedBegin(c, r, check)
    BY <1>7 DEF UpdateSyncCursor
  <2> HIDE DEF check
  <2>3. /\ FirstError(<<D, NoDevice(r), check>>) # "none"
        /\ FirstError(<<D, NoDevice(r), check>>) = "OK" => NoDevice(r) = "OK" /\ check = "OK"
    BY <1>0, <2>1, FirstErrorOf3
  <2>4. Goal("UpdateSyncCursor")
    BY <1>0, <2>1, <2>2, <2>3, UncheckedBegins DEF D, V, Named, StartsAt, BeforeOf
  <2> QED BY <2>4 DEF Pooled
<1> QED BY <1>1, <1>2, <1>3, <1>4, <1>5, <1>6, <1>7 DEF PoolRequest

\* The authorisation of changes.
Changeable(k) == Type(k) \notin {"none", "Direct"}

LEMMA CanViewIs ==
  ASSUME NEW u, NEW k
  PROVE  CanView(u, k) # "none" /\ (CanView(u, k) = "OK" => Type(k) # "none" /\ IsActive(k, u))
  BY FirstErrorOf2 DEF CanView, Reject

LEMMA CanSendIs ==
  ASSUME NEW u, NEW k
  PROVE  CanSend(u, k) # "none"
  BY FirstErrorOf3 DEF CanSend, Reject

LEMMA CanAddIs ==
  ASSUME NEW u, NEW k
  PROVE  /\ CanAdd(u, k) # "none"
         /\ CanAdd(u, k) = "OK" => Changeable(k) /\ ~IsClosed(k) /\ IsAdmin(k, u)
  BY FirstErrorOf5 DEF CanAdd, Reject, Changeable

LEMMA CanUpdateIs ==
  ASSUME NEW u, NEW k
  PROVE  /\ CanUpdate(u, k) # "none"
         /\ CanUpdate(u, k) = "OK" => Changeable(k) /\ ~IsClosed(k) /\ IsAdmin(k, u)
  BY FirstErrorOf5 DEF CanUpdate, Reject, Changeable

\* The others keep an admin when u leaves.
AdminStays(u, k) ==
  LET others == ListActive(k) \ {u}
  IN IsAdmin(k, u) /\ others # {} => \E o \in others : IsAdmin(k, o)

LEMMA CanLeaveIs ==
  ASSUME NEW u, NEW k
  PROVE  /\ CanLeave(u, k) # "none"
         /\ CanLeave(u, k) = "OK" => Changeable(k) /\ IsActive(k, u) /\ AdminStays(u, k)
<1> DEFINE last == IsAdmin(k, u) /\ ListActive(k) \ {u} # {}
                     /\ \A o \in ListActive(k) \ {u} : ~IsAdmin(k, o)
           s == << Reject(Type(k) = "none", "CONVERSATION_NOT_FOUND"),
                   Reject(Type(k) = "Direct", "direct"),
                   Reject(~IsActive(k, u), "NOT_A_PARTICIPANT"),
                   Reject(last, "admin") >>
<1>1. CanLeave(u, k) = FirstError(s) BY DEF CanLeave
<1>2. last \/ AdminStays(u, k) BY DEF AdminStays
<1> HIDE DEF last
<1> QED BY <1>1, <1>2, FirstErrorOf4 DEF Reject, Changeable

LEMMA CanRemoveIs ==
  ASSUME NEW u, NEW k, NEW v
  PROVE  /\ CanRemove(u, k, v) # "none"
         /\ CanRemove(u, k, v) = "OK" =>
              /\ Changeable(k) /\ ~IsClosed(k) /\ IsActive(k, v)
              /\ IF u = v THEN AdminStays(u, k) ELSE IsAdmin(k, u)
  BY FirstErrorOf6, CanLeaveIs DEF CanRemove, Reject, Changeable

LEMMA ConversationErrorIs ==
  ASSUME NEW r, NEW can, can # "none"
  PROVE  /\ ConversationError(r, can) # "none"
         /\ ConversationError(r, can) = "OK" => r.user # None /\ r.conv # None /\ can = "OK"
  BY FirstErrorOf3, ValidateCallerIs DEF ConversationError, Reject

\* A call of a conversation RPC when its handler goes on.
Converses(x, r, pc, at, k, todo) ==
  /\ Accepted(x, r, InFlights) /\ x.pc = pc /\ x.at = at /\ x.todo = todo /\ x.conv = k
  /\ x.users = {} /\ x.shown = {} /\ x.before = {}

LEMMA WorkingIs ==
  ASSUME NEW k, NEW writes, NEW r, NEW x, x = Working(k, writes),
         NEW y, y = [x EXCEPT !.req = r, !.rivals = InFlights]
  PROVE  Shaped(x) /\ Converses(y, r, "write", clock, k, writes)
  BY DEF Converses, Accepted, Fresh, Working, Unused, Shaped, Fields

LEMMA FindingIs ==
  ASSUME NEW k, NEW at, NEW r, NEW x, x = [Unused EXCEPT !.pc = "find", !.conv = k, !.at = at],
         NEW y, y = [x EXCEPT !.req = r, !.rivals = InFlights]
  PROVE  Shaped(x) /\ Converses(y, r, "find", at, k, <<>>)
  BY DEF Converses, Accepted, Fresh, Unused, Shaped, Fields

LEMMA FindingAtZero ==
  ASSUME NEW k, NEW r, NEW x, x = [Unused EXCEPT !.pc = "find", !.conv = k],
         NEW y, y = [x EXCEPT !.req = r, !.rivals = InFlights]
  PROVE  Shaped(x) /\ Converses(y, r, "find", 0, k, <<>>)
  BY DEF Converses, Accepted, Fresh, Unused, Shaped, Fields

\* What the handlers have found out when they go on.
DirectRequest(c, r) ==
  LET pair == DirectPair(r.user, r.target)
      known == direct[pair] # None /\ conversations[direct[pair]] # None
      k == lastConv + 1
  IN /\ r.user # None /\ r.target # None /\ r.user # r.target
     /\ \/ /\ known /\ lastConv' = lastConv
           /\ Converses(call'[c], r, "write", clock, direct[pair], << ThenDetails(direct[pair]) >>)
        \/ /\ ~known /\ lastConv < MaxConversations /\ lastConv' = k
           /\ Converses(call'[c], r, "write", clock, k, CreateDirectWrites(k, r.user, r.target))

GroupRequest(c, r) ==
  LET k == lastConv + 1
  IN /\ r.user # None /\ lastConv < MaxConversations /\ lastConv' = k
     /\ Converses(call'[c], r, "write", clock, k, CreateGroupWrites(k, r.user, r.people))

ChangeRequest(c, r) ==
  /\ r.user # None /\ r.conv # None /\ lastConv' = lastConv
  /\ \E at \in {0, clock} : Converses(call'[c], r, "find", at, r.conv, <<>>)
  /\ Changeable(r.conv)
  /\ r.rpc = "AddParticipant" =>
       r.target # None /\ ~IsClosed(r.conv) /\ IsAdmin(r.conv, r.user)
  /\ r.rpc = "RemoveParticipant" =>
       /\ r.target # None /\ ~IsClosed(r.conv) /\ IsActive(r.conv, r.target)
       /\ IF r.user = r.target THEN AdminStays(r.user, r.conv) ELSE IsAdmin(r.conv, r.user)
  /\ r.rpc = "LeaveConversation" => IsActive(r.conv, r.user) /\ AdminStays(r.user, r.conv)
  /\ r.rpc = "UpdateConversationMetadata" =>
       ~IsClosed(r.conv) /\ IsAdmin(r.conv, r.user)

ViewRequest(c, r) ==
  /\ r.user # None /\ r.conv # None /\ lastConv' = lastConv
  /\ Converses(call'[c], r, "write", clock, r.conv, << [kind |-> "view", conv |-> r.conv] >>)

ListRequest(c, r) ==
  /\ r.user # None /\ lastConv' = lastConv
  /\ Accepted(call'[c], r, InFlights) /\ call'[c].pc = "done" /\ call'[c].todo = <<>>
  /\ call'[c].conv = None /\ call'[c].before = {} /\ call'[c].at = 0 /\ call'[c].users = {}

ConversationArrival(c, r) ==
  \/ Refused(call'[c], r) /\ lastConv' = lastConv
  \/ r.rpc = "CreateDirect" /\ DirectRequest(c, r)
  \/ r.rpc = "CreateGroup" /\ GroupRequest(c, r)
  \/ r.rpc \in Changing \ {"CreateGroup"} /\ ChangeRequest(c, r)
  \/ r.rpc = "GetConversation" /\ ViewRequest(c, r)
  \/ r.rpc = "ListConversations" /\ ListRequest(c, r)

OtherTables == <<conversations, direct, meta, part, rows, events>>

LEMMA CreateDirectArrives ==
  ASSUME CallsShaped, NEW c \in Calls, NEW r, CreateDirect(c, r)
  PROVE  /\ Arrived(c, r) /\ r.rpc = "CreateDirect" /\ UNCHANGED OtherTables
         /\ (Refused(call'[c], r) /\ lastConv' = lastConv) \/ DirectRequest(c, r)
<1> DEFINE pair == DirectPair(r.user, r.target)
           known == direct[pair] # None /\ conversations[direct[pair]] # None
           error == FirstError(<< Reject(r.user = None, "UNSPECIFIED"),
                                  Reject(r.target = None, "direct"),
                                  Reject(r.user = r.target, "direct") >>)
           k == lastConv + 1
           x == IF error = "OK" /\ known THEN Working(direct[pair], << ThenDetails(direct[pair]) >>)
                ELSE Working(k, CreateDirectWrites(k, r.user, r.target))
           y == [x EXCEPT !.req = r, !.rivals = InFlights]
<1>1. /\ Arrives(c, r, "CreateDirect") /\ Begin(c, r, error, x) /\ UNCHANGED OtherTables
      /\ (error = "OK" /\ known) \/ error # "OK" \/ lastConv < MaxConversations
      /\ lastConv' = IF error = "OK" /\ ~known THEN k ELSE lastConv
  BY DEF CreateDirect, OtherTables
<1>2. /\ error # "none"
      /\ error = "OK" => r.user # None /\ r.target # None /\ r.user # r.target
  BY FirstErrorOf3 DEF Reject
<1>3. /\ Shaped(x)
      /\ error = "OK" /\ known =>
           Converses(y, r, "write", clock, direct[pair], << ThenDetails(direct[pair]) >>)
      /\ error = "OK" /\ ~known =>
           Converses(y, r, "write", clock, k, CreateDirectWrites(k, r.user, r.target))
  BY WorkingIs
<1> HIDE DEF x, error
<1>4. /\ Arrived(c, r) /\ r.rpc = "CreateDirect"
      /\ \/ error # "OK" /\ Refused(call'[c], r)
         \/ error = "OK" /\ call'[c] = [x EXCEPT !.req = r, !.rivals = InFlights]
  BY <1>1, <1>2, <1>3, Begins
<1> QED BY <1>1, <1>2, <1>3, <1>4 DEF DirectRequest

LEMMA CreateGroupArrives ==
  ASSUME CallsShaped, NEW c \in Calls, NEW r, CreateGroup(c, r)
  PROVE  /\ Arrived(c, r) /\ r.rpc = "CreateGroup" /\ UNCHANGED OtherTables
         /\ (Refused(call'[c], r) /\ lastConv' = lastConv) \/ GroupRequest(c, r)
<1> DEFINE error == FirstError(<< Reject(r.user = None, "UNSPECIFIED"),
                                  Reject(~r.title, "UNSPECIFIED") >>)
           k == lastConv + 1
           x == Working(k, CreateGroupWrites(k, r.user, r.people))
           y == [x EXCEPT !.req = r, !.rivals = InFlights]
<1>1. /\ Arrives(c, r, "CreateGroup") /\ Begin(c, r, error, x) /\ UNCHANGED OtherTables
      /\ lastConv < MaxConversations
      /\ lastConv' = IF error = "OK" THEN k ELSE lastConv
  BY DEF CreateGroup, OtherTables
<1>2. error # "none" /\ (error = "OK" => r.user # None) BY FirstErrorOf2 DEF Reject
<1>3. /\ Shaped(x)
      /\ Converses(y, r, "write", clock, k, CreateGroupWrites(k, r.user, r.people))
  BY WorkingIs
<1> HIDE DEF x, error
<1>4. /\ Arrived(c, r) /\ r.rpc = "CreateGroup"
      /\ \/ error # "OK" /\ Refused(call'[c], r)
         \/ error = "OK" /\ call'[c] = [x EXCEPT !.req = r, !.rivals = InFlights]
  BY <1>1, <1>2, <1>3, Begins
<1> QED BY <1>1, <1>2, <1>3, <1>4 DEF GroupRequest

LEMMA AddParticipantArrives ==
  ASSUME CallsShaped, NEW c \in Calls, NEW r, AddParticipant(c, r)
  PROVE  /\ Arrived(c, r) /\ r.rpc = "AddParticipant" /\ UNCHANGED convVars
         /\ Refused(call'[c], r) \/ ChangeRequest(c, r)
<1> DEFINE can == IF r.target = None THEN "UNSPECIFIED" ELSE CanAdd(r.user, r.conv)
           error == ConversationError(r, can)
           x == [Unused EXCEPT !.pc = "find", !.conv = r.conv, !.at = clock]
           y == [x EXCEPT !.req = r, !.rivals = InFlights]
<1>1. /\ Arrives(c, r, "AddParticipant") /\ UNCHANGED convVars
      /\ Begin(c, r, error, [Unused EXCEPT !.pc = "find", !.conv = r.conv, !.at = clock])
  BY DEF AddParticipant
<1>3. Begin(c, r, error, x) BY <1>1
<1>4. Shaped(x) /\ Converses(y, r, "find", clock, r.conv, <<>>) BY FindingIs
<1>5. can # "none" BY CanAddIs DEF Reject
<1> HIDE DEF x
<1>6. /\ error # "none"
      /\ error = "OK" => r.user # None /\ r.conv # None /\ can = "OK"
  <2> HIDE DEF can
  <2> QED BY <1>5, ConversationErrorIs
<1>7. /\ Arrived(c, r) /\ r.rpc = "AddParticipant"
      /\ \/ error # "OK" /\ Refused(call'[c], r)
         \/ error = "OK" /\ call'[c] = [x EXCEPT !.req = r, !.rivals = InFlights]
  <2> HIDE DEF error
  <2> QED BY <1>1, <1>3, <1>4, <1>6, Begins
<1>8. lastConv' = lastConv BY <1>1 DEF convVars
<1> QED BY <1>1, <1>4, <1>6, <1>7, <1>8, CanAddIs DEF ChangeRequest

LEMMA RemoveParticipantArrives ==
  ASSUME CallsShaped, NEW c \in Calls, NEW r, RemoveParticipant(c, r)
  PROVE  /\ Arrived(c, r) /\ r.rpc = "RemoveParticipant" /\ UNCHANGED convVars
         /\ Refused(call'[c], r) \/ ChangeRequest(c, r)
<1> DEFINE can == IF r.target = None THEN "UNSPECIFIED" ELSE CanRemove(r.user, r.conv, r.target)
           error == ConversationError(r, can)
           x == [Unused EXCEPT !.pc = "find", !.conv = r.conv]
           y == [x EXCEPT !.req = r, !.rivals = InFlights]
<1>1. /\ Arrives(c, r, "RemoveParticipant") /\ UNCHANGED convVars
      /\ Begin(c, r, error, [Unused EXCEPT !.pc = "find", !.conv = r.conv])
  BY DEF RemoveParticipant
<1>3. Begin(c, r, error, x) BY <1>1
<1>4. Shaped(x) /\ Converses(y, r, "find", 0, r.conv, <<>>) BY FindingAtZero
<1>5. can # "none" BY CanRemoveIs DEF Reject
<1> HIDE DEF x
<1>6. /\ error # "none"
      /\ error = "OK" => r.user # None /\ r.conv # None /\ can = "OK"
  <2> HIDE DEF can
  <2> QED BY <1>5, ConversationErrorIs
<1>7. /\ Arrived(c, r) /\ r.rpc = "RemoveParticipant"
      /\ \/ error # "OK" /\ Refused(call'[c], r)
         \/ error = "OK" /\ call'[c] = [x EXCEPT !.req = r, !.rivals = InFlights]
  <2> HIDE DEF error
  <2> QED BY <1>1, <1>3, <1>4, <1>6, Begins
<1>8. lastConv' = lastConv BY <1>1 DEF convVars
<1> QED BY <1>1, <1>4, <1>6, <1>7, <1>8, CanRemoveIs DEF ChangeRequest

LEMMA LeaveConversationArrives ==
  ASSUME CallsShaped, NEW c \in Calls, NEW r, LeaveConversation(c, r)
  PROVE  /\ Arrived(c, r) /\ r.rpc = "LeaveConversation" /\ UNCHANGED convVars
         /\ Refused(call'[c], r) \/ ChangeRequest(c, r)
<1> DEFINE can == CanLeave(r.user, r.conv)
           error == ConversationError(r, can)
           x == [Unused EXCEPT !.pc = "find", !.conv = r.conv]
           y == [x EXCEPT !.req = r, !.rivals = InFlights]
<1>1. /\ Arrives(c, r, "LeaveConversation") /\ UNCHANGED convVars
      /\ Begin(c, r, error, [Unused EXCEPT !.pc = "find", !.conv = r.conv])
  BY DEF LeaveConversation
<1>3. Begin(c, r, error, x) BY <1>1
<1>4. Shaped(x) /\ Converses(y, r, "find", 0, r.conv, <<>>) BY FindingAtZero
<1>5. can # "none" BY CanLeaveIs DEF Reject
<1> HIDE DEF x
<1>6. /\ error # "none"
      /\ error = "OK" => r.user # None /\ r.conv # None /\ can = "OK"
  <2> HIDE DEF can
  <2> QED BY <1>5, ConversationErrorIs
<1>7. /\ Arrived(c, r) /\ r.rpc = "LeaveConversation"
      /\ \/ error # "OK" /\ Refused(call'[c], r)
         \/ error = "OK" /\ call'[c] = [x EXCEPT !.req = r, !.rivals = InFlights]
  <2> HIDE DEF error
  <2> QED BY <1>1, <1>3, <1>4, <1>6, Begins
<1>8. lastConv' = lastConv BY <1>1 DEF convVars
<1> QED BY <1>1, <1>4, <1>6, <1>7, <1>8, CanLeaveIs DEF ChangeRequest

LEMMA UpdateConversationMetadataArrives ==
  ASSUME CallsShaped, NEW c \in Calls, NEW r, UpdateConversationMetadata(c, r)
  PROVE  /\ Arrived(c, r) /\ r.rpc = "UpdateConversationMetadata" /\ UNCHANGED convVars
         /\ Refused(call'[c], r) \/ ChangeRequest(c, r)
<1> DEFINE can == IF ~r.title THEN "UNSPECIFIED" ELSE CanUpdate(r.user, r.conv)
           error == ConversationError(r, can)
           x == [Unused EXCEPT !.pc = "find", !.conv = r.conv]
           y == [x EXCEPT !.req = r, !.rivals = InFlights]
<1>1. /\ Arrives(c, r, "UpdateConversationMetadata") /\ UNCHANGED convVars
      /\ Begin(c, r, error, [Unused EXCEPT !.pc = "find", !.conv = r.conv])
  BY DEF UpdateConversationMetadata
<1>3. Begin(c, r, error, x) BY <1>1
<1>4. Shaped(x) /\ Converses(y, r, "find", 0, r.conv, <<>>) BY FindingAtZero
<1>5. can # "none" BY CanUpdateIs DEF Reject
<1> HIDE DEF x
<1>6. /\ error # "none"
      /\ error = "OK" => r.user # None /\ r.conv # None /\ can = "OK"
  <2> HIDE DEF can
  <2> QED BY <1>5, ConversationErrorIs
<1>7. /\ Arrived(c, r) /\ r.rpc = "UpdateConversationMetadata"
      /\ \/ error # "OK" /\ Refused(call'[c], r)
         \/ error = "OK" /\ call'[c] = [x EXCEPT !.req = r, !.rivals = InFlights]
  <2> HIDE DEF error
  <2> QED BY <1>1, <1>3, <1>4, <1>6, Begins
<1>8. lastConv' = lastConv BY <1>1 DEF convVars
<1> QED BY <1>1, <1>4, <1>6, <1>7, <1>8, CanUpdateIs DEF ChangeRequest

LEMMA GetConversationArrives ==
  ASSUME CallsShaped, NEW c \in Calls, NEW r, GetConversation(c, r)
  PROVE  /\ Arrived(c, r) /\ r.rpc = "GetConversation" /\ UNCHANGED convVars
         /\ Refused(call'[c], r) \/ ViewRequest(c, r)
<1> DEFINE error == ConversationError(r, "OK")
           writes == << [kind |-> "view", conv |-> r.conv] >>
           x == Working(r.conv, writes)
           y == [x EXCEPT !.req = r, !.rivals = InFlights]
<1>1. /\ Arrives(c, r, "GetConversation") /\ Begin(c, r, error, x) /\ UNCHANGED convVars
  BY DEF GetConversation
<1>2. error # "none" /\ (error = "OK" => r.user # None /\ r.conv # None)
  BY ConversationErrorIs
<1>3. Shaped(x) /\ Converses(y, r, "write", clock, r.conv, writes) BY WorkingIs
<1> HIDE DEF x, error
<1>4. /\ Arrived(c, r) /\ r.rpc = "GetConversation"
      /\ \/ error # "OK" /\ Refused(call'[c], r)
         \/ error = "OK" /\ call'[c] = [x EXCEPT !.req = r, !.rivals = InFlights]
  BY <1>1, <1>2, <1>3, Begins
<1>5. lastConv' = lastConv BY <1>1 DEF convVars
<1> QED BY <1>1, <1>2, <1>3, <1>4, <1>5 DEF ViewRequest

LEMMA ListConversationsArrives ==
  ASSUME CallsShaped, NEW c \in Calls, NEW r, ListConversations(c, r)
  PROVE  /\ Arrived(c, r) /\ r.rpc = "ListConversations" /\ UNCHANGED convVars
         /\ Refused(call'[c], r) \/ ListRequest(c, r)
<1> DEFINE error == ValidateCallerInline(r)
           listed == {w.conv : w \in {v \in UserRows(r.user) : v.status = "Active"}}
           x == Replied([Unused EXCEPT !.shown = listed], "OK")
           y == [x EXCEPT !.req = r, !.rivals = InFlights]
<1>1. /\ Arrives(c, r, "ListConversations") /\ Begin(c, r, error, x) /\ UNCHANGED convVars
  BY DEF ListConversations
<1>2. error # "none" /\ (error = "OK" => r.user # None) BY ValidateCallerIs
<1> HIDE DEF listed
<1>3. /\ Shaped(x) /\ Accepted(y, r, InFlights) /\ y.pc = "done" /\ y.todo = <<>>
      /\ y.conv = None /\ y.before = {} /\ y.at = 0 /\ y.users = {}
  BY StatusOf DEF Replied, Accepted, Fresh, Unused, Shaped, Fields
<1> HIDE DEF x, error
<1>4. /\ Arrived(c, r) /\ r.rpc = "ListConversations"
      /\ \/ error # "OK" /\ Refused(call'[c], r)
         \/ error = "OK" /\ call'[c] = [x EXCEPT !.req = r, !.rivals = InFlights]
  BY <1>1, <1>2, <1>3, Begins
<1>5. lastConv' = lastConv BY <1>1 DEF convVars
<1> QED BY <1>1, <1>2, <1>3, <1>4, <1>5 DEF ListRequest

LEMMA ConversationRequestArrives ==
  ASSUME CallsShaped, NEW c \in Calls, NEW r, ConversationRequest(c, r)
  PROVE  /\ Arrived(c, r) /\ r.rpc \in Conversing /\ UNCHANGED OtherTables
         /\ ConversationArrival(c, r)
<1>1. UNCHANGED convVars => UNCHANGED OtherTables /\ lastConv' = lastConv
  BY DEF convVars, OtherTables
<1>2. CASE CreateDirect(c, r)
  BY <1>2, CreateDirectArrives DEF ConversationArrival, Conversing
<1>3. CASE CreateGroup(c, r) BY <1>3, CreateGroupArrives DEF ConversationArrival, Conversing
<1>4. CASE AddParticipant(c, r)
  BY <1>1, <1>4, AddParticipantArrives DEF ConversationArrival, Conversing, Changing
<1>5. CASE RemoveParticipant(c, r)
  BY <1>1, <1>5, RemoveParticipantArrives DEF ConversationArrival, Conversing, Changing
<1>6. CASE LeaveConversation(c, r)
  BY <1>1, <1>6, LeaveConversationArrives DEF ConversationArrival, Conversing, Changing
<1>7. CASE UpdateConversationMetadata(c, r)
  BY <1>1, <1>7, UpdateConversationMetadataArrives DEF ConversationArrival, Conversing,
     Changing
<1>8. CASE GetConversation(c, r)
  BY <1>1, <1>8, GetConversationArrives DEF ConversationArrival, Conversing
<1>9. CASE ListConversations(c, r)
  BY <1>1, <1>9, ListConversationsArrives DEF ConversationArrival, Conversing
<1> QED BY <1>2, <1>3, <1>4, <1>5, <1>6, <1>7, <1>8, <1>9 DEF ConversationRequest

\* The handlers that answer without a pool and ask no conversation.
InlineRequest(c, r) ==
  GetMessageDeliveryStatus(c, r) \/ UpdatePresence(c, r) \/ GetPresence(c, r)

PresenceRequest(c, r) ==
  /\ r.user # None /\ Accepted(call'[c], r, InFlights) /\ call'[c].todo = <<>>
  /\ call'[c].conv = None /\ call'[c].shown = {} /\ call'[c].before = {}
  /\ \/ /\ r.rpc = "UpdatePresence" /\ call'[c].pc = "override" /\ call'[c].at = clock
        /\ call'[c].users = {}
     \/ /\ r.rpc = "GetPresence" /\ call'[c].pc = "presence" /\ call'[c].at = 0
        /\ call'[c].users = r.people /\ r.people # {}

StatusRequest(c, r) ==
  /\ r.rpc = "GetMessageDeliveryStatus"
  /\ Accepted(call'[c], r, InFlights) /\ call'[c].pc = "done" /\ call'[c].todo = <<>>
  /\ call'[c].conv = None /\ call'[c].before = {} /\ call'[c].at = 0 /\ call'[c].users = {}
  /\ call'[c].shown = {}

LEMMA StatusArrives ==
  ASSUME CallsShaped, NEW c \in Calls, NEW r, GetMessageDeliveryStatus(c, r)
  PROVE  /\ Arrived(c, r) /\ r.rpc = "GetMessageDeliveryStatus"
         /\ UNCHANGED <<tables, serviceVars>>
         /\ Refused(call'[c], r) \/ StatusRequest(c, r)
<1> DEFINE x == Replied(Unused, "OK")
           y == [x EXCEPT !.req = r, !.rivals = InFlights]
           P == Reject(r.conv = None \/ r.user = None \/ ~IsActive(r.conv, r.user),
                       "NOT_A_PARTICIPANT")
<1>1. PICK known \in BOOLEAN :
        /\ Arrives(c, r, "GetMessageDeliveryStatus")
        /\ Begin(c, r, FirstError(<< CheckDeadline(r), ValidateCaller(r), NoMessage(r),
                           NoConversation(r), P, Reject(~known, "INVALID_TARGET_DEVICE") >>), x)
        /\ UNCHANGED <<tables, serviceVars>>
  BY DEF GetMessageDeliveryStatus
<1> DEFINE error == FirstError(<< CheckDeadline(r), ValidateCaller(r), NoMessage(r),
                           NoConversation(r), P, Reject(~known, "INVALID_TARGET_DEVICE") >>)
<1>2. error # "none"
  <2>1. P # "none" /\ Reject(~known, "INVALID_TARGET_DEVICE") # "none" BY DEF Reject
  <2> HIDE DEF P
  <2> QED BY <2>1, FirstErrorOf6, CheckDeadlineIs, ValidateCallerIs, ParsedIs
<1>3. /\ Shaped(x) /\ Accepted(y, r, InFlights) /\ y.pc = "done" /\ y.todo = <<>>
      /\ y.conv = None /\ y.before = {} /\ y.at = 0 /\ y.users = {} /\ y.shown = {}
  BY StatusOf DEF Replied, Accepted, Fresh, Unused, Shaped, Fields
<1> HIDE DEF x, error
<1>4. /\ Arrived(c, r) /\ r.rpc = "GetMessageDeliveryStatus"
      /\ \/ error # "OK" /\ Refused(call'[c], r)
         \/ error = "OK" /\ call'[c] = [x EXCEPT !.req = r, !.rivals = InFlights]
  <2>1. Begin(c, r, error, x) BY <1>1 DEF error
  <2> QED BY <1>1, <2>1, <1>2, <1>3, Begins
<1> QED BY <1>1, <1>3, <1>4 DEF StatusRequest

Full(r) == r.user # None /\ Len(Recent(r.user)) >= PresenceLimit

LEMMA UpdatePresenceArrives ==
  ASSUME CallsShaped, NEW c \in Calls, NEW r, UpdatePresence(c, r)
  PROVE  /\ Arrived(c, r) /\ r.rpc = "UpdatePresence" /\ UNCHANGED <<tables, queue, overrides>>
         /\ limits' = IF r.user = None THEN limits
                      ELSE [limits EXCEPT ![r.user] =
                              IF Full(r) THEN Recent(r.user) ELSE Append(Recent(r.user), clock)]
         /\ \/ Refused(call'[c], r) /\ (r.user = None \/ Full(r))
            \/ PresenceRequest(c, r) /\ ~Full(r)
<1> DEFINE x == [Unused EXCEPT !.pc = "override", !.at = clock]
           y == [x EXCEPT !.req = r, !.rivals = InFlights]
           error == FirstError(<< Reject(r.user = None, "UNSPECIFIED"),
                                  Reject(Full(r), "QUEUE_CAPACITY_EXCEEDED") >>)
<1>1. /\ Arrives(c, r, "UpdatePresence") /\ Begin(c, r, error, x)
      /\ limits' = IF r.user = None THEN limits
                   ELSE [limits EXCEPT ![r.user] =
                           IF Full(r) THEN Recent(r.user) ELSE Append(Recent(r.user), clock)]
      /\ UNCHANGED <<tables, queue, overrides>>
  BY DEF UpdatePresence, Full
<1>2. error # "none" /\ (error = "OK" <=> r.user # None /\ ~Full(r))
  BY FirstErrorOf2 DEF Reject
<1>3. /\ Shaped(x) /\ Accepted(y, r, InFlights) /\ y.pc = "override" /\ y.todo = <<>>
      /\ y.conv = None /\ y.before = {} /\ y.at = clock /\ y.users = {} /\ y.shown = {}
  BY DEF Accepted, Fresh, Unused, Shaped, Fields
<1> HIDE DEF x, error
<1>4. /\ Arrived(c, r) /\ r.rpc = "UpdatePresence"
      /\ \/ error # "OK" /\ Refused(call'[c], r)
         \/ error = "OK" /\ call'[c] = [x EXCEPT !.req = r, !.rivals = InFlights]
  BY <1>1, <1>2, <1>3, Begins
<1> QED BY <1>1, <1>2, <1>3, <1>4 DEF PresenceRequest

LEMMA GetPresenceArrives ==
  ASSUME CallsShaped, NEW c \in Calls, NEW r, GetPresence(c, r)
  PROVE  /\ Arrived(c, r) /\ r.rpc = "GetPresence" /\ UNCHANGED <<tables, serviceVars>>
         /\ Refused(call'[c], r) \/ PresenceRequest(c, r)
<1> DEFINE x == [Unused EXCEPT !.pc = "presence", !.users = r.people]
           y == [x EXCEPT !.req = r, !.rivals = InFlights]
           error == FirstError(<< Reject(r.user = None, "UNSPECIFIED"),
                                  Reject(r.people = {}, "UNSPECIFIED") >>)
<1>1. /\ Arrives(c, r, "GetPresence") /\ Begin(c, r, error, x)
      /\ UNCHANGED <<tables, serviceVars>>
  BY DEF GetPresence
<1>2. error # "none" /\ (error = "OK" => r.user # None /\ r.people # {})
  BY FirstErrorOf2 DEF Reject
<1>3. /\ Shaped(x) /\ Accepted(y, r, InFlights) /\ y.pc = "presence" /\ y.todo = <<>>
      /\ y.conv = None /\ y.before = {} /\ y.at = 0 /\ y.users = r.people /\ y.shown = {}
  BY DEF Accepted, Fresh, Unused, Shaped, Fields
<1> HIDE DEF x, error
<1>4. /\ Arrived(c, r) /\ r.rpc = "GetPresence"
      /\ \/ error # "OK" /\ Refused(call'[c], r)
         \/ error = "OK" /\ call'[c] = [x EXCEPT !.req = r, !.rivals = InFlights]
  BY <1>1, <1>2, <1>3, Begins
<1> QED BY <1>1, <1>2, <1>3, <1>4 DEF PresenceRequest

-----------------------------------------------------------------------------
(***************************************************************************)
(* The steps of a call                                                     *)
(***************************************************************************)

\* One step of call c and of no other; its request, its conversation and what
\* the properties remember of it stay.
Moved(c) ==
  /\ CallsShaped' /\ Apart(c) /\ \A d \in Calls : d # c => call'[d] = call[d]
  /\ call'[c].req = call[c].req /\ call'[c].conv = call[c].conv
  /\ call'[c].rivals = call[c].rivals /\ call'[c].before = call[c].before
  /\ UNCHANGED <<load, clock, phase>>

\* What only the handlers without a pool change, and what only the others do.
Inner(x, y) ==
  /\ y.task = x.task /\ y.dir = x.dir /\ y.asked = x.asked
  /\ y.seq = x.seq /\ y.month = x.month /\ y.page = x.page /\ y.more = x.more /\ y.res = x.res
Outer(x, y) == y.todo = x.todo /\ y.shown = x.shown

\* A call that ends with an answer other than OK.
Fails(x, y) == y.pc = "done" /\ y.todo = <<>> /\ y.answer \notin {"OK", "none"}

LEMMA RepliedFields ==
  ASSUME NEW x, Shaped(x), NEW error, error # "none", NEW y, y = Replied(x, error)
  PROVE  /\ Shaped(y) /\ y.pc = "done" /\ y.todo = <<>> /\ y.answer # "none"
         /\ (y.answer = "OK" <=> error = "OK")
         /\ Inner(x, y) /\ y.req = x.req /\ y.conv = x.conv /\ y.rivals = x.rivals
         /\ y.before = x.before /\ y.at = x.at /\ y.users = x.users /\ y.shown = x.shown
  BY StatusOf DEF Replied, Shaped, Fields, Inner

LEMMA WroteMoves ==
  ASSUME CallsShaped, NEW c \in Calls, NEW o, Wrote(c, o)
  PROVE  /\ Moved(c) /\ Inner(call[c], call'[c]) /\ lastConv' = lastConv
         /\ call'[c].at = call[c].at /\ call'[c].users = call[c].users
         /\ call'[c].shown = call[c].shown
         /\ o = "ok" => /\ call'[c].todo = Tail(call[c].todo) /\ call'[c].pc = call[c].pc
                        /\ call'[c].answer = call[c].answer /\ faults' = faults
         /\ o # "ok" => Fails(call[c], call'[c]) /\ faults' = faults + 1
<1> DEFINE x == call[c]
           y == IF o = "ok" THEN [x EXCEPT !.todo = Tail(@)] ELSE Replied(x, "UNKNOWN")
<1>1. Goes(c, y) /\ Shaped(x) BY DEF Wrote, CallsShaped
<1>2. CASE o = "ok"
  <2>1. /\ Shaped(y) /\ Inner(x, y) /\ y.req = x.req /\ y.conv = x.conv /\ y.rivals = x.rivals
        /\ y.before = x.before /\ y.at = x.at /\ y.users = x.users /\ y.shown = x.shown
        /\ y.todo = Tail(x.todo) /\ y.pc = x.pc /\ y.answer = x.answer
    BY <1>1, <1>2 DEF Shaped, Fields, Inner
  <2> HIDE DEF y
  <2> QED BY <1>1, <1>2, <2>1, GoesShaped DEF Moved, Wrote, Outcome
<1>3. CASE o # "ok"
  <2>1. /\ Shaped(y) /\ Inner(x, y) /\ y.req = x.req /\ y.conv = x.conv /\ y.rivals = x.rivals
        /\ y.before = x.before /\ y.at = x.at /\ y.users = x.users /\ y.shown = x.shown
        /\ y.pc = "done" /\ y.todo = <<>> /\ y.answer \notin {"OK", "none"}
    BY <1>1, <1>3, RepliedFields
  <2> HIDE DEF y
  <2> QED BY <1>1, <1>3, <2>1, GoesShaped DEF Moved, Wrote, Outcome, Fails
<1> QED BY <1>2, <1>3

\* One of the five writes to the tables.
TableWrite(c, kind, o) ==
  /\ call[c].pc = "write" /\ Head(call[c].todo).kind = kind /\ o \in Outcomes /\ Wrote(c, o)
  /\ events' = events
  /\ kind = "conversation" \/ conversations' = conversations
  /\ kind = "direct" \/ direct' = direct
  /\ kind = "meta" \/ meta' = meta
  /\ kind = "part" \/ part' = part
  /\ kind = "touch" \/ rows' = rows

Writes == {"conversation", "direct", "meta", "part", "touch"}

LEMMA SavesAre ==
  ASSUME NEW c
  PROVE  SaveConversation(c) \/ SaveDirectConversation(c) \/ SaveGroupMetadata(c)
           \/ SaveParticipant(c) \/ TouchUserConversation(c)
         => \E kind \in Writes : \E o \in Outcomes : TableWrite(c, kind, o)
<1>1. CASE SaveConversation(c) BY <1>1 DEF SaveConversation, NextWrite, TableWrite, Writes
<1>2. CASE SaveDirectConversation(c)
  BY <1>2 DEF SaveDirectConversation, NextWrite, TableWrite, Writes
<1>3. CASE SaveGroupMetadata(c) BY <1>3 DEF SaveGroupMetadata, NextWrite, TableWrite, Writes
<1>4. CASE SaveParticipant(c) BY <1>4 DEF SaveParticipant, NextWrite, TableWrite, Writes
<1>5. CASE TouchUserConversation(c)
  BY <1>5 DEF TouchUserConversation, NextWrite, TableWrite, Writes
<1> QED BY <1>1, <1>2, <1>3, <1>4, <1>5

\* The step from authorisation to writes: it ends the call, or it starts the writes.
RowFound(c, rpc, at, todo) ==
  /\ Moved(c) /\ Inner(call[c], call'[c]) /\ UNCHANGED <<faults, convVars>>
  /\ call[c].pc = "find" /\ call[c].req.rpc = rpc
  /\ call'[c].shown = call[c].shown /\ call'[c].users = call[c].users
  /\ call'[c].pc = "write" /\ call'[c].at = at /\ call'[c].todo = todo
  /\ call'[c].answer = call[c].answer

RowMissing(c, rpc) ==
  /\ Moved(c) /\ Inner(call[c], call'[c]) /\ UNCHANGED <<faults, convVars>>
  /\ call[c].pc = "find" /\ call[c].req.rpc = rpc
  /\ call'[c].shown = call[c].shown /\ call'[c].users = call[c].users
  /\ call'[c].at = call[c].at /\ Fails(call[c], call'[c])

AddWrites(k, u) ==
  LET old == part[k][u]
      row == IF old = None THEN Member("Member", "Active") ELSE [old EXCEPT !.status = "Active"]
  IN IF IsActive(k, u) THEN << ThenDetails(k) >>
     ELSE << SavePart(k, u, row), Touch(k, u, "Active"), Event(k, "Joined"), ThenDetails(k) >>
RemoveWrites(k, u) ==
  << SavePart(k, u, [part[k][u] EXCEPT !.status = "Removed"]), Touch(k, u, "Removed"),
     Event(k, "Removed"), ThenDetails(k) >>
LeaveWrites(k, u) ==
  << SavePart(k, u, [part[k][u] EXCEPT !.status = "Left"]), Touch(k, u, "Left"),
     Event(k, "Left"), ThenClose(k) >>
UpdateWrites(k) == << SaveMeta(k, meta[k]), Event(k, "Updated"), ThenDetails(k) >>

LEMMA GoesOn ==
  ASSUME CallsShaped, NEW c \in Calls, NEW at, NEW todo,
         Goes(c, [call[c] EXCEPT !.pc = "write", !.at = at, !.todo = todo]),
         UNCHANGED <<load, clock, faults, phase, convVars>>, NEW rpc, FindsTarget(c, rpc)
  PROVE  RowFound(c, rpc, at, todo)
<1> DEFINE x == call[c]
           y == [x EXCEPT !.pc = "write", !.at = at, !.todo = todo]
<1>1. /\ Shaped(y) /\ Inner(x, y) /\ y.req = x.req /\ y.conv = x.conv /\ y.rivals = x.rivals
      /\ y.before = x.before /\ y.at = at /\ y.users = x.users /\ y.shown = x.shown
      /\ y.pc = "write" /\ y.todo = todo /\ y.answer = x.answer
  BY DEF CallsShaped, Shaped, Fields, Inner
<1>2. Goes(c, y) OBVIOUS
<1> HIDE DEF y
<1> QED BY <1>1, <1>2, GoesShaped DEF Moved, RowFound, FindsTarget

LEMMA GoesWrong ==
  ASSUME CallsShaped, NEW c \in Calls, NEW error, error \notin {"OK", "none"},
         Goes(c, Replied(call[c], error)),
         UNCHANGED <<load, clock, faults, phase, convVars>>, NEW rpc, FindsTarget(c, rpc)
  PROVE  RowMissing(c, rpc)
<1> DEFINE x == call[c]
           y == Replied(x, error)
<1>1. /\ Shaped(y) /\ Inner(x, y) /\ y.req = x.req /\ y.conv = x.conv /\ y.rivals = x.rivals
      /\ y.before = x.before /\ y.at = x.at /\ y.users = x.users /\ y.shown = x.shown
      /\ y.pc = "done" /\ y.todo = <<>> /\ y.answer \notin {"OK", "none"}
  BY RepliedFields DEF CallsShaped
<1>2. Goes(c, y) OBVIOUS
<1> HIDE DEF y
<1> QED BY <1>1, <1>2, GoesShaped DEF Moved, RowMissing, FindsTarget, Fails

LEMMA AddParticipantRowMoves ==
  ASSUME CallsShaped, NEW c \in Calls, AddParticipantRow(c)
  PROVE  LET r == call[c].req
         IN RowFound(c, "AddParticipant", call[c].at, AddWrites(r.conv, r.target))
<1> DEFINE x == call[c]
           todo == AddWrites(x.req.conv, x.req.target)
<1>1. /\ Goes(c, [x EXCEPT !.pc = "write", !.todo = todo])
      /\ UNCHANGED <<load, clock, faults, phase, convVars>> /\ FindsTarget(c, "AddParticipant")
  BY DEF AddParticipantRow, AddWrites
<1> HIDE DEF todo
<1>2. [x EXCEPT !.pc = "write", !.todo = todo]
        = [x EXCEPT !.pc = "write", !.at = x.at, !.todo = todo]
  BY DEF CallsShaped, Shaped, Fields
<1> QED BY <1>1, <1>2, GoesOn DEF todo

LEMMA RemoveParticipantRowMoves ==
  ASSUME CallsShaped, NEW c \in Calls, RemoveParticipantRow(c)
  PROVE  LET r == call[c].req
         IN \/ part[r.conv][r.target] = None /\ RowMissing(c, "RemoveParticipant")
            \/ /\ part[r.conv][r.target] # None
               /\ RowFound(c, "RemoveParticipant", clock, RemoveWrites(r.conv, r.target))
<1> DEFINE x == call[c]
           old == part[x.req.conv][x.req.target]
           todo == RemoveWrites(x.req.conv, x.req.target)
<1>1. /\ Goes(c, IF old = None THEN Replied(x, "NOT_A_PARTICIPANT")
                 ELSE [x EXCEPT !.pc = "write", !.at = clock, !.todo = todo])
      /\ UNCHANGED <<load, clock, faults, phase, convVars>>
      /\ FindsTarget(c, "RemoveParticipant")
  BY DEF RemoveParticipantRow, RemoveWrites
<1> HIDE DEF todo
<1>2. CASE old = None
  <2>1. Goes(c, Replied(call[c], "NOT_A_PARTICIPANT")) BY <1>1, <1>2
  <2>2. UNCHANGED <<load, clock, faults, phase, convVars>> /\ FindsTarget(c, "RemoveParticipant")
    BY <1>1
  <2>3. "NOT_A_PARTICIPANT" \notin {"OK", "none"} OBVIOUS
  <2>4. RowMissing(c, "RemoveParticipant") BY <2>1, <2>2, <2>3, GoesWrong, Zenon
  <2> QED BY <1>2, <2>4
<1>3. CASE old # None BY <1>1, <1>3, GoesOn DEF todo
<1> QED BY <1>2, <1>3

LEMMA LeaveConversationRowMoves ==
  ASSUME CallsShaped, NEW c \in Calls, LeaveConversationRow(c)
  PROVE  LET r == call[c].req
         IN \/ part[r.conv][r.user] = None /\ RowMissing(c, "LeaveConversation")
            \/ /\ part[r.conv][r.user] # None
               /\ RowFound(c, "LeaveConversation", clock, LeaveWrites(r.conv, r.user))
<1> DEFINE x == call[c]
           old == part[x.req.conv][x.req.user]
           todo == LeaveWrites(x.req.conv, x.req.user)
<1>1. /\ Goes(c, IF old = None THEN Replied(x, "NOT_A_PARTICIPANT")
                 ELSE [x EXCEPT !.pc = "write", !.at = clock, !.todo = todo])
      /\ UNCHANGED <<load, clock, faults, phase, convVars>>
      /\ FindsTarget(c, "LeaveConversation")
  BY DEF LeaveConversationRow, LeaveWrites
<1> HIDE DEF todo
<1>2. CASE old = None
  <2>1. Goes(c, Replied(call[c], "NOT_A_PARTICIPANT")) BY <1>1, <1>2
  <2>2. UNCHANGED <<load, clock, faults, phase, convVars>> /\ FindsTarget(c, "LeaveConversation")
    BY <1>1
  <2>3. "NOT_A_PARTICIPANT" \notin {"OK", "none"} OBVIOUS
  <2>4. RowMissing(c, "LeaveConversation") BY <2>1, <2>2, <2>3, GoesWrong, Zenon
  <2> QED BY <1>2, <2>4
<1>3. CASE old # None BY <1>1, <1>3, GoesOn DEF todo
<1> QED BY <1>2, <1>3

LEMMA UpdateMetadataRowMoves ==
  ASSUME CallsShaped, NEW c \in Calls, UpdateMetadataRow(c)
  PROVE  LET k == call[c].req.conv
         IN \/ meta[k] = None /\ RowMissing(c, "UpdateConversationMetadata")
            \/ /\ meta[k] # None
               /\ RowFound(c, "UpdateConversationMetadata", clock, UpdateWrites(k))
<1> DEFINE x == call[c]
           old == meta[x.req.conv]
           todo == UpdateWrites(x.req.conv)
<1>1. /\ Goes(c, IF old = None THEN Replied(x, "CONVERSATION_NOT_FOUND")
                 ELSE [x EXCEPT !.pc = "write", !.at = clock, !.todo = todo])
      /\ UNCHANGED <<load, clock, faults, phase, convVars>>
      /\ FindsTarget(c, "UpdateConversationMetadata")
  BY DEF UpdateMetadataRow, UpdateWrites
<1> HIDE DEF todo
<1>2. CASE old = None BY <1>1, <1>2, GoesWrong
<1>3. CASE old # None BY <1>1, <1>3, GoesOn DEF todo
<1> QED BY <1>2, <1>3

\* The fields of S at most differ.
Only(S, x, y) == \A f \in Fields \ S : y[f] = x[f]

\* What makes a call what it is, and what the properties remember of it.
Lasting == {"req", "conv", "rivals", "before"}

\* One step of call c that changes its fields S at most.
Steps(c, S) ==
  /\ CallsShaped' /\ \A d \in Calls : d # c => call'[d] = call[d]
  /\ Only(S, call[c], call'[c]) /\ UNCHANGED <<load, clock, phase>>

LEMMA GoesSteps ==
  ASSUME CallsShaped, NEW c \in Calls, NEW S, NEW x, Shaped(x), Only(S, call[c], x), Goes(c, x),
         UNCHANGED <<load, clock, phase>>
  PROVE  Steps(c, S) /\ call'[c] = x
  BY GoesShaped DEF Steps

\* Such a step is one of Moved.
LEMMA StepsMoves ==
  ASSUME NEW c \in Calls, NEW S, Steps(c, S), S \cap Lasting = {}
  PROVE  Moved(c)
<1>1. /\ call'[c].req = call[c].req /\ call'[c].conv = call[c].conv
      /\ call'[c].rivals = call[c].rivals /\ call'[c].before = call[c].before
  BY DEF Steps, Only, Fields, Lasting
<1>2. Apart(c) BY DEF Steps, Apart, Same
<1> QED BY <1>1, <1>2 DEF Moved, Steps

\* What a handler without a pool writes and reads at its end.
LEMMA RecordOutboxEventMoves ==
  ASSUME CallsShaped, NEW c \in Calls, RecordOutboxEvent(c)
  PROVE  /\ Steps(c, {"todo"}) /\ call[c].pc = "write" /\ Head(call[c].todo).kind = "event"
         /\ call'[c].todo = Tail(call[c].todo)
         /\ UNCHANGED <<faults, conversations, lastConv, direct, meta, part, rows>>
<1> DEFINE x == call[c]
           y == [x EXCEPT !.todo = Tail(@)]
<1>1. Shaped(x) BY DEF CallsShaped
<1>2. Shaped(y) /\ Only({"todo"}, x, y) /\ y.todo = Tail(x.todo)
  BY <1>1 DEF Shaped, Fields, Only
<1>3. Goes(c, y) /\ UNCHANGED <<load, clock, phase>> BY DEF RecordOutboxEvent
<1> HIDE DEF y
<1>4. Steps(c, {"todo"}) /\ call'[c] = y BY <1>2, <1>3, GoesSteps
<1> QED BY <1>2, <1>4 DEF RecordOutboxEvent, NextWrite

LEMMA CloseIfEmptyMoves ==
  ASSUME CallsShaped, NEW c \in Calls, CloseIfEmpty(c)
  PROVE  /\ Steps(c, {"todo"}) /\ call[c].pc = "write" /\ Head(call[c].todo).kind = "close"
         /\ LET k == Head(call[c].todo).conv
            IN IF ListActive(k) = {} /\ meta[k] # None
               THEN call'[c].todo = << SaveMeta(k, "Closed"), Event(k, "Closed"), ThenReply(k) >>
               ELSE call'[c].todo = << ThenReply(k) >>
         /\ UNCHANGED <<faults, convVars>>
<1> DEFINE x == call[c]
           k == Head(x.todo).conv
           todo == IF ListActive(k) = {} /\ meta[k] # None
                   THEN << SaveMeta(k, "Closed"), Event(k, "Closed"), ThenReply(k) >>
                   ELSE << ThenReply(k) >>
           y == [x EXCEPT !.todo = todo]
<1>1. Shaped(x) BY DEF CallsShaped
<1>2. Goes(c, y) /\ UNCHANGED <<load, clock, phase>> BY DEF CloseIfEmpty
<1>3. /\ Shaped(y) /\ Only({"todo"}, x, y) /\ y.todo = todo
  <2> HIDE DEF todo
  <2> QED BY <1>1 DEF Shaped, Fields, Only
<1> HIDE DEF y
<1>4. Steps(c, {"todo"}) /\ call'[c] = y BY <1>2, <1>3, GoesSteps
<1> QED BY <1>3, <1>4 DEF CloseIfEmpty, NextWrite

LEMMA DetailsMoves ==
  ASSUME CallsShaped, NEW c \in Calls, Details(c)
  PROVE  /\ Steps(c, {"pc", "todo", "answer", "shown"}) /\ call[c].pc = "write"
         /\ Head(call[c].todo).kind \in {"details", "view", "reply"}
         /\ call'[c].pc = "done" /\ call'[c].todo = <<>> /\ call'[c].answer # "none"
         /\ Head(call[c].todo).kind # "view" => call'[c].answer = "OK"
         /\ UNCHANGED <<faults, convVars>>
<1> DEFINE x == call[c]
           w == Head(x.todo)
           view == CanView(x.req.user, w.conv)
           next == [x EXCEPT !.shown = IF view = "OK" THEN ListActive(w.conv) ELSE {}]
           y1 == Replied(x, "OK")
           e == IF w.kind = "view" THEN view ELSE "OK"
           y2 == Replied(next, e)
           y == IF w.kind = "reply" THEN y1 ELSE y2
<1>1. Shaped(x) BY DEF CallsShaped
<1>2. Goes(c, y) /\ UNCHANGED <<load, clock, phase>> BY DEF Details
<1>3. Shaped(next) /\ Only({"shown"}, x, next) BY <1>1 DEF Shaped, Fields, Only
<1>4. e # "none" /\ (w.kind # "view" => e = "OK") BY CanViewIs
<1> HIDE DEF next, e
<1>5. /\ Shaped(y1) /\ Only({"pc", "todo", "answer", "shown"}, x, y1)
      /\ y1.pc = "done" /\ y1.todo = <<>> /\ y1.answer = "OK"
  BY <1>1 DEF Replied, Shaped, Fields, Only, ToGrpcStatus
<1>6. /\ Shaped(y2) /\ Only({"pc", "todo", "answer", "shown"}, x, y2)
      /\ y2.pc = "done" /\ y2.todo = <<>> /\ y2.answer # "none"
      /\ (e = "OK" => y2.answer = "OK")
  <2>1. /\ Shaped(y2) /\ y2.pc = "done" /\ y2.todo = <<>> /\ y2.answer = ToGrpcStatus(e)
        /\ Only({"pc", "todo", "answer"}, next, y2)
    BY <1>3 DEF Replied, Shaped, Fields, Only
  <2>2. Only({"pc", "todo", "answer", "shown"}, x, y2) BY <1>3, <2>1 DEF Only
  <2> QED BY <1>4, <2>1, <2>2, StatusOf
<1>7. /\ Shaped(y) /\ Only({"pc", "todo", "answer", "shown"}, x, y)
      /\ y.pc = "done" /\ y.todo = <<>> /\ y.answer # "none"
      /\ (w.kind # "view" => y.answer = "OK")
  BY <1>4, <1>5, <1>6
<1> HIDE DEF y
<1>8. Steps(c, {"pc", "todo", "answer", "shown"}) /\ call'[c] = y BY <1>2, <1>7, GoesSteps
<1> QED BY <1>7, <1>8 DEF Details

\* A call goes on with the devices of u: a handler with its task or with a
\* refusal, a submission with the next user or with the targets.
DeviceResolved(c) ==
  /\ call[c].pc = "device" /\ Steps(c, {"asked", "pc", "todo", "answer"}) /\ call'[c].asked = None
  /\ \/ Fails(call[c], call'[c])
     \/ call'[c].pc = "submit" /\ call'[c].todo = call[c].todo /\ call'[c].answer = call[c].answer

UserResolved(c, u, devs) ==
  /\ call[c].pc # "device" /\ call[c].task = "resolve"
  /\ Steps(c, {"asked", "users", "dir", "task"}) /\ call'[c].asked = None
  /\ call'[c].users = call[c].users \ {u}
  /\ call'[c].dir = Extended(call[c].dir, u, [devs |-> devs, at |-> clock])
  /\ call'[c].task = IF call[c].users = {u} THEN "targets" ELSE "resolve"

LEMMA ResolvedMoves ==
  ASSUME CallsShaped, NEW c \in Calls, NEW u, NEW devs, Resolving(c),
         Goes(c, Resolved(c, u, devs)), UNCHANGED <<load, clock, phase>>
  PROVE  DeviceResolved(c) \/ UserResolved(c, u, devs)
<1> DEFINE x == call[c]
<1>1. Shaped(x) BY DEF CallsShaped
<1>2. CASE x.pc = "device"
  <2> DEFINE z == [x EXCEPT !.asked = None]
             y1 == Replied(z, "DEVICE_REVOKED")
             y2 == [x EXCEPT !.pc = "submit", !.asked = None]
             y == IF DeviceRefused(x.req, devs) THEN y1 ELSE y2
  <2>1. Goes(c, y) BY <1>2 DEF Resolved
  <2>2. /\ Shaped(y1) /\ Only({"asked", "pc", "todo", "answer"}, x, y1)
        /\ y1.asked = None /\ Fails(x, y1)
    BY <1>1 DEF Replied, Shaped, Fields, Only, ToGrpcStatus, Fails
  <2>3. /\ Shaped(y2) /\ Only({"asked", "pc", "todo", "answer"}, x, y2)
        /\ y2.asked = None /\ y2.pc = "submit" /\ y2.todo = x.todo /\ y2.answer = x.answer
    BY <1>1 DEF Shaped, Fields, Only
  <2>4. /\ Shaped(y) /\ Only({"asked", "pc", "todo", "answer"}, x, y) /\ y.asked = None
        /\ \/ Fails(x, y)
           \/ y.pc = "submit" /\ y.todo = x.todo /\ y.answer = x.answer
    BY <2>2, <2>3
  <2> HIDE DEF y
  <2>5. Steps(c, {"asked", "pc", "todo", "answer"}) /\ call'[c] = y BY <2>1, <2>4, GoesSteps
  <2> QED BY <1>2, <2>4, <2>5 DEF DeviceResolved
<1>3. CASE x.pc # "device"
  <2> DEFINE entry == [devs |-> devs, at |-> clock]
             task == IF x.users = {u} THEN "targets" ELSE "resolve"
             dir == Extended(x.dir, u, entry)
             y == [x EXCEPT !.asked = None, !.users = @ \ {u}, !.dir = dir, !.task = task]
  <2>1. Goes(c, y) BY <1>1, <1>3 DEF Resolved, Shaped, Fields
  <2>2. /\ Shaped(y) /\ Only({"asked", "users", "dir", "task"}, x, y)
        /\ y.asked = None /\ y.users = x.users \ {u} /\ y.dir = dir /\ y.task = task
    <3> HIDE DEF dir, task
    <3> QED BY <1>1 DEF Shaped, Fields, Only
  <2> HIDE DEF y
  <2>3. Steps(c, {"asked", "users", "dir", "task"}) /\ call'[c] = y BY <2>1, <2>2, GoesSteps
  <2> QED BY <1>3, <2>2, <2>3 DEF UserResolved, Resolving
<1> QED BY <1>2, <1>3

Unanswered(c) ==
  \/ /\ call[c].pc = "device" /\ Steps(c, {"asked", "pc"})
     /\ call'[c].asked = None /\ call'[c].pc = "submit"
  \/ /\ call[c].pc # "device" /\ call[c].task = "resolve" /\ Steps(c, {"asked", "task", "res"})
     /\ call'[c].asked = None /\ call'[c].task = "finished" /\ call'[c].res = "UNSPECIFIED"

LEMMA UnresolvedMoves ==
  ASSUME CallsShaped, NEW c \in Calls, Resolving(c),
         Goes(c, Unresolved(c)), UNCHANGED <<load, clock, phase>>
  PROVE  Unanswered(c)
<1> DEFINE x == call[c]
<1>1. Shaped(x) BY DEF CallsShaped
<1>2. CASE x.pc = "device"
  <2> DEFINE y == [x EXCEPT !.pc = "submit", !.asked = None]
  <2>1. Goes(c, y) BY <1>2 DEF Unresolved
  <2>2. Shaped(y) /\ Only({"asked", "pc"}, x, y) /\ y.asked = None /\ y.pc = "submit"
    BY <1>1 DEF Shaped, Fields, Only
  <2> HIDE DEF y
  <2>3. Steps(c, {"asked", "pc"}) /\ call'[c] = y BY <2>1, <2>2, GoesSteps
  <2> QED BY <1>2, <2>2, <2>3 DEF Unanswered
<1>3. CASE x.pc # "device"
  <2> DEFINE y == [x EXCEPT !.asked = None, !.task = "finished", !.res = "UNSPECIFIED"]
  <2>1. Goes(c, y) BY <1>3 DEF Unresolved
  <2>2. /\ Shaped(y) /\ Only({"asked", "task", "res"}, x, y) /\ y.asked = None
        /\ y.task = "finished" /\ y.res = "UNSPECIFIED"
    BY <1>1 DEF Shaped, Fields, Only
  <2> HIDE DEF y
  <2>3. Steps(c, {"asked", "task", "res"}) /\ call'[c] = y BY <2>1, <2>2, GoesSteps
  <2> QED BY <1>3, <2>2, <2>3 DEF Unanswered, Resolving
<1> QED BY <1>2, <1>3

\* The steps of the directory.
Hits(c) ==
  LET u == UserOf(c)
  IN /\ call[c].asked = None /\ Valid(u) /\ cache' = GetCached(u)
     /\ DeviceResolved(c) \/ UserResolved(c, u, Entry(u).devs)
     /\ UNCHANGED <<faults, convVars, status, since>>

Asks(c) ==
  LET u == UserOf(c)
  IN /\ Resolving(c) /\ call[c].asked = None /\ ~Valid(u) /\ cache' = Without(u)
     /\ Steps(c, {"asked"}) /\ call'[c].asked = [user |-> u, at |-> clock, devs |-> None]
     /\ UNCHANGED <<faults, convVars, status, since>>

Reads(c) ==
  LET a == call[c].asked
  IN /\ Resolving(c) /\ a # None /\ a.devs = None /\ Steps(c, {"asked"})
     /\ call'[c].asked = [a EXCEPT !.devs = Snapshot(a.user)]
     /\ UNCHANGED <<faults, convVars, dirVars>>

Receives(c) ==
  LET a == call[c].asked
  IN /\ a # None /\ a.devs # None /\ clock <= a.at + RpcTimeout
     /\ cache' = PutCached(a.user, a.devs)
     /\ DeviceResolved(c) \/ UserResolved(c, a.user, a.devs)
     /\ UNCHANGED <<faults, convVars, status, since>>

GivesUp(c) ==
  /\ Unanswered(c) /\ call[c].asked # None
  /\ faults' = faults \/ (faults < load.faults /\ faults' = faults + 1)
  /\ UNCHANGED <<convVars, dirVars>>

LEMMA DirectoryMoves ==
  ASSUME CallsShaped, NEW c \in Calls, DirectoryStep(c)
  PROVE  Hits(c) \/ Asks(c) \/ Reads(c) \/ Receives(c) \/ GivesUp(c)
<1> DEFINE x == call[c]
<1>0. Shaped(x) BY DEF CallsShaped
<1>1. CASE CacheHit(c)
  <2> DEFINE u == UserOf(c)
  <2>1. /\ Resolving(c) /\ Goes(c, Resolved(c, u, Entry(u).devs))
        /\ UNCHANGED <<load, clock, phase>>
    BY <1>1 DEF CacheHit
  <2>2. DeviceResolved(c) \/ UserResolved(c, u, Entry(u).devs) BY <2>1, ResolvedMoves
  <2> QED BY <1>1, <2>2 DEF CacheHit, Hits
<1>2. CASE AskDirectory(c)
  <2> DEFINE a == [user |-> UserOf(c), at |-> clock, devs |-> None]
             y == [x EXCEPT !.asked = a]
  <2>1. Goes(c, y) /\ UNCHANGED <<load, clock, phase>> BY <1>2 DEF AskDirectory
  <2>2. Shaped(y) /\ Only({"asked"}, x, y) /\ y.asked = a BY <1>0 DEF Shaped, Fields, Only
  <2> HIDE DEF y
  <2>3. Steps(c, {"asked"}) /\ call'[c] = y BY <2>1, <2>2, GoesSteps
  <2> QED BY <1>2, <2>2, <2>3 DEF AskDirectory, Asks
<1>3. CASE DirectoryReads(c)
  <2> DEFINE a == [x.asked EXCEPT !.devs = Snapshot(x.asked.user)]
             y == [x EXCEPT !.asked = a]
  <2>1. Goes(c, y) /\ UNCHANGED <<load, clock, phase>>
    BY <1>0, <1>3 DEF DirectoryReads, Shaped, Fields
  <2>2. Shaped(y) /\ Only({"asked"}, x, y) /\ y.asked = a BY <1>0 DEF Shaped, Fields, Only
  <2> HIDE DEF y
  <2>3. Steps(c, {"asked"}) /\ call'[c] = y BY <2>1, <2>2, GoesSteps
  <2> QED BY <1>3, <2>2, <2>3 DEF DirectoryReads, Reads
<1>4. CASE DirectoryAnswers(c)
  <2> DEFINE a == x.asked
  <2>1. /\ Resolving(c) /\ Goes(c, Resolved(c, a.user, a.devs))
        /\ UNCHANGED <<load, clock, phase>>
    BY <1>4 DEF DirectoryAnswers
  <2>2. DeviceResolved(c) \/ UserResolved(c, a.user, a.devs) BY <2>1, ResolvedMoves
  <2> QED BY <1>4, <2>2 DEF DirectoryAnswers, Receives
<1>5. CASE DirectoryFails(c)
  <2>1. Resolving(c) /\ Goes(c, Unresolved(c)) /\ UNCHANGED <<load, clock, phase>>
    BY <1>5 DEF DirectoryFails
  <2>2. Unanswered(c) BY <2>1, UnresolvedMoves
  <2> QED BY <1>5, <2>2 DEF DirectoryFails, GivesUp
<1> QED BY <1>1, <1>2, <1>3, <1>4, <1>5 DEF DirectoryStep

\* The steps of the tasks.  A task that fails:
Failed(y) == y.task = "finished" /\ y.res \notin {"OK", "none"}

\* A write that succeeds, fails, or fails after it took effect.
Faulty(o) ==
  /\ o \in Outcomes
  /\ \/ o = "ok" /\ faults' = faults
     \/ o # "ok" /\ faults < load.faults /\ faults' = faults + 1

SubmitAuthorised(c) ==
  /\ call[c].task = "start" /\ call[c].req.rpc = "SendMessage" /\ Steps(c, {"task", "res"})
  /\ \/ call'[c].task = "members" /\ call'[c].res = call[c].res
     \/ Failed(call'[c])
  /\ UNCHANGED <<faults, convVars, dirVars, taskVars>>

SubmitNamed(c) ==
  /\ call[c].task = "members" /\ call[c].req.rpc = "SendMessage"
  /\ Steps(c, {"task", "res", "users"})
  /\ \/ /\ call'[c].task = "resolve" /\ call'[c].res = call[c].res
        /\ \E people : /\ call'[c].users = people \cup {call[c].req.user}
                       /\ people \in {ListActive(call[c].req.conv),
                                      {call[c].req.user} \cup {Owner[t] : t \in call[c].req.targets}}
     \/ Failed(call'[c]) /\ call'[c].users = call[c].users
  /\ UNCHANGED <<faults, convVars, dirVars, taskVars>>

SubmitNumbered(c) ==
  LET r == call[c].req
      n == Peek(r.conv, month) + 1
  IN /\ call[c].task = "targets" /\ r.rpc = "SendMessage"
     /\ Steps(c, {"task", "res", "seq", "month"})
     /\ \/ /\ TargetsActive(r, call[c].dir) = "OK" /\ call'[c].task = "save"
           /\ call'[c].res = call[c].res /\ call'[c].seq = n /\ call'[c].month = month
           /\ counter' = [counter EXCEPT ![r.conv][month] = n]
        \/ /\ Failed(call'[c]) /\ call'[c].seq = call[c].seq /\ call'[c].month = call[c].month
           /\ counter' = counter
     /\ UNCHANGED <<faults, convVars, dirVars, month, stored, cursor, stripes>>

RowOf(c) == [conv |-> call[c].req.conv, month |-> call[c].month, seq |-> call[c].seq]

SubmitStored(c) ==
  /\ call[c].task = "save" /\ call[c].req.rpc = "SendMessage" /\ Steps(c, {"task", "res"})
  /\ call'[c].task = "finished"
  /\ \E o \in Outcomes :
       /\ Faulty(o) /\ call'[c].res = IF o = "ok" THEN "OK" ELSE "UNSPECIFIED"
       /\ stored' = IF o # "lost" THEN stored \cup {RowOf(c)} ELSE stored
  /\ UNCHANGED <<convVars, dirVars, month, counter, cursor, stripes>>

SyncAuthorised(c) ==
  /\ call[c].task = "start" /\ call[c].req.rpc \in SyncRpcs /\ Steps(c, {"task", "res"})
  /\ \/ call'[c].task = "cursor" /\ call'[c].res = call[c].res
     \/ Failed(call'[c])
  /\ UNCHANGED <<faults, convVars, dirVars, taskVars>>

SyncPlaced(c) ==
  LET r == call[c].req
      from == IF r.seq > 0 THEN r.seq ELSE cursor[EffectiveDevice(r)][r.conv]
      top == Ceiling(r.conv)
  IN /\ call[c].task = "cursor" /\ r.rpc \in SyncRpcs /\ Steps(c, {"task", "res", "seq", "at"})
     /\ counter' = Peeked(r.conv) /\ call'[c].seq = from /\ call'[c].at = top
     /\ \/ from > top /\ Failed(call'[c])
        \/ from >= top /\ call'[c].task = "finished" /\ call'[c].res = "OK"
        \/ ~(from >= top) /\ call'[c].task = "previous" /\ call'[c].res = call[c].res
     /\ UNCHANGED <<faults, convVars, dirVars, month, stored, cursor, stripes>>

SyncReadPrevious(c) ==
  LET r == call[c].req
      b == Batch(r)
      from == call[c].seq
  IN /\ call[c].task = "previous" /\ r.rpc \in SyncRpcs /\ Steps(c, {"task", "month", "page"})
     /\ call'[c].task = "current" /\ call'[c].month = month
     /\ call'[c].page = SequenceRange(r.conv, month - 1, from + 1, from + b + 1, b + 1)
     /\ UNCHANGED <<faults, convVars, dirVars, taskVars>>

CurrentOf(c) ==
  LET r == call[c].req
      b == Batch(r)
      from == call[c].seq
      prev == call[c].page
  IN IF Cardinality(prev) > b THEN {}
     ELSE SequenceRange(r.conv, call[c].month, LastOf(prev, from) + 1, from + b + 1,
                        b + 1 - Cardinality(prev))

SyncReadCurrent(c) ==
  LET p == PageOf(call[c].page \cup CurrentOf(c), Batch(call[c].req), call[c].at)
  IN /\ call[c].task = "current" /\ call[c].req.rpc \in SyncRpcs
     /\ Steps(c, {"task", "res", "page", "more"})
     /\ call'[c].task = "finished" /\ call'[c].res = "OK"
     /\ call'[c].page = p.rows /\ call'[c].more = p.more
     /\ UNCHANGED <<faults, convVars, dirVars, taskVars>>

CursorRead(c) ==
  /\ call[c].task = "start" /\ call[c].req.rpc = "GetSyncCursor"
  /\ Steps(c, {"task", "res", "seq"}) /\ call'[c].task = "finished" /\ call'[c].res = "OK"
  /\ \E o \in Outcomes : Faulty(o)
  /\ UNCHANGED <<convVars, dirVars, taskVars>>

CursorChecked(c) ==
  LET r == call[c].req
  IN /\ call[c].task = "start" /\ r.rpc = "UpdateSyncCursor" /\ Steps(c, {"task", "res"})
     /\ CursorLocked(r) /\ counter' = Peeked(r.conv)
     /\ \/ /\ ~(r.seq < cursor[EffectiveDevice(r)][r.conv]) /\ stripes' = stripes \cup {Stripe(r)}
           /\ call'[c].task = "save" /\ call'[c].res = call[c].res
        \/ Failed(call'[c]) /\ stripes' = stripes
     /\ UNCHANGED <<faults, convVars, dirVars, month, stored, cursor>>

CursorSaved(c) ==
  LET r == call[c].req
  IN /\ call[c].task = "save" /\ r.rpc = "UpdateSyncCursor" /\ Steps(c, {"task", "res"})
     /\ call'[c].task = "finished" /\ stripes' = stripes \ {Stripe(r)}
     /\ \E o \in Outcomes :
          /\ Faulty(o) /\ call'[c].res = IF o = "ok" THEN "OK" ELSE "UNSPECIFIED"
          /\ cursor' = IF o # "lost" THEN [cursor EXCEPT ![EffectiveDevice(r)][r.conv] = r.seq]
                       ELSE cursor
     /\ UNCHANGED <<convVars, dirVars, month, stored, counter>>

\* How the provers read such a step.
LEMMA FinishedFields ==
  ASSUME NEW x, Shaped(x), NEW res, NEW y, y = Finished(x, res)
  PROVE  Shaped(y) /\ Only({"task", "res"}, x, y) /\ y.task = "finished" /\ y.res = res
  BY DEF Finished, Shaped, Fields, Only

LEMMA OutcomeFaulty ==
  ASSUME NEW o \in Outcomes, Outcome(o)
  PROVE  Faulty(o)
  BY DEF Outcome, Faulty

LEMMA SubmitAuthoriseMoves ==
  ASSUME CallsShaped, NEW c \in Calls, SubmitAuthorise(c)
  PROVE  SubmitAuthorised(c)
<1> DEFINE x == call[c]
           r == x.req
           error == FirstError(<< ValidateSubmission(r), CanSend(r.user, r.conv) >>)
           y1 == [x EXCEPT !.task = "members"]
           y2 == Finished(x, error)
           y == IF error = "OK" THEN y1 ELSE y2
<1>1. Goes(c, y) /\ UNCHANGED <<load, clock, phase>> /\ Shaped(x)
  BY DEF SubmitAuthorise, CallsShaped
<1>2. error # "none"
  <2>1. ValidateSubmission(r) # "none" BY FirstErrorOf4 DEF ValidateSubmission, Reject
  <2> QED BY <2>1, FirstErrorOf2, CanSendIs
<1> HIDE DEF error
<1>3. Shaped(y1) /\ Only({"task", "res"}, x, y1) /\ y1.task = "members" /\ y1.res = x.res
  BY <1>1 DEF Shaped, Fields, Only
<1>4. Shaped(y2) /\ Only({"task", "res"}, x, y2) /\ y2.task = "finished" /\ y2.res = error
  BY <1>1, FinishedFields
<1>5. /\ Shaped(y) /\ Only({"task", "res"}, x, y)
      /\ \/ y.task = "members" /\ y.res = x.res
         \/ Failed(y)
  BY <1>2, <1>3, <1>4 DEF Failed
<1> HIDE DEF y
<1>6. Steps(c, {"task", "res"}) /\ call'[c] = y BY <1>1, <1>5, GoesSteps
<1> QED BY <1>5, <1>6 DEF SubmitAuthorise, SubmitAuthorised, TaskAt

LEMMA SubmitMembersMoves ==
  ASSUME CallsShaped, NEW c \in Calls, SubmitMembers(c)
  PROVE  SubmitNamed(c)
<1> DEFINE S == {"task", "res", "users"}
           x == call[c]
           r == x.req
           active == ListActive(r.conv)
           people == IF active = {} THEN {r.user} \cup {Owner[t] : t \in r.targets} ELSE active
           error == FirstError(<< ValidateEnvelope(r), TargetsNamed(r, people) >>)
           y1 == [x EXCEPT !.task = "resolve", !.users = people \cup {r.user}]
           y2 == Finished(x, error)
           y == IF error = "OK" THEN y1 ELSE y2
<1>1. Goes(c, y) /\ UNCHANGED <<load, clock, phase>> /\ Shaped(x)
  BY DEF SubmitMembers, CallsShaped
<1>2. error # "none"
  <2>1. ValidateEnvelope(r) # "none" BY FirstErrorOf2 DEF ValidateEnvelope, Reject
  <2>2. TargetsNamed(r, people) # "none" BY FirstErrorOf2 DEF TargetsNamed, Reject
  <2> QED BY <2>1, <2>2, FirstErrorOf2
<1>3. people \in {ListActive(r.conv), {r.user} \cup {Owner[t] : t \in r.targets}} OBVIOUS
<1> HIDE DEF error, people
<1>4. /\ Shaped(y1) /\ Only(S, x, y1) /\ y1.task = "resolve" /\ y1.res = x.res
      /\ y1.users = people \cup {r.user}
  BY <1>1 DEF Shaped, Fields, Only
<1>5. /\ Shaped(y2) /\ Only(S, x, y2) /\ y2.task = "finished" /\ y2.res = error
      /\ y2.users = x.users
  BY <1>1 DEF Shaped, Fields, Only, Finished
<1>6. /\ Shaped(y) /\ Only(S, x, y)
      /\ \/ y.task = "resolve" /\ y.res = x.res /\ y.users = people \cup {r.user}
         \/ Failed(y) /\ y.users = x.users
  BY <1>2, <1>4, <1>5 DEF Failed
<1> HIDE DEF y
<1>7. Steps(c, S) /\ call'[c] = y BY <1>1, <1>6, GoesSteps
<1> QED BY <1>3, <1>6, <1>7 DEF SubmitMembers, SubmitNamed, TaskAt

LEMMA TargetsActiveIs ==
  ASSUME NEW r, NEW dir
  PROVE  LET known == UNION {DOMAIN dir[u].devs : u \in DOMAIN dir}
             active == {e \in known : dir[Owner[e]].devs[e] = "Active"}
         IN /\ TargetsActive(r, dir) # "none"
            /\ TargetsActive(r, dir) = "OK" =>
                 r.targets \subseteq active /\ active \ {SenderDevice(r)} \subseteq r.targets
<1> DEFINE known == UNION {DOMAIN dir[u].devs : u \in DOMAIN dir}
           active == {e \in known : dir[Owner[e]].devs[e] = "Active"}
<1>1. TargetsActive(r, dir) =
        FirstError(<< Reject(~(r.targets \subseteq known), "INVALID_TARGET_DEVICE"),
                      Reject(~(r.targets \subseteq active), "DEVICE_REVOKED"),
                      Reject(SenderDevice(r) \in known \ active, "DEVICE_REVOKED"),
                      Reject(~(active \ {SenderDevice(r)} \subseteq r.targets),
                             "INVALID_TARGET_DEVICE") >>)
  BY DEF TargetsActive
<1> HIDE DEF known, active
<1>2. /\ TargetsActive(r, dir) # "none"
      /\ TargetsActive(r, dir) = "OK" =>
           r.targets \subseteq active /\ active \ {SenderDevice(r)} \subseteq r.targets
  BY <1>1, FirstErrorOf4 DEF Reject
<1> QED BY <1>2 DEF known, active

LEMMA SubmitAllocateMoves ==
  ASSUME CallsShaped, NEW c \in Calls, SubmitAllocate(c)
  PROVE  SubmitNumbered(c)
<1> DEFINE S == {"task", "res", "seq", "month"}
           x == call[c]
           r == x.req
           n == Peek(r.conv, month) + 1
           error == TargetsActive(r, x.dir)
           y1 == [x EXCEPT !.task = "save", !.seq = n, !.month = month]
           y2 == Finished(x, error)
           y == IF error = "OK" THEN y1 ELSE y2
<1>1. Goes(c, y) /\ UNCHANGED <<load, clock, phase>> /\ Shaped(x)
  BY DEF SubmitAllocate, CallsShaped
<1>2. error # "none" BY TargetsActiveIs
<1>3. counter' = IF error = "OK" THEN [counter EXCEPT ![r.conv][month] = n] ELSE counter
  BY DEF SubmitAllocate
<1> HIDE DEF n
<1>4. /\ Shaped(y1) /\ Only(S, x, y1) /\ y1.task = "save" /\ y1.res = x.res
      /\ y1.seq = n /\ y1.month = month
  BY <1>1 DEF Shaped, Fields, Only
<1>5. /\ Shaped(y2) /\ Only(S, x, y2) /\ y2.task = "finished" /\ y2.res = error
      /\ y2.seq = x.seq /\ y2.month = x.month
  <2> HIDE DEF error
  <2> QED BY <1>1 DEF Shaped, Fields, Only, Finished
<1>6. /\ Shaped(y) /\ Only(S, x, y)
      /\ \/ /\ error = "OK" /\ y.task = "save" /\ y.res = x.res /\ y.seq = n
            /\ y.month = month
         \/ error # "OK" /\ Failed(y) /\ y.seq = x.seq /\ y.month = x.month
  <2> HIDE DEF error
  <2> QED BY <1>2, <1>4, <1>5 DEF Failed
<1> HIDE DEF y
<1>7. Steps(c, S) /\ call'[c] = y BY <1>1, <1>6, GoesSteps
<1>8. /\ x.task = "targets" /\ r.rpc = "SendMessage"
      /\ UNCHANGED <<faults, convVars, dirVars, month, stored, cursor, stripes>>
  BY DEF SubmitAllocate, TaskAt
<1>9. \/ /\ error = "OK" /\ call'[c].task = "save" /\ call'[c].res = x.res
         /\ call'[c].seq = n /\ call'[c].month = month
         /\ counter' = [counter EXCEPT ![r.conv][month] = n]
      \/ /\ Failed(call'[c]) /\ call'[c].seq = x.seq /\ call'[c].month = x.month
         /\ counter' = counter
  <2> HIDE DEF error
  <2> QED BY <1>3, <1>6, <1>7
<1> QED BY <1>7, <1>8, <1>9 DEF SubmitNumbered, n

LEMMA SubmitSaveMoves ==
  ASSUME CallsShaped, NEW c \in Calls, SubmitSave(c)
  PROVE  SubmitStored(c)
<1> DEFINE x == call[c]
<1>1. PICK o \in Outcomes :
        /\ TaskAt(c, "SendMessage", "save") /\ Outcome(o)
        /\ stored' = IF Applied(o) THEN stored \cup {RowOf(c)} ELSE stored
        /\ Goes(c, Finished(x, IF o = "ok" THEN "OK" ELSE "UNSPECIFIED"))
        /\ UNCHANGED <<load, clock, phase, convVars, dirVars, month, counter, cursor, stripes>>
  BY DEF SubmitSave, RowOf
<1> DEFINE res == IF o = "ok" THEN "OK" ELSE "UNSPECIFIED"
           y == Finished(x, res)
<1>2. Shaped(x) /\ Goes(c, y) /\ UNCHANGED <<load, clock, phase>> BY <1>1 DEF CallsShaped
<1>3. Shaped(y) /\ Only({"task", "res"}, x, y) /\ y.task = "finished" /\ y.res = res
  <2> HIDE DEF res
  <2> QED BY <1>2, FinishedFields
<1> HIDE DEF y
<1>4. Steps(c, {"task", "res"}) /\ call'[c] = y BY <1>2, <1>3, GoesSteps
<1> QED BY <1>1, <1>3, <1>4, OutcomeFaulty DEF SubmitStored, TaskAt, Applied

LEMMA SyncAuthoriseMoves ==
  ASSUME CallsShaped, NEW c \in Calls, SyncAuthorise(c)
  PROVE  SyncAuthorised(c)
<1> DEFINE x == call[c]
           error == CanView(x.req.user, x.req.conv)
           y1 == [x EXCEPT !.task = "cursor"]
           y2 == Finished(x, error)
           y == IF error = "OK" THEN y1 ELSE y2
<1>1. Goes(c, y) /\ UNCHANGED <<load, clock, phase>> /\ Shaped(x)
  BY DEF SyncAuthorise, CallsShaped
<1>2. error # "none" BY CanViewIs
<1> HIDE DEF error
<1>3. Shaped(y1) /\ Only({"task", "res"}, x, y1) /\ y1.task = "cursor" /\ y1.res = x.res
  BY <1>1 DEF Shaped, Fields, Only
<1>4. Shaped(y2) /\ Only({"task", "res"}, x, y2) /\ y2.task = "finished" /\ y2.res = error
  BY <1>1, FinishedFields
<1>5. /\ Shaped(y) /\ Only({"task", "res"}, x, y)
      /\ \/ y.task = "cursor" /\ y.res = x.res
         \/ Failed(y)
  BY <1>2, <1>3, <1>4 DEF Failed
<1> HIDE DEF y
<1>6. Steps(c, {"task", "res"}) /\ call'[c] = y BY <1>1, <1>5, GoesSteps
<1> QED BY <1>5, <1>6 DEF SyncAuthorise, SyncAuthorised, SyncAt

LEMMA SyncCursorMoves ==
  ASSUME CallsShaped, NEW c \in Calls, SyncCursor(c)
  PROVE  SyncPlaced(c)
<1> DEFINE S == {"task", "res", "seq", "at"}
           x == call[c]
           r == x.req
           from == IF r.seq > 0 THEN r.seq ELSE cursor[EffectiveDevice(r)][r.conv]
           top == Ceiling(r.conv)
           next == [x EXCEPT !.seq = from, !.at = top]
           y1 == Finished(next, "CURSOR_OUT_OF_BOUNDS")
           y2 == Finished(next, "OK")
           y3 == [next EXCEPT !.task = "previous"]
           y == IF from > top /\ top > 0 THEN y1 ELSE IF from >= top THEN y2 ELSE y3
<1>1. Goes(c, y) /\ UNCHANGED <<load, clock, phase>> /\ Shaped(x)
  BY DEF SyncCursor, CallsShaped
<1>2. /\ counter' = Peeked(r.conv) /\ x.task = "cursor" /\ r.rpc \in SyncRpcs
      /\ UNCHANGED <<faults, convVars, dirVars, month, stored, cursor, stripes>>
  BY DEF SyncCursor, SyncAt
<1>3. /\ Shaped(y) /\ Only(S, x, y) /\ y.seq = from /\ y.at = top
      /\ \/ from > top /\ Failed(y)
         \/ from >= top /\ y.task = "finished" /\ y.res = "OK"
         \/ ~(from >= top) /\ y.task = "previous" /\ y.res = x.res
  <2> HIDE DEF from, top
  <2>1. /\ Shaped(y1) /\ Only(S, x, y1) /\ y1.seq = from /\ y1.at = top
        /\ y1.task = "finished" /\ y1.res = "CURSOR_OUT_OF_BOUNDS"
    BY <1>1 DEF Shaped, Fields, Only, Finished
  <2>2. /\ Shaped(y2) /\ Only(S, x, y2) /\ y2.seq = from /\ y2.at = top
        /\ y2.task = "finished" /\ y2.res = "OK"
    BY <1>1 DEF Shaped, Fields, Only, Finished
  <2>3. /\ Shaped(y3) /\ Only(S, x, y3) /\ y3.seq = from /\ y3.at = top
        /\ y3.task = "previous" /\ y3.res = x.res
    BY <1>1 DEF Shaped, Fields, Only
  <2> HIDE DEF y1, y2, y3
  <2>4. CASE from > top /\ top > 0 BY <2>1, <2>4 DEF Failed
  <2>5. CASE ~(from > top /\ top > 0) /\ from >= top BY <2>2, <2>5
  <2>6. CASE ~(from > top /\ top > 0) /\ ~(from >= top) BY <2>3, <2>6
  <2> QED BY <2>4, <2>5, <2>6
<1> HIDE DEF y
<1>4. Steps(c, S) /\ call'[c] = y BY <1>1, <1>3, GoesSteps
<1> HIDE DEF from, top
<1>5. /\ Steps(c, S) /\ call'[c].seq = from /\ call'[c].at = top
      /\ \/ from > top /\ Failed(call'[c])
         \/ from >= top /\ call'[c].task = "finished" /\ call'[c].res = "OK"
         \/ ~(from >= top) /\ call'[c].task = "previous" /\ call'[c].res = x.res
  BY <1>3, <1>4
<1> QED BY <1>2, <1>5 DEF SyncPlaced, from, top

LEMMA SyncPreviousMoves ==
  ASSUME CallsShaped, NEW c \in Calls, SyncPrevious(c)
  PROVE  SyncReadPrevious(c)
<1> DEFINE x == call[c]
           r == x.req
           b == Batch(r)
           page == SequenceRange(r.conv, month - 1, x.seq + 1, x.seq + b + 1, b + 1)
           y == [x EXCEPT !.task = "current", !.month = month, !.page = page]
<1>1. Goes(c, y) /\ UNCHANGED <<load, clock, phase>> /\ Shaped(x)
  BY DEF SyncPrevious, CallsShaped
<1>2. /\ Shaped(y) /\ Only({"task", "month", "page"}, x, y) /\ y.task = "current"
      /\ y.month = month /\ y.page = page
  <2> HIDE DEF page
  <2> QED BY <1>1 DEF Shaped, Fields, Only
<1> HIDE DEF y
<1>3. Steps(c, {"task", "month", "page"}) /\ call'[c] = y BY <1>1, <1>2, GoesSteps
<1> QED BY <1>2, <1>3 DEF SyncPrevious, SyncReadPrevious, SyncAt

LEMMA SyncCurrentMoves ==
  ASSUME CallsShaped, NEW c \in Calls, SyncCurrent(c)
  PROVE  SyncReadCurrent(c)
<1> DEFINE S == {"task", "res", "page", "more"}
           x == call[c]
           p == PageOf(x.page \cup CurrentOf(c), Batch(x.req), x.at)
           y == Finished([x EXCEPT !.page = p.rows, !.more = p.more], "OK")
<1>1. Goes(c, y) /\ UNCHANGED <<load, clock, phase>> /\ Shaped(x)
  BY DEF SyncCurrent, CallsShaped, CurrentOf
<1>2. /\ Shaped(y) /\ Only(S, x, y) /\ y.task = "finished" /\ y.res = "OK"
      /\ y.page = p.rows /\ y.more = p.more
  <2> HIDE DEF p
  <2> QED BY <1>1 DEF Shaped, Fields, Only, Finished
<1> HIDE DEF y
<1>3. Steps(c, S) /\ call'[c] = y BY <1>1, <1>2, GoesSteps
<1>4. /\ x.task = "current" /\ x.req.rpc \in SyncRpcs
      /\ UNCHANGED <<faults, convVars, dirVars, taskVars>>
  BY DEF SyncCurrent, SyncAt
<1> QED BY <1>2, <1>3, <1>4 DEF SyncReadCurrent

LEMMA GetCursorMoves ==
  ASSUME CallsShaped, NEW c \in Calls, GetCursor(c)
  PROVE  CursorRead(c)
<1> DEFINE x == call[c]
           r == x.req
<1>1. PICK o \in {"ok", "lost"} :
        /\ TaskAt(c, "GetSyncCursor", "start") /\ Outcome(o)
        /\ Goes(c, Finished([x EXCEPT !.seq =
                          IF o = "ok" /\ r.conv # None
                          THEN cursor[EffectiveDevice(r)][r.conv] ELSE 0], "OK"))
        /\ UNCHANGED <<load, clock, phase, convVars, dirVars, taskVars>>
  BY DEF GetCursor
<1> DEFINE n == IF o = "ok" /\ r.conv # None THEN cursor[EffectiveDevice(r)][r.conv] ELSE 0
           y == Finished([x EXCEPT !.seq = n], "OK")
<1>2. Goes(c, y) /\ UNCHANGED <<load, clock, phase>> /\ Shaped(x) BY <1>1 DEF CallsShaped
<1>3. /\ Shaped(y) /\ Only({"task", "res", "seq"}, x, y) /\ y.task = "finished"
      /\ y.res = "OK"
  <2> HIDE DEF n
  <2> QED BY <1>2 DEF Shaped, Fields, Only, Finished
<1> HIDE DEF y
<1>4. Steps(c, {"task", "res", "seq"}) /\ call'[c] = y BY <1>2, <1>3, GoesSteps
<1>5. o \in Outcomes /\ Faulty(o) BY <1>1, OutcomeFaulty DEF Outcomes
<1> QED BY <1>1, <1>3, <1>4, <1>5 DEF CursorRead, TaskAt

LEMMA UpdateCursorCheckMoves ==
  ASSUME CallsShaped, NEW c \in Calls, UpdateCursorCheck(c)
  PROVE  CursorChecked(c)
<1> DEFINE x == call[c]
           r == x.req
           low == r.seq < cursor[EffectiveDevice(r)][r.conv]
           error == FirstError(<< Reject(r.seq > Ceiling(r.conv), "CURSOR_OUT_OF_BOUNDS"),
                                  Reject(low, "CURSOR_OUT_OF_BOUNDS") >>)
           y1 == [x EXCEPT !.task = "save"]
           y2 == Finished(x, error)
           y == IF error = "OK" THEN y1 ELSE y2
<1>1. Goes(c, y) /\ UNCHANGED <<load, clock, phase>> /\ Shaped(x)
  BY DEF UpdateCursorCheck, CallsShaped
<1>2. error # "none" /\ (error = "OK" => ~low)
  <2> HIDE DEF low
  <2> QED BY FirstErrorOf2 DEF Reject
<1>3. /\ x.task = "start" /\ r.rpc = "UpdateSyncCursor" /\ CursorLocked(r)
      /\ counter' = Peeked(r.conv)
      /\ UNCHANGED <<faults, convVars, dirVars, month, stored, cursor>>
      /\ stripes' = IF error = "OK" THEN stripes \cup {Stripe(r)} ELSE stripes
  BY DEF UpdateCursorCheck, TaskAt
<1> HIDE DEF error, low
<1>4. Shaped(y1) /\ Only({"task", "res"}, x, y1) /\ y1.task = "save" /\ y1.res = x.res
  BY <1>1 DEF Shaped, Fields, Only
<1>5. Shaped(y2) /\ Only({"task", "res"}, x, y2) /\ y2.task = "finished" /\ y2.res = error
  BY <1>1, FinishedFields
<1>6. /\ Shaped(y) /\ Only({"task", "res"}, x, y)
      /\ \/ error = "OK" /\ y.task = "save" /\ y.res = x.res
         \/ error # "OK" /\ Failed(y)
  BY <1>2, <1>4, <1>5 DEF Failed
<1> HIDE DEF y
<1>7. Steps(c, {"task", "res"}) /\ call'[c] = y BY <1>1, <1>6, GoesSteps
<1>8. \/ ~low /\ stripes' = stripes \cup {Stripe(r)} /\ y.task = "save" /\ y.res = x.res
      \/ Failed(y) /\ stripes' = stripes
  BY <1>2, <1>3, <1>6
<1> QED BY <1>3, <1>7, <1>8 DEF CursorChecked, low

LEMMA UpdateCursorSaveMoves ==
  ASSUME CallsShaped, NEW c \in Calls, UpdateCursorSave(c)
  PROVE  CursorSaved(c)
<1> DEFINE x == call[c]
           r == x.req
<1>1. PICK o \in Outcomes :
        /\ TaskAt(c, "UpdateSyncCursor", "save") /\ Outcome(o)
        /\ cursor' = IF Applied(o) THEN [cursor EXCEPT ![EffectiveDevice(r)][r.conv] = r.seq]
                     ELSE cursor
        /\ stripes' = stripes \ {Stripe(r)}
        /\ Goes(c, Finished(x, IF o = "ok" THEN "OK" ELSE "UNSPECIFIED"))
        /\ UNCHANGED <<load, clock, phase, convVars, dirVars, month, stored, counter>>
  BY DEF UpdateCursorSave
<1> DEFINE res == IF o = "ok" THEN "OK" ELSE "UNSPECIFIED"
           y == Finished(x, res)
<1>2. Shaped(x) /\ Goes(c, y) /\ UNCHANGED <<load, clock, phase>> BY <1>1 DEF CallsShaped
<1>3. Shaped(y) /\ Only({"task", "res"}, x, y) /\ y.task = "finished" /\ y.res = res
  <2> HIDE DEF res
  <2> QED BY <1>2, FinishedFields
<1> HIDE DEF y
<1>4. Steps(c, {"task", "res"}) /\ call'[c] = y BY <1>2, <1>3, GoesSteps
<1> QED BY <1>1, <1>3, <1>4, OutcomeFaulty DEF CursorSaved, TaskAt, Applied

-----------------------------------------------------------------------------
\* The steps of the pools and of the handlers around them.
Submitted(c) ==
  LET r == call[c].req
      p == PoolOf(r)
  IN /\ call[c].pc = "submit" /\ Steps(c, {"pc", "task", "todo", "answer"})
     /\ \/ /\ call'[c].pc = "wait" /\ call'[c].task = "queued" /\ call'[c].todo = call[c].todo
           /\ call'[c].answer = call[c].answer
           /\ queue' = [queue EXCEPT ![p] = Append(@, c)] /\ ~(Len(queue[p]) >= QueueCapacity)
           /\ r.rpc \in SyncRpcs => r.conv # None
        \/ Fails(call[c], call'[c]) /\ call'[c].task = call[c].task /\ queue' = queue
     /\ UNCHANGED <<faults, tables, limits, overrides>>

LEMMA SubmitMoves ==
  ASSUME CallsShaped, NEW c \in Calls, Submit(c)
  PROVE  Submitted(c)
<1> DEFINE S == {"pc", "task", "todo", "answer"}
           x == call[c]
           r == x.req
           p == PoolOf(r)
           full == Len(queue[p]) >= QueueCapacity
           blank == r.rpc \in SyncRpcs /\ r.conv = None
           error == FirstError(<<
             Reject(blank, "CONVERSATION_NOT_FOUND"),
             Reject(r.rpc = "SyncDeviceMessages" /\ r.seq < 0, "CURSOR_OUT_OF_BOUNDS"),
             Reject(full, "QUEUE_CAPACITY_EXCEEDED") >>)
           y1 == [x EXCEPT !.pc = "wait", !.task = "queued"]
           y2 == Replied(x, error)
           y == IF error = "OK" THEN y1 ELSE y2
<1>1. Goes(c, y) /\ UNCHANGED <<load, clock, phase>> /\ Shaped(x) BY DEF Submit, CallsShaped
<1>2. error # "none" /\ (error = "OK" => ~blank /\ ~full)
  <2> HIDE DEF blank, full
  <2> QED BY FirstErrorOf3 DEF Reject
<1>3. /\ x.pc = "submit" /\ UNCHANGED <<faults, tables, limits, overrides>>
      /\ queue' = IF error = "OK" THEN [queue EXCEPT ![p] = Append(@, c)] ELSE queue
  BY DEF Submit
<1> HIDE DEF error, full, blank
<1>4. /\ Shaped(y1) /\ Only(S, x, y1) /\ y1.pc = "wait" /\ y1.task = "queued"
      /\ y1.todo = x.todo /\ y1.answer = x.answer
  BY <1>1 DEF Shaped, Fields, Only
<1>5. /\ Shaped(y2) /\ Only(S, x, y2) /\ y2.pc = "done" /\ y2.todo = <<>>
      /\ y2.answer = ToGrpcStatus(error) /\ y2.task = x.task
  BY <1>1 DEF Shaped, Fields, Only, Replied
<1>6. /\ Shaped(y) /\ Only(S, x, y)
      /\ \/ /\ error = "OK" /\ y.pc = "wait" /\ y.task = "queued" /\ y.todo = x.todo
            /\ y.answer = x.answer
         \/ error # "OK" /\ Fails(x, y) /\ y.task = x.task
  BY <1>2, <1>4, <1>5, StatusOf DEF Fails
<1> HIDE DEF y
<1>7. Steps(c, S) /\ call'[c] = y BY <1>1, <1>6, GoesSteps
<1>8. \/ /\ y.pc = "wait" /\ y.task = "queued" /\ y.todo = x.todo /\ y.answer = x.answer
         /\ queue' = [queue EXCEPT ![p] = Append(@, c)] /\ ~full /\ ~blank
      \/ Fails(x, y) /\ y.task = x.task /\ queue' = queue
  BY <1>2, <1>3, <1>6
<1> QED BY <1>3, <1>7, <1>8 DEF Submitted, full, blank

Answered(c) ==
  /\ call[c].pc = "wait" /\ call[c].task = "finished" /\ Steps(c, {"pc", "todo", "answer"})
  /\ call'[c].pc = "done" /\ call'[c].todo = <<>>
  /\ call[c].res # "none" =>
       call'[c].answer # "none" /\ (call'[c].answer = "OK" <=> call[c].res = "OK")
  /\ UNCHANGED <<faults, tables, serviceVars>>

LEMMA AnswerMoves ==
  ASSUME CallsShaped, NEW c \in Calls, Answer(c)
  PROVE  Answered(c)
<1> DEFINE S == {"pc", "todo", "answer"}
           x == call[c]
           y == Replied(x, x.res)
<1>1. Goes(c, y) /\ UNCHANGED <<load, clock, phase>> /\ Shaped(x) BY DEF Answer, CallsShaped
<1>2. /\ Shaped(y) /\ Only(S, x, y) /\ y.pc = "done" /\ y.todo = <<>>
      /\ y.answer = ToGrpcStatus(x.res)
  BY <1>1 DEF Shaped, Fields, Only, Replied
<1> HIDE DEF y
<1>3. Steps(c, S) /\ call'[c] = y BY <1>1, <1>2, GoesSteps
<1>4. x.res # "none" => y.answer # "none" /\ (y.answer = "OK" <=> x.res = "OK")
  BY <1>2, StatusOf
<1> QED BY <1>2, <1>3, <1>4 DEF Answered, Answer

TimedOut(c) ==
  /\ call[c].pc = "wait" /\ call[c].task # "finished" /\ Steps(c, {"pc", "todo", "answer"})
  /\ Fails(call[c], call'[c])
  /\ UNCHANGED <<faults, tables, serviceVars>>

LEMMA DeadlineExceededMoves ==
  ASSUME CallsShaped, NEW c \in Calls, DeadlineExceeded(c)
  PROVE  TimedOut(c)
<1> DEFINE S == {"pc", "todo", "answer"}
           x == call[c]
           y == Replied(x, "DEADLINE_EXCEEDED")
<1>1. Goes(c, y) /\ UNCHANGED <<load, clock, phase>> /\ Shaped(x)
  BY DEF DeadlineExceeded, CallsShaped
<1>2. Shaped(y) /\ Only(S, x, y) /\ Fails(x, y)
  <2>1. /\ Shaped(y) /\ Only(S, x, y) /\ y.pc = "done" /\ y.todo = <<>>
        /\ y.answer = ToGrpcStatus("DEADLINE_EXCEEDED")
    BY <1>1 DEF Shaped, Fields, Only, Replied
  <2> QED BY <2>1, StatusOf DEF Fails
<1> HIDE DEF y
<1>3. Steps(c, S) /\ call'[c] = y BY <1>1, <1>2, GoesSteps
<1> QED BY <1>2, <1>3 DEF TimedOut, DeadlineExceeded

Started(p) ==
  LET c == Head(queue[p])
  IN /\ queue[p] # <<>> /\ queue' = [queue EXCEPT ![p] = Tail(@)]
     /\ Steps(c, {"task"}) /\ call'[c].task = "start"
     /\ UNCHANGED <<faults, tables, limits, overrides>>

LEMMA StartTaskMoves ==
  ASSUME CallsShaped, NEW p, Head(queue[p]) \in Calls, StartTask(p)
  PROVE  Started(p)
<1>0. SUFFICES ASSUME NEW c \in Calls, c = Head(queue[p])
               PROVE  Steps(c, {"task"}) /\ call'[c].task = "start"
  BY DEF Started, StartTask
<1> DEFINE x == call[c]
           y == [x EXCEPT !.task = "start"]
<1>1. Goes(c, y) /\ UNCHANGED <<load, clock, phase>> BY <1>0, Zenon DEF StartTask
<1>2. Shaped(x) BY DEF CallsShaped
<1>3. Shaped(y) /\ Only({"task"}, x, y) /\ y.task = "start" BY <1>2 DEF Shaped, Fields, Only
<1> HIDE DEF y
<1>4. Steps(c, {"task"}) /\ call'[c] = y BY <1>1, <1>3, GoesSteps
<1> QED BY <1>3, <1>4

Delivered(c) ==
  /\ call[c].task = "start" /\ PoolOf(call[c].req) = "delivery" /\ Steps(c, {"task", "res"})
  /\ call'[c].task = "finished" /\ call'[c].res # "none"
  /\ UNCHANGED <<faults, tables, serviceVars>>

LEMMA DeliveryTaskMoves ==
  ASSUME CallsShaped, NEW c \in Calls, DeliveryTask(c)
  PROVE  Delivered(c)
<1> DEFINE x == call[c]
<1>1. PICK res \in {"OK", "INVALID_TARGET_DEVICE"} :
        /\ x.task = "start" /\ PoolOf(x.req) = "delivery" /\ Goes(c, Finished(x, res))
        /\ UNCHANGED <<load, clock, faults, phase, tables, serviceVars>>
  BY DEF DeliveryTask
<1> DEFINE y == Finished(x, res)
<1>2. Goes(c, y) /\ UNCHANGED <<load, clock, phase>> /\ Shaped(x) BY <1>1 DEF CallsShaped
<1>3. Shaped(y) /\ Only({"task", "res"}, x, y) /\ y.task = "finished" /\ y.res = res
  BY <1>2, FinishedFields
<1> HIDE DEF y
<1>4. Steps(c, {"task", "res"}) /\ call'[c] = y BY <1>2, <1>3, GoesSteps
<1> QED BY <1>1, <1>3, <1>4 DEF Delivered

OverrideSet(c) ==
  /\ call[c].pc = "override" /\ Steps(c, {"pc", "todo", "answer"})
  /\ call'[c].pc = "done" /\ call'[c].todo = <<>> /\ call'[c].answer = "OK"
  /\ UNCHANGED <<faults, tables, queue, limits>>

LEMMA SetOverrideMoves ==
  ASSUME CallsShaped, NEW c \in Calls, SetOverride(c)
  PROVE  OverrideSet(c)
<1> DEFINE S == {"pc", "todo", "answer"}
           x == call[c]
           y == Replied(x, "OK")
<1>1. Goes(c, y) /\ UNCHANGED <<load, clock, phase>> /\ Shaped(x)
  BY DEF SetOverride, CallsShaped
<1>2. /\ Shaped(y) /\ Only(S, x, y) /\ y.pc = "done" /\ y.todo = <<>> /\ y.answer = "OK"
  BY <1>1 DEF Shaped, Fields, Only, Replied, ToGrpcStatus
<1> HIDE DEF y
<1>3. Steps(c, S) /\ call'[c] = y BY <1>1, <1>2, GoesSteps
<1> QED BY <1>2, <1>3 DEF OverrideSet, SetOverride

PresenceShown(c) ==
  LET u == CHOOSE v \in call[c].users : TRUE
      x == call[c]
  IN /\ x.pc = "presence" /\ Steps(c, {"users", "shown", "pc", "todo", "answer"})
     /\ call'[c].users = x.users \ {u}
     /\ call'[c].shown = IF SharesMutual(x.req.user, u) THEN x.shown \cup {PresenceOf(u)}
                         ELSE x.shown
     /\ \/ /\ x.users = {u} /\ call'[c].pc = "done" /\ call'[c].todo = <<>>
           /\ call'[c].answer = "OK"
        \/ /\ x.users # {u} /\ call'[c].pc = "presence" /\ call'[c].todo = x.todo
           /\ call'[c].answer = x.answer
     /\ UNCHANGED <<faults, tables, serviceVars>>

LEMMA ShowPresenceMoves ==
  ASSUME CallsShaped, NEW c \in Calls, ShowPresence(c)
  PROVE  PresenceShown(c)
<1> DEFINE S == {"users", "shown", "pc", "todo", "answer"}
           x == call[c]
           u == CHOOSE v \in x.users : TRUE
           shown == IF SharesMutual(x.req.user, u) THEN x.shown \cup {PresenceOf(u)} ELSE x.shown
           next == [x EXCEPT !.users = x.users \ {u}, !.shown = shown]
           y == IF x.users = {u} THEN Replied(next, "OK") ELSE next
<1>1. Shaped(x) BY DEF CallsShaped
<1>2. /\ Goes(c, y) /\ UNCHANGED <<load, clock, phase>> /\ x.pc = "presence"
      /\ UNCHANGED <<faults, tables, serviceVars>>
  BY <1>1 DEF ShowPresence, Shaped, Fields
<1>3. /\ Shaped(y) /\ Only(S, x, y) /\ y.users = x.users \ {u} /\ y.shown = shown
      /\ \/ x.users = {u} /\ y.pc = "done" /\ y.todo = <<>> /\ y.answer = "OK"
         \/ x.users # {u} /\ y.pc = x.pc /\ y.todo = x.todo /\ y.answer = x.answer
  <2> HIDE DEF shown, u
  <2>1. /\ Shaped(next) /\ Only(S, x, next) /\ next.users = x.users \ {u} /\ next.shown = shown
        /\ next.pc = x.pc /\ next.todo = x.todo /\ next.answer = x.answer
    BY <1>1 DEF Shaped, Fields, Only
  <2> DEFINE z == Replied(next, "OK")
  <2>2. /\ Shaped(z) /\ Only(S, x, z) /\ z.users = x.users \ {u} /\ z.shown = shown
        /\ z.pc = "done" /\ z.todo = <<>> /\ z.answer = "OK"
    BY <1>1 DEF Shaped, Fields, Only, Replied, ToGrpcStatus
  <2> HIDE DEF z, next
  <2> QED BY <2>1, <2>2 DEF z
<1> HIDE DEF y
<1>4. Steps(c, S) /\ call'[c] = y BY <1>2, <1>3, GoesSteps
<1> QED BY <1>2, <1>3, <1>4 DEF PresenceShown

-----------------------------------------------------------------------------
(***************************************************************************)
(* The steps of the service                                                *)
(***************************************************************************)
LEMMA OnlyFields ==
  ASSUME NEW S, NEW x, NEW y, Only(S, x, y)
  PROVE  /\ ("req" \notin S => y.req = x.req) /\ ("pc" \notin S => y.pc = x.pc)
         /\ ("task" \notin S => y.task = x.task) /\ ("at" \notin S => y.at = x.at)
         /\ ("todo" \notin S => y.todo = x.todo) /\ ("conv" \notin S => y.conv = x.conv)
         /\ ("users" \notin S => y.users = x.users) /\ ("dir" \notin S => y.dir = x.dir)
         /\ ("asked" \notin S => y.asked = x.asked) /\ ("seq" \notin S => y.seq = x.seq)
         /\ ("month" \notin S => y.month = x.month) /\ ("page" \notin S => y.page = x.page)
         /\ ("more" \notin S => y.more = x.more) /\ ("shown" \notin S => y.shown = x.shown)
         /\ ("res" \notin S => y.res = x.res) /\ ("answer" \notin S => y.answer = x.answer)
         /\ ("rivals" \notin S => y.rivals = x.rivals)
         /\ ("before" \notin S => y.before = x.before)
  BY DEF Only, Fields

\* One step of a conversation RPC.
ConversationMove(c) ==
  /\ ConversationStep(c)
  /\ Moved(c) /\ Inner(call[c], call'[c]) /\ call'[c].users = call[c].users
  /\ call[c].pc \in {"find", "write"} /\ call'[c].pc \in {"write", "done"}
  /\ (call'[c].answer = "none") <=> (call'[c].pc # "done")
  /\ lastConv' = lastConv
  /\ faults' = faults \/ (faults < load.faults /\ faults' = faults + 1)

LEMMA ConversationStepMoves ==
  ASSUME CallsShaped, NEW c \in Calls, ConversationStep(c),
         call[c].pc # "done" => call[c].answer = "none"
  PROVE  ConversationMove(c)
<1>0. UNCHANGED convVars => lastConv' = lastConv BY DEF convVars
<1>1. ASSUME NEW rpc, NEW at, NEW todo, RowFound(c, rpc, at, todo)
      PROVE  ConversationMove(c)
  BY <1>0, <1>1 DEF RowFound, ConversationMove
<1>2. ASSUME NEW rpc, RowMissing(c, rpc)
      PROVE  ConversationMove(c)
  BY <1>0, <1>2 DEF RowMissing, ConversationMove, Fails
<1>3. CASE AddParticipantRow(c) BY <1>1, <1>3, AddParticipantRowMoves
<1>4. CASE RemoveParticipantRow(c) BY <1>1, <1>2, <1>4, RemoveParticipantRowMoves
<1>5. CASE LeaveConversationRow(c) BY <1>1, <1>2, <1>5, LeaveConversationRowMoves
<1>6. CASE UpdateMetadataRow(c) BY <1>1, <1>2, <1>6, UpdateMetadataRowMoves
<1>7. ASSUME NEW kind, NEW o, TableWrite(c, kind, o)
      PROVE  ConversationMove(c)
  <2>1. /\ Moved(c) /\ Inner(call[c], call'[c]) /\ lastConv' = lastConv
        /\ call'[c].users = call[c].users
        /\ o = "ok" => /\ call'[c].pc = call[c].pc /\ call'[c].answer = call[c].answer
                       /\ faults' = faults
        /\ o # "ok" => Fails(call[c], call'[c]) /\ faults' = faults + 1
    BY <1>7, WroteMoves DEF TableWrite
  <2>2. call[c].pc = "write" /\ (o # "ok" => faults < load.faults)
    BY <1>7 DEF TableWrite, Wrote, Outcome
  <2>3. CASE o = "ok" BY <2>1, <2>2, <2>3 DEF ConversationMove
  <2>4. CASE o # "ok" BY <2>1, <2>2, <2>4 DEF ConversationMove, Fails
  <2> QED BY <2>3, <2>4
<1>8. CASE SaveConversation(c) \/ SaveDirectConversation(c) \/ SaveGroupMetadata(c)
             \/ SaveParticipant(c) \/ TouchUserConversation(c)
  BY <1>7, <1>8, SavesAre
<1>9. ASSUME NEW S, S \in {{"todo"}, {"pc", "todo", "answer", "shown"}}, Steps(c, S)
      PROVE  Moved(c) /\ Inner(call[c], call'[c]) /\ call'[c].users = call[c].users
             /\ ("pc" \notin S => call'[c].pc = call[c].pc)
             /\ ("answer" \notin S => call'[c].answer = call[c].answer)
  <2>1. Only(S, call[c], call'[c]) BY <1>9 DEF Steps
  <2>2. Moved(c) BY <1>9, StepsMoves DEF Lasting
  <2> QED BY <1>9, <2>1, <2>2, OnlyFields DEF Inner
<1>10. CASE RecordOutboxEvent(c) BY <1>9, <1>10, RecordOutboxEventMoves DEF ConversationMove
<1>11. CASE CloseIfEmpty(c)
  <2>1. /\ Steps(c, {"todo"}) /\ call[c].pc = "write" /\ UNCHANGED <<faults, convVars>>
    BY <1>11, CloseIfEmptyMoves
  <2> QED BY <1>0, <1>9, <2>1 DEF ConversationMove
<1>12. CASE Details(c)
  <2>1. /\ Steps(c, {"pc", "todo", "answer", "shown"}) /\ call[c].pc = "write"
        /\ call'[c].pc = "done" /\ call'[c].answer # "none" /\ UNCHANGED <<faults, convVars>>
    BY <1>12, DetailsMoves
  <2> QED BY <1>0, <1>9, <2>1 DEF ConversationMove
<1> QED BY <1>3, <1>4, <1>5, <1>6, <1>8, <1>10, <1>11, <1>12 DEF ConversationStep

\* One step of the directory, of a task, of a handler around its task or of the
\* presence RPCs.
DirectoryMove(c) == Hits(c) \/ Asks(c) \/ Reads(c) \/ Receives(c) \/ GivesUp(c)

TaskMove(c) ==
  \/ SubmitAuthorised(c) \/ SubmitNamed(c) \/ SubmitNumbered(c) \/ SubmitStored(c)
  \/ SyncAuthorised(c) \/ SyncPlaced(c) \/ SyncReadPrevious(c) \/ SyncReadCurrent(c)
  \/ CursorRead(c) \/ CursorChecked(c) \/ CursorSaved(c)

HandlerMove(c) == Submitted(c) \/ Answered(c) \/ TimedOut(c) \/ Delivered(c)

PresenceMove(c) == OverrideSet(c) \/ PresenceShown(c)

LEMMA TaskStepMoves ==
  ASSUME CallsShaped, NEW c \in Calls, TaskStep(c)
  PROVE  TaskMove(c)
  BY SubmitAuthoriseMoves, SubmitMembersMoves, SubmitAllocateMoves, SubmitSaveMoves,
     SyncAuthoriseMoves, SyncCursorMoves, SyncPreviousMoves, SyncCurrentMoves,
     GetCursorMoves, UpdateCursorCheckMoves, UpdateCursorSaveMoves DEF TaskStep, TaskMove

\* The arrivals.
ConversationCall(c, r) ==
  /\ Arrived(c, r) /\ r.rpc \in Conversing /\ ConversationArrival(c, r)
  /\ UNCHANGED <<OtherTables, dirVars, taskVars, serviceVars>>

PoolCall(c, r) ==
  /\ Arrived(c, r) /\ r.rpc \in Pooled
  /\ Refused(call'[c], r) \/ (Named(r) /\ Pending(call'[c], r, StartsAt(r), BeforeOf(r)))
  /\ UNCHANGED <<tables, serviceVars>>

StatusCall(c, r) ==
  /\ Arrived(c, r) /\ r.rpc = "GetMessageDeliveryStatus"
  /\ Refused(call'[c], r) \/ StatusRequest(c, r)
  /\ UNCHANGED <<tables, serviceVars>>

UpdateCall(c, r) ==
  /\ Arrived(c, r) /\ r.rpc = "UpdatePresence" /\ UNCHANGED <<tables, queue, overrides>>
  /\ limits' = IF r.user = None THEN limits
               ELSE [limits EXCEPT ![r.user] =
                       IF Full(r) THEN Recent(r.user) ELSE Append(Recent(r.user), clock)]
  /\ \/ Refused(call'[c], r) /\ (r.user = None \/ Full(r))
     \/ PresenceRequest(c, r) /\ ~Full(r)

PresenceCall(c, r) ==
  /\ Arrived(c, r) /\ r.rpc = "GetPresence"
  /\ Refused(call'[c], r) \/ PresenceRequest(c, r)
  /\ UNCHANGED <<tables, serviceVars>>

\* A step that leaves the calls alone.
Ambient ==
  \/ \E d \in Devices : DeviceChanges(d) /\ UNCHANGED <<taskVars, serviceVars>>
  \/ MonthTurns /\ UNCHANGED serviceVars
  \/ Tick /\ UNCHANGED <<tables, serviceVars>>
  \/ StopRequested \/ ServerShutdown \/ DrainAndStop \/ UNCHANGED vars

\* Every step is one of these.
Kinds ==
  \/ \E c \in Calls, r \in load.requests :
       \/ ConversationCall(c, r) \/ PoolCall(c, r) \/ StatusCall(c, r)
       \/ UpdateCall(c, r) \/ PresenceCall(c, r)
  \/ \E c \in Calls :
       /\ phase # "exited"
       /\ \/ ConversationMove(c) /\ UNCHANGED <<dirVars, taskVars, serviceVars>>
          \/ DirectoryMove(c) /\ UNCHANGED <<taskVars, serviceVars>>
          \/ TaskMove(c) /\ UNCHANGED serviceVars
          \/ HandlerMove(c) \/ PresenceMove(c)
  \/ \E p \in Pools : phase # "exited" /\ Started(p)
  \/ Ambient

LEMMA NextKinds ==
  ASSUME CallsShaped, [Next]_vars,
         \A c \in Calls : call[c].pc # "done" => call[c].answer = "none",
         \A p \in Pools : queue[p] # <<>> => Head(queue[p]) \in Calls
  PROVE  Kinds
<1>1. CASE UNCHANGED vars BY <1>1 DEF Kinds, Ambient
<1>2. ASSUME NEW c \in Calls, NEW r \in load.requests,
             \/ ConversationRequest(c, r) /\ UNCHANGED <<dirVars, taskVars, serviceVars>>
             \/ PoolRequest(c, r) \/ GetMessageDeliveryStatus(c, r)
             \/ UpdatePresence(c, r) \/ GetPresence(c, r)
      PROVE  Kinds
  <2>1. CASE ConversationRequest(c, r) /\ UNCHANGED <<dirVars, taskVars, serviceVars>>
    BY <2>1, ConversationRequestArrives DEF ConversationCall, Kinds
  <2>2. CASE PoolRequest(c, r) BY <2>2, PoolRequestArrives DEF PoolCall, Kinds
  <2>3. CASE GetMessageDeliveryStatus(c, r) BY <2>3, StatusArrives DEF StatusCall, Kinds
  <2>4. CASE UpdatePresence(c, r) BY <2>4, UpdatePresenceArrives DEF UpdateCall, Kinds
  <2>5. CASE GetPresence(c, r) BY <2>5, GetPresenceArrives DEF PresenceCall, Kinds
  <2> QED BY <1>2, <2>1, <2>2, <2>3, <2>4, <2>5
<1>3. ASSUME NEW c \in Calls, Alive,
             \/ ConversationStep(c) /\ UNCHANGED <<dirVars, taskVars, serviceVars>>
             \/ DirectoryStep(c) /\ UNCHANGED <<taskVars, serviceVars>>
             \/ TaskStep(c) /\ UNCHANGED serviceVars
             \/ Submit(c) \/ Answer(c) \/ DeadlineExceeded(c) \/ DeliveryTask(c)
             \/ SetOverride(c) \/ ShowPresence(c)
      PROVE  Kinds
  <2>0. phase # "exited" BY <1>3 DEF Alive
  <2>1. CASE ConversationStep(c) /\ UNCHANGED <<dirVars, taskVars, serviceVars>>
    BY <2>0, <2>1, ConversationStepMoves DEF Kinds
  <2>2. CASE DirectoryStep(c) /\ UNCHANGED <<taskVars, serviceVars>>
    BY <2>0, <2>2, DirectoryMoves DEF DirectoryMove, Kinds
  <2>3. CASE TaskStep(c) /\ UNCHANGED serviceVars BY <2>0, <2>3, TaskStepMoves DEF Kinds
  <2>4. CASE Submit(c) \/ Answer(c) \/ DeadlineExceeded(c) \/ DeliveryTask(c)
    BY <2>0, <2>4, SubmitMoves, AnswerMoves, DeadlineExceededMoves, DeliveryTaskMoves
       DEF HandlerMove, Kinds
  <2>5. CASE SetOverride(c) \/ ShowPresence(c)
    BY <2>0, <2>5, SetOverrideMoves, ShowPresenceMoves DEF PresenceMove, Kinds
  <2> QED BY <1>3, <2>1, <2>2, <2>3, <2>4, <2>5
<1>4. ASSUME NEW p \in Pools, Alive, StartTask(p)
      PROVE  Kinds
  BY <1>4, StartTaskMoves DEF StartTask, Alive, Kinds
<1>5. ASSUME Next PROVE Kinds
  <2>1. CASE \E c \in Calls, r \in load.requests :
             \/ ConversationRequest(c, r) /\ UNCHANGED <<dirVars, taskVars, serviceVars>>
             \/ SendMessage(c, r) \/ GetMessages(c, r) \/ SyncDeviceMessages(c, r)
             \/ AcknowledgeDelivery(c, r) \/ SendReadReceipt(c, r)
             \/ GetMessageDeliveryStatus(c, r)
             \/ GetSyncCursor(c, r) \/ UpdateSyncCursor(c, r)
             \/ UpdatePresence(c, r) \/ GetPresence(c, r)
    BY <1>2, <2>1 DEF PoolRequest
  <2>2. CASE \E c \in Calls :
             /\ Alive
             /\ \/ ConversationStep(c) /\ UNCHANGED <<dirVars, taskVars, serviceVars>>
                \/ DirectoryStep(c) /\ UNCHANGED <<taskVars, serviceVars>>
                \/ TaskStep(c) /\ UNCHANGED serviceVars
                \/ Submit(c) \/ Answer(c) \/ DeadlineExceeded(c) \/ DeliveryTask(c)
                \/ SetOverride(c) \/ ShowPresence(c)
    BY <1>3, <2>2
  <2>3. CASE \E p \in Pools : Alive /\ StartTask(p) BY <1>4, <2>3
  <2>4. CASE \/ \E d \in Devices : DeviceChanges(d) /\ UNCHANGED <<taskVars, serviceVars>>
             \/ MonthTurns /\ UNCHANGED serviceVars
             \/ Tick /\ UNCHANGED <<tables, serviceVars>>
             \/ StopRequested \/ ServerShutdown \/ DrainAndStop \/ Exited
    BY <2>4 DEF Exited, Kinds, Ambient
  <2> QED BY <1>5, <2>1, <2>2, <2>3, <2>4 DEF Next
<1> QED BY <1>1, <1>5

-----------------------------------------------------------------------------
(***************************************************************************)
(* The calls and the pools                                                 *)
(***************************************************************************)
Positions == {"idle", "find", "write", "device", "submit", "wait", "override", "presence", "done"}
TaskPositions == {"none", "queued", "start", "members", "resolve", "targets", "save", "cursor",
                  "previous", "current", "finished"}

\* Which positions a handler and its task may have at the same time, for which
\* requests.
CallFits(x) ==
  /\ x.pc \in Positions /\ x.task \in TaskPositions
  /\ x.pc = "idle" => x.req = None /\ x.task = "none" /\ x.conv = None
  /\ x.pc # "idle" => x.req \in Request
  /\ (x.answer = "none") <=> (x.pc # "done")
  /\ x.pc \in {"find", "write"} => x.req.rpc \in Conversing /\ x.req.user # None
  /\ x.pc = "override" => x.req.rpc = "UpdatePresence" /\ x.req.user # None
  /\ x.pc = "presence" => x.req.rpc = "GetPresence" /\ x.req.user # None /\ x.users # {}
  /\ x.pc \in {"device", "submit", "wait"} => x.req.rpc \in Pooled
  /\ x.pc = "wait" => x.task # "none"
  /\ x.task # "none" => x.req.rpc \in Pooled /\ x.pc \in {"wait", "done"}
  /\ x.pc \in {"device", "submit"} \/ x.task # "none" => Named(x.req)
  /\ x.task # "none" /\ x.req.rpc \in SyncRpcs => x.req.conv # None
  /\ x.task \in {"members", "resolve", "targets"} => x.req.rpc = "SendMessage"
  /\ x.task \in {"cursor", "previous", "current"} => x.req.rpc \in SyncRpcs
  /\ x.task = "save" => x.req.rpc \in {"SendMessage", "UpdateSyncCursor"}
  /\ x.task = "resolve" => x.users # {}
  /\ x.users \subseteq Users
  /\ x.pc = "done" /\ x.answer = "OK" /\ x.req.rpc \in Pooled =>
       x.task = "finished" /\ x.res = "OK"
  /\ x.res # "none"

LEMMA RpcKinds ==
  /\ Conversing \cap Pooled = {} /\ Conversing \cap Inline = {} /\ Pooled \cap Inline = {}
  /\ SyncRpcs \subseteq Pooled /\ Changing \subseteq Conversing
  BY DEF Conversing, Pooled, Inline, SyncRpcs, Changing

LEMMA SameFits ==
  ASSUME NEW x, NEW y, Same(x, y), CallFits(x)
  PROVE  CallFits(y)
  BY DEF Same, CallFits

LEMMA UnusedFits == CallFits(Unused)
  BY DEF CallFits, Unused, Positions, TaskPositions

LEMMA RequestFields ==
  ASSUME NEW r \in Request
  PROVE  /\ r.rpc \in Conversing \cup Pooled \cup Inline /\ r.user \in Users \cup {None}
         /\ r.header \in Devices \cup {None} /\ r.device \in Devices \cup {None}
         /\ r.conv \in Convs \cup {None} /\ r.target \in Users \cup {None}
         /\ r.people \subseteq Users /\ r.seq \in Int /\ r.max \in Nat
         /\ r.targets \subseteq Devices /\ EffectiveDevice(r) \in Devices \cup {None}
<1> DEFINE T == STRING
<1>1. r \in [rpc : Conversing \cup Pooled \cup Inline, user : Users \cup {None}, n : Nat,
       header : Devices \cup {None}, device : Devices \cup {None}, conv : Convs \cup {None},
       target : Users \cup {None}, people : SUBSET Users, title : BOOLEAN, seq : Int,
       max : Nat, targets : SUBSET Devices, env : T, message : BOOLEAN,
       status : T, deadline : Int, cancelled : BOOLEAN]
  BY DEF Request
<1> HIDE DEF T
<1>2. /\ r.rpc \in Conversing \cup Pooled \cup Inline /\ r.user \in Users \cup {None}
      /\ r.header \in Devices \cup {None} /\ r.device \in Devices \cup {None}
      /\ r.conv \in Convs \cup {None} /\ r.target \in Users \cup {None}
      /\ r.people \subseteq Users /\ r.seq \in Int /\ r.max \in Nat
      /\ r.targets \subseteq Devices
  BY <1>1
<1> QED BY <1>2 DEF EffectiveDevice

LEMMA RefusedFits ==
  ASSUME NEW r \in Request, NEW y, Refused(y, r)
  PROVE  CallFits(y)
  BY DEF Refused, Fresh, CallFits, Positions, TaskPositions

LEMMA PendingFits ==
  ASSUME NEW r \in Request, r.rpc \in Pooled, Named(r), NEW y, NEW pc, pc \in {"device", "submit"},
         NEW before, Pending(y, r, pc, before)
  PROVE  CallFits(y)
  BY DEF Pending, Accepted, Fresh, CallFits, Positions, TaskPositions

LEMMA ConversesFits ==
  ASSUME NEW r \in Request, r.rpc \in Conversing, r.user # None, NEW y, NEW pc,
         pc \in {"find", "write"}, NEW at, NEW k, NEW todo, Converses(y, r, pc, at, k, todo)
  PROVE  CallFits(y)
  BY DEF Converses, Accepted, Fresh, CallFits, Positions, TaskPositions

\* A call that has just arrived fits.
LEMMA ArrivalFits ==
  ASSUME NEW c \in Calls, NEW r \in Request,
         \/ ConversationCall(c, r) \/ PoolCall(c, r) \/ StatusCall(c, r)
         \/ UpdateCall(c, r) \/ PresenceCall(c, r)
  PROVE  CallFits(call'[c])
<1> DEFINE y == call'[c]
<1>1. CASE Refused(y, r) BY <1>1, RefusedFits
<1>2. CASE PoolCall(c, r) /\ ~Refused(y, r)
  <2>1. Named(r) /\ Pending(y, r, StartsAt(r), BeforeOf(r)) /\ r.rpc \in Pooled
    BY <1>2 DEF PoolCall
  <2>2. StartsAt(r) \in {"device", "submit"} BY DEF StartsAt
  <2> QED BY <2>1, <2>2, PendingFits
<1>3. CASE ConversationCall(c, r) /\ ~Refused(y, r)
  <2>1. r.rpc \in Conversing /\ ConversationArrival(c, r) BY <1>3 DEF ConversationCall
  <2>2. CASE DirectRequest(c, r) BY <2>1, <2>2, ConversesFits DEF DirectRequest
  <2>3. CASE GroupRequest(c, r) BY <2>1, <2>3, ConversesFits DEF GroupRequest
  <2>4. CASE ChangeRequest(c, r) BY <2>1, <2>4, ConversesFits DEF ChangeRequest
  <2>5. CASE ViewRequest(c, r) BY <2>1, <2>5, ConversesFits DEF ViewRequest
  <2>6. CASE ListRequest(c, r)
    <3>1. r.rpc \notin Pooled BY <2>1, RpcKinds
    <3> QED BY <2>6, <3>1 DEF ListRequest, Accepted, Fresh, CallFits, Positions,
                TaskPositions
  <2> QED BY <1>3, <2>1, <2>2, <2>3, <2>4, <2>5, <2>6 DEF ConversationArrival
<1>4. CASE StatusCall(c, r) /\ ~Refused(y, r)
  BY <1>4 DEF StatusCall, StatusRequest, Accepted, Fresh, CallFits, Positions, TaskPositions,
              Pooled
<1>5. CASE (UpdateCall(c, r) \/ PresenceCall(c, r)) /\ ~Refused(y, r)
  <2>1. PresenceRequest(c, r) BY <1>5 DEF UpdateCall, PresenceCall
  <2> QED BY <2>1, RequestFields DEF PresenceRequest, Accepted, Fresh, CallFits, Positions,
                                      TaskPositions
<1> QED BY <1>1, <1>2, <1>3, <1>4, <1>5

\* So does one that has taken a step.
LEMMA ConversationMoveFits ==
  ASSUME NEW c \in Calls, CallFits(call[c]), ConversationMove(c)
  PROVE  CallFits(call'[c])
<1>1. call[c].req.rpc \notin Pooled BY RpcKinds DEF ConversationMove, CallFits
<1> QED BY <1>1 DEF ConversationMove, Moved, Inner, CallFits, Positions, TaskPositions

LEMMA ResolvedFits ==
  ASSUME NEW c \in Calls, CallFits(call[c]),
         DeviceResolved(c) \/ (\E u, devs : UserResolved(c, u, devs)) \/ Unanswered(c)
  PROVE  CallFits(call'[c])
<1> DEFINE x == call[c]
           y == call'[c]
<1>1. CASE DeviceResolved(c)
  <2>1. Only({"asked", "pc", "todo", "answer"}, x, y) /\ x.pc = "device"
    BY <1>1 DEF DeviceResolved, Steps
  <2>2. y.req = x.req /\ y.task = x.task /\ y.users = x.users /\ y.res = x.res /\ y.conv = x.conv
    BY <2>1, OnlyFields
  <2> QED BY <1>1, <2>1, <2>2 DEF DeviceResolved, Fails, CallFits, Positions, TaskPositions
<1>2. ASSUME NEW u, NEW devs, UserResolved(c, u, devs)
      PROVE  CallFits(y)
  <2>1. Only({"asked", "users", "dir", "task"}, x, y) BY <1>2 DEF UserResolved, Steps
  <2>2. y.req = x.req /\ y.pc = x.pc /\ y.answer = x.answer /\ y.res = x.res /\ y.conv = x.conv
    BY <2>1, OnlyFields
  <2>3. /\ x.task = "resolve" /\ y.users = x.users \ {u}
        /\ y.task = IF x.users = {u} THEN "targets" ELSE "resolve"
    BY <1>2 DEF UserResolved
  <2>4. y.task = "resolve" => y.users # {} BY <2>3 DEF CallFits
  <2>5. y.task \in {"targets", "resolve"} /\ x.pc \in {"wait", "done"} BY <2>3 DEF CallFits
  <2>6. y.users \subseteq Users BY <2>3 DEF CallFits
  <2> QED BY <2>2, <2>3, <2>4, <2>5, <2>6 DEF CallFits, Positions, TaskPositions
<1>3. CASE Unanswered(c)
  <2>1. CASE x.pc = "device" /\ Only({"asked", "pc"}, x, y) /\ y.pc = "submit"
    BY <2>1, OnlyFields DEF CallFits, Positions, TaskPositions
  <2>2. CASE /\ x.task = "resolve" /\ Only({"asked", "task", "res"}, x, y)
             /\ y.task = "finished" /\ y.res = "UNSPECIFIED"
    BY <2>2, OnlyFields DEF CallFits, Positions, TaskPositions
  <2> QED BY <1>3, <2>1, <2>2 DEF Unanswered, Steps
<1> QED BY <1>1, <1>2, <1>3

LEMMA DirectoryMoveFits ==
  ASSUME NEW c \in Calls, CallFits(call[c]), DirectoryMove(c)
  PROVE  CallFits(call'[c])
<1>1. CASE Hits(c) \/ Receives(c) \/ GivesUp(c)
  BY <1>1, ResolvedFits DEF Hits, Receives, GivesUp
<1>2. CASE Asks(c) \/ Reads(c)
  <2>1. Only({"asked"}, call[c], call'[c]) BY <1>2 DEF Asks, Reads, Steps
  <2> QED BY <2>1, OnlyFields DEF CallFits
<1> QED BY <1>1, <1>2 DEF DirectoryMove

LEMMA TaskMoveFits ==
  ASSUME NEW c \in Calls, CallFits(call[c]), TaskMove(c)
  PROVE  CallFits(call'[c])
<1> DEFINE x == call[c]
           y == call'[c]
<1>0. /\ x.task \notin {"none", "queued", "finished"} => x.pc \in {"wait", "done"} /\ Named(x.req)
      /\ Outcomes = {"ok", "lost", "uncertain"}
  BY DEF CallFits, Outcomes
<1>1. CASE SubmitAuthorised(c) \/ SyncAuthorised(c) \/ CursorChecked(c)
  <2>1. Only({"task", "res"}, x, y) /\ x.task = "start"
    BY <1>1 DEF SubmitAuthorised, SyncAuthorised, CursorChecked, Steps
  <2>2. \/ Failed(y)
        \/ /\ y.res = x.res
           /\ \/ y.task = "members" /\ x.req.rpc = "SendMessage"
              \/ y.task = "cursor" /\ x.req.rpc \in SyncRpcs
              \/ y.task = "save" /\ x.req.rpc = "UpdateSyncCursor"
    BY <1>1 DEF SubmitAuthorised, SyncAuthorised, CursorChecked
  <2> QED BY <1>0, <2>1, <2>2, OnlyFields DEF CallFits, Positions, TaskPositions, Failed
<1>2. CASE SubmitNamed(c)
  <2>1. Only({"task", "res", "users"}, x, y) /\ x.task = "members" /\ x.req.rpc = "SendMessage"
    BY <1>2 DEF SubmitNamed, Steps
  <2>2. x.req \in Request /\ x.req.user # None BY <2>1 DEF CallFits, Named
  <2>3. x.req.user \in Users /\ x.req.targets \subseteq Devices BY <2>2, RequestFields
  <2>4. \A t \in x.req.targets : Owner[t] \in Users BY <2>3, CallsAssumption
  <2>5. \/ Failed(y) /\ y.users = x.users
        \/ /\ y.task = "resolve" /\ y.res = x.res /\ y.users # {} /\ y.users \subseteq Users
    BY <1>2, <2>3, <2>4 DEF SubmitNamed, ListActive
  <2> QED BY <1>0, <2>1, <2>5, OnlyFields DEF CallFits, Positions, TaskPositions, Failed
<1>3. CASE SubmitNumbered(c)
  <2>1. /\ Only({"task", "res", "seq", "month"}, x, y) /\ x.task = "targets"
        /\ x.req.rpc = "SendMessage" /\ (Failed(y) \/ (y.task = "save" /\ y.res = x.res))
    BY <1>3 DEF SubmitNumbered, Steps
  <2> QED BY <1>0, <2>1, OnlyFields DEF CallFits, Positions, TaskPositions, Failed
<1>4. CASE SubmitStored(c) \/ CursorSaved(c)
  <2>1. /\ Only({"task", "res"}, x, y) /\ x.task = "save" /\ y.task = "finished"
        /\ y.res # "none"
    BY <1>4 DEF SubmitStored, CursorSaved, Steps
  <2>2. x.answer = "OK" => x.pc # "done" BY <2>1, RpcKinds DEF CallFits, Pooled
  <2> QED BY <1>0, <2>1, <2>2, OnlyFields DEF CallFits, Positions, TaskPositions
<1>5. CASE SyncPlaced(c)
  <2>1. /\ Only({"task", "res", "seq", "at"}, x, y) /\ x.task = "cursor"
        /\ \/ Failed(y)
           \/ y.task = "finished" /\ y.res = "OK"
           \/ y.task = "previous" /\ y.res = x.res
    BY <1>5 DEF SyncPlaced, Steps
  <2> QED BY <1>0, <2>1, OnlyFields DEF CallFits, Positions, TaskPositions, Failed
<1>6. CASE SyncReadPrevious(c)
  <2>1. /\ Only({"task", "month", "page"}, x, y) /\ x.task = "previous" /\ y.task = "current"
    BY <1>6 DEF SyncReadPrevious, Steps
  <2> QED BY <1>0, <2>1, OnlyFields DEF CallFits, Positions, TaskPositions
<1>7. CASE SyncReadCurrent(c)
  <2>1. /\ Only({"task", "res", "page", "more"}, x, y) /\ x.task = "current"
        /\ y.task = "finished" /\ y.res = "OK"
    BY <1>7 DEF SyncReadCurrent, Steps
  <2> QED BY <1>0, <2>1, OnlyFields DEF CallFits, Positions, TaskPositions
<1>8. CASE CursorRead(c)
  <2>1. /\ Only({"task", "res", "seq"}, x, y) /\ x.task = "start"
        /\ y.task = "finished" /\ y.res = "OK"
    BY <1>8 DEF CursorRead, Steps
  <2> QED BY <1>0, <2>1, OnlyFields DEF CallFits, Positions, TaskPositions
<1> QED BY <1>1, <1>2, <1>3, <1>4, <1>5, <1>6, <1>7, <1>8 DEF TaskMove

LEMMA HandlerMoveFits ==
  ASSUME NEW c \in Calls, CallFits(call[c]), HandlerMove(c)
  PROVE  CallFits(call'[c])
<1> DEFINE x == call[c]
           y == call'[c]
<1>1. CASE Submitted(c)
  <2>1. /\ Only({"pc", "task", "todo", "answer"}, x, y) /\ x.pc = "submit"
        /\ \/ /\ y.pc = "wait" /\ y.task = "queued" /\ y.answer = x.answer
              /\ x.req.rpc \in SyncRpcs => x.req.conv # None
           \/ y.pc = "done" /\ y.answer \notin {"OK", "none"} /\ y.task = x.task
    BY <1>1 DEF Submitted, Steps, Fails
  <2>2. x.req.rpc \in Pooled /\ Named(x.req) /\ x.task = "none" BY <2>1 DEF CallFits
  <2> QED BY <2>1, <2>2, OnlyFields DEF CallFits, Positions, TaskPositions
<1>2. CASE Answered(c)
  <2>1. /\ Only({"pc", "todo", "answer"}, x, y) /\ x.pc = "wait" /\ x.task = "finished"
        /\ y.pc = "done" /\ y.answer # "none" /\ (y.answer = "OK" <=> x.res = "OK")
    BY <1>2 DEF Answered, Steps, CallFits
  <2> QED BY <2>1, OnlyFields DEF CallFits, Positions, TaskPositions
<1>3. CASE TimedOut(c)
  <2>1. /\ Only({"pc", "todo", "answer"}, x, y) /\ x.pc = "wait"
        /\ y.pc = "done" /\ y.answer \notin {"OK", "none"}
    BY <1>3 DEF TimedOut, Steps, Fails
  <2> QED BY <2>1, OnlyFields DEF CallFits, Positions, TaskPositions
<1>4. CASE Delivered(c)
  <2>1. /\ Only({"task", "res"}, x, y) /\ x.task = "start" /\ y.task = "finished"
        /\ y.res # "none"
    BY <1>4 DEF Delivered, Steps
  <2>2. x.req.rpc \in Pooled /\ x.pc \in {"wait", "done"} /\ Named(x.req)
    BY <2>1 DEF CallFits
  <2> QED BY <2>1, <2>2, OnlyFields DEF CallFits, Positions, TaskPositions
<1> QED BY <1>1, <1>2, <1>3, <1>4 DEF HandlerMove

LEMMA PresenceMoveFits ==
  ASSUME NEW c \in Calls, CallFits(call[c]), PresenceMove(c)
  PROVE  CallFits(call'[c])
<1> DEFINE x == call[c]
           y == call'[c]
<1>1. CASE OverrideSet(c)
  <2>1. /\ Only({"pc", "todo", "answer"}, x, y) /\ x.pc = "override" /\ y.pc = "done"
        /\ y.answer = "OK"
    BY <1>1 DEF OverrideSet, Steps
  <2>2. x.req.rpc \notin Pooled BY <2>1 DEF CallFits, Pooled
  <2> QED BY <2>1, <2>2, OnlyFields DEF CallFits, Positions, TaskPositions
<1>2. CASE PresenceShown(c)
  <2>1. PICK u : /\ Only({"users", "shown", "pc", "todo", "answer"}, x, y)
                 /\ x.pc = "presence" /\ y.users = x.users \ {u}
                 /\ \/ y.pc = "done" /\ y.answer = "OK"
                    \/ y.pc = "presence" /\ y.answer = x.answer /\ x.users # {u}
    BY <1>2 DEF PresenceShown, Steps
  <2>2. x.req.rpc \notin Pooled /\ x.users # {} /\ x.users \subseteq Users /\ x.task = "none"
    BY <2>1 DEF CallFits, Pooled
  <2>3. y.users \subseteq Users /\ (y.pc = "presence" => y.users # {}) BY <2>1, <2>2
  <2> QED BY <2>1, <2>2, <2>3, OnlyFields DEF CallFits, Positions, TaskPositions
<1> QED BY <1>1, <1>2 DEF PresenceMove

\* The queues hold the calls that are queued, each once.
QueueFits ==
  /\ queue = [p \in Pools |-> queue[p]]
  /\ \A p \in Pools :
       /\ queue[p] \in Seq(Calls) /\ Len(queue[p]) <= QueueCapacity
       /\ \A i \in 1..Len(queue[p]) :
            call[queue[p][i]].task = "queued" /\ PoolOf(call[queue[p][i]].req) = p
       /\ \A i, j \in 1..Len(queue[p]) : queue[p][i] = queue[p][j] => i = j
  /\ \A c \in Calls : call[c].task = "queued" =>
       \E i \in 1..Len(queue[PoolOf(call[c].req)]) : queue[PoolOf(call[c].req)][i] = c

LEMMA PoolOfIs == \A r : PoolOf(r) \in Pools
  BY ServiceAssumption DEF PoolOf

LEMMA QueueUnchanged ==
  ASSUME QueueFits, queue' = queue,
         \A c \in Calls : (call'[c].task = "queued") <=> (call[c].task = "queued"),
         \A c \in Calls : call[c].task = "queued" => call'[c].req = call[c].req
  PROVE  QueueFits'
<1>1. ASSUME NEW p \in Pools, NEW i \in 1..Len(queue[p])
      PROVE  call'[queue[p][i]].task = "queued" /\ PoolOf(call'[queue[p][i]].req) = p
  BY DEF QueueFits
<1>2. ASSUME NEW c \in Calls, call'[c].task = "queued"
      PROVE  \E i \in 1..Len(queue[PoolOf(call'[c].req)]) : queue[PoolOf(call'[c].req)][i] = c
  BY <1>2 DEF QueueFits
<1> QED BY <1>1, <1>2 DEF QueueFits

LEMMA QueueSubmitted ==
  ASSUME QueueFits, NEW c \in Calls, CallFits(call[c]), Submitted(c)
  PROVE  QueueFits'
<1> DEFINE x == call[c]
           p == PoolOf(x.req)
<1>1. /\ Only({"pc", "task", "todo", "answer"}, x, call'[c]) /\ x.pc = "submit"
      /\ \A d \in Calls : d # c => call'[d] = call[d]
  BY DEF Submitted, Steps
<1>2. call'[c].req = x.req /\ x.task = "none" BY <1>1, OnlyFields DEF CallFits
<1>3. CASE queue' = queue /\ call'[c].task = x.task BY <1>1, <1>2, <1>3, QueueUnchanged
<1>4. CASE /\ queue' = [queue EXCEPT ![p] = Append(@, c)] /\ ~(Len(queue[p]) >= QueueCapacity)
           /\ call'[c].task = "queued"
  <2>0. p \in Pools /\ QueueCapacity \in Nat BY PoolOfIs, ServiceAssumption
  <2>1. queue[p] \in Seq(Calls) /\ queue' = [q \in Pools |-> IF q = p THEN Append(queue[p], c) ELSE queue[q]]
    BY <1>4, <2>0 DEF QueueFits
  <2>2. /\ queue'[p] = Append(queue[p], c) /\ \A q \in Pools : q # p => queue'[q] = queue[q]
    BY <2>0, <2>1
  <2> DEFINE s == queue[p]
             t == Append(s, c)
             n == Len(s)
  <2>3. /\ t \in Seq(Calls) /\ n \in Nat /\ Len(t) = n + 1 /\ t[n + 1] = c
        /\ \A i \in 1..n : t[i] = s[i]
    BY <2>1
  <2>4. \A i \in 1..n : s[i] \in Calls /\ s[i] # c BY <1>2, <2>0, <2>1 DEF QueueFits
  <2>5. Len(t) <= QueueCapacity BY <1>4, <2>0, <2>3
  <2> HIDE DEF t
  <2>6. /\ queue'[p] \in Seq(Calls) /\ Len(queue'[p]) <= QueueCapacity
        /\ \A i \in 1..Len(queue'[p]) :
             call'[queue'[p][i]].task = "queued" /\ PoolOf(call'[queue'[p][i]].req) = p
        /\ \A i, j \in 1..Len(queue'[p]) : queue'[p][i] = queue'[p][j] => i = j
    <3>0. queue'[p] = t BY <2>2 DEF t
    <3>1. ASSUME NEW i \in 1..(n + 1)
          PROVE  call'[t[i]].task = "queued" /\ PoolOf(call'[t[i]].req) = p
      <4>1. CASE i = n + 1 BY <1>2, <1>4, <2>3, <4>1
      <4>2. CASE i # n + 1
        <5>1. i \in 1..n BY <2>3, <4>2
        <5> QED BY <1>1, <2>0, <2>3, <2>4, <5>1 DEF QueueFits
      <4> QED BY <4>1, <4>2
    <3>2. ASSUME NEW i \in 1..(n + 1), NEW j \in 1..(n + 1), t[i] = t[j]
          PROVE  i = j
      <4>1. i \in 1..n \/ i = n + 1 BY <2>3
      <4>2. j \in 1..n \/ j = n + 1 BY <2>3
      <4>3. \A a, b \in 1..n : s[a] = s[b] => a = b BY <2>0 DEF QueueFits
      <4> HIDE DEF s
      <4> QED BY <2>3, <2>4, <3>2, <4>1, <4>2, <4>3
    <3> QED BY <2>3, <2>5, <3>0, <3>1, <3>2
  <2>7. ASSUME NEW q \in Pools, q # p
        PROVE  /\ queue'[q] \in Seq(Calls) /\ Len(queue'[q]) <= QueueCapacity
               /\ \A i \in 1..Len(queue'[q]) :
                    call'[queue'[q][i]].task = "queued" /\ PoolOf(call'[queue'[q][i]].req) = q
               /\ \A i, j \in 1..Len(queue'[q]) : queue'[q][i] = queue'[q][j] => i = j
    <3>1. queue'[q] = queue[q] BY <2>2, <2>7
    <3>2. ASSUME NEW i \in 1..Len(queue[q])
          PROVE  queue[q][i] \in Calls /\ queue[q][i] # c
      BY <1>2 DEF QueueFits
    <3> QED BY <1>1, <3>1, <3>2 DEF QueueFits
  <2>8. ASSUME NEW d \in Calls, call'[d].task = "queued"
        PROVE  \E i \in 1..Len(queue'[PoolOf(call'[d].req)]) : queue'[PoolOf(call'[d].req)][i] = d
    <3>1. CASE d = c
      <4>1. PoolOf(call'[d].req) = p BY <1>2, <3>1
      <4>2. n + 1 \in 1..Len(queue'[p]) /\ queue'[p][n + 1] = d BY <2>2, <2>3, <3>1 DEF t
      <4> QED BY <4>1, <4>2
    <3>2. CASE d # c
      <4>1. call'[d] = call[d] BY <1>1, <3>2
      <4> DEFINE q == PoolOf(call[d].req)
      <4>2. PICK i \in 1..Len(queue[q]) : queue[q][i] = d BY <2>8, <4>1 DEF QueueFits
      <4>3. CASE q = p
        <5>1. i \in 1..Len(queue'[p]) /\ queue'[p][i] = d BY <2>2, <2>3, <4>2, <4>3 DEF t
        <5> QED BY <4>1, <4>3, <5>1
      <4>4. CASE q # p
        <5>1. queue'[q] = queue[q] BY <2>2, <4>4, PoolOfIs
        <5> QED BY <4>1, <4>2, <5>1
      <4> QED BY <4>3, <4>4
    <3> QED BY <3>1, <3>2
  <2>9. queue' = [q \in Pools |-> queue'[q]] BY <2>1
  <2> QED BY <2>6, <2>7, <2>8, <2>9 DEF QueueFits
<1> QED BY <1>3, <1>4 DEF Submitted

LEMMA QueueStarted ==
  ASSUME QueueFits, NEW p \in Pools, Started(p)
  PROVE  QueueFits'
<1> DEFINE s == queue[p]
           t == Tail(s)
           n == Len(s)
           c == Head(s)
<1>1. s \in Seq(Calls) /\ s # <<>> /\ n \in Nat /\ n > 0 BY DEF QueueFits, Started
<1>2. /\ c = s[1] /\ c \in Calls /\ t \in Seq(Calls) /\ Len(t) = n - 1
      /\ \A i \in 1..(n - 1) : t[i] = s[i + 1]
  BY <1>1
<1>3. /\ queue' = [q \in Pools |-> IF q = p THEN t ELSE queue[q]]
      /\ Only({"task"}, call[c], call'[c]) /\ call'[c].task = "start"
      /\ \A d \in Calls : d # c => call'[d] = call[d]
  BY DEF Started, Steps, QueueFits
<1>4. queue'[p] = t /\ \A q \in Pools : q # p => queue'[q] = queue[q] BY <1>3
<1>5. \A i \in 1..n : s[i] \in Calls /\ call[s[i]].task = "queued" /\ PoolOf(call[s[i]].req) = p
  BY <1>1 DEF QueueFits
<1>6. \A i, j \in 1..n : s[i] = s[j] => i = j BY DEF QueueFits
<1>7. Len(s) <= QueueCapacity /\ QueueCapacity \in Nat BY ServiceAssumption DEF QueueFits
<1>8. PoolOf(call[c].req) = p BY <1>1, <1>2, <1>5
<1> HIDE DEF t, c, n, s
<1>9. \A i \in 1..(n - 1) : i + 1 \in 1..n /\ s[i + 1] # c BY <1>1, <1>2, <1>6
<1>10. ASSUME NEW i \in 1..(n - 1)
       PROVE  call'[t[i]].task = "queued" /\ PoolOf(call'[t[i]].req) = p
  BY <1>2, <1>3, <1>5, <1>9
<1>11. ASSUME NEW i \in 1..(n - 1), NEW j \in 1..(n - 1), t[i] = t[j]
       PROVE  i = j
  BY <1>2, <1>6, <1>9, <1>11
<1>12. /\ queue'[p] \in Seq(Calls) /\ Len(queue'[p]) <= QueueCapacity
       /\ \A i \in 1..Len(queue'[p]) :
            call'[queue'[p][i]].task = "queued" /\ PoolOf(call'[queue'[p][i]].req) = p
       /\ \A i, j \in 1..Len(queue'[p]) : queue'[p][i] = queue'[p][j] => i = j
  <2>1. n - 1 <= QueueCapacity BY <1>1, <1>7 DEF n
  <2> QED BY <1>2, <1>4, <1>10, <1>11, <2>1
<1>13. ASSUME NEW q \in Pools, q # p
       PROVE  /\ queue'[q] \in Seq(Calls) /\ Len(queue'[q]) <= QueueCapacity
              /\ \A i \in 1..Len(queue'[q]) :
                   call'[queue'[q][i]].task = "queued" /\ PoolOf(call'[queue'[q][i]].req) = q
              /\ \A i, j \in 1..Len(queue'[q]) : queue'[q][i] = queue'[q][j] => i = j
  <2>1. queue'[q] = queue[q] BY <1>4, <1>13
  <2>2. ASSUME NEW i \in 1..Len(queue[q])
        PROVE  /\ queue[q][i] \in Calls /\ queue[q][i] # c
               /\ call[queue[q][i]].task = "queued" /\ PoolOf(call[queue[q][i]].req) = q
    BY <1>8, <1>13 DEF QueueFits
  <2>3. /\ queue[q] \in Seq(Calls) /\ Len(queue[q]) <= QueueCapacity
        /\ \A i, j \in 1..Len(queue[q]) : queue[q][i] = queue[q][j] => i = j
    BY DEF QueueFits
  <2> QED BY <1>3, <2>1, <2>2, <2>3
<1>14. ASSUME NEW d \in Calls, call'[d].task = "queued"
       PROVE  \E i \in 1..Len(queue'[PoolOf(call'[d].req)]) : queue'[PoolOf(call'[d].req)][i] = d
  <2>1. d # c /\ call'[d] = call[d] BY <1>3, <1>14
  <2> DEFINE q == PoolOf(call[d].req)
  <2>2. PICK i \in 1..Len(queue[q]) : queue[q][i] = d BY <1>14, <2>1 DEF QueueFits
  <2>3. CASE q = p
    <3>1. s[i] = d /\ i \in 1..n BY <2>2, <2>3 DEF s, n
    <3>2. i # 1 BY <1>2, <2>1, <3>1
    <3>3. i - 1 \in 1..(n - 1) /\ (i - 1) + 1 = i BY <1>1, <3>1, <3>2 DEF n
    <3>4. t[i - 1] = d BY <1>2, <3>1, <3>3
    <3> QED BY <1>2, <1>4, <2>1, <2>3, <3>3, <3>4
  <2>4. CASE q # p
    <3>1. queue'[q] = queue[q] BY <1>4, <2>4, PoolOfIs
    <3> QED BY <2>1, <2>2, <3>1
  <2> QED BY <2>3, <2>4
<1>15. queue' = [q \in Pools |-> queue'[q]] BY <1>3
<1> QED BY <1>12, <1>13, <1>14, <1>15 DEF QueueFits

\* The phases of main() after the one that drains p.
Ended(p) ==
  CASE p = "submission" -> {"delivery", "sync", "exited"}
    [] p = "delivery" -> {"sync", "exited"}
    [] OTHER -> {"exited"}

\* The server has stopped when the pools are drained, and a drained pool has
\* nothing left to do.
PhaseFits ==
  /\ phase \in {"serving", "stopping", "submission", "delivery", "sync", "exited"}
  /\ phase \notin {"serving", "stopping"} => \A c \in Calls : call[c].pc \in {"idle", "done"}
  /\ \A p \in Pools, c \in Calls :
       phase \in Ended(p) /\ PoolOf(call[c].req) = p => call[c].task \in {"none", "finished"}

BoundsFit ==
  /\ load \in Workload /\ clock \in 0..load.clock /\ faults \in 0..load.faults
  /\ month \in 1..MaxMonth

Fits == CallsShaped /\ (\A c \in Calls : CallFits(call[c])) /\ QueueFits /\ PhaseFits /\ BoundsFit

\* What the steps of a call have in common.
Goings(c) ==
  /\ CallsShaped' /\ (\A d \in Calls : d # c => call'[d] = call[d])
  /\ call'[c].req = call[c].req /\ call'[c].conv = call[c].conv
  /\ call'[c].rivals = call[c].rivals /\ call'[c].before = call[c].before
  /\ UNCHANGED <<load, clock, phase, month>>
  /\ faults' = faults \/ (faults < load.faults /\ faults' = faults + 1)
  /\ call[c].pc \in {"idle", "done"} => call'[c].pc = call[c].pc
  /\ call[c].task \in {"none", "finished"} =>
       call'[c].task = call[c].task \/ call[c].pc = "submit"

\* All steps of calls but the start of a queued task.
Move(c) ==
  \/ ConversationMove(c) /\ UNCHANGED <<dirVars, taskVars, serviceVars>>
  \/ DirectoryMove(c) /\ UNCHANGED <<taskVars, serviceVars>>
  \/ TaskMove(c) /\ UNCHANGED serviceVars
  \/ HandlerMove(c) \/ PresenceMove(c)

LEMMA TablesUnchanged ==
  ASSUME UNCHANGED tables
  PROVE  /\ UNCHANGED <<conversations, lastConv, direct, meta, part, rows, events>>
         /\ UNCHANGED <<status, since, cache, month, stored, counter, cursor, stripes>>
  BY DEF tables, convVars, dirVars, taskVars

LEMMA StepsGoings ==
  ASSUME NEW c \in Calls, NEW S, Steps(c, S), S \cap Lasting = {}, month' = month,
         faults' = faults \/ (faults < load.faults /\ faults' = faults + 1),
         call[c].pc \in {"idle", "done"} => call'[c].pc = call[c].pc,
         call[c].task \in {"none", "finished"} =>
           call'[c].task = call[c].task \/ call[c].pc = "submit"
  PROVE  Goings(c)
  BY StepsMoves DEF Moved, Steps, Goings

LEMMA MoveGoings ==
  ASSUME NEW c \in Calls, CallFits(call[c]), Move(c)
  PROVE  Goings(c)
<1> DEFINE x == call[c]
           y == call'[c]
<1>0. /\ \A o : Faulty(o) => faults' = faults \/ (faults < load.faults /\ faults' = faults + 1)
      /\ UNCHANGED taskVars => month' = month
      /\ UNCHANGED tables => month' = month
  BY TablesUnchanged DEF Faulty, taskVars
<1>1. CASE ConversationMove(c) /\ UNCHANGED <<dirVars, taskVars, serviceVars>>
  BY <1>0, <1>1 DEF ConversationMove, Moved, Inner, Goings
<1>2. CASE DirectoryMove(c) /\ UNCHANGED <<taskVars, serviceVars>>
  <2>1. CASE DeviceResolved(c) /\ faults' = faults
    <3>1. Steps(c, {"asked", "pc", "todo", "answer"}) /\ x.pc = "device"
      BY <2>1 DEF DeviceResolved
    <3>2. y.task = x.task BY <3>1, OnlyFields DEF Steps
    <3> QED BY <1>0, <1>2, <2>1, <3>1, <3>2, StepsGoings DEF Lasting
  <2>2. ASSUME NEW u, NEW devs, UserResolved(c, u, devs), faults' = faults PROVE Goings(c)
    <3>1. Steps(c, {"asked", "users", "dir", "task"}) /\ x.task = "resolve"
      BY <2>2 DEF UserResolved
    <3>2. y.pc = x.pc BY <3>1, OnlyFields DEF Steps
    <3> QED BY <1>0, <1>2, <2>2, <3>1, <3>2, StepsGoings DEF Lasting
  <2>3. CASE Asks(c) \/ Reads(c)
    <3>1. Steps(c, {"asked"}) /\ faults' = faults BY <2>3 DEF Asks, Reads
    <3>2. y.pc = x.pc /\ y.task = x.task BY <3>1, OnlyFields DEF Steps
    <3> QED BY <1>0, <1>2, <3>1, <3>2, StepsGoings DEF Lasting
  <2>4. CASE GivesUp(c)
    <3>1. CASE x.pc = "device" /\ Steps(c, {"asked", "pc"})
      <4>1. y.task = x.task BY <3>1, OnlyFields DEF Steps
      <4> QED BY <1>0, <1>2, <2>4, <3>1, <4>1, StepsGoings DEF Lasting, GivesUp
    <3>2. CASE x.task = "resolve" /\ Steps(c, {"asked", "task", "res"})
      <4>1. y.pc = x.pc BY <3>2, OnlyFields DEF Steps
      <4> QED BY <1>0, <1>2, <2>4, <3>2, <4>1, StepsGoings DEF Lasting, GivesUp
    <3> QED BY <2>4, <3>1, <3>2 DEF GivesUp, Unanswered
  <2> QED BY <1>2, <2>1, <2>2, <2>3, <2>4 DEF DirectoryMove, Hits, Receives
<1>3. CASE TaskMove(c) /\ UNCHANGED serviceVars
  <2> DEFINE Sets == {{"task", "res"}, {"task", "res", "users"}, {"task", "res", "seq", "month"},
                      {"task", "res", "seq", "at"}, {"task", "month", "page"},
                      {"task", "res", "page", "more"}, {"task", "res", "seq"}}
  <2>1. /\ \E S \in Sets : Steps(c, S)
        /\ x.task \notin {"none", "finished"} /\ month' = month
        /\ faults' = faults \/ (faults < load.faults /\ faults' = faults + 1)
    <3>1. CASE SubmitAuthorised(c) BY <1>0, <3>1 DEF SubmitAuthorised
    <3>2. CASE SubmitNamed(c) BY <1>0, <3>2 DEF SubmitNamed
    <3>3. CASE SubmitNumbered(c) BY <3>3 DEF SubmitNumbered
    <3>4. CASE SubmitStored(c) BY <1>0, <3>4 DEF SubmitStored
    <3>5. CASE SyncAuthorised(c) BY <1>0, <3>5 DEF SyncAuthorised
    <3>6. CASE SyncPlaced(c) BY <3>6 DEF SyncPlaced
    <3>7. CASE SyncReadPrevious(c) BY <1>0, <3>7 DEF SyncReadPrevious
    <3>8. CASE SyncReadCurrent(c) BY <1>0, <3>8 DEF SyncReadCurrent
    <3>9. CASE CursorRead(c) BY <1>0, <3>9 DEF CursorRead
    <3>10. CASE CursorChecked(c) BY <3>10 DEF CursorChecked
    <3>11. CASE CursorSaved(c) BY <1>0, <3>11 DEF CursorSaved
    <3> QED BY <1>3, <3>1, <3>2, <3>3, <3>4, <3>5, <3>6, <3>7, <3>8, <3>9, <3>10, <3>11
             DEF TaskMove
  <2>2. PICK S \in Sets : Steps(c, S) BY <2>1
  <2>3. y.pc = x.pc /\ S \cap Lasting = {} BY <2>2, OnlyFields DEF Steps, Lasting
  <2> HIDE DEF Sets
  <2> QED BY <2>1, <2>2, <2>3, StepsGoings
<1>4. CASE Submitted(c)
  <2>1. /\ Steps(c, {"pc", "task", "todo", "answer"}) /\ x.pc = "submit" /\ faults' = faults
        /\ month' = month
    BY <1>0, <1>4 DEF Submitted
  <2> QED BY <2>1, StepsGoings DEF Lasting
<1>5. CASE Answered(c) \/ TimedOut(c) \/ OverrideSet(c)
  <2>1. /\ Steps(c, {"pc", "todo", "answer"}) /\ x.pc \in {"wait", "override"} /\ faults' = faults
        /\ month' = month
    BY <1>0, <1>5 DEF Answered, TimedOut, OverrideSet
  <2>2. y.task = x.task BY <2>1, OnlyFields DEF Steps
  <2> QED BY <2>1, <2>2, StepsGoings DEF Lasting
<1>6. CASE Delivered(c)
  <2>1. Steps(c, {"task", "res"}) /\ x.task = "start" /\ faults' = faults /\ month' = month
    BY <1>0, <1>6 DEF Delivered
  <2>2. y.pc = x.pc BY <2>1, OnlyFields DEF Steps
  <2> QED BY <2>1, <2>2, StepsGoings DEF Lasting
<1>7. CASE PresenceShown(c)
  <2>1. /\ Steps(c, {"users", "shown", "pc", "todo", "answer"}) /\ x.pc = "presence"
        /\ faults' = faults /\ month' = month
    BY <1>0, <1>7 DEF PresenceShown
  <2>2. y.task = x.task BY <2>1, OnlyFields DEF Steps
  <2> QED BY <2>1, <2>2, StepsGoings DEF Lasting
<1> QED BY <1>1, <1>2, <1>3, <1>4, <1>5, <1>6, <1>7 DEF Move, HandlerMove, PresenceMove

\* The calls after a step of one of them.
LEMMA CallsFitAfter ==
  ASSUME Fits, NEW c \in Calls, CallFits(call'[c]), CallsShaped', Apart(c)
  PROVE  CallsShaped' /\ \A d \in Calls : CallFits(call'[d])
  BY SameFits DEF Fits, Apart

LEMMA MoveFits ==
  ASSUME NEW c \in Calls, CallFits(call[c]), Move(c)
  PROVE  CallFits(call'[c])
  BY ConversationMoveFits, DirectoryMoveFits, TaskMoveFits, HandlerMoveFits, PresenceMoveFits
     DEF Move

LEMMA LoadAfterArrival ==
  ASSUME load \in Workload, NEW c, NEW r, Arrived(c, r)
  PROVE  /\ r \in Request /\ load' \in Workload /\ load'.clock = load.clock
         /\ load'.faults = load.faults /\ load'.months = load.months
<1> DEFINE W == [requests : SUBSET Request, clock : 0..MaxClock, faults : 0..MaxFaults,
                 months : 0..MaxMonth, volatile : SUBSET Devices, stops : BOOLEAN]
<1>1. load \in W /\ Workload = W BY DEF Workload
<1>2. load' = [load EXCEPT !.requests = @ \ {r}] /\ r \in load.requests BY DEF Arrived
<1> QED BY <1>1, <1>2

\* Which queues a step of a call changes.
LEMMA MoveQueue ==
  ASSUME NEW c \in Calls, Move(c), CallFits(call[c])
  PROVE  \/ Submitted(c)
         \/ /\ queue' = queue
            /\ call'[c].task = "queued" <=> call[c].task = "queued"
<1> DEFINE x == call[c]
           y == call'[c]
<1>1. CASE ConversationMove(c) /\ UNCHANGED <<dirVars, taskVars, serviceVars>>
  BY <1>1 DEF ConversationMove, Inner, serviceVars
<1>2. CASE DirectoryMove(c) /\ UNCHANGED <<taskVars, serviceVars>>
  <2>0. queue' = queue BY <1>2 DEF serviceVars
  <2>1. CASE DeviceResolved(c) BY <2>0, <2>1, OnlyFields DEF DeviceResolved, Steps
  <2>2. ASSUME NEW u, NEW devs, UserResolved(c, u, devs)
        PROVE  x.task # "queued" /\ y.task # "queued"
    BY <2>2 DEF UserResolved
  <2>3. CASE Asks(c) \/ Reads(c)
    <3>1. Only({"asked"}, x, y) BY <2>3 DEF Asks, Reads, Steps
    <3> QED BY <2>0, <3>1, OnlyFields
  <2>4. CASE GivesUp(c)
    <3>1. CASE x.pc = "device" /\ Steps(c, {"asked", "pc"})
      BY <2>0, <3>1, OnlyFields DEF Steps
    <3>2. CASE x.task = "resolve" /\ y.task = "finished" BY <2>0, <3>2
    <3> QED BY <2>4, <3>1, <3>2 DEF GivesUp, Unanswered
  <2> QED BY <1>2, <2>0, <2>1, <2>2, <2>3, <2>4 DEF DirectoryMove, Hits, Receives
<1>3. CASE TaskMove(c) /\ UNCHANGED serviceVars
  BY <1>3 DEF TaskMove, serviceVars, Failed, SubmitAuthorised, SubmitNamed, SubmitNumbered,
              SubmitStored, SyncAuthorised, SyncPlaced, SyncReadPrevious, SyncReadCurrent,
              CursorRead, CursorChecked, CursorSaved
<1>4. CASE Answered(c) \/ TimedOut(c) \/ OverrideSet(c)
  <2>1. Only({"pc", "todo", "answer"}, x, y) /\ queue' = queue
    BY <1>4 DEF Answered, TimedOut, OverrideSet, Steps, serviceVars
  <2> QED BY <2>1, OnlyFields
<1>5. CASE Delivered(c) BY <1>5 DEF Delivered, serviceVars
<1>6. CASE PresenceShown(c)
  <2>1. Only({"users", "shown", "pc", "todo", "answer"}, x, y) /\ queue' = queue
    BY <1>6 DEF PresenceShown, Steps, serviceVars
  <2> QED BY <2>1, OnlyFields
<1> QED BY <1>1, <1>2, <1>3, <1>4, <1>5, <1>6 DEF Move, HandlerMove, PresenceMove

LEMMA PhaseAfterMove ==
  ASSUME PhaseFits, NEW c \in Calls, Goings(c)
  PROVE  PhaseFits'
<1>1. /\ phase' = phase /\ \A d \in Calls : d # c => call'[d] = call[d] BY DEF Goings
<1>2. phase \notin {"serving", "stopping"} => \A d \in Calls : call'[d].pc \in {"idle", "done"}
  BY <1>1 DEF Goings, PhaseFits
<1>3. ASSUME NEW p \in Pools, NEW d \in Calls, phase \in Ended(p), PoolOf(call'[d].req) = p
      PROVE  call'[d].task \in {"none", "finished"}
  <2>1. phase \notin {"serving", "stopping"} BY <1>3 DEF Ended
  <2>2. CASE d # c BY <1>1, <1>3, <2>2 DEF PhaseFits
  <2>3. CASE d = c
    <3>1. PoolOf(call[c].req) = p /\ call[c].pc # "submit"
      BY <1>3, <2>1, <2>3 DEF Goings, PhaseFits
    <3> QED BY <1>3, <2>3, <3>1 DEF Goings, PhaseFits
  <2> QED BY <2>2, <2>3
<1> QED BY <1>1, <1>2, <1>3 DEF PhaseFits, Ended

LEMMA FitsAfterMove ==
  ASSUME Fits, NEW c \in Calls, Move(c)
  PROVE  Fits' /\ Goings(c)
<1>1. CallFits(call[c]) /\ QueueFits /\ PhaseFits /\ BoundsFit BY DEF Fits
<1>2. Goings(c) /\ CallFits(call'[c]) BY <1>1, MoveGoings, MoveFits
<1>3. CallsShaped' /\ Apart(c) /\ (\A d \in Calls : d # c => call'[d] = call[d])
      /\ call'[c].req = call[c].req
  BY <1>2 DEF Goings, Apart, Same
<1>4. QueueFits'
  <2>1. CASE Submitted(c) BY <1>1, <2>1, QueueSubmitted
  <2>2. CASE queue' = queue /\ (call'[c].task = "queued" <=> call[c].task = "queued")
    <3>1. \A d \in Calls : /\ (call'[d].task = "queued") <=> (call[d].task = "queued")
                           /\ call'[d].req = call[d].req
      BY <1>3, <2>2
    <3> QED BY <1>1, <2>2, <3>1, QueueUnchanged
  <2> QED BY <1>1, <2>1, <2>2, MoveQueue
<1>5. BoundsFit'
  <2>1. load \in Workload /\ load.faults \in 0..MaxFaults BY <1>1 DEF BoundsFit, Workload
  <2>2. /\ UNCHANGED <<load, clock, month>>
        /\ faults' = faults \/ (faults < load.faults /\ faults' = faults + 1)
    BY <1>2 DEF Goings
  <2>3. faults' \in 0..load.faults BY <1>1, <2>1, <2>2, CallsAssumption DEF BoundsFit
  <2> QED BY <1>1, <2>2, <2>3 DEF BoundsFit
<1> QED BY <1>1, <1>2, <1>3, <1>4, <1>5, CallsFitAfter, PhaseAfterMove DEF Fits

\* An arrival of any kind.
Arrival(c, r) ==
  \/ ConversationCall(c, r) \/ PoolCall(c, r) \/ StatusCall(c, r)
  \/ UpdateCall(c, r) \/ PresenceCall(c, r)

LEMMA ArrivalIs ==
  ASSUME NEW c \in Calls, NEW r, Arrival(c, r)
  PROVE  Arrived(c, r) /\ queue' = queue /\ UNCHANGED taskVars /\ UNCHANGED dirVars
<1>1. CASE ConversationCall(c, r) BY <1>1 DEF ConversationCall, serviceVars
<1>2. CASE PoolCall(c, r) \/ StatusCall(c, r) \/ PresenceCall(c, r)
  BY <1>2 DEF PoolCall, StatusCall, PresenceCall, tables, serviceVars
<1>3. CASE UpdateCall(c, r) BY <1>3 DEF UpdateCall, tables
<1> QED BY <1>1, <1>2, <1>3 DEF Arrival

LEMMA ArrivalStarts ==
  ASSUME NEW c \in Calls, NEW r \in Request, Arrival(c, r)
  PROVE  call'[c].task = "none" /\ call'[c].req = r
  BY DEF Arrival, ConversationCall, PoolCall, StatusCall, UpdateCall, PresenceCall, Refused,
         ConversationArrival, DirectRequest, GroupRequest, ChangeRequest, ViewRequest, ListRequest,
         Converses, Pending, StatusRequest, PresenceRequest, Accepted, Fresh

LEMMA FitsAfterArrival ==
  ASSUME Fits, NEW c \in Calls, NEW r, Arrival(c, r)
  PROVE  Fits' /\ r \in Request
<1>1. CallFits(call[c]) /\ QueueFits /\ PhaseFits /\ BoundsFit /\ Arrived(c, r)
  BY ArrivalIs DEF Fits
<1>2. /\ r \in Request /\ load' \in Workload /\ load'.clock = load.clock
      /\ load'.faults = load.faults
  BY <1>1, LoadAfterArrival DEF BoundsFit
<1>3. /\ CallsShaped' /\ Apart(c) /\ phase = "serving" /\ call[c].pc = "idle"
      /\ UNCHANGED <<clock, faults, phase>>
  BY <1>1 DEF Arrived
<1>4. CallFits(call'[c]) /\ call'[c].task = "none" /\ call[c].task = "none"
  BY <1>1, <1>2, <1>3, ArrivalFits, ArrivalStarts DEF Arrival, CallFits
<1>5. CallsShaped' /\ \A d \in Calls : CallFits(call'[d]) BY <1>3, <1>4, CallsFitAfter
<1>6. QueueFits'
  <2>1. \A d \in Calls : /\ (call'[d].task = "queued") <=> (call[d].task = "queued")
                         /\ call[d].task = "queued" => call'[d].req = call[d].req
    BY <1>3, <1>4 DEF Apart, Same
  <2> QED BY <1>1, <2>1, QueueUnchanged, ArrivalIs
<1>7. PhaseFits' BY <1>3 DEF PhaseFits, Ended
<1>8. BoundsFit' BY <1>1, <1>2, <1>3, ArrivalIs DEF BoundsFit, taskVars
<1> QED BY <1>2, <1>5, <1>6, <1>7, <1>8 DEF Fits

LEMMA FitsAfterStart ==
  ASSUME Fits, NEW p \in Pools, phase # "exited", Started(p)
  PROVE  Fits'
<1> DEFINE c == Head(queue[p])
<1>1. /\ QueueFits /\ PhaseFits /\ BoundsFit /\ c \in Calls /\ call[c].task = "queued"
      /\ PoolOf(call[c].req) = p
  <2>1. queue[p] \in Seq(Calls) /\ queue[p] # <<>> /\ 1 \in 1..Len(queue[p])
    BY DEF Fits, QueueFits, Started
  <2> QED BY <2>1 DEF Fits, QueueFits
<1>2. /\ Steps(c, {"task"}) /\ call'[c].task = "start" /\ faults' = faults /\ month' = month
      /\ call[c].pc \in {"wait", "done"}
  BY <1>1, TablesUnchanged DEF Started, Fits, CallFits
<1>3. /\ Only({"task"}, call[c], call'[c]) /\ CallsShaped'
      /\ \A d \in Calls : d # c => call'[d] = call[d]
      /\ UNCHANGED <<load, clock, phase>>
  BY <1>2 DEF Steps
<1>4. CallFits(call'[c]) /\ call'[c].req = call[c].req /\ call'[c].pc = call[c].pc
  BY <1>1, <1>2, <1>3, OnlyFields DEF Fits, CallFits, TaskPositions
<1>5. \A d \in Calls : CallFits(call'[d]) BY <1>3, <1>4 DEF Fits
<1>6. QueueFits' BY <1>1, QueueStarted
<1>7. PhaseFits'
  <2>1. phase \notin {"serving", "stopping"} => \A d \in Calls : call'[d].pc \in {"idle", "done"}
    BY <1>1, <1>3, <1>4 DEF PhaseFits
  <2>2. ASSUME NEW q \in Pools, NEW d \in Calls, phase \in Ended(q), PoolOf(call'[d].req) = q
        PROVE  call'[d].task \in {"none", "finished"}
    BY <1>1, <1>3, <1>4, <2>2 DEF PhaseFits
  <2> QED BY <1>1, <1>3, <2>1, <2>2 DEF PhaseFits, Ended
<1>8. BoundsFit' BY <1>1, <1>2, <1>3 DEF BoundsFit
<1> QED BY <1>3, <1>5, <1>6, <1>7, <1>8 DEF Fits

LEMMA AmbientIs ==
  ASSUME Ambient
  PROVE  UNCHANGED <<load, call, faults, queue>>
  BY DEF Ambient, DeviceChanges, MonthTurns, Tick, StopRequested, ServerShutdown, DrainAndStop,
         vars, callVars, serviceVars

LEMMA FitsAfterAmbient ==
  ASSUME Fits, Ambient
  PROVE  Fits'
<1>1. CallsShaped' /\ (\A c \in Calls : CallFits(call[c])') /\ QueueFits'
  BY AmbientIs DEF Fits, CallsShaped, Shaped, CallFits, QueueFits
<1>2. PhaseFits'
  <2>1. CASE phase' = phase BY <2>1, AmbientIs DEF Fits, PhaseFits, Ended
  <2>2. CASE StopRequested BY <2>2, AmbientIs DEF Fits, PhaseFits, Ended, StopRequested
  <2>3. CASE ServerShutdown
    BY <2>3, AmbientIs DEF Fits, PhaseFits, Ended, ServerShutdown, Handling
  <2>4. CASE DrainAndStop
    <3>1. /\ phase \in {"submission", "delivery", "sync"} /\ Drained(phase)
          /\ phase' = CASE phase = "submission" -> "delivery"
                        [] phase = "delivery" -> "sync"
                        [] phase = "sync" -> "exited"
      BY <2>4, ServiceAssumption DEF DrainAndStop
    <3>2. ASSUME NEW c \in Calls, PoolOf(call[c].req) = phase
          PROVE  call[c].task \in {"none", "finished"}
      <4>1. call[c].task # "queued"
        <5>1. queue[phase] = <<>> BY <3>1 DEF Drained
        <5>2. Len(queue[phase]) = 0 BY <5>1
        <5>3. ~\E i \in 1..Len(queue[phase]) : queue[phase][i] = c BY <5>2
        <5> QED BY <3>2, <5>3 DEF Fits, QueueFits
      <4> QED BY <3>1, <3>2, <4>1 DEF Drained, Running
    <3>3. phase' \in {"delivery", "sync", "exited"} BY <3>1
    <3>4. ASSUME NEW p \in Pools, NEW c \in Calls, phase' \in Ended(p), PoolOf(call[c].req) = p
          PROVE  call[c].task \in {"none", "finished"}
      <4>1. p = phase \/ phase \in Ended(p) BY <3>1, <3>4, ServiceAssumption DEF Ended
      <4> QED BY <3>2, <3>4, <4>1 DEF Fits, PhaseFits
    <3>5. \A c \in Calls : call[c].pc \in {"idle", "done"} BY <3>1 DEF Fits, PhaseFits
    <3> QED BY <3>3, <3>4, <3>5, AmbientIs DEF PhaseFits, Ended
  <2> QED BY <2>1, <2>2, <2>3, <2>4 DEF Ambient, DeviceChanges, MonthTurns, Tick, vars,
              callVars
<1>3. BoundsFit'
  <2>0. load \in Workload /\ load.months \in 0..MaxMonth /\ load.clock \in 0..MaxClock
    BY DEF Fits, BoundsFit, Workload
  <2>1. CASE MonthTurns
    BY <2>0, <2>1, TasksAssumption DEF Fits, BoundsFit, MonthTurns, callVars
  <2>2. CASE Tick /\ UNCHANGED <<tables, serviceVars>>
    BY <2>0, <2>2, CallsAssumption, TablesUnchanged DEF Fits, BoundsFit, Tick
  <2>3. CASE clock' = clock /\ month' = month BY <2>3, AmbientIs DEF Fits, BoundsFit
  <2> QED BY <2>1, <2>2, <2>3, TablesUnchanged
           DEF Ambient, DeviceChanges, StopRequested, ServerShutdown, DrainAndStop,
               vars, callVars, taskVars
<1> QED BY <1>1, <1>2, <1>3 DEF Fits

LEMMA FitsInit == Init => Fits
<1> SUFFICES ASSUME Init PROVE Fits OBVIOUS
<1>1. /\ load \in Workload /\ call = [c \in Calls |-> Unused] /\ clock = 0 /\ faults = 0
      /\ phase = "serving" /\ month = 1 /\ queue = [p \in Pools |-> <<>>]
  BY WorkloadsAssumption DEF Init, CallsInit, TasksInit
<1>2. CallsShaped /\ \A c \in Calls : CallFits(call[c])
  BY <1>1, UnusedShaped, UnusedFits DEF CallsShaped
<1>3. \A c \in Calls : call[c].task = "none" BY <1>1 DEF Unused
<1>4. QueueFits BY <1>1, <1>3, ServiceAssumption DEF QueueFits
<1>5. PhaseFits BY <1>1 DEF PhaseFits, Ended
<1>6. BoundsFit
  <2>1. load.clock \in 0..MaxClock /\ load.faults \in 0..MaxFaults BY <1>1 DEF Workload
  <2> QED BY <1>1, <2>1, CallsAssumption, TasksAssumption DEF BoundsFit
<1> QED BY <1>2, <1>4, <1>5, <1>6 DEF Fits

\* Every step is an arrival, a step of a call, the start of a task, or leaves the
\* calls alone.
LEMMA StepKinds ==
  ASSUME Fits, [Next]_vars
  PROVE  \/ \E c \in Calls, r \in load.requests : Arrival(c, r)
         \/ \E c \in Calls : phase # "exited" /\ Move(c)
         \/ \E p \in Pools : phase # "exited" /\ Started(p)
         \/ Ambient
<1>1. \A c \in Calls : call[c].pc # "done" => call[c].answer = "none" BY DEF Fits, CallFits
<1>2. \A p \in Pools : queue[p] # <<>> => Head(queue[p]) \in Calls BY DEF Fits, QueueFits
<1>3. Kinds BY <1>1, <1>2, NextKinds DEF Fits
<1> QED BY <1>3 DEF Kinds, Arrival, Move

LEMMA FitsNext == Fits /\ [Next]_vars => Fits'
  BY StepKinds, FitsAfterArrival, FitsAfterMove, FitsAfterStart, FitsAfterAmbient

\* The handlers, the pools and the drain keep to their order: a task runs once it
\* was queued, in the pool of its request, and a stopped pool has none left.
THEOREM CallsFit == Spec => []Fits
  BY FitsInit, FitsNext, PTL DEF Spec

-----------------------------------------------------------------------------
(***************************************************************************)
(* What the tasks keep                                                     *)
(***************************************************************************)

\* A call before and after a step that is none of its task's: what the task
\* found out stays, and the task is queued, started, resolved or gives up.
Aside(x, y) ==
  \/ y.task = "none" /\ y.seq = 0
  \/ /\ y.req = x.req /\ y.seq = x.seq /\ y.month = x.month /\ y.page = x.page
     /\ y.more = x.more /\ y.before = x.before /\ y.at = x.at
     /\ x.task # "resolve" => y.dir = x.dir
     /\ \/ y.task = x.task /\ y.res = x.res
        \/ x.task \in {"none", "queued"} /\ y.task \in {"queued", "start"} /\ y.res = x.res
        \/ x.task = "resolve" /\ y.task \in {"resolve", "targets"} /\ y.res = x.res
        \/ x.task # "finished" /\ Failed(y)
        \/ x.task = "start" /\ y.task = "finished" /\ PoolOf(y.req) = "delivery"

\* Such a step of the service; the present month may change with no call.
Background ==
  /\ UNCHANGED <<stored, counter, cursor, stripes>>
  /\ \A c \in Calls : Aside(call[c], call'[c])
  /\ month' = month \/ (month' = month + 1 /\ call' = call)

\* A step of a task leaves the other calls alone.
TaskStepOf(c) == TaskMove(c) /\ \A d \in Calls : d # c => call'[d] = call[d]

LEMMA SameAside ==
  ASSUME NEW x, NEW y, Same(x, y)
  PROVE  Aside(x, y)
  BY DEF Same, Aside

\* Calls without a task have found out nothing yet.
Idles == \A c \in Calls : call[c].task = "none" => call[c].seq = 0

LEMMA MoveAside ==
  ASSUME NEW c \in Calls, CallFits(call[c]), Move(c), Idles
  PROVE  \/ TaskMove(c)
         \/ UNCHANGED taskVars /\ Aside(call[c], call'[c])
<1> DEFINE x == call[c]
           y == call'[c]
<1>0. x.task = "none" => x.seq = 0 BY DEF Idles
<1>1. CASE ConversationMove(c) /\ UNCHANGED <<dirVars, taskVars, serviceVars>>
  <2>1. x.task = "none" /\ y.task = "none" /\ y.seq = x.seq
    BY <1>1 DEF ConversationMove, Inner, CallFits
  <2> QED BY <1>0, <1>1, <2>1 DEF Aside
<1>2. CASE DirectoryMove(c) /\ UNCHANGED <<taskVars, serviceVars>>
  <2>1. CASE DeviceResolved(c)
    <3>1. x.task = "none" /\ y.task = "none" /\ y.seq = x.seq
      BY <2>1, OnlyFields DEF DeviceResolved, Steps, CallFits
    <3> QED BY <1>0, <1>2, <3>1 DEF Aside
  <2>2. ASSUME NEW u, NEW devs, UserResolved(c, u, devs)
        PROVE  Aside(x, y)
    <3>1. /\ Only({"asked", "users", "dir", "task"}, x, y) /\ x.task = "resolve"
          /\ y.task \in {"resolve", "targets"}
      BY <2>2 DEF UserResolved, Steps
    <3> QED BY <3>1, OnlyFields DEF Aside
  <2>3. CASE Asks(c) \/ Reads(c)
    <3>1. Only({"asked"}, x, y) BY <2>3 DEF Asks, Reads, Steps
    <3> QED BY <1>2, <3>1, OnlyFields DEF Aside
  <2>4. CASE GivesUp(c)
    <3>1. CASE x.pc = "device" /\ Steps(c, {"asked", "pc"})
      <4>1. Only({"asked", "pc"}, x, y) BY <3>1 DEF Steps
      <4> QED BY <1>2, <4>1, OnlyFields DEF Aside
    <3>2. CASE /\ x.task = "resolve" /\ Steps(c, {"asked", "task", "res"})
               /\ y.task = "finished" /\ y.res = "UNSPECIFIED"
      <4>1. Only({"asked", "task", "res"}, x, y) /\ Failed(y) BY <3>2 DEF Steps, Failed
      <4> QED BY <1>2, <3>2, <4>1, OnlyFields DEF Aside
    <3> QED BY <2>4, <3>1, <3>2 DEF GivesUp, Unanswered
  <2> QED BY <1>2, <2>1, <2>2, <2>3, <2>4 DEF DirectoryMove, Hits, Receives
<1>3. CASE Submitted(c)
  <2>1. /\ Only({"pc", "task", "todo", "answer"}, x, y) /\ UNCHANGED taskVars
        /\ x.task = "none" /\ y.task \in {"none", "queued"}
    BY <1>3 DEF Submitted, Steps, CallFits, tables
  <2> QED BY <1>0, <2>1, OnlyFields DEF Aside
<1>4. CASE Answered(c) \/ TimedOut(c) \/ OverrideSet(c)
  <2>1. Only({"pc", "todo", "answer"}, x, y) /\ UNCHANGED taskVars
    BY <1>4 DEF Answered, TimedOut, OverrideSet, Steps, tables
  <2> QED BY <2>1, OnlyFields DEF Aside
<1>5. CASE Delivered(c)
  <2>1. /\ Only({"task", "res"}, x, y) /\ UNCHANGED taskVars /\ x.task = "start"
        /\ y.task = "finished" /\ PoolOf(x.req) = "delivery"
    BY <1>5 DEF Delivered, Steps, tables
  <2> QED BY <2>1, OnlyFields DEF Aside
<1>6. CASE PresenceShown(c)
  <2>1. Only({"users", "shown", "pc", "todo", "answer"}, x, y) /\ UNCHANGED taskVars
    BY <1>6 DEF PresenceShown, Steps, tables
  <2> QED BY <2>1, OnlyFields DEF Aside
<1> QED BY <1>1, <1>2, <1>3, <1>4, <1>5, <1>6 DEF Move, HandlerMove, PresenceMove

LEMMA TaskVarsUnchanged ==
  ASSUME UNCHANGED taskVars
  PROVE  UNCHANGED <<month, stored, counter, cursor, stripes>>
  BY DEF taskVars

LEMMA ArrivalSeq ==
  ASSUME NEW c \in Calls, NEW r \in Request, Arrival(c, r)
  PROVE  call'[c].seq = 0
  BY DEF Arrival, ConversationCall, PoolCall, StatusCall, UpdateCall, PresenceCall, Refused,
         ConversationArrival, DirectRequest, GroupRequest, ChangeRequest, ViewRequest, ListRequest,
         Converses, Pending, StatusRequest, PresenceRequest, Accepted, Fresh

\* Every step is one of a task or in the background.
LEMMA StepTasks ==
  ASSUME Fits, Idles, [Next]_vars
  PROVE  Background \/ \E c \in Calls : TaskStepOf(c)
<1>1. ASSUME NEW c \in Calls, NEW r, Arrival(c, r)
      PROVE  Background
  <2>1. r \in Request /\ Arrived(c, r) /\ UNCHANGED taskVars
    BY <1>1, FitsAfterArrival, ArrivalIs
  <2>2. Aside(call[c], call'[c]) BY <1>1, <2>1, ArrivalStarts, ArrivalSeq DEF Aside
  <2>3. \A d \in Calls : Aside(call[d], call'[d]) BY <2>1, <2>2, SameAside DEF Arrived, Apart
  <2> QED BY <2>1, <2>3, TaskVarsUnchanged DEF Background
<1>2. ASSUME NEW c \in Calls, Move(c)
      PROVE  Background \/ TaskStepOf(c)
  <2>1. Goings(c) /\ CallFits(call[c]) BY <1>2, FitsAfterMove DEF Fits
  <2>2. \A d \in Calls : d # c => call'[d] = call[d] BY <2>1 DEF Goings
  <2>3. CASE TaskMove(c) BY <2>2, <2>3 DEF TaskStepOf
  <2>4. CASE UNCHANGED taskVars /\ Aside(call[c], call'[c])
    BY <2>2, <2>4, TaskVarsUnchanged DEF Background, Aside
  <2> QED BY <1>2, <2>1, <2>3, <2>4, MoveAside
<1>3. ASSUME NEW p \in Pools, Started(p)
      PROVE  Background
  <2> DEFINE c == Head(queue[p])
  <2>1. c \in Calls /\ call[c].task = "queued"
    <3>1. queue[p] \in Seq(Calls) /\ queue[p] # <<>> /\ 1 \in 1..Len(queue[p])
      BY <1>3 DEF Fits, QueueFits, Started
    <3> QED BY <3>1 DEF Fits, QueueFits
  <2>2. /\ Only({"task"}, call[c], call'[c]) /\ call'[c].task = "start" /\ UNCHANGED tables
        /\ \A d \in Calls : d # c => call'[d] = call[d]
    BY <1>3 DEF Started, Steps
  <2>3. Aside(call[c], call'[c]) BY <2>1, <2>2, OnlyFields DEF Aside
  <2> QED BY <2>2, <2>3, TablesUnchanged DEF Background, Aside
<1>4. ASSUME Ambient
      PROVE  Background
  <2>1. call' = call /\ \A c \in Calls : Aside(call[c], call'[c])
    BY <1>4, AmbientIs DEF Aside
  <2>2. UNCHANGED <<stored, counter, cursor, stripes>> /\ (month' = month \/ month' = month + 1)
    <3>1. CASE UNCHANGED tables \/ UNCHANGED taskVars
      BY <3>1, TablesUnchanged, TaskVarsUnchanged
    <3>2. CASE MonthTurns BY <3>2 DEF MonthTurns
    <3> QED BY <1>4, <3>1, <3>2
             DEF Ambient, Tick, StopRequested, ServerShutdown, DrainAndStop, vars
  <2> QED BY <2>1, <2>2 DEF Background
<1> QED BY <1>1, <1>2, <1>3, <1>4, StepKinds

\* The call holds the lock of its cursor.
Locks(c) == call[c].task = "save" /\ call[c].req.rpc = "UpdateSyncCursor"

CursorOf(r) == cursor[EffectiveDevice(r)][r.conv]

\* What was sent is stored; an update of a cursor holds the lock of it from the
\* check to the write, alone, so that the cursor is still where it was checked.
Kept ==
  /\ cursor \in [Devices \cup {None} -> [Convs -> Int]] /\ stripes \subseteq Devices \X Convs
  /\ \A c \in Calls : Sent1(c) => RowOf(c) \in stored
  /\ \A c \in Calls : Locks(c) =>
       /\ Stripe(call[c].req) \in stripes /\ CursorOf(call[c].req) <= call[c].req.seq
       /\ \A d \in Calls : Locks(d) /\ Stripe(call[d].req) = Stripe(call[c].req) => d = c
  /\ \A c \in Calls :
       /\ call[c].task = "finished" /\ call[c].res = "OK"
       /\ call[c].req.rpc = "UpdateSyncCursor"
       => call[c].req.seq <= CursorOf(call[c].req)

LEMMA CursorRequest ==
  ASSUME Fits, NEW c \in Calls, call[c].task # "none", call[c].req.rpc = "UpdateSyncCursor"
  PROVE  /\ EffectiveDevice(call[c].req) \in Devices /\ call[c].req.conv \in Convs
         /\ call[c].req.seq \in Int
<1>1. call[c].req \in Request /\ Named(call[c].req) BY DEF Fits, CallFits
<1>2. /\ EffectiveDevice(call[c].req) \in Devices \cup {None}
      /\ call[c].req.conv \in Convs \cup {None} /\ call[c].req.seq \in Int
  BY <1>1, RequestFields
<1> QED BY <1>1, <1>2 DEF Named

\* What a call keeps when the tables do.
LEMMA KeptAside ==
  ASSUME Fits, Kept, UNCHANGED <<stored, cursor, stripes>>,
         \A c \in Calls : \/ Aside(call[c], call'[c])
                          \/ /\ call'[c].req = call[c].req
                             /\ ~Sent1(c)' /\ ~Locks(c)'
                             /\ ~(call'[c].task = "finished" /\ call'[c].res = "OK"
                                    /\ call'[c].req.rpc = "UpdateSyncCursor")
  PROVE  Kept'
<1>1. ASSUME NEW c \in Calls
      PROVE  /\ Sent1(c)' => Sent1(c) /\ RowOf(c)' = RowOf(c)
             /\ Locks(c)' => Locks(c) /\ call'[c].req = call[c].req
             /\ /\ call'[c].task = "finished" /\ call'[c].res = "OK"
                /\ call'[c].req.rpc = "UpdateSyncCursor"
                => /\ call[c].task = "finished" /\ call[c].res = "OK"
                   /\ call'[c].req = call[c].req
  <2>1. CASE Aside(call[c], call'[c])
    <3>1. call'[c].req.rpc \in {"SendMessage", "UpdateSyncCursor"} =>
            PoolOf(call'[c].req) # "delivery"
      BY DEF PoolOf
    <3>2. /\ call'[c].task = "finished" /\ call'[c].res = "OK"
          /\ call'[c].req.rpc \in {"SendMessage", "UpdateSyncCursor"}
          => /\ call[c].task = "finished" /\ call[c].res = "OK"
             /\ call'[c].req = call[c].req /\ call'[c].month = call[c].month
             /\ call'[c].seq = call[c].seq
      BY <2>1, <3>1 DEF Aside, Failed
    <3>3. Locks(c)' => Locks(c) /\ call'[c].req = call[c].req
      BY <2>1 DEF Aside, Locks, Failed
    <3>4. Sent1(c)' => Sent1(c) /\ RowOf(c)' = RowOf(c) BY <3>2 DEF Sent1, RowOf
    <3> QED BY <3>2, <3>3, <3>4
  <2> QED BY <2>1
<1>2. \A c \in Calls : Sent1(c)' => RowOf(c)' \in stored' BY <1>1 DEF Kept
<1>3. ASSUME NEW c \in Calls, Locks(c)'
      PROVE  /\ Stripe(call'[c].req) \in stripes' /\ CursorOf(call[c].req)' <= call'[c].req.seq
             /\ \A d \in Calls : Locks(d)' /\ Stripe(call'[d].req) = Stripe(call'[c].req) => d = c
  <2>1. Locks(c) /\ call'[c].req = call[c].req BY <1>1, <1>3
  <2>2. \A d \in Calls : Locks(d)' => Locks(d) /\ call'[d].req = call[d].req BY <1>1
  <2> QED BY <2>1, <2>2 DEF Kept, CursorOf
<1>4. \A c \in Calls :
        /\ call'[c].task = "finished" /\ call'[c].res = "OK"
        /\ call'[c].req.rpc = "UpdateSyncCursor"
        => call'[c].req.seq <= CursorOf(call[c].req)'
  BY <1>1 DEF Kept, CursorOf
<1> QED BY <1>2, <1>3, <1>4 DEF Kept, CursorOf

LEMMA KeptStored ==
  ASSUME Fits, Kept, NEW c \in Calls, SubmitStored(c)
  PROVE  Kept'
<1> DEFINE x == call[c]
           y == call'[c]
<1>1. /\ Only({"task", "res"}, x, y) /\ y.task = "finished" /\ x.req.rpc = "SendMessage"
      /\ \A d \in Calls : d # c => call'[d] = call[d]
      /\ cursor' = cursor /\ stripes' = stripes
  BY DEF SubmitStored, Steps
<1>2. y.req = x.req /\ y.seq = x.seq /\ y.month = x.month BY <1>1, OnlyFields
<1>3. PICK o \in Outcomes :
        /\ y.res = IF o = "ok" THEN "OK" ELSE "UNSPECIFIED"
        /\ stored' = IF o # "lost" THEN stored \cup {RowOf(c)} ELSE stored
  BY DEF SubmitStored
<1>4. ASSUME NEW d \in Calls, Sent1(d)'
      PROVE  RowOf(d)' \in stored'
  <2>1. CASE d = c
    <3>1. o = "ok" BY <1>3, <1>4, <2>1 DEF Sent1
    <3>2. RowOf(c) \in stored' BY <1>3, <3>1
    <3> QED BY <1>2, <2>1, <3>2 DEF RowOf
  <2>2. CASE d # c
    <3>1. Sent1(d) /\ RowOf(d)' = RowOf(d) BY <1>1, <1>4, <2>2 DEF Sent1, RowOf
    <3> QED BY <1>3, <3>1 DEF Kept
  <2> QED BY <2>1, <2>2
<1>5. \A d \in Calls : /\ Locks(d)' => Locks(d) /\ call'[d].req = call[d].req
                       /\ call'[d].req.rpc = "UpdateSyncCursor" => call'[d] = call[d]
  BY <1>1, <1>2 DEF Locks
<1>6. ASSUME NEW d \in Calls, Locks(d)'
      PROVE  /\ Stripe(call'[d].req) \in stripes' /\ CursorOf(call[d].req)' <= call'[d].req.seq
             /\ \A e \in Calls : Locks(e)' /\ Stripe(call'[e].req) = Stripe(call'[d].req) => e = d
  BY <1>1, <1>5, <1>6 DEF Kept, CursorOf
<1>7. \A d \in Calls :
        /\ call'[d].task = "finished" /\ call'[d].res = "OK"
        /\ call'[d].req.rpc = "UpdateSyncCursor"
        => call'[d].req.seq <= CursorOf(call[d].req)'
  BY <1>1, <1>5 DEF Kept, CursorOf
<1> QED BY <1>1, <1>4, <1>6, <1>7 DEF Kept, CursorOf

LEMMA KeptChecked ==
  ASSUME Fits, Kept, NEW c \in Calls, CursorChecked(c)
  PROVE  Kept'
<1> DEFINE x == call[c]
           y == call'[c]
           r == x.req
<1>1. /\ Only({"task", "res"}, x, y) /\ r.rpc = "UpdateSyncCursor" /\ x.task = "start"
      /\ \A d \in Calls : d # c => call'[d] = call[d]
      /\ cursor' = cursor /\ stored' = stored /\ Stripe(r) \notin stripes
  BY DEF CursorChecked, Steps, CursorLocked
<1>2. y.req = r /\ y.seq = x.seq /\ y.month = x.month BY <1>1, OnlyFields
<1>3. EffectiveDevice(r) \in Devices /\ r.conv \in Convs /\ r.seq \in Int /\ CursorOf(r) \in Int
  BY <1>1, CursorRequest DEF Kept, CursorOf
<1>4. CASE Failed(y) /\ stripes' = stripes
  <2>1. \A d \in Calls : Aside(call[d], call'[d]) \/ d = c BY <1>1 DEF Aside
  <2>2. ~Sent1(c)' /\ ~Locks(c)' /\ ~(y.task = "finished" /\ y.res = "OK")
    BY <1>4 DEF Sent1, Locks, Failed
  <2> QED BY <1>1, <1>2, <1>4, <2>1, <2>2, KeptAside
<1>5. CASE /\ ~(r.seq < CursorOf(r)) /\ stripes' = stripes \cup {Stripe(r)}
           /\ y.task = "save" /\ y.res = x.res
  <2>1. stripes' \subseteq Devices \X Convs BY <1>3, <1>5 DEF Kept, Stripe
  <2>2. ASSUME NEW d \in Calls, Sent1(d)' PROVE RowOf(d)' \in stored'
    <3>1. d # c BY <1>5, <2>2 DEF Sent1
    <3> QED BY <1>1, <2>2, <3>1 DEF Kept, Sent1, RowOf
  <2>3. \A d \in Calls : d # c /\ Locks(d)' =>
          Locks(d) /\ call'[d].req = call[d].req /\ Stripe(call[d].req) # Stripe(r)
    BY <1>1 DEF Kept, Locks
  <2>4. ASSUME NEW d \in Calls, Locks(d)'
        PROVE  /\ Stripe(call'[d].req) \in stripes' /\ CursorOf(call[d].req)' <= call'[d].req.seq
               /\ \A e \in Calls : Locks(e)' /\ Stripe(call'[e].req) = Stripe(call'[d].req) => e = d
    <3>1. CASE d = c BY <1>1, <1>2, <1>3, <1>5, <2>3, <3>1 DEF CursorOf
    <3>2. CASE d # c BY <1>1, <1>2, <1>5, <2>3, <2>4, <3>2 DEF Kept, CursorOf
    <3> QED BY <3>1, <3>2
  <2>5. \A d \in Calls :
          /\ call'[d].task = "finished" /\ call'[d].res = "OK"
          /\ call'[d].req.rpc = "UpdateSyncCursor"
          => call'[d].req.seq <= CursorOf(call[d].req)'
    BY <1>1, <1>5 DEF Kept, CursorOf
  <2> QED BY <1>1, <2>1, <2>2, <2>4, <2>5 DEF Kept, CursorOf
<1> QED BY <1>4, <1>5 DEF CursorChecked, CursorOf

LEMMA CursorWritten ==
  ASSUME NEW f \in [Devices \cup {None} -> [Convs -> Int]], NEW d \in Devices, NEW k \in Convs,
         NEW n \in Int, NEW g, g = [f EXCEPT ![d][k] = n]
  PROVE  /\ g \in [Devices \cup {None} -> [Convs -> Int]] /\ g[d][k] = n
         /\ \A e \in Devices, j \in Convs : e # d \/ j # k => g[e][j] = f[e][j]
  OBVIOUS

LEMMA KeptSaved ==
  ASSUME Fits, Kept, NEW c \in Calls, CursorSaved(c)
  PROVE  Kept'
<1> DEFINE x == call[c]
           y == call'[c]
           r == x.req
<1>1. /\ Only({"task", "res"}, x, y) /\ r.rpc = "UpdateSyncCursor" /\ x.task = "save"
      /\ y.task = "finished" /\ stripes' = stripes \ {Stripe(r)}
      /\ \A d \in Calls : d # c => call'[d] = call[d]
      /\ stored' = stored
  BY DEF CursorSaved, Steps
<1>2. y.req = r /\ y.seq = x.seq /\ y.month = x.month BY <1>1, OnlyFields
<1>3. EffectiveDevice(r) \in Devices /\ r.conv \in Convs /\ r.seq \in Int /\ CursorOf(r) \in Int
  BY <1>1, CursorRequest DEF Kept, CursorOf
<1>4. Locks(c) /\ CursorOf(r) <= r.seq BY <1>1 DEF Kept, Locks
<1>5. PICK o \in Outcomes :
        /\ y.res = IF o = "ok" THEN "OK" ELSE "UNSPECIFIED"
        /\ cursor' = IF o # "lost" THEN [cursor EXCEPT ![EffectiveDevice(r)][r.conv] = r.seq]
                     ELSE cursor
  BY DEF CursorSaved
<1> DEFINE dev == EffectiveDevice(r)
<1>6. /\ cursor' \in [Devices \cup {None} -> [Convs -> Int]]
      /\ \A d \in Devices, k \in Convs : <<d, k>> # Stripe(r) => cursor'[d][k] = cursor[d][k]
      /\ cursor'[dev][r.conv] \in {CursorOf(r), r.seq}
      /\ o = "ok" => cursor'[dev][r.conv] = r.seq
  <2>1. cursor \in [Devices \cup {None} -> [Convs -> Int]] BY DEF Kept
  <2>2. CASE o = "lost" BY <1>5, <2>1, <2>2 DEF CursorOf
  <2>3. CASE o # "lost"
    <3>1. cursor' = [cursor EXCEPT ![dev][r.conv] = r.seq] BY <1>5, <2>3
    <3> HIDE DEF dev
    <3>2. /\ cursor' \in [Devices \cup {None} -> [Convs -> Int]]
          /\ cursor'[dev][r.conv] = r.seq
          /\ \A e \in Devices, j \in Convs : e # dev \/ j # r.conv => cursor'[e][j] = cursor[e][j]
      BY <1>3, <2>1, <3>1, CursorWritten DEF dev
    <3> QED BY <3>2 DEF Stripe, dev
  <2> QED BY <2>2, <2>3
<1>7. ASSUME NEW d \in Calls, Sent1(d)' PROVE RowOf(d)' \in stored'
  <2>1. d # c BY <1>1, <1>2, <1>7 DEF Sent1
  <2> QED BY <1>1, <1>7, <2>1 DEF Kept, Sent1, RowOf
<1>8. \A d \in Calls : Locks(d)' => /\ d # c /\ Locks(d) /\ call'[d] = call[d]
                                    /\ Stripe(call[d].req) # Stripe(r)
  BY <1>1, <1>4 DEF Kept, Locks
<1>9. ASSUME NEW d \in Calls, Locks(d)'
      PROVE  /\ Stripe(call'[d].req) \in stripes' /\ CursorOf(call[d].req)' <= call'[d].req.seq
             /\ \A e \in Calls : Locks(e)' /\ Stripe(call'[e].req) = Stripe(call'[d].req) => e = d
  <2>1. /\ d # c /\ Locks(d) /\ call'[d] = call[d] /\ Stripe(call[d].req) # Stripe(r)
    BY <1>8, <1>9
  <2>2. EffectiveDevice(call[d].req) \in Devices /\ call[d].req.conv \in Convs
    BY <2>1, CursorRequest DEF Locks
  <2>3. CursorOf(call[d].req)' = CursorOf(call[d].req)
    BY <1>6, <2>1, <2>2 DEF CursorOf, Stripe, EffectiveDevice
  <2> QED BY <1>1, <1>8, <2>1, <2>3 DEF Kept
<1>10. ASSUME NEW d \in Calls, call'[d].task = "finished", call'[d].res = "OK",
              call'[d].req.rpc = "UpdateSyncCursor"
       PROVE  call'[d].req.seq <= CursorOf(call[d].req)'
  <2>1. CASE d = c
    <3>1. o = "ok" BY <1>5, <1>10, <2>1
    <3>2. EffectiveDevice(call[d].req)' = dev /\ call'[d].req = r
      BY <1>2, <2>1 DEF EffectiveDevice
    <3> QED BY <1>3, <1>6, <3>1, <3>2 DEF CursorOf
  <2>2. CASE d # c
    <3>1. call'[d] = call[d] /\ call[d].req.seq <= CursorOf(call[d].req)
      BY <1>1, <1>10, <2>2 DEF Kept
    <3>2. /\ EffectiveDevice(call[d].req) \in Devices /\ call[d].req.conv \in Convs
          /\ call[d].req.seq \in Int
      BY <1>10, <3>1, CursorRequest
    <3>3. CASE Stripe(call[d].req) = Stripe(r)
      <4>1. EffectiveDevice(call[d].req) = EffectiveDevice(r) /\ call[d].req.conv = r.conv
        BY <3>3 DEF Stripe
      <4>2. EffectiveDevice(call[d].req)' = dev /\ call'[d].req.conv = r.conv
        BY <3>1, <4>1 DEF EffectiveDevice
      <4>3. call[d].req.seq <= cursor'[dev][r.conv]
        BY <1>3, <1>4, <1>6, <3>1, <3>2, <4>1 DEF CursorOf
      <4> QED BY <3>1, <4>2, <4>3 DEF CursorOf
    <3>4. CASE Stripe(call[d].req) # Stripe(r)
      <4>1. CursorOf(call[d].req)' = CursorOf(call[d].req)
        BY <1>6, <3>1, <3>2, <3>4 DEF CursorOf, Stripe, EffectiveDevice
      <4> QED BY <3>1, <4>1
    <3> QED BY <3>3, <3>4
  <2> QED BY <2>1, <2>2
<1> QED BY <1>1, <1>6, <1>7, <1>9, <1>10 DEF Kept, CursorOf

LEMMA IdlesNext ==
  ASSUME Fits, Idles, [Next]_vars
  PROVE  Idles'
<1>1. CASE Background BY <1>1 DEF Background, Aside, Idles, Failed
<1>2. ASSUME NEW c \in Calls, TaskStepOf(c)
      PROVE  Idles'
  <2>1. call'[c].task # "none"
    BY <1>2 DEF TaskStepOf, TaskMove, Failed, SubmitAuthorised, SubmitNamed, SubmitNumbered,
                SubmitStored, SyncAuthorised, SyncPlaced, SyncReadPrevious, SyncReadCurrent,
                CursorRead, CursorChecked, CursorSaved
  <2> QED BY <1>2, <2>1 DEF TaskStepOf, Idles
<1> QED BY <1>1, <1>2, StepTasks

LEMMA KeptNext ==
  ASSUME Fits, Idles, Kept, [Next]_vars
  PROVE  Kept'
<1>1. CASE Background BY <1>1, KeptAside DEF Background
<1>2. ASSUME NEW c \in Calls, TaskStepOf(c)
      PROVE  Kept'
  <2> DEFINE x == call[c]
             y == call'[c]
  <2>0. \A d \in Calls : Aside(call[d], call'[d]) \/ d = c BY <1>2 DEF TaskStepOf, Aside
  <2>1. CASE SubmitStored(c) \/ CursorChecked(c) \/ CursorSaved(c)
    BY <2>1, KeptStored, KeptChecked, KeptSaved
  <2>2. CASE SubmitAuthorised(c) \/ SubmitNamed(c)
    <3>1. /\ Only({"task", "res", "users"}, x, y) /\ UNCHANGED taskVars
          /\ y.task \in {"members", "resolve"} \/ Failed(y)
      BY <2>2 DEF SubmitAuthorised, SubmitNamed, Steps, Only
    <3>2. y.req = x.req BY <3>1, OnlyFields
    <3> QED BY <2>0, <3>1, <3>2, KeptAside, TaskVarsUnchanged DEF Sent1, Locks, Failed
  <2>3. CASE SubmitNumbered(c)
    <3>1. /\ Only({"task", "res", "seq", "month"}, x, y) /\ UNCHANGED <<stored, cursor, stripes>>
          /\ y.task = "save" \/ Failed(y)
          /\ x.req.rpc = "SendMessage"
      BY <2>3 DEF SubmitNumbered, Steps
    <3>2. y.req = x.req BY <3>1, OnlyFields
    <3> QED BY <2>0, <3>1, <3>2, KeptAside DEF Sent1, Locks, Failed
  <2>4. CASE \/ SyncAuthorised(c) \/ SyncPlaced(c) \/ SyncReadPrevious(c)
             \/ SyncReadCurrent(c) \/ CursorRead(c)
    <3>1. /\ Only({"task", "res", "seq", "at", "month", "page", "more"}, x, y)
          /\ UNCHANGED <<stored, cursor, stripes>>
          /\ x.req.rpc \in SyncRpcs \cup {"GetSyncCursor"}
      BY <2>4, TaskVarsUnchanged
         DEF SyncAuthorised, SyncPlaced, SyncReadPrevious, SyncReadCurrent, CursorRead, Steps,
             Only
    <3>2. y.req = x.req BY <3>1, OnlyFields
    <3> QED BY <2>0, <3>1, <3>2, KeptAside DEF Sent1, Locks, SyncRpcs
  <2> QED BY <1>2, <2>1, <2>2, <2>3, <2>4 DEF TaskStepOf, TaskMove
<1> QED BY <1>1, <1>2, StepTasks

LEMMA KeptInit == Init => Idles /\ Kept
<1> SUFFICES ASSUME Init PROVE Idles /\ Kept OBVIOUS
<1>1. /\ call = [c \in Calls |-> Unused] /\ stripes = {}
      /\ cursor = [d \in Devices \cup {None} |-> [k \in Convs |-> 0]]
  BY DEF Init, CallsInit, TasksInit
<1>2. \A c \in Calls : call[c].task = "none" /\ call[c].seq = 0 BY <1>1 DEF Unused
<1> QED BY <1>1, <1>2 DEF Idles, Kept, Sent1, Locks

LEMMA KeptNothingLost == Fits /\ Kept => NothingLost
<1> SUFFICES ASSUME Fits, Kept PROVE NothingLost OBVIOUS
<1>1. ASSUME NEW c \in Calls, call[c].answer = "OK",
             call[c].req.rpc \in {"SendMessage", "UpdateSyncCursor"}
      PROVE  call[c].task = "finished" /\ call[c].res = "OK"
  BY <1>1 DEF Fits, CallFits, Pooled
<1>2. AckedIsStored BY <1>1 DEF AckedIsStored, Kept, Sent1, RowOf, CursorOf
<1>3. DrainComplete
  <2> SUFFICES ASSUME phase = "exited", NEW c \in Calls PROVE ~InFlight(c)
    BY DEF DrainComplete
  <2>1. call[c].pc \in {"idle", "done"} BY DEF Fits, PhaseFits
  <2>2. PoolOf(call[c].req) \in Pools /\ "exited" \in Ended(PoolOf(call[c].req))
    BY PoolOfIs DEF Ended
  <2>3. call[c].task \in {"none", "finished"} BY <2>2 DEF Fits, PhaseFits
  <2> QED BY <2>1, <2>3 DEF InFlight
<1> QED BY <1>2, <1>3 DEF NothingLost

\* What a handler answered OK for is in the tables, and no task is left when
\* the process has exited: the lock of update_cursor covers check and write, and
\* the pools are drained after the last handler returned.
THEOREM NothingIsLost == Spec => []NothingLost
<1>1. Init => Fits /\ Idles /\ Kept BY FitsInit, KeptInit
<1>2. Fits /\ Idles /\ Kept /\ [Next]_vars => (Fits /\ Idles /\ Kept)'
  BY FitsNext, IdlesNext, KeptNext
<1>3. Fits /\ Idles /\ Kept => NothingLost BY KeptNothingLost
<1> QED BY <1>1, <1>2, <1>3, PTL DEF Spec

-----------------------------------------------------------------------------
(***************************************************************************)
(* The tables of conversations                                             *)
(***************************************************************************)

\* The steps an operation on conversation k may still have to make, and those
\* that end it.
WriteOps(k) ==
  [kind : {"conversation"}, conv : {k}, value : ConversationRows]
  \cup [kind : {"direct"}, conv : {k}, pair : Pairs]
  \cup [kind : {"meta"}, conv : {k}, status : {"Active", "Closed"}]
  \cup [kind : {"part"}, conv : {k}, user : Users, member : Members]
  \cup [kind : {"touch"}, conv : {k}, user : Users, status : MemberStatuses]
  \cup [kind : {"event"}, conv : {k},
        what : {"Created", "Joined", "Removed", "Left", "Closed", "Updated"}]
  \cup [kind : {"details", "view", "reply", "close"}, conv : {k}]

Ends == {"details", "view", "reply", "close"}

LEMMA WriteOpFields ==
  ASSUME NEW k, NEW w \in WriteOps(k)
  PROVE  /\ w.conv = k /\ w.kind \in Writes \cup {"event"} \cup Ends
         /\ w.kind = "conversation" => w.value \in ConversationRows
         /\ w.kind = "direct" => w.pair \in Pairs
         /\ w.kind = "meta" => w.status \in {"Active", "Closed"}
         /\ w.kind = "part" => w.user \in Users /\ w.member \in Members
         /\ w.kind = "touch" => w.user \in Users
<1> DEFINE A == [kind : {"conversation"}, conv : {k}, value : ConversationRows]
           B == [kind : {"direct"}, conv : {k}, pair : Pairs]
           C == [kind : {"meta"}, conv : {k}, status : {"Active", "Closed"}]
           D == [kind : {"part"}, conv : {k}, user : Users, member : Members]
           E == [kind : {"touch"}, conv : {k}, user : Users, status : MemberStatuses]
           F == [kind : {"event"}, conv : {k},
                 what : {"Created", "Joined", "Removed", "Left", "Closed", "Updated"}]
           G == [kind : {"details", "view", "reply", "close"}, conv : {k}]
<1>1. w \in A \/ w \in B \/ w \in C \/ w \in D \/ w \in E \/ w \in F \/ w \in G
  BY DEF WriteOps
<1>2. CASE w \in A BY <1>2 DEF Writes, Ends
<1>3. CASE w \in B BY <1>3 DEF Writes, Ends
<1>4. CASE w \in C BY <1>4 DEF Writes, Ends
<1>5. CASE w \in D BY <1>5 DEF Writes, Ends
<1>6. CASE w \in E BY <1>6 DEF Writes, Ends
<1>7. CASE w \in F BY <1>7 DEF Writes, Ends
<1>8. CASE w \in G BY <1>8 DEF Writes, Ends
<1> QED BY <1>1, <1>2, <1>3, <1>4, <1>5, <1>6, <1>7, <1>8

LEMMA WriteOpsAre ==
  ASSUME NEW k
  PROVE  /\ \A v \in ConversationRows : SaveConv(k, v) \in WriteOps(k)
         /\ \A p \in Pairs : SavePair(k, p) \in WriteOps(k)
         /\ \A s \in {"Active", "Closed"} : SaveMeta(k, s) \in WriteOps(k)
         /\ \A u \in Users, m \in Members : SavePart(k, u, m) \in WriteOps(k)
         /\ \A u \in Users, s \in MemberStatuses : Touch(k, u, s) \in WriteOps(k)
         /\ \A e \in {"Created", "Joined", "Removed", "Left", "Closed", "Updated"} :
              Event(k, e) \in WriteOps(k)
         /\ ThenDetails(k) \in WriteOps(k) /\ ThenClose(k) \in WriteOps(k)
         /\ ThenReply(k) \in WriteOps(k) /\ [kind |-> "view", conv |-> k] \in WriteOps(k)
<1>1. \A v \in ConversationRows : SaveConv(k, v) \in WriteOps(k) BY DEF SaveConv, WriteOps
<1>2. \A p \in Pairs : SavePair(k, p) \in WriteOps(k) BY DEF SavePair, WriteOps
<1>3. \A s \in {"Active", "Closed"} : SaveMeta(k, s) \in WriteOps(k)
  BY DEF SaveMeta, WriteOps
<1>4. \A u \in Users, m \in Members : SavePart(k, u, m) \in WriteOps(k)
  BY DEF SavePart, WriteOps
<1>5. \A u \in Users, s \in MemberStatuses : Touch(k, u, s) \in WriteOps(k)
  BY DEF Touch, WriteOps
<1>6. \A e \in {"Created", "Joined", "Removed", "Left", "Closed", "Updated"} :
        Event(k, e) \in WriteOps(k)
  BY DEF Event, WriteOps
<1>7. /\ ThenDetails(k) \in WriteOps(k) /\ ThenClose(k) \in WriteOps(k)
      /\ ThenReply(k) \in WriteOps(k) /\ [kind |-> "view", conv |-> k] \in WriteOps(k)
  BY DEF ThenDetails, ThenClose, ThenReply, WriteOps
<1> QED BY <1>1, <1>2, <1>3, <1>4, <1>5, <1>6, <1>7

LEMMA OpKinds ==
  ASSUME NEW k
  PROVE  /\ \A v : SaveConv(k, v).kind = "conversation" /\ SaveConv(k, v).value = v
         /\ \A p : SavePair(k, p).kind = "direct" /\ SavePair(k, p).pair = p
         /\ \A s : SaveMeta(k, s).kind = "meta" /\ SaveMeta(k, s).status = s
         /\ \A u, m : /\ SavePart(k, u, m).kind = "part" /\ SavePart(k, u, m).user = u
                      /\ SavePart(k, u, m).member = m /\ SavePart(k, u, m).conv = k
         /\ \A u, s : /\ Touch(k, u, s).kind = "touch" /\ Touch(k, u, s).user = u
                      /\ Touch(k, u, s).conv = k
         /\ \A e : Event(k, e).kind = "event"
         /\ ThenDetails(k).kind = "details" /\ ThenClose(k).kind = "close"
         /\ ThenReply(k).kind = "reply"
  BY DEF SaveConv, SavePair, SaveMeta, SavePart, Touch, Event, ThenDetails, ThenClose, ThenReply

LEMMA TailIs ==
  ASSUME NEW S, NEW s \in Seq(S), s # <<>>
  PROVE  /\ Tail(s) \in Seq(S) /\ Len(Tail(s)) = Len(s) - 1 /\ Len(s) \in Nat /\ Len(s) > 0
         /\ \A i \in 1..(Len(s) - 1) : Tail(s)[i] = s[i + 1]
         /\ Head(s) = s[1] /\ 1 \in 1..Len(s) /\ Head(s) \in S
  OBVIOUS

\* A list of steps of an operation on k: its last one ends the operation.
Todo(s, k) == s \in Seq(WriteOps(k)) /\ Len(s) > 0 /\ s[Len(s)].kind \in Ends

\* Of whom the index of conversations will name, the membership is written (p
\* are the members), or will be before.
Announced(s, p) ==
  \A i \in 1..Len(s) : s[i].kind = "touch" =>
    \/ p[s[i].conv][s[i].user] # None
    \/ \E j \in 1..(i - 1) : /\ s[j].kind = "part" /\ s[j].conv = s[i].conv
                             /\ s[j].user = s[i].user

LEMMA TodoTail ==
  ASSUME NEW k, NEW s, Todo(s, k), Head(s).kind \notin Ends
  PROVE  Todo(Tail(s), k) /\ Len(s) > 1
<1> DEFINE S == WriteOps(k)
<1> HIDE DEF S
<1>1. s \in Seq(S) /\ s # <<>> /\ s[Len(s)].kind \in Ends BY DEF Todo, S
<1>2. /\ Tail(s) \in Seq(S) /\ Len(Tail(s)) = Len(s) - 1 /\ Len(s) \in Nat /\ Len(s) > 0
      /\ \A i \in 1..(Len(s) - 1) : Tail(s)[i] = s[i + 1]
      /\ Head(s) = s[1]
  BY <1>1, TailIs
<1>3. Len(s) > 1 BY <1>1, <1>2
<1>4. Tail(s)[Len(s) - 1] = s[Len(s)] BY <1>2, <1>3
<1> QED BY <1>1, <1>2, <1>3, <1>4 DEF Todo, S

\* The order of a set: every element once.
LEMMA SetToSeqIs ==
  ASSUME NEW S, IsFiniteSet(S)
  PROVE  /\ SetToSeq(S) \in [1..Cardinality(S) -> S] /\ Cardinality(S) \in Nat
         /\ SetToSeq(S) \in Seq(S) /\ Len(SetToSeq(S)) = Cardinality(S)
<1>1. Cardinality(S) \in Nat /\ ExistsBijection(1..Cardinality(S), S) BY FS_CardinalityType
<1>2. \E f \in [1..Cardinality(S) -> S] : IsInjective(f)
  BY <1>1 DEF ExistsBijection, Bijection, Injection, IsInjective
<1>3. SetToSeq(S) \in [1..Cardinality(S) -> S] BY <1>2 DEF SetToSeq
<1> QED BY <1>1, <1>3

\* What create_group_conversation writes for k: the row and its metadata, the
\* caller as admin, then the others, each before the index names them.
GroupList(s, k, u, people) ==
  /\ Todo(s, k) /\ Len(s) >= 6
  /\ s[1] = SaveConv(k, [type |-> "Group", pair |-> {}]) /\ s[2] = SaveMeta(k, "Active")
  /\ s[3] = SavePart(k, u, Member("Admin", "Active")) /\ s[4] = Touch(k, u, "Active")
  /\ \A i \in 5..(Len(s) - 2) : \E v \in people \ {u} :
       \/ s[i] = SavePart(k, v, Member("Member", "Active"))
       \/ s[i] = Touch(k, v, "Active") /\ i > 5
            /\ s[i - 1] = SavePart(k, v, Member("Member", "Active"))
  /\ s[Len(s) - 1] = Event(k, "Created") /\ s[Len(s)] = ThenDetails(k)

LEMMA HalfOf ==
  ASSUME NEW i \in Nat, i > 0
  PROVE  /\ (i + 1) \div 2 \in Nat /\ i % 2 \in {0, 1}
         /\ 2 * ((i + 1) \div 2) >= i /\ 2 * ((i + 1) \div 2) <= i + 1
         /\ i % 2 = 0 => 2 * ((i + 1) \div 2) = i
         /\ i % 2 = 1 => 2 * ((i + 1) \div 2) = i + 1
  OBVIOUS

LEMMA MembersAre ==
  /\ \A r \in Roles, s \in MemberStatuses : Member(r, s) \in Members
  /\ \A m \in Members, s \in MemberStatuses : [m EXCEPT !.status = s] \in Members
  /\ "Admin" \in Roles /\ "Member" \in Roles
  /\ "Active" \in MemberStatuses /\ "Left" \in MemberStatuses /\ "Removed" \in MemberStatuses
  BY DEF Member, Members, Roles, MemberStatuses

LEMMA GroupWritesAre ==
  ASSUME NEW k, NEW u \in Users, NEW people \in SUBSET Users
  PROVE  GroupList(CreateGroupWrites(k, u, people), k, u, people)
<1> DEFINE S == WriteOps(k)
           T == people \ {u}
           others == SetToSeq(T)
           n == Len(others)
           N == 2 * n
           joined == [i \in 1..N |->
                        LET v == others[(i + 1) \div 2]
                        IN IF i % 2 = 1 THEN SavePart(k, v, Member("Member", "Active"))
                                        ELSE Touch(k, v, "Active")]
           first == << SaveConv(k, [type |-> "Group", pair |-> {}]), SaveMeta(k, "Active"),
                       SavePart(k, u, Member("Admin", "Active")), Touch(k, u, "Active") >>
           last == << Event(k, "Created"), ThenDetails(k) >>
           s == first \o joined \o last
<1>1. T \subseteq Users /\ IsFiniteSet(T) BY CallsAssumption, FS_Subset
<1>2. n \in Nat /\ N \in Nat /\ others \in [1..n -> T]
  <2>1. /\ others \in [1..Cardinality(T) -> T] /\ Cardinality(T) \in Nat
        /\ n = Cardinality(T)
    BY <1>1, SetToSeqIs
  <2> HIDE DEF n, others, T
  <2> QED BY <2>1
<1>3. CreateGroupWrites(k, u, people) = s BY DEF CreateGroupWrites
<1>4. ASSUME NEW i \in 1..N
      PROVE  /\ others[(i + 1) \div 2] \in T
             /\ i % 2 = 1 => joined[i] = SavePart(k, others[(i + 1) \div 2], Member("Member", "Active"))
             /\ i % 2 # 1 => joined[i] = Touch(k, others[(i + 1) \div 2], "Active")
  <2>1. (i + 1) \div 2 \in 1..n BY <1>2, HalfOf
  <2> QED BY <1>2, <2>1
<1>5. joined \in Seq(S) /\ Len(joined) = N
  <2>1. \A i \in 1..N : joined[i] \in S BY <1>1, <1>4, WriteOpsAre, MembersAre
  <2>2. joined \in [1..N -> S]
    <3> HIDE DEF S
    <3> QED BY <2>1
  <2> HIDE DEF joined, S, N
  <2> QED BY <1>2, <2>2
<1>6. ASSUME NEW i \in 1..N
      PROVE  \E v \in T : \/ joined[i] = SavePart(k, v, Member("Member", "Active"))
                          \/ /\ joined[i] = Touch(k, v, "Active") /\ i > 1
                             /\ joined[i - 1] = SavePart(k, v, Member("Member", "Active"))
  <2>1. CASE i % 2 = 1 BY <1>4, <2>1
  <2>2. CASE i % 2 # 1
    <3>1. i \in Nat /\ i > 0 BY <1>2
    <3>2. i % 2 = 0 /\ 2 * ((i + 1) \div 2) = i BY <2>2, <3>1, HalfOf
    <3>3. i > 1 /\ i - 1 \in 1..N /\ (i - 1) % 2 = 1 /\ ((i - 1) + 1) \div 2 = (i + 1) \div 2
      BY <1>2, <3>1, <3>2
    <3>4. joined[i - 1] = SavePart(k, others[(i + 1) \div 2], Member("Member", "Active"))
      BY <1>4, <3>3
    <3> QED BY <1>4, <2>2, <3>3, <3>4
  <2> QED BY <2>1, <2>2
<1>7. first \in Seq(S) /\ Len(first) = 4 /\ last \in Seq(S) /\ Len(last) = 2
  <2>1. [type |-> "Group", pair |-> {}] \in ConversationRows BY DEF ConversationRows
  <2>2. /\ SaveConv(k, [type |-> "Group", pair |-> {}]) \in S /\ SaveMeta(k, "Active") \in S
        /\ SavePart(k, u, Member("Admin", "Active")) \in S /\ Touch(k, u, "Active") \in S
        /\ Event(k, "Created") \in S /\ ThenDetails(k) \in S
    BY <2>1, WriteOpsAre, MembersAre
  <2> HIDE DEF S
  <2> QED BY <2>2
<1> HIDE DEF S, joined, N
<1>8. first \o joined \in Seq(S) /\ Len(first \o joined) = 4 + N BY <1>2, <1>5, <1>7
<1>9. s \in Seq(S) /\ Len(s) = N + 6 BY <1>2, <1>7, <1>8
<1>10. /\ s[1] = SaveConv(k, [type |-> "Group", pair |-> {}]) /\ s[2] = SaveMeta(k, "Active")
       /\ s[3] = SavePart(k, u, Member("Admin", "Active")) /\ s[4] = Touch(k, u, "Active")
  <2>1. \A i \in 1..4 : s[i] = first[i] BY <1>2, <1>5, <1>7, <1>8
  <2> QED BY <2>1
<1>11. s[N + 5] = Event(k, "Created") /\ s[N + 6] = ThenDetails(k)
  <2>1. s[4 + N + 1] = last[1] /\ s[4 + N + 2] = last[2]
    <3> HIDE DEF first, last
    <3> DEFINE t == first \o joined
    <3>0. t \in Seq(S) /\ last \in Seq(S) BY <1>7, <1>8
    <3> HIDE DEF t
    <3>1. \A i \in 1..Len(last) : (t \o last)[Len(t) + i] = last[i] BY <3>0
    <3>2. \A i \in 1..Len(last) : s[Len(first \o joined) + i] = last[i] BY <3>1 DEF t
    <3> HIDE DEF s
    <3> QED BY <1>7, <1>8, <3>2
  <2>2. 4 + N + 1 = N + 5 /\ 4 + N + 2 = N + 6 BY <1>2
  <2> QED BY <2>1, <2>2
<1>12. \A i \in 1..N : s[4 + i] = joined[i]
  <2> HIDE DEF first, last
  <2>1. \A i \in 1..N : (first \o joined)[4 + i] = joined[i]
    <3>0. first \in Seq(S) /\ joined \in Seq(S) BY <1>5, <1>7
    <3>1. \A i \in 1..Len(joined) : (first \o joined)[Len(first) + i] = joined[i] BY <3>0
    <3> QED BY <1>5, <1>7, <3>1
  <2>2. \A i \in 1..N : s[4 + i] = (first \o joined)[4 + i] BY <1>2, <1>7, <1>8
  <2> QED BY <2>1, <2>2
<1> HIDE DEF s
<1>13. ASSUME NEW i \in 5..(N + 4)
       PROVE  \E v \in T : \/ s[i] = SavePart(k, v, Member("Member", "Active"))
                           \/ /\ s[i] = Touch(k, v, "Active") /\ i > 5
                              /\ s[i - 1] = SavePart(k, v, Member("Member", "Active"))
  <2>1. i - 4 \in 1..N /\ s[i] = joined[i - 4] BY <1>2, <1>12
  <2>2. PICK v \in T : \/ joined[i - 4] = SavePart(k, v, Member("Member", "Active"))
                       \/ /\ joined[i - 4] = Touch(k, v, "Active") /\ i - 4 > 1
                          /\ joined[i - 4 - 1] = SavePart(k, v, Member("Member", "Active"))
    BY <1>6, <2>1
  <2>3. i - 4 > 1 => s[i - 1] = joined[i - 4 - 1] BY <1>2, <1>12
  <2> QED BY <1>2, <2>1, <2>2, <2>3
<1>14. s[Len(s)].kind \in Ends BY <1>2, <1>9, <1>11, OpKinds DEF Ends
<1>15. Todo(s, k) /\ Len(s) >= 6 BY <1>2, <1>9, <1>14 DEF Todo, S
<1>16. s[Len(s) - 1] = Event(k, "Created") /\ s[Len(s)] = ThenDetails(k) BY <1>2, <1>9, <1>11
<1>17. \A i \in 5..(Len(s) - 2) : \E v \in people \ {u} :
         \/ s[i] = SavePart(k, v, Member("Member", "Active"))
         \/ s[i] = Touch(k, v, "Active") /\ i > 5
              /\ s[i - 1] = SavePart(k, v, Member("Member", "Active"))
  BY <1>2, <1>9, <1>13
<1> QED BY <1>3, <1>10, <1>15, <1>16, <1>17 DEF GroupList

LEMMA GroupAnnounced ==
  ASSUME NEW k, NEW u, NEW people, NEW s, GroupList(s, k, u, people), NEW p
  PROVE  Announced(s, p)
<1> SUFFICES ASSUME NEW i \in 1..Len(s), s[i].kind = "touch"
             PROVE  \E j \in 1..(i - 1) : /\ s[j].kind = "part" /\ s[j].conv = s[i].conv
                                          /\ s[j].user = s[i].user
  BY DEF Announced
<1>0. Len(s) \in Nat /\ Len(s) >= 6 BY DEF GroupList, Todo
<1>1. i \notin {1, 2, 3, Len(s) - 1, Len(s)} BY OpKinds DEF GroupList
<1>2. CASE i = 4 BY <1>2, OpKinds DEF GroupList
<1>3. CASE i # 4
  <2>1. i \in 5..(Len(s) - 2) BY <1>0, <1>1, <1>3
  <2>2. PICK v : /\ s[i] = Touch(k, v, "Active") /\ i > 5
                 /\ s[i - 1] = SavePart(k, v, Member("Member", "Active"))
    BY <2>1, OpKinds DEF GroupList
  <2>3. i - 1 \in 1..(i - 1) BY <2>1, <2>2
  <2>4. /\ s[i - 1].kind = "part" /\ s[i - 1].conv = k /\ s[i - 1].user = v
        /\ s[i].conv = k /\ s[i].user = v
    BY <2>2 DEF SavePart, Touch
  <2> QED BY <2>3, <2>4
<1> QED BY <1>2, <1>3

\* What create_direct_conversation writes.
LEMMA DirectWritesAre ==
  ASSUME NEW k, NEW u \in Users, NEW v \in Users
  PROVE  /\ Todo(CreateDirectWrites(k, u, v), k) /\ Len(CreateDirectWrites(k, u, v)) = 8
         /\ \A q : Announced(CreateDirectWrites(k, u, v), q)
<1> DEFINE S == WriteOps(k)
           p == DirectPair(u, v)
           row == [type |-> "Direct", pair |-> p]
           m == Member("Member", "Active")
           s == << SaveConv(k, row), SavePair(k, p), SavePart(k, u, m), SavePart(k, v, m),
                   Touch(k, u, "Active"), Touch(k, v, "Active"),
                   Event(k, "Created"), ThenDetails(k) >>
<1>1. CreateDirectWrites(k, u, v) = s BY DEF CreateDirectWrites
<1>2. row \in ConversationRows /\ p \in Pairs
  <2>1. p \in SUBSET Users BY DEF DirectPair
  <2>2. <<u, v>> \in Users \X Users /\ p = DirectPair(<<u, v>>[1], <<u, v>>[2]) OBVIOUS
  <2> HIDE DEF p
  <2> QED BY <2>1, <2>2 DEF ConversationRows, Pairs
<1> HIDE DEF p, row, m
<1>3. /\ SaveConv(k, row) \in S /\ SavePair(k, p) \in S /\ SavePart(k, u, m) \in S
      /\ SavePart(k, v, m) \in S /\ Touch(k, u, "Active") \in S /\ Touch(k, v, "Active") \in S
      /\ Event(k, "Created") \in S /\ ThenDetails(k) \in S
  BY <1>2, WriteOpsAre, MembersAre DEF m
<1> HIDE DEF S
<1>4. s \in Seq(S) /\ Len(s) = 8 BY <1>3
<1>5. Todo(s, k) BY <1>4, OpKinds DEF Todo, S, Ends
<1>6. \A q : Announced(s, q)
  <2> SUFFICES ASSUME NEW i \in 1..8, s[i].kind = "touch"
               PROVE  \E j \in 1..(i - 1) : /\ s[j].kind = "part" /\ s[j].conv = s[i].conv
                                            /\ s[j].user = s[i].user
    BY <1>4 DEF Announced
  <2>1. i = 5 \/ i = 6
    <3>1. /\ s[1].kind # "touch" /\ s[2].kind # "touch" /\ s[3].kind # "touch"
          /\ s[4].kind # "touch" /\ s[7].kind # "touch" /\ s[8].kind # "touch"
      BY OpKinds
    <3> HIDE DEF s
    <3> QED BY <3>1
  <2>2. /\ s[3].kind = "part" /\ s[3].user = u /\ s[4].kind = "part" /\ s[4].user = v
        /\ s[5].user = u /\ s[6].user = v /\ s[5].conv = k /\ s[6].conv = k /\ s[3].conv = k
        /\ s[4].conv = k
    BY OpKinds
  <2> HIDE DEF s
  <2>3. CASE i = 5 BY <2>2, <2>3
  <2>4. CASE i = 6 BY <2>2, <2>4
  <2> QED BY <2>1, <2>3, <2>4
<1> QED BY <1>1, <1>4, <1>5, <1>6

\* What a write does to the tables.
Effect(w) ==
  /\ conversations' = IF w.kind = "conversation"
                      THEN [conversations EXCEPT ![w.conv] = w.value] ELSE conversations
  /\ direct' = IF w.kind = "direct" THEN [direct EXCEPT ![w.pair] = w.conv] ELSE direct
  /\ meta' = IF w.kind = "meta" THEN [meta EXCEPT ![w.conv] = w.status] ELSE meta
  /\ part' = IF w.kind = "part" THEN [part EXCEPT ![w.conv][w.user] = w.member] ELSE part
  /\ \A v \in rows' : v \in rows \/ (w.kind = "touch" /\ v.user = w.user /\ v.conv = w.conv)

TablesSame == UNCHANGED <<conversations, direct, meta, part, rows>>

\* The steps of a conversation RPC: a write is made and the next one is due,
Advances(c) ==
  /\ Moved(c) /\ call[c].pc = "write" /\ Head(call[c].todo).kind \in Writes \cup {"event"}
  /\ call'[c].pc = "write" /\ call'[c].todo = Tail(call[c].todo)
  /\ call'[c].answer = call[c].answer /\ faults' = faults /\ Effect(Head(call[c].todo))

\* a write fails, with its effect or without,
Breaks(c) ==
  /\ Moved(c) /\ call[c].pc = "write" /\ Head(call[c].todo).kind \in Writes
  /\ Fails(call[c], call'[c]) /\ faults' = faults + 1
  /\ Effect(Head(call[c].todo)) \/ TablesSame

\* the row that is to be changed is read, or is not there,
Finds(c) ==
  LET r == call[c].req
      k == r.conv
  IN /\ Moved(c) /\ call[c].pc = "find" /\ call'[c].pc = "write"
     /\ call'[c].answer = call[c].answer /\ faults' = faults /\ TablesSame
     /\ \/ r.rpc = "AddParticipant" /\ call'[c].todo = AddWrites(k, r.target)
        \/ /\ r.rpc = "RemoveParticipant" /\ part[k][r.target] # None
           /\ call'[c].todo = RemoveWrites(k, r.target)
        \/ /\ r.rpc = "LeaveConversation" /\ part[k][r.user] # None
           /\ call'[c].todo = LeaveWrites(k, r.user)
        \/ /\ r.rpc = "UpdateConversationMetadata" /\ meta[k] # None
           /\ call'[c].todo = UpdateWrites(k)

Misses(c) ==
  /\ Moved(c) /\ call[c].pc = "find" /\ Fails(call[c], call'[c]) /\ faults' = faults /\ TablesSame

\* the one who left looks whether there is somebody left,
Closes(c) ==
  LET k == Head(call[c].todo).conv
  IN /\ Moved(c) /\ call[c].pc = "write" /\ Head(call[c].todo).kind = "close"
     /\ call'[c].pc = "write" /\ call'[c].answer = call[c].answer
     /\ faults' = faults /\ TablesSame
     /\ call'[c].todo =
          IF ListActive(k) = {} /\ meta[k] # None
          THEN << SaveMeta(k, "Closed"), Event(k, "Closed"), ThenReply(k) >>
          ELSE << ThenReply(k) >>

\* and the call is answered.
Concludes(c) ==
  /\ Moved(c) /\ call[c].pc = "write" /\ Head(call[c].todo).kind \in {"details", "view", "reply"}
  /\ call'[c].pc = "done" /\ call'[c].todo = <<>> /\ call'[c].answer # "none"
  /\ Head(call[c].todo).kind # "view" => call'[c].answer = "OK"
  /\ faults' = faults /\ TablesSame

Conversed(c) ==
  /\ lastConv' = lastConv
  /\ Advances(c) \/ Breaks(c) \/ Finds(c) \/ Misses(c) \/ Closes(c) \/ Concludes(c)

LEMMA ConvVarsUnchanged ==
  ASSUME UNCHANGED convVars
  PROVE  TablesSame /\ lastConv' = lastConv
  BY DEF convVars, TablesSame

\* A write, by its outcome.
LEMMA SavesHaveEffect ==
  ASSUME NEW c, SaveConversation(c) \/ SaveDirectConversation(c) \/ SaveGroupMetadata(c)
                  \/ SaveParticipant(c) \/ TouchUserConversation(c)
  PROVE  /\ call[c].pc = "write" /\ Head(call[c].todo).kind \in Writes
         /\ \E o \in Outcomes : /\ Wrote(c, o)
                                /\ o = "lost" => TablesSame
                                /\ o # "lost" => Effect(Head(call[c].todo))
<1> DEFINE w == Head(call[c].todo)
<1>1. CASE SaveConversation(c)
  BY <1>1 DEF SaveConversation, NextWrite, Writes, Effect, TablesSame, Applied
<1>2. CASE SaveDirectConversation(c)
  BY <1>2 DEF SaveDirectConversation, NextWrite, Writes, Effect, TablesSame, Applied
<1>3. CASE SaveGroupMetadata(c)
  BY <1>3 DEF SaveGroupMetadata, NextWrite, Writes, Effect, TablesSame, Applied
<1>4. CASE SaveParticipant(c)
  <2>1. PICK o \in Outcomes :
          /\ call[c].pc = "write" /\ w.kind = "part" /\ Wrote(c, o)
          /\ part' = IF o # "lost" THEN [part EXCEPT ![w.conv][w.user] = w.member] ELSE part
          /\ UNCHANGED <<conversations, direct, meta, rows>>
    BY <1>4 DEF SaveParticipant, NextWrite, Applied
  <2>2. o # "lost" => Effect(w) BY <2>1 DEF Effect
  <2>3. o = "lost" => TablesSame BY <2>1 DEF TablesSame
  <2> QED BY <2>1, <2>2, <2>3 DEF Writes
<1>5. CASE TouchUserConversation(c)
  <2> DEFINE row == [user |-> w.user, at |-> call[c].at, conv |-> w.conv, status |-> w.status]
             same == {v \in rows : v.user = row.user /\ v.at = row.at /\ v.conv = row.conv}
  <2>1. PICK o \in Outcomes :
          /\ call[c].pc = "write" /\ w.kind = "touch" /\ Wrote(c, o)
          /\ rows' = IF o # "lost" THEN (rows \ same) \cup {row} ELSE rows
          /\ UNCHANGED <<conversations, direct, meta, part>>
    BY <1>5 DEF TouchUserConversation, NextWrite, Applied
  <2>2. row.user = w.user /\ row.conv = w.conv OBVIOUS
  <2> HIDE DEF row, same
  <2>3. o # "lost" => \A v \in rows' : v \in rows \/ v = row BY <2>1
  <2>4. o # "lost" => Effect(w) BY <2>1, <2>2, <2>3 DEF Effect
  <2>5. o = "lost" => TablesSame BY <2>1 DEF TablesSame
  <2> QED BY <2>1, <2>4, <2>5 DEF Writes
<1> QED BY <1>1, <1>2, <1>3, <1>4, <1>5

LEMMA ConversationConversed ==
  ASSUME CallsShaped, NEW c \in Calls, ConversationMove(c)
  PROVE  Conversed(c)
<1> DEFINE x == call[c]
           y == call'[c]
           w == Head(x.todo)
           r == x.req
<1>0. ConversationStep(c) /\ Moved(c) /\ lastConv' = lastConv BY DEF ConversationMove
<1>1. ASSUME NEW rpc, NEW at, NEW todo, RowFound(c, rpc, at, todo)
      PROVE  /\ x.pc = "find" /\ y.pc = "write" /\ y.answer = x.answer /\ faults' = faults
             /\ TablesSame /\ y.todo = todo /\ r.rpc = rpc
  BY <1>1, ConvVarsUnchanged DEF RowFound
<1>2. ASSUME NEW rpc, RowMissing(c, rpc)
      PROVE  Misses(c)
  BY <1>2, ConvVarsUnchanged DEF RowMissing, Misses
<1>3. CASE AddParticipantRow(c)
  <2>1. RowFound(c, "AddParticipant", x.at, AddWrites(r.conv, r.target))
    BY <1>3, AddParticipantRowMoves
  <2> QED BY <1>0, <1>1, <2>1 DEF Finds, Conversed
<1>4. CASE RemoveParticipantRow(c)
  <2>1. \/ RowMissing(c, "RemoveParticipant")
        \/ /\ part[r.conv][r.target] # None
           /\ RowFound(c, "RemoveParticipant", clock, RemoveWrites(r.conv, r.target))
    BY <1>4, RemoveParticipantRowMoves
  <2> QED BY <1>0, <1>1, <1>2, <2>1 DEF Finds, Conversed
<1>5. CASE LeaveConversationRow(c)
  <2>1. \/ RowMissing(c, "LeaveConversation")
        \/ /\ part[r.conv][r.user] # None
           /\ RowFound(c, "LeaveConversation", clock, LeaveWrites(r.conv, r.user))
    BY <1>5, LeaveConversationRowMoves
  <2> QED BY <1>0, <1>1, <1>2, <2>1 DEF Finds, Conversed
<1>6. CASE UpdateMetadataRow(c)
  <2>1. \/ RowMissing(c, "UpdateConversationMetadata")
        \/ /\ meta[r.conv] # None
           /\ RowFound(c, "UpdateConversationMetadata", clock, UpdateWrites(r.conv))
    BY <1>6, UpdateMetadataRowMoves
  <2> QED BY <1>0, <1>1, <1>2, <2>1 DEF Finds, Conversed
<1>7. CASE SaveConversation(c) \/ SaveDirectConversation(c) \/ SaveGroupMetadata(c)
             \/ SaveParticipant(c) \/ TouchUserConversation(c)
  <2>1. x.pc = "write" /\ w.kind \in Writes BY <1>7, SavesHaveEffect
  <2>2. PICK o \in Outcomes : /\ Wrote(c, o)
                              /\ o = "lost" => TablesSame
                              /\ o # "lost" => Effect(w)
    BY <1>7, SavesHaveEffect
  <2>3. /\ o = "ok" => /\ y.todo = Tail(x.todo) /\ y.pc = x.pc
                       /\ y.answer = x.answer /\ faults' = faults
        /\ o # "ok" => Fails(x, y) /\ faults' = faults + 1
    BY <2>2, WroteMoves
  <2>4. CASE o = "ok" BY <1>0, <2>1, <2>2, <2>3, <2>4 DEF Advances, Conversed
  <2>5. CASE o # "ok" BY <1>0, <2>1, <2>2, <2>3, <2>5 DEF Breaks, Conversed
  <2> QED BY <2>4, <2>5
<1>8. CASE RecordOutboxEvent(c)
  <2>1. /\ Only({"todo"}, x, y) /\ x.pc = "write" /\ w.kind = "event" /\ y.todo = Tail(x.todo)
        /\ UNCHANGED <<faults, conversations, direct, meta, part, rows>>
    BY <1>8, RecordOutboxEventMoves DEF Steps
  <2>2. y.pc = x.pc /\ y.answer = x.answer BY <2>1, OnlyFields
  <2>3. Effect(w) BY <2>1 DEF Effect
  <2> QED BY <1>0, <2>1, <2>2, <2>3 DEF Advances, Conversed
<1>9. CASE CloseIfEmpty(c)
  <2> DEFINE k == w.conv
  <2>1. /\ Only({"todo"}, x, y) /\ x.pc = "write" /\ w.kind = "close"
        /\ UNCHANGED <<faults, convVars>>
        /\ IF ListActive(k) = {} /\ meta[k] # None
           THEN y.todo = << SaveMeta(k, "Closed"), Event(k, "Closed"), ThenReply(k) >>
           ELSE y.todo = << ThenReply(k) >>
    BY <1>9, CloseIfEmptyMoves DEF Steps
  <2>2. y.pc = x.pc /\ y.answer = x.answer BY <2>1, OnlyFields
  <2> QED BY <1>0, <2>1, <2>2, ConvVarsUnchanged DEF Closes, Conversed
<1>10. CASE Details(c)
  <2>1. /\ x.pc = "write" /\ w.kind \in {"details", "view", "reply"}
        /\ y.pc = "done" /\ y.todo = <<>> /\ y.answer # "none"
        /\ w.kind # "view" => y.answer = "OK"
        /\ UNCHANGED <<faults, convVars>>
    BY <1>10, DetailsMoves
  <2> QED BY <1>0, <2>1, ConvVarsUnchanged DEF Concludes, Conversed
<1> QED BY <1>0, <1>3, <1>4, <1>5, <1>6, <1>7, <1>8, <1>9, <1>10 DEF ConversationStep

\* A step that no conversation RPC makes.
Elsewhere ==
  /\ UNCHANGED convVars
  /\ faults' = faults \/ faults' = faults + 1
  /\ \A c \in Calls :
       \/ Same(call[c], call'[c]) /\ call[c].rivals \subseteq call'[c].rivals
       \/ /\ call'[c].req.rpc \notin Conversing
          /\ call[c].pc = "idle" \/ call'[c].req = call[c].req

LEMMA StepConversations ==
  ASSUME Fits, [Next]_vars
  PROVE  \/ Elsewhere
         \/ \E c \in Calls, r \in Request : ConversationCall(c, r)
         \/ \E c \in Calls : ConversationMove(c) /\ Goings(c)
<1>1. ASSUME NEW c \in Calls, NEW r \in load.requests, Arrival(c, r), ~ConversationCall(c, r)
      PROVE  Elsewhere
  <2>1. r \in Request /\ Arrived(c, r) /\ call'[c].req = r
    BY <1>1, FitsAfterArrival, ArrivalIs, ArrivalStarts
  <2>2. r.rpc \notin Conversing /\ UNCHANGED convVars
    <3>1. CASE PoolCall(c, r) BY <3>1, RpcKinds DEF PoolCall, tables
    <3>2. CASE StatusCall(c, r) \/ UpdateCall(c, r) \/ PresenceCall(c, r)
      <4>1. UNCHANGED convVars BY <3>2 DEF StatusCall, UpdateCall, PresenceCall, tables
      <4>2. r.rpc \in Inline BY <3>2 DEF StatusCall, UpdateCall, PresenceCall, Inline
      <4> QED BY <4>1, <4>2, RpcKinds
    <3> QED BY <1>1, <3>1, <3>2 DEF Arrival
  <2>3. \A d \in Calls : d # c =>
          Same(call[d], call'[d]) /\ call[d].rivals \subseteq call'[d].rivals
    BY <2>1 DEF Arrived, Apart
  <2>4. call[c].pc = "idle" /\ faults' = faults BY <2>1 DEF Arrived
  <2> QED BY <2>1, <2>2, <2>3, <2>4 DEF Elsewhere
<1>2. ASSUME NEW c \in Calls, Move(c), ~ConversationMove(c)
      PROVE  Elsewhere
  <2>1. Goings(c) /\ CallFits(call[c]) BY <1>2, FitsAfterMove DEF Fits
  <2>2. /\ \A d \in Calls : d # c => call'[d] = call[d]
        /\ call'[c].req = call[c].req /\ (faults' = faults \/ faults' = faults + 1)
    BY <2>1 DEF Goings
  <2>3. call[c].req.rpc \notin Conversing /\ UNCHANGED convVars
    <3>1. CASE DirectoryMove(c)
      <4>1. UNCHANGED convVars
        BY <3>1 DEF DirectoryMove, Hits, Asks, Reads, Receives, GivesUp
      <4>2. call[c].pc = "device" \/ call[c].task = "resolve"
        BY <3>1 DEF DirectoryMove, Hits, Asks, Reads, Receives, GivesUp, DeviceResolved,
                    UserResolved, Resolving, Unanswered
      <4> QED BY <2>1, <4>1, <4>2, RpcKinds DEF CallFits
    <3>2. CASE TaskMove(c)
      <4>1. UNCHANGED convVars /\ call[c].task # "none"
        BY <3>2 DEF TaskMove, SubmitAuthorised, SubmitNamed, SubmitNumbered, SubmitStored,
             SyncAuthorised, SyncPlaced, SyncReadPrevious, SyncReadCurrent,
             CursorRead, CursorChecked, CursorSaved
      <4> QED BY <2>1, <4>1, RpcKinds DEF CallFits
    <3>3. CASE HandlerMove(c)
      <4>1. UNCHANGED convVars /\ (call[c].pc \in {"submit", "wait"} \/ call[c].task = "start")
        BY <3>3 DEF HandlerMove, Submitted, Answered, TimedOut, Delivered, tables
      <4> QED BY <2>1, <4>1, RpcKinds DEF CallFits
    <3>4. CASE PresenceMove(c)
      <4>1. UNCHANGED convVars /\ call[c].pc \in {"override", "presence"}
        BY <3>4 DEF PresenceMove, OverrideSet, PresenceShown, tables
      <4> QED BY <2>1, <4>1 DEF CallFits, Conversing
    <3> QED BY <1>2, <3>1, <3>2, <3>3, <3>4 DEF Move
  <2> QED BY <2>2, <2>3 DEF Elsewhere, Same
<1>3. ASSUME NEW p \in Pools, Started(p)
      PROVE  Elsewhere
  <2> DEFINE c == Head(queue[p])
  <2>1. c \in Calls /\ call[c].task = "queued"
    <3>1. queue[p] \in Seq(Calls) /\ queue[p] # <<>> /\ 1 \in 1..Len(queue[p])
      BY <1>3 DEF Fits, QueueFits, Started
    <3> QED BY <3>1 DEF Fits, QueueFits
  <2>2. /\ Only({"task"}, call[c], call'[c]) /\ UNCHANGED convVars /\ faults' = faults
        /\ \A d \in Calls : d # c => call'[d] = call[d]
    BY <1>3 DEF Started, Steps, tables
  <2>3. call'[c].req = call[c].req /\ call[c].req.rpc \notin Conversing
    BY <2>1, <2>2, OnlyFields, RpcKinds DEF Fits, CallFits
  <2> QED BY <2>2, <2>3 DEF Elsewhere, Same
<1>4. ASSUME Ambient
      PROVE  Elsewhere
  <2>1. call' = call /\ faults' = faults BY <1>4, AmbientIs
  <2>2. UNCHANGED convVars
    BY <1>4 DEF Ambient, DeviceChanges, MonthTurns, Tick, StopRequested, ServerShutdown,
                DrainAndStop, vars, tables
  <2> QED BY <2>1, <2>2 DEF Elsewhere, Same
<1>5. CASE \E c \in Calls, r \in load.requests : Arrival(c, r)
  BY <1>1, <1>5, FitsAfterArrival DEF Arrival
<1>6. CASE \E c \in Calls : Move(c) BY <1>2, <1>6, FitsAfterMove
<1> QED BY <1>3, <1>4, <1>5, <1>6, StepKinds

-----------------------------------------------------------------------------
(***************************************************************************)
(* The shape of the tables                                                 *)
(***************************************************************************)
NewRow(r) ==
  IF r.rpc = "CreateGroup" THEN [type |-> "Group", pair |-> {}]
  ELSE [type |-> "Direct", pair |-> DirectPair(r.user, r.target)]

\* Which writes the request r makes.
Planned(w, r) ==
  /\ w.kind = "conversation" => r.rpc \in {"CreateDirect", "CreateGroup"} /\ w.value = NewRow(r)
  /\ w.kind = "direct" => r.rpc = "CreateDirect" /\ w.pair = DirectPair(r.user, r.target)
  /\ w.kind = "meta" =>
       \/ r.rpc = "CreateGroup" /\ w.status = "Active"
       \/ r.rpc = "UpdateConversationMetadata"
       \/ r.rpc = "LeaveConversation" /\ w.status = "Closed"
  /\ w.kind = "part" =>
       \/ r.rpc = "CreateDirect" /\ w.member.status = "Active"
       \/ /\ r.rpc = "CreateGroup" /\ w.member.status = "Active"
          /\ w.user = r.user => w.member.role = "Admin"
       \/ r.rpc = "AddParticipant" /\ w.user = r.target
       \/ r.rpc = "RemoveParticipant" /\ w.user = r.target /\ w.member.status # "Active"
       \/ r.rpc = "LeaveConversation" /\ w.user = r.user /\ w.member.status # "Active"
  /\ w.kind = "close" => r.rpc = "LeaveConversation"

Plan(s, r) == \A i \in 1..Len(s) : Planned(s[i], r)

\* What the requests that read a row first look for.
Seeks(x) ==
  /\ x.conv = x.req.conv /\ x.conv \in Convs /\ x.req.user \in Users
  /\ x.req.rpc \in Changing \ {"CreateGroup"}
  /\ x.req.rpc \in {"AddParticipant", "RemoveParticipant"} => x.req.target \in Users

\* A call of a conversation RPC, if p are the members.
ConvCall(x, p) ==
  /\ x.pc = "find" => Seeks(x)
  /\ x.pc = "write" => /\ x.conv \in Convs /\ x.req.user \in Users
                       /\ Todo(x.todo, x.conv) /\ Announced(x.todo, p) /\ Plan(x.todo, x.req)

TablesFit ==
  /\ lastConv \in 1..MaxConversations
  /\ conversations \in [Convs -> {None} \cup ConversationRows]
  /\ direct \in [Pairs -> Convs \cup {None}]
  /\ meta \in [Convs -> {None, "Active", "Closed"}]
  /\ part \in [Convs -> [Users -> {None} \cup Members]]
  /\ \A w \in rows : w.user \in Users /\ w.conv \in Convs /\ part[w.conv][w.user] # None

ConvFits == TablesFit /\ \A c \in Calls : ConvCall(call[c], part)

\* A membership that was written stays, whatever its status.
Grows(p, q) == \A k \in Convs, u \in Users : p[k][u] # None => q[k][u] # None

LEMMA AnnouncedStays ==
  ASSUME NEW k \in Convs, NEW s, Todo(s, k), NEW p, NEW q, Announced(s, p), Grows(p, q)
  PROVE  Announced(s, q)
<1> SUFFICES ASSUME NEW i \in 1..Len(s), s[i].kind = "touch"
             PROVE  \/ q[s[i].conv][s[i].user] # None
                    \/ \E j \in 1..(i - 1) : /\ s[j].kind = "part" /\ s[j].conv = s[i].conv
                                             /\ s[j].user = s[i].user
  BY DEF Announced
<1>1. s[i] \in WriteOps(k) BY DEF Todo
<1>2. s[i].conv \in Convs /\ s[i].user \in Users BY <1>1, WriteOpFields
<1> QED BY <1>2 DEF Announced, Grows

LEMMA AnnouncedTail ==
  ASSUME NEW k \in Convs, NEW s, Todo(s, k), NEW p, NEW q, Announced(s, p), Grows(p, q),
         Head(s).kind \notin Ends,
         Head(s).kind = "part" => q[Head(s).conv][Head(s).user] # None
  PROVE  Announced(Tail(s), q)
<1> DEFINE t == Tail(s)
<1>1. s \in Seq(WriteOps(k)) /\ s # <<>> BY DEF Todo
<1>2. /\ Len(t) = Len(s) - 1 /\ Len(s) \in Nat /\ Head(s) = s[1]
      /\ \A i \in 1..(Len(s) - 1) : t[i] = s[i + 1]
  BY <1>1, TailIs
<1>3. Announced(s, q) BY AnnouncedStays
<1> HIDE DEF t
<1> SUFFICES ASSUME NEW i \in 1..Len(t), t[i].kind = "touch"
             PROVE  \/ q[t[i].conv][t[i].user] # None
                    \/ \E j \in 1..(i - 1) : /\ t[j].kind = "part" /\ t[j].conv = t[i].conv
                                             /\ t[j].user = t[i].user
  BY DEF Announced, t
<1>4. t[i] = s[i + 1] /\ i + 1 \in 1..Len(s) BY <1>2
<1>5. CASE q[s[i + 1].conv][s[i + 1].user] # None BY <1>4, <1>5
<1>6. ASSUME NEW j \in 1..i, s[j].kind = "part", s[j].conv = s[i + 1].conv,
             s[j].user = s[i + 1].user
      PROVE  \/ q[t[i].conv][t[i].user] # None
             \/ \E m \in 1..(i - 1) : /\ t[m].kind = "part" /\ t[m].conv = t[i].conv
                                      /\ t[m].user = t[i].user
  <2>1. CASE j = 1 BY <1>2, <1>4, <1>6, <2>1
  <2>2. CASE j # 1
    <3>1. j - 1 \in 1..(i - 1) /\ t[j - 1] = s[j] BY <1>2, <2>2
    <3> QED BY <1>4, <1>6, <3>1
  <2> QED BY <2>1, <2>2
<1>7. q[s[i + 1].conv][s[i + 1].user] # None
        \/ \E j \in 1..i : /\ s[j].kind = "part" /\ s[j].conv = s[i + 1].conv
                           /\ s[j].user = s[i + 1].user
  <2>1. i + 1 - 1 = i OBVIOUS
  <2> QED BY <1>3, <1>4, <2>1 DEF Announced
<1> QED BY <1>5, <1>6, <1>7

LEMMA PlanTail ==
  ASSUME NEW k, NEW s, Todo(s, k), NEW r, Plan(s, r)
  PROVE  Plan(Tail(s), r) /\ Planned(Head(s), r)
<1>1. s \in Seq(WriteOps(k)) /\ s # <<>> BY DEF Todo
<1>2. /\ Len(Tail(s)) = Len(s) - 1 /\ Len(s) \in Nat /\ Head(s) = s[1] /\ 1 \in 1..Len(s)
      /\ \A i \in 1..(Len(s) - 1) : Tail(s)[i] = s[i + 1]
  BY <1>1, TailIs
<1> QED BY <1>2 DEF Plan

\* Lists of one to four steps.
LEMMA ShortTodo ==
  ASSUME NEW k, NEW a \in WriteOps(k)
  PROVE  /\ a.kind \in Ends => Todo(<<a>>, k)
         /\ \A b \in WriteOps(k), e \in WriteOps(k) : e.kind \in Ends => Todo(<<a, b, e>>, k)
         /\ \A b \in WriteOps(k), d \in WriteOps(k), e \in WriteOps(k) :
              e.kind \in Ends => Todo(<<a, b, d, e>>, k)
<1> DEFINE S == WriteOps(k)
<1> HIDE DEF S
<1>1. a \in S BY DEF S
<1>2. <<a>> \in Seq(S) /\ Len(<<a>>) = 1 /\ <<a>>[1] = a BY <1>1
<1>3. ASSUME NEW b \in S, NEW e \in S
      PROVE  <<a, b, e>> \in Seq(S) /\ Len(<<a, b, e>>) = 3 /\ <<a, b, e>>[3] = e
  BY <1>1
<1>4. ASSUME NEW b \in S, NEW d \in S, NEW e \in S
      PROVE  <<a, b, d, e>> \in Seq(S) /\ Len(<<a, b, d, e>>) = 4 /\ <<a, b, d, e>>[4] = e
  BY <1>1
<1> QED BY <1>2, <1>3, <1>4 DEF Todo, S

LEMMA PartIs ==
  ASSUME TablesFit, NEW k \in Convs, NEW u \in Users
  PROVE  part[k][u] = None \/ part[k][u] \in Members
  BY DEF TablesFit

LEMMA EffectTables ==
  ASSUME TablesFit, NEW k \in Convs, NEW w \in WriteOps(k), Effect(w), lastConv' = lastConv,
         w.kind = "touch" => part[k][w.user] # None
  PROVE  /\ TablesFit' /\ Grows(part, part')
         /\ w.kind = "part" => part'[w.conv][w.user] # None
<1>1. /\ w.conv = k
      /\ w.kind = "conversation" => w.value \in ConversationRows
      /\ w.kind = "direct" => w.pair \in Pairs
      /\ w.kind = "meta" => w.status \in {"Active", "Closed"}
      /\ w.kind = "part" => w.user \in Users /\ w.member \in Members
      /\ w.kind = "touch" => w.user \in Users
  BY WriteOpFields
<1>2. conversations' \in [Convs -> {None} \cup ConversationRows]
  BY <1>1 DEF TablesFit, Effect
<1>3. direct' \in [Pairs -> Convs \cup {None}] BY <1>1 DEF TablesFit, Effect
<1>4. meta' \in [Convs -> {None, "Active", "Closed"}] BY <1>1 DEF TablesFit, Effect
<1>5. /\ part' \in [Convs -> [Users -> {None} \cup Members]]
      /\ Grows(part, part')
      /\ w.kind = "part" => part'[w.conv][w.user] # None
  <2>1. part \in [Convs -> [Users -> {None} \cup Members]] BY DEF TablesFit
  <2>2. CASE w.kind = "part"
    <3>1. part' = [part EXCEPT ![k][w.user] = w.member] /\ w.user \in Users /\ w.member \in Members
      BY <1>1, <2>2 DEF Effect
    <3>2. part' \in [Convs -> [Users -> {None} \cup Members]] BY <2>1, <3>1
    <3>3. part'[k][w.user] # None BY <2>1, <3>1, NoneAssumption
    <3>4. Grows(part, part') BY <2>1, <3>1, NoneAssumption DEF Grows
    <3> QED BY <1>1, <3>2, <3>3, <3>4
  <2>3. CASE w.kind # "part" BY <2>1, <2>3 DEF Effect, Grows
  <2> QED BY <2>2, <2>3
<1>6. \A v \in rows' : v.user \in Users /\ v.conv \in Convs /\ part'[v.conv][v.user] # None
  <2> SUFFICES ASSUME NEW v \in rows'
               PROVE  v.user \in Users /\ v.conv \in Convs /\ part'[v.conv][v.user] # None
    OBVIOUS
  <2>1. v \in rows \/ (w.kind = "touch" /\ v.user = w.user /\ v.conv = w.conv) BY DEF Effect
  <2> QED BY <1>1, <1>5, <2>1 DEF TablesFit, Grows
<1> QED BY <1>2, <1>3, <1>4, <1>5, <1>6 DEF TablesFit

LEMMA SameTables ==
  ASSUME TablesFit, TablesSame, lastConv' = lastConv
  PROVE  TablesFit' /\ Grows(part, part')
  BY DEF TablesFit, TablesSame, Grows

LEMMA HeadAnnounced ==
  ASSUME NEW k, NEW s, Todo(s, k), NEW p, Announced(s, p), Head(s).kind = "touch"
  PROVE  p[Head(s).conv][Head(s).user] # None
<1>1. s \in Seq(WriteOps(k)) /\ s # <<>> BY DEF Todo
<1>2. Head(s) = s[1] /\ 1 \in 1..Len(s) BY <1>1, TailIs
<1> QED BY <1>2 DEF Announced

\* The writes of a change, from the row that was read.
LEMMA AddWritesFit ==
  ASSUME TablesFit, NEW k \in Convs, NEW u \in Users, NEW r, r.rpc = "AddParticipant",
         r.target = u
  PROVE  Todo(AddWrites(k, u), k) /\ Announced(AddWrites(k, u), part) /\ Plan(AddWrites(k, u), r)
<1> DEFINE row == IF part[k][u] = None THEN Member("Member", "Active")
                  ELSE [part[k][u] EXCEPT !.status = "Active"]
           s == << SavePart(k, u, row), Touch(k, u, "Active"), Event(k, "Joined"),
                   ThenDetails(k) >>
           t == << ThenDetails(k) >>
<1>1. row \in Members BY PartIs, MembersAre
<1>2. AddWrites(k, u) = IF IsActive(k, u) THEN t ELSE s BY DEF AddWrites
<1> HIDE DEF row
<1>3. /\ SavePart(k, u, row) \in WriteOps(k) /\ Touch(k, u, "Active") \in WriteOps(k)
      /\ Event(k, "Joined") \in WriteOps(k) /\ ThenDetails(k) \in WriteOps(k)
  BY <1>1, WriteOpsAre, MembersAre
<1>4. Todo(t, k) /\ Todo(s, k)
  <2>1. ThenDetails(k).kind \in Ends BY OpKinds DEF Ends
  <2>2. Todo(t, k) BY <1>3, <2>1, ShortTodo
  <2>3. Todo(s, k) BY <1>3, <2>1, ShortTodo
  <2> QED BY <2>2, <2>3
<1>5. /\ Len(s) = 4 /\ s[1] = SavePart(k, u, row) /\ s[2] = Touch(k, u, "Active")
      /\ s[3] = Event(k, "Joined") /\ s[4] = ThenDetails(k)
      /\ Len(t) = 1 /\ t[1] = ThenDetails(k)
  OBVIOUS
<1> HIDE DEF s, t
<1>6. /\ s[1].kind = "part" /\ s[1].user = u /\ s[1].conv = k /\ s[2].user = u /\ s[2].conv = k
      /\ s[2].kind = "touch" /\ s[3].kind = "event" /\ s[4].kind = "details"
      /\ t[1].kind = "details"
  BY <1>5, OpKinds
<1>7. Announced(t, part) /\ Plan(t, r) BY <1>5, <1>6 DEF Announced, Plan, Planned
<1>8. \A i \in 1..4 : i = 1 \/ i = 2 \/ i = 3 \/ i = 4 OBVIOUS
<1>9. Announced(s, part) BY <1>5, <1>6, <1>8 DEF Announced
<1>10. Plan(s, r)
  <2>1. Planned(s[1], r) /\ Planned(s[2], r) /\ Planned(s[3], r) /\ Planned(s[4], r)
    BY <1>6 DEF Planned
  <2> QED BY <1>5, <1>8, <2>1 DEF Plan
<1> QED BY <1>2, <1>4, <1>7, <1>9, <1>10

LEMMA GoneWritesFit ==
  ASSUME TablesFit, NEW k \in Convs, NEW u \in Users, NEW r, part[k][u] # None,
         NEW status0 \in {"Left", "Removed"}, NEW last, last \in {ThenDetails(k), ThenClose(k)},
         \/ r.rpc = "RemoveParticipant" /\ r.target = u /\ last = ThenDetails(k)
         \/ r.rpc = "LeaveConversation" /\ r.user = u,
         NEW what \in {"Removed", "Left"}, NEW s,
         s = << SavePart(k, u, [part[k][u] EXCEPT !.status = status0]), Touch(k, u, status0),
                Event(k, what), last >>
  PROVE  Todo(s, k) /\ Announced(s, part) /\ Plan(s, r)
<1> DEFINE row == [part[k][u] EXCEPT !.status = status0]
<1>1. row \in Members /\ row.status = status0
  <2>1. part[k][u] \in Members /\ status0 \in MemberStatuses BY PartIs, MembersAre
  <2>2. row \in Members BY <2>1, MembersAre
  <2>3. row.status = status0 BY <2>1 DEF Members
  <2> QED BY <2>2, <2>3
<1> HIDE DEF row
<1>2. /\ s = << SavePart(k, u, row), Touch(k, u, status0), Event(k, what), last >> BY DEF row
<1>3. /\ SavePart(k, u, row) \in WriteOps(k) /\ Touch(k, u, status0) \in WriteOps(k)
      /\ Event(k, what) \in WriteOps(k) /\ last \in WriteOps(k)
  BY <1>1, WriteOpsAre, MembersAre
<1>4. last.kind \in {"details", "close"} /\ (last.kind = "close" => r.rpc = "LeaveConversation")
  BY OpKinds
<1>5. Todo(s, k) BY <1>2, <1>3, <1>4, ShortTodo DEF Ends
<1>6. /\ Len(s) = 4 /\ s[1] = SavePart(k, u, row) /\ s[2] = Touch(k, u, status0)
      /\ s[3] = Event(k, what) /\ s[4] = last
  BY <1>2
<1>7. /\ s[1].kind = "part" /\ s[1].user = u /\ s[1].conv = k /\ s[1].member = row
      /\ s[2].user = u /\ s[2].conv = k
      /\ s[2].kind = "touch" /\ s[3].kind = "event" /\ s[4].kind \in {"details", "close"}
  BY <1>4, <1>6, OpKinds
<1>8. \A i \in 1..4 : i = 1 \/ i = 2 \/ i = 3 \/ i = 4 OBVIOUS
<1>9. Announced(s, part) BY <1>6, <1>7, <1>8 DEF Announced
<1>10. Plan(s, r)
  <2>1. Planned(s[1], r) /\ Planned(s[2], r) /\ Planned(s[3], r) /\ Planned(s[4], r)
    BY <1>1, <1>4, <1>6, <1>7 DEF Planned
  <2> QED BY <1>6, <1>8, <2>1 DEF Plan
<1> QED BY <1>5, <1>9, <1>10

LEMMA MetaWritesFit ==
  ASSUME NEW k \in Convs, NEW r, NEW st \in {"Active", "Closed"}, NEW what \in {"Updated", "Closed"},
         NEW last \in {ThenDetails(k), ThenReply(k)},
         \/ r.rpc = "UpdateConversationMetadata"
         \/ r.rpc = "LeaveConversation" /\ st = "Closed",
         NEW s, s = << SaveMeta(k, st), Event(k, what), last >>
  PROVE  Todo(s, k) /\ (\A p : Announced(s, p)) /\ Plan(s, r)
<1>3. SaveMeta(k, st) \in WriteOps(k) /\ Event(k, what) \in WriteOps(k) /\ last \in WriteOps(k)
  BY WriteOpsAre
<1>4. last.kind \in {"details", "reply"} BY OpKinds
<1>5. Todo(s, k) BY <1>3, <1>4, ShortTodo DEF Ends
<1>6. /\ Len(s) = 3 /\ s[1] = SaveMeta(k, st) /\ s[2] = Event(k, what) /\ s[3] = last OBVIOUS
<1>7. /\ s[1].kind = "meta" /\ s[1].status = st /\ s[2].kind = "event"
      /\ s[3].kind \in {"details", "reply"}
  BY <1>4, <1>6, OpKinds
<1>8. \A i \in 1..3 : i = 1 \/ i = 2 \/ i = 3 OBVIOUS
<1>9. \A p : Announced(s, p) BY <1>6, <1>7, <1>8 DEF Announced
<1>10. Plan(s, r)
  <2>1. Planned(s[1], r) /\ Planned(s[2], r) /\ Planned(s[3], r) BY <1>7 DEF Planned
  <2> QED BY <1>6, <1>8, <2>1 DEF Plan
<1> QED BY <1>5, <1>9, <1>10

LEMMA LastFits ==
  ASSUME NEW k \in Convs, NEW r, NEW last \in WriteOps(k), last.kind \in {"details", "view", "reply"}
  PROVE  Todo(<<last>>, k) /\ (\A p : Announced(<<last>>, p)) /\ Plan(<<last>>, r)
<1>1. Todo(<<last>>, k) BY ShortTodo DEF Ends
<1>2. Len(<<last>>) = 1 /\ <<last>>[1] = last OBVIOUS
<1> QED BY <1>1, <1>2 DEF Announced, Plan, Planned

\* The writes that create a conversation.
LEMMA GroupPlan ==
  ASSUME NEW k, NEW r, r.rpc = "CreateGroup", NEW s, GroupList(s, k, r.user, r.people)
  PROVE  Plan(s, r)
<1> SUFFICES ASSUME NEW i \in 1..Len(s) PROVE Planned(s[i], r) BY DEF Plan
<1>0. Len(s) \in Nat /\ Len(s) >= 6 BY DEF GroupList, Todo
<1>1. \A u : /\ Member("Admin", u).role = "Admin" /\ Member("Admin", u).status = u
             /\ Member("Member", u).status = u
  BY DEF Member
<1>2. CASE i = 1 BY <1>2, OpKinds DEF GroupList, Planned, NewRow
<1>3. CASE i = 2 BY <1>3, OpKinds DEF GroupList, Planned
<1>4. CASE i = 3
  <2>1. s[i] = SavePart(k, r.user, Member("Admin", "Active")) BY <1>4 DEF GroupList
  <2>2. s[i].kind = "part" /\ s[i].member = Member("Admin", "Active") BY <2>1 DEF SavePart
  <2> QED BY <1>1, <2>2 DEF Planned
<1>5. CASE i = 4 \/ i = Len(s) - 1 \/ i = Len(s) BY <1>5, OpKinds DEF GroupList, Planned
<1>6. CASE i \in 5..(Len(s) - 2)
  <2>1. PICK v \in r.people \ {r.user} : \/ s[i] = SavePart(k, v, Member("Member", "Active"))
                                         \/ s[i] = Touch(k, v, "Active")
    BY <1>6 DEF GroupList
  <2>2. \/ s[i].kind = "part" /\ s[i].member = Member("Member", "Active") /\ s[i].user = v
        \/ s[i].kind = "touch"
    BY <2>1, OpKinds
  <2> QED BY <1>1, <2>1, <2>2 DEF Planned
<1> QED BY <1>0, <1>2, <1>3, <1>4, <1>5, <1>6

LEMMA DirectPlan ==
  ASSUME NEW k, NEW r, r.rpc = "CreateDirect"
  PROVE  Plan(CreateDirectWrites(k, r.user, r.target), r)
<1> DEFINE p == DirectPair(r.user, r.target)
           row == [type |-> "Direct", pair |-> p]
           m == Member("Member", "Active")
           s == << SaveConv(k, row), SavePair(k, p), SavePart(k, r.user, m),
                   SavePart(k, r.target, m), Touch(k, r.user, "Active"),
                   Touch(k, r.target, "Active"), Event(k, "Created"), ThenDetails(k) >>
<1>1. CreateDirectWrites(k, r.user, r.target) = s BY DEF CreateDirectWrites
<1>2. m.status = "Active" /\ row = NewRow(r) BY DEF Member, NewRow
<1> HIDE DEF m, row, p
<1>3. /\ Planned(SaveConv(k, row), r) /\ Planned(SavePart(k, r.user, m), r)
      /\ Planned(SavePart(k, r.target, m), r) /\ Planned(Touch(k, r.user, "Active"), r)
      /\ Planned(Touch(k, r.target, "Active"), r) /\ Planned(Event(k, "Created"), r)
      /\ Planned(ThenDetails(k), r)
  BY <1>2, OpKinds DEF Planned
<1>4. Planned(SavePair(k, p), r) BY OpKinds DEF Planned, p
<1>5. /\ Len(s) = 8 /\ Planned(s[1], r) /\ Planned(s[2], r) /\ Planned(s[3], r)
      /\ Planned(s[4], r) /\ Planned(s[5], r) /\ Planned(s[6], r) /\ Planned(s[7], r)
      /\ Planned(s[8], r)
  BY <1>3, <1>4
<1> HIDE DEF s
<1>6. \A i \in 1..8 : i = 1 \/ i = 2 \/ i = 3 \/ i = 4 \/ i = 5 \/ i = 6 \/ i = 7 \/ i = 8
  OBVIOUS
<1> QED BY <1>1, <1>5, <1>6 DEF Plan

LEMMA ConvCallStays ==
  ASSUME NEW x, NEW y, Same(x, y), NEW p, NEW q, Grows(p, q), ConvCall(x, p)
  PROVE  ConvCall(y, q)
<1>1. y.pc = x.pc /\ y.req = x.req /\ y.conv = x.conv /\ y.todo = x.todo BY DEF Same
<1>2. x.pc = "write" => Announced(x.todo, q) BY AnnouncedStays DEF ConvCall
<1> QED BY <1>1, <1>2 DEF ConvCall, Seeks

\* A step of a conversation RPC keeps the tables and the call in shape.
LEMMA ConversedFits ==
  ASSUME Fits, ConvFits, NEW c \in Calls, Conversed(c)
  PROVE  TablesFit' /\ Grows(part, part') /\ ConvCall(call'[c], part')
<1> DEFINE x == call[c]
           y == call'[c]
           w == Head(x.todo)
           k == x.conv
           r == x.req
<1>0. TablesFit /\ ConvCall(x, part) /\ lastConv' = lastConv BY DEF ConvFits, Conversed
<1>1. ASSUME x.pc = "write"
      PROVE  /\ k \in Convs /\ r.user \in Users /\ Todo(x.todo, k) /\ Announced(x.todo, part)
             /\ Plan(x.todo, r) /\ w \in WriteOps(k) /\ w.conv = k
             /\ w.kind = "touch" => part[k][w.user] # None
  <2>1. /\ k \in Convs /\ r.user \in Users /\ Todo(x.todo, k) /\ Announced(x.todo, part)
        /\ Plan(x.todo, r)
    BY <1>0, <1>1 DEF ConvCall
  <2>2. w \in WriteOps(k)
    <3>1. x.todo \in Seq(WriteOps(k)) /\ x.todo # <<>> BY <2>1 DEF Todo
    <3> QED BY <3>1, TailIs
  <2> QED BY <2>1, <2>2, WriteOpFields, HeadAnnounced
<1>2. ASSUME NEW s, y.todo = s, y.pc = "write", Moved(c), k \in Convs, r.user \in Users,
             Todo(s, k), Announced(s, part'), Plan(s, r)
      PROVE  ConvCall(y, part')
  BY <1>2 DEF ConvCall, Moved
<1>3. y.pc \notin {"find", "write"} => ConvCall(y, part') BY DEF ConvCall
<1>4. CASE Advances(c)
  <2>1. /\ x.pc = "write" /\ w.kind \in Writes \cup {"event"} /\ y.pc = "write"
        /\ y.todo = Tail(x.todo) /\ Effect(w) /\ Moved(c)
    BY <1>4 DEF Advances
  <2>2. /\ TablesFit' /\ Grows(part, part')
        /\ w.kind = "part" => part'[w.conv][w.user] # None
    BY <1>0, <1>1, <2>1, EffectTables
  <2>3. w.kind \notin Ends BY <2>1 DEF Writes, Ends
  <2>4. Todo(y.todo, k) /\ Plan(y.todo, r) BY <1>1, <2>1, <2>3, TodoTail, PlanTail
  <2>5. Announced(y.todo, part') BY <1>1, <2>1, <2>2, <2>3, AnnouncedTail
  <2> QED BY <1>1, <1>2, <2>1, <2>2, <2>4, <2>5
<1>5. CASE Breaks(c)
  <2>1. x.pc = "write" /\ y.pc = "done" /\ (Effect(w) \/ TablesSame)
    BY <1>5 DEF Breaks, Fails
  <2>2. TablesFit' /\ Grows(part, part') BY <1>0, <1>1, <2>1, EffectTables, SameTables
  <2> QED BY <1>3, <2>1, <2>2
<1>6. CASE Finds(c)
  <2>1. /\ x.pc = "find" /\ y.pc = "write" /\ TablesSame /\ Moved(c) BY <1>6 DEF Finds
  <2>2. TablesFit' /\ Grows(part, part') /\ part' = part
    BY <1>0, <2>1, SameTables DEF TablesSame
  <2>3. Seeks(x) BY <1>0, <2>1 DEF ConvCall
  <2>4. /\ k = r.conv /\ k \in Convs /\ r.user \in Users
        /\ r.rpc \in {"AddParticipant", "RemoveParticipant"} => r.target \in Users
    BY <2>3 DEF Seeks
  <2>5. CASE r.rpc = "AddParticipant" /\ y.todo = AddWrites(r.conv, r.target)
    BY <1>0, <1>2, <2>1, <2>2, <2>4, <2>5, AddWritesFit
  <2>6. CASE /\ r.rpc = "RemoveParticipant" /\ part[r.conv][r.target] # None
             /\ y.todo = RemoveWrites(r.conv, r.target)
    <3>1. Todo(y.todo, k) /\ Announced(y.todo, part) /\ Plan(y.todo, r)
      BY <1>0, <2>4, <2>6, GoneWritesFit DEF RemoveWrites
    <3> QED BY <1>2, <2>1, <2>2, <2>4, <3>1
  <2>7. CASE /\ r.rpc = "LeaveConversation" /\ part[r.conv][r.user] # None
             /\ y.todo = LeaveWrites(r.conv, r.user)
    <3>1. Todo(y.todo, k) /\ Announced(y.todo, part) /\ Plan(y.todo, r)
      BY <1>0, <2>4, <2>7, GoneWritesFit DEF LeaveWrites
    <3> QED BY <1>2, <2>1, <2>2, <2>4, <3>1
  <2>8. CASE /\ r.rpc = "UpdateConversationMetadata" /\ meta[r.conv] # None
             /\ y.todo = UpdateWrites(r.conv)
    <3>1. meta[k] \in {"Active", "Closed"} BY <1>0, <2>4, <2>8 DEF TablesFit
    <3>2. Todo(y.todo, k) /\ Announced(y.todo, part) /\ Plan(y.todo, r)
      BY <2>4, <2>8, <3>1, MetaWritesFit DEF UpdateWrites
    <3> QED BY <1>2, <2>1, <2>2, <2>4, <3>2
  <2> QED BY <1>6, <2>2, <2>5, <2>6, <2>7, <2>8 DEF Finds
<1>7. CASE Misses(c) \/ Concludes(c)
  <2>1. y.pc = "done" /\ TablesSame BY <1>7 DEF Misses, Concludes, Fails
  <2> QED BY <1>0, <1>3, <2>1, SameTables
<1>8. CASE Closes(c)
  <2>1. /\ x.pc = "write" /\ w.kind = "close" /\ y.pc = "write" /\ TablesSame /\ Moved(c)
        /\ \/ y.todo = << SaveMeta(w.conv, "Closed"), Event(w.conv, "Closed"), ThenReply(w.conv) >>
           \/ y.todo = << ThenReply(w.conv) >>
    BY <1>8 DEF Closes
  <2>2. TablesFit' /\ Grows(part, part') /\ part' = part
    BY <1>0, <2>1, SameTables DEF TablesSame
  <2>3. r.rpc = "LeaveConversation" /\ w.conv = k /\ k \in Convs /\ r.user \in Users
    BY <1>1, <2>1, PlanTail DEF Planned
  <2>4. CASE y.todo = << SaveMeta(k, "Closed"), Event(k, "Closed"), ThenReply(k) >>
    BY <1>2, <2>1, <2>2, <2>3, <2>4, MetaWritesFit
  <2>5. CASE y.todo = << ThenReply(k) >>
    <3>1. ThenReply(k) \in WriteOps(k) /\ ThenReply(k).kind = "reply" BY WriteOpsAre, OpKinds
    <3> HIDE DEF w
    <3> QED BY <1>2, <2>1, <2>2, <2>3, <2>5, <3>1, LastFits
  <2> QED BY <2>1, <2>2, <2>3, <2>4, <2>5
<1> QED BY <1>4, <1>5, <1>6, <1>7, <1>8 DEF Conversed

\* A conversation RPC that arrives.
LEMMA ConversationCallFits ==
  ASSUME Fits, ConvFits, NEW c \in Calls, NEW r \in Request, ConversationCall(c, r)
  PROVE  TablesFit' /\ part' = part /\ ConvCall(call'[c], part)
<1> DEFINE y == call'[c]
           k == lastConv + 1
<1>0. /\ UNCHANGED <<conversations, direct, meta, part, rows>>
      /\ ConversationArrival(c, r)
  BY DEF ConversationCall, OtherTables
<1>1. /\ r.user \in Users \cup {None} /\ r.conv \in Convs \cup {None}
      /\ r.target \in Users \cup {None} /\ r.people \in SUBSET Users
  BY RequestFields
<1>2. TablesFit /\ lastConv \in 1..MaxConversations /\ MaxConversations \in Nat
  BY ConversationsAssumption DEF ConvFits, TablesFit
<1>3. lastConv < MaxConversations => k \in Convs BY <1>2 DEF Convs
<1>4. lastConv' \in 1..MaxConversations
  <2>1. lastConv' = lastConv \/ (lastConv < MaxConversations /\ lastConv' = k)
    BY <1>0 DEF ConversationArrival, DirectRequest, GroupRequest, ChangeRequest, ViewRequest,
                ListRequest
  <2> QED BY <1>2, <1>3, <2>1 DEF Convs
<1>5. TablesFit' BY <1>0, <1>2, <1>4 DEF TablesFit
<1> SUFFICES ConvCall(y, part) BY <1>0, <1>5
<1>6. ASSUME NEW j \in Convs, NEW s, Converses(y, r, "write", clock, j, s), r.user # None,
             Todo(s, j), Announced(s, part), Plan(s, r)
      PROVE  ConvCall(y, part)
  BY <1>1, <1>6 DEF Converses, Accepted, ConvCall
<1>7. CASE Refused(y, r) \/ (r.rpc = "ListConversations" /\ ListRequest(c, r))
  BY <1>7 DEF Refused, ListRequest, ConvCall
<1>8. CASE r.rpc = "CreateDirect" /\ DirectRequest(c, r)
  <2> DEFINE pair == DirectPair(r.user, r.target)
  <2>1. r.user \in Users /\ r.target \in Users /\ r.user # None
    BY <1>1, <1>8 DEF DirectRequest
  <2>2. CASE /\ direct[pair] # None
             /\ Converses(y, r, "write", clock, direct[pair], << ThenDetails(direct[pair]) >>)
    <3>1. pair \in Pairs
      <4> DEFINE z == <<r.user, r.target>>
      <4>1. z \in Users \X Users /\ pair = DirectPair(z[1], z[2]) BY <2>1
      <4> HIDE DEF z
      <4> QED BY <4>1 DEF Pairs
    <3>2. direct[pair] \in Convs BY <1>2, <2>2, <3>1 DEF TablesFit
    <3> DEFINE j == direct[pair]
    <3>3. ThenDetails(j) \in WriteOps(j) /\ ThenDetails(j).kind = "details"
      BY WriteOpsAre, OpKinds
    <3> HIDE DEF j
    <3>4. j \in Convs /\ Converses(y, r, "write", clock, j, << ThenDetails(j) >>)
      BY <2>2, <3>2 DEF j
    <3> QED BY <1>6, <2>1, <3>3, <3>4, LastFits
  <2>3. CASE /\ lastConv < MaxConversations
             /\ Converses(y, r, "write", clock, k, CreateDirectWrites(k, r.user, r.target))
    <3>1. /\ Todo(CreateDirectWrites(k, r.user, r.target), k)
          /\ Announced(CreateDirectWrites(k, r.user, r.target), part)
      BY <2>1, DirectWritesAre
    <3>2. Plan(CreateDirectWrites(k, r.user, r.target), r) BY <1>8, DirectPlan
    <3> QED BY <1>3, <1>6, <2>1, <2>3, <3>1, <3>2
  <2> QED BY <1>8, <2>2, <2>3 DEF DirectRequest
<1>9. CASE r.rpc = "CreateGroup" /\ GroupRequest(c, r)
  <2>1. /\ r.user \in Users /\ r.user # None /\ lastConv < MaxConversations
        /\ Converses(y, r, "write", clock, k, CreateGroupWrites(k, r.user, r.people))
    BY <1>1, <1>9 DEF GroupRequest
  <2>2. GroupList(CreateGroupWrites(k, r.user, r.people), k, r.user, r.people)
    BY <1>1, <2>1, GroupWritesAre
  <2>3. Todo(CreateGroupWrites(k, r.user, r.people), k) BY <2>2 DEF GroupList
  <2>4. Announced(CreateGroupWrites(k, r.user, r.people), part) BY <2>2, GroupAnnounced
  <2>5. Plan(CreateGroupWrites(k, r.user, r.people), r) BY <1>9, <2>2, GroupPlan
  <2> QED BY <1>3, <1>6, <2>1, <2>3, <2>4, <2>5
<1>10. CASE r.rpc \in Changing \ {"CreateGroup"} /\ ChangeRequest(c, r)
  <2>1. /\ y.pc = "find" /\ y.conv = r.conv /\ y.req = r /\ r.user # None /\ r.conv # None
        /\ r.rpc \in {"AddParticipant", "RemoveParticipant"} => r.target # None
    BY <1>10 DEF ChangeRequest, Converses, Accepted
  <2> QED BY <1>1, <1>10, <2>1 DEF ConvCall, Seeks
<1>11. CASE r.rpc = "GetConversation" /\ ViewRequest(c, r)
  <2> DEFINE j == r.conv
             v == [kind |-> "view", conv |-> j]
  <2>1. /\ r.user # None /\ j \in Convs /\ Converses(y, r, "write", clock, j, << v >>)
    BY <1>1, <1>11 DEF ViewRequest
  <2>2. v \in WriteOps(j) /\ v.kind = "view" BY WriteOpsAre
  <2> HIDE DEF v
  <2> QED BY <1>6, <2>1, <2>2, LastFits
<1> QED BY <1>0, <1>5, <1>7, <1>8, <1>9, <1>10, <1>11 DEF ConversationArrival

LEMMA ConvFitsNext ==
  ASSUME Fits, ConvFits, [Next]_vars
  PROVE  ConvFits'
<1>0. Fits' BY FitsNext
<1>1. CASE Elsewhere
  <2>1. TablesSame /\ lastConv' = lastConv BY <1>1, ConvVarsUnchanged DEF Elsewhere
  <2>2. TablesFit' /\ Grows(part, part') BY <2>1, SameTables DEF ConvFits
  <2>3. ASSUME NEW c \in Calls
        PROVE  ConvCall(call'[c], part')
    <3>1. CASE Same(call[c], call'[c]) BY <2>2, <3>1, ConvCallStays DEF ConvFits
    <3>2. CASE call'[c].req.rpc \notin Conversing
      <4>1. call'[c].pc \notin {"find", "write"} BY <1>0, <3>2 DEF Fits, CallFits
      <4> QED BY <4>1 DEF ConvCall
    <3> QED BY <1>1, <3>1, <3>2 DEF Elsewhere
  <2> QED BY <2>2, <2>3 DEF ConvFits
<1>2. ASSUME NEW c \in Calls, NEW r \in Request, ConversationCall(c, r)
      PROVE  ConvFits'
  <2>1. TablesFit' /\ part' = part /\ ConvCall(call'[c], part) BY <1>2, ConversationCallFits
  <2>2. \A d \in Calls : d # c => Same(call[d], call'[d])
    BY <1>2 DEF ConversationCall, Arrived, Apart
  <2>3. Grows(part, part) BY DEF Grows
  <2>4. \A d \in Calls : d # c => ConvCall(call'[d], part)
    BY <2>2, <2>3, ConvCallStays DEF ConvFits
  <2> QED BY <2>1, <2>4 DEF ConvFits
<1>3. ASSUME NEW c \in Calls, ConversationMove(c), Goings(c)
      PROVE  ConvFits'
  <2>1. Conversed(c) BY <1>3, ConversationConversed DEF Fits
  <2>2. TablesFit' /\ Grows(part, part') /\ ConvCall(call'[c], part') BY <2>1, ConversedFits
  <2>3. \A d \in Calls : d # c => Same(call[d], call'[d]) BY <1>3 DEF Goings, Same
  <2>4. \A d \in Calls : d # c => ConvCall(call'[d], part')
    BY <2>2, <2>3, ConvCallStays DEF ConvFits
  <2> QED BY <2>2, <2>4 DEF ConvFits
<1> QED BY <1>1, <1>2, <1>3, StepConversations

LEMMA TablesInit ==
  ASSUME Init
  PROVE  TablesFit /\ \A c \in Calls : call[c] = Unused
<1>1. /\ conversations = [k \in Convs |-> IF k = 1 THEN [type |-> "Group", pair |-> {}] ELSE None]
      /\ lastConv = 1 /\ direct = [p \in Pairs |-> None]
      /\ meta = [k \in Convs |-> IF k = 1 THEN "Active" ELSE None]
      /\ part = [k \in Convs |-> [u \in Users |->
             IF k # 1 THEN None
             ELSE IF u \in Admins THEN Member("Admin", "Active")
             ELSE IF u \in Others THEN Member("Member", "Active") ELSE None]]
      /\ rows = {[user |-> u, at |-> -1, conv |-> 1, status |-> "Active"] :
                   u \in Admins \cup Others}
      /\ call = [c \in Calls |-> Unused]
  BY DEF Init, TasksInit, CallsInit
<1>2. 1 \in Convs /\ lastConv \in 1..MaxConversations
  BY <1>1, ConversationsAssumption DEF Convs
<1>3. [type |-> "Group", pair |-> {}] \in ConversationRows BY DEF ConversationRows
<1>4. conversations \in [Convs -> {None} \cup ConversationRows]
  <2> DEFINE g == [type |-> "Group", pair |-> {}]
  <2> HIDE DEF g
  <2>1. g \in ConversationRows BY <1>3 DEF g
  <2>2. conversations = [k \in Convs |-> IF k = 1 THEN g ELSE None] BY <1>1 DEF g
  <2> QED BY <2>1, <2>2
<1>5. Member("Admin", "Active") \in Members /\ Member("Member", "Active") \in Members
  BY MembersAre
<1>6. part \in [Convs -> [Users -> {None} \cup Members]] BY <1>1, <1>5
<1>7. \A w \in rows : w.user \in Users /\ w.conv \in Convs /\ part[w.conv][w.user] # None
  <2> SUFFICES ASSUME NEW u \in Admins \cup Others
               PROVE  u \in Users /\ part[1][u] # None
    <3>1. \A w \in rows : \E u \in Admins \cup Others : w.user = u /\ w.conv = 1 BY <1>1
    <3> QED BY <1>2, <3>1
  <2>1. u \in Users BY TasksAssumption
  <2> QED BY <1>1, <1>2, <1>5, <2>1, NoneAssumption
<1> QED BY <1>1, <1>2, <1>4, <1>6, <1>7 DEF TablesFit

LEMMA ConvFitsInit == Init => ConvFits
<1> SUFFICES ASSUME Init PROVE ConvFits OBVIOUS
<1>1. TablesFit /\ \A c \in Calls : call[c].pc = "idle" BY TablesInit DEF Unused
<1> QED BY <1>1 DEF ConvFits, ConvCall

-----------------------------------------------------------------------------
(***************************************************************************)
(* Presence                                                                *)
(***************************************************************************)
PresenceRpcs == {"UpdatePresence", "GetPresence"}

\* A step without an update or a question about presence.
Aloof ==
  /\ limits' = limits /\ (clock' = clock \/ clock' = clock + 1)
  /\ \A c \in Calls : \/ Same(call[c], call'[c])
                      \/ call'[c].req.rpc \notin PresenceRpcs

LEMMA StepPresence ==
  ASSUME Fits, [Next]_vars
  PROVE  \/ Aloof
         \/ \E c \in Calls, r \in Request : UpdateCall(c, r) \/ PresenceCall(c, r)
         \/ \E c \in Calls : OverrideSet(c) \/ PresenceShown(c)
<1>1. ASSUME NEW c \in Calls, NEW r, Arrival(c, r), ~UpdateCall(c, r), ~PresenceCall(c, r)
      PROVE  Aloof
  <2>1. r \in Request /\ Arrived(c, r) /\ call'[c].req = r
    BY <1>1, FitsAfterArrival, ArrivalIs, ArrivalStarts
  <2>2. r.rpc \notin PresenceRpcs /\ limits' = limits
    <3>1. CASE ConversationCall(c, r)
      BY <3>1 DEF ConversationCall, Conversing, PresenceRpcs, serviceVars
    <3>2. CASE PoolCall(c, r) BY <3>2 DEF PoolCall, Pooled, PresenceRpcs, serviceVars
    <3>3. CASE StatusCall(c, r) BY <3>3 DEF StatusCall, PresenceRpcs, serviceVars
    <3> QED BY <1>1, <3>1, <3>2, <3>3 DEF Arrival
  <2>3. (\A d \in Calls : d # c => Same(call[d], call'[d])) /\ clock' = clock
    BY <2>1 DEF Arrived, Apart
  <2> QED BY <2>1, <2>2, <2>3 DEF Aloof
<1>2. ASSUME NEW c \in Calls, Move(c), ~OverrideSet(c), ~PresenceShown(c)
      PROVE  Aloof
  <2>1. Goings(c) /\ CallFits(call[c]) BY <1>2, FitsAfterMove DEF Fits
  <2>2. /\ \A d \in Calls : d # c => call'[d] = call[d]
        /\ call'[c].req = call[c].req /\ clock' = clock
    BY <2>1 DEF Goings
  <2>3. call[c].req.rpc \notin PresenceRpcs /\ limits' = limits
    <3>0. Pooled \cap PresenceRpcs = {} /\ Conversing \cap PresenceRpcs = {}
      BY DEF Pooled, Conversing, PresenceRpcs
    <3>1. CASE DirectoryMove(c) /\ UNCHANGED <<taskVars, serviceVars>>
      <4>1. call[c].pc = "device" \/ call[c].task = "resolve"
        BY <3>1 DEF DirectoryMove, Hits, Asks, Reads, Receives, GivesUp, DeviceResolved,
                    UserResolved, Resolving, Unanswered
      <4> QED BY <2>1, <3>0, <3>1, <4>1 DEF CallFits, serviceVars
    <3>2. CASE TaskMove(c) /\ UNCHANGED serviceVars
      <4>1. call[c].task # "none"
        BY <3>2 DEF TaskMove, SubmitAuthorised, SubmitNamed, SubmitNumbered, SubmitStored,
             SyncAuthorised, SyncPlaced, SyncReadPrevious, SyncReadCurrent,
             CursorRead, CursorChecked, CursorSaved
      <4> QED BY <2>1, <3>0, <3>2, <4>1 DEF CallFits, serviceVars
    <3>3. CASE HandlerMove(c)
      <4>1. limits' = limits /\ (call[c].pc \in {"submit", "wait"} \/ call[c].task = "start")
        BY <3>3 DEF HandlerMove, Submitted, Answered, TimedOut, Delivered, serviceVars
      <4> QED BY <2>1, <3>0, <4>1 DEF CallFits
    <3>4. CASE ConversationMove(c) /\ UNCHANGED <<dirVars, taskVars, serviceVars>>
      <4>1. call[c].pc \in {"find", "write"} /\ limits' = limits
        BY <3>4 DEF ConversationMove, serviceVars
      <4> QED BY <2>1, <3>0, <4>1 DEF CallFits
    <3> QED BY <1>2, <3>1, <3>2, <3>3, <3>4 DEF Move, PresenceMove
  <2> QED BY <2>2, <2>3 DEF Aloof, Same
<1>3. ASSUME NEW p \in Pools, Started(p)
      PROVE  Aloof
  <2> DEFINE c == Head(queue[p])
  <2>1. c \in Calls /\ call[c].task = "queued"
    <3>1. queue[p] \in Seq(Calls) /\ queue[p] # <<>> /\ 1 \in 1..Len(queue[p])
      BY <1>3 DEF Fits, QueueFits, Started
    <3> QED BY <3>1 DEF Fits, QueueFits
  <2>2. /\ Only({"task"}, call[c], call'[c]) /\ limits' = limits /\ clock' = clock
        /\ \A d \in Calls : d # c => call'[d] = call[d]
    BY <1>3 DEF Started, Steps
  <2>3. call'[c].req = call[c].req /\ call[c].req.rpc \in Pooled
    BY <2>1, <2>2, OnlyFields DEF Fits, CallFits
  <2> QED BY <2>2, <2>3 DEF Aloof, Same, Pooled, PresenceRpcs
<1>4. ASSUME Ambient
      PROVE  Aloof
  <2>1. call' = call BY <1>4, AmbientIs
  <2>2. limits' = limits /\ (clock' = clock \/ clock' = clock + 1)
    BY <1>4 DEF Ambient, DeviceChanges, MonthTurns, Tick, StopRequested, ServerShutdown,
                DrainAndStop, vars, callVars, serviceVars
  <2> QED BY <2>1, <2>2 DEF Aloof, Same
<1>5. CASE \E c \in Calls, r \in load.requests : Arrival(c, r)
  BY <1>1, <1>5, FitsAfterArrival
<1>6. CASE \E c \in Calls : Move(c) BY <1>2, <1>6
<1> QED BY <1>3, <1>4, <1>5, <1>6, StepKinds

\* The target v of a check is a member now of a conversation u is or was in.
Mutual(u, v) == u = v \/ \E k \in Convs : IsActive(k, v) /\ part[k][u] # None

LEMMA SharesIsMutual ==
  ASSUME TablesFit, NEW u \in Users, NEW v \in Users, SharesMutual(u, v)
  PROVE  Mutual(u, v)
<1>1. CASE u = v BY <1>1 DEF Mutual
<1>2. CASE \E w \in UserRows(u) : w.status = "Active" /\ IsActive(w.conv, v)
  <2>1. PICK w \in rows : w.user = u /\ IsActive(w.conv, v) BY <1>2 DEF UserRows
  <2>2. w.conv \in Convs /\ part[w.conv][u] # None BY <2>1 DEF TablesFit
  <2> QED BY <2>1, <2>2 DEF Mutual
<1> QED BY <1>1, <1>2 DEF SharesMutual

\* What a step of call c, which was x and is y, newly shows.
ShowsMutual(x, y) ==
  y.pc # "idle" /\ y.req.rpc = "GetPresence" =>
    \A s \in y.shown \ x.shown : Mutual(x.req.user, s.user)

LEMMA ShowsSame ==
  ASSUME NEW x, NEW y, Same(x, y)
  PROVE  ShowsMutual(x, y)
  BY DEF Same, ShowsMutual

LEMMA ShownStep ==
  ASSUME Fits, ConvFits, [Next]_vars
  PROVE  ShownIsMutual
<1> SUFFICES \A c \in Calls : ShowsMutual(call[c], call'[c])
  BY DEF ShownIsMutual, ShowsMutual, Mutual
<1>1. CASE Aloof
  <2> SUFFICES ASSUME NEW c \in Calls PROVE ShowsMutual(call[c], call'[c]) OBVIOUS
  <2>1. CASE Same(call[c], call'[c]) BY <2>1, ShowsSame
  <2>2. CASE call'[c].req.rpc \notin PresenceRpcs BY <2>2 DEF ShowsMutual, PresenceRpcs
  <2> QED BY <1>1, <2>1, <2>2 DEF Aloof
<1>2. ASSUME NEW c \in Calls, NEW r \in Request, UpdateCall(c, r) \/ PresenceCall(c, r)
      PROVE  \A d \in Calls : ShowsMutual(call[d], call'[d])
  <2>1. Arrived(c, r) /\ (Refused(call'[c], r) \/ PresenceRequest(c, r))
    BY <1>2 DEF UpdateCall, PresenceCall
  <2>2. call'[c].shown = {} BY <2>1 DEF Refused, PresenceRequest
  <2>3. \A d \in Calls : d # c => Same(call[d], call'[d]) BY <2>1 DEF Arrived, Apart
  <2> QED BY <2>2, <2>3, ShowsSame DEF ShowsMutual
<1>3. ASSUME NEW c \in Calls, OverrideSet(c)
      PROVE  \A d \in Calls : ShowsMutual(call[d], call'[d])
  <2>1. /\ call[c].pc = "override" /\ Only({"pc", "todo", "answer"}, call[c], call'[c])
        /\ \A d \in Calls : d # c => call'[d] = call[d]
    BY <1>3 DEF OverrideSet, Steps
  <2>2. call[c].req.rpc # "GetPresence" /\ call'[c].req = call[c].req
    BY <2>1, OnlyFields DEF Fits, CallFits
  <2> QED BY <2>1, <2>2 DEF ShowsMutual
<1>4. ASSUME NEW c \in Calls, PresenceShown(c)
      PROVE  \A d \in Calls : ShowsMutual(call[d], call'[d])
  <2> DEFINE x == call[c]
             y == call'[c]
             u == CHOOSE v \in x.users : TRUE
  <2>1. /\ x.pc = "presence"
        /\ y.shown = IF SharesMutual(x.req.user, u) THEN x.shown \cup {PresenceOf(u)} ELSE x.shown
        /\ \A d \in Calls : d # c => call'[d] = call[d]
    BY <1>4 DEF PresenceShown, Steps
  <2>2. /\ x.req \in Request /\ x.req.user # None /\ x.users # {} /\ x.users \subseteq Users
    BY <2>1 DEF Fits, CallFits
  <2>3. u \in Users /\ x.req.user \in Users BY <2>2, RequestFields
  <2>4. PresenceOf(u).user = u BY DEF PresenceOf
  <2>5. SharesMutual(x.req.user, u) => Mutual(x.req.user, u)
    BY <2>3, SharesIsMutual DEF ConvFits
  <2>6. \A s \in y.shown \ x.shown : s = PresenceOf(u) /\ SharesMutual(x.req.user, u)
    BY <2>1
  <2> HIDE DEF u
  <2>7. ShowsMutual(x, y) BY <2>4, <2>5, <2>6 DEF ShowsMutual
  <2> QED BY <2>1, <2>7 DEF ShowsMutual
<1> QED BY <1>1, <1>2, <1>3, <1>4, StepPresence

\* The updates of u that were let through, and those that are not too old to
\* count.
Updates(u) ==
  {c \in Calls : /\ call[c].pc \in {"override", "done"} /\ call[c].req.rpc = "UpdatePresence"
                 /\ call[c].req.user = u /\ call[c].answer \in {"none", "OK"}}
Counting(u) == {c \in Updates(u) : clock - call[c].at <= PresenceWindow}
Window(u, t) == {c \in Updates(u) : call[c].at \in t..(t + PresenceWindow)}

\* f names for each update that counts its own entry among the times of u.
Entries(u, f) ==
  /\ f \in Injection(Counting(u), 1..Len(limits[u]))
  /\ \A c \in Counting(u) : limits[u][f[c]] = call[c].at

RateFits(u) ==
  /\ limits[u] \in Seq(Nat) /\ Len(limits[u]) <= PresenceLimit
  /\ \A c \in Updates(u) : call[c].at \in 0..clock
  /\ \E f : Entries(u, f)
  /\ \A t \in 0..MaxClock : Cardinality(Window(u, t)) <= PresenceLimit

RatesFit == limits = [u \in Users |-> limits[u]] /\ \A u \in Users : RateFits(u)

LEMMA UpdatesFinite ==
  ASSUME NEW S, S \subseteq Calls
  PROVE  IsFiniteSet(S) /\ Cardinality(S) \in Nat
  BY CallsAssumption, FS_Subset, FS_CardinalityType

\* Updates that nobody adds to stay within the limit.
LEMMA RateShrinks ==
  ASSUME NEW u, RateFits(u), limits'[u] = limits[u], clock \in Nat,
         clock' = clock \/ clock' = clock + 1,
         Updates(u)' \subseteq Updates(u), \A c \in Updates(u)' : call'[c].at = call[c].at
  PROVE  RateFits(u)'
<1> DEFINE S == Counting(u)
           T == Counting(u)'
           n == Len(limits[u])
<1>1. /\ limits[u] \in Seq(Nat) /\ n \in Nat /\ PresenceWindow \in Nat
      /\ \A c \in Updates(u) : call[c].at \in 0..clock
  BY ServiceAssumption DEF RateFits
<1>2. T \subseteq S
  <2> SUFFICES ASSUME NEW c \in T PROVE c \in S OBVIOUS
  <2>1. c \in Updates(u)' /\ clock' - call'[c].at <= PresenceWindow BY DEF Counting
  <2>2. c \in Updates(u) /\ call'[c].at = call[c].at BY <2>1
  <2>3. clock - call[c].at <= PresenceWindow BY <1>1, <2>1, <2>2
  <2> QED BY <2>2, <2>3 DEF Counting
<1>3. PICK f : Entries(u, f) BY DEF RateFits
<1>4. f \in Injection(S, 1..n) /\ \A c \in S : limits[u][f[c]] = call[c].at
  BY <1>3 DEF Entries
<1>5. ASSUME NEW c \in T PROVE call'[c].at = call[c].at BY <1>5 DEF Counting
<1> DEFINE g == [c \in T |-> f[c]]
<1>6. g \in Injection(T, 1..n)
  <2> HIDE DEF S, T, n
  <2>1. f \in [S -> 1..n] /\ \A x, y \in S : f[x] = f[y] => x = y
    BY <1>4 DEF Injection, IsInjective
  <2>2. g \in [T -> 1..n] /\ \A x, y \in T : g[x] = g[y] => x = y BY <1>2, <2>1
  <2> HIDE DEF g
  <2> QED BY <2>2 DEF Injection, IsInjective
<1>7. \A c \in T : limits[u][g[c]] = call'[c].at
  <2> HIDE DEF S, T
  <2> QED BY <1>2, <1>4, <1>5
<1>8. \E h : h \in Injection(T, 1..n) /\ \A c \in T : limits[u][h[c]] = call'[c].at
  <2> HIDE DEF g, T, n
  <2> QED BY <1>6, <1>7
<1>9. ASSUME NEW t \in 0..MaxClock PROVE Cardinality(Window(u, t)') <= PresenceLimit
  <2>1. Window(u, t)' \subseteq Window(u, t) BY DEF Window
  <2>2. Window(u, t) \subseteq Calls BY DEF Window, Updates
  <2>3. /\ IsFiniteSet(Window(u, t)) /\ Cardinality(Window(u, t)) \in Nat
        /\ Cardinality(Window(u, t)') \in Nat
    BY <2>1, <2>2, UpdatesFinite
  <2>4. Cardinality(Window(u, t)') <= Cardinality(Window(u, t)) BY <2>1, <2>3, FS_Subset
  <2> QED BY <2>3, <2>4, ServiceAssumption DEF RateFits
<1>10. \A c \in Updates(u)' : call'[c].at \in 0..clock' BY <1>1
<1>11. \E h : Entries(u, h)' BY <1>8 DEF Entries
<1>12. limits'[u] \in Seq(Nat) /\ Len(limits'[u]) <= PresenceLimit BY DEF RateFits
<1> HIDE DEF g
<1> QED BY <1>9, <1>10, <1>11, <1>12 DEF RateFits

\* What is left when the times that left the window are popped.
LEMMA RecentIs ==
  ASSUME NEW u, limits[u] \in Seq(Nat)
  PROVE  \E j \in 0..Len(limits[u]) : /\ Recent(u) = SubSeq(limits[u], j + 1, Len(limits[u]))
                                      /\ \A i \in 1..j : Expired(u, i)
<1> DEFINE n == Len(limits[u])
           T == {i \in 1..n : ~Expired(u, i)}
           P(j) == (\A i \in 1..j : Expired(u, i)) /\ (j < n => ~Expired(u, j + 1))
<1>0. n \in Nat OBVIOUS
<1>1. \E j \in 0..n : P(j)
  <2>1. CASE T = {}
    <3>1. P(n) /\ n \in 0..n BY <1>0, <2>1
    <3> QED BY <3>1
  <2>2. CASE T # {}
    <3>1. T \subseteq Nat BY <1>0
    <3>2. Min(T) \in T /\ \A i \in T : Min(T) <= i
      <4> HIDE DEF T
      <4> QED BY <2>2, <3>1, SmallestOf
    <3> DEFINE m == Min(T)
    <3>3. m \in 1..n /\ ~Expired(u, m) /\ \A i \in 1..n : ~Expired(u, i) => m <= i BY <3>2
    <3> HIDE DEF m, T
    <3>4. m - 1 \in 0..n /\ (m - 1) + 1 = m BY <1>0, <3>3
    <3>5. P(m - 1) BY <1>0, <3>3, <3>4
    <3> QED BY <3>4, <3>5
  <2> QED BY <2>1, <2>2
<1> DEFINE j == CHOOSE i \in 0..n : P(i)
<1>2. j \in 0..n /\ P(j) BY <1>1
<1>3. Recent(u) = SubSeq(limits[u], j + 1, n) BY DEF Recent
<1> HIDE DEF j
<1> QED BY <1>2, <1>3

LEMMA RecentEntries ==
  ASSUME NEW u, RateFits(u), clock \in Nat
  PROVE  /\ Recent(u) \in Seq(Nat) /\ Len(Recent(u)) <= Len(limits[u])
         /\ \E g \in Injection(Counting(u), 1..Len(Recent(u))) :
              \A c \in Counting(u) : Recent(u)[g[c]] = call[c].at
<1> DEFINE s == limits[u]
           n == Len(s)
           S == Counting(u)
<1>1. /\ s \in Seq(Nat) /\ n \in Nat /\ PresenceWindow \in Nat
      /\ \A c \in Updates(u) : call[c].at \in 0..clock
  BY ServiceAssumption DEF RateFits
<1>2. PICK j \in 0..n : Recent(u) = SubSeq(s, j + 1, n) /\ \A i \in 1..j : Expired(u, i)
  BY <1>1, RecentIs
<1> DEFINE t == SubSeq(s, j + 1, n)
<1>3. t \in Seq(Nat) /\ Len(t) = n - j /\ \A i \in 1..(n - j) : t[i] = s[i + j]
  <2> HIDE DEF s
  <2> DEFINE m == n - j
  <2>1. m \in Nat /\ \A i \in 1..m : i + j \in 1..n /\ s[i + j] \in Nat BY <1>1
  <2>2. t = [i \in 1..m |-> s[i + j]] BY <1>1
  <2> HIDE DEF t, m
  <2>3. t \in [1..m -> Nat] BY <2>1, <2>2
  <2>4. t \in Seq(Nat) /\ Len(t) = m BY <2>1, <2>3
  <2>5. \A i \in 1..m : t[i] = s[i + j] BY <2>2
  <2> QED BY <2>4, <2>5 DEF m
<1>4. PICK f : Entries(u, f) BY DEF RateFits
<1>5. /\ f \in [S -> 1..n] /\ (\A x, y \in S : f[x] = f[y] => x = y)
      /\ \A c \in S : s[f[c]] = call[c].at
  BY <1>4 DEF Entries, Injection, IsInjective
<1>6. ASSUME NEW c \in S PROVE f[c] \in 1..n /\ f[c] > j
  <2>1. f[c] \in 1..n /\ s[f[c]] = call[c].at /\ c \in Updates(u) BY <1>5 DEF Counting
  <2>2. ~Expired(u, f[c]) BY <1>1, <2>1 DEF Expired, Counting
  <2> QED BY <1>1, <1>2, <2>1, <2>2
<1> DEFINE g == [c \in S |-> f[c] - j]
<1> HIDE DEF t, s, n, S
<1>7. g \in Injection(S, 1..Len(t)) /\ \A c \in S : t[g[c]] = call[c].at
  <2>1. \A c \in S : g[c] = f[c] - j /\ f[c] - j \in 1..(n - j) /\ (f[c] - j) + j = f[c]
    BY <1>1, <1>6
  <2>2. g \in [S -> 1..(n - j)] BY <2>1
  <2>3. \A x, y \in S : g[x] = g[y] => x = y BY <1>1, <1>5, <1>6, <2>1
  <2>4. \A c \in S : t[g[c]] = call[c].at BY <1>3, <1>5, <2>1
  <2> HIDE DEF g
  <2> QED BY <1>3, <2>2, <2>3, <2>4 DEF Injection, IsInjective
<1>8. Len(t) <= n BY <1>1, <1>3
<1> HIDE DEF g
<1> QED BY <1>2, <1>3, <1>7, <1>8 DEF t, s, n, S

LEMMA RateRefused ==
  ASSUME NEW u, RateFits(u), limits'[u] = Recent(u), clock \in Nat, clock' = clock,
         Updates(u)' = Updates(u), \A c \in Updates(u) : call'[c].at = call[c].at
  PROVE  RateFits(u)'
<1>1. /\ Recent(u) \in Seq(Nat) /\ Len(Recent(u)) <= Len(limits[u])
      /\ \E g \in Injection(Counting(u), 1..Len(Recent(u))) :
            \A c \in Counting(u) : Recent(u)[g[c]] = call[c].at
  BY RecentEntries
<1>2. Counting(u)' = Counting(u) /\ \A c \in Counting(u) : call'[c].at = call[c].at
  BY DEF Counting
<1>3. \E g : Entries(u, g)' BY <1>1, <1>2 DEF Entries
<1>4. limits'[u] \in Seq(Nat) /\ Len(limits'[u]) <= PresenceLimit
  <2>1. Len(limits[u]) \in Nat /\ Len(limits[u]) <= PresenceLimit /\ PresenceLimit \in Nat
    BY ServiceAssumption DEF RateFits
  <2>2. Len(Recent(u)) \in Nat BY <1>1
  <2> QED BY <1>1, <2>1, <2>2
<1>5. \A t : Window(u, t)' = Window(u, t) BY DEF Window
<1>6. \A c \in Updates(u)' : call'[c].at \in 0..clock' BY DEF RateFits
<1>7. \A t \in 0..MaxClock : Cardinality(Window(u, t)') <= PresenceLimit BY <1>5 DEF RateFits
<1> QED BY <1>3, <1>4, <1>6, <1>7 DEF RateFits

LEMMA RateAccepted ==
  ASSUME NEW u, RateFits(u), NEW c \in Calls, c \notin Updates(u),
         Updates(u)' = Updates(u) \cup {c}, \A d \in Updates(u) : call'[d].at = call[d].at,
         call'[c].at = clock, clock \in Nat, clock' = clock,
         limits'[u] = Append(Recent(u), clock), Len(Recent(u)) < PresenceLimit
  PROVE  RateFits(u)'
<1> DEFINE s == Recent(u)
           t == Append(s, clock)
           n == Len(s)
           S == Counting(u)
           T == Counting(u)'
<1>0. PresenceWindow \in Nat /\ PresenceLimit \in Nat BY ServiceAssumption
<1>1. s \in Seq(Nat) /\ n < PresenceLimit BY RecentEntries
<1>2. PICK g \in Injection(S, 1..n) : \A d \in S : s[g[d]] = call[d].at BY RecentEntries
<1>3. T = S \cup {c} /\ c \notin S /\ \A d \in S : call'[d].at = call[d].at
  BY <1>0 DEF Counting
<1>4. n \in Nat /\ t \in Seq(Nat) /\ Len(t) = n + 1 /\ t[n + 1] = clock /\ \A i \in 1..n : t[i] = s[i]
  <2> HIDE DEF s
  <2> QED BY <1>1
<1> DEFINE h == [d \in T |-> IF d = c THEN n + 1 ELSE g[d]]
<1>5. g \in [S -> 1..n] /\ \A x, y \in S : g[x] = g[y] => x = y
  BY <1>2 DEF Injection, IsInjective
<1>6. h \in Injection(T, 1..(n + 1)) /\ \A d \in T : t[h[d]] = call'[d].at
  <2> HIDE DEF T, S, s, t, n
  <2>1. \A d \in S : h[d] = g[d] /\ h[d] \in 1..n /\ d # c BY <1>3, <1>5
  <2>2. h[c] = n + 1 /\ n + 1 \in 1..(n + 1) /\ n + 1 \notin 1..n BY <1>3, <1>4
  <2>3. h \in [T -> 1..(n + 1)] BY <1>3, <1>4, <2>1, <2>2
  <2>4. \A x, y \in T : h[x] = h[y] => x = y BY <1>3, <1>5, <2>1, <2>2
  <2>5. \A d \in T : t[h[d]] = call'[d].at BY <1>2, <1>3, <1>4, <2>1, <2>2
  <2> HIDE DEF h
  <2> QED BY <2>3, <2>4, <2>5 DEF Injection, IsInjective
<1>7. limits'[u] = t OBVIOUS
<1>8. \E f : Entries(u, f)'
  <2>1. \E f : f \in Injection(T, 1..Len(t)) /\ \A d \in T : t[f[d]] = call'[d].at
    <3> HIDE DEF h, T, t
    <3> QED BY <1>4, <1>6
  <2> HIDE DEF t
  <2> QED BY <1>7, <2>1 DEF Entries
<1>9. ASSUME NEW q \in 0..MaxClock PROVE Cardinality(Window(u, q)') <= PresenceLimit
  <2>1. CASE c \in Window(u, q)'
    <3>1. clock \in q..(q + PresenceWindow) BY <2>1 DEF Window
    <3>2. Window(u, q)' \subseteq T
      <4> SUFFICES ASSUME NEW d \in Window(u, q)' PROVE d \in T OBVIOUS
      <4>1. d \in Updates(u)' /\ call'[d].at \in q..(q + PresenceWindow) BY DEF Window
      <4>2. clock' - call'[d].at <= PresenceWindow BY <1>0, <3>1, <4>1
      <4> QED BY <4>1, <4>2 DEF Counting
    <3>3. T \subseteq Calls BY DEF Counting, Updates
    <3>4. IsFiniteSet(T) /\ Cardinality(T) \in Nat /\ Cardinality(Window(u, q)') \in Nat
      BY <3>2, <3>3, UpdatesFinite
    <3>5. Cardinality(Window(u, q)') <= Cardinality(T) BY <3>2, <3>4, FS_Subset
    <3>6. IsFiniteSet(1..(n + 1)) /\ Cardinality(1..(n + 1)) = n + 1
      <4> HIDE DEF n
      <4> QED BY <1>4, FS_Interval
    <3>7. Cardinality(T) <= Cardinality(1..(n + 1))
      <4> HIDE DEF T, n, h
      <4> QED BY <1>6, <3>6, FS_Injection
    <3> HIDE DEF T, n
    <3> QED BY <1>0, <1>4, <3>4, <3>5, <3>6, <3>7 DEF n
  <2>2. CASE c \notin Window(u, q)'
    <3>1. Window(u, q)' = Window(u, q) BY <2>2 DEF Window
    <3> QED BY <3>1 DEF RateFits
  <2> QED BY <2>1, <2>2
<1>10. \A d \in Updates(u)' : call'[d].at \in 0..clock' BY DEF RateFits
<1>11. limits'[u] \in Seq(Nat) /\ Len(limits'[u]) <= PresenceLimit
  <2> HIDE DEF t, n
  <2> QED BY <1>0, <1>1, <1>4, <1>7
<1> HIDE DEF h
<1> QED BY <1>8, <1>9, <1>10, <1>11 DEF RateFits

\* A step that adds no update of u.
LEMMA RateSteps ==
  ASSUME NEW u, RateFits(u), limits'[u] = limits[u], clock \in Nat,
         clock' = clock \/ clock' = clock + 1,
         \A c \in Calls : c \in Updates(u)' => Same(call[c], call'[c])
  PROVE  RateFits(u)'
<1>1. Updates(u)' \subseteq Updates(u) /\ \A c \in Updates(u)' : call'[c].at = call[c].at
  BY DEF Updates, Same
<1> QED BY <1>1, RateShrinks

LEMMA RatesNext ==
  ASSUME Fits, RatesFit, [Next]_vars
  PROVE  RatesFit'
<1>0. clock \in Nat /\ \A u \in Users : RateFits(u) BY DEF Fits, BoundsFit, RatesFit
<1>1. CASE Aloof
  <2>1. ASSUME NEW u \in Users PROVE RateFits(u)'
    <3>1. \A c \in Calls : c \in Updates(u)' => Same(call[c], call'[c])
      BY <1>1 DEF Aloof, Updates, PresenceRpcs
    <3> QED BY <1>0, <1>1, <3>1, RateSteps DEF Aloof
  <2> QED BY <1>1, <2>1 DEF RatesFit, Aloof
<1>2. ASSUME NEW c \in Calls, NEW r \in Request, UpdateCall(c, r)
      PROVE  RatesFit'
  <2>1. /\ Arrived(c, r) /\ clock' = clock /\ call[c].pc = "idle"
        /\ \A d \in Calls : d # c => Same(call[d], call'[d])
    BY <1>2 DEF UpdateCall, Arrived, Apart
  <2>2. \A u : c \notin Updates(u) BY <2>1 DEF Updates
  <2>3. ASSUME NEW u, c \notin Updates(u)'
        PROVE  /\ Updates(u)' = Updates(u)
               /\ \A d \in Updates(u) : call'[d].at = call[d].at
    BY <2>1, <2>2, <2>3 DEF Updates, Same
  <2>4. CASE r.user = None
    <3>1. Refused(call'[c], r) /\ limits' = limits
      BY <1>2, <2>4 DEF UpdateCall, PresenceRequest
    <3>2. \A u : c \notin Updates(u)' BY <3>1 DEF Refused, Updates
    <3>3. ASSUME NEW u \in Users PROVE RateFits(u)'
      BY <1>0, <2>1, <2>3, <3>1, <3>2, RateShrinks
    <3> QED BY <3>1, <3>3 DEF RatesFit
  <2>5. CASE r.user # None
    <3> DEFINE v == r.user
               s == IF Full(r) THEN Recent(v) ELSE Append(Recent(v), clock)
    <3>1. v \in Users /\ limits' = [limits EXCEPT ![v] = s]
      BY <1>2, <2>5, RequestFields DEF UpdateCall
    <3>2. limits = [u \in Users |-> limits[u]] BY DEF RatesFit
    <3>3. /\ limits'[v] = s /\ limits' = [u \in Users |-> limits'[u]]
          /\ \A u \in Users : u # v => limits'[u] = limits[u]
      <4> HIDE DEF s, v
      <4> QED BY <3>1, <3>2
    <3>4. ASSUME NEW u \in Users, u # v PROVE RateFits(u)'
      <4>1. call'[c].req = r BY <1>2 DEF UpdateCall, Refused, PresenceRequest, Accepted
      <4>2. c \notin Updates(u)' BY <3>4, <4>1 DEF Updates
      <4> QED BY <1>0, <2>1, <2>3, <3>3, <3>4, <4>2, RateShrinks
    <3>5. RateFits(v)'
      <4>1. CASE Full(r)
        <5>1. Refused(call'[c], r) /\ limits'[v] = Recent(v)
          BY <1>2, <3>3, <4>1 DEF UpdateCall
        <5>2. c \notin Updates(v)' BY <5>1 DEF Refused, Updates
        <5> QED BY <1>0, <2>1, <2>3, <3>1, <5>1, <5>2, RateRefused
      <4>2. CASE ~Full(r)
        <5>1. PresenceRequest(c, r) /\ limits'[v] = Append(Recent(v), clock)
          BY <1>2, <2>5, <3>3, <4>2 DEF UpdateCall
        <5>2. /\ call'[c].pc = "override" /\ call'[c].at = clock /\ call'[c].req = r
              /\ call'[c].answer = "none" /\ r.rpc = "UpdatePresence"
          BY <1>2, <5>1 DEF PresenceRequest, Accepted, UpdateCall
        <5>3. /\ Updates(v)' = Updates(v) \cup {c}
              /\ \A d \in Updates(v) : call'[d].at = call[d].at
          BY <2>1, <2>2, <5>2 DEF Updates, Same
        <5>4. Len(Recent(v)) < PresenceLimit
          <6>1. Recent(v) \in Seq(Nat) BY <1>0, <3>1, RecentEntries
          <6> QED BY <2>5, <4>2, <6>1, ServiceAssumption DEF Full
        <5> HIDE DEF v
        <5> QED BY <1>0, <2>1, <2>2, <3>1, <5>1, <5>2, <5>3, <5>4, RateAccepted
      <4> QED BY <4>1, <4>2
    <3> HIDE DEF v, s
    <3> QED BY <3>3, <3>4, <3>5 DEF RatesFit
  <2> QED BY <2>4, <2>5
<1>3. ASSUME NEW c \in Calls, NEW r \in Request, PresenceCall(c, r)
      PROVE  RatesFit'
  <2>1. /\ call'[c].req = r /\ r.rpc = "GetPresence" /\ limits' = limits /\ clock' = clock
        /\ \A d \in Calls : d # c => Same(call[d], call'[d])
    BY <1>3 DEF PresenceCall, Refused, PresenceRequest, Accepted, Arrived, Apart, serviceVars
  <2>2. ASSUME NEW u \in Users PROVE RateFits(u)'
    <3>1. \A d \in Calls : d \in Updates(u)' => Same(call[d], call'[d]) BY <2>1 DEF Updates
    <3> QED BY <1>0, <2>1, <3>1, RateSteps
  <2> QED BY <2>1, <2>2 DEF RatesFit
<1>4. ASSUME NEW c \in Calls, OverrideSet(c) \/ PresenceShown(c)
      PROVE  RatesFit'
  <2>1. /\ Only({"users", "shown", "pc", "todo", "answer"}, call[c], call'[c])
        /\ limits' = limits /\ clock' = clock
        /\ \A d \in Calls : d # c => call'[d] = call[d]
    BY <1>4 DEF OverrideSet, PresenceShown, Steps, Only, serviceVars
  <2>2. call'[c].req = call[c].req /\ call'[c].at = call[c].at BY <2>1, OnlyFields
  <2>3. ASSUME NEW u \in Users
        PROVE  Updates(u)' \subseteq Updates(u) /\ \A d \in Updates(u)' : call'[d].at = call[d].at
    <3>1. c \in Updates(u)' => c \in Updates(u)
      <4>1. CASE OverrideSet(c)
        <5>1. call[c].pc = "override" /\ call[c].answer = "none"
          BY <4>1 DEF OverrideSet, Fits, CallFits
        <5> QED BY <2>2, <5>1 DEF Updates
      <4>2. CASE PresenceShown(c)
        <5>1. call[c].req.rpc = "GetPresence" BY <4>2 DEF PresenceShown, Fits, CallFits
        <5> QED BY <2>2, <5>1 DEF Updates
      <4> QED BY <1>4, <4>1, <4>2
    <3> QED BY <2>1, <2>2, <3>1 DEF Updates
  <2>4. ASSUME NEW u \in Users PROVE RateFits(u)' BY <1>0, <2>1, <2>3, RateShrinks
  <2> QED BY <2>1, <2>4 DEF RatesFit
<1> QED BY <1>1, <1>2, <1>3, <1>4, StepPresence

LEMMA RatesInit == Init => RatesFit
<1> SUFFICES ASSUME Init, NEW u \in Users PROVE limits = [v \in Users |-> <<>>] /\ RateFits(u)
  BY DEF RatesFit, Init
<1>1. limits = [v \in Users |-> <<>>] /\ limits[u] = <<>> BY DEF Init
<1>2. \A c \in Calls : call[c].pc = "idle" BY TablesInit DEF Unused
<1>3. Updates(u) = {} /\ Counting(u) = {} /\ \A t : Window(u, t) = {}
  BY <1>2 DEF Updates, Counting, Window
<1>4. PresenceLimit \in Nat /\ Cardinality({}) = 0 BY ServiceAssumption, FS_EmptySet
<1>5. \A t \in 0..MaxClock : Cardinality(Window(u, t)) <= PresenceLimit BY <1>3, <1>4
<1>6. \E f : Entries(u, f)
  <2> DEFINE f == [c \in {} |-> 1]
  <2>1. f \in Injection({}, 1..Len(limits[u])) BY DEF Injection, IsInjective
  <2>2. Entries(u, f) BY <1>3, <2>1 DEF Entries
  <2> QED BY <2>2
<1> QED BY <1>1, <1>3, <1>4, <1>5, <1>6 DEF RateFits

LEMMA RatesBounded == RatesFit => RateBounded
<1> SUFFICES ASSUME RatesFit, NEW u \in Users, NEW t \in 0..MaxClock
             PROVE  Cardinality(Window(u, t)) <= PresenceLimit
  <2>1. \A u \in Users, t \in 0..MaxClock :
          Window(u, t) = {c \in Calls : /\ call[c].pc \in {"override", "done"}
                             /\ call[c].req.rpc = "UpdatePresence"
                             /\ call[c].req.user = u
                             /\ call[c].answer \in {"none", "OK"}
                             /\ call[c].at \in t..(t + PresenceWindow)}
    BY DEF Window, Updates
  <2> QED BY <2>1 DEF RateBounded
<1> QED BY DEF RatesFit, RateFits

\* A step that shows a user's presence to another finds the user an active
\* member of a conversation the caller is or was in, and nobody changes it more
\* often than the limit within a minute: an index row is written after the
\* membership it stands for, the target is looked up among the members, and the
\* times that leave the front of the window are older than the window.
THEOREM PresenceIsGuarded == Spec => PresenceGuarded
<1>1. Init => Fits /\ ConvFits /\ RatesFit
  BY FitsInit, ConvFitsInit, RatesInit
<1>2. Fits /\ ConvFits /\ RatesFit /\ [Next]_vars => (Fits /\ ConvFits /\ RatesFit)'
  BY FitsNext, ConvFitsNext, RatesNext
<1>3. RatesFit => RateBounded BY RatesBounded
<1>4. Fits /\ ConvFits /\ [Next]_vars => [ShownIsMutual]_vars BY ShownStep
<1> QED BY <1>1, <1>2, <1>3, <1>4, PTL DEF Spec, PresenceGuarded

-----------------------------------------------------------------------------
(***************************************************************************)
(* The directory                                                           *)
(***************************************************************************)

\* devs are the devices of u as the auth service had them at time t or later, if
\* st are the statuses and si the times they changed.
Reflects(u, devs, t, st, si) ==
  /\ DOMAIN devs \subseteq {d \in Devices : Owner[d] = u}
  /\ \A d \in Devices : Owner[d] = u /\ si[d] < t =>
       /\ d \in DOMAIN devs <=> st[d] # "Absent"
       /\ d \in DOMAIN devs => devs[d] = st[d]

\* A cached answer was read at most the timeout before it was cached, an answer
\* under way not before it was asked for, and what a task collected was read at
\* most the life of an entry and the timeout before.
EntryFits(e, now, st, si) == e.at \in 0..now /\ Reflects(e.user, e.devs, e.at - RpcTimeout, st, si)

AskFits(a, now, st, si) ==
  a # None =>
    /\ a = [user |-> a.user, at |-> a.at, devs |-> a.devs] /\ a.at \in 0..now
    /\ a.devs # None => Reflects(a.user, a.devs, a.at, st, si)

HeldFits(dir, now, st, si) ==
  \A u \in DOMAIN dir :
    /\ dir[u].at \in 0..now
    /\ Reflects(u, dir[u].devs, dir[u].at - Ttl - RpcTimeout, st, si)

CacheFits ==
  /\ Len(cache) <= CacheCapacity
  /\ \E S : cache \in Seq(S) /\ \A e \in S : EntryFits(e, clock, status, since)

DirFits ==
  /\ status = [d \in Devices |-> status[d]] /\ since \in [Devices -> Int] /\ CacheFits
  /\ \A c \in Calls : /\ AskFits(call[c].asked, clock, status, since)
                      /\ HeldFits(call[c].dir, clock, status, since)

\* Statuses that changed changed now.
Turned(now, st, si, su, sj) ==
  \A d \in Devices : /\ si[d] \in Int /\ sj[d] \in Int
                     /\ (su[d] = st[d] /\ sj[d] = si[d]) \/ sj[d] >= now

LEMMA ReflectsStays ==
  ASSUME NEW u, NEW devs, NEW t \in Int, NEW v \in Int, v <= t, NEW now \in Int, t <= now,
         NEW st, NEW si, NEW su, NEW sj, Turned(now, st, si, su, sj),
         Reflects(u, devs, t, st, si)
  PROVE  Reflects(u, devs, v, su, sj)
  BY DEF Reflects, Turned

LEMMA TurnedNot ==
  ASSUME NEW now, NEW st, NEW si, si \in [Devices -> Int]
  PROVE  Turned(now, st, si, st, si)
  BY DEF Turned

LEMMA EntryStays ==
  ASSUME NEW e, NEW now \in Nat, NEW later \in Nat, now <= later,
         NEW st, NEW si, NEW su, NEW sj, Turned(now, st, si, su, sj),
         EntryFits(e, now, st, si)
  PROVE  EntryFits(e, later, su, sj)
<1>1. e.at \in 0..now /\ RpcTimeout \in Nat BY DirectoryAssumption DEF EntryFits
<1>2. e.at \in 0..later /\ e.at - RpcTimeout \in Int /\ e.at - RpcTimeout <= now BY <1>1
<1> QED BY <1>2, ReflectsStays DEF EntryFits

LEMMA AskStays ==
  ASSUME NEW a, NEW now \in Nat, NEW later \in Nat, now <= later,
         NEW st, NEW si, NEW su, NEW sj, Turned(now, st, si, su, sj),
         AskFits(a, now, st, si)
  PROVE  AskFits(a, later, su, sj)
<1> SUFFICES ASSUME a # None PROVE AskFits(a, later, su, sj) BY DEF AskFits
<1>1. a.at \in 0..now /\ a.at \in 0..later /\ a.at \in Int /\ a.at <= now BY DEF AskFits
<1>2. a.devs # None => Reflects(a.user, a.devs, a.at, su, sj)
  BY <1>1, ReflectsStays DEF AskFits
<1> QED BY <1>1, <1>2 DEF AskFits

LEMMA HeldStays ==
  ASSUME NEW dir, NEW now \in Nat, NEW later \in Nat, now <= later,
         NEW st, NEW si, NEW su, NEW sj, Turned(now, st, si, su, sj),
         HeldFits(dir, now, st, si)
  PROVE  HeldFits(dir, later, su, sj)
<1> SUFFICES ASSUME NEW u \in DOMAIN dir
             PROVE  /\ dir[u].at \in 0..later
                    /\ Reflects(u, dir[u].devs, dir[u].at - Ttl - RpcTimeout, su, sj)
  BY DEF HeldFits
<1> DEFINE t == dir[u].at - Ttl - RpcTimeout
<1>1. dir[u].at \in 0..now /\ RpcTimeout \in Nat /\ Ttl \in Nat
  BY DirectoryAssumption DEF HeldFits
<1>2. dir[u].at \in 0..later /\ t \in Int /\ t <= now BY <1>1
<1>3. Reflects(u, dir[u].devs, t, st, si) BY DEF HeldFits
<1> HIDE DEF t
<1>4. Reflects(u, dir[u].devs, t, su, sj) BY <1>2, <1>3, ReflectsStays
<1> QED BY <1>2, <1>4 DEF t

LEMMA SnapshotReflects ==
  ASSUME NEW u, NEW t
  PROVE  Reflects(u, Snapshot(u), t, status, since)
<1>1. DOMAIN Snapshot(u) = {e \in Devices : Owner[e] = u /\ status[e] # "Absent"}
  BY DEF Snapshot
<1>2. \A d \in DOMAIN Snapshot(u) : Snapshot(u)[d] = status[d] BY DEF Snapshot
<1> HIDE DEF Snapshot
<1> QED BY <1>1, <1>2 DEF Reflects

\* The cache without an entry, and with one more.
LEMMA RemoveAtIs ==
  ASSUME NEW S, NEW s \in Seq(S), NEW i \in 1..Len(s)
  PROVE  RemoveAt(s, i) \in Seq(S) /\ Len(RemoveAt(s, i)) = Len(s) - 1
<1> DEFINE n == Len(s)
           a == SubSeq(s, 1, i - 1)
           b == SubSeq(s, i + 1, n)
<1>1. n \in Nat /\ i \in 1..n /\ \A j \in 1..n : s[j] \in S OBVIOUS
<1>2. a \in Seq(S) /\ Len(a) = i - 1 BY <1>1
<1>3. b \in Seq(S) /\ Len(b) = n - i BY <1>1
<1>4. RemoveAt(s, i) = a \o b BY DEF RemoveAt
<1> HIDE DEF a, b
<1>5. a \o b \in Seq(S) /\ Len(a \o b) = Len(a) + Len(b) BY <1>2, <1>3
<1> QED BY <1>1, <1>2, <1>3, <1>4, <1>5

LEMMA FrontIs ==
  ASSUME NEW S, NEW s \in Seq(S), Len(s) > 0
  PROVE  Front(s) \in Seq(S) /\ Len(Front(s)) = Len(s) - 1
<1> DEFINE n == Len(s)
           m == n - 1
<1>1. n \in Nat /\ m \in 0..n /\ \A j \in 1..n : s[j] \in S OBVIOUS
<1>2. Front(s) = SubSeq(s, 1, m) BY DEF Front
<1> HIDE DEF m
<1>3. SubSeq(s, 1, m) \in Seq(S) /\ Len(SubSeq(s, 1, m)) = m BY <1>1
<1> QED BY <1>2, <1>3 DEF m

LEMMA WithoutIs ==
  ASSUME NEW S, cache \in Seq(S), NEW u
  PROVE  /\ Without(u) \in Seq(S) /\ Len(Without(u)) <= Len(cache)
         /\ Held(u) # {} => Len(Without(u)) = Len(cache) - 1
<1>1. CASE Held(u) = {} BY <1>1 DEF Without
<1>2. CASE Held(u) # {}
  <2> DEFINE i == CHOOSE j \in Held(u) : TRUE
  <2>1. i \in 1..Len(cache) BY <1>2 DEF Held
  <2>2. Without(u) = RemoveAt(cache, i) BY <1>2 DEF Without
  <2> HIDE DEF i
  <2>3. Without(u) \in Seq(S) /\ Len(Without(u)) = Len(cache) - 1 /\ Len(cache) \in Nat
    BY <2>1, <2>2, RemoveAtIs
  <2> QED BY <2>3
<1> QED BY <1>1, <1>2

LEMMA EntryIs ==
  ASSUME NEW S, cache \in Seq(S), NEW u, Held(u) # {}
  PROVE  Entry(u) \in S /\ Entry(u).user = u /\ Len(cache) > 0
<1> DEFINE i == CHOOSE j \in Held(u) : TRUE
<1>1. i \in Held(u) OBVIOUS
<1>2. i \in 1..Len(cache) /\ cache[i].user = u /\ Entry(u) = cache[i] BY <1>1 DEF Held, Entry
<1> HIDE DEF i
<1>3. cache[i] \in S BY <1>2
<1> QED BY <1>2, <1>3

LEMMA PushIs ==
  ASSUME NEW S, NEW e, NEW s \in Seq(S)
  PROVE  <<e>> \o s \in Seq(S \cup {e}) /\ Len(<<e>> \o s) = Len(s) + 1
<1>1. <<e>> \in Seq(S \cup {e}) /\ Len(<<e>>) = 1 /\ s \in Seq(S \cup {e}) OBVIOUS
<1> DEFINE a == <<e>>
<1> HIDE DEF a
<1>2. a \o s \in Seq(S \cup {e}) /\ Len(a \o s) = 1 + Len(s) BY <1>1 DEF a
<1> QED BY <1>2 DEF a

\* A step that has nothing to do with the directory.
Afar ==
  /\ UNCHANGED dirVars /\ (clock' = clock \/ clock' = clock + 1)
  /\ \A c \in Calls : \/ call'[c].asked = call[c].asked /\ call'[c].dir = call[c].dir
                      \/ call'[c].asked = None /\ call'[c].dir = <<>>

LEMMA ArrivalAfar ==
  ASSUME NEW c \in Calls, NEW r \in Request, Arrival(c, r)
  PROVE  call'[c].asked = None /\ call'[c].dir = <<>>
  BY DEF Arrival, ConversationCall, PoolCall, StatusCall, UpdateCall, PresenceCall, Refused,
         ConversationArrival, DirectRequest, GroupRequest, ChangeRequest, ViewRequest, ListRequest,
         Converses, Pending, StatusRequest, PresenceRequest, Accepted, Fresh

LEMMA StepDirectory ==
  ASSUME Fits, [Next]_vars
  PROVE  \/ Afar
         \/ \E d \in Devices : DeviceChanges(d)
         \/ \E c \in Calls : DirectoryMove(c)
<1>1. ASSUME NEW c \in Calls, NEW r, Arrival(c, r)
      PROVE  Afar
  <2>1. r \in Request /\ Arrived(c, r) /\ UNCHANGED dirVars
    BY <1>1, FitsAfterArrival, ArrivalIs
  <2>2. (\A d \in Calls : d # c => Same(call[d], call'[d])) /\ clock' = clock
    BY <2>1 DEF Arrived, Apart
  <2>3. \A d \in Calls : d # c => call'[d].asked = call[d].asked /\ call'[d].dir = call[d].dir
    BY <2>2 DEF Same
  <2> QED BY <1>1, <2>1, <2>2, <2>3, ArrivalAfar DEF Afar
<1>2. ASSUME NEW c \in Calls, Move(c), ~DirectoryMove(c)
      PROVE  Afar
  <2>1. Goings(c) /\ CallFits(call[c]) BY <1>2, FitsAfterMove DEF Fits
  <2>2. (\A d \in Calls : d # c => call'[d] = call[d]) /\ clock' = clock BY <2>1 DEF Goings
  <2>3. UNCHANGED dirVars /\ call'[c].asked = call[c].asked /\ call'[c].dir = call[c].dir
    <3>1. CASE ConversationMove(c) /\ UNCHANGED <<dirVars, taskVars, serviceVars>>
      BY <3>1 DEF ConversationMove, Inner
    <3>2. CASE TaskMove(c)
      <4>1. UNCHANGED dirVars
        BY <3>2 DEF TaskMove, SubmitAuthorised, SubmitNamed, SubmitNumbered, SubmitStored,
             SyncAuthorised, SyncPlaced, SyncReadPrevious, SyncReadCurrent,
             CursorRead, CursorChecked, CursorSaved
      <4>2. PICK S : Steps(c, S) /\ "asked" \notin S /\ "dir" \notin S
        BY <3>2 DEF TaskMove, SubmitAuthorised, SubmitNamed, SubmitNumbered, SubmitStored,
             SyncAuthorised, SyncPlaced, SyncReadPrevious, SyncReadCurrent,
             CursorRead, CursorChecked, CursorSaved
      <4> QED BY <4>1, <4>2, OnlyFields DEF Steps
    <3>3. CASE HandlerMove(c)
      <4>1. UNCHANGED dirVars
        BY <3>3 DEF HandlerMove, Submitted, Answered, TimedOut, Delivered, tables
      <4>2. PICK S : Steps(c, S) /\ "asked" \notin S /\ "dir" \notin S
        BY <3>3 DEF HandlerMove, Submitted, Answered, TimedOut, Delivered
      <4> QED BY <4>1, <4>2, OnlyFields DEF Steps
    <3>4. CASE PresenceMove(c)
      <4>1. UNCHANGED dirVars BY <3>4 DEF PresenceMove, OverrideSet, PresenceShown, tables
      <4>2. PICK S : Steps(c, S) /\ "asked" \notin S /\ "dir" \notin S
        BY <3>4 DEF PresenceMove, OverrideSet, PresenceShown
      <4> QED BY <4>1, <4>2, OnlyFields DEF Steps
    <3> QED BY <1>2, <3>1, <3>2, <3>3, <3>4 DEF Move
  <2> QED BY <2>2, <2>3 DEF Afar
<1>3. ASSUME NEW p \in Pools, Started(p)
      PROVE  Afar
  <2> DEFINE c == Head(queue[p])
  <2>1. /\ Only({"task"}, call[c], call'[c]) /\ UNCHANGED dirVars /\ clock' = clock
        /\ \A d \in Calls : d # c => call'[d] = call[d]
    BY <1>3 DEF Started, Steps, tables
  <2>2. call'[c].asked = call[c].asked /\ call'[c].dir = call[c].dir BY <2>1, OnlyFields
  <2> QED BY <2>1, <2>2 DEF Afar
<1>4. ASSUME Ambient, \A d \in Devices : ~DeviceChanges(d)
      PROVE  Afar
  <2>1. call' = call BY <1>4, AmbientIs
  <2>2. UNCHANGED dirVars /\ (clock' = clock \/ clock' = clock + 1)
    BY <1>4 DEF Ambient, MonthTurns, Tick, StopRequested, ServerShutdown,
                DrainAndStop, vars, callVars, tables
  <2> QED BY <2>1, <2>2 DEF Afar
<1>5. CASE \E c \in Calls, r \in load.requests : Arrival(c, r) BY <1>1, <1>5
<1>6. CASE \E c \in Calls : Move(c) BY <1>2, <1>6
<1> QED BY <1>3, <1>4, <1>5, <1>6, StepKinds

LEMMA CacheStays ==
  ASSUME CacheFits, cache' = cache, clock \in Nat, clock' \in Nat, clock <= clock',
         Turned(clock, status, since, status', since')
  PROVE  CacheFits'
<1>1. PICK S : cache \in Seq(S) /\ \A e \in S : EntryFits(e, clock, status, since)
  BY DEF CacheFits
<1>2. \A e \in S : EntryFits(e, clock', status', since') BY <1>1, EntryStays
<1>3. \E T : cache' \in Seq(T) /\ \A e \in T : EntryFits(e, clock', status', since')
  BY <1>1, <1>2
<1> QED BY <1>3 DEF CacheFits

LEMMA CacheDrops ==
  ASSUME CacheFits, UNCHANGED <<clock, status, since>>, NEW u, cache' = Without(u)
  PROVE  CacheFits'
<1>1. PICK S : cache \in Seq(S) /\ \A e \in S : EntryFits(e, clock, status, since)
  BY DEF CacheFits
<1>2. /\ cache' \in Seq(S) /\ Len(cache') <= Len(cache) /\ Len(cache') \in Nat
      /\ Len(cache) \in Nat
  BY <1>1, WithoutIs
<1>3. \E T : cache' \in Seq(T) /\ \A e \in T : EntryFits(e, clock', status', since')
  BY <1>1, <1>2
<1>4. Len(cache') <= CacheCapacity BY <1>2, DirectoryAssumption DEF CacheFits
<1> QED BY <1>3, <1>4 DEF CacheFits

LEMMA CacheGets ==
  ASSUME CacheFits, UNCHANGED <<clock, status, since>>, NEW u, Held(u) # {}, cache' = GetCached(u)
  PROVE  CacheFits' /\ EntryFits(Entry(u), clock, status, since) /\ Entry(u).user = u
<1>1. PICK S : cache \in Seq(S) /\ \A e \in S : EntryFits(e, clock, status, since)
  BY DEF CacheFits
<1>2. /\ Without(u) \in Seq(S) /\ Len(Without(u)) = Len(cache) - 1 /\ Len(cache) \in Nat
      /\ Entry(u) \in S /\ Entry(u).user = u
  BY <1>1, WithoutIs, EntryIs
<1> DEFINE s == <<Entry(u)>> \o Without(u)
<1>3. s \in Seq(S \cup {Entry(u)}) /\ Len(s) = Len(Without(u)) + 1 /\ cache' = s
  BY <1>2, PushIs DEF GetCached
<1> HIDE DEF s
<1>4. S \cup {Entry(u)} = S BY <1>2
<1>5. \E T : cache' \in Seq(T) /\ \A e \in T : EntryFits(e, clock', status', since')
  BY <1>1, <1>3, <1>4
<1>6. Len(cache') <= CacheCapacity BY <1>2, <1>3 DEF CacheFits
<1> QED BY <1>1, <1>2, <1>5, <1>6 DEF CacheFits

LEMMA CachePuts ==
  ASSUME CacheFits, UNCHANGED <<clock, status, since>>, clock \in Nat, NEW u, NEW devs,
         Reflects(u, devs, clock - RpcTimeout, status, since), cache' = PutCached(u, devs)
  PROVE  CacheFits'
<1>1. PICK S : cache \in Seq(S) /\ \A e \in S : EntryFits(e, clock, status, since)
  BY DEF CacheFits
<1> DEFINE f == [user |-> u, devs |-> devs, at |-> clock]
           room == IF Held(u) = {} /\ Len(cache) >= CacheCapacity THEN Front(cache) ELSE Without(u)
           s == <<f>> \o room
<1>2. f.user = u /\ f.devs = devs /\ f.at = clock /\ cache' = s BY DEF PutCached
<1> HIDE DEF f
<1>3. EntryFits(f, clock, status, since) BY <1>2 DEF EntryFits
<1>4. Len(cache) \in Nat /\ CacheCapacity \in Nat /\ CacheCapacity > 0 /\ Len(cache) <= CacheCapacity
  BY <1>1, DirectoryAssumption DEF CacheFits
<1>5. room \in Seq(S) /\ Len(room) < CacheCapacity
  <2>1. CASE Held(u) = {} /\ Len(cache) >= CacheCapacity BY <1>1, <1>4, <2>1, FrontIs
  <2>2. CASE Held(u) # {}
    <3>1. Without(u) \in Seq(S) /\ Len(Without(u)) = Len(cache) - 1 BY <1>1, <2>2, WithoutIs
    <3> QED BY <1>4, <2>2, <3>1
  <2>3. CASE Held(u) = {} /\ ~(Len(cache) >= CacheCapacity) BY <1>1, <1>4, <2>3 DEF Without
  <2> QED BY <2>1, <2>2, <2>3
<1> HIDE DEF room
<1>6. s \in Seq(S \cup {f}) /\ Len(s) = Len(room) + 1 BY <1>5, PushIs
<1> HIDE DEF s
<1>7. \A e \in S \cup {f} : EntryFits(e, clock', status', since') BY <1>1, <1>3
<1>8. \E T : cache' \in Seq(T) /\ \A e \in T : EntryFits(e, clock', status', since')
  BY <1>2, <1>6, <1>7
<1>9. Len(cache') <= CacheCapacity
  <2>1. Len(room) \in Nat BY <1>5
  <2> QED BY <1>2, <1>4, <1>5, <1>6, <2>1
<1> QED BY <1>8, <1>9 DEF CacheFits

\* The directory of a task with an entry more.
LEMMA ExtendedFits ==
  ASSUME NEW dir, NEW now \in Nat, NEW u, NEW devs, NEW st, NEW si, HeldFits(dir, now, st, si),
         Reflects(u, devs, now - Ttl - RpcTimeout, st, si)
  PROVE  HeldFits(Extended(dir, u, [devs |-> devs, at |-> now]), now, st, si)
<1> DEFINE f == [devs |-> devs, at |-> now]
           h == Extended(dir, u, f)
<1>1. f.devs = devs /\ f.at = now OBVIOUS
<1> HIDE DEF f
<1>2. /\ DOMAIN h = DOMAIN dir \cup {u} /\ h[u] = f
      /\ \A v \in DOMAIN h : v # u => v \in DOMAIN dir /\ h[v] = dir[v]
  BY DEF Extended
<1> HIDE DEF h
<1>3. ASSUME NEW v \in DOMAIN h
      PROVE  h[v].at \in 0..now /\ Reflects(v, h[v].devs, h[v].at - Ttl - RpcTimeout, st, si)
  <2>1. CASE v = u BY <1>1, <1>2, <2>1
  <2>2. CASE v # u BY <1>2, <2>2 DEF HeldFits
  <2> QED BY <2>1, <2>2
<1>4. HeldFits(h, now, st, si) BY <1>3 DEF HeldFits
<1> QED BY <1>4 DEF h, f

\* A call after it got the devices of u.
LEMMA ResolvedReflects ==
  ASSUME DirFits, NEW c \in Calls, NEW u, NEW devs, clock \in Nat,
         Reflects(u, devs, clock - RpcTimeout, status, since),
         DeviceResolved(c) \/ UserResolved(c, u, devs)
  PROVE  /\ AskFits(call'[c].asked, clock, status, since)
         /\ HeldFits(call'[c].dir, clock, status, since)
         /\ clock' = clock /\ \A d \in Calls : d # c => call'[d] = call[d]
<1>1. call'[c].asked = None /\ clock' = clock /\ \A d \in Calls : d # c => call'[d] = call[d]
  BY DEF DeviceResolved, UserResolved, Steps
<1>2. HeldFits(call[c].dir, clock, status, since) BY DEF DirFits
<1>3. HeldFits(call'[c].dir, clock, status, since)
  <2>1. CASE DeviceResolved(c)
    <3>1. call'[c].dir = call[c].dir BY <2>1, OnlyFields DEF DeviceResolved, Steps
    <3> QED BY <1>2, <3>1
  <2>2. CASE UserResolved(c, u, devs)
    <3>1. call'[c].dir = Extended(call[c].dir, u, [devs |-> devs, at |-> clock])
      BY <2>2 DEF UserResolved
    <3> DEFINE t == clock - RpcTimeout
               v == clock - Ttl - RpcTimeout
    <3>2. t \in Int /\ v \in Int /\ v <= t /\ t <= clock /\ clock \in Int
      BY DirectoryAssumption
    <3>3. Turned(clock, status, since, status, since) BY TurnedNot DEF DirFits
    <3>4. Reflects(u, devs, t, status, since) OBVIOUS
    <3> HIDE DEF t, v
    <3>5. Reflects(u, devs, v, status, since) BY <3>2, <3>3, <3>4, ReflectsStays
    <3> QED BY <1>2, <3>1, <3>5, ExtendedFits DEF v
  <2> QED BY <2>1, <2>2
<1> QED BY <1>1, <1>3 DEF AskFits

LEMMA DirAfterCall ==
  ASSUME DirFits, NEW c \in Calls, UNCHANGED <<clock, status, since>>, CacheFits',
         \A d \in Calls : d # c => call'[d] = call[d],
         AskFits(call'[c].asked, clock, status, since),
         HeldFits(call'[c].dir, clock, status, since)
  PROVE  DirFits'
<1>1. ASSUME NEW d \in Calls
      PROVE  /\ AskFits(call'[d].asked, clock', status', since')
             /\ HeldFits(call'[d].dir, clock', status', since')
  <2>1. CASE d = c BY <2>1
  <2>2. CASE d # c BY <2>2 DEF DirFits
  <2> QED BY <2>1, <2>2
<1>2. status' = [d \in Devices |-> status'[d]] /\ since' \in [Devices -> Int] BY DEF DirFits
<1> QED BY <1>1, <1>2 DEF DirFits

LEMMA DirFitsMove ==
  ASSUME Fits, DirFits, NEW c \in Calls, DirectoryMove(c)
  PROVE  DirFits'
<1> DEFINE x == call[c]
           y == call'[c]
<1>0. /\ clock \in Nat /\ CacheFits /\ AskFits(x.asked, clock, status, since)
      /\ HeldFits(x.dir, clock, status, since) /\ since \in [Devices -> Int]
      /\ Turned(clock, status, since, status, since) /\ RpcTimeout \in Nat /\ Ttl \in Nat
  BY TurnedNot, DirectoryAssumption DEF Fits, BoundsFit, DirFits
<1>1. CASE Hits(c)
  <2> DEFINE u == UserOf(c)
  <2>1. /\ Valid(u) /\ cache' = GetCached(u) /\ UNCHANGED <<status, since>>
        /\ DeviceResolved(c) \/ UserResolved(c, u, Entry(u).devs)
    BY <1>1 DEF Hits
  <2>2. clock' = clock BY <2>1 DEF DeviceResolved, UserResolved, Steps
  <2>3. Held(u) # {} /\ clock - Entry(u).at <= Ttl BY <2>1 DEF Valid
  <2> HIDE DEF u
  <2>4. CacheFits' /\ EntryFits(Entry(u), clock, status, since) /\ Entry(u).user = u
    BY <1>0, <2>1, <2>2, <2>3, CacheGets
  <2>5. CASE DeviceResolved(c)
    <3>1. Only({"asked", "pc", "todo", "answer"}, x, y) /\ y.asked = None
          /\ \A d \in Calls : d # c => call'[d] = call[d]
      BY <2>5 DEF DeviceResolved, Steps
    <3>2. y.dir = x.dir BY <3>1, OnlyFields
    <3>3. AskFits(y.asked, clock, status, since) BY <3>1 DEF AskFits
    <3> QED BY <1>0, <2>1, <2>2, <2>4, <3>1, <3>2, <3>3, DirAfterCall
  <2>6. CASE UserResolved(c, u, Entry(u).devs)
    <3>1. /\ y.asked = None /\ \A d \in Calls : d # c => call'[d] = call[d]
          /\ y.dir = Extended(x.dir, u, [devs |-> Entry(u).devs, at |-> clock])
      BY <2>6 DEF UserResolved, Steps
    <3> DEFINE t == Entry(u).at - RpcTimeout
               v == clock - Ttl - RpcTimeout
    <3>2. t \in Int /\ v \in Int /\ v <= t /\ t <= clock /\ clock \in Int
      BY <1>0, <2>3, <2>4 DEF EntryFits
    <3>3. Reflects(u, Entry(u).devs, t, status, since) BY <2>4 DEF EntryFits
    <3> HIDE DEF t, v
    <3>4. Reflects(u, Entry(u).devs, v, status, since) BY <1>0, <3>2, <3>3, ReflectsStays
    <3>5. HeldFits(y.dir, clock, status, since) BY <1>0, <3>1, <3>4, ExtendedFits DEF v
    <3>6. AskFits(y.asked, clock, status, since) BY <3>1 DEF AskFits
    <3> QED BY <2>1, <2>2, <2>4, <3>1, <3>5, <3>6, DirAfterCall
  <2> QED BY <2>1, <2>5, <2>6
<1>2. CASE Asks(c)
  <2> DEFINE u == UserOf(c)
             a == [user |-> u, at |-> clock, devs |-> None]
  <2>1. /\ cache' = Without(u) /\ UNCHANGED <<clock, status, since>> /\ y.asked = a
        /\ Only({"asked"}, x, y) /\ \A d \in Calls : d # c => call'[d] = call[d]
    BY <1>2 DEF Asks, Steps
  <2>2. a = [user |-> a.user, at |-> a.at, devs |-> a.devs] /\ a.at = clock /\ a.devs = None
    OBVIOUS
  <2> HIDE DEF a, u
  <2>3. AskFits(y.asked, clock, status, since) BY <1>0, <2>1, <2>2 DEF AskFits
  <2>4. y.dir = x.dir BY <2>1, OnlyFields
  <2> QED BY <1>0, <2>1, <2>3, <2>4, CacheDrops, DirAfterCall
<1>3. CASE Reads(c)
  <2> DEFINE a == x.asked
             s == Snapshot(a.user)
             b == [a EXCEPT !.devs = s]
  <2>1. /\ UNCHANGED <<clock, status, since, cache>> /\ a # None /\ y.asked = b
        /\ Only({"asked"}, x, y) /\ \A d \in Calls : d # c => call'[d] = call[d]
    BY <1>3 DEF Reads, Steps, dirVars
  <2>2. a = [user |-> a.user, at |-> a.at, devs |-> a.devs] /\ a.at \in 0..clock
    BY <1>0, <2>1 DEF AskFits
  <2>3. Reflects(a.user, s, a.at, status, since) BY SnapshotReflects
  <2> HIDE DEF s
  <2>4. /\ b = [user |-> b.user, at |-> b.at, devs |-> b.devs]
        /\ b.at = a.at /\ b.user = a.user /\ b.devs = s
    <3> HIDE DEF a
    <3> QED BY <2>2
  <2> HIDE DEF b
  <2>5. AskFits(y.asked, clock, status, since) BY <2>1, <2>2, <2>3, <2>4 DEF AskFits
  <2>6. y.dir = x.dir BY <2>1, OnlyFields
  <2>7. CacheFits' BY <1>0, <2>1, CacheStays
  <2> QED BY <1>0, <2>1, <2>5, <2>6, <2>7, DirAfterCall
<1>4. CASE Receives(c)
  <2> DEFINE a == x.asked
             t == clock - RpcTimeout
  <2>1. /\ a # None /\ a.devs # None /\ clock <= a.at + RpcTimeout
        /\ cache' = PutCached(a.user, a.devs) /\ UNCHANGED <<status, since>>
        /\ DeviceResolved(c) \/ UserResolved(c, a.user, a.devs)
    BY <1>4 DEF Receives
  <2>2. a.at \in 0..clock /\ Reflects(a.user, a.devs, a.at, status, since)
    BY <1>0, <2>1 DEF AskFits
  <2>3. t \in Int /\ t <= a.at /\ a.at \in Int /\ a.at <= clock /\ clock \in Int
    BY <1>0, <2>1, <2>2
  <2> HIDE DEF t
  <2>4. Reflects(a.user, a.devs, t, status, since) BY <1>0, <2>2, <2>3, ReflectsStays
  <2>5. /\ AskFits(y.asked, clock, status, since) /\ HeldFits(y.dir, clock, status, since)
        /\ clock' = clock /\ \A d \in Calls : d # c => call'[d] = call[d]
    BY <1>0, <2>1, <2>4, ResolvedReflects DEF t
  <2>6. CacheFits' BY <1>0, <2>1, <2>4, <2>5, CachePuts DEF t
  <2> QED BY <2>1, <2>5, <2>6, DirAfterCall
<1>5. CASE GivesUp(c)
  <2>1. Unanswered(c) /\ UNCHANGED <<status, since, cache>> BY <1>5 DEF GivesUp, dirVars
  <2>2. PICK S : Steps(c, S) /\ "dir" \notin S BY <2>1 DEF Unanswered
  <2>3. y.dir = x.dir /\ clock' = clock /\ \A d \in Calls : d # c => call'[d] = call[d]
    BY <2>2, OnlyFields DEF Steps
  <2>4. y.asked = None BY <2>1 DEF Unanswered
  <2>5. AskFits(y.asked, clock, status, since) BY <2>4 DEF AskFits
  <2>6. CacheFits' BY <1>0, <2>1, <2>3, CacheStays
  <2> QED BY <1>0, <2>1, <2>3, <2>5, <2>6, DirAfterCall
<1> QED BY <1>1, <1>2, <1>3, <1>4, <1>5 DEF DirectoryMove

LEMMA DirFitsNext ==
  ASSUME Fits, DirFits, [Next]_vars
  PROVE  DirFits'
<1>0. clock \in Nat /\ since \in [Devices -> Int] BY DEF Fits, BoundsFit, DirFits
<1>1. ASSUME clock' \in Nat, clock <= clock', cache' = cache,
             Turned(clock, status, since, status', since'),
             status' = [d \in Devices |-> status'[d]], since' \in [Devices -> Int],
             \A c \in Calls : \/ call'[c].asked = call[c].asked /\ call'[c].dir = call[c].dir
                              \/ call'[c].asked = None /\ call'[c].dir = <<>>
      PROVE  DirFits'
  <2>1. CacheFits' BY <1>0, <1>1, CacheStays DEF DirFits
  <2>2. ASSUME NEW c \in Calls
        PROVE  /\ AskFits(call'[c].asked, clock', status', since')
               /\ HeldFits(call'[c].dir, clock', status', since')
    <3>1. CASE call'[c].asked = call[c].asked /\ call'[c].dir = call[c].dir
      BY <1>0, <1>1, <3>1, AskStays, HeldStays DEF DirFits
    <3>2. CASE call'[c].asked = None /\ call'[c].dir = <<>> BY <3>2 DEF AskFits, HeldFits
    <3> QED BY <1>1, <3>1, <3>2
  <2> QED BY <1>1, <2>1, <2>2 DEF DirFits
<1>2. CASE Afar
  <2>1. UNCHANGED <<status, since, cache>> /\ clock' \in Nat /\ clock <= clock'
    BY <1>0, <1>2 DEF Afar, dirVars
  <2>2. /\ Turned(clock, status, since, status', since')
        /\ status' = [d \in Devices |-> status'[d]] /\ since' \in [Devices -> Int]
    BY <1>0, <2>1, TurnedNot DEF DirFits
  <2> QED BY <1>1, <1>2, <2>1, <2>2 DEF Afar
<1>3. ASSUME NEW d \in Devices, DeviceChanges(d)
      PROVE  DirFits'
  <2> DEFINE s == IF status[d] = "Absent" THEN "Active" ELSE "Revoked"
  <2>1. /\ status' = [status EXCEPT ![d] = s] /\ since' = [since EXCEPT ![d] = clock]
        /\ UNCHANGED <<cache, clock, call>>
    BY <1>3 DEF DeviceChanges, callVars
  <2>2. status = [e \in Devices |-> status[e]] BY DEF DirFits
  <2> HIDE DEF s
  <2>3. status' = [e \in Devices |-> status'[e]] /\ since' \in [Devices -> Int]
    BY <1>0, <2>1, <2>2
  <2>4. \A e \in Devices : /\ e # d => status'[e] = status[e] /\ since'[e] = since[e]
                           /\ e = d => since'[e] = clock
    BY <1>0, <2>1, <2>2
  <2>5. Turned(clock, status, since, status', since') BY <1>0, <2>3, <2>4 DEF Turned
  <2> QED BY <1>0, <1>1, <2>1, <2>3, <2>5
<1> QED BY <1>2, <1>3, DirFitsMove, StepDirectory

LEMMA DirFitsInit == Init => DirFits
<1> SUFFICES ASSUME Init PROVE DirFits OBVIOUS
<1>1. /\ status = [d \in Devices |-> IF d \in Enrolled THEN "Active" ELSE "Absent"]
      /\ since = [d \in Devices |-> -(Ttl + RpcTimeout + 1)] /\ cache = <<>>
  BY DEF Init, DirectoryInit
<1>2. status = [d \in Devices |-> status[d]] /\ since \in [Devices -> Int]
  BY <1>1, DirectoryAssumption
<1>3. \A c \in Calls : call[c].asked = None /\ call[c].dir = <<>> BY TablesInit DEF Unused
<1>4. cache \in Seq({}) /\ Len(cache) = 0 BY <1>1
<1>5. CacheFits BY <1>4, DirectoryAssumption DEF CacheFits
<1>6. \A c \in Calls : /\ AskFits(call[c].asked, clock, status, since)
                       /\ HeldFits(call[c].dir, clock, status, since)
  BY <1>3 DEF AskFits, HeldFits
<1> QED BY <1>2, <1>5, <1>6 DEF DirFits

\* A message that has got its number has passed the check of its targets.
Passed(x) ==
  /\ x.req.rpc = "SendMessage"
  /\ x.task = "save" \/ (x.task = "finished" /\ x.res = "OK")
Checked == \A c \in Calls : Passed(call[c]) => TargetsActive(call[c].req, call[c].dir) = "OK"

LEMMA CheckedNext ==
  ASSUME Fits, Idles, Checked, [Next]_vars
  PROVE  Checked'
<1>1. CASE Background
  <2> SUFFICES ASSUME NEW c \in Calls, Passed(call'[c])
               PROVE  TargetsActive(call'[c].req, call'[c].dir) = "OK"
    BY DEF Checked
  <2>1. Aside(call[c], call'[c]) BY <1>1 DEF Background
  <2>2. PoolOf(call'[c].req) # "delivery" BY DEF Passed, PoolOf
  <2>3. call'[c].req = call[c].req /\ call'[c].dir = call[c].dir /\ Passed(call[c])
    BY <2>1, <2>2 DEF Passed, Aside, Failed
  <2> QED BY <2>3 DEF Checked
<1>2. ASSUME NEW c \in Calls, TaskStepOf(c)
      PROVE  Checked'
  <2> DEFINE x == call[c]
             y == call'[c]
  <2>1. \A d \in Calls : d # c => call'[d] = call[d] BY <1>2 DEF TaskStepOf
  <2>2. Passed(y) => TargetsActive(y.req, y.dir) = "OK"
    <3>1. CASE SubmitNumbered(c)
      <4>1. /\ Only({"task", "res", "seq", "month"}, x, y)
            /\ TargetsActive(x.req, x.dir) = "OK" \/ Failed(y)
        BY <3>1 DEF SubmitNumbered, Steps
      <4>2. y.req = x.req /\ y.dir = x.dir BY <4>1, OnlyFields
      <4> QED BY <4>1, <4>2 DEF Passed, Failed
    <3>2. CASE SubmitStored(c)
      <4>1. Only({"task", "res"}, x, y) /\ Passed(x) BY <3>2 DEF SubmitStored, Steps, Passed
      <4>2. y.req = x.req /\ y.dir = x.dir BY <4>1, OnlyFields
      <4> QED BY <4>1, <4>2 DEF Checked
    <3>3. CASE SubmitAuthorised(c) \/ SubmitNamed(c)
      BY <3>3 DEF SubmitAuthorised, SubmitNamed, Passed, Failed
    <3>4. CASE \/ SyncAuthorised(c) \/ SyncPlaced(c) \/ SyncReadPrevious(c) \/ SyncReadCurrent(c)
               \/ CursorRead(c) \/ CursorChecked(c) \/ CursorSaved(c)
      <4>1. x.req.rpc # "SendMessage" /\ \E S : Steps(c, S) /\ "req" \notin S
        BY <3>4 DEF SyncAuthorised, SyncPlaced, SyncReadPrevious, SyncReadCurrent, CursorRead,
                    CursorChecked, CursorSaved, SyncRpcs
      <4>2. y.req = x.req BY <4>1, OnlyFields DEF Steps
      <4> QED BY <4>1, <4>2 DEF Passed
    <3> QED BY <1>2, <3>1, <3>2, <3>3, <3>4 DEF TaskStepOf, TaskMove
  <2> QED BY <2>1, <2>2 DEF Checked
<1> QED BY <1>1, <1>2, StepTasks

LEMMA CheckedInit == Init => Checked
<1> SUFFICES ASSUME Init PROVE Checked OBVIOUS
<1>1. \A c \in Calls : call[c].task = "none" BY TablesInit DEF Unused
<1> QED BY <1>1 DEF Checked, Passed

LEMMA TargetsAre ==
  ASSUME NEW r, NEW dir, TargetsActive(r, dir) = "OK"
  PROVE  /\ \A t \in r.targets : \E u \in DOMAIN dir :
              t \in DOMAIN dir[u].devs /\ dir[Owner[t]].devs[t] = "Active"
         /\ \A u \in DOMAIN dir : \A d \in DOMAIN dir[u].devs :
              dir[Owner[d]].devs[d] = "Active" /\ d # SenderDevice(r) => d \in r.targets
<1> DEFINE known == UNION {DOMAIN dir[u].devs : u \in DOMAIN dir}
           active == {e \in known : dir[Owner[e]].devs[e] = "Active"}
           a == Reject(~(r.targets \subseteq known), "INVALID_TARGET_DEVICE")
           b == Reject(~(r.targets \subseteq active), "DEVICE_REVOKED")
           f == Reject(SenderDevice(r) \in known \ active, "DEVICE_REVOKED")
           g == Reject(~(active \ {SenderDevice(r)} \subseteq r.targets), "INVALID_TARGET_DEVICE")
<1>1. FirstError(<<a, b, f, g>>) = "OK" BY DEF TargetsActive
<1> HIDE DEF a, b, f, g
<1>2. b = "OK" /\ g = "OK" BY <1>1, FirstErrorOf4
<1>3. r.targets \subseteq active /\ active \ {SenderDevice(r)} \subseteq r.targets
  BY <1>2 DEF b, g, Reject
<1> QED BY <1>3

LEMMA CheckedCurrent ==
  ASSUME DirFits, Checked
  PROVE  TargetsCurrent
<1> SUFFICES ASSUME NEW c \in Calls, Sent1(c), NEW u \in DOMAIN call[c].dir,
                    NEW d \in Devices, Owner[d] = u,
                    since[d] < call[c].dir[u].at - Ttl - RpcTimeout
             PROVE  /\ status[d] = "Revoked" => d \notin call[c].req.targets
                    /\ status[d] = "Active" /\ d # SenderDevice(call[c].req)
                         => d \in call[c].req.targets
  BY DEF TargetsCurrent
<1> DEFINE dir == call[c].dir
           r == call[c].req
<1>1. TargetsActive(r, dir) = "OK" BY DEF Checked, Passed, Sent1
<1>2. /\ \A t \in r.targets : \E v \in DOMAIN dir :
            t \in DOMAIN dir[v].devs /\ dir[Owner[t]].devs[t] = "Active"
      /\ \A v \in DOMAIN dir : \A e \in DOMAIN dir[v].devs :
            dir[Owner[e]].devs[e] = "Active" /\ e # SenderDevice(r) => e \in r.targets
  BY <1>1, TargetsAre
<1>3. HeldFits(dir, clock, status, since) BY DEF DirFits
<1>4. /\ d \in DOMAIN dir[u].devs <=> status[d] # "Absent"
      /\ d \in DOMAIN dir[u].devs => dir[u].devs[d] = status[d]
  BY <1>3 DEF HeldFits, Reflects
<1> HIDE DEF dir, r
<1> QED BY <1>2, <1>4 DEF dir, r

\* An accepted message names the devices as they were at most the life of a
\* cached answer and the timeout of a call before: an answer is cached for the
\* time it arrived, and it arrives in time or not at all.
THEOREM TargetsAreCurrent == Spec => []TargetsCurrent
<1>1. Init => Fits /\ Idles /\ DirFits /\ Checked
  BY FitsInit, KeptInit, DirFitsInit, CheckedInit
<1>2. /\ Fits /\ Idles /\ DirFits /\ Checked /\ [Next]_vars
      => (Fits /\ Idles /\ DirFits /\ Checked)'
  BY FitsNext, IdlesNext, DirFitsNext, CheckedNext
<1>3. DirFits /\ Checked => TargetsCurrent BY CheckedCurrent
<1> QED BY <1>1, <1>2, <1>3, PTL DEF Spec

-----------------------------------------------------------------------------
(***************************************************************************)
(* Sequence numbers                                                        *)
(***************************************************************************)

\* A bounded set of natural numbers that is not empty has a largest element.
LEMMA LargestOf ==
  ASSUME NEW S, S \subseteq Nat, S # {}, NEW n \in Nat, \A x \in S : x <= n
  PROVE  Max(S) \in S /\ \A x \in S : x <= Max(S)
<1> DEFINE B == {b \in Nat : \A x \in S : x <= b}
           m == Min(B)
<1>1. B \subseteq Nat /\ n \in B OBVIOUS
<1>2. m \in B /\ \A b \in B : m <= b
  <2> HIDE DEF B
  <2> QED BY <1>1, SmallestOf
<1>3. m \in Nat /\ \A x \in S : x <= m BY <1>2
<1> HIDE DEF m
<1>4. m \in S
  <2> SUFFICES ASSUME m \notin S PROVE FALSE OBVIOUS
  <2>1. PICK y \in S : TRUE OBVIOUS
  <2>2. m - 1 \in Nat /\ \A x \in S : x <= m - 1 BY <1>3, <2>1
  <2>3. m - 1 \in B BY <2>2
  <2>4. m <= m - 1 BY <1>2, <2>3
  <2> QED BY <1>3, <2>4
<1>5. \E x \in S : \A y \in S : x >= y BY <1>3, <1>4
<1>6. Max(S) \in S /\ \A y \in S : Max(S) >= y BY <1>5 DEF Max
<1> QED BY <1>6

MessageRows == [conv : Convs, month : 1..MaxMonth, seq : Nat \ {0}]

\* The number of a message is of its month, and the counter of that month, once
\* installed, has reached it, as it has for a message that is being written.
NumbersFit ==
  /\ stored \subseteq MessageRows /\ (\E n \in Nat : \A s \in stored : s.seq <= n)
  /\ counter \in [Convs -> [1..MaxMonth -> Nat \cup {None}]]
  /\ \A s \in stored :
       /\ s.month <= month
       /\ counter[s.conv][s.month] # None => s.seq <= counter[s.conv][s.month]
  /\ \A c \in Calls : call[c].task = "save" /\ call[c].req.rpc = "SendMessage" =>
       LET k == call[c].req.conv
           m == call[c].month
       IN /\ call[c].seq \in Nat \ {0} /\ m \in 1..month
          /\ counter[k][m] # None /\ call[c].seq <= counter[k][m]

LEMMA RowFields ==
  ASSUME NEW s \in MessageRows
  PROVE  s.conv \in Convs /\ s.month \in 1..MaxMonth /\ s.seq \in Nat /\ s.seq > 0
  BY DEF MessageRows

LEMMA RowsDiffer ==
  ASSUME NEW s \in MessageRows, NEW t \in MessageRows,
         s.conv = t.conv, s.month = t.month, s.seq = t.seq
  PROVE  s = t
  BY DEF MessageRows

\* The largest number of a month among the messages T.
LastIn(T, k, m) == Max({0} \cup {s.seq : s \in {t \in T : t.conv = k /\ t.month = m}})

LEMMA LastInIs ==
  ASSUME NEW T, T \subseteq MessageRows, \E n \in Nat : \A s \in T : s.seq <= n, NEW k, NEW m
  PROVE  /\ LastIn(T, k, m) \in Nat
         /\ \A s \in T : s.conv = k /\ s.month = m => s.seq <= LastIn(T, k, m)
         /\ \/ LastIn(T, k, m) = 0
            \/ \E s \in T : s.conv = k /\ s.month = m /\ s.seq = LastIn(T, k, m)
<1> DEFINE S == {0} \cup {s.seq : s \in {t \in T : t.conv = k /\ t.month = m}}
<1>1. PICK n \in Nat : \A s \in T : s.seq <= n OBVIOUS
<1>2. \A s \in T : s.seq \in Nat BY RowFields
<1>3. S \subseteq Nat /\ S # {} /\ \A x \in S : x <= n BY <1>1, <1>2
<1>4. LastIn(T, k, m) = Max(S) BY DEF LastIn
<1>5. LastIn(T, k, m) \in S /\ \A x \in S : x <= LastIn(T, k, m)
  <2> HIDE DEF S
  <2> QED BY <1>3, <1>4, LargestOf
<1> QED BY <1>3, <1>5

LEMMA LastIs ==
  ASSUME NumbersFit, NEW k, NEW m
  PROVE  /\ LastSequence(k, m) \in Nat
         /\ \A s \in stored : s.conv = k /\ s.month = m => s.seq <= LastSequence(k, m)
<1>1. LastSequence(k, m) = LastIn(stored, k, m) BY DEF LastSequence, LastIn
<1>2. stored \subseteq MessageRows /\ \E n \in Nat : \A s \in stored : s.seq <= n
  BY DEF NumbersFit
<1>3. /\ LastIn(stored, k, m) \in Nat
      /\ \A s \in stored : s.conv = k /\ s.month = m => s.seq <= LastIn(stored, k, m)
  BY <1>2, LastInIs
<1> QED BY <1>1, <1>3

LEMMA PeekIs ==
  ASSUME NumbersFit, NEW k \in Convs, NEW m \in 1..MaxMonth
  PROVE  /\ Peek(k, m) \in Nat
         /\ \A s \in stored : s.conv = k /\ s.month = m => s.seq <= Peek(k, m)
<1>1. /\ LastSequence(k, m) \in Nat
      /\ \A s \in stored : s.conv = k /\ s.month = m => s.seq <= LastSequence(k, m)
  BY LastIs
<1>2. CASE counter[k][m] = None BY <1>1, <1>2 DEF Peek
<1>3. CASE counter[k][m] # None BY <1>3 DEF Peek, NumbersFit
<1> QED BY <1>2, <1>3

\* What a step makes of the numbers.
PeeksGrow == \A k \in Convs, m \in 1..MaxMonth : Peek(k, m) <= Peek(k, m)'

LEMMA PeekGrows ==
  ASSUME NumbersFit, NumbersFit', stored \subseteq stored',
         \A k \in Convs, m \in 1..MaxMonth :
           \/ counter'[k][m] = counter[k][m]
           \/ counter'[k][m] # None /\ Peek(k, m) <= counter'[k][m]
  PROVE  PeeksGrow
<1> SUFFICES ASSUME NEW k \in Convs, NEW m \in 1..MaxMonth
             PROVE  Peek(k, m) <= Peek(k, m)'
  BY DEF PeeksGrow
<1>1. CASE counter'[k][m] # None /\ Peek(k, m) <= counter'[k][m] BY <1>1 DEF Peek
<1>2. CASE counter'[k][m] = counter[k][m] /\ counter[k][m] # None
  <2>1. Peek(k, m) = counter[k][m] /\ Peek(k, m)' = counter[k][m] /\ counter[k][m] \in Nat
    BY <1>2 DEF Peek, NumbersFit
  <2> QED BY <2>1
<1>3. CASE counter'[k][m] = counter[k][m] /\ counter[k][m] = None
  <2> DEFINE p == LastIn(stored, k, m)
             q == LastIn(stored', k, m)
  <2>1. Peek(k, m) = p /\ Peek(k, m)' = q BY <1>3 DEF Peek, LastSequence, LastIn
  <2>0. stored \subseteq MessageRows /\ \E n \in Nat : \A s \in stored : s.seq <= n
    BY DEF NumbersFit
  <2>2. p \in Nat /\ (p = 0 \/ \E s \in stored : s.conv = k /\ s.month = m /\ s.seq = p)
    BY <2>0, LastInIs
  <2>3. stored' \subseteq MessageRows /\ \E n \in Nat : \A s \in stored' : s.seq <= n
    BY DEF NumbersFit
  <2>4. q \in Nat /\ \A s \in stored' : s.conv = k /\ s.month = m => s.seq <= q
    BY <2>3, LastInIs
  <2> HIDE DEF p, q
  <2> QED BY <2>1, <2>2, <2>4
<1> QED BY <1>1, <1>2, <1>3

LEMMA OneMonthBefore ==
  ASSUME NumbersFit, NumbersFit', PeeksGrow, NEW k \in Convs, OneMonth(k)'
  PROVE  OneMonth(k)
<1> SUFFICES ASSUME NEW m \in 1..MaxMonth, NEW n \in 1..MaxMonth, m # n
             PROVE  Peek(k, m) = 0 \/ Peek(k, n) = 0
  BY DEF OneMonth
<1>1. Peek(k, m)' = 0 \/ Peek(k, n)' = 0 BY DEF OneMonth
<1>2. Peek(k, m) <= Peek(k, m)' /\ Peek(k, n) <= Peek(k, n)' BY DEF PeeksGrow
<1>3. Peek(k, m) \in Nat /\ Peek(k, n) \in Nat BY PeekIs
<1> QED BY <1>1, <1>2, <1>3

\* A step of another kind.
LEMMA NumbersAside ==
  ASSUME NumbersFit, stored' = stored, counter' = counter, month \in Nat,
         month' = month \/ month' = month + 1,
         \A c \in Calls : call'[c].task = "save" /\ call'[c].req.rpc = "SendMessage" =>
           /\ call[c].task = "save" /\ call'[c].req = call[c].req
           /\ call'[c].seq = call[c].seq /\ call'[c].month = call[c].month
  PROVE  NumbersFit' /\ PeeksGrow
<1>1. \A s \in stored' :
        /\ s.month <= month'
        /\ counter'[s.conv][s.month] # None => s.seq <= counter'[s.conv][s.month]
  <2>1. \A s \in stored : s.month \in Nat /\ s.month <= month BY RowFields DEF NumbersFit
  <2> QED BY <2>1 DEF NumbersFit
<1>2. ASSUME NEW c \in Calls, call'[c].task = "save", call'[c].req.rpc = "SendMessage"
      PROVE  /\ call'[c].seq \in Nat \ {0} /\ call'[c].month \in 1..month'
             /\ counter'[call'[c].req.conv][call'[c].month] # None
             /\ call'[c].seq <= counter'[call'[c].req.conv][call'[c].month]
  <2>1. call[c].month \in 1..month BY <1>2 DEF NumbersFit
  <2> QED BY <1>2, <2>1 DEF NumbersFit
<1>3. NumbersFit' BY <1>1, <1>2 DEF NumbersFit
<1> QED BY <1>3, PeekGrows

\* A table of tables with one entry changed.
LEMMA EntryChanged ==
  ASSUME NEW A, NEW B, NEW S, NEW f \in [A -> [B -> S]], NEW a \in A, NEW b \in B, NEW v \in S,
         NEW g, g = [f EXCEPT ![a][b] = v]
  PROVE  /\ g \in [A -> [B -> S]] /\ g[a][b] = v
         /\ \A x \in A, y \in B : ~(x = a /\ y = b) => g[x][y] = f[x][y]
<1> DEFINE h == [f[a] EXCEPT ![b] = v]
<1>1. h \in [B -> S] /\ h[b] = v /\ \A y \in B : y # b => h[y] = f[a][y] OBVIOUS
<1>2. g = [f EXCEPT ![a] = h] OBVIOUS
<1> HIDE DEF h
<1>3. g \in [A -> [B -> S]] /\ g[a] = h /\ \A x \in A : x # a => g[x] = f[x] BY <1>1, <1>2
<1> QED BY <1>1, <1>3

LEMMA NumbersTaken ==
  ASSUME Fits, NumbersFit, NEW c \in Calls, SubmitNumbered(c)
  PROVE  NumbersFit' /\ PeeksGrow
<1> DEFINE x == call[c]
           y == call'[c]
           k == x.req.conv
           n == Peek(k, month) + 1
<1>1. /\ Only({"task", "res", "seq", "month"}, x, y) /\ stored' = stored /\ month' = month
      /\ \A d \in Calls : d # c => call'[d] = call[d]
  BY DEF SubmitNumbered, Steps
<1>2. month \in 1..MaxMonth /\ k \in Convs /\ y.req = x.req /\ month \in Nat
  <2>1. x.req \in Request /\ x.req.conv # None /\ month \in 1..MaxMonth
    BY DEF SubmitNumbered, Fits, CallFits, Named, BoundsFit
  <2>2. y.req = x.req BY <1>1, OnlyFields
  <2>3. month \in Nat BY <2>1, TasksAssumption
  <2> QED BY <2>1, <2>2, <2>3, RequestFields
<1>3. CASE /\ y.seq = n /\ y.month = month /\ counter' = [counter EXCEPT ![k][month] = n]
  <2>1. /\ Peek(k, month) \in Nat
        /\ \A s \in stored : s.conv = k /\ s.month = month => s.seq <= Peek(k, month)
    BY <1>2, PeekIs
  <2>2. counter \in [Convs -> [1..MaxMonth -> Nat \cup {None}]] /\ None \notin Int
    BY NoneAssumption DEF NumbersFit
  <2> HIDE DEF k
  <2>3. n \in Nat /\ n > 0 /\ n > Peek(k, month) /\ n # None BY <2>1, <2>2
  <2>4. counter[k][month] # None => counter[k][month] = Peek(k, month) BY DEF Peek
  <2> HIDE DEF n
  <2>5. /\ counter' \in [Convs -> [1..MaxMonth -> Nat \cup {None}]] /\ counter'[k][month] = n
        /\ \A l \in Convs, m \in 1..MaxMonth :
             ~(l = k /\ m = month) => counter'[l][m] = counter[l][m]
    BY <1>2, <1>3, <2>2, <2>3, EntryChanged
  <2>6. ASSUME NEW s \in stored'
        PROVE  /\ s.month <= month'
               /\ counter'[s.conv][s.month] # None => s.seq <= counter'[s.conv][s.month]
    <3>1. s \in stored /\ s.conv \in Convs /\ s.month \in 1..MaxMonth /\ s.seq \in Nat
      BY <1>1, RowFields DEF NumbersFit
    <3>2. CASE s.conv = k /\ s.month = month BY <1>1, <1>2, <2>1, <2>3, <2>5, <3>1, <3>2
    <3>3. CASE ~(s.conv = k /\ s.month = month) BY <1>1, <2>5, <3>1, <3>3 DEF NumbersFit
    <3> QED BY <3>2, <3>3
  <2>7. ASSUME NEW d \in Calls, call'[d].task = "save", call'[d].req.rpc = "SendMessage"
        PROVE  /\ call'[d].seq \in Nat \ {0} /\ call'[d].month \in 1..month'
               /\ counter'[call'[d].req.conv][call'[d].month] # None
               /\ call'[d].seq <= counter'[call'[d].req.conv][call'[d].month]
    <3>1. CASE d = c BY <1>1, <1>2, <1>3, <2>3, <2>5, <3>1 DEF k
    <3>2. CASE d # c
      <4> DEFINE l == call[d].req.conv
                 m == call[d].month
      <4>1. /\ call'[d] = call[d] /\ call[d].seq \in Nat \ {0} /\ m \in 1..month
            /\ counter[l][m] # None /\ call[d].seq <= counter[l][m]
        BY <1>1, <2>7, <3>2 DEF NumbersFit
      <4>2. l \in Convs /\ m \in 1..MaxMonth
        <5>1. call[d].req \in Request /\ call[d].req.conv # None
          BY <2>7, <4>1 DEF Fits, CallFits, Named
        <5> QED BY <1>2, <4>1, <5>1, RequestFields, TasksAssumption
      <4> HIDE DEF l, m
      <4>3. counter'[l][m] # None /\ call[d].seq <= counter'[l][m]
        <5>1. CASE l = k /\ m = month BY <2>1, <2>3, <2>4, <2>5, <4>1, <5>1
        <5>2. CASE ~(l = k /\ m = month) BY <2>5, <4>1, <4>2, <5>2
        <5> QED BY <5>1, <5>2
      <4> QED BY <1>1, <4>1, <4>3 DEF l, m
    <3> QED BY <3>1, <3>2
  <2>8. NumbersFit' BY <1>1, <2>5, <2>6, <2>7 DEF NumbersFit
  <2>9. \A l \in Convs, m \in 1..MaxMonth :
          \/ counter'[l][m] = counter[l][m]
          \/ counter'[l][m] # None /\ Peek(l, m) <= counter'[l][m]
    BY <2>1, <2>3, <2>5
  <2> QED BY <1>1, <2>8, <2>9, PeekGrows
<1>4. CASE Failed(y) /\ counter' = counter
  <2>1. \A d \in Calls : call'[d].task = "save" => call'[d] = call[d]
    BY <1>1, <1>4 DEF Failed
  <2> QED BY <1>1, <1>2, <1>4, <2>1, NumbersAside
<1> QED BY <1>3, <1>4 DEF SubmitNumbered

LEMMA NumbersStored ==
  ASSUME Fits, NumbersFit, NEW c \in Calls, SubmitStored(c)
  PROVE  NumbersFit' /\ PeeksGrow /\ stored \subseteq stored'
<1> DEFINE x == call[c]
           y == call'[c]
           k == x.req.conv
           m == x.month
           s0 == RowOf(c)
<1>1. /\ x.task = "save" /\ x.req.rpc = "SendMessage" /\ y.task = "finished"
      /\ \A d \in Calls : d # c => call'[d] = call[d]
      /\ counter' = counter /\ month' = month /\ stored' \in {stored, stored \cup {s0}}
  BY DEF SubmitStored, Steps
<1>2. /\ x.seq \in Nat \ {0} /\ m \in 1..month /\ counter[k][m] # None
      /\ x.seq <= counter[k][m]
  BY <1>1 DEF NumbersFit
<1>3. k \in Convs /\ m \in 1..MaxMonth /\ m <= month
  <2>1. x.req \in Request /\ x.req.conv # None /\ month \in 1..MaxMonth
    BY <1>1 DEF Fits, CallFits, Named, BoundsFit
  <2> QED BY <1>2, <2>1, RequestFields, TasksAssumption
<1>4. s0 \in MessageRows /\ s0.conv = k /\ s0.month = m /\ s0.seq = x.seq
  <2> HIDE DEF k, m
  <2> QED BY <1>2, <1>3 DEF MessageRows, RowOf, k, m
<1> HIDE DEF s0
<1>5. \E n \in Nat : \A s \in stored' : s.seq <= n
  <2>1. PICK n \in Nat : \A s \in stored : s.seq <= n BY DEF NumbersFit
  <2> DEFINE p == n + x.seq
  <2>2. p \in Nat /\ x.seq <= p /\ n <= p BY <1>2
  <2>3. \A s \in stored : s.seq \in Nat BY RowFields DEF NumbersFit
  <2> HIDE DEF p
  <2>4. \A s \in stored' : s.seq <= p BY <1>1, <1>4, <2>1, <2>2, <2>3
  <2> QED BY <2>2, <2>4
<1>6. \A s \in stored' :
        /\ s.month <= month'
        /\ counter'[s.conv][s.month] # None => s.seq <= counter'[s.conv][s.month]
  BY <1>1, <1>2, <1>3, <1>4 DEF NumbersFit
<1>7. \A d \in Calls : call'[d].task = "save" => call'[d] = call[d] BY <1>1
<1>8. NumbersFit' BY <1>1, <1>4, <1>5, <1>6, <1>7 DEF NumbersFit
<1>9. stored \subseteq stored' BY <1>1
<1> QED BY <1>1, <1>8, <1>9, PeekGrows

LEMMA NumbersPeeked ==
  ASSUME Fits, NumbersFit, NEW k \in Convs, counter' = Peeked(k), stored' = stored, month' = month,
         \A c \in Calls : call'[c].task = "save" /\ call'[c].req.rpc = "SendMessage" =>
           call'[c] = call[c]
  PROVE  NumbersFit' /\ PeeksGrow
<1> DEFINE n == Peek(k, month)
<1>1. month \in 1..MaxMonth /\ None \notin Int /\ month \in Nat
  BY NoneAssumption, TasksAssumption DEF Fits, BoundsFit
<1>2. /\ n \in Nat /\ \A s \in stored : s.conv = k /\ s.month = month => s.seq <= n
  BY <1>1, PeekIs
<1>3. /\ counter \in [Convs -> [1..MaxMonth -> Nat \cup {None}]]
      /\ counter[k][month] # None => counter[k][month] = n
  BY DEF NumbersFit, Peek
<1>4. counter' = [counter EXCEPT ![k][month] = n] BY DEF Peeked
<1> HIDE DEF n
<1>5. /\ counter' \in [Convs -> [1..MaxMonth -> Nat \cup {None}]] /\ counter'[k][month] = n
      /\ \A l \in Convs, m \in 1..MaxMonth :
           ~(l = k /\ m = month) => counter'[l][m] = counter[l][m]
  <2> DEFINE N == Nat \cup {None}
             M == 1..MaxMonth
  <2>1. n \in N /\ month \in M /\ counter \in [Convs -> [M -> N]] BY <1>1, <1>2, <1>3
  <2> HIDE DEF N, M
  <2>2. /\ counter' \in [Convs -> [M -> N]] /\ counter'[k][month] = n
        /\ \A x \in Convs, y \in M :
             ~(x = k /\ y = month) => counter'[x][y] = counter[x][y]
    BY <1>4, <2>1, EntryChanged
  <2> QED BY <2>2 DEF N, M
<1>6. ASSUME NEW s \in stored'
      PROVE  /\ s.month <= month'
             /\ counter'[s.conv][s.month] # None => s.seq <= counter'[s.conv][s.month]
  <2>1. s \in stored /\ s.conv \in Convs /\ s.month \in 1..MaxMonth /\ s.seq \in Nat
    BY RowFields DEF NumbersFit
  <2>2. CASE s.conv = k /\ s.month = month BY <1>1, <1>2, <1>5, <2>1, <2>2
  <2>3. CASE ~(s.conv = k /\ s.month = month) BY <1>5, <2>1, <2>3 DEF NumbersFit
  <2> QED BY <2>2, <2>3
<1>7. ASSUME NEW d \in Calls, call'[d].task = "save", call'[d].req.rpc = "SendMessage"
      PROVE  /\ call'[d].seq \in Nat \ {0} /\ call'[d].month \in 1..month'
             /\ counter'[call'[d].req.conv][call'[d].month] # None
             /\ call'[d].seq <= counter'[call'[d].req.conv][call'[d].month]
  <2> DEFINE l == call[d].req.conv
             m == call[d].month
  <2>1. /\ call'[d] = call[d] /\ call[d].seq \in Nat \ {0} /\ m \in 1..month
        /\ counter[l][m] # None /\ call[d].seq <= counter[l][m]
    BY <1>7 DEF NumbersFit
  <2>2. l \in Convs /\ m \in 1..MaxMonth
    <3>1. call[d].req \in Request /\ call[d].req.conv # None
      BY <1>7, <2>1 DEF Fits, CallFits, Named
    <3> QED BY <1>1, <2>1, <3>1, RequestFields, TasksAssumption
  <2> HIDE DEF l, m
  <2>3. counter'[l][m] # None /\ call[d].seq <= counter'[l][m]
    <3>1. CASE l = k /\ m = month BY <1>1, <1>2, <1>3, <1>5, <2>1, <3>1
    <3>2. CASE ~(l = k /\ m = month) BY <1>5, <2>1, <2>2, <3>2
    <3> QED BY <3>1, <3>2
  <2> QED BY <2>1, <2>3 DEF l, m
<1>8. NumbersFit' BY <1>5, <1>6, <1>7 DEF NumbersFit
<1>9. \A l \in Convs, m \in 1..MaxMonth :
        \/ counter'[l][m] = counter[l][m]
        \/ counter'[l][m] # None /\ Peek(l, m) <= counter'[l][m]
  BY <1>1, <1>2, <1>5 DEF n
<1> QED BY <1>8, <1>9, PeekGrows

LEMMA NumbersNext ==
  ASSUME Fits, Idles, NumbersFit, [Next]_vars
  PROVE  NumbersFit' /\ PeeksGrow /\ stored \subseteq stored'
<1>0. month \in Nat BY TasksAssumption DEF Fits, BoundsFit
<1>1. CASE Background
  <2>1. ASSUME NEW c \in Calls, call'[c].task = "save", call'[c].req.rpc = "SendMessage"
        PROVE  /\ call[c].task = "save" /\ call'[c].req = call[c].req
               /\ call'[c].seq = call[c].seq /\ call'[c].month = call[c].month
    BY <1>1, <2>1 DEF Background, Aside, Failed
  <2>2. stored' = stored /\ counter' = counter /\ (month' = month \/ month' = month + 1)
    BY <1>1 DEF Background
  <2> QED BY <1>0, <2>1, <2>2, NumbersAside
<1>2. ASSUME NEW c \in Calls, TaskStepOf(c)
      PROVE  NumbersFit' /\ PeeksGrow /\ stored \subseteq stored'
  <2> DEFINE x == call[c]
             y == call'[c]
  <2>1. \A d \in Calls : d # c => call'[d] = call[d] BY <1>2 DEF TaskStepOf
  <2>2. CASE SubmitNumbered(c) BY <2>2, NumbersTaken DEF SubmitNumbered
  <2>3. CASE SubmitStored(c) BY <2>3, NumbersStored
  <2>4. CASE SyncPlaced(c) \/ CursorChecked(c)
    <3>1. /\ counter' = Peeked(x.req.conv) /\ stored' = stored /\ month' = month
          /\ x.req.rpc # "SendMessage" /\ \E S : Steps(c, S) /\ "req" \notin S
      BY <2>4 DEF SyncPlaced, CursorChecked, SyncRpcs
    <3>2. y.req = x.req BY <3>1, OnlyFields DEF Steps
    <3>3. x.req \in Request /\ x.req.conv # None
      BY <2>4 DEF SyncPlaced, CursorChecked, Fits, CallFits, Named
    <3>4. x.req.conv \in Convs BY <3>3, RequestFields
    <3>5. \A d \in Calls : call'[d].task = "save" /\ call'[d].req.rpc = "SendMessage" =>
            call'[d] = call[d]
      BY <2>1, <3>1, <3>2
    <3> QED BY <3>1, <3>4, <3>5, NumbersPeeked
  <2>5. CASE \/ SubmitAuthorised(c) \/ SubmitNamed(c) \/ SyncAuthorised(c)
             \/ SyncReadPrevious(c) \/ SyncReadCurrent(c) \/ CursorRead(c) \/ CursorSaved(c)
    <3>1. stored' = stored /\ counter' = counter /\ month' = month /\ y.task # "save"
      BY <2>5 DEF SubmitAuthorised, SubmitNamed, SyncAuthorised, SyncReadPrevious,
                  SyncReadCurrent, CursorRead, CursorSaved, Failed, taskVars
    <3> QED BY <1>0, <2>1, <3>1, NumbersAside
  <2> QED BY <1>2, <2>2, <2>3, <2>4, <2>5 DEF TaskStepOf, TaskMove
<1> QED BY <1>1, <1>2, StepTasks

LEMMA NumbersInit == Init => NumbersFit
<1> SUFFICES ASSUME Init PROVE NumbersFit OBVIOUS
<1>1. /\ month = 1 /\ stored = {[conv |-> 1, month |-> 1, seq |-> n] : n \in 1..Sent}
      /\ counter = [k \in Convs |-> [m \in 1..MaxMonth |-> None]]
  BY DEF Init, TasksInit
<1>2. \A c \in Calls : call[c].task = "none" BY TablesInit DEF Unused
<1>3. 1 \in Convs /\ 1 \in 1..MaxMonth /\ Sent \in Nat
  BY ConversationsAssumption, TasksAssumption DEF Convs
<1>4. \A s \in stored : s \in MessageRows /\ s.month = 1 /\ s.seq <= Sent
  BY <1>1, <1>3 DEF MessageRows
<1>5. \A s \in stored : counter[s.conv][s.month] = None BY <1>1, <1>4, RowFields
<1>6. counter \in [Convs -> [1..MaxMonth -> Nat \cup {None}]] BY <1>1
<1>7. stored \subseteq MessageRows /\ \E n \in Nat : \A s \in stored : s.seq <= n
  BY <1>3, <1>4
<1>8. \A s \in stored : s.month <= month BY <1>1, <1>4
<1> QED BY <1>2, <1>5, <1>6, <1>7, <1>8 DEF NumbersFit

-----------------------------------------------------------------------------
(***************************************************************************)
(* Synchronisation                                                         *)
(***************************************************************************)

\* What was stored when a call arrived is stored still.
BeforeFits ==
  \A c \in Calls : /\ call[c].before \subseteq stored
                   /\ \A s \in call[c].before : s.conv = call[c].req.conv

LEMMA ArrivalBefore ==
  ASSUME NEW c \in Calls, NEW r \in Request, Arrival(c, r)
  PROVE  call'[c].before \subseteq {s \in stored : s.conv = r.conv}
<1>1. call'[c].before = {} \/ call'[c].before = BeforeOf(r)
  BY DEF Arrival, ConversationCall, PoolCall, StatusCall, UpdateCall, PresenceCall, Refused,
       ConversationArrival, DirectRequest, GroupRequest, ChangeRequest, ViewRequest, ListRequest,
       Converses, Pending, StatusRequest, PresenceRequest
<1> QED BY <1>1 DEF BeforeOf, StoredOf

LEMMA BeforeNext ==
  ASSUME Fits, BeforeFits, [Next]_vars, stored \subseteq stored'
  PROVE  BeforeFits'
<1>1. ASSUME \A c \in Calls : \/ call'[c].before = call[c].before /\ call'[c].req = call[c].req
                              \/ call'[c].before \subseteq {s \in stored : s.conv = call'[c].req.conv}
      PROVE  BeforeFits'
  BY <1>1 DEF BeforeFits
<1>2. ASSUME NEW c \in Calls, NEW r, Arrival(c, r)
      PROVE  BeforeFits'
  <2>1. r \in Request /\ Arrived(c, r) /\ call'[c].req = r
    BY <1>2, FitsAfterArrival, ArrivalIs, ArrivalStarts
  <2>2. \A d \in Calls : d # c => call'[d].before = call[d].before /\ call'[d].req = call[d].req
    BY <2>1 DEF Arrived, Apart, Same
  <2>3. call'[c].before \subseteq {s \in stored : s.conv = call'[c].req.conv}
    BY <1>2, <2>1, ArrivalBefore
  <2> QED BY <1>1, <2>2, <2>3
<1>3. ASSUME NEW c \in Calls, Move(c)
      PROVE  BeforeFits'
  <2>1. Goings(c) BY <1>3, FitsAfterMove
  <2> QED BY <1>1, <2>1 DEF Goings
<1>4. ASSUME NEW p \in Pools, Started(p)
      PROVE  BeforeFits'
  <2> DEFINE c == Head(queue[p])
  <2>1. /\ Only({"task"}, call[c], call'[c])
        /\ \A d \in Calls : d # c => call'[d] = call[d]
    BY <1>4 DEF Started, Steps
  <2>2. call'[c].before = call[c].before /\ call'[c].req = call[c].req BY <2>1, OnlyFields
  <2> QED BY <1>1, <2>1, <2>2
<1>5. ASSUME Ambient
      PROVE  BeforeFits'
  BY <1>1, <1>5, AmbientIs
<1>6. CASE \E c \in Calls, r \in load.requests : Arrival(c, r) BY <1>2, <1>6
<1>7. CASE \E c \in Calls : Move(c) BY <1>3, <1>7
<1> QED BY <1>4, <1>5, <1>6, <1>7, StepKinds

\* A range with room for all its numbers has all its messages.
LEMMA RangeIs ==
  ASSUME stored \subseteq MessageRows, NEW k, NEW m, NEW lo \in Int, NEW hi \in Int, NEW n \in Nat,
         hi - lo < n
  PROVE  SequenceRange(k, m, lo, hi, n) =
           {s \in stored : s.conv = k /\ s.month = m /\ s.seq \in lo..hi}
<1> DEFINE found == {s \in stored : s.conv = k /\ s.month = m /\ s.seq \in lo..hi}
           below(s) == {t \in found : t.seq < s.seq}
<1>1. SequenceRange(k, m, lo, hi, n) = {s \in found : Cardinality(below(s)) < n}
  BY DEF SequenceRange
<1>2. ASSUME NEW s \in found PROVE Cardinality(below(s)) < n
  <2> DEFINE B == below(s)
             j == s.seq - 1
             f == [t \in B |-> t.seq]
  <2>1. s.seq \in lo..hi /\ s.seq \in Nat BY RowFields
  <2>2. \A t \in B : t \in MessageRows /\ t.conv = k /\ t.month = m /\ t.seq \in lo..j
    BY <2>1, RowFields
  <2>3. \A t, u \in B : t.seq = u.seq => t = u BY <2>2, RowsDiffer
  <2> HIDE DEF B, found
  <2>4. f \in [B -> lo..j] /\ \A t, u \in B : f[t] = f[u] => t = u BY <2>2, <2>3
  <2>5. f \in Injection(B, lo..j)
    <3> HIDE DEF f, j
    <3> QED BY <2>4 DEF Injection, IsInjective
  <2>6. /\ j \in Int /\ j < hi
        /\ IsFiniteSet(lo..j) /\ Cardinality(lo..j) = IF lo > j THEN 0 ELSE j - lo + 1
    <3>1. j \in Int /\ j < hi BY <2>1
    <3> HIDE DEF j
    <3> QED BY <3>1, FS_Interval
  <2> HIDE DEF f, j
  <2>7. IsFiniteSet(B) /\ Cardinality(B) <= Cardinality(lo..j) /\ Cardinality(B) \in Nat
    BY <2>5, <2>6, FS_Injection, FS_CardinalityType
  <2>8. lo <= hi BY <2>1
  <2> QED BY <2>6, <2>7, <2>8 DEF B
<1> HIDE DEF below
<1> QED BY <1>1, <1>2

\* The messages a call has to bring, and whether they are of the months it reads.
Due(x) == {s \in x.before : s.seq > x.seq}
Within(x, mo) == \A s \in Due(x) : s.month >= mo - 1
Ones == {k \in Convs : OneMonth(k)}
Reach(x) == x.seq + Batch(x.req) + 1

\* What a task that synchronises has found out, if st is stored in month mo and
\* the conversations ones have numbers of one month only.
Topped(x, mo, ones) ==
  /\ x.at \in Nat /\ x.seq \in Int
  /\ x.req.conv \in ones /\ Within(x, mo) => \A s \in Due(x) : s.seq <= x.at

Turning(x, st, mo) ==
  /\ x.month \in 1..mo /\ (\A s \in x.before : s.month <= x.month) /\ x.page \subseteq st
  /\ \A s \in x.page : /\ s.conv = x.req.conv /\ s.month = x.month - 1
                       /\ s.seq \in (x.seq + 1)..Reach(x)
  /\ \A s \in Due(x) : s.month = x.month - 1 /\ s.seq <= Reach(x) => s \in x.page

Complete(x, mo, ones) ==
  /\ x.res = "OK" /\ ~x.more /\ x.req.conv \in ones /\ Within(x, mo)
  /\ \E s \in Due(x) : s.seq <= Reach(x)
  => Due(x) \subseteq x.page

SyncFits(x, st, mo, ones) ==
  x.req.rpc \in SyncRpcs =>
    /\ x.task \in {"previous", "current"} => Topped(x, mo, ones)
    /\ x.task = "current" => Turning(x, st, mo)
    /\ x.task = "finished" => Complete(x, mo, ones)

PagesFit == \A c \in Calls : SyncFits(call[c], stored, month, Ones)

\* A call that does not move.
LEMMA SyncStays ==
  ASSUME NEW x, NEW y, y.req = x.req, y.task = x.task, y.res = x.res, y.seq = x.seq, y.at = x.at,
         y.month = x.month, y.page = x.page, y.more = x.more, y.before = x.before,
         NEW st, NEW tt, st \subseteq tt, NEW mo \in Nat, NEW mp \in Nat, mo <= mp,
         NEW ones, NEW onez, onez \subseteq ones,
         \A s \in x.before : s.month \in Nat, SyncFits(x, st, mo, ones)
  PROVE  SyncFits(y, tt, mp, onez)
<1>1. Due(y) = Due(x) /\ Reach(y) = Reach(x) BY DEF Due, Reach
<1>2. Within(y, mp) => Within(x, mo)
  <2>1. \A s \in Due(x) : s.month \in Nat BY DEF Due
  <2> QED BY <1>1, <2>1 DEF Within
<1>3. ASSUME y.req.rpc \in SyncRpcs, y.task \in {"previous", "current"}
      PROVE  Topped(y, mp, onez)
  BY <1>1, <1>2, <1>3 DEF SyncFits, Topped
<1>4. ASSUME y.req.rpc \in SyncRpcs, y.task = "current"
      PROVE  Turning(y, tt, mp)
  <2>1. Turning(x, st, mo) BY <1>4 DEF SyncFits
  <2>2. y.month \in 1..mp BY <2>1 DEF Turning
  <2> QED BY <1>1, <2>1, <2>2 DEF Turning
<1>5. ASSUME y.req.rpc \in SyncRpcs, y.task = "finished"
      PROVE  Complete(y, mp, onez)
  BY <1>1, <1>2, <1>5 DEF SyncFits, Complete
<1> QED BY <1>3, <1>4, <1>5 DEF SyncFits

LEMMA BatchIs ==
  ASSUME NEW r \in Request
  PROVE  Batch(r) \in Nat
<1>1. r.max \in Nat BY RequestFields
<1> QED BY <1>1, TasksAssumption DEF Batch

\* Numbers of one month: two messages of such a conversation are of the same.
LEMMA SameMonth ==
  ASSUME NumbersFit, NEW k \in Ones, NEW s \in stored, NEW t \in stored, s.conv = k, t.conv = k
  PROVE  s.month = t.month
<1>1. /\ k \in Convs /\ s.month \in 1..MaxMonth /\ t.month \in 1..MaxMonth
      /\ s.seq \in Nat /\ s.seq > 0 /\ t.seq \in Nat /\ t.seq > 0
  BY RowFields DEF NumbersFit, Ones
<1>2. s.seq <= Peek(k, s.month) /\ t.seq <= Peek(k, t.month) BY <1>1, PeekIs
<1>3. Peek(k, s.month) \in Nat /\ Peek(k, t.month) \in Nat BY <1>1, PeekIs
<1>4. s.month # t.month => Peek(k, s.month) = 0 \/ Peek(k, t.month) = 0
  BY <1>1 DEF Ones, OneMonth
<1> QED BY <1>1, <1>2, <1>3, <1>4

\* The ceiling covers what is stored of this month and, if there is nothing of
\* it, of the last.
LEMMA CeilingIs ==
  ASSUME NumbersFit, month \in 1..MaxMonth, NEW k \in Convs
  PROVE  /\ Ceiling(k) \in Nat
         /\ \A s \in stored : s.conv = k /\ k \in Ones /\ s.month >= month - 1 => s.seq <= Ceiling(k)
<1>1. /\ Peek(k, month) \in Nat
      /\ \A s \in stored : s.conv = k /\ s.month = month => s.seq <= Peek(k, month)
  BY PeekIs
<1>2. \A m : /\ LastSequence(k, m) \in Nat
             /\ \A s \in stored : s.conv = k /\ s.month = m => s.seq <= LastSequence(k, m)
  BY LastIs
<1>3. month \in Nat /\ Ceiling(k) \in Nat BY <1>1, <1>2, TasksAssumption DEF Ceiling
<1>4. ASSUME NEW s \in stored, s.conv = k, k \in Ones, s.month >= month - 1
      PROVE  s.seq <= Ceiling(k)
  <2>1. s.month \in 1..MaxMonth /\ s.month <= month /\ s.seq \in Nat /\ s.seq > 0
    BY RowFields DEF NumbersFit
  <2>2. CASE s.month = month BY <1>1, <1>4, <2>1, <2>2 DEF Ceiling
  <2>3. CASE s.month # month
    <3>1. s.month = month - 1 /\ month > 1 BY <1>3, <1>4, <2>1, <2>3, TasksAssumption
    <3>2. Peek(k, s.month) \in Nat /\ s.seq <= Peek(k, s.month) BY <1>4, <2>1, PeekIs
    <3>3. Peek(k, month) = 0 BY <1>4, <2>1, <2>3, <3>2 DEF Ones, OneMonth
    <3>4. Ceiling(k) = LastSequence(k, month - 1) BY <3>1, <3>3 DEF Ceiling
    <3>5. s.seq <= LastSequence(k, s.month) BY <1>2, <1>4
    <3> QED BY <3>1, <3>4, <3>5
  <2> QED BY <2>2, <2>3
<1> QED BY <1>3, <1>4

\* Where a task starts.
LEMMA PlacedFits ==
  ASSUME Fits, Kept, NumbersFit, BeforeFits, NEW c \in Calls, SyncPlaced(c)
  PROVE  SyncFits(call'[c], stored, month, Ones)
<1> DEFINE x == call[c]
           y == call'[c]
           k == x.req.conv
           top == Ceiling(k)
           from == IF x.req.seq > 0 THEN x.req.seq ELSE cursor[EffectiveDevice(x.req)][k]
<1>1. /\ x.req.rpc \in SyncRpcs /\ Only({"task", "res", "seq", "at"}, x, y)
      /\ y.seq = from /\ y.at = top
      /\ \/ Failed(y)
         \/ from >= top /\ y.task = "finished"
         \/ y.task = "previous"
  BY DEF SyncPlaced, Steps
<1>2. y.req = x.req /\ y.before = x.before BY <1>1, OnlyFields
<1>3. x.req \in Request /\ k # None /\ month \in 1..MaxMonth
  BY DEF SyncPlaced, Fits, CallFits, BoundsFit
<1>4. /\ k \in Convs /\ x.req.seq \in Int /\ EffectiveDevice(x.req) \in Devices \cup {None}
  BY <1>3, RequestFields
<1>5. from \in Int BY <1>4 DEF Kept
<1>6. /\ top \in Nat
      /\ \A s \in stored : s.conv = k /\ k \in Ones /\ s.month >= month - 1 => s.seq <= top
  BY <1>3, <1>4, CeilingIs
<1>7. x.before \subseteq stored /\ \A s \in x.before : s.conv = k BY DEF BeforeFits
<1> HIDE DEF from, top, k
<1>8. k \in Ones /\ Within(y, month) => \A s \in Due(y) : s.seq <= top
  BY <1>2, <1>6, <1>7 DEF Within, Due
<1>9. y.req.conv = k BY <1>2 DEF k
<1>10. CASE y.task = "previous"
  <2>1. Topped(y, month, Ones) BY <1>1, <1>5, <1>6, <1>8, <1>9 DEF Topped
  <2> QED BY <1>10, <2>1 DEF SyncFits
<1>11. CASE Failed(y)
  <2>1. Complete(y, month, Ones) /\ y.task = "finished" BY <1>11 DEF Complete, Failed
  <2> QED BY <2>1 DEF SyncFits
<1>12. CASE from >= top /\ y.task = "finished"
  <2>1. ASSUME k \in Ones, Within(y, month) PROVE Due(y) = {}
    <3>1. \A s \in Due(y) : s.seq \in Nat /\ s.seq > from /\ s.seq <= top
      BY <1>1, <1>2, <1>7, <1>8, <2>1, RowFields DEF Due, NumbersFit
    <3> QED BY <1>5, <1>6, <1>12, <3>1
  <2>2. Complete(y, month, Ones) BY <1>9, <2>1 DEF Complete
  <2> QED BY <1>12, <2>2 DEF SyncFits
<1> QED BY <1>1, <1>10, <1>11, <1>12

\* The page of the month before.
LEMMA PreviousFits ==
  ASSUME Fits, NumbersFit, BeforeFits, PagesFit, NEW c \in Calls, SyncReadPrevious(c)
  PROVE  SyncFits(call'[c], stored, month, Ones)
<1> DEFINE x == call[c]
           y == call'[c]
           k == x.req.conv
           b == Batch(x.req)
           from == x.seq
           hi == from + b + 1
<1>1. /\ x.req.rpc \in SyncRpcs /\ x.task = "previous" /\ Only({"task", "month", "page"}, x, y)
      /\ y.task = "current" /\ y.month = month
      /\ y.page = SequenceRange(k, month - 1, from + 1, hi, b + 1)
  BY DEF SyncReadPrevious, Steps
<1>2. /\ y.req = x.req /\ y.before = x.before /\ y.seq = x.seq /\ y.at = x.at /\ y.res = x.res
      /\ y.more = x.more
  BY <1>1, OnlyFields
<1>3. Topped(x, month, Ones) BY <1>1 DEF PagesFit, SyncFits
<1>4. x.req \in Request /\ month \in 1..MaxMonth
  BY <1>1 DEF SyncRpcs, Fits, CallFits, BoundsFit
<1>5. b \in Nat /\ from \in Int /\ month \in Nat /\ month >= 1
  BY <1>3, <1>4, BatchIs, TasksAssumption DEF Topped
<1>6. Due(y) = Due(x) /\ Reach(y) = hi /\ Within(y, month) = Within(x, month)
  BY <1>2 DEF Due, Reach, Within
<1>7. Topped(y, month, Ones) BY <1>2, <1>3, <1>6 DEF Topped, Within
<1> HIDE DEF b, from
<1>8. hi \in Int /\ from + 1 \in Int /\ b + 1 \in Nat /\ hi - (from + 1) < b + 1 BY <1>5
<1>9. stored \subseteq MessageRows BY DEF NumbersFit
<1> HIDE DEF hi
<1>10. y.page = {s \in stored : s.conv = k /\ s.month = month - 1 /\ s.seq \in (from + 1)..hi}
  BY <1>1, <1>8, <1>9, RangeIs
<1>11. x.before \subseteq stored /\ \A s \in x.before : s.conv = k BY DEF BeforeFits
<1>12. \A s \in x.before : s.month <= y.month BY <1>1, <1>11 DEF NumbersFit
<1>13. ASSUME NEW s \in Due(y), s.month = y.month - 1, s.seq <= Reach(y)
       PROVE  s \in y.page
  <2>1. s \in stored /\ s.conv = k /\ s.seq > from BY <1>6, <1>11 DEF Due, from
  <2>2. s.seq \in Nat BY <1>9, <2>1, RowFields
  <2>3. s.seq \in (from + 1)..hi BY <1>5, <1>6, <1>8, <1>13, <2>1, <2>2
  <2> QED BY <1>1, <1>10, <1>13, <2>1, <2>3
<1>14. Turning(y, stored, month)
  BY <1>1, <1>2, <1>5, <1>6, <1>10, <1>12, <1>13 DEF Turning, from
<1> QED BY <1>1, <1>7, <1>14 DEF SyncFits

\* What a page that is not cut off holds.
LEMMA PageIs ==
  ASSUME NEW P, P \subseteq MessageRows, NEW hi \in Int, \A s \in P : s.seq <= hi,
         NEW b, NEW top \in Nat, ~PageOf(P, b, top).more
  PROVE  /\ ~(Cardinality(P) > b) /\ PageOf(P, b, top).rows = P
         /\ P # {} => top <= hi
<1>1. /\ ~(Cardinality(P) > b) /\ PageOf(P, b, top).rows = P
      /\ ~(P # {} /\ LastOf(P, 0) < top)
  BY DEF PageOf
<1>2. ASSUME P # {} PROVE top <= hi
  <2> DEFINE S == {0} \cup {s.seq : s \in P}
  <2>1. \A s \in P : s.seq \in Nat /\ s.seq > 0 BY RowFields
  <2>2. hi \in Nat BY <1>2, <2>1
  <2>3. S \subseteq Nat /\ S # {} /\ \A n \in S : n <= hi BY <2>1, <2>2
  <2>4. LastOf(P, 0) = Max(S) BY DEF LastOf
  <2>5. LastOf(P, 0) \in S
    <3> HIDE DEF S
    <3> QED BY <2>2, <2>3, <2>4, LargestOf
  <2>6. LastOf(P, 0) \in Nat /\ LastOf(P, 0) <= hi BY <2>3, <2>5
  <2> QED BY <1>1, <1>2, <2>6
<1> QED BY <1>1, <1>2

LEMMA LastOfNone ==
  ASSUME NEW n \in Int
  PROVE  LastOf({}, n) = n
<1>1. {n} \cup {s.seq : s \in {}} = {n} OBVIOUS
<1>2. \E x \in {n} : \A z \in {n} : x >= z OBVIOUS
<1>3. Max({n}) \in {n} BY <1>2 DEF Max
<1> QED BY <1>1, <1>3 DEF LastOf

\* The page of the present month, and the answer.
LEMMA CurrentFits ==
  ASSUME Fits, NumbersFit, BeforeFits, PagesFit, NEW c \in Calls, SyncReadCurrent(c)
  PROVE  SyncFits(call'[c], stored, month, Ones)
<1> DEFINE x == call[c]
           y == call'[c]
           k == x.req.conv
           b == Batch(x.req)
           from == x.seq
           hi == from + b + 1
           C == CurrentOf(c)
           P == x.page \cup C
<1>1. /\ x.req.rpc \in SyncRpcs /\ x.task = "current"
      /\ Only({"task", "res", "page", "more"}, x, y) /\ y.task = "finished"
      /\ y.page = PageOf(P, b, x.at).rows /\ y.more = PageOf(P, b, x.at).more
  BY DEF SyncReadCurrent, Steps
<1>2. y.req = x.req /\ y.before = x.before /\ y.seq = x.seq BY <1>1, OnlyFields
<1>3. Topped(x, month, Ones) /\ Turning(x, stored, month) BY <1>1 DEF PagesFit, SyncFits
<1>4. x.req \in Request /\ month \in 1..MaxMonth
  BY <1>1 DEF SyncRpcs, Fits, CallFits, BoundsFit
<1>5. /\ b \in Nat /\ from \in Int /\ hi \in Int /\ x.at \in Nat
      /\ month \in Nat /\ x.month \in Nat /\ x.month >= 1 /\ x.month <= month
  BY <1>3, <1>4, BatchIs, TasksAssumption DEF Topped, Turning
<1>6. Due(y) = Due(x) /\ Reach(y) = hi /\ Reach(x) = hi /\ Within(y, month) = Within(x, month)
  BY <1>2 DEF Due, Reach, Within
<1>7. stored \subseteq MessageRows BY DEF NumbersFit
<1>8. x.before \subseteq stored /\ \A s \in x.before : s.conv = k BY DEF BeforeFits
<1>9. ASSUME ~y.more, k \in Ones, Within(x, month), NEW t \in Due(x), t.seq <= hi
      PROVE  Due(x) \subseteq y.page
  <2>1. C \subseteq {s \in stored : s.conv = k /\ s.month = x.month /\ s.seq <= hi}
    BY DEF CurrentOf, SequenceRange
  <2>2. \A s \in x.page : /\ s \in stored /\ s.conv = k /\ s.month = x.month - 1
                          /\ s.seq \in (from + 1)..hi
    BY <1>3, <1>6 DEF Turning
  <2>3. P \subseteq MessageRows /\ \A s \in P : s.seq <= hi BY <1>7, <2>1, <2>2
  <2>4. ~(Cardinality(P) > b) /\ y.page = P /\ (P # {} => x.at <= hi)
    <3> HIDE DEF P, b, hi
    <3> QED BY <1>1, <1>5, <1>9, <2>3, PageIs
  <2>5. \A s \in Due(x) : /\ s \in stored /\ s.conv = k /\ s.seq \in Nat /\ s.seq > from
                          /\ s.month \in Nat /\ s.month <= x.month /\ s.month >= month - 1
                          /\ s.seq <= x.at
    <3>1. \A s \in Due(x) : s \in x.before /\ s.seq > from BY DEF Due
    <3>2. \A s \in Due(x) : s.month <= x.month /\ s.month >= month - 1 /\ s.seq <= x.at
      BY <1>3, <1>9, <3>1 DEF Turning, Topped, Within
    <3>3. \A s \in Due(x) : s.seq \in Nat /\ s.month \in Nat BY <1>7, <1>8, <3>1, RowFields
    <3> QED BY <1>8, <3>1, <3>2, <3>3
  <2>6. \A s \in Due(x) : s.month = t.month BY <1>9, <2>5, SameMonth
  <2>7. t.month = x.month \/ t.month = x.month - 1 BY <1>5, <1>9, <2>5
  <2>8. \A s \in Due(x) : s.seq <= hi => s \in P
    <3>1. CASE t.month = x.month - 1 BY <1>3, <1>6, <2>6, <3>1 DEF Turning
    <3>2. CASE t.month = x.month
      <4>1. x.page = {}
        <5> SUFFICES ASSUME NEW s \in x.page PROVE FALSE OBVIOUS
        <5>1. s.month = t.month /\ s.month = x.month - 1 BY <1>9, <2>2, <2>5, SameMonth
        <5> QED BY <1>5, <3>2, <5>1
      <4>2. Cardinality({}) = 0 /\ LastOf({}, from) = from BY <1>5, FS_EmptySet, LastOfNone
      <4>3. C = SequenceRange(k, x.month, from + 1, hi, b + 1)
        <5>1. ~(0 > b) /\ b + 1 - 0 = b + 1 BY <1>5
        <5> HIDE DEF b, from
        <5> QED BY <4>1, <4>2, <5>1 DEF CurrentOf, b, from
      <4>4. hi - (from + 1) < b + 1 /\ from + 1 \in Int /\ b + 1 \in Nat BY <1>5
      <4> HIDE DEF hi, b, from, C
      <4>5. C = {s \in stored : s.conv = k /\ s.month = x.month /\ s.seq \in (from + 1)..hi}
        BY <1>5, <1>7, <4>3, <4>4, RangeIs
      <4>6. \A s \in Due(x) : s.seq <= hi => s.seq \in (from + 1)..hi BY <1>5, <2>5
      <4> QED BY <2>5, <2>6, <3>2, <4>5, <4>6
    <3> QED BY <2>7, <3>1, <3>2
  <2>9. x.at <= hi BY <1>9, <2>4, <2>8
  <2>10. \A s \in Due(x) : s.seq <= hi
    <3> HIDE DEF hi
    <3> QED BY <1>5, <2>5, <2>9
  <2> QED BY <2>4, <2>8, <2>10
<1>10. Complete(y, month, Ones) BY <1>2, <1>6, <1>9 DEF Complete
<1> QED BY <1>1, <1>10 DEF SyncFits

LEMMA PagesNext ==
  ASSUME Fits, Idles, Kept, NumbersFit, BeforeFits, PagesFit, [Next]_vars
  PROVE  PagesFit'
<1>1. NumbersFit' /\ PeeksGrow /\ stored \subseteq stored' BY NumbersNext
<1>2. Ones' \subseteq Ones
  <2>1. \A k \in Convs : OneMonth(k)' => OneMonth(k) BY <1>1, OneMonthBefore
  <2>2. Ones' = {k \in Convs : OneMonth(k)'} BY DEF Ones
  <2> QED BY <2>1, <2>2 DEF Ones
<1>3. month \in Nat /\ month' \in Nat /\ month <= month'
  <2>1. month \in Nat BY TasksAssumption DEF Fits, BoundsFit
  <2>2. month' = month \/ month' = month + 1
    <3>1. CASE Background BY <3>1 DEF Background
    <3>2. ASSUME NEW c \in Calls, TaskStepOf(c)
          PROVE  month' = month
      BY <3>2 DEF TaskStepOf, TaskMove, SubmitAuthorised, SubmitNamed, SubmitNumbered,
           SubmitStored, SyncAuthorised, SyncPlaced, SyncReadPrevious, SyncReadCurrent,
           CursorRead, CursorChecked, CursorSaved, taskVars
    <3> QED BY <3>1, <3>2, StepTasks
  <2> QED BY <2>1, <2>2
<1>4. \A c \in Calls : \A s \in call[c].before : s.month \in Nat
  BY RowFields DEF BeforeFits, NumbersFit
<1>5. ASSUME NEW c \in Calls, call'[c].req = call[c].req, call'[c].task = call[c].task,
             call'[c].res = call[c].res, call'[c].seq = call[c].seq, call'[c].at = call[c].at,
             call'[c].month = call[c].month, call'[c].page = call[c].page,
             call'[c].more = call[c].more, call'[c].before = call[c].before
      PROVE  SyncFits(call'[c], stored', month', Ones')
  <2>1. SyncFits(call[c], stored, month, Ones) BY DEF PagesFit
  <2> DEFINE st == stored
             mo == month
             on == Ones
             x == call[c]
             y == call'[c]
  <2>2. SyncFits(x, st, mo, on) /\ \A s \in x.before : s.month \in Nat BY <1>4, <2>1
  <2>3. mo \in Nat /\ st \subseteq stored' /\ mo <= month' /\ Ones' \subseteq on
    BY <1>1, <1>2, <1>3
  <2> HIDE DEF st, mo, on
  <2> QED BY <1>3, <1>5, <2>2, <2>3, SyncStays
<1>6. ASSUME Background PROVE PagesFit'
  <2> SUFFICES ASSUME NEW c \in Calls PROVE SyncFits(call'[c], stored', month', Ones')
    BY DEF PagesFit
  <2> DEFINE x == call[c]
             y == call'[c]
  <2>1. Aside(x, y) BY <1>6 DEF Background
  <2>2. CASE y.task \notin {"previous", "current", "finished"} BY <2>2 DEF SyncFits
  <2>3. CASE Failed(y) BY <2>3 DEF SyncFits, Complete, Failed
  <2>4. CASE PoolOf(y.req) = "delivery" BY <2>4 DEF SyncFits, PoolOf, SyncRpcs
  <2>5. CASE /\ y.req = x.req /\ y.seq = x.seq /\ y.month = x.month /\ y.page = x.page
             /\ y.more = x.more /\ y.before = x.before /\ y.at = x.at
             /\ y.task = x.task /\ y.res = x.res
    BY <1>5, <2>5
  <2> QED BY <2>1, <2>2, <2>3, <2>4, <2>5 DEF Aside
<1>7. ASSUME NEW c \in Calls, TaskStepOf(c) PROVE PagesFit'
  <2> DEFINE x == call[c]
             y == call'[c]
  <2>1. \A d \in Calls : d # c => SyncFits(call'[d], stored', month', Ones')
    BY <1>5, <1>7 DEF TaskStepOf
  <2>2. SyncFits(y, stored', month', Ones')
    <3>1. CASE SyncPlaced(c) \/ SyncReadPrevious(c) \/ SyncReadCurrent(c)
      <4>1. SyncFits(y, stored, month, Ones) BY <3>1, PlacedFits, PreviousFits, CurrentFits
      <4>2. \E S : Steps(c, S) /\ "before" \notin S
        BY <3>1 DEF SyncPlaced, SyncReadPrevious, SyncReadCurrent
      <4>3. y.before = x.before BY <4>2, OnlyFields DEF Steps
      <4> DEFINE st == stored
                 mo == month
                 on == Ones
      <4>4. SyncFits(y, st, mo, on) /\ \A s \in y.before : s.month \in Nat
        BY <1>4, <4>1, <4>3
      <4>5. mo \in Nat /\ st \subseteq stored' /\ mo <= month' /\ Ones' \subseteq on
        BY <1>1, <1>2, <1>3
      <4> HIDE DEF st, mo, on, y
      <4> QED BY <1>3, <4>4, <4>5, SyncStays
    <3>2. CASE SyncAuthorised(c)
      <4>1. y.task = "cursor" \/ Failed(y) BY <3>2 DEF SyncAuthorised
      <4> QED BY <4>1 DEF SyncFits, Complete, Failed
    <3>3. CASE \/ SubmitAuthorised(c) \/ SubmitNamed(c) \/ SubmitNumbered(c) \/ SubmitStored(c)
               \/ CursorRead(c) \/ CursorChecked(c) \/ CursorSaved(c)
      <4>1. x.req.rpc \notin SyncRpcs /\ \E S : Steps(c, S) /\ "req" \notin S
        BY <3>3 DEF SubmitAuthorised, SubmitNamed, SubmitNumbered, SubmitStored, CursorRead,
                    CursorChecked, CursorSaved, SyncRpcs
      <4>2. y.req = x.req BY <4>1, OnlyFields DEF Steps
      <4> QED BY <4>1, <4>2 DEF SyncFits
    <3> QED BY <1>7, <3>1, <3>2, <3>3 DEF TaskStepOf, TaskMove
  <2> QED BY <2>1, <2>2 DEF PagesFit
<1> QED BY <1>6, <1>7, StepTasks

LEMMA PagesInit == Init => BeforeFits /\ PagesFit
<1> SUFFICES ASSUME Init PROVE BeforeFits /\ PagesFit OBVIOUS
<1>1. \A c \in Calls : call[c].task = "none" /\ call[c].before = {} BY TablesInit DEF Unused
<1> QED BY <1>1 DEF BeforeFits, PagesFit, SyncFits

\* A page that says there is no more leaves nothing out: as long as the numbers
\* of a conversation are of one month, and that is the present or the previous
\* one, what a task reads reaches the ceiling it asked for at its start, and the
\* ceiling is no less than what was stored when the call arrived.
THEOREM PagesAreComplete == Spec => []CompletePage
<1> DEFINE Inv == Fits /\ Idles /\ Kept /\ NumbersFit /\ BeforeFits /\ PagesFit
<1>1. Init => Inv BY FitsInit, KeptInit, NumbersInit, PagesInit
<1>2. Inv /\ [Next]_vars => Inv'
  <2> SUFFICES ASSUME Inv, [Next]_vars PROVE Inv' OBVIOUS
  <2>1. Fits' /\ Idles' /\ Kept' BY FitsNext, IdlesNext, KeptNext
  <2>2. NumbersFit' /\ stored \subseteq stored' BY NumbersNext
  <2> QED BY <2>1, <2>2, BeforeNext, PagesNext
<1>3. Inv => CompletePage
  <2> SUFFICES ASSUME Inv, NEW c \in Calls, call[c].task = "finished",
                      call[c].req.rpc \in SyncRpcs, call[c].res = "OK", ~call[c].more,
                      OneMonth(call[c].req.conv),
                      \A s \in Due(call[c]) : s.month >= month - 1,
                      \E s \in Due(call[c]) : s.seq <= call[c].seq + Batch(call[c].req) + 1
               PROVE  Due(call[c]) \subseteq call[c].page
    BY DEF CompletePage, Due
  <2>1. call[c].req.conv \in Ones
    <3>1. PICK s \in Due(call[c]) : TRUE OBVIOUS
    <3>2. s \in stored /\ s.conv = call[c].req.conv BY <3>1 DEF Due, BeforeFits
    <3>3. s.conv \in Convs BY <3>2, RowFields DEF NumbersFit
    <3> QED BY <3>2, <3>3 DEF Ones
  <2> QED BY <2>1 DEF PagesFit, SyncFits, Complete, Within, Reach
<1> QED BY <1>1, <1>2, <1>3, PTL DEF Spec

-----------------------------------------------------------------------------
(***************************************************************************)
(* Types                                                                   *)
(***************************************************************************)

LEMMA TypesOK ==
  ASSUME Fits, ConvFits, Kept, DirFits
  PROVE  TypeOK
<1>1. ASSUME NEW c \in Calls
      PROVE  /\ call[c].pc \in {"idle", "find", "write", "device", "submit", "wait",
                                "override", "presence", "done"}
             /\ call[c].task \in {"none", "queued", "start", "members", "resolve", "targets",
                                  "save", "cursor", "previous", "current", "finished"}
             /\ (call[c].pc = "idle") <=> (call[c].req = None)
             /\ (call[c].answer = "none") <=> (call[c].pc # "done")
  <2>1. CallFits(call[c]) BY DEF Fits
  <2>2. None \notin Request BY NoneAssumption
  <2> QED BY <2>1, <2>2 DEF CallFits, Positions, TaskPositions
<1>2. clock \in 0..MaxClock /\ faults \in 0..MaxFaults /\ month \in 1..MaxMonth
  <2>1. load.clock \in 0..MaxClock /\ load.faults \in 0..MaxFaults
    BY DEF Fits, BoundsFit, Workload
  <2> QED BY <2>1, CallsAssumption DEF Fits, BoundsFit
<1>3. /\ lastConv \in 1..MaxConversations
      /\ direct \in [Pairs -> Convs \cup {None}]
      /\ meta \in [Convs -> {None, "Active", "Closed"}]
      /\ part \in [Convs -> [Users -> {None} \cup Members]]
  BY DEF ConvFits, TablesFit
<1>4. Len(cache) <= CacheCapacity /\ (\A p \in Pools : Len(queue[p]) <= QueueCapacity)
  BY DEF DirFits, CacheFits, Fits, QueueFits
<1>5. stripes \subseteq Devices \X Convs BY DEF Kept
<1> QED BY <1>1, <1>2, <1>3, <1>4, <1>5 DEF TypeOK

\* Calls, tables, directory, queues and locks keep their shape: the positions of
\* handlers and tasks, the answer at the end of a call and only there, rows of
\* known conversations and users, a cache and queues within their capacity.
THEOREM ServiceTypes == Spec => []TypeOK
<1> DEFINE Inv == Fits /\ Idles /\ Kept /\ ConvFits /\ DirFits
<1>1. Init => Inv BY FitsInit, KeptInit, ConvFitsInit, DirFitsInit
<1>2. Inv /\ [Next]_vars => Inv' BY FitsNext, IdlesNext, KeptNext, ConvFitsNext, DirFitsNext
<1>3. Inv => TypeOK BY TypesOK
<1> QED BY <1>1, <1>2, <1>3, PTL DEF Spec
=============================================================================
