------------------------- MODULE ConversationProofs -------------------------
(***************************************************************************)
(* Proofs that the conversations of the messaging service stay in order,   *)
(* for any users, calls and workloads: groups keep an admin, and a pair    *)
(* of users has one direct conversation.                                   *)
(***************************************************************************)
EXTENDS MessagingProofs

-----------------------------------------------------------------------------
(***************************************************************************)
(* Rivals                                                                  *)
(***************************************************************************)

\* Of two calls in flight each is a rival of the other.
Meets == \A c, d \in Calls : c # d /\ InFlight(c) /\ InFlight(d) => d \in call[c].rivals

\* What no step takes back: whose call it is, and its rivals.
Remains ==
  \A c \in Calls : call[c].pc # "idle" =>
    /\ call'[c].pc # "idle" /\ call'[c].req = call[c].req /\ call'[c].conv = call[c].conv
    /\ call[c].rivals \subseteq call'[c].rivals

LEMMA ArrivalRivals ==
  ASSUME NEW c \in Calls, NEW r \in Request, Arrival(c, r)
  PROVE  /\ call'[c].task = "none"
         /\ call'[c].pc \in {"idle", "done"} \/ call'[c].rivals = InFlights
  BY DEF Arrival, ConversationCall, PoolCall, StatusCall, UpdateCall, PresenceCall, Refused,
         ConversationArrival, DirectRequest, GroupRequest, ChangeRequest, ViewRequest, ListRequest,
         Converses, Pending, StatusRequest, PresenceRequest, Accepted, Fresh

LEMMA MeetsNext ==
  ASSUME Fits, Meets, [Next]_vars
  PROVE  Meets' /\ Remains
<1>1. ASSUME NEW c \in Calls, NEW r \in load.requests, Arrival(c, r)
      PROVE  Meets' /\ Remains
  <2>1. r \in Request /\ Arrived(c, r) BY <1>1, FitsAfterArrival, ArrivalIs
  <2>2. /\ call[c].pc = "idle"
        /\ \A d \in Calls : d # c =>
             /\ Same(call[d], call'[d])
             /\ call'[d].rivals = IF InFlight(d) THEN call[d].rivals \cup {c}
                                  ELSE call[d].rivals
    BY <2>1 DEF Arrived, Apart
  <2>3. /\ call'[c].task = "none"
        /\ call'[c].pc \in {"idle", "done"} \/ call'[c].rivals = InFlights
    BY <1>1, <2>1, ArrivalRivals
  <2>4. \A d \in Calls : d # c => (InFlight(d)' <=> InFlight(d)) BY <2>2 DEF InFlight, Same
  <2>5. InFlight(c)' => call'[c].rivals = InFlights BY <2>3 DEF InFlight
  <2>6. Meets'
    <3> SUFFICES ASSUME NEW a \in Calls, NEW b \in Calls, a # b, InFlight(a)', InFlight(b)'
                 PROVE  b \in call'[a].rivals
      BY DEF Meets
    <3>1. CASE a = c BY <2>4, <2>5, <3>1 DEF InFlights
    <3>2. CASE b = c BY <2>2, <2>4, <3>2
    <3>3. CASE a # c /\ b # c BY <2>2, <2>4, <3>3 DEF Meets
    <3> QED BY <3>1, <3>2, <3>3
  <2>7. Remains BY <2>2 DEF Remains, Same
  <2> QED BY <2>6, <2>7
<1>2. ASSUME NEW c \in Calls, Goings(c)
      PROVE  Meets' /\ Remains
  <2>1. /\ \A d \in Calls : d # c => call'[d] = call[d]
        /\ call'[c].req = call[c].req /\ call'[c].conv = call[c].conv
        /\ call'[c].rivals = call[c].rivals
    BY <1>2 DEF Goings
  <2>2. InFlight(c)' => InFlight(c) BY <1>2 DEF Goings, InFlight
  <2>3. \A d \in Calls : InFlight(d)' => InFlight(d) BY <2>1, <2>2 DEF InFlight
  <2>4. call[c].pc # "idle" => call'[c].pc # "idle"
    <3>1. call[c].pc # "idle" => call[c].req \in Request BY DEF Fits, CallFits
    <3>2. call'[c].pc = "idle" => call'[c].req = None BY FitsNext DEF Fits, CallFits
    <3> QED BY <2>1, <3>1, <3>2, NoneAssumption
  <2> QED BY <2>1, <2>3, <2>4 DEF Meets, Remains
<1>3. ASSUME NEW p \in Pools, Started(p)
      PROVE  Meets' /\ Remains
  <2> DEFINE c == Head(queue[p])
  <2>1. c \in Calls /\ call[c].task = "queued"
    <3>1. queue[p] \in Seq(Calls) /\ queue[p] # <<>> /\ 1 \in 1..Len(queue[p])
      BY <1>3 DEF Fits, QueueFits, Started
    <3> QED BY <3>1 DEF Fits, QueueFits
  <2>2. /\ Only({"task"}, call[c], call'[c]) /\ \A d \in Calls : d # c => call'[d] = call[d]
    BY <1>3 DEF Started, Steps
  <2>3. /\ call'[c].req = call[c].req /\ call'[c].conv = call[c].conv
        /\ call'[c].rivals = call[c].rivals /\ call'[c].pc = call[c].pc
    BY <2>2, OnlyFields
  <2> HIDE DEF c
  <2>4. InFlight(c) BY <2>1 DEF InFlight
  <2>5. \A d \in Calls : InFlight(d)' => InFlight(d) BY <2>2, <2>4 DEF InFlight
  <2> QED BY <2>1, <2>2, <2>3, <2>5 DEF Meets, Remains
<1>4. ASSUME Ambient
      PROVE  Meets' /\ Remains
  BY <1>4, AmbientIs DEF Meets, Remains, InFlight
<1>5. CASE \E c \in Calls : Move(c) BY <1>2, <1>5, MoveGoings DEF Fits
<1> QED BY <1>1, <1>3, <1>4, <1>5, StepKinds

LEMMA MeetsInit == Init => Meets
<1> SUFFICES ASSUME Init PROVE Meets OBVIOUS
<1>1. \A c \in Calls : call[c].pc = "idle" /\ call[c].task = "none" BY TablesInit DEF Unused
<1> QED BY <1>1 DEF Meets, InFlight

\* Races are not forgotten, and two changes of a conversation that are under way
\* are one.
LEMMA RacedStays ==
  ASSUME Fits, Remains, NEW k \in Convs, Raced(k)
  PROVE  Raced(k)'
<1>1. PICK c \in Calls, d \in Calls :
        /\ d \in call[c].rivals
        /\ \A x \in {c, d} : call[x].conv = k /\ call[x].req.rpc \in Changing
  BY DEF Raced
<1>2. \A x \in {c, d} : call[x].pc # "idle"
  <2>1. k # None BY NoneAssumption DEF Convs
  <2> QED BY <1>1, <2>1 DEF Fits, CallFits
<1>3. /\ d \in call'[c].rivals
      /\ \A x \in {c, d} : call'[x].conv = k /\ call'[x].req.rpc \in Changing
  BY <1>1, <1>2 DEF Remains
<1> QED BY <1>3 DEF Raced

LEMMA ChangesRace ==
  ASSUME Meets, NEW c \in Calls, NEW d \in Calls, c # d,
         call[c].pc \in {"find", "write"}, call[d].pc \in {"find", "write"},
         call[c].req.rpc \in Changing, call[d].req.rpc \in Changing, call[c].conv = call[d].conv
  PROVE  Raced(call[c].conv)
  BY DEF Meets, InFlight, Raced

-----------------------------------------------------------------------------
(***************************************************************************)
(* Whose conversation it is                                                *)
(***************************************************************************)
Creating == {"CreateDirect", "CreateGroup"}

DirectRow(p) == [type |-> "Direct", pair |-> p]
Grouped(f, k) == f[k] # None /\ f[k].type = "Group"

\* A write of this kind is still to be made.
Pends(s, kind) == \E i \in 1..Len(s) : s[i].kind = kind

\* The row of the conversation is written first, and the end comes last.
Straight(s) ==
  /\ \A i \in 1..Len(s) : s[i].kind = "conversation" => i = 1
  /\ \A i \in 1..(Len(s) - 1) : s[i].kind \notin Ends

\* A call that has a conversation of its own to write.
Makes(x) == x.pc = "write" /\ x.req.rpc \in Creating /\ Len(x.todo) > 1

\* What a call can rely on in the table f of conversations, of which last were
\* created: the row it creates is its own, the row it changes is a group's, the
\* row it has returned is that of its pair.
Rowed(x, f, last) ==
  /\ x.pc = "write" /\ x.req.rpc \in Creating =>
       /\ x.conv <= last /\ Straight(x.todo) /\ NewRow(x.req) \in ConversationRows
       /\ f[x.conv] \in {None, NewRow(x.req)}
       /\ ~Pends(x.todo, "conversation") => f[x.conv] = NewRow(x.req)
  /\ x.pc \in {"find", "write"} /\ x.req.rpc \in Changing \ {"CreateGroup"} =>
       x.conv <= last /\ Grouped(f, x.conv)
  /\ x.answer = "OK" /\ x.req.rpc = "CreateDirect" =>
       x.conv \in Convs /\ f[x.conv] = NewRow(x.req) /\ NewRow(x.req) \in ConversationRows

RowsFit ==
  /\ \A k \in Convs : k > lastConv =>
       conversations[k] = None /\ meta[k] = None /\ \A u \in Users : part[k][u] = None
  /\ \A p \in Pairs : direct[p] # None => conversations[direct[p]] = DirectRow(p)
  /\ \A c \in Calls : Rowed(call[c], conversations, lastConv)
  /\ \A c, d \in Calls :
       c # d /\ Makes(call[c]) /\ Makes(call[d]) => call[c].conv # call[d].conv

LEMMA DirectRowIs == \A p \in Pairs : DirectRow(p) \in ConversationRows
<1> SUFFICES ASSUME NEW p \in Pairs PROVE DirectRow(p) \in ConversationRows OBVIOUS
<1>1. PICK x \in Users \X Users : p = DirectPair(x[1], x[2]) BY DEF Pairs
<1>2. p \in SUBSET Users BY <1>1 DEF DirectPair
<1> QED BY <1>2 DEF DirectRow, ConversationRows

LEMMA PairIs ==
  ASSUME NEW u \in Users, NEW v \in Users
  PROVE  DirectPair(u, v) \in Pairs
<1> DEFINE z == <<u, v>>
<1>1. z \in Users \X Users /\ DirectPair(u, v) = DirectPair(z[1], z[2]) OBVIOUS
<1> HIDE DEF z
<1> QED BY <1>1 DEF Pairs

LEMMA StraightTail ==
  ASSUME NEW k, NEW s, Todo(s, k), Straight(s), Head(s).kind \notin Ends
  PROVE  Straight(Tail(s)) /\ ~Pends(Tail(s), "conversation")
<1> DEFINE t == Tail(s)
<1>1. s \in Seq(WriteOps(k)) /\ s # <<>> BY DEF Todo
<1>2. /\ Len(t) = Len(s) - 1 /\ Len(s) \in Nat
      /\ \A i \in 1..(Len(s) - 1) : t[i] = s[i + 1]
  BY <1>1, TailIs
<1> HIDE DEF t
<1>3. \A i \in 1..Len(t) : t[i].kind # "conversation"
  <2> SUFFICES ASSUME NEW i \in 1..Len(t) PROVE t[i].kind # "conversation" OBVIOUS
  <2>1. t[i] = s[i + 1] /\ i + 1 \in 1..Len(s) /\ i + 1 # 1 BY <1>2
  <2> QED BY <2>1 DEF Straight
<1>4. \A i \in 1..(Len(t) - 1) : t[i].kind \notin Ends
  <2> SUFFICES ASSUME NEW i \in 1..(Len(t) - 1) PROVE t[i].kind \notin Ends OBVIOUS
  <2>1. t[i] = s[i + 1] /\ i + 1 \in 1..(Len(s) - 1) BY <1>2
  <2> QED BY <2>1 DEF Straight
<1> QED BY <1>3, <1>4 DEF Straight, Pends, t

LEMMA StraightHead ==
  ASSUME NEW k, NEW s, Todo(s, k), Straight(s)
  PROVE  /\ Head(s).kind # "conversation" => ~Pends(s, "conversation")
         /\ Head(s).kind \in Ends => Len(s) = 1
         /\ Len(s) = 1 => Head(s).kind \in Ends
<1>1. s \in Seq(WriteOps(k)) /\ s # <<>> /\ s[Len(s)].kind \in Ends BY DEF Todo
<1>2. Len(s) \in Nat /\ Len(s) > 0 /\ Head(s) = s[1] BY <1>1, TailIs
<1>3. Head(s).kind # "conversation" => ~Pends(s, "conversation") BY <1>2 DEF Straight, Pends
<1>4. Head(s).kind \in Ends => Len(s) = 1
  <2>1. \A n \in Nat : n > 0 /\ n # 1 => 1 \in 1..(n - 1) OBVIOUS
  <2>2. Len(s) # 1 => 1 \in 1..(Len(s) - 1) BY <1>2, <2>1
  <2> QED BY <1>2, <2>2 DEF Straight
<1> QED BY <1>1, <1>2, <1>3, <1>4

\* The lists of writes that create a conversation.
LEMMA DirectStraight ==
  ASSUME NEW k, NEW u, NEW v
  PROVE  /\ Straight(CreateDirectWrites(k, u, v)) /\ Pends(CreateDirectWrites(k, u, v), "conversation")
         /\ Len(CreateDirectWrites(k, u, v)) = 8
<1> DEFINE p == DirectPair(u, v)
           row == [type |-> "Direct", pair |-> p]
           m == Member("Member", "Active")
           s == << SaveConv(k, row), SavePair(k, p), SavePart(k, u, m), SavePart(k, v, m),
                   Touch(k, u, "Active"), Touch(k, v, "Active"),
                   Event(k, "Created"), ThenDetails(k) >>
<1>1. CreateDirectWrites(k, u, v) = s BY DEF CreateDirectWrites
<1> HIDE DEF m, row, p
<1>2. /\ Len(s) = 8 /\ s[1].kind = "conversation" /\ s[2].kind = "direct" /\ s[3].kind = "part"
      /\ s[4].kind = "part" /\ s[5].kind = "touch" /\ s[6].kind = "touch"
      /\ s[7].kind = "event" /\ s[8].kind = "details"
  BY OpKinds
<1> HIDE DEF s
<1>3. \A i \in 1..8 : i = 1 \/ i = 2 \/ i = 3 \/ i = 4 \/ i = 5 \/ i = 6 \/ i = 7 \/ i = 8
  OBVIOUS
<1>4. \A i \in 1..8 : s[i].kind = "conversation" => i = 1 BY <1>2, <1>3
<1>5. \A i \in 1..7 : s[i].kind \notin Ends
  <2>1. \A i \in 1..7 : i = 1 \/ i = 2 \/ i = 3 \/ i = 4 \/ i = 5 \/ i = 6 \/ i = 7 OBVIOUS
  <2> QED BY <1>2, <2>1 DEF Ends
<1>6. 8 - 1 = 7 /\ 1 \in 1..8 OBVIOUS
<1> QED BY <1>1, <1>2, <1>4, <1>5, <1>6 DEF Straight, Pends

LEMMA GroupStraight ==
  ASSUME NEW k, NEW u, NEW people, NEW s, GroupList(s, k, u, people)
  PROVE  Straight(s) /\ Pends(s, "conversation") /\ Len(s) \in Nat /\ Len(s) > 1
<1>0. Len(s) \in Nat /\ Len(s) >= 6 BY DEF GroupList, Todo
<1>1. /\ s[1].kind = "conversation" /\ s[2].kind = "meta" /\ s[3].kind = "part"
      /\ s[4].kind = "touch" /\ s[Len(s) - 1].kind = "event" /\ s[Len(s)].kind = "details"
  BY OpKinds DEF GroupList
<1>2. \A i \in 5..(Len(s) - 2) : s[i].kind \in {"part", "touch"} BY OpKinds DEF GroupList
<1>3. ASSUME NEW i \in 1..Len(s)
      PROVE  (s[i].kind = "conversation" => i = 1) /\ (i # Len(s) => s[i].kind \notin Ends)
  <2>1. i = 1 \/ i = 2 \/ i = 3 \/ i = 4 \/ i \in 5..(Len(s) - 2) \/ i = Len(s) - 1 \/ i = Len(s)
    BY <1>0
  <2> QED BY <1>1, <1>2, <2>1 DEF Ends
<1>4. \A i \in 1..(Len(s) - 1) : i \in 1..Len(s) /\ i # Len(s) BY <1>0
<1>5. 1 \in 1..Len(s) /\ Len(s) > 1 BY <1>0
<1>6. Straight(s) BY <1>3, <1>4 DEF Straight
<1> QED BY <1>0, <1>1, <1>5, <1>6 DEF Pends

\* A conversation that has a row keeps it.
Holds(f, g) == \A k \in Convs : f[k] # None => g[k] = f[k]

LEMMA ConvOf ==
  ASSUME NEW x, NEW p, ConvCall(x, p), x.pc \in {"find", "write"}
  PROVE  x.conv \in Convs
  BY DEF ConvCall, Seeks

LEMMA RowedStays ==
  ASSUME NEW x, NEW y, Same(x, y), NEW p, ConvCall(x, p), NEW f, NEW g, Holds(f, g),
         NEW last \in Nat, NEW last2 \in Nat, last <= last2, Rowed(x, f, last),
         Makes(x) => g[x.conv] = f[x.conv]
  PROVE  Rowed(y, g, last2)
<1>1. /\ y.pc = x.pc /\ y.req = x.req /\ y.conv = x.conv /\ y.todo = x.todo
      /\ y.answer = x.answer
  BY DEF Same
<1>2. x.pc \in {"find", "write"} => x.conv \in Convs /\ x.conv \in Nat
  BY ConvOf, ConversationsAssumption DEF Convs
<1>3. ASSUME x.pc = "write", x.req.rpc \in Creating
      PROVE  /\ x.conv <= last2 /\ Straight(x.todo) /\ NewRow(x.req) \in ConversationRows
             /\ g[x.conv] \in {None, NewRow(x.req)}
             /\ ~Pends(x.todo, "conversation") => g[x.conv] = NewRow(x.req)
  <2>1. /\ x.conv <= last /\ Straight(x.todo) /\ NewRow(x.req) \in ConversationRows
        /\ f[x.conv] \in {None, NewRow(x.req)}
        /\ ~Pends(x.todo, "conversation") => f[x.conv] = NewRow(x.req)
    BY <1>3 DEF Rowed
  <2>2. x.conv <= last2 BY <1>2, <1>3, <2>1
  <2>3. CASE Makes(x) BY <2>1, <2>2, <2>3
  <2>4. CASE ~Makes(x)
    <3>1. Todo(x.todo, x.conv) BY <1>3 DEF ConvCall
    <3>2. Len(x.todo) \in Nat /\ Len(x.todo) > 0 BY <3>1 DEF Todo
    <3>3. Len(x.todo) = 1
      <4>1. \A n \in Nat : n > 0 /\ ~(n > 1) => n = 1 OBVIOUS
      <4>2. ~(Len(x.todo) > 1) BY <1>3, <2>4 DEF Makes
      <4> QED BY <3>2, <4>1, <4>2
    <3>4. ~Pends(x.todo, "conversation") BY <2>1, <3>1, <3>3, StraightHead DEF Ends
    <3>5. f[x.conv] = NewRow(x.req) /\ f[x.conv] # None BY <2>1, <3>4, NoneAssumption
    <3>6. g[x.conv] = f[x.conv] BY <1>2, <1>3, <3>5 DEF Holds
    <3> QED BY <2>1, <2>2, <3>5, <3>6
  <2> QED BY <2>3, <2>4
<1>4. ASSUME x.pc \in {"find", "write"}, x.req.rpc \in Changing \ {"CreateGroup"}
      PROVE  x.conv <= last2 /\ Grouped(g, x.conv)
  <2>1. x.conv <= last /\ Grouped(f, x.conv) BY <1>4 DEF Rowed
  <2>2. g[x.conv] = f[x.conv] BY <1>2, <1>4, <2>1 DEF Holds, Grouped
  <2> QED BY <1>2, <1>4, <2>1, <2>2 DEF Grouped
<1>5. ASSUME x.answer = "OK", x.req.rpc = "CreateDirect"
      PROVE  x.conv \in Convs /\ g[x.conv] = NewRow(x.req) /\ NewRow(x.req) \in ConversationRows
  <2>1. x.conv \in Convs /\ f[x.conv] = NewRow(x.req) /\ NewRow(x.req) \in ConversationRows
    BY <1>5 DEF Rowed
  <2> QED BY <2>1, NoneAssumption DEF Holds
<1> QED BY <1>1, <1>3, <1>4, <1>5 DEF Rowed

\* A write of call c that has its effect.
Writing(c) ==
  LET x == call[c]
      w == Head(x.todo)
  IN /\ x.pc = "write" /\ x.conv \in Convs /\ Todo(x.todo, x.conv) /\ Len(x.todo) > 1
     /\ w \in WriteOps(x.conv) /\ w.conv = x.conv /\ w.kind \notin Ends
     /\ Planned(w, x.req) /\ Effect(w)

LEMMA ConversedWrites ==
  ASSUME ConvFits, NEW c \in Calls, Conversed(c)
  PROVE  (TablesSame \/ Writing(c)) /\ (Advances(c) => Writing(c))
<1> DEFINE x == call[c]
           w == Head(x.todo)
<1> SUFFICES ASSUME x.pc = "write", w.kind \in Writes \cup {"event"}, Effect(w)
             PROVE  Writing(c)
  BY DEF Conversed, Advances, Breaks, Finds, Misses, Closes, Concludes
<1>1. x.conv \in Convs /\ Todo(x.todo, x.conv) /\ Plan(x.todo, x.req)
  BY DEF ConvFits, ConvCall
<1>2. w.kind \notin Ends BY DEF Writes, Ends
<1>3. Len(x.todo) > 1 /\ Planned(w, x.req) BY <1>1, <1>2, TodoTail, PlanTail
<1>4. w \in WriteOps(x.conv)
  <2>1. x.todo \in Seq(WriteOps(x.conv)) /\ x.todo # <<>> BY <1>1 DEF Todo
  <2> QED BY <2>1, TailIs
<1>5. w.conv = x.conv BY <1>4, WriteOpFields
<1> QED BY <1>1, <1>2, <1>3, <1>4, <1>5 DEF Writing

\* What concerns groups: the row of a conversation, its metadata, its members.
Group3 == {"conversation", "meta", "part"}
Quiet(k) == conversations'[k] = conversations[k] /\ meta'[k] = meta[k] /\ part'[k] = part[k]

LEMMA WritingQuiet ==
  ASSUME TablesFit, NEW c \in Calls, Writing(c), NEW k \in Convs,
         k # call[c].conv \/ Head(call[c].todo).kind \notin Group3
  PROVE  Quiet(k)
<1> DEFINE w == Head(call[c].todo)
           j == call[c].conv
<1>1. j \in Convs /\ w.conv = j /\ w \in WriteOps(j) /\ Effect(w) BY DEF Writing
<1>2. w.kind = "part" => w.user \in Users /\ w.member \in Members BY <1>1, WriteOpFields
<1> HIDE DEF w, j
<1>3. conversations'[k] = conversations[k]
  <2>1. CASE w.kind = "conversation" BY <1>1, <2>1 DEF Effect, TablesFit, Group3, w, j
  <2>2. CASE w.kind # "conversation" BY <1>1, <2>2 DEF Effect
  <2> QED BY <2>1, <2>2
<1>4. meta'[k] = meta[k]
  <2>1. CASE w.kind = "meta" BY <1>1, <2>1 DEF Effect, TablesFit, Group3, w, j
  <2>2. CASE w.kind # "meta" BY <1>1, <2>2 DEF Effect
  <2> QED BY <2>1, <2>2
<1>5. part'[k] = part[k]
  <2>1. CASE w.kind = "part"
    <3>1. k # j /\ part' = [part EXCEPT ![j][w.user] = w.member]
      BY <1>1, <2>1 DEF Effect, Group3, w, j
    <3> QED BY <1>1, <3>1 DEF TablesFit
  <2>2. CASE w.kind # "part" BY <1>1, <2>2 DEF Effect
  <2> QED BY <2>1, <2>2
<1> QED BY <1>3, <1>4, <1>5 DEF Quiet

LEMMA WritingRows ==
  ASSUME TablesFit, RowsFit, NEW c \in Calls, Writing(c)
  PROVE  LET x == call[c]
             w == Head(x.todo)
             k == x.conv
         IN /\ w.kind \in Group3 => x.req.rpc \in Creating \cup Changing /\ k <= lastConv
            /\ w.kind \in {"conversation", "direct"} => x.req.rpc \in Creating
            /\ x.req.rpc \in Creating => Makes(x) /\ conversations'[k] = NewRow(x.req)
            /\ x.req.rpc \notin Creating => conversations'[k] = conversations[k]
            /\ Holds(conversations, conversations')
            /\ \A j \in Convs : j # k => conversations'[j] = conversations[j]
<1> DEFINE x == call[c]
           w == Head(x.todo)
           k == x.conv
<1>1. /\ x.pc = "write" /\ k \in Convs /\ Todo(x.todo, k) /\ Len(x.todo) > 1 /\ w.kind \notin Ends
      /\ Planned(w, x.req) /\ w.conv = k
      /\ conversations' = IF w.kind = "conversation"
                          THEN [conversations EXCEPT ![w.conv] = w.value] ELSE conversations
  BY DEF Writing, Effect
<1>2. Rowed(x, conversations, lastConv) BY DEF RowsFit
<1>3. /\ w.kind \in Group3 => x.req.rpc \in Creating \cup Changing
      /\ w.kind \in {"conversation", "direct"} => x.req.rpc \in Creating
      /\ w.kind = "conversation" => w.value = NewRow(x.req)
  BY <1>1 DEF Planned, Group3, Creating, Changing
<1>4. x.req.rpc \in Creating \cup Changing => k <= lastConv
  <2>1. "CreateGroup" \in Creating BY DEF Creating
  <2> QED BY <1>1, <1>2, <2>1 DEF Rowed
<1>5. x.req.rpc \in Creating => Makes(x) BY <1>1 DEF Makes
<1>6. conversations \in [Convs -> {None} \cup ConversationRows] BY DEF TablesFit
<1> HIDE DEF x, w, k
<1>7. \A j \in Convs : j # k => conversations'[j] = conversations[j] BY <1>1, <1>6
<1>8. ASSUME x.req.rpc \in Creating
      PROVE  conversations'[k] = NewRow(x.req) /\ conversations[k] \in {None, NewRow(x.req)}
  <2>1. /\ Straight(x.todo) /\ conversations[k] \in {None, NewRow(x.req)}
        /\ ~Pends(x.todo, "conversation") => conversations[k] = NewRow(x.req)
    BY <1>1, <1>2, <1>8 DEF Rowed, x, k
  <2>2. CASE w.kind = "conversation" BY <1>1, <1>3, <1>6, <2>1, <2>2
  <2>3. CASE w.kind # "conversation"
    <3>1. ~Pends(x.todo, "conversation") BY <1>1, <2>1, <2>3, StraightHead DEF w
    <3> QED BY <1>1, <2>1, <2>3, <3>1
  <2> QED BY <2>2, <2>3
<1>9. x.req.rpc \notin Creating => conversations'[k] = conversations[k] BY <1>1, <1>3
<1>10. Holds(conversations, conversations') BY <1>7, <1>8, <1>9 DEF Holds
<1> QED BY <1>3, <1>4, <1>5, <1>7, <1>8, <1>9, <1>10 DEF x, w, k

\* The call that makes the step.
LEMMA ConversedRowed ==
  ASSUME Fits, ConvFits, RowsFit, NEW c \in Calls, Conversed(c)
  PROVE  Rowed(call'[c], conversations', lastConv') /\ (Makes(call'[c]) => Makes(call[c]))
<1> DEFINE x == call[c]
           y == call'[c]
           w == Head(x.todo)
           k == x.conv
           r == x.req
<1>0. /\ ConvCall(x, part) /\ lastConv' = lastConv /\ Rowed(x, conversations, lastConv)
      /\ TablesFit /\ CallFits(x)
  BY DEF ConvFits, RowsFit, Conversed, Fits
<1>1. Moved(c) => y.req = r /\ y.conv = k BY DEF Moved
<1>2. ASSUME y.pc = "done", y.answer # "OK"
      PROVE  Rowed(y, conversations', lastConv') /\ ~Makes(y)
  BY <1>2 DEF Rowed, Makes
<1>3. CASE Advances(c)
  <2>1. /\ x.pc = "write" /\ w.kind \in Writes \cup {"event"} /\ y.pc = "write"
        /\ y.todo = Tail(x.todo) /\ y.req = r /\ y.conv = k /\ y.answer = x.answer
        /\ Effect(w)
    BY <1>1, <1>3 DEF Advances
  <2>2. Writing(c) /\ Todo(x.todo, k) /\ w.kind \notin Ends
    <3>1. Writing(c) BY <1>3, ConversedWrites
    <3> QED BY <3>1 DEF Writing
  <2>3. /\ r.rpc \in Creating => Makes(x) /\ conversations'[k] = NewRow(r)
        /\ r.rpc \notin Creating => conversations'[k] = conversations[k]
    BY <1>0, <2>2, WritingRows
  <2>4. y.answer # "OK" BY <1>0, <2>1 DEF CallFits
  <2>5. r.rpc \in Creating =>
          /\ k <= lastConv /\ Straight(y.todo) /\ NewRow(r) \in ConversationRows
    BY <1>0, <2>1, <2>2, StraightTail DEF Rowed
  <2>6. r.rpc \in Changing \ {"CreateGroup"} => k <= lastConv /\ Grouped(conversations', k)
    <3>1. r.rpc \in Changing \ {"CreateGroup"} => r.rpc \notin Creating
      BY DEF Changing, Creating
    <3> QED BY <1>0, <2>1, <2>3, <3>1 DEF Rowed, Grouped
  <2>7. Makes(y) => Makes(x) BY <2>1, <2>3 DEF Makes
  <2> HIDE DEF r, k, w
  <2>8. Rowed(y, conversations', lastConv') BY <1>0, <2>1, <2>3, <2>4, <2>5, <2>6 DEF Rowed
  <2> QED BY <2>7, <2>8
<1>4. CASE Breaks(c) \/ Misses(c) BY <1>2, <1>4 DEF Breaks, Misses, Fails
<1>5. CASE Finds(c) \/ Closes(c)
  <2>1. /\ y.pc = "write" /\ y.req = r /\ y.conv = k /\ y.answer = x.answer
        /\ conversations' = conversations /\ x.pc \in {"find", "write"}
    BY <1>1, <1>5 DEF Finds, Closes, TablesSame
  <2>2. r.rpc \in Changing \ {"CreateGroup"}
    <3>1. CASE Finds(c) BY <1>0, <3>1 DEF Finds, ConvCall, Seeks
    <3>2. CASE Closes(c)
      <4>1. x.pc = "write" /\ w.kind = "close" BY <3>2 DEF Closes
      <4>2. Planned(w, r) BY <1>0, <4>1, PlanTail DEF ConvCall
      <4> QED BY <4>1, <4>2 DEF Planned, Changing
    <3> QED BY <1>5, <3>1, <3>2
  <2>3. r.rpc \notin Creating /\ y.answer # "OK"
    BY <1>0, <2>1, <2>2 DEF Creating, Changing, CallFits
  <2> HIDE DEF r, k, w
  <2> QED BY <1>0, <2>1, <2>2, <2>3 DEF Rowed, Makes, r, k
<1>6. CASE Concludes(c)
  <2>1. /\ y.pc = "done" /\ y.req = r /\ y.conv = k /\ conversations' = conversations
        /\ x.pc = "write" /\ w.kind \in Ends
    BY <1>1, <1>6 DEF Concludes, TablesSame, Ends
  <2>2. ASSUME r.rpc = "CreateDirect"
        PROVE  k \in Convs /\ conversations[k] = NewRow(r) /\ NewRow(r) \in ConversationRows
    <3>1. r.rpc \in Creating BY <2>2 DEF Creating
    <3>2. k \in Convs /\ Todo(x.todo, k) BY <1>0, <2>1 DEF ConvCall
    <3>3. Straight(x.todo) /\ NewRow(r) \in ConversationRows BY <1>0, <2>1, <3>1 DEF Rowed
    <3>4. ~Pends(x.todo, "conversation") BY <2>1, <3>2, <3>3, StraightHead DEF Ends
    <3> QED BY <1>0, <2>1, <3>1, <3>2, <3>3, <3>4 DEF Rowed
  <2> HIDE DEF r, k, w
  <2> QED BY <2>1, <2>2 DEF Rowed, Makes
<1> QED BY <1>2, <1>3, <1>4, <1>5, <1>6 DEF Conversed

\* A call that arrives.
LEMMA ConversationCallRowed ==
  ASSUME Fits, ConvFits, RowsFit, NEW c \in Calls, NEW r \in Request, ConversationCall(c, r)
  PROVE  /\ Rowed(call'[c], conversations, lastConv') /\ lastConv <= lastConv'
         /\ Makes(call'[c]) => call'[c].conv > lastConv
<1> DEFINE y == call'[c]
           k == lastConv + 1
<1>0. ConversationArrival(c, r) /\ TablesFit BY DEF ConversationCall, ConvFits
<1>1. /\ r.user \in Users \cup {None} /\ r.conv \in Convs \cup {None}
      /\ r.target \in Users \cup {None} /\ r.people \in SUBSET Users
  BY RequestFields
<1>2. lastConv \in Nat /\ MaxConversations \in Nat /\ Convs \subseteq Nat
  BY <1>0, ConversationsAssumption DEF TablesFit, Convs
<1>3. lastConv < MaxConversations => k \in Convs BY <1>2 DEF Convs
<1>4. ASSUME NEW j \in Convs, conversations[j] # None
      PROVE  j <= lastConv
  BY <1>2, <1>4 DEF RowsFit
<1>5. ASSUME lastConv' = k, lastConv < MaxConversations, r.rpc \in Creating, NEW s,
             Converses(y, r, "write", clock, k, s), NewRow(r) \in ConversationRows,
             Straight(s), Pends(s, "conversation")
      PROVE  Rowed(y, conversations, lastConv') /\ y.conv > lastConv /\ lastConv <= lastConv'
  <2>1. y.pc = "write" /\ y.req = r /\ y.conv = k /\ y.todo = s /\ y.answer = "none"
    BY <1>5 DEF Converses, Accepted
  <2>2. conversations[k] = None /\ k > lastConv /\ lastConv <= k
    BY <1>2, <1>3, <1>5 DEF RowsFit
  <2>3. r.rpc \notin Changing \ {"CreateGroup"} BY <1>5 DEF Creating, Changing
  <2> HIDE DEF k, y
  <2> QED BY <1>2, <1>5, <2>1, <2>2, <2>3 DEF Rowed, k
<1>6. CASE Refused(y, r) /\ lastConv' = lastConv BY <1>2, <1>6 DEF Refused, Rowed, Makes
<1>7. CASE r.rpc = "CreateDirect" /\ DirectRequest(c, r)
  <2> DEFINE pair == DirectPair(r.user, r.target)
  <2>1. r.user \in Users /\ r.target \in Users /\ r.rpc \in Creating
    BY <1>1, <1>7 DEF DirectRequest, Creating
  <2>2. pair \in Pairs /\ NewRow(r) = DirectRow(pair) /\ NewRow(r) \in ConversationRows
    <3>1. pair \in Pairs BY <2>1, PairIs
    <3>2. NewRow(r) = DirectRow(pair) BY <1>7 DEF NewRow, DirectRow
    <3> QED BY <3>1, <3>2, DirectRowIs
  <2>3. CASE /\ direct[pair] # None /\ lastConv' = lastConv
             /\ Converses(y, r, "write", clock, direct[pair], << ThenDetails(direct[pair]) >>)
    <3> DEFINE j == direct[pair]
               s == << ThenDetails(j) >>
    <3>1. j \in Convs /\ conversations[j] = NewRow(r)
      BY <1>0, <2>2, <2>3 DEF TablesFit, RowsFit
    <3>2. j <= lastConv BY <1>4, <2>2, <3>1, NoneAssumption
    <3>3. y.pc = "write" /\ y.req = r /\ y.conv = j /\ y.todo = s /\ y.answer = "none"
      BY <2>3 DEF Converses, Accepted
    <3>4. Len(s) = 1 /\ s[1].kind = "details" BY OpKinds
    <3> HIDE DEF s, j
    <3>5. Straight(s)
      <4>1. 1..(Len(s) - 1) = {} BY <3>4
      <4> QED BY <3>4, <4>1 DEF Straight
    <3>6. r.rpc \notin Changing \ {"CreateGroup"} BY <1>7 DEF Changing
    <3>7. Rowed(y, conversations, lastConv')
      BY <2>2, <2>3, <3>1, <3>2, <3>3, <3>5, <3>6 DEF Rowed
    <3>8. ~Makes(y) BY <3>3, <3>4 DEF Makes
    <3> QED BY <1>2, <2>3, <3>7, <3>8
  <2>4. CASE /\ lastConv < MaxConversations /\ lastConv' = k
             /\ Converses(y, r, "write", clock, k, CreateDirectWrites(k, r.user, r.target))
    <3> DEFINE s == CreateDirectWrites(k, r.user, r.target)
    <3>1. Straight(s) /\ Pends(s, "conversation") BY DirectStraight
    <3> HIDE DEF s
    <3>2. Converses(y, r, "write", clock, k, s) BY <2>4 DEF s
    <3> QED BY <1>5, <2>1, <2>2, <2>4, <3>1, <3>2
  <2> QED BY <1>7, <2>3, <2>4 DEF DirectRequest
<1>8. CASE r.rpc = "CreateGroup" /\ GroupRequest(c, r)
  <2> DEFINE s == CreateGroupWrites(k, r.user, r.people)
  <2>1. /\ r.user \in Users /\ lastConv < MaxConversations /\ lastConv' = k
        /\ Converses(y, r, "write", clock, k, s)
    BY <1>1, <1>8 DEF GroupRequest
  <2>2. GroupList(s, k, r.user, r.people) BY <1>1, <2>1, GroupWritesAre
  <2> HIDE DEF s
  <2>3. Straight(s) /\ Pends(s, "conversation") BY <2>2, GroupStraight
  <2>4. r.rpc \in Creating /\ NewRow(r) \in ConversationRows
    BY <1>8 DEF Creating, NewRow, ConversationRows
  <2> QED BY <1>5, <2>1, <2>3, <2>4
<1>9. CASE r.rpc \in Changing \ {"CreateGroup"} /\ ChangeRequest(c, r)
  <2>1. /\ y.pc = "find" /\ y.conv = r.conv /\ y.req = r /\ y.answer = "none" /\ r.conv \in Convs
        /\ lastConv' = lastConv /\ Changeable(r.conv)
    BY <1>1, <1>9 DEF ChangeRequest, Converses, Accepted
  <2>2. conversations[r.conv] # None /\ conversations[r.conv].type = "Group"
    <3>1. conversations[r.conv] \in {None} \cup ConversationRows BY <1>0, <2>1 DEF TablesFit
    <3> QED BY <2>1, <3>1 DEF Changeable, Type, ConversationRows
  <2>3. r.conv <= lastConv BY <1>4, <2>1, <2>2
  <2>4. Rowed(y, conversations, lastConv') BY <2>1, <2>2, <2>3 DEF Rowed, Grouped
  <2> QED BY <1>2, <2>1, <2>4 DEF Makes
<1>10. CASE r.rpc = "GetConversation" /\ ViewRequest(c, r)
  <2>1. y.req = r /\ lastConv' = lastConv /\ r.rpc \notin Creating /\ r.rpc \notin Changing
    BY <1>10 DEF ViewRequest, Converses, Accepted, Creating, Changing
  <2> QED BY <1>2, <1>10, <2>1 DEF Rowed, Makes
<1>11. CASE r.rpc = "ListConversations" /\ ListRequest(c, r)
  <2>1. y.req = r /\ lastConv' = lastConv /\ r.rpc \notin Creating /\ r.rpc \notin Changing
    BY <1>11 DEF ListRequest, Accepted, Creating, Changing
  <2> QED BY <1>2, <1>11, <2>1 DEF Rowed, Makes
<1> QED BY <1>0, <1>6, <1>7, <1>8, <1>9, <1>10, <1>11 DEF ConversationArrival

LEMMA SameMakes ==
  ASSUME NEW x, NEW y, Same(x, y)
  PROVE  (Makes(y) <=> Makes(x)) /\ y.conv = x.conv
  BY DEF Same, Makes

LEMMA RowsNext ==
  ASSUME Fits, ConvFits, RowsFit, [Next]_vars
  PROVE  RowsFit'
<1>0. lastConv \in Nat /\ TablesFit /\ ConvFits' /\ Convs \subseteq Nat
  BY ConvFitsNext DEF ConvFits, TablesFit, Convs
<1>a. lastConv' \in Nat BY <1>0, ConversationsAssumption DEF ConvFits, TablesFit
<1>1. CASE Elsewhere
  <2>1. UNCHANGED <<conversations, lastConv, direct, meta, part>>
    BY <1>1 DEF Elsewhere, convVars
  <2>2. ASSUME NEW c \in Calls
        PROVE  /\ Rowed(call'[c], conversations, lastConv)
               /\ Makes(call'[c]) => Makes(call[c]) /\ call'[c].conv = call[c].conv
    <3>1. CASE Same(call[c], call'[c])
      <4>1. Holds(conversations, conversations) BY DEF Holds
      <4>2. ConvCall(call[c], part) /\ Rowed(call[c], conversations, lastConv)
        BY DEF ConvFits, RowsFit
      <4>3. Rowed(call'[c], conversations, lastConv) BY <1>0, <3>1, <4>1, <4>2, RowedStays
      <4> QED BY <3>1, <4>3, SameMakes
    <3>2. CASE call'[c].req.rpc \notin Conversing
      <4>1. call'[c].req.rpc \notin Creating \cup Changing /\ call'[c].req.rpc # "CreateDirect"
        BY <3>2 DEF Conversing, Creating, Changing
      <4> QED BY <4>1 DEF Rowed, Makes
    <3> QED BY <1>1, <3>1, <3>2 DEF Elsewhere
  <2> QED BY <2>1, <2>2 DEF RowsFit
<1>2. ASSUME NEW c \in Calls, NEW r \in Request, ConversationCall(c, r)
      PROVE  RowsFit'
  <2>1. UNCHANGED <<conversations, direct, meta, part>>
    BY <1>2 DEF ConversationCall, OtherTables
  <2>2. /\ Rowed(call'[c], conversations, lastConv') /\ lastConv <= lastConv'
        /\ Makes(call'[c]) => call'[c].conv > lastConv
    BY <1>2, ConversationCallRowed
  <2>3. \A d \in Calls : d # c => Same(call[d], call'[d])
    BY <1>2 DEF ConversationCall, Arrived, Apart
  <2>4. Holds(conversations, conversations) BY DEF Holds
  <2>5. ASSUME NEW d \in Calls, d # c
        PROVE  /\ Rowed(call'[d], conversations, lastConv')
               /\ Makes(call'[d]) => /\ Makes(call[d]) /\ call'[d].conv = call[d].conv
                                     /\ call[d].conv \in Nat /\ call[d].conv <= lastConv
    <3>1. /\ ConvCall(call[d], part) /\ Rowed(call[d], conversations, lastConv)
          /\ Same(call[d], call'[d])
      BY <2>3, <2>5 DEF ConvFits, RowsFit
    <3>2. Rowed(call'[d], conversations, lastConv')
      BY <1>0, <1>a, <2>2, <2>4, <3>1, RowedStays
    <3>3. Makes(call[d]) => call[d].conv \in Nat /\ call[d].conv <= lastConv
      BY <1>0, <3>1, ConvOf DEF Makes, Rowed
    <3> QED BY <3>1, <3>2, <3>3, SameMakes
  <2>6. \A a, b \in Calls : a # b /\ Makes(call'[a]) /\ Makes(call'[b]) =>
          call'[a].conv # call'[b].conv
    <3> SUFFICES ASSUME NEW a \in Calls, NEW b \in Calls, a # b, Makes(call'[a]), Makes(call'[b])
                 PROVE  call'[a].conv # call'[b].conv
      OBVIOUS
    <3>1. CASE a = c BY <1>0, <2>2, <2>5, <3>1
    <3>2. CASE b = c BY <1>0, <2>2, <2>5, <3>2
    <3>3. CASE a # c /\ b # c BY <2>5, <3>3 DEF RowsFit
    <3> QED BY <3>1, <3>2, <3>3
  <2>7. \A k \in Convs : k > lastConv' => k > lastConv BY <1>0, <1>a, <2>2
  <2> QED BY <2>1, <2>2, <2>5, <2>6, <2>7 DEF RowsFit
<1>3. ASSUME NEW c \in Calls, ConversationMove(c), Goings(c)
      PROVE  RowsFit'
  <2> DEFINE x == call[c]
             w == Head(x.todo)
             k == x.conv
  <2>1. Conversed(c) /\ lastConv' = lastConv
    BY <1>3, ConversationConversed DEF Fits, ConversationMove
  <2>2. Rowed(call'[c], conversations', lastConv') /\ (Makes(call'[c]) => Makes(call[c]))
    BY <2>1, ConversedRowed
  <2>3. call'[c].conv = call[c].conv /\ \A d \in Calls : d # c => call'[d] = call[d]
    BY <1>3 DEF Goings
  <2>4. \A a, b \in Calls : a # b /\ Makes(call'[a]) /\ Makes(call'[b]) =>
          call'[a].conv # call'[b].conv
    BY <2>2, <2>3 DEF RowsFit
  <2>5. CASE TablesSame
    <3>1. UNCHANGED <<conversations, direct, meta, part>> BY <2>5 DEF TablesSame
    <3>2. \A d \in Calls : Rowed(call'[d], conversations', lastConv')
      BY <2>1, <2>2, <2>3, <3>1 DEF RowsFit
    <3> QED BY <2>1, <2>4, <3>1, <3>2 DEF RowsFit
  <2>6. CASE Writing(c)
    <3>1. /\ w.kind \in Group3 => k <= lastConv
          /\ w.kind \in {"conversation", "direct"} => x.req.rpc \in Creating
          /\ x.req.rpc \in Creating => Makes(x) /\ conversations'[k] = NewRow(x.req)
          /\ x.req.rpc \notin Creating => conversations'[k] = conversations[k]
          /\ Holds(conversations, conversations')
          /\ \A j \in Convs : j # k => conversations'[j] = conversations[j]
      BY <1>0, <2>6, WritingRows
    <3>2. k \in Convs /\ w \in WriteOps(k) /\ w.conv = k /\ Planned(w, x.req) /\ Effect(w)
      BY <2>6 DEF Writing
    <3>3. ASSUME NEW d \in Calls
          PROVE  Rowed(call'[d], conversations', lastConv')
      <4>1. CASE d = c BY <2>2, <4>1
      <4>2. CASE d # c
        <5>1. ConvCall(call[d], part) /\ Rowed(call[d], conversations, lastConv)
          BY DEF ConvFits, RowsFit
        <5>2. Makes(call[d]) => conversations'[call[d].conv] = conversations[call[d].conv]
          <6>1. Makes(call[d]) => call[d].conv \in Convs BY <5>1, ConvOf DEF Makes
          <6>2. Makes(call[d]) /\ x.req.rpc \in Creating => call[d].conv # k
            BY <3>1, <4>2 DEF RowsFit
          <6> QED BY <3>1, <6>1, <6>2
        <5>3. Same(call[d], call'[d]) BY <2>3, <4>2 DEF Same
        <5> QED BY <1>0, <2>1, <3>1, <5>1, <5>2, <5>3, RowedStays
      <4> QED BY <4>1, <4>2
    <3>4. ASSUME NEW j \in Convs, j > lastConv'
          PROVE  conversations'[j] = None /\ meta'[j] = None /\ \A u \in Users : part'[j][u] = None
      <4>1. j # k \/ w.kind \notin Group3
        <5>1. \A a, b \in Nat : a > b => ~(a <= b) OBVIOUS
        <5> QED BY <1>0, <2>1, <3>1, <3>4, <5>1
      <4>2. Quiet(j) BY <1>0, <2>6, <4>1, WritingQuiet
      <4> QED BY <2>1, <3>4, <4>2 DEF Quiet, RowsFit
    <3>5. ASSUME NEW p \in Pairs, direct'[p] # None
          PROVE  conversations'[direct'[p]] = DirectRow(p)
      <4>1. CASE direct'[p] = direct[p]
        <5>1. direct[p] \in Convs /\ conversations[direct[p]] = DirectRow(p)
          BY <1>0, <3>5, <4>1 DEF TablesFit, RowsFit
        <5> QED BY <3>1, <4>1, <5>1, DirectRowIs, NoneAssumption DEF Holds
      <4>2. CASE direct'[p] # direct[p]
        <5>1. w.kind = "direct" /\ w.pair \in Pairs BY <3>2, <4>2, WriteOpFields DEF Effect
        <5>2. p = w.pair /\ direct'[p] = k BY <1>0, <3>2, <4>2, <5>1 DEF Effect, TablesFit
        <5>3. x.req.rpc = "CreateDirect" /\ p = DirectPair(x.req.user, x.req.target)
          BY <3>2, <5>1, <5>2 DEF Planned
        <5>4. NewRow(x.req) = DirectRow(p) BY <5>3 DEF NewRow, DirectRow
        <5> QED BY <3>1, <5>1, <5>2, <5>4
      <4> QED BY <4>1, <4>2
    <3> QED BY <2>4, <3>3, <3>4, <3>5 DEF RowsFit
  <2> QED BY <2>1, <2>5, <2>6, ConversedWrites
<1> QED BY <1>1, <1>2, <1>3, StepConversations

LEMMA RowsInit == Init => RowsFit
<1> SUFFICES ASSUME Init PROVE RowsFit OBVIOUS
<1>1. /\ conversations = [k \in Convs |-> IF k = 1 THEN [type |-> "Group", pair |-> {}] ELSE None]
      /\ lastConv = 1 /\ direct = [p \in Pairs |-> None]
      /\ meta = [k \in Convs |-> IF k = 1 THEN "Active" ELSE None]
      /\ part = [k \in Convs |-> [u \in Users |->
             IF k # 1 THEN None
             ELSE IF u \in Admins THEN Member("Admin", "Active")
             ELSE IF u \in Others THEN Member("Member", "Active") ELSE None]]
  BY DEF Init, TasksInit
<1>2. \A c \in Calls : call[c].pc = "idle" /\ call[c].answer = "none"
  BY TablesInit DEF Unused
<1>3. \A k \in Convs : k > 1 => k # 1 OBVIOUS
<1>4. \A k \in Convs : k > lastConv =>
        conversations[k] = None /\ meta[k] = None /\ \A u \in Users : part[k][u] = None
  BY <1>1, <1>3
<1> QED BY <1>1, <1>2, <1>4 DEF RowsFit, Rowed, Makes

-----------------------------------------------------------------------------
(***************************************************************************)
(* Groups                                                                  *)
(***************************************************************************)

\* The members m of one conversation, and its status st.
Act(m, u) == m[u] # None /\ m[u].status = "Active"
Adm(m, u) == Act(m, u) /\ m[u].role = "Admin"
Crowd(m) == {u \in Users : Act(m, u)}
Led(m, st) == Crowd(m) # {} => st # "Closed" /\ \E u \in Users : Adm(m, u)
Stays(m, u) == Adm(m, u) => Crowd(m) \subseteq {u} \/ \E o \in Users \ {u} : Adm(m, o)

\* The requests whose caller goes, and those whose caller stays.
Departs(r) ==
  r.rpc = "LeaveConversation" \/ (r.rpc = "RemoveParticipant" /\ r.target = r.user)
Steady(r) ==
  \/ r.rpc \in {"AddParticipant", "UpdateConversationMetadata"}
  \/ r.rpc = "RemoveParticipant" /\ r.target # r.user

\* u is written before any other member.
Foremost(s, u) ==
  \A i \in 1..Len(s) : s[i].kind = "part" =>
    s[i].user = u \/ \E j \in 1..(i - 1) : s[j].kind = "part" /\ s[j].user = u

\* No write takes the caller u away or closes the group.
Harmless(s, u) ==
  \A i \in 1..Len(s) : /\ s[i].kind = "part" => s[i].user # u
                       /\ s[i].kind = "meta" => s[i].status # "Closed"

\* What a change of a group relies on when nobody else changes the group: a
\* creator is the first member and its admin, an admin at work remains one, and
\* somebody who goes leaves an admin or nobody behind.
Sound(x, m, st) ==
  LET r == x.req
  IN /\ x.pc = "write" /\ r.rpc = "CreateGroup" =>
          st # "Closed" /\ (Adm(m, r.user) \/ (Crowd(m) = {} /\ Foremost(x.todo, r.user)))
     /\ Steady(r) => /\ st # "Closed" /\ Adm(m, r.user)
                     /\ x.pc = "write" => Harmless(x.todo, r.user)
     /\ Departs(r) => /\ x.pc = "find" \/ Pends(x.todo, "part") => Stays(m, r.user)
                      /\ x.pc = "write" /\ Pends(x.todo, "meta") => Crowd(m) = {}

GroupsFit ==
  /\ \A k \in Convs : Type(k) = "Group" /\ ~Raced(k) => Led(part[k], meta[k])
  /\ \A c \in Calls :
       /\ call[c].pc \in {"find", "write"} /\ call[c].req.rpc \in Changing
       /\ ~Raced(call[c].conv)
       => Sound(call[c], part[call[c].conv], meta[call[c].conv])

LEMMA ForemostTail ==
  ASSUME NEW k, NEW s, Todo(s, k), NEW u, Foremost(s, u)
  PROVE  /\ Head(s).kind = "part" => Head(s).user = u
         /\ Head(s).kind # "part" => Foremost(Tail(s), u)
<1> DEFINE t == Tail(s)
<1>1. s \in Seq(WriteOps(k)) /\ s # <<>> BY DEF Todo
<1>2. /\ Len(t) = Len(s) - 1 /\ Len(s) \in Nat /\ Head(s) = s[1] /\ 1 \in 1..Len(s)
      /\ \A i \in 1..(Len(s) - 1) : t[i] = s[i + 1]
  BY <1>1, TailIs
<1> HIDE DEF t
<1>3. Head(s).kind = "part" => Head(s).user = u BY <1>2 DEF Foremost
<1>4. ASSUME Head(s).kind # "part"
      PROVE  Foremost(t, u)
  <2> SUFFICES ASSUME NEW i \in 1..Len(t), t[i].kind = "part", t[i].user # u
               PROVE  \E j \in 1..(i - 1) : t[j].kind = "part" /\ t[j].user = u
    BY DEF Foremost
  <2>1. t[i] = s[i + 1] /\ i + 1 \in 1..Len(s) /\ i + 1 - 1 = i BY <1>2
  <2>2. PICK j \in 1..i : s[j].kind = "part" /\ s[j].user = u BY <2>1 DEF Foremost
  <2>3. j # 1 BY <1>2, <1>4, <2>2
  <2>4. j - 1 \in 1..(i - 1) /\ t[j - 1] = s[j] BY <1>2, <2>3
  <2> QED BY <2>2, <2>4
<1> QED BY <1>3, <1>4 DEF t

LEMMA EntryTail ==
  ASSUME NEW k, NEW s, Todo(s, k)
  PROVE  /\ \A kind : Pends(Tail(s), kind) => Pends(s, kind)
         /\ \A kind : Head(s).kind = kind => Pends(s, kind)
         /\ \A u : Harmless(s, u) => /\ Harmless(Tail(s), u)
                                     /\ Head(s).kind = "part" => Head(s).user # u
                                     /\ Head(s).kind = "meta" => Head(s).status # "Closed"
<1> DEFINE t == Tail(s)
<1>1. s \in Seq(WriteOps(k)) /\ s # <<>> BY DEF Todo
<1>2. /\ Len(t) = Len(s) - 1 /\ Len(s) \in Nat /\ Head(s) = s[1] /\ 1 \in 1..Len(s)
      /\ \A i \in 1..(Len(s) - 1) : t[i] = s[i + 1]
  BY <1>1, TailIs
<1> HIDE DEF t
<1>3. \A i \in 1..Len(t) : t[i] = s[i + 1] /\ i + 1 \in 1..Len(s) BY <1>2
<1>4. \A kind : Pends(t, kind) => Pends(s, kind) BY <1>3 DEF Pends
<1>5. \A kind : Head(s).kind = kind => Pends(s, kind) BY <1>2 DEF Pends
<1>6. \A u : Harmless(s, u) => /\ Harmless(t, u)
                               /\ Head(s).kind = "part" => Head(s).user # u
                               /\ Head(s).kind = "meta" => Head(s).status # "Closed"
  BY <1>2, <1>3 DEF Harmless
<1> QED BY <1>4, <1>5, <1>6 DEF t

\* A change that is alone keeps the group in order with every write, whether the
\* call goes on after it (as y) or not.
LEMMA SoundWrite ==
  ASSUME NEW k, NEW x, NEW y, x.pc = "write", Todo(x.todo, k), x.req.rpc \in Changing,
         x.req.user \in Users, NEW m \in [Users -> {None} \cup Members], NEW st, Sound(x, m, st),
         NEW w, w = Head(x.todo), Planned(w, x.req),
         w.kind = "part" => w.user \in Users /\ w.member \in Members,
         x.req.rpc = "CreateGroup" \/ Led(m, st),
         NEW m2, m2 = IF w.kind = "part" THEN [m EXCEPT ![w.user] = w.member] ELSE m,
         NEW st2, st2 = IF w.kind = "meta" THEN w.status ELSE st
  PROVE  /\ Led(m2, st2)
         /\ y.pc = "write" /\ y.req = x.req /\ y.todo = Tail(x.todo) => Sound(y, m2, st2)
<1> DEFINE r == x.req
           u == x.req.user
           t == Tail(x.todo)
<1>0. /\ \A kind : Pends(t, kind) => Pends(x.todo, kind)
      /\ \A kind : w.kind = kind => Pends(x.todo, kind)
      /\ \A v : Harmless(x.todo, v) => /\ Harmless(t, v)
                                       /\ w.kind = "part" => w.user # v
                                       /\ w.kind = "meta" => w.status # "Closed"
      /\ \A v : Foremost(x.todo, v) => /\ w.kind = "part" => w.user = v
                                       /\ w.kind # "part" => Foremost(t, v)
  BY EntryTail, ForemostTail
<1>1. /\ w.kind = "part" => m2[w.user] = w.member /\ w.member # None
      /\ \A v \in Users : w.kind # "part" \/ v # w.user => m2[v] = m[v]
  BY NoneAssumption
<1>2. \A v \in Users : w.kind # "part" \/ v # w.user =>
        (Act(m2, v) <=> Act(m, v)) /\ (Adm(m2, v) <=> Adm(m, v))
  BY <1>1 DEF Act, Adm
<1>3. \A v \in Users : Adm(m, v) => v \in Crowd(m) BY DEF Adm, Crowd
<1>5. CASE r.rpc = "CreateGroup"
  <2>1. st # "Closed" /\ (Adm(m, u) \/ (Crowd(m) = {} /\ Foremost(x.todo, u)))
    BY <1>5 DEF Sound
  <2>2. st2 # "Closed" BY <1>5, <2>1 DEF Planned
  <2>3. w.kind = "part" => w.member.status = "Active" /\ (w.user = u => w.member.role = "Admin")
    BY <1>5 DEF Planned
  <2>4. ~Steady(r) /\ ~Departs(r) BY <1>5 DEF Steady, Departs
  <2>5. Adm(m2, u) \/ (Crowd(m2) = {} /\ Foremost(t, u))
    <3>1. CASE w.kind = "part" /\ w.user = u BY <1>1, <2>3, <3>1 DEF Adm, Act
    <3>2. CASE w.kind = "part" /\ w.user # u
      <4>1. Adm(m, u) BY <1>0, <2>1, <3>2
      <4>2. m2[u] = m[u] BY <3>2
      <4> QED BY <4>1, <4>2 DEF Adm, Act
    <3>3. CASE w.kind # "part"
      <4>1. m2 = m BY <3>3
      <4> QED BY <1>0, <2>1, <3>3, <4>1
    <3> QED BY <3>1, <3>2, <3>3
  <2> QED BY <2>2, <2>4, <2>5 DEF Sound, Led
<1>6. CASE Steady(r)
  <2>1. st # "Closed" /\ Adm(m, u) /\ Harmless(x.todo, u) BY <1>6 DEF Sound
  <2>2. st2 # "Closed" /\ Adm(m2, u) /\ Harmless(t, u) BY <1>0, <1>2, <2>1
  <2>3. r.rpc # "CreateGroup" /\ ~Departs(r) BY <1>6 DEF Steady, Departs
  <2> QED BY <2>2, <2>3 DEF Sound, Led
<1>7. CASE Departs(r)
  <2>1. /\ Pends(x.todo, "part") => Stays(m, u)
        /\ Pends(x.todo, "meta") => Crowd(m) = {}
    BY <1>7 DEF Sound
  <2>2. r.rpc # "CreateGroup" /\ ~Steady(r) /\ Led(m, st) BY <1>7 DEF Steady, Departs
  <2>3. w.kind = "part" => w.user = u /\ ~Act(m2, u)
    <3>1. w.kind = "part" => w.user = u /\ w.member.status # "Active"
      BY <1>7 DEF Planned, Departs
    <3> QED BY <1>1, <3>1 DEF Act
  <2>4. Crowd(m2) \subseteq Crowd(m) BY <1>2, <2>3 DEF Crowd
  <2>5. CASE w.kind = "part"
    <3>1. Stays(m, u) /\ st2 = st BY <1>0, <2>1, <2>5
    <3>2. Led(m2, st2)
      <4> SUFFICES ASSUME NEW v \in Crowd(m2)
                   PROVE  st # "Closed" /\ \E a \in Users : Adm(m2, a)
        BY <3>1 DEF Led
      <4>1. v \in Crowd(m) /\ v # u BY <2>3, <2>4, <2>5 DEF Crowd
      <4>2. st # "Closed" /\ \E a \in Users : Adm(m, a) BY <2>2, <4>1 DEF Led
      <4>3. \E a \in Users \ {u} : Adm(m, a) BY <3>1, <4>1, <4>2 DEF Stays
      <4> QED BY <1>2, <2>3, <2>5, <4>2, <4>3
    <3>3. Stays(m2, u) BY <2>3, <2>5 DEF Stays, Adm
    <3>4. Pends(t, "meta") => Crowd(m2) = {} BY <1>0, <2>1, <2>4
    <3> QED BY <2>2, <3>2, <3>3, <3>4 DEF Sound
  <2>6. CASE w.kind # "part"
    <3>1. m2 = m BY <2>6
    <3>2. Led(m2, st2)
      <4>1. CASE w.kind = "meta" BY <1>0, <2>1, <3>1, <4>1 DEF Led
      <4>2. CASE w.kind # "meta" BY <2>2, <3>1, <4>2
      <4> QED BY <4>1, <4>2
    <3>3. Pends(t, "part") => Stays(m2, u) BY <1>0, <2>1, <3>1
    <3>4. Pends(t, "meta") => Crowd(m2) = {} BY <1>0, <2>1, <3>1
    <3> QED BY <2>2, <3>2, <3>3, <3>4 DEF Sound
  <2> QED BY <2>5, <2>6
<1> QED BY <1>5, <1>6, <1>7 DEF Changing, Steady, Departs

LEMMA ActIs ==
  ASSUME NEW k, NEW u
  PROVE  /\ IsActive(k, u) <=> Act(part[k], u)
         /\ IsAdmin(k, u) <=> Adm(part[k], u)
         /\ ListActive(k) = Crowd(part[k])
         /\ IsClosed(k) <=> meta[k] = "Closed"
  BY DEF IsActive, IsAdmin, ListActive, IsClosed, Act, Adm, Crowd

LEMMA StaysIs ==
  ASSUME NEW k, NEW u \in Users, AdminStays(u, k)
  PROVE  Stays(part[k], u)
<1>1. IsAdmin(k, u) /\ ListActive(k) \ {u} # {} => \E o \in ListActive(k) \ {u} : IsAdmin(k, o)
  BY DEF AdminStays
<1>2. ListActive(k) \subseteq Users BY DEF ListActive
<1> QED BY <1>1, <1>2, ActIs DEF Stays

LEMMA MemberWrites ==
  ASSUME NEW k, NEW v, NEW row, NEW a, NEW e, NEW last, NEW s,
         s = << SavePart(k, v, row), Touch(k, v, a), Event(k, e), last >>
  PROVE  /\ Len(s) = 4 /\ s[1].kind = "part" /\ s[1].user = v /\ s[2].kind = "touch"
         /\ s[3].kind = "event" /\ s[4] = last
<1>1. /\ Len(s) = 4 /\ s[1] = SavePart(k, v, row) /\ s[2] = Touch(k, v, a)
      /\ s[3] = Event(k, e) /\ s[4] = last
  OBVIOUS
<1>2. /\ SavePart(k, v, row).kind = "part" /\ SavePart(k, v, row).user = v
      /\ Touch(k, v, a).kind = "touch" /\ Event(k, e).kind = "event"
  BY DEF SavePart, Touch, Event
<1> QED BY <1>1, <1>2

\* The row that is read before the writes: they follow from it.
LEMMA SoundFinds ==
  ASSUME TablesFit, NEW c \in Calls, Finds(c), Seeks(call[c]),
         Sound(call[c], part[call[c].conv], meta[call[c].conv])
  PROVE  Sound(call'[c], part[call[c].conv], meta[call[c].conv])
<1> DEFINE x == call[c]
           y == call'[c]
           r == x.req
           k == x.conv
           u == r.user
           v == r.target
           m == part[k]
           st == meta[k]
<1>1. /\ x.pc = "find" /\ y.pc = "write" /\ y.req = r
      /\ \/ r.rpc = "AddParticipant" /\ y.todo = AddWrites(r.conv, v)
         \/ r.rpc = "RemoveParticipant" /\ y.todo = RemoveWrites(r.conv, v)
         \/ r.rpc = "LeaveConversation" /\ y.todo = LeaveWrites(r.conv, u)
         \/ /\ r.rpc = "UpdateConversationMetadata" /\ meta[r.conv] # None
            /\ y.todo = UpdateWrites(r.conv)
  BY DEF Finds, Moved
<1>2. k = r.conv /\ k \in Convs /\ u \in Users /\ r.rpc \in Changing \ {"CreateGroup"}
  BY DEF Seeks
<1>3. /\ Steady(r) => st # "Closed" /\ Adm(m, u)
      /\ Departs(r) => Stays(m, u)
  BY <1>1 DEF Sound
<1>4. Steady(r) => Harmless(y.todo, u)
  <2>1. ASSUME NEW s, Len(s) = 1, s[1].kind = "details"
        PROVE  Harmless(s, u)
    BY <2>1 DEF Harmless
  <2>2. ASSUME NEW s, Len(s) = 4, s[1].kind = "part", s[1].user # u, s[2].kind = "touch",
               s[3].kind = "event", s[4].kind = "details"
        PROVE  Harmless(s, u)
    <3>1. \A i \in 1..4 : i = 1 \/ i = 2 \/ i = 3 \/ i = 4 OBVIOUS
    <3> QED BY <2>2, <3>1 DEF Harmless
  <2>3. ASSUME NEW s, Len(s) = 3, s[1].kind = "meta", s[1].status # "Closed",
               s[2].kind = "event", s[3].kind = "details"
        PROVE  Harmless(s, u)
    <3>1. \A i \in 1..3 : i = 1 \/ i = 2 \/ i = 3 OBVIOUS
    <3> QED BY <2>3, <3>1 DEF Harmless
  <2>4. CASE r.rpc = "AddParticipant" /\ y.todo = AddWrites(k, v)
    <3> DEFINE row == IF part[k][v] = None THEN Member("Member", "Active")
                      ELSE [part[k][v] EXCEPT !.status = "Active"]
    <3>1. /\ IsActive(k, v) => y.todo = << ThenDetails(k) >>
          /\ ~IsActive(k, v) => y.todo = << SavePart(k, v, row), Touch(k, v, "Active"),
                                            Event(k, "Joined"), ThenDetails(k) >>
      BY <2>4 DEF AddWrites
    <3> HIDE DEF row
    <3>2. ThenDetails(k).kind = "details" BY DEF ThenDetails
    <3>3. CASE IsActive(k, v)
      <4>1. Len(y.todo) = 1 /\ y.todo[1] = ThenDetails(k) BY <3>1, <3>3
      <4> QED BY <2>1, <3>2, <4>1
    <3>4. CASE ~IsActive(k, v)
      <4>1. y.todo = << SavePart(k, v, row), Touch(k, v, "Active"), Event(k, "Joined"),
                        ThenDetails(k) >>
        BY <3>1, <3>4
      <4>2. /\ Len(y.todo) = 4 /\ y.todo[1].kind = "part" /\ y.todo[1].user = v
            /\ y.todo[2].kind = "touch" /\ y.todo[3].kind = "event"
            /\ y.todo[4] = ThenDetails(k)
        BY <4>1, MemberWrites
      <4>3. Steady(r) => v # u BY <1>3, <3>4, ActIs DEF Adm
      <4> QED BY <2>2, <3>2, <4>2, <4>3
    <3> QED BY <3>3, <3>4
  <2>5. CASE r.rpc = "RemoveParticipant" /\ y.todo = RemoveWrites(k, v)
    <3> DEFINE row == [part[k][v] EXCEPT !.status = "Removed"]
    <3>1. y.todo = << SavePart(k, v, row), Touch(k, v, "Removed"), Event(k, "Removed"), ThenDetails(k) >>
      BY <2>5 DEF RemoveWrites
    <3> HIDE DEF row
    <3>2. /\ Len(y.todo) = 4 /\ y.todo[1].kind = "part" /\ y.todo[1].user = v
          /\ y.todo[2].kind = "touch" /\ y.todo[3].kind = "event" /\ y.todo[4] = ThenDetails(k)
      BY <3>1, MemberWrites
    <3>3. ThenDetails(k).kind = "details" /\ ThenClose(k).kind = "close" BY OpKinds
    <3>4. Steady(r) => v # u BY <2>5 DEF Steady
    <3> QED BY <2>2, <3>2, <3>3, <3>4
  <2>6. CASE r.rpc = "UpdateConversationMetadata" /\ y.todo = UpdateWrites(k)
    <3> DEFINE s == << SaveMeta(k, st), Event(k, "Updated"), ThenDetails(k) >>
    <3>1. y.todo = s BY <2>6 DEF UpdateWrites
    <3>2. /\ Len(s) = 3 /\ s[1].kind = "meta" /\ s[1].status = st
          /\ s[2].kind = "event" /\ s[3].kind = "details"
      BY OpKinds
    <3> HIDE DEF s
    <3> QED BY <1>3, <2>3, <3>1, <3>2
  <2>7. CASE r.rpc = "LeaveConversation" BY <2>7 DEF Steady
  <2> QED BY <1>1, <1>2, <2>4, <2>5, <2>6, <2>7
<1>5. Departs(r) => ~Pends(y.todo, "meta")
  <2>1. ASSUME NEW s, Len(s) = 4, s[1].kind = "part", s[2].kind = "touch",
               s[3].kind = "event", s[4].kind \in {"details", "close"}
        PROVE  ~Pends(s, "meta")
    <3>1. \A i \in 1..4 : i = 1 \/ i = 2 \/ i = 3 \/ i = 4 OBVIOUS
    <3> QED BY <2>1, <3>1 DEF Pends
  <2>2. CASE r.rpc = "RemoveParticipant" /\ y.todo = RemoveWrites(k, v)
    <3> DEFINE row == [part[k][v] EXCEPT !.status = "Removed"]
    <3>1. y.todo = << SavePart(k, v, row), Touch(k, v, "Removed"), Event(k, "Removed"), ThenDetails(k) >>
      BY <2>2 DEF RemoveWrites
    <3> HIDE DEF row
    <3>2. /\ Len(y.todo) = 4 /\ y.todo[1].kind = "part" /\ y.todo[1].user = v
          /\ y.todo[2].kind = "touch" /\ y.todo[3].kind = "event" /\ y.todo[4] = ThenDetails(k)
      BY <3>1, MemberWrites
    <3>3. ThenDetails(k).kind = "details" /\ ThenClose(k).kind = "close" BY OpKinds
    <3> QED BY <2>1, <3>2, <3>3
  <2>3. CASE r.rpc = "LeaveConversation" /\ y.todo = LeaveWrites(k, u)
    <3> DEFINE row == [part[k][u] EXCEPT !.status = "Left"]
    <3>1. y.todo = << SavePart(k, u, row), Touch(k, u, "Left"), Event(k, "Left"), ThenClose(k) >>
      BY <2>3 DEF LeaveWrites
    <3> HIDE DEF row
    <3>2. /\ Len(y.todo) = 4 /\ y.todo[1].kind = "part" /\ y.todo[1].user = u
          /\ y.todo[2].kind = "touch" /\ y.todo[3].kind = "event" /\ y.todo[4] = ThenClose(k)
      BY <3>1, MemberWrites
    <3>3. ThenDetails(k).kind = "details" /\ ThenClose(k).kind = "close" BY OpKinds
    <3> QED BY <2>1, <3>2, <3>3
  <2> QED BY <1>1, <1>2, <2>2, <2>3 DEF Departs
<1> HIDE DEF r, k, u, v, m, st
<1>6. r.rpc # "CreateGroup" BY <1>2
<1>7. Sound(y, m, st) BY <1>1, <1>3, <1>4, <1>5, <1>6 DEF Sound, u
<1> QED BY <1>7 DEF m, st, k

\* The one who left looks for those who are left.
LEMMA SoundCloses ==
  ASSUME NEW c \in Calls, Closes(c), NEW k, k = Head(call[c].todo).conv,
         call[c].req.rpc = "LeaveConversation", NEW st
  PROVE  Sound(call'[c], part[k], st)
<1> DEFINE y == call'[c]
           s == << SaveMeta(k, "Closed"), Event(k, "Closed"), ThenReply(k) >>
           t == << ThenReply(k) >>
<1>1. /\ y.pc = "write" /\ y.req = call[c].req
      /\ y.todo = IF ListActive(k) = {} /\ meta[k] # None THEN s ELSE t
  BY DEF Closes, Moved
<1>2. /\ Len(s) = 3 /\ s[1].kind = "meta" /\ s[2].kind = "event" /\ s[3].kind = "reply"
      /\ Len(t) = 1 /\ t[1].kind = "reply"
  BY OpKinds
<1> HIDE DEF s, t
<1>3. ~Pends(t, "meta") /\ ~Pends(t, "part") BY <1>2 DEF Pends
<1>4. ~Pends(s, "part")
  <2>1. \A i \in 1..3 : i = 1 \/ i = 2 \/ i = 3 OBVIOUS
  <2> QED BY <1>2, <2>1 DEF Pends
<1>5. ~Pends(y.todo, "part") /\ (Pends(y.todo, "meta") => Crowd(part[k]) = {})
  BY <1>1, <1>3, <1>4, ActIs
<1>6. ~Steady(y.req) /\ y.req.rpc # "CreateGroup" BY <1>1 DEF Steady
<1> QED BY <1>1, <1>5, <1>6 DEF Sound

\* A change that arrives was allowed.
LEMMA SoundArrives ==
  ASSUME Fits, ConvFits, RowsFit, NEW c \in Calls, NEW r \in Request, ConversationCall(c, r),
         call'[c].pc \in {"find", "write"}, r.rpc \in Changing
  PROVE  Sound(call'[c], part[call'[c].conv], meta[call'[c].conv])
<1> DEFINE y == call'[c]
           k == lastConv + 1
<1>0. ConversationArrival(c, r) /\ TablesFit BY DEF ConversationCall, ConvFits
<1>1. /\ r.user \in Users \cup {None} /\ r.conv \in Convs \cup {None}
      /\ r.target \in Users \cup {None} /\ r.people \in SUBSET Users
  BY RequestFields
<1>2. ~Refused(y, r) /\ r.rpc \notin {"CreateDirect", "GetConversation", "ListConversations"}
  BY DEF Refused, Changing
<1>3. CASE r.rpc = "CreateGroup" /\ GroupRequest(c, r)
  <2> DEFINE s == CreateGroupWrites(k, r.user, r.people)
  <2>1. /\ r.user \in Users /\ lastConv < MaxConversations /\ Converses(y, r, "write", clock, k, s)
    BY <1>1, <1>3 DEF GroupRequest
  <2>2. GroupList(s, k, r.user, r.people) BY <1>1, <2>1, GroupWritesAre
  <2> HIDE DEF s
  <2>3. y.req = r /\ y.pc = "write" /\ y.todo = s /\ y.conv = k
    BY <2>1 DEF Converses, Accepted
  <2>4. k \in Convs /\ k > lastConv
    BY <1>0, <2>1, ConversationsAssumption DEF TablesFit, Convs
  <2>5. meta[k] = None /\ \A u \in Users : part[k][u] = None BY <2>4 DEF RowsFit
  <2>6. meta[k] # "Closed" /\ Crowd(part[k]) = {} BY <2>5, NoneAssumption DEF Crowd, Act
  <2>7. Foremost(s, r.user)
    <3>1. Len(s) \in Nat /\ Len(s) >= 6 BY <2>2 DEF GroupList, Todo
    <3>2. /\ s[1].kind = "conversation" /\ s[2].kind = "meta"
          /\ s[3].kind = "part" /\ s[3].user = r.user
      BY <2>2, OpKinds DEF GroupList
    <3>3. \A i \in 1..Len(s) : i = 1 \/ i = 2 \/ i = 3 \/ 3 \in 1..(i - 1) BY <3>1
    <3> QED BY <3>2, <3>3 DEF Foremost
  <2>8. ~Steady(r) /\ ~Departs(r) BY <1>3 DEF Steady, Departs
  <2> QED BY <2>3, <2>6, <2>7, <2>8 DEF Sound
<1>4. CASE r.rpc \in Changing \ {"CreateGroup"} /\ ChangeRequest(c, r)
  <2> DEFINE j == r.conv
  <2>1. y.req = r /\ y.pc = "find" /\ y.conv = j /\ r.user \in Users
    BY <1>1, <1>4 DEF ChangeRequest, Converses, Accepted
  <2>2. Steady(r) => ~IsClosed(j) /\ IsAdmin(j, r.user) BY <1>4 DEF ChangeRequest, Steady
  <2>3. Departs(r) => AdminStays(r.user, j) BY <1>4 DEF ChangeRequest, Departs
  <2>4. /\ Steady(r) => meta[j] # "Closed" /\ Adm(part[j], r.user)
        /\ Departs(r) => Stays(part[j], r.user)
    BY <2>1, <2>2, <2>3, ActIs, StaysIs
  <2> QED BY <2>1, <2>4 DEF Sound
<1> QED BY <1>0, <1>2, <1>3, <1>4 DEF ConversationArrival

LEMMA SoundSame ==
  ASSUME NEW x, NEW y, Same(x, y), NEW m, NEW st, Sound(x, m, st)
  PROVE  Sound(y, m, st)
<1>1. y.pc = x.pc /\ y.req = x.req /\ y.todo = x.todo BY DEF Same
<1> QED BY <1>1 DEF Sound

\* A direct conversation that is being created is no group.
LEMMA DirectIsApart ==
  ASSUME ConvFits, RowsFit, NEW c \in Calls, NEW d \in Calls, c # d,
         Makes(call[c]), call[c].req.rpc = "CreateDirect",
         call[d].pc \in {"find", "write"}, call[d].req.rpc \in Changing
  PROVE  call[d].conv # call[c].conv
<1> DEFINE x == call[c]
           z == call[d]
           k == x.conv
<1> SUFFICES ASSUME z.conv = k PROVE FALSE OBVIOUS
<1>1. /\ Rowed(x, conversations, lastConv) /\ Rowed(z, conversations, lastConv)
      /\ ConvCall(z, part)
  BY DEF RowsFit, ConvFits
<1>2. conversations[k] \in {None, NewRow(x.req)} /\ NewRow(x.req).type = "Direct"
  BY <1>1 DEF Rowed, Makes, NewRow
<1>3. CASE z.req.rpc # "CreateGroup"
  <2>1. Grouped(conversations, k) BY <1>1, <1>3 DEF Rowed
  <2> QED BY <1>2, <2>1 DEF Grouped
<1>4. CASE z.req.rpc = "CreateGroup"
  <2>1. z.pc = "write" /\ z.req.rpc \in Creating BY <1>1, <1>4 DEF ConvCall, Seeks, Creating
  <2>2. ~Makes(z) BY DEF RowsFit
  <2>3. Todo(z.todo, k) /\ Straight(z.todo) /\ NewRow(z.req) \in ConversationRows
    BY <1>1, <2>1 DEF ConvCall, Rowed
  <2>4. Len(z.todo) = 1
    <3>1. Len(z.todo) \in Nat /\ Len(z.todo) > 0 /\ ~(Len(z.todo) > 1)
      BY <2>1, <2>2, <2>3 DEF Makes, Todo
    <3>2. \A n \in Nat : n > 0 /\ ~(n > 1) => n = 1 OBVIOUS
    <3> QED BY <3>1, <3>2
  <2>5. ~Pends(z.todo, "conversation") BY <2>3, <2>4, StraightHead DEF Ends
  <2>6. conversations[k] = NewRow(z.req) /\ NewRow(z.req).type = "Group"
    BY <1>1, <1>4, <2>1, <2>5 DEF Rowed, NewRow
  <2> QED BY <1>2, <2>3, <2>6, NoneAssumption
<1> QED BY <1>3, <1>4

LEMMA TypeIs ==
  ASSUME NEW k
  PROVE  Type(k) = "Group" <=> Grouped(conversations, k)
  BY DEF Type, Grouped

\* The group whose change makes a write.
LEMMA GroupsWritten ==
  ASSUME Fits, ConvFits, RowsFit, GroupsFit, NEW c \in Calls, Conversed(c), Writing(c),
         call[c].req.rpc \in Changing, ~Raced(call[c].conv)
  PROVE  LET k == call[c].conv
         IN Led(part'[k], meta'[k]) /\ (Advances(c) => Sound(call'[c], part'[k], meta'[k]))
<1> DEFINE x == call[c]
           y == call'[c]
           w == Head(x.todo)
           k == x.conv
           m == part[k]
           st == meta[k]
<1>1. /\ x.pc = "write" /\ k \in Convs /\ Todo(x.todo, k) /\ w \in WriteOps(k) /\ w.conv = k
      /\ Planned(w, x.req) /\ Effect(w)
  BY DEF Writing
<1>2. Sound(x, m, st) BY <1>1 DEF GroupsFit
<1>3. x.req.rpc = "CreateGroup" \/ Led(m, st)
  <2>1. x.req.rpc # "CreateGroup" => Grouped(conversations, k) BY <1>1 DEF RowsFit, Rowed
  <2> QED BY <1>1, <2>1, TypeIs DEF GroupsFit
<1>4. x.req.user \in Users /\ m \in [Users -> {None} \cup Members]
  BY <1>1 DEF ConvFits, ConvCall, TablesFit
<1>5. w.kind = "part" => w.user \in Users /\ w.member \in Members BY <1>1, WriteOpFields
<1>6. part'[k] = IF w.kind = "part" THEN [m EXCEPT ![w.user] = w.member] ELSE m
  BY <1>1, <1>5 DEF Effect, ConvFits, TablesFit
<1>7. meta'[k] = IF w.kind = "meta" THEN w.status ELSE st
  BY <1>1 DEF Effect, ConvFits, TablesFit
<1>8. Advances(c) => y.pc = "write" /\ y.req = x.req /\ y.todo = Tail(x.todo)
  BY DEF Advances, Moved
<1> DEFINE m2 == part'[k]
           st2 == meta'[k]
<1> HIDE DEF x, y, w, m, st, m2, st2, k
<1>9. m2 = (IF w.kind = "part" THEN [m EXCEPT ![w.user] = w.member] ELSE m) BY <1>6 DEF m2
<1>10. st2 = (IF w.kind = "meta" THEN w.status ELSE st) BY <1>7 DEF st2
<1>11. w = Head(x.todo) /\ x.req.rpc \in Changing BY DEF w, x
<1>12. /\ Led(m2, st2)
       /\ y.pc = "write" /\ y.req = x.req /\ y.todo = Tail(x.todo) => Sound(y, m2, st2)
  <2>1. x.pc = "write" /\ Todo(x.todo, k) /\ Planned(w, x.req) BY <1>1
  <2>2. x.req.user \in Users BY <1>4
  <2>3. m \in [Users -> {None} \cup Members] BY <1>4
  <2>4. w = Head(x.todo) BY <1>11
  <2>5. x.req.rpc \in Changing BY <1>11
  <2> QED BY <1>2, <1>3, <1>5, <1>9, <1>10, <2>1, <2>2, <2>3, <2>4, <2>5, SoundWrite
<1> QED BY <1>8, <1>12 DEF m2, st2, k, x, y

LEMMA GroupsNext ==
  ASSUME Fits, ConvFits, RowsFit, Meets, GroupsFit, [Next]_vars
  PROVE  GroupsFit'
<1>0. Remains /\ TablesFit /\ ConvFits' /\ Fits'
  BY MeetsNext, ConvFitsNext, FitsNext DEF ConvFits
<1>a. \A k \in Convs : ~Raced(k)' => ~Raced(k) BY <1>0, RacedStays
<1>b. \A c \in Calls : /\ call[c].pc \in {"find", "write"} => call[c].conv \in Convs
                       /\ call'[c].pc \in {"find", "write"} => call'[c].conv \in Convs
  BY <1>0, ConvOf DEF ConvFits
<1>c. ASSUME NEW k \in Convs, Type(k)' = "Group", Quiet(k), ~Raced(k)'
      PROVE  Led(part'[k], meta'[k])
  <2>1. Type(k) = "Group" BY <1>c DEF Quiet, Type
  <2> QED BY <1>a, <1>c, <2>1 DEF GroupsFit, Quiet
<1>d. ASSUME NEW d \in Calls, Same(call[d], call'[d]), Quiet(call[d].conv),
             call'[d].pc \in {"find", "write"}, call'[d].req.rpc \in Changing,
             ~Raced(call[d].conv)
      PROVE  Sound(call'[d], part'[call'[d].conv], meta'[call'[d].conv])
  <2>1. /\ call[d].pc \in {"find", "write"} /\ call[d].req.rpc \in Changing
        /\ call'[d].conv = call[d].conv
    BY <1>d DEF Same
  <2>2. Sound(call[d], part[call[d].conv], meta[call[d].conv]) BY <1>d, <2>1 DEF GroupsFit
  <2>3. part'[call[d].conv] = part[call[d].conv] /\ meta'[call[d].conv] = meta[call[d].conv]
    BY <1>d DEF Quiet
  <2> QED BY <1>d, <2>1, <2>2, <2>3, SoundSame
<1>e. ASSUME \A k \in Convs : Type(k)' = "Group" /\ ~Raced(k)' => Led(part'[k], meta'[k]),
             \A c \in Calls, k \in Convs :
               /\ call'[c].pc \in {"find", "write"} /\ call'[c].req.rpc \in Changing
               /\ call'[c].conv = k /\ ~Raced(k)'
               => Sound(call'[c], part'[call'[c].conv], meta'[call'[c].conv])
      PROVE  GroupsFit'
  BY <1>b, <1>e DEF GroupsFit, Raced, Type
<1>1. CASE Elsewhere
  <2>1. \A k : Quiet(k) BY <1>1 DEF Elsewhere, convVars, Quiet
  <2>2. ASSUME NEW c \in Calls, call'[c].pc \in {"find", "write"}, call'[c].req.rpc \in Changing,
               NEW i \in Convs, call'[c].conv = i, ~Raced(i)'
        PROVE  Sound(call'[c], part'[call'[c].conv], meta'[call'[c].conv])
    <3>1. Same(call[c], call'[c]) BY <1>1, <2>2, RpcKinds DEF Elsewhere
    <3>2. call'[c].conv = call[c].conv /\ call[c].conv \in Convs BY <1>b, <2>2, <3>1 DEF Same
    <3>3. ~Raced(call[c].conv) BY <1>a, <2>2, <3>2
    <3> QED BY <1>d, <2>1, <2>2, <3>1, <3>3
  <2> QED BY <1>c, <1>e, <2>1, <2>2
<1>2. ASSUME NEW c \in Calls, NEW r \in Request, ConversationCall(c, r)
      PROVE  GroupsFit'
  <2>1. (\A k : Quiet(k)) /\ part' = part /\ meta' = meta
    BY <1>2 DEF ConversationCall, OtherTables, Quiet
  <2>2. \A d \in Calls : d # c => Same(call[d], call'[d])
    BY <1>2 DEF ConversationCall, Arrived, Apart
  <2>3. call'[c].req = r BY <1>2, ArrivalStarts DEF Arrival
  <2>4. ASSUME NEW d \in Calls, call'[d].pc \in {"find", "write"}, call'[d].req.rpc \in Changing,
               NEW i \in Convs, call'[d].conv = i, ~Raced(i)'
        PROVE  Sound(call'[d], part'[call'[d].conv], meta'[call'[d].conv])
    <3>1. CASE d = c BY <1>2, <2>1, <2>3, <2>4, <3>1, SoundArrives
    <3>2. CASE d # c
      <4>1. Same(call[d], call'[d]) BY <2>2, <3>2
      <4>2. call'[d].conv = call[d].conv /\ call[d].conv \in Convs
        BY <1>b, <2>4, <4>1 DEF Same
      <4>3. ~Raced(call[d].conv) BY <1>a, <2>4, <4>2
      <4> QED BY <1>d, <2>1, <2>4, <4>1, <4>3
    <3> QED BY <3>1, <3>2
  <2> QED BY <1>c, <1>e, <2>1, <2>4
<1>3. ASSUME NEW c \in Calls, ConversationMove(c), Goings(c)
      PROVE  GroupsFit'
  <2> DEFINE x == call[c]
             y == call'[c]
             w == Head(x.todo)
             k == x.conv
  <2>1. Conversed(c) BY <1>3, ConversationConversed DEF Fits
  <2>2. /\ x.pc \in {"find", "write"} /\ k \in Convs /\ y.conv = k /\ y.req = x.req
        /\ \A d \in Calls : d # c => call'[d] = call[d]
    BY <1>3, <1>b DEF ConversationMove, Goings
  <2>3. CASE TablesSame /\ ~Advances(c)
    <3>1. (\A j : Quiet(j)) /\ part' = part /\ meta' = meta BY <2>3 DEF TablesSame, Quiet
    <3>2. ASSUME NEW d \in Calls, call'[d].pc \in {"find", "write"},
                 call'[d].req.rpc \in Changing, NEW i \in Convs, call'[d].conv = i, ~Raced(i)'
          PROVE  Sound(call'[d], part'[call'[d].conv], meta'[call'[d].conv])
      <4>1. CASE d # c
        <5>1. Same(call[d], call'[d]) /\ call'[d].conv = call[d].conv /\ call[d].conv \in Convs
          BY <1>b, <2>2, <3>2, <4>1 DEF Same
        <5>2. ~Raced(call[d].conv) BY <1>a, <3>2, <5>1
        <5> QED BY <1>d, <3>1, <3>2, <5>1, <5>2
      <4>2. CASE d = c
        <5>1. ~Raced(k) /\ x.req.rpc \in Changing BY <1>a, <2>2, <3>2, <4>2
        <5>2. CASE Finds(c)
          <6>1. Seeks(x) BY <5>2 DEF ConvFits, ConvCall, Finds
          <6>2. Sound(x, part[k], meta[k]) BY <2>2, <5>1 DEF GroupsFit
          <6>3. Sound(y, part[k], meta[k]) BY <1>0, <5>2, <6>1, <6>2, SoundFinds
          <6> QED BY <2>2, <3>1, <4>2, <6>3
        <5>3. CASE Closes(c)
          <6>1. x.pc = "write" /\ w.kind = "close" BY <5>3 DEF Closes
          <6>2. Todo(x.todo, k) /\ Planned(w, x.req) BY <6>1, PlanTail DEF ConvFits, ConvCall
          <6>3. w.conv = k
            <7>1. x.todo \in Seq(WriteOps(k)) /\ x.todo # <<>> BY <6>2 DEF Todo
            <7> QED BY <7>1, TailIs, WriteOpFields
          <6>4. x.req.rpc = "LeaveConversation" BY <6>1, <6>2 DEF Planned
          <6>5. Sound(y, part[k], meta[k]) BY <5>3, <6>3, <6>4, SoundCloses
          <6> QED BY <2>2, <3>1, <4>2, <6>5
        <5>4. y.pc = "done" \/ Finds(c) \/ Closes(c)
          BY <2>1, <2>3 DEF Conversed, Breaks, Misses, Concludes, Fails
        <5> QED BY <3>2, <4>2, <5>2, <5>3, <5>4
      <4> QED BY <4>1, <4>2
    <3> QED BY <1>c, <1>e, <3>1, <3>2
  <2>4. CASE Writing(c)
    <3>1. /\ w.kind \in Group3 => x.req.rpc \in Creating \cup Changing
          /\ x.req.rpc \in Creating => Makes(x) /\ conversations'[k] = NewRow(x.req)
      BY <1>0, <2>4, WritingRows
    <3>2. \A j \in Convs : j # k \/ w.kind \notin Group3 => Quiet(j)
      BY <1>0, <2>4, WritingQuiet
    <3>3. x.req.rpc \in Changing /\ ~Raced(k) =>
            Led(part'[k], meta'[k]) /\ (Advances(c) => Sound(y, part'[k], meta'[k]))
      BY <2>1, <2>4, GroupsWritten
    <3>4. x.pc = "write" BY <2>4 DEF Writing
    <3>5. ASSUME NEW j \in Convs, Type(j)' = "Group", ~Raced(j)'
          PROVE  Led(part'[j], meta'[j])
      <4>1. CASE Quiet(j) BY <1>c, <3>5, <4>1
      <4>2. CASE ~Quiet(j)
        <5>1. j = k /\ x.req.rpc \in Creating \cup Changing BY <3>1, <3>2, <4>2
        <5>2. x.req.rpc # "CreateDirect"
          <6>1. x.req.rpc = "CreateDirect" => conversations'[k].type = "Direct"
            BY <3>1 DEF Creating, NewRow
          <6>2. conversations'[k].type = "Group" BY <3>5, <5>1 DEF Type
          <6> QED BY <6>1, <6>2
        <5>3. x.req.rpc \in Changing BY <5>1, <5>2 DEF Creating, Changing
        <5> QED BY <1>a, <3>3, <3>5, <5>1, <5>3
      <4> QED BY <4>1, <4>2
    <3>6. ASSUME NEW d \in Calls, call'[d].pc \in {"find", "write"},
                 call'[d].req.rpc \in Changing, NEW i \in Convs, call'[d].conv = i, ~Raced(i)'
          PROVE  Sound(call'[d], part'[call'[d].conv], meta'[call'[d].conv])
      <4>1. CASE d # c
        <5>1. /\ Same(call[d], call'[d]) /\ call'[d].conv = call[d].conv /\ call[d].conv \in Convs
              /\ call[d].pc \in {"find", "write"} /\ call[d].req.rpc \in Changing
          BY <1>b, <2>2, <3>6, <4>1 DEF Same
        <5>2. ~Raced(call[d].conv) BY <1>a, <3>6, <5>1
        <5>3. Quiet(call[d].conv)
          <6> SUFFICES ASSUME call[d].conv = k, w.kind \in Group3 PROVE FALSE BY <3>2, <5>1
          <6>1. x.req.rpc \notin Changing BY <2>2, <4>1, <5>1, <5>2, ChangesRace
          <6>2. x.req.rpc = "CreateDirect" /\ Makes(x) BY <3>1, <6>1 DEF Creating, Changing
          <6> QED BY <4>1, <5>1, <6>2, DirectIsApart
        <5> QED BY <1>d, <3>6, <5>1, <5>2, <5>3
      <4>2. CASE d = c
        <5>1. Advances(c)
          <6>1. w.kind \notin Ends BY <2>4 DEF Writing
          <6>2. ~Finds(c) /\ ~Misses(c) BY <3>4 DEF Finds, Misses
          <6>3. ~Closes(c) /\ ~Concludes(c) BY <6>1 DEF Closes, Concludes, Ends
          <6>4. ~Breaks(c) BY <3>6, <4>2 DEF Breaks, Fails
          <6> QED BY <2>1, <6>2, <6>3, <6>4 DEF Conversed
        <5>2. ~Raced(k) /\ x.req.rpc \in Changing BY <1>a, <2>2, <3>6, <4>2
        <5> QED BY <2>2, <3>3, <4>2, <5>1, <5>2
      <4> QED BY <4>1, <4>2
    <3> QED BY <1>e, <3>5, <3>6
  <2> QED BY <2>1, <2>3, <2>4, ConversedWrites
<1> QED BY <1>1, <1>2, <1>3, StepConversations

LEMMA GroupsInit == Init => GroupsFit
<1> SUFFICES ASSUME Init PROVE GroupsFit OBVIOUS
<1>1. /\ conversations = [k \in Convs |-> IF k = 1 THEN [type |-> "Group", pair |-> {}] ELSE None]
      /\ meta = [k \in Convs |-> IF k = 1 THEN "Active" ELSE None]
      /\ part = [k \in Convs |-> [u \in Users |->
             IF k # 1 THEN None
             ELSE IF u \in Admins THEN Member("Admin", "Active")
             ELSE IF u \in Others THEN Member("Member", "Active") ELSE None]]
  BY DEF Init, TasksInit
<1>2. \A c \in Calls : call[c].pc = "idle" BY TablesInit DEF Unused
<1>3. ASSUME NEW k \in Convs, Type(k) = "Group"
      PROVE  Led(part[k], meta[k])
  <2>1. k = 1 BY <1>1, <1>3 DEF Type
  <2>2. meta[k] = "Active" BY <1>1, <2>1
  <2>3. \A u \in Users : part[k][u] = IF u \in Admins THEN Member("Admin", "Active")
                                      ELSE IF u \in Others THEN Member("Member", "Active")
                                      ELSE None
    BY <1>1, <2>1
  <2>4. \A u \in Users : Act(part[k], u) => u \in Admins \cup Others BY <2>3 DEF Act
  <2>5. \A u \in Admins : u \in Users /\ Adm(part[k], u)
    <3>1. Member("Admin", "Active") \in Members /\ Admins \subseteq Users
      BY MembersAre, TasksAssumption
    <3>2. Member("Admin", "Active").status = "Active" /\ Member("Admin", "Active").role = "Admin"
      BY DEF Member
    <3> QED BY <2>3, <3>1, <3>2, NoneAssumption DEF Adm, Act
  <2>6. Others # {} => Admins # {} BY TasksAssumption
  <2>7. Crowd(part[k]) # {} => Admins # {} BY <2>4, <2>6 DEF Crowd
  <2> QED BY <2>2, <2>5, <2>7 DEF Led
<1> QED BY <1>2, <1>3 DEF GroupsFit

LEMMA GroupsOrdered == GroupsFit => GroupInOrder
<1> SUFFICES ASSUME GroupsFit, NEW k \in Convs, Type(k) = "Group", ~Raced(k), ListActive(k) # {}
             PROVE  ~IsClosed(k) /\ \E u \in ListActive(k) : IsAdmin(k, u)
  BY DEF GroupInOrder
<1>1. Led(part[k], meta[k]) BY DEF GroupsFit
<1>2. \A u \in Users : Adm(part[k], u) => u \in ListActive(k) /\ IsAdmin(k, u)
  BY ActIs DEF Adm, Crowd
<1> QED BY <1>1, <1>2, ActIs DEF Led

-----------------------------------------------------------------------------
(***************************************************************************)
(* Direct conversations                                                    *)
(***************************************************************************)

\* No two requests for the pair were under way together.
Unraced(p) == \A e, d \in Calls : Creates(e, p) /\ Creates(d, p) => d \notin call[e].rivals

\* A request for a pair of which q is the conversation: it returns q, and it has
\* something to write only if there was none.
Paired(x, q) ==
  /\ x.answer = "OK" => x.conv = q
  /\ x.pc = "write" /\ Pends(x.todo, "direct") => q = None
  /\ x.pc = "write" /\ ~Pends(x.todo, "direct") => x.conv = q

PairsFit ==
  \A c \in Calls, p \in Pairs : Creates(c, p) /\ Unraced(p) => Paired(call[c], direct[p])

\* The membership of u is still to be written.
Joins(s, u) == \E i \in 1..Len(s) : s[i].kind = "part" /\ s[i].user = u

\* The writes that create the conversation of the request r: one for the pair,
\* and after the row those of both memberships.
Listed(s, r) ==
  /\ \A i, j \in 1..Len(s) : s[i].kind = "direct" /\ s[j].kind = "direct" => i = j
  /\ Pends(s, "conversation") => Joins(s, r.user) /\ Joins(s, r.target)

Writer(x) == x.pc = "write" /\ x.req.rpc = "CreateDirect"
ListsFit == \A c \in Calls : Writer(call[c]) => Listed(call[c].todo, call[c].req)

\* Unless a write failed, who belongs to a direct conversation is in it or will be.
Comes(k, u) ==
  \/ Act(part[k], u)
  \/ \E d \in Calls : Writer(call[d]) /\ call[d].conv = k /\ Joins(call[d].todo, u)
BothIn ==
  /\ faults \in Nat
  /\ faults = 0 =>
       \A k \in Convs : conversations[k] # None /\ conversations[k].type = "Direct" =>
         \A u \in conversations[k].pair : Comes(k, u)

DirectsFit == PairsFit /\ ListsFit /\ BothIn

LEMMA ListedTail ==
  ASSUME NEW k, NEW s, Todo(s, k), NEW r, Listed(s, r)
  PROVE  /\ \A i, j \in 1..Len(Tail(s)) :
              Tail(s)[i].kind = "direct" /\ Tail(s)[j].kind = "direct" => i = j
         /\ Head(s).kind = "direct" => Pends(s, "direct") /\ ~Pends(Tail(s), "direct")
         /\ Head(s).kind # "direct" => (Pends(Tail(s), "direct") <=> Pends(s, "direct"))
         /\ \A u : Joins(s, u) <=> \/ Head(s).kind = "part" /\ Head(s).user = u
                                   \/ Joins(Tail(s), u)
<1> DEFINE t == Tail(s)
<1>1. s \in Seq(WriteOps(k)) /\ s # <<>> BY DEF Todo
<1>2. /\ Len(t) = Len(s) - 1 /\ Len(s) \in Nat /\ Head(s) = s[1] /\ 1 \in 1..Len(s)
      /\ \A i \in 1..(Len(s) - 1) : t[i] = s[i + 1]
  BY <1>1, TailIs
<1> HIDE DEF t
<1>3. \A i \in 1..Len(t) : t[i] = s[i + 1] /\ i + 1 \in 1..Len(s) /\ i + 1 # 1 BY <1>2
<1>4. \A i \in 1..Len(s) : i # 1 => i - 1 \in 1..Len(t) /\ t[i - 1] = s[i] BY <1>2
<1>5. \A i, j \in 1..Len(t) : t[i].kind = "direct" /\ t[j].kind = "direct" => i = j
  <2> SUFFICES ASSUME NEW i \in 1..Len(t), NEW j \in 1..Len(t), t[i].kind = "direct",
                      t[j].kind = "direct"
               PROVE  i = j
    OBVIOUS
  <2>1. i + 1 = j + 1 BY <1>3 DEF Listed
  <2> QED BY <1>2, <2>1
<1>6. Head(s).kind = "direct" => Pends(s, "direct") /\ ~Pends(t, "direct")
  BY <1>2, <1>3 DEF Listed, Pends
<1>7. Head(s).kind # "direct" => (Pends(t, "direct") <=> Pends(s, "direct"))
  <2>1. Pends(t, "direct") => Pends(s, "direct") BY <1>3 DEF Pends
  <2>2. Head(s).kind # "direct" /\ Pends(s, "direct") => Pends(t, "direct")
    BY <1>2, <1>4 DEF Pends
  <2> QED BY <2>1, <2>2
<1>8. ASSUME NEW u
      PROVE  Joins(s, u) <=> (Head(s).kind = "part" /\ Head(s).user = u) \/ Joins(t, u)
  <2>1. Joins(t, u) => Joins(s, u) BY <1>3 DEF Joins
  <2>2. Head(s).kind = "part" /\ Head(s).user = u => Joins(s, u) BY <1>2 DEF Joins
  <2>3. Joins(s, u) => (Head(s).kind = "part" /\ Head(s).user = u) \/ Joins(t, u)
    BY <1>2, <1>4 DEF Joins
  <2> QED BY <2>1, <2>2, <2>3
<1> QED BY <1>5, <1>6, <1>7, <1>8 DEF t

\* The last step of a list neither creates the pair nor a member.
LEMMA LastIsQuiet ==
  ASSUME NEW k, NEW s, Todo(s, k), Straight(s), Head(s).kind \in Ends
  PROVE  ~Pends(s, "direct") /\ \A u : ~Joins(s, u)
<1>1. Len(s) = 1 BY StraightHead
<1>2. Head(s) = s[1]
  <2>1. s \in Seq(WriteOps(k)) /\ s # <<>> BY DEF Todo
  <2> QED BY <2>1, TailIs
<1>3. \A i \in 1..Len(s) : s[i] = Head(s) BY <1>1, <1>2
<1> QED BY <1>3 DEF Pends, Joins, Ends

LEMMA DirectListed ==
  ASSUME NEW k, NEW r
  PROVE  LET s == CreateDirectWrites(k, r.user, r.target)
         IN Listed(s, r) /\ Pends(s, "direct")
<1> DEFINE u == r.user
           v == r.target
           p == DirectPair(u, v)
           row == [type |-> "Direct", pair |-> p]
           m == Member("Member", "Active")
           s == << SaveConv(k, row), SavePair(k, p), SavePart(k, u, m), SavePart(k, v, m),
                   Touch(k, u, "Active"), Touch(k, v, "Active"),
                   Event(k, "Created"), ThenDetails(k) >>
<1>1. CreateDirectWrites(k, u, v) = s BY DEF CreateDirectWrites
<1> HIDE DEF m, row, p
<1>2. /\ Len(s) = 8 /\ s[1].kind = "conversation" /\ s[2].kind = "direct" /\ s[3].kind = "part"
      /\ s[4].kind = "part" /\ s[5].kind = "touch" /\ s[6].kind = "touch"
      /\ s[7].kind = "event" /\ s[8].kind = "details" /\ s[3].user = u /\ s[4].user = v
  BY OpKinds
<1> HIDE DEF s
<1>3. \A i \in 1..8 : i = 1 \/ i = 2 \/ i = 3 \/ i = 4 \/ i = 5 \/ i = 6 \/ i = 7 \/ i = 8
  OBVIOUS
<1>4. \A i \in 1..8 : s[i].kind = "direct" => i = 2 BY <1>2, <1>3
<1>5. 2 \in 1..8 /\ 3 \in 1..8 /\ 4 \in 1..8 OBVIOUS
<1>6. Joins(s, u) /\ Joins(s, v) /\ Pends(s, "direct") BY <1>2, <1>5 DEF Joins, Pends
<1> QED BY <1>1, <1>2, <1>4, <1>6 DEF Listed

LEMMA CreatesStays ==
  ASSUME Remains, NEW c \in Calls, NEW p, Creates(c, p)
  PROVE  Creates(c, p)'
  BY DEF Remains, Creates

LEMMA UnracedBefore ==
  ASSUME Remains, NEW p, Unraced(p)'
  PROVE  Unraced(p)
<1> SUFFICES ASSUME NEW e \in Calls, NEW d \in Calls, Creates(e, p), Creates(d, p),
                    d \in call[e].rivals
             PROVE  FALSE
  BY DEF Unraced
<1>1. Creates(e, p)' /\ Creates(d, p)' BY CreatesStays
<1>2. d \in call'[e].rivals BY DEF Remains, Creates
<1> QED BY <1>1, <1>2 DEF Unraced

LEMMA PairedSame ==
  ASSUME NEW x, NEW y, Same(x, y), NEW q, Paired(x, q)
  PROVE  Paired(y, q)
<1>1. y.pc = x.pc /\ y.conv = x.conv /\ y.todo = x.todo /\ y.answer = x.answer BY DEF Same
<1> QED BY <1>1 DEF Paired

\* A step of a request for a direct conversation.
LEMMA WriterSteps ==
  ASSUME ConvFits, RowsFit, ListsFit, NEW c \in Calls, Conversed(c), Writer(call[c])
  PROVE  LET x == call[c]
             y == call'[c]
         IN /\ x.conv \in Convs /\ Todo(x.todo, x.conv) /\ Straight(x.todo) /\ Listed(x.todo, x.req)
            /\ \/ Advances(c) /\ Writing(c)
               \/ Fails(x, y) /\ faults' = faults + 1
               \/ /\ TablesSame /\ y.pc = "done" /\ y.conv = x.conv
                  /\ ~Pends(x.todo, "direct") /\ \A u : ~Joins(x.todo, u)
<1> DEFINE x == call[c]
           y == call'[c]
           w == Head(x.todo)
<1>1. x.pc = "write" /\ x.req.rpc = "CreateDirect" /\ x.req.rpc \in Creating
  BY DEF Writer, Creating
<1>2. x.conv \in Convs /\ Todo(x.todo, x.conv) /\ Plan(x.todo, x.req)
  BY <1>1 DEF ConvFits, ConvCall
<1>3. Rowed(x, conversations, lastConv) BY DEF RowsFit
<1>4. Straight(x.todo) BY <1>1, <1>3 DEF Rowed
<1>5. Listed(x.todo, x.req) BY DEF ListsFit
<1>6. ~Finds(c) /\ ~Misses(c) BY <1>1 DEF Finds, Misses
<1>7. ~Closes(c)
  <2>1. Planned(w, x.req) BY <1>2, PlanTail
  <2> QED BY <1>1, <2>1 DEF Planned, Closes
<1>8. Advances(c) => Writing(c) BY ConversedWrites
<1>9. Breaks(c) => Fails(x, y) /\ faults' = faults + 1 BY DEF Breaks
<1>10. Concludes(c) => TablesSame /\ y.pc = "done" /\ y.conv = x.conv /\ w.kind \in Ends
  BY DEF Concludes, Moved, Ends
<1>11. w.kind \in Ends => ~Pends(x.todo, "direct") /\ \A u : ~Joins(x.todo, u)
  BY <1>2, <1>4, LastIsQuiet
<1>12. Advances(c) \/ Breaks(c) \/ Concludes(c) BY <1>6, <1>7 DEF Conversed
<1> HIDE DEF x, y, w
<1> QED BY <1>2, <1>4, <1>5, <1>8, <1>9, <1>10, <1>11, <1>12 DEF x, y

\* The pair of a write.
LEMMA DirectWritten ==
  ASSUME TablesFit, NEW c \in Calls, Writing(c), NEW p \in Pairs
  PROVE  LET x == call[c]
             w == Head(x.todo)
         IN /\ Writer(x) /\ w.kind = "direct" /\ Creates(c, p) => direct'[p] = x.conv
            /\ w.kind # "direct" => direct' = direct
            /\ direct'[p] # direct[p] => w.kind = "direct" /\ Writer(x) /\ Creates(c, p)
<1> DEFINE x == call[c]
           w == Head(x.todo)
<1>1. /\ x.pc = "write" /\ Planned(w, x.req) /\ w \in WriteOps(x.conv) /\ w.conv = x.conv
      /\ direct' = IF w.kind = "direct" THEN [direct EXCEPT ![w.pair] = w.conv] ELSE direct
  BY DEF Writing, Effect
<1>2. w.kind = "direct" =>
        w.pair \in Pairs /\ x.req.rpc = "CreateDirect" /\ w.pair = {x.req.user, x.req.target}
  BY <1>1, WriteOpFields DEF Planned, DirectPair
<1>3. direct \in [Pairs -> Convs \cup {None}] BY DEF TablesFit
<1>4. Creates(c, p) => p = {x.req.user, x.req.target} BY DEF Creates
<1>5. w.kind = "direct" /\ p = w.pair => Creates(c, p) /\ Writer(x)
  BY <1>1, <1>2 DEF Creates, Writer
<1> HIDE DEF x, w
<1>6. w.kind = "direct" /\ p = w.pair => direct'[p] = x.conv BY <1>1, <1>3
<1>7. direct'[p] # direct[p] => w.kind = "direct" /\ p = w.pair BY <1>1, <1>2, <1>3
<1> QED BY <1>1, <1>2, <1>4, <1>5, <1>6, <1>7 DEF x, w

\* The request that arrives.
LEMMA PairedArrives ==
  ASSUME ConvFits, RowsFit, NEW c \in Calls, NEW r \in Request, ConversationCall(c, r),
         NEW p \in Pairs, Creates(c, p)'
  PROVE  Paired(call'[c], direct[p])
<1> DEFINE y == call'[c]
           k == lastConv + 1
<1>1. ConversationArrival(c, r) /\ y.req = r
  <2>1. Arrival(c, r) BY DEF Arrival
  <2> QED BY <2>1, ArrivalStarts DEF ConversationCall
<1>2. r.rpc = "CreateDirect" /\ p = DirectPair(r.user, r.target)
  BY <1>1 DEF Creates, DirectPair
<1>3. CASE Refused(y, r) BY <1>3 DEF Refused, Paired
<1>4. CASE DirectRequest(c, r)
  <2> DEFINE old == direct[p]
  <2>1. CASE Converses(y, r, "write", clock, old, << ThenDetails(old) >>)
    <3> DEFINE s == << ThenDetails(old) >>
    <3>1. Len(s) = 1 /\ s[1].kind = "details" BY OpKinds
    <3>2. y.todo = s /\ y.conv = old /\ y.answer # "OK" BY <2>1 DEF Converses, Accepted
    <3> HIDE DEF s
    <3>3. ~Pends(s, "direct")
      <4>1. \A i \in 1..Len(s) : i = 1 BY <3>1
      <4> QED BY <3>1, <4>1 DEF Pends
    <3> QED BY <3>2, <3>3 DEF Paired
  <2>2. CASE /\ ~(direct[p] # None /\ conversations[direct[p]] # None)
             /\ Converses(y, r, "write", clock, k, CreateDirectWrites(k, r.user, r.target))
    <3>1. direct[p] = None
      <4>1. direct[p] # None => conversations[direct[p]] # None
        BY DirectRowIs, NoneAssumption DEF RowsFit
      <4> QED BY <2>2, <4>1
    <3>2. y.todo = CreateDirectWrites(k, r.user, r.target) /\ y.answer # "OK"
      BY <2>2 DEF Converses, Accepted
    <3>3. Pends(y.todo, "direct") BY <3>2, DirectListed
    <3> QED BY <3>1, <3>2, <3>3 DEF Paired
  <2> QED BY <1>2, <1>4, <2>1, <2>2 DEF DirectRequest
<1> QED BY <1>1, <1>2, <1>3, <1>4 DEF ConversationArrival, Changing

LEMMA PairsNext ==
  ASSUME Fits, ConvFits, RowsFit, Meets, PairsFit, ListsFit, [Next]_vars
  PROVE  PairsFit'
<1> SUFFICES ASSUME NEW e \in Calls, NEW p \in Pairs, Creates(e, p)', Unraced(p)'
             PROVE  Paired(call'[e], direct'[p])
  BY DEF PairsFit
<1>0. Remains /\ TablesFit BY MeetsNext DEF ConvFits
<1>1. Unraced(p) BY <1>0, UnracedBefore
<1>2. ASSUME NEW d \in Calls, Creates(d, p)
      PROVE  Paired(call[d], direct[p])
  BY <1>1, <1>2 DEF PairsFit
<1>3. ASSUME Same(call[e], call'[e]), direct'[p] = direct[p]
      PROVE  Paired(call'[e], direct'[p])
  <2>1. Creates(e, p) BY <1>3 DEF Same, Creates
  <2> QED BY <1>2, <1>3, <2>1, PairedSame
<1>4. CASE Elsewhere
  <2>1. direct'[p] = direct[p] BY <1>4 DEF Elsewhere, convVars
  <2>2. call'[e].req.rpc \in Conversing BY DEF Creates, Conversing
  <2>3. Same(call[e], call'[e]) BY <1>4, <2>2 DEF Elsewhere
  <2> QED BY <1>3, <2>1, <2>3
<1>5. ASSUME NEW c \in Calls, NEW r \in Request, ConversationCall(c, r)
      PROVE  Paired(call'[e], direct'[p])
  <2>1. direct' = direct BY <1>5 DEF ConversationCall, OtherTables
  <2>2. CASE e = c BY <1>5, <2>1, <2>2, PairedArrives
  <2>3. CASE e # c
    <3>1. Same(call[e], call'[e]) BY <1>5, <2>3 DEF ConversationCall, Arrived, Apart
    <3> QED BY <1>3, <2>1, <3>1
  <2> QED BY <2>2, <2>3
<1>6. ASSUME NEW c \in Calls, ConversationMove(c), Goings(c)
      PROVE  Paired(call'[e], direct'[p])
  <2> DEFINE x == call[c]
             y == call'[c]
             w == Head(x.todo)
  <2>1. Conversed(c) /\ x.pc \in {"find", "write"}
    BY <1>6, ConversationConversed DEF Fits, ConversationMove
  <2>2. /\ y.req = x.req /\ y.conv = x.conv /\ \A d \in Calls : d # c => call'[d] = call[d]
    BY <1>6 DEF Goings
  <2>3. TablesSame \/ Writing(c) BY <2>1, ConversedWrites
  <2>4. Creates(e, p) BY <2>1, <2>2 DEF Creates
  <2>5. CASE e # c
    <3>1. call'[e] = call[e] BY <2>2, <2>5
    <3>2. CASE direct'[p] = direct[p] BY <1>2, <2>4, <3>1, <3>2
    <3>3. CASE direct'[p] # direct[p]
      <4>1. Writing(c) BY <2>3, <3>3 DEF TablesSame
      <4>2. w.kind = "direct" /\ Writer(x) /\ Creates(c, p)
        BY <1>0, <3>3, <4>1, DirectWritten
      <4>3. Pends(x.todo, "direct")
        <5>1. Todo(x.todo, x.conv) /\ Listed(x.todo, x.req) BY <2>1, <4>2, WriterSteps
        <5> QED BY <4>2, <5>1, ListedTail
      <4>4. direct[p] = None BY <1>2, <4>2, <4>3 DEF Paired, Writer
      <4>5. call[e].answer # "OK"
        <5>1. call[e].answer = "OK" => call[e].conv \in Convs
          BY <2>4 DEF RowsFit, Rowed, Creates
        <5>2. call[e].answer = "OK" => call[e].conv = None BY <1>2, <2>4, <4>4 DEF Paired
        <5> QED BY <5>1, <5>2, NoneAssumption DEF Convs
      <4>6. call[e].pc # "write"
        <5> SUFFICES ASSUME call[e].pc = "write" PROVE FALSE OBVIOUS
        <5>1. InFlight(c) /\ InFlight(e) BY <2>1 DEF InFlight
        <5>2. c \in call[e].rivals BY <2>5, <5>1 DEF Meets
        <5> QED BY <1>1, <2>4, <4>2, <5>2 DEF Unraced
      <4> QED BY <3>1, <4>5, <4>6 DEF Paired
    <3> QED BY <3>2, <3>3
  <2>6. CASE e = c
    <3>1. Writer(x)
      <4>1. x.req.rpc = "CreateDirect" BY <2>4, <2>6 DEF Creates
      <4>2. x.pc # "find" BY <4>1 DEF ConvFits, ConvCall, Seeks, Changing
      <4> QED BY <2>1, <4>1, <4>2 DEF Writer
    <3>2. Paired(x, direct[p]) /\ Creates(c, p) BY <1>2, <2>4, <2>6
    <3>3. CASE Advances(c) /\ Writing(c)
      <4>1. /\ y.pc = "write" /\ y.todo = Tail(x.todo) /\ y.answer # "OK" /\ x.pc = "write"
        <5>1. x.pc # "done" => x.answer = "none" BY DEF Fits, CallFits
        <5> QED BY <3>3, <5>1 DEF Advances
      <4>2. /\ w.kind = "direct" => direct'[p] = x.conv
            /\ w.kind # "direct" => direct' = direct
        BY <1>0, <3>1, <3>2, <3>3, DirectWritten
      <4>3. Todo(x.todo, x.conv) /\ Listed(x.todo, x.req) BY <2>1, <3>1, WriterSteps
      <4>4. /\ w.kind = "direct" => ~Pends(y.todo, "direct")
            /\ w.kind # "direct" => (Pends(y.todo, "direct") <=> Pends(x.todo, "direct"))
        BY <4>1, <4>3, ListedTail
      <4>5. Paired(y, direct'[p]) BY <2>2, <3>2, <4>1, <4>2, <4>4 DEF Paired
      <4> QED BY <2>6, <4>5
    <3>4. CASE Fails(x, y) BY <2>6, <3>4 DEF Fails, Paired
    <3>5. CASE TablesSame /\ y.pc = "done" /\ y.conv = x.conv /\ ~Pends(x.todo, "direct")
      <4>1. x.conv = direct[p] /\ direct' = direct
        BY <3>1, <3>2, <3>5 DEF Paired, Writer, TablesSame
      <4> QED BY <2>6, <3>5, <4>1 DEF Paired
    <3> QED BY <2>1, <3>1, <3>3, <3>4, <3>5, WriterSteps
  <2> QED BY <2>5, <2>6
<1> QED BY <1>4, <1>5, <1>6, StepConversations

LEMMA ListsNext ==
  ASSUME Fits, ConvFits, RowsFit, ListsFit, [Next]_vars
  PROVE  ListsFit'
<1> SUFFICES ASSUME NEW e \in Calls, Writer(call'[e])
             PROVE  Listed(call'[e].todo, call'[e].req)
  BY DEF ListsFit
<1>1. ASSUME Same(call[e], call'[e])
      PROVE  Listed(call'[e].todo, call'[e].req)
  <2>1. Writer(call[e]) /\ call'[e].todo = call[e].todo /\ call'[e].req = call[e].req
    BY <1>1 DEF Same, Writer
  <2> QED BY <2>1 DEF ListsFit
<1>2. CASE Elsewhere
  <2>1. call'[e].req.rpc \in Conversing BY DEF Writer, Conversing
  <2> QED BY <1>1, <1>2, <2>1 DEF Elsewhere
<1>3. ASSUME NEW c \in Calls, NEW r \in Request, ConversationCall(c, r)
      PROVE  Listed(call'[e].todo, call'[e].req)
  <2> DEFINE y == call'[c]
             k == lastConv + 1
  <2>1. CASE e # c
    <3>1. Same(call[e], call'[e]) BY <1>3, <2>1 DEF ConversationCall, Arrived, Apart
    <3> QED BY <1>1, <3>1
  <2>2. CASE e = c
    <3>1. ConversationArrival(c, r) /\ y.req = r
      <4>1. Arrival(c, r) BY <1>3 DEF Arrival
      <4> QED BY <1>3, <4>1, ArrivalStarts DEF ConversationCall
    <3>2. r.rpc = "CreateDirect" /\ y.pc = "write" BY <2>2, <3>1 DEF Writer
    <3>3. DirectRequest(c, r) BY <3>1, <3>2 DEF ConversationArrival, Refused, Changing
    <3>4. CASE \E old : y.todo = << ThenDetails(old) >>
      <4>1. PICK old : y.todo = << ThenDetails(old) >> BY <3>4
      <4> DEFINE s == << ThenDetails(old) >>
      <4>2. Len(s) = 1 /\ s[1].kind = "details" BY OpKinds
      <4> HIDE DEF s
      <4>3. \A i \in 1..Len(s) : i = 1 BY <4>2
      <4>4. Listed(s, r) BY <4>2, <4>3 DEF Listed, Pends
      <4> QED BY <2>2, <3>1, <4>1, <4>4 DEF s
    <3>5. CASE y.todo = CreateDirectWrites(k, r.user, r.target)
      BY <2>2, <3>1, <3>5, DirectListed
    <3> QED BY <3>3, <3>4, <3>5 DEF DirectRequest, Converses
  <2> QED BY <2>1, <2>2
<1>4. ASSUME NEW c \in Calls, ConversationMove(c), Goings(c)
      PROVE  Listed(call'[e].todo, call'[e].req)
  <2> DEFINE x == call[c]
             y == call'[c]
  <2>1. Conversed(c) /\ x.pc \in {"find", "write"} /\ y.req = x.req
    BY <1>4, ConversationConversed DEF Fits, ConversationMove, Goings
  <2>2. CASE e # c
    <3>1. call'[e] = call[e] BY <1>4, <2>2 DEF Goings
    <3> QED BY <3>1 DEF ListsFit
  <2>3. CASE e = c
    <3>1. Writer(x)
      <4>1. x.req.rpc = "CreateDirect" BY <2>1, <2>3 DEF Writer
      <4>2. x.pc # "find" BY <4>1 DEF ConvFits, ConvCall, Seeks, Changing
      <4> QED BY <2>1, <4>1, <4>2 DEF Writer
    <3>2. y.pc = "write" BY <2>3 DEF Writer
    <3>3. /\ Todo(x.todo, x.conv) /\ Straight(x.todo) /\ Listed(x.todo, x.req)
          /\ Advances(c) /\ Writing(c)
      BY <2>1, <3>1, <3>2, WriterSteps DEF Fails
    <3>4. y.todo = Tail(x.todo) /\ Head(x.todo).kind \notin Ends
      BY <3>3 DEF Advances, Writing
    <3>5. ~Pends(y.todo, "conversation") BY <3>3, <3>4, StraightTail
    <3>6. Listed(y.todo, x.req) BY <3>3, <3>4, <3>5, ListedTail DEF Listed
    <3> QED BY <2>1, <2>3, <3>6
  <2> QED BY <2>2, <2>3
<1> QED BY <1>2, <1>3, <1>4, StepConversations

\* The members of a conversation a write leaves in it.
LEMMA WriterKeeps ==
  ASSUME TablesFit, NEW c \in Calls, Writing(c), Writer(call[c])
  PROVE  LET x == call[c]
             w == Head(x.todo)
             k == x.conv
         IN /\ \A u \in Users : Act(part[k], u) => Act(part'[k], u)
            /\ w.kind = "part" => Act(part'[k], w.user)
<1> DEFINE x == call[c]
           w == Head(x.todo)
           k == x.conv
<1>1. /\ k \in Convs /\ w \in WriteOps(k) /\ w.conv = k /\ Planned(w, x.req)
      /\ part' = IF w.kind = "part" THEN [part EXCEPT ![w.conv][w.user] = w.member] ELSE part
  BY DEF Writing, Effect
<1>2. w.kind = "part" =>
        w.user \in Users /\ w.member \in Members /\ w.member.status = "Active"
  BY <1>1, WriteOpFields DEF Planned, Writer
<1>3. part \in [Convs -> [Users -> {None} \cup Members]] BY DEF TablesFit
<1> HIDE DEF x, w, k
<1>4. w.kind = "part" => /\ part'[k][w.user] = w.member
                         /\ \A u \in Users : u # w.user => part'[k][u] = part[k][u]
  BY <1>1, <1>2, <1>3
<1>5. w.kind # "part" => part' = part BY <1>1
<1>6. w.kind = "part" => Act(part'[k], w.user) BY <1>2, <1>4, NoneAssumption DEF Act
<1> QED BY <1>4, <1>5, <1>6 DEF Act, x, w, k

LEMMA BothNext ==
  ASSUME Fits, ConvFits, RowsFit, ListsFit, BothIn, [Next]_vars
  PROVE  BothIn'
<1>0. TablesFit /\ ConvFits' BY ConvFitsNext DEF ConvFits
<1>a. ASSUME faults' \in Nat, faults' = 0 => faults = 0,
             ASSUME faults' = 0, faults = 0, NEW k \in Convs, conversations'[k] # None,
                    conversations'[k].type = "Direct", NEW u \in conversations'[k].pair
             PROVE  Comes(k, u)'
      PROVE  BothIn'
  BY <1>a DEF BothIn
<1>b. ASSUME faults' = faults \/ faults' = faults + 1
      PROVE  faults' \in Nat /\ (faults' = 0 => faults = 0)
  BY <1>b DEF BothIn
<1>c. ASSUME faults = 0, NEW k \in Convs, conversations[k] # None,
             conversations[k].type = "Direct", NEW u \in conversations[k].pair
      PROVE  Comes(k, u)
  BY <1>c DEF BothIn
<1>1. CASE Elsewhere
  <2>1. UNCHANGED <<conversations, part>> /\ (faults' = faults \/ faults' = faults + 1)
    BY <1>1 DEF Elsewhere, convVars
  <2>2. ASSUME NEW d \in Calls, Writer(call[d])
        PROVE  Same(call[d], call'[d])
    <3>1. call[d].req.rpc \in Conversing /\ call[d].pc # "idle"
      BY <2>2 DEF Writer, Conversing
    <3> QED BY <1>1, <3>1 DEF Elsewhere
  <2>3. ASSUME NEW k, NEW u, Comes(k, u)
        PROVE  Comes(k, u)'
    BY <2>1, <2>2, <2>3 DEF Comes, Same, Writer
  <2> QED BY <1>a, <1>b, <1>c, <2>1, <2>3
<1>2. ASSUME NEW c \in Calls, NEW r \in Request, ConversationCall(c, r)
      PROVE  BothIn'
  <2>1. UNCHANGED <<conversations, part, faults>> /\ call[c].pc = "idle"
    BY <1>2 DEF ConversationCall, OtherTables, Arrived
  <2>2. ASSUME NEW d \in Calls, Writer(call[d])
        PROVE  Same(call[d], call'[d])
    <3>1. d # c BY <2>1, <2>2 DEF Writer
    <3> QED BY <1>2, <3>1 DEF ConversationCall, Arrived, Apart
  <2>3. ASSUME NEW k, NEW u, Comes(k, u)
        PROVE  Comes(k, u)'
    BY <2>1, <2>2, <2>3 DEF Comes, Same, Writer
  <2> QED BY <1>a, <1>b, <1>c, <2>1, <2>3
<1>3. ASSUME NEW c \in Calls, ConversationMove(c), Goings(c)
      PROVE  BothIn'
  <2> DEFINE x == call[c]
             y == call'[c]
             w == Head(x.todo)
             j == x.conv
  <2>1. Conversed(c) /\ x.pc \in {"find", "write"} /\ j \in Convs /\ y.req = x.req /\ y.conv = j
    BY <1>3, ConversationConversed, ConvOf DEF Fits, ConversationMove, Goings, ConvFits
  <2>2. faults' = faults \/ faults' = faults + 1 BY <1>3 DEF Goings
  <2>3. \A d \in Calls : d # c => call'[d] = call[d] BY <1>3 DEF Goings
  <2>4. SUFFICES ASSUME faults' = 0, faults = 0, NEW k \in Convs, conversations'[k] # None,
                        conversations'[k].type = "Direct", NEW u \in conversations'[k].pair
                 PROVE  Comes(k, u)'
    BY <1>a, <1>b, <2>2
  <2>5. ASSUME Comes(k, u), Act(part[k], u) => Act(part'[k], u),
               j = k /\ Writer(x) /\ Joins(x.todo, u) =>
                 Act(part'[k], u) \/ (Writer(y) /\ Joins(y.todo, u))
        PROVE  Comes(k, u)'
    <3>1. CASE Act(part[k], u) BY <2>5, <3>1 DEF Comes
    <3>2. ASSUME NEW d \in Calls, Writer(call[d]), call[d].conv = k, Joins(call[d].todo, u)
          PROVE  Comes(k, u)'
      <4>1. CASE d = c BY <2>1, <2>5, <3>2, <4>1 DEF Comes
      <4>2. CASE d # c BY <2>3, <3>2, <4>2 DEF Comes
      <4> QED BY <4>1, <4>2
    <3> QED BY <2>5, <3>1, <3>2 DEF Comes
  <2>6. Writer(x) => (Advances(c) /\ Writing(c)) \/ (TablesSame /\ ~Joins(x.todo, u))
    <3>1. faults' # faults + 1 BY <2>4
    <3> QED BY <2>1, <3>1, WriterSteps
  <2>7. CASE TablesSame /\ ~Writing(c)
    <3>1. UNCHANGED <<conversations, part>> BY <2>7 DEF TablesSame
    <3>2. Comes(k, u) BY <1>c, <2>4, <3>1
    <3> QED BY <2>5, <2>6, <2>7, <3>1, <3>2
  <2>8. CASE Writing(c) /\ (j # k \/ ~Writer(x))
    <3>1. conversations'[k] = conversations[k] /\ part'[k] = part[k]
      <4>1. CASE j # k BY <1>0, <2>8, <4>1, WritingQuiet DEF Quiet
      <4>2. CASE j = k /\ ~Writer(x)
        <5>1. x.req.rpc # "CreateDirect" /\ x.pc = "write" BY <2>8, <4>2 DEF Writer, Writing
        <5>2. /\ w.kind \in Group3 => x.req.rpc \in Creating \cup Changing
              /\ x.req.rpc \in Creating => conversations'[k] = NewRow(x.req)
              /\ x.req.rpc \notin Creating => conversations'[k] = conversations[k]
          BY <1>0, <2>8, <4>2, WritingRows
        <5>3. x.req.rpc # "CreateGroup" BY <2>4, <5>2 DEF NewRow, Creating
        <5>4. x.req.rpc \notin Changing
          <6>1. x.req.rpc \in Changing => Grouped(conversations, k)
            BY <4>2, <5>1, <5>3 DEF RowsFit, Rowed
          <6>2. conversations'[k] = conversations[k] BY <5>1, <5>2, <5>3 DEF Creating
          <6> QED BY <2>4, <6>1, <6>2 DEF Grouped
        <5>5. w.kind \notin Group3 BY <5>1, <5>2, <5>3, <5>4 DEF Creating
        <5> QED BY <1>0, <2>8, <5>5, WritingQuiet DEF Quiet
      <4> QED BY <2>8, <4>1, <4>2
    <3>2. Comes(k, u) BY <1>c, <2>4, <3>1
    <3> QED BY <2>5, <2>8, <3>1, <3>2
  <2>9. CASE Writing(c) /\ j = k /\ Writer(x)
    <3>1. /\ Todo(x.todo, k) /\ Straight(x.todo) /\ Listed(x.todo, x.req)
      BY <2>1, <2>9, WriterSteps
    <3>2. Advances(c)
      <4>1. w.kind \notin Ends BY <2>9 DEF Writing
      <4>2. ~Breaks(c) BY <2>4 DEF Breaks
      <4>3. ~Finds(c) /\ ~Misses(c) BY <2>9 DEF Finds, Misses, Writer
      <4>4. ~Closes(c) /\ ~Concludes(c) BY <4>1 DEF Closes, Concludes, Ends
      <4> QED BY <2>1, <4>2, <4>3, <4>4 DEF Conversed
    <3>3. Writer(y) /\ y.todo = Tail(x.todo) BY <2>1, <2>9, <3>2 DEF Advances, Writer
    <3>4. conversations'[k] = NewRow(x.req) /\ conversations'[k].pair = {x.req.user, x.req.target}
      <4>1. x.req.rpc \in Creating /\ x.req.rpc # "CreateGroup" BY <2>9 DEF Writer, Creating
      <4>2. conversations'[k] = NewRow(x.req) BY <1>0, <2>9, <4>1, WritingRows
      <4> QED BY <4>1, <4>2 DEF NewRow, DirectPair
    <3>5. u \in Users
      <4>1. conversations'[k] \in ConversationRows BY <1>0, <2>4 DEF ConvFits, TablesFit
      <4> QED BY <2>4, <4>1 DEF ConversationRows
    <3>6. (Act(part[k], u) => Act(part'[k], u)) /\ (w.kind = "part" => Act(part'[k], w.user))
      BY <1>0, <2>9, <3>5, WriterKeeps
    <3>7. Joins(x.todo, u) => (w.kind = "part" /\ w.user = u) \/ Joins(y.todo, u)
      BY <3>1, <3>3, ListedTail
    <3>8. Joins(x.todo, u) => Act(part'[k], u) \/ (Writer(y) /\ Joins(y.todo, u))
      BY <3>3, <3>6, <3>7
    <3>9. CASE w.kind = "conversation"
      <4>1. Pends(x.todo, "conversation") BY <3>1, <3>9, EntryTail
      <4>2. Joins(x.todo, u) BY <2>4, <3>1, <3>4, <4>1 DEF Listed
      <4>3. Comes(k, u) BY <2>9, <4>2 DEF Comes
      <4> QED BY <2>5, <3>6, <3>8, <4>3
    <3>10. CASE w.kind # "conversation"
      <4>1. conversations' = conversations BY <2>9, <3>10 DEF Writing, Effect
      <4>2. Comes(k, u) BY <1>c, <2>4, <4>1
      <4> QED BY <2>5, <3>6, <3>8, <4>2
    <3> QED BY <3>9, <3>10
  <2> QED BY <2>1, <2>7, <2>8, <2>9, ConversedWrites
<1> QED BY <1>1, <1>2, <1>3, StepConversations

LEMMA DirectsInit == Init => DirectsFit
<1> SUFFICES ASSUME Init PROVE DirectsFit OBVIOUS
<1>1. /\ \A c \in Calls : call[c].pc = "idle"
      /\ faults = 0
  BY TablesInit DEF Unused, Init, CallsInit
<1>2. \A k \in Convs : conversations[k] # None => conversations[k].type = "Group"
  BY DEF Init, TasksInit
<1>3. PairsFit /\ ListsFit BY <1>1 DEF PairsFit, ListsFit, Creates, Writer
<1>4. BothIn BY <1>1, <1>2 DEF BothIn
<1> QED BY <1>3, <1>4 DEF DirectsFit

LEMMA DirectsOrdered ==
  ASSUME Fits, RowsFit, DirectsFit
  PROVE  OneDirect
<1> SUFFICES ASSUME NEW c \in Calls, NEW d \in Calls, NEW p,
                    p = {call[c].req.user, call[c].req.target},
                    call[c].answer = "OK", call[d].answer = "OK",
                    call[c].req.rpc = "CreateDirect", Creates(d, p)
             PROVE  /\ (\A e \in {a \in Calls : Creates(a, p)} :
                          call[e].rivals \cap {a \in Calls : Creates(a, p)} = {})
                         => call[c].conv = call[d].conv
                    /\ faults = 0 /\ (\A e \in Calls : ~InFlight(e))
                         => p \subseteq ListActive(call[c].conv)
  BY DEF OneDirect
<1> DEFINE k == call[c].conv
<1>1. k \in Convs /\ conversations[k] = NewRow(call[c].req) /\ NewRow(call[c].req) \in ConversationRows
  BY DEF RowsFit, Rowed
<1>2. NewRow(call[c].req) = [type |-> "Direct", pair |-> p] BY DEF NewRow, DirectPair
<1>3. p \in SUBSET Users BY <1>1, <1>2 DEF ConversationRows
<1>4. p \in Pairs BY <1>3, PairIs DEF DirectPair
<1>5. Creates(c, p) BY DEF Creates, Fits, CallFits
<1>6. ASSUME \A e \in {a \in Calls : Creates(a, p)} :
               call[e].rivals \cap {a \in Calls : Creates(a, p)} = {}
      PROVE  call[c].conv = call[d].conv
  <2>1. Unraced(p) BY <1>6 DEF Unraced
  <2>2. Paired(call[c], direct[p]) /\ Paired(call[d], direct[p])
    BY <1>4, <1>5, <2>1 DEF DirectsFit, PairsFit
  <2> QED BY <2>2 DEF Paired
<1>7. ASSUME faults = 0, \A e \in Calls : ~InFlight(e)
      PROVE  p \subseteq ListActive(k)
  <2> SUFFICES ASSUME NEW u \in p PROVE u \in ListActive(k) OBVIOUS
  <2>1. conversations[k] # None /\ conversations[k].type = "Direct" /\ conversations[k].pair = p
    BY <1>1, <1>2, NoneAssumption
  <2>2. Comes(k, u) BY <1>1, <1>7, <2>1 DEF DirectsFit, BothIn
  <2>3. \A e \in Calls : ~Writer(call[e]) BY <1>7 DEF InFlight, Writer
  <2>4. Act(part[k], u) /\ u \in Users BY <1>3, <2>2, <2>3 DEF Comes
  <2> QED BY <2>4, ActIs DEF Crowd
<1> QED BY <1>6, <1>7

\* The conversations are in order: the tables keep their shape; a group that
\* somebody is in is open and has an admin, unless changes of it overlapped; and
\* the users of a pair get one direct conversation, unless their requests
\* overlapped, with both of them in it, unless a write failed.
THEOREM ConversationsStayInOrder == Spec => []ConversationsInOrder
<1> DEFINE Inv == /\ Fits /\ Idles /\ Kept /\ ConvFits /\ DirFits
                  /\ Meets /\ RowsFit /\ GroupsFit /\ DirectsFit
<1>1. Init => Inv
  BY FitsInit, KeptInit, ConvFitsInit, DirFitsInit, MeetsInit, RowsInit, GroupsInit,
     DirectsInit
<1>2. Inv /\ [Next]_vars => Inv'
  <2> SUFFICES ASSUME Inv, [Next]_vars PROVE Inv' OBVIOUS
  <2>1. (Fits /\ Idles /\ Kept /\ ConvFits /\ DirFits)'
    BY FitsNext, IdlesNext, KeptNext, ConvFitsNext, DirFitsNext
  <2>2. Meets' /\ RowsFit' /\ GroupsFit' BY MeetsNext, RowsNext, GroupsNext
  <2>3. DirectsFit' BY PairsNext, ListsNext, BothNext DEF DirectsFit
  <2> QED BY <2>1, <2>2, <2>3
<1>3. Inv => ConversationsInOrder
  BY TypesOK, GroupsOrdered, DirectsOrdered DEF ConversationsInOrder
<1> QED BY <1>1, <1>2, <1>3, PTL DEF Spec
=============================================================================
