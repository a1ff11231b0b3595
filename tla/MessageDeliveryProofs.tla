----------------------- MODULE MessageDeliveryProofs -----------------------
(***************************************************************************)
(* Proofs about the delivery of messages, for any messages, devices and    *)
(* worker threads, any configuration and any number of crashes.            *)
(***************************************************************************)
EXTENDS MessageDelivery, TLAPS

Accepted(m) == pending[m].state # "NONE"
Told(m) == fanout[m].state \in {"DELIVERED", "READ"}

\* Only accepted messages are in memory or with the device. Without this a
\* message could be accepted on top of a delivery under way.
LanesAccepted ==
    \A d \in Devices : \A i \in 1 .. Len(lanes[d]) : Accepted(lanes[d][i].msg)

WorkersAccepted ==
    \A w \in Workers :
        ~At(w, "idle") => Message(w) \in Messages /\ Accepted(Message(w))

RowsAccepted ==
    \A s \in Scanners : \A r \in scan[s].rows : Accepted(r.msg)

ReceivedAccepted ==
    \A m \in Messages : received[m] => Accepted(m)

OnlyAccepted ==
    LanesAccepted /\ WorkersAccepted /\ RowsAccepted /\ ReceivedAccepted

\* What a thread or a call in the middle of its writes has seen and written.
WorkerWitness ==
    \A w \in Workers :
        /\ At(w, "ack") \/ At(w, "settle") \/ At(w, "announce")
              => received[Message(w)]
        /\ At(w, "settle") \/ At(w, "announce") => Told(Message(w))

CallWitness ==
    \A m \in Messages :
        /\ acker[m] # "idle" => received[m]
        /\ acker[m] \in {"pending", "announce"} => Told(m)
        /\ reader[m] # "idle" => received[m]
        /\ reader[m] = "announce" => fanout[m].read

ReadWasReceived ==
    \A m \in Messages : fanout[m].read => received[m]

Witnessed == WorkerWitness /\ CallWitness /\ ReadWasReceived

\* The invariant that the steps preserve.
DeliveryInv ==
    /\ TypeOK
    /\ OnlyAccepted
    /\ Witnessed
    /\ DeliveredWasReceived
    /\ DeliveredInBoth
    /\ AnnouncedIsDurable
-----------------------------------------------------------------------------
(***************************************************************************)
(* Helpers                                                                 *)
(***************************************************************************)

\* A status update keeps the rows of the pending table typed.
LEMMA UpdateStatusTyped ==
    ASSUME TablesTyped, NEW m \in Messages, NEW st \in DeliveryStates,
           NEW a \in 0 .. AttemptBound, UpdateStatus(m, st, a)
    PROVE  /\ pending' \in [Messages -> PendingRow]
           /\ pending'[m].state = st
           /\ \A k \in Messages : k # m => pending'[k] = pending[k]
           /\ Accepted(m)'
           /\ \A k \in Messages : Accepted(k) => Accepted(k)'
<1> DEFINE row == [pending[m] EXCEPT !.state = st, !.attempts = a, !.due = FALSE]
<1>1. pending \in [Messages -> PendingRow] BY DEF TablesTyped
<1>2. pending[m] \in PendingRow BY <1>1
<1>3. row \in PendingRow /\ row.state = st BY <1>2 DEF PendingRow
<1>4. pending' = [pending EXCEPT ![m] = row] BY <1>1, Zenon DEF UpdateStatus
<1>5. /\ pending' \in [Messages -> PendingRow]
      /\ pending'[m] = row
      /\ \A k \in Messages : k # m => pending'[k] = pending[k]
  BY <1>1, <1>3, <1>4
<1>6. st # "NONE" BY DEF DeliveryStates
<1> QED BY <1>3, <1>5, <1>6 DEF Accepted

\* Offering a task to the scheduler leaves typed lanes, queued or refused.
LEMMA ScheduleTyped ==
    ASSUME MemoryTyped, NEW t \in Task, Schedule(t)
    PROVE  /\ lanes' \in [Devices -> Seq(Task)]
           /\ \A d \in Devices : \A i \in 1 .. Len(lanes'[d]) :
                 \/ lanes'[d][i] = t
                 \/ i \in 1 .. Len(lanes[d]) /\ lanes'[d][i] = lanes[d][i]
<1>1. CASE UNCHANGED lanes BY <1>1 DEF MemoryTyped
<1>2. CASE Lanes!Accept(t)
  <2> DEFINE d == Recipient[t.msg]
  <2>1. d \in Devices BY RecipientAssumption DEF Task
  <2>2. lanes' = [lanes EXCEPT ![d] = Append(@, t)] BY <1>2 DEF Lanes!Accept
  <2>3. lanes[d] \in Seq(Task) BY <2>1 DEF MemoryTyped
  <2> QED BY <2>1, <2>2, <2>3 DEF MemoryTyped
<1> QED BY <1>1, <1>2 DEF Schedule

\* Taking the head of a lane yields a task and leaves typed lanes.
LEMMA TakeTyped ==
    ASSUME MemoryTyped, NEW d \in Devices, Lanes!TakeFrom(d)
    PROVE  /\ lanes' \in [Devices -> Seq(Task)]
           /\ Head(lanes[d]) \in Task /\ 1 \in 1 .. Len(lanes[d])
           /\ Head(lanes[d]) = lanes[d][1]
           /\ \A e \in Devices : \A i \in 1 .. Len(lanes'[e]) :
                 \E j \in 1 .. Len(lanes[e]) : lanes'[e][i] = lanes[e][j]
<1>1. lanes[d] # <<>> /\ lanes' = [lanes EXCEPT ![d] = Tail(@)] BY DEF Lanes!TakeFrom
<1>2. lanes[d] \in Seq(Task) BY DEF MemoryTyped
<1>3. \A i \in 1 .. Len(Tail(lanes[d])) :
          i + 1 \in 1 .. Len(lanes[d]) /\ Tail(lanes[d])[i] = lanes[d][i + 1]
  BY <1>1, <1>2
<1>4. /\ lanes' \in [Devices -> Seq(Task)]
      /\ Head(lanes[d]) \in Task /\ 1 \in 1 .. Len(lanes[d])
      /\ Head(lanes[d]) = lanes[d][1]
  BY <1>1, <1>2 DEF MemoryTyped
<1>5. ASSUME NEW e \in Devices, NEW i \in 1 .. Len(lanes'[e])
      PROVE  \E j \in 1 .. Len(lanes[e]) : lanes'[e][i] = lanes[e][j]
  <2>1. CASE e = d BY <2>1, <1>1, <1>3 DEF MemoryTyped
  <2>2. CASE e # d BY <2>2, <1>1 DEF MemoryTyped
  <2> QED BY <2>1, <2>2
<1> QED BY <1>4, <1>5

\* The idle worker and the idle pass are typed.
LEMMA IdleTyped ==
    /\ IdleWorker \in [step : WorkerSteps, task : Task \cup {NoTask}]
    /\ IdleScan \in Pass /\ IdleScan.rows = {}
<1>1. (CHOOSE d \in Devices : TRUE) \in Devices BY DevicesAssumption
<1> QED BY <1>1, BoundsAssumption DEF IdleWorker, IdleScan, Pass, WorkerSteps, Phases

\* What a pass reads from the table is a set of typed entries.
LEMMA ReadRowsTyped ==
    ASSUME TypeOK, NEW phase \in {"purge", "sweep", "recover"},
           NEW d \in Devices, NEW bucket
    PROVE  /\ ReadRows(phase, d, bucket) \subseteq ScanEntry
           /\ \A r \in ReadRows(phase, d, bucket) : Accepted(r.msg)
<1>1. \A m \in Messages : pending[m] \in PendingRow BY DEF TypeOK, TablesTyped
<1>2. \A m \in FetchPending(d, bucket) : m \in Messages /\ Accepted(m)
  BY DEF FetchPending, Rows, Accepted
<1>3. \A m \in Messages :
          Verdict(phase, m) \in {"skip", "expire", "requeue", "schedule"}
  BY DEF Verdict, PurgeVerdict, SweepVerdict, RecoverVerdict
<1>4. ASSUME NEW r \in ReadRows(phase, d, bucket)
      PROVE  r \in ScanEntry /\ Accepted(r.msg)
  <2>1. PICK m \in FetchPending(d, bucket) :
            /\ Verdict(phase, m) # "skip"
            /\ r = [msg |-> m, attempts |-> pending[m].attempts,
                    verdict |-> Verdict(phase, m)]
    BY <1>4, Zenon DEF ReadRows
  <2>2. Verdict(phase, m) \in {"expire", "requeue", "schedule"} BY <1>2, <1>3, <2>1
  <2>3. pending[m].attempts \in 0 .. AttemptBound BY <1>1, <1>2 DEF PendingRow
  <2> QED BY <1>2, <2>1, <2>2, <2>3 DEF ScanEntry
<1> QED BY <1>4

\* Beginning a phase of a pass leaves the passes typed.
LEMMA BeginTyped ==
    ASSUME TypeOK, NEW s \in Scanners, NEW phase \in {"purge", "sweep", "recover"},
           NEW d \in Devices, NEW bucket \in 0 .. MaxMonth,
           Begin(s, phase, d, bucket)
    PROVE  /\ scan' \in [Scanners -> Pass]
           /\ \A r \in scan'[s].rows : Accepted(r.msg)
           /\ \A q \in Scanners : q # s => scan'[q] = scan[q]
<1> DEFINE pass == [phase |-> phase, device |-> d, bucket |-> bucket,
                    rows |-> ReadRows(phase, d, bucket)]
<1>1. scan' = [scan EXCEPT ![s] = pass] BY DEF Begin
<1>2. pass \in Pass /\ \A r \in pass.rows : Accepted(r.msg) BY ReadRowsTyped DEF Pass, Phases
<1>3. scan \in [Scanners -> Pass] BY DEF TypeOK, MemoryTyped
<1> HIDE DEF pass
<1> QED BY <1>1, <1>2, <1>3
-----------------------------------------------------------------------------
(***************************************************************************)
(* Types                                                                   *)
(***************************************************************************)

\* A worker that is not idle holds a task of a message.
LEMMA BusyWorker ==
    ASSUME TypeOK, OnlyAccepted, NEW w \in Workers, ~At(w, "idle")
    PROVE  /\ worker[w].task \in Task
           /\ Message(w) \in Messages /\ Accepted(Message(w))
           /\ Attempts(w) \in 0 .. AttemptBound
<1>1. Message(w) \in Messages /\ Accepted(Message(w)) BY DEF OnlyAccepted, WorkersAccepted
<1>2. worker[w].task # NoTask BY <1>1, MessagesAssumption DEF Message, NoTask
<1>3. worker[w].task \in Task BY <1>2 DEF TypeOK, MemoryTyped
<1> QED BY <1>1, <1>3 DEF Task, Attempts

\* A message once accepted stays so, and with it the tasks in the lanes.
LEMMA LaneTask ==
    ASSUME MemoryTyped, NEW d \in Devices, NEW i \in 1 .. Len(lanes[d])
    PROVE  lanes[d][i] \in Task /\ lanes[d][i].msg \in Messages
<1>1. lanes[d] \in Seq(Task) BY DEF MemoryTyped
<1>2. lanes[d][i] \in Task BY <1>1
<1> QED BY <1>2 DEF Task

\* Tasks that stay in the lanes stay tasks of accepted messages.
LEMMA LanesKept ==
    ASSUME MemoryTyped, LanesAccepted, UNCHANGED lanes,
           \A m \in Messages : Accepted(m) => Accepted(m)'
    PROVE  LanesAccepted'
<1>1. \A d \in Devices : \A i \in 1 .. Len(lanes[d]) :
          lanes[d][i].msg \in Messages
  BY LaneTask
<1> QED BY <1>1 DEF LanesAccepted, Accepted

\* So do the lanes that gain a task of an accepted message.
LEMMA LanesGrow ==
    ASSUME MemoryTyped, LanesAccepted, NEW t \in Task, Schedule(t),
           Accepted(t.msg),
           \A m \in Messages : Accepted(m) => Accepted(m)'
    PROVE  LanesAccepted'
<1>1. ASSUME NEW d \in Devices, NEW i \in 1 .. Len(lanes'[d])
      PROVE  pending'[lanes'[d][i].msg].state # "NONE"
  <2>1. CASE lanes'[d][i] = t
    <3>1. t.msg \in Messages BY DEF Task
    <3>2. Accepted(t.msg)' BY <3>1
    <3> QED BY <2>1, <3>2 DEF Accepted
  <2>2. CASE i \in 1 .. Len(lanes[d]) /\ lanes'[d][i] = lanes[d][i]
    <3>1. lanes[d][i].msg \in Messages /\ Accepted(lanes[d][i].msg)
      BY <2>2, LaneTask DEF LanesAccepted
    <3> DEFINE m == lanes[d][i].msg
    <3>2. pending'[m].state # "NONE" BY <3>1 DEF Accepted
    <3> QED BY <2>2, <3>2
  <2> QED BY <2>1, <2>2, ScheduleTyped
<1> QED BY <1>1 DEF LanesAccepted, Accepted

\* Acting on a row of a pass keeps tables, lanes and passes typed.
LEMMA ScanRowTyped ==
    ASSUME TypeOK, OnlyAccepted, NEW s \in Scanners, ScanRow(s)
    PROVE  /\ pending' \in [Messages -> PendingRow]
           /\ \A m \in Messages : Accepted(m) => Accepted(m)'
           /\ \A m \in Messages : pending'[m].state = "DELIVERED"
                                     => pending[m].state = "DELIVERED"
           /\ lanes' \in [Devices -> Seq(Task)]
           /\ LanesAccepted'
           /\ scan' \in [Scanners -> Pass]
           /\ \A q \in Scanners : scan'[q].rows \subseteq scan[q].rows
<1>1. scan \in [Scanners -> Pass] /\ scan[s] \in Pass BY DEF TypeOK, MemoryTyped
<1>2. PICK r \in scan[s].rows : ScanRow(s)!(r) BY DEF ScanRow
<1> DEFINE t == [msg |-> r.msg, attempts |-> r.attempts]
<1>3. /\ r \in ScanEntry /\ r.msg \in Messages /\ t \in Task
      /\ r.attempts \in 0 .. AttemptBound
  BY <1>1 DEF Pass, ScanEntry, Task
<1>4. Accepted(r.msg) BY DEF OnlyAccepted, RowsAccepted
<1>5. \/ UpdateStatus(r.msg, "EXPIRED", r.attempts)
      \/ UpdateStatus(r.msg, "QUEUED", r.attempts)
      \/ UNCHANGED pending
  BY <1>2
<1>6. "EXPIRED" \in DeliveryStates /\ "QUEUED" \in DeliveryStates BY DEF DeliveryStates
<1>7. /\ pending' \in [Messages -> PendingRow]
      /\ \A m \in Messages : Accepted(m) => Accepted(m)'
      /\ \A m \in Messages : pending'[m].state = "DELIVERED"
                                => pending[m].state = "DELIVERED"
  <2>1. CASE UNCHANGED pending BY <2>1 DEF Accepted, TypeOK, TablesTyped
  <2>2. CASE UpdateStatus(r.msg, "EXPIRED", r.attempts)
    BY <2>2, <1>3, <1>6, UpdateStatusTyped DEF TypeOK
  <2>3. CASE UpdateStatus(r.msg, "QUEUED", r.attempts)
    BY <2>3, <1>3, <1>6, UpdateStatusTyped DEF TypeOK
  <2> QED BY <1>5, <2>1, <2>2, <2>3
<1>8. Schedule(t) \/ UNCHANGED lanes BY <1>2
<1>9. lanes' \in [Devices -> Seq(Task)] /\ LanesAccepted'
  <2>1. CASE UNCHANGED lanes BY <2>1, <1>7, LanesKept DEF TypeOK, MemoryTyped, OnlyAccepted
  <2>2. CASE Schedule(t)
    BY <2>2, <1>3, <1>4, <1>7, ScheduleTyped, LanesGrow DEF TypeOK, OnlyAccepted
  <2> QED BY <1>8, <2>1, <2>2
<1>10. PICK left \in SUBSET scan[s].rows : scan' = [scan EXCEPT ![s].rows = left]
  <2>1. CASE r.verdict = "expire" \/ Lanes!Room(t)
    <3>1. scan' = [scan EXCEPT ![s].rows = @ \ {r}] BY <1>2, <2>1
    <3> QED BY <3>1
  <2>2. CASE ~(r.verdict = "expire" \/ Lanes!Room(t))
    <3>1. scan' = [scan EXCEPT ![s].rows = {}] BY <1>2, <2>2
    <3> QED BY <3>1
  <2> QED BY <2>1, <2>2
<1>11. /\ scan' \in [Scanners -> Pass]
       /\ \A q \in Scanners : scan'[q].rows \subseteq scan[q].rows
  BY <1>1, <1>10 DEF Pass
<1> QED BY <1>7, <1>9, <1>11

\* The initial state is typed.
LEMMA TypeInit == Init => TypeOK
<1> SUFFICES ASSUME Init PROVE TypeOK OBVIOUS
<1>1. TablesTyped BY BoundsAssumption, EarlierAssumption DEF Init, TablesTyped, PendingRow, FanoutRow, DeliveryStates
<1>2. MemoryTyped BY IdleTyped DEF Init, MemoryTyped
<1>3. WorldTyped BY BoundsAssumption DEF Init, WorldTyped
<1> QED BY <1>1, <1>2, <1>3 DEF TypeOK

\* Every step keeps the state typed, action by action.
LEMMA TypeStep ==
    ASSUME TypeOK, OnlyAccepted, [Next]_vars
    PROVE  TypeOK'
<1> USE DEF tables, clock, counts
<1>1. ASSUME NEW m \in Messages, Accept(m) PROVE TypeOK'
  <2>1. pending' \in [Messages -> PendingRow]
    <3> DEFINE row == [pending[m] EXCEPT !.state = "QUEUED", !.month = month]
    <3>1. pending[m] \in PendingRow /\ month \in 0 .. MaxMonth
      BY DEF TypeOK, TablesTyped, WorldTyped
    <3>2. row \in PendingRow BY <3>1 DEF PendingRow, DeliveryStates
    <3>3. pending' = [pending EXCEPT ![m] = row] BY <1>1, Zenon DEF Accept
    <3> QED BY <3>2, <3>3 DEF TypeOK, TablesTyped
  <2>2. fanout' \in [Messages -> FanoutRow]
    BY <1>1 DEF Accept, TypeOK, TablesTyped, FanoutRow
  <2>3. outbox' \in [Messages -> {"none", "pending", "published"}]
    BY <1>1 DEF Accept, TypeOK, TablesTyped
  <2> QED BY <1>1, <2>1, <2>2, <2>3 DEF Accept, TypeOK, TablesTyped, MemoryTyped, WorldTyped
<1>2. ASSUME NEW m \in Messages, PollAndDispatch(m) PROVE TypeOK'
  <2>1. lanes' \in [Devices -> Seq(Task)]
    <3>1. [msg |-> m, attempts |-> pending[m].attempts] \in Task
      BY DEF TypeOK, TablesTyped, PendingRow, Task
    <3> QED BY <1>2, <3>1, ScheduleTyped DEF PollAndDispatch, TypeOK, MemoryTyped
  <2>2. outbox' \in [Messages -> {"none", "pending", "published"}]
    BY <1>2 DEF PollAndDispatch, TypeOK, TablesTyped
  <2> QED BY <1>2, <2>1, <2>2 DEF PollAndDispatch, TypeOK, TablesTyped, MemoryTyped, WorldTyped
<1>3. ASSUME NEW m \in Messages, CallStep(m) PROVE TypeOK'
  <2>1. CASE AckStart(m) BY <2>1 DEF AckStart, TypeOK, TablesTyped, MemoryTyped, WorldTyped
  <2>2. CASE AckRecords(m)
    <3>1. fanout' \in [Messages -> FanoutRow]
      BY <2>2 DEF AckRecords, RecordDeliveryAck, TypeOK, TablesTyped, FanoutRow
    <3> QED BY <2>2, <3>1 DEF AckRecords, TypeOK, TablesTyped, MemoryTyped, WorldTyped
  <2>3. CASE AckSettlesPending(m)
    <3>1. pending' \in [Messages -> PendingRow]
      <4>1. pending[m].attempts \in 0 .. AttemptBound BY DEF TypeOK, TablesTyped, PendingRow
      <4> QED BY <2>3, <4>1, UpdateStatusTyped DEF AckSettlesPending, TypeOK, TablesTyped, DeliveryStates
    <3> QED BY <2>3, <3>1 DEF AckSettlesPending, TypeOK, TablesTyped, MemoryTyped, WorldTyped
  <2>4. CASE AckAnnounces(m)
    BY <2>4 DEF AckAnnounces, TypeOK, TablesTyped, MemoryTyped, WorldTyped
  <2>5. CASE ReadStart(m) BY <2>5 DEF ReadStart, TypeOK, TablesTyped, MemoryTyped, WorldTyped
  <2>6. CASE ReadRecords(m)
    <3>1. fanout' \in [Messages -> FanoutRow]
      <4>1. /\ fanout \in [Messages -> FanoutRow]
            /\ fanout' = [fanout EXCEPT ![m].state = "READ", ![m].read = TRUE]
        BY <2>6 DEF ReadRecords, RecordReadAck, TypeOK, TablesTyped
      <4> QED BY <4>1 DEF FanoutRow
    <3> QED BY <2>6, <3>1 DEF ReadRecords, TypeOK, TablesTyped, MemoryTyped, WorldTyped
  <2>7. CASE ReadAnnounces(m)
    BY <2>7 DEF ReadAnnounces, TypeOK, TablesTyped, MemoryTyped, WorldTyped
  <2>8. CASE CallFails(m) BY <2>8 DEF CallFails, TypeOK, TablesTyped, MemoryTyped, WorldTyped
  <2> QED BY <1>3, <2>1, <2>2, <2>3, <2>4, <2>5, <2>6, <2>7, <2>8 DEF CallStep
<1>4. ASSUME NEW m \in Messages, DeviceSyncs(m) PROVE TypeOK'
  BY <1>4 DEF DeviceSyncs, TypeOK, TablesTyped, MemoryTyped, WorldTyped
<1>5. ASSUME NEW m \in Messages, BackoffElapses(m) PROVE TypeOK'
  <2>1. pending' \in [Messages -> PendingRow]
    <3>1. /\ pending \in [Messages -> PendingRow]
          /\ pending' = [pending EXCEPT ![m].due = TRUE]
      BY <1>5 DEF BackoffElapses, TypeOK, TablesTyped
    <3> QED BY <3>1 DEF PendingRow
  <2> QED BY <1>5, <2>1 DEF BackoffElapses, TypeOK, TablesTyped, MemoryTyped, WorldTyped
<1>6. ASSUME NEW m \in Messages, DeliveryWindowCloses(m) PROVE TypeOK'
  BY <1>6 DEF DeliveryWindowCloses, TypeOK, TablesTyped, MemoryTyped, WorldTyped
<1>7. ASSUME NEW w \in Workers, WorkerStep(w) PROVE TypeOK'
  <2>0. ~At(w, "idle") => /\ worker[w].task \in Task
                          /\ Message(w) \in Messages
                          /\ Attempts(w) \in 0 .. AttemptBound
    BY BusyWorker
  <2>a. ASSUME NEW step \in WorkerSteps, GoTo(w, step)
        PROVE  worker' \in [Workers -> [step : WorkerSteps, task : Task \cup {NoTask}]]
    BY <2>a DEF GoTo, TypeOK, MemoryTyped
  <2>b. ASSUME Finish(w)
        PROVE  worker' \in [Workers -> [step : WorkerSteps, task : Task \cup {NoTask}]]
    BY <2>b, IdleTyped DEF Finish, TypeOK, MemoryTyped
  <2>c. ASSUME NEW st \in DeliveryStates, ~At(w, "idle"),
               UpdateStatus(Message(w), st, Attempts(w))
        PROVE  pending' \in [Messages -> PendingRow]
    BY <2>0, <2>c, UpdateStatusTyped DEF TypeOK
  <2>d. "idle" # "lookup" /\ "idle" # "send" /\ "idle" # "ack" /\ "idle" # "settle" /\ "idle" # "announce"
    OBVIOUS
  <2>1. CASE Dequeue(w)
    <3>1. PICK d \in Devices :
              /\ Lanes!TakeFrom(d)
              /\ worker' = [worker EXCEPT ![w] = [step |-> "lookup",
                                                 task |-> Head(lanes[d])]]
      BY <2>1 DEF Dequeue
    <3>2. lanes' \in [Devices -> Seq(Task)] /\ Head(lanes[d]) \in Task
      BY <3>1, TakeTyped DEF TypeOK
    <3>3. worker' \in [Workers -> [step : WorkerSteps, task : Task \cup {NoTask}]]
      BY <3>1, <3>2 DEF TypeOK, MemoryTyped, WorkerSteps
    <3> QED BY <2>1, <3>2, <3>3 DEF Dequeue, TypeOK, TablesTyped, MemoryTyped, WorldTyped
  <2>2. CASE DeviceOffline(w)
    <3>1. pending' \in [Messages -> PendingRow]
      <4>1. ~At(w, "idle") /\ UpdateStatus(Message(w), "QUEUED", Attempts(w))
        BY <2>2 DEF DeviceOffline, At
      <4>2. "QUEUED" \in DeliveryStates BY DEF DeliveryStates
      <4> QED BY <2>c, <4>1, <4>2
    <3>2. worker' \in [Workers -> [step : WorkerSteps, task : Task \cup {NoTask}]]
      BY <2>2, <2>b DEF DeviceOffline, WorkerSteps
    <3> QED BY <2>2, <3>1, <3>2 DEF DeviceOffline, TypeOK, TablesTyped, MemoryTyped, WorldTyped
  <2>3. CASE MarkDelivering(w)
    <3>1. pending' \in [Messages -> PendingRow]
      <4>1. ~At(w, "idle") /\ UpdateStatus(Message(w), "DELIVERING", Attempts(w))
        BY <2>3 DEF MarkDelivering, At
      <4>2. "DELIVERING" \in DeliveryStates BY DEF DeliveryStates
      <4> QED BY <2>c, <4>1, <4>2
    <3>2. worker' \in [Workers -> [step : WorkerSteps, task : Task \cup {NoTask}]]
      BY <2>3, <2>a DEF MarkDelivering, WorkerSteps
    <3> QED BY <2>3, <3>1, <3>2 DEF MarkDelivering, TypeOK, TablesTyped, MemoryTyped, WorldTyped
  <2>4. CASE EnvelopeArrives(w)
    BY <2>4 DEF EnvelopeArrives, TypeOK, TablesTyped, MemoryTyped, WorldTyped
  <2>5. CASE SendSuccess(w)
    <3>1. worker' \in [Workers -> [step : WorkerSteps, task : Task \cup {NoTask}]]
      BY <2>5, <2>a DEF SendSuccess, WorkerSteps
    <3> QED BY <2>5, <3>1 DEF SendSuccess, TypeOK, TablesTyped, MemoryTyped, WorldTyped
  <2>6. CASE SendRecipientOffline(w)
    <3>1. pending' \in [Messages -> PendingRow]
      <4>1. ~At(w, "idle") /\ UpdateStatus(Message(w), "QUEUED", Attempts(w))
        BY <2>6 DEF SendRecipientOffline, At
      <4>2. "QUEUED" \in DeliveryStates BY DEF DeliveryStates
      <4> QED BY <2>c, <4>1, <4>2
    <3>2. worker' \in [Workers -> [step : WorkerSteps, task : Task \cup {NoTask}]]
      BY <2>6, <2>b DEF SendRecipientOffline, WorkerSteps
    <3> QED BY <2>6, <3>1, <3>2 DEF SendRecipientOffline, TypeOK, TablesTyped, MemoryTyped, WorldTyped
  <2>7. CASE SendTransientFailure(w)
    <3> DEFINE t == [msg |-> Message(w), attempts |-> Attempts(w) + 1]
    <3>1. ~At(w, "idle") /\ Attempts(w) < AttemptBound BY <2>7 DEF SendTransientFailure, At
    <3>2. /\ t \in Task /\ t.msg \in Messages
          /\ t.attempts \in 0 .. AttemptBound
      BY <2>0, <3>1, BoundsAssumption DEF Task
    <3>3. \/ UpdateStatus(t.msg, "RETRY_WAIT", t.attempts) /\ Schedule(t)
          \/ UpdateStatus(t.msg, "EXPIRED", t.attempts) /\ UNCHANGED lanes
      BY <2>7 DEF SendTransientFailure
    <3> HIDE DEF t
    <3>4. pending' \in [Messages -> PendingRow]
      <4>1. "RETRY_WAIT" \in DeliveryStates /\ "EXPIRED" \in DeliveryStates
        BY DEF DeliveryStates
      <4> QED BY <3>2, <3>3, <4>1, UpdateStatusTyped DEF TypeOK
    <3>5. lanes' \in [Devices -> Seq(Task)]
      BY <3>2, <3>3, ScheduleTyped DEF TypeOK, MemoryTyped
    <3>6. worker' \in [Workers -> [step : WorkerSteps, task : Task \cup {NoTask}]]
      BY <2>7, <2>b DEF SendTransientFailure
    <3> QED BY <2>7, <3>4, <3>5, <3>6 DEF SendTransientFailure, TypeOK, TablesTyped, MemoryTyped, WorldTyped
  <2>8. CASE SendTerminalFailure(w)
    <3>1. pending' \in [Messages -> PendingRow]
      <4>1. ~At(w, "idle") /\ UpdateStatus(Message(w), "EXPIRED", Attempts(w))
        BY <2>8 DEF SendTerminalFailure, At
      <4>2. "EXPIRED" \in DeliveryStates BY DEF DeliveryStates
      <4> QED BY <2>c, <4>1, <4>2
    <3>2. worker' \in [Workers -> [step : WorkerSteps, task : Task \cup {NoTask}]]
      BY <2>8, <2>b DEF SendTerminalFailure, WorkerSteps
    <3> QED BY <2>8, <3>1, <3>2 DEF SendTerminalFailure, TypeOK, TablesTyped, MemoryTyped, WorldTyped
  <2>9. CASE WorkerRecordsAck(w)
    <3>1. fanout' \in [Messages -> FanoutRow]
      BY <2>9, <2>0 DEF WorkerRecordsAck, RecordDeliveryAck, TypeOK, TablesTyped, FanoutRow, At
    <3>2. worker' \in [Workers -> [step : WorkerSteps, task : Task \cup {NoTask}]]
      BY <2>9, <2>a DEF WorkerRecordsAck, WorkerSteps
    <3> QED BY <2>9, <3>1, <3>2 DEF WorkerRecordsAck, TypeOK, TablesTyped, MemoryTyped, WorldTyped
  <2>10. CASE WorkerSettlesPending(w)
    <3>1. pending' \in [Messages -> PendingRow]
      <4>1. ~At(w, "idle") /\ UpdateStatus(Message(w), "DELIVERED", Attempts(w))
        BY <2>10 DEF WorkerSettlesPending, At
      <4>2. "DELIVERED" \in DeliveryStates BY DEF DeliveryStates
      <4> QED BY <2>c, <4>1, <4>2
    <3>2. worker' \in [Workers -> [step : WorkerSteps, task : Task \cup {NoTask}]]
      BY <2>10, <2>a DEF WorkerSettlesPending, WorkerSteps
    <3> QED BY <2>10, <3>1, <3>2 DEF WorkerSettlesPending, TypeOK, TablesTyped, MemoryTyped, WorldTyped
  <2>11. CASE WorkerAnnounces(w)
    <3>1. events' \subseteq {"MessageDelivered", "MessageRead"} \X Messages
      BY <2>11, <2>0 DEF WorkerAnnounces, TypeOK, TablesTyped, At
    <3>2. worker' \in [Workers -> [step : WorkerSteps, task : Task \cup {NoTask}]]
      BY <2>11, <2>b DEF WorkerAnnounces
    <3> QED BY <2>11, <3>1, <3>2 DEF WorkerAnnounces, TypeOK, TablesTyped, MemoryTyped, WorldTyped
  <2> QED BY <1>7, <2>1, <2>2, <2>3, <2>4, <2>5, <2>6, <2>7, <2>8, <2>9, <2>10, <2>11 DEF WorkerStep
<1>8. ASSUME NEW d \in Devices, StartRecoveryCycle(d) PROVE TypeOK'
  <2>1. "recovery" \in Scanners /\ month \in 0 .. MaxMonth
    BY DEF Scanners, TypeOK, WorldTyped
  <2>2. scan' \in [Scanners -> Pass] BY <1>8, <2>1, BeginTyped DEF StartRecoveryCycle
  <2> QED BY <1>8, <2>2 DEF StartRecoveryCycle, TypeOK, TablesTyped, MemoryTyped, WorldTyped
<1>9. ASSUME NEW d \in Devices, Connect(d) PROVE TypeOK'
  <2>1. scan' \in [Scanners -> Pass]
    BY <1>9 DEF Connect, TypeOK, MemoryTyped, WorldTyped, Pass, Phases, Scanners
  <2> QED BY <1>9, <2>1 DEF Connect, TypeOK, TablesTyped, MemoryTyped, WorldTyped
<1>10. ASSUME NEW d \in Devices, CallbackFails(d) PROVE TypeOK'
  <2>1. scan' \in [Scanners -> Pass]
    BY <1>10, IdleTyped DEF CallbackFails, TypeOK, MemoryTyped, Scanners
  <2> QED BY <1>10, <2>1 DEF CallbackFails, TypeOK, TablesTyped, MemoryTyped, WorldTyped
<1>11. ASSUME NEW d \in Devices, Disconnect(d) PROVE TypeOK'
  BY <1>11, BoundsAssumption DEF Disconnect, TypeOK, TablesTyped, MemoryTyped, WorldTyped
<1>12. ASSUME NEW s \in Scanners, EndPhase(s) PROVE TypeOK'
  <2>1. scan[s] \in Pass BY DEF TypeOK, MemoryTyped
  <2>2. CASE scan[s].phase = "recover"
    <3>1. scan' \in [Scanners -> Pass]
      BY <1>12, <2>2, IdleTyped DEF EndPhase, TypeOK, MemoryTyped
    <3> QED BY <1>12, <3>1 DEF EndPhase, TypeOK, TablesTyped, MemoryTyped, WorldTyped
  <2>3. CASE scan[s].phase # "recover"
    <3> DEFINE bucket == IF scan[s].phase = "connected" THEN month ELSE scan[s].bucket
    <3>1. /\ NextPhase[scan[s].phase] \in {"purge", "sweep", "recover"}
          /\ scan[s].device \in Devices /\ bucket \in 0 .. MaxMonth
      BY <1>12, <2>1, <2>3 DEF EndPhase, NextPhase, Pass, Phases, TypeOK, WorldTyped
    <3>2. Begin(s, NextPhase[scan[s].phase], scan[s].device, bucket)
      BY <1>12, <2>3 DEF EndPhase
    <3>3. scan' \in [Scanners -> Pass] BY <3>1, <3>2, BeginTyped
    <3> QED BY <1>12, <3>3 DEF EndPhase, TypeOK, TablesTyped, MemoryTyped, WorldTyped
  <2> QED BY <2>2, <2>3
<1>13. ASSUME NEW s \in Scanners, ScanRow(s) PROVE TypeOK'
  BY <1>13, ScanRowTyped DEF ScanRow, TypeOK, TablesTyped, MemoryTyped, WorldTyped
<1>14. CASE NewMonth
  BY <1>14, BoundsAssumption DEF NewMonth, TypeOK, TablesTyped, MemoryTyped, WorldTyped
<1>15. CASE Crash
  BY <1>15, IdleTyped, BoundsAssumption DEF Crash, TypeOK, TablesTyped, MemoryTyped, WorldTyped
<1>16. CASE UNCHANGED vars BY <1>16 DEF vars, TypeOK, TablesTyped, MemoryTyped, WorldTyped
<1> QED
  BY <1>1, <1>2, <1>3, <1>4, <1>5, <1>6, <1>7, <1>8, <1>9, <1>10, <1>11, <1>12, <1>13, <1>14, <1>15, <1>16 DEF Next
-----------------------------------------------------------------------------
(***************************************************************************)
(* Only accepted messages are under way                                    *)
(***************************************************************************)

\* No step takes an acceptance back.
LEMMA AcceptedKept ==
    ASSUME TypeOK, OnlyAccepted, [Next]_vars
    PROVE  \A k \in Messages : Accepted(k) => Accepted(k)'
<1> USE DEF tables, clock, counts
<1> DEFINE Goal == \A k \in Messages : Accepted(k) => Accepted(k)'
<1>0. ASSUME UNCHANGED <<pending>> PROVE Goal BY <1>0 DEF Accepted
<1>1. ASSUME NEW m \in Messages, Accept(m) PROVE Goal
  <2>1. pending[m] \in PendingRow BY DEF TypeOK, TablesTyped
  <2>2. \A k \in Messages : pending'[k].state = IF k = m THEN "QUEUED" ELSE pending[k].state
    BY <1>1, <2>1 DEF Accept, TypeOK, TablesTyped, PendingRow
  <2> QED BY <2>2 DEF Accepted
<1>2. ASSUME NEW m \in Messages, AckSettlesPending(m) PROVE Goal
  <2>1. pending[m].attempts \in 0 .. AttemptBound BY DEF TypeOK, TablesTyped, PendingRow
  <2>2. CASE UNCHANGED pending BY <2>2, <1>0
  <2>3. CASE UpdateStatus(m, "DELIVERED", pending[m].attempts)
    BY <2>1, <2>3, UpdateStatusTyped DEF TypeOK, DeliveryStates
  <2> QED BY <1>2, <2>2, <2>3 DEF AckSettlesPending
<1>3. ASSUME NEW m \in Messages, BackoffElapses(m) PROVE Goal
  BY <1>3 DEF BackoffElapses, TypeOK, TablesTyped, PendingRow, Accepted
<1>4. ASSUME NEW w \in Workers, DeviceOffline(w) PROVE Goal
  <2>1. ~At(w, "idle") /\ UpdateStatus(Message(w), "QUEUED", Attempts(w))
    BY <1>4 DEF DeviceOffline, At
  <2>2. "QUEUED" \in DeliveryStates BY DEF DeliveryStates
  <2> QED BY <2>1, <2>2, BusyWorker, UpdateStatusTyped DEF TypeOK
<1>5. ASSUME NEW w \in Workers, MarkDelivering(w) PROVE Goal
  <2>1. ~At(w, "idle") /\ UpdateStatus(Message(w), "DELIVERING", Attempts(w))
    BY <1>5 DEF MarkDelivering, At
  <2>2. "DELIVERING" \in DeliveryStates BY DEF DeliveryStates
  <2> QED BY <2>1, <2>2, BusyWorker, UpdateStatusTyped DEF TypeOK
<1>6. ASSUME NEW w \in Workers, SendRecipientOffline(w) PROVE Goal
  <2>1. ~At(w, "idle") /\ UpdateStatus(Message(w), "QUEUED", Attempts(w))
    BY <1>6 DEF SendRecipientOffline, At
  <2>2. "QUEUED" \in DeliveryStates BY DEF DeliveryStates
  <2> QED BY <2>1, <2>2, BusyWorker, UpdateStatusTyped DEF TypeOK
<1>7. ASSUME NEW w \in Workers, SendTransientFailure(w) PROVE Goal
  <2> DEFINE t == [msg |-> Message(w), attempts |-> Attempts(w) + 1]
  <2>1. ~At(w, "idle") /\ Attempts(w) < AttemptBound BY <1>7 DEF SendTransientFailure, At
  <2>2. Message(w) \in Messages /\ t.attempts \in 0 .. AttemptBound
    BY <2>1, BusyWorker, BoundsAssumption
  <2>3. \/ UpdateStatus(Message(w), "RETRY_WAIT", t.attempts)
        \/ UpdateStatus(Message(w), "EXPIRED", t.attempts)
    BY <1>7 DEF SendTransientFailure
  <2>4. "RETRY_WAIT" \in DeliveryStates /\ "EXPIRED" \in DeliveryStates BY DEF DeliveryStates
  <2> HIDE DEF t
  <2> QED BY <2>2, <2>3, <2>4, UpdateStatusTyped DEF TypeOK
<1>8. ASSUME NEW w \in Workers, SendTerminalFailure(w) PROVE Goal
  <2>1. ~At(w, "idle") /\ UpdateStatus(Message(w), "EXPIRED", Attempts(w))
    BY <1>8 DEF SendTerminalFailure, At
  <2>2. "EXPIRED" \in DeliveryStates BY DEF DeliveryStates
  <2> QED BY <2>1, <2>2, BusyWorker, UpdateStatusTyped DEF TypeOK
<1>9. ASSUME NEW w \in Workers, WorkerSettlesPending(w) PROVE Goal
  <2>1. ~At(w, "idle") /\ UpdateStatus(Message(w), "DELIVERED", Attempts(w))
    BY <1>9 DEF WorkerSettlesPending, At
  <2>2. "DELIVERED" \in DeliveryStates BY DEF DeliveryStates
  <2> QED BY <2>1, <2>2, BusyWorker, UpdateStatusTyped DEF TypeOK
<1>10. ASSUME NEW s \in Scanners, ScanRow(s) PROVE Goal BY <1>10, ScanRowTyped
<1>11. CASE UNCHANGED vars BY <1>11, <1>0 DEF vars
<1>12. ASSUME NEW m \in Messages,
             \/ PollAndDispatch(m) \/ AckStart(m) \/ AckRecords(m) \/ AckAnnounces(m)
             \/ ReadStart(m) \/ ReadRecords(m) \/ ReadAnnounces(m) \/ CallFails(m)
             \/ DeviceSyncs(m) \/ DeliveryWindowCloses(m)
      PROVE  Goal
  BY <1>12, <1>0
  DEF PollAndDispatch, AckStart, AckRecords, AckAnnounces,
      ReadStart, ReadRecords, ReadAnnounces, CallFails,
      DeviceSyncs, DeliveryWindowCloses
<1>13. ASSUME NEW w \in Workers,
             \/ Dequeue(w) \/ EnvelopeArrives(w) \/ SendSuccess(w) \/ WorkerRecordsAck(w)
             \/ WorkerAnnounces(w)
      PROVE  Goal
  BY <1>13, <1>0
  DEF Dequeue, EnvelopeArrives, SendSuccess, WorkerRecordsAck,
      WorkerAnnounces
<1>14. ASSUME NEW d \in Devices,
             \/ StartRecoveryCycle(d) \/ Connect(d) \/ CallbackFails(d) \/ Disconnect(d)
      PROVE  Goal
  BY <1>14, <1>0
  DEF StartRecoveryCycle, Connect, CallbackFails, Disconnect
<1>15. ASSUME NEW s \in Scanners,
             \/ EndPhase(s)
      PROVE  Goal
  BY <1>15, <1>0
  DEF EndPhase
<1>16. CASE NewMonth BY <1>16, <1>0 DEF NewMonth
<1>17. CASE Crash BY <1>17, <1>0 DEF Crash
<1> QED BY <1>0, <1>1, <1>2, <1>3, <1>4, <1>5, <1>6, <1>7, <1>8, <1>9,
     <1>10, <1>11, <1>12, <1>13, <1>14, <1>15, <1>16, <1>17
  DEF Next, CallStep, WorkerStep

\* Every step leaves only tasks of accepted messages in the lanes.
LEMMA LanesAcceptedStep ==
    ASSUME TypeOK, OnlyAccepted, [Next]_vars
    PROVE  LanesAccepted'
<1> USE DEF tables, clock, counts
<1>0. ASSUME UNCHANGED <<lanes>> PROVE LanesAccepted'
  BY <1>0, AcceptedKept, LanesKept DEF TypeOK, OnlyAccepted
<1>1. ASSUME NEW m \in Messages, PollAndDispatch(m) PROVE LanesAccepted'
  <2> DEFINE t == [msg |-> m, attempts |-> pending[m].attempts]
  <2>1. t \in Task BY DEF TypeOK, TablesTyped, PendingRow, Task
  <2>2. UNCHANGED pending BY <1>1 DEF PollAndDispatch
  <2>3. UNCHANGED lanes \/ (Schedule(t) /\ Accepted(t.msg))
    BY <1>1 DEF PollAndDispatch, FetchPending, Rows, Accepted
  <2> HIDE DEF t
  <2>4. \A k \in Messages : Accepted(k) => Accepted(k)' BY <2>2 DEF Accepted
  <2> QED BY <2>1, <2>3, <2>4, LanesKept, LanesGrow DEF TypeOK, OnlyAccepted
<1>2. ASSUME NEW w \in Workers, Dequeue(w) PROVE LanesAccepted'
  <2>1. PICK d \in Devices : Lanes!TakeFrom(d) BY <1>2 DEF Dequeue
  <2>2. \A e \in Devices : \A i \in 1 .. Len(lanes'[e]) :
            \E j \in 1 .. Len(lanes[e]) : lanes'[e][i] = lanes[e][j]
    BY <2>1, TakeTyped DEF TypeOK
  <2>3. UNCHANGED pending BY <1>2 DEF Dequeue
  <2>4. ASSUME NEW e \in Devices, NEW i \in 1 .. Len(lanes'[e])
        PROVE  pending'[lanes'[e][i].msg].state # "NONE"
    <3>1. PICK j \in 1 .. Len(lanes[e]) : lanes'[e][i] = lanes[e][j] BY <2>2
    <3>2. pending[lanes[e][j].msg].state # "NONE"
      BY DEF OnlyAccepted, LanesAccepted, Accepted
    <3> QED BY <3>1, <3>2, <2>3
  <2> QED BY <2>4 DEF LanesAccepted, Accepted
<1>3. ASSUME NEW w \in Workers, SendTransientFailure(w) PROVE LanesAccepted'
  <2> DEFINE t == [msg |-> Message(w), attempts |-> Attempts(w) + 1]
  <2>1. ~At(w, "idle") /\ Attempts(w) < AttemptBound BY <1>3 DEF SendTransientFailure, At
  <2>2. t \in Task /\ Accepted(t.msg) BY <2>1, BusyWorker, BoundsAssumption DEF Task
  <2>3. Schedule(t) \/ UNCHANGED lanes BY <1>3 DEF SendTransientFailure
  <2> HIDE DEF t
  <2> QED BY <2>2, <2>3, AcceptedKept, LanesKept, LanesGrow DEF TypeOK, OnlyAccepted
<1>4. ASSUME NEW s \in Scanners, ScanRow(s) PROVE LanesAccepted' BY <1>4, ScanRowTyped
<1>5. CASE Crash BY <1>5 DEF Crash, LanesAccepted
<1>6. CASE UNCHANGED vars BY <1>6, <1>0 DEF vars
<1>7. ASSUME NEW m \in Messages,
             \/ Accept(m) \/ AckStart(m) \/ AckRecords(m) \/ AckSettlesPending(m)
             \/ AckAnnounces(m) \/ ReadStart(m) \/ ReadRecords(m) \/ ReadAnnounces(m)
             \/ CallFails(m) \/ DeviceSyncs(m) \/ BackoffElapses(m) \/ DeliveryWindowCloses(m)
      PROVE  LanesAccepted'
  BY <1>7, <1>0
  DEF Accept, AckStart, AckRecords, AckSettlesPending,
      AckAnnounces, ReadStart, ReadRecords, ReadAnnounces,
      CallFails, DeviceSyncs, BackoffElapses, DeliveryWindowCloses
<1>8. ASSUME NEW w \in Workers,
             \/ DeviceOffline(w) \/ MarkDelivering(w) \/ EnvelopeArrives(w) \/ SendSuccess(w)
             \/ SendRecipientOffline(w) \/ SendTerminalFailure(w) \/ WorkerRecordsAck(w) \/ WorkerSettlesPending(w)
             \/ WorkerAnnounces(w)
      PROVE  LanesAccepted'
  BY <1>8, <1>0
  DEF DeviceOffline, MarkDelivering, EnvelopeArrives, SendSuccess,
      SendRecipientOffline, SendTerminalFailure, WorkerRecordsAck, WorkerSettlesPending,
      WorkerAnnounces
<1>9. ASSUME NEW d \in Devices,
             \/ StartRecoveryCycle(d) \/ Connect(d) \/ CallbackFails(d) \/ Disconnect(d)
      PROVE  LanesAccepted'
  BY <1>9, <1>0
  DEF StartRecoveryCycle, Connect, CallbackFails, Disconnect
<1>10. ASSUME NEW s \in Scanners,
             \/ EndPhase(s)
      PROVE  LanesAccepted'
  BY <1>10, <1>0
  DEF EndPhase
<1>11. CASE NewMonth BY <1>11, <1>0 DEF NewMonth
<1> QED BY <1>0, <1>1, <1>2, <1>3, <1>4, <1>5, <1>6, <1>7, <1>8, <1>9,
     <1>10, <1>11
  DEF Next, CallStep, WorkerStep

\* Every step leaves the workers with tasks of accepted messages.
LEMMA WorkersAcceptedStep ==
    ASSUME TypeOK, OnlyAccepted, [Next]_vars
    PROVE  WorkersAccepted'
<1> USE DEF tables, clock, counts
<1>a. \A v \in Workers :
          ~At(v, "idle") => /\ Message(v) \in Messages
                            /\ pending'[Message(v)].state # "NONE"
  <2>1. ASSUME NEW v \in Workers, ~At(v, "idle")
        PROVE  Message(v) \in Messages /\ pending'[Message(v)].state # "NONE"
    <3> DEFINE k == Message(v)
    <3>1. k \in Messages /\ Accepted(k) BY <2>1, BusyWorker
    <3> HIDE DEF k
    <3>2. pending'[k].state # "NONE" BY <3>1, AcceptedKept DEF Accepted
    <3> QED BY <3>1, <3>2 DEF k
  <2> QED BY <2>1
<1>0. ASSUME UNCHANGED <<worker>> PROVE WorkersAccepted'
  BY <1>0, <1>a DEF WorkersAccepted, At, Message, Accepted
<1>1. ASSUME NEW w \in Workers, Dequeue(w) PROVE WorkersAccepted'
  <2>1. PICK d \in Devices :
            /\ Lanes!TakeFrom(d)
            /\ worker' = [worker EXCEPT ![w] = [step |-> "lookup",
                                               task |-> Head(lanes[d])]]
    BY <1>1 DEF Dequeue
  <2>2. Head(lanes[d]) \in Task /\ 1 \in 1 .. Len(lanes[d]) /\ Head(lanes[d]) = lanes[d][1]
    BY <2>1, TakeTyped DEF TypeOK
  <2>3. Head(lanes[d]).msg \in Messages /\ pending[Head(lanes[d]).msg].state # "NONE"
    BY <2>2 DEF Task, OnlyAccepted, LanesAccepted, Accepted
  <2>4. UNCHANGED pending BY <1>1 DEF Dequeue
  <2>5. \A v \in Workers : v # w => worker'[v] = worker[v] BY <2>1 DEF TypeOK, MemoryTyped
  <2>6. worker'[w].task = Head(lanes[d]) BY <2>1 DEF TypeOK, MemoryTyped
  <2> QED BY <2>3, <2>4, <2>5, <2>6, <1>a DEF WorkersAccepted, At, Message, Accepted
<1>2. ASSUME NEW w \in Workers, DeviceOffline(w) PROVE WorkersAccepted'
  <2>1. \A v \in Workers : v # w => worker'[v] = worker[v]
    BY <1>2 DEF DeviceOffline, Finish, TypeOK, MemoryTyped
  <2>2. worker'[w].step = "idle"
    BY <1>2 DEF DeviceOffline, Finish, IdleWorker, TypeOK, MemoryTyped
  <2> QED BY <2>1, <2>2, <1>a DEF WorkersAccepted, At, Message, Accepted
<1>3. ASSUME NEW w \in Workers, MarkDelivering(w) PROVE WorkersAccepted'
  <2>1. \A v \in Workers : v # w => worker'[v] = worker[v]
    BY <1>3 DEF MarkDelivering, GoTo, TypeOK, MemoryTyped
  <2>2. worker'[w].task = worker[w].task /\ ~At(w, "idle")
    BY <1>3 DEF MarkDelivering, GoTo, At, TypeOK, MemoryTyped
  <2>3. Message(w) \in Messages /\ pending'[Message(w)].state # "NONE" BY <1>a, <2>2
  <2> QED BY <2>1, <2>2, <2>3, <1>a DEF WorkersAccepted, At, Message, Accepted
<1>4. ASSUME NEW w \in Workers, SendSuccess(w) PROVE WorkersAccepted'
  <2>1. \A v \in Workers : v # w => worker'[v] = worker[v]
    BY <1>4 DEF SendSuccess, GoTo, TypeOK, MemoryTyped
  <2>2. worker'[w].task = worker[w].task /\ ~At(w, "idle")
    BY <1>4 DEF SendSuccess, GoTo, At, TypeOK, MemoryTyped
  <2>3. Message(w) \in Messages /\ pending'[Message(w)].state # "NONE" BY <1>a, <2>2
  <2> QED BY <2>1, <2>2, <2>3, <1>a DEF WorkersAccepted, At, Message, Accepted
<1>5. ASSUME NEW w \in Workers, SendRecipientOffline(w) PROVE WorkersAccepted'
  <2>1. \A v \in Workers : v # w => worker'[v] = worker[v]
    BY <1>5 DEF SendRecipientOffline, Finish, TypeOK, MemoryTyped
  <2>2. worker'[w].step = "idle"
    BY <1>5 DEF SendRecipientOffline, Finish, IdleWorker, TypeOK, MemoryTyped
  <2> QED BY <2>1, <2>2, <1>a DEF WorkersAccepted, At, Message, Accepted
<1>6. ASSUME NEW w \in Workers, SendTransientFailure(w) PROVE WorkersAccepted'
  <2>1. \A v \in Workers : v # w => worker'[v] = worker[v]
    BY <1>6 DEF SendTransientFailure, Finish, TypeOK, MemoryTyped
  <2>2. worker'[w].step = "idle"
    BY <1>6 DEF SendTransientFailure, Finish, IdleWorker, TypeOK, MemoryTyped
  <2> QED BY <2>1, <2>2, <1>a DEF WorkersAccepted, At, Message, Accepted
<1>7. ASSUME NEW w \in Workers, SendTerminalFailure(w) PROVE WorkersAccepted'
  <2>1. \A v \in Workers : v # w => worker'[v] = worker[v]
    BY <1>7 DEF SendTerminalFailure, Finish, TypeOK, MemoryTyped
  <2>2. worker'[w].step = "idle"
    BY <1>7 DEF SendTerminalFailure, Finish, IdleWorker, TypeOK, MemoryTyped
  <2> QED BY <2>1, <2>2, <1>a DEF WorkersAccepted, At, Message, Accepted
<1>8. ASSUME NEW w \in Workers, WorkerRecordsAck(w) PROVE WorkersAccepted'
  <2>1. \A v \in Workers : v # w => worker'[v] = worker[v]
    BY <1>8 DEF WorkerRecordsAck, GoTo, TypeOK, MemoryTyped
  <2>2. worker'[w].task = worker[w].task /\ ~At(w, "idle")
    BY <1>8 DEF WorkerRecordsAck, GoTo, At, TypeOK, MemoryTyped
  <2>3. Message(w) \in Messages /\ pending'[Message(w)].state # "NONE" BY <1>a, <2>2
  <2> QED BY <2>1, <2>2, <2>3, <1>a DEF WorkersAccepted, At, Message, Accepted
<1>9. ASSUME NEW w \in Workers, WorkerSettlesPending(w) PROVE WorkersAccepted'
  <2>1. \A v \in Workers : v # w => worker'[v] = worker[v]
    BY <1>9 DEF WorkerSettlesPending, GoTo, TypeOK, MemoryTyped
  <2>2. worker'[w].task = worker[w].task /\ ~At(w, "idle")
    BY <1>9 DEF WorkerSettlesPending, GoTo, At, TypeOK, MemoryTyped
  <2>3. Message(w) \in Messages /\ pending'[Message(w)].state # "NONE" BY <1>a, <2>2
  <2> QED BY <2>1, <2>2, <2>3, <1>a DEF WorkersAccepted, At, Message, Accepted
<1>10. ASSUME NEW w \in Workers, WorkerAnnounces(w) PROVE WorkersAccepted'
  <2>1. \A v \in Workers : v # w => worker'[v] = worker[v]
    BY <1>10 DEF WorkerAnnounces, Finish, TypeOK, MemoryTyped
  <2>2. worker'[w].step = "idle"
    BY <1>10 DEF WorkerAnnounces, Finish, IdleWorker, TypeOK, MemoryTyped
  <2> QED BY <2>1, <2>2, <1>a DEF WorkersAccepted, At, Message, Accepted
<1>11. CASE Crash BY <1>11 DEF Crash, IdleWorker, WorkersAccepted, At
<1>12. CASE UNCHANGED vars BY <1>12, <1>0 DEF vars
<1>13. ASSUME NEW m \in Messages,
             \/ Accept(m) \/ PollAndDispatch(m) \/ AckStart(m) \/ AckRecords(m)
             \/ AckSettlesPending(m) \/ AckAnnounces(m) \/ ReadStart(m) \/ ReadRecords(m)
             \/ ReadAnnounces(m) \/ CallFails(m) \/ DeviceSyncs(m) \/ BackoffElapses(m)
             \/ DeliveryWindowCloses(m)
      PROVE  WorkersAccepted'
  BY <1>13, <1>0
  DEF Accept, PollAndDispatch, AckStart, AckRecords,
      AckSettlesPending, AckAnnounces, ReadStart, ReadRecords,
      ReadAnnounces, CallFails, DeviceSyncs, BackoffElapses,
      DeliveryWindowCloses
<1>14. ASSUME NEW w \in Workers,
             \/ EnvelopeArrives(w)
      PROVE  WorkersAccepted'
  BY <1>14, <1>0
  DEF EnvelopeArrives
<1>15. ASSUME NEW d \in Devices,
             \/ StartRecoveryCycle(d) \/ Connect(d) \/ CallbackFails(d) \/ Disconnect(d)
      PROVE  WorkersAccepted'
  BY <1>15, <1>0
  DEF StartRecoveryCycle, Connect, CallbackFails, Disconnect
<1>16. ASSUME NEW s \in Scanners,
             \/ EndPhase(s) \/ ScanRow(s)
      PROVE  WorkersAccepted'
  BY <1>16, <1>0
  DEF EndPhase, ScanRow
<1>17. CASE NewMonth BY <1>17, <1>0 DEF NewMonth
<1> QED BY <1>0, <1>1, <1>2, <1>3, <1>4, <1>5, <1>6, <1>7, <1>8, <1>9,
     <1>10, <1>11, <1>12, <1>13, <1>14, <1>15, <1>16, <1>17
  DEF Next, CallStep, WorkerStep

\* Every step leaves the passes with rows of accepted messages.
LEMMA RowsAcceptedStep ==
    ASSUME TypeOK, OnlyAccepted, [Next]_vars
    PROVE  RowsAccepted'
<1> USE DEF tables, clock, counts
<1>a. \A q \in Scanners : \A r \in scan[q].rows : pending'[r.msg].state # "NONE"
  <2>1. ASSUME NEW q \in Scanners, NEW r \in scan[q].rows
        PROVE  pending'[r.msg].state # "NONE"
    <3> DEFINE k == r.msg
    <3>1. k \in Messages /\ Accepted(k)
      BY DEF TypeOK, MemoryTyped, Pass, ScanEntry, OnlyAccepted, RowsAccepted
    <3> HIDE DEF k
    <3>2. pending'[k].state # "NONE" BY <3>1, AcceptedKept DEF Accepted
    <3> QED BY <3>2 DEF k
  <2> QED BY <2>1
<1>0. ASSUME UNCHANGED <<scan>> PROVE RowsAccepted' BY <1>0, <1>a DEF RowsAccepted, Accepted
<1>1. ASSUME NEW d \in Devices, StartRecoveryCycle(d) PROVE RowsAccepted'
  <2>1. "recovery" \in Scanners /\ month \in 0 .. MaxMonth
    BY DEF Scanners, TypeOK, WorldTyped
  <2>2. /\ \A r \in scan'["recovery"].rows : Accepted(r.msg)
        /\ \A q \in Scanners : q # "recovery" => scan'[q] = scan[q]
    BY <1>1, <2>1, BeginTyped DEF StartRecoveryCycle
  <2>3. UNCHANGED pending BY <1>1 DEF StartRecoveryCycle
  <2> QED BY <2>2, <2>3 DEF OnlyAccepted, RowsAccepted, Accepted
<1>2. ASSUME NEW d \in Devices, Connect(d) PROVE RowsAccepted'
  <2>1. \A q \in Scanners : scan'[q] = scan[q] \/ scan'[q].rows = {}
    BY <1>2 DEF Connect, TypeOK, MemoryTyped, Scanners
  <2> QED BY <2>1, <1>a DEF RowsAccepted, Accepted
<1>3. ASSUME NEW d \in Devices, CallbackFails(d) PROVE RowsAccepted'
  <2>1. \A q \in Scanners : scan'[q] = scan[q] \/ scan'[q].rows = {}
    BY <1>3, IdleTyped DEF CallbackFails, TypeOK, MemoryTyped, Scanners
  <2> QED BY <2>1, <1>a DEF RowsAccepted, Accepted
<1>4. ASSUME NEW s \in Scanners, EndPhase(s) PROVE RowsAccepted'
  <2>1. scan[s] \in Pass BY DEF TypeOK, MemoryTyped
  <2>2. CASE scan[s].phase = "recover"
    <3>1. \A q \in Scanners : scan'[q] = scan[q] \/ scan'[q].rows = {}
      BY <1>4, <2>2, IdleTyped DEF EndPhase, TypeOK, MemoryTyped
    <3> QED BY <3>1, <1>a DEF RowsAccepted, Accepted
  <2>3. CASE scan[s].phase # "recover"
    <3> DEFINE bucket == IF scan[s].phase = "connected" THEN month ELSE scan[s].bucket
    <3>1. /\ NextPhase[scan[s].phase] \in {"purge", "sweep", "recover"}
          /\ scan[s].device \in Devices /\ bucket \in 0 .. MaxMonth
      BY <1>4, <2>1, <2>3 DEF EndPhase, NextPhase, Pass, Phases, TypeOK, WorldTyped
    <3>2. Begin(s, NextPhase[scan[s].phase], scan[s].device, bucket)
      BY <1>4, <2>3 DEF EndPhase
    <3>3. /\ \A r \in scan'[s].rows : Accepted(r.msg)
          /\ \A q \in Scanners : q # s => scan'[q] = scan[q]
      BY <3>1, <3>2, BeginTyped
    <3>4. UNCHANGED pending BY <1>4 DEF EndPhase
    <3> QED BY <3>3, <3>4 DEF OnlyAccepted, RowsAccepted, Accepted
  <2> QED BY <2>2, <2>3
<1>5. ASSUME NEW s \in Scanners, ScanRow(s) PROVE RowsAccepted'
  <2>1. \A q \in Scanners : scan'[q].rows \subseteq scan[q].rows BY <1>5, ScanRowTyped
  <2> QED BY <2>1, <1>a DEF RowsAccepted, Accepted
<1>6. CASE Crash BY <1>6, IdleTyped DEF Crash, RowsAccepted
<1>7. CASE UNCHANGED vars BY <1>7, <1>0 DEF vars
<1>8. ASSUME NEW m \in Messages,
             \/ Accept(m) \/ PollAndDispatch(m) \/ AckStart(m) \/ AckRecords(m)
             \/ AckSettlesPending(m) \/ AckAnnounces(m) \/ ReadStart(m) \/ ReadRecords(m)
             \/ ReadAnnounces(m) \/ CallFails(m) \/ DeviceSyncs(m) \/ BackoffElapses(m)
             \/ DeliveryWindowCloses(m)
      PROVE  RowsAccepted'
  BY <1>8, <1>0
  DEF Accept, PollAndDispatch, AckStart, AckRecords,
      AckSettlesPending, AckAnnounces, ReadStart, ReadRecords,
      ReadAnnounces, CallFails, DeviceSyncs, BackoffElapses,
      DeliveryWindowCloses
<1>9. ASSUME NEW w \in Workers,
             \/ Dequeue(w) \/ DeviceOffline(w) \/ MarkDelivering(w) \/ EnvelopeArrives(w)
             \/ SendSuccess(w) \/ SendRecipientOffline(w) \/ SendTransientFailure(w) \/ SendTerminalFailure(w)
             \/ WorkerRecordsAck(w) \/ WorkerSettlesPending(w) \/ WorkerAnnounces(w)
      PROVE  RowsAccepted'
  BY <1>9, <1>0
  DEF Dequeue, DeviceOffline, MarkDelivering, EnvelopeArrives,
      SendSuccess, SendRecipientOffline, SendTransientFailure, SendTerminalFailure,
      WorkerRecordsAck, WorkerSettlesPending, WorkerAnnounces
<1>10. ASSUME NEW d \in Devices,
             \/ Disconnect(d)
      PROVE  RowsAccepted'
  BY <1>10, <1>0
  DEF Disconnect
<1>11. CASE NewMonth BY <1>11, <1>0 DEF NewMonth
<1> QED BY <1>0, <1>1, <1>2, <1>3, <1>4, <1>5, <1>6, <1>7, <1>8, <1>9,
     <1>10, <1>11
  DEF Next, CallStep, WorkerStep

\* A device only comes to hold messages that were accepted.
LEMMA ReceivedAcceptedStep ==
    ASSUME TypeOK, OnlyAccepted, [Next]_vars
    PROVE  ReceivedAccepted'
<1> USE DEF tables, clock, counts
<1>0. ASSUME UNCHANGED <<received>> PROVE ReceivedAccepted'
  BY <1>0, AcceptedKept DEF OnlyAccepted, ReceivedAccepted
<1>1. ASSUME NEW m \in Messages, DeviceSyncs(m) PROVE ReceivedAccepted'
  <2>1. \A k \in Messages : received'[k] => Accepted(k)
    BY <1>1 DEF DeviceSyncs, TypeOK, WorldTyped, OnlyAccepted, ReceivedAccepted, Accepted
  <2> QED BY <2>1, AcceptedKept DEF ReceivedAccepted
<1>2. ASSUME NEW w \in Workers, EnvelopeArrives(w) PROVE ReceivedAccepted'
  <2>1. ~At(w, "idle") BY <1>2 DEF EnvelopeArrives, At
  <2>2. \A k \in Messages : received'[k] => Accepted(k)
    BY <1>2, <2>1, BusyWorker DEF EnvelopeArrives, TypeOK, WorldTyped, OnlyAccepted, ReceivedAccepted
  <2> QED BY <2>2, AcceptedKept DEF ReceivedAccepted
<1>3. CASE UNCHANGED vars BY <1>3, <1>0 DEF vars
<1>4. ASSUME NEW m \in Messages,
             \/ Accept(m) \/ PollAndDispatch(m) \/ AckStart(m) \/ AckRecords(m)
             \/ AckSettlesPending(m) \/ AckAnnounces(m) \/ ReadStart(m) \/ ReadRecords(m)
             \/ ReadAnnounces(m) \/ CallFails(m) \/ BackoffElapses(m) \/ DeliveryWindowCloses(m)
      PROVE  ReceivedAccepted'
  BY <1>4, <1>0
  DEF Accept, PollAndDispatch, AckStart, AckRecords,
      AckSettlesPending, AckAnnounces, ReadStart, ReadRecords,
      ReadAnnounces, CallFails, BackoffElapses, DeliveryWindowCloses
<1>5. ASSUME NEW w \in Workers,
             \/ Dequeue(w) \/ DeviceOffline(w) \/ MarkDelivering(w) \/ SendSuccess(w)
             \/ SendRecipientOffline(w) \/ SendTransientFailure(w) \/ SendTerminalFailure(w) \/ WorkerRecordsAck(w)
             \/ WorkerSettlesPending(w) \/ WorkerAnnounces(w)
      PROVE  ReceivedAccepted'
  BY <1>5, <1>0
  DEF Dequeue, DeviceOffline, MarkDelivering, SendSuccess,
      SendRecipientOffline, SendTransientFailure, SendTerminalFailure, WorkerRecordsAck,
      WorkerSettlesPending, WorkerAnnounces
<1>6. ASSUME NEW d \in Devices,
             \/ StartRecoveryCycle(d) \/ Connect(d) \/ CallbackFails(d) \/ Disconnect(d)
      PROVE  ReceivedAccepted'
  BY <1>6, <1>0
  DEF StartRecoveryCycle, Connect, CallbackFails, Disconnect
<1>7. ASSUME NEW s \in Scanners,
             \/ EndPhase(s) \/ ScanRow(s)
      PROVE  ReceivedAccepted'
  BY <1>7, <1>0
  DEF EndPhase, ScanRow
<1>8. CASE NewMonth BY <1>8, <1>0 DEF NewMonth
<1>9. CASE Crash BY <1>9, <1>0 DEF Crash
<1> QED
  BY <1>0, <1>1, <1>2, <1>3, <1>4, <1>5, <1>6, <1>7, <1>8, <1>9
  DEF Next, CallStep, WorkerStep

\* The four parts together.
LEMMA OnlyAcceptedStep ==
    ASSUME TypeOK, OnlyAccepted, [Next]_vars
    PROVE  OnlyAccepted'
  BY LanesAcceptedStep, WorkersAcceptedStep, RowsAcceptedStep, ReceivedAcceptedStep
  DEF OnlyAccepted
-----------------------------------------------------------------------------
(***************************************************************************)
(* What is received, told or read stays so                                 *)
(***************************************************************************)

\* A device never loses a message it holds.
LEMMA ReceivedKept ==
    ASSUME DeliveryInv, [Next]_vars
    PROVE  \A k \in Messages : received[k] => received'[k]
<1> USE DEF tables, clock, counts
<1> DEFINE Goal == \A k \in Messages : received[k] => received'[k]
<1>0. ASSUME UNCHANGED <<received>> PROVE Goal BY <1>0
<1>1. ASSUME NEW m \in Messages, DeviceSyncs(m) PROVE Goal
  BY <1>1 DEF DeviceSyncs, DeliveryInv, TypeOK, WorldTyped
<1>2. ASSUME NEW w \in Workers, EnvelopeArrives(w) PROVE Goal
  BY <1>2 DEF EnvelopeArrives, DeliveryInv, TypeOK, WorldTyped
<1>3. CASE UNCHANGED vars BY <1>3, <1>0 DEF vars
<1>4. ASSUME NEW m \in Messages,
             \/ Accept(m) \/ PollAndDispatch(m) \/ AckStart(m) \/ AckRecords(m)
             \/ AckSettlesPending(m) \/ AckAnnounces(m) \/ ReadStart(m) \/ ReadRecords(m)
             \/ ReadAnnounces(m) \/ CallFails(m) \/ BackoffElapses(m) \/ DeliveryWindowCloses(m)
      PROVE  Goal
  BY <1>4, <1>0
  DEF Accept, PollAndDispatch, AckStart, AckRecords,
      AckSettlesPending, AckAnnounces, ReadStart, ReadRecords,
      ReadAnnounces, CallFails, BackoffElapses, DeliveryWindowCloses
<1>5. ASSUME NEW w \in Workers,
             \/ Dequeue(w) \/ DeviceOffline(w) \/ MarkDelivering(w) \/ SendSuccess(w)
             \/ SendRecipientOffline(w) \/ SendTransientFailure(w) \/ SendTerminalFailure(w) \/ WorkerRecordsAck(w)
             \/ WorkerSettlesPending(w) \/ WorkerAnnounces(w)
      PROVE  Goal
  BY <1>5, <1>0
  DEF Dequeue, DeviceOffline, MarkDelivering, SendSuccess,
      SendRecipientOffline, SendTransientFailure, SendTerminalFailure, WorkerRecordsAck,
      WorkerSettlesPending, WorkerAnnounces
<1>6. ASSUME NEW d \in Devices,
             \/ StartRecoveryCycle(d) \/ Connect(d) \/ CallbackFails(d) \/ Disconnect(d)
      PROVE  Goal
  BY <1>6, <1>0
  DEF StartRecoveryCycle, Connect, CallbackFails, Disconnect
<1>7. ASSUME NEW s \in Scanners,
             \/ EndPhase(s) \/ ScanRow(s)
      PROVE  Goal
  BY <1>7, <1>0
  DEF EndPhase, ScanRow
<1>8. CASE NewMonth BY <1>8, <1>0 DEF NewMonth
<1>9. CASE Crash BY <1>9, <1>0 DEF Crash
<1> QED
  BY <1>0, <1>1, <1>2, <1>3, <1>4, <1>5, <1>6, <1>7, <1>8, <1>9
  DEF Next, CallStep, WorkerStep

\* The sender's row never goes back from DELIVERED or READ to QUEUED, and a
\* recorded read stays recorded.
LEMMA ToldKept ==
    ASSUME DeliveryInv, [Next]_vars
    PROVE  \A k \in Messages : (Told(k) => Told(k)') /\ (fanout[k].read => fanout'[k].read)
<1> USE DEF tables, clock, counts
<1> DEFINE Goal == \A k \in Messages : (Told(k) => Told(k)') /\ (fanout[k].read => fanout'[k].read)
<1>0. ASSUME UNCHANGED <<fanout>> PROVE Goal BY <1>0 DEF Told
<1>1. ASSUME NEW m \in Messages, Accept(m) PROVE Goal
  <2>1. fanout \in [Messages -> FanoutRow] BY DEF DeliveryInv, TypeOK, TablesTyped
  <2>2. ~Accepted(m) BY <1>1 DEF Accept, Accepted
  <2>3. ~Told(m) /\ ~fanout[m].read
    BY <2>2 DEF DeliveryInv, OnlyAccepted, ReceivedAccepted, Witnessed,
       ReadWasReceived, DeliveredWasReceived, Told
  <2>4. \A k \in Messages : k # m => fanout'[k] = fanout[k] BY <1>1, <2>1 DEF Accept
  <2> QED BY <2>3, <2>4 DEF Told
<1>2. ASSUME NEW m \in Messages, AckRecords(m) PROVE Goal
  <2>1. fanout \in [Messages -> FanoutRow] BY DEF DeliveryInv, TypeOK, TablesTyped
  <2> QED BY <1>2, <2>1 DEF AckRecords, RecordDeliveryAck, FanoutRow, Told
<1>3. ASSUME NEW m \in Messages, ReadRecords(m) PROVE Goal
  <2>1. fanout \in [Messages -> FanoutRow] BY DEF DeliveryInv, TypeOK, TablesTyped
  <2> QED BY <1>3, <2>1 DEF ReadRecords, RecordReadAck, FanoutRow, Told
<1>4. ASSUME NEW w \in Workers, WorkerRecordsAck(w) PROVE Goal
  <2>1. fanout \in [Messages -> FanoutRow] BY DEF DeliveryInv, TypeOK, TablesTyped
  <2>2. \A k \in Messages : fanout'[k] = fanout[k]
                            \/ fanout'[k] = [fanout[k] EXCEPT !.state = "DELIVERED"]
    BY <1>4, <2>1 DEF WorkerRecordsAck, RecordDeliveryAck
  <2> QED BY <2>1, <2>2 DEF FanoutRow, Told
<1>5. CASE UNCHANGED vars BY <1>5, <1>0 DEF vars
<1>6. ASSUME NEW m \in Messages,
             \/ PollAndDispatch(m) \/ AckStart(m) \/ AckSettlesPending(m) \/ AckAnnounces(m)
             \/ ReadStart(m) \/ ReadAnnounces(m) \/ CallFails(m) \/ DeviceSyncs(m)
             \/ BackoffElapses(m) \/ DeliveryWindowCloses(m)
      PROVE  Goal
  BY <1>6, <1>0
  DEF PollAndDispatch, AckStart, AckSettlesPending, AckAnnounces,
      ReadStart, ReadAnnounces, CallFails, DeviceSyncs,
      BackoffElapses, DeliveryWindowCloses
<1>7. ASSUME NEW w \in Workers,
             \/ Dequeue(w) \/ DeviceOffline(w) \/ MarkDelivering(w) \/ EnvelopeArrives(w)
             \/ SendSuccess(w) \/ SendRecipientOffline(w) \/ SendTransientFailure(w) \/ SendTerminalFailure(w)
             \/ WorkerSettlesPending(w) \/ WorkerAnnounces(w)
      PROVE  Goal
  BY <1>7, <1>0
  DEF Dequeue, DeviceOffline, MarkDelivering, EnvelopeArrives,
      SendSuccess, SendRecipientOffline, SendTransientFailure, SendTerminalFailure,
      WorkerSettlesPending, WorkerAnnounces
<1>8. ASSUME NEW d \in Devices,
             \/ StartRecoveryCycle(d) \/ Connect(d) \/ CallbackFails(d) \/ Disconnect(d)
      PROVE  Goal
  BY <1>8, <1>0
  DEF StartRecoveryCycle, Connect, CallbackFails, Disconnect
<1>9. ASSUME NEW s \in Scanners,
             \/ EndPhase(s) \/ ScanRow(s)
      PROVE  Goal
  BY <1>9, <1>0
  DEF EndPhase, ScanRow
<1>10. CASE NewMonth BY <1>10, <1>0 DEF NewMonth
<1>11. CASE Crash BY <1>11, <1>0 DEF Crash
<1> QED BY <1>0, <1>1, <1>2, <1>3, <1>4, <1>5, <1>6, <1>7, <1>8, <1>9,
     <1>10, <1>11
  DEF Next, CallStep, WorkerStep

-----------------------------------------------------------------------------
(***************************************************************************)
(* What a thread or a call has seen and written                            *)
(***************************************************************************)

\* A worker past its send keeps its witness: the device holds the message,
\* and past the first write the sender's row says so.
LEMMA WorkerWitnessStep ==
    ASSUME DeliveryInv, [Next]_vars
    PROVE  WorkerWitness'
<1> USE DEF tables, clock, counts
<1>a. \A v \in Workers :
          /\ At(v, "ack") \/ At(v, "settle") \/ At(v, "announce")
                => received'[Message(v)]
          /\ At(v, "settle") \/ At(v, "announce")
                => fanout'[Message(v)].state \in {"DELIVERED", "READ"}
  <2>1. ASSUME NEW v \in Workers,
               At(v, "ack") \/ At(v, "settle") \/ At(v, "announce")
        PROVE  /\ received'[Message(v)]
               /\ At(v, "settle") \/ At(v, "announce")
                     => fanout'[Message(v)].state \in {"DELIVERED", "READ"}
    <3> DEFINE k == Message(v)
    <3>1. k \in Messages BY <2>1, BusyWorker DEF DeliveryInv, At
    <3>2. /\ received[k]
          /\ At(v, "settle") \/ At(v, "announce") => Told(k)
      BY <2>1 DEF DeliveryInv, Witnessed, WorkerWitness
    <3> HIDE DEF k
    <3>3. /\ received'[k]
          /\ At(v, "settle") \/ At(v, "announce")
                => fanout'[k].state \in {"DELIVERED", "READ"}
      BY <3>1, <3>2, ReceivedKept, ToldKept DEF Told
    <3> QED BY <3>3 DEF k
  <2> QED BY <2>1
<1>0. ASSUME UNCHANGED <<worker>> PROVE WorkerWitness'
  BY <1>0, <1>a DEF WorkerWitness, At, Message, Told
<1>1. ASSUME NEW w \in Workers, Dequeue(w) PROVE WorkerWitness'
  <2>1. \A v \in Workers : v # w => worker'[v] = worker[v]
    BY <1>1 DEF Dequeue, DeliveryInv, TypeOK, MemoryTyped
  <2>2. worker'[w].step = "lookup" BY <1>1 DEF Dequeue, DeliveryInv, TypeOK, MemoryTyped
  <2> QED BY <2>1, <2>2, <1>a DEF WorkerWitness, At, Message, Told
<1>2. ASSUME NEW w \in Workers, DeviceOffline(w) PROVE WorkerWitness'
  <2>1. \A v \in Workers : v # w => worker'[v] = worker[v]
    BY <1>2 DEF DeviceOffline, Finish, DeliveryInv, TypeOK, MemoryTyped
  <2>2. worker'[w].step = "idle"
    BY <1>2 DEF DeviceOffline, Finish, IdleWorker, DeliveryInv, TypeOK, MemoryTyped
  <2> QED BY <2>1, <2>2, <1>a DEF WorkerWitness, At, Message, Told
<1>3. ASSUME NEW w \in Workers, MarkDelivering(w) PROVE WorkerWitness'
  <2>1. \A v \in Workers : v # w => worker'[v] = worker[v]
    BY <1>3 DEF MarkDelivering, GoTo, DeliveryInv, TypeOK, MemoryTyped
  <2>2. worker'[w].task = worker[w].task /\ worker'[w].step = "send"
    BY <1>3 DEF MarkDelivering, GoTo, DeliveryInv, TypeOK, MemoryTyped
  <2> QED BY <2>1, <2>2, <1>a DEF WorkerWitness, At, Message, Told
<1>4. ASSUME NEW w \in Workers, SendSuccess(w) PROVE WorkerWitness'
  <2>1. \A v \in Workers : v # w => worker'[v] = worker[v]
    BY <1>4 DEF SendSuccess, GoTo, DeliveryInv, TypeOK, MemoryTyped
  <2>2. worker'[w].task = worker[w].task /\ worker'[w].step = "ack"
    BY <1>4 DEF SendSuccess, GoTo, DeliveryInv, TypeOK, MemoryTyped
  <2>3. received'[Message(w)] BY <1>4 DEF SendSuccess
  <2> QED BY <2>1, <2>2, <1>a, <2>3 DEF WorkerWitness, At, Message, Told
<1>5. ASSUME NEW w \in Workers, SendRecipientOffline(w) PROVE WorkerWitness'
  <2>1. \A v \in Workers : v # w => worker'[v] = worker[v]
    BY <1>5 DEF SendRecipientOffline, Finish, DeliveryInv, TypeOK, MemoryTyped
  <2>2. worker'[w].step = "idle"
    BY <1>5 DEF SendRecipientOffline, Finish, IdleWorker, DeliveryInv, TypeOK, MemoryTyped
  <2> QED BY <2>1, <2>2, <1>a DEF WorkerWitness, At, Message, Told
<1>6. ASSUME NEW w \in Workers, SendTransientFailure(w) PROVE WorkerWitness'
  <2>1. \A v \in Workers : v # w => worker'[v] = worker[v]
    BY <1>6 DEF SendTransientFailure, Finish, DeliveryInv, TypeOK, MemoryTyped
  <2>2. worker'[w].step = "idle"
    BY <1>6 DEF SendTransientFailure, Finish, IdleWorker, DeliveryInv, TypeOK, MemoryTyped
  <2> QED BY <2>1, <2>2, <1>a DEF WorkerWitness, At, Message, Told
<1>7. ASSUME NEW w \in Workers, SendTerminalFailure(w) PROVE WorkerWitness'
  <2>1. \A v \in Workers : v # w => worker'[v] = worker[v]
    BY <1>7 DEF SendTerminalFailure, Finish, DeliveryInv, TypeOK, MemoryTyped
  <2>2. worker'[w].step = "idle"
    BY <1>7 DEF SendTerminalFailure, Finish, IdleWorker, DeliveryInv, TypeOK, MemoryTyped
  <2> QED BY <2>1, <2>2, <1>a DEF WorkerWitness, At, Message, Told
<1>8. ASSUME NEW w \in Workers, WorkerRecordsAck(w) PROVE WorkerWitness'
  <2>1. \A v \in Workers : v # w => worker'[v] = worker[v]
    BY <1>8 DEF WorkerRecordsAck, GoTo, DeliveryInv, TypeOK, MemoryTyped
  <2>2. worker'[w].task = worker[w].task /\ worker'[w].step = "settle"
    BY <1>8 DEF WorkerRecordsAck, GoTo, DeliveryInv, TypeOK, MemoryTyped
  <2>3. At(w, "ack") BY <1>8 DEF WorkerRecordsAck
  <2>4. received'[Message(w)] BY <2>3, <1>a
  <2>5. Message(w) \in Messages BY <2>3, BusyWorker DEF DeliveryInv, At
  <2>6. fanout'[Message(w)].state = "DELIVERED"
    BY <1>8, <2>5 DEF WorkerRecordsAck, RecordDeliveryAck, DeliveryInv, TypeOK, TablesTyped, FanoutRow
  <2> QED BY <2>1, <2>2, <1>a, <2>4, <2>6 DEF WorkerWitness, At, Message, Told
<1>9. ASSUME NEW w \in Workers, WorkerSettlesPending(w) PROVE WorkerWitness'
  <2>1. \A v \in Workers : v # w => worker'[v] = worker[v]
    BY <1>9 DEF WorkerSettlesPending, GoTo, DeliveryInv, TypeOK, MemoryTyped
  <2>2. worker'[w].task = worker[w].task /\ worker'[w].step = "announce"
    BY <1>9 DEF WorkerSettlesPending, GoTo, DeliveryInv, TypeOK, MemoryTyped
  <2>3. At(w, "settle") BY <1>9 DEF WorkerSettlesPending
  <2>4. received'[Message(w)] /\ fanout'[Message(w)].state \in {"DELIVERED", "READ"}
    BY <2>3, <1>a
  <2> QED BY <2>1, <2>2, <1>a, <2>4 DEF WorkerWitness, At, Message, Told
<1>10. ASSUME NEW w \in Workers, WorkerAnnounces(w) PROVE WorkerWitness'
  <2>1. \A v \in Workers : v # w => worker'[v] = worker[v]
    BY <1>10 DEF WorkerAnnounces, Finish, DeliveryInv, TypeOK, MemoryTyped
  <2>2. worker'[w].step = "idle"
    BY <1>10 DEF WorkerAnnounces, Finish, IdleWorker, DeliveryInv, TypeOK, MemoryTyped
  <2> QED BY <2>1, <2>2, <1>a DEF WorkerWitness, At, Message, Told
<1>11. CASE Crash BY <1>11 DEF Crash, IdleWorker, WorkerWitness, At
<1>12. CASE UNCHANGED vars BY <1>12, <1>0 DEF vars
<1>13. ASSUME NEW m \in Messages,
             \/ Accept(m) \/ PollAndDispatch(m) \/ AckStart(m) \/ AckRecords(m)
             \/ AckSettlesPending(m) \/ AckAnnounces(m) \/ ReadStart(m) \/ ReadRecords(m)
             \/ ReadAnnounces(m) \/ CallFails(m) \/ DeviceSyncs(m) \/ BackoffElapses(m)
             \/ DeliveryWindowCloses(m)
      PROVE  WorkerWitness'
  BY <1>13, <1>0
  DEF Accept, PollAndDispatch, AckStart, AckRecords,
      AckSettlesPending, AckAnnounces, ReadStart, ReadRecords,
      ReadAnnounces, CallFails, DeviceSyncs, BackoffElapses,
      DeliveryWindowCloses
<1>14. ASSUME NEW w \in Workers,
             \/ EnvelopeArrives(w)
      PROVE  WorkerWitness'
  BY <1>14, <1>0
  DEF EnvelopeArrives
<1>15. ASSUME NEW d \in Devices,
             \/ StartRecoveryCycle(d) \/ Connect(d) \/ CallbackFails(d) \/ Disconnect(d)
      PROVE  WorkerWitness'
  BY <1>15, <1>0
  DEF StartRecoveryCycle, Connect, CallbackFails, Disconnect
<1>16. ASSUME NEW s \in Scanners,
             \/ EndPhase(s) \/ ScanRow(s)
      PROVE  WorkerWitness'
  BY <1>16, <1>0
  DEF EndPhase, ScanRow
<1>17. CASE NewMonth BY <1>17, <1>0 DEF NewMonth
<1> QED BY <1>0, <1>1, <1>2, <1>3, <1>4, <1>5, <1>6, <1>7, <1>8, <1>9,
     <1>10, <1>11, <1>12, <1>13, <1>14, <1>15, <1>16, <1>17
  DEF Next, CallStep, WorkerStep

\* An acknowledgement or a read receipt under way keeps its witness.
LEMMA CallWitnessStep ==
    ASSUME DeliveryInv, [Next]_vars
    PROVE  CallWitness'
<1> USE DEF tables, clock, counts
<1>a. \A k \in Messages :
          /\ acker[k] # "idle" => received'[k]
          /\ acker[k] \in {"pending", "announce"} => Told(k)'
          /\ reader[k] # "idle" => received'[k]
          /\ reader[k] = "announce" => fanout'[k].read
  BY ReceivedKept, ToldKept DEF DeliveryInv, Witnessed, CallWitness
<1>0. ASSUME UNCHANGED <<acker, reader>> PROVE CallWitness' BY <1>0, <1>a DEF CallWitness
<1>1. ASSUME NEW m \in Messages, AckStart(m) PROVE CallWitness'
  <2>1. acker'[m] = "record" /\ \A k \in Messages : k # m => acker'[k] = acker[k]
    BY <1>1 DEF AckStart, DeliveryInv, TypeOK, MemoryTyped
  <2>2. UNCHANGED reader BY <1>1 DEF AckStart
  <2>3. received'[m] BY <1>1 DEF AckStart
  <2> QED BY <2>1, <2>2, <1>a, <2>3 DEF CallWitness, Told
<1>2. ASSUME NEW m \in Messages, AckRecords(m) PROVE CallWitness'
  <2>1. acker'[m] = "pending" /\ \A k \in Messages : k # m => acker'[k] = acker[k]
    BY <1>2 DEF AckRecords, DeliveryInv, TypeOK, MemoryTyped
  <2>2. UNCHANGED reader BY <1>2 DEF AckRecords
  <2>3. received'[m] BY <1>2, <1>a DEF AckRecords
  <2>4. fanout'[m].state = "DELIVERED"
    BY <1>2 DEF AckRecords, RecordDeliveryAck, DeliveryInv, TypeOK, TablesTyped, FanoutRow
  <2> QED BY <2>1, <2>2, <1>a, <2>3, <2>4 DEF CallWitness, Told
<1>3. ASSUME NEW m \in Messages, AckSettlesPending(m) PROVE CallWitness'
  <2>1. acker'[m] = "announce" /\ \A k \in Messages : k # m => acker'[k] = acker[k]
    BY <1>3 DEF AckSettlesPending, DeliveryInv, TypeOK, MemoryTyped
  <2>2. UNCHANGED reader BY <1>3 DEF AckSettlesPending
  <2>3. received'[m] /\ Told(m)' BY <1>3, <1>a DEF AckSettlesPending
  <2> QED BY <2>1, <2>2, <1>a, <2>3 DEF CallWitness, Told
<1>4. ASSUME NEW m \in Messages, AckAnnounces(m) PROVE CallWitness'
  <2>1. acker'[m] = "idle" /\ \A k \in Messages : k # m => acker'[k] = acker[k]
    BY <1>4 DEF AckAnnounces, DeliveryInv, TypeOK, MemoryTyped
  <2>2. UNCHANGED reader BY <1>4 DEF AckAnnounces
  <2> QED BY <2>1, <2>2, <1>a DEF CallWitness, Told
<1>5. ASSUME NEW m \in Messages, ReadStart(m) PROVE CallWitness'
  <2>1. reader'[m] = "record" /\ \A k \in Messages : k # m => reader'[k] = reader[k]
    BY <1>5 DEF ReadStart, DeliveryInv, TypeOK, MemoryTyped
  <2>2. UNCHANGED acker BY <1>5 DEF ReadStart
  <2>3. received'[m] BY <1>5 DEF ReadStart
  <2> QED BY <2>1, <2>2, <1>a, <2>3 DEF CallWitness, Told
<1>6. ASSUME NEW m \in Messages, ReadRecords(m) PROVE CallWitness'
  <2>1. reader'[m] = "announce" /\ \A k \in Messages : k # m => reader'[k] = reader[k]
    BY <1>6 DEF ReadRecords, DeliveryInv, TypeOK, MemoryTyped
  <2>2. UNCHANGED acker BY <1>6 DEF ReadRecords
  <2>3. received'[m] BY <1>6, <1>a DEF ReadRecords
  <2>4. fanout'[m].read
    BY <1>6 DEF ReadRecords, RecordReadAck, DeliveryInv, TypeOK, TablesTyped, FanoutRow
  <2> QED BY <2>1, <2>2, <1>a, <2>3, <2>4 DEF CallWitness, Told
<1>7. ASSUME NEW m \in Messages, ReadAnnounces(m) PROVE CallWitness'
  <2>1. reader'[m] = "idle" /\ \A k \in Messages : k # m => reader'[k] = reader[k]
    BY <1>7 DEF ReadAnnounces, DeliveryInv, TypeOK, MemoryTyped
  <2>2. UNCHANGED acker BY <1>7 DEF ReadAnnounces
  <2> QED BY <2>1, <2>2, <1>a DEF CallWitness, Told
<1>8. ASSUME NEW m \in Messages, CallFails(m) PROVE CallWitness'
  <2>1. \A k \in Messages : /\ acker'[k] = acker[k] \/ acker'[k] = "idle"
                            /\ reader'[k] = reader[k] \/ reader'[k] = "idle"
    BY <1>8 DEF CallFails, DeliveryInv, TypeOK, MemoryTyped
  <2> QED BY <2>1, <1>a DEF CallWitness
<1>9. CASE Crash BY <1>9 DEF Crash, CallWitness
<1>10. CASE UNCHANGED vars BY <1>10, <1>0 DEF vars
<1>11. ASSUME NEW m \in Messages,
             \/ Accept(m) \/ PollAndDispatch(m) \/ DeviceSyncs(m) \/ BackoffElapses(m)
             \/ DeliveryWindowCloses(m)
      PROVE  CallWitness'
  BY <1>11, <1>0
  DEF Accept, PollAndDispatch, DeviceSyncs, BackoffElapses,
      DeliveryWindowCloses
<1>12. ASSUME NEW w \in Workers,
             \/ Dequeue(w) \/ DeviceOffline(w) \/ MarkDelivering(w) \/ EnvelopeArrives(w)
             \/ SendSuccess(w) \/ SendRecipientOffline(w) \/ SendTransientFailure(w) \/ SendTerminalFailure(w)
             \/ WorkerRecordsAck(w) \/ WorkerSettlesPending(w) \/ WorkerAnnounces(w)
      PROVE  CallWitness'
  BY <1>12, <1>0
  DEF Dequeue, DeviceOffline, MarkDelivering, EnvelopeArrives,
      SendSuccess, SendRecipientOffline, SendTransientFailure, SendTerminalFailure,
      WorkerRecordsAck, WorkerSettlesPending, WorkerAnnounces
<1>13. ASSUME NEW d \in Devices,
             \/ StartRecoveryCycle(d) \/ Connect(d) \/ CallbackFails(d) \/ Disconnect(d)
      PROVE  CallWitness'
  BY <1>13, <1>0
  DEF StartRecoveryCycle, Connect, CallbackFails, Disconnect
<1>14. ASSUME NEW s \in Scanners,
             \/ EndPhase(s) \/ ScanRow(s)
      PROVE  CallWitness'
  BY <1>14, <1>0
  DEF EndPhase, ScanRow
<1>15. CASE NewMonth BY <1>15, <1>0 DEF NewMonth
<1> QED BY <1>0, <1>1, <1>2, <1>3, <1>4, <1>5, <1>6, <1>7, <1>8, <1>9,
     <1>10, <1>11, <1>12, <1>13, <1>14, <1>15
  DEF Next, CallStep, WorkerStep

-----------------------------------------------------------------------------
(***************************************************************************)
(* The properties                                                          *)
(***************************************************************************)

\* The sender's row is written only for messages the device holds.
LEMMA FanoutStep ==
    ASSUME DeliveryInv, [Next]_vars
    PROVE  \A k \in Messages : Told(k)' \/ fanout'[k].read => received'[k]
<1> USE DEF tables, clock, counts
<1> DEFINE Goal == \A k \in Messages : Told(k)' \/ fanout'[k].read => received'[k]
<1>a. \A k \in Messages : Told(k) \/ fanout[k].read => received'[k]
  BY ReceivedKept DEF DeliveryInv, Witnessed, ReadWasReceived, DeliveredWasReceived, Told
<1>0. ASSUME UNCHANGED <<fanout>> PROVE Goal BY <1>0, <1>a DEF Told
<1>1. ASSUME NEW m \in Messages, Accept(m) PROVE Goal
  <2>1. fanout \in [Messages -> FanoutRow] BY DEF DeliveryInv, TypeOK, TablesTyped
  <2>2. \A k \in Messages : fanout'[k] = fanout[k]
                            \/ fanout'[k] = [fanout[k] EXCEPT !.state = "QUEUED"]
    BY <1>1, <2>1 DEF Accept
  <2> QED BY <2>1, <2>2, <1>a DEF FanoutRow, Told
<1>2. ASSUME NEW m \in Messages, AckRecords(m) PROVE Goal
  <2>1. fanout \in [Messages -> FanoutRow] BY DEF DeliveryInv, TypeOK, TablesTyped
  <2>2. received'[m] BY <1>2 DEF AckRecords, DeliveryInv, Witnessed, CallWitness
  <2>3. \A k \in Messages : k # m => fanout'[k] = fanout[k]
    BY <1>2, <2>1 DEF AckRecords, RecordDeliveryAck
  <2> QED BY <2>2, <2>3, <1>a DEF Told
<1>3. ASSUME NEW m \in Messages, ReadRecords(m) PROVE Goal
  <2>1. fanout \in [Messages -> FanoutRow] BY DEF DeliveryInv, TypeOK, TablesTyped
  <2>2. received'[m] BY <1>3 DEF ReadRecords, DeliveryInv, Witnessed, CallWitness
  <2>3. \A k \in Messages : k # m => fanout'[k] = fanout[k]
    BY <1>3, <2>1 DEF ReadRecords, RecordReadAck
  <2> QED BY <2>2, <2>3, <1>a DEF Told
<1>4. ASSUME NEW w \in Workers, WorkerRecordsAck(w) PROVE Goal
  <2>1. fanout \in [Messages -> FanoutRow] BY DEF DeliveryInv, TypeOK, TablesTyped
  <2>2. received'[Message(w)]
    BY <1>4 DEF WorkerRecordsAck, DeliveryInv, Witnessed, WorkerWitness
  <2>3. \A k \in Messages : k # Message(w) => fanout'[k] = fanout[k]
    BY <1>4, <2>1 DEF WorkerRecordsAck, RecordDeliveryAck
  <2> QED BY <2>2, <2>3, <1>a DEF Told
<1>5. CASE UNCHANGED vars BY <1>5, <1>0 DEF vars
<1>6. ASSUME NEW m \in Messages,
             \/ PollAndDispatch(m) \/ AckStart(m) \/ AckSettlesPending(m) \/ AckAnnounces(m)
             \/ ReadStart(m) \/ ReadAnnounces(m) \/ CallFails(m) \/ DeviceSyncs(m)
             \/ BackoffElapses(m) \/ DeliveryWindowCloses(m)
      PROVE  Goal
  BY <1>6, <1>0
  DEF PollAndDispatch, AckStart, AckSettlesPending, AckAnnounces,
      ReadStart, ReadAnnounces, CallFails, DeviceSyncs,
      BackoffElapses, DeliveryWindowCloses
<1>7. ASSUME NEW w \in Workers,
             \/ Dequeue(w) \/ DeviceOffline(w) \/ MarkDelivering(w) \/ EnvelopeArrives(w)
             \/ SendSuccess(w) \/ SendRecipientOffline(w) \/ SendTransientFailure(w) \/ SendTerminalFailure(w)
             \/ WorkerSettlesPending(w) \/ WorkerAnnounces(w)
      PROVE  Goal
  BY <1>7, <1>0
  DEF Dequeue, DeviceOffline, MarkDelivering, EnvelopeArrives,
      SendSuccess, SendRecipientOffline, SendTransientFailure, SendTerminalFailure,
      WorkerSettlesPending, WorkerAnnounces
<1>8. ASSUME NEW d \in Devices,
             \/ StartRecoveryCycle(d) \/ Connect(d) \/ CallbackFails(d) \/ Disconnect(d)
      PROVE  Goal
  BY <1>8, <1>0
  DEF StartRecoveryCycle, Connect, CallbackFails, Disconnect
<1>9. ASSUME NEW s \in Scanners,
             \/ EndPhase(s) \/ ScanRow(s)
      PROVE  Goal
  BY <1>9, <1>0
  DEF EndPhase, ScanRow
<1>10. CASE NewMonth BY <1>10, <1>0 DEF NewMonth
<1>11. CASE Crash BY <1>11, <1>0 DEF Crash
<1> QED BY <1>0, <1>1, <1>2, <1>3, <1>4, <1>5, <1>6, <1>7, <1>8, <1>9,
     <1>10, <1>11
  DEF Next, CallStep, WorkerStep

\* Every step keeps the two tables in agreement.
LEMMA DeliveredInBothStep ==
    ASSUME DeliveryInv, [Next]_vars
    PROVE  DeliveredInBoth'
<1> USE DEF tables, clock, counts
<1>a. \A k \in Messages : pending[k].state = "DELIVERED" => Told(k)'
  BY ToldKept DEF DeliveryInv, DeliveredInBoth, Told
<1>0. ASSUME UNCHANGED <<pending>> PROVE DeliveredInBoth'
  BY <1>0, <1>a DEF DeliveredInBoth, Told
<1>1. ASSUME NEW m \in Messages, Accept(m) PROVE DeliveredInBoth'
  <2>1. pending[m] \in PendingRow BY DEF DeliveryInv, TypeOK, TablesTyped
  <2>2. \A k \in Messages : pending'[k].state = IF k = m THEN "QUEUED" ELSE pending[k].state
    BY <1>1, <2>1 DEF Accept, DeliveryInv, TypeOK, TablesTyped, PendingRow
  <2> QED BY <2>2, <1>a DEF DeliveredInBoth, Told
<1>2. ASSUME NEW m \in Messages, AckSettlesPending(m) PROVE DeliveredInBoth'
  <2>1. pending[m].attempts \in 0 .. AttemptBound
    BY DEF DeliveryInv, TypeOK, TablesTyped, PendingRow
  <2>2. CASE UNCHANGED pending BY <2>2, <1>0
  <2>3. CASE UpdateStatus(m, "DELIVERED", pending[m].attempts)
    <3>1. Told(m)'
      BY <1>2, ToldKept DEF AckSettlesPending, DeliveryInv, Witnessed, CallWitness
    <3>2. \A k \in Messages : k # m => pending'[k] = pending[k]
      BY <2>1, <2>3, UpdateStatusTyped DEF DeliveryInv, TypeOK, DeliveryStates
    <3> QED BY <3>1, <3>2, <1>a DEF DeliveredInBoth, Told
  <2> QED BY <1>2, <2>2, <2>3 DEF AckSettlesPending
<1>3. ASSUME NEW m \in Messages, BackoffElapses(m) PROVE DeliveredInBoth'
  <2>1. \A k \in Messages : pending'[k].state = pending[k].state
    BY <1>3 DEF BackoffElapses, DeliveryInv, TypeOK, TablesTyped, PendingRow
  <2> QED BY <2>1, <1>a DEF DeliveredInBoth, Told
<1>4. ASSUME NEW w \in Workers, DeviceOffline(w) PROVE DeliveredInBoth'
  <2>1. ~At(w, "idle") /\ UpdateStatus(Message(w), "QUEUED", Attempts(w))
    BY <1>4 DEF DeviceOffline, At
  <2>2. "QUEUED" \in DeliveryStates BY DEF DeliveryStates
  <2>3. \A k \in Messages : pending'[k].state = "DELIVERED"
                            => pending[k].state = "DELIVERED"
    BY <2>1, <2>2, BusyWorker, UpdateStatusTyped DEF DeliveryInv, TypeOK
  <2> QED BY <2>3, <1>a DEF DeliveredInBoth, Told
<1>5. ASSUME NEW w \in Workers, MarkDelivering(w) PROVE DeliveredInBoth'
  <2>1. ~At(w, "idle") /\ UpdateStatus(Message(w), "DELIVERING", Attempts(w))
    BY <1>5 DEF MarkDelivering, At
  <2>2. "DELIVERING" \in DeliveryStates BY DEF DeliveryStates
  <2>3. \A k \in Messages : pending'[k].state = "DELIVERED"
                            => pending[k].state = "DELIVERED"
    BY <2>1, <2>2, BusyWorker, UpdateStatusTyped DEF DeliveryInv, TypeOK
  <2> QED BY <2>3, <1>a DEF DeliveredInBoth, Told
<1>6. ASSUME NEW w \in Workers, SendRecipientOffline(w) PROVE DeliveredInBoth'
  <2>1. ~At(w, "idle") /\ UpdateStatus(Message(w), "QUEUED", Attempts(w))
    BY <1>6 DEF SendRecipientOffline, At
  <2>2. "QUEUED" \in DeliveryStates BY DEF DeliveryStates
  <2>3. \A k \in Messages : pending'[k].state = "DELIVERED"
                            => pending[k].state = "DELIVERED"
    BY <2>1, <2>2, BusyWorker, UpdateStatusTyped DEF DeliveryInv, TypeOK
  <2> QED BY <2>3, <1>a DEF DeliveredInBoth, Told
<1>7. ASSUME NEW w \in Workers, SendTransientFailure(w) PROVE DeliveredInBoth'
  <2> DEFINE a == Attempts(w) + 1
  <2>1. ~At(w, "idle") /\ Attempts(w) < AttemptBound BY <1>7 DEF SendTransientFailure, At
  <2>2. Message(w) \in Messages /\ a \in 0 .. AttemptBound
    BY <2>1, BusyWorker, BoundsAssumption DEF DeliveryInv
  <2>3. \/ UpdateStatus(Message(w), "RETRY_WAIT", a)
        \/ UpdateStatus(Message(w), "EXPIRED", a)
    BY <1>7 DEF SendTransientFailure
  <2>4. "RETRY_WAIT" \in DeliveryStates /\ "EXPIRED" \in DeliveryStates BY DEF DeliveryStates
  <2> HIDE DEF a
  <2>5. \A k \in Messages : pending'[k].state = "DELIVERED"
                            => pending[k].state = "DELIVERED"
    BY <2>2, <2>3, <2>4, UpdateStatusTyped DEF DeliveryInv, TypeOK
  <2> QED BY <2>5, <1>a DEF DeliveredInBoth, Told
<1>8. ASSUME NEW w \in Workers, SendTerminalFailure(w) PROVE DeliveredInBoth'
  <2>1. ~At(w, "idle") /\ UpdateStatus(Message(w), "EXPIRED", Attempts(w))
    BY <1>8 DEF SendTerminalFailure, At
  <2>2. "EXPIRED" \in DeliveryStates BY DEF DeliveryStates
  <2>3. \A k \in Messages : pending'[k].state = "DELIVERED"
                            => pending[k].state = "DELIVERED"
    BY <2>1, <2>2, BusyWorker, UpdateStatusTyped DEF DeliveryInv, TypeOK
  <2> QED BY <2>3, <1>a DEF DeliveredInBoth, Told
<1>9. ASSUME NEW w \in Workers, WorkerSettlesPending(w) PROVE DeliveredInBoth'
  <2>1. At(w, "settle") /\ ~At(w, "idle") BY <1>9 DEF WorkerSettlesPending, At
  <2> DEFINE k == Message(w)
  <2>2. k \in Messages /\ Attempts(w) \in 0 .. AttemptBound /\ Told(k)
    BY <2>1, BusyWorker DEF DeliveryInv, Witnessed, WorkerWitness
  <2>3. UpdateStatus(k, "DELIVERED", Attempts(w)) BY <1>9 DEF WorkerSettlesPending
  <2> HIDE DEF k
  <2>4. \A n \in Messages : n # k => pending'[n] = pending[n]
    BY <2>2, <2>3, UpdateStatusTyped DEF DeliveryInv, TypeOK, DeliveryStates
  <2>5. fanout'[k].state \in {"DELIVERED", "READ"} BY <2>2, ToldKept DEF Told
  <2> QED BY <2>4, <2>5, <1>a DEF DeliveredInBoth, Told
<1>10. ASSUME NEW s \in Scanners, ScanRow(s) PROVE DeliveredInBoth'
  <2>1. \A k \in Messages : pending'[k].state = "DELIVERED"
                            => pending[k].state = "DELIVERED"
    BY <1>10, ScanRowTyped DEF DeliveryInv
  <2> QED BY <2>1, <1>a DEF DeliveredInBoth, Told
<1>11. CASE UNCHANGED vars BY <1>11, <1>0 DEF vars
<1>12. ASSUME NEW m \in Messages,
             \/ PollAndDispatch(m) \/ AckStart(m) \/ AckRecords(m) \/ AckAnnounces(m)
             \/ ReadStart(m) \/ ReadRecords(m) \/ ReadAnnounces(m) \/ CallFails(m)
             \/ DeviceSyncs(m) \/ DeliveryWindowCloses(m)
      PROVE  DeliveredInBoth'
  BY <1>12, <1>0
  DEF PollAndDispatch, AckStart, AckRecords, AckAnnounces,
      ReadStart, ReadRecords, ReadAnnounces, CallFails,
      DeviceSyncs, DeliveryWindowCloses
<1>13. ASSUME NEW w \in Workers,
             \/ Dequeue(w) \/ EnvelopeArrives(w) \/ SendSuccess(w) \/ WorkerRecordsAck(w)
             \/ WorkerAnnounces(w)
      PROVE  DeliveredInBoth'
  BY <1>13, <1>0
  DEF Dequeue, EnvelopeArrives, SendSuccess, WorkerRecordsAck,
      WorkerAnnounces
<1>14. ASSUME NEW d \in Devices,
             \/ StartRecoveryCycle(d) \/ Connect(d) \/ CallbackFails(d) \/ Disconnect(d)
      PROVE  DeliveredInBoth'
  BY <1>14, <1>0
  DEF StartRecoveryCycle, Connect, CallbackFails, Disconnect
<1>15. ASSUME NEW s \in Scanners,
             \/ EndPhase(s)
      PROVE  DeliveredInBoth'
  BY <1>15, <1>0
  DEF EndPhase
<1>16. CASE NewMonth BY <1>16, <1>0 DEF NewMonth
<1>17. CASE Crash BY <1>17, <1>0 DEF Crash
<1> QED BY <1>0, <1>1, <1>2, <1>3, <1>4, <1>5, <1>6, <1>7, <1>8, <1>9,
     <1>10, <1>11, <1>12, <1>13, <1>14, <1>15, <1>16, <1>17
  DEF Next, CallStep, WorkerStep

\* Every step keeps the events behind the tables.
LEMMA AnnouncedStep ==
    ASSUME DeliveryInv, [Next]_vars
    PROVE  AnnouncedIsDurable'
<1> USE DEF tables, clock, counts
<1>a. \A k \in Messages :
          /\ <<"MessageDelivered", k>> \in events => Told(k)'
          /\ <<"MessageRead", k>> \in events => fanout'[k].read
  BY ToldKept DEF DeliveryInv, AnnouncedIsDurable, Told
<1>0. ASSUME UNCHANGED <<events>> PROVE AnnouncedIsDurable'
  BY <1>0, <1>a DEF AnnouncedIsDurable, Told
<1>1. ASSUME NEW m \in Messages, AckAnnounces(m) PROVE AnnouncedIsDurable'
  <2>1. Told(m)' BY <1>1, ToldKept DEF AckAnnounces, DeliveryInv, Witnessed, CallWitness
  <2> QED BY <1>1, <2>1, <1>a DEF AckAnnounces, AnnouncedIsDurable, Told
<1>2. ASSUME NEW m \in Messages, ReadAnnounces(m) PROVE AnnouncedIsDurable'
  <2>1. fanout'[m].read
    BY <1>2, ToldKept DEF ReadAnnounces, DeliveryInv, Witnessed, CallWitness
  <2> QED BY <1>2, <2>1, <1>a DEF ReadAnnounces, AnnouncedIsDurable, Told
<1>3. ASSUME NEW w \in Workers, WorkerAnnounces(w) PROVE AnnouncedIsDurable'
  <2>1. At(w, "announce") /\ ~At(w, "idle") BY <1>3 DEF WorkerAnnounces, At
  <2> DEFINE k == Message(w)
  <2>2. k \in Messages /\ Told(k)
    BY <2>1, BusyWorker DEF DeliveryInv, Witnessed, WorkerWitness
  <2>3. events' = events \cup {<<"MessageDelivered", k>>} BY <1>3 DEF WorkerAnnounces
  <2> HIDE DEF k
  <2>4. fanout'[k].state \in {"DELIVERED", "READ"} BY <2>2, ToldKept DEF Told
  <2> QED BY <2>3, <2>4, <1>a DEF AnnouncedIsDurable, Told
<1>4. CASE UNCHANGED vars BY <1>4, <1>0 DEF vars
<1>5. ASSUME NEW m \in Messages,
             \/ Accept(m) \/ PollAndDispatch(m) \/ AckStart(m) \/ AckRecords(m)
             \/ AckSettlesPending(m) \/ ReadStart(m) \/ ReadRecords(m) \/ CallFails(m)
             \/ DeviceSyncs(m) \/ BackoffElapses(m) \/ DeliveryWindowCloses(m)
      PROVE  AnnouncedIsDurable'
  BY <1>5, <1>0
  DEF Accept, PollAndDispatch, AckStart, AckRecords,
      AckSettlesPending, ReadStart, ReadRecords, CallFails,
      DeviceSyncs, BackoffElapses, DeliveryWindowCloses
<1>6. ASSUME NEW w \in Workers,
             \/ Dequeue(w) \/ DeviceOffline(w) \/ MarkDelivering(w) \/ EnvelopeArrives(w)
             \/ SendSuccess(w) \/ SendRecipientOffline(w) \/ SendTransientFailure(w) \/ SendTerminalFailure(w)
             \/ WorkerRecordsAck(w) \/ WorkerSettlesPending(w)
      PROVE  AnnouncedIsDurable'
  BY <1>6, <1>0
  DEF Dequeue, DeviceOffline, MarkDelivering, EnvelopeArrives,
      SendSuccess, SendRecipientOffline, SendTransientFailure, SendTerminalFailure,
      WorkerRecordsAck, WorkerSettlesPending
<1>7. ASSUME NEW d \in Devices,
             \/ StartRecoveryCycle(d) \/ Connect(d) \/ CallbackFails(d) \/ Disconnect(d)
      PROVE  AnnouncedIsDurable'
  BY <1>7, <1>0
  DEF StartRecoveryCycle, Connect, CallbackFails, Disconnect
<1>8. ASSUME NEW s \in Scanners,
             \/ EndPhase(s) \/ ScanRow(s)
      PROVE  AnnouncedIsDurable'
  BY <1>8, <1>0
  DEF EndPhase, ScanRow
<1>9. CASE NewMonth BY <1>9, <1>0 DEF NewMonth
<1>10. CASE Crash BY <1>10, <1>0 DEF Crash
<1> QED BY <1>0, <1>1, <1>2, <1>3, <1>4, <1>5, <1>6, <1>7, <1>8, <1>9,
     <1>10
  DEF Next, CallStep, WorkerStep

\* The inductive invariant holds initially.
LEMMA DeliveryInvInit == Init => DeliveryInv
<1> SUFFICES ASSUME Init PROVE DeliveryInv OBVIOUS
<1>1. TypeOK BY TypeInit
<1>2. PICK settled \in Earlier :
        /\ pending = [m \in Messages |->
              [state |-> IF m \in settled THEN "DELIVERED" ELSE "NONE",
               attempts |-> 0, due |-> FALSE, month |-> 0]]
        /\ fanout = [m \in Messages |->
              [state |-> IF m \in settled THEN "DELIVERED" ELSE "NONE",
               read |-> FALSE]]
        /\ events = {"MessageDelivered"} \X settled
        /\ received = [m \in Messages |-> m \in settled]
  BY DEF Init
<1>3. OnlyAccepted
  <2>1. LanesAccepted /\ WorkersAccepted /\ RowsAccepted
    BY IdleTyped DEF Init, LanesAccepted, WorkersAccepted, RowsAccepted, At,
       IdleWorker
  <2>2. ReceivedAccepted BY <1>2 DEF ReceivedAccepted, Accepted
  <2> QED BY <2>1, <2>2 DEF OnlyAccepted
<1>4. Witnessed
  BY <1>2 DEF Init, Witnessed, WorkerWitness, CallWitness, ReadWasReceived, At,
     IdleWorker
<1>5. DeliveredWasReceived /\ DeliveredInBoth
  BY <1>2 DEF DeliveredWasReceived, DeliveredInBoth
<1>6. AnnouncedIsDurable
  <2>1. \A m : <<"MessageDelivered", m>> \in events => m \in settled BY <1>2
  <2>2. \A m : <<"MessageRead", m>> \notin events BY <1>2
  <2> QED BY <1>2, <2>1, <2>2 DEF AnnouncedIsDurable
<1> QED BY <1>1, <1>3, <1>4, <1>5, <1>6 DEF DeliveryInv

\* The inductive invariant is kept by every step and by stuttering.
LEMMA DeliveryInvStep == DeliveryInv /\ [Next]_vars => DeliveryInv'
<1> SUFFICES ASSUME DeliveryInv, [Next]_vars PROVE DeliveryInv' OBVIOUS
<1>1. TypeOK' BY TypeStep DEF DeliveryInv
<1>2. OnlyAccepted' BY OnlyAcceptedStep DEF DeliveryInv
<1>3. DeliveredInBoth' BY DeliveredInBothStep
<1>4. DeliveredWasReceived' /\ ReadWasReceived'
  BY <1>3, FanoutStep DEF DeliveredInBoth, DeliveredWasReceived, ReadWasReceived, Told
<1>5. Witnessed' BY <1>4, WorkerWitnessStep, CallWitnessStep DEF Witnessed
<1>6. AnnouncedIsDurable' BY AnnouncedStep
<1> QED BY <1>1, <1>2, <1>3, <1>4, <1>5, <1>6 DEF DeliveryInv

\* The delivery state is well typed for any constants; in particular no row of
\* delivery_state_by_message ever holds EXPIRED, DELIVERING or RETRY_WAIT.
THEOREM TypeCorrect == Spec => []TypeOK
<1>1. DeliveryInv => TypeOK BY DEF DeliveryInv
<1> QED BY <1>1, DeliveryInvInit, DeliveryInvStep, PTL DEF Spec

\* For any devices, worker threads, capacities and number of crashes, the
\* sender is told of a delivery only when the device holds the message.
THEOREM DeliveriesAreReceived == Spec => []DeliveredWasReceived
<1>1. DeliveryInv => DeliveredWasReceived BY DEF DeliveryInv
<1> QED BY <1>1, DeliveryInvInit, DeliveryInvStep, PTL DEF Spec

\* For any constants, a row leaves the device's queue as DELIVERED only after
\* the sender's row is DELIVERED or READ.
THEOREM TablesAgree == Spec => []DeliveredInBoth
<1>1. DeliveryInv => DeliveredInBoth BY DEF DeliveryInv
<1> QED BY <1>1, DeliveryInvInit, DeliveryInvStep, PTL DEF Spec

\* For any constants, no delivery or read event is ahead of the tables.
THEOREM EventsAreDurable == Spec => []AnnouncedIsDurable
<1>1. DeliveryInv => AnnouncedIsDurable BY DEF DeliveryInv
<1> QED BY <1>1, DeliveryInvInit, DeliveryInvStep, PTL DEF Spec
=============================================================================
