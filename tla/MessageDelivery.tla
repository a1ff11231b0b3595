-------------------------- MODULE MessageDelivery --------------------------
(***************************************************************************)
(* The delivery of accepted messages to a recipient's device: the outbox   *)
(* consumer, the worker threads, the recovery service, the reconnect       *)
(* accelerator, and the acknowledgements and read receipts of the device,  *)
(* all working on two tables without a transaction between them:           *)
(*                                                                         *)
(*   pending   pending_deliveries_by_device, the queue of a device         *)
(*   fanout    delivery_state_by_message, what the sender is told          *)
(*                                                                         *)
(* Every statement of the database is a step of its own, so other actors   *)
(* and a crash come in between. A worker thread and the recovery thread    *)
(* have no handler around their loops, so a statement that throws there    *)
(* ends the process: that is Crash, before or after the statement took     *)
(* effect. The in-memory scheduler appears by what DeliveryScheduler is    *)
(* shown to implement, the bounded lanes of DeliveryLanes.                 *)
(***************************************************************************)
EXTENDS Naturals, Sequences, FiniteSets

CONSTANTS
    Messages,           \* messages, numbered in the order of acceptance
    Devices,            \* recipient devices
    Recipient,          \* Recipient[m]: the device message m is for
    Candidates,         \* devices the recovery thread is started with
    Workers,            \* threads of DeliveryWorker
    Acknowledged,       \* messages the device acknowledges and reads
    Overdue,            \* messages whose delivery window may close
    Earlier,            \* the sets of messages an earlier process may have delivered
    MaxRetryAttempts,   \* DeliveryRetryConfig::max_retry_attempts
    SweepMaxAttempts,   \* DeliveryRecoveryConfig::max_retry_attempts
    FetchLimit,         \* the LIMIT of fetch_pending_for_device
    LaneCap,            \* tasks the scheduler holds for one device
    SharedCap,          \* tasks the scheduler holds for all devices
    AttemptBound,       \* bound: attempts counted for a message
    MaxMonth,           \* bound: months that pass
    MaxDrops,           \* bound: lost connections
    MaxCrashes          \* bound: crashes of the process

ASSUME MessagesAssumption == Messages \subseteq Nat \ {0}
ASSUME RecipientAssumption == Recipient \in [Messages -> Devices]
ASSUME DevicesAssumption == "recovery" \notin Devices /\ Devices # {}
ASSUME EarlierAssumption == Earlier \subseteq SUBSET Messages
ASSUME BoundsAssumption ==
    /\ MaxRetryAttempts \in Nat
    /\ SweepMaxAttempts \in Nat
    /\ AttemptBound \in Nat
    /\ MaxMonth \in Nat
    /\ MaxDrops \in Nat
    /\ MaxCrashes \in Nat

VARIABLES
    pending,    \* pending[m]: row of pending_deliveries_by_device
    fanout,     \* fanout[m]: row of delivery_state_by_message
    outbox,     \* outbox[m]: the MessageSent event of m
    events,     \* MessageDelivered and MessageRead events in the outbox
    lanes,      \* lanes[d]: tasks the scheduler holds for device d
    worker,     \* worker[w]: step and task of thread w
    scan,       \* scan[s]: pass of the recovery thread or of the accelerator
    acker,      \* acker[m]: step of acknowledge_delivery
    reader,     \* reader[m]: step of record_read_receipt
    online,     \* online[d]: the device has an active channel
    received,   \* history: the device holds message m
    aged,       \* aged[m]: older than max_delivery_ttl
    month,      \* the current month, which names the delivery bucket
    drops,      \* history: connections lost
    crashes     \* history: crashes

tables == <<pending, fanout, outbox, events>>
clock == <<aged, month>>
counts == <<drops, crashes>>
vars == <<pending, fanout, outbox, events, lanes, worker, scan, acker, reader,
          online, received, aged, month, drops, crashes>>

DeliveryStates == {"QUEUED", "DELIVERING", "DELIVERED", "READ", "RETRY_WAIT",
                   "EXPIRED"}
Terminal == {"DELIVERED", "READ", "EXPIRED"}

\* A DeliveryTask: the message and the attempt count it was made with.
Task == [msg : Messages, attempts : 0 .. AttemptBound]
NoTask == [msg |-> 0, attempts |-> 0]

WorkerSteps == {"idle", "lookup", "send", "ack", "settle", "announce"}
Phases == {"idle", "purge", "sweep", "connected", "recover"}

\* The recovery thread, and for each device the callback of its connection.
Scanners == {"recovery"} \cup Devices

\* What a pass does with a row it read, decided by what it read.
ScanEntry == [msg : Messages, attempts : 0 .. AttemptBound,
              verdict : {"expire", "requeue", "schedule"}]

PendingRow == [state : DeliveryStates \cup {"NONE"},
               attempts : 0 .. AttemptBound,
               due : BOOLEAN,
               month : 0 .. MaxMonth]

FanoutRow == [state : {"NONE", "QUEUED", "DELIVERED", "READ"}, read : BOOLEAN]

Pass == [phase : Phases, device : Devices, bucket : 0 .. MaxMonth,
         rows : SUBSET ScanEntry]

\* The tables, the memory of the process, and the world outside.
TablesTyped ==
    /\ pending \in [Messages -> PendingRow]
    /\ fanout \in [Messages -> FanoutRow]
    /\ outbox \in [Messages -> {"none", "pending", "published"}]
    /\ events \subseteq {"MessageDelivered", "MessageRead"} \X Messages

MemoryTyped ==
    /\ lanes \in [Devices -> Seq(Task)]
    /\ worker \in [Workers -> [step : WorkerSteps, task : Task \cup {NoTask}]]
    /\ scan \in [Scanners -> Pass]
    /\ acker \in [Messages -> {"idle", "record", "pending", "announce"}]
    /\ reader \in [Messages -> {"idle", "record", "announce"}]

WorldTyped ==
    /\ online \in [Devices -> BOOLEAN]
    /\ received \in [Messages -> BOOLEAN]
    /\ aged \in [Messages -> BOOLEAN]
    /\ month \in 0 .. MaxMonth
    /\ drops \in 0 .. MaxDrops
    /\ crashes \in 0 .. MaxCrashes

TypeOK == TablesTyped /\ MemoryTyped /\ WorldTyped

IdleWorker == [step |-> "idle", task |-> NoTask]
IdleScan == [phase |-> "idle", device |-> CHOOSE d \in Devices : TRUE,
             bucket |-> 0, rows |-> {}]

\* The rows of messages delivered before the process started are still there.
Init ==
    /\ \E settled \in Earlier :
          /\ pending = [m \in Messages |->
                [state |-> IF m \in settled THEN "DELIVERED" ELSE "NONE",
                 attempts |-> 0, due |-> FALSE, month |-> 0]]
          /\ fanout = [m \in Messages |->
                [state |-> IF m \in settled THEN "DELIVERED" ELSE "NONE",
                 read |-> FALSE]]
          /\ outbox = [m \in Messages |->
                IF m \in settled THEN "published" ELSE "none"]
          /\ events = {"MessageDelivered"} \X settled
          /\ received = [m \in Messages |-> m \in settled]
    /\ lanes = [d \in Devices |-> <<>>]
    /\ worker = [w \in Workers |-> IdleWorker]
    /\ scan = [s \in Scanners |-> IdleScan]
    /\ acker = [m \in Messages |-> "idle"]
    /\ reader = [m \in Messages |-> "idle"]
    /\ online = [d \in Devices |-> FALSE]
    /\ aged = [m \in Messages |-> FALSE]
    /\ month = 0
    /\ drops = 0
    /\ crashes = 0
-----------------------------------------------------------------------------
(***************************************************************************)
(* Tables and queue                                                        *)
(***************************************************************************)

\* update_device_delivery_status(): state, attempts and next_retry_at of the
\* row, whatever they were before. A new next_retry_at lies ahead.
UpdateStatus(m, state, attempts) ==
    pending' = [pending EXCEPT ![m].state = state, ![m].attempts = attempts,
                               ![m].due = FALSE]

\* record_delivery_ack() and record_read_ack(), also unconditional.
RecordDeliveryAck(m) ==
    fanout' = [fanout EXCEPT ![m].state = "DELIVERED"]

RecordReadAck(m) ==
    fanout' = [fanout EXCEPT ![m].state = "READ", ![m].read = TRUE]

\* fetch_pending_for_device(): the oldest rows of one bucket up to the limit,
\* in whatever state they are; delivered rows stay in the table.
Rows(d, bucket) ==
    {m \in Messages : /\ Recipient[m] = d
                      /\ pending[m].state # "NONE"
                      /\ pending[m].month = bucket}

FetchPending(d, bucket) ==
    {m \in Rows(d, bucket) :
        Cardinality({k \in Rows(d, bucket) : k < m}) < FetchLimit}

Lanes == INSTANCE DeliveryLanes WITH
    express <- <<>>,
    Tasks <- Task,
    DeviceOf <- [t \in Task |-> Recipient[t.msg]],
    Emergency <- {},
    TotalCap <- SharedCap

\* schedule(): the task is queued, or refused and dropped.
Schedule(t) ==
    \/ Lanes!Accept(t)
    \/ ~Lanes!Room(t) /\ UNCHANGED lanes
-----------------------------------------------------------------------------
(***************************************************************************)
(* Acceptance and the outbox consumer                                      *)
(***************************************************************************)

\* What a committed submission leaves behind (module MessageSubmission).
Accept(m) ==
    /\ pending[m].state = "NONE"
    /\ \A k \in Messages : k < m => pending[k].state # "NONE"
    /\ pending' = [pending EXCEPT ![m].state = "QUEUED", ![m].month = month]
    /\ fanout' = [fanout EXCEPT ![m].state = "QUEUED"]
    /\ outbox' = [outbox EXCEPT ![m] = "pending"]
    /\ UNCHANGED <<events, lanes, worker, scan, acker, reader, online, received,
                   clock, counts>>

\* poll_and_dispatch() for one event. The row's state is not looked at and the
\* status of schedule() is dropped; when marking the event throws, the event
\* is met again by the next poll.
PollAndDispatch(m) ==
    LET d == Recipient[m]
        t == [msg |-> m, attempts |-> pending[m].attempts]
    IN  /\ outbox[m] = "pending"
        /\ IF online[d] /\ m \in FetchPending(d, pending[m].month)
           THEN Schedule(t)
           ELSE UNCHANGED lanes
        /\ \E result \in {"published", "pending"} :
              outbox' = [outbox EXCEPT ![m] = result]
        /\ UNCHANGED <<pending, fanout, events, worker, scan, acker, reader,
                       online, received, clock, counts>>
-----------------------------------------------------------------------------
(***************************************************************************)
(* DeliveryWorker::process_single_task                                     *)
(***************************************************************************)

At(w, step) == worker[w].step = step
Message(w) == worker[w].task.msg
Attempts(w) == worker[w].task.attempts
Channel(w) == online[Recipient[Message(w)]]

GoTo(w, step) == worker' = [worker EXCEPT ![w].step = step]
Finish(w) == worker' = [worker EXCEPT ![w] = IdleWorker]

Dequeue(w) ==
    /\ At(w, "idle")
    /\ \E d \in Devices :
          /\ Lanes!TakeFrom(d)
          /\ worker' = [worker EXCEPT ![w] = [step |-> "lookup",
                                              task |-> Head(lanes[d])]]
    /\ UNCHANGED <<tables, scan, acker, reader, online, received, clock, counts>>

\* No active channel: back to QUEUED without an attempt counted.
DeviceOffline(w) ==
    /\ At(w, "lookup")
    /\ ~Channel(w)
    /\ UpdateStatus(Message(w), "QUEUED", Attempts(w))
    /\ Finish(w)
    /\ UNCHANGED <<fanout, outbox, events, lanes, scan, acker, reader, online,
                   received, clock, counts>>

MarkDelivering(w) ==
    /\ At(w, "lookup")
    /\ Channel(w)
    /\ UpdateStatus(Message(w), "DELIVERING", Attempts(w))
    /\ GoTo(w, "send")
    /\ UNCHANGED <<fanout, outbox, events, lanes, scan, acker, reader, online,
                   received, clock, counts>>

\* The envelope reaches the device while send_envelope() is under way; the
\* result the worker gets may still be a failure.
EnvelopeArrives(w) ==
    /\ At(w, "send")
    /\ Channel(w)
    /\ received' = [received EXCEPT ![Message(w)] = TRUE]
    /\ UNCHANGED <<tables, lanes, worker, scan, acker, reader, online, clock,
                   counts>>

\* Mutant: a result that is not a failure counts as a success.
SendSuccessUnconfirmed(w) ==
    /\ At(w, "send")
    /\ GoTo(w, "ack")
    /\ UNCHANGED <<tables, lanes, scan, acker, reader, online, received, clock,
                   counts>>

SendSuccess(w) ==
    /\ At(w, "send")
    /\ received[Message(w)]
    /\ GoTo(w, "ack")
    /\ UNCHANGED <<tables, lanes, scan, acker, reader, online, received, clock,
                   counts>>

\* Also the answer of a channel that was superseded while the worker held it.
SendRecipientOffline(w) ==
    /\ At(w, "send")
    /\ UpdateStatus(Message(w), "QUEUED", Attempts(w))
    /\ Finish(w)
    /\ UNCHANGED <<fanout, outbox, events, lanes, scan, acker, reader, online,
                   received, clock, counts>>

\* DeliveryRetryPolicy::is_retryable(): the tasks carry no expiry of their own.
IsRetryable(attempts) == attempts < MaxRetryAttempts

\* A retry is written with its backoff and handed to the scheduler at once.
SendTransientFailure(w) ==
    LET t == [msg |-> Message(w), attempts |-> Attempts(w) + 1]
    IN  /\ At(w, "send")
        /\ Attempts(w) < AttemptBound
        /\ IF IsRetryable(t.attempts)
           THEN UpdateStatus(t.msg, "RETRY_WAIT", t.attempts) /\ Schedule(t)
           ELSE UpdateStatus(t.msg, "EXPIRED", t.attempts) /\ UNCHANGED lanes
        /\ Finish(w)
        /\ UNCHANGED <<fanout, outbox, events, scan, acker, reader, online,
                       received, clock, counts>>

SendTerminalFailure(w) ==
    /\ At(w, "send")
    /\ UpdateStatus(Message(w), "EXPIRED", Attempts(w))
    /\ Finish(w)
    /\ UNCHANGED <<fanout, outbox, events, lanes, scan, acker, reader, online,
                   received, clock, counts>>

\* After a success: the fan-out row, then the pending row, then the event.
WorkerRecordsAck(w) ==
    /\ At(w, "ack")
    /\ RecordDeliveryAck(Message(w))
    /\ GoTo(w, "settle")
    /\ UNCHANGED <<pending, outbox, events, lanes, scan, acker, reader, online,
                   received, clock, counts>>

WorkerSettlesPending(w) ==
    /\ At(w, "settle")
    /\ UpdateStatus(Message(w), "DELIVERED", Attempts(w))
    /\ GoTo(w, "announce")
    /\ UNCHANGED <<fanout, outbox, events, lanes, scan, acker, reader, online,
                   received, clock, counts>>

WorkerAnnounces(w) ==
    /\ At(w, "announce")
    /\ events' = events \cup {<<"MessageDelivered", Message(w)>>}
    /\ Finish(w)
    /\ UNCHANGED <<pending, fanout, outbox, lanes, scan, acker, reader, online,
                   received, clock, counts>>
-----------------------------------------------------------------------------
(***************************************************************************)
(* DurableDeliveryRecoveryService and RealtimeDeliveryAccelerator          *)
(***************************************************************************)

\* The branches of the three loops, by the row they read.
PurgeVerdict(m) ==
    IF pending[m].state \notin Terminal /\ aged[m] THEN "expire" ELSE "skip"

SweepVerdict(m) ==
    CASE pending[m].state # "RETRY_WAIT" -> "skip"
      [] pending[m].state = "RETRY_WAIT"
            /\ pending[m].attempts >= SweepMaxAttempts -> "expire"
      [] OTHER -> IF pending[m].due THEN "requeue" ELSE "skip"

\* Mutant: rows a crashed worker left in DELIVERING are not recovered.
RecoverQueuedOnly(m) ==
    CASE pending[m].state # "QUEUED" -> "skip"
      [] pending[m].state = "QUEUED" /\ aged[m] -> "expire"
      [] OTHER -> "schedule"

RecoverVerdict(m) ==
    CASE pending[m].state \notin {"QUEUED", "DELIVERING"} -> "skip"
      [] pending[m].state \in {"QUEUED", "DELIVERING"} /\ aged[m] -> "expire"
      [] OTHER -> "schedule"

Verdict(phase, m) ==
    CASE phase = "purge" -> PurgeVerdict(m)
      [] phase = "sweep" -> SweepVerdict(m)
      [] phase = "recover" -> RecoverVerdict(m)

\* The rows a loop will act on. The sweep and the recovery of a device that is
\* offline return at once.
ReadRows(phase, d, bucket) ==
    LET seen == IF phase = "purge" \/ online[d]
                THEN {m \in FetchPending(d, bucket) : Verdict(phase, m) # "skip"}
                ELSE {}
    IN  {[msg |-> m, attempts |-> pending[m].attempts,
          verdict |-> Verdict(phase, m)] : m \in seen}

Begin(s, phase, d, bucket) ==
    scan' = [scan EXCEPT ![s] = [phase |-> phase, device |-> d,
                                 bucket |-> bucket,
                                 rows |-> ReadRows(phase, d, bucket)]]

\* on_device_connected() is the same loop as recover_pending_for_device().
NextPhase == [purge |-> "sweep", sweep |-> "recover", connected |-> "recover",
              recover |-> "idle"]

\* run_recovery_cycle() for one of the configured devices: purge, sweep and
\* recover, all on the bucket of the current month.
StartRecoveryCycle(d) ==
    /\ d \in Candidates
    /\ scan["recovery"].phase = "idle"
    /\ Begin("recovery", "purge", d, month)
    /\ UNCHANGED <<tables, lanes, worker, acker, reader, online, received, clock,
                   counts>>

EndPhase(s) ==
    LET phase == scan[s].phase
        bucket == IF phase = "connected" THEN month ELSE scan[s].bucket
    IN  /\ phase # "idle"
        /\ scan[s].rows = {}
        /\ IF phase = "recover"
           THEN scan' = [scan EXCEPT ![s] = IdleScan]
           ELSE Begin(s, NextPhase[phase], scan[s].device, bucket)
        /\ UNCHANGED <<tables, lanes, worker, acker, reader, online, received,
                       clock, counts>>

\* One row, the oldest, acted on by what was read when the pass began. The
\* pass ends when the scheduler refuses a task.
ScanRow(s) ==
    \E r \in scan[s].rows :
        LET t == [msg |-> r.msg, attempts |-> r.attempts]
        IN  /\ \A q \in scan[s].rows : r.msg <= q.msg
            /\ \/ r.verdict = "expire" /\ UpdateStatus(r.msg, "EXPIRED", r.attempts)
               \/ r.verdict = "requeue" /\ UpdateStatus(r.msg, "QUEUED", r.attempts)
               \/ r.verdict = "schedule" /\ UNCHANGED pending
            /\ IF r.verdict = "expire" THEN UNCHANGED lanes ELSE Schedule(t)
            /\ scan' = [scan EXCEPT ![s].rows =
                          IF r.verdict = "expire" \/ Lanes!Room(t)
                          THEN @ \ {r} ELSE {}]
            /\ UNCHANGED <<fanout, outbox, events, worker, acker, reader, online,
                           received, clock, counts>>
-----------------------------------------------------------------------------
(***************************************************************************)
(* DeliveryService::acknowledge_delivery and                               *)
(* ReadReceiptService::record_read_receipt, called by the device           *)
(***************************************************************************)

\* Mutant: the pending row is settled before the fan-out row is written.
AckStartSettling(m) ==
    /\ acker[m] = "idle"
    /\ m \in Acknowledged
    /\ received[m]
    /\ fanout[m].state \notin Terminal
    /\ UpdateStatus(m, "DELIVERED", pending[m].attempts)
    /\ acker' = [acker EXCEPT ![m] = "record"]
    /\ UNCHANGED <<fanout, outbox, events, lanes, worker, scan, reader, online,
                   received, clock, counts>>

\* Each holds a stripe of its own lock array for the message and the device,
\* so a message has at most one of either under way; workers take neither.
AckStart(m) ==
    /\ acker[m] = "idle"
    /\ m \in Acknowledged
    /\ received[m]
    /\ fanout[m].state \notin Terminal
    /\ acker' = [acker EXCEPT ![m] = "record"]
    /\ UNCHANGED <<tables, lanes, worker, scan, reader, online, received, clock,
                   counts>>

AckRecords(m) ==
    /\ acker[m] = "record"
    /\ RecordDeliveryAck(m)
    /\ acker' = [acker EXCEPT ![m] = "pending"]
    /\ UNCHANGED <<pending, outbox, events, lanes, worker, scan, reader, online,
                   received, clock, counts>>

\* The bucket is that of the time of delivery the device names, not of the
\* acceptance.
AckSettlesPending(m) ==
    /\ acker[m] = "pending"
    /\ \E bucket \in 0 .. MaxMonth :
          IF m \in FetchPending(Recipient[m], bucket)
          THEN UpdateStatus(m, "DELIVERED", pending[m].attempts)
          ELSE UNCHANGED pending
    /\ acker' = [acker EXCEPT ![m] = "announce"]
    /\ UNCHANGED <<fanout, outbox, events, lanes, worker, scan, reader, online,
                   received, clock, counts>>

AckAnnounces(m) ==
    /\ acker[m] = "announce"
    /\ events' = events \cup {<<"MessageDelivered", m>>}
    /\ acker' = [acker EXCEPT ![m] = "idle"]
    /\ UNCHANGED <<pending, fanout, outbox, lanes, worker, scan, reader, online,
                   received, clock, counts>>

\* Mutant: the event goes out before the receipt is durable.
ReadStartAnnouncing(m) ==
    /\ reader[m] = "idle"
    /\ m \in Acknowledged
    /\ received[m]
    /\ fanout[m].state # "EXPIRED"
    /\ ~fanout[m].read
    /\ events' = events \cup {<<"MessageRead", m>>}
    /\ reader' = [reader EXCEPT ![m] = "record"]
    /\ UNCHANGED <<pending, fanout, outbox, lanes, worker, scan, acker, online,
                   received, clock, counts>>

ReadStart(m) ==
    /\ reader[m] = "idle"
    /\ m \in Acknowledged
    /\ received[m]
    /\ fanout[m].state # "EXPIRED"
    /\ ~fanout[m].read
    /\ reader' = [reader EXCEPT ![m] = "record"]
    /\ UNCHANGED <<tables, lanes, worker, scan, acker, online, received, clock,
                   counts>>

ReadRecords(m) ==
    /\ reader[m] = "record"
    /\ RecordReadAck(m)
    /\ reader' = [reader EXCEPT ![m] = "announce"]
    /\ UNCHANGED <<pending, outbox, events, lanes, worker, scan, acker, online,
                   received, clock, counts>>

ReadAnnounces(m) ==
    /\ reader[m] = "announce"
    /\ events' = events \cup {<<"MessageRead", m>>}
    /\ reader' = [reader EXCEPT ![m] = "idle"]
    /\ UNCHANGED <<pending, fanout, outbox, lanes, worker, scan, acker, online,
                   received, clock, counts>>

\* A statement throws: the call fails where it stands.
CallFails(m) ==
    /\ \/ acker[m] # "idle" /\ acker' = [acker EXCEPT ![m] = "idle"]
                            /\ UNCHANGED reader
       \/ reader[m] # "idle" /\ reader' = [reader EXCEPT ![m] = "idle"]
                             /\ UNCHANGED acker
    /\ UNCHANGED <<tables, lanes, worker, scan, online, received, clock, counts>>
-----------------------------------------------------------------------------
(***************************************************************************)
(* Connections, time and crashes                                           *)
(***************************************************************************)

\* establish_connection(): the channel is registered, then the accelerator's
\* callback runs in the thread of the call. One callback per device at a time.
Connect(d) ==
    /\ ~online[d]
    /\ scan[d].phase = "idle"
    /\ online' = [online EXCEPT ![d] = TRUE]
    /\ scan' = [scan EXCEPT ![d] = [phase |-> "connected", device |-> d,
                                    bucket |-> month, rows |-> {}]]
    /\ UNCHANGED <<tables, lanes, worker, acker, reader, received, clock, counts>>

\* A statement of the callback throws, out of establish_connection().
CallbackFails(d) ==
    /\ scan[d].phase # "idle"
    /\ scan' = [scan EXCEPT ![d] = IdleScan]
    /\ UNCHANGED <<tables, lanes, worker, acker, reader, online, received, clock,
                   counts>>

Disconnect(d) ==
    /\ online[d]
    /\ drops < MaxDrops
    /\ online' = [online EXCEPT ![d] = FALSE]
    /\ drops' = drops + 1
    /\ UNCHANGED <<tables, lanes, worker, scan, acker, reader, received, clock,
                   crashes>>

\* The device fetches the message itself, through message synchronisation.
DeviceSyncs(m) ==
    /\ pending[m].state # "NONE"
    /\ received' = [received EXCEPT ![m] = TRUE]
    /\ UNCHANGED <<tables, lanes, worker, scan, acker, reader, online, clock,
                   counts>>

BackoffElapses(m) ==
    /\ pending[m].state = "RETRY_WAIT"
    /\ pending' = [pending EXCEPT ![m].due = TRUE]
    /\ UNCHANGED <<fanout, outbox, events, lanes, worker, scan, acker, reader,
                   online, received, clock, counts>>

DeliveryWindowCloses(m) ==
    /\ m \in Overdue
    /\ pending[m].state # "NONE"
    /\ aged' = [aged EXCEPT ![m] = TRUE]
    /\ UNCHANGED <<tables, lanes, worker, scan, acker, reader, online, received,
                   month, counts>>

NewMonth ==
    /\ month < MaxMonth
    /\ month' = month + 1
    /\ UNCHANGED <<tables, lanes, worker, scan, acker, reader, online, received,
                   aged, counts>>

\* Memory is lost: queue, threads, calls and connections. The tables stay.
Crash ==
    /\ crashes < MaxCrashes
    /\ crashes' = crashes + 1
    /\ lanes' = [d \in Devices |-> <<>>]
    /\ worker' = [w \in Workers |-> IdleWorker]
    /\ scan' = [s \in Scanners |-> IdleScan]
    /\ acker' = [m \in Messages |-> "idle"]
    /\ reader' = [m \in Messages |-> "idle"]
    /\ online' = [d \in Devices |-> FALSE]
    /\ UNCHANGED <<tables, received, clock, drops>>

WorkerStep(w) ==
    \/ Dequeue(w) \/ DeviceOffline(w) \/ MarkDelivering(w)
    \/ EnvelopeArrives(w) \/ SendSuccess(w) \/ SendRecipientOffline(w)
    \/ SendTransientFailure(w) \/ SendTerminalFailure(w)
    \/ WorkerRecordsAck(w) \/ WorkerSettlesPending(w) \/ WorkerAnnounces(w)

CallStep(m) ==
    \/ AckStart(m) \/ AckRecords(m) \/ AckSettlesPending(m) \/ AckAnnounces(m)
    \/ ReadStart(m) \/ ReadRecords(m) \/ ReadAnnounces(m) \/ CallFails(m)

Next ==
    \/ \E m \in Messages : \/ Accept(m) \/ PollAndDispatch(m) \/ CallStep(m)
                           \/ DeviceSyncs(m) \/ BackoffElapses(m)
                           \/ DeliveryWindowCloses(m)
    \/ \E w \in Workers : WorkerStep(w)
    \/ \E d \in Devices : StartRecoveryCycle(d) \/ Connect(d) \/ CallbackFails(d)
                          \/ Disconnect(d)
    \/ \E s \in Scanners : EndPhase(s) \/ ScanRow(s)
    \/ NewMonth
    \/ Crash

Spec == Init /\ [][Next]_vars

(***************************************************************************)
(* The fairness of the threads and of the world around them. Worker and    *)
(* recovery threads run in loops; a device that is offline connects again, *)
(* and a network that is tried over and over with one message carries it   *)
(* at last. Nothing is assumed of the answers of the channel, of the       *)
(* outbox consumer, of the delivery window, or of what the device fetches, *)
(* acknowledges or reads by itself.                                        *)
(***************************************************************************)
Arrives(w, m) == Message(w) = m /\ EnvelopeArrives(w)

Fairness ==
    /\ \A w \in Workers :
          /\ WF_vars(WorkerStep(w))
          /\ \A m \in Messages : SF_vars(Arrives(w, m))
    /\ \A d \in Devices : SF_vars(StartRecoveryCycle(d)) /\ SF_vars(Connect(d))
    /\ \A s \in Scanners : WF_vars(EndPhase(s) \/ ScanRow(s))
    /\ \A m \in Messages : WF_vars(BackoffElapses(m))

FairSpec == Spec /\ Fairness
-----------------------------------------------------------------------------
(***************************************************************************)
(* Properties                                                              *)
(***************************************************************************)

\* The sender is told of a delivery, or the queue is settled by one, only when
\* the device holds the message, whichever of the worker, the acknowledgement
\* and the read receipt wrote the rows (delivery_worker.cpp, Success branch;
\* acknowledge_delivery; record_read_receipt).
DeliveredWasReceived ==
    \A m \in Messages :
        (\/ pending[m].state = "DELIVERED"
         \/ fanout[m].state \in {"DELIVERED", "READ"}) => received[m]

\* The two tables agree in the direction that matters: a row leaves the
\* device's queue as DELIVERED only after the sender's row says so, at every
\* crash point and whoever else writes the rows meanwhile.
DeliveredInBoth ==
    \A m \in Messages :
        pending[m].state = "DELIVERED" => fanout[m].state \in {"DELIVERED", "READ"}

\* An event in the outbox is never ahead of the tables: MessageDelivered and
\* MessageRead stand for acknowledgements that are durable.
AnnouncedIsDurable ==
    \A m \in Messages :
        /\ <<"MessageDelivered", m>> \in events
              => fanout[m].state \in {"DELIVERED", "READ"}
        /\ <<"MessageRead", m>> \in events => fanout[m].read

\* Recovery, reconnect and the consumer read the current month only, and of it
\* the oldest rows, delivered ones included.
OutOfSight(m) ==
    pending[m].month # month \/ m \notin FetchPending(Recipient[m], month)

\* A pass is about to end at a task the scheduler has no room for, with the
\* row of m not offered.
Refused(m) ==
    \E s \in Scanners : \E r, q \in scan[s].rows :
        /\ q.msg = m /\ r.msg <= m
        /\ ~Lanes!Room([msg |-> r.msg, attempts |-> r.attempts])

\* Every accepted message reaches the device or is expired unless the fetches
\* cannot see its row or the scheduler refuses it again and again: through
\* refused tasks, failed attempts, retries, lost connections, superseded
\* channels and crashes at any point, beside other messages and without the
\* help of the outbox consumer (durable_delivery_recovery_service.cpp,
\* realtime_delivery_accelerator.cpp).
Reaches ==
    \A m \in Messages :
        \/ []<>Refused(m)
        \/ pending[m].state # "NONE"
              ~> \/ received[m] \/ pending[m].state = "EXPIRED"
                 \/ OutOfSight(m)

\* "Delivery is at-least-once." (docs/design/messaging-design.md:1362): a
\* message that was accepted and does not expire reaches the device.
AtLeastOnce ==
    \A m \in Messages :
        pending[m].state # "NONE"
            ~> received[m] \/ pending[m].state = "EXPIRED"

=============================================================================
