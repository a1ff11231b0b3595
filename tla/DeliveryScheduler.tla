------------------------- MODULE DeliveryScheduler -------------------------
(***************************************************************************)
(* BoundedDeliveryScheduler (src/messaging/delivery): the in-memory queue  *)
(* of online delivery tasks that the outbox consumer, the accelerator and  *)
(* the recovery service fill and the threads of DeliveryWorker empty.      *)
(*                                                                         *)
(* Every operation holds mutex_ from start to end, so each is one action;  *)
(* the only place where a thread lets go of the mutex in between is the    *)
(* condition variable of dequeue(), and there the wait is split into       *)
(* falling asleep, being notified and looking again.                       *)
(*                                                                         *)
(* A refused schedule() call (shut down, empty identifiers, expired, full) *)
(* returns a status and changes nothing; it is a stuttering step here.     *)
(***************************************************************************)
EXTENDS Naturals, Sequences, FiniteSets, Functions, Subsequences, MessagingDevices

CONSTANTS
    Tasks,              \* task instances; a task leaves before it can return
    DeviceOf,           \* DeviceOf[t]: task.recipient_device_id
    Emergency,          \* tasks with task.priority = Emergency
    Workers,            \* threads that call dequeue()
    MaxGlobalQueued,    \* config_.max_global_queued_tasks
    MaxPerDevice,       \* config_.max_tasks_per_device
    ReservedSlots,      \* config_.emergency_queue_reserved_slots
    Quanta              \* config_.fairness_quanta_per_device

ASSUME DevicesAssumption == IsFiniteSet(Devices) /\ Devices # {}
ASSUME TasksAssumption ==
    /\ DeviceOf \in [Tasks -> Devices]
    /\ Emergency \subseteq Tasks
ASSUME WorkersAssumption == IsFiniteSet(Workers)
ASSUME ConfigAssumption ==
    /\ MaxGlobalQueued \in Nat
    /\ MaxPerDevice \in Nat
    /\ ReservedSlots \in Nat
    /\ Quanta \in Nat \ {0}

VARIABLES
    emergency,  \* emergency_queue_
    queues,     \* per_device_queues_; an absent entry is the empty sequence
    ring,       \* active_device_ring_
    active,     \* active_device_set_
    total,      \* total_tasks_count_
    consumed,   \* current_device_quanta_consumed_
    shutdown,   \* shutdown_
    worker,     \* worker[w]: where thread w is in dequeue()
    bypassed    \* history: tasks of other devices handed out while d's waited

queueVars == <<emergency, queues, ring, active, total, consumed, bypassed>>
vars == <<emergency, queues, ring, active, total, consumed, shutdown, worker,
          bypassed>>

WorkerStates == {"outside", "asleep", "notified"}

Queued ==
    Range(emergency) \cup UNION {Range(queues[d]) : d \in Devices}

Asleep == {w \in Workers : worker[w] = "asleep"}
Notified == {w \in Workers : worker[w] = "notified"}

RingTypes ==
    /\ queues \in [Devices -> Seq(Tasks \ Emergency)]
    /\ ring \in Seq(Devices)
    /\ active \subseteq Devices
    /\ consumed \in Nat
    /\ bypassed \in [Devices -> Nat]

\* Types of the scheduler's state; the unsigned counter never wraps below zero.
TypeOK ==
    /\ RingTypes
    /\ emergency \in Seq(Emergency)
    /\ total \in Nat
    /\ shutdown \in BOOLEAN
    /\ worker \in [Workers -> WorkerStates]

Init ==
    /\ emergency = <<>>
    /\ queues = [d \in Devices |-> <<>>]
    /\ ring = <<>>
    /\ active = {}
    /\ total = 0
    /\ consumed = 0
    /\ shutdown = FALSE
    /\ worker = [w \in Workers |-> "outside"]
    /\ bypassed = [d \in Devices |-> 0]
-----------------------------------------------------------------------------
(***************************************************************************)
(* schedule()                                                              *)
(***************************************************************************)

\* cv_.notify_one(): some sleeping thread, if there is one.
NotifyOne ==
    IF Asleep = {} THEN UNCHANGED worker
    ELSE \E w \in Asleep : worker' = [worker EXCEPT ![w] = "notified"]

\* A mutant of Admits: the room of one device is compared with <=.
AdmitsOneMore(t) ==
    /\ ~shutdown
    /\ IF t \in Emergency
       THEN total < MaxGlobalQueued + ReservedSlots
       ELSE /\ total < MaxGlobalQueued
            /\ Len(queues[DeviceOf[t]]) <= MaxPerDevice

\* The early returns before the queue of the task is looked at, then its own.
Admits(t) ==
    /\ ~shutdown
    /\ IF t \in Emergency
       THEN total < MaxGlobalQueued + ReservedSlots
       ELSE /\ total < MaxGlobalQueued
            /\ Len(queues[DeviceOf[t]]) < MaxPerDevice

ScheduleEmergency(t) ==
    /\ t \in Emergency \ Queued
    /\ Admits(t)
    /\ emergency' = Append(emergency, t)
    /\ total' = total + 1
    /\ NotifyOne
    /\ UNCHANGED <<queues, ring, active, consumed, shutdown, bypassed>>

\* A mutant of Activate: the ring is appended to without asking the set.
ActivateAgain(d) ==
    /\ active' = active \cup {d}
    /\ ring' = Append(ring, d)

\* The device joins the back of the ring when the set did not hold it.
Activate(d) ==
    /\ active' = active \cup {d}
    /\ ring' = IF d \in active THEN ring ELSE Append(ring, d)

\* A mutant of ScheduleNormal: a sleeping thread is woken only when the queue
\* was empty before.
ScheduleNotifyFirst(t) ==
    /\ t \in Tasks \ (Emergency \cup Queued)
    /\ Admits(t)
    /\ queues' = [queues EXCEPT ![DeviceOf[t]] = Append(@, t)]
    /\ total' = total + 1
    /\ Activate(DeviceOf[t])
    /\ IF total = 0 THEN NotifyOne ELSE UNCHANGED worker
    /\ UNCHANGED <<emergency, consumed, shutdown, bypassed>>

ScheduleNormal(t) ==
    /\ t \in Tasks \ (Emergency \cup Queued)
    /\ Admits(t)
    /\ queues' = [queues EXCEPT ![DeviceOf[t]] = Append(@, t)]
    /\ total' = total + 1
    /\ Activate(DeviceOf[t])
    /\ NotifyOne
    /\ UNCHANGED <<emergency, consumed, shutdown, bypassed>>
-----------------------------------------------------------------------------
(***************************************************************************)
(* dequeue_locked()                                                        *)
(***************************************************************************)

\* The loop pops ring entries whose queue is missing or empty; this is the
\* place of the first entry it keeps, or one past the end.
FirstLive ==
    CHOOSE i \in 1 .. Len(ring) + 1 :
        /\ i <= Len(ring) => queues[ring[i]] # <<>>
        /\ \A j \in 1 .. i - 1 : queues[ring[j]] = <<>>

DequeueEmergency ==
    /\ emergency # <<>>
    /\ emergency' = Tail(emergency)
    /\ total' = total - 1
    /\ UNCHANGED <<queues, ring, active, consumed, bypassed>>

\* A mutant of EndTurn: a device that used up its quantum starts another.
EndTurnOnlyWhenDry(d, live, count) ==
    LET dry == Tail(queues[d]) = <<>>
        spent == count >= Quanta
    IN  /\ ring' = IF dry THEN Tail(live) ELSE live
        /\ consumed' = IF dry \/ spent THEN 0 ELSE count
        /\ active' = (active \ {ring[i] : i \in 1 .. FirstLive - 1})
                        \ (IF dry THEN {d} ELSE {})

\* A mutant of EndTurn: a device that ran dry stays in the set.
EndTurnKeepsActive(d, live, count) ==
    LET dry == Tail(queues[d]) = <<>>
        spent == count >= Quanta
    IN  /\ ring' = CASE dry -> Tail(live)
                     [] ~dry /\ spent -> Append(Tail(live), d)
                     [] OTHER -> live
        /\ consumed' = IF dry \/ spent THEN 0 ELSE count
        /\ active' = active

\* A turn of device d, first of the ring with the dead entries gone: it leaves
\* when its queue ran dry, goes to the back when its quantum is used up, and
\* stays in front otherwise.
EndTurn(d, live, count) ==
    LET dry == Tail(queues[d]) = <<>>
        spent == count >= Quanta
    IN  /\ ring' = CASE dry -> Tail(live)
                     [] ~dry /\ spent -> Append(Tail(live), d)
                     [] OTHER -> live
        /\ consumed' = IF dry \/ spent THEN 0 ELSE count
        /\ active' = (active \ {ring[i] : i \in 1 .. FirstLive - 1})
                        \ (IF dry THEN {d} ELSE {})

DequeueNormal ==
    /\ emergency = <<>>
    /\ FirstLive <= Len(ring)
    /\ LET live == SubSeq(ring, FirstLive, Len(ring))
           d == Head(live)
           count == (IF FirstLive = 1 THEN consumed ELSE 0) + 1
       IN  /\ queues' = [queues EXCEPT ![d] = Tail(@)]
           /\ EndTurn(d, live, count)
           /\ bypassed' = [e \in Devices |->
                              IF e = d \/ queues[e] = <<>> THEN 0
                              ELSE bypassed[e] + 1]
    /\ total' = total - 1
    /\ UNCHANGED emergency

\* Nothing but dead entries: std::nullopt.
DequeueNothing ==
    /\ emergency = <<>>
    /\ FirstLive > Len(ring)
    /\ ring' = <<>>
    /\ active' = active \ Range(ring)
    /\ consumed' = IF ring = <<>> THEN consumed ELSE 0
    /\ UNCHANGED <<emergency, queues, total, bypassed>>

DequeueLocked ==
    \/ DequeueEmergency
    \/ DequeueNormal
    \/ DequeueNothing
-----------------------------------------------------------------------------
(***************************************************************************)
(* dequeue(), try_dequeue(): the condition variable                        *)
(***************************************************************************)

Ready == shutdown \/ total > 0

\* dequeue() and try_dequeue() when there is no need to wait, and a waiting
\* dequeue() that finds its predicate true after a notification or when its
\* time is up.
Dequeue(w) ==
    /\ Ready
    /\ DequeueLocked
    /\ worker' = [worker EXCEPT ![w] = "outside"]
    /\ UNCHANGED shutdown

\* The predicate is false: wait, also after a notification that came too late.
Sleep(w) ==
    /\ ~Ready
    /\ worker[w] # "asleep"
    /\ worker' = [worker EXCEPT ![w] = "asleep"]
    /\ UNCHANGED <<queueVars, shutdown>>

\* wait_for() ran out of time and found nothing: std::nullopt.
TimeOut(w) ==
    /\ ~Ready
    /\ worker[w] # "outside"
    /\ worker' = [worker EXCEPT ![w] = "outside"]
    /\ UNCHANGED <<queueVars, shutdown>>
-----------------------------------------------------------------------------
(***************************************************************************)
(* drain_device_queue(), purge_device_tasks(), clear(), shutdown()         *)
(***************************************************************************)

\* std::erase on the ring. The set keeps a device from entering the ring
\* twice (RingConsistent), so there is at most one entry to take out.
EraseFromRing(d) ==
    IF \E i \in 1 .. Len(ring) : ring[i] = d
    THEN LET i == CHOOSE j \in 1 .. Len(ring) : ring[j] = d
         IN  [j \in 1 .. Len(ring) - 1 |->
                 IF j < i THEN ring[j] ELSE ring[j + 1]]
    ELSE ring

\* The emergency queue after the tasks of d were erased from it.
WithoutDevice(d) ==
    Keep(emergency, {i \in 1 .. Len(emergency) : DeviceOf[emergency[i]] # d})

\* A mutant of DrainDeviceQueue: only the device queue is counted out.
DrainMiscounts(d) ==
    LET others == WithoutDevice(d)
    IN  /\ queues' = [queues EXCEPT ![d] = <<>>]
        /\ emergency' = others
        /\ total' = total - Len(queues[d])
        /\ active' = active \ {d}
        /\ ring' = EraseFromRing(d)
        /\ consumed' = IF ring # <<>> /\ Head(ring) = d THEN 0 ELSE consumed
        /\ bypassed' = [bypassed EXCEPT ![d] = 0]
        /\ UNCHANGED <<shutdown, worker>>

DrainDeviceQueue(d) ==
    LET others == WithoutDevice(d)
    IN  /\ queues' = [queues EXCEPT ![d] = <<>>]
        /\ emergency' = others
        /\ total' = total - Len(queues[d]) - (Len(emergency) - Len(others))
        /\ active' = active \ {d}
        /\ ring' = EraseFromRing(d)
        /\ consumed' = IF ring # <<>> /\ Head(ring) = d THEN 0 ELSE consumed
        /\ bypassed' = [bypassed EXCEPT ![d] = 0]
        /\ UNCHANGED <<shutdown, worker>>

Clear ==
    /\ emergency' = <<>>
    /\ queues' = [d \in Devices |-> <<>>]
    /\ ring' = <<>>
    /\ active' = {}
    /\ total' = 0
    /\ consumed' = 0
    /\ bypassed' = [d \in Devices |-> 0]
    /\ UNCHANGED <<shutdown, worker>>

\* cv_.notify_all() follows the assignment.
Shutdown ==
    /\ shutdown' = TRUE
    /\ worker' = [w \in Workers |->
                     IF worker[w] = "asleep" THEN "notified" ELSE worker[w]]
    /\ UNCHANGED queueVars

Next ==
    \/ \E t \in Tasks : ScheduleEmergency(t) \/ ScheduleNormal(t)
    \/ \E w \in Workers : Dequeue(w) \/ Sleep(w) \/ TimeOut(w)
    \/ \E d \in Devices : DrainDeviceQueue(d)
    \/ Clear
    \/ Shutdown

Spec == Init /\ [][Next]_vars

\* Until shutdown() the loop of a worker thread comes back to dequeue() again
\* and again, and a notified thread gets the mutex in the end. Nothing is
\* assumed of the timer, nor of threads that stop() has told to leave.
Served(w) == ~shutdown /\ worker[w] # "asleep" /\ Dequeue(w)

FairSpec == Spec /\ \A w \in Workers : WF_vars(Served(w))
-----------------------------------------------------------------------------
(***************************************************************************)
(* Properties                                                              *)
(***************************************************************************)

\* total_tasks_count_, which every capacity check and the wait of dequeue()
\* go by, is the number of tasks that are really queued: schedule, dequeue,
\* drain and clear never let the two drift apart (or the unsigned counter
\* wrap).
CountExact == total = Len(emergency) + Cardinality(Places(queues))

\* The ring and the set name the same devices, each once, and these are the
\* devices that have tasks queued: no queued task belongs to a device the
\* round robin does not visit, and a turn never outlives its quantum.
RingOnce == \A i, j \in 1 .. Len(ring) : ring[i] = ring[j] => i = j
RingIsActive == active = {ring[i] : i \in 1 .. Len(ring)}
ActiveHasTasks == \A d \in Devices : d \in active <=> queues[d] # <<>>
TurnBounded == consumed < Quanta /\ (ring = <<>> => consumed = 0)

RingConsistent ==
    /\ RingOnce
    /\ RingIsActive
    /\ ActiveHasTasks
    /\ TurnBounded

\* Per-device fairness: while a device has tasks queued, at most one quantum
\* of every other device is handed out before its own next task (emergency
\* tasks, which go before everything, are not counted).
BypassBounded ==
    \A d \in Devices : bypassed[d] <= (Cardinality(Devices) - 1) * Quanta

\* No lost wakeup: when threads sleep in dequeue(), every queued task has a
\* notified thread on its way to it, and nobody sleeps through a shutdown.
NoLostWakeup ==
    Asleep # {} => ~shutdown /\ total <= Cardinality(Notified)

\* Ring, quanta, set and counter implement bounded lanes in arrival order with
\* the emergency lane first.
Lanes == INSTANCE DeliveryLanes WITH
    express <- emergency,
    lanes <- queues,
    LaneCap <- MaxPerDevice,
    SharedCap <- MaxGlobalQueued,
    TotalCap <- MaxGlobalQueued + ReservedSlots

ImplementsLanes == Lanes!Spec

\* Unless emergency traffic never lets up, a queued task is handed to a worker
\* (or drained) in the end or the scheduler is shut down: neither the round
\* robin nor the sleeping threads strand it.
TaskLeavesQueue ==
    \/ []<>(emergency # <<>>)
    \/ \A t \in Tasks : t \in Queued ~> (t \notin Queued \/ shutdown)
=============================================================================
