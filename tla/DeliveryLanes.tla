--------------------------- MODULE DeliveryLanes ---------------------------
(***************************************************************************)
(* What BoundedDeliveryScheduler promises to the code around it, without   *)
(* the ring, the quanta, the counter and the condition variable it uses:   *)
(* one bounded first-in-first-out lane per recipient device and one shared *)
(* emergency lane that is always served first.                             *)
(***************************************************************************)
EXTENDS Naturals, Sequences, FiniteSets, Subsequences

CONSTANTS
    Devices,        \* recipient devices
    Tasks,          \* delivery task instances
    DeviceOf,       \* DeviceOf[t]: the recipient device of task t
    Emergency,      \* the tasks of MessagePriority::Emergency
    LaneCap,        \* most tasks in the lane of one device
    SharedCap,      \* a normal task is refused at this many queued tasks
    TotalCap        \* an emergency task is refused at this many queued tasks

VARIABLES
    express,        \* the emergency lane
    lanes           \* lanes[d]: the lane of device d

vars == <<express, lanes>>

\* The number of tasks held, counted in the lanes themselves.
Held == Len(express) + Cardinality(Places(lanes))

Init ==
    /\ express = <<>>
    /\ lanes = [d \in Devices |-> <<>>]

\* Whether schedule() has room for a task.
Room(t) ==
    IF t \in Emergency
    THEN Held < TotalCap
    ELSE Held < SharedCap /\ Len(lanes[DeviceOf[t]]) < LaneCap

\* A task is accepted only while there is room for it.
Accept(t) ==
    /\ Room(t)
    /\ \/ /\ t \in Emergency
          /\ express' = Append(express, t)
          /\ UNCHANGED lanes
       \/ /\ t \notin Emergency
          /\ lanes' = [lanes EXCEPT ![DeviceOf[t]] = Append(@, t)]
          /\ UNCHANGED express

\* The oldest emergency task, or if there is none the oldest task of a device.
TakeExpress ==
    /\ express # <<>>
    /\ express' = Tail(express)
    /\ UNCHANGED lanes

TakeFrom(d) ==
    /\ express = <<>>
    /\ lanes[d] # <<>>
    /\ lanes' = [lanes EXCEPT ![d] = Tail(@)]
    /\ UNCHANGED express

\* Exactly the tasks of one device are withdrawn, or all tasks are.
Withdraw(d) ==
    /\ lanes' = [lanes EXCEPT ![d] = <<>>]
    /\ express' = Keep(express, {i \in 1 .. Len(express) :
                                   DeviceOf[express[i]] # d})

WithdrawAll ==
    /\ lanes' = [d \in Devices |-> <<>>]
    /\ express' = <<>>

Next ==
    \/ \E t \in Tasks : Accept(t)
    \/ TakeExpress
    \/ \E d \in Devices : TakeFrom(d)
    \/ \E d \in Devices : Withdraw(d)
    \/ WithdrawAll

Spec == Init /\ [][Next]_vars
=============================================================================
