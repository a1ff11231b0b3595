------------------------ MODULE ConnectionLifecycle ------------------------
(***************************************************************************)
(* The connections of devices: ConnectionLifecycleManager on top of        *)
(* DeviceConnectionRegistry and PresenceCoordinator.                       *)
(*                                                                         *)
(* Registry, sessions and presence are three structures with a mutex each; *)
(* one step is one critical section. establish_connection and              *)
(* terminate_connection also hold the lifecycle stripe of their device     *)
(* from the first step to the last. Heartbeats and the reaper do not take  *)
(* the stripe. Devices that share a stripe only wait longer, so the model  *)
(* has a stripe for every device.                                          *)
(***************************************************************************)
EXTENDS Naturals, FiniteSets, MessagingThreads

CONSTANTS
    Users,
    MaxDevicesPerUser,   \* ConnectionCapacityConfig::max_devices_per_user
    MaxGlobal,           \* ConnectionCapacityConfig::max_global_connections
    MaxConnections       \* bound: connections that are established

ASSUME NoneAssumption ==
    None \notin Threads /\ None \notin Users /\ None \notin Devices
ASSUME CapacityAssumption ==
    /\ MaxDevicesPerUser \in Nat \ {0}
    /\ MaxGlobal \in Nat \ {0}
    /\ MaxConnections \in Nat

VARIABLES
    \* DeviceConnectionRegistry
    channels,      \* channels_[d]: the channel and whether its lease holds
    userDevices,   \* user_to_devices_
    \* ConnectionLifecycleManager
    sessions,      \* sessions_[d]
    stripe,        \* stripe[d]: the thread that holds it
    thread,        \* thread[t]: the call a thread is in
    reaper,        \* the reaper's pass: evicted devices not yet notified
    \* PresenceCoordinator
    states,        \* device_states_[d]
    members,       \* user_devices_[u]
    \* history
    connections,   \* connections made so far, which number them
    evicted        \* the reaper has evicted a channel

registry == <<channels, userDevices>>
presence == <<states, members>>
lifecycleVars == <<channels, userDevices, sessions, stripe, thread, reaper, states,
          members, connections, evicted>>

Connections == 0 .. MaxConnections

Channel == [conn : Connections, user : Users, active : BOOLEAN, leased : BOOLEAN]
Session == [conn : Connections, user : Users]
DeviceEntry == [user : Users, leased : BOOLEAN]

NoChannel == [conn |-> 0, user |-> None, active |-> FALSE, leased |-> FALSE]
NoSession == [conn |-> 0, user |-> None]
NoEntry == [user |-> None, leased |-> FALSE]

\* Where a call is: a call that registered or unregistered a channel erases the
\* session, then the presence; establish_connection goes on from there.
Steps == {"idle", "register", "unregister", "erase", "offline", "session",
          "online", "touch", "beat"}

\* user and conn belong to the connection that is established; gone is the
\* user whose session was erased or found.
Call == [step : Steps, op : {"none", "establish", "terminate", "heartbeat"},
         device : Devices \cup {None}, user : Users \cup {None},
         conn : Connections, gone : Users \cup {None}]

Idle == [step |-> "idle", op |-> "none", device |-> None, user |-> None,
         conn |-> 0, gone |-> None]

Pass == [device : Devices \cup {None}, gone : Users \cup {None},
         todo : SUBSET Devices]
Resting == [device |-> None, gone |-> None, todo |-> {}]

LifecycleTypeOK ==
    /\ channels \in [Devices -> Channel \cup {NoChannel}]
    /\ userDevices \in [Users -> SUBSET Devices]
    /\ sessions \in [Devices -> Session \cup {NoSession}]
    /\ stripe \in [Devices -> Threads \cup {None}]
    /\ thread \in [Threads -> Call]
    /\ reaper \in Pass
    /\ states \in [Devices -> DeviceEntry \cup {NoEntry}]
    /\ members \in [Users -> SUBSET Devices]
    /\ connections \in Connections
    /\ evicted \in BOOLEAN

LifecycleInit ==
    /\ channels = [d \in Devices |-> NoChannel]
    /\ userDevices = [u \in Users |-> {}]
    /\ sessions = [d \in Devices |-> NoSession]
    /\ stripe = [d \in Devices |-> None]
    /\ thread = [t \in Threads |-> Idle]
    /\ reaper = Resting
    /\ states = [d \in Devices |-> NoEntry]
    /\ members = [u \in Users |-> {}]
    /\ connections = 0
    /\ evicted = FALSE
-----------------------------------------------------------------------------
(***************************************************************************)
(* Registry                                                                *)
(***************************************************************************)

Registered == {d \in Devices : channels[d] # NoChannel}

\* The checks of register_channel() for a device that has no channel. A device
\* that replaces its channel is not counted again.
WithinCapacity(u) ==
    Cardinality(Registered) < MaxGlobal /\ Cardinality(userDevices[u]) < MaxDevicesPerUser

\* The index drops a device from its user's list.
Unlist(d, u) == [userDevices EXCEPT ![u] = @ \ {d}]

\* A mutant of Listed: the old user of a replaced channel keeps the device.
ListedTwice(d, u) == [userDevices EXCEPT ![u] = @ \cup {d}]

\* The index after register_channel(): the old user of a replaced channel, if
\* it is another one, loses the device.
Listed(d, u) ==
    [x \in Users |-> IF x = u THEN userDevices[x] \cup {d}
                     ELSE IF channels[d].user = x THEN userDevices[x] \ {d}
                     ELSE userDevices[x]]
-----------------------------------------------------------------------------
(***************************************************************************)
(* Presence                                                                *)
(***************************************************************************)

OnDeviceConnected(u, d) ==
    /\ members' = [members EXCEPT ![u] = @ \cup {d}]
    /\ states' = [states EXCEPT ![d] = [user |-> u, leased |-> TRUE]]

\* A mutant of OnDeviceDisconnected: the entry of the device stays.
DisconnectedKeepsEntry(u, d) ==
    /\ members' = [members EXCEPT ![u] = @ \ {d}]
    /\ states' = states

\* The entry of the device goes, whoever its user is.
OnDeviceDisconnected(u, d) ==
    /\ members' = [members EXCEPT ![u] = @ \ {d}]
    /\ states' = [states EXCEPT ![d] = NoEntry]

\* A heartbeat renews the entry or, when there is none, makes one.
OnDeviceHeartbeat(u, d) ==
    IF states[d] # NoEntry
    THEN states' = [states EXCEPT ![d].leased = TRUE] /\ UNCHANGED members
    ELSE OnDeviceConnected(u, d)
-----------------------------------------------------------------------------
(***************************************************************************)
(* establish_connection() and terminate_connection()                       *)
(***************************************************************************)

At(t, step) == thread[t].step = step
GoTo(t, step) == thread' = [thread EXCEPT ![t].step = step]

\* The call returns; the stripe is released.
Leave(t) ==
    /\ thread' = [thread EXCEPT ![t] = Idle]
    /\ stripe' = [stripe EXCEPT ![thread[t].device] = None]

EstablishConnection(t, d, u) ==
    /\ At(t, "idle")
    /\ connections < MaxConnections
    /\ connections' = connections + 1
    /\ thread' = [thread EXCEPT ![t] =
                     [step |-> "register", op |-> "establish", device |-> d,
                      user |-> u, conn |-> connections + 1, gone |-> None]]
    /\ UNCHANGED <<registry, sessions, stripe, reaper, presence, evicted>>

\* A mutant of TakeStripe: the stripe is not waited for.
TakeStripeAnyway(t) == stripe' = [stripe EXCEPT ![thread[t].device] = t]

TakeStripe(t) ==
    /\ stripe[thread[t].device] = None
    /\ stripe' = [stripe EXCEPT ![thread[t].device] = t]

\* register_channel() puts the channel in place; when it replaced one, the
\* disconnect callbacks run before the call goes on.
RegisterChannel(t) ==
    LET d == thread[t].device
        u == thread[t].user
    IN  /\ At(t, "register")
        /\ TakeStripe(t)
        /\ d \in Registered \/ WithinCapacity(u)
        /\ channels' = [channels EXCEPT ![d] =
                           [conn |-> thread[t].conn, user |-> u, active |-> TRUE,
                            leased |-> TRUE]]
        /\ userDevices' = Listed(d, u)
        /\ GoTo(t, IF d \in Registered THEN "erase" ELSE "session")
        /\ UNCHANGED <<sessions, reaper, presence, connections, evicted>>

\* ConnectionLimitExceededException: the stripe is taken and given back.
RegisterRefused(t) ==
    /\ At(t, "register")
    /\ stripe[thread[t].device] = None
    /\ thread[t].device \notin Registered /\ ~WithinCapacity(thread[t].user)
    /\ thread' = [thread EXCEPT ![t] = Idle]
    /\ UNCHANGED <<registry, sessions, stripe, reaper, presence, connections,
                   evicted>>

\* on_registry_disconnect(): the session of the device goes, whichever
\* connection it belongs to, and presence is told if there was one.
AfterDisconnect(t) == IF thread[t].op = "establish" THEN "session" ELSE "idle"

EraseSession(t) ==
    LET d == thread[t].device
    IN  /\ At(t, "erase")
        /\ sessions' = [sessions EXCEPT ![d] = NoSession]
        /\ IF sessions[d] # NoSession
           THEN /\ thread' = [thread EXCEPT ![t].step = "offline",
                                            ![t].gone = sessions[d].user]
                /\ UNCHANGED stripe
           ELSE IF AfterDisconnect(t) = "idle" THEN Leave(t)
           ELSE GoTo(t, "session") /\ UNCHANGED stripe
        /\ UNCHANGED <<registry, reaper, presence, connections, evicted>>

GoOffline(t) ==
    /\ At(t, "offline")
    /\ OnDeviceDisconnected(thread[t].gone, thread[t].device)
    /\ IF AfterDisconnect(t) = "idle" THEN Leave(t)
       ELSE GoTo(t, "session") /\ UNCHANGED stripe
    /\ UNCHANGED <<registry, sessions, reaper, connections, evicted>>

StoreSession(t) ==
    /\ At(t, "session")
    /\ sessions' = [sessions EXCEPT ![thread[t].device] =
                       [conn |-> thread[t].conn, user |-> thread[t].user]]
    /\ GoTo(t, "online")
    /\ UNCHANGED <<registry, stripe, reaper, presence, connections, evicted>>

\* The connected callbacks that follow are the accelerator of MessageDelivery.
GoOnline(t) ==
    /\ At(t, "online")
    /\ OnDeviceConnected(thread[t].user, thread[t].device)
    /\ Leave(t)
    /\ UNCHANGED <<registry, sessions, reaper, connections, evicted>>

TerminateConnection(t, d) ==
    /\ At(t, "idle")
    /\ thread' = [thread EXCEPT ![t].step = "unregister", ![t].op = "terminate",
                                ![t].device = d]
    /\ UNCHANGED <<registry, sessions, stripe, reaper, presence, connections,
                   evicted>>

\* unregister_channel() takes out whichever channel the device has by now.
UnregisterChannel(t) ==
    LET d == thread[t].device
    IN  /\ At(t, "unregister")
        /\ d \in Registered
        /\ TakeStripe(t)
        /\ channels' = [channels EXCEPT ![d] = NoChannel]
        /\ userDevices' = Unlist(d, channels[d].user)
        /\ GoTo(t, "erase")
        /\ UNCHANGED <<sessions, reaper, presence, connections, evicted>>

NothingToUnregister(t) ==
    /\ At(t, "unregister")
    /\ stripe[thread[t].device] = None
    /\ thread[t].device \notin Registered
    /\ thread' = [thread EXCEPT ![t] = Idle]
    /\ UNCHANGED <<registry, sessions, stripe, reaper, presence, connections,
                   evicted>>
-----------------------------------------------------------------------------
(***************************************************************************)
(* record_heartbeat(), without the stripe                                  *)
(***************************************************************************)

\* Without a session the heartbeat is refused and nothing is renewed.
RecordHeartbeat(t, d) ==
    /\ At(t, "idle")
    /\ sessions[d] # NoSession
    /\ thread' = [thread EXCEPT ![t].step = "touch", ![t].op = "heartbeat",
                                ![t].device = d, ![t].gone = sessions[d].user]
    /\ UNCHANGED <<registry, sessions, stripe, reaper, presence, connections,
                   evicted>>

TouchChannel(t) ==
    LET d == thread[t].device
    IN  /\ At(t, "touch")
        /\ channels' = IF channels[d].active
                       THEN [channels EXCEPT ![d].leased = TRUE] ELSE channels
        /\ GoTo(t, "beat")
        /\ UNCHANGED <<userDevices, sessions, stripe, reaper, presence,
                       connections, evicted>>

Beat(t) ==
    /\ At(t, "beat")
    /\ OnDeviceHeartbeat(thread[t].gone, thread[t].device)
    /\ thread' = [thread EXCEPT ![t] = Idle]
    /\ UNCHANGED <<registry, sessions, stripe, reaper, connections, evicted>>
-----------------------------------------------------------------------------
(***************************************************************************)
(* The reaper, without the stripe                                          *)
(***************************************************************************)

Stale(d) == d \in Registered /\ ~(channels[d].active /\ channels[d].leased)

\* evict_stale_channels() under the registry's mutex.
SweepStaleConnections ==
    LET stale == {d \in Devices : Stale(d)}
    IN  /\ reaper = Resting
        /\ stale # {}
        /\ channels' = [d \in Devices |-> IF d \in stale THEN NoChannel
                                          ELSE channels[d]]
        /\ userDevices' = [u \in Users |-> userDevices[u] \ stale]
        /\ reaper' = [Resting EXCEPT !.todo = stale]
        /\ evicted' = TRUE
        /\ UNCHANGED <<sessions, stripe, thread, presence, connections>>

\* The disconnect callback of an evicted device, after the mutex is released.
ReaperErases(d) ==
    /\ reaper.device = None
    /\ d \in reaper.todo
    /\ sessions' = [sessions EXCEPT ![d] = NoSession]
    /\ reaper' = IF sessions[d] # NoSession
                 THEN [device |-> d, gone |-> sessions[d].user,
                       todo |-> reaper.todo \ {d}]
                 ELSE [reaper EXCEPT !.todo = @ \ {d}]
    /\ UNCHANGED <<registry, stripe, thread, presence, connections, evicted>>

ReaperGoesOffline ==
    /\ reaper.device # None
    /\ OnDeviceDisconnected(reaper.gone, reaper.device)
    /\ reaper' = [reaper EXCEPT !.device = None, !.gone = None]
    /\ UNCHANGED <<registry, sessions, stripe, thread, connections, evicted>>
-----------------------------------------------------------------------------
(***************************************************************************)
(* The world: a connection breaks, time passes                             *)
(***************************************************************************)

ConnectionBreaks(d) ==
    /\ channels[d].active
    /\ channels' = [channels EXCEPT ![d].active = FALSE]
    /\ UNCHANGED <<userDevices, sessions, stripe, thread, reaper, presence,
                   connections, evicted>>

LeaseRunsOut(d) ==
    /\ channels[d].leased
    /\ channels' = [channels EXCEPT ![d].leased = FALSE]
    /\ UNCHANGED <<userDevices, sessions, stripe, thread, reaper, presence,
                   connections, evicted>>

PresenceRunsOut(d) ==
    /\ states[d].leased
    /\ states' = [states EXCEPT ![d].leased = FALSE]
    /\ UNCHANGED <<registry, sessions, stripe, thread, reaper, members,
                   connections, evicted>>

ThreadStep(t) ==
    \/ \E d \in Devices : \/ \E u \in Users : EstablishConnection(t, d, u)
                          \/ TerminateConnection(t, d) \/ RecordHeartbeat(t, d)
    \/ RegisterChannel(t) \/ RegisterRefused(t)
    \/ UnregisterChannel(t) \/ NothingToUnregister(t)
    \/ EraseSession(t) \/ GoOffline(t) \/ StoreSession(t) \/ GoOnline(t)
    \/ TouchChannel(t) \/ Beat(t)

LifecycleNext ==
    \/ \E t \in Threads : ThreadStep(t)
    \/ SweepStaleConnections
    \/ \E d \in Devices : ReaperErases(d)
    \/ ReaperGoesOffline
    \/ \E d \in Devices : ConnectionBreaks(d) \/ LeaseRunsOut(d) \/ PresenceRunsOut(d)

LifecycleSpec == LifecycleInit /\ [][LifecycleNext]_lifecycleVars
-----------------------------------------------------------------------------
(***************************************************************************)
(* Properties                                                              *)
(***************************************************************************)

\* The index of devices by user, which the limit per user is checked against,
\* lists exactly the registered channels of the user, through replaced
\* channels, changes of user, closes and evictions (device_connection_registry).
IndexExact ==
    \A u \in Users :
        userDevices[u] = {d \in Registered : channels[d].user = u}

\* An entry of presence is found through its user: whatever order late
\* heartbeats, closes and evictions come in, no entry is left that no user's
\* set leads to and nothing would ever take out (presence_coordinator.cpp).
PresenceIndexed ==
    \A d \in Devices :
        states[d] # NoEntry => d \in members[states[d].user]

\* Sessions follow the newest connection: when no call holds the stripe, a
\* session and a channel of one device belong to the same connection and user,
\* with the reaper and heartbeats going on beside (establish_connection,
\* steps 1 and 2).
SessionIsCurrent ==
    \A d \in Devices :
        (stripe[d] = None /\ channels[d] # NoChannel /\ sessions[d] # NoSession)
            => /\ sessions[d].conn = channels[d].conn
               /\ sessions[d].user = channels[d].user

\* What the stripes achieve ("per-device serialization across registry,
\* sessions, and presence"): as long as the reaper has evicted nothing, registry
\* and sessions agree whenever the stripe is free, and presence knows the
\* session's user, however late a heartbeat comes.
StripesSuffice ==
    \A d \in Devices :
        (~evicted /\ stripe[d] = None) =>
            /\ channels[d] = NoChannel <=> sessions[d] = NoSession
            /\ sessions[d] # NoSession => states[d].user = sessions[d].user

=============================================================================
