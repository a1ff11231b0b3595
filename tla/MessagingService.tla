--------------------------- MODULE MessagingService ---------------------------
(***************************************************************************)
(* MessagingServiceImpl: the handlers of messages, synchronisation and     *)
(* presence around the tasks of MessagingTasks, the bounded worker pools   *)
(* that run the tasks, and the drain of main().                            *)
(*                                                                         *)
(* A handler waits for its task until the deadline of the call; the task   *)
(* goes on without it.  The services are wired as in the tests: main()     *)
(* itself constructs MessagingServiceImpl without them.                    *)
(***************************************************************************)
EXTENDS MessagingTasks

CONSTANTS
  Pools,             \* submission, delivery and sync
  PoolWorkers,       \* threads of each pool
  QueueCapacity,     \* max_queue_capacity of each pool
  PresenceWindow,    \* one minute
  PresenceLimit,     \* k_max_updates_per_minute
  Connected          \* users with a connected device

Conversing == {"CreateDirect", "CreateGroup", "AddParticipant", "RemoveParticipant",
               "LeaveConversation", "UpdateConversationMetadata", "GetConversation",
               "ListConversations"}
Pooled == {"SendMessage", "GetMessages", "SyncDeviceMessages", "AcknowledgeDelivery",
           "SendReadReceipt", "GetSyncCursor", "UpdateSyncCursor"}
Inline == {"GetMessageDeliveryStatus", "UpdatePresence", "GetPresence"}

Request ==
  [rpc : Conversing \cup Pooled \cup Inline, user : Users \cup {None}, n : Nat,
   header : Devices \cup {None}, device : Devices \cup {None}, conv : Convs \cup {None},
   target : Users \cup {None}, people : SUBSET Users, title : BOOLEAN, seq : Int,
   max : Nat, targets : SUBSET Devices, env : STRING, message : BOOLEAN,
   status : STRING, deadline : Int, cancelled : BOOLEAN]

Workload ==
  [requests : SUBSET Request, clock : 0..MaxClock, faults : 0..MaxFaults,
   months : 0..MaxMonth, volatile : SUBSET Devices, stops : BOOLEAN]

ASSUME WorkloadsAssumption == Workloads \subseteq Workload

ASSUME NoneAssumption ==
  /\ None \notin Users /\ None \notin Devices /\ None \notin Int
  /\ None \notin {"Active", "Closed"}
  /\ None \notin Members /\ None \notin ConversationRows /\ None \notin Request

ASSUME ServiceAssumption ==
  /\ Pools = {"submission", "delivery", "sync"}
  /\ PoolWorkers \in Nat \ {0} /\ QueueCapacity \in Nat \ {0}
  /\ PresenceWindow \in Nat /\ PresenceLimit \in Nat \ {0}

VARIABLES
  queue,             \* [Pools -> sequence of calls whose task waits]
  limits,            \* presence_rate_limits_: [Users -> times of updates]
  overrides          \* user_overrides_: [Users -> status or None]

serviceVars == <<queue, limits, overrides>>
vars == <<callVars, convVars, dirVars, taskVars, serviceVars>>
tables == <<convVars, dirVars, taskVars>>

Init ==
  /\ CallsInit /\ DirectoryInit /\ TasksInit
  /\ queue = [p \in Pools |-> <<>>]
  /\ limits = [u \in Users |-> <<>>]
  /\ overrides = [u \in Users |-> None]

PoolOf(r) ==
  CASE r.rpc = "SendMessage" -> "submission"
    [] r.rpc \in {"AcknowledgeDelivery", "SendReadReceipt"} -> "delivery"
    [] OTHER -> "sync"

-----------------------------------------------------------------------------
(* The handlers with a pool.  Each checks deadline and caller first; those *)
(* that act for a device refuse one that differs from the header's and     *)
(* then ask the directory about it.                                        *)
CheckedBegin(c, r, check, pc) ==
  LET error == FirstError(<< CheckDeadline(r), ValidateCaller(r), check >>)
  IN /\ Begin(c, r, error,
              [Unused EXCEPT !.pc = pc, !.conv = r.conv,
                 !.before = {s \in stored : s.conv = r.conv}])
     /\ UNCHANGED <<tables, serviceVars>>

OtherDevice(r) ==
  Reject(r.header # None /\ r.device # None /\ r.header # r.device, "INVALID_TARGET_DEVICE")
NoDevice(r) == Reject(EffectiveDevice(r) = None, "INVALID_ARGUMENT")
NoConversation(r) == Reject(r.conv = None, "CONVERSATION_NOT_FOUND")
NoMessage(r) == Reject(~r.message, "INVALID_TARGET_DEVICE")

SendMessage(c, r) ==
  /\ Arrives(c, r, "SendMessage")
  /\ CheckedBegin(c, r, FirstError(<< NoDevice(r), NoConversation(r) >>), "submit")

(* The conversation is parsed after the device was looked up; without a    *)
(* device the name device-default stands for it.                           *)
GetMessages(c, r) ==
  /\ Arrives(c, r, "GetMessages")
  /\ CheckedBegin(c, r, OtherDevice(r), "device")

AcknowledgeDelivery(c, r) ==
  /\ Arrives(c, r, "AcknowledgeDelivery")
  /\ CheckedBegin(c, r, FirstError(<< NoMessage(r), OtherDevice(r), NoDevice(r) >>), "device")

SendReadReceipt(c, r) ==
  /\ Arrives(c, r, "SendReadReceipt")
  /\ CheckedBegin(c, r,
       FirstError(<< NoMessage(r), NoConversation(r), OtherDevice(r), NoDevice(r) >>), "device")

SyncDeviceMessages(c, r) ==
  /\ Arrives(c, r, "SyncDeviceMessages")
  /\ CheckedBegin(c, r, FirstError(<< OtherDevice(r), NoDevice(r) >>), "device")

(* The cursor RPCs look neither at the caller nor at the device's status.  *)
UncheckedBegin(c, r, check) ==
  LET error == FirstError(<< CheckDeadline(r), NoDevice(r), check >>)
  IN /\ Begin(c, r, error, [Unused EXCEPT !.pc = "submit", !.conv = r.conv])
     /\ UNCHANGED <<tables, serviceVars>>

GetSyncCursor(c, r) ==
  /\ Arrives(c, r, "GetSyncCursor")
  /\ UncheckedBegin(c, r, "OK")

UpdateSyncCursor(c, r) ==
  /\ Arrives(c, r, "UpdateSyncCursor")
  /\ UncheckedBegin(c, r, FirstError(<< NoConversation(r),
                                       Reject(r.seq < 0, "CURSOR_OUT_OF_BOUNDS") >>))

(* GetMessageDeliveryStatus runs in the handler: it reads the caller's     *)
(* membership and the delivery states, which may be missing.               *)
GetMessageDeliveryStatus(c, r) == \E known \in BOOLEAN :
  LET error == FirstError(<< CheckDeadline(r), ValidateCaller(r),
                             NoMessage(r), NoConversation(r),
                             Reject(r.conv = None \/ r.user = None \/ ~IsActive(r.conv, r.user),
                                    "NOT_A_PARTICIPANT"),
                             Reject(~known, "INVALID_TARGET_DEVICE") >>)
  IN /\ Arrives(c, r, "GetMessageDeliveryStatus")
     /\ Begin(c, r, error, Replied(Unused, "OK"))
     /\ UNCHANGED <<tables, serviceVars>>

-----------------------------------------------------------------------------
(* The task is offered to the pool; the synchronisation handlers parse     *)
(* conversation and position only now.                                     *)
Submit(c) ==
  LET r == call[c].req
      p == PoolOf(r)
      error == FirstError(<<
        Reject(r.rpc \in SyncRpcs /\ r.conv = None, "CONVERSATION_NOT_FOUND"),
        Reject(r.rpc = "SyncDeviceMessages" /\ r.seq < 0, "CURSOR_OUT_OF_BOUNDS"),
        Reject(Len(queue[p]) >= QueueCapacity, "QUEUE_CAPACITY_EXCEEDED") >>)
  IN /\ call[c].pc = "submit"
     /\ queue' = IF error = "OK" THEN [queue EXCEPT ![p] = Append(@, c)] ELSE queue
     /\ Goes(c, IF error = "OK" THEN [call[c] EXCEPT !.pc = "wait", !.task = "queued"]
                ELSE Replied(call[c], error))
     /\ UNCHANGED <<load, clock, faults, phase, tables, limits, overrides>>

(* The handler is done waiting: the result is there ... *)
Answer(c) ==
  /\ call[c].pc = "wait" /\ call[c].task = "finished"
  /\ Goes(c, Replied(call[c], call[c].res))
  /\ UNCHANGED <<load, clock, faults, phase, tables, serviceVars>>

(* ... or the deadline has passed. *)
DeadlineExceeded(c) ==
  /\ call[c].pc = "wait" /\ call[c].task # "finished"
  /\ call[c].req.deadline <= clock
  /\ Goes(c, Replied(call[c], "DEADLINE_EXCEEDED"))
  /\ UNCHANGED <<load, clock, faults, phase, tables, serviceVars>>

-----------------------------------------------------------------------------
(* BoundedWorkerPool. *)
Running(p) == {c \in Calls : /\ call[c].task \notin {"none", "queued", "finished"}
                             /\ PoolOf(call[c].req) = p}

StartTask(p) ==
  /\ queue[p] # <<>> /\ Cardinality(Running(p)) < PoolWorkers
  /\ queue' = [queue EXCEPT ![p] = Tail(@)]
  /\ Goes(Head(queue[p]), [call[Head(queue[p])] EXCEPT !.task = "start"])
  /\ UNCHANGED <<load, clock, faults, phase, tables, limits, overrides>>

(* acknowledge_delivery and record_read_receipt, by their result. *)
DeliveryTask(c) == \E res \in {"OK", "INVALID_TARGET_DEVICE"} :
  /\ call[c].task = "start" /\ PoolOf(call[c].req) = "delivery"
  /\ Goes(c, Finished(call[c], res))
  /\ UNCHANGED <<load, clock, faults, phase, tables, serviceVars>>

-----------------------------------------------------------------------------
(* check_and_record_presence_rate_limit: the times that left the window    *)
(* are popped off the front.                                               *)
Expired(u, i) == clock - limits[u][i] > PresenceWindow
Recent(u) ==
  LET n == Len(limits[u])
      popped == CHOOSE j \in 0..n : /\ \A i \in 1..j : Expired(u, i)
                                    /\ j < n => ~Expired(u, j + 1)
  IN SubSeq(limits[u], popped + 1, n)

(* UpdatePresence up to the rate limit. *)
UpdatePresence(c, r) ==
  LET full == r.user # None /\ Len(Recent(r.user)) >= PresenceLimit
      error == FirstError(<< Reject(r.user = None, "UNSPECIFIED"),
                             Reject(full, "QUEUE_CAPACITY_EXCEEDED") >>)
  IN /\ Arrives(c, r, "UpdatePresence")
     /\ Begin(c, r, error, [Unused EXCEPT !.pc = "override", !.at = clock])
     /\ limits' = IF r.user = None THEN limits
                  ELSE [limits EXCEPT ![r.user] =
                          IF full THEN Recent(r.user) ELSE Append(Recent(r.user), clock)]
     /\ UNCHANGED <<tables, queue, overrides>>

(* The override is set, or cleared by a plain Online. *)
SetOverride(c) ==
  LET r == call[c].req
  IN /\ call[c].pc = "override"
     /\ overrides' = [overrides EXCEPT ![r.user] =
                        IF r.status \in {"Unspecified", "Online"} THEN None ELSE r.status]
     /\ Goes(c, Replied(call[c], "OK"))
     /\ UNCHANGED <<load, clock, faults, phase, tables, queue, limits>>

(* evaluate_user_presence: what is shown of a user. *)
PresenceOf(u) ==
  [user |-> u, status |-> IF u \notin Connected THEN "Offline"
                          ELSE IF overrides[u] = None THEN "Online" ELSE overrides[u]]

(* GetPresence of one user and BatchGetPresence of several. *)
GetPresence(c, r) ==
  /\ Arrives(c, r, "GetPresence")
  /\ Begin(c, r, FirstError(<< Reject(r.user = None, "UNSPECIFIED"),
                               Reject(r.people = {}, "UNSPECIFIED") >>),
           [Unused EXCEPT !.pc = "presence", !.users = r.people])
  /\ UNCHANGED <<tables, serviceVars>>

(* One user after the other: someone the caller shares no conversation     *)
(* with is shown as offline.                                               *)
ShowPresence(c) ==
  LET u == CHOOSE v \in call[c].users : TRUE
      r == call[c].req
      next == [call[c] EXCEPT !.users = @ \ {u},
                 !.shown = IF SharesMutual(r.user, u) THEN @ \cup {PresenceOf(u)} ELSE @]
  IN /\ call[c].pc = "presence"
     /\ Goes(c, IF call[c].users = {u} THEN Replied(next, "OK") ELSE next)
     /\ UNCHANGED <<load, clock, faults, phase, tables, serviceVars>>

-----------------------------------------------------------------------------
(* The shutdown of main(): the gRPC server lets its handlers return, then  *)
(* the pools are drained one after the other.                              *)
Handling == {c \in Calls : call[c].pc \notin {"idle", "done"}}

StopRequested ==
  /\ phase = "serving" /\ phase' = "stopping"
  /\ load.stops \/ \A c \in Calls : ~InFlight(c)
  /\ UNCHANGED <<load, call, clock, faults, tables, serviceVars>>

ServerShutdown ==
  /\ phase = "stopping" /\ Handling = {} /\ phase' = "submission"
  /\ UNCHANGED <<load, call, clock, faults, tables, serviceVars>>

(* drain_and_stop waits for an empty queue and idle workers. *)
Drained(p) == queue[p] = <<>> /\ Running(p) = {}

DrainAndStop ==
  /\ phase \in Pools /\ Drained(phase)
  /\ phase' = CASE phase = "submission" -> "delivery"
                [] phase = "delivery" -> "sync"
                [] phase = "sync" -> "exited"
  /\ UNCHANGED <<load, call, clock, faults, tables, serviceVars>>

(* The process has ended. *)
Exited == phase = "exited" /\ UNCHANGED vars

-----------------------------------------------------------------------------
Alive == phase # "exited"

Next ==
  \/ \E c \in Calls, r \in load.requests :
       \/ ConversationRequest(c, r) /\ UNCHANGED <<dirVars, taskVars, serviceVars>>
       \/ SendMessage(c, r) \/ GetMessages(c, r) \/ SyncDeviceMessages(c, r)
       \/ AcknowledgeDelivery(c, r) \/ SendReadReceipt(c, r)
       \/ GetMessageDeliveryStatus(c, r)
       \/ GetSyncCursor(c, r) \/ UpdateSyncCursor(c, r)
       \/ UpdatePresence(c, r) \/ GetPresence(c, r)
  \/ \E c \in Calls :
       /\ Alive
       /\ \/ ConversationStep(c) /\ UNCHANGED <<dirVars, taskVars, serviceVars>>
          \/ DirectoryStep(c) /\ UNCHANGED <<taskVars, serviceVars>>
          \/ TaskStep(c) /\ UNCHANGED serviceVars
          \/ Submit(c) \/ Answer(c) \/ DeadlineExceeded(c) \/ DeliveryTask(c)
          \/ SetOverride(c) \/ ShowPresence(c)
  \/ \E p \in Pools : Alive /\ StartTask(p)
  \/ \E d \in Devices : DeviceChanges(d) /\ UNCHANGED <<taskVars, serviceVars>>
  \/ MonthTurns /\ UNCHANGED serviceVars
  \/ Tick /\ UNCHANGED <<tables, serviceVars>>
  \/ StopRequested \/ ServerShutdown \/ DrainAndStop \/ Exited

Spec == Init /\ [][Next]_vars

-----------------------------------------------------------------------------
(* The state keeps its shape: calls, tables, directory, queues.            *)
TypeOK ==
  /\ \A c \in Calls :
       /\ call[c].pc \in {"idle", "find", "write", "device", "submit", "wait",
                         "override", "presence", "done"}
       /\ call[c].task \in {"none", "queued", "start", "members", "resolve", "targets",
                           "save", "cursor", "previous", "current", "finished"}
       /\ (call[c].pc = "idle") <=> (call[c].req = None)
       /\ (call[c].answer = "none") <=> (call[c].pc # "done")
  /\ clock \in 0..MaxClock /\ faults \in 0..MaxFaults
  /\ lastConv \in 1..MaxConversations
  /\ direct \in [Pairs -> Convs \cup {None}]
  /\ meta \in [Convs -> {None, "Active", "Closed"}]
  /\ part \in [Convs -> [Users -> {None} \cup Members]]
  /\ Len(cache) <= CacheCapacity
  /\ \A p \in Pools : Len(queue[p]) <= QueueCapacity
  /\ stripes \subseteq Devices \X Convs
  /\ month \in 1..MaxMonth

Changing == {"CreateGroup", "AddParticipant", "RemoveParticipant",
             "LeaveConversation", "UpdateConversationMetadata"}

(* Two changes of conversation k were under way at the same time. *)
Raced(k) == \E c, d \in Calls :
  /\ d \in call[c].rivals
  /\ \A x \in {c, d} : call[x].conv = k /\ call[x].req.rpc \in Changing

(* A group somebody is in has an admin and is open, as long as its changes *)
(* come one after the other and whichever of their writes failed: the      *)
(* check of can_leave_conversation before the last admin goes and the      *)
(* closing in leave_conversation see everything earlier changes did.       *)
(* (Changes that overlap may leave a group without an admin, or open a     *)
(* closed one again.)                                                      *)
GroupInOrder ==
  \A k \in Convs :
    Type(k) = "Group" /\ ~Raced(k) /\ ListActive(k) # {}
      => ~IsClosed(k) /\ \E u \in ListActive(k) : IsAdmin(k, u)

Creates(c, pair) ==
  call[c].pc # "idle" /\ call[c].req.rpc = "CreateDirect"
  /\ {call[c].req.user, call[c].req.target} = pair

(* However the two users of a pair ask for their direct conversation, from *)
(* either side, one after the other, they get the same one, and once no    *)
(* call is under way and no write failed both are in it.  (Overlapping     *)
(* requests may create two: the insert of the pair has no condition.)      *)
OneDirect ==
  \A c, d \in Calls :
    LET pair == {call[c].req.user, call[c].req.target}
        peers == {e \in Calls : Creates(e, pair)}
    IN /\ call[c].answer = "OK" /\ call[d].answer = "OK"
       /\ call[c].req.rpc = "CreateDirect" /\ Creates(d, pair)
       => /\ (\A e \in peers : call[e].rivals \cap peers = {})
               => call[c].conv = call[d].conv
          /\ faults = 0 /\ (\A e \in Calls : ~InFlight(e))
               => pair \subseteq ListActive(call[c].conv)

(* The conversations are in order: the tables have their shape, groups     *)
(* have an admin, and a pair of users has one direct conversation.         *)
ConversationsInOrder == TypeOK /\ GroupInOrder /\ OneDirect

(* A step that shows the presence of another user finds that user an       *)
(* active member, at that moment, of a conversation the caller is or was a *)
(* member of: who is removed is shielded at once, whatever calls overlap.  *)
(* (The comment in get_presence asks for a conversation active for both;   *)
(* the index rows of the caller stay Active after a removal, so only the   *)
(* target's half is checked against the members.)                          *)
ShownIsMutual ==
  \A c \in Calls :
    call'[c].pc # "idle" /\ call'[c].req.rpc = "GetPresence" =>
      \A s \in call'[c].shown \ call[c].shown :
        \/ s.user = call[c].req.user
        \/ \E k \in Convs : IsActive(k, s.user) /\ part[k][call[c].req.user] # None

(* In no window of a minute does a user change the presence more often     *)
(* than the limit, however the updates are spread over it.                 *)
RateBounded ==
  \A u \in Users, t \in 0..MaxClock :
    Cardinality({c \in Calls : /\ call[c].pc \in {"override", "done"}
                               /\ call[c].req.rpc = "UpdatePresence"
                               /\ call[c].req.user = u
                               /\ call[c].answer \in {"none", "OK"}
                               /\ call[c].at \in t..(t + PresenceWindow)}) <= PresenceLimit

(* Presence is guarded: shown of users who share a conversation with the   *)
(* caller when it is shown, and changed no more often than the limit.      *)
PresenceGuarded == []RateBounded /\ [][ShownIsMutual]_vars

Sent1(c) == call[c].task = "finished" /\ call[c].req.rpc = "SendMessage" /\ call[c].res = "OK"

(* An accepted message is addressed to no device that had been revoked for *)
(* longer than a cached answer lives, and leaves out no device that had    *)
(* been active that long: cache and answers under way make the directory   *)
(* stale, but not by more than cache_ttl and the timeout of the call.      *)
TargetsCurrent ==
  \A c \in Calls : Sent1(c) =>
    \A u \in DOMAIN call[c].dir : \A d \in {e \in Devices : Owner[e] = u} :
      since[d] < call[c].dir[u].at - Ttl - RpcTimeout =>
        /\ status[d] = "Revoked" => d \notin call[c].req.targets
        /\ status[d] = "Active" /\ d # SenderDevice(call[c].req)
             => d \in call[c].req.targets

(* What a call was answered OK for is in the tables: the message that was  *)
(* sent, and a cursor no later update has taken back, although the table   *)
(* itself accepts any position.                                            *)
AckedIsStored ==
  \A c \in Calls : call[c].answer = "OK" =>
    /\ call[c].req.rpc = "SendMessage" =>
         [conv |-> call[c].req.conv, month |-> call[c].month, seq |-> call[c].seq] \in stored
    /\ call[c].req.rpc = "UpdateSyncCursor" =>
         cursor[EffectiveDevice(call[c].req)][call[c].req.conv] >= call[c].req.seq

(* The numbers of conversation k are of one month only. *)
OneMonth(k) ==
  \A m, n \in 1..MaxMonth : m # n => Peek(k, m) = 0 \/ Peek(k, n) = 0

(* A page that says there is no more leaves nothing out: every message     *)
(* that was stored when the request arrived and comes after its position   *)
(* is on it.  This needs numbers of one month, that month to be the        *)
(* present or the previous one, and no gap of unused numbers as wide as    *)
(* the range that is asked for.                                            *)
CompletePage ==
  \A c \in Calls :
    LET due == {s \in call[c].before : s.seq > call[c].seq}
        b == Batch(call[c].req)
    IN /\ call[c].task = "finished" /\ call[c].req.rpc \in SyncRpcs
       /\ call[c].res = "OK" /\ ~call[c].more
       /\ OneMonth(call[c].req.conv) /\ (\A s \in due : s.month >= month - 1)
       /\ \E s \in due : s.seq <= call[c].seq + b + 1
       => due \subseteq call[c].page

(* When the process exits nothing is left half done: no task waits in a    *)
(* queue or is in the middle of its writes, also of calls whose handler    *)
(* gave up at the deadline long before.                                    *)
DrainComplete ==
  phase = "exited" => \A c \in Calls : ~InFlight(c)

(* Nothing that was accepted is lost: neither what was acknowledged nor,   *)
(* at the end of the process, what is still being done.                    *)
NothingLost == AckedIsStored /\ DrainComplete
=============================================================================
