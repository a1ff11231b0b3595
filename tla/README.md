# A TLA+ verification project for SecureCloud

SecureCloud is an end-to-end encrypted messaging and file platform written in
C++20: a gateway, an authentication service, a messaging service, a file
service, an audit service and a desktop client. This directory holds TLA+
models of the parts of it whose correctness depends on the order of events, the
TLC configurations that check them on small instances, and theorems about them
with proofs checked by TLAPS.

`PROJECT.json` is the index: the components, the runs, the source lines every
definition models, the mutants, the findings, the hazards and the theorems.
Paths below are those of `PROJECT.json`, with the repository under `src/`.

Contents: [1 Inventory](#1-inventory), [2 The models](#2-the-models),
[3 The runs](#3-the-runs), [4 The proofs](#4-the-proofs),
[5 Findings](#5-findings), [6 Not modelled](#6-not-modelled),
[7 Plan](#7-plan).

## 1 Inventory

### 1.1 The services and how they interact

    desktop client --TLS--> gateway --gRPC--> auth      (PostgreSQL)
                                    --gRPC--> messaging (ScyllaDB)
                                    --gRPC--> files     (PostgreSQL, MinIO)
    all services --events--> audit (ClickHouse)

The gateway keeps no durable state; it authenticates, routes and protects the
services behind it with circuit breakers and bulkheads. Messaging keeps every
fact in ScyllaDB tables that are written one statement after the other, with no
transaction between them, and keeps caches, queues and locks in memory. Files
uses PostgreSQL transactions and an object store, which no transaction covers.
Audit takes events into bounded queues and writes them in batches.

### 1.2 Components

| Component | State | Operations | What makes it correct |
|---|---|---|---|
| Message submission (`messaging/service/message_submission_service.cpp`) | 64 striped mutexes; rows of five tables | `submit_message` | an answer is durable and repeatable; a key is bound to one payload; the stripe is given back |
| Idempotency guard (`idempotency_guard.cpp`) | one record per (device, token): PROCESSING, COMMITTED, FAILED | evaluate, `mark_*` | replays repeat the first answer; conflicts are refused |
| Sequence allocator (`conversation_sequence_allocator.cpp`) | a counter per conversation and month, in memory | `allocate_sequence` | no number is used twice |
| Delivery scheduler (`messaging/delivery/bounded_delivery_scheduler.cpp`) | emergency queue, a queue per device, ring, active set, counter | schedule, dequeue, drain, purge, clear, shutdown | bounded, first in first out per device, fair between devices, no lost wakeup |
| Delivery worker (`delivery_worker.cpp`) | threads | one loop: dequeue, send, record | a delivery is recorded only when it happened |
| Outbox delivery consumer (`outbox_delivery_consumer.cpp`) | events of the outbox | `poll_and_dispatch` | an event leads to a task |
| Recovery service (`durable_delivery_recovery_service.cpp`) | pending rows | purge, sweep, recover, `run_recovery_cycle` | nothing stays behind |
| Realtime accelerator (`realtime_delivery_accelerator.cpp`) | none | `on_device_connected` | a reconnect brings what is pending |
| Acknowledgements and receipts (`delivery_service.cpp`, `read_receipt_service.cpp`) | two rows per message and device, outbox | `acknowledge_delivery`, `record_read_receipt` | states do not regress; events follow the tables |
| Connection registry and lifecycle (`device_connection_registry.cpp`, `connection_lifecycle_manager.cpp`) | channel and session per device, leases | register, terminate, heartbeat, reap | one channel per device, the newest |
| Presence coordinator (`presence_coordinator.cpp`) | an entry per device, a set of devices per user, status overrides | connected, disconnected, heartbeat, override | presence follows the connections |
| Message sync and cursors (`message_sync_service.cpp`, `sync_cursor_manager.cpp`) | a cursor per device and conversation | sync, get, advance | a page that says it is the last leaves nothing out; a cursor does not go back |
| Conversations and membership (`conversation_service.cpp`, `conversation_authorization_service.cpp`) | conversation, pair, member and per-user rows | create, add, remove, leave, rename, authorise | one direct conversation per pair; a group has an admin |
| Recipient resolution (`recipient_device_resolution_service.cpp`) | a cache of device lists | resolve, invalidate | messages are addressed to the current devices |
| Messaging gRPC front and pools (`messaging_service_impl.cpp`, `bounded_worker_pool.cpp`) | three pools with queues | 17 RPCs, drain | what is accepted is finished |
| Gateway (`gateway/http/`, `gateway/grpc/`) | drain counter, connections, token cache, buckets, breakers, bulkheads, active calls | the middleware pipeline, 44 proxy handlers, shutdown | every count is exact; commands are sent once; deadlines are kept |
| Auth sessions and tokens (`auth/service/session_manager.cpp`, `token_manager.cpp`) | sessions, refresh tokens | login, validate, refresh, revoke, expire | one usable token per session; what has ended stays ended |
| Auth devices, prekeys, MFA (`device_manager.cpp`, `prekey_manager.cpp`, `mfa_manager.cpp`) | devices, keys, pairing and MFA challenges | enrol, pair, authorise, revoke, rotate, claim, verify | a prekey is handed out once; a second factor is earned |
| Files transfers and finalisation (`files/service/`) | rows in five tables, staged and assembled objects, bulkheads | create, chunk, finalise, cancel, delete, expire, download | a version is what was accepted, assembled once |
| Files outbox relay (`files/audit/files_outbox_relay.cpp`) | outbox rows | fetch, submit, mark | published means audited |
| Audit ingestion (`audit/ingestion/`, `audit_ingestion_service.cpp`) | dedup cache with reservations; queues, aggregator, insert pool | submit, batch, stop | an acknowledged event is stored; every envelope is answered once |
| Audit queries (`audit/query/`, `audit/repository/`) | page cursors, bulkhead | query, look up | a walk neither repeats nor leaves out |
| Desktop client (`client/ui/`, `client/application/`) | view model and local store, views and history | login, navigate, contacts, send, devices, wipe | nothing goes to a peer that is blocked or whose key changed |
| Auth cryptography, common library | - | - | not about order; section 6 |

### 1.3 What is hard here

`PROJECT.json` has every hazard with its line. In short:

* several writers of one row with unconditional writes: the worker, the
  acknowledgement, the read receipt and recovery all write the delivery state,
  under different locks or none;
* several statements without a transaction, and a write timeout that does not
  say whether the statement was applied;
* a crash between any two statements, with queue, counters, stripes and
  connections in memory only. The worker and the recovery thread have no
  exception handler around their loops, so one failing statement is a crash;
* state read once and acted upon later (a recovery pass, the fan-out check of an
  acknowledgement, the cold start of a sequence counter, the user of a heartbeat);
* three structures about one device, with a mutex each and a stripe around them
  that heartbeats and the reaper do not take;
* buckets named after the current month, read and written at different times;
* a hand-written round robin whose ring, set, queues and counter must agree, and
  a condition variable notified with `notify_one`;
* limits: capacity of the scheduler, LIMIT of a fetch, attempts, delivery window;
* calls of several transactions (auth) or of statements on private copies that a
  commit writes back without looking again (the table store of files), beside an
  object store that no transaction covers;
* answers that outlive what they were made from: cached sessions and device
  lists, calls that return after their caller's deadline, breaker outcomes of an
  earlier era;
* shutdown while work is in every stage (gateway drain, messaging pools, audit
  pipeline);
* two copies of contact state in the client that must rule out the same peers.

## 2 The models

| Module | Models | Used by |
|---|---|---|
| `MessageSubmission` | submission, idempotency guard, sequence allocator and the five tables | `MCMessageSubmission`, `MessagingRuntimeProofs` |
| `DeliveryLanes` | abstract: what a delivery queue promises | `DeliveryScheduler` (implements it), `MessageDelivery` (uses it as its queue) |
| `DeliveryScheduler` | `BoundedDeliveryScheduler` with its worker threads | `MCDeliveryScheduler`, `MessagingRuntimeProofs` |
| `MessagingDevices`, `MessagingThreads` | the devices and threads, parameters that the parts share | `DeliveryScheduler`, `ConnectionLifecycle`, `MessageSubmission` |
| `Subsequences` | what is left of a queue, and the places in a family of queues, without recursion | `DeliveryLanes`, `DeliveryScheduler` |
| `MessageDelivery` | worker, outbox consumer, recovery, accelerator, acknowledgement, receipt, and the tables they share | `MCMessageDelivery`, `MessageDeliveryProofs` |
| `ConnectionLifecycle` | connection registry, lifecycle manager and presence coordinator | `MCConnectionLifecycle`, `MessagingRuntimeProofs` |
| `MessagingCalls`, `Conversations`, `DeviceDirectory`, `MessagingTasks`, `MessagingService` | the gRPC front of messaging: what handlers share; conversations and membership; recipient devices; the tasks of the pools; handlers, pools and shutdown. Each extends the one before | `MCMessaging`, `MessagingProofs`, `ConversationProofs` |
| `AuthDevices`, `AuthSessions` | devices, keys and pairing; sessions, tokens, MFA and revocation over the same threads | `MCAuth`, `AuthProofs` |
| `FilesStore`, `FilesService` | tables and objects of the files service; its calls and the relay | `MCFiles`, `FilesProofs` |
| `GatewayRoutes`, `Gateway` | the handlers as data; the pipeline, resilience and shutdown | `MCGateway`, `GatewayProofs` |
| `AuditStore`, `AuditIngestion`, `AuditPipeline`, `AuditQuery`, `AuditServer` | the event table; calls with the dedup cache; the pipeline; queries; their composition | `MCAudit`, `AuditProofs` |
| `ClientSession`, `ClientWorkspace` | lifecycle, navigation and login; the workspace with its local store | `MCClient` |

They compose along what they promise. `MessageDelivery!Accept` is what
`MessageSubmission` leaves behind when a submission is committed
(`AcceptedIsDurable`). The queue of `MessageDelivery` is an instance of
`DeliveryLanes`, which `DeliveryScheduler` is shown to implement
(`ImplementsLanes`). Its `online[d]` is whether `ConnectionLifecycle` has a live
channel for the device, and its `Connect` is the callback that ends
`establish_connection`.

In every module, definitions with names that say what is wrong with them
(`AcquireStripeUnguarded`, `DrainMiscounts`, ...) are *mutants*: forms of the
definition that follows them with a plausible bug. No specification uses them.
`PROJECT.json` says which property each of them breaks, which shows that the
property depends on the code it is about.

### 2.1 MessageSubmission

One action is one repository call. Every call on the database has three
outcomes: it returns, it throws and was not applied, it throws and was applied
(`Outcomes`). A thread is a program counter `pc[t]` with the locals of
`submit_message`; the order of phases is the order of the code:

    lock -> evaluate -> claim -> allocate -> message -> pending -> recipients
         -> outbox -> commit -> (answer)            any throw after claim -> fail

| Code | Definition |
|---|---|
| entry and validation | `Submit` |
| `submission_stripes_[...]` lock and unlock | `AcquireStripe`, `Return` |
| `IdempotencyGuard::evaluate_submission` | `EvaluateSubmission`, `EvaluateThrows` |
| the wait loop over a PROCESSING record | `RetryWait`, `RetryWaitExhausted` |
| the early returns | `ReturnCached`, `RejectConflict` |
| `mark_processing`, `mark_committed`, `mark_failed` | `MarkProcessing`, `MarkCommitted`, `MarkFailed` |
| `allocate_sequence` with its cold start | `AllocateSequence`, `AllocateThrows`, `LastSequence` |
| the saves | `SaveMessage`, `SavePendingDelivery`, `SaveRecipientState`, `EnqueueOutboxEvent` |
| process crash, clock | `Crash`, `NextMonth` |

Abstractions. A command is a key, a conversation, a fingerprint and its target
devices; equal fingerprints mean equal payloads (`CommandsAssumption`). The
loops over targets go through them in any order. Message ids are numbered in
order of generation. A stored record has a fingerprint (the code accepts old rows
without one, `idempotency_guard.cpp:34`). `issued` and `answers` are history variables: the commands
message ids were made for, and the success answers sent.

### 2.2 DeliveryLanes and DeliveryScheduler

`DeliveryLanes` says what the rest of messaging relies on: an express lane and
one lane per device, each first in first out, each bounded, a total bound with
room reserved for express tasks, an express task taken before any other.

`DeliveryScheduler` has the containers of the code: `emergency`, `queues`,
`ring`, `active`, `total`, `consumed`, `shutdown`. A method runs under the mutex
and is one action. What is not atomic is waiting: a thread is outside, asleep in
`wait_for`, or notified and on its way back to the mutex, and another thread may
take the task first (`Sleep`, `TimeOut`, `Dequeue`, `NotifyOne`).
`bypassed[d]` is a history variable that counts the tasks of other devices handed
out since device `d` last had its turn. The number of queued tasks is the
cardinality of their places (`Places`), not a sum, and a purge keeps the positions
it does not remove (`Keep`): neither needs recursion, so both can be proved about.
A refused `schedule` changes nothing and
is a stuttering step. `DequeueNothing` is the path through `dequeue` on which
the ring yields no task; the code has it, and `RingConsistent` explains why it
is taken only on shutdown.

### 2.3 MessageDelivery

The state is in three parts: the tables (`pending`, `fanout`, `outbox`,
`events`), the memory of the process (`lanes`, `worker`, `scan`, `acker`,
`reader`) and the world (`online`, `received`, `aged`, `month`).

| Code | Definition |
|---|---|
| `DeliveryWorker::process_single_task` up to the send | `Dequeue`, `DeviceOffline`, `MarkDelivering` |
| `send_envelope` and its four results | `EnvelopeArrives`, `SendSuccess`, `SendRecipientOffline`, `SendTransientFailure`, `SendTerminalFailure` |
| the three writes of the success branch | `WorkerRecordsAck`, `WorkerSettlesPending`, `WorkerAnnounces` |
| `OutboxDeliveryConsumer::poll_and_dispatch` | `PollAndDispatch` |
| recovery: purge, sweep, recover | `StartRecoveryCycle`, `ScanRow`, `EndPhase`, `Verdict` |
| `on_device_connected` | `Connect`, then the same passes |
| `acknowledge_delivery` | `AckStart`, `AckRecords`, `AckSettlesPending`, `AckAnnounces` |
| `record_read_receipt` | `ReadStart`, `ReadRecords`, `ReadAnnounces` |
| a throw in a handler | `CallFails`, `CallbackFails` |
| a throw in a thread loop, a crash | `Crash` |

Abstractions:

* `next_retry_at` is `due`: whether the time has come (`BackoffElapses`).
  `max_delivery_ttl` is `aged` (`DeliveryWindowCloses`).
* A pass of recovery reads its rows in one step and acts on them one by one, in
  any order, on what it read; this is the staleness that matters.
* One reconnect callback per device runs at a time. Recovery handles one device
  per cycle step; the code loops over the candidates with nothing in between.
* Writing RETRY_WAIT and handing the retry to the scheduler are one step.
* A device acknowledges and reads only what it holds. `DeviceSyncs` is the
  device fetching a message itself; how it does is in `MessagingTasks`.
* A message is for one device; the fan-out of a message to several devices gives
  rows that do not interact.
* Some messages may have been delivered before (`Earlier`): their rows are settled and
  stay in the table, where they count against the LIMIT of the fetches.
* A superseded channel may answer that the recipient is offline while the device is
  connected (`SendRecipientOffline` asks nothing of `online`). The bucket of an
  acknowledgement follows the device's `delivered_at`, so it is any month up to now.
* One poll of the outbox consumer, from the read of the state to
  `mark_event_published`, is one step, and so are the fetch and the update of an
  acknowledgement's pending row.
* `AttemptBound` caps the attempt counter; at the bound further attempts are not
  counted.

### 2.4 ConnectionLifecycle

Registry (`channels`, `userDevices`), sessions (`sessions`) and presence
(`states`, `members`) have a mutex each; one action is one critical section.
`establish_connection` and `terminate_connection` hold `stripe[d]` from the first
to the last of their steps, `record_heartbeat` and the reaper hold none.

| Code | Definition |
|---|---|
| `establish_connection` | `EstablishConnection`, `RegisterChannel` or `RegisterRefused`, `StoreSession`, `GoOnline` |
| `register_channel`: superseding, limits, index | `RegisterChannel`, `WithinCapacity`, `Listed` |
| `terminate_connection` | `TerminateConnection`, `UnregisterChannel` or `NothingToUnregister` |
| `on_registry_disconnect`, called on superseding and unregistering | `EraseSession`, `GoOffline` |
| the same, called by the reaper | `ReaperErases`, `ReaperGoesOffline` |
| `evict_stale_channels` under its lock | `SweepStaleConnections`, `Stale` |
| `record_heartbeat` | `RecordHeartbeat`, `TouchChannel`, `Beat` |
| `PresenceCoordinator::on_device_*` | `OnDeviceConnected`, `OnDeviceDisconnected`, `OnDeviceHeartbeat` |
| a broken connection, a lease that runs out | `ConnectionBreaks`, `LeaseRunsOut`, `PresenceRunsOut` |

Abstractions. There is a stripe for every device; devices that share one of the
64 only wait longer. A lease is a flag: renewed or run out. The limits are
positive (0 switches a limit off in the code). Devices are evicted together and
their listeners called one by one in any order. Connection ids are numbers in
order of establishment. `evicted` is a history variable. The specification is
`LifecycleSpec`, with `LifecycleInit` and `LifecycleNext`: one module proves about
this one and the scheduler. Metrics, user-selected
status overrides and last-seen times are left out.

### 2.5 MessagingService and the modules below it

A call is a record: its request, how far its handler is (`pc`), how far its task
is (`task`), and what both have read so far. `MessagingCalls` has the checks every
handler begins with and the mapping of errors to status codes.

| Code | Definition |
|---|---|
| conversation RPCs and `ConversationService` | `CreateDirect`, `CreateGroup`, `AddParticipant`, `RemoveParticipant`, `LeaveConversation`, `UpdateConversationMetadata`, then their `...Row` read, then one write per step (`SaveConversation`, `SaveParticipant`, `TouchUserConversation`, `RecordOutboxEvent`, ...) |
| `ConversationAuthorizationService::can_*` | `CanView`, `CanSend`, `CanAdd`, `CanLeave`, `CanRemove`, `CanUpdate`, `SharesMutual` |
| `resolve_user_devices` with cache and remote call | `CacheHit`, `AskDirectory`, `DirectoryReads`, `DirectoryAnswers`, `DirectoryFails` |
| `submit_message` as far as admission | `SubmitAuthorise`, `SubmitMembers`, `SubmitAllocate`, `SubmitSave` |
| `sync_messages` | `SyncAuthorise`, `SyncCursor`, `SyncPrevious`, `SyncCurrent` |
| `SyncCursorManager` | `GetCursor`, `UpdateCursorCheck`, `UpdateCursorSave` |
| `BoundedWorkerPool` | `Submit`, `StartTask`, `Drained`, `DrainAndStop` |
| a handler waiting for its task | `Answer`, `DeadlineExceeded` |
| presence RPCs | `UpdatePresence`, `SetOverride`, `GetPresence`, `ShowPresence` |

What follows the admission of a message is `MessageSubmission`, acknowledgements
and receipts are `MessageDelivery`; here they are a task that ends
(`DeliveryTask`). The wiring is that of the repository's tests: `main` constructs
the service without its collaborators.

Abstractions. `SharesMutual` reads the caller's index and the target's rows in one step
and has no page limit of 100; `SyncCursor` reads cursor and ceiling in one step and has
no storage error. `GetPresence` stands for the single and the batch call; it refuses an
empty list, which `BatchGetPresence` answers with an empty one, and has no limit of 100.

### 2.6 AuthSessions and AuthDevices

One account with its devices. A call is the sequence of its database
transactions; between any two the other calls go on, and each may fail
(`CallThrows`). `Restart` loses what is in memory: calls, MFA attempts, used
codes, pairing codes. Enrolment is `RegisterDevice` ... `EnrolmentEnds`; pairing
`InitiateDevicePairing`, `IssueChallenge`, `AuthorizeByCode`, `AuthorizeByStepUp`;
prekeys `UpdateCryptoPrekeys` ... `ReplenishOneTimePrekeys` and
`ClaimPrekeyBundle`, `DirectoryLooksUp`, `MarkPrekeyClaimed`; login
`Authenticate` ... `IssueInitialTokens`; refresh `RefreshSession` ...
`RotateTokenAtomic`, `RefreshStamps`, `HandleTokenReuse`; second factor
`VerifyMfaChallenge` ... `PromoteSession`; revocation `RevokeDevice` ...
`EvictChallenge`. Whether a password, code or signature is right is a choice. A
row lock is held between the steps of one transaction. Deadlines pass one at a
time (`TimePasses`). The removal of a pairing challenge from memory and the `UPDATE` of
its device are one step (`AuthorizeBySignature`), and the first tokens are issued without
the check that the session has expired, which only allows more.

### 2.7 FilesService and FilesStore

One file, which two calls of `CreateFileUpload` may create at once: `create_file` looks
for the row and inserts it, and neither the insert nor the commit looks again
(`file_lifecycle_service.cpp:53`, `pqxx_compat.hpp:326`, `:532`). Each gets a transfer
under an upload id of its own. The table store is the one the service is built with
(`pqxx_compat.hpp`): a transaction copies a whole row when it first updates it,
and its commit writes the copy back. The model has exactly this, with one
action per statement and per commit, and one per call of the object store, each
of which may fail. Chunks are `StoreChunkFinds` ... `CommitChunk`, finalisation
`FinalizeFindsTransfer` ... `CleanupStaging` under the session lock, and the relay
`FetchPendingEvents`, `SubmitBatch`, `MarkEvent`. A ciphertext is a value; a hash or a
checksum is the value it was computed from.

### 2.8 Gateway and GatewayRoutes

A handler differs from another in what it checks, when, and which objects it
uses, so `GatewayRoutes` gives each of the 44 handlers as a record of these facts,
and `Gateway` runs a record through the pipeline: drain gate (`Receive`,
`CountInFlight`, `Recheck`), resource limiter, authentication with its cache,
rate limiter, authorisation, router, bulkhead and breaker (`Admit`), attempts
(`Dispatch`, `CallReturns`, `BackoffEnds`), `Leave`, and the content provider of a
stream (`NextChunk`, `ChunkReturns`). `main` after the signal is `StartDrain`,
`DrainEnds`, `StopServer`, `JoinWorkers`. Time is a discrete clock. The drain flag and
counter are sequentially consistent in the model; the code uses acquire and
release on them. `retry_on_deadline_exceeded` has its default, off.

### 2.9 AuditServer and the modules below it

`AuditStore` is the table with inserts that succeed, fail, or are applied although
they time out, or later. `AuditIngestion` has the calls: a reservation or a match
in the cache, one insert, commit or rollback, and the waits of those that
coalesced. `AuditPipeline` has the three bounded queues with validators,
aggregator and inserters, and the shutdown from front to back. `AuditQuery` has
walks over pages with a keyset cursor and lookups by id; `ORDER BY` puts an event
behind as many as come before it (`InOrder`). `AuditServer` puts them
over one table and stops. It is checked in two deployments: with the cache, as
the tests wire it, and without, as the server does. While it drains, the aggregator
flushes when its queue is empty; the code may also do so on the timer, which makes
smaller batches.

### 2.10 ClientWorkspace and ClientSession

Everything runs on the thread of the user interface, so an action is a whole
handler. The state is what the view model shows (`entries`, messages, transfers,
devices, selection) and the local store behind the managers, which keeps contacts
and conversations a second time. The id of an added contact's conversation is made of the
user id without `@` and `.` (`ConvId`, `workspace_view_model.cpp:1221`), so two contacts,
or a contact and a group, may share one; `Slug` says which do. Counts of devices, the
priority of a message being written, prekey counters and the TOTP text on the profile
screen decide nothing and are left out.

## 3 The runs

### 3.1 Passing runs

| Run | Checks | Shows |
|---|---|---|
| `submission` | `AcceptedIsDurable`, `AnswerIsFinal`, `SequenceUnique`, `BindingNeverChanges`, `StripeReleased` | two threads of one process submit, replay and conflict under two keys while calls fail, the process crashes and the month changes; every path gives the stripe back |
| `scheduler` | `CountExact`, `RingConsistent`, `BypassBounded`, `NoLostWakeup`, `ImplementsLanes`, `TaskLeavesQueue` | bookkeeping, fairness between devices, wakeups, refinement of the lanes, and no queued task is stranded |
| `delivery` | `DeliveredWasReceived`, `DeliveredInBoth`, `AnnouncedIsDurable`, `Reaches` | two messages for one device, one perhaps delivered before, with retries, a full queue, acknowledgement and receipt, a crash, a lost connection or a month's end: the rows agree, and recovery alone brings a message it can see to the device or expires it |
| `connections` | `IndexExact`, `PresenceIndexed`, `SessionIsCurrent` | threads connect, supersede, close and renew two devices whose users change, beside the reaper |
| `messaging` | `ConversationsInOrder`, `PresenceGuarded`, `TargetsCurrent`, `NothingLost`, `CompletePage` | eleven workloads of up to three concurrent calls: creation, membership, presence also while a member is removed, messages with sync, cursors, devices that change, deadlines with shutdown, refusals |
| `auth` | `TablesConsistent`, `OneLiveToken`, `NoLateSuccess`, `SecondFactorIsEarned`, `EndedIsFinal` | two threads run any four calls, deadlines and restarts over an enrolled and a new device, with and without a second factor |
| `files` | `VersionsConsistent`, `EventsExact`, `AnsweredIsStored` | two threads run any five calls over one file with failing storage and expiry, four with the relay, and seven from two creations at once to two finalisations and a download |
| `gateway` | `Accounted`, `RetriesHonest`, `ActiveCallIsLive`, `NoStaleHit` | two concurrent requests over four kinds of route, and one request of every kind there is, with failures, cancellation, a revoked session and a shutdown at any time |
| `audit` | `Deduplicated`, `AckedIsStored`, `PipelineDrains`, `QueriesExact` | two calls, two envelopes and two readers over one table, two requests at a time, with a write that goes wrong and a stop at any time, in both deployments |
| `client` | `ClientGuarded` | five operations in any order, in four mixes of screens, with contacts whose conversations share an id with each other or with the group |

Several properties are conjunctions of named parts that belong to one question:
`TablesConsistent` is `TypeOK`, `HandedOutOnce` and `DirectoryComplete`, `Accounted` is
`TypeOK`, `CountersExact`, `DrainComplete` and `RateBounded`, and so on. The listed
mutant breaks one part; when the properties were written, every part was seen to
fail under a mutation of its own.

### 3.2 Bounds and why they are enough

* Submission: two threads, two keys, three commands. The first two commands
  share a key and differ in payload (conflict); the third has a key and a stripe
  of its own, so that two allocations overlap. `MaxMessages = 2` lets a key be used
  again after FAILED; `MaxBucket = 2` and `MaxCrashes = 1` let the counter start
  cold in a bucket that has rows. `RetryWaitLimit` stands for 20 rounds: what
  matters is that there is a last one. Commands have one target here; that the
  loops over several targets keep the properties is a theorem (section 4.1).
* Scheduler: three devices are the least with which the order of the ring is
  visible. The first device has more tasks than its queue takes, so it refills
  its queue during its turn; `Quanta = 2` separates the first from the last task
  of a turn. Two workers are the least with which one takes the task the other
  was notified of. Capacity 4 (+1 reserved) is below the number of tasks, so all
  refusals happen.
* Delivery: two messages are the least that meet in the queue and in the LIMIT of a
  fetch. The limit is two, so a settled row takes a place; lanes of one task make
  refusals happen; a second attempt is made from RETRY_WAIT and recovery takes up what
  failed twice; the month ends once. What happens around worker and recovery is drawn
  from one of five scopes (`McScopes`): retries with a crash, retries over a month's end,
  the outbox consumer, the device's calls, and what the device fetches itself with the
  delivery window closing and a lost connection. One worker runs here; that several,
  with duplicate tasks, keep the safety properties is a theorem (section 4.3).
* Connections: two threads and the reaper are the least with which a call, a
  late heartbeat and an eviction of one device overlap. Two devices and two users
  let a device change its user and make the limit per user
  (`MaxDevicesPerUser = 1`) refuse; three connections let a superseded one still
  have a close or a heartbeat under way. The global limit has the same code path
  as the limit per user and is not reached. Threads, users and devices are
  interchangeable, and no property names one, so their symmetry is used.
* Messaging: three calls at a time over a group of two, with a third user outside
  and a direct conversation to be made. Each workload names the requests it
  mixes and gets the clock ticks, faults, months and changing devices it is about;
  the properties hold of all of them, and a call of every RPC and each refusal
  occurs in one. Two messages are stored before the run, so a batch of two can be
  full. A pool has two threads and a queue of one. Three months are the least in
  which a message is older than the months that are read.
* Auth: two threads and `MaxCalls = 4` let two calls race over what two others
  left (log in twice, then refresh and revoke). One attempt locks a challenge. Key
  rows and tokens are as many as four calls can make.
* Files: one chunk with two possible contents, two uploads, two versions; two threads
  and three workloads (`McWorkloads`): five of all calls (create, chunk, and three that
  race), four beside the relay, and seven that take a file created twice up to two
  finalisations and a download. Threads, contents and uploads are interchangeable. Chunks
  do not interact except in the count, which section 5 is about.
* Gateway: two threads, two requests and one tick between arrivals make every
  pair of steps overlap on slots, breaker, counters and cache of size one. The auth
  bulkhead has two slots, so two calls of one proxy are live at once, under the one
  request id there is; the others have one, so a second request is refused. The
  second workload runs one request over all routes, contexts and timeouts.
* Audit: two of each actor, two requests in all, one fault, one tick; queues of
  one. Events share an id (with other contents), a time, or neither. Every actor
  of a kind is interchangeable, so their symmetry is used.
* Client: three peers and a group, five operations. Two peers share a conversation id,
  the third has that of the group. The four focuses are the sets
  of screens whose operations touch the same state.

### 3.3 Fairness

* Submission: a thread inside `submit_message` goes on (`WF` of its steps past
  the lock). The mutex need not be fair: waiting for it is not part of this.
* Scheduler: until shutdown, a worker that is not asleep comes back to `dequeue`
  (the loop of `worker_loop`). Nothing is assumed of the timer of `wait_for`, so
  the result does not rest on the poll interval.
* Delivery: worker and recovery threads run in loops (`WF`) and a backoff comes to its
  end. A device that is offline connects again, a cycle starts again, and an envelope
  that is sent over and over arrives some time (`SF`, for each message): without these
  nothing can be delivered. Nothing is assumed of what the channel answers, of the
  device's calls, the outbox consumer, what a device fetches by itself, or of time
  running out.

The other runs check safety and use no fairness.

Deadlock is checked in every run but three. In `auth`, `files` and `client` the
bound on calls ends every behaviour, and a service without a caller may rest. In
`gateway` and `audit` the only state without a step is the exited process, which
has a step of its own, so these runs also show that no shutdown hangs.

### 3.4 The runs that end in a violation

`submission_duplicate` and `at_least_once` state what the documentation says and show an
execution of the code that does not do it; see section 5.

## 4 The proofs

TLC covers the small instances above; the theorems hold for every value of the
constants that satisfies the assumptions named in the modules: the types of the
parameters, that threads, devices and readers are finite where the code counts
them, and the few conditions on sizes that are named below.

### 4.1 MessagingRuntimeProofs: submission

* `SubmissionTypes`: `SubmissionSpec => []SubmissionTypeOK`.
* `AnswersAreDurable`: `SubmissionSpec => []AcceptedIsDurable`. Not inductive by itself: a
  replay is answered from the record alone. The inductive invariant
  `DurabilityInv` adds `CommittedIsDurable` (what a COMMITTED record promises is
  stored) and `StoredBy(t)` (what thread `t` has stored by the phase it is in).
  `RowsKept`, that no step deletes a row, carries both over the other threads'
  steps. Holds for any number of instances.
* `AnswersAreFinal`, `BindingsAreKept`: assume `SingleInstance`, which is what
  the stripes need. The invariant `FinalInv` adds `StripeOwned` (a thread past
  the lock holds the stripe of its key), from which two threads past the lock
  have different keys, `ClaimedIsUnanswered` and `ClaimedIsBound` (a thread
  between claim and commit has the record of its key to itself).
* `SequencesAreUnique`: assumes `SingleInstance`. `SequenceInv` adds
  `CounterCovers` (a warm counter is not below any stored number of its bucket),
  `UnsavedIsFresh` and `UnsavedIsExclusive` (a number allocated and not yet
  stored is neither stored nor held by another thread). `SingleInstance` is
  needed: with two instances TLC finds the same number stored twice (section 5).

### 4.2 MessagingRuntimeProofs: the scheduler

* `RingIsConsistent`: `Spec => []RingConsistent`, inductive with the types of the
  containers (`RingInv`).
* `BypassIsBounded`: `Spec => []BypassBounded`. The bound is not inductive; `Budget`
  is: what a device in the ring has been bypassed, plus a quantum for every
  device ahead of it, less what the device at the front has used of its turn,
  fits in the bound.
* `CountIsExact`: `Spec => []CountExact`. `CountInv` joins `RingInv` and the
  finiteness of the places: a dequeue subtracts one because the ring only names
  devices that have a task, and a purge subtracts what it removed because the
  places it removes and the places it keeps are disjoint.
* `NoWakeupIsLost`: `Spec => []NoLostWakeup`, from `CountInv`. A sleeping worker is
  compensated by notified ones: every `schedule` that adds a task notifies a
  sleeper if there is one, and a worker that takes a task is not asleep.
* `SchedulerImplementsLanes`: `Spec => ImplementsLanes`. Under the mapping every
  step of the scheduler is a step of `DeliveryLanes` or a stutter (`LanesStep`).
  `CountInv` is needed for both kinds: the lanes have room when the counter says
  so, and a dequeue that finds nothing leaves every lane alone.

### 4.3 MessageDeliveryProofs

* `TypeCorrect`, `DeliveriesAreReceived`, `TablesAgree`, `EventsAreDurable`. One
  inductive invariant `DeliveryInv` for all: the properties themselves,
  `OnlyAccepted` (a task, a row that a pass holds, or a received message belongs
  to a message that was accepted, so `Accept` cannot overwrite anything) and
  `Witnessed` (a worker, acknowledgement or receipt past a write has that write's
  effect in the tables, whoever wrote in between). They hold for any messages, devices
  and workers, from any set of messages delivered before.

### 4.4 MessagingRuntimeProofs: connections

* `TypeCorrect`, `IndexIsExact`, `PresenceIsIndexed`, `SessionsAreCurrent`,
  `StripesAreEnough`, for any users, devices, threads, limits and number of
  connections. The inductive invariant `ConnectionInv` adds to the properties
  `CallsFit` and `PassFits` (a call in progress and the reaper's pass have the
  device and user they work on) and `HoldersFit`: a call between taking and
  releasing a stripe is the only holder of it (`HolderAlone`), finds its own
  channel or none (`HolderChannel`), its own session or none once it has stored
  one (`HolderSession`), and, as long as nothing was evicted, exactly what it
  left (`HolderUndisturbed`). `OthersLeftAlone` carries this over the steps of
  calls on other stripes; `SameChannels` over heartbeats and leases.

### 4.5 GatewayProofs

For any finite set of worker threads, any routes and any configuration:

* `CancelsLiveCalls`: `Spec => []ActiveCallIsLive`. `LiveCalls` adds that only
  guarded calls are registered, so a stream's chunk and its request do not share
  an entry.
* `RetriesAreHonest`: `Spec => []RetriesHonest`, from what each phase of a request
  knows of the attempts sent, the deadline and the time left.
* `CacheIsNeverStale`: `Spec => NoStaleHit`, an action property. `CacheFresh` is the
  invariant: what is in the cache, and what a validation that is still under way
  will put there, was sampled before the session was revoked.
* `CountsAreExact`: drain counter, connection counter and bulkheads are the
  cardinalities of the sets of threads that are inside, and a reported drain left
  nobody in the pipeline; the second look at the drain flag (`Recheck`) is what the
  step of `CountInFlight` needs.
* `AccountsAreKept`: `Spec => []Accounted`, with the rate limiter: what a client was
  granted and what is left in its bucket fit in the burst and the effective rate
  (`Earned`). A bucket idle for `ClientTtl` is filled up, so the rate a
  client can get is the refill or one burst per lifetime, whichever is more
  (`EffectiveRates`); `gateway_config.cpp:502` does not compare the three values, and
  neither does the theorem assume anything of them. It assumes `MaxTracked >= 2`: the model has two clients (`Keys`), and one that
  is evicted starts with a full burst (section 5), so the bound is about clients
  that the limiter can keep. The default of `max_tracked_clients` is 10000.

### 4.6 AuthProofs

One inductive invariant for any threads, devices, sessions and tokens. Its parts:
`Linked` (every token, challenge and call refers to rows that exist),
`FirstTokens`, `SecondFactor`, `LateCalls`, `Prekeys`, `Bundles`, and `Directory`,
`Paired`, `Memory` for the rest of the state.

* `TokensAreSingle`: `Spec => []OneLiveToken`. At most one call is `Entitled` to issue
  the first tokens of a session (the login that made it or the verification that
  completed its only challenge), and while there is one the session has none; a
  token is replaced only while it is the active one.
* `FactorsAreEarned`: `Spec => []SecondFactorIsEarned`. A verification past
  `complete` stands for a completed challenge.
* `LateCallsFail`: `Spec => []NoLateSuccess`. A late call is `Doomed`: it has a check
  ahead of it that refuses it, and nothing turns that check around.
* `EndingIsFinal`: `Spec => EndedIsFinal`, an action property, from the same.
* `TablesStayConsistent`: `Spec => []TablesConsistent`. A key row that is still active
  was handed to nobody and a locked one is marked by the one claim that locked it
  (`Prekeys`); an enrolment is the only one of its device, and a rotation replaces
  exactly the key it read (`Bundles`).

### 4.7 FilesProofs

For any finite set of threads, any uploads, chunks, contents and versions, and any number
of overlapping creations of the file. The inductive invariant `Inv` has these parts:
`Local` (the calls, their types and locks), `Stored` (the rows, the objects and what was
served), `Relayed` (the relay's batch), `Announcing` (which upload announced what),
`Works` (what each call has read and staged at its step) and `Once`.

* `VersionsStayConsistent`: `Spec => []VersionsConsistent`. The copies of rows that
  commits write back are the difficulty: `Works` says what an open transaction
  holds at each step of its call. Two uploads of one file may be finalised under
  different locks, so a version's row and its object may be of different uploads, but
  each is of one. Only when the file was created once (`Once`) is one finalisation at
  most past the session lock, and then row, object and downloads agree.
* `EventsAreExact`: `Spec => []EventsExact`. Version and announcement are in the same
  commit, and a finalisation past the insert works on a version its upload has not
  announced (`Finalizing`, `Announcing`), since it looked for the row under the upload's
  lock; what a batch of the relay marks was
  audited, whatever answers were lost.
* `AnswersAreStored`: `Spec => []AnsweredIsStored`.

The proofs assume that `None` is not a content, which any instance satisfies.

### 4.8 AuditProofs

For any calls, envelopes, batches, capacities and lifetimes. The table is what the
three parts of the invariant share, and it only grows, so the steps of one part
keep the others.

* `PipelineAlwaysDrains`: `Spec => []PipelineDrains`. There is a function that gives
  every accepted and unanswered envelope its one spot (`Placed`): a queue, the
  hands of a validator, the active or outgoing batch, a queued batch, the hands of
  an inserter. Every step moves envelopes from a spot to the next or answers
  them; a thread that has gone left its spots empty (`Closing`). The assumption that
  both pools have a thread is the code's: a size of 0 is replaced
  (`validation_worker_pool.cpp:12`, `insert_worker_pool.cpp:10`). With an empty pool
  nobody would empty the queues.
* `SubmissionsAreDeduplicated`: `Spec => []Deduplicated`. Reservations and the events
  that calls still owe (`Owed`) correspond one to one (`Reserved`), the calls whose
  batch insert threw included.
* `AcknowledgedIsStored`: `Spec => []AckedIsStored`. Three ways lead to an
  acknowledgement, and each rests on a part of its own: the call's own insert
  (`Written`), the cache (`Remembered`: what it lists is in the table, with its
  contents) and another call's promise (`Shared`: pending means reserved for the
  same contents, fulfilled means stored).
* `WalksStayExact`: `Spec => []QueriesExact`. What is open in a walk (`Open`): the token
  stands on its last row, and what was there when it began is returned or still
  ahead of the token. That `ORDER BY` sorts is a lemma (`InOrderSorts`): the order
  of the query is total on events of different keys, so the number of events before
  one is its place. Readers are finite in number, since the bulkhead counts them;
  events and requests have their types.

### 4.9 MessagingProofs and ConversationProofs

For any users, devices, calls, workloads, conversations, months, capacities and
batch sizes. A module of five hundred lines of handlers and tasks needs its steps in a form
that can be reasoned about: the first part of the proofs gives every action as a
relation between the call before and after it (`Steps`, `Only`: the fields it may
change) and the tables, and every step of `Next` as one of an arrival, a move of a
call, a start of a queued task, or a change of the surroundings (`StepKinds`).

* `CallsFit`: `Spec => []Fits`. Where handler and task of a call can be, together; a
  task that waits is in the queue of its pool exactly once; a phase of the shutdown
  has the pools before it drained.
* `ServiceTypes`: `Spec => []TypeOK`, from `Fits`, `ConvFits`, `Kept` and `DirFits`.
* `NothingIsLost`: `Spec => []NothingLost`. `Kept` adds who holds a lock of
  `update_cursor`: a call between its check and its write, which found a cursor no
  later than its own position and is alone on its stripe, so the table, which takes
  any position, is never taken back. The drain is from the queues in `Fits`.
* `PresenceIsGuarded`: `Spec => PresenceGuarded`, an action property and an invariant. For
  what is shown: the target is looked up among the members at that step, and a row of
  the caller's index names a conversation whose member row was written before, since
  every list of writes has it that way round (`Announced` in `ConvFits`). For the rate: the window of a user holds the times of all the updates
  that were let through and are less than a window old (`RatesFit`).
* `TargetsAreCurrent`: `Spec => []TargetsCurrent`. Whatever is in the cache, in an
  answer on its way or in a call's collected directory says what each device was at
  a time no longer ago than its age (`Reflects`, in `DirFits`), and a message that has
  its number has passed the check against it (`Checked`).
* `PagesAreComplete`: `Spec => []CompletePage`. `NumbersFit`: a counter, once
  installed, has reached every number of its month, stored or about to be.
  `PagesFit` follows a task: the ceiling it read covers what it has to bring
  (`Topped`), the page of the month before has all of it that is in range
  (`Turning`), and a range with room for its numbers has all their messages
  (`RangeIs`). That the numbers are of one month is a condition about the present
  that also held before (`OneMonthBefore`), since no number is taken back.
* `ConversationsStayInOrder` (ConversationProofs): `Spec => []ConversationsInOrder`. Of two calls in flight
  each is a rival of the other (`Meets`), and rivals and requests are not forgotten
  (`Remains`), so a conversation that was never raced over was not before either.
  `RowsFit`: the row a call creates is its own, the row it changes is a group's, the row
  a pair points to is the pair's. For groups (`GroupsFit`) a call that is alone has a
  plan that keeps the order with each write (`Sound`): a creator is the first member
  and its admin, an admin at work stays one, who leaves has left an admin or nobody
  behind, and the group is closed only when it is empty. So no prefix of the writes,
  and therefore no failed write, breaks it. For pairs (`DirectsFit`): a
  call alone on its pair has something to write only if the pair has no conversation
  (`Paired`), a list has one write of the pair and, behind the row, both memberships
  (`Listed`), and without failures who belongs to a direct conversation is in it or
  is in the list of the call that creates it (`BothIn`).

The constants are assumed to have their types and `None` to be none of the values
it stands in for.

### 4.10 Only model-checked

* Liveness (`StripeReleased`, `TaskLeavesQueue`, `Reaches`) is out of reach of the
  prover, and so is the absence of deadlock, which is about `ENABLED`.
* `ClientGuarded`: removing a contact filters the entries with `SelectSeq`, and entries are
  found by `SelectInSeq`; what such recursive definitions compute for every argument needs
  an induction the prover does not have.
* That `StripesAreEnough` and the other theorems about parts carry over to the
  services put together is an argument of section 2, not a theorem.

## 5 Findings

`submission_duplicate` is an execution TLC found in the model, checked against the
code: a failure after the message row is stored marks the key FAILED, and the
retry stores a second message. `docs/adr/adr-007-message-reliability-durability.md:1187`
says "Idempotency prevents network failures from creating duplicate logical
messages."

`at_least_once`: rows in a terminal state are never deleted and use up the LIMIT of the
fetch that recovery, reconnect and the outbox consumer go by
(`scylla_delivery_state_repository.cpp:132`). Once a device has had as many messages in a
month as the limit allows, a new one is not pushed to it and stays QUEUED, although the
device is online and recovery runs.
`docs/design/messaging-design.md:1362` says "Delivery is at-least-once." `Reaches` says
what is true: a message reaches the device unless its row is out of sight (`OutOfSight`:
behind the limit, or of another month) or the scheduler refuses it again and again.

More disagreements were met while modelling. The models have the behaviour, so
each can be seen by adding the property; the properties above are stated to hold
in spite of it.

Messaging:

* `mark_processing` is outside the `try`: a claim reported as failed but applied, or
  a crash, leaves PROCESSING for good (`message_submission_service.cpp:152`; its
  comment at 245 says "so client can safely retry");
* an acknowledgement overwrites READ (`delivery_service.cpp:93`;
  `docs/architecture/messaging-architecture-and-functioning.md:1205` says
  "independent, non-regressing lifecycles");
* recovery and reconnect look only at the current month, so a message queued when
  the month ends is never delivered (`durable_delivery_recovery_service.cpp:188`;
  `docs/final-reports/walkthrough-msg-007.md:103`);
* the reaper calls the disconnect listeners after it released the registry and
  without the stripe; a device that reconnected in between loses its new session
  (`device_connection_registry.cpp:199`;
  `docs/final-reports/walkthrough-msg-010.md:1173`);
* the sequence counter is local to a process: with two instances
  `SequenceUnique` fails (`docs/adr/adr-010-performance-capacity-optimization.md:54`
  says that no service relies on process-local memory for correctness);
* with a lane full of duplicates of one message another can be refused again and
  again (`Refused`); `fetch_pending_events` filters after its LIMIT
  (`scylla_outbox_repository.cpp:105`);
* superseding a channel by another user's connection skips the limit per user;
* a heartbeat that comes back after its device was closed puts the device into
  presence again, under a user it may no longer belong to;
* a sequence number is consumed by a failed `save_message`, so the numbers of a
  bucket are not gapless (`docs/architecture/messaging-architecture-and-functioning.md:53`
  says they are); sync ends at a hole wider than its batch. Since allocation and
  save are not atomic, a page can pass a number that is stored later, and a client
  that follows it never sees that message (`docs/final-reports/walkthrough-msg-005.md:350`).
  After a month's end cursors of the old month are out of bounds and low numbers
  are not offered. `CompletePage` excludes exactly these cases;
* the worker writes DELIVERING over DELIVERED
  (`docs/final-reports/walkthrough-msg-002.md:456` rules it out), a crash before
  `enqueue_event` loses the event (`adr-007:792`), and a retry starts before its
  backoff is over (`walkthrough-msg-002.md:452`);
* two users who write to each other at once get two direct conversations
  (`docs/data-model/03-messaging-data-model.md:224`), a failure after
  `save_direct_conversation` leaves a pair without participants, renaming a group
  while its last member leaves reopens it, and an admin who leaves while adding a
  member leaves a group without an admin. `ConversationsInOrder` holds when the
  calls do not overlap in this way;
* `sync_messages` and the ceiling it asks for read the present month and the one
  before (`message_sync_service.cpp:88`), so a device that starts from the beginning
  two months after the last message of a conversation gets an empty page and is told
  that there is no more; `docs/final-reports/walkthrough-msg-009.md:1051` says "a
  freshly provisioned device with cursor sequence `0` catches up its complete message
  history". The attempt to prove `CompletePage` led to it: the ceiling does not cover
  messages of an earlier month, so the property is about the months that are read;
* a caller who left or was removed still sees the presence of the members: the key of
  `conversations_by_user` has the time of the last activity in it, so the row written on
  removal is a new one and an older row stays `Active`, and `shares_mutual_conversation`
  checks only the target among the members (`conversation_authorization_service.cpp:376`).
  The comment at `messaging_service_impl.cpp:1575` says "verify caller and target share at
  least one mutual active conversation", and `docs/final-reports/walkthrough-msg-010.md:795`
  that removal "decays mutual relationship immediately to shielded `OFFLINE`".
  `PresenceGuarded` shows the half that holds: a removed target is shielded at once;
* `docs/final-reports/walkthrough-msg-009.md:269` says that an update to the same
  cursor position is refused; `can_advance_to` accepts it. A failed read of the
  cursor is answered with an empty one.

Auth:

* `device_manager.cpp:417` says "Cascade revocation to active sessions and refresh
  tokens"; refresh tokens are left, and a login that overtook the revocation leaves
  an active session. `NoLateSuccess` shows that neither can be used;
* errors of the revocation after a detected reuse are swallowed while the answer
  says the session was revoked (`token_manager.cpp:119`); a failed revocation of
  keys is not retried (`device_manager.cpp:403`);
* attempts, used recovery codes and the last TOTP step are kept in memory only.

Files:

* concurrent chunks lose an increment of `accepted_chunks`, since the commit writes
  back a whole row (`chunk_storage_service.cpp:157`, `pqxx_compat.hpp:811`), and the
  validator then refuses a complete upload (`finalization_validator.cpp:98`;
  `docs/implementation/testing-strategy.md:574` says "Concurrent chunk uploads →
  final transfer remains consistent.");
* two overlapping `CreateFileUpload` calls with one `file_id`, which the client chooses,
  both succeed; the two uploads are finalised under different locks, both as version 1.
  The second commit overwrites the row, the second `put_object` the object, in either
  order, and `FILE_AVAILABLE` is sent twice, although a comment says "Once a version is
  created and active, its object key and checksum must never be modified"
  (`file_lifecycle_service.cpp:144`). A finalisation that comes later finds version 1 taken
  and is answered with the other upload's version. `VersionsConsistent` and `EventsExact`
  say what remains true and what holds when the file is created once;
* in the same way a late commit overwrites a cancelled, expired, completed or
  deleted status; `DeleteFile` ignores that `delete_file` did nothing
  (`files_service_impl.cpp:1030`); failed outbox events are never fetched again.

Gateway:

* a half-open probe that ends with a non-transient error, is refused by a check
  after the breaker, or is a stream, is not counted back; once all probes went
  this way the breaker stays half-open (`circuit_breaker.cpp:87`;
  `docs/architecture/gateway-architecture-and-functioning.md:322`);
* a streaming download gives its drain lease back before its body is sent, so a
  drain may report success while it runs; `DrainComplete` is about the pipeline;
* an outcome of a call made before the breaker opened closes a half-open one; a
  client evicted from the rate limiter starts with a full burst;
* the stub for `/api/v1/messages/send` replaces the proxy handler of that path.

Audit:

* `ingest_batch` leaks its reservations when the insert throws
  (`audit_ingestion_service.cpp:231`; `docs/final-reports/walkthrough-audit-006.md:38`),
  latent because the server wires no cache. `ReservationHasOwner` is about single
  submissions and batches whose insert answers;
* timeouts escape the handlers as exceptions (`docs/design/audit-design.md:895` says
  they are answered DEADLINE_EXCEEDED);
* a query without a time window makes the second page's token invalid, since the
  window moved (`audit_query_validator.cpp:24`, `audit_page_cursor.cpp:83`); a lookup
  by id misses events more than ten minutes from the id's time.

Client:

* adding a contact whose user id gives the id of another conversation (`sec@ops` and the
  group `conv-secops`) overwrites the stored conversation and its roster
  (`workspace_view_model.cpp:1246`): a message to the group is then checked against the
  added contact alone and is staged although a member on the screen's roster is blocked,
  and leaving the group takes the contact's entry along. `reused` has these ids, and
  `StagingGuarded` and `BarredIsShown` except them;
* adding a contact again resets a changed or blocked one and adds a second entry
  (`workspace_view_model.cpp:1193`); removing the selected contact moves the
  selection to the first conversation (`:1314`); a removed contact stays in groups;
  a retry shows Delivered without a check; staging a file does not look at the key
  or the block; approving a device re-authorises a revoked one; any six digits
  pass as MFA code. `ClientGuarded` is about messages that are staged.

## 6 Not modelled

* Not about the order of events: cryptography (Argon2, TOTP, signatures, JWT),
  TLS and the redirect server, configuration, logging, metrics, migrations,
  formatting of bodies, row mappers, request signing, QML, theme and window.
* Without a caller in the services: `update_delivery_state_monotonic` and the
  transition guard, `StreamingBuffer`, `create_file_version`,
  `transition_lifecycle`, `prune_expired`, `evict_expired`, the in-memory LRU
  deduplication manager and `on_batch_failed`.
* Modelled through what the code uses of it: ScyllaDB (a statement is atomic,
  durable when it returns, and may be applied although it is reported as failed),
  PostgreSQL row locks, ClickHouse inserts, the object store, the transport (a send
  may fail although the envelope arrived), gRPC deadlines, the device.
* Partly modelled: the outbox consumer (its LIMIT window is left out), the delivery
  state repository (the statements used by delivery), retry policy of delivery
  (whether another attempt is allowed, not the length of the backoff), validation
  (classes of refusals), grants and capabilities of files, local token validation
  of the gateway, one shard of the deduplication cache, one account (auth) and one
  file (files).

## 7 Plan

1. `ConnectionLifecycle` composed with `MessageDelivery` in place of `Connect` and
   `Disconnect`, with an abstract specification of what delivery needs of it: the
   newest connection of a device is the one that is registered.
2. The LIMIT window of the outbox, and lanes wide enough for duplicates in the
   liveness run.
