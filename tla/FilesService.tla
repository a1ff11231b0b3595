---------------------------- MODULE FilesService ----------------------------
(***************************************************************************)
(* The calls of the files service over FilesStore: creating an upload,     *)
(* storing chunks, finalising, cancelling, downloading, deleting, expiry,  *)
(* and the relay that ships the outbox to the audit service.  A call is a  *)
(* sequence of statements, object store calls and a commit; calls          *)
(* interleave between any two of them.                                     *)
(***************************************************************************)
EXTENDS FilesStore

CONSTANTS MaxUploads, MaxDownloads, MaxMetadata,   \* permits of the bulkheads
          MemoryBudget,                            \* chunks the memory tracker admits
          BatchSize,                               \* events of a relay batch
          Workloads                                \* bounds: what happens; one is chosen at the start

Ops == {"create", "chunk", "finalize", "cancel", "delete", "expire", "download"}
Deadlines == {"lease", "retention"}

\* the calls clients and timers make and how many, the deadlines that may pass, and the
\* batches of the relay
Workload == [ops : SUBSET Ops, calls : Nat, lapses : SUBSET Deadlines, batches : Nat]

ASSUME FilesAssumption ==
    /\ {MaxUploads, MaxDownloads, MaxMetadata, MemoryBudget, BatchSize} \subseteq Nat \ {0}
    /\ MaxVersions \in Nat /\ Workloads \subseteq Workload
    /\ IsFiniteSet(Threads)
    /\ None \notin Contents /\ None \notin Uploads

VARIABLES load,          \* the workload
          call,          \* what each thread is doing
          calls,         \* calls started
          lock,          \* the threads that hold the session lock of their upload
          lapsed,        \* "lease" and "retention" once they are over
          relay,         \* the batch the outbox relay works on
          audited,       \* events the audit service has accepted
          recorded,      \* history: rows ever committed to file_chunks
          answered,      \* history: finalisations answered with success
          served         \* history: objects handed to downloads

serviceVars == <<load, call, calls, lock, lapsed, relay, audited, recorded, answered, served>>
vars == <<storeVars, objectVars, tx, serviceVars>>

Idle == [op |-> "idle", at |-> None, upload |-> None, chunk |-> None, content |-> None,
         transfer |-> NoTransfer, file |-> "absent", sum |-> <<>>, target |-> 0]
Upload(t) == call[t].upload
NoBatch == [at |-> "poll", events |-> {}, ok |-> FALSE, batches |-> 0]

Free(t, op) == call[t] = Idle /\ op \in load.ops /\ calls < load.calls
At(t, op, at) == call[t].op = op /\ call[t].at = at
Start(t, c) == call' = [call EXCEPT ![t] = c] /\ calls' = calls + 1
Goto(t, at) == call' = [call EXCEPT ![t].at = at] /\ UNCHANGED calls
Leave(t) == call' = [call EXCEPT ![t] = Idle] /\ UNCHANGED calls

Init ==
    /\ StoreInit
    /\ load \in Workloads
    /\ call = [t \in Threads |-> Idle] /\ calls = 0
    /\ lock = {}
    /\ lapsed = {}
    /\ relay = NoBatch
    /\ audited = {}
    /\ recorded = {} /\ answered = FALSE /\ served = {}

\* acquire_with_default_timeout: a call that gets no permit in time is refused
InDomain(ops) == Cardinality({t \in Threads : call[t].op \in ops})
UploadPermit == InDomain({"create", "chunk", "finalize"}) < MaxUploads
DownloadPermit == InDomain({"download"}) < MaxDownloads
MetadataPermit == InDomain({"cancel", "delete"}) < MaxMetadata

\* try_reserve of one chunk; released when the call ends
MemoryReserved == InDomain({"chunk"}) + Cardinality({t \in Threads : At(t, "download", "send")})
TryReserve == MemoryReserved + 1 <= MemoryBudget

Lapse == /\ \E d \in load.lapses \ lapsed : lapsed' = lapsed \cup {d}
         /\ fileRow # "absent"
         /\ UNCHANGED <<storeVars, objectVars, tx, call, calls, lock, relay, audited, recorded, answered, served>>

-----------------------------------------------------------------------------
(* CreateFileUpload: the file row with its event in one transaction, the   *)
(* transfer row in the next                                                *)

\* create_file looks for the row and stages a new one; the commit does not look again
CreateFile(t) ==
    /\ fileRow = "absent"
    /\ tx' = [tx EXCEPT ![t] = StageEvent(InsertFile(@), "FILE_CREATED", NoSubject)]

CreateFileUpload(t) ==
    /\ Free(t, "create") /\ UploadPermit
    /\ CreateFile(t)
    /\ Start(t, [Idle EXCEPT !.op = "create", !.at = "commit file"])
    /\ UNCHANGED <<storeVars, objectVars, lock, lapsed, relay, audited, recorded, answered, served>>

CommitFile(t) ==
    /\ At(t, "create", "commit file")
    /\ Commit(t, Upload(t))
    /\ Goto(t, "session")
    /\ UNCHANGED <<objectVars, lock, lapsed, relay, audited, recorded, answered, served>>

\* create_session under a new upload id; when it fails the file stays without a transfer
CreateSession(t) ==
    /\ At(t, "create", "session")
    /\ \/ \E u \in Uploads : /\ transferRow[u] = NoTransfer
                             /\ transferRow' = [transferRow EXCEPT ![u] = [status |-> "created", accepted |-> 0]]
       \/ UNCHANGED transferRow
    /\ Leave(t)
    /\ UNCHANGED <<fileRow, chunkRow, versionRow, outbox, objectVars, tx, lock, lapsed, relay, audited,
                   recorded, answered, served>>

-----------------------------------------------------------------------------
(* UploadChunk: progress check, then store_chunk in one transaction        *)

\* get_transfer_progress: the status it answers; an expired lease is also stored
Lapsing(status) == "lease" \in lapsed /\ status \notin {"cancelled", "completed"}
TransferProgress(u) == IF Lapsing(transferRow[u].status) THEN "expired" ELSE transferRow[u].status

UploadChunk(t, u, c, x) ==
    /\ Free(t, "chunk") /\ UploadPermit /\ TryReserve
    /\ \/ Lapsing(transferRow[u].status) /\ transferRow[u] # NoTransfer
       \/ "lease" \notin lapsed /\ TransferProgress(u) \notin {"absent", "cancelled", "expired"}
    /\ Start(t, [Idle EXCEPT !.op = "chunk", !.upload = u, !.chunk = c, !.content = x,
                             !.at = IF Lapsing(transferRow[u].status) THEN "expire" ELSE "find"])
    /\ UNCHANGED <<storeVars, objectVars, tx, lock, lapsed, relay, audited, recorded, answered, served>>

StageExpired(t) ==
    /\ At(t, "chunk", "expire")
    /\ tx' = [tx EXCEPT ![t] = StageTransferStatus(@, t, Upload(t), "expired")]
    /\ Goto(t, "commit")
    /\ UNCHANGED <<storeVars, objectVars, lock, lapsed, relay, audited, recorded, answered, served>>

StoreChunkFinds(t) ==
    /\ At(t, "chunk", "find")
    /\ IF transferRow[Upload(t)].status \in {"cancelled", "expired", "completed"}
       THEN Leave(t)
       ELSE /\ call' = [call EXCEPT ![t].at = IF "lease" \in lapsed THEN "expire" ELSE "list",
                                    ![t].transfer = [transferRow[Upload(t)] EXCEPT !.accepted = 0]]
            /\ UNCHANGED calls
    /\ UNCHANGED <<storeVars, objectVars, tx, lock, lapsed, relay, audited, recorded, answered, served>>

\* a chunk that is already recorded is acknowledged again or refused
ListChunks(t) ==
    /\ At(t, "chunk", "list")
    /\ IF chunkRow[Upload(t)][call[t].chunk] = None THEN Goto(t, "put") ELSE Leave(t)
    /\ UNCHANGED <<storeVars, objectVars, tx, lock, lapsed, relay, audited, recorded, answered, served>>

StageObject(t) ==
    /\ At(t, "chunk", "put")
    /\ \E ok \in BOOLEAN :
          /\ PutStaged(Upload(t), call[t].chunk, call[t].content, ok)
          /\ IF ok THEN Goto(t, "record") ELSE Leave(t)
    /\ UNCHANGED <<storeVars, tx, lock, lapsed, relay, audited, recorded, answered, served>>

\* record_chunk: a row committed meanwhile makes this call a duplicate or a conflict
RecordChunk(t) ==
    /\ At(t, "chunk", "record")
    /\ IF chunkRow[Upload(t)][call[t].chunk] = None
       THEN /\ tx' = [tx EXCEPT ![t] = StageChunk(@, Upload(t), call[t].chunk, call[t].content)]
            /\ Goto(t, "progress")
       ELSE Leave(t) /\ UNCHANGED tx
    /\ UNCHANGED <<storeVars, objectVars, lock, lapsed, relay, audited, recorded, answered, served>>

ChunkProgress(t) ==
    /\ At(t, "chunk", "progress")
    /\ IF call[t].transfer.status = "created"
       THEN /\ tx' = [tx EXCEPT ![t] = StageProgress(StageTransferStatus(@, t, Upload(t), "transferring"), t, Upload(t))]
            /\ Goto(t, "file")
       ELSE /\ tx' = [tx EXCEPT ![t] = StageProgress(@, t, Upload(t))]
            /\ Goto(t, "count")
    /\ UNCHANGED <<storeVars, objectVars, lock, lapsed, relay, audited, recorded, answered, served>>

ChunkStartsFile(t) ==
    /\ At(t, "chunk", "file")
    /\ tx' = [tx EXCEPT ![t] = StageFileStatus(@, t, "created", "uploading")]
    /\ Goto(t, "count")
    /\ UNCHANGED <<storeVars, objectVars, lock, lapsed, relay, audited, recorded, answered, served>>

CountChunks(t) ==
    /\ At(t, "chunk", "count")
    /\ tx' = [tx EXCEPT ![t] = IF CountAcceptedChunks(t, Upload(t)) >= Cardinality(Chunks)
                               THEN StageTransferStatus(@, t, Upload(t), "finalizing") ELSE @]
    /\ Goto(t, "commit")
    /\ UNCHANGED <<storeVars, objectVars, lock, lapsed, relay, audited, recorded, answered, served>>

CommitChunk(t) ==
    /\ At(t, "chunk", "commit")
    /\ Commit(t, Upload(t))
    /\ recorded' = recorded \cup (IF tx[t].chunk = <<>> THEN {} ELSE {tx[t].chunk})
    /\ Leave(t)
    /\ UNCHANGED <<objectVars, lock, lapsed, relay, audited, answered, served>>

-----------------------------------------------------------------------------
(* FinalizeFileUpload                                                      *)

FinalizeFileUpload(t, u) ==
    /\ Free(t, "finalize") /\ UploadPermit
    /\ transferRow[u].status # "absent"
    /\ Start(t, [Idle EXCEPT !.op = "finalize", !.upload = u, !.at = "lock"])
    /\ UNCHANGED <<storeVars, objectVars, tx, lock, lapsed, relay, audited, recorded, answered, served>>

\* the lock of this upload; the map never drops it while a call still refers to it
LockSession(t) ==
    /\ At(t, "finalize", "lock")
    /\ \A s \in lock : Upload(s) # Upload(t)
    /\ lock' = lock \cup {t}
    /\ Goto(t, "find")
    /\ UNCHANGED <<storeVars, objectVars, tx, lapsed, relay, audited, recorded, answered, served>>

LeaveFinalize(t) == Leave(t) /\ lock' = lock \ {t} /\ Abort(t)

FinalizeFindsTransfer(t) ==
    /\ At(t, "finalize", "find")
    /\ call' = [call EXCEPT ![t].at = "file", ![t].transfer = transferRow[Upload(t)]]
    /\ UNCHANGED <<storeVars, objectVars, tx, calls, lock, lapsed, relay, audited, recorded, answered, served>>

\* a finished upload is answered from its active version; an ended one is refused
FinalizeFindsFile(t) ==
    /\ At(t, "finalize", "file")
    /\ IF (call[t].transfer.status = "completed" \/ fileRow = "available") /\ FindActiveVersion # 0
       THEN LeaveFinalize(t) /\ answered' = TRUE
       ELSE IF call[t].transfer.status \in {"cancelled", "expired", "failed"}
       THEN LeaveFinalize(t) /\ UNCHANGED answered
       ELSE /\ call' = [call EXCEPT ![t].at = "stage", ![t].file = fileRow]
            /\ UNCHANGED <<calls, lock, tx, answered>>
    /\ UNCHANGED <<storeVars, objectVars, lapsed, relay, audited, recorded, served>>

FinalizeStagesTransfer(t) ==
    /\ At(t, "finalize", "stage")
    /\ tx' = [tx EXCEPT ![t] = StageTransferStatus(@, t, Upload(t), "finalizing")]
    /\ Goto(t, "stage file")
    /\ UNCHANGED <<storeVars, objectVars, lock, lapsed, relay, audited, recorded, answered, served>>

\* update_status throws unless the transition from the status read is legal
FinalizeStagesFile(t) ==
    /\ At(t, "finalize", "stage file")
    /\ IF ValidTransition(call[t].file, "finalizing")
       THEN /\ tx' = [tx EXCEPT ![t] = StageFileStatus(@, t, call[t].file, "finalizing")]
            /\ Goto(t, "validate") /\ UNCHANGED lock
       ELSE LeaveFinalize(t)
    /\ UNCHANGED <<storeVars, objectVars, lapsed, relay, audited, recorded, answered, served>>

\* validate_finalization_preconditions, on the counter of the row read first
ValidateFinalization(t) ==
    /\ call[t].transfer.accepted = Cardinality(Chunks)
    /\ \A c \in Chunks : chunkRow[Upload(t)][c] # None

FinalizeValidates(t) ==
    /\ At(t, "finalize", "validate")
    /\ IF ValidateFinalization(t)
       THEN /\ call' = [call EXCEPT ![t].at = "version", ![t].sum = chunkRow[Upload(t)]]
            /\ UNCHANGED <<calls, lock, tx>>
       ELSE LeaveFinalize(t)
    /\ UNCHANGED <<storeVars, objectVars, lapsed, relay, audited, recorded, answered, served>>

TargetVersion(t) ==
    /\ At(t, "finalize", "version")
    /\ FindActiveVersion < MaxVersions
    /\ call' = [call EXCEPT ![t].at = "assemble", ![t].target = FindActiveVersion + 1]
    /\ UNCHANGED <<storeVars, objectVars, tx, calls, lock, lapsed, relay, audited, recorded, answered, served>>

\* every staged chunk is fetched and its hash compared with the recorded one
Fetched(t) == staged[Upload(t)]

\* A mutant of ChunksIntact: the fetched chunks are not compared with the recorded hashes.
ChunksUnchecked(t) == \A c \in Chunks : staged[Upload(t)][c] # None

ChunksIntact(t) == Fetched(t) = call[t].sum

FetchChunks(t) ==
    /\ At(t, "finalize", "assemble")
    /\ \/ ChunksIntact(t) /\ call' = [call EXCEPT ![t].at = "put", ![t].sum = Fetched(t)]
          /\ UNCHANGED <<calls, lock, tx>>
       \/ LeaveFinalize(t)            \* a mismatch, or the object store fails
    /\ UNCHANGED <<storeVars, objectVars, lapsed, relay, audited, recorded, answered, served>>

\* the object is written before the client's checksum is compared
PutVersion(t) ==
    /\ At(t, "finalize", "put")
    /\ \E ok \in BOOLEAN :
          /\ PutObject(call[t].target, call[t].sum, ok)
          /\ \/ ok /\ Goto(t, "insert") /\ UNCHANGED <<lock, tx>>
             \/ LeaveFinalize(t)      \* the put failed, or the checksum differs
    /\ UNCHANGED <<storeVars, lapsed, relay, audited, recorded, answered, served>>

\* create_version: a number that is taken ends in the answer of the active version
InsertVersion(t) ==
    /\ At(t, "finalize", "insert")
    /\ IF VersionTaken(call[t].target)
       THEN LeaveFinalize(t) /\ answered' = (answered \/ FindActiveVersion # 0)
       ELSE /\ tx' = [tx EXCEPT ![t] = StageVersion(@, call[t].target, call[t].sum)]
            /\ Goto(t, "deactivate")
            /\ UNCHANGED <<lock, answered>>
    /\ UNCHANGED <<storeVars, objectVars, lapsed, relay, audited, recorded, served>>

\* what FILE_AVAILABLE tells
Announced(t) == [version |-> call[t].target, sum |-> call[t].sum, upload |-> Upload(t)]

\* the statements of create_version and of the caller after the insert
StageAvailable(r, t) ==
    StageTransferStatus(StageFileStatus(StageSuperseded(r, call[t].target), t, "finalizing", "available"),
                        t, Upload(t), "completed")

\* A mutant of CreateVersion: the caller is answered before the commit.
CreateVersionAnswers(t) ==
    /\ At(t, "finalize", "deactivate")
    /\ DeactivateOthers(call[t].target)
    /\ tx' = [tx EXCEPT ![t] = StageEvent(StageAvailable(@, t), "FILE_AVAILABLE", Announced(t))]
    /\ answered' = TRUE
    /\ Goto(t, "commit")
    /\ UNCHANGED <<fileRow, transferRow, chunkRow, outbox, objectVars, lock, lapsed, relay, audited, recorded, served>>

\* A mutant of CreateVersion: the event is stored in a transaction of its own.
CreateVersionEventApart(t) ==
    /\ At(t, "finalize", "deactivate")
    /\ DeactivateOthers(call[t].target)
    /\ outbox' = Append(outbox, [type |-> "FILE_AVAILABLE", status |-> "pending", of |-> Announced(t)])
    /\ tx' = [tx EXCEPT ![t] = StageAvailable(@, t)]
    /\ Goto(t, "commit")
    /\ UNCHANGED <<fileRow, transferRow, chunkRow, objectVars, lock, lapsed, relay, audited, recorded, answered, served>>

\* then the statements on the transaction's own copies
CreateVersion(t) ==
    /\ At(t, "finalize", "deactivate")
    /\ DeactivateOthers(call[t].target)
    /\ tx' = [tx EXCEPT ![t] = StageEvent(StageAvailable(@, t), "FILE_AVAILABLE", Announced(t))]
    /\ Goto(t, "commit")
    /\ UNCHANGED <<fileRow, transferRow, chunkRow, outbox, objectVars, lock, lapsed, relay, audited, recorded,
                   answered, served>>

CommitVersion(t) ==
    /\ At(t, "finalize", "commit")
    /\ Commit(t, Upload(t))
    /\ answered' = TRUE
    /\ Goto(t, "cleanup")
    /\ UNCHANGED <<objectVars, lock, lapsed, relay, audited, recorded, served>>

CleanupStaging(t) ==
    /\ At(t, "finalize", "cleanup")
    /\ DeleteStaged(Upload(t))
    /\ LeaveFinalize(t)
    /\ UNCHANGED <<storeVars, lapsed, relay, audited, recorded, answered, served>>

-----------------------------------------------------------------------------
(* CancelFileUpload, DeleteFile, evaluate_and_expire_files                 *)

CancelFileUpload(t, u) ==
    /\ Free(t, "cancel") /\ MetadataPermit
    /\ transferRow[u].status # "absent"
    /\ Start(t, [Idle EXCEPT !.op = "cancel", !.upload = u, !.at = "stage"])
    /\ UNCHANGED <<storeVars, objectVars, tx, lock, lapsed, relay, audited, recorded, answered, served>>

\* update_status asks nothing of the status it replaces
StageCancelled(t) ==
    /\ At(t, "cancel", "stage")
    /\ tx' = [tx EXCEPT ![t] = StageTransferStatus(@, t, Upload(t), "cancelled")]
    /\ Goto(t, "commit")
    /\ UNCHANGED <<storeVars, objectVars, lock, lapsed, relay, audited, recorded, answered, served>>

DeleteFile(t) ==
    /\ Free(t, "delete") /\ MetadataPermit
    /\ ValidTransition(fileRow, "deleted")
    /\ Start(t, [Idle EXCEPT !.op = "delete", !.at = "stage", !.file = fileRow])
    /\ UNCHANGED <<storeVars, objectVars, tx, lock, lapsed, relay, audited, recorded, answered, served>>

\* a row that changed since it was read is left alone, and the call still answers success
StageDeleted(t) ==
    /\ At(t, "delete", "stage")
    /\ IF FindFile(t) = call[t].file
       THEN /\ tx' = [tx EXCEPT ![t] = StageEvent(StageFileStatus(@, t, call[t].file, "deleted"), "FILE_DELETED", NoSubject)]
            /\ Goto(t, "commit")
       ELSE Leave(t) /\ UNCHANGED tx
    /\ UNCHANGED <<storeVars, objectVars, lock, lapsed, relay, audited, recorded, answered, served>>

EvaluateAndExpireFiles(t) ==
    /\ Free(t, "expire")
    /\ "retention" \in lapsed
    /\ ValidTransition(fileRow, "expired")
    /\ Start(t, [Idle EXCEPT !.op = "expire", !.at = "stage", !.file = fileRow])
    /\ UNCHANGED <<storeVars, objectVars, tx, lock, lapsed, relay, audited, recorded, answered, served>>

StageFileExpired(t) ==
    /\ At(t, "expire", "stage")
    /\ LET copied == StageFileStatus(tx[t], t, call[t].file, "expired")
       IN  tx' = [tx EXCEPT ![t] = IF FindFile(t) = call[t].file
                                   THEN StageEvent(copied, "FILE_EXPIRED", NoSubject) ELSE copied]
    /\ Goto(t, "commit")
    /\ UNCHANGED <<storeVars, objectVars, lock, lapsed, relay, audited, recorded, answered, served>>

CommitCall(t) ==
    /\ call[t].op \in {"cancel", "delete", "expire"} /\ call[t].at = "commit"
    /\ Commit(t, Upload(t))
    /\ Leave(t)
    /\ UNCHANGED <<objectVars, lock, lapsed, relay, audited, recorded, answered, served>>

-----------------------------------------------------------------------------
(* DownloadChunk: authorisation and status, then the version, the object   *)

\* validate_download_preconditions
Downloadable == fileRow = "available"

DownloadChunk(t) ==
    /\ Free(t, "download") /\ DownloadPermit
    /\ Downloadable
    /\ Start(t, [Idle EXCEPT !.op = "download", !.at = "version"])
    /\ UNCHANGED <<storeVars, objectVars, tx, lock, lapsed, relay, audited, recorded, answered, served>>

DownloadFindsVersion(t) ==
    /\ At(t, "download", "version")
    /\ IF FindActiveVersion = 0 THEN Leave(t)
       ELSE call' = [call EXCEPT ![t].at = "fetch", ![t].target = FindActiveVersion] /\ UNCHANGED calls
    /\ UNCHANGED <<storeVars, objectVars, tx, lock, lapsed, relay, audited, recorded, answered, served>>

\* the chunk is held in memory before the reservation for it is made
FetchChunk(t) ==
    /\ At(t, "download", "fetch")
    /\ IF TryReserve /\ object[call[t].target] # <<>>
       THEN /\ call' = [call EXCEPT ![t].at = "send", ![t].sum = object[call[t].target]]
            /\ UNCHANGED calls
       ELSE Leave(t)
    /\ UNCHANGED <<storeVars, objectVars, tx, lock, lapsed, relay, audited, recorded, answered, served>>

SendChunk(t) ==
    /\ At(t, "download", "send")
    /\ served' = served \cup {call[t].sum}
    /\ Leave(t)
    /\ UNCHANGED <<storeVars, objectVars, tx, lock, lapsed, relay, audited, recorded, answered>>

-----------------------------------------------------------------------------
(* The outbox relay: fetch, submit, mark one event after the other         *)

FetchPendingEvents ==
    /\ relay.at = "poll" /\ relay.batches < load.batches
    /\ PendingEvents(BatchSize) # {}
    /\ relay' = [at |-> "submit", ok |-> FALSE, batches |-> relay.batches + 1, events |-> PendingEvents(BatchSize)]
    /\ UNCHANGED <<storeVars, objectVars, tx, call, calls, lock, lapsed, audited, recorded, answered, served>>

\* any part of the batch may be accepted; success is an answer that rejects nothing
SubmitBatch ==
    /\ relay.at = "submit"
    /\ \E accepted \in SUBSET relay.events : audited' = audited \cup accepted
    /\ relay' \in {[relay EXCEPT !.at = "mark", !.ok = ok] : ok \in {FALSE, relay.events \subseteq audited'}}
    /\ UNCHANGED <<storeVars, objectVars, tx, call, calls, lock, lapsed, recorded, answered, served>>

\* mark_published or mark_failed; an event that cannot be marked stays pending
MarkEvent ==
    /\ relay.at = "mark"
    /\ \E i \in relay.events :
          /\ \A j \in relay.events : i <= j
          /\ MarkOutbox(i, IF relay.ok THEN "published" ELSE "failed")
          /\ relay' = IF relay.events = {i} THEN [NoBatch EXCEPT !.batches = relay.batches]
                    ELSE [relay EXCEPT !.events = @ \ {i}]
    /\ UNCHANGED <<fileRow, transferRow, chunkRow, versionRow, objectVars, tx, call, calls, lock, lapsed,
                   audited, recorded, answered, served>>

-----------------------------------------------------------------------------
Step(t) ==
    \/ CommitFile(t) \/ CreateSession(t)
    \/ StageExpired(t) \/ StoreChunkFinds(t) \/ ListChunks(t) \/ StageObject(t) \/ RecordChunk(t)
    \/ ChunkProgress(t) \/ ChunkStartsFile(t) \/ CountChunks(t) \/ CommitChunk(t)
    \/ LockSession(t) \/ FinalizeFindsTransfer(t) \/ FinalizeFindsFile(t) \/ FinalizeStagesTransfer(t)
    \/ FinalizeStagesFile(t) \/ FinalizeValidates(t) \/ TargetVersion(t) \/ FetchChunks(t) \/ PutVersion(t)
    \/ InsertVersion(t) \/ CreateVersion(t) \/ CommitVersion(t) \/ CleanupStaging(t)
    \/ StageCancelled(t) \/ StageDeleted(t) \/ StageFileExpired(t) \/ CommitCall(t)
    \/ DownloadFindsVersion(t) \/ FetchChunk(t) \/ SendChunk(t)

Begin(t) ==
    \/ CreateFileUpload(t) \/ EvaluateAndExpireFiles(t) \/ DeleteFile(t) \/ DownloadChunk(t)
    \/ \E u \in Uploads : FinalizeFileUpload(t, u) \/ CancelFileUpload(t, u)
    \/ \E u \in Uploads, c \in Chunks, x \in Contents : UploadChunk(t, u, c, x)

Relay == FetchPendingEvents \/ SubmitBatch \/ MarkEvent

Next == UNCHANGED load /\ ((\E t \in Threads : Begin(t) \/ Step(t)) \/ Lapse \/ Relay)

Spec == Init /\ [][Next]_vars

-----------------------------------------------------------------------------
(* Properties                                                              *)

TypeOK ==
    /\ fileRow \in FileStatus /\ transferRow \in [Uploads -> Transfer]
    /\ chunkRow \in [Uploads -> [Chunks -> Contents \cup {None}]]
    /\ \A v \in DOMAIN versionRow : v \in Versions /\ versionRow[v] \in Version
    /\ \A i \in DOMAIN outbox : outbox[i] \in Event
    /\ staged \in [Uploads -> [Chunks -> Contents \cup {None}]]
    /\ \A v \in Versions : object[v] \in {<<>>} \cup Whole
    /\ \A t, s \in lock : Upload(t) = Upload(s) => t = s
    /\ MemoryReserved <= MemoryBudget
    /\ audited \subseteq DOMAIN outbox

Available == {i \in DOMAIN outbox : outbox[i].type = "FILE_AVAILABLE"}

\* The bytes are those of one upload, every chunk of them recorded for it.
OfOneUpload(sum) == \E u \in Uploads : sum \in Whole /\ \A c \in Chunks : <<u, c, sum[c]>> \in recorded

\* No two calls of CreateFileUpload overlapped: the file has at most one transfer.
CreatedOnce == \A u, w \in Uploads : transferRow[u] # NoTransfer /\ transferRow[w] # NoTransfer => u = w

\* What a version's checksum stands for, what its object holds and what a download
\* serves are each the recorded chunks of one upload: neither chunks of different
\* uploads nor a staged object that a refused or unfinished upload overwrote ever get
\* into them.
VersionIsAccepted ==
    /\ \A v \in DOMAIN versionRow : OfOneUpload(versionRow[v].sum) /\ OfOneUpload(object[v])
    /\ \A sum \in served : OfOneUpload(sum)

\* A file that was created once: a version's object is the one its checksum was computed
\* from, and a download serves such a version and nothing else.
VersionIsItsObject ==
    CreatedOnce =>
      /\ \A v \in DOMAIN versionRow : object[v] = versionRow[v].sum
      /\ \A sum \in served : \E v \in DOMAIN versionRow : versionRow[v].sum = sum

\* Every version was announced with its checksum, whatever announced there is, and one
\* upload announces a version once, also when the client sends the finalisation twice or
\* another upload of the file is finalised beside it.
AnnouncedAsStored ==
    /\ \A v \in DOMAIN versionRow : \E i \in Available :
          outbox[i].of.version = v /\ outbox[i].of.sum = versionRow[v].sum
    /\ \A i \in Available : outbox[i].of.version \in DOMAIN versionRow
    /\ \A i, j \in Available :
          /\ outbox[i].of.version = outbox[j].of.version
          /\ CreatedOnce \/ outbox[i].of.upload = outbox[j].of.upload
          => i = j

\* Until an upload has announced a version, every chunk recorded for it is still there to
\* assemble it from.
StagedUntilVersion ==
    \A u \in Uploads : (\A i \in Available : outbox[i].of.upload # u) =>
      \A c \in Chunks : chunkRow[u][c] # None => staged[u][c] # None

\* A client that was told its upload is final finds a version, and an available file has
\* an active one unless a finalisation is just replacing it.
AnsweredIsStored ==
    /\ answered => DOMAIN versionRow # {}
    /\ fileRow = "available" => FindActiveVersion # 0 \/ lock # {}

\* An event is marked published only if the audit service has it.
PublishedIsAudited ==
    \A i \in DOMAIN outbox : outbox[i].status = "published" => i \in audited

\* A version's content is settled by what was accepted, from the staged chunks to the
\* assembled object, however creations, uploads, finalisations and deletions interleave.
VersionsConsistent == TypeOK /\ VersionIsAccepted /\ VersionIsItsObject /\ StagedUntilVersion

\* The outbox tells the audit service of every version, once for each upload that made
\* it, and an event is marked published only when the audit service has it.
EventsExact == AnnouncedAsStored /\ PublishedIsAudited
=============================================================================
