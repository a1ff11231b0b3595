----------------------------- MODULE FilesStore -----------------------------
(***************************************************************************)
(* What the files service keeps: the rows of one file and of its upload    *)
(* transfers in the table store the service is built with, and the objects *)
(* in the object store.  Every statement and every commit of a transaction *)
(* is one critical section of the table store; a transaction works on      *)
(* private copies of whole rows, taken when it first updates them, and the *)
(* commit writes the copies back without looking at the rows again.        *)
(* A file has one transfer for each CreateFileUpload that succeeded: calls *)
(* that overlap may give it several.                                       *)
(***************************************************************************)
EXTENDS Integers, FiniteSets, Sequences

CONSTANTS Threads,       \* threads of the gRPC server
          Uploads,       \* upload ids: the keys of transfers
          Chunks,        \* chunks of the file
          Contents,      \* ciphertexts a client may send for a chunk
          MaxVersions    \* bound: versions of the file

VARIABLES fileRow,       \* status in files
          transferRow,   \* file_transfers: status and accepted_chunks of each transfer
          chunkRow,      \* file_chunks: the hash recorded for a chunk of a transfer
          versionRow,    \* file_versions: checksum and is_active
          outbox,        \* files_outbox: event type, status, and what it is about
          staged,        \* objects staging/<transfer>/<chunk>
          object,        \* objects objects/<file>/<version>; <<>> when absent
          tx             \* the transaction each thread has open

storeVars == <<fileRow, transferRow, chunkRow, versionRow, outbox>>
objectVars == <<staged, object>>

FileStatus == {"absent", "created", "uploading", "finalizing", "available", "expired", "deleted", "failed"}
TransferStatus == {"absent", "created", "transferring", "finalizing", "completed", "expired", "cancelled", "failed"}
EventType == {"FILE_CREATED", "FILE_AVAILABLE", "FILE_DELETED", "FILE_EXPIRED"}

None == "none"                                   \* no row, no staged object
Whole == [Chunks -> Contents]                    \* the bytes of an assembled object
Versions == 1..MaxVersions
Transfer == [status : TransferStatus, accepted : Nat]
NoTransfer == [status |-> "absent", accepted |-> 0]
Version == [sum : Whole, active : BOOLEAN]
\* what an event is about: for FILE_AVAILABLE the version and the checksum of the
\* payload, and (history) the upload it came from; nothing that matters otherwise
Subject == [version : Versions, sum : Whole, upload : Uploads]
NoSubject == [version |-> 0, sum |-> <<>>, upload |-> None]
Event == [type : EventType, status : {"pending", "published", "failed"}, of : Subject \cup {NoSubject}]

NoTx == [file |-> "absent", transfer |-> NoTransfer, chunk |-> <<>>, versions |-> <<>>, events |-> <<>>]

StoreInit ==
    /\ fileRow = "absent"
    /\ transferRow = [u \in Uploads |-> NoTransfer]
    /\ chunkRow = [u \in Uploads |-> [c \in Chunks |-> None]]
    /\ versionRow = <<>>
    /\ outbox = <<>>
    /\ staged = [u \in Uploads |-> [c \in Chunks |-> None]]
    /\ object = [v \in Versions |-> <<>>]
    /\ tx = [t \in Threads |-> NoTx]

\* is_valid_state_transition
ValidTransition(from, to) ==
    <<from, to>> \in {<<"created", "uploading">>, <<"created", "failed">>, <<"created", "deleted">>,
                      <<"uploading", "finalizing">>, <<"uploading", "failed">>,
                      <<"uploading", "expired">>, <<"uploading", "deleted">>,
                      <<"finalizing", "available">>, <<"finalizing", "failed">>,
                      <<"available", "expired">>, <<"available", "deleted">>,
                      <<"expired", "deleted">>}

-----------------------------------------------------------------------------
(* Statements of a transaction: a row is read from the private copy when   *)
(* there is one, and an update starts from it.  u is the transfer the call *)
(* works on.                                                               *)

FindFile(t) == IF tx[t].file # "absent" THEN tx[t].file ELSE fileRow
FindTransfer(t, u) == IF tx[t].transfer # NoTransfer THEN tx[t].transfer ELSE transferRow[u]

\* INSERT INTO files and encrypted_file_metadata; nothing looks for a row of that id
InsertFile(r) == [r EXCEPT !.file = "created"]

\* UPDATE files SET status WHERE status = expected: the copy is taken, and later written
\* back, also when its status is another one
StageFileStatus(r, t, expected, new) ==
    [r EXCEPT !.file = IF FindFile(t) = expected THEN new ELSE FindFile(t)]

\* UPDATE file_transfers SET status
StageTransferStatus(r, t, u, new) ==
    [r EXCEPT !.transfer = [FindTransfer(t, u) EXCEPT !.status = new]]

\* UPDATE file_transfers SET accepted_chunks = accepted_chunks + 1, on the copy in r if there is one
StageProgress(r, t, u) ==
    LET row == IF r.transfer # NoTransfer THEN r.transfer ELSE FindTransfer(t, u)
    IN  [r EXCEPT !.transfer = [row EXCEPT !.accepted = @ + 1]]

\* INSERT INTO file_chunks ... ON CONFLICT DO NOTHING
StageChunk(r, u, c, x) == [r EXCEPT !.chunk = <<u, c, x>>]

\* SELECT COUNT(*) FROM file_chunks: the committed rows and the transaction's own
CountAcceptedChunks(t, u) ==
    Cardinality({c \in Chunks : chunkRow[u][c] # None \/ (tx[t].chunk # <<>> /\ tx[t].chunk[2] = c)})

StageVersion(r, v, sum) == [r EXCEPT !.versions = [w \in {v} |-> [sum |-> sum, active |-> TRUE]]]
\* UNIQUE (file_id, version_number) is looked at by the INSERT alone, not by the commit
VersionTaken(v) == v \in DOMAIN versionRow

StageEvent(r, type, of) ==
    [r EXCEPT !.events = Append(@, [type |-> type, status |-> "pending", of |-> of])]

\* SELECT ... FROM files_outbox WHERE status = 'PENDING' ORDER BY created_at LIMIT n
PendingEvents(n) ==
    LET pending == {i \in DOMAIN outbox : outbox[i].status = "pending"}
    IN  {i \in pending : Cardinality({j \in pending : j < i}) < n}

\* UPDATE files_outbox SET status, in a transaction of its own that may fail
MarkOutbox(i, status) == outbox' \in {outbox, [outbox EXCEPT ![i].status = status]}

\* ... WHERE is_active = TRUE ORDER BY version_number DESC LIMIT 1; 0 when there is none
FindActiveVersion ==
    LET active == {v \in DOMAIN versionRow : versionRow[v].active}
    IN  IF active = {} THEN 0 ELSE CHOOSE v \in active : \A w \in active : w <= v

\* UPDATE file_versions SET is_active = FALSE writes into the store at once, and takes
\* copies of the rows it changed
Superseded(v) == {w \in DOMAIN versionRow : w # v /\ versionRow[w].active}
DeactivateOthers(v) ==
    versionRow' = [w \in DOMAIN versionRow |->
                     IF w \in Superseded(v) THEN [versionRow[w] EXCEPT !.active = FALSE] ELSE versionRow[w]]
StageSuperseded(r, v) ==
    [r EXCEPT !.versions = [w \in DOMAIN @ \cup Superseded(v) |->
                              IF w \in DOMAIN @ THEN @[w] ELSE [versionRow[w] EXCEPT !.active = FALSE]]]

-----------------------------------------------------------------------------
(* work::commit: every private copy replaces its row                       *)

Commit(t, u) ==
    /\ fileRow' = IF tx[t].file # "absent" THEN tx[t].file ELSE fileRow
    /\ transferRow' = IF tx[t].transfer # NoTransfer THEN [transferRow EXCEPT ![u] = tx[t].transfer]
                      ELSE transferRow
    /\ chunkRow' = IF tx[t].chunk # <<>>
                   THEN [chunkRow EXCEPT ![tx[t].chunk[1]][tx[t].chunk[2]] = tx[t].chunk[3]] ELSE chunkRow
    /\ versionRow' = [v \in DOMAIN versionRow \cup DOMAIN tx[t].versions |->
                        IF v \in DOMAIN tx[t].versions THEN tx[t].versions[v] ELSE versionRow[v]]
    /\ outbox' = outbox \o tx[t].events
    /\ tx' = [tx EXCEPT ![t] = NoTx]

Abort(t) == tx' = [tx EXCEPT ![t] = NoTx]

-----------------------------------------------------------------------------
(* Object store calls.  A failed put may have been applied: the answer can *)
(* be lost, and execute_with_retry gives up after its last attempt         *)

PutStaged(u, c, x, ok) ==
    /\ staged' \in (IF ok THEN {[staged EXCEPT ![u][c] = x]} ELSE {staged, [staged EXCEPT ![u][c] = x]})
    /\ UNCHANGED object

PutObject(v, x, ok) ==
    /\ object' \in (IF ok THEN {[object EXCEPT ![v] = x]} ELSE {object, [object EXCEPT ![v] = x]})
    /\ UNCHANGED staged

\* deletions are best effort: any of the staged chunks may be left behind
DeleteStaged(u) ==
    /\ \E gone \in SUBSET Chunks :
          staged' = [staged EXCEPT ![u] = [c \in Chunks |-> IF c \in gone THEN None ELSE staged[u][c]]]
    /\ UNCHANGED object

=============================================================================
