---------------------------- MODULE FilesProofs ----------------------------
(***************************************************************************)
(* Proofs about the files service, for any number of server threads, of    *)
(* uploads of the file, of chunks, contents and versions.                  *)
(***************************************************************************)
EXTENDS FilesService, FiniteSetTheorems, WellFoundedInduction, TLAPS

(***************************************************************************)
(* The inductive invariant                                                 *)
(***************************************************************************)

CallOps == Ops \cup {"idle"}
Ats == {None, "file", "commit file", "session", "expire", "find", "list", "put", "record", "progress",
        "count", "commit", "lock", "stage", "stage file", "validate", "version", "assemble",
        "insert", "deactivate", "cleanup", "fetch", "send"}

CallType == [op : CallOps, at : Ats, upload : Uploads \cup {None}, chunk : Chunks \cup {None},
             content : Contents \cup {None}, transfer : Transfer, file : FileStatus,
             sum : {<<>>} \cup Whole, target : Nat]

\* rows of file_versions, in the store or staged
Rows == UNION {[D -> Version] : D \in SUBSET Versions}

TxType == [file : FileStatus, transfer : Transfer, chunk : {<<>>} \cup (Uploads \X Chunks \X Contents),
           versions : Rows, events : Seq(Event)]

Cells == [Uploads -> [Chunks -> Contents \cup {None}]]

Typed ==
    /\ fileRow \in FileStatus /\ transferRow \in [Uploads -> Transfer]
    /\ chunkRow \in Cells /\ staged \in Cells
    /\ versionRow \in Rows /\ object \in [Versions -> {<<>>} \cup Whole]
    /\ call \in [Threads -> CallType] /\ tx \in [Threads -> TxType]

\* the call has no transaction open, or has written nothing in it yet
Blank(c) ==
    \/ c.op \in {"idle", "download"}
    \/ c.op = "create" /\ c.at = "session"
    \/ c.op = "chunk" /\ c.at \in {"find", "list", "put", "record", "expire"}
    \/ c.op = "finalize" /\ c.at \in {"lock", "find", "file", "stage", "cleanup"}
    \/ c.op \in {"cancel", "delete", "expire"} /\ c.at = "stage"

\* the call recorded a chunk, inserted a version, has the version ready to commit
Recording(c) == c.op = "chunk" /\ c.at \in {"progress", "file", "count", "commit"}
Inserting(c) == c.op = "finalize" /\ c.at \in {"deactivate", "commit"}
Publishing(c) == c.op = "finalize" /\ c.at = "commit"

Pending(type, of) == [type |-> type, status |-> "pending", of |-> of]
Announcement(c) == Pending("FILE_AVAILABLE", [version |-> c.target, sum |-> c.sum, upload |-> c.upload])

\* no event, or one that announces nothing
Unremarkable(events) ==
    \/ events = <<>>
    \/ \E e \in EventType \ {"FILE_AVAILABLE"} : events = <<Pending(e, NoSubject)>>

\* an open transaction holds what its call has written so far and no more
Fits(c, r) ==
    /\ Blank(c) => r = NoTx
    /\ c.op \in {"chunk", "finalize", "cancel"} => c.upload \in Uploads
    /\ c.op = "chunk" => c.chunk \in Chunks /\ c.content \in Contents
    /\ r.chunk # <<>> => Recording(c) /\ r.chunk = <<c.upload, c.chunk, c.content>>
    /\ DOMAIN r.versions # {} => Inserting(c)
    /\ Inserting(c) => /\ c.target \in DOMAIN r.versions
                       /\ r.versions[c.target] = [sum |-> c.sum, active |-> TRUE]
    /\ Publishing(c) => r.events = <<Announcement(c)>>
    /\ c.op = "finalize" /\ c.at # "commit" => r.events = <<>>
    /\ c.op # "finalize" => Unremarkable(r.events)

\* the session lock of an upload is held by the one finalisation that is past it
Holds(c) == c.op = "finalize" /\ c.at # "lock"
Locked ==
    /\ lock = {t \in Threads : Holds(call[t])}
    /\ \A t, s \in lock : call[t].upload = call[s].upload => t = s

\* a chunk is in memory
Uses(c) == c.op = "chunk" \/ (c.op = "download" /\ c.at = "send")
Users == {t \in Threads : Uses(call[t])}
Reserved == Cardinality(Users) <= MemoryBudget

Local ==
    /\ Typed
    /\ \A t \in Threads : Fits(call[t], tx[t])
    /\ Locked
    /\ Reserved

-----------------------------------------------------------------------------
(* What the rows, the objects and the outbox say of each other             *)

Tells(i, v, sum) == outbox[i].of.version = v /\ outbox[i].of.sum = sum
IsAnnounced(v, sum) == \E i \in Available : Tells(i, v, sum)
Published(u) == \E i \in Available : outbox[i].of.upload = u

Created(u) == u \in Uploads /\ transferRow[u] # NoTransfer

Deactivated == \E t \in Threads : Publishing(call[t])

Stored ==
    /\ \A v \in DOMAIN versionRow : /\ OfOneUpload(versionRow[v].sum)
                                    /\ OfOneUpload(object[v])
                                    /\ IsAnnounced(v, versionRow[v].sum)
    /\ DOMAIN versionRow # {} => Deactivated \/ \E v \in DOMAIN versionRow : versionRow[v].active
    /\ \A sum \in served : OfOneUpload(sum)
    /\ \A u \in Uploads, c \in Chunks : chunkRow[u][c] # None => <<u, c, chunkRow[u][c]>> \in recorded
    /\ fileRow = "available" \/ answered => DOMAIN versionRow # {}
    /\ \A u \in Uploads, c \in Chunks :
          ~Published(u) /\ chunkRow[u][c] # None => staged[u][c] # None

Batch == [at : {"poll", "submit", "mark"}, events : SUBSET Nat, ok : BOOLEAN, batches : Nat]

Relayed ==
    /\ outbox \in Seq(Event)
    /\ relay \in Batch /\ relay.events \subseteq 1..Len(outbox)
    /\ audited \subseteq 1..Len(outbox)
    /\ relay.ok => relay.events \subseteq audited
    /\ \A i \in 1..Len(outbox) : outbox[i].status = "published" => i \in audited

Announcing ==
    /\ \A i \in Available : outbox[i].of.version \in DOMAIN versionRow /\ Created(outbox[i].of.upload)
    /\ \A i, j \in Available : /\ outbox[i].of.version = outbox[j].of.version
                               /\ outbox[i].of.upload = outbox[j].of.upload
                               => i = j

\* What a finalisation carries belongs to its own upload, and the version it is about
\* to publish has not been published for that upload.
Finalizing(c) ==
    c.op = "finalize" =>
      /\ Created(c.upload)
      /\ c.at \in {"version", "assemble", "put", "insert", "deactivate", "commit"} => OfOneUpload(c.sum)
      /\ c.at \in {"assemble", "put", "insert", "deactivate", "commit"} => c.target \in Versions
      /\ c.at \in {"insert", "deactivate", "commit"} => OfOneUpload(object[c.target])
      /\ c.at \in {"deactivate", "commit"} =>
           \A i \in Available : ~(outbox[i].of.version = c.target /\ outbox[i].of.upload = c.upload)
      /\ c.at = "cleanup" => Published(c.upload)

\* The copies of the rows a finalisation supersedes are rows that were announced.
Copies(c, r) ==
    /\ \A w \in DOMAIN r.versions : w # c.target =>
          /\ w \in DOMAIN versionRow
          /\ OfOneUpload(r.versions[w].sum)
          /\ IsAnnounced(w, r.versions[w].sum)
    /\ r.file = "available" => Publishing(c) \/ DOMAIN versionRow # {}

Downloading(c) ==
    c.op = "download" =>
      /\ c.at = "fetch" => c.target \in DOMAIN versionRow
      /\ c.at = "send" => OfOneUpload(c.sum)

\* what was or may be recorded is staged, until the upload has announced a version
Placed(c, r) ==
    /\ c.op = "chunk" /\ c.at = "record" => Published(c.upload) \/ staged[c.upload][c.chunk] # None
    /\ r.chunk # <<>> => Published(c.upload) \/ staged[c.upload][c.chunk] # None

\* A file that was created once has one finalisation at a time: it works on a version
\* above all there are, writes its object, and keeps what it supersedes.
IsStored(sum) == \E v \in DOMAIN versionRow : versionRow[v].sum = sum

Alone(c, r) ==
    /\ c.op = "finalize" /\ c.at \in {"assemble", "put", "insert", "deactivate", "commit"} =>
         \A v \in DOMAIN versionRow : v < c.target
    /\ c.op = "finalize" /\ c.at \in {"insert", "deactivate", "commit"} => object[c.target] = c.sum
    /\ \A w \in DOMAIN r.versions : w # c.target => r.versions[w].sum = versionRow[w].sum
    /\ c.op = "download" /\ c.at = "send" => IsStored(c.sum)

Works(c, r) == Finalizing(c) /\ Copies(c, r) /\ Downloading(c) /\ Placed(c, r)

StoredOnce ==
    /\ \A v \in DOMAIN versionRow : object[v] = versionRow[v].sum
    /\ \A sum \in served : IsStored(sum)
    /\ Deactivated \/ \A v \in DOMAIN versionRow : \E a \in DOMAIN versionRow : v <= a /\ versionRow[a].active

Once == CreatedOnce => StoredOnce /\ \A t \in Threads : Alone(call[t], tx[t])

Inv ==
    /\ Local /\ Stored /\ Relayed /\ Announcing
    /\ \A t \in Threads : Works(call[t], tx[t])
    /\ Once

-----------------------------------------------------------------------------
(* One thread moves on                                                     *)

Moves(t, c, r) ==
    /\ call' = [call EXCEPT ![t] = c]
    /\ tx' = [tx EXCEPT ![t] = r]

\* the lock is kept, taken or given back
Lock(t, c) ==
    \/ lock' = lock /\ (Holds(c) <=> Holds(call[t])) /\ (Holds(c) => c.upload = call[t].upload)
    \/ lock' = lock \cup {t} /\ Holds(c) /\ \A s \in lock : call[s].upload # c.upload
    \/ lock' = lock \ {t} /\ ~Holds(c)

LEMMA Moved ==
    ASSUME Typed, NEW t \in Threads, NEW c, NEW r, Moves(t, c, r)
    PROVE  /\ call'[t] = c /\ tx'[t] = r
           /\ \A s \in Threads \ {t} : call'[s] = call[s] /\ tx'[s] = tx[s]
  BY DEF Moves, Typed

(* Threads in memory are counted by what is reserved. *)
LEMMA UsersReserve ==
    ASSUME Typed
    PROVE  /\ IsFiniteSet(Users)
           /\ MemoryReserved = Cardinality(Users)
<1> DEFINE A == {t \in Threads : call[t].op \in {"chunk"}}
           B == {t \in Threads : At(t, "download", "send")}
<1>1. IsFiniteSet(A) /\ IsFiniteSet(B) /\ IsFiniteSet(Users)
  BY FS_Subset, FilesAssumption DEF Users
<1>2. A \cap B = {} /\ A \cup B = Users BY DEF At, Users, Uses
<1>3. Cardinality({}) = 0 /\ Cardinality(A) \in Nat /\ Cardinality(B) \in Nat
  BY <1>1, FS_EmptySet, FS_CardinalityType
<1>4. Cardinality(Users) = Cardinality(A) + Cardinality(B)
  <2>1. Cardinality(A \cup B) = Cardinality(A) + Cardinality(B) - Cardinality(A \cap B)
    BY <1>1, FS_Union
  <2> HIDE DEF A, B
  <2>2. Cardinality(A \cup B) = Cardinality(Users) /\ Cardinality(A \cap B) = Cardinality({})
    BY <1>2, Zenon
  <2> QED BY <2>1, <2>2, <1>3
<1>5. MemoryReserved = Cardinality(A) + Cardinality(B) BY DEF MemoryReserved, InDomain
<1> QED BY <1>1, <1>4, <1>5

LEMMA ReservedStep ==
    ASSUME Typed, Reserved, NEW t \in Threads, NEW c, NEW r, Moves(t, c, r),
           Uses(c) => Uses(call[t]) \/ TryReserve
    PROVE  Reserved'
<1>1. IsFiniteSet(Users) /\ MemoryReserved = Cardinality(Users) /\ Cardinality(Users) \in Nat
  BY UsersReserve, FS_CardinalityType
<1>2. call'[t] = c /\ \A s \in Threads \ {t} : call'[s] = call[s] BY Moved
<1>3. Users' \subseteq Users \cup {t} /\ (t \in Users' <=> Uses(c)) /\ (t \in Users <=> Uses(call[t]))
  BY <1>2 DEF Users
<1>4. MemoryBudget \in Nat BY FilesAssumption
<1>5. CASE Users' \subseteq Users
  <2>1. Cardinality(Users') <= Cardinality(Users) /\ Cardinality(Users') \in Nat
    BY <1>1, <1>5, FS_Subset, FS_CardinalityType
  <2> QED BY <2>1, <1>1, <1>4 DEF Reserved
<1>6. CASE ~(Users' \subseteq Users)
  <2>1. Uses(c) /\ ~Uses(call[t]) BY <1>3, <1>6
  <2>2. Users' = Users \cup {t} /\ t \notin Users BY <1>2, <1>3, <2>1 DEF Users
  <2>3. Cardinality(Users') = Cardinality(Users) + 1 BY <2>2, <1>1, FS_AddElement
  <2> QED BY <2>1, <2>3, <1>1, <1>4 DEF Reserved, TryReserve
<1> QED BY <1>5, <1>6

LEMMA LockedStep ==
    ASSUME Typed, Locked, NEW t \in Threads, NEW c, NEW r, Moves(t, c, r), Lock(t, c)
    PROVE  Locked'
<1>1. call'[t] = c /\ \A s \in Threads \ {t} : call'[s] = call[s] BY Moved
<1>2. CASE lock' = lock /\ (Holds(c) <=> Holds(call[t])) /\ (Holds(c) => c.upload = call[t].upload)
  BY <1>1, <1>2 DEF Locked
<1>3. CASE lock' = lock \cup {t} /\ Holds(c) /\ \A s \in lock : call[s].upload # c.upload
  BY <1>1, <1>3 DEF Locked
<1>4. CASE lock' = lock \ {t} /\ ~Holds(c) BY <1>1, <1>4 DEF Locked
<1> QED BY <1>2, <1>3, <1>4 DEF Lock

LEMMA LocalStep ==
    ASSUME Local, NEW t \in Threads, NEW c \in CallType, NEW r \in TxType, Moves(t, c, r),
           Fits(c, r), Lock(t, c), Uses(c) => Uses(call[t]) \/ TryReserve,
           fileRow' \in FileStatus, transferRow' \in [Uploads -> Transfer],
           chunkRow' \in Cells, staged' \in Cells,
           versionRow' \in Rows, object' \in [Versions -> {<<>>} \cup Whole]
    PROVE  Local'
<1>1. Typed' BY DEF Local, Typed, Moves
<1>2. \A s \in Threads : Fits(call'[s], tx'[s]) BY Moved DEF Local
<1> QED BY <1>1, <1>2, LockedStep, ReservedStep DEF Local

-----------------------------------------------------------------------------
(* The rows, the records and the events only grow                          *)

Grows ==
    /\ recorded \subseteq recorded'
    /\ DOMAIN versionRow \subseteq DOMAIN versionRow'
    /\ \A u \in Uploads : transferRow[u] # NoTransfer => transferRow'[u] # NoTransfer
    /\ \A i \in Available : i \in Available' /\ outbox'[i].of = outbox[i].of

LEMMA Grown ==
    ASSUME Grows
    PROVE  /\ \A sum : OfOneUpload(sum) => OfOneUpload(sum)'
           /\ \A v, sum : IsAnnounced(v, sum) => IsAnnounced(v, sum)'
           /\ \A u : (Published(u) => Published(u)') /\ (Created(u) => Created(u)')
           /\ CreatedOnce' => CreatedOnce
<1>1. \A sum : OfOneUpload(sum) => OfOneUpload(sum)' BY DEF Grows, OfOneUpload
<1>2. \A v, sum : IsAnnounced(v, sum) => IsAnnounced(v, sum)' BY DEF Grows, IsAnnounced, Tells
<1>3. \A u : (Published(u) => Published(u)') /\ (Created(u) => Created(u)')
  BY DEF Grows, Published, Created
<1>4. CreatedOnce' => CreatedOnce BY DEF Grows, CreatedOnce
<1> QED BY <1>1, <1>2, <1>3, <1>4

\* staged chunks are kept until their upload has announced a version
KeepsStaged == \A u \in Uploads, k \in Chunks :
                 staged[u][k] # None => staged'[u][k] # None \/ Published(u)'
KeepsObjects == \A v \in Versions : OfOneUpload(object[v]) => OfOneUpload(object[v])'

(* A call that does not move goes on working with what it has. *)
LEMMA WorksOn ==
    ASSUME Grows, KeepsStaged, KeepsObjects, NEW c, NEW r, Fits(c, r), Works(c, r),
           Inserting(c) => \A i \in Available' \ Available :
                             ~(outbox'[i].of.version = c.target /\ outbox'[i].of.upload = c.upload)
    PROVE  Works(c, r)'
<1>1. /\ OfOneUpload(c.sum) => OfOneUpload(c.sum)'
      /\ Published(c.upload) => Published(c.upload)'
      /\ Created(c.upload) => Created(c.upload)'
  BY Grown
<1>2. Finalizing(c)'
  <2> SUFFICES ASSUME c.op = "finalize" PROVE Finalizing(c)' BY DEF Finalizing
  <2>1. Finalizing(c) BY DEF Works
  <2>2. c.at \in {"insert", "deactivate", "commit"} => OfOneUpload(object[c.target])'
    BY <2>1 DEF Finalizing, KeepsObjects
  <2>3. c.at \in {"deactivate", "commit"} => \A i \in Available' :
          ~(outbox'[i].of.version = c.target /\ outbox'[i].of.upload = c.upload)
    BY <2>1 DEF Finalizing, Grows, Inserting
  <2> QED BY <1>1, <2>1, <2>2, <2>3 DEF Finalizing
<1>3. Copies(c, r)'
  <2>1. \A w \in DOMAIN r.versions : w # c.target =>
          /\ w \in DOMAIN versionRow' /\ OfOneUpload(r.versions[w].sum)'
          /\ IsAnnounced(w, r.versions[w].sum)'
    BY Grown DEF Works, Copies, Grows
  <2>2. r.file = "available" => Publishing(c) \/ DOMAIN versionRow' # {}
    BY DEF Works, Copies, Grows
  <2> QED BY <2>1, <2>2 DEF Copies
<1>4. Downloading(c)' BY <1>1 DEF Works, Downloading, Grows
<1>5. Placed(c, r)'
  <2>1. c.op = "chunk" => c.upload \in Uploads /\ c.chunk \in Chunks BY DEF Fits
  <2>2. r.chunk # <<>> => c.op = "chunk" BY DEF Fits, Recording
  <2> QED BY <1>1, <2>1, <2>2 DEF Works, Placed, KeepsStaged
<1> QED BY <1>2, <1>3, <1>4, <1>5 DEF Works

LEMMA AllWork ==
    ASSUME Inv, NEW t \in Threads, NEW c, NEW r, Moves(t, c, r), Grows, KeepsStaged, KeepsObjects,
           Works(c, r)',
           \A i \in Available' \ Available : \A s \in Threads \ {t} :
             Inserting(call[s]) => outbox'[i].of.upload # call[s].upload
    PROVE  \A s \in Threads : Works(call[s], tx[s])'
<1>1. /\ call'[t] = c /\ tx'[t] = r
      /\ \A s \in Threads \ {t} : call'[s] = call[s] /\ tx'[s] = tx[s]
  BY Moved DEF Inv, Local
<1> TAKE s \in Threads
<1>2. CASE s = t
  <2>1. c = call'[s] /\ r = tx'[s] BY <1>1, <1>2
  <2> QED BY <2>1
<1>3. CASE s # t
  <2>1. PICK d, q : d = call[s] /\ q = tx[s] /\ d = call'[s] /\ q = tx'[s] BY <1>1, <1>3
  <2>2. Fits(d, q) /\ Works(d, q) BY <2>1 DEF Inv, Local
  <2>3. Inserting(d) => \A i \in Available' \ Available : outbox'[i].of.upload # d.upload
    BY <1>3, <2>1
  <2>4. Works(d, q)' BY <2>2, <2>3, WorksOn
  <2> QED BY <2>1, <2>4
<1> QED BY <1>2, <1>3

(* A file created once: a call that does not move is undisturbed, and a    *)
(* finalisation that does not move waits for the lock when rows or objects *)
(* change.                                                                 *)
LEMMA AllAlone ==
    ASSUME Inv, NEW t \in Threads, NEW c, NEW r, Moves(t, c, r), CreatedOnce, Once, Alone(c, r)',
           \A w \in DOMAIN versionRow : w \in DOMAIN versionRow' /\ versionRow'[w].sum = versionRow[w].sum,
           \/ DOMAIN versionRow' = DOMAIN versionRow /\ object' = object
           \/ Holds(call[t])
    PROVE  \A s \in Threads : Alone(call[s], tx[s])'
<1>1. /\ call'[t] = c /\ tx'[t] = r
      /\ \A s \in Threads \ {t} : call'[s] = call[s] /\ tx'[s] = tx[s]
  BY Moved DEF Inv, Local
<1> TAKE s \in Threads
<1>2. CASE s = t
  <2>1. c = call'[s] /\ r = tx'[s] BY <1>1, <1>2
  <2> QED BY <2>1
<1>3. CASE s # t
  <2>1. PICK d, q : d = call[s] /\ q = tx[s] /\ d = call'[s] /\ q = tx'[s] BY <1>1, <1>3
  <2>2. Fits(d, q) /\ Works(d, q) /\ Alone(d, q) BY <2>1 DEF Inv, Local, Once
  <2>3. \A w \in DOMAIN q.versions : w # d.target => w \in DOMAIN versionRow
    BY <2>2 DEF Works, Copies
  <2>4. IsStored(d.sum) => IsStored(d.sum)' BY DEF IsStored
  <2>5. CASE DOMAIN versionRow' = DOMAIN versionRow /\ object' = object
    BY <2>1, <2>2, <2>3, <2>4, <2>5 DEF Alone
  <2>6. CASE Holds(call[t])
    <3>1. d.op = "finalize" => d.at = "lock"
      <4>1. d.op = "finalize" => Created(d.upload) BY <2>2 DEF Works, Finalizing
      <4>2. Created(call[t].upload) BY <2>6 DEF Inv, Works, Finalizing, Holds
      <4>3. d.op = "finalize" => d.upload = call[t].upload BY <4>1, <4>2 DEF Created, CreatedOnce
      <4>4. t \in lock /\ (Holds(d) => s \in lock) BY <2>1, <2>6 DEF Inv, Local, Locked
      <4>5. Holds(d) => d.op = "finalize" BY DEF Holds
      <4>6. ~Holds(d) BY <1>3, <2>1, <4>3, <4>4, <4>5 DEF Inv, Local, Locked
      <4> QED BY <4>6 DEF Holds
    <3>2. DOMAIN q.versions = {} BY <2>2, <3>1 DEF Fits, Inserting
    <3> QED BY <2>1, <2>2, <2>4, <3>1, <3>2 DEF Alone
  <2> QED BY <2>5, <2>6
<1> QED BY <1>2, <1>3

-----------------------------------------------------------------------------
(* Steps that write no row and no object                                   *)

\* the objects and the rows the invariant speaks of stay as they are
Quiet ==
    /\ UNCHANGED <<fileRow, chunkRow, versionRow, outbox, staged, object>>
    /\ UNCHANGED <<relay, audited, recorded, served>>
    /\ transferRow' \in [Uploads -> Transfer]
    /\ \A u \in Uploads : transferRow[u] # NoTransfer => transferRow'[u] # NoTransfer

LEMMA QuietGrows ==
    ASSUME UNCHANGED <<versionRow, outbox, recorded>>,
           \A u \in Uploads : transferRow[u] # NoTransfer => transferRow'[u] # NoTransfer
    PROVE  Grows /\ Available' = Available
  BY DEF Grows, Available

LEMMA RelayedKept ==
    ASSUME Relayed, UNCHANGED <<outbox, relay, audited>>
    PROVE  Relayed'
  BY DEF Relayed

LEMMA AnnouncingKept ==
    ASSUME Announcing, UNCHANGED outbox, Grows
    PROVE  Announcing'
<1>1. Available' = Available BY DEF Available
<1>2. \A u : Created(u) => Created(u)' BY Grown
<1> QED BY <1>1, <1>2 DEF Announcing, Grows

(* What is stored and announced stays so while the rows do. *)
LEMMA StoredKept ==
    ASSUME Stored, Grows, UNCHANGED versionRow, KeepsStaged, KeepsObjects, versionRow \in Rows,
           Deactivated => Deactivated',
           \A sum \in served' : OfOneUpload(sum)',
           \A u \in Uploads, k \in Chunks : chunkRow'[u][k] # None => <<u, k, chunkRow'[u][k]>> \in recorded',
           fileRow' = "available" \/ answered' => DOMAIN versionRow # {},
           \A u \in Uploads, k \in Chunks :
             ~Published(u)' /\ chunkRow'[u][k] # None => staged'[u][k] # None
    PROVE  Stored'
<1>1. DOMAIN versionRow \subseteq Versions BY DEF Rows
<1>2. \A v \in DOMAIN versionRow : /\ OfOneUpload(versionRow[v].sum)'
                                   /\ OfOneUpload(object[v])'
                                   /\ IsAnnounced(v, versionRow[v].sum)'
  <2> SUFFICES ASSUME NEW v \in DOMAIN versionRow
               PROVE  /\ OfOneUpload(versionRow[v].sum)' /\ OfOneUpload(object[v])'
                      /\ IsAnnounced(v, versionRow[v].sum)'
    OBVIOUS
  <2>1. PICK x : x = versionRow[v].sum /\ x = versionRow'[v].sum OBVIOUS
  <2>2. OfOneUpload(x) /\ IsAnnounced(v, x) BY <2>1 DEF Stored
  <2>3. OfOneUpload(x)' /\ IsAnnounced(v, x)' BY <2>2, Grown
  <2>4. OfOneUpload(object[v])' BY <1>1 DEF Stored, KeepsObjects
  <2> QED BY <2>1, <2>3, <2>4
<1> QED BY <1>2 DEF Stored

LEMMA QuietStep ==
    ASSUME Inv, NEW t \in Threads, NEW c \in CallType, NEW r \in TxType, Moves(t, c, r), Quiet,
           Fits(c, r), Lock(t, c), Uses(c) => Uses(call[t]) \/ TryReserve,
           Works(c, r), CreatedOnce => Alone(c, r), Publishing(c) <=> Publishing(call[t]),
           answered' => answered \/ DOMAIN versionRow # {}
    PROVE  Inv'
<1>1. Local' BY LocalStep DEF Inv, Quiet, Local, Typed
<1>2. Grows /\ Available' = Available BY QuietGrows DEF Quiet
<1>3. KeepsStaged /\ KeepsObjects
  <2>1. \A v \in Versions : OfOneUpload(object[v]) => OfOneUpload(object[v])'
    <3> TAKE v \in Versions
    <3>1. PICK x : x = object[v] /\ x = object'[v] BY DEF Quiet
    <3> QED BY <1>2, <3>1, Grown
  <2> QED BY <2>1 DEF KeepsStaged, KeepsObjects, Quiet
<1>4. \A s \in Threads : /\ s = t => call'[s] = c
                         /\ s # t => call'[s] = call[s]
  BY Moved DEF Inv, Local
<1>5. Deactivated' <=> Deactivated BY <1>4 DEF Deactivated
<1>6. Stored'
  <2>1. \A u : Published(u) => Published(u)' BY <1>2, Grown
  <2>2. /\ \A sum \in served' : OfOneUpload(sum)'
        /\ \A u \in Uploads, k \in Chunks : chunkRow'[u][k] # None => <<u, k, chunkRow'[u][k]>> \in recorded'
        /\ fileRow' = "available" \/ answered' => DOMAIN versionRow # {}
        /\ \A u \in Uploads, k \in Chunks :
             ~Published(u)' /\ chunkRow'[u][k] # None => staged'[u][k] # None
    BY <1>2, <2>1, Grown DEF Quiet, Inv, Stored
  <2>3. versionRow \in Rows /\ UNCHANGED <<versionRow, outbox>> BY DEF Inv, Local, Typed, Quiet
  <2> QED BY <1>2, <1>3, <1>5, <2>2, <2>3, StoredKept DEF Inv
<1>7. Relayed' /\ Announcing' BY <1>2, RelayedKept, AnnouncingKept DEF Inv, Quiet
<1>8. \A s \in Threads : Works(call[s], tx[s])'
  <2>1. Works(c, r)' BY <1>2, <1>3, WorksOn
  <2> QED BY <1>2, <1>3, <2>1, AllWork
<1>9. Once'
  <2> SUFFICES ASSUME CreatedOnce' PROVE StoredOnce' /\ \A s \in Threads : Alone(call[s], tx[s])'
    BY DEF Once
  <2>1. CreatedOnce BY <1>2, Grown
  <2>2. Alone(c, r)' BY <2>1 DEF Alone, IsStored, Quiet
  <2>3. \A s \in Threads : Alone(call[s], tx[s])'
    BY <2>1, <2>2, AllAlone DEF Quiet, Inv
  <2>4. StoredOnce' BY <1>5, <2>1 DEF Inv, Once, StoredOnce, IsStored, Quiet
  <2> QED BY <2>3, <2>4
<1> QED BY <1>1, <1>6, <1>7, <1>8, <1>9 DEF Inv

-----------------------------------------------------------------------------
(* Calls that begin                                                        *)

LEMMA Names ==
    /\ "file" \in Ats /\ "commit file" \in Ats /\ "session" \in Ats /\ "expire" \in Ats
    /\ "find" \in Ats /\ "list" \in Ats /\ "put" \in Ats /\ "record" \in Ats /\ "progress" \in Ats
    /\ "count" \in Ats /\ "commit" \in Ats /\ "lock" \in Ats /\ "stage" \in Ats
    /\ "stage file" \in Ats /\ "validate" \in Ats /\ "version" \in Ats /\ "assemble" \in Ats
    /\ "insert" \in Ats /\ "deactivate" \in Ats /\ "cleanup" \in Ats /\ "fetch" \in Ats
    /\ "send" \in Ats /\ None \in Ats
    /\ "idle" \in CallOps /\ "create" \in CallOps /\ "chunk" \in CallOps /\ "finalize" \in CallOps
    /\ "cancel" \in CallOps /\ "delete" \in CallOps /\ "expire" \in CallOps /\ "download" \in CallOps
  BY DEF Ats, Ops, CallOps

LEMMA NoRows ==
    <<>> \in Rows /\ DOMAIN <<>> = {}
<1>1. DOMAIN <<>> = {} OBVIOUS
<1>2. <<>> \in [{} -> Version] OBVIOUS
<1>3. {} \in SUBSET Versions OBVIOUS
<1> QED BY <1>1, <1>2, <1>3 DEF Rows

LEMMA Blanks ==
    /\ NoTransfer \in Transfer /\ NoTx \in TxType /\ Idle \in CallType
    /\ "absent" \in FileStatus
    /\ NoTx.chunk = <<>> /\ NoTx.versions = <<>> /\ NoTx.events = <<>> /\ NoTx.file = "absent"
    /\ DOMAIN NoTx.versions = {}
    /\ Idle.op = "idle" /\ Idle.file = "absent" /\ Idle.transfer = NoTransfer
<1>1. NoTransfer \in Transfer BY DEF NoTransfer, Transfer, TransferStatus
<1>2. "absent" \in FileStatus BY DEF FileStatus
<1>3. NoTx \in TxType
  <2>1. PICK e : e = <<>> OBVIOUS
  <2>2. e \in Rows /\ e \in Seq(Event) BY <2>1, NoRows
  <2>3. NoTx = [file |-> "absent", transfer |-> NoTransfer, chunk |-> <<>>, versions |-> e, events |-> e]
    BY <2>1 DEF NoTx
  <2> QED BY <1>1, <1>2, <2>2, <2>3 DEF TxType
<1>4. Idle \in CallType BY <1>1, <1>2, Names DEF Idle, CallType
<1>5. NoTx.chunk = <<>> /\ NoTx.versions = <<>> /\ NoTx.events = <<>> /\ NoTx.file = "absent" BY DEF NoTx
<1>6. DOMAIN NoTx.versions = {} BY <1>5, NoRows
<1> QED BY <1>1, <1>2, <1>3, <1>4, <1>5, <1>6 DEF Idle

(* A call that has written nothing fits an empty transaction. *)
LEMMA BlankFits ==
    ASSUME NEW c \in CallType, Blank(c), c.op = "chunk" => c.chunk \in Chunks /\ c.content \in Contents,
           c.op \in {"chunk", "finalize", "cancel"} => c.upload \in Uploads
    PROVE  Fits(c, NoTx) /\ ~Inserting(c) /\ ~Publishing(c)
<1>1. ~Inserting(c) /\ ~Publishing(c) BY DEF Blank, Inserting, Publishing
<1> QED BY <1>1, Blanks DEF Fits, Unremarkable

(* A call that neither finalises nor downloads, and has no version staged. *)
LEMMA PlainWorks ==
    ASSUME NEW c, NEW r, c.op \notin {"finalize", "download"}, DOMAIN r.versions = {},
           r.file = "available" => DOMAIN versionRow # {}, Placed(c, r)
    PROVE  Works(c, r) /\ Alone(c, r)
  BY DEF Works, Alone, Finalizing, Copies, Downloading

Rest == <<storeVars, objectVars, lapsed, relay, audited, recorded, served>>

LEMMA RestQuiet ==
    ASSUME Inv, UNCHANGED Rest
    PROVE  Quiet
  BY DEF Inv, Local, Typed, Rest, Quiet, storeVars, objectVars

LEMMA StartStep ==
    ASSUME Inv, NEW t \in Threads, NEW c \in CallType, call[t] = Idle, Start(t, c),
           UNCHANGED <<storeVars, objectVars, tx, lock, lapsed, relay, audited, recorded, answered, served>>,
           Blank(c), ~Holds(c), Uses(c) => TryReserve,
           c.op = "chunk" => c.chunk \in Chunks /\ c.content \in Contents /\ c.at # "record",
           c.op \in {"chunk", "cancel"} => c.upload \in Uploads,
           c.op = "finalize" => Created(c.upload),
           c.op = "download" => c.at = "version"
    PROVE  Inv'
<1>1. tx[t] = NoTx BY Blanks DEF Inv, Local, Fits, Blank
<1>2. Moves(t, c, NoTx) BY <1>1 DEF Moves, Start, Inv, Local, Typed
<1>3. Fits(c, NoTx) /\ ~Publishing(c) BY BlankFits DEF Created
<1>4. Quiet BY RestQuiet DEF Rest
<1>5. Lock(t, c) /\ ~Publishing(call[t]) BY Blanks DEF Lock, Holds, Publishing
<1>6. Works(c, NoTx) /\ Alone(c, NoTx)
  <2>1. c.op = "finalize" => c.at = "lock" BY DEF Holds
  <2> QED BY <2>1, Blanks DEF Works, Finalizing, Copies, Downloading, Placed, Alone
<1> QED BY <1>2, <1>3, <1>4, <1>5, <1>6, Blanks, QuietStep

-----------------------------------------------------------------------------
(* What the statements of a transaction leave in it                        *)

To(c, at) == [c EXCEPT !.at = at]

LEMMA ToFacts ==
    ASSUME NEW c \in CallType, NEW at \in Ats
    PROVE  /\ To(c, at) \in CallType
           /\ To(c, at).at = at /\ To(c, at).op = c.op /\ To(c, at).upload = c.upload
           /\ To(c, at).chunk = c.chunk /\ To(c, at).content = c.content
           /\ To(c, at).sum = c.sum /\ To(c, at).target = c.target
           /\ To(c, at).file = c.file /\ To(c, at).transfer = c.transfer
  BY DEF To, CallType

LEMMA GotoMoves ==
    ASSUME Typed, NEW t \in Threads, NEW at, Goto(t, at), NEW r, tx' = [tx EXCEPT ![t] = r]
    PROVE  Moves(t, To(call[t], at), r)
  BY DEF Typed, Goto, Moves, To

LEMMA LeaveMoves ==
    ASSUME Typed, NEW t \in Threads, Leave(t), NEW r, tx' = [tx EXCEPT ![t] = r]
    PROVE  Moves(t, Idle, r)
  BY DEF Typed, Leave, Moves

LEMMA SameTx ==
    ASSUME Typed, NEW t \in Threads, UNCHANGED tx
    PROVE  tx' = [tx EXCEPT ![t] = tx[t]]
  BY DEF Typed

LEMMA RowFacts ==
    ASSUME Typed, NEW t \in Threads
    PROVE  /\ call[t] \in CallType /\ tx[t] \in TxType /\ FindFile(t) \in FileStatus
           /\ \A u \in Uploads : FindTransfer(t, u) \in Transfer
<1>1. call[t] \in CallType /\ tx[t] \in TxType BY DEF Typed
<1>2. tx[t].transfer \in Transfer /\ tx[t].file \in FileStatus BY <1>1 DEF TxType
<1> QED BY <1>1, <1>2 DEF FindTransfer, FindFile, Typed

LEMMA GoTo ==
    ASSUME Typed, NEW t \in Threads, NEW at \in Ats
    PROVE  LET c == To(call[t], at)
           IN  /\ c \in CallType /\ c.at = at /\ c.op = call[t].op /\ c.upload = call[t].upload
               /\ c.chunk = call[t].chunk /\ c.content = call[t].content
               /\ c.sum = call[t].sum /\ c.target = call[t].target
               /\ c.file = call[t].file /\ c.transfer = call[t].transfer
  BY RowFacts, ToFacts

\* all but the named part of a transaction
SameButTransfer(q, r) == q.file = r.file /\ q.chunk = r.chunk /\ q.versions = r.versions /\ q.events = r.events

LEMMA TransferStaged ==
    ASSUME Typed, NEW t \in Threads, NEW u \in Uploads, NEW r \in TxType, NEW s \in TransferStatus
    PROVE  LET q == StageTransferStatus(r, t, u, s)
           IN  q \in TxType /\ SameButTransfer(q, r)
<1> DEFINE f == [FindTransfer(t, u) EXCEPT !.status = s]
<1>1. f \in Transfer BY RowFacts DEF Transfer
<1>2. StageTransferStatus(r, t, u, s) = [r EXCEPT !.transfer = f] BY DEF StageTransferStatus
<1> HIDE DEF f
<1> QED BY <1>1, <1>2 DEF TxType, SameButTransfer

LEMMA ProgressStaged ==
    ASSUME Typed, NEW t \in Threads, NEW u \in Uploads, NEW r \in TxType
    PROVE  LET q == StageProgress(r, t, u)
           IN  q \in TxType /\ SameButTransfer(q, r)
<1> DEFINE row == IF r.transfer # NoTransfer THEN r.transfer ELSE FindTransfer(t, u)
           f == [row EXCEPT !.accepted = @ + 1]
<1>1. row \in Transfer BY RowFacts DEF TxType
<1>2. StageProgress(r, t, u) = [r EXCEPT !.transfer = f] BY DEF StageProgress
<1> HIDE DEF row
<1>3. f \in Transfer BY <1>1 DEF Transfer
<1> HIDE DEF f
<1> QED BY <1>2, <1>3 DEF TxType, SameButTransfer

LEMMA FileStaged ==
    ASSUME Typed, NEW t \in Threads, NEW r \in TxType, NEW old, NEW new \in FileStatus
    PROVE  LET q == StageFileStatus(r, t, old, new)
           IN  /\ q \in TxType /\ q.file \in {FindFile(t), new} /\ q.chunk = r.chunk
               /\ q.versions = r.versions /\ q.events = r.events
<1> DEFINE f == IF FindFile(t) = old THEN new ELSE FindFile(t)
<1>1. f \in FileStatus /\ f \in {FindFile(t), new} BY RowFacts
<1>2. StageFileStatus(r, t, old, new) = [r EXCEPT !.file = f] BY DEF StageFileStatus
<1> HIDE DEF f
<1> QED BY <1>1, <1>2 DEF TxType

(* A copy of the file row that says available was taken from such a row. *)
LEMMA FileFound ==
    ASSUME Inv, NEW t \in Threads, ~Publishing(call[t])
    PROVE  FindFile(t) = "available" => DOMAIN versionRow # {}
<1>1. Copies(call[t], tx[t]) /\ (fileRow = "available" => DOMAIN versionRow # {})
  BY DEF Inv, Works, Stored
<1> QED BY <1>1 DEF FindFile, Copies

LEMMA EventStaged ==
    ASSUME NEW r \in TxType, NEW type \in EventType, NEW of \in Subject \cup {NoSubject}
    PROVE  LET q == StageEvent(r, type, of)
           IN  /\ q \in TxType /\ q.file = r.file /\ q.chunk = r.chunk
               /\ q.versions = r.versions
               /\ r.events = <<>> => q.events = <<Pending(type, of)>>
<1> DEFINE e == Append(r.events, Pending(type, of))
<1>1. Pending(type, of) \in Event /\ r.events \in Seq(Event) BY DEF Pending, Event, TxType
<1>2. e \in Seq(Event) /\ (r.events = <<>> => e = <<Pending(type, of)>>)
  <2>1. PICK p : p = Pending(type, of) OBVIOUS
  <2>2. Append(r.events, p) \in Seq(Event) BY <1>1, <2>1
  <2>3. Append(<<>>, p) = <<p>> OBVIOUS
  <2>4. r.events = <<>> => Append(r.events, p) = <<p>> BY <2>3, Zenon
  <2> QED BY <2>1, <2>2, <2>4, Zenon
<1>3. StageEvent(r, type, of) = [r EXCEPT !.events = e] BY DEF StageEvent, Pending
<1> HIDE DEF e
<1> QED BY <1>2, <1>3 DEF TxType

-----------------------------------------------------------------------------
(* Calls that begin                                                        *)

(* A call that neither finalises nor downloads goes on. *)
LEMMA GoStep ==
    ASSUME Inv, NEW t \in Threads, NEW c \in CallType, NEW r \in TxType, Moves(t, c, r),
           call[t].op \notin {"finalize", "download"}, c.op \notin {"finalize", "download"},
           Uses(c) => Uses(call[t]), UNCHANGED Rest, UNCHANGED <<lock, answered>>,
           Fits(c, r), Placed(c, r), r.file = "available" => DOMAIN versionRow # {}
    PROVE  Inv'
<1>1. Quiet BY RestQuiet
<1>2. Lock(t, c) /\ ~Publishing(c) /\ ~Publishing(call[t]) /\ ~Inserting(c)
  BY DEF Lock, Holds, Publishing, Inserting
<1>3. DOMAIN r.versions = {} BY <1>2 DEF Fits
<1>4. Works(c, r) /\ Alone(c, r) BY <1>3, PlainWorks
<1> QED BY <1>1, <1>2, <1>4, QuietStep

LEMMA CreateFileUploadStep ==
    ASSUME Inv, NEW t \in Threads, CreateFileUpload(t)
    PROVE  Inv'
<1> DEFINE i == [NoTx EXCEPT !.file = "created"]
           r == StageEvent(i, "FILE_CREATED", NoSubject)
           c == [Idle EXCEPT !.op = "create", !.at = "commit file"]
<1>1. call[t] = Idle /\ Typed BY DEF CreateFileUpload, Free, Inv, Local
<1>2. tx[t] = NoTx BY <1>1, Blanks DEF Inv, Local, Fits, Blank
<1>3. i \in TxType /\ i.file = "created" /\ i.chunk = <<>> /\ i.versions = <<>> /\ i.events = <<>>
  BY "created" \in FileStatus, Blanks DEF TxType, NoTx, FileStatus
<1>4. tx' = [tx EXCEPT ![t] = r] /\ call' = [call EXCEPT ![t] = c]
  BY <1>2 DEF CreateFileUpload, CreateFile, InsertFile, Start
<1>5. UNCHANGED Rest /\ UNCHANGED <<lock, answered>> BY DEF CreateFileUpload, Rest
<1> HIDE DEF i
<1>6. "FILE_CREATED" \in EventType \ {"FILE_AVAILABLE"} BY DEF EventType
<1>7. /\ r \in TxType /\ r.file = "created" /\ r.chunk = <<>> /\ r.versions = <<>>
      /\ r.events = <<Pending("FILE_CREATED", NoSubject)>>
  BY <1>3, <1>6, EventStaged
<1>8. c \in CallType /\ c.op = "create" /\ c.at = "commit file" BY Names, Blanks DEF CallType, Idle
<1>9. Moves(t, c, r) BY <1>4 DEF Moves
<1> HIDE DEF r, c
<1>10. DOMAIN r.versions = {} BY <1>7, NoRows
<1>11. Fits(c, r) /\ Placed(c, r)
  BY <1>6, <1>7, <1>8, <1>10 DEF Fits, Blank, Recording, Inserting, Publishing, Placed, Unremarkable
<1> QED BY <1>1, <1>5, <1>7, <1>8, <1>9, <1>11, Blanks, GoStep DEF Uses

LEMMA BeginStep ==
    ASSUME Inv, NEW t \in Threads, Begin(t)
    PROVE  Inv'
<1> USE Blanks
<1>1. CASE CreateFileUpload(t) BY <1>1, CreateFileUploadStep
<1>2. ASSUME NEW u \in Uploads, FinalizeFileUpload(t, u) PROVE Inv'
  <2> DEFINE c == [Idle EXCEPT !.op = "finalize", !.upload = u, !.at = "lock"]
  <2>1. c \in CallType /\ c.op = "finalize" /\ c.at = "lock" /\ c.upload = u BY Names DEF CallType, Idle
  <2>2. call[t] = Idle /\ Start(t, c) /\
        UNCHANGED <<storeVars, objectVars, tx, lock, lapsed, relay, audited, recorded, answered, served>>
    BY <1>2 DEF FinalizeFileUpload, Free
  <2> HIDE DEF c
  <2>3. Created(u) BY <1>2 DEF FinalizeFileUpload, Created, NoTransfer
  <2> QED BY <2>1, <2>2, <2>3, StartStep DEF Blank, Holds, Uses
<1>3. ASSUME NEW u \in Uploads, CancelFileUpload(t, u) PROVE Inv'
  <2> DEFINE c == [Idle EXCEPT !.op = "cancel", !.upload = u, !.at = "stage"]
  <2>1. c \in CallType /\ c.op = "cancel" /\ c.at = "stage" /\ c.upload = u BY Names DEF CallType, Idle
  <2>2. call[t] = Idle /\ Start(t, c) /\
        UNCHANGED <<storeVars, objectVars, tx, lock, lapsed, relay, audited, recorded, answered, served>>
    BY <1>3 DEF CancelFileUpload, Free
  <2> HIDE DEF c
  <2> QED BY <2>1, <2>2, StartStep DEF Blank, Holds, Uses
<1>4. CASE EvaluateAndExpireFiles(t)
  <2> DEFINE c == [Idle EXCEPT !.op = "expire", !.at = "stage", !.file = fileRow]
  <2>1. c \in CallType /\ c.op = "expire" /\ c.at = "stage"
    BY Names DEF CallType, Idle, Inv, Local, Typed
  <2>2. call[t] = Idle /\ Start(t, c) /\
        UNCHANGED <<storeVars, objectVars, tx, lock, lapsed, relay, audited, recorded, answered, served>>
    BY <1>4 DEF EvaluateAndExpireFiles, Free
  <2> HIDE DEF c
  <2> QED BY <2>1, <2>2, StartStep DEF Blank, Holds, Uses
<1>5. ASSUME NEW u \in Uploads, NEW k \in Chunks, NEW x \in Contents, UploadChunk(t, u, k, x) PROVE Inv'
  <2> DEFINE at == IF Lapsing(transferRow[u].status) THEN "expire" ELSE "find"
             c == [Idle EXCEPT !.op = "chunk", !.upload = u, !.chunk = k, !.content = x, !.at = at]
  <2>1. c \in CallType /\ c.op = "chunk" /\ c.upload = u /\ c.chunk = k /\ c.content = x /\ c.at = at
    BY Names DEF CallType, Idle
  <2>2. at \in {"expire", "find"} OBVIOUS
  <2>3. call[t] = Idle /\ TryReserve /\ Start(t, c) /\
        UNCHANGED <<storeVars, objectVars, tx, lock, lapsed, relay, audited, recorded, answered, served>>
    BY <1>5 DEF UploadChunk, Free
  <2> HIDE DEF c, at
  <2>4. Blank(c) /\ ~Holds(c) /\ c.at # "record" BY <2>1, <2>2 DEF Blank, Holds
  <2> QED BY <2>1, <2>3, <2>4, StartStep
<1>6. CASE DeleteFile(t)
  <2> DEFINE c == [Idle EXCEPT !.op = "delete", !.at = "stage", !.file = fileRow]
  <2>1. c \in CallType /\ c.op = "delete" /\ c.at = "stage"
    BY Names DEF CallType, Idle, Inv, Local, Typed
  <2>2. call[t] = Idle /\ Start(t, c) /\
        UNCHANGED <<storeVars, objectVars, tx, lock, lapsed, relay, audited, recorded, answered, served>>
    BY <1>6 DEF DeleteFile, Free
  <2> HIDE DEF c
  <2> QED BY <2>1, <2>2, StartStep DEF Blank, Holds, Uses
<1>7. CASE DownloadChunk(t)
  <2> DEFINE c == [Idle EXCEPT !.op = "download", !.at = "version"]
  <2>1. c \in CallType /\ c.op = "download" /\ c.at = "version" BY Names DEF CallType, Idle
  <2>2. call[t] = Idle /\ Start(t, c) /\
        UNCHANGED <<storeVars, objectVars, tx, lock, lapsed, relay, audited, recorded, answered, served>>
    BY <1>7 DEF DownloadChunk, Free
  <2> HIDE DEF c
  <2> QED BY <2>1, <2>2, StartStep DEF Blank, Holds, Uses
<1> QED BY <1>1, <1>2, <1>3, <1>4, <1>5, <1>6, <1>7 DEF Begin

-----------------------------------------------------------------------------
(* Steps that leave the call                                               *)

LEMMA LeaveStep ==
    ASSUME Inv, NEW t \in Threads, Moves(t, Idle, NoTx), Quiet, ~Publishing(call[t]),
           \/ lock' = lock /\ ~Holds(call[t])
           \/ lock' = lock \ {t},
           answered' => answered \/ DOMAIN versionRow # {}
    PROVE  Inv'
<1>1. Idle \in CallType /\ NoTx \in TxType /\ Idle.op = "idle" BY Blanks
<1>2. Fits(Idle, NoTx) /\ ~Publishing(Idle) BY <1>1, BlankFits DEF Blank
<1>3. Lock(t, Idle) /\ ~Uses(Idle) BY <1>1 DEF Lock, Holds, Uses
<1>4. Works(Idle, NoTx) /\ Alone(Idle, NoTx) BY <1>1, Blanks, PlainWorks DEF Placed
<1> QED BY <1>1, <1>2, <1>3, <1>4, QuietStep

(* A call with nothing in its transaction leaves with nothing in it. *)
LEMMA BlankLeaves ==
    ASSUME Inv, NEW t \in Threads, Leave(t), Blank(call[t]), UNCHANGED <<tx, lock, answered>>, UNCHANGED Rest,
           ~Holds(call[t])
    PROVE  Inv'
<1>1. tx[t] = NoTx /\ Typed BY DEF Inv, Local, Fits
<1>2. Moves(t, Idle, NoTx) BY <1>1, SameTx, LeaveMoves
<1>3. ~Publishing(call[t]) BY DEF Holds, Publishing
<1> QED BY <1>2, <1>3, RestQuiet, LeaveStep

LEMMA FinalizeLeaves ==
    ASSUME Inv, NEW t \in Threads, LeaveFinalize(t), UNCHANGED Rest,
           ~Publishing(call[t]), answered' => answered \/ DOMAIN versionRow # {}
    PROVE  Inv'
<1>1. Leave(t) /\ lock' = lock \ {t} /\ tx' = [tx EXCEPT ![t] = NoTx] /\ Typed
  BY DEF LeaveFinalize, Abort, Inv, Local
<1>2. Moves(t, Idle, NoTx) BY <1>1, LeaveMoves
<1> QED BY <1>1, <1>2, RestQuiet, LeaveStep

-----------------------------------------------------------------------------
(* Creating, uploading, cancelling, deleting and expiring                  *)

LEMMA CreateSessionStep ==
    ASSUME Inv, NEW t \in Threads, CreateSession(t)
    PROVE  Inv'
<1>1. call[t].op = "create" /\ call[t].at = "session" /\ Typed
  BY DEF CreateSession, At, Inv, Local
<1>2. tx[t] = NoTx BY <1>1 DEF Inv, Local, Fits, Blank
<1>3. Moves(t, Idle, NoTx) BY <1>1, <1>2, SameTx, LeaveMoves DEF CreateSession
<1>4. [status |-> "created", accepted |-> 0] \in Transfer
  BY DEF Transfer, TransferStatus
<1>5. /\ transferRow' \in [Uploads -> Transfer]
      /\ \A u \in Uploads : transferRow[u] # NoTransfer => transferRow'[u] # NoTransfer
  <2>1. CASE UNCHANGED transferRow BY <1>1, <2>1 DEF Typed
  <2>2. ASSUME NEW u \in Uploads, transferRow[u] = NoTransfer,
               transferRow' = [transferRow EXCEPT ![u] = [status |-> "created", accepted |-> 0]]
        PROVE  <1>5!1 /\ <1>5!2
    BY <1>1, <1>4, <2>2 DEF Typed
  <2> QED BY <2>1, <2>2 DEF CreateSession
<1>6. Quiet /\ UNCHANGED <<lock, answered>> BY <1>5 DEF CreateSession, Quiet, objectVars
<1> QED BY <1>1, <1>3, <1>6, LeaveStep DEF Holds, Publishing

(* What a call that stores a chunk works on. *)
LEMMA ChunkCall ==
    ASSUME Inv, NEW t \in Threads, call[t].op = "chunk"
    PROVE  /\ Typed /\ call[t].upload \in Uploads
           /\ call[t].chunk \in Chunks /\ call[t].content \in Contents
           /\ ~Publishing(call[t]) /\ Fits(call[t], tx[t]) /\ tx[t] \in TxType
           /\ tx[t].file = "available" => DOMAIN versionRow # {}
<1>1. Typed /\ Fits(call[t], tx[t]) /\ Works(call[t], tx[t]) BY DEF Inv, Local
<1>2. ~Publishing(call[t]) BY DEF Publishing
<1>3. tx[t].file = "available" => DOMAIN versionRow # {} BY <1>1, <1>2 DEF Works, Copies
<1> QED BY <1>1, <1>2, <1>3, RowFacts DEF Fits

LEMMA StageExpiredStep ==
    ASSUME Inv, NEW t \in Threads, StageExpired(t)
    PROVE  Inv'
<1> DEFINE u == call[t].upload
           r == StageTransferStatus(NoTx, t, u, "expired")
           c == To(call[t], "commit")
<1>1. call[t].op = "chunk" /\ call[t].at = "expire" BY DEF StageExpired, At
<1>2. Typed /\ u \in Uploads /\ call[t].chunk \in Chunks /\ call[t].content \in Contents BY <1>1, ChunkCall
<1>3. tx[t] = NoTx BY <1>1 DEF Inv, Local, Fits, Blank
<1>4. tx' = [tx EXCEPT ![t] = r] /\ Goto(t, "commit") BY <1>3 DEF StageExpired, Upload
<1>5. UNCHANGED Rest /\ UNCHANGED <<lock, answered>> BY DEF StageExpired, Rest
<1>6. r \in TxType /\ SameButTransfer(r, NoTx)
  BY <1>2, Blanks, TransferStaged, "expired" \in TransferStatus DEF TransferStatus
<1>7. /\ c \in CallType /\ c.op = "chunk" /\ c.at = "commit"
      /\ c.upload \in Uploads /\ c.chunk \in Chunks /\ c.content \in Contents
  <2>1. "commit" \in Ats BY DEF Ats
  <2> QED BY <1>1, <1>2, <2>1, GoTo
<1>8. Moves(t, c, r) BY <1>2, <1>4, GotoMoves
<1> HIDE DEF r, c
<1>9. r.file # "available" /\ r.chunk = <<>> /\ DOMAIN r.versions = {} /\ r.events = <<>>
  BY <1>6, Blanks DEF SameButTransfer
<1>10. Fits(c, r) /\ Placed(c, r)
  BY <1>7, <1>9 DEF Fits, Blank, Recording, Inserting, Publishing, Placed, Unremarkable
<1> QED BY <1>1, <1>5, <1>6, <1>7, <1>8, <1>9, <1>10, GoStep DEF Uses

(* A chunk call that has written nothing yet goes on to read or to put. *)
LEMMA ChunkReads ==
    ASSUME Inv, NEW t \in Threads, call[t].op = "chunk", Blank(call[t]), NEW c \in CallType, c.op = "chunk",
           c.at \in {"expire", "list", "put"}, c.upload = call[t].upload, c.chunk = call[t].chunk,
           c.content = call[t].content, call' = [call EXCEPT ![t] = c],
           UNCHANGED Rest, UNCHANGED <<tx, lock, answered>>
    PROVE  Inv'
<1>1. Typed /\ call[t].upload \in Uploads /\ call[t].chunk \in Chunks /\ call[t].content \in Contents
  BY ChunkCall
<1>2. tx[t] = NoTx BY DEF Inv, Local, Fits
<1>3. Moves(t, c, NoTx) BY <1>1, <1>2, SameTx DEF Moves
<1>4. Blank(c) BY DEF Blank
<1>5. Fits(c, NoTx) /\ Placed(c, NoTx) BY <1>1, <1>4, BlankFits, Blanks DEF Placed
<1> QED BY <1>3, <1>5, Blanks, GoStep DEF Uses

LEMMA StoreChunkFindsStep ==
    ASSUME Inv, NEW t \in Threads, StoreChunkFinds(t)
    PROVE  Inv'
<1> DEFINE row == transferRow[call[t].upload]
<1>1. call[t].op = "chunk" /\ call[t].at = "find" BY DEF StoreChunkFinds, At
<1>2. Typed /\ call[t].upload \in Uploads /\ Blank(call[t]) BY <1>1, ChunkCall DEF Blank
<1>3. UNCHANGED Rest /\ UNCHANGED <<tx, lock, answered>> BY DEF StoreChunkFinds, Rest
<1>4. CASE row.status \in {"cancelled", "expired", "completed"}
  <2>1. Leave(t) BY <1>4 DEF StoreChunkFinds, Upload
  <2> QED BY <2>1, <1>1, <1>2, <1>3, BlankLeaves DEF Holds
<1>5. CASE ~(row.status \in {"cancelled", "expired", "completed"})
  <2> DEFINE at == IF "lease" \in lapsed THEN "expire" ELSE "list"
             f == [row EXCEPT !.accepted = 0]
             c == [call[t] EXCEPT !.at = at, !.transfer = f]
  <2>1. call' = [call EXCEPT ![t] = c] BY <1>2, <1>5 DEF StoreChunkFinds, Upload, Typed
  <2>2. f \in Transfer /\ at \in {"expire", "list"} /\ at \in Ats
    BY <1>2, Names DEF Typed, Transfer
  <2> HIDE DEF f, at
  <2>3. /\ c \in CallType /\ c.op = "chunk" /\ c.at = at /\ c.upload = call[t].upload
        /\ c.chunk = call[t].chunk /\ c.content = call[t].content
    BY <1>1, <1>2, <2>2, RowFacts DEF CallType
  <2> HIDE DEF c
  <2> QED BY <1>1, <1>2, <1>3, <2>1, <2>2, <2>3, ChunkReads
<1> QED BY <1>4, <1>5

LEMMA ListChunksStep ==
    ASSUME Inv, NEW t \in Threads, ListChunks(t)
    PROVE  Inv'
<1> DEFINE c == To(call[t], "put")
<1>1. call[t].op = "chunk" /\ call[t].at = "list" BY DEF ListChunks, At
<1>2. Typed /\ Blank(call[t]) BY <1>1, ChunkCall DEF Blank
<1>3. UNCHANGED Rest /\ UNCHANGED <<tx, lock, answered>> BY DEF ListChunks, Rest
<1>4. CASE Leave(t) BY <1>1, <1>2, <1>3, <1>4, BlankLeaves DEF Holds
<1>5. CASE Goto(t, "put")
  <2>1. /\ c \in CallType /\ c.op = "chunk" /\ c.at = "put" /\ c.upload = call[t].upload
        /\ c.chunk = call[t].chunk /\ c.content = call[t].content
    <3>1. "put" \in Ats BY DEF Ats
    <3> QED BY <1>1, <1>2, <3>1, GoTo
  <2>2. call' = [call EXCEPT ![t] = c] BY <1>2, <1>5 DEF Goto, To, Typed
  <2> HIDE DEF c
  <2> QED BY <1>1, <1>2, <1>3, <2>1, <2>2, ChunkReads
<1> QED BY <1>4, <1>5 DEF ListChunks

LEMMA RecordChunkStep ==
    ASSUME Inv, NEW t \in Threads, RecordChunk(t)
    PROVE  Inv'
<1> DEFINE c == To(call[t], "progress")
           row == <<call[t].upload, call[t].chunk, call[t].content>>
           r == [NoTx EXCEPT !.chunk = row]
<1>1. call[t].op = "chunk" /\ call[t].at = "record" BY DEF RecordChunk, At
<1>2. /\ Typed /\ Blank(call[t]) /\ call[t].upload \in Uploads
      /\ call[t].chunk \in Chunks /\ call[t].content \in Contents
  BY <1>1, ChunkCall DEF Blank
<1>3. UNCHANGED Rest /\ UNCHANGED <<lock, answered>> BY DEF RecordChunk, Rest
<1>4. CASE Leave(t) /\ UNCHANGED tx BY <1>1, <1>2, <1>3, <1>4, BlankLeaves DEF Holds
<1>5. CASE /\ tx' = [tx EXCEPT ![t] = StageChunk(@, Upload(t), call[t].chunk, call[t].content)]
           /\ Goto(t, "progress")
  <2>1. /\ c \in CallType /\ c.op = "chunk" /\ c.at = "progress" /\ c.upload = call[t].upload
        /\ c.chunk = call[t].chunk /\ c.content = call[t].content
    <3>1. "progress" \in Ats BY DEF Ats
    <3> QED BY <1>1, <1>2, <3>1, GoTo
  <2>2. tx[t] = NoTx BY <1>2 DEF Inv, Local, Fits
  <2>3. tx' = [tx EXCEPT ![t] = r] BY <1>5, <2>2 DEF StageChunk, Upload
  <2>4. row \in Uploads \X Chunks \X Contents BY <1>2
  <2>5. Moves(t, c, r) BY <1>2, <1>5, <2>3, GotoMoves
  <2>6. row = <<c.upload, c.chunk, c.content>> BY <2>1
  <2> HIDE DEF row
  <2>7. r \in TxType /\ r.chunk = row /\ r.file = "absent" /\ r.versions = <<>> /\ r.events = <<>>
    BY <2>4, Blanks DEF TxType, NoTx
  <2>8. Published(call[t].upload) \/ staged[call[t].upload][call[t].chunk] # None
    BY <1>1 DEF Inv, Works, Placed
  <2> HIDE DEF c, r
  <2>9. DOMAIN r.versions = {} BY <2>7, NoRows
  <2>10. Fits(c, r) /\ Placed(c, r)
    BY <1>2, <2>1, <2>6, <2>7, <2>8, <2>9
    DEF Fits, Blank, Recording, Inserting, Publishing, Placed, Unremarkable
  <2> QED BY <1>1, <1>3, <2>1, <2>5, <2>7, <2>10, GoStep DEF Uses
<1> QED BY <1>4, <1>5 DEF RecordChunk

(* A chunk that goes on keeps what it has recorded. *)
LEMMA ChunkGoes ==
    ASSUME Inv, NEW t \in Threads, Recording(call[t]),
           NEW at \in {"file", "count", "commit"}, NEW r \in TxType, r.chunk = tx[t].chunk,
           r.versions = tx[t].versions, r.events = tx[t].events,
           r.file = "available" => DOMAIN versionRow # {},
           tx' = [tx EXCEPT ![t] = r], Goto(t, at), UNCHANGED Rest, UNCHANGED <<lock, answered>>
    PROVE  Inv'
<1> DEFINE c == To(call[t], at)
<1>1. Typed /\ at \in Ats /\ call[t].op = "chunk" BY DEF Inv, Local, Ats, Recording
<1>2. /\ c \in CallType /\ c.op = "chunk" /\ c.at = at /\ c.upload = call[t].upload
      /\ c.chunk = call[t].chunk /\ c.content = call[t].content
  BY <1>1, GoTo
<1>3. Moves(t, c, r) BY <1>1, GotoMoves
<1>4. Fits(call[t], tx[t]) /\ Placed(call[t], tx[t]) BY DEF Inv, Local, Works
<1> HIDE DEF c
<1>5. Recording(c) /\ ~Blank(c) /\ ~Inserting(c) /\ ~Publishing(c)
  BY <1>2 DEF Recording, Blank, Inserting, Publishing
<1>6. ~Inserting(call[t]) BY <1>1 DEF Inserting
<1>7. Fits(c, r) BY <1>1, <1>2, <1>4, <1>5, <1>6 DEF Fits
<1>8. Placed(c, r) BY <1>2, <1>4 DEF Placed
<1> QED BY <1>1, <1>2, <1>3, <1>7, <1>8, GoStep DEF Uses

LEMMA ChunkProgressStep ==
    ASSUME Inv, NEW t \in Threads, ChunkProgress(t)
    PROVE  Inv'
<1> DEFINE u == call[t].upload
<1>1. Recording(call[t]) /\ call[t].op = "chunk" BY DEF ChunkProgress, At, Recording
<1>2. /\ Typed /\ u \in Uploads /\ tx[t] \in TxType
      /\ tx[t].file = "available" => DOMAIN versionRow # {}
  BY <1>1, ChunkCall
<1>3. UNCHANGED Rest /\ UNCHANGED <<lock, answered>> BY DEF ChunkProgress, Rest
<1>4. CASE call[t].transfer.status = "created"
  <2> DEFINE q == StageTransferStatus(tx[t], t, u, "transferring")
             r == StageProgress(q, t, u)
  <2>1. q \in TxType /\ SameButTransfer(q, tx[t])
    BY <1>2, TransferStaged, "transferring" \in TransferStatus DEF TransferStatus
  <2>2. tx' = [tx EXCEPT ![t] = r] /\ Goto(t, "file") BY <1>2, <1>4 DEF ChunkProgress, Upload, Typed
  <2> HIDE DEF q
  <2>3. r \in TxType /\ SameButTransfer(r, q) BY <1>2, <2>1, ProgressStaged
  <2> HIDE DEF r
  <2> QED BY <1>1, <1>2, <1>3, <2>1, <2>2, <2>3, ChunkGoes DEF SameButTransfer
<1>5. CASE call[t].transfer.status # "created"
  <2> DEFINE r == StageProgress(tx[t], t, u)
  <2>1. tx' = [tx EXCEPT ![t] = r] /\ Goto(t, "count") BY <1>2, <1>5 DEF ChunkProgress, Upload, Typed
  <2>2. r \in TxType /\ SameButTransfer(r, tx[t]) BY <1>2, ProgressStaged
  <2> HIDE DEF r
  <2> QED BY <1>1, <1>2, <1>3, <2>1, <2>2, ChunkGoes DEF SameButTransfer
<1> QED BY <1>4, <1>5

LEMMA ChunkStartsFileStep ==
    ASSUME Inv, NEW t \in Threads, ChunkStartsFile(t)
    PROVE  Inv'
<1> DEFINE r == StageFileStatus(tx[t], t, "created", "uploading")
<1>1. Recording(call[t]) /\ call[t].op = "chunk" BY DEF ChunkStartsFile, At, Recording
<1>2. Typed /\ tx[t] \in TxType /\ ~Publishing(call[t]) BY <1>1, ChunkCall
<1>3. UNCHANGED Rest /\ UNCHANGED <<lock, answered>> BY DEF ChunkStartsFile, Rest
<1>4. tx' = [tx EXCEPT ![t] = r] /\ Goto(t, "count") BY <1>2 DEF ChunkStartsFile, Typed
<1>5. /\ r \in TxType /\ r.file \in {FindFile(t), "uploading"} /\ r.chunk = tx[t].chunk
      /\ r.versions = tx[t].versions /\ r.events = tx[t].events
  BY <1>2, FileStaged, "uploading" \in FileStatus DEF FileStatus
<1> HIDE DEF r
<1>6. r.file = "available" => DOMAIN versionRow # {} BY <1>2, <1>5, FileFound
<1> QED BY <1>1, <1>3, <1>4, <1>5, <1>6, ChunkGoes

LEMMA CountChunksStep ==
    ASSUME Inv, NEW t \in Threads, CountChunks(t)
    PROVE  Inv'
<1> DEFINE u == call[t].upload
           q == StageTransferStatus(tx[t], t, u, "finalizing")
           r == IF CountAcceptedChunks(t, u) >= Cardinality(Chunks) THEN q ELSE tx[t]
<1>1. Recording(call[t]) /\ call[t].op = "chunk" BY DEF CountChunks, At, Recording
<1>2. /\ Typed /\ u \in Uploads /\ tx[t] \in TxType
      /\ tx[t].file = "available" => DOMAIN versionRow # {}
  BY <1>1, ChunkCall
<1>3. UNCHANGED Rest /\ UNCHANGED <<lock, answered>> BY DEF CountChunks, Rest
<1>4. q \in TxType /\ SameButTransfer(q, tx[t])
  BY <1>2, TransferStaged, "finalizing" \in TransferStatus DEF TransferStatus
<1>5. tx' = [tx EXCEPT ![t] = r] /\ Goto(t, "commit") BY <1>2 DEF CountChunks, Upload, Typed
<1> HIDE DEF q
<1>6. r \in TxType /\ SameButTransfer(r, tx[t]) BY <1>2, <1>4 DEF SameButTransfer
<1> HIDE DEF r
<1> QED BY <1>1, <1>2, <1>3, <1>5, <1>6, ChunkGoes DEF SameButTransfer

(* A call that wrote its one event has everything ready to commit. *)
LEMMA ReadyStep ==
    ASSUME Inv, NEW t \in Threads, call[t].op \in {"cancel", "delete", "expire"},
           NEW r \in TxType, r.file = "available" => DOMAIN versionRow # {}, r.chunk = <<>>,
           r.versions = <<>>, Unremarkable(r.events),
           tx' = [tx EXCEPT ![t] = r], Goto(t, "commit"), UNCHANGED Rest, UNCHANGED <<lock, answered>>
    PROVE  Inv'
<1> DEFINE c == To(call[t], "commit")
<1>1. Typed BY DEF Inv, Local
<1>2. c \in CallType /\ c.op = call[t].op /\ c.at = "commit" /\ c.upload = call[t].upload
  <2>1. "commit" \in Ats BY DEF Ats
  <2> QED BY <1>1, <2>1, GoTo
<1>3. Moves(t, c, r) BY <1>1, GotoMoves
<1> HIDE DEF c
<1>4. ~Blank(c) /\ ~Inserting(c) /\ ~Publishing(c) BY <1>2 DEF Blank, Inserting, Publishing
<1>5. DOMAIN r.versions = {} BY NoRows
<1>6. c.op = "cancel" => c.upload \in Uploads BY <1>2 DEF Inv, Local, Fits
<1>7. Fits(c, r) /\ Placed(c, r) BY <1>2, <1>4, <1>5, <1>6 DEF Fits, Placed
<1> QED BY <1>2, <1>3, <1>7, GoStep DEF Uses

LEMMA StageCancelledStep ==
    ASSUME Inv, NEW t \in Threads, StageCancelled(t)
    PROVE  Inv'
<1> DEFINE r == StageTransferStatus(NoTx, t, call[t].upload, "cancelled")
<1>1. call[t].op = "cancel" /\ call[t].at = "stage" /\ Typed
  BY DEF StageCancelled, At, Inv, Local
<1>2. tx[t] = NoTx /\ call[t].upload \in Uploads BY <1>1 DEF Inv, Local, Fits, Blank
<1>3. tx' = [tx EXCEPT ![t] = r] /\ Goto(t, "commit") BY <1>2 DEF StageCancelled, Upload
<1>4. UNCHANGED Rest /\ UNCHANGED <<lock, answered>> BY DEF StageCancelled, Rest
<1>5. r \in TxType /\ SameButTransfer(r, NoTx)
  BY <1>1, <1>2, Blanks, TransferStaged, "cancelled" \in TransferStatus DEF TransferStatus
<1> HIDE DEF r
<1> QED BY <1>1, <1>3, <1>4, <1>5, Blanks, ReadyStep DEF SameButTransfer, Unremarkable

(* Staging a status of the file, with or without its event. *)
LEMMA StatusReady ==
    ASSUME Inv, NEW t \in Threads, call[t].op \in {"delete", "expire"}, call[t].at = "stage",
           NEW new \in FileStatus \ {"available"}, NEW e \in EventType \ {"FILE_AVAILABLE"},
           LET q == StageFileStatus(tx[t], t, call[t].file, new)
           IN  tx' = [tx EXCEPT ![t] = q] \/ tx' = [tx EXCEPT ![t] = StageEvent(q, e, NoSubject)],
           Goto(t, "commit"), UNCHANGED Rest, UNCHANGED <<lock, answered>>
    PROVE  Inv'
<1> DEFINE q == StageFileStatus(NoTx, t, call[t].file, new)
           r == StageEvent(q, e, NoSubject)
<1>1. tx[t] = NoTx /\ Typed /\ ~Publishing(call[t])
  BY DEF Inv, Local, Fits, Blank, Publishing
<1>2. /\ q \in TxType /\ q.file \in {FindFile(t), new} /\ q.chunk = <<>>
      /\ q.versions = <<>> /\ q.events = <<>>
  BY <1>1, Blanks, FileStaged
<1>3. q.file = "available" => DOMAIN versionRow # {} BY <1>1, <1>2, FileFound
<1>4. tx' = [tx EXCEPT ![t] = q] \/ tx' = [tx EXCEPT ![t] = r] BY <1>1
<1> HIDE DEF q
<1>5. /\ r \in TxType /\ r.file = q.file /\ r.chunk = <<>> /\ r.versions = <<>>
      /\ r.events = <<Pending(e, NoSubject)>>
  BY <1>2, EventStaged
<1> HIDE DEF r
<1>6. CASE tx' = [tx EXCEPT ![t] = q] BY <1>2, <1>3, <1>6, ReadyStep DEF Unremarkable
<1>7. CASE tx' = [tx EXCEPT ![t] = r] BY <1>3, <1>5, <1>7, ReadyStep DEF Unremarkable
<1> QED BY <1>4, <1>6, <1>7

LEMMA StageDeletedStep ==
    ASSUME Inv, NEW t \in Threads, StageDeleted(t)
    PROVE  Inv'
<1>1. call[t].op = "delete" /\ call[t].at = "stage" BY DEF StageDeleted, At
<1>2. UNCHANGED Rest /\ UNCHANGED <<lock, answered>> BY DEF StageDeleted, Rest
<1>3. CASE FindFile(t) = call[t].file
  <2>1. "FILE_DELETED" \in EventType \ {"FILE_AVAILABLE"} /\ "deleted" \in FileStatus \ {"available"}
    BY DEF EventType, FileStatus
  <2>2. /\ tx' = [tx EXCEPT ![t] = StageEvent(StageFileStatus(tx[t], t, call[t].file, "deleted"),
                                               "FILE_DELETED", NoSubject)]
        /\ Goto(t, "commit")
    BY <1>3 DEF StageDeleted, Inv, Local, Typed
  <2> QED BY <1>1, <1>2, <2>1, <2>2, StatusReady
<1>4. CASE FindFile(t) # call[t].file
  <2>1. Leave(t) /\ UNCHANGED tx BY <1>4 DEF StageDeleted
  <2> QED BY <2>1, <1>1, <1>2, BlankLeaves DEF Holds, Blank
<1> QED BY <1>3, <1>4

LEMMA StageFileExpiredStep ==
    ASSUME Inv, NEW t \in Threads, StageFileExpired(t)
    PROVE  Inv'
<1>1. call[t].op = "expire" /\ call[t].at = "stage" BY DEF StageFileExpired, At
<1>2. UNCHANGED Rest /\ UNCHANGED <<lock, answered>> /\ Goto(t, "commit") BY DEF StageFileExpired, Rest
<1>3. "FILE_EXPIRED" \in EventType \ {"FILE_AVAILABLE"} /\ "expired" \in FileStatus \ {"available"}
  BY DEF EventType, FileStatus
<1> DEFINE q == StageFileStatus(tx[t], t, call[t].file, "expired")
<1>4. tx' = [tx EXCEPT ![t] = q] \/ tx' = [tx EXCEPT ![t] = StageEvent(q, "FILE_EXPIRED", NoSubject)]
  BY DEF StageFileExpired, Inv, Local, Typed
<1> QED BY <1>1, <1>2, <1>3, <1>4, StatusReady

-----------------------------------------------------------------------------
(* Finalising, up to the version                                           *)

(* The versions are natural numbers: some active one is above the others. *)
LEMMA Newest ==
    ASSUME NEW S, S \subseteq Versions, S # {}
    PROVE  \E v \in S : \A w \in S : w <= v
<1> DEFINE R == OpToRel(<, Nat)
           D == {MaxVersions - v : v \in S}
<1>1. MaxVersions \in Nat /\ Versions = 1..MaxVersions BY FilesAssumption DEF Versions
<1>2. D \subseteq Nat /\ D # {}
  <2>1. \A v \in S : MaxVersions - v \in Nat BY <1>1
  <2>2. PICK v \in S : TRUE OBVIOUS
  <2>3. MaxVersions - v \in D BY <2>2
  <2> QED BY <2>1, <2>3
<1>3. R = {p \in Nat \X Nat : p[1] < p[2]} BY Zenon DEF OpToRel
<1> HIDE DEF D
<1>4. PICK m \in D : \A n \in D : ~ (<<n, m>> \in R) BY <1>2, WFMin, NatLessThanWellFounded
<1> HIDE DEF R
<1>5. ASSUME NEW n \in D PROVE m <= n
  <2>1. m \in Nat /\ n \in Nat BY <1>2
  <2>2. <<n, m>> \in Nat \X Nat BY <2>1
  <2>3. ~ (n < m) BY <1>3, <1>4, <2>2
  <2> QED BY <2>1, <2>3
<1>6. PICK v \in S : m = MaxVersions - v BY <1>4 DEF D
<1>7. ASSUME NEW w \in S PROVE w <= v
  <2>1. MaxVersions - w \in D BY DEF D
  <2>2. MaxVersions - v <= MaxVersions - w BY <1>5, <1>6, <2>1
  <2>3. v \in Nat /\ w \in Nat BY <1>1
  <2> QED BY <1>1, <2>2, <2>3
<1> QED BY <1>7

LEMMA ActiveVersion ==
    ASSUME Inv
    PROVE  /\ FindActiveVersion \in Nat /\ DOMAIN versionRow \subseteq Versions
           /\ FindActiveVersion # 0 => FindActiveVersion \in DOMAIN versionRow
           /\ \A v \in DOMAIN versionRow : versionRow[v].active =>
                v <= FindActiveVersion /\ FindActiveVersion # 0
<1> DEFINE a == {v \in DOMAIN versionRow : versionRow[v].active}
<1>1. a \subseteq DOMAIN versionRow /\ DOMAIN versionRow \subseteq Versions /\ MaxVersions \in Nat
  BY FilesAssumption DEF Inv, Local, Typed, Rows
<1>2. FindActiveVersion = IF a = {} THEN 0 ELSE CHOOSE v \in a : \A w \in a : w <= v
  BY DEF FindActiveVersion
<1>3. \A v \in DOMAIN versionRow : versionRow[v].active => v \in a OBVIOUS
<1> HIDE DEF a
<1>4. CASE a = {} BY <1>1, <1>2, <1>3, <1>4
<1>5. CASE a # {}
  <2>1. \E v \in a : \A w \in a : w <= v BY <1>1, <1>5, Newest
  <2>2. FindActiveVersion \in a /\ \A w \in a : w <= FindActiveVersion BY <1>2, <1>5, <2>1
  <2>3. FindActiveVersion \in 1..MaxVersions BY <1>1, <2>2 DEF Versions
  <2> QED BY <1>1, <1>3, <2>2, <2>3
<1> QED BY <1>4, <1>5

(* What a finalisation between its first statement and the insert has. *)
LEMMA FinalizeCall ==
    ASSUME Inv, NEW t \in Threads, call[t].op = "finalize"
    PROVE  /\ Typed /\ tx[t] \in TxType /\ tx[t].chunk = <<>> /\ Fits(call[t], tx[t])
           /\ call[t].upload \in Uploads /\ Created(call[t].upload)
           /\ Finalizing(call[t]) /\ Copies(call[t], tx[t])
           /\ CreatedOnce => Alone(call[t], tx[t])
           /\ call[t].at \notin {"deactivate", "commit"} =>
                /\ DOMAIN tx[t].versions = {} /\ tx[t].events = <<>> /\ ~Publishing(call[t])
                /\ tx[t].file = "available" => DOMAIN versionRow # {}
<1>1. Fits(call[t], tx[t]) /\ Works(call[t], tx[t]) /\ Typed /\ tx[t] \in TxType
  BY RowFacts DEF Inv, Local
<1>2. CreatedOnce => Alone(call[t], tx[t]) BY DEF Inv, Once
<1>3. Finalizing(call[t]) /\ Copies(call[t], tx[t]) BY <1>1 DEF Works
<1>4. call[t].upload \in Uploads /\ Created(call[t].upload) /\ tx[t].chunk = <<>>
  BY <1>1, <1>3 DEF Finalizing, Fits, Recording
<1>5. ASSUME call[t].at \notin {"deactivate", "commit"}
      PROVE  /\ DOMAIN tx[t].versions = {} /\ tx[t].events = <<>> /\ ~Publishing(call[t])
             /\ tx[t].file = "available" => DOMAIN versionRow # {}
  <2>1. ~Inserting(call[t]) /\ ~Publishing(call[t]) BY <1>5 DEF Inserting, Publishing
  <2> QED BY <1>1, <1>3, <1>5, <2>1 DEF Fits, Copies
<1> QED BY <1>1, <1>2, <1>3, <1>4, <1>5

LEMMA FinalizeGoes ==
    ASSUME Inv, NEW t \in Threads, NEW c \in CallType, NEW r \in TxType, Moves(t, c, r),
           call[t].op = "finalize", c.op = "finalize", c.at \notin {"lock", "commit"},
           call[t].at \notin {"lock", "commit"}, c.upload = call[t].upload, r.chunk = <<>>, Fits(c, r),
           Finalizing(c), Copies(c, r), CreatedOnce => Alone(c, r),
           UNCHANGED Rest, UNCHANGED <<lock, answered>>
    PROVE  Inv'
<1>1. Quiet BY RestQuiet
<1>2. Lock(t, c) /\ ~Publishing(c) /\ ~Publishing(call[t]) BY DEF Lock, Holds, Publishing
<1>3. ~Uses(c) /\ Works(c, r) BY DEF Uses, Works, Downloading, Placed
<1> QED BY <1>1, <1>2, <1>3, QuietStep

(* Up to the choice of the version nothing is claimed of the rows. *)
LEMMA FinalizeReads ==
    ASSUME Inv, NEW t \in Threads, NEW c \in CallType, NEW r \in TxType, Moves(t, c, r),
           call[t].op = "finalize", c.op = "finalize", c.upload = call[t].upload,
           call[t].at \in {"find", "file", "stage", "stage file"},
           c.at \in {"file", "stage", "stage file", "validate"}, Fits(c, r),
           r.file = "available" => DOMAIN versionRow # {},
           UNCHANGED Rest, UNCHANGED <<lock, answered>>
    PROVE  Inv'
<1>1. Created(c.upload) BY FinalizeCall
<1>2. Finalizing(c) BY <1>1 DEF Finalizing
<1>3. DOMAIN r.versions = {} /\ r.chunk = <<>> BY DEF Fits, Inserting, Recording
<1>4. Copies(c, r) /\ Alone(c, r) BY <1>3 DEF Copies, Alone
<1> QED BY <1>2, <1>3, <1>4, FinalizeGoes

LEMMA LockSessionStep ==
    ASSUME Inv, NEW t \in Threads, LockSession(t)
    PROVE  Inv'
<1> DEFINE c == To(call[t], "find")
<1>1. call[t].op = "finalize" /\ call[t].at = "lock" BY DEF LockSession, At
<1>2. Typed /\ call[t].upload \in Uploads /\ Created(call[t].upload) /\ ~Publishing(call[t])
  BY <1>1, FinalizeCall
<1>3. tx[t] = NoTx BY <1>1 DEF Inv, Local, Fits, Blank
<1>4. /\ UNCHANGED Rest /\ UNCHANGED <<tx, answered>> /\ lock' = lock \cup {t} /\ Goto(t, "find")
      /\ \A s \in lock : call[s].upload # call[t].upload
  BY DEF LockSession, Rest, Upload
<1>5. c \in CallType /\ c.op = "finalize" /\ c.at = "find" /\ c.upload = call[t].upload
  <2>1. "find" \in Ats BY DEF Ats
  <2> QED BY <1>1, <1>2, <2>1, GoTo
<1>6. Moves(t, c, NoTx) BY <1>2, <1>3, <1>4, SameTx, GotoMoves
<1> HIDE DEF c
<1>7. Fits(c, NoTx) /\ ~Publishing(c) BY <1>2, <1>5, BlankFits DEF Blank
<1>8. Lock(t, c) /\ ~Uses(c) BY <1>4, <1>5 DEF Lock, Holds, Uses
<1>9. Works(c, NoTx) /\ Alone(c, NoTx)
  BY <1>2, <1>5, Blanks DEF Works, Finalizing, Copies, Downloading, Placed, Alone
<1> QED BY <1>2, <1>4, <1>5, <1>6, <1>7, <1>8, <1>9, Blanks, RestQuiet, QuietStep

LEMMA FinalizeFindsTransferStep ==
    ASSUME Inv, NEW t \in Threads, FinalizeFindsTransfer(t)
    PROVE  Inv'
<1> DEFINE f == transferRow[call[t].upload]
           c == [call[t] EXCEPT !.at = "file", !.transfer = f]
<1>1. call[t].op = "finalize" /\ call[t].at = "find" BY DEF FinalizeFindsTransfer, At
<1>2. Typed /\ call[t].upload \in Uploads BY <1>1, FinalizeCall
<1>3. tx[t] = NoTx BY <1>1 DEF Inv, Local, Fits, Blank
<1>4. UNCHANGED Rest /\ UNCHANGED <<tx, lock, answered>> BY DEF FinalizeFindsTransfer, Rest
<1>5. call' = [call EXCEPT ![t] = c] BY <1>2 DEF FinalizeFindsTransfer, Upload, Typed
<1>6. f \in Transfer /\ "file" \in Ats BY <1>2, Names DEF Typed
<1> HIDE DEF f
<1>7. c \in CallType /\ c.op = "finalize" /\ c.at = "file" /\ c.upload = call[t].upload
  BY <1>1, <1>2, <1>6, RowFacts DEF CallType
<1> HIDE DEF c
<1>8. Moves(t, c, NoTx) BY <1>2, <1>3, <1>4, <1>5, SameTx DEF Moves
<1>9. Fits(c, NoTx) BY <1>2, <1>7, BlankFits DEF Blank
<1> QED BY <1>1, <1>4, <1>7, <1>8, <1>9, Blanks, FinalizeReads

LEMMA FinalizeFindsFileStep ==
    ASSUME Inv, NEW t \in Threads, FinalizeFindsFile(t)
    PROVE  Inv'
<1>1. call[t].op = "finalize" /\ call[t].at = "file" BY DEF FinalizeFindsFile, At
<1>2. Typed /\ call[t].upload \in Uploads /\ ~Publishing(call[t]) BY <1>1, FinalizeCall
<1>3. tx[t] = NoTx BY <1>1 DEF Inv, Local, Fits, Blank
<1>4. UNCHANGED Rest BY DEF FinalizeFindsFile, Rest
<1>5. CASE LeaveFinalize(t) /\ FindActiveVersion # 0
  <2>1. DOMAIN versionRow # {} BY <1>5, ActiveVersion
  <2> QED BY <2>1, <1>2, <1>4, <1>5, FinalizeLeaves
<1>6. CASE LeaveFinalize(t) /\ UNCHANGED answered BY <1>2, <1>4, <1>6, FinalizeLeaves
<1>7. CASE /\ call' = [call EXCEPT ![t].at = "stage", ![t].file = fileRow]
           /\ UNCHANGED <<calls, lock, tx, answered>>
  <2> DEFINE c == [call[t] EXCEPT !.at = "stage", !.file = fileRow]
  <2>1. call' = [call EXCEPT ![t] = c] BY <1>2, <1>7 DEF Typed
  <2>2. c \in CallType /\ c.op = "finalize" /\ c.at = "stage" /\ c.upload = call[t].upload
    <3>1. "stage" \in Ats BY DEF Ats
    <3> QED BY <1>1, <1>2, <3>1, RowFacts DEF CallType, Typed
  <2> HIDE DEF c
  <2>3. Moves(t, c, NoTx) BY <1>2, <1>3, <1>7, <2>1, SameTx DEF Moves
  <2>4. Fits(c, NoTx) BY <1>2, <2>2, BlankFits DEF Blank
  <2> QED BY <1>1, <1>4, <1>7, <2>2, <2>3, <2>4, Blanks, FinalizeReads
<1> QED BY <1>5, <1>6, <1>7 DEF FinalizeFindsFile

LEMMA FinalizeStagesTransferStep ==
    ASSUME Inv, NEW t \in Threads, FinalizeStagesTransfer(t)
    PROVE  Inv'
<1> DEFINE r == StageTransferStatus(NoTx, t, call[t].upload, "finalizing")
           c == To(call[t], "stage file")
<1>1. call[t].op = "finalize" /\ call[t].at = "stage" BY DEF FinalizeStagesTransfer, At
<1>2. Typed /\ call[t].upload \in Uploads BY <1>1, FinalizeCall
<1>3. tx[t] = NoTx BY <1>1 DEF Inv, Local, Fits, Blank
<1>4. tx' = [tx EXCEPT ![t] = r] /\ Goto(t, "stage file") BY <1>3 DEF FinalizeStagesTransfer, Upload
<1>5. UNCHANGED Rest /\ UNCHANGED <<lock, answered>> BY DEF FinalizeStagesTransfer, Rest
<1>6. r \in TxType /\ SameButTransfer(r, NoTx)
  BY <1>2, Blanks, TransferStaged, "finalizing" \in TransferStatus DEF TransferStatus
<1>7. c \in CallType /\ c.op = "finalize" /\ c.at = "stage file" /\ c.upload = call[t].upload
  <2>1. "stage file" \in Ats BY DEF Ats
  <2> QED BY <1>1, <1>2, <2>1, GoTo
<1>8. Moves(t, c, r) BY <1>2, <1>4, GotoMoves
<1> HIDE DEF r, c
<1>9. r.file # "available" /\ r.chunk = <<>> /\ DOMAIN r.versions = {} /\ r.events = <<>>
  BY <1>6, Blanks DEF SameButTransfer
<1>10. Fits(c, r) BY <1>2, <1>7, <1>9 DEF Fits, Blank, Inserting, Publishing
<1> QED BY <1>1, <1>5, <1>6, <1>7, <1>8, <1>9, <1>10, FinalizeReads

LEMMA FinalizeStagesFileStep ==
    ASSUME Inv, NEW t \in Threads, FinalizeStagesFile(t)
    PROVE  Inv'
<1>1. call[t].op = "finalize" /\ call[t].at = "stage file" BY DEF FinalizeStagesFile, At
<1>2. /\ Typed /\ tx[t] \in TxType /\ tx[t].chunk = <<>> /\ DOMAIN tx[t].versions = {}
      /\ tx[t].events = <<>> /\ ~Publishing(call[t]) /\ call[t].upload \in Uploads
  BY <1>1, FinalizeCall
<1>3. UNCHANGED Rest /\ UNCHANGED answered BY DEF FinalizeStagesFile, Rest
<1>4. CASE LeaveFinalize(t) BY <1>2, <1>3, <1>4, FinalizeLeaves
<1>5. CASE ~LeaveFinalize(t)
  <2> DEFINE r == StageFileStatus(tx[t], t, call[t].file, "finalizing")
             c == To(call[t], "validate")
  <2>1. tx' = [tx EXCEPT ![t] = r] /\ Goto(t, "validate") /\ UNCHANGED lock
    BY <1>2, <1>5 DEF FinalizeStagesFile, Typed
  <2>2. /\ r \in TxType /\ r.file \in {FindFile(t), "finalizing"} /\ r.chunk = <<>>
        /\ r.versions = tx[t].versions /\ r.events = <<>>
    BY <1>2, FileStaged, "finalizing" \in FileStatus DEF FileStatus
  <2>3. c \in CallType /\ c.op = "finalize" /\ c.at = "validate" /\ c.upload = call[t].upload
    <3>1. "validate" \in Ats BY DEF Ats
    <3> QED BY <1>1, <1>2, <3>1, GoTo
  <2>4. Moves(t, c, r) BY <1>2, <2>1, GotoMoves
  <2> HIDE DEF r, c
  <2>5. r.file = "available" => DOMAIN versionRow # {} BY <1>2, <2>2, FileFound
  <2>6. Fits(c, r) BY <1>2, <2>2, <2>3 DEF Fits, Blank, Inserting, Publishing
  <2> QED BY <1>1, <1>3, <2>1, <2>2, <2>3, <2>4, <2>5, <2>6, FinalizeReads
<1> QED BY <1>4, <1>5

(* All chunks are recorded: the manifest has a content for each of them. *)
LEMMA ManifestAccepted ==
    ASSUME Inv, NEW u \in Uploads, \A c \in Chunks : chunkRow[u][c] # None
    PROVE  OfOneUpload(chunkRow[u]) /\ chunkRow[u] \in Whole
<1>1. chunkRow[u] \in [Chunks -> Contents \cup {None}] BY DEF Inv, Local, Typed, Cells
<1>2. \A c \in Chunks : chunkRow[u][c] \in Contents BY <1>1
<1>3. chunkRow[u] \in [Chunks -> Contents] BY <1>1, <1>2
<1> QED BY <1>3 DEF OfOneUpload, Whole, Inv, Stored

(* A finalisation goes on with the transaction it has. *)
LEMMA FinalizeWaits ==
    ASSUME Inv, NEW t \in Threads, NEW c \in CallType, call[t].op = "finalize", c.op = "finalize",
           call[t].at \in {"validate", "version", "assemble"}, c.at \in {"version", "assemble", "put"},
           c.upload = call[t].upload, call' = [call EXCEPT ![t] = c], Finalizing(c),
           CreatedOnce /\ c.at # "version" => \A v \in DOMAIN versionRow : v < c.target,
           UNCHANGED Rest, UNCHANGED <<tx, lock, answered>>
    PROVE  Inv'
<1>1. /\ Typed /\ tx[t] \in TxType /\ tx[t].chunk = <<>> /\ DOMAIN tx[t].versions = {}
      /\ tx[t].events = <<>> /\ call[t].upload \in Uploads
      /\ tx[t].file = "available" => DOMAIN versionRow # {}
  BY FinalizeCall
<1>2. Moves(t, c, tx[t]) BY <1>1, SameTx DEF Moves
<1>3. Fits(c, tx[t]) BY <1>1 DEF Fits, Blank, Inserting, Publishing
<1>4. Copies(c, tx[t]) BY <1>1 DEF Copies
<1>5. CreatedOnce => Alone(c, tx[t]) BY <1>1 DEF Alone
<1> QED BY <1>1, <1>2, <1>3, <1>4, <1>5, FinalizeGoes

LEMMA FinalizeValidatesStep ==
    ASSUME Inv, NEW t \in Threads, FinalizeValidates(t)
    PROVE  Inv'
<1>1. call[t].op = "finalize" /\ call[t].at = "validate" BY DEF FinalizeValidates, At
<1>2. Typed /\ ~Publishing(call[t]) /\ call[t].upload \in Uploads /\ Created(call[t].upload)
  BY <1>1, FinalizeCall
<1>3. UNCHANGED Rest /\ UNCHANGED answered BY DEF FinalizeValidates, Rest
<1>4. CASE LeaveFinalize(t) BY <1>2, <1>3, <1>4, FinalizeLeaves
<1>5. CASE ~LeaveFinalize(t)
  <2> DEFINE x == chunkRow[call[t].upload]
             c == [call[t] EXCEPT !.at = "version", !.sum = x]
  <2>1. /\ ValidateFinalization(t) /\ UNCHANGED <<calls, lock, tx>>
        /\ call' = [call EXCEPT ![t].at = "version", ![t].sum = x]
    BY <1>5 DEF FinalizeValidates, Upload
  <2>2. call' = [call EXCEPT ![t] = c] BY <1>2, <2>1 DEF Typed
  <2>3. OfOneUpload(x) /\ x \in Whole
    BY <1>2, <2>1, ManifestAccepted DEF ValidateFinalization, Upload
  <2> HIDE DEF x
  <2>4. c \in CallType /\ c.op = "finalize" /\ c.at = "version" /\ c.sum = x /\ c.upload = call[t].upload
    <3>1. "version" \in Ats BY DEF Ats
    <3> QED BY <1>1, <1>2, <2>3, <3>1, RowFacts DEF CallType
  <2> HIDE DEF c
  <2>5. Finalizing(c) BY <1>2, <2>3, <2>4 DEF Finalizing
  <2> QED BY <1>1, <1>3, <2>1, <2>2, <2>4, <2>5, FinalizeWaits
<1> QED BY <1>4, <1>5

(* A file created once: nobody but the finalisation that holds the lock is *)
(* past it.                                                                *)
LEMMA HolderAlone ==
    ASSUME Inv, CreatedOnce, NEW t \in Threads, Holds(call[t]), NEW s \in Threads, Holds(call[s])
    PROVE  s = t
<1>1. call[t].op = "finalize" /\ call[s].op = "finalize" BY DEF Holds
<1>2. Created(call[t].upload) /\ Created(call[s].upload) BY <1>1, FinalizeCall
<1>3. call[t].upload = call[s].upload BY <1>2 DEF CreatedOnce, Created
<1> QED BY <1>3 DEF Inv, Local, Locked

LEMMA TargetVersionStep ==
    ASSUME Inv, NEW t \in Threads, TargetVersion(t)
    PROVE  Inv'
<1> DEFINE n == FindActiveVersion + 1
           c == [call[t] EXCEPT !.at = "assemble", !.target = n]
<1>1. call[t].op = "finalize" /\ call[t].at = "version" BY DEF TargetVersion, At
<1>2. Typed /\ Created(call[t].upload) /\ Finalizing(call[t]) BY <1>1, FinalizeCall
<1>3. UNCHANGED Rest /\ UNCHANGED <<tx, lock, answered>> BY DEF TargetVersion, Rest
<1>4. n \in Versions /\ n \in Nat
  BY ActiveVersion, FilesAssumption DEF TargetVersion, Versions
<1>5. CreatedOnce => \A v \in DOMAIN versionRow : v < n
  <2> SUFFICES ASSUME CreatedOnce, NEW v \in DOMAIN versionRow PROVE v < n OBVIOUS
  <2>1. ~Deactivated
    <3> SUFFICES ASSUME NEW s \in Threads, Publishing(call[s]) PROVE FALSE BY DEF Deactivated
    <3>1. s = t BY <1>1, HolderAlone DEF Holds, Publishing
    <3> QED BY <1>1, <3>1 DEF Publishing
  <2>2. PICK a \in DOMAIN versionRow : v <= a /\ versionRow[a].active
    BY <2>1 DEF Inv, Once, StoredOnce
  <2>3. a <= FindActiveVersion /\ FindActiveVersion \in Nat BY <2>2, ActiveVersion
  <2>4. v \in Nat /\ a \in Nat BY ActiveVersion, FilesAssumption DEF Versions
  <2> QED BY <2>2, <2>3, <2>4
<1>6. call' = [call EXCEPT ![t] = c] BY <1>2 DEF TargetVersion, Typed
<1> HIDE DEF n
<1>7. /\ c \in CallType /\ c.op = "finalize" /\ c.at = "assemble" /\ c.sum = call[t].sum
      /\ c.target = n /\ c.upload = call[t].upload
  <2>1. "assemble" \in Ats BY DEF Ats
  <2> QED BY <1>1, <1>2, <1>4, <2>1, RowFacts DEF CallType
<1> HIDE DEF c
<1>8. OfOneUpload(c.sum) BY <1>1, <1>2, <1>7 DEF Finalizing
<1>9. Finalizing(c) BY <1>2, <1>4, <1>7, <1>8 DEF Finalizing
<1> QED BY <1>1, <1>3, <1>5, <1>6, <1>7, <1>9, FinalizeWaits

LEMMA FetchChunksStep ==
    ASSUME Inv, NEW t \in Threads, FetchChunks(t)
    PROVE  Inv'
<1>1. call[t].op = "finalize" /\ call[t].at = "assemble" BY DEF FetchChunks, At
<1>2. /\ Typed /\ ~Publishing(call[t]) /\ Finalizing(call[t])
      /\ CreatedOnce => Alone(call[t], tx[t])
  BY <1>1, FinalizeCall
<1>3. UNCHANGED Rest /\ UNCHANGED answered BY DEF FetchChunks, Rest
<1>4. CASE LeaveFinalize(t) BY <1>2, <1>3, <1>4, FinalizeLeaves
<1>5. CASE ~LeaveFinalize(t)
  <2> DEFINE c == To(call[t], "put")
  <2>1. /\ Fetched(t) = call[t].sum /\ UNCHANGED <<lock, tx>>
        /\ call' = [call EXCEPT ![t].at = "put", ![t].sum = Fetched(t)]
    BY <1>5 DEF FetchChunks, ChunksIntact
  <2>2. call' = [call EXCEPT ![t] = c]
    <3>1. call' = [call EXCEPT ![t] = [call[t] EXCEPT !.at = "put", !.sum = call[t].sum]]
      BY <1>2, <2>1 DEF Typed
    <3>2. [call[t] EXCEPT !.at = "put", !.sum = call[t].sum] = c
      BY <1>2, RowFacts DEF CallType, To
    <3> QED BY <3>1, <3>2
  <2>3. /\ c \in CallType /\ c.op = "finalize" /\ c.at = "put" /\ c.sum = call[t].sum
        /\ c.target = call[t].target /\ c.upload = call[t].upload
    <3>1. "put" \in Ats BY DEF Ats
    <3> QED BY <1>1, <1>2, <3>1, GoTo
  <2> HIDE DEF c
  <2>4. Finalizing(c) BY <1>1, <1>2, <2>3 DEF Finalizing
  <2>5. CreatedOnce => \A v \in DOMAIN versionRow : v < c.target BY <1>1, <1>2, <2>3 DEF Alone
  <2> QED BY <1>1, <1>3, <2>1, <2>2, <2>3, <2>4, <2>5, FinalizeWaits
<1> QED BY <1>4, <1>5

LEMMA RowsFacts ==
    ASSUME NEW f
    PROVE  f \in Rows <=> DOMAIN f \subseteq Versions /\ f \in [DOMAIN f -> Version]
  BY DEF Rows

LEMMA InsertVersionStep ==
    ASSUME Inv, NEW t \in Threads, InsertVersion(t)
    PROVE  Inv'
<1>1. call[t].op = "finalize" /\ call[t].at = "insert" BY DEF InsertVersion, At
<1>2. /\ Typed /\ tx[t] \in TxType /\ tx[t].chunk = <<>> /\ tx[t].events = <<>>
      /\ tx[t].file = "available" => DOMAIN versionRow # {}
      /\ ~Publishing(call[t]) /\ Finalizing(call[t]) /\ call[t].upload \in Uploads
      /\ CreatedOnce => Alone(call[t], tx[t])
  BY <1>1, FinalizeCall
<1>3. UNCHANGED Rest BY DEF InsertVersion, Rest
<1>4. CASE VersionTaken(call[t].target)
  <2>1. LeaveFinalize(t) /\ answered' = (answered \/ FindActiveVersion # 0)
    BY <1>4 DEF InsertVersion
  <2>2. DOMAIN versionRow # {} BY <1>4 DEF VersionTaken
  <2> QED BY <1>2, <1>3, <2>1, <2>2, FinalizeLeaves
<1>5. CASE ~VersionTaken(call[t].target)
  <2> DEFINE n == call[t].target
             x == call[t].sum
             f == [w \in {n} |-> [sum |-> x, active |-> TRUE]]
             r == [tx[t] EXCEPT !.versions = f]
             c == To(call[t], "deactivate")
  <2>1. tx' = [tx EXCEPT ![t] = r] /\ Goto(t, "deactivate") /\ UNCHANGED <<lock, answered>>
    BY <1>2, <1>5 DEF InsertVersion, StageVersion, Typed
  <2>2. OfOneUpload(x) /\ n \in Versions /\ OfOneUpload(object[n]) BY <1>1, <1>2 DEF Finalizing
  <2>3. f \in Rows /\ DOMAIN f = {n} /\ f[n] = [sum |-> x, active |-> TRUE]
    <3>1. [sum |-> x, active |-> TRUE] \in Version BY <2>2 DEF Version, OfOneUpload
    <3>2. f \in [{n} -> Version] /\ {n} \in SUBSET Versions BY <2>2, <3>1
    <3> QED BY <3>2 DEF Rows
  <2>4. /\ c \in CallType /\ c.op = "finalize" /\ c.at = "deactivate" /\ c.sum = x
        /\ c.target = n /\ c.upload = call[t].upload
    <3>1. "deactivate" \in Ats BY DEF Ats
    <3> QED BY <1>1, <1>2, <3>1, GoTo
  <2>5. Moves(t, c, r) BY <1>2, <2>1, GotoMoves
  <2> HIDE DEF f
  <2>6. r \in TxType /\ r.versions = f /\ r.file = tx[t].file /\ r.chunk = <<>> /\ r.events = <<>>
    BY <1>2, <2>3 DEF TxType
  <2> HIDE DEF c, r
  <2>7. Fits(c, r) BY <1>2, <2>3, <2>4, <2>6 DEF Fits, Blank, Inserting, Publishing
  <2>8. \A i \in Available : outbox[i].of.version # n BY <1>5 DEF VersionTaken, Inv, Announcing
  <2>9. Finalizing(c) BY <1>1, <1>2, <2>2, <2>4, <2>8 DEF Finalizing
  <2>10. Copies(c, r) BY <1>2, <2>3, <2>4, <2>6 DEF Copies
  <2>11. CreatedOnce => Alone(c, r) BY <1>1, <1>2, <2>3, <2>4, <2>6 DEF Alone
  <2> QED BY <1>1, <1>3, <2>1, <2>4, <2>5, <2>6, <2>7, <2>9, <2>10, <2>11, FinalizeGoes
<1> QED BY <1>4, <1>5


-----------------------------------------------------------------------------
(* Downloads                                                               *)

LEMMA DownloadFindsVersionStep ==
    ASSUME Inv, NEW t \in Threads, DownloadFindsVersion(t)
    PROVE  Inv'
<1>1. call[t].op = "download" /\ call[t].at = "version" BY DEF DownloadFindsVersion, At
<1>2. Typed /\ tx[t] = NoTx /\ ~Holds(call[t]) /\ Blank(call[t])
  BY <1>1 DEF Inv, Local, Fits, Blank, Holds
<1>3. UNCHANGED Rest /\ UNCHANGED <<tx, lock, answered>> BY DEF DownloadFindsVersion, Rest
<1>4. CASE FindActiveVersion = 0
  <2>1. Leave(t) BY <1>4 DEF DownloadFindsVersion
  <2> QED BY <1>2, <1>3, <2>1, BlankLeaves
<1>5. CASE FindActiveVersion # 0
  <2> DEFINE n == FindActiveVersion
             c == [call[t] EXCEPT !.at = "fetch", !.target = n]
  <2>1. call' = [call EXCEPT ![t] = c] BY <1>2, <1>5 DEF DownloadFindsVersion, Typed
  <2>2. n \in DOMAIN versionRow /\ n \in Nat BY <1>5, ActiveVersion
  <2> HIDE DEF n
  <2>3. c \in CallType /\ c.op = "download" /\ c.at = "fetch" /\ c.target = n
    <3>1. "fetch" \in Ats BY DEF Ats
    <3> QED BY <1>1, <1>2, <2>2, <3>1, RowFacts DEF CallType
  <2> HIDE DEF c
  <2>4. Moves(t, c, NoTx) BY <1>2, <1>3, <2>1, SameTx DEF Moves
  <2>5. Fits(c, NoTx) /\ ~Publishing(c) BY <2>3, BlankFits DEF Blank
  <2>6. Lock(t, c) /\ ~Uses(c) /\ ~Publishing(call[t])
    BY <1>1, <1>3, <2>3 DEF Lock, Holds, Uses, Publishing
  <2>7. Works(c, NoTx) /\ Alone(c, NoTx)
    BY <2>2, <2>3, Blanks DEF Works, Finalizing, Copies, Downloading, Placed, Alone
  <2> QED BY <1>3, <2>3, <2>4, <2>5, <2>6, <2>7, Blanks, RestQuiet, QuietStep
<1> QED BY <1>4, <1>5

LEMMA FetchChunkStep ==
    ASSUME Inv, NEW t \in Threads, FetchChunk(t)
    PROVE  Inv'
<1>1. call[t].op = "download" /\ call[t].at = "fetch" BY DEF FetchChunk, At
<1>2. Typed /\ tx[t] = NoTx /\ ~Holds(call[t]) /\ Blank(call[t])
  BY <1>1 DEF Inv, Local, Fits, Blank, Holds
<1>3. UNCHANGED Rest /\ UNCHANGED <<tx, lock, answered>> BY DEF FetchChunk, Rest
<1>4. CASE Leave(t) BY <1>2, <1>3, <1>4, BlankLeaves
<1>5. CASE ~Leave(t)
  <2> DEFINE n == call[t].target
             x == object[n]
             c == [call[t] EXCEPT !.at = "send", !.sum = x]
  <2>1. TryReserve /\ call' = [call EXCEPT ![t] = c] BY <1>2, <1>5 DEF FetchChunk, Typed
  <2>2. n \in DOMAIN versionRow BY <1>1 DEF Inv, Works, Downloading
  <2>3. OfOneUpload(x) /\ (CreatedOnce => IsStored(x))
    BY <2>2 DEF Inv, Stored, Once, StoredOnce, IsStored
  <2>4. x \in Whole BY <2>3 DEF OfOneUpload
  <2> HIDE DEF x
  <2>5. c \in CallType /\ c.op = "download" /\ c.at = "send" /\ c.sum = x
    <3>1. "send" \in Ats BY DEF Ats
    <3> QED BY <1>1, <1>2, <2>4, <3>1, RowFacts DEF CallType
  <2> HIDE DEF c
  <2>6. Moves(t, c, NoTx) BY <1>2, <1>3, <2>1, SameTx DEF Moves
  <2>7. Fits(c, NoTx) /\ ~Publishing(c) BY <2>5, BlankFits DEF Blank
  <2>8. Lock(t, c) /\ ~Publishing(call[t]) BY <1>1, <1>3, <2>5 DEF Lock, Holds, Publishing
  <2>9. Works(c, NoTx) /\ (CreatedOnce => Alone(c, NoTx))
    BY <2>3, <2>5, Blanks DEF Works, Finalizing, Copies, Downloading, Placed, Alone
  <2> QED BY <1>3, <2>1, <2>5, <2>6, <2>7, <2>8, <2>9, Blanks, RestQuiet, QuietStep
<1> QED BY <1>4, <1>5

-----------------------------------------------------------------------------
(* Steps that write objects and no row                                     *)

LEMMA ObjectStep ==
    ASSUME Inv, NEW t \in Threads, NEW c \in CallType, NEW r \in TxType, Moves(t, c, r),
           UNCHANGED <<storeVars, relay, audited, recorded, answered>>,
           Fits(c, r), Lock(t, c), Uses(c) => Uses(call[t]), Publishing(c) <=> Publishing(call[t]),
           staged' \in Cells, object' \in [Versions -> {<<>>} \cup Whole], KeepsStaged, KeepsObjects,
           \A sum \in served' : OfOneUpload(sum), Works(c, r)',
           CreatedOnce => /\ Alone(c, r)'
                          /\ \A sum \in served' : IsStored(sum)
                          /\ \/ object' = object
                             \/ Holds(call[t]) /\ \A v \in DOMAIN versionRow : object'[v] = object[v]
    PROVE  Inv'
<1>1. UNCHANGED <<fileRow, transferRow, chunkRow, versionRow, outbox>> BY DEF storeVars
<1>2. Local' BY <1>1, LocalStep DEF Inv, Local, Typed
<1>3. Grows /\ Available' = Available BY <1>1, QuietGrows
<1>4. \A s \in Threads : /\ s = t => call'[s] = c
                         /\ s # t => call'[s] = call[s]
  BY Moved DEF Inv, Local
<1>5. Deactivated' <=> Deactivated BY <1>4 DEF Deactivated
<1>6. Stored'
  <2>1. \A u : Published(u) => Published(u)' BY <1>3, Grown
  <2>2. /\ \A sum \in served' : OfOneUpload(sum)'
        /\ \A u \in Uploads, k \in Chunks : chunkRow'[u][k] # None => <<u, k, chunkRow'[u][k]>> \in recorded'
        /\ fileRow' = "available" \/ answered' => DOMAIN versionRow # {}
    BY <1>1, <1>3, Grown DEF Inv, Stored
  <2>3. \A u \in Uploads, k \in Chunks :
          ~Published(u)' /\ chunkRow'[u][k] # None => staged'[u][k] # None
    BY <1>1, <2>1 DEF Inv, Stored, KeepsStaged
  <2>4. versionRow \in Rows BY DEF Inv, Local, Typed
  <2> QED BY <1>1, <1>3, <1>5, <2>2, <2>3, <2>4, StoredKept DEF Inv
<1>7. Relayed' /\ Announcing' BY <1>1, <1>3, RelayedKept, AnnouncingKept DEF Inv
<1>8. \A s \in Threads : Works(call[s], tx[s])' BY <1>3, AllWork
<1>9. Once'
  <2> SUFFICES ASSUME CreatedOnce' PROVE StoredOnce' /\ \A s \in Threads : Alone(call[s], tx[s])'
    BY DEF Once
  <2>1. CreatedOnce BY <1>3, Grown
  <2>2. \A s \in Threads : Alone(call[s], tx[s])' BY <1>1, <2>1, AllAlone DEF Inv
  <2>3. StoredOnce' BY <1>1, <1>5, <2>1 DEF Inv, Once, StoredOnce, IsStored
  <2> QED BY <2>2, <2>3
<1> QED BY <1>2, <1>6, <1>7, <1>8, <1>9 DEF Inv

LEMMA ObjectLeaves ==
    ASSUME Inv, NEW t \in Threads, Moves(t, Idle, NoTx), ~Publishing(call[t]),
           \/ lock' = lock /\ ~Holds(call[t])
           \/ lock' = lock \ {t},
           UNCHANGED <<storeVars, relay, audited, recorded, answered>>,
           staged' \in Cells, object' \in [Versions -> {<<>>} \cup Whole], KeepsStaged, KeepsObjects,
           \A sum \in served' : OfOneUpload(sum),
           CreatedOnce => /\ \A sum \in served' : IsStored(sum)
                          /\ \/ object' = object
                             \/ Holds(call[t]) /\ \A v \in DOMAIN versionRow : object'[v] = object[v]
    PROVE  Inv'
<1>1. Idle \in CallType /\ NoTx \in TxType /\ Idle.op = "idle" BY Blanks
<1>2. Fits(Idle, NoTx) /\ ~Publishing(Idle) BY <1>1, BlankFits DEF Blank
<1>3. Lock(t, Idle) /\ ~Uses(Idle) BY <1>1 DEF Lock, Holds, Uses
<1>4. Works(Idle, NoTx)' /\ Alone(Idle, NoTx)'
  BY <1>1, Blanks DEF Works, Finalizing, Copies, Downloading, Placed, Alone
<1> QED BY <1>1, <1>2, <1>3, <1>4, ObjectStep

LEMMA ObjectsSame ==
    ASSUME UNCHANGED <<recorded, object>>
    PROVE  KeepsObjects
  BY DEF KeepsObjects, OfOneUpload

LEMMA SendChunkStep ==
    ASSUME Inv, NEW t \in Threads, SendChunk(t)
    PROVE  Inv'
<1>1. call[t].op = "download" /\ call[t].at = "send" BY DEF SendChunk, At
<1>2. Typed /\ tx[t] = NoTx /\ ~Holds(call[t]) /\ ~Publishing(call[t])
  BY <1>1 DEF Inv, Local, Fits, Blank, Holds, Publishing
<1>3. /\ UNCHANGED <<storeVars, objectVars, tx, lock, relay, audited, recorded, answered>>
      /\ served' = served \cup {call[t].sum} /\ Leave(t)
  BY DEF SendChunk
<1>4. Moves(t, Idle, NoTx) BY <1>2, <1>3, SameTx, LeaveMoves
<1>5. KeepsStaged /\ KeepsObjects BY <1>3, ObjectsSame DEF KeepsStaged, objectVars
<1>6. OfOneUpload(call[t].sum) /\ (CreatedOnce => IsStored(call[t].sum))
  BY <1>1 DEF Inv, Works, Downloading, Once, Alone
<1>7. /\ \A sum \in served' : OfOneUpload(sum)
      /\ CreatedOnce => \A sum \in served' : IsStored(sum)
  BY <1>3, <1>6 DEF Inv, Stored, Once, StoredOnce
<1>8. staged' \in Cells /\ object' = object /\ object' \in [Versions -> {<<>>} \cup Whole]
  BY <1>2, <1>3 DEF Typed, objectVars
<1> QED BY <1>2, <1>3, <1>4, <1>5, <1>7, <1>8, ObjectLeaves

LEMMA StageObjectStep ==
    ASSUME Inv, NEW t \in Threads, StageObject(t)
    PROVE  Inv'
<1> DEFINE u == call[t].upload
           k == call[t].chunk
           x == call[t].content
           f == [staged EXCEPT ![u][k] = x]
<1>1. call[t].op = "chunk" /\ call[t].at = "put" BY DEF StageObject, At
<1>2. /\ Typed /\ u \in Uploads /\ k \in Chunks /\ x \in Contents /\ x # None
      /\ ~Publishing(call[t]) /\ ~Holds(call[t])
  BY <1>1, ChunkCall, FilesAssumption DEF Holds
<1>3. tx[t] = NoTx BY <1>1 DEF Inv, Local, Fits, Blank
<1>4. UNCHANGED <<storeVars, tx, lock, relay, audited, recorded, answered, served, object>>
  BY DEF StageObject, PutStaged
<1>5. PICK ok \in BOOLEAN : /\ staged' \in (IF ok THEN {f} ELSE {staged, f})
                            /\ IF ok THEN Goto(t, "record") ELSE Leave(t)
  BY DEF StageObject, PutStaged, Upload
<1>6. f \in Cells /\ f[u][k] = x /\ \A v \in Uploads, w \in Chunks : f[v][w] = staged[v][w] \/ f[v][w] = x
  BY <1>2 DEF Typed, Cells
<1> HIDE DEF f
<1>7. staged' \in Cells /\ KeepsStaged /\ KeepsObjects /\ object' \in [Versions -> {<<>>} \cup Whole]
  BY <1>2, <1>4, <1>5, <1>6, ObjectsSame DEF KeepsStaged, Typed
<1>8. /\ \A sum \in served' : OfOneUpload(sum)
      /\ CreatedOnce => \A sum \in served' : IsStored(sum)
  BY <1>4 DEF Inv, Stored, Once, StoredOnce
<1>9. CASE Leave(t)
  <2>1. Moves(t, Idle, NoTx) BY <1>2, <1>3, <1>4, <1>9, SameTx, LeaveMoves
  <2> QED BY <1>2, <1>4, <1>7, <1>8, <2>1, ObjectLeaves
<1>10. CASE staged' = f /\ Goto(t, "record")
  <2>0. PICK c : c = To(call[t], "record") OBVIOUS
  <2>1. c \in CallType /\ c.op = "chunk" /\ c.at = "record" /\ c.upload = u /\ c.chunk = k /\ c.content = x
    <3>1. "record" \in Ats BY DEF Ats
    <3> QED BY <1>1, <1>2, <2>0, <3>1, GoTo
  <2>2. Moves(t, c, NoTx) BY <1>2, <1>3, <1>4, <1>10, <2>0, SameTx, GotoMoves
  <2>3. Fits(c, NoTx) /\ ~Publishing(c) BY <1>2, <2>1, BlankFits DEF Blank
  <2>4. Lock(t, c) /\ Uses(call[t]) BY <1>1, <1>2, <1>4, <2>1 DEF Lock, Holds, Uses
  <2>5. staged'[c.upload][c.chunk] # None BY <1>2, <1>6, <1>10, <2>1
  <2>6. Works(c, NoTx)' /\ Alone(c, NoTx)'
    BY <2>1, <2>5, Blanks DEF Works, Finalizing, Copies, Downloading, Placed, Alone
  <2> QED BY <1>2, <1>4, <1>7, <1>8, <2>1, <2>2, <2>3, <2>4, <2>6, Blanks, ObjectStep
<1> QED BY <1>5, <1>9, <1>10

LEMMA CleanupStagingStep ==
    ASSUME Inv, NEW t \in Threads, CleanupStaging(t)
    PROVE  Inv'
<1>0. PICK u : u = call[t].upload OBVIOUS
<1>1. call[t].op = "finalize" /\ call[t].at = "cleanup" BY DEF CleanupStaging, At
<1>2. Typed /\ u \in Uploads /\ ~Publishing(call[t]) /\ Published(u)
  BY <1>0, <1>1, FinalizeCall DEF Finalizing
<1>3. /\ UNCHANGED <<storeVars, relay, audited, recorded, answered, served, object>>
      /\ Leave(t) /\ lock' = lock \ {t} /\ tx' = [tx EXCEPT ![t] = NoTx]
  BY DEF CleanupStaging, DeleteStaged, LeaveFinalize, Abort
<1>4. PICK gone \in SUBSET Chunks :
        staged' = [staged EXCEPT ![u] = [c \in Chunks |-> IF c \in gone THEN None ELSE staged[u][c]]]
  BY <1>0 DEF CleanupStaging, DeleteStaged, Upload
<1>5. staged' \in Cells /\ \A v \in Uploads : v # u => staged'[v] = staged[v]
  BY <1>2, <1>4 DEF Typed, Cells
<1>6. Published(u)'
  <2>1. Grows BY <1>3, QuietGrows DEF storeVars
  <2> QED BY <1>2, <2>1, Grown
<1>7. KeepsStaged /\ KeepsObjects /\ object' \in [Versions -> {<<>>} \cup Whole]
  BY <1>2, <1>3, <1>5, <1>6, ObjectsSame DEF KeepsStaged, Typed
<1>8. /\ \A sum \in served' : OfOneUpload(sum)
      /\ CreatedOnce => \A sum \in served' : IsStored(sum)
  BY <1>3 DEF Inv, Stored, Once, StoredOnce
<1>9. Moves(t, Idle, NoTx) BY <1>2, <1>3, LeaveMoves
<1> QED BY <1>2, <1>3, <1>5, <1>7, <1>8, <1>9, ObjectLeaves

LEMMA PutVersionStep ==
    ASSUME Inv, NEW t \in Threads, PutVersion(t)
    PROVE  Inv'
<1> DEFINE n == call[t].target
           x == call[t].sum
           f == [object EXCEPT ![n] = x]
<1>1. call[t].op = "finalize" /\ call[t].at = "put" BY DEF PutVersion, At
<1>2. /\ Typed /\ tx[t] \in TxType /\ Fits(call[t], tx[t]) /\ call[t].upload \in Uploads
      /\ DOMAIN tx[t].versions = {} /\ tx[t].events = <<>> /\ tx[t].chunk = <<>>
      /\ tx[t].file = "available" => DOMAIN versionRow # {}
      /\ ~Publishing(call[t]) /\ Created(call[t].upload)
      /\ OfOneUpload(x) /\ n \in Versions
      /\ CreatedOnce => \A v \in DOMAIN versionRow : v < n
  BY <1>1, FinalizeCall DEF Finalizing, Alone
<1>3. UNCHANGED <<storeVars, relay, audited, recorded, answered, served, staged>>
  BY DEF PutVersion, PutObject
<1>4. PICK ok \in BOOLEAN : /\ object' \in (IF ok THEN {f} ELSE {object, f})
                            /\ \/ ok /\ Goto(t, "insert") /\ UNCHANGED <<lock, tx>>
                               \/ LeaveFinalize(t)
  BY DEF PutVersion, PutObject
<1>5. /\ x \in Whole /\ f \in [Versions -> {<<>>} \cup Whole] /\ f[n] = x
      /\ \A v \in Versions : f[v] = object[v] \/ f[v] = x
      /\ \A v \in Versions : v # n => f[v] = object[v]
  BY <1>2 DEF Typed, OfOneUpload
<1> HIDE DEF f
<1>6. object' \in [Versions -> {<<>>} \cup Whole] /\ staged' \in Cells
  BY <1>2, <1>3, <1>4, <1>5 DEF Typed
<1>7. Grows /\ KeepsStaged BY <1>3, QuietGrows DEF storeVars, KeepsStaged
<1>8. KeepsObjects
  <2>1. ASSUME NEW v \in Versions, OfOneUpload(object[v]) PROVE OfOneUpload(object[v])'
    <3>1. object'[v] \in {object[v], x} BY <1>4, <1>5
    <3>2. PICK y : y = object'[v] OBVIOUS
    <3>3. OfOneUpload(y)' BY <1>2, <1>7, <2>1, <3>1, <3>2, Grown
    <3> QED BY <3>2, <3>3
  <2> QED BY <2>1 DEF KeepsObjects
<1>9. /\ \A sum \in served' : OfOneUpload(sum)
      /\ CreatedOnce => \A sum \in served' : IsStored(sum)
  BY <1>3 DEF Inv, Stored, Once, StoredOnce
<1>10. Holds(call[t]) BY <1>1 DEF Holds
<1>11. CreatedOnce => \A v \in DOMAIN versionRow : object'[v] = object[v]
  <2>1. DOMAIN versionRow \subseteq Versions BY ActiveVersion
  <2>2. \A v \in Versions : v < n => v # n BY <1>2, FilesAssumption DEF Versions
  <2> QED BY <1>2, <1>4, <1>5, <2>1, <2>2
<1>12. CASE LeaveFinalize(t)
  <2>1. Moves(t, Idle, NoTx) /\ lock' = lock \ {t} BY <1>2, <1>12, LeaveMoves DEF LeaveFinalize, Abort
  <2> QED BY <1>2, <1>3, <1>6, <1>7, <1>8, <1>9, <1>10, <1>11, <2>1, ObjectLeaves
<1>13. CASE object' = f /\ Goto(t, "insert") /\ UNCHANGED <<lock, tx>>
  <2>0. PICK c : c = To(call[t], "insert") OBVIOUS
  <2>1. /\ c \in CallType /\ c.op = "finalize" /\ c.at = "insert" /\ c.upload = call[t].upload
        /\ c.target = n /\ c.sum = x
    <3>1. "insert" \in Ats BY DEF Ats
    <3> QED BY <1>1, <1>2, <2>0, <3>1, GoTo
  <2>2. Moves(t, c, tx[t]) BY <1>2, <1>13, <2>0, SameTx, GotoMoves
  <2>3. PICK r \in TxType : r = tx[t] BY <1>2
  <2>4. Fits(c, r) BY <1>2, <2>1, <2>3 DEF Fits, Blank, Inserting, Publishing
  <2>5. Lock(t, c) /\ ~Uses(c) /\ ~Publishing(c) BY <1>10, <1>13, <2>1 DEF Lock, Holds, Uses, Publishing
  <2>6. Created(c.upload)' /\ OfOneUpload(c.sum)' BY <1>2, <1>7, <2>1, Grown
  <2>7. object'[c.target] = c.sum BY <1>5, <1>13, <2>1
  <2>8. Finalizing(c)' BY <1>2, <2>1, <2>6, <2>7 DEF Finalizing
  <2>9. UNCHANGED versionRow /\ DOMAIN r.versions = {} /\ r.chunk = <<>>
    BY <1>2, <1>3, <2>3 DEF storeVars
  <2>10. Copies(c, r)' /\ Downloading(c)' /\ Placed(c, r)'
    BY <1>2, <2>1, <2>3, <2>9 DEF Copies, Downloading, Placed
  <2>11. CreatedOnce => Alone(c, r)' BY <1>2, <2>1, <2>7, <2>9 DEF Alone
  <2>12. Works(c, r)' /\ Moves(t, c, r) BY <2>2, <2>3, <2>8, <2>10 DEF Works
  <2> QED BY <1>2, <1>3, <1>6, <1>7, <1>8, <1>9, <1>10, <1>11, <2>1, <2>4, <2>5, <2>11, <2>12, ObjectStep
<1> QED BY <1>4, <1>12, <1>13

-----------------------------------------------------------------------------
(* Commits                                                                 *)

(* A commit appends at most one event to the outbox. *)
LEMMA OutboxGrows ==
    ASSUME Relayed, NEW e \in Event, e.status = "pending", outbox' = outbox \o <<e>>,
           UNCHANGED <<relay, audited>>
    PROVE  /\ Relayed'
           /\ DOMAIN outbox' = DOMAIN outbox \cup {Len(outbox) + 1}
           /\ \A i \in DOMAIN outbox : outbox'[i] = outbox[i]
           /\ Len(outbox) + 1 \notin DOMAIN outbox /\ outbox'[Len(outbox) + 1] = e
<1>1. outbox \in Seq(Event) /\ Len(outbox) \in Nat /\ DOMAIN outbox = 1..Len(outbox) BY DEF Relayed
<1>2. /\ outbox' \in Seq(Event) /\ Len(outbox') = Len(outbox) + 1 /\ DOMAIN outbox' = 1..Len(outbox')
      /\ \A i \in 1..Len(outbox) : outbox'[i] = outbox[i]
      /\ outbox'[Len(outbox) + 1] = e
  BY <1>1
<1>3. 1..Len(outbox') = 1..Len(outbox) \cup {Len(outbox) + 1} /\ Len(outbox) + 1 \notin 1..Len(outbox)
  BY <1>1, <1>2
<1>4. Relayed' BY <1>2, <1>3 DEF Relayed
<1> QED BY <1>1, <1>2, <1>3, <1>4

LEMMA Unnoticed ==
    ASSUME Relayed, NEW s, Unremarkable(s), outbox' = outbox \o s, UNCHANGED <<relay, audited>>
    PROVE  /\ Relayed' /\ Available' = Available
           /\ \A i \in Available : outbox'[i] = outbox[i]
<1>1. CASE s = <<>>
  <2>1. outbox' = outbox BY <1>1 DEF Relayed
  <2> QED BY <2>1, RelayedKept DEF Available
<1>2. ASSUME NEW type \in EventType \ {"FILE_AVAILABLE"}, s = <<Pending(type, NoSubject)>>
      PROVE  /\ Relayed' /\ Available' = Available
             /\ \A i \in Available : outbox'[i] = outbox[i]
  <2>1. PICK e : e = Pending(type, NoSubject) OBVIOUS
  <2>2. e \in Event /\ e.status = "pending" /\ e.type # "FILE_AVAILABLE" BY <2>1 DEF Pending, Event
  <2>3. outbox' = outbox \o <<e>> BY <1>2, <2>1
  <2> HIDE <1>2
  <2> QED BY <2>2, <2>3, OutboxGrows DEF Available
<1> QED BY <1>1, <1>2 DEF Unremarkable

(* A commit of anything but a finalisation writes no version. *)
LEMMA CommitStep ==
    ASSUME Inv, NEW t \in Threads, call[t].op \notin {"finalize", "download"}, Commit(t, Upload(t)),
           NEW c \in CallType, c.op \in {"idle", "create"}, Blank(c), call' = [call EXCEPT ![t] = c],
           recorded \subseteq recorded', tx[t].chunk # <<>> => tx[t].chunk \in recorded',
           UNCHANGED <<objectVars, lock, relay, audited, answered, served>>
    PROVE  Inv'
<1>1. PICK r : r = tx[t] OBVIOUS
<1>2. PICK d : d = call[t] OBVIOUS
<1>3. /\ Typed /\ r \in TxType /\ Fits(d, r) /\ Works(d, r) /\ d.op \notin {"finalize", "download"}
      /\ ~Inserting(d) /\ ~Publishing(d)
  BY <1>1, <1>2, RowFacts DEF Inv, Local, Inserting, Publishing
<1>4. DOMAIN r.versions = {} /\ Unremarkable(r.events) BY <1>3 DEF Fits
<1>5. Moves(t, c, NoTx) BY DEF Moves, Commit
<1>6. UNCHANGED <<staged, object>> BY DEF objectVars
<1>7. /\ fileRow' = IF r.file # "absent" THEN r.file ELSE fileRow
      /\ transferRow' = IF r.transfer # NoTransfer THEN [transferRow EXCEPT ![Upload(t)] = r.transfer]
                        ELSE transferRow
      /\ chunkRow' = IF r.chunk # <<>> THEN [chunkRow EXCEPT ![r.chunk[1]][r.chunk[2]] = r.chunk[3]]
                     ELSE chunkRow
      /\ outbox' = outbox \o r.events
  BY <1>1 DEF Commit
<1>8. UNCHANGED versionRow
  <2>1. versionRow' = [v \in DOMAIN versionRow |-> versionRow[v]] BY <1>1, <1>4 DEF Commit
  <2>2. versionRow \in [DOMAIN versionRow -> Version] BY <1>3, RowsFacts DEF Typed
  <2> QED BY <2>1, <2>2
<1>9. Relayed' /\ Available' = Available /\ \A i \in Available : outbox'[i] = outbox[i]
  BY <1>4, <1>7, Unnoticed DEF Inv
<1>10. fileRow' \in FileStatus /\ (fileRow' = "available" => DOMAIN versionRow # {})
  BY <1>3, <1>7 DEF Typed, TxType, Inv, Stored, Works, Copies
<1>11. /\ transferRow' \in [Uploads -> Transfer]
       /\ \A u \in Uploads : transferRow[u] # NoTransfer => transferRow'[u] # NoTransfer
  <2>1. r.transfer \in Transfer BY <1>3 DEF TxType
  <2> QED BY <1>3, <1>7, <2>1 DEF Typed
<1>12. /\ chunkRow' \in Cells
       /\ \A u \in Uploads, k \in Chunks :
            chunkRow'[u][k] # chunkRow[u][k] => /\ r.chunk = <<u, k, chunkRow'[u][k]>>
                                                /\ u = d.upload /\ k = d.chunk /\ r.chunk # <<>>
  <2>1. CASE r.chunk = <<>> BY <1>3, <1>7, <2>1 DEF Typed
  <2>2. CASE r.chunk # <<>>
    <3>1. PICK v, w, x : r.chunk = <<v, w, x>> /\ v = d.upload /\ w = d.chunk /\ x = d.content
      BY <1>3, <2>2 DEF Fits
    <3>2. v \in Uploads /\ w \in Chunks /\ x \in Contents BY <1>3, <2>2, <3>1 DEF Fits, Recording
    <3>3. chunkRow' = [chunkRow EXCEPT ![v][w] = x] BY <1>7, <2>2, <3>1
    <3> QED BY <1>3, <2>2, <3>1, <3>2, <3>3 DEF Typed, Cells
  <2> QED BY <2>1, <2>2
<1>13. Grows BY <1>8, <1>9, <1>11 DEF Grows
<1>14. KeepsStaged /\ KeepsObjects
  <2>1. KeepsStaged BY <1>6 DEF KeepsStaged
  <2>2. KeepsObjects BY <1>6, <1>13 DEF KeepsObjects, OfOneUpload, Grows
  <2> QED BY <2>1, <2>2
<1>15. \A s \in Threads : /\ s = t => call'[s] = c
                          /\ s # t => call'[s] = call[s]
  BY <1>3, <1>5, Moved
<1>16. ~Publishing(c) /\ ~Holds(c) /\ ~Holds(d) /\ ~Uses(c) BY <1>3 DEF Publishing, Holds, Uses
<1>17. Deactivated' <=> Deactivated BY <1>2, <1>3, <1>15, <1>16 DEF Deactivated
<1>18. Local'
  <2>1. Fits(c, NoTx) BY BlankFits
  <2>2. Lock(t, c) BY <1>2, <1>16 DEF Lock
  <2>3. staged' \in Cells /\ object' \in [Versions -> {<<>>} \cup Whole] /\ versionRow' \in Rows
    BY <1>3, <1>6, <1>8 DEF Typed
  <2> QED BY <1>5, <1>10, <1>11, <1>12, <1>16, <2>1, <2>2, <2>3, Blanks, LocalStep DEF Inv
<1>19. \A u : Published(u) => Published(u)' BY <1>13, Grown
<1>20. Stored'
  <2>1. \A sum \in served' : OfOneUpload(sum)' BY <1>13, Grown DEF Inv, Stored
  <2>2. \A u \in Uploads, k \in Chunks : chunkRow'[u][k] # None => <<u, k, chunkRow'[u][k]>> \in recorded'
    BY <1>1, <1>12 DEF Inv, Stored
  <2>3. fileRow' = "available" \/ answered' => DOMAIN versionRow # {} BY <1>10 DEF Inv, Stored
  <2>4. \A u \in Uploads, k \in Chunks :
          ~Published(u)' /\ chunkRow'[u][k] # None => staged'[u][k] # None
    <3> SUFFICES ASSUME NEW u \in Uploads, NEW k \in Chunks, ~Published(u)', chunkRow'[u][k] # None
                 PROVE  staged[u][k] # None
      BY <1>6
    <3>1. ~Published(u) BY <1>19
    <3>2. CASE chunkRow'[u][k] = chunkRow[u][k] BY <3>1, <3>2 DEF Inv, Stored
    <3>3. CASE chunkRow'[u][k] # chunkRow[u][k] BY <1>3, <1>12, <3>1, <3>3 DEF Works, Placed
    <3> QED BY <3>2, <3>3
  <2>5. versionRow \in Rows BY <1>3 DEF Typed
  <2> QED BY <1>8, <1>13, <1>14, <1>17, <2>1, <2>2, <2>3, <2>4, <2>5, StoredKept DEF Inv
<1>21. Announcing' BY <1>8, <1>9, <1>13, Grown DEF Inv, Announcing
<1>22. Works(c, NoTx)' /\ Alone(c, NoTx)'
  BY Blanks DEF Works, Finalizing, Copies, Downloading, Placed, Alone, Blank
<1>23. \A s \in Threads : Works(call[s], tx[s])' BY <1>5, <1>9, <1>13, <1>14, <1>22, AllWork
<1>24. Once'
  <2> SUFFICES ASSUME CreatedOnce' PROVE StoredOnce' /\ \A s \in Threads : Alone(call[s], tx[s])'
    BY DEF Once
  <2>1. CreatedOnce BY <1>13, Grown
  <2>2. \A s \in Threads : Alone(call[s], tx[s])' BY <1>5, <1>6, <1>8, <1>22, <2>1, AllAlone DEF Inv
  <2>3. StoredOnce' BY <1>6, <1>8, <1>17, <2>1 DEF Inv, Once, StoredOnce, IsStored
  <2> QED BY <2>2, <2>3
<1> QED BY <1>9, <1>18, <1>20, <1>21, <1>23, <1>24 DEF Inv

LEMMA CommitsOwn ==
    ASSUME Inv, NEW t \in Threads, ~Recording(call[t])
    PROVE  tx[t].chunk = <<>>
  BY DEF Inv, Local, Fits

LEMMA CommitFileStep ==
    ASSUME Inv, NEW t \in Threads, CommitFile(t)
    PROVE  Inv'
<1> DEFINE c == To(call[t], "session")
<1>1. call[t].op = "create" /\ Typed BY DEF CommitFile, At, Inv, Local
<1>2. tx[t].chunk = <<>> BY <1>1, CommitsOwn DEF Recording
<1>3. c \in CallType /\ c.op = "create" /\ c.at = "session"
  <2>1. "session" \in Ats BY DEF Ats
  <2> QED BY <1>1, <2>1, GoTo
<1>4. call' = [call EXCEPT ![t] = c] BY <1>1 DEF CommitFile, Goto, To, Typed
<1> HIDE DEF c
<1> QED BY <1>1, <1>2, <1>3, <1>4, CommitStep DEF CommitFile, Blank

LEMMA CommitChunkStep ==
    ASSUME Inv, NEW t \in Threads, CommitChunk(t)
    PROVE  Inv'
<1>1. call[t].op = "chunk" BY DEF CommitChunk, At
<1> QED BY <1>1, Blanks, CommitStep DEF CommitChunk, Leave, Blank

LEMMA CommitCallStep ==
    ASSUME Inv, NEW t \in Threads, CommitCall(t)
    PROVE  Inv'
<1>1. call[t].op \in {"cancel", "delete", "expire"} BY DEF CommitCall
<1>2. tx[t].chunk = <<>> BY <1>1, CommitsOwn DEF Recording
<1> QED BY <1>1, <1>2, Blanks, CommitStep DEF CommitCall, Leave, Blank

-----------------------------------------------------------------------------
(* The last two steps of a finalisation                                    *)

(* What a finalisation stages after the insert: copies of the rows it      *)
(* supersedes, and the announcement.                                       *)
LEMMA AvailableStaged ==
    ASSUME Inv, NEW t \in Threads, call[t].op = "finalize", call[t].at = "deactivate"
    PROVE  LET r == StageEvent(StageAvailable(tx[t], t), "FILE_AVAILABLE", Announced(t))
               n == call[t].target
           IN  /\ r \in TxType /\ r.chunk = <<>> /\ r.events = <<Announcement(call[t])>>
               /\ DOMAIN r.versions = DOMAIN tx[t].versions \cup Superseded(n)
               /\ n \in DOMAIN r.versions /\ r.versions[n] = [sum |-> call[t].sum, active |-> TRUE]
               /\ \A w \in DOMAIN r.versions :
                    \/ w \in DOMAIN tx[t].versions /\ r.versions[w] = tx[t].versions[w]
                    \/ w \in Superseded(n) /\ r.versions[w].sum = versionRow[w].sum
<1> DEFINE n == call[t].target
           g == tx[t].versions
           D == DOMAIN g \cup Superseded(n)
           f == [w \in D |-> IF w \in DOMAIN g THEN g[w] ELSE [versionRow[w] EXCEPT !.active = FALSE]]
           q == [tx[t] EXCEPT !.versions = f]
           p == StageFileStatus(q, t, "finalizing", "available")
           o == StageTransferStatus(p, t, Upload(t), "completed")
           of == [version |-> n, sum |-> call[t].sum, upload |-> call[t].upload]
           r == StageEvent(o, "FILE_AVAILABLE", of)
<1>1. /\ Typed /\ tx[t] \in TxType /\ tx[t].chunk = <<>> /\ Fits(call[t], tx[t]) /\ Finalizing(call[t])
      /\ Upload(t) \in Uploads /\ call[t].upload \in Uploads
  BY FinalizeCall DEF Upload
<1>2. tx[t].events = <<>> /\ n \in DOMAIN g /\ g[n] = [sum |-> call[t].sum, active |-> TRUE]
  BY <1>1 DEF Fits, Inserting
<1>3. g \in Rows /\ versionRow \in Rows BY <1>1 DEF Typed, TxType
<1>4. /\ DOMAIN g \subseteq Versions /\ g \in [DOMAIN g -> Version]
      /\ DOMAIN versionRow \subseteq Versions /\ versionRow \in [DOMAIN versionRow -> Version]
  BY <1>3, RowsFacts
<1>5. Superseded(n) \subseteq DOMAIN versionRow BY DEF Superseded
<1>6. ASSUME NEW w \in DOMAIN versionRow
      PROVE  /\ [versionRow[w] EXCEPT !.active = FALSE] \in Version
             /\ [versionRow[w] EXCEPT !.active = FALSE].sum = versionRow[w].sum
  <2>1. versionRow[w] \in Version BY <1>4
  <2> QED BY <2>1 DEF Version
<1>7. /\ DOMAIN f = D /\ f[n] = g[n]
      /\ \A w \in D : \/ w \in DOMAIN g /\ f[w] = g[w]
                      \/ w \in Superseded(n) /\ f[w].sum = versionRow[w].sum
  BY <1>2, <1>5, <1>6
<1>8. f \in Rows
  <2>1. \A w \in D : f[w] \in Version BY <1>4, <1>5, <1>6
  <2>2. f \in [D -> Version] /\ D \subseteq Versions BY <1>4, <1>5, <2>1
  <2> QED BY <1>7, <2>2 DEF Rows
<1>9. StageEvent(StageAvailable(tx[t], t), "FILE_AVAILABLE", Announced(t)) = r
  BY DEF StageAvailable, StageSuperseded, Announced, Upload
<1>10. of \in Subject /\ "FILE_AVAILABLE" \in EventType
  BY <1>1 DEF Finalizing, OfOneUpload, Subject, EventType
<1>11. Announcement(call[t]) = Pending("FILE_AVAILABLE", of) BY DEF Announcement
<1> HIDE DEF f, of, D
<1>12. q \in TxType /\ q.versions = f /\ q.chunk = <<>> /\ q.events = <<>>
  BY <1>1, <1>2, <1>8 DEF TxType
<1> HIDE DEF q
<1>13. p \in TxType /\ p.versions = f /\ p.chunk = <<>> /\ p.events = <<>>
  BY <1>1, <1>12, FileStaged, "available" \in FileStatus DEF FileStatus
<1> HIDE DEF p
<1>14. o \in TxType /\ SameButTransfer(o, p)
  BY <1>1, <1>13, TransferStaged, "completed" \in TransferStatus DEF TransferStatus
<1> HIDE DEF o
<1>15. o.versions = f /\ o.chunk = <<>> /\ o.events = <<>> BY <1>13, <1>14 DEF SameButTransfer
<1>16. r \in TxType /\ r.versions = f /\ r.chunk = <<>> /\ r.events = <<Pending("FILE_AVAILABLE", of)>>
  BY <1>10, <1>14, <1>15, EventStaged
<1> HIDE DEF r
<1> QED BY <1>2, <1>7, <1>9, <1>11, <1>16 DEF D

LEMMA CreateVersionStep ==
    ASSUME Inv, NEW t \in Threads, CreateVersion(t)
    PROVE  Inv'
<1>1. PICK d : d = call[t] OBVIOUS
<1>2. d.op = "finalize" /\ d.at = "deactivate" BY <1>1 DEF CreateVersion, At
<1>3. PICK r : r = StageEvent(StageAvailable(tx[t], t), "FILE_AVAILABLE", Announced(t)) OBVIOUS
<1>4. PICK g : g = tx[t].versions OBVIOUS
<1>5. PICK S : S = Superseded(d.target) OBVIOUS
<1>6. /\ r \in TxType /\ r.chunk = <<>> /\ r.events = <<Announcement(d)>>
      /\ d.target \in DOMAIN r.versions /\ r.versions[d.target] = [sum |-> d.sum, active |-> TRUE]
      /\ \A w \in DOMAIN r.versions : \/ w \in DOMAIN g /\ r.versions[w] = g[w]
                                      \/ w \in S /\ r.versions[w].sum = versionRow[w].sum
  BY <1>1, <1>2, <1>3, <1>4, <1>5, AvailableStaged
<1>7. /\ Typed /\ Finalizing(d) /\ Copies(d, tx[t]) /\ d.upload \in Uploads
      /\ CreatedOnce => Alone(d, tx[t])
  BY <1>1, <1>2, FinalizeCall
<1>8. PICK c : c = To(d, "commit") OBVIOUS
<1>9. /\ c \in CallType /\ c.op = "finalize" /\ c.at = "commit" /\ c.upload = d.upload
      /\ c.target = d.target /\ c.sum = d.sum
  <2>1. "commit" \in Ats BY DEF Ats
  <2> QED BY <1>1, <1>2, <1>7, <1>8, <2>1, GoTo
<1>10. tx' = [tx EXCEPT ![t] = r] /\ Goto(t, "commit") BY <1>3, <1>7 DEF CreateVersion, Typed
<1>11. Moves(t, c, r) BY <1>1, <1>7, <1>8, <1>10, GotoMoves
<1>12. UNCHANGED <<fileRow, transferRow, chunkRow, outbox, staged, object, lock, relay, audited, recorded,
                   answered, served>>
  BY DEF CreateVersion, objectVars
<1>13. /\ DOMAIN versionRow' = DOMAIN versionRow /\ versionRow' \in Rows
       /\ \A w \in DOMAIN versionRow : versionRow'[w].sum = versionRow[w].sum
  <2> DEFINE f == [w \in DOMAIN versionRow |->
                     IF w \in S THEN [versionRow[w] EXCEPT !.active = FALSE] ELSE versionRow[w]]
  <2>1. DOMAIN versionRow \subseteq Versions /\ versionRow \in [DOMAIN versionRow -> Version]
    BY <1>7, RowsFacts DEF Typed
  <2>2. versionRow' = f BY <1>1, <1>5 DEF CreateVersion, DeactivateOthers
  <2>3. \A w \in DOMAIN versionRow : f[w] \in Version /\ f[w].sum = versionRow[w].sum
    BY <2>1 DEF Version
  <2>4. DOMAIN f = DOMAIN versionRow /\ f \in [DOMAIN versionRow -> Version] BY <2>3
  <2> HIDE DEF f
  <2> QED BY <2>1, <2>2, <2>3, <2>4 DEF Rows
<1>14. Available' = Available /\ Grows /\ KeepsStaged /\ KeepsObjects
  <2>1. Available' = Available BY <1>12 DEF Available
  <2>2. Grows BY <1>12, <1>13, <2>1 DEF Grows
  <2> QED BY <1>12, <2>1, <2>2, ObjectsSame DEF KeepsStaged
<1>15. call'[t] = c /\ Publishing(c) BY <1>7, <1>9, <1>11, Moved DEF Publishing
<1>16. Deactivated' BY <1>15 DEF Deactivated
<1>17. Local'
  <2>1. Announcement(c) = Announcement(d) BY <1>9 DEF Announcement
  <2>2. Fits(c, r)
    BY <1>6, <1>7, <1>9, <2>1 DEF Fits, Blank, Inserting, Publishing, Recording
  <2>3. Lock(t, c) /\ ~Uses(c) BY <1>1, <1>2, <1>9, <1>12 DEF Lock, Holds, Uses
  <2> QED BY <1>6, <1>7, <1>9, <1>11, <1>12, <1>13, <2>2, <2>3, LocalStep DEF Inv, Typed
<1>18. Stored'
  <2>1. \A v \in DOMAIN versionRow' : /\ OfOneUpload(versionRow[v].sum)' /\ OfOneUpload(object[v])'
                                      /\ IsAnnounced(v, versionRow[v].sum)'
    <3> SUFFICES ASSUME NEW v \in DOMAIN versionRow
                 PROVE  /\ OfOneUpload(versionRow[v].sum)' /\ OfOneUpload(object[v])'
                        /\ IsAnnounced(v, versionRow[v].sum)'
      BY <1>13
    <3>1. PICK x, y : x = versionRow[v].sum /\ x = versionRow'[v].sum /\ y = object[v] /\ y = object'[v]
      BY <1>12, <1>13
    <3>2. OfOneUpload(x) /\ IsAnnounced(v, x) /\ OfOneUpload(y) BY <3>1 DEF Inv, Stored
    <3>3. OfOneUpload(x)' /\ IsAnnounced(v, x)' /\ OfOneUpload(y)' BY <1>14, <3>2, Grown
    <3> QED BY <3>1, <3>3
  <2>2. \A u : Published(u) => Published(u)' BY <1>14, Grown
  <2>3. \A sum \in served' : OfOneUpload(sum)' BY <1>12, <1>14, Grown DEF Inv, Stored
  <2> QED BY <1>12, <1>13, <1>16, <2>1, <2>2, <2>3 DEF Inv, Stored
<1>19. Relayed' /\ Announcing' BY <1>12, <1>14, RelayedKept, AnnouncingKept DEF Inv
<1>20. ASSUME NEW w \in DOMAIN r.versions, w # c.target
       PROVE  /\ w \in DOMAIN versionRow /\ OfOneUpload(r.versions[w].sum)
              /\ IsAnnounced(w, r.versions[w].sum)
              /\ CreatedOnce => r.versions[w].sum = versionRow[w].sum
  <2>1. CASE w \in DOMAIN g /\ r.versions[w] = g[w]
    BY <1>4, <1>7, <1>9, <1>20, <2>1 DEF Copies, Alone
  <2>2. CASE w \in S /\ r.versions[w].sum = versionRow[w].sum
    BY <1>5, <2>2 DEF Superseded, Inv, Stored
  <2> QED BY <1>6, <2>1, <2>2
<1>21. Works(c, r)'
  <2>1. Created(c.upload)' /\ OfOneUpload(c.sum)'
    BY <1>2, <1>7, <1>9, <1>14, Grown DEF Finalizing
  <2>2. OfOneUpload(object[c.target])'
    <3>1. PICK y : y = object[c.target] /\ y = object'[c.target] BY <1>12
    <3>2. OfOneUpload(y) BY <1>2, <1>7, <1>9, <3>1 DEF Finalizing
    <3>3. OfOneUpload(y)' BY <1>14, <3>2, Grown
    <3> QED BY <3>1, <3>3
  <2>3. \A i \in Available' : ~(outbox'[i].of.version = c.target /\ outbox'[i].of.upload = c.upload)
    BY <1>2, <1>7, <1>9, <1>12, <1>14 DEF Finalizing
  <2>4. Finalizing(c)' BY <1>2, <1>7, <1>9, <2>1, <2>2, <2>3 DEF Finalizing
  <2>5. \A w \in DOMAIN r.versions : w # c.target =>
          w \in DOMAIN versionRow' /\ OfOneUpload(r.versions[w].sum)' /\ IsAnnounced(w, r.versions[w].sum)'
    BY <1>13, <1>14, <1>20, Grown
  <2>6. Copies(c, r)' BY <1>15, <2>5 DEF Copies
  <2> QED BY <1>6, <1>9, <2>4, <2>6 DEF Works, Downloading, Placed
<1>22. \A s \in Threads : Works(call[s], tx[s])' BY <1>11, <1>14, <1>21, AllWork
<1>23. Once'
  <2> SUFFICES ASSUME CreatedOnce' PROVE StoredOnce' /\ \A s \in Threads : Alone(call[s], tx[s])'
    BY DEF Once
  <2>1. CreatedOnce BY <1>14, Grown
  <2>2. Alone(c, r)' BY <1>2, <1>7, <1>9, <1>12, <1>13, <1>20, <2>1 DEF Alone
  <2>3. \A s \in Threads : Alone(call[s], tx[s])'
    BY <1>11, <1>12, <1>13, <2>1, <2>2, AllAlone DEF Inv
  <2>4. StoredOnce' BY <1>12, <1>13, <1>16, <2>1 DEF Inv, Once, StoredOnce, IsStored
  <2> QED BY <2>3, <2>4
<1> QED BY <1>17, <1>18, <1>19, <1>22, <1>23 DEF Inv

LEMMA CommitVersionStep ==
    ASSUME Inv, NEW t \in Threads, CommitVersion(t)
    PROVE  Inv'
<1>1. PICK d : d = call[t] OBVIOUS
<1>2. PICK r : r = tx[t] OBVIOUS
<1>3. PICK n, x, u : n = d.target /\ x = d.sum /\ u = d.upload OBVIOUS
<1>4. d.op = "finalize" /\ d.at = "commit" BY <1>1 DEF CommitVersion, At
<1>5. /\ Typed /\ r \in TxType /\ r.chunk = <<>> /\ Fits(d, r) /\ u \in Uploads /\ Created(u)
      /\ Finalizing(d) /\ Copies(d, r) /\ (CreatedOnce => Alone(d, r))
  BY <1>1, <1>2, <1>3, <1>4, FinalizeCall
<1>6. PICK e : e = Announcement(d) OBVIOUS
<1>7. Publishing(d) /\ Inserting(d) /\ Holds(d) BY <1>4 DEF Publishing, Inserting, Holds
<1>8. /\ n \in DOMAIN r.versions /\ r.versions[n] = [sum |-> x, active |-> TRUE] /\ r.events = <<e>>
  BY <1>3, <1>5, <1>6, <1>7 DEF Fits
<1>9. OfOneUpload(x) /\ n \in Versions /\ OfOneUpload(object[n]) BY <1>3, <1>4, <1>5 DEF Finalizing
<1>10. /\ e \in Event /\ e.status = "pending" /\ e.type = "FILE_AVAILABLE"
       /\ e.of.version = n /\ e.of.sum = x /\ e.of.upload = u
  <2>1. [version |-> n, sum |-> x, upload |-> u] \in Subject BY <1>5, <1>9 DEF Subject, OfOneUpload
  <2>2. e = Pending("FILE_AVAILABLE", [version |-> n, sum |-> x, upload |-> u])
    BY <1>3, <1>6 DEF Announcement
  <2>3. PICK s \in Subject : s = [version |-> n, sum |-> x, upload |-> u] BY <2>1
  <2>4. s.version = n /\ s.sum = x /\ s.upload = u BY <2>3
  <2> QED BY <2>2, <2>3, <2>4 DEF Pending, Event, EventType
<1>11. /\ fileRow' = IF r.file # "absent" THEN r.file ELSE fileRow
       /\ transferRow' = IF r.transfer # NoTransfer THEN [transferRow EXCEPT ![u] = r.transfer]
                         ELSE transferRow
       /\ chunkRow' = chunkRow /\ outbox' = outbox \o <<e>>
       /\ tx' = [tx EXCEPT ![t] = NoTx] /\ Goto(t, "cleanup") /\ answered' = TRUE
       /\ UNCHANGED <<staged, object, lock, relay, audited, recorded, served>>
  BY <1>1, <1>2, <1>3, <1>5, <1>8 DEF CommitVersion, Commit, Upload, objectVars
<1>12. /\ versionRow' \in Rows /\ DOMAIN versionRow' = DOMAIN versionRow \cup DOMAIN r.versions
       /\ \A v \in DOMAIN versionRow' :
            versionRow'[v] = IF v \in DOMAIN r.versions THEN r.versions[v] ELSE versionRow[v]
  <2> DEFINE D == DOMAIN versionRow \cup DOMAIN r.versions
             f == [v \in D |-> IF v \in DOMAIN r.versions THEN r.versions[v] ELSE versionRow[v]]
  <2>1. versionRow' = f BY <1>2 DEF CommitVersion, Commit
  <2>2. r.versions \in Rows /\ versionRow \in Rows BY <1>5 DEF Typed, TxType
  <2>3. /\ DOMAIN r.versions \subseteq Versions /\ r.versions \in [DOMAIN r.versions -> Version]
        /\ DOMAIN versionRow \subseteq Versions /\ versionRow \in [DOMAIN versionRow -> Version]
    BY <2>2, RowsFacts
  <2>4. f \in [D -> Version] /\ D \subseteq Versions /\ DOMAIN f = D BY <2>3
  <2>5. f \in Rows BY <2>4 DEF Rows
  <2> QED BY <2>1, <2>4, <2>5
<1>13. versionRow'[n] = [sum |-> x, active |-> TRUE] /\ n \in DOMAIN versionRow' BY <1>8, <1>12
<1>14. PICK m : m = Len(outbox) + 1 OBVIOUS
<1>15. /\ Relayed' /\ DOMAIN outbox' = DOMAIN outbox \cup {m} /\ m \notin DOMAIN outbox /\ outbox'[m] = e
       /\ \A i \in DOMAIN outbox : outbox'[i] = outbox[i]
  BY <1>10, <1>11, <1>14, OutboxGrows DEF Inv
<1>16. Available' = Available \cup {m} /\ m \notin Available /\ \A i \in Available : outbox'[i] = outbox[i]
  BY <1>10, <1>15 DEF Available
<1>17. /\ transferRow' \in [Uploads -> Transfer]
       /\ \A v \in Uploads : transferRow[v] # NoTransfer => transferRow'[v] # NoTransfer
  <2>1. r.transfer \in Transfer BY <1>5 DEF TxType
  <2> QED BY <1>5, <1>11, <2>1 DEF Typed
<1>18. Grows /\ KeepsStaged /\ KeepsObjects
  BY <1>11, <1>12, <1>16, <1>17, ObjectsSame DEF Grows, KeepsStaged
<1>19. IsAnnounced(n, x)' /\ Published(u)' BY <1>10, <1>15, <1>16 DEF IsAnnounced, Tells, Published
<1>20. PICK c : c = To(d, "cleanup") OBVIOUS
<1>21. c \in CallType /\ c.op = "finalize" /\ c.at = "cleanup" /\ c.upload = u
  <2>1. "cleanup" \in Ats BY DEF Ats
  <2> QED BY <1>1, <1>3, <1>4, <1>5, <1>20, <2>1, GoTo
<1>22. Moves(t, c, NoTx) BY <1>1, <1>5, <1>11, <1>20, GotoMoves
<1>23. Local'
  <2>1. Fits(c, NoTx) BY <1>5, <1>21, BlankFits DEF Blank
  <2>2. Lock(t, c) /\ ~Uses(c) BY <1>1, <1>3, <1>7, <1>11, <1>21 DEF Lock, Holds, Uses
  <2>3. fileRow' \in FileStatus /\ chunkRow' \in Cells /\ staged' \in Cells
    BY <1>5, <1>11 DEF Typed, TxType
  <2>4. object' \in [Versions -> {<<>>} \cup Whole] BY <1>5, <1>11 DEF Typed
  <2> QED BY <1>12, <1>17, <1>21, <1>22, <2>1, <2>2, <2>3, <2>4, Blanks, LocalStep DEF Inv
<1>24. Stored'
  <2>1. \A v \in DOMAIN versionRow' : /\ OfOneUpload(versionRow[v].sum)' /\ OfOneUpload(object[v])'
                                      /\ IsAnnounced(v, versionRow[v].sum)'
    <3> SUFFICES ASSUME NEW v \in DOMAIN versionRow'
                 PROVE  /\ OfOneUpload(versionRow[v].sum)' /\ OfOneUpload(object[v])'
                        /\ IsAnnounced(v, versionRow[v].sum)'
      OBVIOUS
    <3>1. PICK y, o : y = versionRow'[v].sum /\ o = object[v] /\ o = object'[v] BY <1>11
    <3>2. CASE v = n
      <4>1. y = x BY <1>13, <3>1, <3>2
      <4>2. OfOneUpload(x)' /\ OfOneUpload(o)' BY <1>9, <1>18, <3>1, <3>2, Grown
      <4>3. IsAnnounced(v, y)' BY <1>19, <3>2, <4>1
      <4> QED BY <3>1, <4>1, <4>2, <4>3
    <3>3. CASE v # n
      <4>1. OfOneUpload(y) /\ IsAnnounced(v, y) /\ v \in DOMAIN versionRow
        BY <1>3, <1>5, <1>12, <3>1, <3>3 DEF Copies, Inv, Stored
      <4>2. OfOneUpload(o) BY <3>1, <4>1 DEF Inv, Stored
      <4>3. OfOneUpload(y)' /\ IsAnnounced(v, y)' /\ OfOneUpload(o)' BY <1>18, <4>1, <4>2, Grown
      <4> QED BY <3>1, <4>3
    <3> QED BY <3>2, <3>3
  <2>2. \A v : Published(v) => Published(v)' BY <1>18, Grown
  <2>3. \A sum \in served' : OfOneUpload(sum)' BY <1>11, <1>18, Grown DEF Inv, Stored
  <2>4. \E v \in DOMAIN versionRow' : versionRow'[v].active BY <1>13
  <2> QED BY <1>11, <1>13, <2>1, <2>2, <2>3, <2>4 DEF Inv, Stored
<1>25. Announcing'
  <2>1. \A i \in Available' : /\ i \in Available \/ i = m
                              /\ i \in Available => outbox'[i] = outbox[i]
    BY <1>16
  <2>2. \A i \in Available' : outbox'[i].of.version \in DOMAIN versionRow' /\ Created(outbox[i].of.upload)'
    <3> TAKE i \in Available'
    <3>1. PICK w : w = outbox'[i].of.upload OBVIOUS
    <3>2. outbox'[i].of.version \in DOMAIN versionRow' /\ Created(w)
      BY <1>5, <1>10, <1>12, <1>13, <1>15, <2>1, <3>1 DEF Inv, Announcing
    <3>3. Created(w)' BY <1>18, <3>2, Grown
    <3> QED BY <3>1, <3>2, <3>3
  <2>3. \A i \in Available : ~(outbox[i].of.version = n /\ outbox[i].of.upload = u)
    BY <1>3, <1>4, <1>5 DEF Finalizing
  <2>4. \A i, j \in Available' : /\ outbox'[i].of.version = outbox'[j].of.version
                                 /\ outbox'[i].of.upload = outbox'[j].of.upload
                                 => i = j
    BY <1>10, <1>15, <2>1, <2>3 DEF Inv, Announcing
  <2> QED BY <2>2, <2>4 DEF Announcing
<1>26. Works(c, NoTx)' /\ Alone(c, NoTx)'
  <2>1. Created(c.upload)' /\ Published(c.upload)' BY <1>5, <1>18, <1>19, <1>21, Grown
  <2>2. Finalizing(c)' BY <1>21, <2>1 DEF Finalizing
  <2> QED BY <1>21, <2>2, Blanks DEF Works, Copies, Downloading, Placed, Alone
<1>27. \A i \in Available' \ Available : \A s \in Threads \ {t} :
         Inserting(call[s]) => outbox'[i].of.upload # call[s].upload
  <2> SUFFICES ASSUME NEW s \in Threads \ {t}, Inserting(call[s]) PROVE call[s].upload # u
    BY <1>10, <1>15, <1>16
  <2>1. s \in lock /\ t \in lock BY <1>1, <1>7 DEF Inv, Local, Locked, Inserting, Holds
  <2> QED BY <1>1, <1>3, <2>1 DEF Inv, Local, Locked
<1>28. \A s \in Threads : Works(call[s], tx[s])' BY <1>18, <1>22, <1>26, <1>27, AllWork
<1>29. Once'
  <2> SUFFICES ASSUME CreatedOnce' PROVE StoredOnce' /\ \A s \in Threads : Alone(call[s], tx[s])'
    BY DEF Once
  <2>1. CreatedOnce BY <1>18, Grown
  <2>2. /\ \A v \in DOMAIN versionRow : v < n
        /\ object[n] = x
        /\ \A w \in DOMAIN r.versions : w # n => r.versions[w].sum = versionRow[w].sum
    BY <1>3, <1>4, <1>5, <2>1 DEF Alone
  <2>3. DOMAIN versionRow \subseteq Versions BY ActiveVersion
  <2>4. \A v \in DOMAIN versionRow : v # n /\ v <= n
    BY <1>9, <2>2, <2>3, FilesAssumption DEF Versions
  <2>5. \A w \in DOMAIN versionRow : w \in DOMAIN versionRow' /\ versionRow'[w].sum = versionRow[w].sum
    BY <1>12, <2>2, <2>4
  <2>6. \A v \in DOMAIN versionRow' : v = n \/ v \in DOMAIN versionRow
    BY <1>3, <1>5, <1>12 DEF Copies
  <2>7. \A s \in Threads : Alone(call[s], tx[s])'
    BY <1>1, <1>7, <1>22, <1>26, <2>1, <2>5, AllAlone DEF Inv
  <2>8. \A v \in DOMAIN versionRow' : object'[v] = versionRow'[v].sum
    BY <1>11, <1>13, <2>1, <2>2, <2>5, <2>6 DEF Inv, Once, StoredOnce
  <2>9. \A sum \in served' : IsStored(sum)'
    BY <1>11, <2>1, <2>5 DEF Inv, Once, StoredOnce, IsStored
  <2>10. \A v \in DOMAIN versionRow' : v <= n /\ versionRow'[n].active
    BY <1>9, <1>13, <2>4, <2>6, FilesAssumption DEF Versions
  <2> QED BY <1>13, <2>7, <2>8, <2>9, <2>10 DEF StoredOnce
<1> QED BY <1>15, <1>23, <1>24, <1>25, <1>28, <1>29 DEF Inv

-----------------------------------------------------------------------------
(* Steps of nobody's call                                                  *)

LEMMA ServiceKept ==
    ASSUME Inv, Relayed', Available' = Available, \A i \in Available : outbox'[i].of = outbox[i].of,
           UNCHANGED <<fileRow, transferRow, chunkRow, versionRow, staged, object, call, tx, lock,
                       recorded, answered, served>>
    PROVE  Inv'
<1>1. Local'
  BY DEF Inv, Local, Typed, Locked, Reserved, Users
<1>2. Grows /\ KeepsStaged /\ KeepsObjects BY ObjectsSame DEF Grows, KeepsStaged
<1>3. Deactivated' <=> Deactivated BY DEF Deactivated
<1>4. Stored'
  <2>1. \A u : Published(u) => Published(u)' BY <1>2, Grown
  <2>2. \A sum \in served' : OfOneUpload(sum)' BY <1>2, Grown DEF Inv, Stored
  <2>3. versionRow \in Rows BY DEF Inv, Local, Typed
  <2>4. /\ \A u \in Uploads, k \in Chunks : chunkRow'[u][k] # None => <<u, k, chunkRow'[u][k]>> \in recorded'
        /\ fileRow' = "available" \/ answered' => DOMAIN versionRow # {}
        /\ \A u \in Uploads, k \in Chunks :
             ~Published(u)' /\ chunkRow'[u][k] # None => staged'[u][k] # None
    BY <2>1 DEF Inv, Stored
  <2> QED BY <1>2, <1>3, <2>2, <2>3, <2>4, StoredKept DEF Inv
<1>5. Announcing'
  <2>1. \A u : Created(u) => Created(u)' BY <1>2, Grown
  <2> QED BY <2>1 DEF Inv, Announcing
<1>6. \A s \in Threads : Works(call[s], tx[s])'
  <2> TAKE s \in Threads
  <2>1. PICK d, q : d = call[s] /\ q = tx[s] /\ d = call'[s] /\ q = tx'[s] OBVIOUS
  <2>2. Fits(d, q) /\ Works(d, q) BY <2>1 DEF Inv, Local
  <2>3. Works(d, q)' BY <1>2, <2>2, WorksOn
  <2> QED BY <2>1, <2>3
<1>7. Once'
  <2>1. CreatedOnce' => CreatedOnce BY <1>2, Grown
  <2> QED BY <1>3, <2>1 DEF Inv, Once, StoredOnce, Alone, IsStored
<1> QED BY <1>1, <1>4, <1>5, <1>6, <1>7 DEF Inv

LEMMA LapseStep ==
    ASSUME Inv, Lapse
    PROVE  Inv'
<1>1. UNCHANGED <<storeVars, objectVars, tx, call, lock, relay, audited, recorded, answered, served>>
  BY DEF Lapse
<1>2. Relayed' BY <1>1, RelayedKept DEF Inv, storeVars
<1> QED BY <1>1, <1>2, ServiceKept DEF storeVars, objectVars, Available

LEMMA FetchPendingEventsStep ==
    ASSUME Inv, FetchPendingEvents
    PROVE  Inv'
<1>1. /\ UNCHANGED <<storeVars, objectVars, tx, call, lock, audited, recorded, answered, served>>
      /\ relay' = [at |-> "submit", ok |-> FALSE, batches |-> relay.batches + 1,
                   events |-> PendingEvents(BatchSize)]
  BY DEF FetchPendingEvents
<1>2. UNCHANGED <<fileRow, transferRow, chunkRow, versionRow, outbox, staged, object>>
  BY <1>1 DEF storeVars, objectVars
<1>3. PICK n \in Nat, E \in SUBSET (1..Len(outbox)) :
        relay' = [at |-> "submit", ok |-> FALSE, batches |-> n, events |-> E]
  <2>1. relay.batches + 1 \in Nat /\ DOMAIN outbox = 1..Len(outbox) BY DEF Inv, Relayed, Batch
  <2>2. PendingEvents(BatchSize) \subseteq DOMAIN outbox BY DEF PendingEvents
  <2> QED BY <1>1, <2>1, <2>2
<1>4. relay' \in Batch /\ relay'.events = E /\ ~relay'.ok
  <2>1. E \in SUBSET Nat BY <1>3 DEF Inv, Relayed
  <2> QED BY <1>3, <2>1 DEF Batch
<1>5. Relayed' BY <1>1, <1>2, <1>3, <1>4 DEF Inv, Relayed
<1> QED BY <1>1, <1>2, <1>5, ServiceKept DEF Available

LEMMA SubmitBatchStep ==
    ASSUME Inv, SubmitBatch
    PROVE  Inv'
<1>1. UNCHANGED <<storeVars, objectVars, tx, call, lock, recorded, answered, served>> BY DEF SubmitBatch
<1>2. UNCHANGED <<fileRow, transferRow, chunkRow, versionRow, outbox, staged, object>>
  BY <1>1 DEF storeVars, objectVars
<1>3. /\ relay \in Batch /\ relay.events \subseteq 1..Len(outbox)
      /\ audited \subseteq audited' /\ audited' \subseteq 1..Len(outbox)
  BY DEF SubmitBatch, Inv, Relayed
<1>4. PICK ok \in {FALSE, relay.events \subseteq audited'} : relay' = [relay EXCEPT !.at = "mark", !.ok = ok]
  BY DEF SubmitBatch
<1>5. ok \in BOOLEAN /\ (ok => relay.events \subseteq audited') BY <1>4
<1>6. relay' \in Batch /\ relay'.events = relay.events /\ relay'.ok = ok
  BY <1>3, <1>4, <1>5 DEF Batch
<1>7. Relayed' BY <1>2, <1>3, <1>5, <1>6 DEF Inv, Relayed
<1> QED BY <1>1, <1>2, <1>7, ServiceKept DEF Available

LEMMA MarkEventStep ==
    ASSUME Inv, MarkEvent
    PROVE  Inv'
<1>1. UNCHANGED <<fileRow, transferRow, chunkRow, versionRow, objectVars, tx, call, lock,
                  audited, recorded, answered, served>>
  BY DEF MarkEvent
<1>2. PICK i \in relay.events :
        /\ MarkOutbox(i, IF relay.ok THEN "published" ELSE "failed")
        /\ relay' = IF relay.events = {i} THEN [NoBatch EXCEPT !.batches = relay.batches]
                    ELSE [relay EXCEPT !.events = @ \ {i}]
  BY DEF MarkEvent
<1>3. /\ outbox \in Seq(Event) /\ relay \in Batch /\ i \in 1..Len(outbox)
      /\ relay.ok => i \in audited
  BY <1>2 DEF Inv, Relayed
<1>4. PICK s \in {"published", "failed"} : outbox' \in {outbox, [outbox EXCEPT ![i].status = s]}
                                           /\ (s = "published" => i \in audited)
  BY <1>2, <1>3 DEF MarkOutbox
<1>5. /\ outbox' \in Seq(Event) /\ Len(outbox') = Len(outbox)
      /\ \A j \in 1..Len(outbox) : /\ outbox'[j].type = outbox[j].type /\ outbox'[j].of = outbox[j].of
                                   /\ outbox'[j].status = outbox[j].status \/ (j = i /\ outbox'[j].status = s)
  <2>1. CASE outbox' = outbox BY <1>3, <2>1
  <2>2. CASE outbox' = [outbox EXCEPT ![i].status = s]
    <3> DEFINE e == [outbox[i] EXCEPT !.status = s]
    <3>1. outbox[i] \in Event BY <1>3
    <3>2. e \in Event /\ e.type = outbox[i].type /\ e.of = outbox[i].of /\ e.status = s
      BY <3>1 DEF Event
    <3>3. outbox' = [outbox EXCEPT ![i] = e] BY <2>2
    <3> HIDE DEF e
    <3> QED BY <1>3, <3>2, <3>3
  <2> QED BY <1>4, <2>1, <2>2
<1>6. Available' = Available /\ \A j \in Available : outbox'[j].of = outbox[j].of
  <2>1. DOMAIN outbox = 1..Len(outbox) /\ DOMAIN outbox' = 1..Len(outbox) BY <1>3, <1>5
  <2> QED BY <1>5, <2>1 DEF Available
<1>7. relay' \in Batch /\ relay'.events \subseteq relay.events /\ (relay'.ok => relay.ok)
  <2>1. CASE relay' = [NoBatch EXCEPT !.batches = relay.batches]
    BY <1>3, <2>1 DEF Batch, NoBatch
  <2>2. CASE relay' = [relay EXCEPT !.events = @ \ {i}] BY <1>3, <2>2 DEF Batch
  <2> QED BY <1>2, <2>1, <2>2
<1>8. Relayed' BY <1>1, <1>4, <1>5, <1>7 DEF Inv, Relayed
<1> QED BY <1>1, <1>6, <1>8, ServiceKept DEF objectVars

-----------------------------------------------------------------------------
(* The invariant holds                                                     *)

LEMMA InvInit ==
    Init => Inv
<1> SUFFICES ASSUME Init PROVE Inv OBVIOUS
<1>1. /\ fileRow = "absent" /\ transferRow = [u \in Uploads |-> NoTransfer]
      /\ chunkRow = [u \in Uploads |-> [c \in Chunks |-> None]]
      /\ staged = [u \in Uploads |-> [c \in Chunks |-> None]]
      /\ versionRow = <<>> /\ outbox = <<>> /\ object = [v \in Versions |-> <<>>]
      /\ tx = [t \in Threads |-> NoTx] /\ call = [t \in Threads |-> Idle]
      /\ lock = {} /\ relay = NoBatch /\ audited = {}
      /\ recorded = {} /\ answered = FALSE /\ served = {}
  BY DEF Init, StoreInit
<1>2. Typed
  <2>1. /\ fileRow \in FileStatus /\ transferRow \in [Uploads -> Transfer]
        /\ object \in [Versions -> {<<>>} \cup Whole] /\ versionRow \in Rows
    BY <1>1, Blanks, NoRows
  <2>2. chunkRow \in Cells /\ staged \in Cells BY <1>1 DEF Cells
  <2>3. call \in [Threads -> CallType] /\ tx \in [Threads -> TxType] BY <1>1, Blanks
  <2> QED BY <2>1, <2>2, <2>3 DEF Typed
<1>3. DOMAIN versionRow = {} /\ DOMAIN outbox = {} /\ Available = {}
  <2>1. DOMAIN versionRow = {} BY <1>1, NoRows
  <2>2. DOMAIN outbox = {} BY <1>1, NoRows
  <2> QED BY <2>1, <2>2 DEF Available
<1>4. \A t \in Threads : call[t] = Idle /\ tx[t] = NoTx BY <1>1
<1>5. Fits(Idle, NoTx) /\ ~Publishing(Idle) BY Blanks, BlankFits DEF Blank
<1>6. Works(Idle, NoTx) /\ Alone(Idle, NoTx) BY Blanks, PlainWorks DEF Placed
<1>7. Local
  <2>1. \A t \in Threads : Fits(call[t], tx[t]) BY <1>4, <1>5
  <2>2. Locked BY <1>1, <1>4, Blanks DEF Locked, Holds
  <2>3. Users = {} BY <1>4, Blanks DEF Users, Uses
  <2>4. Reserved BY <2>3, FS_EmptySet, FilesAssumption DEF Reserved
  <2> QED BY <1>2, <2>1, <2>2, <2>4 DEF Local
<1>8. Stored BY <1>1, <1>3 DEF Stored
<1>9. Relayed
  <2>1. outbox \in Seq(Event) /\ 1..Len(outbox) = {} BY <1>1
  <2>2. relay \in Batch /\ relay.events = {} BY <1>1 DEF NoBatch, Batch
  <2> QED BY <1>1, <2>1, <2>2 DEF Relayed
<1>10. Announcing BY <1>3 DEF Announcing
<1>11. Once BY <1>1, <1>3, <1>4, <1>6 DEF Once, StoredOnce
<1>12. \A t \in Threads : Works(call[t], tx[t]) BY <1>4, <1>6
<1> QED BY <1>7, <1>8, <1>9, <1>10, <1>11, <1>12 DEF Inv

LEMMA StepKeeps ==
    ASSUME Inv, NEW t \in Threads, Step(t)
    PROVE  Inv'
  BY CommitFileStep, CreateSessionStep, StageExpiredStep, StoreChunkFindsStep, ListChunksStep,
     StageObjectStep, RecordChunkStep, ChunkProgressStep, ChunkStartsFileStep, CountChunksStep,
     CommitChunkStep, LockSessionStep, FinalizeFindsTransferStep, FinalizeFindsFileStep,
     FinalizeStagesTransferStep, FinalizeStagesFileStep, FinalizeValidatesStep, TargetVersionStep,
     FetchChunksStep, PutVersionStep, InsertVersionStep, CreateVersionStep, CommitVersionStep,
     CleanupStagingStep, StageCancelledStep, StageDeletedStep, StageFileExpiredStep, CommitCallStep,
     DownloadFindsVersionStep, FetchChunkStep, SendChunkStep DEF Step

LEMMA InvNext ==
    Inv /\ [Next]_vars => Inv'
<1> SUFFICES ASSUME Inv, [Next]_vars PROVE Inv' OBVIOUS
<1>1. ASSUME NEW t \in Threads, Begin(t) \/ Step(t) PROVE Inv' BY <1>1, BeginStep, StepKeeps
<1>2. CASE Lapse BY <1>2, LapseStep
<1>3. CASE Relay BY <1>3, FetchPendingEventsStep, SubmitBatchStep, MarkEventStep DEF Relay
<1>4. CASE UNCHANGED vars
  <2>1. UNCHANGED <<storeVars, objectVars, tx, call, lock, relay, audited, recorded, answered, served>>
    BY <1>4 DEF vars, serviceVars
  <2>2. Relayed' BY <2>1, RelayedKept DEF Inv, storeVars
  <2> QED BY <2>1, <2>2, ServiceKept DEF storeVars, objectVars, Available
<1> QED BY <1>1, <1>2, <1>3, <1>4 DEF Next

LEMMA Invariance ==
    Spec => []Inv
  BY InvInit, InvNext, PTL DEF Spec

-----------------------------------------------------------------------------
(* What it shows                                                           *)

LEMMA IsTypeOK ==
    ASSUME Inv
    PROVE  TypeOK
<1>1. /\ fileRow \in FileStatus /\ transferRow \in [Uploads -> Transfer]
      /\ chunkRow \in Cells /\ staged \in Cells /\ versionRow \in Rows
      /\ object \in [Versions -> {<<>>} \cup Whole]
  BY DEF Inv, Local, Typed
<1>2. \A v \in DOMAIN versionRow : v \in Versions /\ versionRow[v] \in Version BY <1>1, RowsFacts
<1>3. outbox \in Seq(Event) /\ DOMAIN outbox = 1..Len(outbox) /\ audited \subseteq 1..Len(outbox)
  BY DEF Inv, Relayed
<1>4. \A i \in DOMAIN outbox : outbox[i] \in Event BY <1>3
<1>5. MemoryReserved <= MemoryBudget BY UsersReserve DEF Inv, Local, Reserved
<1>6. \A t, s \in lock : Upload(t) = Upload(s) => t = s BY DEF Inv, Local, Locked, Upload
<1> QED BY <1>1, <1>2, <1>3, <1>4, <1>5, <1>6 DEF TypeOK, Cells

(* Whatever calls interleave, also two that create the file or finalise it *)
(* at once: the checksum of a version, its object and what a download is   *)
(* served are the recorded chunks of one upload; a file that was created   *)
(* once has the object of each version behind its row; and a recorded      *)
(* chunk stays staged until its upload has announced a version.            *)
THEOREM VersionsStayConsistent ==
    Spec => []VersionsConsistent
<1>1. Inv => VersionsConsistent
  <2> SUFFICES ASSUME Inv PROVE VersionsConsistent OBVIOUS
  <2>1. VersionIsAccepted BY DEF Inv, Stored, VersionIsAccepted
  <2>2. VersionIsItsObject BY DEF Inv, Once, StoredOnce, IsStored, VersionIsItsObject
  <2>3. StagedUntilVersion BY DEF Inv, Stored, Published, StagedUntilVersion
  <2> QED BY <2>1, <2>2, <2>3, IsTypeOK DEF VersionsConsistent
<1> QED BY <1>1, Invariance, PTL

(* Every version is announced with the checksum it is stored under, by     *)
(* one event for each upload that made it (one at all when the file was    *)
(* created once), nothing else is, and an event is marked published only   *)
(* if the audit service accepted it.                                       *)
THEOREM EventsAreExact ==
    Spec => []EventsExact
<1>1. Inv => EventsExact
  <2> SUFFICES ASSUME Inv PROVE EventsExact OBVIOUS
  <2>1. \A i, j \in Available : CreatedOnce => outbox[i].of.upload = outbox[j].of.upload
    BY DEF Inv, Announcing, Created, CreatedOnce
  <2>2. AnnouncedAsStored
    BY <2>1 DEF Inv, Stored, IsAnnounced, Tells, Announcing, AnnouncedAsStored
  <2>3. DOMAIN outbox = 1..Len(outbox) BY DEF Inv, Relayed
  <2>4. PublishedIsAudited BY <2>3 DEF Inv, Relayed, PublishedIsAudited
  <2> QED BY <2>2, <2>4 DEF EventsExact
<1> QED BY <1>1, Invariance, PTL

(* A finalisation that was answered with success left a version, and an    *)
(* available file has an active one but for the moment in which one        *)
(* version replaces the other.                                             *)
THEOREM AnswersAreStored ==
    Spec => []AnsweredIsStored
<1>1. Inv => AnsweredIsStored
  <2> SUFFICES ASSUME Inv PROVE AnsweredIsStored OBVIOUS
  <2>1. answered => DOMAIN versionRow # {} BY DEF Inv, Stored
  <2>2. ASSUME fileRow = "available", lock = {} PROVE FindActiveVersion # 0
    <3>1. ~Deactivated BY <2>2 DEF Inv, Local, Locked, Holds, Deactivated, Publishing
    <3>2. \E v \in DOMAIN versionRow : versionRow[v].active BY <2>2, <3>1 DEF Inv, Stored
    <3> QED BY <3>2, ActiveVersion
  <2> QED BY <2>1, <2>2 DEF AnsweredIsStored
<1> QED BY <1>1, Invariance, PTL
====
