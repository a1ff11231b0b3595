----------------------------- MODULE AuthDevices -----------------------------
(***************************************************************************)
(* The device side of the auth service: enrolment, pairing, the directory  *)
(* of public keys and the one-time prekeys handed out from it.             *)
(*                                                                         *)
(* One account.  A gRPC call runs on one of Threads and is a sequence of   *)
(* database transactions (and of critical sections under challenge_mutex_) *)
(* that interleave with those of the other calls; call[t] says how far     *)
(* thread t is.  Calls refused by a check change nothing and are the       *)
(* absence of a step.  A key row's number is also its creation time.       *)
(***************************************************************************)
EXTENDS Integers, Sequences, FiniteSets, SequencesExt

CONSTANTS Devices,       \* device ids
          Enrolled,      \* devices already enrolled and active at the start
          Threads,       \* server threads
          Batch,         \* one-time prekeys in one upload
          MaxKeys,       \* bound: rows of device_public_keys
          MaxCalls,      \* bound: calls started and deadlines passed
          MaxFailedPairingAttempts,
          None           \* no device

ASSUME AuthDevicesAssumption ==
    /\ Enrolled \subseteq Devices /\ IsFiniteSet(Enrolled) /\ None \notin Devices
    /\ {Batch, MaxKeys, MaxCalls, MaxFailedPairingAttempts} \subseteq Nat
    /\ MaxFailedPairingAttempts > 0

VARIABLES deviceRow,     \* devices.device_status
          keyRow,        \* device_public_keys
          rowLock,       \* key rows locked by SELECT ... FOR UPDATE SKIP LOCKED
          pairing,       \* pairing_challenges_, in memory
          complete,      \* devices whose enrolment was answered
          gone,          \* devices whose revocation was answered
          call,          \* the call each thread is in
          calls          \* calls started so far

deviceVars == <<deviceRow, keyRow, rowLock, pairing, complete>>

DeviceStatus == {"none", "pending", "active", "revoked"}
KeyKind == {"identity", "signed", "onetime"}
KeyStatus == {"active", "replaced", "claimed", "revoked"}

\* given counts the callers a one-time prekey was handed to
Key == [device : Devices, kind : KeyKind, status : KeyStatus, given : Nat]

Pairing == [state : {"none", "open", "consumed", "locked"}, failed : 0..MaxFailedPairingAttempts,
            lapsed : BOOLEAN]
NoPairing == [state |-> "none", failed |-> 0, lapsed |-> FALSE]
FreshPairing == [state |-> "open", failed |-> 0, lapsed |-> FALSE]

\* late: the device's revocation had been answered, or the session had ended,
\* when the call came in.  todo: devices a directory lookup still has to visit.
Call(op, at, dev, id, late) ==
    [op |-> op, at |-> at, dev |-> dev, id |-> id, n |-> 0, late |-> late, todo |-> {}]
Idle == Call("idle", "", None, 0, FALSE)

NewKey(d, kind) == [device |-> d, kind |-> kind, status |-> "active", given |-> 0]
SeedOf(d) == <<NewKey(d, "identity"), NewKey(d, "signed")>>
             \o [i \in 1..Batch |-> NewKey(d, "onetime")]

\* the key rows of the enrolled devices, in some order
SeededRows ==
    LET rows == SetToSeq(Enrolled \X (1..Batch + 2))
    IN  [i \in DOMAIN rows |-> SeedOf(rows[i][1])[rows[i][2]]]

DevicesInit ==
    /\ deviceRow = [d \in Devices |-> IF d \in Enrolled THEN "active" ELSE "none"]
    /\ keyRow = SeededRows
    /\ rowLock = {}
    /\ pairing = [d \in Devices |-> NoPairing]
    /\ complete = Enrolled
    /\ gone = {}
    /\ call = [t \in Threads |-> Idle]
    /\ calls = 0

-----------------------------------------------------------------------------
(* Reading the directory                                                   *)

ActiveKeys(d, kind) ==
    {k \in DOMAIN keyRow : keyRow[k].device = d /\ keyRow[k].kind = kind /\ keyRow[k].status = "active"}

\* ORDER BY created_at DESC LIMIT 1; 0 is "no row"
Newest(d, kind) == IF ActiveKeys(d, kind) = {} THEN 0
                   ELSE CHOOSE k \in ActiveKeys(d, kind) : \A j \in ActiveKeys(d, kind) : j <= k
FindActiveIdentityKey(d) == Newest(d, "identity")
FindActiveSignedPrekey(d) == Newest(d, "signed")

HasBundle(d) == FindActiveIdentityKey(d) # 0 /\ FindActiveSignedPrekey(d) # 0

\* the answers of get_crypto_identity
CryptoIdentity(d) ==
    CASE deviceRow[d] = "revoked" -> "revoked"
      [] deviceRow[d] = "pending" -> "pending"
      [] deviceRow[d] = "none" -> "not_found"
      [] OTHER -> IF HasBundle(d) THEN "success" ELSE "internal_error"

\* a revoked or pending device is answered too, without its keys
GetCryptoIdentity(d) ==
    CASE CryptoIdentity(d) = "not_found" -> "NOT_FOUND"
      [] CryptoIdentity(d) = "internal_error" -> "INTERNAL"
      [] OTHER -> "OK"

\* get_inventory_status: how many one-time prekeys are left and whether a
\* rotation is due because there is no signed prekey
CountOneTimePrekeys(d, status) ==
    Cardinality({k \in DOMAIN keyRow : /\ keyRow[k].device = d /\ keyRow[k].kind = "onetime"
                                       /\ keyRow[k].status = status})
GetInventoryStatus(d) ==
    [active |-> CountOneTimePrekeys(d, "active"),
     claimed |-> CountOneTimePrekeys(d, "claimed"),
     is_exhausted |-> CountOneTimePrekeys(d, "active") = 0,
     needs_rotation |-> FindActiveSignedPrekey(d) = 0]

GetPrekeyInventoryStatus(d) ==
    CASE deviceRow[d] = "none" -> [code |-> "NOT_FOUND"]
      [] deviceRow[d] = "revoked" -> [code |-> "PERMISSION_DENIED"]
      [] OTHER -> [code |-> "OK", inventory |-> GetInventoryStatus(d)]

\* list_all_by_user_id, behind ListUserDevices; list_active_by_user_id
ListUserDevices == {d \in Devices : deviceRow[d] # "none"}
ListActive == {d \in Devices : deviceRow[d] = "active"}

-----------------------------------------------------------------------------
(* Calls                                                                   *)

Free(t) == call[t] = Idle /\ calls < MaxCalls
At(t, op, at) == call[t].op = op /\ call[t].at = at
Start(t, c) == call' = [call EXCEPT ![t] = c] /\ calls' = calls + 1
Goto(t, at) == call' = [call EXCEPT ![t].at = at] /\ UNCHANGED calls
Leave(t) == call' = [call EXCEPT ![t] = Idle] /\ UNCHANGED calls
Late(d) == d \in gone

\* the answer of a call that succeeded reaches the client
Return(t) ==
    /\ call[t].at = "ok"
    /\ Leave(t)
    /\ UNCHANGED <<deviceVars, gone>>

\* store_public_key; store_one_time_prekeys stores the whole batch in one
\* transaction
StorePublicKey(d, kind) == Len(keyRow) < MaxKeys /\ keyRow' = Append(keyRow, NewKey(d, kind))
StoreOneTimePrekeys(d) ==
    /\ Len(keyRow) + Batch <= MaxKeys
    /\ keyRow' = keyRow \o [i \in 1..Batch |-> NewKey(d, "onetime")]

InsertDevice(d, status) == deviceRow[d] = "none" /\ deviceRow' = [deviceRow EXCEPT ![d] = status]

-----------------------------------------------------------------------------
(* RegisterDevice: one transaction for the device, one for each key; id is *)
(* 1 when the caller is MFA_VERIFIED and the device needs no pairing       *)

RegisterDevice(t, d, mfaVerified) ==
    /\ Free(t)
    /\ InsertDevice(d, IF mfaVerified THEN "active" ELSE "pending")
    /\ Start(t, Call("register", "identity", d, IF mfaVerified THEN 1 ELSE 0, FALSE))
    /\ UNCHANGED <<keyRow, rowLock, pairing, complete, gone>>

StoreIdentityKey(t) ==
    /\ At(t, "register", "identity")
    /\ StorePublicKey(call[t].dev, "identity")
    /\ Goto(t, "signed")
    /\ UNCHANGED <<deviceRow, rowLock, pairing, complete, gone>>

StoreSignedPrekey(t) ==
    /\ At(t, "register", "signed")
    /\ StorePublicKey(call[t].dev, "signed")
    /\ Goto(t, "onetime")
    /\ UNCHANGED <<deviceRow, rowLock, pairing, complete, gone>>

StoreOneTimePrekey(t) ==
    /\ At(t, "register", "onetime")
    /\ call[t].n < Batch
    /\ StorePublicKey(call[t].dev, "onetime")
    /\ call' = [call EXCEPT ![t].n = @ + 1]
    /\ UNCHANGED <<deviceRow, rowLock, pairing, complete, gone, calls>>

\* a device that was registered as pending gets a pairing challenge
EnrolmentEnds(t) ==
    /\ At(t, "register", "onetime")
    /\ call[t].n = Batch
    /\ complete' = complete \cup {call[t].dev}
    /\ pairing' = IF call[t].id = 1 THEN pairing ELSE [pairing EXCEPT ![call[t].dev] = FreshPairing]
    /\ Leave(t)
    /\ UNCHANGED <<deviceRow, keyRow, rowLock, gone>>

-----------------------------------------------------------------------------
(* Pairing                                                                 *)

InitiateDevicePairing(t, d) ==
    /\ Free(t)
    /\ d \in ListUserDevices /\ deviceRow[d] = "pending"
    /\ Start(t, Call("pair", "challenge", d, 0, FALSE))
    /\ UNCHANGED <<deviceVars, gone>>

IssueChallenge(t) ==
    /\ At(t, "pair", "challenge")
    /\ pairing' = [pairing EXCEPT ![call[t].dev] = FreshPairing]
    /\ Leave(t)
    /\ UNCHANGED <<deviceRow, keyRow, rowLock, complete, gone>>

PairingLapses(d) ==
    /\ pairing[d].state = "open" /\ ~pairing[d].lapsed
    /\ pairing' = [pairing EXCEPT ![d].lapsed = TRUE]
    /\ UNCHANGED <<deviceRow, keyRow, rowLock, complete, gone, call, calls>>

AuthorizeDevice(t, d) ==
    /\ Free(t)
    /\ deviceRow[d] = "pending"
    /\ Start(t, Call("authorize", "challenge", d, 0, FALSE))
    /\ UNCHANGED <<deviceVars, gone>>

\* A mutant of AuthorizeRow: the update does not look at the status.
AuthorizeAnyRow(d) == deviceRow' = [deviceRow EXCEPT ![d] = "active"]

\* UPDATE devices ... WHERE device_status = 'PendingAuthorization'
AuthorizeRow(d) == deviceRow' = IF deviceRow[d] = "pending" THEN [deviceRow EXCEPT ![d] = "active"]
                                ELSE deviceRow

\* an MFA_VERIFIED caller needs no code; the challenge, if any, is consumed
AuthorizeByStepUp(t) ==
    LET d == call[t].dev IN
    /\ At(t, "authorize", "challenge")
    /\ pairing' = IF pairing[d].state = "none" THEN pairing
                  ELSE [pairing EXCEPT ![d].state = "consumed"]
    /\ AuthorizeRow(d)
    /\ Leave(t)
    /\ UNCHANGED <<keyRow, rowLock, complete, gone>>

\* the right code, submitted while the challenge is open and in time
AuthorizeByCode(t) ==
    LET d == call[t].dev IN
    /\ At(t, "authorize", "challenge")
    /\ pairing[d].state = "open" /\ ~pairing[d].lapsed
    /\ pairing' = [pairing EXCEPT ![d].state = "consumed"]
    /\ AuthorizeRow(d)
    /\ Leave(t)
    /\ UNCHANGED <<keyRow, rowLock, complete, gone>>

WrongCode(t) ==
    LET d == call[t].dev IN
    /\ At(t, "authorize", "challenge")
    /\ pairing[d].state = "open" /\ ~pairing[d].lapsed
    /\ pairing' = [pairing EXCEPT ![d].failed = @ + 1,
                                  ![d].state = IF pairing[d].failed + 1 >= MaxFailedPairingAttempts
                                               THEN "locked" ELSE "open"]
    /\ Leave(t)
    /\ UNCHANGED <<deviceRow, keyRow, rowLock, complete, gone>>

-----------------------------------------------------------------------------
(* UpdateCryptoPrekeys                                                     *)

\* a device learns its id from the answer to its enrolment
UpdateCryptoPrekeys(t, d) ==
    /\ Free(t)
    /\ d \in complete
    /\ deviceRow[d] = "active"
    /\ \E at \in {"current", "replenish"} : Start(t, Call("update", at, d, 0, Late(d)))
    /\ UNCHANGED <<deviceVars, gone>>

\* the signature is checked against the identity key, then the current
\* signed prekey is looked up
FindCurrentPrekey(t) ==
    /\ At(t, "update", "current")
    /\ IF FindActiveIdentityKey(call[t].dev) = 0 THEN Leave(t)
       ELSE /\ call' = [call EXCEPT ![t].at = "rotate", ![t].id = FindActiveSignedPrekey(call[t].dev)]
            /\ UNCHANGED calls
    /\ UNCHANGED <<deviceVars, gone>>

\* replace_key locks the old row and refuses one that is no longer active
ReplaceRow(old, d) ==
    /\ keyRow[old].status = "active" /\ Len(keyRow) < MaxKeys
    /\ keyRow' = Append([keyRow EXCEPT ![old].status = "replaced"], NewKey(d, "signed"))

\* the update goes on with the one-time prekeys, if the caller sent any
ReplaceKey(t) ==
    /\ At(t, "update", "rotate")
    /\ LET old == call[t].id IN
       \/ /\ old = 0
          /\ StorePublicKey(call[t].dev, "signed")
          /\ Goto(t, "replenish") \/ Leave(t)
       \/ /\ old # 0
          /\ ReplaceRow(old, call[t].dev)
          /\ Goto(t, "replenish") \/ Leave(t)
       \/ /\ old # 0 /\ keyRow[old].status # "active"
          /\ Leave(t)
          /\ UNCHANGED keyRow
    /\ UNCHANGED <<deviceRow, rowLock, pairing, complete, gone>>

ReplenishOneTimePrekeys(t) ==
    /\ At(t, "update", "replenish")
    /\ StoreOneTimePrekeys(call[t].dev)
    /\ Leave(t)
    /\ UNCHANGED <<deviceRow, rowLock, pairing, complete, gone>>

-----------------------------------------------------------------------------
(* ClaimPrekeyBundle, and GetDeviceCryptoDirectory over all active devices *)

ClaimPrekeyBundle(t, d) ==
    /\ Free(t)
    /\ deviceRow[d] = "active"
    /\ Start(t, [Call("claim", "lookup", None, 0, Late(d)) EXCEPT !.todo = {d}])
    /\ UNCHANGED <<deviceVars, gone>>

GetDeviceCryptoDirectory(t) ==
    /\ Free(t)
    /\ ListActive # {}
    /\ Start(t, [Call("directory", "lookup", None, 0, \E d \in ListActive : Late(d)) EXCEPT !.todo = ListActive])
    /\ UNCHANGED <<deviceVars, gone>>

\* A mutant of LockOneTimePrekey: a plain SELECT, which sees locked rows too.
SelectOneTimePrekey(d) ==
    LET free == ActiveKeys(d, "onetime")
    IN  IF free = {} THEN 0 ELSE CHOOSE k \in free : \A j \in free : k <= j

\* ORDER BY created_at ASC LIMIT 1 FOR UPDATE SKIP LOCKED
LockOneTimePrekey(d) ==
    LET free == ActiveKeys(d, "onetime") \ rowLock
    IN  IF free = {} THEN 0 ELSE CHOOSE k \in free : \A j \in free : k <= j

\* the call's record once device d is dealt with
Visited(c, d) == [c EXCEPT !.todo = @ \ {d}, !.at = IF c.todo = {d} THEN "ok" ELSE "lookup"]

\* a bundle comes with a one-time prekey as long as one can be locked
LookUpBundle(t, d) ==
    LET k == LockOneTimePrekey(d) IN
    /\ HasBundle(d)
    /\ rowLock' = rowLock \cup ({k} \ {0})
    /\ call' = [call EXCEPT ![t] = IF k = 0 THEN Visited(@, d)
                                   ELSE [Visited(@, d) EXCEPT !.at = "mark", !.id = k]]

ClaimLooksUp(t) ==
    /\ At(t, "claim", "lookup")
    /\ \E d \in call[t].todo : IF HasBundle(d) THEN LookUpBundle(t, d) /\ UNCHANGED calls
                               ELSE Leave(t) /\ UNCHANGED rowLock
    /\ UNCHANGED <<deviceRow, keyRow, pairing, complete, gone>>

\* a device without an identity key or a signed prekey is passed over
DirectoryLooksUp(t) ==
    /\ At(t, "directory", "lookup")
    /\ \E d \in call[t].todo : IF HasBundle(d) THEN LookUpBundle(t, d)
                               ELSE call' = [call EXCEPT ![t] = Visited(@, d)] /\ UNCHANGED rowLock
    /\ UNCHANGED <<deviceRow, keyRow, pairing, complete, gone, calls>>

\* UPDATE ... SET key_status = 'Claimed' WHERE key_status = 'Active', commit
MarkPrekeyClaimed(t) ==
    LET k == call[t].id IN
    /\ call[t].op \in {"claim", "directory"} /\ call[t].at = "mark"
    /\ keyRow' = [keyRow EXCEPT ![k].status = "claimed", ![k].given = @ + 1]
    /\ rowLock' = rowLock \ {k}
    /\ Goto(t, IF call[t].todo = {} THEN "ok" ELSE "lookup")
    /\ UNCHANGED <<deviceRow, pairing, complete, gone>>

-----------------------------------------------------------------------------
(* A repository call throws: the call ends where it is, its transaction is *)
(* rolled back.  A restart also empties the memory.                        *)
CallThrows(t) ==
    /\ call[t] # Idle /\ call[t].at # "ok"
    /\ rowLock' = rowLock \ (IF call[t].at = "mark" THEN {call[t].id} ELSE {})
    /\ Leave(t)
    /\ UNCHANGED <<deviceRow, keyRow, pairing, complete, gone>>

DeviceStep(t) ==
    \/ Return(t)
    \/ \E d \in Devices : \/ \E m \in BOOLEAN : RegisterDevice(t, d, m)
                          \/ InitiateDevicePairing(t, d)
                          \/ AuthorizeDevice(t, d)
                          \/ UpdateCryptoPrekeys(t, d)
                          \/ ClaimPrekeyBundle(t, d)
    \/ GetDeviceCryptoDirectory(t)
    \/ StoreIdentityKey(t) \/ StoreSignedPrekey(t) \/ StoreOneTimePrekey(t) \/ EnrolmentEnds(t)
    \/ IssueChallenge(t)
    \/ AuthorizeByStepUp(t) \/ AuthorizeByCode(t) \/ WrongCode(t)
    \/ FindCurrentPrekey(t) \/ ReplaceKey(t) \/ ReplenishOneTimePrekeys(t)
    \/ ClaimLooksUp(t) \/ DirectoryLooksUp(t) \/ MarkPrekeyClaimed(t)
    \/ CallThrows(t)
=============================================================================
