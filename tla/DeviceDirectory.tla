--------------------------- MODULE DeviceDirectory ----------------------------
(***************************************************************************)
(* RecipientDeviceResolutionService: which devices a user has and whether  *)
(* they are active, asked of the auth service and cached for a while.      *)
(* Handlers ask it about the calling device, submissions about every       *)
(* participant.                                                            *)
(*                                                                         *)
(* The auth service is external: its devices are enrolled and revoked at   *)
(* any time.  An answer is read there at one time and cached when the      *)
(* client has received it; the step from receipt to cache takes no time.   *)
(***************************************************************************)
EXTENDS Conversations

CONSTANTS
  Enrolled,        \* the devices active from the start
  Ttl,             \* cache_ttl
  RpcTimeout,      \* of the call to the auth service
  CacheCapacity

ASSUME DirectoryAssumption ==
  /\ Enrolled \subseteq Devices
  /\ Ttl \in Nat /\ RpcTimeout \in Nat /\ CacheCapacity \in Nat \ {0}

VARIABLES
  status,          \* of the auth service: [Devices -> Absent, Active or Revoked]
  since,           \* when the status changed, for the properties
  cache            \* DeviceDirectoryCache, most recently used first

dirVars == <<status, since, cache>>

DirectoryInit ==
  /\ status = [d \in Devices |-> IF d \in Enrolled THEN "Active" ELSE "Absent"]
  /\ since = [d \in Devices |-> -(Ttl + RpcTimeout + 1)]
  /\ cache = <<>>

(* Enrolment and revocation at the auth service. *)
DeviceChanges(d) ==
  /\ d \in load.volatile /\ status[d] # "Revoked" /\ phase = "serving"
  /\ status' = [status EXCEPT ![d] = IF @ = "Absent" THEN "Active" ELSE "Revoked"]
  /\ since' = [since EXCEPT ![d] = clock]
  /\ UNCHANGED <<cache, callVars, convVars>>

(* GetDeviceCryptoDirectory: the devices of a user. *)
Snapshot(u) == [d \in {e \in Devices : Owner[e] = u /\ status[e] # "Absent"} |-> status[d]]

-----------------------------------------------------------------------------
(* DeviceDirectoryCache: a user has one entry at most. *)
Held(u) == {i \in DOMAIN cache : cache[i].user = u}
Entry(u) == cache[CHOOSE i \in Held(u) : TRUE]
Without(u) ==
  IF Held(u) = {} THEN cache ELSE RemoveAt(cache, CHOOSE i \in Held(u) : TRUE)
Valid(u) == Held(u) # {} /\ clock - Entry(u).at <= Ttl

(* get: the entry moves to the front, with the time it was cached at. *)
GetCached(u) == << Entry(u) >> \o Without(u)

(* put: replaces the user's entry, or evicts the oldest if there is none   *)
(* and the cache is full.                                                  *)
PutCached(u, devs) ==
  LET room == IF Held(u) = {} /\ Len(cache) >= CacheCapacity
              THEN Front(cache) ELSE Without(u)
  IN << [user |-> u, devs |-> devs, at |-> clock] >> \o room

-----------------------------------------------------------------------------
(* A handler asks about the caller, a submission about the participants    *)
(* it has not asked about yet.                                             *)
Resolving(c) == (call[c].pc = "device" \/ call[c].task = "resolve")
UserOf(c) == IF call[c].pc = "device" THEN call[c].req.user
             ELSE CHOOSE u \in call[c].users : TRUE

(* The device a handler acts for: the one of the request, else the one of  *)
(* the header.                                                             *)
EffectiveDevice(r) == IF r.device # None THEN r.device ELSE r.header

(* get_device_status: a device that is not listed passes, and so does      *)
(* every device if the directory does not answer.                          *)
DeviceRefused(r, devs) ==
  LET d == EffectiveDevice(r) IN d \in DOMAIN devs /\ devs[d] # "Active"

(* The directory with an entry more. *)
Extended(dir, u, entry) ==
  [v \in DOMAIN dir \cup {u} |-> IF v = u THEN entry ELSE dir[v]]

(* How the call goes on with the devices of u. *)
Resolved(c, u, devs) ==
  IF call[c].pc = "device"
  THEN IF DeviceRefused(call[c].req, devs)
       THEN Replied([call[c] EXCEPT !.asked = None], "DEVICE_REVOKED")
       ELSE [call[c] EXCEPT !.pc = "submit", !.asked = None]
  ELSE [call[c] EXCEPT !.asked = None, !.users = @ \ {u},
          !.dir = Extended(@, u, [devs |-> devs, at |-> clock]),
          !.task = IF call[c].users = {u} THEN "targets" ELSE "resolve"]

(* The directory could not be asked: handlers let the device pass, a       *)
(* submission fails.                                                       *)
Unresolved(c) ==
  IF call[c].pc = "device"
  THEN [call[c] EXCEPT !.pc = "submit", !.asked = None]
  ELSE [call[c] EXCEPT !.asked = None, !.task = "finished", !.res = "UNSPECIFIED"]

(* resolve_devices_for_user: from the cache, or by a call to auth; an      *)
(* entry that is too old is dropped.                                       *)
CacheHit(c) ==
  LET u == UserOf(c)
  IN /\ Resolving(c) /\ call[c].asked = None /\ Valid(u)
     /\ cache' = GetCached(u)
     /\ Goes(c, Resolved(c, u, Entry(u).devs))
     /\ UNCHANGED <<load, clock, faults, phase, convVars, status, since>>

AskDirectory(c) ==
  LET u == UserOf(c)
  IN /\ Resolving(c) /\ call[c].asked = None /\ ~Valid(u)
     /\ cache' = Without(u)
     /\ Goes(c, [call[c] EXCEPT !.asked = [user |-> u, at |-> clock, devs |-> None]])
     /\ UNCHANGED <<load, clock, faults, phase, convVars, status, since>>

(* The auth service reads its tables. *)
DirectoryReads(c) ==
  /\ Resolving(c) /\ call[c].asked # None /\ call[c].asked.devs = None
  /\ Goes(c, [call[c] EXCEPT !.asked.devs = Snapshot(call[c].asked.user)])
  /\ UNCHANGED <<load, clock, faults, phase, convVars, dirVars>>

(* Its answer arrives in time and is cached. *)
DirectoryAnswers(c) ==
  LET a == call[c].asked
  IN /\ Resolving(c) /\ a # None /\ a.devs # None
     /\ clock <= a.at + RpcTimeout
     /\ cache' = PutCached(a.user, a.devs)
     /\ Goes(c, Resolved(c, a.user, a.devs))
     /\ UNCHANGED <<load, clock, faults, phase, convVars, status, since>>

(* It does not answer, or not in time. *)
DirectoryFails(c) ==
  LET late == call[c].asked # None /\ clock > call[c].asked.at + RpcTimeout
  IN /\ Resolving(c) /\ call[c].asked # None
     /\ late \/ faults < load.faults
     /\ faults' = IF late THEN faults ELSE faults + 1
     /\ Goes(c, Unresolved(c))
     /\ UNCHANGED <<load, clock, phase, convVars, dirVars>>

DirectoryStep(c) ==
  \/ CacheHit(c) \/ AskDirectory(c) \/ DirectoryReads(c)
  \/ DirectoryAnswers(c) \/ DirectoryFails(c)

-----------------------------------------------------------------------------
(* The device a submission is sent from: the one of the header, else the   *)
(* one of the request.                                                     *)
SenderDevice(r) == IF r.header # None THEN r.header ELSE r.device

(* validate_submission_targets before it asks the directory: no target is  *)
(* the sending device or of a user outside the conversation.               *)
TargetsNamed(r, participants) ==
  FirstError(<< Reject(SenderDevice(r) \in r.targets, "INVALID_TARGET_DEVICE"),
                Reject(\E t \in r.targets : Owner[t] \notin participants,
                       "NOT_A_PARTICIPANT") >>)

(* A mutant of TargetsActive: devices that are left out do not matter. *)
TargetsKnown(r, dir) ==
  FirstError(<< Reject(\E t \in r.targets : t \notin DOMAIN dir[Owner[t]].devs,
                       "INVALID_TARGET_DEVICE") >>)

(* And with the directory of every participant and of the sender: every    *)
(* target is a device its user has and that is active, the sending device  *)
(* is not known to be revoked, and no active device is left out but the    *)
(* sending one.                                                            *)
TargetsActive(r, dir) ==
  LET known == UNION {DOMAIN dir[u].devs : u \in DOMAIN dir}
      active == {e \in known : dir[Owner[e]].devs[e] = "Active"}
  IN FirstError(<< Reject(~(r.targets \subseteq known), "INVALID_TARGET_DEVICE"),
                   Reject(~(r.targets \subseteq active), "DEVICE_REVOKED"),
                   Reject(SenderDevice(r) \in known \ active, "DEVICE_REVOKED"),
                   Reject(~(active \ {SenderDevice(r)} \subseteq r.targets),
                          "INVALID_TARGET_DEVICE") >>)
=============================================================================
