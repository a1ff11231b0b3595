---------------------------- MODULE MessagingTasks ----------------------------
(***************************************************************************)
(* The tasks that handlers give to the worker pools: the submission of a   *)
(* message as far as its admission, the synchronisation of a device, and   *)
(* the reading and moving of its cursor.                                   *)
(*                                                                         *)
(* Of an admitted message only the allocation of its sequence number and   *)
(* the write of its row are kept here; MessageSubmission has the rest, and *)
(* MessageDelivery the acknowledgements and read receipts.  Sequence       *)
(* numbers restart every month.                                            *)
(***************************************************************************)
EXTENDS DeviceDirectory

CONSTANTS
  Admins, Others,    \* of the group that exists from the start
  MaxMonth,          \* bound on the months
  DefaultBatch,      \* k_default_sync_batch_size
  Sent               \* messages of that group stored before the run

ASSUME TasksAssumption ==
  /\ Admins \subseteq Users /\ Others \subseteq Users \ Admins
  /\ Others # {} => Admins # {}
  /\ MaxMonth \in Nat \ {0} /\ DefaultBatch \in Nat \ {0} /\ Sent \in Nat

VARIABLES
  month,             \* the present one
  stored,            \* messages: [conv, month, seq]
  counter,           \* allocator: [Convs -> [months -> number or None]]
  cursor,            \* [Devices \cup {None} -> [Convs -> number]]
  stripes            \* the locks of update_cursor that are held

taskVars == <<month, stored, counter, cursor, stripes>>

(* Before the run a group was created and messages were sent in it. *)
TasksInit ==
  /\ month = 1
  /\ stored = {[conv |-> 1, month |-> 1, seq |-> n] : n \in 1..Sent}
  /\ counter = [k \in Convs |-> [m \in 1..MaxMonth |-> None]]
  /\ cursor = [d \in Devices \cup {None} |-> [k \in Convs |-> 0]]
  /\ stripes = {}
  /\ conversations = [k \in Convs |-> IF k = 1 THEN [type |-> "Group", pair |-> {}]
                                      ELSE None]
  /\ lastConv = 1
  /\ direct = [p \in Pairs |-> None]
  /\ meta = [k \in Convs |-> IF k = 1 THEN "Active" ELSE None]
  /\ part = [k \in Convs |-> [u \in Users |->
               IF k # 1 THEN None
               ELSE IF u \in Admins THEN Member("Admin", "Active")
               ELSE IF u \in Others THEN Member("Member", "Active") ELSE None]]
  /\ rows = {[user |-> u, at |-> -1, conv |-> 1, status |-> "Active"] :
               u \in Admins \cup Others}
  /\ events = {}

MonthTurns ==
  /\ month < load.months /\ phase = "serving" /\ clock = load.clock
  /\ month' = month + 1
  /\ UNCHANGED <<stored, counter, cursor, stripes, callVars, convVars, dirVars>>

-----------------------------------------------------------------------------
LastSequence(k, m) ==
  Max({0} \cup {s.seq : s \in {t \in stored : t.conv = k /\ t.month = m}})

(* peek_sequence: the counter is installed from the table on first use. *)
Peek(k, m) == IF counter[k][m] = None THEN LastSequence(k, m) ELSE counter[k][m]

(* get_conversation_sequence_ceiling: of this month, else of the last. *)
Ceiling(k) ==
  IF Peek(k, month) > 0 THEN Peek(k, month)
  ELSE IF month > 1 THEN LastSequence(k, month - 1) ELSE 0

Peeked(k) == [counter EXCEPT ![k][month] = Peek(k, month)]

Finished(next, res) == [next EXCEPT !.task = "finished", !.res = res]

TaskAt(c, rpc, where) == call[c].task = where /\ call[c].req.rpc = rpc

-----------------------------------------------------------------------------
(* SubmissionValidator::validate: env tells what is wrong with the         *)
(* envelopes.                                                              *)
ValidateSubmission(r) ==
  FirstError(<< Reject(r.env = "expired", "MESSAGE_EXPIRED"),
                Reject(r.targets = {}, "UNSPECIFIED"),
                Reject(r.env = "tooLarge", "PAYLOAD_TOO_LARGE"),
                Reject(r.env = "malformed", "INVALID_TARGET_DEVICE") >>)

(* E2EEnvelopeValidator::validate before it asks the directory: versions   *)
(* and key sizes the submission validator lets pass, and plaintext.        *)
ValidateEnvelope(r) ==
  FirstError(<< Reject(r.env = "oldVersion", "UNSPECIFIED"),
                Reject(r.env \in {"shortKey", "plaintext"}, "INVALID_TARGET_DEVICE") >>)

(* submit_message: validation and can_send_message. *)
SubmitAuthorise(c) ==
  LET r == call[c].req
      error == FirstError(<< ValidateSubmission(r), CanSend(r.user, r.conv) >>)
  IN /\ TaskAt(c, "SendMessage", "start")
     /\ Goes(c, IF error = "OK" THEN [call[c] EXCEPT !.task = "members"]
                ELSE Finished(call[c], error))
     /\ UNCHANGED <<load, clock, faults, phase, convVars, dirVars, taskVars>>

(* The active participants are read; if there are none left, the caller    *)
(* and the owners of the targets stand for them.  The envelopes are        *)
(* validated before the directory is asked.                                *)
SubmitMembers(c) ==
  LET r == call[c].req
      active == ListActive(r.conv)
      people == IF active = {} THEN {r.user} \cup {Owner[t] : t \in r.targets} ELSE active
      error == FirstError(<< ValidateEnvelope(r), TargetsNamed(r, people) >>)
  IN /\ TaskAt(c, "SendMessage", "members")
     /\ Goes(c, IF error = "OK"
                THEN [call[c] EXCEPT !.task = "resolve", !.users = people \cup {r.user}]
                ELSE Finished(call[c], error))
     /\ UNCHANGED <<load, clock, faults, phase, convVars, dirVars, taskVars>>

(* The targets are checked against the directory that was collected, and a *)
(* sequence number of the present month is taken.                          *)
SubmitAllocate(c) ==
  LET r == call[c].req
      error == TargetsActive(r, call[c].dir)
      n == Peek(r.conv, month) + 1
  IN /\ TaskAt(c, "SendMessage", "targets")
     /\ Goes(c, IF error = "OK"
                THEN [call[c] EXCEPT !.task = "save", !.seq = n, !.month = month]
                ELSE Finished(call[c], error))
     /\ counter' = IF error = "OK" THEN [counter EXCEPT ![r.conv][month] = n] ELSE counter
     /\ UNCHANGED <<load, clock, faults, phase, convVars, dirVars,
                    month, stored, cursor, stripes>>

(* The message is written; if that fails its number stays unused. *)
SubmitSave(c) == \E o \in Outcomes :
  LET row == [conv |-> call[c].req.conv, month |-> call[c].month, seq |-> call[c].seq]
  IN /\ TaskAt(c, "SendMessage", "save") /\ Outcome(o)
     /\ stored' = IF Applied(o) THEN stored \cup {row} ELSE stored
     /\ Goes(c, Finished(call[c], IF o = "ok" THEN "OK" ELSE "UNSPECIFIED"))
     /\ UNCHANGED <<load, clock, phase, convVars, dirVars, month, counter, cursor, stripes>>

-----------------------------------------------------------------------------
SyncRpcs == {"GetMessages", "SyncDeviceMessages"}
SyncAt(c, where) == call[c].task = where /\ call[c].req.rpc \in SyncRpcs

(* clamp_sync_batch_size, after the handler's default. *)
Batch(r) == IF r.max = 0 THEN DefaultBatch ELSE r.max

(* sync_messages: the caller may view the conversation. *)
SyncAuthorise(c) ==
  LET r == call[c].req
      error == CanView(r.user, r.conv)
  IN /\ SyncAt(c, "start")
     /\ Goes(c, IF error = "OK" THEN [call[c] EXCEPT !.task = "cursor"]
                ELSE Finished(call[c], error))
     /\ UNCHANGED <<load, clock, faults, phase, convVars, dirVars, taskVars>>

(* Where to start: after the sequence of the request, or after the cursor. *)
(* Nothing is to be fetched at the ceiling.                                *)
SyncCursor(c) ==
  LET r == call[c].req
      from == IF r.seq > 0 THEN r.seq ELSE cursor[EffectiveDevice(r)][r.conv]
      top == Ceiling(r.conv)
      next == [call[c] EXCEPT !.seq = from, !.at = top]
  IN /\ SyncAt(c, "cursor")
     /\ counter' = Peeked(r.conv)
     /\ Goes(c, IF from > top /\ top > 0 THEN Finished(next, "CURSOR_OUT_OF_BOUNDS")
                ELSE IF from >= top THEN Finished(next, "OK")
                ELSE [next EXCEPT !.task = "previous"])
     /\ UNCHANGED <<load, clock, faults, phase, convVars, dirVars,
                    month, stored, cursor, stripes>>

(* list_messages_by_sequence_range: the first n rows, in order. *)
SequenceRange(k, m, lo, hi, n) ==
  LET found == {s \in stored : s.conv = k /\ s.month = m /\ s.seq \in lo..hi}
  IN {s \in found : Cardinality({t \in found : t.seq < s.seq}) < n}

(* The month before the present one is read first. *)
SyncPrevious(c) ==
  LET r == call[c].req
      b == Batch(r)
      from == call[c].seq
  IN /\ SyncAt(c, "previous")
     /\ Goes(c, [call[c] EXCEPT !.task = "current", !.month = month,
          !.page = SequenceRange(r.conv, month - 1, from + 1, from + b + 1, b + 1)])
     /\ UNCHANGED <<load, clock, faults, phase, convVars, dirVars, taskVars>>

LastOf(page, from) == Max({from} \cup {s.seq : s \in page})

Popped(page) == {s \in page : \E t \in page : t.seq > s.seq}

(* A mutant of PageOf: the lookahead row is dropped but not reported. *)
PageTruncated(page, b, top) ==
  IF Cardinality(page) > b THEN [rows |-> Popped(page), more |-> FALSE]
  ELSE [rows |-> page, more |-> page # {} /\ LastOf(page, 0) < top]

(* The page without its lookahead row, and whether there is more. *)
PageOf(page, b, top) ==
  IF Cardinality(page) > b THEN [rows |-> Popped(page), more |-> TRUE]
  ELSE [rows |-> page, more |-> page # {} /\ LastOf(page, 0) < top]

(* Then the present one, after what the month before had. *)
SyncCurrent(c) ==
  LET r == call[c].req
      b == Batch(r)
      from == call[c].seq
      prev == call[c].page
      curr == IF Cardinality(prev) > b THEN {}
              ELSE SequenceRange(r.conv, call[c].month, LastOf(prev, from) + 1, from + b + 1,
                          b + 1 - Cardinality(prev))
      p == PageOf(prev \cup curr, b, call[c].at)
  IN /\ SyncAt(c, "current")
     /\ Goes(c, Finished([call[c] EXCEPT !.page = p.rows, !.more = p.more], "OK"))
     /\ UNCHANGED <<load, clock, faults, phase, convVars, dirVars, taskVars>>

-----------------------------------------------------------------------------
(* GetSyncCursor: a read that fails is answered with an empty cursor. *)
GetCursor(c) == \E o \in {"ok", "lost"} :
  LET r == call[c].req
  IN /\ TaskAt(c, "GetSyncCursor", "start") /\ Outcome(o)
     /\ Goes(c, Finished([call[c] EXCEPT !.seq =
                            IF o = "ok" /\ r.conv # None
                            THEN cursor[EffectiveDevice(r)][r.conv] ELSE 0], "OK"))
     /\ UNCHANGED <<load, clock, phase, convVars, dirVars, taskVars>>

Stripe(r) == <<EffectiveDevice(r), r.conv>>

(* A mutant of CursorLocked: no lock is waited for. *)
CursorUnlocked(r) == TRUE

CursorLocked(r) == Stripe(r) \notin stripes

(* update_cursor takes the lock of device and conversation and checks the  *)
(* new position against the ceiling and the cursor it reads; the handler   *)
(* expects no version of it.                                               *)
UpdateCursorCheck(c) ==
  LET r == call[c].req
      error == FirstError(<<
                 Reject(r.seq > Ceiling(r.conv), "CURSOR_OUT_OF_BOUNDS"),
                 Reject(r.seq < cursor[EffectiveDevice(r)][r.conv], "CURSOR_OUT_OF_BOUNDS") >>)
  IN /\ TaskAt(c, "UpdateSyncCursor", "start") /\ CursorLocked(r)
     /\ counter' = Peeked(r.conv)
     /\ stripes' = IF error = "OK" THEN stripes \cup {Stripe(r)} ELSE stripes
     /\ Goes(c, IF error = "OK" THEN [call[c] EXCEPT !.task = "save"]
                ELSE Finished(call[c], error))
     /\ UNCHANGED <<load, clock, faults, phase, convVars, dirVars, month, stored, cursor>>

(* upsert_sync_cursor, under the lock. *)
UpdateCursorSave(c) == \E o \in Outcomes :
  LET r == call[c].req
  IN /\ TaskAt(c, "UpdateSyncCursor", "save") /\ Outcome(o)
     /\ cursor' = IF Applied(o) THEN [cursor EXCEPT ![EffectiveDevice(r)][r.conv] = r.seq]
                  ELSE cursor
     /\ stripes' = stripes \ {Stripe(r)}
     /\ Goes(c, Finished(call[c], IF o = "ok" THEN "OK" ELSE "UNSPECIFIED"))
     /\ UNCHANGED <<load, clock, phase, convVars, dirVars, month, stored, counter>>

TaskStep(c) ==
  \/ SubmitAuthorise(c) \/ SubmitMembers(c) \/ SubmitAllocate(c) \/ SubmitSave(c)
  \/ SyncAuthorise(c) \/ SyncCursor(c) \/ SyncPrevious(c) \/ SyncCurrent(c)
  \/ GetCursor(c) \/ UpdateCursorCheck(c) \/ UpdateCursorSave(c)
=============================================================================
