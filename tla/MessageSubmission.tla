-------------------------- MODULE MessageSubmission --------------------------
(***************************************************************************)
(* Idempotent message submission in the messaging service:                 *)
(* MessageSubmissionService::submit_message with the idempotency guard,    *)
(* the conversation sequence allocator and the five ScyllaDB tables that   *)
(* one submission writes (idempotency record, message, pending delivery    *)
(* rows, fan-out rows, outbox event).                                      *)
(*                                                                         *)
(* One action is one repository call, because every repository call can    *)
(* be interleaved with other request threads, can throw, and can be the    *)
(* last thing the process does.  The submission stripes and the sequence   *)
(* counters live in the memory of one service instance; the tables are     *)
(* shared.  A call to the database has three outcomes: it returns, it      *)
(* throws without having been applied, or it throws after having been      *)
(* applied (a write timeout).                                              *)
(***************************************************************************)
EXTENDS Naturals, Sequences, MessagingThreads

CONSTANTS
    Instances,       \* running messaging processes
    Host,            \* Host[t]: the process thread t belongs to
    Keys,            \* (sender device, client idempotency token) pairs
    Stripes,         \* indices of submission_stripes_
    StripeOf,        \* hash of a key modulo kNumStripes
    Convs,           \* conversations
    Fingerprints,    \* SHA-256 fingerprints of submission payloads
    Commands,        \* the commands clients send
    RetryWaitLimit,  \* re-evaluations of a PROCESSING record (20 in the code)
    MaxMessages,     \* bound: message ids generated
    MaxBucket,       \* bound: monthly buckets the clock goes through
    MaxCrashes       \* bound: process crashes

(***************************************************************************)
(* A fingerprint covers the conversation, the sender device and every      *)
(* target, so equal fingerprints mean equal targets (SHA-256 collisions    *)
(* are ignored).  The validator refuses a command without targets.         *)
(***************************************************************************)
ASSUME CommandsAssumption ==
    /\ \A c \in Commands :
         /\ c.key \in Keys
         /\ c.conv \in Convs
         /\ c.fp \in Fingerprints
         /\ c.targets \in SUBSET Devices
         /\ c.targets # {}
         /\ c = [key |-> c.key, conv |-> c.conv, fp |-> c.fp,
                 targets |-> c.targets]
    /\ \A c, d \in Commands :
         c.fp = d.fp => c.conv = d.conv /\ c.targets = d.targets

Statuses == {"Processing", "Committed", "Failed"}

IdemRecord == [mid : Nat, conv : Convs, fp : Fingerprints, seq : Nat,
               status : Statuses]

ASSUME HostAssumption ==
    /\ Host \in [Threads -> Instances]
    /\ StripeOf \in [Keys -> Stripes]
    /\ None \notin Threads /\ None \notin Commands /\ None \notin Nat
    /\ None \notin IdemRecord

ASSUME BoundsAssumption ==
    /\ RetryWaitLimit \in Nat
    /\ MaxMessages \in Nat
    /\ MaxBucket \in Nat \ {0}
    /\ MaxCrashes \in Nat

Buckets == 1 .. MaxBucket
Counters == Convs \X Buckets

VARIABLES
    \* memory of the request threads
    pc, cmd, mid, bkt, seq, todo, tries,
    \* memory of an instance
    lock,        \* lock[i, s]: the thread that holds stripe s of instance i
    counters,    \* counters[i][c, b]: last allocated sequence, None when cold
    \* the database
    idem,        \* message_submission_by_idempotency_key
    messages,    \* messages_by_conversation
    pending,     \* pending_deliveries_by_device: <<message, device>>
    recipients,  \* delivery_state_by_message: <<message, device>>
    outbox,      \* messages with a MessageSent outbox event
    \* the environment
    now,         \* current monthly bucket
    crashes,
    \* history
    issued,      \* issued[m]: the command message id m was generated for
    answers      \* success responses sent to clients

locals == <<cmd, mid, bkt, seq, todo, tries>>
tables == <<idem, messages, pending, recipients, outbox>>
env    == <<now, crashes>>
submissionVars == <<pc, locals, lock, counters, tables, env, issued, answers>>

-----------------------------------------------------------------------------
Phases == {"idle", "lock", "evaluate", "claim", "allocate", "message",
           "pending", "recipient", "outbox", "commit", "fail"}

MessageRow == [mid : Nat, conv : Convs, bucket : Buckets, seq : Nat]

Outcomes == {"ok", "lost", "uncertain"}
Applied(o) == o # "lost"

(* A database write that throws sends the submission to its catch block.   *)
Advance(t, o, phase) ==
    pc' = [pc EXCEPT ![t] = IF o = "ok" THEN phase ELSE "fail"]

SubmissionInit ==
    /\ pc     = [t \in Threads |-> "idle"]
    /\ cmd    = [t \in Threads |-> None]
    /\ mid    = [t \in Threads |-> 0]
    /\ bkt    = [t \in Threads |-> 1]
    /\ seq    = [t \in Threads |-> 0]
    /\ todo   = [t \in Threads |-> {}]
    /\ tries  = [t \in Threads |-> 0]
    /\ lock   = [x \in Instances \X Stripes |-> None]
    /\ counters = [i \in Instances |-> [x \in Counters |-> None]]
    /\ idem   = [k \in Keys |-> None]
    /\ messages = {}
    /\ pending = {}
    /\ recipients = {}
    /\ outbox = {}
    /\ now = 1
    /\ crashes = 0
    /\ issued = << >>
    /\ answers = {}

(* A validated and authorised command enters submit_message.               *)
Submit(t) == \E c \in Commands :
    /\ pc[t] = "idle"
    /\ pc' = [pc EXCEPT ![t] = "lock"]
    /\ cmd' = [cmd EXCEPT ![t] = c]
    /\ UNCHANGED <<mid, bkt, seq, todo, tries, lock, counters, tables, env,
                   issued, answers>>

MyStripe(t) == <<Host[t], StripeOf[cmd[t].key]>>

(* Mutant: the stripe is not waited for.                                   *)
AcquireStripeUnguarded(t) ==
    /\ pc[t] = "lock"
    /\ lock' = [lock EXCEPT ![MyStripe(t)] = t]
    /\ pc' = [pc EXCEPT ![t] = "evaluate"]
    /\ UNCHANGED <<locals, counters, tables, env, issued, answers>>

AcquireStripe(t) ==
    /\ pc[t] = "lock"
    /\ lock[MyStripe(t)] = None
    /\ lock' = [lock EXCEPT ![MyStripe(t)] = t]
    /\ pc' = [pc EXCEPT ![t] = "evaluate"]
    /\ UNCHANGED <<locals, counters, tables, env, issued, answers>>

(* Every way out of submit_message, exceptions included, leaves the scope  *)
(* of the lock guard.                                                      *)
Return(t) ==
    /\ pc' = [pc EXCEPT ![t] = "idle"]
    /\ lock' = [lock EXCEPT ![MyStripe(t)] = None]
    /\ cmd' = [cmd EXCEPT ![t] = None]
    /\ mid' = [mid EXCEPT ![t] = 0]
    /\ bkt' = [bkt EXCEPT ![t] = 1]
    /\ seq' = [seq EXCEPT ![t] = 0]
    /\ todo' = [todo EXCEPT ![t] = {}]
    /\ tries' = [tries EXCEPT ![t] = 0]

(* Mutant: a FAILED record is reused before the payload is compared.       *)
EvaluateFailedFirst(c) ==
    LET r == idem[c.key] IN
    IF r = None \/ r.status = "Failed" THEN "ProceedNew"
    ELSE IF r.conv # c.conv \/ r.fp # c.fp THEN "RejectConflict"
    ELSE IF r.status = "Committed" THEN "ReturnCached" ELSE "RetryWait"

(* IdempotencyGuard::evaluate_submission                                   *)
EvaluateSubmission(c) ==
    LET r == idem[c.key] IN
    IF r = None THEN "ProceedNew"
    ELSE IF r.conv # c.conv \/ r.fp # c.fp THEN "RejectConflict"
    ELSE CASE r.status = "Committed"  -> "ReturnCached"
           [] r.status = "Processing" -> "RetryWait"
           [] r.status = "Failed"     -> "ProceedNew"

AtEvaluate(t, verdict) ==
    /\ pc[t] = "evaluate"
    /\ EvaluateSubmission(cmd[t]) = verdict

ReturnCached(t) ==
    /\ AtEvaluate(t, "ReturnCached")
    /\ answers' = answers \cup
         {[cmd |-> cmd[t], mid |-> idem[cmd[t].key].mid,
           seq |-> idem[cmd[t].key].seq]}
    /\ Return(t)
    /\ UNCHANGED <<counters, tables, env, issued>>

RejectConflict(t) ==
    /\ AtEvaluate(t, "RejectConflict")
    /\ Return(t)
    /\ UNCHANGED <<counters, tables, env, issued, answers>>

(* The bounded wait for a duplicate that is in flight, stripe held.        *)
RetryWait(t) ==
    /\ AtEvaluate(t, "RetryWait")
    /\ tries[t] < RetryWaitLimit
    /\ tries' = [tries EXCEPT ![t] = @ + 1]
    /\ UNCHANGED <<pc, cmd, mid, bkt, seq, todo, lock, counters, tables, env,
                   issued, answers>>

(* Mutant: the wait starts over instead of giving up.                      *)
RetryWaitRestarts(t) ==
    /\ AtEvaluate(t, "RetryWait")
    /\ tries[t] = RetryWaitLimit
    /\ tries' = [tries EXCEPT ![t] = 0]
    /\ UNCHANGED <<pc, cmd, mid, bkt, seq, todo, lock, counters, tables, env,
                   issued, answers>>

RetryWaitExhausted(t) ==
    /\ AtEvaluate(t, "RetryWait")
    /\ tries[t] = RetryWaitLimit
    /\ Return(t)
    /\ UNCHANGED <<counters, tables, env, issued, answers>>

(* find_submission throws: nothing was claimed, the request fails.         *)
EvaluateThrows(t) ==
    /\ pc[t] = "evaluate"
    /\ Return(t)
    /\ UNCHANGED <<counters, tables, env, issued, answers>>

(* A new message id and acceptance time; the bucket is the month of the    *)
(* acceptance time.                                                        *)
ProceedNew(t) ==
    /\ AtEvaluate(t, "ProceedNew")
    /\ Len(issued) < MaxMessages
    /\ issued' = Append(issued, cmd[t])
    /\ mid' = [mid EXCEPT ![t] = Len(issued) + 1]
    /\ bkt' = [bkt EXCEPT ![t] = now]
    /\ pc' = [pc EXCEPT ![t] = "claim"]
    /\ UNCHANGED <<cmd, seq, todo, tries, lock, counters, tables, env, answers>>

(* mark_processing stands outside the try block: when it throws, nothing   *)
(* marks the record failed.                                                *)
MarkProcessing(t) == \E o \in Outcomes :
    /\ pc[t] = "claim"
    /\ idem' = IF Applied(o)
               THEN [idem EXCEPT ![cmd[t].key] =
                      [mid |-> mid[t], conv |-> cmd[t].conv, fp |-> cmd[t].fp,
                       seq |-> 0, status |-> "Processing"]]
               ELSE idem
    /\ IF o = "ok"
       THEN pc' = [pc EXCEPT ![t] = "allocate"] /\ UNCHANGED <<locals, lock>>
       ELSE Return(t)
    /\ UNCHANGED <<counters, messages, pending, recipients, outbox, env,
                   issued, answers>>

(* get_last_sequence: the largest sequence stored for the conversation     *)
(* bucket, 0 when there is none.                                           *)
StoredSequences(c, b) ==
    {m.seq : m \in {x \in messages : x.conv = c /\ x.bucket = b}}

LastSequence(c, b) ==
    {n \in {0} \cup StoredSequences(c, b) :
        \A s \in StoredSequences(c, b) : s <= n}

(* Mutant: the counter loaded on a cold start is not advanced.             *)
AllocateWithoutAdvance(t) ==
    LET x == <<cmd[t].conv, bkt[t]>> IN
    /\ pc[t] = "allocate"
    /\ \E last \in IF counters[Host[t]][x] = None
                   THEN LastSequence(cmd[t].conv, bkt[t])
                   ELSE {counters[Host[t]][x]} :
         /\ counters' = [counters EXCEPT ![Host[t]] = [@ EXCEPT ![x] = last]]
         /\ seq' = [seq EXCEPT ![t] = last + 1]
    /\ pc' = [pc EXCEPT ![t] = "message"]
    /\ UNCHANGED <<cmd, mid, bkt, todo, tries, lock, tables, env, issued, answers>>

(* allocate_sequence.  The cold-start read happens under the allocator's   *)
(* own stripe mutex; no other thread of the instance holds an unsaved      *)
(* sequence of a cold counter, so the read and the increment are one step. *)
AllocateSequence(t) ==
    LET x == <<cmd[t].conv, bkt[t]>> IN
    /\ pc[t] = "allocate"
    /\ \E last \in IF counters[Host[t]][x] = None
                   THEN LastSequence(cmd[t].conv, bkt[t])
                   ELSE {counters[Host[t]][x]} :
         /\ counters' = [counters EXCEPT ![Host[t]] =
                           [@ EXCEPT ![x] = last + 1]]
         /\ seq' = [seq EXCEPT ![t] = last + 1]
    /\ pc' = [pc EXCEPT ![t] = "message"]
    /\ UNCHANGED <<cmd, mid, bkt, todo, tries, lock, tables, env, issued, answers>>

(* Only the cold-start read can throw; the counter stays cold.             *)
AllocateThrows(t) ==
    /\ pc[t] = "allocate"
    /\ counters[Host[t]][<<cmd[t].conv, bkt[t]>>] = None
    /\ pc' = [pc EXCEPT ![t] = "fail"]
    /\ UNCHANGED <<locals, lock, counters, tables, env, issued, answers>>

SaveMessage(t) == \E o \in Outcomes :
    /\ pc[t] = "message"
    /\ messages' = IF Applied(o)
                   THEN messages \cup {[mid |-> mid[t], conv |-> cmd[t].conv,
                                        bucket |-> bkt[t], seq |-> seq[t]]}
                   ELSE messages
    /\ todo' = [todo EXCEPT ![t] = cmd[t].targets]
    /\ Advance(t, o, "pending")
    /\ UNCHANGED <<cmd, mid, bkt, seq, tries, lock, counters, idem, pending,
                   recipients, outbox, env, issued, answers>>

(* Mutant: a failed INSERT of the loop is ignored.                         *)
SavePendingIgnoringErrors(t) == \E o \in Outcomes, d \in todo[t] :
    /\ pc[t] = "pending"
    /\ pending' = IF Applied(o) THEN pending \cup {<<mid[t], d>>} ELSE pending
    /\ todo' = [todo EXCEPT ![t] =
                  IF todo[t] = {d} THEN cmd[t].targets ELSE @ \ {d}]
    /\ Advance(t, "ok", IF todo[t] = {d} THEN "recipient" ELSE "pending")
    /\ UNCHANGED <<cmd, mid, bkt, seq, tries, lock, counters, idem, messages,
                   recipients, outbox, env, issued, answers>>

(* save_pending_deliveries: one INSERT per target device.                  *)
SavePendingDelivery(t) == \E o \in Outcomes, d \in todo[t] :
    /\ pc[t] = "pending"
    /\ pending' = IF Applied(o) THEN pending \cup {<<mid[t], d>>} ELSE pending
    /\ todo' = [todo EXCEPT ![t] =
                  IF todo[t] = {d} THEN cmd[t].targets ELSE @ \ {d}]
    /\ Advance(t, o, IF todo[t] = {d} THEN "recipient" ELSE "pending")
    /\ UNCHANGED <<cmd, mid, bkt, seq, tries, lock, counters, idem, messages,
                   recipients, outbox, env, issued, answers>>

(* save_recipient_delivery_states: one INSERT per target device.           *)
SaveRecipientState(t) == \E o \in Outcomes, d \in todo[t] :
    /\ pc[t] = "recipient"
    /\ recipients' = IF Applied(o) THEN recipients \cup {<<mid[t], d>>}
                                   ELSE recipients
    /\ todo' = [todo EXCEPT ![t] = @ \ {d}]
    /\ Advance(t, o, IF todo[t] = {d} THEN "outbox" ELSE "recipient")
    /\ UNCHANGED <<cmd, mid, bkt, seq, tries, lock, counters, idem, messages,
                   pending, outbox, env, issued, answers>>

EnqueueOutboxEvent(t) == \E o \in Outcomes :
    /\ pc[t] = "outbox"
    /\ outbox' = IF Applied(o) THEN outbox \cup {mid[t]} ELSE outbox
    /\ Advance(t, o, "commit")
    /\ UNCHANGED <<locals, lock, counters, idem, messages, pending, recipients,
                   env, issued, answers>>

(* mark_committed, then the success response.                              *)
MarkCommitted(t) == \E o \in Outcomes :
    /\ pc[t] = "commit"
    /\ idem' = IF Applied(o)
               THEN [idem EXCEPT ![cmd[t].key] =
                      [mid |-> mid[t], conv |-> cmd[t].conv, fp |-> cmd[t].fp,
                       seq |-> seq[t], status |-> "Committed"]]
               ELSE idem
    /\ IF o = "ok"
       THEN /\ answers' = answers \cup
                 {[cmd |-> cmd[t], mid |-> mid[t], seq |-> seq[t]]}
            /\ Return(t)
       ELSE /\ pc' = [pc EXCEPT ![t] = "fail"]
            /\ UNCHANGED <<answers, locals, lock>>
    /\ UNCHANGED <<counters, messages, pending, recipients, outbox, env, issued>>

(* The catch block: mark_failed reads the record and writes it back as     *)
(* FAILED.  Either call may throw; the request fails in any case.          *)
MarkFailed(t) == \E o \in Outcomes :
    /\ pc[t] = "fail"
    /\ idem' = IF Applied(o) /\ idem[cmd[t].key] # None
               THEN [idem EXCEPT ![cmd[t].key] = [@ EXCEPT !.status = "Failed"]]
               ELSE idem
    /\ Return(t)
    /\ UNCHANGED <<counters, messages, pending, recipients, outbox, env,
                   issued, answers>>

(* A process dies: its threads, stripes and counters are gone.             *)
Crash(i) ==
    LET Kept(f, x) == [t \in Threads |-> IF Host[t] = i THEN x ELSE f[t]] IN
    /\ crashes < MaxCrashes
    /\ crashes' = crashes + 1
    /\ pc' = Kept(pc, "idle")
    /\ cmd' = Kept(cmd, None)
    /\ mid' = Kept(mid, 0)
    /\ bkt' = Kept(bkt, 1)
    /\ seq' = Kept(seq, 0)
    /\ todo' = Kept(todo, {})
    /\ tries' = Kept(tries, 0)
    /\ lock' = [x \in Instances \X Stripes |->
                  IF x[1] = i THEN None ELSE lock[x]]
    /\ counters' = [counters EXCEPT ![i] = [x \in Counters |-> None]]
    /\ UNCHANGED <<tables, now, issued, answers>>

(* The calendar moves to the next month.                                   *)
NextMonth ==
    /\ now < MaxBucket
    /\ now' = now + 1
    /\ UNCHANGED <<pc, locals, lock, counters, tables, crashes, issued, answers>>

(* What a thread does once it holds its stripe.                            *)
Locked(t) ==
    \/ ReturnCached(t)
    \/ RejectConflict(t)
    \/ RetryWait(t)
    \/ RetryWaitExhausted(t)
    \/ EvaluateThrows(t)
    \/ ProceedNew(t)
    \/ MarkProcessing(t)
    \/ AllocateSequence(t)
    \/ AllocateThrows(t)
    \/ SaveMessage(t)
    \/ SavePendingDelivery(t)
    \/ SaveRecipientState(t)
    \/ EnqueueOutboxEvent(t)
    \/ MarkCommitted(t)
    \/ MarkFailed(t)

SubmissionNext ==
    \/ \E t \in Threads : Submit(t) \/ AcquireStripe(t) \/ Locked(t)
    \/ \E i \in Instances : Crash(i)
    \/ NextMonth

SubmissionSpec == SubmissionInit /\ [][SubmissionNext]_submissionVars

(* A thread that runs keeps running: nothing in submit_message waits       *)
(* without a bound once the stripe is held.  Acquiring the stripe is not   *)
(* assumed fair (std::mutex promises nothing).                             *)
FairSubmission == SubmissionSpec /\ \A t \in Threads : WF_submissionVars(Locked(t))

-----------------------------------------------------------------------------
ThreadTypes ==
    /\ pc \in [Threads -> Phases]
    /\ cmd \in [Threads -> Commands \cup {None}]
    /\ mid \in [Threads -> Nat]
    /\ bkt \in [Threads -> Buckets]
    /\ seq \in [Threads -> Nat]
    /\ todo \in [Threads -> SUBSET Devices]
    /\ tries \in [Threads -> 0 .. RetryWaitLimit]
    /\ \A t \in Threads : (cmd[t] = None) <=> (pc[t] = "idle")

InstanceTypes ==
    /\ lock \in [Instances \X Stripes -> Threads \cup {None}]
    /\ counters \in [Instances -> [Counters -> Nat \cup {None}]]

TableTypes ==
    /\ idem \in [Keys -> IdemRecord \cup {None}]
    /\ messages \in SUBSET MessageRow
    /\ pending \in SUBSET (Nat \X Devices)
    /\ recipients \in SUBSET (Nat \X Devices)
    /\ outbox \in SUBSET Nat

HistoryTypes ==
    /\ now \in Buckets
    /\ crashes \in 0 .. MaxCrashes
    /\ issued \in Seq(Commands)
    /\ answers \in SUBSET [cmd : Commands, mid : Nat, seq : Nat]

(* Types of the submission state; a thread has a command exactly while it  *)
(* is inside submit_message.                                               *)
SubmissionTypeOK == ThreadTypes /\ InstanceTypes /\ TableTypes /\ HistoryTypes

(* Everything a submission of command c stores under message id m.         *)
Durable(c, m, s) ==
    /\ \E b \in Buckets :
         [mid |-> m, conv |-> c.conv, bucket |-> b, seq |-> s] \in messages
    /\ \A d \in c.targets : <<m, d>> \in pending /\ <<m, d>> \in recipients
    /\ m \in outbox

(***************************************************************************)
(* A success response, first answer or replay, is sent only when the       *)
(* message row, both delivery rows of every target of the command that is  *)
(* answered and the outbox event are stored, whatever crashes and failed   *)
(* calls came before (submit_message steps 8 to 12, ReturnCached).         *)
(***************************************************************************)
AcceptedIsDurable ==
    \A a \in answers : Durable(a.cmd, a.mid, a.seq)

(***************************************************************************)
(* Once a key has been answered with success its record stays COMMITTED    *)
(* and carries the message and the sequence of that answer, so every later *)
(* answer for the key repeats it: no late mark_processing or mark_failed   *)
(* of another thread can overwrite it.                                     *)
(***************************************************************************)
AnswerIsFinal ==
    \A a \in answers :
        idem[a.cmd.key] = [mid |-> a.mid, conv |-> a.cmd.conv,
                           fp |-> a.cmd.fp, seq |-> a.seq,
                           status |-> "Committed"]

(***************************************************************************)
(* No two stored messages of a conversation bucket share a sequence        *)
(* number, across concurrent allocations, failed saves and restarts that   *)
(* reload the counter from the table.                                      *)
(***************************************************************************)
SequenceUnique ==
    \A m, n \in messages :
        m.conv = n.conv /\ m.bucket = n.bucket /\ m.seq = n.seq => m = n

(***************************************************************************)
(* A key is bound to the payload it was first used with: no step changes   *)
(* the conversation or the fingerprint of a stored idempotency record.     *)
(***************************************************************************)
BindingNeverChanges ==
    [][\A k \in Keys : idem[k] # None =>
          /\ idem'[k] # None
          /\ idem'[k].conv = idem[k].conv
          /\ idem'[k].fp = idem[k].fp]_submissionVars

(***************************************************************************)
(* A stripe is never held for ever: every path through submit_message,     *)
(* the bounded wait and the error paths included, gives it back.           *)
(***************************************************************************)
StripeReleased ==
    \A x \in Instances \X Stripes : []<>(lock[x] = None)

-----------------------------------------------------------------------------
(* What the documentation says and the code does not do.                   *)

(***************************************************************************)
(* "Idempotency prevents network failures from creating duplicate logical  *)
(* messages": one idempotency key never has two stored messages.           *)
(***************************************************************************)
OneMessagePerKey ==
    \A m, n \in messages : issued[m.mid].key = issued[n.mid].key => m = n

=============================================================================
