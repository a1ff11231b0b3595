---------------------------- MODULE MessagingCalls ----------------------------
(***************************************************************************)
(* What the RPC handlers of the messaging service have in common: the      *)
(* calls in flight with the local state of their handler and of the task   *)
(* they submitted, the checks every handler starts with, and the mapping   *)
(* of errors to gRPC status codes.                                         *)
(*                                                                         *)
(* A request is a record with the fields of every RPC; None stands for a   *)
(* field that is missing or does not parse.                                *)
(***************************************************************************)
EXTENDS Integers, Sequences, SequencesExt, FiniteSets, FiniteSetsExt

CONSTANTS
  Users, Devices,
  Owner,           \* [Devices -> Users]
  Calls,           \* the calls of a run
  Workloads,       \* what one run does: its requests, the bounds of its clock,
                   \* faults and months, the devices that change meanwhile,
                   \* and whether it may be stopped while calls are handled
  None,
  Forever,         \* a deadline that never passes
  MaxClock,        \* largest bound on the clock
  MaxFaults        \* largest bound on failing reads, writes and RPCs

ASSUME CallsAssumption ==
  /\ Owner \in [Devices -> Users]
  /\ IsFiniteSet(Calls) /\ IsFiniteSet(Users)
  /\ MaxClock \in Nat /\ MaxFaults \in Nat /\ Forever > MaxClock

VARIABLES
  load,            \* the workload, with the requests still to be expected
  call,            \* [Calls -> local state of handler and task]
  clock,
  faults,
  phase            \* of main: serving, stopping, one per pool, exited

callVars == <<load, call, clock, faults, phase>>

(* pc is the handler's, task the worker's position; at the time the        *)
(* service function took as now; todo the writes it still has to make.     *)
(* rivals (the calls in flight at the same time) and before (the messages  *)
(* stored when it arrived) are only there for the properties.              *)
Unused ==
  [req |-> None, pc |-> "idle", task |-> "none", at |-> 0, todo |-> <<>>,
   conv |-> None, users |-> {}, dir |-> <<>>, asked |-> None, seq |-> 0,
   month |-> 0, page |-> {}, more |-> FALSE, shown |-> {}, res |-> "OK",
   answer |-> "none", rivals |-> {}, before |-> {}]

CallsInit ==
  /\ load \in Workloads
  /\ call = [c \in Calls |-> Unused]
  /\ clock = 0 /\ faults = 0 /\ phase = "serving"

InFlight(c) == call[c].pc \notin {"idle", "done"} \/ call[c].task \notin {"none", "finished"}

-----------------------------------------------------------------------------
(* to_grpc_status_code, and what to_grpc_status finds in the reason of an  *)
(* unspecified error: "direct conversation" and "closed", else "admin".    *)
ToGrpcStatus(error) ==
  CASE error = "CONVERSATION_NOT_FOUND" -> "NOT_FOUND"
    [] error \in {"NOT_A_PARTICIPANT", "DEVICE_REVOKED", "admin"} -> "PERMISSION_DENIED"
    [] error = "PAYLOAD_TOO_LARGE" -> "INVALID_ARGUMENT"
    [] error = "QUEUE_CAPACITY_EXCEEDED" -> "RESOURCE_EXHAUSTED"
    [] error = "CURSOR_OUT_OF_BOUNDS" -> "OUT_OF_RANGE"
    [] error \in {"INVALID_TARGET_DEVICE", "direct", "closed"} -> "FAILED_PRECONDITION"
    [] error = "MESSAGE_EXPIRED" -> "DEADLINE_EXCEEDED"
    [] error = "UNSPECIFIED" -> "INTERNAL"
    [] OTHER -> error

(* A check, by what it answers; of several, the first that fails decides.  *)
Reject(condition, error) == IF condition THEN error ELSE "OK"

FirstError(checks) ==
  LET failed == {i \in DOMAIN checks : checks[i] # "OK"}
  IN IF failed = {} THEN "OK" ELSE checks[Min(failed)]

(* check_deadline_and_cancellation. *)
CheckDeadline(r) ==
  FirstError(<< Reject(r.cancelled, "CANCELLED"),
                Reject(r.deadline <= clock, "DEADLINE_EXCEEDED") >>)

(* validate_messaging_caller_context with kRequireUserId. *)
ValidateCaller(r) == IF r.user = None THEN "UNAUTHENTICATED" ELSE "OK"

(* The same as the handlers without a pool report it. *)
ValidateCallerInline(r) == IF r.user = None THEN "UNSPECIFIED" ELSE "OK"

-----------------------------------------------------------------------------
(* A request reaches its handler while the server accepts calls. *)
Arrives(c, r, rpc) ==
  /\ phase = "serving" /\ call[c].pc = "idle"
  /\ r \in load.requests /\ r.rpc = rpc

(* The handler has looked at the request: error ends the call, otherwise   *)
(* it goes on as the record next says.                                     *)
Begin(c, r, error, next) ==
  LET others == {d \in Calls : InFlight(d)}
      met == [d \in Calls |->
                IF d \in others THEN [call[d] EXCEPT !.rivals = @ \cup {c}] ELSE call[d]]
  IN /\ call' = [met EXCEPT ![c] =
          IF error = "OK"
          THEN [next EXCEPT !.req = r, !.rivals = others]
          ELSE [Unused EXCEPT !.req = r, !.pc = "done",
                              !.answer = ToGrpcStatus(error)]]
     /\ load' = [load EXCEPT !.requests = @ \ {r}]
     /\ UNCHANGED <<clock, faults, phase>>

(* One step of call c. *)
Goes(c, next) == call' = [call EXCEPT ![c] = next]

(* The handler's answer. *)
Replied(next, status) ==
  [next EXCEPT !.pc = "done", !.todo = <<>>, !.answer = ToGrpcStatus(status)]

(* A call of the database or of another service: done, failed without an   *)
(* effect, or failed after it took effect.                                 *)
Outcomes == {"ok", "lost", "uncertain"}
Outcome(o) ==
  /\ o # "ok" => faults < load.faults
  /\ faults' = IF o = "ok" THEN faults ELSE faults + 1
Applied(o) == o # "lost"

(* Time passes. *)
Tick ==
  /\ clock < load.clock /\ phase # "exited"
  /\ clock' = clock + 1
  /\ UNCHANGED <<load, call, faults, phase>>
=============================================================================
