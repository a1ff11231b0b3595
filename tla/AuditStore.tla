------------------------------ MODULE AuditStore ------------------------------
(***************************************************************************)
(* The append-only table of audit events as the audit service sees it      *)
(* through the ClickHouse client, and the events themselves.               *)
(*                                                                         *)
(* An event carries what the properties tell apart: its id, the time it    *)
(* occurred and the service that produced it.  Two events with one id and  *)
(* different contents stand for a reused id; the payload fingerprint, which*)
(* hashes every field but received_at, tells them apart.                   *)
(***************************************************************************)
EXTENDS Integers, Sequences, FiniteSets, SequencesExt

CONSTANTS
  Events,        \* records [id, at, producer] the producers may submit
  Malformed,     \* the events among them that fail validation
  Audit,         \* the producer that is the audit service itself
  MaxClock,      \* bound: ticks of the clock
  MaxFaults      \* bound: writes that do not simply succeed

ASSUME EventsAssumption ==
  /\ IsFiniteSet(Events)
  /\ Events \subseteq [id : Nat, at : Nat, producer : Nat]
  /\ Malformed \subseteq Events
  /\ Audit \in Nat
  /\ MaxClock \in Nat /\ MaxFaults \in Nat

VARIABLES
  rows,          \* [Events -> Nat]: physical rows of an event
  late,          \* batches whose request timed out and is still under way
  faults,        \* writes that failed or timed out so far
  clock

storeVars == <<rows, late, faults, clock>>

Ids == {e.id : e \in Events}
Producers == {e.producer : e \in Events}

StoreInit(table) ==
  /\ rows = [e \in Events |-> IF e \in table THEN 1 ELSE 0]
  /\ late = <<>>
  /\ faults = 0
  /\ clock = 0

-----------------------------------------------------------------------------
(* AuditEventValidator::validate with the sensitive data guard it calls:   *)
(* nine rules over the fields of one event, all of them noexcept.          *)
Valid(e) == e \notin Malformed

(* EventPayloadFingerprint::compute: every field but received_at, so that  *)
(* a retry that arrives later has the fingerprint of the first attempt.    *)
Fingerprint(e) == <<e.id, e.at, e.producer>>

(* The certificate of the peer must name the declared producer; there is   *)
(* no service that may speak for another one.                              *)
PeerAuthorized(peer, e) == peer = e.producer

-----------------------------------------------------------------------------
(* INSERT INTO audit_events: the rows of a batch appear together.          *)
Appended(batch) ==
  [e \in Events |->
     rows[e] + Cardinality({i \in 1..Len(batch) : batch[i] = e})]

(* What one insert of the ClickHouse client ends in.  A read or write error*)
(* is a timeout: the server may have applied the batch before, may apply it*)
(* later, or never.  A refused connection and an answer other than 200     *)
(* write nothing; the client throws in all three cases.                    *)
Endings == {"stored", "refused", "timeout_stored", "timeout_late",
            "timeout_lost"}

Threw(ending) == ending # "stored"

ExecuteInsert(batch, ending) ==
  /\ ending \in Endings
  /\ ending # "stored" => faults < MaxFaults
  /\ faults' = IF ending = "stored" THEN faults ELSE faults + 1
  /\ rows' = IF ending \in {"stored", "timeout_stored"}
             THEN Appended(batch) ELSE rows
  /\ late' = IF ending = "timeout_late" THEN Append(late, batch) ELSE late
  /\ UNCHANGED clock

(* The server finishes a batch whose client has given up waiting for it.   *)
LateInsert ==
  /\ late # <<>>
  /\ rows' = Appended(Head(late))
  /\ late' = Tail(late)
  /\ UNCHANGED <<faults, clock>>

Tick ==
  /\ clock < MaxClock
  /\ clock' = clock + 1
  /\ UNCHANGED <<rows, late, faults>>

StoreTypeOK ==
  /\ rows \in [Events -> Nat]
  /\ late \in Seq(Seq(Events))
  /\ faults \in 0..MaxFaults
  /\ clock \in 0..MaxClock
=============================================================================
