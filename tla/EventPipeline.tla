----------------------------- MODULE EventPipeline -----------------------------
(***************************************************************************)
(* The outbox of the QMS (EventExport) and the intake of the analytics     *)
(* service (EventIntake) joined by HTTP: the packet an exporter claims is  *)
(* the body it posts under the export id as Idempotency-Key, the errors it *)
(* applies are the rows the intake rejected, and a call may fail on the    *)
(* QMS side at any time, whatever becomes of the request it sent.          *)
(***************************************************************************)
EXTENDS EventExport

CONSTANTS CaseTypes, CaseType, Invalid, MaxFaults

ASSUME PipelineAssumption == /\ CaseType \in [Events -> CaseTypes]
                             /\ Invalid \subseteq Events
                             /\ MaxFaults \in Nat

VARIABLES requests, verdict, current, todo, stored, receipts, arrived, faults

Intake == INSTANCE EventIntake

\* The states of an event that somebody outside the outbox can tell apart.
PhaseOf(s) ==
    CASE s = "absent"      -> "none"
      [] s = "pending"     -> "queued"
      [] s = "processing"  -> "taken"
      [] s = "sent"        -> "sent"
      [] s = "failed"      -> "refused"
      [] s = "dead_letter" -> "dead"
      [] s = "deleted"     -> "dropped"

Delivery == INSTANCE EventDelivery WITH
    phase   <- [e \in Events |-> PhaseOf(status[e])],
    offered <- UNION {packet[k] : k \in Keys}

intakeVars   == <<requests, verdict, current, todo, stored, receipts, arrived, faults>>
pipelineVars == <<vars, intakeVars>>

PipelineInit == Init /\ Intake!Init

\* The request goes out under the key of the export the thread has claimed.
Request(w) ==
    /\ Send(w)
    /\ requests' = requests \cup {key[w]}
    /\ UNCHANGED <<verdict, current, todo, stored, receipts, arrived, faults>>

\* The 200 of the intake reaches the thread; its errors are the rejected rows.
Response(w) ==
    /\ pc[w] = "waiting"
    /\ verdict[key[w]] = "ok"
    /\ Answer(w, packet[key[w]] \cap Invalid)
    /\ UNCHANGED intakeVars

\* Steps of the QMS in which the analytics service has no part.  Fail covers an
\* error status, a connection refused or lost, and the timeout.
QmsStep ==
    /\ \/ \E e \in Events : Record(e)
       \/ \E b \in Batches : DropUnsent(b) \/ DeleteParent(b)
       \/ RetryFailed
       \/ \E w \in Workers : \/ Claim(w) \/ SaveRow(w) \/ Finish(w)
                             \/ Fail(w)  \/ Abort(w)
    /\ UNCHANGED intakeVars

\* A packet that was answered comes once more under its key: a proxy repeats the
\* request, or an operator posts the saved CSV.  Bound: one of the faults, and at a
\* moment when the intake is idle.
Repost(k) ==
    /\ verdict[k] # "none" /\ current = NoKey /\ requests = {}
    /\ faults < MaxFaults
    /\ faults' = faults + 1
    /\ requests' = {k}
    /\ UNCHANGED <<verdict, current, todo, stored, receipts, arrived>>

\* Steps of the analytics service in which the QMS has no part.
IntakeStep ==
    /\ \/ Intake!Handler
       \/ \E c \in CaseTypes : Intake!DeleteLog(c)
       \/ \E k \in Keys : Repost(k)
    /\ UNCHANGED vars

PipelineNext ==
    \/ QmsStep
    \/ IntakeStep
    \/ \E w \in Workers : Request(w) \/ Response(w)

PipelineSpec == PipelineInit /\ [][PipelineNext]_pipelineVars

-----------------------------------------------------------------------------
(* What the two services promise together. *)

PipelineTypeOK == TypeOK /\ Intake!TypeOK

\* The two promises of the intake (EventIntake), in the company of the exporters.
ReceiptMeansStored == Intake!ReceiptMeansStored
ResendIsAccepted == Intake!ResendIsAccepted

\* At least once: an event the QMS counts as sent was stored by the analytics
\* service, through timeouts, half-stored packets, crashes and resends.
SentWasStored == \A e \in Events : status[e] = "sent" => e \in arrived

\* FAILED is the verdict on a row, never on a packet: whatever goes wrong with
\* its packet, a valid event does not end where only an operator looks.
FailedWasInvalid == \A e \in Events : status[e] = "failed" => e \in Invalid

\* The pipeline implements the delivery the two services promise.
ImplementsDelivery == Delivery!Spec

=============================================================================
