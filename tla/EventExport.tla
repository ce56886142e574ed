------------------------------ MODULE EventExport ------------------------------
(***************************************************************************)
(* The outbox of the QMS: table ProcessEvent, table ProcessEventExport and *)
(* the function export_pending_events_to_process_mining, run by any number *)
(* of gunicorn threads and management commands at the same time, while     *)
(* other requests record events, delete batches and orders, and an         *)
(* operator re-queues the rejected rows.                                   *)
(*                                                                         *)
(* The HTTP call is open here: any answer the protocol allows, or any      *)
(* failure, may come back.  EventPipeline closes it with the intake of the *)
(* analytics service.                                                      *)
(***************************************************************************)
EXTENDS Naturals, FiniteSets

CONSTANTS
    Events,      \* numbered by (created_at, id), the order the exporter sends in
    Batches,     \* parents an event hangs on: production batches and orders
    Owner,       \* Owner[e]: the parent event e was recorded for
    Demo,        \* the parents with is_demo
    Workers,     \* threads that may run the exporter
    Keys,        \* export ids (uuid4), never issued twice
    NoKey,       \* no export
    BatchSize,   \* PROCESS_MINING_BATCH_SIZE
    MaxRetries,  \* PROCESS_MINING_MAX_RETRIES
    MaxAttempts, \* bound on export_attempts of a row an operator re-queues
    MaxAborts    \* bound on the number of exporters that die halfway

ASSUME EventsAssumption  == Events \subseteq Nat /\ IsFiniteSet(Events)
ASSUME OwnerAssumption   == Owner \in [Events -> Batches] /\ Demo \subseteq Batches
ASSUME KeyAssumption     == NoKey \notin Keys
ASSUME SettingAssumption == /\ BatchSize \in Nat \ {0}
                            /\ MaxRetries \in Nat \ {0}
                            /\ MaxAttempts \in Nat
                            /\ MaxAborts \in Nat

VARIABLES
    status,    \* ProcessEvent.export_status; "absent" before, "deleted" after
    attempts,  \* ProcessEvent.export_attempts
    exportOf,  \* ProcessEvent.export
    linked,    \* are the foreign keys batch / order of the row still set
    parent,    \* the row the foreign keys point to
    exports,   \* ProcessEventExport.status, "unused" before the row exists
    packet,    \* ProcessEventExport.csv_content: the rows in the CSV
    pc,        \* where a thread stands in the exporter
    key,       \* its export row
    held,      \* its events not saved yet
    seen,      \* export_attempts in its in-memory copies of the events
    refused,   \* event ids in the "errors" of the answer it received
    aborts     \* how many exporters have died so far

rows   == <<status, attempts, exportOf, linked, parent>>
books  == <<exports, packet>>
threads == <<pc, key, held, seen, refused>>
vars == <<rows, books, threads, aborts>>

RowStatus == {"absent", "pending", "processing", "sent", "failed",
              "dead_letter", "deleted"}
ExportStatus == {"unused", "sending", "accepted", "partially_accepted", "failed"}

TypeOK ==
    /\ status \in [Events -> RowStatus]
    /\ attempts \in [Events -> Nat]
    /\ exportOf \in [Events -> Keys \cup {NoKey}]
    /\ linked \in [Events -> BOOLEAN]
    /\ parent \in [Batches -> {"live", "dropping", "gone"}]
    /\ exports \in [Keys -> ExportStatus]
    /\ packet \in [Keys -> SUBSET Events]
    /\ pc \in [Workers -> {"idle", "claimed", "waiting", "applying", "retrying"}]
    /\ key \in [Workers -> Keys \cup {NoKey}]
    /\ held \in [Workers -> SUBSET Events]
    /\ seen \in [Workers -> [Events -> Nat]]
    /\ refused \in [Workers -> SUBSET Events]
    /\ aborts \in Nat

Init ==
    /\ status = [e \in Events |-> "absent"]
    /\ attempts = [e \in Events |-> 0]
    /\ exportOf = [e \in Events |-> NoKey]
    /\ linked = [e \in Events |-> FALSE]
    /\ parent = [b \in Batches |-> "live"]
    /\ exports = [k \in Keys |-> "unused"]
    /\ packet = [k \in Keys |-> {}]
    /\ pc = [w \in Workers |-> "idle"]
    /\ key = [w \in Workers |-> NoKey]
    /\ held = [w \in Workers |-> {}]
    /\ seen = [w \in Workers |-> [e \in Events |-> 0]]
    /\ refused = [w \in Workers |-> {}]
    /\ aborts = 0

-----------------------------------------------------------------------------
(* What the exporter reads. *)

\* The first n of S in the order of the query.
Oldest(S, n) == {e \in S : Cardinality({f \in S : f < e}) < n}

\* Fault: rows another exporter has claimed are chosen again.
ExportableClaimed == {e \in Events : /\ status[e] \in {"pending", "processing"}
                                     /\ ~(linked[e] /\ Owner[e] \in Demo)}

\* Fault: the demo filter is left out.
ExportableDemo == {e \in Events : status[e] = "pending"}

\* Demo rows are recognised by their foreign keys alone.
Exportable == {e \in Events : /\ status[e] = "pending"
                              /\ ~(linked[e] /\ Owner[e] \in Demo)}

-----------------------------------------------------------------------------
(* Requests of the QMS that touch the outbox. *)

\* A business transaction commits a new event of a parent it can still see.
Record(e) ==
    /\ status[e] = "absent"
    /\ parent[Owner[e]] # "gone"
    /\ status' = [status EXCEPT ![e] = "pending"]
    /\ linked' = [linked EXCEPT ![e] = TRUE]
    /\ UNCHANGED <<attempts, exportOf, parent, books, threads, aborts>>

\* Deleting a parent, first statement: its rows that are not SENT go.
DropUnsent(b) ==
    /\ parent[b] = "live"
    /\ parent' = [parent EXCEPT ![b] = "dropping"]
    /\ status' = [e \in Events |->
                    IF linked[e] /\ Owner[e] = b /\ status[e] \notin {"sent", "deleted"}
                    THEN "deleted" ELSE status[e]]
    /\ UNCHANGED <<attempts, exportOf, linked, books, threads, aborts>>

\* Deleting a parent, second statement: SET_NULL on whatever rows are left.
DeleteParent(b) ==
    /\ parent[b] = "dropping"
    /\ parent' = [parent EXCEPT ![b] = "gone"]
    /\ linked' = [e \in Events |-> linked[e] /\ Owner[e] # b]
    /\ UNCHANGED <<status, attempts, exportOf, books, threads, aborts>>

\* Fault: the re-queue takes DEAD_LETTER rows along.
RetryFailedAndDead ==
    LET back == {"failed", "dead_letter"} IN
    /\ \E e \in Events : status[e] \in back
    /\ \A e \in Events : status[e] \in back => attempts[e] < MaxAttempts + 1
    /\ status' = [e \in Events |-> IF status[e] \in back THEN "pending" ELSE status[e]]
    /\ UNCHANGED <<attempts, exportOf, linked, parent, books, threads, aborts>>

\* The operator's "retry failed" command: one UPDATE, attempts are kept.
RetryFailed ==
    /\ \E e \in Events : status[e] = "failed"
    /\ \A e \in Events : status[e] = "failed" => attempts[e] < MaxAttempts
    /\ status' = [e \in Events |-> IF status[e] = "failed" THEN "pending" ELSE status[e]]
    /\ UNCHANGED <<attempts, exportOf, linked, parent, books, threads, aborts>>

-----------------------------------------------------------------------------
(* The exporter. *)

\* The claiming transaction: choose, write the export row, mark PROCESSING.
ClaimAs(w, k) ==
    LET batch == Oldest(Exportable, BatchSize) IN
    /\ pc[w] = "idle"
    /\ exports[k] = "unused"
    /\ batch # {}
    /\ exports' = [exports EXCEPT ![k] = "sending"]
    /\ packet' = [packet EXCEPT ![k] = batch]
    /\ status' = [e \in Events |-> IF e \in batch THEN "processing" ELSE status[e]]
    /\ exportOf' = [e \in Events |-> IF e \in batch THEN k ELSE exportOf[e]]
    /\ pc' = [pc EXCEPT ![w] = "claimed"]
    /\ key' = [key EXCEPT ![w] = k]
    /\ held' = [held EXCEPT ![w] = batch]
    /\ seen' = [seen EXCEPT ![w] = [e \in Events |-> IF e \in batch THEN attempts[e] ELSE 0]]
    /\ UNCHANGED <<attempts, linked, parent, refused, aborts>>

Claim(w) == \E k \in Keys : ClaimAs(w, k)

\* The request leaves; the thread blocks in urlopen.
Send(w) ==
    /\ pc[w] = "claimed"
    /\ pc' = [pc EXCEPT ![w] = "waiting"]
    /\ UNCHANGED <<rows, books, key, held, seen, refused, aborts>>

\* A 2xx answer naming the rows in errors as rejected.
Answer(w, errors) ==
    /\ pc[w] = "waiting"
    /\ pc' = [pc EXCEPT ![w] = "applying"]
    /\ refused' = [refused EXCEPT ![w] = errors]
    /\ UNCHANGED <<rows, books, key, held, seen, aborts>>

\* What a thread forgets when the call returns or dies.
Leave(w) ==
    /\ pc' = [pc EXCEPT ![w] = "idle"]
    /\ key' = [key EXCEPT ![w] = NoKey]
    /\ held' = [held EXCEPT ![w] = {}]
    /\ seen' = [seen EXCEPT ![w] = [e \in Events |-> 0]]
    /\ refused' = [refused EXCEPT ![w] = {}]

\* Fault: a successful attempt is not counted.
ApplyOneUncounted(w, e) ==
    /\ pc[w] = "applying"
    /\ e \in Oldest(held[w], 1)
    /\ status[e] # "deleted"
    /\ exportOf' = [exportOf EXCEPT ![e] = key[w]]
    /\ status' = [status EXCEPT ![e] = IF e \in refused[w] THEN "failed" ELSE "sent"]
    /\ held' = [held EXCEPT ![w] = @ \ {e}]
    /\ UNCHANGED <<attempts, linked, parent, books, pc, key, seen, refused, aborts>>

\* apply_response saves its next row, in a transaction of its own.
ApplyOne(w, e) ==
    /\ pc[w] = "applying"
    /\ e \in Oldest(held[w], 1)
    /\ status[e] # "deleted"
    /\ attempts' = [attempts EXCEPT ![e] = seen[w][e] + 1]
    /\ exportOf' = [exportOf EXCEPT ![e] = key[w]]
    /\ status' = [status EXCEPT ![e] = IF e \in refused[w] THEN "failed" ELSE "sent"]
    /\ held' = [held EXCEPT ![w] = @ \ {e}]
    /\ UNCHANGED <<linked, parent, books, pc, key, seen, refused, aborts>>

\* All rows saved: the export row gets its verdict and the call returns.
Finish(w) ==
    /\ pc[w] = "applying"
    /\ held[w] = {}
    /\ exports' = [exports EXCEPT ![key[w]] =
                     IF refused[w] # {} THEN "partially_accepted" ELSE "accepted"]
    /\ Leave(w)
    /\ UNCHANGED <<rows, packet, aborts>>

\* Fault: a failed call is applied as if it had been answered.
FailSwallowed(w) ==
    /\ pc[w] \in {"claimed", "waiting"}
    /\ pc' = [pc EXCEPT ![w] = "applying"]
    /\ UNCHANGED <<rows, books, key, held, seen, refused, aborts>>

\* Connection error, timeout, 4xx/5xx or unreadable JSON: the export failed.
Fail(w) ==
    /\ pc[w] \in {"claimed", "waiting"}
    /\ exports' = [exports EXCEPT ![key[w]] = "failed"]
    /\ pc' = [pc EXCEPT ![w] = "retrying"]
    /\ UNCHANGED <<rows, packet, key, held, seen, refused, aborts>>

\* mark_retry saves its next row, PENDING again when attempts are left; the call
\* returns after the last one.
RetryOne(w, e) ==
    /\ pc[w] = "retrying"
    /\ e \in Oldest(held[w], 1)
    /\ status[e] # "deleted"
    /\ attempts' = [attempts EXCEPT ![e] = seen[w][e] + 1]
    /\ status' = [status EXCEPT ![e] = IF attempts'[e] >= MaxRetries
                                       THEN "dead_letter" ELSE "pending"]
    /\ IF held[w] = {e}
       THEN Leave(w)
       ELSE /\ held' = [held EXCEPT ![w] = @ \ {e}]
            /\ UNCHANGED <<pc, key, seen, refused>>
    /\ UNCHANGED <<exportOf, linked, parent, books, aborts>>

\* The next row was deleted meanwhile: save(update_fields=...) raises
\* DatabaseError, which nobody here catches, and the call is over.
LoseRow(w, e) ==
    /\ pc[w] \in {"applying", "retrying"}
    /\ e \in Oldest(held[w], 1)
    /\ status[e] = "deleted"
    /\ Leave(w)
    /\ UNCHANGED <<rows, books, aborts>>

\* The process is killed, or an exception of another class gets through.
Abort(w) ==
    /\ pc[w] # "idle"
    /\ aborts < MaxAborts
    /\ aborts' = aborts + 1
    /\ Leave(w)
    /\ UNCHANGED <<rows, books>>

SaveRow(w) == \E e \in held[w] : ApplyOne(w, e) \/ RetryOne(w, e) \/ LoseRow(w, e)

Exporter(w) ==
    \/ Claim(w)
    \/ Send(w)
    \/ \E errors \in SUBSET held[w] : Answer(w, errors)
    \/ SaveRow(w)
    \/ Finish(w)
    \/ Fail(w)
    \/ Abort(w)

Next ==
    \/ \E e \in Events : Record(e)
    \/ \E b \in Batches : DropUnsent(b) \/ DeleteParent(b)
    \/ RetryFailed
    \/ \E w \in Workers : Exporter(w)

Spec == Init /\ [][Next]_vars

-----------------------------------------------------------------------------
(* What the outbox promises. *)

\* A row in the hands of an exporter is PROCESSING under that exporter's export
\* row, or has been deleted under it; no two exporters hold the same row.  This
\* is what claiming in a transaction of its own with skip_locked is for.
ClaimIsExclusive ==
    \A w \in Workers : \A e \in held[w] :
        /\ status[e] = "deleted" \/ (status[e] = "processing" /\ exportOf[e] = key[w])
        /\ \A v \in Workers : e \in held[v] => v = w

\* A settled row has been charged one attempt for every CSV it was ever in:
\* mark_retry and apply_response count from copies read at the claim, and no
\* interleaving of exporters loses or doubles a count.
AttemptsAreExports ==
    \A e \in Events :
        status[e] \in {"pending", "sent", "failed", "dead_letter"}
            => attempts[e] = Cardinality({k \in Keys : e \in packet[k]})

\* The export row never says more than its events: ACCEPTED means every row of
\* its CSV is SENT by this export, FAILED means it has sent none of them.
VerdictMatchesRows ==
    \A k \in Keys : \A e \in packet[k] :
        /\ exports[k] = "accepted" => status[e] = "sent" /\ exportOf[e] = k
        /\ exports[k] = "failed" => ~(status[e] \in {"sent", "failed"} /\ exportOf[e] = k)

\* While its foreign keys still say so, a demo event stays in the queue.
MarkedDemoStaysHome ==
    \A e \in Events : linked[e] /\ Owner[e] \in Demo
                         => status[e] \in {"pending", "deleted"}

\* What was accepted, and what was given up, is never queued again: no late
\* exporter, deletion or re-queue touches a SENT or a DEAD_LETTER row, except
\* that deleting the parent drops a DEAD_LETTER one.
SettledIsFinal ==
    [][\A e \in Events :
         /\ status[e] = "sent" => status'[e] = "sent" /\ exportOf'[e] = exportOf[e]
         /\ status[e] = "dead_letter" => status'[e] \in {"dead_letter", "deleted"}]_vars

=============================================================================
