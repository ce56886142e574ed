------------------------------ MODULE EventIntake ------------------------------
(***************************************************************************)
(* The intake of the analytics service: POST /import/ (import_events), the *)
(* stream log of each case type and the table of import receipts.          *)
(*                                                                         *)
(* The service is one uvicorn process and the handler is a coroutine that  *)
(* does not await after reading the body, so requests are handled one at a *)
(* time; but every append and the receipt are SQLite transactions of their *)
(* own, and the handler can fail or the process die between any two.       *)
(* The clients are not here: EventPipeline posts the packets, and posts    *)
(* them again under the same Idempotency-Key.                              *)
(***************************************************************************)
EXTENDS FiniteSets, Naturals

CONSTANTS
    Events,     \* event_id values
    CaseTypes,  \* case_type values; one stream log each
    CaseType,   \* CaseType[e]: the case_type column of the row of e
    Invalid,    \* events whose row lacks case_id, activity or a timestamp
    Keys,       \* Idempotency-Key values; a key belongs to one packet
    NoKey,      \* the handler is idle
    MaxFaults   \* bound on damaged bodies, failed appends and crashes

VARIABLES
    packet,    \* the rows of the CSV posted under a key
    requests,  \* posted and not yet read by the handler
    verdict,   \* the last answer given under a key
    current,   \* key of the request being handled
    todo,      \* case types of it not appended yet
    stored,    \* events of the stream log of a case type
    receipts,  \* keys in import_receipts
    arrived,   \* history: events that were ever stored
    faults     \* history: damaged bodies, failed appends and crashes so far

handler == <<current, todo>>
tables  == <<stored, receipts, arrived>>
vars == <<packet, requests, verdict, handler, tables, faults>>

TypeOK ==
    /\ packet \in [Keys -> SUBSET Events]
    /\ requests \subseteq Keys
    /\ verdict \in [Keys -> {"none", "ok", "error"}]
    /\ current \in Keys \cup {NoKey}
    /\ todo \subseteq CaseTypes
    /\ stored \in [CaseTypes -> SUBSET Events]
    /\ receipts \subseteq Keys
    /\ arrived \subseteq Events
    /\ faults \in Nat

Init ==
    /\ packet = [k \in Keys |-> {}]
    /\ requests = {}
    /\ verdict = [k \in Keys |-> "none"]
    /\ current = NoKey
    /\ todo = {}
    /\ stored = [c \in CaseTypes |-> {}]
    /\ receipts = {}
    /\ arrived = {}
    /\ faults = 0

-----------------------------------------------------------------------------
(* The handler. *)

\* The rows of the packet that pass validation and belong to case type c.
Records(k, c) == {e \in packet[k] \ Invalid : CaseType[e] = c}

\* A packet with a receipt gets the answer it got before.
Replay(k) ==
    /\ current = NoKey
    /\ k \in requests /\ k \in receipts
    /\ requests' = requests \ {k}
    /\ verdict' = [verdict EXCEPT ![k] = "ok"]
    /\ UNCHANGED <<packet, handler, tables, faults>>

\* Otherwise its rows are validated and grouped by case type.
Accept(k) ==
    /\ current = NoKey
    /\ k \in requests /\ k \notin receipts
    /\ requests' = requests \ {k}
    /\ current' = k
    /\ todo' = {c \in CaseTypes : Records(k, c) # {}}
    /\ UNCHANGED <<packet, verdict, tables, faults>>

\* A body that arrives damaged (checksum, encoding, columns) is refused whole
\* with a 422, unless its key has a receipt, which is looked up first.
Refuse(k) ==
    /\ current = NoKey
    /\ k \in requests /\ k \notin receipts
    /\ faults < MaxFaults
    /\ faults' = faults + 1
    /\ requests' = requests \ {k}
    /\ verdict' = [verdict EXCEPT ![k] = "error"]
    /\ UNCHANGED <<packet, handler, tables>>

\* Fault: nothing is dropped.
DropNothing(records, c) == records

\* What _drop_known leaves of the rows: those the log does not hold.
DropKnown(records, c) == records \ stored[c]

\* The unique index on (log_id, event_id) refuses the whole insert.
IndexRefuses(inserted, c) == inserted \cap stored[c] # {}

Idle == current' = NoKey /\ todo' = {}

\* An exception reaches the client as a 5xx.
Error500 ==
    /\ verdict' = [verdict EXCEPT ![current] = "error"]
    /\ Idle

\* One append_frame: the rows of one case type, in one SQLite transaction.
Append(c) ==
    LET inserted == DropKnown(Records(current, c), c) IN
    /\ c \in todo
    /\ IF IndexRefuses(inserted, c)
       THEN /\ Error500
            /\ UNCHANGED <<stored, arrived>>
       ELSE /\ stored' = [stored EXCEPT ![c] = @ \cup inserted]
            /\ arrived' = arrived \cup inserted
            /\ todo' = todo \ {c}
            /\ UNCHANGED <<current, verdict>>
    /\ UNCHANGED <<packet, requests, receipts, faults>>

\* SQLite fails an append: locked database, full disk.  Earlier appends stay.
AppendFails(c) ==
    /\ c \in todo
    /\ faults < MaxFaults
    /\ faults' = faults + 1
    /\ Error500
    /\ UNCHANGED <<packet, requests, tables>>

\* Every case type appended: the receipt is written and the answer returned.
Respond ==
    /\ current # NoKey /\ todo = {}
    /\ receipts' = receipts \cup {current}
    /\ verdict' = [verdict EXCEPT ![current] = "ok"]
    /\ Idle
    /\ UNCHANGED <<packet, requests, stored, arrived, faults>>

\* The process dies with the request half done; the client gets no answer.
Crash ==
    /\ current # NoKey
    /\ faults < MaxFaults
    /\ faults' = faults + 1
    /\ Idle
    /\ UNCHANGED <<packet, requests, verdict, tables>>

\* DELETE of the log: its events go, the receipts stay.
DeleteLog(c) ==
    /\ current = NoKey
    /\ stored[c] # {}
    /\ stored' = [stored EXCEPT ![c] = {}]
    /\ UNCHANGED <<packet, requests, verdict, handler, receipts, arrived, faults>>

Handler ==
    \/ \E k \in Keys : Replay(k) \/ Accept(k) \/ Refuse(k)
    \/ \E c \in CaseTypes : Append(c) \/ AppendFails(c)
    \/ Respond
    \/ Crash

-----------------------------------------------------------------------------
(* What the intake promises. *)

\* A receipt is only ever written for a packet all of whose valid rows reached
\* their logs, whatever failed and was posted again before.
ReceiptMeansStored ==
    \A k \in receipts : packet[k] \ Invalid \subseteq arrived

\* README and EVENT-LOG-INTAKE.md call the intake idempotent from both ends: a
\* packet that overlaps what a failed or repeated one left behind is accepted,
\* never refused by the unique index.  Without a fault nobody sees a 5xx.
ResendIsAccepted ==
    faults = 0 => \A k \in Keys : verdict[k] # "error"

=============================================================================
