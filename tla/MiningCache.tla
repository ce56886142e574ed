------------------------------ MODULE MiningCache ------------------------------
(***************************************************************************)
(* The questions asked of the analytics service: statistics, variants,     *)
(* bottlenecks, models and conformance of a stored log or of an uploaded   *)
(* file (api/v1/mining.py, services/mining_service.py), and the result     *)
(* cache they share (core/cache.py).                                       *)
(*                                                                         *)
(* The service is one process.  A handler reads the log row and its events *)
(* on the event loop without awaiting, so it sees one state of the log;    *)
(* the answer is computed later, in a thread of the pool, while the event  *)
(* loop appends to the log, deletes it or creates it again.  The cache is  *)
(* looked up and filled by those threads, and cleared by the appends.      *)
(* An answer is a function of the question and of the events it was        *)
(* computed from; it is represented by those events.                       *)
(***************************************************************************)
EXTENDS FiniteSets, Naturals

CONSTANTS
    Logs,       \* log ids; a stream log keeps its id when it is created again
    Events,
    Files,      \* what POST /mine is given: sets of events
    Questions,  \* method and parameters, the rest of the cache key
    Discovery,  \* the questions that fail when no event is left
    Requests,
    Adhoc,      \* key prefix of a question asked of a file
    Workers,    \* max_workers of the thread pool
    MaxItems,   \* cache_max_items
    MaxClock    \* bound on the number of changes of the logs

ASSUME FilesAssumption == Files \subseteq SUBSET Events
ASSUME QuestionsAssumption == Discovery \subseteq Questions
ASSUME AdhocAssumption == Adhoc \notin Logs
ASSUME SizesAssumption == Workers \in Nat \ {0} /\ MaxItems \in Nat \ {0} /\ MaxClock \in Nat

VARIABLES
    stored,   \* events of a log
    version,  \* updated_at of its row; 0: no row
    clock,    \* utcnow
    cache,    \* entries [key, value]
    phase,    \* where a request is
    asked,    \* what its handler read: the key and the frame
    answer    \* what it is answered with

logs == <<stored, version, clock>>
requests == <<phase, asked, answer>>
vars == <<logs, cache, requests>>

Phases == {"idle", "queued", "computing", "answered", "failed"}

\* a version dropped from the key, with invalidate_prefix left to do its work
KeyOfLog(l, v, q) == <<l, 0, q>>

\* MiningService._key: prefix, and fingerprint of the version and the question
Key(l, v, q) == <<l, v, q>>

KeyTypes == (Logs \cup {Adhoc}) \X Nat \X Questions
LogOf(key) == key[1]
QuestionOf(key) == key[3]

Entries == [key : KeyTypes, value : SUBSET Events]
Taken == [key : KeyTypes, frame : SUBSET Events]

\* nothing is asked
Blank == [key |-> <<>>, frame |-> {}]

TypeOK ==
    /\ stored \in [Logs -> SUBSET Events]
    /\ version \in [Logs -> Nat]
    /\ clock \in Nat
    /\ cache \subseteq Entries
    /\ \A e, f \in cache : e.key = f.key => e = f
    /\ Cardinality(cache) <= MaxItems
    /\ phase \in [Requests -> Phases]
    /\ asked \in [Requests -> Taken \cup {Blank}]
    /\ \A r \in Requests : phase[r] # "idle" => asked[r] \in Taken
    /\ answer \in [Requests -> SUBSET Events]

Init ==
    /\ stored = [l \in Logs |-> {}]
    /\ version = [l \in Logs |-> 0]
    /\ clock = 0
    /\ cache = {}
    /\ phase = [r \in Requests |-> "idle"]
    /\ asked = [r \in Requests |-> Blank]
    /\ answer = [r \in Requests |-> {}]

-----------------------------------------------------------------------------
(* The logs: every change stamps the row with a new updated_at. *)

Tick == clock < MaxClock /\ clock' = clock + 1

\* TTLCache.invalidate_prefix
Without(l) == {entry \in cache : LogOf(entry.key) # l}

\* LogService.create_* and get_or_create_stream_log
Create(l) ==
    /\ version[l] = 0
    /\ Tick
    /\ version' = [version EXCEPT ![l] = clock']
    /\ UNCHANGED <<stored, cache, requests>>

\* LogService.append_frame: what is known already is dropped, an empty rest
\* changes nothing; otherwise insert, stamp, commit, clear the cache
Append(l, new) ==
    /\ version[l] # 0
    /\ new \ stored[l] # {}
    /\ Tick
    /\ stored' = [stored EXCEPT ![l] = @ \cup new]
    /\ version' = [version EXCEPT ![l] = clock']
    /\ cache' = Without(l)
    /\ UNCHANGED requests

\* LogService.delete
Delete(l) ==
    /\ version[l] # 0
    /\ cache' = Without(l)
    /\ stored' = [stored EXCEPT ![l] = {}]
    /\ version' = [version EXCEPT ![l] = 0]
    /\ UNCHANGED <<clock, requests>>

-----------------------------------------------------------------------------
(* The requests. *)

Take(r, key, frame) ==
    /\ phase[r] = "idle"
    /\ phase' = [phase EXCEPT ![r] = "queued"]
    /\ asked' = [asked EXCEPT ![r] = [key |-> key, frame |-> frame]]
    /\ UNCHANGED <<logs, cache, answer>>

\* the handlers of /logs/{log_id}/...: logs.require, then run_blocking
AskLog(r, l, q) ==
    /\ version[l] # 0
    /\ Take(r, Key(l, version[l], q), stored[l])

\* POST /mine: the file is parsed and asked about; neither log id nor version
AskFile(r, f, q) == Take(r, Key(Adhoc, 0, q), f)

Answer(r, value) ==
    /\ phase' = [phase EXCEPT ![r] = "answered"]
    /\ answer' = [answer EXCEPT ![r] = value]

\* a thread takes the call and looks into the cache
Lookup(r) ==
    LET found == {entry \in cache : entry.key = asked[r].key} IN
    /\ phase[r] = "queued"
    /\ Cardinality({s \in Requests : phase[s] = "computing"}) < Workers
    /\ \/ \E entry \in found : Answer(r, entry.value)
       \/ found = {} /\ phase' = [phase EXCEPT ![r] = "computing"] /\ UNCHANGED answer
    /\ UNCHANGED <<logs, cache, asked>>

\* TTLCache.set: the entry replaces one of its key; a full cache loses another
Filled(entry) ==
    LET others == {e \in cache : e.key # entry.key} IN
    IF Cardinality(others) < MaxItems THEN {others \cup {entry}}
    ELSE {(others \ {e}) \cup {entry} : e \in others}

Compute(r) ==
    /\ phase[r] = "computing"
    /\ ~ (asked[r].frame = {} /\ QuestionOf(asked[r].key) \in Discovery)
    /\ cache' \in Filled([key |-> asked[r].key, value |-> asked[r].frame])
    /\ Answer(r, asked[r].frame)
    /\ UNCHANGED <<logs, asked>>

\* "No events left after filtering": nothing is cached
ComputeFails(r) ==
    /\ phase[r] = "computing"
    /\ asked[r].frame = {}
    /\ QuestionOf(asked[r].key) \in Discovery
    /\ phase' = [phase EXCEPT ![r] = "failed"]
    /\ UNCHANGED <<logs, cache, asked, answer>>

\* the client reads the answer (or polls the job of /discover/async)
Collect(r) ==
    /\ phase[r] \in {"answered", "failed"}
    /\ phase' = [phase EXCEPT ![r] = "idle"]
    /\ asked' = [asked EXCEPT ![r] = Blank]
    /\ answer' = [answer EXCEPT ![r] = {}]
    /\ UNCHANGED <<logs, cache>>

\* ttl_seconds have passed
Expire(entry) ==
    /\ cache' = cache \ {entry}
    /\ UNCHANGED <<logs, requests>>

\* the process restarts: the cache, the threads and the jobs are gone
Restart ==
    /\ cache # {} \/ \E r \in Requests : phase[r] # "idle"
    /\ cache' = {}
    /\ phase' = [r \in Requests |-> "idle"]
    /\ asked' = [r \in Requests |-> Blank]
    /\ answer' = [r \in Requests |-> {}]
    /\ UNCHANGED logs

Next ==
    \/ \E l \in Logs : Create(l) \/ Delete(l) \/ \E new \in SUBSET Events : Append(l, new)
    \/ \E r \in Requests, q \in Questions :
          (\E l \in Logs : AskLog(r, l, q)) \/ (\E f \in Files : AskFile(r, f, q))
    \/ \E r \in Requests : Lookup(r) \/ Compute(r) \/ ComputeFails(r) \/ Collect(r)
    \/ \E entry \in cache : Expire(entry)
    \/ Restart

Spec == Init /\ [][Next]_vars

-----------------------------------------------------------------------------
\* A question about a stored log is answered from the events the log had when
\* the request was taken, all of what was acknowledged before it among them:
\* an append, a deletion or a re-creation that overtakes a computing thread
\* leaves no old answer in the cache for those who ask afterwards.
LogAnswerIsCurrent ==
    \A r \in Requests :
        phase[r] = "answered" /\ LogOf(asked[r].key) # Adhoc => answer[r] = asked[r].frame

=============================================================================
