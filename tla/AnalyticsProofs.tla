---------------------------- MODULE AnalyticsProofs ----------------------------
(***************************************************************************)
(* Proofs about the analytics service.  Of MiningCache, for any logs,      *)
(* questions, threads, sizes of the cache and changes of the logs: two     *)
(* frames that are known under one log and one version, in the cache or    *)
(* with a request, are the same frame, and a version that is gone does not *)
(* come back.  Of Studio, the console, for any logs and filters and any    *)
(* number of requests under way: the figures that are wanted were asked    *)
(* for after all the others, or have come after them.                      *)
(***************************************************************************)
EXTENDS MiningCache, Studio, FiniteSetTheorems, WellFoundedInduction, TLAPS

(* What is known: keys with the events under them. *)
Cached == {<<e.key, e.value>> : e \in cache}
Awaited == {<<asked[r].key, asked[r].frame>> : r \in {x \in Requests : phase[x] # "idle"}}
Known == Cached \cup Awaited

VersionOf(pair) == pair[1][2]
OfLog(pair, l) == pair[1][1] = l

(* No version is later than the clock. *)
Stamped == \A l \in Logs : version[l] <= clock

(* What is known under the version a log has is what the log holds. *)
Current ==
  \A l \in Logs : \A p \in Known : OfLog(p, l) =>
    /\ VersionOf(p) \in 1 .. clock
    /\ VersionOf(p) = version[l] => p[2] = stored[l]

(* One version of a log has one content. *)
Agree ==
  \A l \in Logs : \A p, q \in Known :
    OfLog(p, l) /\ OfLog(q, l) /\ VersionOf(p) = VersionOf(q) => p[2] = q[2]

Knowledge == Stamped /\ Current /\ Agree

IInv == TypeOK /\ IsFiniteSet(cache) /\ Knowledge /\ LogAnswerIsCurrent

-----------------------------------------------------------------------------
(* How the knowledge changes *)

(* Less is known, or something a log holds under its version. *)
LEMMA Learn ==
  ASSUME TypeOK, Knowledge, UNCHANGED logs, NEW l \in Logs, NEW q, version[l] # 0,
         Known' \subseteq Known \cup {<<Key(l, version[l], q), stored[l]>>}
  PROVE  Knowledge'
<1> DEFINE new == <<Key(l, version[l], q), stored[l]>>
<1>1. /\ version[l] \in 1 .. clock /\ OfLog(new, l) /\ VersionOf(new) = version[l]
      /\ new[2] = stored[l] /\ \A m \in Logs : OfLog(new, m) => m = l
  BY DEF TypeOK, Knowledge, Stamped, Key, OfLog, VersionOf
<1>2. UNCHANGED <<version, stored, clock>>
  BY DEF logs
<1>3. Known' \subseteq Known \cup {new}
  OBVIOUS
<1> HIDE DEF new
<1>4. Current'
  BY <1>1, <1>2, <1>3 DEF Current, Knowledge
<1>5. ASSUME NEW m \in Logs, NEW p \in Known, OfLog(p, m), OfLog(new, m),
             VersionOf(p) = VersionOf(new)
      PROVE  p[2] = new[2]
  BY <1>1, <1>5 DEF Current, Knowledge
<1>6. Agree'
  BY <1>1, <1>3, <1>5 DEF Agree, Knowledge
<1> QED BY <1>2, <1>4, <1>6 DEF Knowledge, Stamped

(* No more is known than before. *)
LEMMA Forget ==
  ASSUME TypeOK, Knowledge, UNCHANGED logs, Known' \subseteq Known
  PROVE  Knowledge'
BY DEF Knowledge, Stamped, Current, Agree, logs

(* A log is stamped later than all that is known of it, or has no row. *)
LEMMA Stamp ==
  ASSUME TypeOK, Knowledge, Known' \subseteq Known, NEW l \in Logs,
         \A m \in Logs \ {l} : version'[m] = version[m] /\ stored'[m] = stored[m],
         \/ clock' = clock /\ version'[l] = 0
         \/ clock' = clock + 1 /\ version'[l] = clock'
  PROVE  Knowledge'
<1>1. clock \in Nat /\ version \in [Logs -> Nat]
  BY DEF TypeOK
<1>2. Stamped'
  BY <1>1 DEF Knowledge, Stamped
<1>3. Current'
  <2>1. SUFFICES ASSUME NEW m \in Logs, NEW p \in Known, OfLog(p, m)
                 PROVE  /\ VersionOf(p) \in 1 .. clock'
                        /\ VersionOf(p) = version'[m] => p[2] = stored'[m]
    BY DEF Current
  <2>2. VersionOf(p) \in 1 .. clock /\ (VersionOf(p) = version[m] => p[2] = stored[m])
    BY <2>1 DEF Current, Knowledge
  <2> QED BY <1>1, <2>2
<1>4. Agree'
  BY DEF Agree, Knowledge
<1> QED BY <1>2, <1>3, <1>4 DEF Knowledge

-----------------------------------------------------------------------------
(* The logs *)

LEMMA LogsKeep ==
  ASSUME IInv, NEW l \in Logs,
         \/ Create(l) \/ Delete(l) \/ \E new \in SUBSET Events : Append(l, new)
  PROVE  IInv'
<1> USE DEF IInv
<1>1. cache' \subseteq cache /\ UNCHANGED requests
  BY DEF Create, Delete, Append, Without
<1>2. Known' \subseteq Known
  BY <1>1 DEF Known, Cached, Awaited, requests
<1>3. IsFiniteSet(cache') /\ Cardinality(cache') <= MaxItems
  <2>1. Cardinality(cache') <= Cardinality(cache) /\ IsFiniteSet(cache')
    BY <1>1, FS_Subset
  <2>2. Cardinality(cache) \in Nat /\ Cardinality(cache') \in Nat
    BY <2>1, FS_CardinalityType
  <2> QED BY <2>1, <2>2, SizesAssumption DEF TypeOK
<1>4. /\ stored' \in [Logs -> SUBSET Events] /\ version' \in [Logs -> Nat] /\ clock' \in Nat
      /\ \A m \in Logs \ {l} : version'[m] = version[m] /\ stored'[m] = stored[m]
      /\ \/ clock' = clock /\ version'[l] = 0
         \/ clock' = clock + 1 /\ version'[l] = clock'
  BY DEF TypeOK, Create, Delete, Append, Tick
<1>5. TypeOK'
  BY <1>1, <1>3, <1>4 DEF TypeOK, requests
<1>6. Knowledge'
  BY <1>2, <1>4, Stamp
<1>7. LogAnswerIsCurrent'
  BY <1>1 DEF LogAnswerIsCurrent, requests
<1> QED BY <1>3, <1>5, <1>6, <1>7

-----------------------------------------------------------------------------
(* The requests: less is known, or what a request has read. *)

(* A step of the requests and of the cache that leaves the logs alone. *)
LEMMA AskKeeps ==
  ASSUME IInv, NEW r \in Requests, NEW q \in Questions,
         \/ \E l \in Logs : AskLog(r, l, q)
         \/ \E f \in Files : AskFile(r, f, q)
  PROVE  IInv'
<1> USE DEF IInv
<1>1. PICK key, frame : Take(r, key, frame) /\ key \in KeyTypes /\ frame \in SUBSET Events
         /\ \/ key[1] = Adhoc
            \/ \E l \in Logs : version[l] # 0 /\ key = Key(l, version[l], q)
                              /\ frame = stored[l]
  <2>1. ASSUME NEW l \in Logs, AskLog(r, l, q)
        PROVE  Key(l, version[l], q) \in KeyTypes /\ stored[l] \in SUBSET Events
    BY DEF TypeOK, Key, KeyTypes
  <2>2. ASSUME NEW f \in Files
        PROVE  /\ Key(Adhoc, 0, q) \in KeyTypes /\ f \in SUBSET Events
               /\ Key(Adhoc, 0, q)[1] = Adhoc
    BY FilesAssumption DEF Key, KeyTypes
  <2> QED BY <2>1, <2>2 DEF AskLog, AskFile
<1>2. /\ phase' = [phase EXCEPT ![r] = "queued"] /\ UNCHANGED <<logs, cache, answer>>
      /\ asked' = [asked EXCEPT ![r] = [key |-> key, frame |-> frame]]
      /\ phase[r] = "idle"
  BY <1>1 DEF Take
<1>3. /\ asked'[r] = [key |-> key, frame |-> frame] /\ phase'[r] = "queued"
      /\ \A s \in Requests \ {r} : phase'[s] = phase[s] /\ asked'[s] = asked[s]
  BY <1>2 DEF TypeOK
<1>4. TypeOK'
  <2>1. [key |-> key, frame |-> frame] \in Taken
    BY <1>1 DEF Taken
  <2>2. asked' \in [Requests -> Taken \cup {Blank}] /\ phase' \in [Requests -> Phases]
    BY <1>2, <2>1 DEF TypeOK, Phases
  <2>3. \A s \in Requests : phase'[s] # "idle" => asked'[s] \in Taken
    BY <1>3, <2>1 DEF TypeOK
  <2> QED BY <1>2, <2>2, <2>3 DEF TypeOK, logs
<1>5. Known' \subseteq Known \cup {<<key, frame>>}
  BY <1>2, <1>3 DEF Known, Cached, Awaited
<1>6. Knowledge'
  <2>1. CASE key[1] = Adhoc
    BY <1>2, <1>5, <2>1, AdhocAssumption DEF Knowledge, Stamped, Current, Agree, OfLog, logs
  <2>2. CASE \E l \in Logs : version[l] # 0 /\ key = Key(l, version[l], q) /\ frame = stored[l]
    BY <1>2, <1>5, <2>2, Learn
  <2> QED BY <1>1, <2>1, <2>2
<1>7. LogAnswerIsCurrent'
  BY <1>2, <1>3 DEF LogAnswerIsCurrent
<1> QED BY <1>2, <1>4, <1>6, <1>7

(* What stands in the cache under the key of a request is its frame. *)
LEMMA Found ==
  ASSUME IInv, NEW r \in Requests, phase[r] # "idle", NEW e \in cache, e.key = asked[r].key,
         LogOf(e.key) \in Logs
  PROVE  e.value = asked[r].frame
<1>1. <<e.key, e.value>> \in Known /\ <<asked[r].key, asked[r].frame>> \in Known
  BY DEF Known, Cached, Awaited
<1> QED BY <1>1 DEF IInv, Knowledge, Agree, OfLog, VersionOf, LogOf

(* A log or a file is asked about. *)
LEMMA KeyOrigin ==
  ASSUME TypeOK, NEW r \in Requests, phase[r] # "idle"
  PROVE  /\ asked[r] \in Taken /\ asked[r].key \in KeyTypes
         /\ LogOf(asked[r].key) # Adhoc => LogOf(asked[r].key) \in Logs
BY DEF TypeOK, Taken, KeyTypes, LogOf

LEMMA LookupKeeps ==
  ASSUME IInv, NEW r \in Requests, Lookup(r)
  PROVE  IInv'
<1> USE DEF IInv
<1>1. /\ UNCHANGED <<logs, cache, asked>> /\ phase[r] = "queued"
      /\ \/ \E e \in cache : e.key = asked[r].key /\ Answer(r, e.value)
         \/ phase' = [phase EXCEPT ![r] = "computing"] /\ answer' = answer
  BY DEF Lookup
<1>2. \A s \in Requests \ {r} : phase'[s] = phase[s] /\ answer'[s] = answer[s]
  BY <1>1 DEF Answer, TypeOK
<1>3. \A s \in Requests : phase'[s] # "idle" => phase[s] # "idle"
  BY <1>1, <1>2
<1>4. TypeOK'
  <2>1. phase' \in [Requests -> Phases]
    BY <1>1 DEF Answer, TypeOK, Phases
  <2>2. answer' \in [Requests -> SUBSET Events]
    BY <1>1 DEF Answer, TypeOK, Entries
  <2> QED BY <1>1, <1>3, <2>1, <2>2 DEF TypeOK, logs
<1>5. Knowledge'
  <2>1. Known' \subseteq Known
    BY <1>1, <1>3 DEF Known, Cached, Awaited
  <2> QED BY <1>1, <2>1, Forget
<1>6. LogAnswerIsCurrent'
  <2>1. SUFFICES ASSUME NEW s \in Requests, phase'[s] = "answered", LogOf(asked[s].key) # Adhoc
                 PROVE  answer'[s] = asked[s].frame
    BY <1>1 DEF LogAnswerIsCurrent
  <2>2. CASE s # r
    BY <1>2, <2>1, <2>2 DEF LogAnswerIsCurrent
  <2>3. CASE s = r
    <3>1. PICK e \in cache : e.key = asked[r].key /\ Answer(r, e.value)
      BY <1>1, <2>1, <2>3 DEF TypeOK
    <3>2. answer'[r] = e.value
      BY <3>1 DEF Answer, TypeOK
    <3>3. LogOf(e.key) \in Logs
      BY <1>1, <2>1, <2>3, <3>1, KeyOrigin
    <3> QED BY <1>1, <2>3, <3>1, <3>2, <3>3, Found
  <2> QED BY <2>2, <2>3
<1> QED BY <1>1, <1>4, <1>5, <1>6

(* TTLCache.set keeps the entries apart and the cache within its size. *)
LEMMA FilledFits ==
  ASSUME TypeOK, IsFiniteSet(cache), NEW entry \in Entries, NEW c \in Filled(entry)
  PROVE  /\ c \subseteq cache \cup {entry} /\ IsFiniteSet(c) /\ Cardinality(c) <= MaxItems
         /\ \A e, f \in c : e.key = f.key => e = f
<1> DEFINE others == {e \in cache : e.key # entry.key}
<1>1. /\ IsFiniteSet(others) /\ Cardinality(others) <= Cardinality(cache)
      /\ Cardinality(others) \in Nat /\ Cardinality(cache) \in Nat
  BY FS_Subset, FS_CardinalityType
<1>2. MaxItems \in Nat /\ Cardinality(cache) <= MaxItems /\ entry \notin others
  BY SizesAssumption DEF TypeOK
<1>3. CASE c = others \cup {entry} /\ Cardinality(others) < MaxItems
  <2>1. IsFiniteSet(c) /\ Cardinality(c) = Cardinality(others) + 1
    BY <1>1, <1>2, <1>3, FS_AddElement
  <2> QED BY <1>1, <1>2, <1>3, <2>1 DEF TypeOK
<1>4. ASSUME NEW e \in others, c = (others \ {e}) \cup {entry}
      PROVE  /\ c \subseteq cache \cup {entry} /\ IsFiniteSet(c) /\ Cardinality(c) <= MaxItems
             /\ \A f, g \in c : f.key = g.key => f = g
  <2>1. IsFiniteSet(others \ {e}) /\ Cardinality(others \ {e}) = Cardinality(others) - 1
    BY <1>1, <1>4, FS_RemoveElement
  <2>2. IsFiniteSet(c) /\ Cardinality(c) = Cardinality(others \ {e}) + 1
    BY <1>2, <1>4, <2>1, FS_AddElement
  <2> QED BY <1>1, <1>2, <1>4, <2>1, <2>2 DEF TypeOK
<1>5. Filled(entry) = IF Cardinality(others) < MaxItems THEN {others \cup {entry}}
                      ELSE {(others \ {e}) \cup {entry} : e \in others}
  BY DEF Filled
<1> HIDE DEF others
<1> QED BY <1>3, <1>4, <1>5

LEMMA ComputeKeeps ==
  ASSUME IInv, NEW r \in Requests, Compute(r)
  PROVE  IInv'
<1> USE DEF IInv
<1> DEFINE entry == [key |-> asked[r].key, value |-> asked[r].frame]
<1>1. /\ UNCHANGED <<logs, asked>> /\ phase[r] = "computing"
      /\ cache' \in Filled(entry) /\ phase' = [phase EXCEPT ![r] = "answered"]
      /\ answer' = [answer EXCEPT ![r] = asked[r].frame]
  BY DEF Compute, Answer
<1>2. entry \in Entries /\ asked[r] \in Taken
  BY <1>1, KeyOrigin DEF Entries, Taken
<1>3. /\ cache' \subseteq cache \cup {entry} /\ IsFiniteSet(cache')
      /\ Cardinality(cache') <= MaxItems
      /\ \A e, f \in cache' : e.key = f.key => e = f
  <2> HIDE DEF entry
  <2> QED BY <1>1, <1>2, FilledFits
<1>4. TypeOK'
  <2>1. phase' \in [Requests -> Phases] /\ answer' \in [Requests -> SUBSET Events]
    BY <1>1, <1>2 DEF TypeOK, Phases, Taken
  <2>2. \A s \in Requests : phase'[s] # "idle" => asked'[s] \in Taken
    BY <1>1, <1>2 DEF TypeOK
  <2>3. cache' \subseteq Entries
    BY <1>2, <1>3 DEF TypeOK
  <2> QED BY <1>1, <1>3, <2>1, <2>2, <2>3 DEF TypeOK, logs
<1>5. Knowledge'
  <2>1. Awaited' \subseteq Awaited /\ <<entry.key, entry.value>> \in Awaited
    BY <1>1 DEF Awaited, TypeOK
  <2>2. Cached' \subseteq Cached \cup {<<entry.key, entry.value>>}
    BY <1>3 DEF Cached
  <2>3. Known' \subseteq Known
    BY <2>1, <2>2 DEF Known
  <2> QED BY <1>1, <2>3, Forget
<1>6. LogAnswerIsCurrent'
  BY <1>1 DEF LogAnswerIsCurrent, TypeOK
<1> QED BY <1>3, <1>4, <1>5, <1>6

LEMMA OthersKeep ==
  ASSUME IInv,
         \/ \E r \in Requests : ComputeFails(r) \/ Collect(r)
         \/ \E entry \in cache : Expire(entry)
         \/ Restart
  PROVE  IInv'
<1> USE DEF IInv
<1>1. /\ UNCHANGED logs /\ cache' \subseteq cache
      /\ phase' \in [Requests -> Phases] /\ answer' \in [Requests -> SUBSET Events]
      /\ asked' \in [Requests -> Taken \cup {Blank}]
  BY DEF ComputeFails, Collect, Expire, Restart, requests, TypeOK, Phases
<1>2. \A r \in Requests : phase'[r] # "idle" =>
        /\ phase[r] # "idle" /\ asked'[r] = asked[r]
        /\ phase'[r] = "answered" => phase[r] = "answered" /\ answer'[r] = answer[r]
  BY DEF ComputeFails, Collect, Expire, Restart, requests, TypeOK, Phases
<1>3. IsFiniteSet(cache') /\ Cardinality(cache') <= MaxItems
  <2>1. Cardinality(cache') <= Cardinality(cache) /\ IsFiniteSet(cache')
    BY <1>1, FS_Subset
  <2>2. Cardinality(cache) \in Nat /\ Cardinality(cache') \in Nat
    BY <2>1, FS_CardinalityType
  <2> QED BY <2>1, <2>2, SizesAssumption DEF TypeOK
<1>4. TypeOK'
  BY <1>1, <1>2, <1>3 DEF TypeOK, logs
<1>5. Knowledge'
  <2>1. Known' \subseteq Known
    BY <1>1, <1>2 DEF Known, Cached, Awaited
  <2> QED BY <1>1, <2>1, Forget
<1>6. LogAnswerIsCurrent'
  BY <1>2 DEF LogAnswerIsCurrent
<1> QED BY <1>3, <1>4, <1>5, <1>6

-----------------------------------------------------------------------------
LEMMA InvInit ==
  ASSUME Init
  PROVE  IInv
<1>1. IsFiniteSet(cache) /\ Cardinality(cache) = 0
  BY FS_EmptySet DEF Init
<1>2. TypeOK
  BY <1>1, SizesAssumption DEF Init, TypeOK, Phases
<1>3. Known = {}
  BY DEF Init, Known, Cached, Awaited
<1> QED BY <1>1, <1>2, <1>3 DEF Init, IInv, Knowledge, Stamped, Current, Agree,
           LogAnswerIsCurrent

LEMMA InvNext ==
  ASSUME IInv, [Next]_vars
  PROVE  IInv'
<1>1. CASE UNCHANGED vars
  <2>1. UNCHANGED <<stored, version, clock, cache, phase, asked, answer>>
    BY <1>1 DEF vars, logs, requests
  <2> QED BY <2>1 DEF IInv, TypeOK, Knowledge, Stamped, Current, Agree, Known, Cached, Awaited,
             LogAnswerIsCurrent
<1> QED BY <1>1, LogsKeep, AskKeeps, LookupKeeps, ComputeKeeps, OthersKeep DEF Next

LEMMA InvHolds == Spec => []IInv
BY InvInit, InvNext, PTL DEF Spec

-----------------------------------------------------------------------------
(* Theorems *)

(* Logs, cache and requests have the values the code gives them, the cache one
   entry of a key and not more than its size (TTLCache.set). *)
THEOREM TypeCorrect == Spec => []TypeOK
<1>1. IInv => TypeOK
  BY DEF IInv
<1> QED BY <1>1, InvHolds, PTL

(* Whatever is appended, deleted and created while threads compute, a question
   about a log is answered from the events it had when it was asked
   (MiningService, TTLCache.invalidate_prefix). *)
THEOREM AnswersAreCurrent == Spec => []LogAnswerIsCurrent
<1>1. IInv => LogAnswerIsCurrent
  BY DEF IInv
<1> QED BY <1>1, InvHolds, PTL

-----------------------------------------------------------------------------
(* The console: what is on the screen, and what is on its way to it *)

LogIds == StudioLogs \cup {NoLog}
Subjects == [log : LogIds, filter : Filters, seen : SUBSET Nat]
Kinds == {"core", "events", "list", "upload", "delete", "narration", "chat"}
Messages ==
  [n : Nat, kind : Kinds, log : LogIds, filter : Filters, at : {"asked", "ok"}, seen : SUBSET Nat,
   logs : SUBSET StudioLogs, tags : SUBSET LogIds]

StudioTypes ==
  /\ life \in [StudioLogs -> {"unborn", "live", "gone"}] /\ imports \in [StudioLogs -> Nat]
  /\ list \subseteq StudioLogs /\ logId \in LogIds /\ filter \in Filters
  /\ loading \in BOOLEAN /\ error \in BOOLEAN
  /\ figures \in Subjects /\ analyst \in Subjects /\ raw \in Subjects /\ cases \in Subjects
  /\ newest \in Nat
  /\ turns \subseteq LogIds /\ chatLog \in LogIds /\ chatBusy \in BOOLEAN
  /\ net \subseteq Messages /\ IsFiniteSet(net)

(* The turns are of the log the chat was begun for; one question is asked at a time. *)
Conversation ==
  /\ turns \subseteq {chatLog}
  /\ \A r \in Pending("chat") : chatBusy /\ r.log = chatLog
  /\ \A r, s \in Pending("chat") : r = s
  /\ HistoryIsOfTheLog

(* The figures that are wanted were asked for after all the others. *)
Asked ==
  \E r \in Pending("core") :
    /\ r.log = logId /\ r.filter = filter
    /\ newest < r.n /\ \A s \in Pending("core") \ {r} : s.n < r.n

Listed ==
  \/ \E r \in Pending("events") : r.log = logId
  \/ cases.log = logId /\ cases.filter = Local[filter]

(* Or they have come, and what else comes of this log was asked for before. *)
Brought ==
  /\ ~loading
  /\ \A x \in {figures, analyst} : x.log = logId /\ x.filter = filter
  /\ \A s \in Pending("core") : s.n < newest
  /\ Listed

(* Or the list of logs is under way, and the figures will be asked for then. *)
Screen ==
  excused = {} =>
    /\ ~error
    /\ logId # NoLog => Pending("list") # {} \/ Asked \/ Brought

(* What is there of a log, and what is coming, is of the log as it is. *)
Coming == Pending("core") \cup Pending("events")
UpToDate(s) ==
  s.log \in StudioLogs =>
    /\ s.seen \subseteq {imports[s.log]}
    /\ s.at = "ok" => s.seen = {imports[s.log]}
Fresh ==
  excused = {} =>
    /\ \A x \in {figures, raw} : x.log \in StudioLogs => x.seen = {imports[x.log]}
    /\ cases.log # NoLog => cases.log = raw.log /\ cases.seen = raw.seen
    /\ \A s \in Coming : UpToDate(s)

StudioInv == StudioTypes /\ Conversation /\ Screen /\ Fresh /\ FiguresAreOfTheLog

\* A finite set of numbers has a largest one.
LEMMA MaxIsHighest ==
  ASSUME NEW S \in SUBSET Nat, IsFiniteSet(S), S # {}
  PROVE  Max(S) \in S /\ \A y \in S : y <= Max(S)
<1> DEFINE bad == {T \in FiniteSubsetsOf(S) : T # {} /\ ~ \E x \in T : \A y \in T : y <= x}
<1>1. bad = {}
  <2>1. SUFFICES ASSUME bad # {} PROVE FALSE
    OBVIOUS
  <2>2. PICK T \in bad : \A U \in bad : <<U, T>> \notin StrictSubsetOrdering(S)
    <3>1. bad \subseteq FiniteSubsetsOf(S)
      OBVIOUS
    <3> HIDE DEF bad
    <3> QED BY <2>1, <3>1, FS_StrictSubsetOrderingWellFounded, WFMin
  <2>3. PICK z \in T : TRUE
    OBVIOUS
  <2>4. T \ {z} \in FiniteSubsetsOf(S) /\ <<T \ {z}, T>> \in StrictSubsetOrdering(S)
    BY <2>3, FS_RemoveElement DEF FiniteSubsetsOf, StrictSubsetOrdering
  <2>5. T \ {z} \notin bad
    BY <2>2, <2>4
  <2>6. CASE T \ {z} = {}
    BY <2>3, <2>6 DEF FiniteSubsetsOf
  <2>7. CASE T \ {z} # {}
    <3>1. PICK x \in T \ {z} : \A y \in T \ {z} : y <= x
      BY <2>4, <2>5, <2>7
    <3>2. T \subseteq Nat
      BY DEF FiniteSubsetsOf
    <3> QED BY <3>1, <3>2, <2>3
  <2> QED BY <2>6, <2>7
<1>2. PICK x \in S : \A y \in S : y <= x
  BY <1>1 DEF FiniteSubsetsOf
<1>3. \A y \in S : x >= y
  BY <1>2
<1>4. Max(S) \in S /\ \A y \in S : Max(S) >= y
  BY <1>3 DEF Max
<1> QED BY <1>4


(* A new request has a number above those of its kind that are under way. *)
LEMMA RequestIsLast ==
  ASSUME StudioTypes, NEW kind \in Kinds, NEW log \in LogIds, NEW f \in Filters
  PROVE  LET r == Request(kind, log, f) IN
           /\ r \in Messages
           /\ r.kind = kind /\ r.log = log /\ r.filter = f /\ r.logs = {} /\ r.tags = {}
           /\ r.at = "asked" /\ r.seen = {}
           /\ newest < r.n /\ \A s \in Pending(kind) : s.n < r.n
<1> DEFINE N == {newest} \cup {r.n : r \in Pending(kind)}
<1>1. N \in SUBSET Nat /\ N # {}
  BY DEF StudioTypes, Messages, Pending
<1>2. IsFiniteSet(N)
  <2>1. IsFiniteSet(Pending(kind))
    BY FS_Subset DEF Pending, StudioTypes
  <2> DEFINE P == Pending(kind)
             number == [r \in P |-> r.n]
  <2>2. number \in Surjection(P, {number[r] : r \in P})
    BY DEF Surjection
  <2> HIDE DEF P, number
  <2>3. IsFiniteSet({number[r] : r \in P})
    BY <2>1, <2>2, FS_Surjection DEF P
  <2>4. {number[r] : r \in P} = {r.n : r \in Pending(kind)}
    BY DEF P, number
  <2> QED BY <2>3, <2>4, FS_AddElement
<1>3. Max(N) \in N /\ \A y \in N : y <= Max(N)
  BY <1>1, <1>2, MaxIsHighest
<1>4. Max(N) \in Nat /\ newest <= Max(N) /\ \A s \in Pending(kind) : s.n <= Max(N)
  BY <1>1, <1>3
<1> DEFINE m == Max(N)
<1>5. Request(kind, log, f) =
        [n |-> 1 + m, kind |-> kind, log |-> log, filter |-> f,
         at |-> "asked", seen |-> {}, logs |-> {}, tags |-> {}]
  BY DEF Request
<1>6. m \in Nat /\ newest <= m /\ (\A s \in Pending(kind) : s.n \in Nat /\ s.n <= m)
      /\ newest \in Nat
  BY <1>4 DEF StudioTypes, Messages, Pending
<1> HIDE DEF m, N
<1> QED BY <1>5, <1>6 DEF Messages

(* Types *)

LEMMA LoadTypes ==
  ASSUME StudioTypes, NEW rest \in SUBSET net, NEW log \in LogIds, NEW f \in Filters,
         LoadCore(rest, log, f)
  PROVE  /\ net' \subseteq Messages /\ IsFiniteSet(net')
         /\ loading' \in BOOLEAN /\ error' \in BOOLEAN
<1>1. rest \subseteq Messages /\ IsFiniteSet(rest)
  BY FS_Subset DEF StudioTypes
<1>2. CASE log = NoLog
  BY <1>1, <1>2 DEF LoadCore, StudioTypes
<1>3. CASE log # NoLog
  <2>1. Request("core", log, f) \in Messages
    BY RequestIsLast DEF Kinds
  <2>2. net' = rest \cup {Request("core", log, f)} /\ loading' = TRUE /\ error' = FALSE
    BY <1>3 DEF LoadCore
  <2>3. IsFiniteSet(net')
    BY <1>1, <2>2, FS_AddElement
  <2> QED BY <1>1, <2>1, <2>2, <2>3
<1> QED BY <1>2, <1>3

(* One request less, and one more or the same one answered. *)
LEMMA NetTypes ==
  ASSUME StudioTypes, NEW r, NEW x,
         \/ net' = net
         \/ net' = net \ {r}
         \/ (net' = (net \ {r}) \cup {x} \/ net' = net \cup {x}) /\ x \in Messages
  PROVE  net' \subseteq Messages /\ IsFiniteSet(net')
<1>1. net \subseteq Messages /\ IsFiniteSet(net)
  BY DEF StudioTypes
<1>2. IsFiniteSet(net \ {r})
  BY <1>1, FS_RemoveElement
<1>3. IsFiniteSet((net \ {r}) \cup {x}) /\ IsFiniteSet(net \cup {x})
  BY <1>1, <1>2, FS_AddElement
<1> QED BY <1>1, <1>2, <1>3

(* A request that is served is the same one: of the batch another request is answered, or
   the last one, and of the events a page. *)
LEMMA ServedIsTheSame ==
  ASSUME StudioTypes, NEW r \in net, Serve(r) \/ PageArrives(r)
  PROVE  \E y \in Messages :
           /\ net' = (net \ {r}) \cup {y}
           /\ y.kind = r.kind /\ y.n = r.n /\ y.filter = r.filter /\ y.tags = r.tags
           /\ r.kind # "upload" => y.log = r.log
           /\ r.kind \in {"core", "events"} =>
                \/ r.log \in StudioLogs /\ y.seen = r.seen \cup {imports[r.log]}
                \/ y.at = "asked" /\ y.seen = r.seen
<1> DEFINE Same(y) ==
      /\ y.kind = r.kind /\ y.n = r.n /\ y.filter = r.filter /\ y.tags = r.tags
      /\ r.kind # "upload" => y.log = r.log
      /\ r.kind \in {"core", "events"} =>
           \/ r.log \in StudioLogs /\ y.seen = r.seen \cup {imports[r.log]}
           \/ y.at = "asked" /\ y.seen = r.seen
<1>1. r \in Messages
  BY DEF StudioTypes
<1>2. Live \in SUBSET StudioLogs /\ StudioLogs \subseteq LogIds
  BY DEF Live, LogIds
<1>3. ASSUME NEW at \in {"ok", "asked"}, r.log \in Live,
             Becomes(r, [r EXCEPT !.at = at, !.seen = @ \cup {imports[r.log]}])
      PROVE  \E y \in Messages : net' = (net \ {r}) \cup {y} /\ Same(y)
  <2> DEFINE y == [r EXCEPT !.at = at, !.seen = @ \cup {imports[r.log]}]
  <2>1. r.log \in StudioLogs /\ imports[r.log] \in Nat
    BY <1>2, <1>3 DEF StudioTypes
  <2>2. y \in Messages /\ Same(y)
    BY <1>1, <2>1 DEF Messages
  <2> QED BY <1>3, <2>2 DEF Becomes
<1>4. ASSUME r.kind = "list", Becomes(r, [r EXCEPT !.at = "ok", !.logs = Live])
      PROVE  \E y \in Messages : net' = (net \ {r}) \cup {y} /\ Same(y)
  <2> DEFINE y == [r EXCEPT !.at = "ok", !.logs = Live]
  <2>1. y \in Messages /\ Same(y)
    BY <1>1, <1>2, <1>4 DEF Messages
  <2> QED BY <1>4, <2>1 DEF Becomes
<1>5. ASSUME r.kind = "delete", Becomes(r, [r EXCEPT !.at = "ok"])
      PROVE  \E y \in Messages : net' = (net \ {r}) \cup {y} /\ Same(y)
  <2> DEFINE y == [r EXCEPT !.at = "ok"]
  <2>1. y \in Messages /\ Same(y)
    BY <1>1, <1>5 DEF Messages
  <2> QED BY <1>5, <2>1 DEF Becomes
<1>6. ASSUME NEW l \in StudioLogs, r.kind = "upload", Becomes(r, [r EXCEPT !.at = "ok", !.log = l])
      PROVE  \E y \in Messages : net' = (net \ {r}) \cup {y} /\ Same(y)
  <2> DEFINE y == [r EXCEPT !.at = "ok", !.log = l]
  <2>1. y \in Messages /\ Same(y)
    BY <1>1, <1>2, <1>6 DEF Messages
  <2> QED BY <1>6, <2>1 DEF Becomes
<1>7. ASSUME Becomes(r, [r EXCEPT !.at = "asked"])
      PROVE  \E y \in Messages : net' = (net \ {r}) \cup {y} /\ Same(y)
  <2> DEFINE y == [r EXCEPT !.at = "asked"]
  <2>1. y \in Messages /\ Same(y)
    BY <1>1 DEF Messages
  <2> QED BY <1>7, <2>1 DEF Becomes
<1>8. CASE Serve(r)
  BY <1>3, <1>4, <1>5, <1>6, <1>8 DEF Serve
<1>9. CASE PageArrives(r)
  BY <1>7, <1>9 DEF PageArrives
<1> QED BY <1>8, <1>9

(* A request that is sent is the last of its kind, and the others stay. *)
LEMMA SentIsPending ==
  ASSUME StudioTypes, NEW rest \in SUBSET net,
         NEW kind \in Kinds, NEW log \in LogIds, NEW f \in Filters,
         net' = rest \cup {Request(kind, log, f)}
  PROVE  /\ \A k \in Kinds \ {kind} : Pending(k)' = {r \in rest : r.kind = k}
         /\ Pending(kind)' = {r \in rest : r.kind = kind} \cup {Request(kind, log, f)}
<1>1. Request(kind, log, f).kind = kind
  BY RequestIsLast
<1> QED BY <1>1 DEF Pending

LEMMA TypesKeep ==
  ASSUME StudioTypes, StudioNext
  PROVE  StudioTypes'
<1>1. ASSUME NEW l \in StudioLogs, OpenLog(l) PROVE StudioTypes'
  <2>1. LoadCore(net, l, filter) /\ l \in LogIds /\ filter \in Filters
    BY <1>1 DEF OpenLog, StudioTypes, LogIds
  <2>2. net' \subseteq Messages /\ IsFiniteSet(net') /\ loading' \in BOOLEAN /\ error' \in BOOLEAN
    BY <2>1, LoadTypes
  <2> QED BY <1>1, <2>1, <2>2 DEF OpenLog, StudioTypes, server, data, chat
<1>2. ASSUME NEW f \in Filters, SetFilter(f) PROVE StudioTypes'
  <2>1. LoadCore(net, logId, f) /\ logId \in LogIds
    BY <1>2 DEF SetFilter, StudioTypes
  <2>2. net' \subseteq Messages /\ IsFiniteSet(net') /\ loading' \in BOOLEAN /\ error' \in BOOLEAN
    BY <2>1, LoadTypes
  <2> QED BY <1>2, <2>1, <2>2 DEF SetFilter, StudioTypes, server, data, chat
<1>3. CASE Boot \/ Upload \/ \E l \in StudioLogs : Remove(l)
  <2>1. PICK kind \in {"list", "upload", "delete"}, log \in LogIds :
          net' = net \cup {Request(kind, log, Plain)}
    BY <1>3 DEF Boot, Upload, Remove, LogIds
  <2>2. net' \subseteq Messages /\ IsFiniteSet(net')
    <3> DEFINE x == Request(kind, log, Plain)
    <3>1. x \in Messages
      BY RequestIsLast, StudioAssumption DEF Kinds
    <3> HIDE DEF x
    <3> QED BY <2>1, <3>1, NetTypes DEF x
  <2> QED BY <1>3, <2>2 DEF Boot, Upload, Remove, StudioTypes, Use, server, picked, shown, data, chat
<1>4. ASSUME NEW l \in StudioLogs, Imported(l) PROVE StudioTypes'
  <2>1. imports' \in [StudioLogs -> Nat]
    BY <1>4 DEF Imported, StudioTypes
  <2> QED BY <1>4, <2>1 DEF Imported, StudioTypes, picked, shown, data, chat, bounds
<1>5. ASSUME NEW r \in net, Serve(r) \/ PageArrives(r) PROVE StudioTypes'
  <2>2. PICK y \in Messages : net' = (net \ {r}) \cup {y}
    BY <1>5, ServedIsTheSame
  <2>3. net' \subseteq Messages /\ IsFiniteSet(net')
    BY <2>2, NetTypes
  <2>4. life' \in [StudioLogs -> {"unborn", "live", "gone"}]
    BY <1>5 DEF Serve, PageArrives, server, StudioTypes
  <2> QED BY <1>5, <2>3, <2>4 DEF Serve, PageArrives, StudioTypes, server, picked, shown, data, chat,
             bounds
<1>6. ASSUME NEW r \in net, CoreArrives(r) PROVE StudioTypes'
  <2>1. r \in Messages /\ raw \in Subjects /\ filter \in Filters
    BY DEF StudioTypes
  <2>2. net' \subseteq Messages /\ IsFiniteSet(net')
    <3> DEFINE x == Request("events", r.log, Plain)
    <3>1. x \in Messages
      BY <2>1, RequestIsLast, StudioAssumption DEF Kinds, Messages
    <3>2. net' = net \ {r} \/ net' = (net \ {r}) \cup {x}
      BY <1>6 DEF CoreArrives
    <3> HIDE DEF x
    <3> QED BY <3>1, <3>2, NetTypes
  <2>3. Of(r) \in Subjects /\ About(r) \in Subjects /\ Refiltered(raw) \in Subjects /\ r.n \in Nat
    BY <2>1, StudioAssumption DEF Of, About, None, Refiltered, Subjects, Messages
  <2>4. figures' \in Subjects /\ analyst' \in Subjects /\ cases' \in Subjects
    BY <1>6, <2>3 DEF CoreArrives, StudioTypes
  <2>5. newest' \in Nat
    BY <1>6, <2>3 DEF CoreArrives, StudioTypes
  <2>6. loading' \in BOOLEAN
    BY <1>6 DEF CoreArrives, StudioTypes
  <2> QED BY <1>6, <2>2, <2>4, <2>5, <2>6 DEF CoreArrives, StudioTypes, server, picked, chat, bounds
<1>7. ASSUME NEW r \in net, CoreFails(r) \/ EventsFail(r) PROVE StudioTypes'
  <2>1. net' \subseteq Messages /\ IsFiniteSet(net')
    BY <1>7, NetTypes DEF CoreFails, EventsFail, Fails
  <2> QED BY <1>7, <2>1 DEF CoreFails, EventsFail, StudioTypes, server, picked, data, chat
<1>8. ASSUME NEW r \in net, EventsArrive(r) PROVE StudioTypes'
  <2>1. r \in Messages /\ filter \in Filters
    BY DEF StudioTypes
  <2>2. net' \subseteq Messages /\ IsFiniteSet(net')
    BY <1>8, NetTypes DEF EventsArrive
  <2>3. Of(r) \in Subjects /\ Refiltered(Of(r)) \in Subjects
    BY <2>1, StudioAssumption DEF Of, Refiltered, Subjects, Messages
  <2> QED BY <1>8, <2>2, <2>3 DEF EventsArrive, StudioTypes, server, picked, chat, bounds
<1>9. ASSUME NEW r \in net, ListArrives(r) PROVE StudioTypes'
  <2>1. r \in Messages /\ r.logs \subseteq StudioLogs
    BY DEF StudioTypes, Messages
  <2>2. logId' \in LogIds /\ LoadCore(net \ {r}, logId', filter) /\ filter \in Filters
    BY <1>9, <2>1 DEF ListArrives, LogIds, StudioTypes
  <2>3. net' \subseteq Messages /\ IsFiniteSet(net') /\ loading' \in BOOLEAN /\ error' \in BOOLEAN
    BY <2>2, LoadTypes
  <2> QED BY <1>9, <2>1, <2>2, <2>3 DEF ListArrives, StudioTypes, server, data, chat, bounds
<1>10. ASSUME NEW r \in net, ListFails(r) PROVE StudioTypes'
  <2>1. net' \subseteq Messages /\ IsFiniteSet(net')
    BY <1>10, NetTypes DEF ListFails, Fails
  <2> QED BY <1>10, <2>1 DEF ListFails, StudioTypes, LogIds, server, data, chat
<1>11. ASSUME NEW r \in net, Uploaded(r) \/ Removed(r) PROVE StudioTypes'
  <2>1. r \in Messages /\ r.log \in LogIds
    BY DEF StudioTypes, Messages
  <2>2. net' \subseteq Messages /\ IsFiniteSet(net')
    <3> DEFINE x == Request("list", NoLog, Plain)
    <3>1. x \in Messages
      BY RequestIsLast, StudioAssumption DEF Kinds, LogIds
    <3>2. net' = (net \ {r}) \cup {x}
      BY <1>11 DEF Uploaded, Removed
    <3> HIDE DEF x
    <3> QED BY <3>1, <3>2, NetTypes
  <2>3. None \in Subjects
    BY StudioAssumption DEF None, Subjects, LogIds
  <2> QED BY <1>11, <2>1, <2>2, <2>3 DEF Uploaded, Removed, StudioTypes, LogIds, server, picked, shown,
             data, chat, bounds
<1>12. ASSUME NEW r \in net, Refused(r) PROVE StudioTypes'
  <2>1. net' \subseteq Messages /\ IsFiniteSet(net')
    BY <1>12, NetTypes DEF Refused, Fails
  <2> QED BY <1>12, <2>1 DEF Refused, StudioTypes, server, picked, shown, data, chat
<1>13. ASSUME NEW r \in net, Narrated(r) PROVE StudioTypes'
  <2>1. r \in Messages /\ About(r) \in Subjects
    BY DEF StudioTypes, About, None, Subjects, Messages
  <2>2. net' \subseteq Messages /\ IsFiniteSet(net')
    BY <1>13, NetTypes DEF Narrated
  <2> QED BY <1>13, <2>1, <2>2 DEF Narrated, StudioTypes, server, picked, chat, bounds
<1>14. ASSUME NEW r \in net, Replied(r) PROVE StudioTypes'
  <2>1. r \in Messages /\ r.log \in LogIds
    BY DEF StudioTypes, Messages
  <2>2. net' \subseteq Messages /\ IsFiniteSet(net')
    BY <1>14, NetTypes DEF Replied
  <2> QED BY <1>14, <2>1, <2>2 DEF Replied, StudioTypes, server, picked, shown, data, bounds
<1>15. CASE Narrate
  <2>1. net' \subseteq Messages /\ IsFiniteSet(net')
    <3> DEFINE x == Request("narration", logId, filter)
    <3>1. x \in Messages
      BY RequestIsLast DEF Kinds, StudioTypes
    <3>2. net' = net \cup {x}
      BY <1>15 DEF Narrate
    <3> HIDE DEF x
    <3> QED BY <3>1, <3>2, NetTypes
  <2> QED BY <1>15, <2>1 DEF Narrate, StudioTypes, server, picked, shown, data, chat, bounds
<1>16. CASE AskAssistant
  <2>1. Kept \subseteq LogIds /\ logId \in LogIds
    BY DEF Kept, StudioTypes
  <2>2. net' \subseteq Messages /\ IsFiniteSet(net')
    <3> DEFINE q == Request("chat", logId, Plain)
               x == [q EXCEPT !.tags = Kept]
    <3>1. q \in Messages
      BY <2>1, RequestIsLast, StudioAssumption DEF Kinds
    <3> HIDE DEF q
    <3>2. x \in Messages
      BY <2>1, <3>1 DEF Messages
    <3>3. net' = net \cup {x}
      BY <1>16 DEF AskAssistant, q
    <3> HIDE DEF x
    <3> QED BY <3>2, <3>3, NetTypes
  <2> QED BY <1>16, <2>1, <2>2 DEF AskAssistant, StudioTypes, Use, server, picked, shown, data
<1>17. CASE Go \/ ClearChat
  BY <1>17 DEF Go, ClearChat, StudioTypes, Use, server, picked, shown, data, chat
<1> QED BY <1>1, <1>2, <1>3, <1>4, <1>5, <1>6, <1>7, <1>8, <1>9, <1>10, <1>11, <1>12, <1>13, <1>14,
           <1>15, <1>16, <1>17 DEF StudioNext

LEMMA ConversationKeeps ==
  ASSUME StudioTypes, Conversation, StudioNext
  PROVE  Conversation'
<1>1. CASE AskAssistant
  <2> DEFINE q == Request("chat", logId, Plain)
             x == [q EXCEPT !.tags = Kept]
  <2>1. q \in Messages /\ q.kind = "chat" /\ q.log = logId
    BY RequestIsLast, StudioAssumption DEF Kinds, StudioTypes
  <2>2. x.log = logId /\ x.tags = Kept
    BY <2>1 DEF Messages
  <2>3. net' = net \cup {x} /\ ~chatBusy /\ chatBusy' /\ chatLog' = logId /\ turns' = Kept \cup {logId}
    BY <1>1 DEF AskAssistant
  <2> HIDE DEF x
  <2>4. Pending("chat") = {}
    BY <2>3 DEF Conversation, HistoryIsOfTheLog, Pending
  <2>5. Pending("chat")' \subseteq {x}
    BY <2>3, <2>4 DEF Pending
  <2>6. Kept \subseteq {logId}
    BY DEF Kept, Conversation
  <2> QED BY <2>2, <2>3, <2>5, <2>6 DEF Conversation, HistoryIsOfTheLog
<1>2. ASSUME NEW r \in net, Replied(r) PROVE Conversation'
  BY <1>2 DEF Replied, Conversation, HistoryIsOfTheLog, Pending
<1>3. ASSUME NEW r \in net, Serve(r) \/ PageArrives(r) PROVE Conversation'
  <2>1. UNCHANGED <<turns, chatLog, chatBusy>>
    BY <1>3 DEF Serve, PageArrives, chat
  <2>2. PICK y \in Messages : net' = (net \ {r}) \cup {y} /\ y.kind = r.kind /\ y.tags = r.tags
                               /\ (r.kind # "upload" => y.log = r.log)
    BY <1>3, ServedIsTheSame
  <2> QED BY <2>1, <2>2 DEF Conversation, HistoryIsOfTheLog, Pending
<1>4. ASSUME UNCHANGED <<turns, chatLog, chatBusy>>, Pending("chat")' \subseteq Pending("chat")
      PROVE  Conversation'
  BY <1>4 DEF Conversation, HistoryIsOfTheLog
<1>5. CASE ClearChat
  BY <1>5 DEF ClearChat, Conversation, HistoryIsOfTheLog, Pending
<1>6. ASSUME UNCHANGED <<turns, chatLog, chatBusy>>,
             NEW rest \in SUBSET net, NEW kind \in Kinds \ {"chat"}, NEW log \in LogIds,
             NEW f \in Filters, net' = rest \cup {Request(kind, log, f)}
      PROVE  Conversation'
  <2>1. "chat" \in Kinds \ {kind} /\ kind \in Kinds
    BY DEF Kinds
  <2>2. Pending("chat")' = {r \in rest : r.kind = "chat"}
    BY <1>6, <2>1, SentIsPending
  <2>3. Pending("chat")' \subseteq Pending("chat")
    BY <2>2 DEF Pending
  <2> QED BY <1>4, <1>6, <2>3
<1>7. ASSUME NEW rest \in SUBSET net, NEW log \in LogIds, LoadCore(rest, log, filter'),
             UNCHANGED <<turns, chatLog, chatBusy>>, filter' \in Filters
      PROVE  Conversation'
  <2>1. CASE log = NoLog
    BY <1>4, <1>7, <2>1 DEF LoadCore, Pending
  <2>2. CASE log # NoLog
    BY <1>6, <1>7, <2>2 DEF LoadCore, Kinds
  <2> QED BY <2>1, <2>2
<1>8. CASE \/ \E l \in StudioLogs : OpenLog(l)
           \/ \E f \in Filters : SetFilter(f)
           \/ \E r \in net : ListArrives(r)
  <2>1. PICK rest \in SUBSET net, log \in LogIds : LoadCore(rest, log, filter')
    <3>1. CASE \E l \in StudioLogs : OpenLog(l)
      BY <3>1 DEF OpenLog, LogIds
    <3>2. CASE \E f \in Filters : SetFilter(f)
      BY <3>2 DEF SetFilter, StudioTypes
    <3>3. ASSUME NEW r \in net, ListArrives(r)
          PROVE  \E rest \in SUBSET net, log \in LogIds : LoadCore(rest, log, filter')
      <4>1. LoadCore(net \ {r}, logId', filter) /\ filter' = filter
        BY <3>3 DEF ListArrives
      <4>2. logId' \in LogIds
        BY <3>3 DEF ListArrives, StudioTypes, Messages, LogIds
      <4> QED BY <4>1, <4>2
    <3> QED BY <1>8, <3>1, <3>2, <3>3
  <2>2. UNCHANGED <<turns, chatLog, chatBusy>> /\ filter' \in Filters
    BY <1>8 DEF OpenLog, SetFilter, ListArrives, chat, StudioTypes
  <2> QED BY <1>7, <2>1, <2>2
<1>9. CASE Boot \/ Upload \/ Narrate \/ \E l \in StudioLogs : Remove(l)
  <2>1. PICK kind \in Kinds \ {"chat"}, log \in LogIds, f \in Filters :
          net' = net \cup {Request(kind, log, f)}
    BY <1>9, StudioAssumption DEF Boot, Upload, Narrate, Remove, Kinds, LogIds, StudioTypes
  <2>2. UNCHANGED <<turns, chatLog, chatBusy>>
    BY <1>9 DEF Boot, Upload, Narrate, Remove, chat
  <2> QED BY <1>6, <2>1, <2>2
<1>10. ASSUME NEW r \in net, Uploaded(r) \/ Removed(r) PROVE Conversation'
  <2>1. net' = (net \ {r}) \cup {Request("list", NoLog, Plain)} /\ UNCHANGED <<turns, chatLog, chatBusy>>
    BY <1>10 DEF Uploaded, Removed, chat
  <2> QED BY <1>6, <2>1, StudioAssumption DEF Kinds, LogIds
<1>11. ASSUME NEW r \in net, CoreArrives(r) PROVE Conversation'
  <2>1. r.log \in LogIds
    BY DEF StudioTypes, Messages
  <2>2. UNCHANGED <<turns, chatLog, chatBusy>>
        /\ (net' = net \ {r} \/ net' = (net \ {r}) \cup {Request("events", r.log, Plain)})
    BY <1>11 DEF CoreArrives, chat
  <2>3. CASE net' = net \ {r}
    BY <1>4, <2>2, <2>3 DEF Pending
  <2> QED BY <1>6, <2>1, <2>2, <2>3, StudioAssumption DEF Kinds
<1>12. ASSUME NEW r \in net,
              \/ CoreFails(r) \/ EventsArrive(r) \/ EventsFail(r) \/ ListFails(r) \/ Refused(r)
              \/ Narrated(r)
       PROVE  Conversation'
  <2>1. UNCHANGED <<turns, chatLog, chatBusy>> /\ net' = net \ {r}
    BY <1>12 DEF CoreFails, EventsArrive, EventsFail, ListFails, Refused, Narrated, Fails, chat
  <2> QED BY <1>4, <2>1 DEF Pending
<1>13. CASE Go \/ \E l \in StudioLogs : Imported(l)
  BY <1>4, <1>13 DEF Go, Imported, Pending, chat
<1> QED BY <1>1, <1>2, <1>3, <1>5, <1>8, <1>9, <1>10, <1>11, <1>12, <1>13 DEF StudioNext

(* The screen *)

(* Nothing on the screen changes, and no figures are asked for or come. *)
LEMMA ScreenStands ==
  ASSUME Screen, FiguresAreOfTheLog,
         UNCHANGED <<logId, filter, loading, error, figures, newest, analyst, cases>>,
         excused \subseteq excused',
         Pending("core")' = Pending("core"), Pending("events") \subseteq Pending("events")',
         Pending("list") # {} => Pending("list")' # {}
  PROVE  Screen' /\ FiguresAreOfTheLog'
<1>1. Asked => Asked'
  BY DEF Asked
<1>2. Brought => Brought'
  BY DEF Brought, Listed
<1> QED BY <1>1, <1>2 DEF Screen, FiguresAreOfTheLog

(* loadCore asks for the figures last. *)
LEMMA LoadAsks ==
  ASSUME StudioTypes, Screen, FiguresAreOfTheLog,
         NEW rest \in SUBSET net, LoadCore(rest, logId', filter'), logId' \in LogIds,
         filter' \in Filters, UNCHANGED <<figures, newest, excused>>
  PROVE  Screen' /\ FiguresAreOfTheLog'
<1>1. CASE logId' = NoLog
  BY <1>1 DEF LoadCore, Screen, FiguresAreOfTheLog
<1>2. CASE logId' # NoLog
  <2> DEFINE x == Request("core", logId', filter')
  <2>1. /\ x.log = logId' /\ x.filter = filter' /\ newest < x.n
        /\ \A s \in Pending("core") : s.n < x.n
    BY RequestIsLast DEF Kinds
  <2>2. net' = rest \cup {x} /\ loading' = TRUE /\ error' = FALSE
    BY <1>2 DEF LoadCore
  <2>3. "core" \in Kinds
    BY DEF Kinds
  <2>4. Pending("core")' = {r \in rest : r.kind = "core"} \cup {x}
    BY <2>2, <2>3, SentIsPending
  <2> HIDE DEF x
  <2>5. {r \in rest : r.kind = "core"} \subseteq Pending("core")
    BY DEF Pending
  <2>6. Asked' /\ \E r \in Pending("core")' : r.log = logId'
    BY <2>1, <2>4, <2>5 DEF Asked
  <2> QED BY <2>2, <2>6 DEF Screen, FiguresAreOfTheLog
<1> QED BY <1>1, <1>2

LEMMA ScreenKeeps ==
  ASSUME StudioTypes, Screen, FiguresAreOfTheLog, StudioNext
  PROVE  Screen' /\ FiguresAreOfTheLog'
<1>1. CASE \/ \E l \in StudioLogs : OpenLog(l)
           \/ \E f \in Filters : SetFilter(f)
           \/ \E r \in net : ListArrives(r)
  <2>1. UNCHANGED <<figures, newest, excused>>
    BY <1>1 DEF OpenLog, SetFilter, ListArrives, data
  <2>2. PICK rest \in SUBSET net : LoadCore(rest, logId', filter')
    BY <1>1 DEF OpenLog, SetFilter, ListArrives
  <2>3. logId' \in LogIds /\ filter' \in Filters
    BY TypesKeep DEF StudioTypes
  <2> QED BY <2>1, <2>2, <2>3, LoadAsks
<1>2. ASSUME UNCHANGED <<picked, shown, excused>>, NEW rest \in SUBSET net,
             NEW kind \in Kinds \ {"core"}, NEW log \in LogIds, NEW f \in Filters,
             NEW x, net' = net \cup {x}, x.kind = kind
      PROVE  Screen' /\ FiguresAreOfTheLog'
  <2>1. /\ Pending("core")' = Pending("core") /\ Pending("events") \subseteq Pending("events")'
        /\ Pending("list") # {} => Pending("list")' # {}
    BY <1>2 DEF Pending
  <2> QED BY <1>2, <2>1, ScreenStands DEF picked, shown, data
<1>3. CASE Boot \/ Upload \/ Narrate \/ AskAssistant \/ \E l \in StudioLogs : Remove(l)
  <2>1. PICK kind \in {"list", "upload", "narration", "chat", "delete"}, log \in LogIds, f \in Filters :
          \/ net' = net \cup {Request(kind, log, f)}
          \/ net' = net \cup {[Request(kind, log, f) EXCEPT !.tags = Kept]}
    BY <1>3, StudioAssumption DEF Boot, Upload, Narrate, AskAssistant, Remove, LogIds, StudioTypes
  <2>2. kind \in Kinds \ {"core"}
    BY DEF Kinds
  <2> DEFINE q == Request(kind, log, f)
  <2>3. q \in Messages /\ q.kind = kind
    BY <2>2, RequestIsLast
  <2> HIDE DEF q
  <2>4. [q EXCEPT !.tags = Kept].kind = kind
    BY <2>3 DEF Messages
  <2>5. UNCHANGED <<picked, shown, excused>>
    BY <1>3 DEF Boot, Upload, Narrate, AskAssistant, Remove
  <2> QED BY <1>2, <2>1, <2>2, <2>3, <2>4, <2>5 DEF q
<1>4. CASE Go \/ ClearChat \/ \E l \in StudioLogs : Imported(l)
  BY <1>4, ScreenStands DEF Go, ClearChat, Imported, Pending, picked, shown, data
<1>5. ASSUME NEW r \in net, net' = net \ {r}, r.kind \notin {"core", "events", "list"},
             UNCHANGED <<picked, shown, excused>>
      PROVE  Screen' /\ FiguresAreOfTheLog'
  <2>1. /\ Pending("core")' = Pending("core") /\ Pending("events") \subseteq Pending("events")'
        /\ Pending("list") # {} => Pending("list")' # {}
    BY <1>5 DEF Pending
  <2> QED BY <1>5, <2>1, ScreenStands DEF picked, shown, data
<1>6. ASSUME NEW r \in net, Refused(r) \/ Replied(r) PROVE Screen' /\ FiguresAreOfTheLog'
  BY <1>5, <1>6 DEF Refused, Replied, Fails
<1>7. ASSUME NEW r \in net, Narrated(r) PROVE Screen' /\ FiguresAreOfTheLog'
  <2>1. /\ Pending("core")' = Pending("core") /\ Pending("events")' = Pending("events")
        /\ Pending("list")' = Pending("list")
        /\ UNCHANGED <<logId, filter, loading, error, figures, newest, cases>>
    BY <1>7 DEF Narrated, Pending, picked
  <2>2. ASSUME excused' = {}
        PROVE  analyst' = analyst \/ (analyst'.log = logId /\ analyst'.filter = filter)
    <3>1. analyst' = analyst \/ (analyst' = About(r) /\ r.log = logId /\ r.filter = filter)
      BY <1>7, <2>2 DEF Narrated
    <3> QED BY <3>1 DEF About, None
  <2>3. excused \subseteq excused'
    BY <1>7 DEF Narrated
  <2>4. FiguresAreOfTheLog'
    BY <2>1, <2>3 DEF FiguresAreOfTheLog
  <2>5. Asked => Asked'
    BY <2>1 DEF Asked
  <2>6. excused' = {} /\ Brought => Brought'
    BY <2>1, <2>2 DEF Brought, Listed
  <2> QED BY <2>1, <2>3, <2>4, <2>5, <2>6 DEF Screen
<1>8. ASSUME NEW r \in net, Serve(r) \/ PageArrives(r) PROVE Screen' /\ FiguresAreOfTheLog'
  <2>1. UNCHANGED <<logId, filter, loading, error, figures, newest, analyst, cases, excused>>
    BY <1>8 DEF Serve, PageArrives, picked, shown, data
  <2>2. PICK y \in Messages : /\ net' = (net \ {r}) \cup {y}
                              /\ y.kind = r.kind /\ y.n = r.n /\ y.filter = r.filter
                              /\ r.kind # "upload" => y.log = r.log
    BY <1>8, ServedIsTheSame
  <2>3. Pending("list") # {} => Pending("list")' # {}
    BY <2>2 DEF Pending
  <2>4. ASSUME NEW k \in {"core", "events"}, NEW s \in Pending(k)
        PROVE  \E z \in Pending(k)' : z.n = s.n /\ z.log = s.log /\ z.filter = s.filter
    BY <2>2, <2>4 DEF Pending
  <2>5. ASSUME NEW s \in Pending("core")'
        PROVE  \E z \in Pending("core") : z.n = s.n
    BY <2>2, <2>5 DEF Pending
  <2>6. Asked => Asked'
    <3>1. SUFFICES ASSUME NEW q \in Pending("core"), q.log = logId, q.filter = filter,
                          newest < q.n, \A s \in Pending("core") \ {q} : s.n < q.n
                   PROVE  Asked'
      BY DEF Asked
    <3>2. CASE q # r
      <4>1. q \in Pending("core")'
        BY <2>2, <3>2 DEF Pending
      <4>2. \A s \in Pending("core")' \ {q} : s.n < q.n
        BY <2>2, <3>1, <3>2 DEF Pending
      <4> QED BY <2>1, <3>1, <4>1, <4>2 DEF Asked
    <3>3. CASE q = r
      <4>1. y \in Pending("core")' /\ y.log = q.log /\ y.filter = q.filter /\ y.n = q.n
        BY <2>2, <3>3 DEF Pending
      <4>2. \A s \in Pending("core")' \ {y} : s.n < q.n
        BY <2>2, <3>1, <3>3 DEF Pending
      <4> QED BY <2>1, <3>1, <4>1, <4>2 DEF Asked
    <3> QED BY <3>2, <3>3
  <2>7. Listed => Listed'
    BY <2>1, <2>4 DEF Listed
  <2>8. (\A s \in Pending("core") : s.n < newest) => (\A s \in Pending("core")' : s.n < newest)
    BY <2>5
  <2>9. Brought => Brought'
    BY <2>1, <2>7, <2>8 DEF Brought
  <2>10. FiguresAreOfTheLog'
    BY <2>1, <2>3, <2>4 DEF FiguresAreOfTheLog
  <2> QED BY <2>1, <2>3, <2>6, <2>9, <2>10 DEF Screen
<1>9. ASSUME NEW r \in net, CoreFails(r) \/ EventsFail(r) \/ ListFails(r)
      PROVE  Screen' /\ FiguresAreOfTheLog'
  <2>1. excused' # {}
    BY <1>9 DEF CoreFails, EventsFail, ListFails
  <2>2. FiguresAreOfTheLog'
    <3>1. CASE CoreFails(r)
      <4>1. /\ error' = TRUE /\ excused' = excused \cup {<<"failed", r.log>>} /\ net' = net \ {r}
            /\ UNCHANGED <<logId, figures>> /\ r.kind = "core"
        BY <3>1 DEF CoreFails, Fails, picked, data
      <4>2. \A s \in Pending("core") : s \in Pending("core")' \/ s = r
        BY <4>1 DEF Pending
      <4>3. Pending("list")' = Pending("list")
        BY <4>1 DEF Pending
      <4> QED BY <4>1, <4>2, <4>3 DEF FiguresAreOfTheLog
    <3>2. CASE EventsFail(r)
      <4>1. /\ error' = TRUE /\ excused \subseteq excused' /\ net' = net \ {r}
            /\ UNCHANGED <<logId, figures>> /\ r.kind = "events"
        BY <3>2 DEF EventsFail, Fails, picked, data
      <4>2. Pending("core")' = Pending("core") /\ Pending("list")' = Pending("list")
        BY <4>1 DEF Pending
      <4> QED BY <4>1, <4>2 DEF FiguresAreOfTheLog
    <3>3. CASE ListFails(r)
      BY <3>3 DEF ListFails, FiguresAreOfTheLog, data
    <3> QED BY <1>9, <3>1, <3>2, <3>3
  <2> QED BY <2>1, <2>2 DEF Screen
<1>10. ASSUME NEW r \in net, Uploaded(r) \/ Removed(r) PROVE Screen' /\ FiguresAreOfTheLog'
  <2>1. net' = (net \ {r}) \cup {Request("list", NoLog, Plain)} /\ UNCHANGED <<error, excused>>
    BY <1>10 DEF Uploaded, Removed, shown
  <2>2. Request("list", NoLog, Plain).kind = "list"
    BY RequestIsLast, StudioAssumption DEF Kinds, LogIds
  <2>3. Pending("list")' # {}
    BY <2>1, <2>2 DEF Pending
  <2> QED BY <2>1, <2>3 DEF Screen, FiguresAreOfTheLog
<1>11. ASSUME NEW r \in net, EventsArrive(r) PROVE Screen' /\ FiguresAreOfTheLog'
  <2>1. /\ net' = net \ {r} /\ r.kind = "events"
        /\ UNCHANGED <<logId, filter, loading, error, figures, newest, analyst>>
    BY <1>11 DEF EventsArrive, picked
  <2>2. Pending("core")' = Pending("core") /\ Pending("list")' = Pending("list")
    BY <2>1 DEF Pending
  <2>3. excused \subseteq excused'
    BY <1>11 DEF EventsArrive
  <2>4. FiguresAreOfTheLog'
    BY <2>1, <2>2, <2>3 DEF FiguresAreOfTheLog
  <2>5. ASSUME Listed PROVE Listed'
    <3>1. CASE r.log = logId
      <4>1. cases' = Refiltered(Of(r))
        BY <1>11, <3>1 DEF EventsArrive, StillOpen
      <4>2. cases'.log = logId /\ cases'.filter = Local[filter]
        BY <3>1, <4>1 DEF Refiltered, Of
      <4> QED BY <2>1, <4>2 DEF Listed
    <3>2. CASE r.log # logId
      <4>1. cases' = cases
        BY <1>11, <3>2 DEF EventsArrive, StillOpen
      <4> QED BY <2>1, <2>5, <3>2, <4>1 DEF Listed, Pending
    <3> QED BY <3>1, <3>2
  <2>6. Asked => Asked'
    BY <2>1, <2>2 DEF Asked
  <2>7. excused' = {} /\ Brought => Brought'
    BY <2>1, <2>2, <2>5 DEF Brought
  <2> QED BY <2>1, <2>2, <2>3, <2>4, <2>6, <2>7 DEF Screen
<1>12. ASSUME NEW r \in net, CoreArrives(r) PROVE Screen' /\ FiguresAreOfTheLog'
  <2>1. r \in Messages /\ r.kind = "core" /\ r \in Pending("core") /\ excused \subseteq excused'
        /\ UNCHANGED <<logId, filter, error>>
    BY <1>12 DEF StudioTypes, CoreArrives, Pending, picked
  <2>2. CASE r.log # logId
    <3>1. net' = net \ {r} /\ UNCHANGED <<loading, figures, newest, analyst, cases, excused>>
      BY <1>12, <2>2 DEF CoreArrives, StillOpen
    <3>2. Pending("core")' = Pending("core") \ {r} /\ Pending("list")' = Pending("list")
          /\ Pending("events")' = Pending("events")
      BY <2>1, <3>1 DEF Pending
    <3>3. Asked => Asked'
      BY <2>1, <2>2, <3>1, <3>2 DEF Asked
    <3>4. Brought => Brought'
      BY <2>1, <3>1, <3>2 DEF Brought, Listed
    <3>5. FiguresAreOfTheLog'
      BY <2>1, <2>2, <3>1, <3>2 DEF FiguresAreOfTheLog
    <3> QED BY <2>1, <3>1, <3>2, <3>3, <3>4, <3>5 DEF Screen
  <2>3. CASE r.log = logId
    <3>1. /\ figures' = Of(r) /\ analyst' = About(r) /\ loading' = FALSE
          /\ newest' = IF Pending("core") = {r} THEN 0 ELSE r.n
          /\ Older(r) => excused' # {}
          /\ IF raw.log = r.log
             THEN cases' = Refiltered(raw) /\ net' = net \ {r}
             ELSE net' = (net \ {r}) \cup {Request("events", r.log, Plain)}
      BY <1>12, <2>3 DEF CoreArrives, StillOpen
    <3>2. /\ figures'.log = logId /\ figures'.filter = r.filter
          /\ analyst'.log = logId /\ analyst'.filter = r.filter
      BY <2>3, <3>1 DEF Of, About, None
    <3>3. FiguresAreOfTheLog'
      BY <2>1, <3>2 DEF FiguresAreOfTheLog
    <3> DEFINE e == Request("events", r.log, Plain)
    <3>4. e.kind = "events" /\ e.log = r.log
      BY <2>1, RequestIsLast, StudioAssumption DEF Kinds, Messages
    <3>5. net' = net \ {r} \/ net' = (net \ {r}) \cup {e}
      BY <3>1
    <3> HIDE DEF e
    <3>6. /\ Pending("core")' = Pending("core") \ {r} /\ Pending("list")' = Pending("list")
          /\ Pending("events") \subseteq Pending("events")'
      BY <2>1, <3>4, <3>5 DEF Pending
    <3>7. \A s \in Pending("core") : s.n \in Nat
      BY DEF Pending, StudioTypes, Messages
    <3>8. ASSUME NEW q \in Pending("core"), q # r, q.log = logId, q.filter = filter,
                 newest < q.n, \A s \in Pending("core") \ {q} : s.n < q.n
          PROVE  Asked'
      <4>1. newest' < q.n
        BY <2>1, <3>1, <3>7, <3>8
      <4> QED BY <2>1, <3>6, <3>8, <4>1 DEF Asked
    <3>9. ASSUME excused' = {}, r.filter = filter PROVE Listed'
      <4>1. CASE raw.log = r.log
        <5>1. cases' = [raw EXCEPT !.filter = Local[filter]]
          BY <3>1, <3>9, <4>1 DEF Refiltered
        <5>2. cases'.log = logId /\ cases'.filter = Local[filter]
          <6>1. raw \in Subjects
            BY DEF StudioTypes
          <6> QED BY <2>3, <4>1, <5>1, <6>1 DEF Subjects
        <5> QED BY <2>1, <5>2 DEF Listed
      <4>2. CASE raw.log # r.log
        <5>1. e \in Pending("events")'
          BY <3>1, <3>4, <4>2 DEF Pending, e
        <5> QED BY <2>1, <2>3, <3>4, <5>1 DEF Listed
      <4> QED BY <4>1, <4>2
    <3>10. ASSUME excused' = {}, r.filter = filter, \A s \in Pending("core") \ {r} : s.n < r.n
           PROVE  Brought'
      <4>1. \A s \in Pending("core")' : s.n < newest'
        <5>1. CASE Pending("core") = {r}
          BY <3>6, <5>1
        <5>2. CASE Pending("core") # {r}
          BY <3>1, <3>6, <3>10, <5>2
        <5> QED BY <5>1, <5>2
      <4> QED BY <2>1, <3>1, <3>2, <3>9, <3>10, <4>1 DEF Brought
    <3>11. excused' = {} => ~Brought
      BY <2>1, <2>3, <3>1 DEF Brought, Older
    <3>12. excused' = {} /\ Asked => Asked' \/ Brought'
      BY <3>8, <3>10 DEF Asked
    <3> QED BY <2>1, <3>3, <3>6, <3>11, <3>12 DEF Screen
  <2> QED BY <2>2, <2>3
<1> QED BY <1>1, <1>3, <1>4, <1>6, <1>7, <1>8, <1>9, <1>10, <1>11, <1>12 DEF StudioNext

(* What is there and what is coming of a log *)

(* The page gets nothing new, and nothing is imported; what is asked for has met nothing. *)
LEMMA FreshStands ==
  ASSUME Fresh, excused \subseteq excused', UNCHANGED imports,
         UNCHANGED <<figures, cases>> \/ (figures' = None /\ cases' = None),
         UNCHANGED raw,
         \A s \in Coming' : s \in Coming \/ (s.at = "asked" /\ s.seen = {})
  PROVE  Fresh'
<1> SUFFICES ASSUME excused' = {} PROVE Fresh'
  BY DEF Fresh
<1>1. excused = {} /\ None.log = NoLog /\ NoLog \notin StudioLogs
  BY StudioAssumption DEF None
<1>2. \A s \in Coming' : UpToDate(s)'
  BY <1>1 DEF Fresh, UpToDate
<1>3. \A x \in {figures', raw'} : x.log \in StudioLogs => x.seen = {imports'[x.log]}
  BY <1>1 DEF Fresh
<1>4. cases'.log # NoLog => cases'.log = raw'.log /\ cases'.seen = raw'.seen
  BY <1>1 DEF Fresh
<1> QED BY <1>2, <1>3, <1>4 DEF Fresh

LEMMA FreshKeeps ==
  ASSUME StudioTypes, Fresh, StudioNext
  PROVE  Fresh'
<1>1. ASSUME UNCHANGED <<imports, figures, raw, cases>>, excused \subseteq excused',
             NEW rest \in SUBSET net, NEW x, net' = rest \cup {x},
             (x.at = "asked" /\ x.seen = {}) \/ x.kind \notin {"core", "events"}
      PROVE  Fresh'
  <2>1. \A s \in Coming' : s \in Coming \/ (s.at = "asked" /\ s.seen = {})
    BY <1>1 DEF Coming, Pending
  <2> QED BY <1>1, <2>1, FreshStands
<1>2. ASSUME UNCHANGED <<imports, figures, raw, cases>>, excused \subseteq excused',
             net' \subseteq net
      PROVE  Fresh'
  <2>1. Coming' \subseteq Coming
    BY <1>2 DEF Coming, Pending
  <2> QED BY <1>2, <2>1, FreshStands
<1>3. CASE \/ \E l \in StudioLogs : OpenLog(l)
           \/ \E f \in Filters : SetFilter(f)
           \/ \E r \in net : ListArrives(r)
  <2>1. UNCHANGED <<imports, figures, raw, cases, excused>>
    BY <1>3 DEF OpenLog, SetFilter, ListArrives, server, data
  <2>2. PICK rest \in SUBSET net : LoadCore(rest, logId', filter')
    BY <1>3 DEF OpenLog, SetFilter, ListArrives
  <2>3. logId' \in LogIds /\ filter' \in Filters
    BY TypesKeep DEF StudioTypes
  <2>4. CASE logId' = NoLog
    BY <1>2, <2>1, <2>2, <2>4 DEF LoadCore
  <2>5. CASE logId' # NoLog
    <3> DEFINE x == Request("core", logId', filter')
    <3>1. x.at = "asked" /\ x.seen = {}
      BY <2>3, RequestIsLast DEF Kinds
    <3>2. net' = rest \cup {x}
      BY <2>2, <2>5 DEF LoadCore
    <3> HIDE DEF x
    <3> QED BY <1>1, <2>1, <3>1, <3>2
  <2> QED BY <2>4, <2>5
<1>4. CASE \/ Boot \/ Upload \/ Narrate \/ AskAssistant \/ \E l \in StudioLogs : Remove(l)
           \/ \E r \in net : Uploaded(r)
  <2>1. PICK kind \in {"list", "upload", "narration", "chat", "delete"}, log \in LogIds,
             f \in Filters, rest \in SUBSET net :
          \/ net' = rest \cup {Request(kind, log, f)}
          \/ net' = rest \cup {[Request(kind, log, f) EXCEPT !.tags = Kept]}
    BY <1>4, StudioAssumption DEF Boot, Upload, Narrate, AskAssistant, Remove, Uploaded, LogIds,
       StudioTypes
  <2> DEFINE q == Request(kind, log, f)
  <2>2. q \in Messages /\ q.kind = kind
    BY RequestIsLast DEF Kinds
  <2> HIDE DEF q
  <2>3. [q EXCEPT !.tags = Kept].kind = kind
    BY <2>2 DEF Messages
  <2>4. UNCHANGED <<imports, figures, raw, cases, excused>>
    BY <1>4 DEF Boot, Upload, Narrate, AskAssistant, Remove, Uploaded, server, shown, data
  <2> QED BY <1>1, <2>1, <2>2, <2>3, <2>4 DEF q
<1>5. CASE \/ Go \/ ClearChat
           \/ \E r \in net : \/ CoreFails(r) \/ EventsFail(r) \/ ListFails(r) \/ Refused(r)
                             \/ Narrated(r) \/ Replied(r)
  BY <1>2, <1>5 DEF Go, ClearChat, CoreFails, EventsFail, ListFails, Refused, Narrated, Replied, Fails,
     server, shown, data
<1>6. ASSUME NEW r \in net, Removed(r) PROVE Fresh'
  <2>1. net' = (net \ {r}) \cup {Request("list", NoLog, Plain)} /\ UNCHANGED <<imports, raw, excused>>
    BY <1>6 DEF Removed, server
  <2>2. Request("list", NoLog, Plain).kind = "list"
    BY RequestIsLast, StudioAssumption DEF Kinds, LogIds
  <2>3. Coming' \subseteq Coming
    BY <2>1, <2>2 DEF Coming, Pending
  <2>4. UNCHANGED <<figures, cases>> \/ (figures' = None /\ cases' = None)
    BY <1>6 DEF Removed
  <2> QED BY <2>1, <2>3, <2>4, FreshStands
<1>7. ASSUME NEW l \in StudioLogs, Imported(l), excused' = {} PROVE Fresh'
  <2>1. /\ ~ AtHand(l) /\ excused = {} /\ imports' = [imports EXCEPT ![l] = @ + 1]
        /\ UNCHANGED <<figures, raw, cases, net>>
    BY <1>7 DEF Imported, shown, data
  <2>2. imports \in [StudioLogs -> Nat] /\ Coming' = Coming
    BY <2>1 DEF StudioTypes, Coming, Pending
  <2>3. \A x \in {figures, raw} : x.log \in StudioLogs => x.log # l /\ x.seen = {imports'[x.log]}
    BY <2>1, <2>2 DEF Fresh, AtHand
  <2>4. ASSUME NEW s \in Coming PROVE UpToDate(s)'
    <3>1. UpToDate(s)
      BY <2>1 DEF Fresh
    <3>2. CASE s.log = l
      BY <2>1, <2>2, <3>1, <3>2 DEF AtHand, Coming, UpToDate
    <3>3. CASE s.log # l
      BY <2>1, <2>2, <3>1, <3>3 DEF UpToDate
    <3> QED BY <3>2, <3>3
  <2> QED BY <2>1, <2>2, <2>3, <2>4 DEF Fresh
<1>8. ASSUME NEW r \in net, Serve(r) \/ PageArrives(r), excused' = {} PROVE Fresh'
  <2>1. UNCHANGED <<imports, figures, raw, cases, excused>>
    BY <1>8 DEF Serve, PageArrives, server, shown, data
  <2>2. PICK y \in Messages :
          /\ net' = (net \ {r}) \cup {y}
          /\ y.kind = r.kind
          /\ r.kind # "upload" => y.log = r.log
          /\ r.kind \in {"core", "events"} =>
               \/ r.log \in StudioLogs /\ y.seen = r.seen \cup {imports[r.log]}
               \/ y.at = "asked" /\ y.seen = r.seen
    BY <1>8, ServedIsTheSame
  <2>3. ASSUME NEW s \in Coming' PROVE UpToDate(s)'
    <3>1. CASE s # y
      <4>1. s \in Coming
        BY <2>2, <2>3, <3>1 DEF Coming, Pending
      <4> QED BY <1>8, <2>1, <4>1 DEF Fresh, UpToDate
    <3>2. CASE s = y
      <4>1. r \in Coming /\ y.log = r.log /\ r.kind \in {"core", "events"}
        BY <2>2, <2>3, <3>2 DEF Coming, Pending
      <4>2. r.log \in StudioLogs => r.seen \subseteq {imports[r.log]}
        BY <1>8, <2>1, <4>1 DEF Fresh, UpToDate
      <4> QED BY <2>1, <2>2, <3>2, <4>1, <4>2 DEF UpToDate
    <3> QED BY <3>1, <3>2
  <2> QED BY <1>8, <2>1, <2>3 DEF Fresh
<1>9. ASSUME NEW r \in net, CoreArrives(r), excused' = {} PROVE Fresh'
  <2>1. /\ r \in Messages /\ r.kind = "core" /\ r.at = "ok" /\ r \in Coming
        /\ excused = {} /\ UNCHANGED <<imports, raw>>
    BY <1>9 DEF CoreArrives, Coming, Pending, StudioTypes, server
  <2>2. CASE ~ StillOpen(r)
    BY <1>2, <1>9, <2>1, <2>2 DEF CoreArrives
  <2>3. CASE StillOpen(r)
    <3> DEFINE e == Request("events", r.log, Plain)
    <3>1. /\ figures' = Of(r)
          /\ IF raw.log = r.log
             THEN cases' = Refiltered(raw) /\ net' = net \ {r}
             ELSE cases' = cases /\ net' = (net \ {r}) \cup {e}
      BY <1>9, <2>3 DEF CoreArrives
    <3>2. e.at = "asked" /\ e.seen = {}
      BY <2>1, RequestIsLast, StudioAssumption DEF Kinds, Messages
    <3> HIDE DEF e
    <3>3. \A s \in Coming' : UpToDate(s)'
      BY <2>1, <3>1, <3>2 DEF Coming, Pending, Fresh, UpToDate
    <3>4. figures'.log \in StudioLogs => figures'.seen = {imports'[figures'.log]}
      BY <2>1, <3>1 DEF Of, Fresh, UpToDate
    <3>5. cases'.log # NoLog => cases'.log = raw'.log /\ cases'.seen = raw'.seen
      <4>1. raw \in Subjects
        BY DEF StudioTypes
      <4> QED BY <2>1, <3>1, <4>1 DEF Fresh, Refiltered, Subjects
    <3> QED BY <2>1, <3>3, <3>4, <3>5 DEF Fresh
  <2> QED BY <2>2, <2>3
<1>10. ASSUME NEW r \in net, EventsArrive(r), excused' = {} PROVE Fresh'
  <2>1. /\ r.kind = "events" /\ r.at = "ok" /\ r \in Coming /\ net' = net \ {r}
        /\ excused = {} /\ UNCHANGED <<imports, figures>>
    BY <1>10 DEF EventsArrive, Coming, Pending, server
  <2>2. CASE ~ StillOpen(r)
    BY <1>2, <1>10, <2>1, <2>2 DEF EventsArrive
  <2>3. CASE StillOpen(r)
    <3>1. raw' = Of(r) /\ cases' = Refiltered(Of(r))
      BY <1>10, <2>3 DEF EventsArrive
    <3>2. \A s \in Coming' : UpToDate(s)'
      BY <2>1 DEF Coming, Pending, Fresh, UpToDate
    <3>3. raw'.log \in StudioLogs => raw'.seen = {imports'[raw'.log]}
      BY <2>1, <3>1 DEF Of, Fresh, UpToDate
    <3>4. cases'.log = raw'.log /\ cases'.seen = raw'.seen
      BY <3>1 DEF Of, Refiltered
    <3> QED BY <2>1, <3>2, <3>3, <3>4 DEF Fresh
  <2> QED BY <2>2, <2>3
<1>11. excused' # {} => Fresh'
  BY DEF Fresh
<1> QED BY <1>3, <1>4, <1>5, <1>6, <1>7, <1>8, <1>9, <1>10, <1>11 DEF StudioNext

LEMMA StudioInvInit == StudioInit => StudioInv
<1> SUFFICES ASSUME StudioInit PROVE StudioInv
  OBVIOUS
<1> DEFINE first == [n |-> 1, kind |-> "list", log |-> NoLog, filter |-> Plain,
                     at |-> "asked", seen |-> {}, logs |-> {}, tags |-> {}]
<1>1. net = {first} /\ first \in Messages /\ first.kind = "list"
  BY StudioAssumption DEF StudioInit, Messages, Kinds, LogIds
<1> HIDE DEF first
<1>2. None \in Subjects
  BY StudioAssumption DEF None, Subjects, LogIds
<1>3. IsFiniteSet(net)
  BY <1>1, FS_Singleton
<1>4. StudioTypes
  BY <1>1, <1>2, <1>3, StudioAssumption DEF StudioInit, StudioTypes, LogIds, Live
<1>5. Conversation
  BY <1>1 DEF StudioInit, Conversation, HistoryIsOfTheLog, Pending
<1>6. Fresh
  BY <1>1, StudioAssumption DEF StudioInit, Fresh, Coming, Pending, None
<1> QED BY <1>4, <1>5, <1>6 DEF StudioInv, Screen, FiguresAreOfTheLog, StudioInit

LEMMA StudioInvNext ==
  ASSUME StudioInv, [StudioNext]_studioVars
  PROVE  StudioInv'
<1>1. CASE StudioNext
  BY <1>1, TypesKeep, ConversationKeeps, ScreenKeeps, FreshKeeps DEF StudioInv
<1>2. CASE UNCHANGED studioVars
  <2>1. UNCHANGED <<life, imports, list, logId, filter, loading, error, figures, analyst, raw, cases>>
        /\ UNCHANGED <<turns, chatLog, chatBusy, net, newest, excused>>
    BY <1>2 DEF studioVars, server, picked, shown, data, chat
  <2>2. \A k : Pending(k)' = Pending(k)
    BY <2>1 DEF Pending
  <2>3. StudioTypes'
    BY <2>1 DEF StudioInv, StudioTypes
  <2>4. Conversation'
    BY <2>1, <2>2 DEF StudioInv, Conversation, HistoryIsOfTheLog
  <2>5. Screen' /\ FiguresAreOfTheLog'
    BY <2>1, <2>2, ScreenStands DEF StudioInv
  <2>6. Fresh'
    BY <2>1, <2>2, FreshStands DEF StudioInv, Coming
  <2> QED BY <2>3, <2>4, <2>5, <2>6 DEF StudioInv
<1> QED BY <1>1, <1>2

LEMMA StudioInvHolds == StudioSpec => []StudioInv
BY StudioInvInit, StudioInvNext, PTL DEF StudioSpec

-----------------------------------------------------------------------------
(* Theorems about the console *)

(* Whatever is opened, filtered, uploaded and deleted while requests are under way: as
   long as figures of another log are on the screen, those of the open one are still to
   come, or the list of logs with which they are asked for is, or one of the two failed
   (loadCore, loadLogs).  The page itself does not say so. *)
THEOREM FiguresBelong == StudioSpec => []FiguresAreOfTheLog
<1>1. StudioInv => FiguresAreOfTheLog
  BY DEF StudioInv
<1> QED BY <1>1, StudioInvHolds, PTL

(* The assistant is never told turns about another log than the one it is asked about,
   though the log may change while it thinks (askAssistant, chatLogId). *)
THEOREM HistoryBelongs == StudioSpec => []HistoryIsOfTheLog
<1>1. StudioInv => HistoryIsOfTheLog
  BY DEF StudioInv, Conversation
<1> QED BY <1>1, StudioInvHolds, PTL

(* With any number of requests under way at once, each batch served one by one and all
   answered in any order: when all have come, figures and text are of the log and the
   filter chosen, the cases of what the browser applies of it, and figures and cases of
   the log as it is, unless one of the things named at ScreenAgrees happened (loadCore,
   loadEvents, applyLocalFilters). *)
THEOREM ScreenIsTrue == StudioSpec => []ScreenAgrees
<1>1. ASSUME StudioInv, net = {}, excused = {}, logId # NoLog
      PROVE  /\ ~ loading /\ ~ error
             /\ \A x \in {figures, analyst, cases} : x.log = logId
             /\ figures.filter = filter /\ analyst.filter = filter /\ cases.filter = Local[filter]
             /\ figures.seen = {imports[logId]} /\ cases.seen = {imports[logId]}
  <2>1. \A k : Pending(k) = {}
    BY <1>1 DEF Pending
  <2>2. ~error /\ Brought
    BY <1>1, <2>1 DEF StudioInv, Screen, Asked
  <2>3. figures.log = logId /\ cases.log = logId /\ cases.filter = Local[filter]
    BY <2>1, <2>2 DEF Brought, Listed
  <2>4. logId \in StudioLogs
    BY <1>1 DEF StudioInv, StudioTypes, LogIds
  <2>5. figures.seen = {imports[logId]} /\ raw.log = logId /\ cases.seen = raw.seen
    BY <1>1, <2>3, <2>4 DEF StudioInv, Fresh
  <2>6. raw.seen = {imports[logId]}
    BY <1>1, <2>4, <2>5 DEF StudioInv, Fresh
  <2> QED BY <2>2, <2>3, <2>5, <2>6 DEF Brought
<1>2. StudioInv => ScreenAgrees
  BY <1>1 DEF ScreenAgrees
<1> QED BY <1>2, StudioInvHolds, PTL
=============================================================================
