------------------------------- MODULE OneC -------------------------------
(***************************************************************************)
(* The connector that pulls documents out of 1C into an event log, and the *)
(* figures the service computes of that log.  A run reads the catalogue of *)
(* clients, then the documents of each kind of the last days, page after   *)
(* page, keeps the first of each kind per client and month, and sends the  *)
(* rest to the importer, which drops the events it knows.  Accountants go  *)
(* on posting documents, of today and of days gone by, and take some back. *)
(***************************************************************************)
EXTENDS LogAnalysis

CONSTANTS
  MaxDocs,      \* bound: documents ever written
  Clients,      \* Catalog_Counterparties: clients, numbered from 1
  DocKinds,     \* DOCUMENTS: number of kinds
  LastDay,      \* bound
  MonthDays,    \* days of a month
  Window,       \* --days
  PageSize,     \* PAGE
  MaxRuns       \* bound: imports ever begun

Docs == 1 .. MaxDocs
ASSUME OneCAssumption == /\ {MonthDays, PageSize, MaxDocs} \subseteq Nat \ {0}
                         /\ {Window, DocKinds} \subseteq Nat
                         /\ Clients \subseteq Nat \ {0}

VARIABLES
  today,
  doc,      \* documents: kind, client, day, and whether it is posted
  run,      \* the import under way
  runs,
  log,      \* stored events in the order of their arrival
  missed    \* history: of imports that ended well, the documents that one should have
            \* read and did not, and those taken back when it had come past them

oneCVars == <<today, doc, run, runs, log, missed>>

NoDoc == [kind |-> 0, client |-> 0, day |-> NoTime, posted |-> FALSE]
NoRun == [at |-> "idle", since |-> 0, until |-> 0, names |-> FALSE, all |-> FALSE, kind |-> 1,
          skip |-> 0, rows |-> <<>>, got |-> <<>>, due |-> {}, taken |-> {}]

InWindow(d, since, until) == doc[d].posted /\ doc[d].day \in since .. until

(* What 1C lists for a kind: by date, documents of one date as they were entered. *)
ListedDocs == {d \in Docs : doc[d].kind = run.kind /\ InWindow(d, run.since, run.until)}
ByDate == {p \in Docs \X Docs : \/ doc[p[1]].day < doc[p[2]].day
                                \/ doc[p[1]].day = doc[p[2]].day /\ p[1] < p[2]}
Listing == InOrder(ListedDocs, ByDate)
Sooner(d, e) == doc[d].kind = doc[e].kind /\ <<d, e>> \in ByDate
Place(d) == Cardinality(Before(ListedDocs, ByDate, d))

-----------------------------------------------------------------------------
(* The books *)

NextDay ==
  /\ today < LastDay
  /\ today' = today + 1
  /\ UNCHANGED <<doc, run, runs, log, missed>>

(* A document is entered as of today or of a day gone by. *)
Post(d) ==
  /\ doc[d] = NoDoc /\ d = 1 + Cardinality({e \in Docs : doc[e] # NoDoc})
  /\ \E k \in 1 .. DocKinds, c \in Clients, t \in 0 .. today :
       doc' = [doc EXCEPT ![d] = [kind |-> k, client |-> c, day |-> t, posted |-> TRUE]]
  /\ UNCHANGED <<today, run, runs, log, missed>>

(* It is not due any more, and everything behind it moves up in the listing: by one place
   too many for an import that has come past it. *)
Unpost(d) ==
  /\ doc[d].posted
  /\ doc' = [doc EXCEPT ![d].posted = FALSE]
  /\ run' = [run EXCEPT !.due = @ \ {d},
                       !.taken = @ \cup {e \in {d} \cap ListedDocs : Place(e) < run.skip}]
  /\ UNCHANGED <<today, runs, log, missed>>

-----------------------------------------------------------------------------
(* collect *)

Begin ==
  /\ run.at = "idle" /\ runs < MaxRuns
  /\ runs' = runs + 1
  /\ \E all \in BOOLEAN, names \in BOOLEAN :
       LET since == IF today > Window THEN today - Window ELSE 0 IN
       run' = [NoRun EXCEPT !.at = "reading", !.since = since, !.until = today,
                 !.names = names, !.all = all,
                 !.due = {d \in Docs : InWindow(d, since, today)}]
  /\ UNCHANGED <<today, doc, log, missed>>

(* Without the catalogue a client goes by the head of its key. *)
NameOf(c, names) == IF names THEN c ELSE -c
CaseOf(d, names) == <<NameOf(doc[d].client, names), doc[d].day \div MonthDays>>
EventOf(d) ==
  [id |-> d, case |-> CaseOf(d, run.names), activity |-> doc[d].kind, time |-> doc[d].day]

(* Fault: a full page is taken for the last one. *)
LastIfAny(batch) == Len(batch) <= PageSize
IsLast(batch) == Len(batch) < PageSize

NextKind == [run EXCEPT !.kind = @ + 1, !.skip = 0, !.rows = <<>>]

(* Client.pages: a page of the listing as it is now. *)
Page ==
  /\ run.at = "reading" /\ run.kind <= DocKinds
  /\ LET n == Len(Listing)
         batch == SubSeq(Listing, run.skip + 1,
                         IF run.skip + PageSize < n THEN run.skip + PageSize ELSE n)
         rows == run.rows \o [k \in DOMAIN batch |-> EventOf(batch[k])]
     IN run' = IF IsLast(batch)
               THEN [NextKind EXCEPT !.got = @ \o rows]
               ELSE [run EXCEPT !.skip = @ + Len(batch), !.rows = rows]
  /\ UNCHANGED <<today, doc, runs, log, missed>>

(* 1C answers with an error: the kind is left out of this import. *)
KindFails ==
  /\ run.at = "reading" /\ run.kind <= DocKinds
  /\ run' = [NextKind EXCEPT !.due = {d \in @ : doc[d].kind # run.kind}]
  /\ UNCHANGED <<today, doc, runs, log, missed>>

-----------------------------------------------------------------------------
(* collapse_repeats and push *)

ByTime(s) ==
  Picked(s, InOrder(Rows(s), {p \in Rows(s) \X Rows(s) :
                                 \/ s[p[1]].time < s[p[2]].time
                                 \/ s[p[1]].time = s[p[2]].time /\ p[1] < p[2]}))
Alike(r, s) == r.case = s.case /\ r.activity = s.activity

(* Fault: the last of each activity is kept. *)
LastOfEach(s) ==
  LET t == ByTime(s) IN
    PickedWhere(t, {i \in DOMAIN t : \A j \in DOMAIN t : Alike(t[i], t[j]) => j <= i})
(* collapse_repeats *)
FirstOfEach(s) ==
  LET t == ByTime(s) IN
    PickedWhere(t, {i \in DOMAIN t : \A j \in DOMAIN t : Alike(t[i], t[j]) => i <= j})

StoredAlready(id) == \E x \in Range(log) : x.id = id
(* _drop_known: not stored, and the first of its id in the packet. *)
Unknown(s) ==
  PickedWhere(s, {i \in DOMAIN s : ~ StoredAlready(s[i].id)
                                  /\ \A j \in 1 .. (i - 1) : s[j].id # s[i].id})

Read == {x.id : x \in Range(run.got)}
Packet == IF run.all THEN run.got ELSE FirstOfEach(run.got)

(* The events are stored; with each, for the history, how its import went. *)
Push ==
  /\ run.at = "reading" /\ run.kind > DocKinds
  /\ LET new == Ordered(Unknown(Packet))
         Stored == {x.id : x \in Range(log) \cup Range(new)}
     IN log' = log \o [k \in DOMAIN new |->
                      [id |-> new[k].id, case |-> new[k].case, activity |-> new[k].activity,
                       time |-> new[k].time, all |-> run.all, read |-> Read \cap Stored]]
  /\ missed' = IF run.due \subseteq Read THEN missed
               ELSE missed \cup {[docs |-> run.due \ Read, taken |-> run.taken]}
  /\ run' = NoRun
  /\ UNCHANGED <<today, doc, runs>>

(* The importer refuses, or the connector is stopped. *)
GiveUp ==
  /\ run.at = "reading"
  /\ run' = NoRun
  /\ UNCHANGED <<today, doc, runs, log, missed>>

OneCInit ==
  /\ today = 0
  /\ doc = [d \in Docs |-> NoDoc]
  /\ run = NoRun /\ runs = 0
  /\ log = <<>>
  /\ missed = {}

OneCNext ==
  \/ NextDay
  \/ \E d \in Docs : Post(d) \/ Unpost(d)
  \/ Begin \/ Page \/ KindFails \/ Push \/ GiveUp

OneCSpec == OneCInit /\ [][OneCNext]_oneCVars

-----------------------------------------------------------------------------
Ended == run.at = "idle"     \* an import ends the moment it has stored its events

(* A document that was posted before an import began, and is posted when it ends, is
   missed by it only for one that was taken back when the import had come past it: what
   is behind that one in the listing moves up, the first of it past the place of the next
   page.  Up to any document that is missed, no more are missed than were taken back
   before it; and documents entered between two pages push nothing out. *)
SkipsAreExplained ==
  \A m \in missed : \A d \in m.docs :
    Cardinality({x \in m.docs : x = d \/ Sooner(x, d)})
      <= Cardinality({e \in m.taken : Sooner(e, d)})

(* No document is in the log twice, whether an import reads it on two pages, because one
   of an earlier date was entered in between, or a later import reads it again. *)
StoredOnce == \A i, j \in DOMAIN log : log[i].id = log[j].id => i = j

(* Repeats have a reason: they are of two documents, and a case has an activity twice
   only if no import could tell: one kept the repeats, or the later import did not read
   the event the first one had stored, or its own is older. *)
RepeatsAreExplained ==
  /\ StoredOnce
  /\ Ended => \A i, j \in DOMAIN log :
       i < j /\ Alike(log[i], log[j]) =>
         \/ log[i].all \/ log[j].all
         \/ log[i].id \notin log[j].read
         \/ log[j].time <= log[i].time

(* The time on the arcs of the map is the time of the cases, and the time after each
   activity: three functions that each order and group the rows themselves.  Where the
   cases of a log took no time, the time on the arcs is told as one second. *)
MapAddsUp(frame) ==
  LET edge == EdgeStats(frame)
      spent == Throughput(frame)
  IN
    /\ Flow(frame) = IF spent = 0 /\ frame # <<>> THEN 1 ELSE UnitSeconds * spent
    /\ spent = MapThenSumSet(LAMBDA a : WaitingAfter(frame, a), 1 .. DocKinds)
    /\ MapThenSumSet(LAMBDA a : edge[a].count, DOMAIN edge)
         = Len(frame) - Cardinality(Cases(frame))

(* The routes, which take the rows as they come, follow the arcs of the map. *)
RoutesFollowTheMap(frame) ==
  LET Along(a) == MapThenSumSet(LAMBDA c :
                    LET r == Route(frame, c) IN
                    Cardinality({k \in DOMAIN r : k + 1 \in DOMAIN r /\ <<r[k], r[k + 1]>> = a}),
                    Cases(frame))
      edge == EdgeStats(frame)
  IN /\ \A a \in DOMAIN edge : edge[a].count = Along(a)
     /\ SelfLoops(frame) = {k \in 1 .. DocKinds : <<k, k>> \in DOMAIN edge}

(* A larger share of the routes keeps what a smaller one keeps, all of it keeps all. *)
SharesAreMonotone(frame) ==
  LET At(p) == Cases(Filtered(frame, [NoFilter EXCEPT !.routeShare = p])) IN
    frame # <<>> => At(50) # {} /\ At(50) \subseteq At(75) /\ At(100) = Cases(frame)

(* Of the log that any sequence of imports has left, map, durations, routes and shares,
   which the service computes by functions of their own, say the same. *)
AnalysisAgrees ==
  Ended => LET frame == Ordered(log) IN
             MapAddsUp(frame) /\ RoutesFollowTheMap(frame) /\ SharesAreMonotone(frame)
=============================================================================
