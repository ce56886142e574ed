------------------------------ MODULE Studio ------------------------------
(***************************************************************************)
(* The console of the analytics service: one page in a browser.  A log is  *)
(* open under a filter; its figures come from the server in a batch of     *)
(* requests that are served one by one, its events once per log and page   *)
(* by page, from which the page makes a list of cases of its own, by what  *)
(* the browser knows of the filter; a retelling by a language model and    *)
(* the answers of the assistant arrive when they are ready.  Nothing is    *)
(* cancelled: an answer that comes when another log is open is told by the *)
(* log it was asked for, and by nothing else.                              *)
(***************************************************************************)
EXTENDS Integers, FiniteSetsExt

CONSTANTS
  StudioLogs,  \* all logs that may ever be
  NoLog,       \* logId when none is open
  Filters,     \* states of the filter
  Plain,       \* the filter that lets everything pass
  Local,       \* what is left of a filter without its coverage of variants
  MaxUses,     \* bound: what the user does; retellings are one at a time
  MaxAppends,  \* bound: imports into a log that is there
  MaxFailures  \* bound: requests that fail

ASSUME StudioAssumption == /\ NoLog \notin StudioLogs /\ Plain \in Filters
                           /\ Local \in [Filters -> Filters]

(* What something on the page is of: the log, the filter, and the states of the log that
   its requests have met, told by the number of imports. *)
None == [log |-> NoLog, filter |-> Plain, seen |-> {}]

VARIABLES
  life, imports,  \* logs on the server: "unborn", "live" or "gone"; imports into each
  list, logId,     \* state.logs, state.logId
  storedLog,       \* pm-studio-log in localStorage
  filter,          \* filters
  loading, error,
  figures,         \* graph, stats, variants, necks and summary, and what they are of
  analyst,         \* state.analyst
  raw, cases,      \* rawEvents, and the index of cases made of it
  route,           \* page: the analyst's or another
  narrated,
  turns, chatLog, chatBusy,  \* the logs that chatTurns are about; chatLogId, chatBusy
  net,             \* requests under way
  newest,          \* history: number of the request that brought the figures, while
                   \* others are under way
  uses, failures,
  excused          \* history: what went wrong on the way, see ScreenAgrees

server == <<life, imports>>
picked == <<list, logId, storedLog, filter>>
data == <<figures, newest, analyst, raw, cases, narrated>>
shown == <<loading, error, data>>
chat == <<turns, chatLog, chatBusy>>
bounds == <<uses, failures>>
studioVars == <<server, picked, shown, route, chat, net, bounds, excused>>

Live == {l \in StudioLogs : life[l] = "live"}
Pending(kind) == {r \in net : r.kind = kind}
(* Requests of a kind are numbered in the order they were sent. *)
Request(kind, log, f) ==
  [n |-> 1 + Max({newest} \cup {r.n : r \in Pending(kind)}), kind |-> kind, log |-> log, filter |-> f,
   at |-> "asked", seen |-> {}, logs |-> {}, tags |-> {}]

Use == uses < MaxUses /\ uses' = uses + 1 /\ UNCHANGED failures

-----------------------------------------------------------------------------
(* loadCore, up to its requests *)

LoadCore(rest, log, f) ==
  IF log = NoLog THEN net' = rest /\ UNCHANGED <<loading, error>>
  ELSE /\ loading' = TRUE /\ error' = FALSE
       /\ net' = rest \cup {Request("core", log, f)}

OpenLog(l) ==
  /\ Use
  /\ l \in list \ {logId}
  /\ logId' = l /\ storedLog' = l
  /\ LoadCore(net, l, filter)
  /\ UNCHANGED <<server, list, filter, data, route, chat, excused>>

SetFilter(f) ==
  /\ Use
  /\ f # filter
  /\ filter' = f
  /\ LoadCore(net, logId, f)
  /\ UNCHANGED <<server, list, logId, storedLog, data, route, chat, excused>>

(* boot: on start, and when the key is entered, dropped or brought by a link *)
Boot ==
  /\ Use
  /\ net' = net \cup {Request("list", NoLog, Plain)}
  /\ UNCHANGED <<server, picked, shown, route, chat, excused>>

Upload ==
  /\ Use
  /\ net' = net \cup {Request("upload", NoLog, Plain)}
  /\ UNCHANGED <<server, picked, shown, route, chat, excused>>

Remove(l) ==
  /\ Use
  /\ l \in list
  /\ net' = net \cup {Request("delete", l, Plain)}
  /\ UNCHANGED <<server, picked, shown, route, chat, excused>>

-----------------------------------------------------------------------------
(* The server; bound: one log grows, MaxAppends times *)

(* What the page has, or is about to get, of a log as it is. *)
AtHand(l) ==
  \/ l \in {figures.log, raw.log}
  \/ \E r \in Pending("core") \cup Pending("events") : r.log = l /\ r.seen # {}

(* The page is not told. *)
Imported(l) ==
  /\ life[l] = "live" /\ imports[l] < MaxAppends /\ \A m \in StudioLogs \ {l} : imports[m] = 0
  /\ imports' = [imports EXCEPT ![l] = @ + 1]
  /\ excused' = excused \cup {w \in {<<"imported", l>>} : AtHand(l)}
  /\ UNCHANGED <<life, picked, shown, route, chat, net, bounds>>

Becomes(r, s) == net' = (net \ {r}) \cup {s}

(* Of loadCore one request of the batch, which is answered with the last of them; of
   loadEvents one page. *)
Serve(r) ==
  /\ r.at = "asked"
  /\ \/ /\ r.kind \in {"core", "events"} /\ r.log \in Live
        /\ \E at \in {"ok"} \cup (IF r.kind = "core" THEN {"asked"} ELSE {}) :
             Becomes(r, [r EXCEPT !.at = at, !.seen = @ \cup {imports[r.log]}])
        /\ UNCHANGED life
     \/ /\ r.kind = "list"
        /\ Becomes(r, [r EXCEPT !.at = "ok", !.logs = Live])
        /\ UNCHANGED life
     \/ /\ r.kind = "delete" /\ r.log \in Live
        /\ Becomes(r, [r EXCEPT !.at = "ok"])
        /\ life' = [life EXCEPT ![r.log] = "gone"]
     \/ /\ r.kind = "upload"
        /\ \E l \in StudioLogs : /\ life[l] = "unborn"
                           /\ Becomes(r, [r EXCEPT !.at = "ok", !.log = l])
                           /\ life' = [life EXCEPT ![l] = "live"]
  /\ UNCHANGED <<imports, picked, shown, route, chat, bounds, excused>>

(* A log that is gone; or no answer, a refused key, a log too small for the algorithm. *)
Fails(r) ==
  /\ r.at = "asked"
  /\ net' = net \ {r}
  /\ \/ r.kind # "list" /\ r.log \in {l \in StudioLogs : life[l] = "gone"} /\ UNCHANGED bounds
     \/ failures < MaxFailures /\ failures' = failures + 1 /\ UNCHANGED uses

-----------------------------------------------------------------------------
(* Figures *)

(* Fault: an answer is shown whatever is open by now. *)
StillOpenOrNot(r) == TRUE
(* "the user managed to switch the log" *)
StillOpen(r) == r.log = logId

(* Fault: the cases stay as they were. *)
NotRefiltered(r) == cases
(* applyLocalFilters, to the events at hand and by the filter of now, whose coverage of
   variants only the server applies *)
Refiltered(r) == [r EXCEPT !.filter = Local[filter]]

Of(r) == [log |-> r.log, filter |-> r.filter, seen |-> r.seen]
About(r) == [None EXCEPT !.log = r.log, !.filter = r.filter]
Older(r) == r.n < newest /\ r.log = figures.log

(* The rest of loadCore: the events are fetched when the log is another one. *)
CoreArrives(r) ==
  /\ r.kind = "core" /\ r.at = "ok"
  /\ IF ~ StillOpen(r)
     THEN /\ net' = net \ {r}
          /\ UNCHANGED <<loading, figures, newest, analyst, cases, excused>>
     ELSE /\ figures' = Of(r) /\ analyst' = About(r)
          /\ newest' = IF Pending("core") = {r} THEN 0 ELSE r.n
          /\ loading' = FALSE
          /\ IF raw.log = r.log
             THEN cases' = Refiltered(raw) /\ net' = net \ {r}
             ELSE net' = (net \ {r}) \cup {Request("events", r.log, Plain)} /\ UNCHANGED cases
          /\ excused' = excused \cup {w \in {<<"overtaken", r.log>>} : Older(r)}
  /\ UNCHANGED <<server, picked, error, raw, narrated, route, chat, bounds>>

(* One of the batch is enough.  It is not asked which log the error is about. *)
CoreFails(r) ==
  /\ r.kind = "core" /\ Fails(r)
  /\ loading' = FALSE
  /\ error' = TRUE
  /\ excused' = excused \cup {<<"failed", r.log>>}
  /\ UNCHANGED <<server, picked, data, route, chat>>

(* loadEvents: a page that is not the last, and the last one. *)
PageArrives(r) ==
  /\ r.kind = "events" /\ r.at = "ok"
  /\ StillOpen(r)
  /\ Becomes(r, [r EXCEPT !.at = "asked"])
  /\ UNCHANGED <<server, picked, shown, route, chat, bounds, excused>>

EventsArrive(r) ==
  /\ r.kind = "events" /\ r.at = "ok"
  /\ net' = net \ {r}
  /\ IF StillOpen(r)
     THEN raw' = Of(r) /\ cases' = Refiltered(Of(r))
     ELSE UNCHANGED <<raw, cases>>
  /\ UNCHANGED <<server, picked, loading, error, figures, newest, analyst, narrated, route, chat,
                 bounds, excused>>

EventsFail(r) ==
  /\ r.kind = "events" /\ Fails(r)
  /\ error' = TRUE
  /\ excused' = excused \cup {<<"events failed", r.log>>}
  /\ UNCHANGED <<server, picked, loading, data, route, chat>>

-----------------------------------------------------------------------------
(* The list of logs *)

(* loadLogs and the loadCore behind it *)
ListArrives(r) ==
  /\ r.kind = "list" /\ r.at = "ok"
  /\ list' = r.logs
  /\ \/ r.logs = {} /\ logId' = NoLog /\ UNCHANGED storedLog
     \/ storedLog \in r.logs /\ logId' = storedLog /\ UNCHANGED storedLog
     \/ storedLog \notin r.logs /\ logId' \in r.logs /\ storedLog' = logId'
  /\ LoadCore(net \ {r}, logId', filter)
  /\ UNCHANGED <<server, filter, data, route, chat, bounds, excused>>

(* In boot a refused key closes the log; any other failure is shown, or told in a toast. *)
ListFails(r) ==
  /\ r.kind = "list" /\ Fails(r)
  /\ \/ list' = {} /\ logId' = NoLog /\ UNCHANGED error
     \/ UNCHANGED <<list, logId>> /\ error' \in {TRUE, error}
  /\ excused' = excused \cup {<<"list failed", logId>>}
  /\ UNCHANGED <<server, storedLog, filter, loading, data, route, chat>>

Uploaded(r) ==
  /\ r.kind = "upload" /\ r.at = "ok"
  /\ logId' = r.log /\ storedLog' = r.log
  /\ net' = (net \ {r}) \cup {Request("list", NoLog, Plain)}
  /\ UNCHANGED <<server, list, filter, shown, route, chat, bounds, excused>>

Removed(r) ==
  /\ r.kind = "delete" /\ r.at = "ok"
  /\ net' = (net \ {r}) \cup {Request("list", NoLog, Plain)}
  /\ IF r.log = logId
     THEN logId' = NoLog /\ figures' = None /\ cases' = None
     ELSE UNCHANGED <<logId, figures, cases>>
  /\ UNCHANGED <<server, list, storedLog, filter, loading, error, newest, analyst, raw, narrated,
                 route, chat, bounds, excused>>

(* A toast, or the bubble of the assistant; nothing else changes. *)
Refused(r) ==
  /\ r.kind \in {"upload", "delete", "narration"} /\ Fails(r)
  /\ UNCHANGED <<server, picked, shown, route, chat, excused>>

-----------------------------------------------------------------------------
(* The page of the analyst *)

Go ==
  /\ Use
  /\ route' = IF route = "analyst" THEN "other" ELSE "analyst"
  /\ UNCHANGED <<server, picked, shown, chat, net, excused>>

(* fetchNarration, after the page was drawn *)
Narrate ==
  /\ Pending("narration") = {}
  /\ route = "analyst" /\ ~ loading /\ figures # None
  /\ logId \notin {NoLog, narrated}
  /\ net' = net \cup {Request("narration", logId, filter)}
  /\ UNCHANGED <<server, picked, shown, route, chat, bounds, excused>>

(* The text is taken for one about the log that is open, if there is one. *)
Narrated(r) ==
  /\ r.kind = "narration"
  /\ net' = net \ {r}
  /\ \/ /\ route = "analyst"
        /\ narrated' = logId
        /\ analyst' = About(r)
        /\ excused' = excused \cup {w \in {<<"narrated late", r.log>>} :
                                      r.log # logId \/ r.filter # filter}
     \/ UNCHANGED <<narrated, analyst, excused>>   \* another page, or no model
  /\ UNCHANGED <<server, picked, loading, error, figures, newest, raw, cases, route, chat, bounds>>

-----------------------------------------------------------------------------
(* The assistant *)

(* The turns that belong to the log that is open. *)
Kept == IF logId # chatLog THEN {} ELSE turns

AskAssistant ==
  /\ Use
  /\ ~ chatBusy
  /\ chatBusy' = TRUE
  /\ chatLog' = logId
  /\ turns' = Kept \cup {logId}
  /\ net' = net \cup {[Request("chat", logId, Plain) EXCEPT !.tags = Kept]}
  /\ UNCHANGED <<server, picked, shown, route, excused>>

(* An answer and an error are turns alike. *)
Replied(r) ==
  /\ r.kind = "chat"
  /\ net' = net \ {r}
  /\ turns' = turns \cup {r.log}
  /\ chatBusy' = FALSE
  /\ UNCHANGED <<server, picked, shown, route, chatLog, bounds, excused>>

ClearChat ==
  /\ Use
  /\ turns # {}
  /\ turns' = {}
  /\ UNCHANGED <<server, picked, shown, route, chatLog, chatBusy, net, excused>>

-----------------------------------------------------------------------------
StudioInit ==
  /\ life \in [StudioLogs -> {"unborn", "live"}] /\ imports = [l \in StudioLogs |-> 0]
  /\ list = {} /\ logId = NoLog /\ storedLog \in Live \cup {NoLog}
  /\ filter = Plain
  /\ loading = FALSE /\ error = FALSE
  /\ figures = None /\ newest = 0 /\ analyst = None /\ raw = None /\ cases = None
  /\ route \in {"analyst", "other"} /\ narrated = NoLog
  /\ turns = {} /\ chatLog = NoLog /\ chatBusy = FALSE
  /\ net = {[n |-> 1, kind |-> "list", log |-> NoLog, filter |-> Plain, at |-> "asked", seen |-> {},
             logs |-> {}, tags |-> {}]}
  /\ uses = 0 /\ failures = 0
  /\ excused = {}

StudioNext ==
  \/ \E l \in StudioLogs : OpenLog(l) \/ Remove(l) \/ Imported(l)
  \/ \E f \in Filters : SetFilter(f)
  \/ Boot \/ Upload \/ Go \/ Narrate \/ AskAssistant \/ ClearChat
  \/ \E r \in net : \/ Serve(r)
                    \/ CoreArrives(r) \/ CoreFails(r)
                    \/ PageArrives(r) \/ EventsArrive(r) \/ EventsFail(r)
                    \/ ListArrives(r) \/ ListFails(r) \/ Uploaded(r) \/ Removed(r) \/ Refused(r)
                    \/ Narrated(r) \/ Replied(r)

StudioSpec == StudioInit /\ [][StudioNext]_studioVars

-----------------------------------------------------------------------------
(* Figures of another log stay on the screen only until those of the open one come: they
   are under way, or the list of logs is that they are asked for with, or the last
   request for them has failed, or the list has.  The page itself tells nothing of it: as
   long as it has figures, whatever they are of, it shows neither that it loads nor that
   something failed. *)
FiguresAreOfTheLog ==
  figures # None /\ logId # NoLog /\ figures.log # logId =>
    \/ \E r \in Pending("core") : r.log = logId
    \/ Pending("list") # {}
    \/ error /\ <<"failed", logId>> \in excused
    \/ <<"list failed", logId>> \in excused

(* What the assistant is told of the conversation so far was about the log it is asked
   about. *)
HistoryIsOfTheLog == \A r \in Pending("chat") : r.tags \subseteq {r.log}

(* When every answer has come, the figures, the text and the list of cases are of the
   log that is open, figures and text under the filter that is chosen, the cases under
   what the browser applies of it; and all figures and all pages of events are of the log
   as it is.  What keeps them from it is one of these (README):
     failed          a request for figures, or for events (events failed)
     list failed     the list of logs after an upload or a deletion
     overtaken       figures of an earlier filter came after those of a later one
     imported        events were imported while the page had some of the log, or was
                     fetching it: between two of the requests of one batch, or later
     narrated late   a retelling came when the log or the filter was another *)
ScreenAgrees ==
  net = {} /\ excused = {} /\ logId # NoLog =>
    /\ ~ loading /\ ~ error
    /\ \A x \in {figures, analyst, cases} : x.log = logId
    /\ figures.filter = filter /\ analyst.filter = filter /\ cases.filter = Local[filter]
    /\ figures.seen = {imports[logId]} /\ cases.seen = {imports[logId]}
=============================================================================
