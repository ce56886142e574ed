# A TLA+ development of the bakery process-mining system

This directory holds TLA+ models of the services under `src/services/`, the
TLC runs that check them on small instances, and theorems with proofs that
TLAPS checks for all instances. `PROJECT.json` lists the runs, the theorems, the
lines every definition stands for and the hazards the properties are aimed at.

## 1. The system

Operators of a bakery move production batches over a board of stages, by mouse
or by voice. Every step is recorded as an event and shipped to an analytics
service, which mines the process from the events.

| part | state | operations | talks to |
|---|---|---|---|
| **QMS board** `qms/apps/bakery` (Django, PostgreSQL, gunicorn 3x4 threads) | batches, orders, stages, devices, numbers of orders and cards | confirm, move, assign to a device, pause, resume, cancel, report a problem, delete | records events; voice commands call its services |
| **Demonstrations** `bakery/kanban_demo.py` | runs of cards that move by themselves | create, start, pause, tick, stop, reset | moves cards of the board |
| **Board screen** `qms/static/js/kanban-demo.js` | the cards of a page, the drag in hand, moves in flight | drag, drop, redraw | posts moves, hears a stream of events |
| **Sheets** `bakery/production_sheet.py`, `forecast.py`, `views.py` and their pages | the plan of a date, corrections of the forecast | show a day, plan, queue, clear the board, correct a cell | read batches, history and stock; queue orders |
| **Quality control** `qms/apps/quality`, `inspections`, `nonconformities` | objects on a route, tasks, cards, defects | start and complete a task, register, close, reinspect | blocks batches of the board |
| **Outbox** `qms/apps/process_mining` | `ProcessEvent`, `ProcessEventExport` | record, claim, send, apply the answer, retry, re-queue | posts CSV packets to the intake |
| **Intake** `process-mining/app/api/integration.py`, `log_service.py`, `sqlite.py` (FastAPI, one process, SQLite) | stream logs, import receipts | import, delete a log | answers the outbox |
| **Voice widget** `qms/static/js/voice-widget.js` | microphone, recorder, poll, countdown | hold, let go, confirm, reject | uploads to the QMS, polls it |
| **Transcription relay** `api/transcriptions.py`, `stt.py`, `jobs/manager.py` | receipts in SQLite, jobs in memory | submit, transcribe, call back with retries | calls the QMS back |
| **Voice commands** `bakery/voice_process_mining.py`, `bakery/api.py` | `VoiceMessage`, `VoiceCommand` | callback, text, confirm, reject, review | moves batches on the board |
| **Android application**, **PushToTalk backend**, **voice gateway** | recording session, countdown; messages; none | tap, call off, send; store and forward; forward | the backend posts to the QMS and, over MQTT, so does the gateway |
| **Analytics** `core/mining.py`, `metrics.py`, `filtering.py`, `services/mining_service.py`, `core/cache.py` | logs, result cache, jobs | statistics, map, routes, bottlenecks, filters | computes in a pool of threads |
| **1C connector** `connectors/onec.py` | none | read page by page, collapse, push | reads 1C, posts to the analytics service |
| **Console** `static/studio/studio.js` | log, filter, figures, list of cases, chat | open, filter, upload, delete, ask | the analytics API |
| **Digital twins** `bakery/twins.py`, **stream** `bakery/influx.py` and their commands | the twin of a device; none of their own | push what stands on a device; pour moves and states | threads of the QMS write to Ditto and InfluxDB |
| Everything else (accounts, audit, reports, equipment, nginx, ...) | plain CRUD or none | | |

What is hard here, and what each part has to guarantee:

* **Outbox and intake.** Any number of threads export at once; the claim is a
  transaction of its own and the call is made outside of one; a call may time
  out after the packet was stored; rows may be deleted in mid-flight; a worker may
  die anywhere; the intake commits each case type by itself and the receipt
  last. Correct means: a row is claimed once, SENT rows are stored, valid rows
  never end in FAILED, settled rows stay settled, resends are accepted.
* **Board and numbers.** Request threads at READ COMMITTED, some with row locks,
  some with none, some acting on copies a view read earlier. Correct means: a
  device is not given away twice, an order is READY when and only when its work is
  done, a finished batch is not reopened, open cards have numbers of their own.
* **Demonstrations.** A run is loaded without a lock and written back by columns while ticks,
  polls and people act on it. Correct means: a run that is done ends, one that is on has its
  cards.
* **Sheets.** Board and sheets read different stamps of the same moves, around the clock; several
  people post a plan whole that each of them has changed a little; corrections of the forecast are
  answered in any order. Correct means: board and sheet count the same batches, what
  somebody decided stands, a page shows what the server would.
* **Voice.** A recording passes a browser or a telephone, a pool of workers and
  a callback that may be late, lost or repeated, and races with operators who
  confirm or reject while the board moves the same batches. Correct means: what
  was broken off or called off is not sent, a recording has one task and keeps its
  verdict, it is carried out once, on the batch as it stood when it was heard, and
  completely or not at all; nothing waits for ever.
* **Quality.** Services decide on what they read, without a lock. Correct means:
  no step is skipped, no critical defect is overlooked, no task is opened twice.
* **Analytics.** Answers are computed by threads while logs change, imports
  overlap, and a page asks for several answers at once. Correct means: no answer is
  older than its question, no document is skipped without a reason, figures made by different
  functions agree, a page shows what belongs together.
* **Twins and stream.** Saves of the board start threads that read the board later and
  send what they read, in no order and without a second try. Correct means: what is
  shown is what stands there once nothing is under way, but for mishaps one can name.

## 2. Modules

| module | models | |
|---|---|---|
| `EventExport` | outbox, exporter, deletion of parents | open: any answer or failure may come back |
| `EventIntake` | `import_events` and the tables behind it | open: any client, any packet, any repetition |
| `EventPipeline` | the two joined by HTTP | shares `packet`; `Request`, `Response` synchronise |
| `EventDelivery` | the abstract promise about one event | `EventPipeline` implements it |
| `Board` | batches, devices, orders and the requests about them | |
| `CardNumbers` | numbers of orders and cards | confirmations as transactions that overlap |
| `BoardScreen` | the board in a browser | the server is a table and a marker |
| `VoiceWidget` | the button of the browser | the server may answer anything |
| `Transcription` | upload, receipt, pool, callback | what the callback makes of it is `VoiceCommand` |
| `VoiceCommand` | recordings, texts, their commands | the rest of the board is `Elsewhere` |
| `SpeechPhone`, `SpeechRelay` | the telephone; backend, gateway and QMS endpoint | |
| `SpeechPath` | the two joined by HTTP | `PostText`, `ShowReply` synchronise |
| `Quality` | objects, tasks, cards, defects | |
| `MiningCache` | questions, threads, cache | an answer is the events it was computed from |
| `LogAnalysis` | the figures, as operators on sequences of rows | no state |
| `OneC` | the connector, and the figures of what it leaves | extends `LogAnalysis` |
| `Studio` | the console page | the server is logs and their versions |
| `TwinMirror` | pushes to the digital twins | the board is where batches stand and their status |
| `PointStream` | points of moves and states in InfluxDB | the same |
| `DemoRun` | demonstrations and what people do to their cards | a card is its post, its run and its stock record |
| `DaySheet` | the sheet of a day and the column "done" of the board | a batch is its place and three stamps |
| `PlanSheet` | the plan of a date on several screens | one quantity per product, in halves |
| `ForecastPage` | the forecast and the corrections made on its page | a page is a function of its parts |
| `MC*.tla` | the small instances | with their `.cfg` files |
| `EventPipelineProofs` | theorems about `EventExport`, `EventPipeline` and `OneC` | with the promises of `EventIntake` |
| `BoardProofs` | `Board` and `BoardScreen` | |
| `CardNumbersProofs` | `CardNumbers` and `DemoRun` | |
| `VoiceCommandProofs` | `VoiceCommand` | |
| `SpeechPathProofs` | `SpeechPath`, `DaySheet`, `PlanSheet` and `ForecastPage` | |
| `QualityProofs` | `Quality`, `TwinMirror` and `PointStream` | |
| `RecordingProofs` | `Transcription` and `VoiceWidget` | a recording, from the button to its text |
| `AnalyticsProofs` | `MiningCache` and `Studio` | the service and its console |

`VoiceWidget`, `Studio`, `BoardScreen`, `TwinMirror`, `PointStream`, `DemoRun`, `DaySheet`,
`PlanSheet` and `ForecastPage` are extended by a module of proofs together with another one; their
`Init`, `Next`, `Spec` and tuple of variables bear names of their own. `MCBoard` and `MCAnalytics`
check two such modules in one run, `MCShowcase` six: they share no variable, and one moves only while
the others rest, so the states of the run are the sum of theirs.

Definitions named `...As`, or introduced by "Fault:", are parts of or variants of
an action; a variant is what the action would be with a plausible bug in it. They
are not part of any `Next`; `PROJECT.json` pairs each with the property that
notices it (`mutants`).

### EventExport

`status`, `attempts`, `exportOf`, `linked` are columns of `ProcessEvent`;
`exports`, `packet` of `ProcessEventExport`; `pc`, `key`, `held`, `seen`,
`refused` are the locals of one call of
`export_pending_events_to_process_mining`. `Claim` is its first transaction (select
with `skip_locked`, mark PROCESSING, create the export row). After it every
`save()` commits by itself, so `ApplyOne` and `RetryOne` handle one row each, in
any order, with `Finish` or `Fail` around them. `LoseRow` is a `save()` on a
deleted row: with `update_fields` Django raises, and the thread leaves the rest as
it is. `Abort` is the death of the thread.

Deleting a parent is one transaction of two statements at READ COMMITTED:
`DropUnsent` deletes its events that are not SENT, `DeleteParent` deletes the
parent and clears the foreign keys of those that remain. Another transaction may
commit an event in between. The model lets the first statement be seen before
the second commits, which adds interleavings and hides none.

Events are numbered in the order of `(created_at, id)`. The text of the CSV is a
set of events, the errors of the answer a subset of it.

### EventIntake

The handler is a coroutine that does not await after reading the body, in one
process, so requests are handled one after the other (`current`); what may fall
between its steps is failure. `Append` is one SQLite transaction per case type,
`Respond` writes the receipt and answers. `AppendFails` (locked database, full
disk), `Refuse` (damaged body) and `Crash` are bounded together by `MaxFaults`.
`arrived` is a history variable: events that were ever stored. It exists because a
log may be deleted, which takes nothing back of what was delivered.

### EventPipeline and EventDelivery

A packet is posted under the id of its export. `Request` puts it on the wire and
`Response` delivers a 200 with the rejected rows; every other outcome - a status, a
lost connection, a timeout before, during or after the import - is `Fail` of the
outbox, which needs no permission from the intake. `EventDelivery` knows only the
phase of an event, what was offered and what arrived; the refinement mapping reads
the phase off the status (`PhaseOf`) and `offered` off the packets.

### Board

`req[w]` is the request a thread is in the middle of, and the row locks it holds
are read off it. `MoveLock` is the part of `move_batch` up to its last query,
`MoveCommit` its commit; `select_for_update` together with `select_related`
locks the batch, its order item, its order and its stage. The lock on the order
is what makes `LastBatchFinishesOrder` true. The row of the stage is left out: it
only excludes interleavings. `AssignRead`, `AssignLock`, `AssignCommit` separate
what the view read from what the transaction sees; `StatusRead` and `StatusWrite`
do so for pause, resume and cancel, which have neither a transaction nor a lock.

`revived` remembers batches that a late write took out of COMPLETED or CANCELLED.
The properties except them, because the code does allow that (section 5), and
everything else must hold in spite of it.

Several rows of one request are locked in one step. Where the code locks one
after another two requests may deadlock; PostgreSQL then aborts one, which
changes no row. Requests that are refused change nothing and are not steps.

### VoiceCommand

`Hear` takes the lock on the voice message, `Understand` writes the command,
`Confirm` / `ConfirmText` enter `confirm_voice_command`, `TakeLead` and
`TakeExtra` lock and check its batches, then `Execute` commits everything or
`Refuse` takes everything back. `Tell` is PushToTalk, which commits the command
before it carries it out; `Mark` is its `_mark_needs_review`; `Reject` writes its
status without looking. What was said is data (`Lead`, `To`, `Also`); what the
program makes of it depends on the batches (`HeardFrom`, `HeardAlso`).
How sure the recognition was is a free choice. A user to act for is taken to be
configured, and comments and permissions in order.

### CardNumbers

`confirm_order` is one transaction: `Load` reads the order, `Reserve` /
`Reserved` find and insert an order number (a number somebody else inserted and
has not committed makes it wait, one that is committed makes it fail), `Plan`
/ `Numbered` choose the numbers of the cards from what is committed, `Commit` writes.
Django drops `FOR UPDATE` from the aggregate that reads the maximum, so nothing is
locked. `serial` and `crossed` are history variables: whether confirmations have
overlapped, and of which days two have. `OneCardPerNumber` speaks of runs without any
overlap, `DayIsDistinct` of days without one, whatever happens on other days.
Orders are repeated, re-dated, deleted and get items between and during
confirmations.

### BoardScreen

Elements of the page are pairs of a card and the drawing it was made for, because
a redraw replaces all of them and a held one then belongs to no lane. `Mark` is
`kanban_change_marker`, `Tell` the stream that compares it, `Changed` is
`refreshFromEvent`, `Redraw` / `Retry` / `Drawn` are `refreshBoard` with its
waiting, its fetch and what follows it. A move is shown before the server agrees;
`Served` and `Answered` are the two ends of its request. `excused` collects the
reasons for which the code lets the page fall behind, and `CaughtUp` says that
there is no other one: a deletion that leaves the marker as it was, the first marker
of a new stream, an event during a redraw, a tap while a redraw waits, a flag
that is set while the redraw it asked for is under way and cleared with it, a page
overtaken by a newer one, a page that comes while a card is held, a card dragged
again before its move is answered, a card whose neighbour has left its old place
(`insertBefore` throws), and a request for the page that fails.

### VoiceWidget

Module variables of the script are the variables of the model, with the number of
the press that wrote them. Everything awaited is an action of its own:
`MicGranted`, `RecorderStopped`, `UploadDone`, `PollAnswered`, `ConfirmAnswered`,
so that it may come back during a later press. `aborted`, `sent` and `raced` are
history variables.

### Transcription

`Upload` and `Send` are the QMS, `Accept`, `Submit` and the steps of `Work(t)` the
analytics service. The pool is `queue` and the jobs and telephones that are being
worked on, `Slots` of them; a job that posts its callback keeps its place through
every retry, as `send_callback` sleeps in the worker. Receipts survive a `Restart`,
jobs do not. The upload request itself may end late: `call` says where it is, and
its answer is written to the recording without looking.

### SpeechPhone, SpeechRelay, SpeechPath

`Tap` is the handler of the button on the main thread; `StartEnters`, `Opened`,
`StopEnters`, `Stopped`, `Transcribed` are the engine on its pool, which checks and
sets `isRecording` without a lock. A text waits in `job` while `pendingJob` points
to it. The relay saves a text, publishes it (`Publish`) and posts it; the gateway
hears it (`Hear`) and posts it too. Both requests run `LookUp`, `Insert`,
`Confirm`, `Mark` of `PushToTalkTextCommandView`, in which a worker may die
(`Crash`). `auto` counts how often the endpoint carried a text out.

### Quality

Services that decide on what they read are split: `StartReads` / `StartWrites`
and `CompleteReads` / `CompleteWrites`, with what was read in `pending`; the others
write whatever they find and are one step. `checked` records the steps an object
passed with a conforming card, `irregular` the objects for which a late write, a
reinspection's card or a registration that overtook a completion broke the usual
order. The safety properties except those objects and say so.

### MiningCache

A handler reads log and version on the event loop (`AskLog`), a thread looks the key
up, computes and stores (`Lookup`, `Compute`), while the loop appends, deletes
and creates logs. A stream log that is created again keeps its id. The version in
the key (`updated_at`) is what keeps a late thread from poisoning the cache:
clearing by prefix alone does not (that is the mutant `KeyOfLog`).

### LogAnalysis and OneC

`LogAnalysis` holds the canonical frame, the arcs of the map with their waiting
times, throughput, waiting per activity, routes, rework, self-loops, anomalies
and the filters, each translated from the function that computes it, with the
ordering and grouping that function does itself. `OneC` produces logs: documents are
posted, backdated and taken back while an import reads page after page, collapses
repeats, and pushes. The pages are counted with `$skip` in a listing that changes between them:
`Place` is where a document stands in it, `run.skip` how far the import has come, and `Unpost`
remembers in `run.taken` a document that is taken back when the import is past it, because all
behind it move up one place and the first of the next page is passed over. `run.due` are the
documents posted when the import began and still posted; `SkipsAreExplained` says that of them an
import that ends well misses none, but for as many as were taken back before them.
`AnalysisAgrees` compares the figures of every log any
sequence of imports leaves; the time on the arcs (`Flow`) is told in seconds (`UnitSeconds` for
a unit of the model, a day) and, as in the code, as one second where a log has no waits at all;
`RepeatsAreExplained` says also that no document is in the
log twice (`StoredOnce`), although one of an earlier date entered between two pages makes
an import read a document on both. What 1C lists, the rows by case and time and what is picked from a sequence are
written with `InOrder`, which gives each element of a finite set the place that the number
of those before it says: the order of the code's sorts, which are stable, in a form the
provers can see into. `MCOneC` also evaluates laws of the operators (a frame
uploaded again is the same frame, filters keep whole cases, the number of waits it
takes before anything is called an anomaly) over all short logs.

### Studio

On the server a log is `life` and `imports`, the number of times events were added. Every
request is a record in `net` with what it was asked for and `seen`, the states of the log it has
met. The six requests of `loadCore` are one record, as their answers are shown together or not at
all, but `Serve` serves them one by one: each step answers another one, from the log as it is
then, and any step may be the last. Likewise `loadEvents` asks page after page (`PageArrives`
sends the next one, `EventsArrive` has the last). An answer may arrive at any time
after that. `figures`, `analyst`, `raw`, `cases` remember log, filter and states of the log they
were made from. The list of cases is made in the browser, which does not apply the coverage of
variants: `Local` is what is left of a filter without it, so figures and cases may be of
different cases, and `ScreenAgrees` asks of each what its side applies.
`excused` collects the reasons, each with the log it is about, for which the page may show what
does not belong together (listed at `ScreenAgrees`): failures, an overtaking answer, a late
retelling, an import into a log of which the page has something or is fetching it.
`FiguresAreOfTheLog` speaks of the time until every answer has come: figures of another log stay
only while those of the open one are on the way or will be asked for, or after that has failed.
It says nothing of what the user is told, and the user is told nothing (section 5).

### TwinMirror

A save of a batch looks up the device its row had (`Move`, `Place`, `Look`: the `pre_save`
signal), writes the row and, with the commit, leaves one push for each device involved
(`Commit`, `Pushed`). `Load` is the earlier read of the services that act on a copy: the
instance's own device, which `Pushed` also names, is the one it was loaded with. Only `Move`
locks the row. A push fetches the device's row (`Fetch`), reads who stands there (`Read`) and
writes (`Deliver`), or fails (`GiveUp`); `Restart` takes all of them along. `Repair`, `SetTwin`,
`ClearTwin` and `SyncTwins` are the admin page and the two commands. `changes` and `shown`
count what a device shows and what a push had seen of it; `behind` collects the devices whose
twin nobody promised to refresh, and `MirrorCatchesUp` says that there are no others.

### PointStream

The same saves, seen by the signals of `influx.py`. `Shift` is `move_batch` with its row of
history, one step because the row of the batch is locked; `Choose` / `Placed`, `CallOff` /
`CalledOff` / `Removed` are the others with their look. A row becomes a line when a thread or
`sync_influx` makes it (`Make`), with the machine of that moment (`PointOf`); the line arrives
(`Pour`) or is lost (`Spill`). A state is read (`Ask`), stamped (`Stamp`) and stored (`Tell`) if
it is not lost (`Unsaid`); the panel shows the point with the latest stamp. `lost` and `adrift`
remember what was lost or told in the wrong order. Batches exist from the start; creating one
adds a row of history like a move.

### DemoRun

`demo` holds the rows of the runs, `tray[i]` the card DEMO-B-i: its post, the run it belongs to
and the run of its stock record. A view loads a run (`ReadRun`), writes its status with one
statement (`Act`, which looks at the copy only to start; `DriverGivesUp` is the end of
`run_demo_until_done`) and answers with `demo_status`: it counts the cards (`CountTrays`) and
saves the count, and perhaps the end, by the copy it has (`SaveCount`). Only a tick locks the
run and its cards (`TickLock`, `TickCommit`). Which cards it takes first, and which of them are
refused, is left open. `CreateLook` / `CreateWrite` and `ResetCollect` / `ResetCommit` are
transactions that lock nothing they have read; `CreateWrite` takes the rows of the same
numbers over, as `update_or_create` does. `HandMove` and `HandDelete` are the board. `early`,
`reopened` and `calm` remember the three things `FullMeansClosed` and `DemoIsWhole` except.

### DaySheet

`moment` is the clock, in ticks of local time. A move to "done" takes its stamp (`SetOff`:
`actual_finish`), writes its row of the history (`Record`: `created_at`) and commits (`Arrive`), or
is rolled back (`TurnBack`); the clock may move in between. `PutOnStock` is the move to the
warehouse, with the third stamp. What the pages show is read off these: `Visible` is the
filter of the column "done", `MadeOn` the columns of the sheet that count a batch, `Opening` its
stock of the morning, `Tallied` how often a row adds it up. `Sweep` is `clear_done_board`. Demo
batches and such as a late write took out of COMPLETED, which have two rows of history, are left out; so are
stock records that are posted, changed or deleted through the REST view set of the stock, of which
`StockAddsUp` says nothing.

### PlanSheet

`Press` is any button: it sends all fields of the form, of which some (`T`) were typed over.
`WriteField` is one `update_or_create` or `delete` of `_save_production_plan`, `Answer` the order
that was queued and the new page, `Breaks` everything that ends a request early. Quantities are
counted in halves, because a broken one is shown with a comma and sent back empty (`Filled`).
`word`, `fresh` and `stale` are history variables: what was last decided, which pages know it, and
which products were written by a page that did not.

### ForecastPage

`Shown` is `predict_day` with what a manager wrote over it, `Part(x)` a cell, the total of a row or
the foot, `Sheet` the page the server would make. A correction is sent (`Correct`), saved (`Save`),
answered from a sheet made in a second look at the tables (`MakeAgain`) and shown in three places
(`Replaced`, `ShowAnswer`), or it fails and the page is loaded again (`Lost`). A request
of a page that was left goes on as an "orphan". `Others` and `Bake` are what other people change.
A field that is still open over a cell when the answer to an earlier correction of the same cell
arrives is left out, and so are products without history.

## 3. Runs

| run | shows | bounds | states |
|---|---|---|---|
| `pipeline` | claims, attempts, demo rows, resends, settled rows, SENT means stored, refinement of `EventDelivery` | 3 events (one demo, one invalid) in 2 case types, 2 exporters, 2 keys, packets of 2, 2 retries, 1 death, 1 fault of the intake | 1,144,115 |
| `board` | devices, READY, the last batch; the page catches up | 3 batches, a card of two and a single, 3 stages, 1 device, 2 threads, 4 requests; 2 cards, a pool and a device, 2 changes on the server, 2 uses, 2 fetches | 867,721 |
| `voice` | once, from where it was heard, whole | a recording posted twice naming two batches, a text, 2 threads, 2 foreign moves | 411,328 |
| `transcription` | one task, a verdict that stays, a pool that moves on | 1 recording posted 3 times, 2 telephones, 1 worker, 3 tries, 2 restarts | 111,862 |
| `widget` | nothing broken off is sent, the microphone goes off, polling ends | 3 presses | 443,050 |
| `speech` | one text under way, carried out once, the button unlocks | 3 taps, the screen left once, 1 crash | 193,370 |
| `numbers` | open cards have numbers of their own | 2 orders of up to 2 items, 2 days, 2 overlapping confirmations of 3 | 1,111,402 |
| `analytics` | no answer older than its question; figures of another log go when those of the open one come; a quiet page is of one log as it is | 1 log, 2 events, 2 files, 2 questions, 2 requests, a cache of 2, 4 changes; 2 logs, 3 filters, 2 uses, 1 import, 1 failure | 1,199,007 |
| `quality` | no step skipped, no defect overlooked, one task | 1 object, 2 steps, 3 tasks, 1 defect, 2 threads | 756,892 |
| `analysis` | skips explained, no document twice, repeats explained, figures agree | 3 documents of 2 kinds, 1 client, 2 days, pages of 2, 2 imports | 1,422,362 |
| `showcase` | twins and panels catch up, every move arrives; a demonstration ends and has its cards; board and sheet agree, a plan stands, a forecast page agrees | 1 batch, 2 devices, 1 twin, 2 threads, 3 saves, edits or commands; 2 batches, one of them a demo, 1 machine, 2 moves or commands; 2 runs of up to 2 cards, 3 posts, 2 people, 5 calls or moves by hand; 1 batch over 10 ticks, 3 a day; 1 product, 2 quantities, 2 people, 3 pages or buttons; 2 products, 1 day, 2 weeks, 2 requests, 3 changes | 889,491 |
| `stream_twice` | a move poured again can be stored twice | as above, 3 moves or commands | a counterexample |

Why the bounds are enough for what is asked. Every race in these models is
between two actors (two exporters, two requests, two presses of a button) and at
most one third party (a deletion, an operator, a restart). Two keys are needed for
a resend under a new id and for two overlapping packets, two case types for a
packet that is stored half; three events make a packet of two, one left over,
and a row of another kind. On the board a card of two and a single batch give the
same order, another order, a grouped and a plain one; five requests were run too
(1.2 million states) without a difference. `voice` needs two foreign moves
so that both batches of a command can be brought back. A third press or tap meets
what the first two have left in flight. One worker for one job and two telephones is
the smallest pool that can be held up; two restarts are a restart during the
consequences of another one. Three documents fill a page and leave one for the next,
which is passed over when one of the first two is taken back. Of the three filters one lets all
pass, and one is the other with a coverage of variants, which the browser does not apply.
Two entries are the smallest
cache in which one question can drive the other out while both are known. Each of the
reasons that the page of the board and the console excuse is met within these bounds: without the
exception for it, and without each of the cases of `FiguresAreOfTheLog`, the run ends in a
counterexample. Every property has a mutant that is
found inside these bounds. A page that is excused is not followed further in
`board`; in `analytics` neither is a console, once something went wrong that `FiguresAreOfTheLog`
does not name (`MCFollowed`), and it starts on a page other than the analyst's. Both were
also run without these cuts (2.4 and 24.8 million states). `showcase` was also run with two
batches on two linked devices (13.6 million states) and with three moves of the stream (15.5
million). A demonstration of two cards over three posts has a queue, a warehouse and an end;
five calls are a creation, a start, two ticks and one that interferes. Three ticks a day are one
for each part between two shifts, and ten moments are three days and the eight o'clock after. Two
people and three turns are two pages of which one is older than what the other posts. Of the two
products of the forecast one was made in both weeks, the other in any of them; with both free the
module alone has 233,723 states and holds as well.

Counters that only limit the search are `MaxAborts`, `MaxAttempts`, `MaxFaults`,
`MaxRequests`, `MaxPosts`, `MaxBoard`, `MaxTasks`, `MaxAsks`, `MaxRestarts`,
`MaxHolds`, `MaxTaps`, `MaxLeaves`, `MaxCrashes`, `MaxConfirms`, `MaxItems` of
`CardNumbers`, `MaxClock`, `MaxDocs`, `LastDay`, `MaxRuns`, `MaxChanges`, `Slots` of
`BoardScreen`, `MaxUses`, `MaxAppends`, `MaxFailures`, `MaxSteps`, `MaxMoves`, `MaxCalls`,
`LastTick`, `MaxTurns` and `MaxEdits`. Deadlock is not checked, because every one of these systems rests when nobody asks for anything more.
Symmetry is declared for interchangeable threads, keys, orders and logs, only in
runs without liveness.

**Fairness.** Three runs have any. `transcription`: weak fairness of the worker
that takes work, of each step of a job and of the end of a synchronous call -
threads of a pool run on, and every call they make has a timeout; none on uploads,
resends, callbacks that arrive or restarts. `widget`: a fetch ends (weak, `PollAnswered`,
`UploadDone`), and the check of the clock at the head of the polling step is
reached again and again (strong, because an outstanding fetch disables it in
between); nobody is obliged to press or let go. `speech`: threads and timers of the
telephone run, and a call ends by its answer or by the 180 seconds of
`callTimeout`; nothing is assumed of the network or the servers.

## 4. Proofs

TLAPS proves the theorems from the named assumptions on the constants alone, for
any number of events, threads, batches and so on. Each rests on an
inductive invariant with one lemma per part and one step per action.

* **EventPipelineProofs.** First the outbox on its own, against any answer. `IInv` adds
  to the promises that an exporter at work owns an export row nobody else has
  (`ThreadInv`), that what it holds is its packet minus what it has settled (`HeldInv`),
  that unused keys have no packet (`PacketInv`), that foreign keys are those of recorded
  rows (`LinkedInv`), and that an exporter's copy of a row is one attempt behind the
  packets the row is in (`CountInv`). `ClaimIsExclusive` alone is not inductive:
  nothing in it says that two exporters have different keys; nor is
  `AttemptsAreExports`, which says nothing of a row that is on its way. From `IInv`:
  `TypeCorrect`, `ExclusiveClaim`, `HonestVerdict`, `DemoStaysHome`, `AttemptsCounted`,
  and the action property `SettledForGood`.
  Then the two joined. `ImplementsExport` shows that the joined system is an outbox,
  which brings `IInv` along. `PInv` adds what a receipt, a good answer and a half-done
  import say about `arrived` (`IntakeInv`) and that an exporter applies the answer to
  its own packet (`AnswerInv`). `SentIsStored`, `FailedIsInvalid`, `ReceiptIsStored` and
  `ResendAccepted` follow, and `Implements` maps every step of either service to a step of
  `EventDelivery` or a stutter.
  Last the connector. `SkipsAreExplained` looks at `missed`, which changes only when an
  import ends; `LossesAreExplained` carries it through the pages. A document that is due has been
  read, or its kind is still to come, or it is `Lost`: it stands in the listing before the place
  the next page begins at. Up to any lost document (`UpTo`) there are no more lost ones than were
  taken back before it (`Ahead`). A document posted between two pages only pushes others
  towards the place. One that is taken back behind the place changes nothing (`NothingLost`), and
  one before it, which either was lost itself or was read, moves one document more past the place
  and is counted in `taken` (`UnpostKeeps`; that it is only one is `PlacesDiffer`: no two documents stand in one
  place). A short page is the last one because
  nothing in the listing has a place beyond it (`PageHas`). `RowsAreTrue` and `LogIsTrue` say
  that what is read and stored is what the documents say, which never changes once they are
  entered; with them an event that was read and collapsed into another of its case and
  activity is no older than that one. The operators' lemmas: `InOrder` of a strict total order is a
  sequence of all the elements, each once and in that order (`InOrderHas`), so sorting
  loses, adds and repeats nothing (`OrderedHas`, `ByTimeHas`), what is picked keeps its order
  (`AscendingHas`, `PickedWhereHas`), `collapse_repeats` keeps the earliest of a case and
  activity (`FirstOfEachHas`) and `_drop_known` one event of a document, if it is not stored
  (`UnknownHas`). Proved: `OneCTypeCorrect`, `SkipsHaveCauses`, `NoRepeatUnexplained`,
  `DocumentsAreStoredOnce`, from `OneCAssumption`: page, month and the number of documents
  are positive, clients have positive numbers (so a name is never the head of a key).
* **BoardProofs.** `IInv` adds what a request in flight may rely on until it
  commits: order and device have one holder (`OneHolder`), the device has no
  other occupant (`PlaceIsFree`), the verdict on the order still holds
  (`VerdictHolds`), locked batches stay open (`MovesAreOpen`), and rows exist
  (`RowsExist`, `DoneIsClosed`). `PlaceIsFree` and `VerdictHolds` are the content: they
  carry a query's answer to the commit. Proved: `TypeCorrect`, `OneOvenOneOrder`,
  `ReadyIsFinished`, `LastBatchCounts`, `FinishedIsKept`.
  For the screen, `ScreenCatchesUp`. `CaughtUp` speaks of quiet moments, which nothing leads
  to; `ScreenInv` says what holds on the way there. The last mark told is the last one in the
  mail or the one taken over (`Told`), a page that was made shows the board of its time
  (`Faithful`), and while nothing was excused (`Agreed`): somebody will clear the flag
  (`Owed`); the page is up to date, or is being fetched, or somebody will ask for it, or the
  mark says so (`UpToDate`); what is held is of this page (`OfPage`) and is one card at a
  time (`Once`); and while the board has not changed since the page was made, the page
  shows it but for what is being moved, which knows its way back (`Content`). That a
  change always makes a new mark rests on the greatest number of a finite set
  (`MaxIsHighest`, by well-founded induction on its subsets).
* **CardNumbersProofs.** Both properties are about cards that are there; `IInv` carries
  them through a confirmation. What a request is about to write differs from every card it
  will stand beside (`PlanDiffers`); requests of one day, and any two, have left their
  trace in the histories (`Alone`); of an uncrossed day the closed cards differ as well,
  because the highest number of the day is looked for among all (`DayDiffers`). Of the
  operators it needs that counting on always ends at a number above the one it began with
  that no other card bears (`NextFreeIsFree`: of n + 1 numbers n busy ones leave one), and
  that this goes for each card of an order (`CountOnSkips`). Proved: `TypeCorrect`,
  `OneNumberOneCard`, `DaysAreDistinct`. The attempt found an error of the model:
  `DayIsDistinct` used to ask that confirmations of the day be alone in the whole run, which
  four confirmations refute; hence `crossed`.
  Of `DemoRun`, `DemoInv` says what a call in flight may rely on. A tick has its run for itself
  (`OneTick`), which is RUNNING, and its cards are still on the run and short of the last post
  (`TickHolds`, `TrayAtPost`); a run that is not active any more is over or was reopened
  (`StaysActive`). Until somebody interferes (`calm`), one creation or reset at a time is past its
  look (`OneCrowds`), a creation that has looked can rely on there being no open run
  (`LookedMeansNone`), and a reset on the cards it collected being its run's
  (`CollectedIsItsOwn`); so the cards of the run that is on are its own. Proved: `DemoTypeCorrect`, `RunningWhileItTicks`, `FullRunCloses`,
  `RunKeepsItsCards`.
* **VoiceCommandProofs.** `HeardOnce` is not inductive: a command that somebody
  is carrying out again would have to be excluded first. `IInv` says that a voice
  message has one holder from the look at its command to the commit (`OneHolder`),
  that a held recording has not been carried out and one carried out is closed
  (`NotTwice`), and that only texts are re-entered after a commit (`TextsOnly`).
  For the batches: locks are disjoint and cover what will move (`LocksHeld`), so
  what was checked of the first batch still holds at the commit (`LeadStands`).
  Proved: `TypeCorrect`, `CarriedOutOnce`, `MovesFromWhereHeard`, `CarriedOutWhole`.

* **SpeechPathProofs.** `CarriedOutOnce` needs that of the two requests for a text
  at most one has stored it and that this one has not confirmed it yet
  (`OneConfirmer`), which holds because the id is unique and the look-up is repeated
  by the insertion. For the telephone: a text has a job only after its tap is over
  (`JobOfTap`), a posted text has left its countdown, one called off was still in it
  (`PostedOrNot`), and the relay has nothing the telephone did not post
  (`CameFromPhone`). Proved: `TypeCorrect`, `TextCarriedOutOnce`, `OneTextAtATime`,
  `CalledOffStaysOut`.
  Of `DaySheet`, `SheetInv` says that the stamps of a batch follow one another; the rest is
  arithmetic of days: days do not overlap (`DaysApart`), the shifts of a sheet follow one another
  without a gap (`ShiftsFollow`), so what a sheet counts is in one column (`OneColumn`). Proved for
  any length of day and hours of the shifts: `SheetTypeCorrect`, `BoardTellsTheSheet`, `StockAddsUp`.
  Of `PlanSheet`: a page that knows a decision shows it, and so does a request that knows it and
  has not written it yet (`PageKnows`, `PostKnows`), so what is sent along unchanged rewrites the plan
  as it was. Proved: `PlanTypeCorrect`, `DecisionStands`.
  Of `ForecastPage`: as long as nothing was excused, each part of the page is `Awaited` (a
  correction that replaces it was saved and is not yet answered), `Coming` (an answer under way has
  it as the server would make it, and those that have it otherwise are older) or `Standing` (the
  page shows it as it is, and an answer that has it otherwise is older than one already shown). That a correction changes only the parts its answer replaces is
  `CorrectionIsLocal`. Proved: `ForecastTypeCorrect`, `PageShowsTheSheet`.
* **RecordingProofs.** Of `Transcription`, `IInv` says that a task is the one its recording is filed
  under (`Filed`), keeps the verdict it has (`OneVerdict`), that what a callback in
  flight tells is settled (`Told`), that a COMPLETED recording is so by its task
  (`ByVerdict`), and that a task waits in the queue once, before it has begun
  (`Queued`). Without `Queued` a task could be run twice with two verdicts, which is
  what would undo `CompletedStays`. Proved: `TypeCorrect`, `OneTaskEach`,
  `CompletedForGood`.
  Of `VoiceWidget`, `WidgetInv` says that only the recorder on record stops, and that
  nothing is begun before it has (`OneRecorder`), that a press waits for permission once
  (`Unasked`), that the shared flag is that of the recording it will be read for
  (`BrokenOff`), and that but for a race only one stream is live (`OneStream`). Proved:
  `BrokenOffIsNotSent`, `MicReleased`.
* **AnalyticsProofs.** Of `MiningCache`: what is known is what the cache holds and what threads are
  about to store. No version is later than the clock (`Stamped`), what is known under
  the version a log has is what it holds (`Current`), and one version has one
  content (`Agree`), also for versions that are gone. Proved: `TypeCorrect`,
  `AnswersAreCurrent`.
  Of `Studio`: one question is asked at a time and all turns are of its log
  (`Conversation`), and as long as nothing was excused the figures that are wanted were
  asked for after all others (`Asked`), or have come and with them the list of cases or its
  request (`Brought`, `Listed`), or the list of logs is under way, after which they will be
  asked for (`Screen`); and what the page has of a log, or has been answered of it, is of the
  log as it is, each answer of a batch and each page of events (`Fresh`). That needs a fact about
  what is half answered: it has met the log in its present state only. `FiguresAreOfTheLog` is
  inductive as it stands. Requests are numbered, and a new one has the greatest number
  (`RequestIsLast`). Proved: `FiguresBelong`, `HistoryBelongs`, `ScreenIsTrue`.
* **QualityProofs.** An object that is ready, or that a thread has found free of
  critical defects and is about to complete, has none a manager did not approve
  (`Clearance`, with `Approvals`); the route's open tasks stand alone at their posts
  (`Alone`); cards and defects refer to rows in use (`Referenced`). That the next
  required step exists whenever there is one uses well-founded induction on the
  steps. Proved: `TypeCorrect`, `ReadyIsApproved`, `StepsPassed`, `OneTaskEach`.
  Of `TwinMirror`: `MirrorCatchesUp` speaks of devices nobody is pushing; `MirrorInv` says what
  holds on the way there. A push that has seen the last change of its device carries what the
  device shows now (`PushesAreSound`), a move finds the device it looked up because it holds the
  lock (`MovesAreLocked`), and a linked device that is not excused is shown as it is, or its last
  change is on the way to the twin it is linked to (`Promised`). Its core is `CommitKeeps`: a
  commit changes what a device shows only if the batch stood or stands there, and both are
  pushed unless the row had changed devices since the look. Proved: `MirrorTypeCorrect`,
  `TwinsCatchUp`.
  Of `PointStream`: a row that was not lost has its point or a line under way (`RowEnsured`); a
  reading that has seen the last change says who stands there now, and no stamp is later than
  the clock (`ReadingsAreSound`); the panel has seen the last change of a machine that is not
  adrift, or such a reading, or one not taken yet, is under way (`Ensured`). Proved:
  `StreamTypeCorrect`, `EveryMoveArrives`, `PanelCatchesUp`.

The invariants were checked by TLC, on the bounds of the runs, before they were proved.

Some theorems state what no run has as a property: `SentIsStored` and `ReceiptIsStored` (which
stand behind the refinement checked as `ImplementsDelivery`), `FinishedIsKept`, `HonestVerdict`,
`DaysAreDistinct`, `RunningWhileItTicks`, `CalledOffStaysOut`, `HistoryBelongs`, `StockAddsUp`, and the
type invariants.

Only model-checked: the liveness properties `PoolMovesOn`, `PollEnds`, `ButtonUnlocks`,
which are out of the prover's reach, as is ENABLED; and `AnalysisAgrees` of `OneC`, whose
figures are sums folded over sequences and sets: their laws would need induction over data,
through library theorems that take an operator as a parameter. In the modules with
proofs the code's loops over data are sets, sequences given by the place of each element
(`InOrder`) or recursive functions over a few numbers (`CountOn`), for which cardinalities and
well-founded induction on a set are enough.

## 5. Where code and documents disagree

What was met while modelling. The models contain each of these behaviours; the
properties are worded so that they hold in spite of it, and say where they except it.

1. *Stranded rows.* `mark_retry` (`process_mining/services.py:260`) raises when a row
   was deleted meanwhile, and the rest of its packet stays PROCESSING, although
   `docs/process_mining_csv_integration.md:94` says that a temporary error leaves
   events for another try. In the model: `LoseRow`.
2. *A 5xx does not mean "not counted".* `docs/EVENT-LOG-INTAKE.md:146` says it does;
   the events may all be in the log when the receipt fails or the call times out.
   The resend is harmless (`ResendIsAccepted`).
3. *Demo events.* An event recorded between the two deletions of `reset_demo`
   (`kanban_demo.py:326`, comment at 322) loses what marks it and is exported.
4. *One device, one batch.* `models.py:411`; the occupant query leaves out the whole
   order, also one that is not a grouped card (`bakery/services.py:279`).
5. *A device of a stage that was left.* `bakery/services.py:270` checks a copy that
   nothing locks; the comment at 547 says a device is released with its stage.
6. *A late pause* overwrites COMPLETED (`bakery/services.py:613`).
7. *The others arrive.* The comment at `voice_process_mining.py:920` promises it for the
   batches of one breath; the refusal at 936 rolls all of them back.
8. *Two active cards, one number.* Confirmations that overlap can give the cards of two
   orders one number, of two days or of the same; `tests/test_kanban_card_number.py:167`
   excludes it by its name. `OneCardPerNumber` is stated for confirmations one after the
   other, `DayIsDistinct` for days whose confirmations have not overlapped.
9. *Files of `/mine`* are cached under their parameters alone, so another file may
   get the answer of the first.
10. *"Keeps the first occurrence of each activity per case"* (`onec.py`) holds
    within one import; across imports windows slide and documents are backdated
    (`RepeatsAreExplained` says exactly when). Without the catalogue of clients a case
    is split. `variant_coverage` keeps the routes whose shares add up to at most
    the given one, while `schemas/mining.py:53` speaks of covering it. An arc with fewer than
    twelve waits has no anomaly, whatever `MIN_EDGE_SAMPLES` says.

11. *Pouring twice.* `sync_influx.py:5` says that points are idempotent; `influx.py:79` tags the
    point of a move with the machine the batch stands on when the point is made. Poured again
    after its batch changed machines, a move is stored twice (run `stream_twice`). As
    `move_batch` takes the batch off its machine in the transaction that writes the row, the
    point sent after the commit usually has no machine at all, unlike the one at `influx.py:11`.
12. *Factory, not rehearsal.* `influx.py:239` and `tests/test_influx.py:215` keep demo batches
    off the public panel; `sync_influx` (line 92), and any save of a batch of the factory, tells
    the state of a machine with the demo batches on it (`Now` in `PointStream`).

13. *Reset of one run.* `reset_kanban_demo.py:8` promises to delete the data of the run. A card
    that an earlier run brought to the warehouse keeps that run's stock record when a new run
    takes its number over; the record protects the card, so the reset of the new run fails
    (`Protected` in `DemoRun`).

Smaller things the models show, which nothing in the repository denies:

* *Telephone.* A second tap on stop transcribes the recording twice; starts that
  overlap orphan a recorder; a start that fails leaves `isRecording` set when it
  overlapped another; the release of an old screen kills a new recording; a text that
  was refused or timed out may have been carried out, and a resend has a new id.
* *PushToTalk.* A crash between insertion and confirmation leaves a text DETECTED
  (`api.py:605`); the gateway's request, without a session, may win the id.
* *Widget.* Pressing twice while permission is pending orphans a stream; a stale
  timer can end a newer countdown.
* *Upload.* A late answer of the relay overwrites a COMPLETED recording while the
  upload request lasts (`voice_process_mining.py:223`).
* *Quality.* A defect may be reopened, or registered late, on an object that is ready;
  `card_save` writes to a completed card; closing and reinspection act on GET.
* *Numbers.* A repeated confirmation renumbers cards after an item was added;
  `confirm_order` does not look at the status; the number of a deleted order comes back.
* *Board screen.* A changed event is dropped while a redraw is under way (`kanban-demo.js:835`)
  and the comment at 841 describes just such a loss; the first marker after a
  reconnection is taken over without a redraw; a deletion may leave the marker as
  it was; a page that was asked for before a drag replaces the card under the finger.
* *Twins.* An admin who puts a device on repair, or links a twin, pushes nothing; a push for a
  device that lost its twin meanwhile overwrites the card of the twin's new device; a late
  thread takes a twin back (`twins.py:275-293`), and only `sync_twins` repairs that.
* *Demonstrations.* Two creations at once make two runs, of which the first loses its cards; a
  card that was cancelled keeps its run from ending, until the driver gives it up as FAILED;
  a pause that is late opens a finished run again. A new run takes over cards with their
  device and the time they were swept off the board.
* *Sheet of the day.* A batch stocked before the first shift and finished during the sheet is in the
  opening balance and in what was made, so the closing balance counts it twice (`Tallied`). The
  opening asks what is AVAILABLE today, also on a sheet of the past (`views.py:1057`).
* *Plan.* `_save_production_plan` is described as saving what was changed (`views.py:1088`), but every
  button sends all fields: sums of orders become a plan and follow the orders no more, an older page
  takes back what others decided, and a broken quantity, shown with a comma, comes back empty
  and erases its plan.
* *Forecast.* When answers cross, the older totals stay; a change by others alters the totals of the
  days on the page of whoever corrects next, without the cells they are made of.
* *1C.* Pages are counted with `$skip` (`onec.py:81-90`): when a document that was read is taken
  back before the next page is asked for, one that is still posted is passed over, and the
  import ends as if nothing were amiss. The next import whose window holds it reads it.
* *Dashboard.* A log without any waits, of one event or of events of one moment, is told a total
  flow of 1.0 s (`metrics.py:174`, there to divide by) beside a throughput of 0.
* *Console.* As long as there are figures, whatever they are of, the page shows neither that it
  loads nor that something failed: both are drawn only on an empty page (`studio.js:679`,
  737, 1054, 1353, 1868, 1950), so figures of the log that was open before stand under the new
  one's name, for good if its own fail. Figures of an earlier filter can overwrite those of a later one
  (313); the six requests of a batch (303) are served one by one, and an import between two of
  them mixes two states of the log; events are fetched once per log, so after an import figures and
  cases differ (321); the list of cases is not reduced by the coverage of variants (262), as the
  form says; a late retelling is filed under the log that is open by then
  (1730); a failed upload list leaves old figures under the new log; an answer to a
  cleared chat is appended.

## 6. Not modelled, and why

* **Automatic export trigger** (`process_mining/services.py:41-105`): when an export
  starts is left open in `EventExport`. Its flag survives a rollback (line 81).
* **Speech understanding**, **assistant**, **language model**: rules over words and
  text generation, without state; what comes out of them is data of the models.
* **pm4py** discovery and conformance: a library.
* **Reports, dashboards, equipment, accounts, permissions, audit,
  notifications, speech model server, deployment**: plain CRUD, reading, refusals,
  or configuration.
* Inside the modelled parts: comments, quantities, stock, history rows and
  permissions, which refuse a request or follow it; REST PATCH of a batch and the
  generic writes of the quality and stock view sets, which write any column; device repair;
  deadlocks of two requests, of which PostgreSQL aborts one without a change;
  corrective actions (one of their services is never called); Hold mode of
  the telephone; among the filters of a log, `date_to`, `cases`, `include`, resources
  and the maximal length, which work like those that are modelled.

What could come next: refinements of abstract specifications of the board and of voice
commands; the trigger with the life cycle of a connection; `Board` together with the
events `EventExport` records.
