--------------------------- MODULE Transcription ---------------------------
(***************************************************************************)
(* A recording on its way to text.  The QMS stores it and posts it to the  *)
(* analytics service, which keeps a receipt, answers with a task number    *)
(* and transcribes it on a pool of workers; the verdict comes back in a    *)
(* callback that is tried a few times.  Telephones use the same pool over  *)
(* a synchronous call.  Answers and callbacks are late, lost or repeated,  *)
(* and the analytics service restarts: receipts live in SQLite, jobs in    *)
(* memory.  What the callback makes of the text is module VoiceCommand;    *)
(* here a command only has the status its transaction commits.             *)
(***************************************************************************)
EXTENDS Naturals, FiniteSets, Sequences

CONSTANTS
  Clips,        \* voice messages, each under its client_request_id
  MaxTasks,     \* bound: tasks the analytics service ever creates
  Phones,       \* synchronous calls of /transcriptions/sync
  Slots,        \* max_workers of the job manager
  Tries,        \* callback_retries
  MaxAsks,      \* bound: recordings posted again by their source
  MaxRestarts   \* bound: restarts of the analytics service

Tasks == 1 .. MaxTasks
NoTask == 0
Verdicts == {"completed", "failed"}

ASSUME ClipsAssumption == "none" \notin Clips
ASSUME PhonesAssumption == Phones \cap Tasks = {}
ASSUME PoolAssumption == Slots \in Nat \ {0} /\ Tries \in Nat \ {0}
ASSUME TranscriptionBounds ==
  MaxTasks \in Nat /\ MaxAsks \in Nat /\ MaxRestarts \in Nat

VARIABLES
  voice,     \* VoiceMessage: transcription_status, external_task_id, transcript
  command,   \* VoiceCommand.status, "none" before there is one
  call,      \* how far the upload request of the QMS has come
  inbox,     \* recordings posted and not yet received
  receipt,   \* analytics: the task filed under stt:<client_request_id>
  job,       \* analytics: the background half of a task
  phone,     \* analytics: the synchronous calls
  queue,     \* ThreadPoolExecutor: work no thread has taken yet
  callbacks, \* callback requests on their way: task and attempt
  asks, restarts

qms == <<voice, command, call>>
pool == <<job, phone, queue>>
bounds == <<asks, restarts>>
vars == <<qms, inbox, receipt, pool, callbacks, bounds>>

NoJob == [clip |-> "none", at |-> "none", try |-> 0, verdict |-> "none"]
Holding == {"running", "posting", "listening"}

-----------------------------------------------------------------------------
(* QMS: VoiceMessageViewSet.create and send_voice_to_process_mining *)

(* The row is committed before anything is sent. *)
Upload(c) ==
  /\ call[c] = "none"
  /\ voice' = [voice EXCEPT ![c].status = "uploaded"]
  /\ call' = [call EXCEPT ![c] = "stored"]
  /\ UNCHANGED <<command, inbox, receipt, pool, callbacks, bounds>>

Send(c) ==
  /\ call[c] = "stored"
  /\ inbox' = inbox \cup {c}
  /\ call' = [call EXCEPT ![c] = "waiting"]
  /\ UNCHANGED <<voice, command, receipt, pool, callbacks, bounds>>

(* No connection, a refusal, or PROCESS_MINING_TIMEOUT_SECONDS: the status is
   saved from the copy this request loaded.  A recording that timed out may
   arrive all the same. *)
SendFails(c) ==
  /\ call[c] \in {"waiting", "answered"}
  /\ voice' = [voice EXCEPT ![c].status = "failed"]
  /\ call' = [call EXCEPT ![c] = "over"]
  /\ inbox' \in {inbox, inbox \ {c}}
  /\ UNCHANGED <<command, receipt, pool, callbacks, bounds>>

(* The answer is written over whatever a callback has made of the row. *)
TakeAnswer(c) ==
  /\ call[c] = "answered"
  /\ voice' = [voice EXCEPT ![c].status = "processing", ![c].task = receipt[c]]
  /\ call' = [call EXCEPT ![c] = "over"]
  /\ UNCHANGED <<command, inbox, receipt, pool, callbacks, bounds>>

(* The thread of the upload dies. *)
UploadDies(c) ==
  /\ call[c] \in {"stored", "waiting", "answered"}
  /\ call' = [call EXCEPT ![c] = "over"]
  /\ UNCHANGED <<voice, command, inbox, receipt, pool, callbacks, bounds>>

(* The source posts the same recording again, under the same id. *)
AskAgain(c) ==
  /\ asks < MaxAsks
  /\ call[c] = "over" /\ c \notin inbox
  /\ inbox' = inbox \cup {c}
  /\ asks' = asks + 1
  /\ UNCHANGED <<qms, receipt, pool, callbacks, restarts>>

-----------------------------------------------------------------------------
(* Analytics: create_transcription *)

Reply(c) == call' = [call EXCEPT ![c] = IF @ = "waiting" THEN "answered" ELSE @]

(* A recording with a receipt is answered from it. *)
Replay(c) ==
  /\ c \in inbox
  /\ receipt[c] # NoTask
  /\ inbox' = inbox \ {c}
  /\ Reply(c)
  /\ UNCHANGED <<voice, command, receipt, pool, callbacks, bounds>>

Fresh(t) == job[t] = NoJob /\ \A u \in Tasks : u < t => job[u] # NoJob
(* Fault: the receipt is not looked at. *)
FiledOrNot(c) == TRUE
Unfiled(c) == receipt[c] = NoTask

Accept(c, t) ==
  /\ c \in inbox
  /\ Unfiled(c)
  /\ Fresh(t)
  /\ inbox' = inbox \ {c}
  /\ receipt' = [receipt EXCEPT ![c] = t]
  /\ job' = [job EXCEPT ![t] = [NoJob EXCEPT !.clip = c, !.at = "filed"]]
  /\ UNCHANGED <<qms, phone, queue, callbacks, bounds>>

Submit(t) ==
  /\ job[t].at = "filed"
  /\ job' = [job EXCEPT ![t].at = "queued"]
  /\ queue' = Append(queue, t)
  /\ Reply(job[t].clip)
  /\ UNCHANGED <<voice, command, inbox, receipt, phone, callbacks, bounds>>

(* transcribe_sync: the same pool, awaited by the caller. *)
CallSync(p) ==
  /\ phone[p] = "idle"
  /\ phone' = [phone EXCEPT ![p] = "queued"]
  /\ queue' = Append(queue, p)
  /\ UNCHANGED <<qms, inbox, receipt, job, callbacks, bounds>>

-----------------------------------------------------------------------------
(* Analytics: the pool.  A worker keeps its slot through the callback, the
   waits between its attempts included. *)

Busy == Cardinality({t \in Tasks : job[t].at \in Holding})
          + Cardinality({p \in Phones : phone[p] = "running"})

TakeWork ==
  /\ queue # <<>>
  /\ Busy < Slots
  /\ queue' = Tail(queue)
  /\ LET w == Head(queue) IN
       \/ /\ w \in Tasks
          /\ job' = [job EXCEPT ![w].at = "running"]
          /\ UNCHANGED phone
       \/ /\ w \in Phones
          /\ phone' = [phone EXCEPT ![w] = "running"]
          /\ UNCHANGED job
  /\ UNCHANGED <<qms, inbox, receipt, callbacks, bounds>>

(* SttService.transcribe: a text, or one of its errors, also by timeout. *)
FinishSync(p) ==
  /\ phone[p] = "running"
  /\ phone' = [phone EXCEPT ![p] = "over"]
  /\ UNCHANGED <<qms, inbox, receipt, job, queue, callbacks, bounds>>

Transcribe(t) ==
  /\ job[t].at = "running"
  /\ \E v \in Verdicts :
       job' = [job EXCEPT ![t].at = "posting", ![t].verdict = v]
  /\ UNCHANGED <<qms, inbox, receipt, phone, queue, callbacks, bounds>>

PostCallback(t) ==
  /\ job[t].at = "posting"
  /\ job' = [job EXCEPT ![t].at = "listening", ![t].try = @ + 1]
  /\ callbacks' = callbacks \cup {<<t, job[t].try + 1>>}
  /\ UNCHANGED <<qms, inbox, receipt, phone, queue, bounds>>

(* Fault: the call has no timeout. *)
NoNextTry(t) == FALSE

(* No answer within callback_timeout_seconds: again, until the tries are used up.
   The request may be lost, or may arrive yet. *)
NextTry(t) ==
  /\ job[t].at = "listening"
  /\ job' = [job EXCEPT ![t].at = IF job[t].try < Tries THEN "posting" ELSE "over"]
  /\ callbacks' \in {callbacks, callbacks \ {<<t, job[t].try>>}}
  /\ UNCHANGED <<qms, inbox, receipt, phone, queue, bounds>>

-----------------------------------------------------------------------------
(* QMS: handle_process_mining_callback, one transaction on the locked row *)

CommandAfter(c, v) ==
  IF v = "failed" \/ command[c] \in {"executed", "rejected"}
  THEN {command[c]} ELSE {"executed", "needs_review"}

Applied(c, t, v) ==
  /\ voice' = [voice EXCEPT ![c] = [status |-> v, task |-> t,
                                    text |-> voice[c].text \/ v = "completed"]]
  /\ \E s \in CommandAfter(c, v) : command' = [command EXCEPT ![c] = s]

(* The worker hears of it if it still listens to that very attempt. *)
ApplyCallback(t, n) ==
  /\ <<t, n>> \in callbacks
  /\ callbacks' = callbacks \ {<<t, n>>}
  /\ Applied(job[t].clip, t, job[t].verdict)
  /\ \/ /\ job[t].at = "listening" /\ job[t].try = n
        /\ job' = [job EXCEPT ![t].at = "over"]
     \/ UNCHANGED job
  /\ UNCHANGED <<call, inbox, receipt, phone, queue, bounds>>

(* The operator rejects a command, or confirms one that was left to review. *)
Decide(c) ==
  /\ command[c] # "none"
  /\ \E s \in {"rejected"} \cup (IF command[c] = "needs_review" THEN {"executed"} ELSE {}) :
       command' = [command EXCEPT ![c] = s]
  /\ UNCHANGED <<voice, call, inbox, receipt, pool, callbacks, bounds>>

-----------------------------------------------------------------------------
(* Fault: the receipts are kept in memory like the jobs. *)
RestartForgetting ==
  /\ restarts < MaxRestarts
  /\ restarts' = restarts + 1
  /\ receipt' = [c \in Clips |-> NoTask]
  /\ queue' = <<>>
  /\ job' = [t \in Tasks |-> IF job[t].at \in {"none", "over"} THEN job[t]
                             ELSE [job[t] EXCEPT !.at = "lost"]]
  /\ phone' = [p \in Phones |-> IF phone[p] = "idle" THEN "idle" ELSE "over"]
  /\ UNCHANGED <<qms, inbox, callbacks, asks>>

(* The analytics service stops: queued and running jobs are gone. *)
Restart ==
  /\ restarts < MaxRestarts
  /\ restarts' = restarts + 1
  /\ queue' = <<>>
  /\ job' = [t \in Tasks |-> IF job[t].at \in {"none", "over"} THEN job[t]
                             ELSE [job[t] EXCEPT !.at = "lost"]]
  /\ phone' = [p \in Phones |-> IF phone[p] = "idle" THEN "idle" ELSE "over"]
  /\ UNCHANGED <<qms, inbox, receipt, callbacks, asks>>

Init ==
  /\ voice = [c \in Clips |-> [status |-> "none", task |-> NoTask, text |-> FALSE]]
  /\ command = [c \in Clips |-> "none"]
  /\ call = [c \in Clips |-> "none"]
  /\ inbox = {}
  /\ receipt = [c \in Clips |-> NoTask]
  /\ job = [t \in Tasks |-> NoJob]
  /\ phone = [p \in Phones |-> "idle"]
  /\ queue = <<>>
  /\ callbacks = {}
  /\ asks = 0 /\ restarts = 0

Request(c) ==
  Upload(c) \/ Send(c) \/ SendFails(c) \/ TakeAnswer(c) \/ UploadDies(c) \/ AskAgain(c)
Handler(c) == Replay(c) \/ \E t \in Tasks : Accept(c, t)
Work(t) == Submit(t) \/ Transcribe(t) \/ PostCallback(t) \/ NextTry(t)
Phone(p) == CallSync(p) \/ FinishSync(p)

Next ==
  \/ \E c \in Clips : Request(c) \/ Handler(c) \/ Decide(c)
  \/ \E t \in Tasks : Work(t)
  \/ \E t \in Tasks, n \in 1 .. Tries : ApplyCallback(t, n)
  \/ TakeWork
  \/ \E p \in Phones : Phone(p)
  \/ Restart

(* Threads of the pool run, and every call they make has a timeout. *)
Fairness ==
  /\ WF_vars(TakeWork)
  /\ \A t \in Tasks : WF_vars(Work(t))
  /\ \A p \in Phones : WF_vars(FinishSync(p))

Spec == Init /\ [][Next]_vars
FairSpec == Spec /\ Fairness

-----------------------------------------------------------------------------
(* Properties *)

(* Rows, receipts and jobs have the values the code gives them. *)
TypeOK ==
  /\ voice \in [Clips -> [status : {"none", "uploaded", "processing"} \cup Verdicts,
                          task : Tasks \cup {NoTask}, text : BOOLEAN]]
  /\ command \in [Clips -> {"none", "executed", "needs_review", "rejected"}]
  /\ call \in [Clips -> {"none", "stored", "waiting", "answered", "over"}]
  /\ inbox \subseteq Clips
  /\ receipt \in [Clips -> Tasks \cup {NoTask}]
  /\ job \in [Tasks -> [clip : Clips \cup {"none"},
                        at : {"none", "filed", "queued", "over", "lost"} \cup Holding,
                        try : 0 .. Tries, verdict : Verdicts \cup {"none"}]]
  /\ phone \in [Phones -> {"idle", "queued", "running", "over"}]
  /\ queue \in Seq(Tasks \cup Phones)
  /\ callbacks \subseteq Tasks \X (1 .. Tries)
  /\ asks \in 0 .. MaxAsks /\ restarts \in 0 .. MaxRestarts

(* A recording is transcribed by one task, however often it is posted and however
   often the service restarts: the receipt is saved before the job exists. *)
OneTaskPerRecording ==
  \A t, u \in Tasks : job[t].at # "none" /\ job[t].clip = job[u].clip => t = u

(* A recording that is COMPLETED stays so once its upload request is over, also
   when it is posted again or its callback repeated: there is one task, with one
   verdict.  Before that, the answer to the upload may still overwrite it. *)
CompletedStays ==
  [][\A c \in Clips : voice[c].status = "completed" /\ call[c] = "over"
                        => voice'[c].status = "completed"]_vars

(* A job that was queued comes to an end, and so does a synchronous call that
   waits behind it: a QMS that never answers a callback cannot keep the workers. *)
PoolMovesOn ==
  /\ \A t \in Tasks : (job[t].at = "queued") ~> (job[t].at \in {"over", "lost"})
  /\ \A p \in Phones : (phone[p] = "queued") ~> (phone[p] = "over")
=============================================================================
