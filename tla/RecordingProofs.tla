-------------------------- MODULE RecordingProofs --------------------------
(***************************************************************************)
(* Proofs about a recording from the button to the text: Transcription     *)
(* and, at the end, VoiceWidget.                                           *)
(*                                                                         *)
(* Transcription, for any recordings, telephones, sizes of the pool and    *)
(* numbers of tries and restarts.  The receipt binds them together: a task *)
(* is the one its recording is filed under, it has one verdict, and only   *)
(* that verdict is ever written to the recording.                          *)
(*                                                                         *)
(* The widget, for any number of presses.  What binds it together is that  *)
(* only the recorder on record ever stops, and that nothing is begun       *)
(* before it has.                                                          *)
(***************************************************************************)
EXTENDS Transcription, VoiceWidget, TLAPS

Fields == {"none", "filed", "queued", "over", "lost"} \cup Holding
Untried == {"none", "filed", "queued", "running"}
Jobs == [clip : Clips \cup {"none"}, at : Fields, try : 0 .. Tries,
         verdict : Verdicts \cup {"none"}]

Recordings == [status : {"none", "uploaded", "processing"} \cup Verdicts,
               task : Tasks \cup {NoTask}, text : BOOLEAN]
Calls == {"none", "stored", "waiting", "answered", "over"}

(* A task is the one its recording is filed under. *)
Filed ==
  \A t \in Tasks :
    \/ job[t] = NoJob
    \/ job[t].at # "none" /\ job[t].clip \in Clips /\ receipt[job[t].clip] = t

(* A task has a verdict once it has run, and tries left when it is to post it. *)
OneVerdict ==
  \A t \in Tasks :
    /\ job[t].at \in Untried => job[t].verdict = "none" /\ job[t].try = 0
    /\ job[t].at \in {"posting", "listening"} => job[t].verdict \in Verdicts
    /\ job[t].at = "posting" => job[t].try < Tries

(* What a callback tells is settled. *)
Told ==
  \A x \in callbacks : job[x[1]].at # "none" /\ job[x[1]].verdict \in Verdicts

(* A recording that is COMPLETED is so by the verdict of its task. *)
ByVerdict ==
  \A c \in Clips : voice[c].status = "completed" =>
    receipt[c] # NoTask /\ job[receipt[c]].verdict = "completed"

(* A task is queued once, and has not begun. *)
Queued ==
  \A k \in 1 .. Len(queue) : queue[k] \in Tasks =>
    /\ job[queue[k]].at = "queued"
    /\ \A l \in 1 .. Len(queue) : queue[l] = queue[k] => l = k

Records == TypeOK /\ Filed /\ OneVerdict /\ Told /\ ByVerdict
IInv == Records /\ Queued

-----------------------------------------------------------------------------
(* Most steps write one field of one job. *)

LEMMA TaskFacts == NoTask \notin Tasks /\ Tasks \subseteq Nat
BY TranscriptionBounds DEF NoTask, Tasks

LEMMA JobTypes == TypeOK <=> TypeOK /\ job \in [Tasks -> Jobs]
BY DEF TypeOK, Jobs, Fields, Holding

LEMMA InitRecords == Init => Records
<1> SUFFICES ASSUME Init PROVE Records
  OBVIOUS
<1>1. TypeOK
  <2>1. 0 \in 0 .. Tries /\ 0 \in 0 .. MaxAsks /\ 0 \in 0 .. MaxRestarts
    BY PoolAssumption, TranscriptionBounds
  <2>2. <<>> \in Seq(Tasks \cup Phones)
    OBVIOUS
  <2> QED BY <2>1, <2>2 DEF Init, TypeOK, NoJob
<1>2. Filed /\ OneVerdict /\ Told /\ ByVerdict
  BY DEF Init, Filed, OneVerdict, Told, ByVerdict, NoJob, Untried
<1> QED BY <1>1, <1>2 DEF Records

-----------------------------------------------------------------------------
(* The upload request: it writes the recording, never COMPLETED. *)

LEMMA RequestTypes ==
  ASSUME TypeOK, NEW c \in Clips, Request(c)
  PROVE  TypeOK'
<1> USE DEF TypeOK
<1>1. CASE Upload(c) BY <1>1 DEF Upload, pool, bounds
<1>2. CASE Send(c) BY <1>2 DEF Send, pool, bounds
<1>3. CASE SendFails(c)
  <2>0. voice[c] \in Recordings
    BY DEF Recordings
  <2>1. [voice[c] EXCEPT !.status = "failed"] \in Recordings
    BY <2>0 DEF Recordings, Verdicts
  <2>2. voice' = [voice EXCEPT ![c] = [voice[c] EXCEPT !.status = "failed"]]
    BY <1>3 DEF SendFails
  <2>3. voice' \in [Clips -> Recordings]
    BY <2>1, <2>2 DEF Recordings
  <2>4. inbox' \subseteq Clips
    BY <1>3 DEF SendFails
  <2> QED BY <1>3, <2>3, <2>4 DEF SendFails, pool, bounds, Recordings
<1>4. CASE TakeAnswer(c)
  <2>1. receipt[c] \in Tasks \cup {NoTask} /\ voice[c] \in Recordings
    BY DEF Recordings
  <2>2. [voice[c] EXCEPT !.status = "processing", !.task = receipt[c]] \in Recordings
    BY <2>1 DEF Recordings
  <2>3. voice' \in [Clips -> Recordings]
    BY <1>4, <2>2 DEF TakeAnswer, Recordings
  <2> QED BY <1>4, <2>3 DEF TakeAnswer, pool, bounds, Recordings
<1>5. CASE UploadDies(c) BY <1>5 DEF UploadDies, pool, bounds
<1>6. CASE AskAgain(c)
  <2>1. asks' \in 0 .. MaxAsks
    BY <1>6, TranscriptionBounds DEF AskAgain
  <2> QED BY <1>6, <2>1 DEF AskAgain, pool, qms
<1> QED BY <1>1, <1>2, <1>3, <1>4, <1>5, <1>6 DEF Request

LEMMA RequestKeeps ==
  ASSUME Records, NEW c \in Clips, Request(c)
  PROVE  Records'
<1>1. TypeOK'
  BY RequestTypes DEF Records
<1>2. UNCHANGED <<receipt, job, callbacks>>
  BY DEF Request, Upload, Send, SendFails, TakeAnswer, UploadDies, AskAgain, pool
<1>3. \E r \in Recordings : r.status # "completed" /\ voice' \in {voice, [voice EXCEPT ![c] = r]}
  <2> USE DEF Records, TypeOK
  <2>1. voice[c] \in Recordings /\ receipt[c] \in Tasks \cup {NoTask}
    BY DEF Recordings
  <2>2. CASE Upload(c)
    <3>1. [voice[c] EXCEPT !.status = "uploaded"] \in Recordings
      BY <2>1 DEF Recordings
    <3> QED BY <2>1, <2>2, <3>1 DEF Upload, Recordings
  <2>3. CASE SendFails(c)
    <3>1. [voice[c] EXCEPT !.status = "failed"] \in Recordings
      BY <2>1 DEF Recordings, Verdicts
    <3> QED BY <2>1, <2>3, <3>1 DEF SendFails, Recordings
  <2>4. CASE TakeAnswer(c)
    <3>1. [voice[c] EXCEPT !.status = "processing", !.task = receipt[c]] \in Recordings
      BY <2>1 DEF Recordings
    <3> QED BY <2>1, <2>4, <3>1 DEF TakeAnswer, Recordings
  <2>5. CASE Send(c) \/ UploadDies(c) \/ AskAgain(c)
    <3>1. [status |-> "none", task |-> NoTask, text |-> FALSE] \in Recordings
      BY DEF Recordings
    <3> QED BY <2>5, <3>1 DEF Send, UploadDies, AskAgain, qms
  <2> QED BY <2>2, <2>3, <2>4, <2>5 DEF Request
<1>4. ByVerdict'
  BY <1>2, <1>3 DEF Records, ByVerdict, TypeOK
<1> QED BY <1>1, <1>2, <1>4 DEF Records, Filed, OneVerdict, Told

LEMMA DecideKeeps ==
  ASSUME Records, NEW c \in Clips, Decide(c)
  PROVE  Records'
BY DEF Records, Decide, TypeOK, Filed, OneVerdict, Told, ByVerdict, pool, bounds

-----------------------------------------------------------------------------
(* The handler of the analytics service *)

LEMMA ReplayKeeps ==
  ASSUME Records, NEW c \in Clips, Replay(c)
  PROVE  Records'
BY DEF Records, Replay, Reply, TypeOK, Filed, OneVerdict, Told, ByVerdict, pool, bounds

LEMMA AcceptKeeps ==
  ASSUME Records, NEW c \in Clips, NEW t \in Tasks, Accept(c, t)
  PROVE  Records'
<1> USE DEF Records
<1>1. job \in [Tasks -> Jobs] /\ receipt \in [Clips -> Tasks \cup {NoTask}]
  BY JobTypes DEF TypeOK
<1>2. /\ job[t] = NoJob /\ receipt[c] = NoTask
      /\ receipt' = [receipt EXCEPT ![c] = t]
      /\ job' = [job EXCEPT ![t] = [NoJob EXCEPT !.clip = c, !.at = "filed"]]
      /\ UNCHANGED <<voice, callbacks>>
  BY DEF Accept, Fresh, Unfiled, qms
<1>3. /\ job'[t].clip = c /\ job'[t].at = "filed" /\ job'[t].try = 0 /\ job'[t].verdict = "none"
      /\ receipt'[c] = t
  BY <1>1, <1>2 DEF NoJob
<1>4. TypeOK'
  <2>1. [NoJob EXCEPT !.clip = c, !.at = "filed"] \in Jobs
    <3>1. NoJob \in Jobs
      BY PoolAssumption DEF Jobs, Fields, NoJob
    <3> QED BY <3>1 DEF Jobs, Fields
  <2>2. job' \in [Tasks -> Jobs]
    BY <1>1, <1>2, <2>1
  <2> QED BY <1>2, <2>2 DEF TypeOK, Accept, qms, bounds, Jobs, Fields
<1>5. \A u \in Tasks \ {t} : job'[u] = job[u]
  BY <1>1, <1>2
<1>7. Filed'
  BY <1>1, <1>2, <1>5, <1>3, TaskFacts DEF Filed
<1>8. OneVerdict'
  BY <1>5, <1>3 DEF OneVerdict
<1>9. Told'
  BY <1>2, <1>5 DEF Told, NoJob, TypeOK
<1>10. ByVerdict'
  BY <1>1, <1>2, <1>5, TaskFacts DEF ByVerdict, NoJob, Verdicts
<1> QED BY <1>4, <1>7, <1>8, <1>9, <1>10

-----------------------------------------------------------------------------
(* The pool: a worker writes its own job, whose recording stays what it is. *)

(* A step that gives one job another state. *)
LEMMA JobStep ==
  ASSUME Records, NEW t \in Tasks, NEW j \in Jobs, TypeOK',
         job' = [job EXCEPT ![t] = j], job[t] # NoJob,
         UNCHANGED <<voice, receipt>>,
         j.clip = job[t].clip, j.at # "none",
         j.verdict = job[t].verdict \/ job[t].verdict = "none",
         j.at \in Untried => j.verdict = "none" /\ j.try = 0,
         j.at \in {"posting", "listening"} => j.verdict \in Verdicts,
         j.at = "posting" => j.try < Tries,
         callbacks' \subseteq callbacks \/ (j.verdict \in Verdicts
            /\ \E n \in 1 .. Tries : callbacks' = callbacks \cup {<<t, n>>})
  PROVE  Records'
<1> USE DEF Records
<1>1. job \in [Tasks -> Jobs] /\ job[t] \in Jobs /\ callbacks \subseteq Tasks \X (1 .. Tries)
  BY JobTypes DEF TypeOK
<1>2. job'[t] = j /\ \A u \in Tasks \ {t} : job'[u] = job[u]
  BY <1>1
<1>3. Filed'
  BY <1>1, <1>2 DEF Filed
<1>4. OneVerdict'
  BY <1>2 DEF OneVerdict
<1>5. Told'
  <2>1. SUFFICES ASSUME NEW x \in callbacks'
                 PROVE  job'[x[1]].at # "none" /\ job'[x[1]].verdict \in Verdicts
    BY DEF Told
  <2>2. CASE x \in callbacks
    <3>1. x[1] \in Tasks /\ job[x[1]].at # "none" /\ job[x[1]].verdict \in Verdicts
      BY <1>1, <2>2 DEF Told
    <3> QED BY <1>2, <3>1 DEF Verdicts
  <2>3. CASE x \notin callbacks
    BY <1>2, <2>1, <2>3
  <2> QED BY <2>2, <2>3
<1>6. ByVerdict'
  <2>1. SUFFICES ASSUME NEW c \in Clips, voice[c].status = "completed"
                 PROVE  receipt[c] # NoTask /\ job'[receipt[c]].verdict = "completed"
    BY DEF ByVerdict
  <2>2. receipt[c] \in Tasks /\ job[receipt[c]].verdict = "completed"
    BY <2>1 DEF ByVerdict, TypeOK
  <2> QED BY <1>2, <2>1, <2>2 DEF ByVerdict
<1> QED BY <1>3, <1>4, <1>5, <1>6

LEMMA WorkKeeps ==
  ASSUME Records, NEW t \in Tasks, Work(t)
  PROVE  Records'
<1> USE DEF Records
<1>0. /\ job \in [Tasks -> Jobs] /\ job[t] \in Jobs /\ job[t].try \in Nat
      /\ job[t] # NoJob
  BY JobTypes DEF TypeOK, Jobs, Work, Submit, Transcribe, PostCallback, NextTry, NoJob
<1>1. CASE Submit(t)
  <2> DEFINE j == [job[t] EXCEPT !.at = "queued"]
  <2>1. j \in Jobs /\ job' = [job EXCEPT ![t] = j]
    BY <1>0, <1>1 DEF Submit, Jobs, Fields
  <2>2. queue' \in Seq(Tasks \cup Phones)
    BY <1>1 DEF Submit, TypeOK
  <2>3. TypeOK'
    <3>1. call' \in [Clips -> Calls]
      BY <1>1 DEF Submit, Reply, TypeOK, Calls
    <3> QED BY <1>0, <1>1, <2>1, <2>2, <3>1 DEF Submit, TypeOK, Jobs, Fields, bounds, Calls
  <2> QED BY <1>0, <1>1, <2>1, <2>3, JobStep DEF Submit, Jobs, OneVerdict, Untried
<1>2. CASE Transcribe(t)
  <2>1. PICK v \in Verdicts : job' = [job EXCEPT ![t].at = "posting", ![t].verdict = v]
    BY <1>2 DEF Transcribe
  <2> DEFINE j == [job[t] EXCEPT !.at = "posting", !.verdict = v]
  <2>2. j \in Jobs /\ job' = [job EXCEPT ![t] = j]
    BY <1>0, <2>1 DEF Jobs, Fields, Holding
  <2>3. TypeOK'
    BY <1>0, <1>2, <2>2 DEF Transcribe, TypeOK, Jobs, Fields, bounds, qms
  <2>4. j.try = 0 /\ job[t].verdict = "none" /\ 0 < Tries
    BY <1>0, <1>2, PoolAssumption DEF Transcribe, OneVerdict, Untried, Jobs
  <2> QED BY <1>0, <1>2, <2>2, <2>3, <2>4, JobStep DEF Transcribe, qms, Jobs, Untried
<1>3. CASE PostCallback(t)
  <2> DEFINE j == [job[t] EXCEPT !.at = "listening", !.try = @ + 1]
  <2>1. job[t].try < Tries /\ job[t].verdict \in Verdicts /\ job[t].try + 1 \in 1 .. Tries
    BY <1>0, <1>3, PoolAssumption DEF PostCallback, OneVerdict
  <2>2. j \in Jobs /\ job' = [job EXCEPT ![t] = j]
    BY <1>0, <1>3, <2>1 DEF PostCallback, Jobs, Fields, Holding
  <2>3. callbacks' = callbacks \cup {<<t, job[t].try + 1>>}
    BY <1>3 DEF PostCallback
  <2>4. TypeOK'
    BY <1>0, <1>3, <2>1, <2>2, <2>3 DEF PostCallback, TypeOK, Jobs, Fields, bounds, qms
  <2> QED BY <1>0, <1>3, <2>1, <2>2, <2>3, <2>4, JobStep DEF PostCallback, qms, Jobs, Untried
<1>4. CASE NextTry(t)
  <2> DEFINE j == [job[t] EXCEPT !.at = IF job[t].try < Tries THEN "posting" ELSE "over"]
  <2>1. j \in Jobs /\ job' = [job EXCEPT ![t] = j]
    BY <1>0, <1>4 DEF NextTry, Jobs, Fields, Holding
  <2>2. callbacks' \subseteq callbacks /\ job[t].verdict \in Verdicts
    BY <1>4 DEF NextTry, OneVerdict
  <2>3. TypeOK'
    BY <1>0, <1>4, <2>1, <2>2 DEF NextTry, TypeOK, Jobs, Fields, bounds, qms
  <2> QED BY <1>0, <1>4, <2>1, <2>2, <2>3, JobStep DEF NextTry, qms, Jobs, Untried
<1> QED BY <1>1, <1>2, <1>3, <1>4 DEF Work

LEMMA TakeWorkKeeps ==
  ASSUME IInv, TakeWork
  PROVE  Records'
<1>0. /\ job \in [Tasks -> Jobs] /\ queue \in Seq(Tasks \cup Phones) /\ queue # <<>>
      /\ queue' = Tail(queue) /\ queue' \in Seq(Tasks \cup Phones)
      /\ Len(queue) > 0
  BY JobTypes DEF IInv, Records, TypeOK, TakeWork
<1>1. ASSUME NEW w \in Tasks, w = queue[1],
             job' = [job EXCEPT ![w].at = "running"], phone' = phone
      PROVE  Records'
  <2> DEFINE j == [job[w] EXCEPT !.at = "running"]
  <2>1. j \in Jobs /\ job' = [job EXCEPT ![w] = j] /\ job[w] \in Jobs
    BY <1>0, <1>1 DEF Jobs, Fields, Holding
  <2>2. TypeOK'
    BY <1>0, <1>1, <2>1 DEF IInv, Records, TakeWork, TypeOK, Jobs, Fields, bounds, qms
  <2>3. job[w].at = "queued"
    BY <1>0, <1>1 DEF IInv, Queued
  <2>4. job[w].verdict = "none" /\ job[w].try = 0 /\ job[w] # NoJob
    BY <1>1, <2>3 DEF IInv, Records, OneVerdict, Untried, NoJob
  <2> QED BY <1>1, <2>1, <2>2, <2>4, JobStep DEF IInv, TakeWork, qms, Jobs, Untried
<1>2. ASSUME NEW w \in Phones, phone' = [phone EXCEPT ![w] = "running"], job' = job
      PROVE  Records'
  BY <1>0, <1>2 DEF IInv, Records, TakeWork, TypeOK, Filed, OneVerdict, Told, ByVerdict, bounds,
     qms
<1>3. Head(queue) = queue[1]
  BY <1>0
<1> QED BY <1>1, <1>2, <1>3 DEF TakeWork

LEMMA PhoneKeeps ==
  ASSUME Records, NEW p \in Phones, Phone(p)
  PROVE  Records'
<1>1. queue' \in Seq(Tasks \cup Phones)
  <2>1. queue \in Seq(Tasks \cup Phones) /\ p \in Tasks \cup Phones
    BY DEF Records, TypeOK
  <2>2. queue' = Append(queue, p) \/ queue' = queue
    BY DEF Phone, CallSync, FinishSync
  <2> QED BY <2>1, <2>2
<1>2. phone' \in [Phones -> {"idle", "queued", "running", "over"}]
  BY DEF Records, TypeOK, Phone, CallSync, FinishSync
<1>3. UNCHANGED <<qms, inbox, receipt, job, callbacks, bounds>>
  BY DEF Phone, CallSync, FinishSync
<1> QED BY <1>1, <1>2, <1>3 DEF Records, TypeOK, Filed, OneVerdict, Told, ByVerdict, bounds, qms

-----------------------------------------------------------------------------
(* The callback: what it writes is the verdict of the task. *)

LEMMA CallbackKeeps ==
  ASSUME Records, NEW t \in Tasks, NEW n \in 1 .. Tries, ApplyCallback(t, n)
  PROVE  Records'
<1> USE DEF Records
<1> DEFINE c == job[t].clip
           v == job[t].verdict
<1>0. /\ job \in [Tasks -> Jobs] /\ job[t] \in Jobs
      /\ callbacks' \subseteq callbacks /\ <<t, n>> \in callbacks
  BY JobTypes DEF TypeOK, ApplyCallback
<1>1. v \in Verdicts /\ c \in Clips /\ receipt[c] = t /\ job[t] # NoJob
  BY <1>0 DEF Told, Filed, NoJob
<1>2. /\ voice' = [voice EXCEPT ![c] = [status |-> v, task |-> t,
                                        text |-> voice[c].text \/ v = "completed"]]
      /\ \E s \in CommandAfter(c, v) : command' = [command EXCEPT ![c] = s]
      /\ UNCHANGED <<call, inbox, receipt, phone, queue, bounds>>
  BY DEF ApplyCallback, Applied
<1>3. \/ job' = [job EXCEPT ![t].at = "over"]
      \/ job' = job
  BY DEF ApplyCallback
<1>4. job' \in [Tasks -> Jobs]
  BY <1>0, <1>3 DEF Jobs, Fields
<1>5. TypeOK'
  <2>1. [status |-> v, task |-> t, text |-> voice[c].text \/ v = "completed"] \in Recordings
    BY <1>1 DEF TypeOK, Recordings
  <2>2. voice' \in [Clips -> Recordings]
    BY <1>1, <1>2, <2>1 DEF TypeOK, Recordings
  <2>3. command' \in [Clips -> {"none", "executed", "needs_review", "rejected"}]
    BY <1>1, <1>2 DEF CommandAfter, TypeOK
  <2>4. callbacks' \subseteq Tasks \X (1 .. Tries)
    BY <1>0 DEF TypeOK
  <2> QED BY <1>2, <1>4, <2>2, <2>3, <2>4 DEF TypeOK, Jobs, Fields, Recordings, bounds
<1>6. /\ \A u \in Tasks : job'[u].clip = job[u].clip /\ job'[u].verdict = job[u].verdict
                          /\ \/ job'[u].at = job[u].at /\ job'[u].try = job[u].try
                             \/ u = t /\ job'[u].at = "over"
      /\ \A u \in Tasks \ {t} : job'[u] = job[u]
      /\ job'[t].at # "none"
  <2>1. job[t].at # "none"
    BY <1>1 DEF Filed
  <2>2. \A u \in Tasks : job[u] \in Jobs
    BY <1>0
  <2>3. CASE job' = [job EXCEPT ![t].at = "over"]
    <3>1. \A u \in Tasks \ {t} : job'[u] = job[u]
      BY <1>0, <2>3
    <3>2. job'[t] = [job[t] EXCEPT !.at = "over"]
      BY <1>0, <2>3
    <3>3. /\ job'[t].clip = job[t].clip /\ job'[t].verdict = job[t].verdict
          /\ job'[t].at = "over"
      BY <2>2, <3>2 DEF Jobs
    <3> QED BY <3>1, <3>3
  <2>4. CASE job' = job
    BY <2>1, <2>4
  <2> QED BY <1>3, <2>3, <2>4
<1>7. Filed'
  BY <1>1, <1>2, <1>6 DEF Filed
<1>8. OneVerdict'
  BY <1>6 DEF OneVerdict, Untried
<1>9. Told'
  BY <1>0, <1>6 DEF Told, TypeOK
<1>10. ByVerdict'
  <2>1. \A d \in Clips : voice'[d].status = IF d = c THEN v ELSE voice[d].status
    BY <1>1, <1>2 DEF TypeOK
  <2>2. \A d \in Clips : receipt'[d] = receipt[d] /\ receipt[d] \in Tasks \cup {NoTask}
    BY <1>2 DEF TypeOK
  <2>3. receipt[c] = t /\ job'[t].verdict = v /\ t # NoTask
    BY <1>1, <1>6, TaskFacts
  <2> QED BY <1>6, <2>1, <2>2, <2>3 DEF ByVerdict
<1> QED BY <1>5, <1>7, <1>8, <1>9, <1>10

LEMMA RestartKeeps ==
  ASSUME Records, Restart
  PROVE  Records'
<1> USE DEF Records
<1>0. /\ job \in [Tasks -> Jobs]
      /\ job' = [t \in Tasks |-> IF job[t].at \in {"none", "over"} THEN job[t]
                                 ELSE [job[t] EXCEPT !.at = "lost"]]
      /\ queue' = <<>> /\ restarts' \in 0 .. MaxRestarts
      /\ UNCHANGED <<qms, inbox, receipt, callbacks, asks>>
  BY JobTypes, TranscriptionBounds DEF TypeOK, Restart
<1>1. \A t \in Tasks : /\ job'[t] \in Jobs
                       /\ job'[t].clip = job[t].clip /\ job'[t].verdict = job[t].verdict
                       /\ \/ job'[t] = job[t]
                          \/ job[t].at # "none" /\ job'[t].at = "lost"
  <2>1. TAKE t \in Tasks
  <2>2. job[t] \in Jobs
    BY <1>0
  <2>3. CASE job'[t] = job[t]
    <3>1. job'[t].clip = job[t].clip /\ job'[t].verdict = job[t].verdict
      BY <2>3
    <3> QED BY <2>2, <2>3, <3>1
  <2>4. CASE job[t].at # "none" /\ job'[t] = [job[t] EXCEPT !.at = "lost"]
    BY <2>2, <2>4 DEF Jobs, Fields
  <2> QED BY <1>0, <2>3, <2>4
<1>2. TypeOK'
  <2>1. job' \in [Tasks -> Jobs]
    BY <1>0, <1>1
  <2>2. phone' \in [Phones -> {"idle", "queued", "running", "over"}]
    BY DEF TypeOK, Restart
  <2> QED BY <1>0, <2>1, <2>2 DEF TypeOK, Jobs, Fields, qms
<1>3. Filed'
  BY <1>0, <1>1 DEF Filed, NoJob
<1>4. OneVerdict'
  BY <1>1 DEF OneVerdict, Untried
<1>5. Told'
  BY <1>0, <1>1 DEF Told, TypeOK
<1>6. ByVerdict'
  BY <1>0, <1>1 DEF ByVerdict, TypeOK, qms
<1> QED BY <1>2, <1>3, <1>4, <1>5, <1>6

-----------------------------------------------------------------------------
(* The queue *)

(* Nothing is taken and what is queued stays so; something new joins at the end. *)
LEMMA QueueGrows ==
  ASSUME TypeOK, Queued, NEW x \in Tasks \cup Phones,
         \/ queue' = queue
         \/ /\ queue' = Append(queue, x)
            /\ x \in Tasks => job[x].at # "queued" /\ job'[x].at = "queued",
         \A u \in Tasks : job[u].at = "queued" => job'[u].at = "queued"
  PROVE  Queued'
<1>1. CASE queue' = queue
  BY <1>1 DEF Queued
<1>2. CASE queue' = Append(queue, x) /\ (x \in Tasks => job[x].at # "queued"
                                                       /\ job'[x].at = "queued")
  <2>1. /\ queue \in Seq(Tasks \cup Phones) /\ Len(queue) \in Nat /\ Len(queue') = Len(queue) + 1
        /\ \A k \in 1 .. Len(queue) : queue'[k] = queue[k]
        /\ queue'[Len(queue) + 1] = x
    BY <1>2 DEF TypeOK
  <2>2. \A k \in 1 .. Len(queue) : queue[k] \in Tasks => queue[k] # x
    BY <1>2 DEF Queued
  <2>3. SUFFICES ASSUME NEW k \in 1 .. Len(queue) + 1, queue'[k] \in Tasks
                 PROVE  /\ job'[queue'[k]].at = "queued"
                        /\ \A l \in 1 .. Len(queue) + 1 : queue'[l] = queue'[k] => l = k
    BY <2>1 DEF Queued
  <2>4. CASE k = Len(queue) + 1
    BY <1>2, <2>1, <2>2, <2>3, <2>4
  <2>5. CASE k \in 1 .. Len(queue)
    BY <2>1, <2>2, <2>3, <2>5 DEF Queued
  <2> QED BY <2>1, <2>4, <2>5
<1> QED BY <1>1, <1>2

LEMMA QueueShrinks ==
  ASSUME IInv, TakeWork
  PROVE  Queued'
<1>1. /\ queue \in Seq(Tasks \cup Phones) /\ Len(queue) \in Nat \ {0}
      /\ queue' = Tail(queue) /\ Head(queue) = queue[1]
      /\ Len(queue') = Len(queue) - 1
      /\ \A k \in 1 .. Len(queue) - 1 : queue'[k] = queue[k + 1]
  BY DEF IInv, Records, TypeOK, TakeWork
<1>2. \/ job' = job
      \/ queue[1] \in Tasks /\ job' = [job EXCEPT ![queue[1]].at = "running"]
  BY <1>1 DEF TakeWork
<1>3. \A u \in Tasks : u # queue[1] => job'[u] = job[u]
  BY <1>1, <1>2 DEF IInv, Records, TypeOK
<1>4. SUFFICES ASSUME NEW k \in 1 .. Len(queue) - 1, queue'[k] \in Tasks
               PROVE  /\ job'[queue'[k]].at = "queued"
                      /\ \A l \in 1 .. Len(queue) - 1 : queue'[l] = queue'[k] => l = k
  BY <1>1 DEF Queued
<1>5. k + 1 \in 1 .. Len(queue) /\ queue'[k] = queue[k + 1] /\ 1 \in 1 .. Len(queue)
  BY <1>1
<1>6. queue[k + 1] # queue[1]
  BY <1>4, <1>5 DEF IInv, Queued
<1>7. job'[queue'[k]].at = "queued"
  BY <1>3, <1>4, <1>5, <1>6 DEF IInv, Queued
<1>8. ASSUME NEW l \in 1 .. Len(queue) - 1, queue'[l] = queue'[k] PROVE l = k
  <2>1. l + 1 \in 1 .. Len(queue) /\ queue[l + 1] = queue[k + 1]
    BY <1>1, <1>5, <1>8
  <2>2. l + 1 = k + 1
    BY <1>4, <1>5, <2>1 DEF IInv, Queued
  <2> QED BY <2>2
<1> QED BY <1>7, <1>8

(* The queue is left alone, and so is the place of every task in it. *)
LEMMA QueueStays ==
  ASSUME Queued, queue' = queue,
         \A u \in Tasks : job[u].at = "queued" => job'[u].at = "queued"
  PROVE  Queued'
BY DEF Queued

LEMMA WorkKeepsQueue ==
  ASSUME TypeOK, Queued, NEW t \in Tasks, Work(t)
  PROVE  Queued'
<1>0. job \in [Tasks -> Jobs] /\ job[t] \in Jobs
  BY JobTypes DEF TypeOK
<1>1. CASE Submit(t)
  <2>1. queue' = Append(queue, t) /\ job[t].at = "filed"
        /\ job' = [job EXCEPT ![t].at = "queued"]
    BY <1>1 DEF Submit
  <2>2. job'[t].at = "queued" /\ \A u \in Tasks \ {t} : job'[u] = job[u]
    BY <1>0, <2>1 DEF Jobs
  <2> QED BY <2>1, <2>2, QueueGrows
<1>2. CASE Transcribe(t) \/ PostCallback(t) \/ NextTry(t)
  <2>1. queue' = queue /\ job[t].at # "queued"
    BY <1>2 DEF Transcribe, PostCallback, NextTry
  <2>2. \A u \in Tasks \ {t} : job'[u] = job[u]
    BY <1>0, <1>2 DEF Transcribe, PostCallback, NextTry
  <2> QED BY <2>1, <2>2, QueueStays
<1> QED BY <1>1, <1>2 DEF Work

(* The inductive invariant, step by step. *)
LEMMA InvNext ==
  ASSUME IInv, [Next]_vars
  PROVE  IInv'
<1> USE DEF IInv
<1>0. job \in [Tasks -> Jobs] /\ TypeOK
  BY JobTypes DEF TypeOK, Records
<1>1. ASSUME NEW c \in Clips, Request(c) PROVE IInv'
  <2>1. Records'
    BY <1>1, RequestKeeps
  <2>2. queue' = queue /\ job' = job
    BY <1>1 DEF Request, Upload, Send, SendFails, TakeAnswer, UploadDies, AskAgain, pool
  <2> QED BY <2>1, <2>2, QueueStays
<1>2. ASSUME NEW c \in Clips, Replay(c) PROVE IInv'
  <2>1. Records'
    BY <1>2, ReplayKeeps
  <2>2. queue' = queue /\ job' = job
    BY <1>2 DEF Replay, pool
  <2> QED BY <2>1, <2>2, QueueStays
<1>3. ASSUME NEW c \in Clips, NEW t \in Tasks, Accept(c, t) PROVE IInv'
  <2>1. Records'
    BY <1>3, AcceptKeeps
  <2>2. queue' = queue /\ job[t].at # "queued"
    BY <1>3 DEF Accept, Fresh, NoJob
  <2>3. \A u \in Tasks \ {t} : job'[u] = job[u]
    BY <1>0, <1>3 DEF Accept
  <2> QED BY <2>1, <2>2, <2>3, QueueStays
<1>4. ASSUME NEW c \in Clips, Decide(c) PROVE IInv'
  <2>1. Records'
    BY <1>4, DecideKeeps
  <2>2. queue' = queue /\ job' = job
    BY <1>4 DEF Decide, pool
  <2> QED BY <2>1, <2>2, QueueStays
<1>5. ASSUME NEW t \in Tasks, Work(t) PROVE IInv'
  BY <1>0, <1>5, WorkKeeps, WorkKeepsQueue
<1>6. ASSUME NEW t \in Tasks, NEW n \in 1 .. Tries, ApplyCallback(t, n) PROVE IInv'
  <2>1. Records'
    BY <1>6, CallbackKeeps
  <2>2. queue' = queue
        /\ (job' = job \/ (job[t].at = "listening" /\ job' = [job EXCEPT ![t].at = "over"]))
    BY <1>6 DEF ApplyCallback
  <2>3. \A u \in Tasks : job[u].at = "queued" => job'[u].at = "queued"
    BY <1>0, <2>2
  <2> QED BY <2>1, <2>2, <2>3, QueueStays
<1>7. CASE TakeWork
  BY <1>7, TakeWorkKeeps, QueueShrinks
<1>8. ASSUME NEW p \in Phones, Phone(p) PROVE IInv'
  <2>1. Records'
    BY <1>8, PhoneKeeps
  <2>2. (queue' = queue \/ queue' = Append(queue, p)) /\ job' = job /\ p \notin Tasks
    BY <1>8, PhonesAssumption DEF Phone, CallSync, FinishSync
  <2> QED BY <1>0, <2>1, <2>2, QueueGrows
<1>9. CASE Restart
  <2>1. queue' = <<>>
    BY <1>9 DEF Restart
  <2>2. Queued'
    BY <2>1 DEF Queued
  <2> QED BY <1>9, <2>2, RestartKeeps
<1>10. CASE UNCHANGED vars
  BY <1>10 DEF Records, TypeOK, Filed, OneVerdict, Told, ByVerdict, Queued, vars, qms, pool,
     bounds
<1> QED BY <1>1, <1>2, <1>3, <1>4, <1>5, <1>6, <1>7, <1>8, <1>9, <1>10 DEF Next, Handler

LEMMA InvInit ==
  ASSUME Init
  PROVE  IInv
BY InitRecords DEF Init, IInv, Queued

LEMMA InvHolds == Spec => []IInv
<1>1. Init => IInv
  BY InvInit
<1>2. IInv /\ [Next]_vars => IInv'
  BY InvNext
<1> QED BY <1>1, <1>2, PTL DEF Spec

-----------------------------------------------------------------------------
(* Theorems *)

(* Rows, receipts, jobs and the queue have the values the code gives them
   (VoiceMessage, the receipts table, SttJobManager). *)
THEOREM TypeCorrect == Spec => []TypeOK
<1>1. IInv => TypeOK
  BY DEF IInv, Records
<1> QED BY <1>1, InvHolds, PTL

(* However often a recording is posted and the service restarts, one task
   transcribes it (create_transcription, receipts). *)
THEOREM OneTaskEach == Spec => []OneTaskPerRecording
<1>1. IInv => OneTaskPerRecording
  <2>1. SUFFICES ASSUME IInv, NEW t \in Tasks, NEW u \in Tasks,
                        job[t].at # "none", job[t].clip = job[u].clip
                 PROVE  t = u
    BY DEF OneTaskPerRecording
  <2>2. job[t].clip \in Clips /\ receipt[job[t].clip] = t
    BY <2>1 DEF IInv, Records, Filed, NoJob
  <2>3. job[u] # NoJob
    BY <2>1, <2>2, ClipsAssumption DEF NoJob
  <2>4. receipt[job[u].clip] = u
    BY <2>1, <2>3 DEF IInv, Records, Filed
  <2> QED BY <2>1, <2>2, <2>4
<1> QED BY <1>1, InvHolds, PTL

(* What a step makes of a recording that was COMPLETED. *)
LEMMA CompletedStep ==
  ASSUME IInv, [Next]_vars, NEW c \in Clips, voice[c].status = "completed", call[c] = "over"
  PROVE  voice'[c].status = "completed"
<1>0. /\ voice \in [Clips -> Recordings] /\ receipt[c] \in Tasks
      /\ job[receipt[c]].verdict = "completed"
  BY DEF IInv, Records, TypeOK, ByVerdict, Recordings
<1>1. ASSUME NEW d \in Clips, Request(d) PROVE voice'[c].status = "completed"
  <2>1. CASE Upload(d) \/ SendFails(d) \/ TakeAnswer(d)
    <3>1. d # c
      BY <2>1 DEF Upload, SendFails, TakeAnswer
    <3>2. voice'[c] = voice[c]
      BY <1>0, <2>1, <3>1 DEF Upload, SendFails, TakeAnswer
    <3> QED BY <3>2
  <2>2. CASE Send(d) \/ UploadDies(d) \/ AskAgain(d)
    BY <2>2 DEF Send, UploadDies, AskAgain, qms
  <2> QED BY <1>1, <2>1, <2>2 DEF Request
<1>2. ASSUME NEW t \in Tasks, NEW n \in 1 .. Tries, ApplyCallback(t, n)
      PROVE  voice'[c].status = "completed"
  <2>1. job[t].clip \in Clips /\ receipt[job[t].clip] = t
    BY <1>2 DEF IInv, Records, Told, Filed, NoJob, ApplyCallback
  <2>2. voice' = [voice EXCEPT ![job[t].clip] =
                    [status |-> job[t].verdict, task |-> t,
                     text |-> voice[job[t].clip].text \/ job[t].verdict = "completed"]]
    BY <1>2 DEF ApplyCallback, Applied
  <2>3. CASE job[t].clip = c
    <3>1. job[t].verdict = "completed"
      BY <1>0, <2>1, <2>3
    <3> QED BY <1>0, <2>2, <2>3, <3>1
  <2>4. CASE job[t].clip # c
    <3>1. voice'[c] = voice[c]
      BY <1>0, <2>2, <2>4
    <3> QED BY <3>1
  <2> QED BY <2>3, <2>4
<1>3. ASSUME \/ \E d \in Clips : Handler(d) \/ Decide(d)
             \/ \E t \in Tasks : Work(t)
             \/ \E p \in Phones : Phone(p)
             \/ TakeWork \/ Restart \/ UNCHANGED vars
      PROVE  voice' = voice
  BY <1>3 DEF Handler, Replay, Accept, Decide, Work, Submit, Transcribe, PostCallback, NextTry,
     Phone, CallSync, FinishSync, TakeWork, Restart, vars, qms
<1> QED BY <1>1, <1>2, <1>3 DEF Next

(* A recording that is COMPLETED once its upload is over stays so
   (handle_process_mining_callback, send_voice_to_process_mining). *)
THEOREM CompletedForGood == Spec => CompletedStays
<1>1. IInv /\ [Next]_vars =>
        [\A c \in Clips : voice[c].status = "completed" /\ call[c] = "over"
                             => voice'[c].status = "completed"]_vars
  BY CompletedStep
<1> QED BY <1>1, InvHolds, PTL DEF Spec, CompletedStays

-----------------------------------------------------------------------------
(* The widget: recorders, their streams and what became of their recordings. *)

WidgetTypes ==
  /\ holds \in 0 .. MaxHolds /\ holding \in BOOLEAN /\ cancelled \in BOOLEAN /\ raced \in BOOLEAN
  /\ recorder \in 0 .. holds /\ stream \in {No, recorder}
  /\ asking \subseteq 1 .. holds /\ live \subseteq 1 .. holds /\ recording \subseteq 1 .. holds
  /\ stopping \subseteq 1 .. holds /\ aborted \subseteq 1 .. holds /\ sent \subseteq 1 .. holds

(* Only the recorder on record ever stops, after the button was let go. *)
OneRecorder ==
  /\ recorder # No => recorder \in recording \cup stopping
  /\ stopping \subseteq {recorder}
  /\ stopping # {} => ~ holding
  /\ recording \cap stopping = {}

(* A hold that waits for the microphone has recorded nothing. *)
Unasked ==
  /\ asking \cap (recording \cup stopping \cup aborted \cup sent) = {}
  /\ recorder \notin asking

(* What was broken off is not sent while its recorder stops: the flag still says so. *)
BrokenOff ==
  /\ aborted \cap recording = {}
  /\ sent \cap (recording \cup stopping) = {}
  /\ aborted \cap stopping # {} => cancelled
  /\ CancelledNotSent

(* Without a second press in the meantime, the stream on record is the only one that
   is on, and nothing is on while the microphone is asked for. *)
OneStream ==
  ~ raced => /\ live \subseteq {stream}
             /\ asking # {} => recorder = No /\ live = {}
             /\ \A g, h \in asking : g = h

WidgetInv == WidgetTypes /\ OneRecorder /\ Unasked /\ BrokenOff /\ OneStream

(* The steps of recognition and confirmation have no part in it. *)
LEMMA WidgetFrame ==
  WidgetInv /\ UNCHANGED <<talk, media, aborted, sent, raced>> => WidgetInv'
BY DEF WidgetInv, WidgetTypes, OneRecorder, Unasked, BrokenOff, OneStream, CancelledNotSent,
       talk, media

LEMMA BeginHoldStep == WidgetInv /\ BeginHold => WidgetInv'
<1> SUFFICES ASSUME WidgetInv, BeginHold PROVE WidgetInv'
  OBVIOUS
<1>1. /\ holds \in Nat /\ holds' = holds + 1 /\ holds' \in 0 .. MaxHolds
      /\ 0 .. holds \subseteq 0 .. holds' /\ 1 .. holds \subseteq 1 .. holds'
      /\ holds' \in 1 .. holds' /\ holds' \notin 0 .. holds
  BY WidgetBounds DEF WidgetInv, WidgetTypes, BeginHold
<1>2. recorder = No /\ stopping = {} /\ live' = live /\ asking' = asking \cup {holds'}
  BY <1>1 DEF WidgetInv, WidgetTypes, OneRecorder, BeginHold, MayBegin, No
<1>3. WidgetTypes'
  BY <1>1, <1>2 DEF WidgetInv, WidgetTypes, BeginHold, No
<1>4. OneRecorder' /\ BrokenOff'
  BY <1>2 DEF WidgetInv, OneRecorder, BrokenOff, CancelledNotSent, BeginHold
<1>5. Unasked'
  BY <1>1, <1>2 DEF WidgetInv, WidgetTypes, Unasked, BeginHold, No
<1>6. OneStream'
  <2> SUFFICES ASSUME ~ raced' PROVE live = {} /\ asking = {}
    BY <1>2 DEF OneStream, BeginHold
  <2>1. ~ raced /\ asking = {}
    BY DEF BeginHold
  <2>2. live \subseteq {No}
    BY <1>2, <2>1 DEF WidgetInv, WidgetTypes, OneStream
  <2> QED BY <1>1, <2>1, <2>2 DEF WidgetInv, WidgetTypes, No
<1> QED BY <1>3, <1>4, <1>5, <1>6 DEF WidgetInv

LEMMA MicStep ==
  ASSUME WidgetInv, NEW g \in Holds, MicGranted(g) \/ MicRefused(g)
  PROVE  WidgetInv'
<1>1. /\ g \in asking /\ g \in 1 .. holds /\ g \in 0 .. holds /\ g # No
      /\ asking' = asking \ {g} /\ holds \in Nat
  <2>1. g \in asking /\ asking' = asking \ {g}
    BY DEF MicGranted, MicRefused
  <2>2. asking \subseteq 1 .. holds /\ holds \in Nat
    BY DEF WidgetInv, WidgetTypes
  <2> QED BY <2>1, <2>2 DEF No
<1>2. holds' = holds /\ cancelled' = cancelled /\ aborted' = aborted /\ sent' = sent /\ raced' = raced
  BY DEF MicGranted, MicRefused, talk, history
<1>3. CASE MicGranted(g) /\ holding
  <2>1. /\ stream' = g /\ live' = live \cup {g} /\ recorder' = g
        /\ recording' = recording \cup {g} /\ stopping' = stopping /\ holding' = holding
    BY <1>3 DEF MicGranted, talk
  <2>2. stopping = {}
    BY <1>3 DEF WidgetInv, OneRecorder
  <2>3. WidgetTypes'
    BY <1>1, <1>2, <2>1 DEF WidgetInv, WidgetTypes
  <2>4. OneRecorder' /\ Unasked' /\ BrokenOff'
    BY <1>1, <1>2, <2>1, <2>2 DEF WidgetInv, OneRecorder, Unasked, BrokenOff, CancelledNotSent
  <2>5. OneStream'
    BY <1>1, <1>2, <2>1 DEF WidgetInv, OneStream
  <2> QED BY <2>3, <2>4, <2>5 DEF WidgetInv
<1>4. CASE MicGranted(g) /\ ~ holding
  <2>1. /\ stream' = No
        /\ UNCHANGED <<live, recorder, recording, stopping, holding>>
    BY <1>4 DEF MicGranted, talk
  <2> QED
    BY <1>1, <1>2, <2>1
       DEF WidgetInv, WidgetTypes, OneRecorder, Unasked, BrokenOff, CancelledNotSent, OneStream
<1>5. CASE MicRefused(g)
  <2>1. /\ live' = live \ {stream} /\ recording' = recording \ {stream} /\ stream' = No
        /\ stopping' = stopping \cup (recording \cap {stream})
        /\ recorder' = recorder /\ holding' = FALSE
    BY <1>5 DEF MicRefused, Teardown
  <2>2. WidgetTypes'
    BY <1>1, <1>2, <2>1 DEF WidgetInv, WidgetTypes
  <2>3. OneRecorder' /\ Unasked' /\ BrokenOff'
    BY <1>1, <1>2, <2>1
       DEF WidgetInv, WidgetTypes, OneRecorder, Unasked, BrokenOff, CancelledNotSent, No
  <2>4. OneStream'
    BY <1>1, <1>2, <2>1 DEF WidgetInv, OneStream
  <2> QED BY <2>2, <2>3, <2>4 DEF WidgetInv
<1> QED BY <1>3, <1>4, <1>5

LEMMA EndHoldStep ==
  ASSUME WidgetInv, NEW abort \in BOOLEAN, EndHold(abort)
  PROVE  WidgetInv'
<1>1. /\ holding /\ holding' = FALSE /\ stopping = {} /\ asking' = asking /\ recorder' = recorder
      /\ holds' = holds /\ sent' = sent /\ raced' = raced
  BY DEF EndHold, WidgetInv, OneRecorder
<1>2. CASE recorder \in recording
  <2>1. /\ cancelled' = abort /\ recording' = recording \ {recorder} /\ stopping' = {recorder}
        /\ aborted' = (IF abort THEN aborted \cup {recorder} ELSE aborted)
        /\ stream' = stream /\ live' = live
    BY <1>1, <1>2 DEF EndHold
  <2>2. WidgetTypes'
    BY <1>1, <1>2, <2>1 DEF WidgetInv, WidgetTypes
  <2>3. OneRecorder' /\ Unasked' /\ OneStream'
    BY <1>1, <1>2, <2>1 DEF WidgetInv, OneRecorder, Unasked, OneStream
  <2>4. BrokenOff'
    BY <1>1, <1>2, <2>1 DEF WidgetInv, BrokenOff, CancelledNotSent
  <2> QED BY <2>2, <2>3, <2>4 DEF WidgetInv
<1>3. CASE recorder \notin recording
  <2>1. /\ live' = live \ {stream} /\ recording' = recording \ {stream} /\ stream' = No
        /\ stopping' = stopping \cup (recording \cap {stream})
        /\ cancelled' = cancelled /\ aborted' = aborted
    BY <1>3 DEF EndHold, Teardown
  <2>2. recorder = No
    BY <1>1, <1>3 DEF WidgetInv, OneRecorder
  <2>3. No \notin live /\ No \notin recording /\ stream = No
    BY <2>2 DEF WidgetInv, WidgetTypes, No
  <2> QED
    BY <1>1, <2>1, <2>2, <2>3
       DEF WidgetInv, WidgetTypes, OneRecorder, Unasked, BrokenOff, CancelledNotSent, OneStream
<1> QED BY <1>2, <1>3

LEMMA StoppedStep ==
  ASSUME WidgetInv, NEW r \in Holds, RecorderStopped(r)
  PROVE  WidgetInv'
<1>1. /\ r \in stopping /\ recorder = r /\ stopping = {r} /\ r \notin recording
  BY DEF RecorderStopped, WidgetInv, OneRecorder
<1>2. /\ recorder' = No /\ stream' = No /\ live' = live \ {stream}
      /\ recording' = recording /\ stopping' = {} /\ asking' = asking
      /\ holds' = holds /\ holding' = holding /\ cancelled' = cancelled
      /\ aborted' = aborted /\ raced' = raced
      /\ sent' = sent \/ (~ cancelled /\ sent' = sent \cup {r})
  <2>1. recording \cap {stream} = {}
    BY <1>1 DEF WidgetInv, WidgetTypes, No
  <2> QED BY <1>1, <2>1 DEF RecorderStopped, talk
<1>3. r \in 1 .. holds /\ r # No /\ No \in 0 .. holds /\ No \notin 1 .. holds
  BY <1>1 DEF WidgetInv, WidgetTypes, No
<1>4. WidgetTypes'
  <2>1. sent' \subseteq 1 .. holds
    BY <1>2, <1>3 DEF WidgetInv, WidgetTypes
  <2> QED BY <1>2, <1>3, <2>1 DEF WidgetInv, WidgetTypes
<1>5. OneRecorder'
  BY <1>1, <1>2 DEF WidgetInv, OneRecorder
<1>6. Unasked'
  <2>1. asking \cap sent' = {}
    BY <1>1, <1>2 DEF WidgetInv, Unasked
  <2> QED BY <1>2, <1>3, <2>1 DEF WidgetInv, WidgetTypes, Unasked
<1>7. OneStream'
  BY <1>1, <1>2, <1>3 DEF WidgetInv, WidgetTypes, OneStream
<1>8. BrokenOff'
  BY <1>1, <1>2 DEF WidgetInv, BrokenOff, CancelledNotSent
<1> QED BY <1>4, <1>5, <1>6, <1>7, <1>8 DEF WidgetInv

LEMMA WidgetStep == WidgetInv /\ [WidgetNext]_widgetVars => WidgetInv'
<1> SUFFICES ASSUME WidgetInv, [WidgetNext]_widgetVars PROVE WidgetInv'
  OBVIOUS
<1>1. CASE BeginHold
  BY <1>1, BeginHoldStep
<1>2. ASSUME NEW r \in Holds, MicGranted(r) \/ MicRefused(r) \/ RecorderStopped(r)
      PROVE  WidgetInv'
  BY <1>2, MicStep, StoppedStep
<1>3. CASE EndHold(FALSE) \/ EndHold(TRUE)
  BY <1>3, EndHoldStep
<1>4. ASSUME NEW r \in Holds, UploadDone(r) \/ Recognise(r) \/ PollAnswered(r)
      PROVE  WidgetInv'
  BY <1>4, WidgetFrame DEF UploadDone, Recognise, PollAnswered, history
<1>5. CASE PollAgain \/ PollTimesOut
  BY <1>5, WidgetFrame DEF PollAgain, PollTimesOut, history
<1>6. CASE CountdownEnds \/ PressConfirm \/ PressReject
  BY <1>6, WidgetFrame DEF CountdownEnds, PressConfirm, SendConfirm, PressReject, history
<1>7. ASSUME NEW r \in Holds, ConfirmAnswered(r) \/ RejectAnswered(r) PROVE WidgetInv'
  BY <1>7, WidgetFrame DEF ConfirmAnswered, RejectAnswered, history
<1>8. CASE ResetIdle \/ Close
  BY <1>8, WidgetFrame DEF ResetIdle, Close, history
<1>9. CASE UNCHANGED widgetVars
  BY <1>9, WidgetFrame DEF widgetVars, history
<1> QED
  BY <1>1, <1>2, <1>3, <1>4, <1>5, <1>6, <1>7, <1>8, <1>9 DEF WidgetNext

LEMMA WidgetHolds == WidgetSpec => []WidgetInv
<1>1. WidgetInit => WidgetInv
  <2> SUFFICES ASSUME WidgetInit PROVE WidgetInv
    OBVIOUS
  <2>1. WidgetTypes
    <3>1. holding \in BOOLEAN /\ cancelled \in BOOLEAN /\ raced \in BOOLEAN
      BY DEF WidgetInit
    <3>2. holds \in 0 .. MaxHolds /\ recorder \in 0 .. holds
      BY WidgetBounds DEF WidgetInit, No
    <3> QED BY <3>1, <3>2 DEF WidgetInit, WidgetTypes
  <2>2. OneRecorder /\ Unasked /\ BrokenOff /\ OneStream
    BY DEF WidgetInit, OneRecorder, Unasked, BrokenOff, CancelledNotSent, OneStream
  <2> QED BY <2>1, <2>2 DEF WidgetInv
<1> QED BY <1>1, WidgetStep, PTL DEF WidgetSpec

(* However often the button is pressed while a recorder still stops or the microphone
   is still asked for, a recording the person has broken off is never uploaded. *)
THEOREM BrokenOffIsNotSent == WidgetSpec => []CancelledNotSent
<1>1. WidgetInv => CancelledNotSent
  BY DEF WidgetInv, BrokenOff
<1> QED BY <1>1, WidgetHolds, PTL

(* The microphone is off when nobody holds the button and no recorder is on record,
   unless the button was pressed again while permission was still being asked for. *)
THEOREM MicReleased == WidgetSpec => []MicIsReleased
<1>1. WidgetInv => MicIsReleased
  <2> SUFFICES ASSUME WidgetInv, ~ raced, recorder = No PROVE live = {}
    BY DEF MicIsReleased
  <2>1. live \subseteq {No} /\ No \notin live
    BY DEF WidgetInv, WidgetTypes, OneStream, No
  <2> QED BY <2>1
<1> QED BY <1>1, WidgetHolds, PTL
=============================================================================
