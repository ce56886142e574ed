---------------------------- MODULE SpeechPhone ----------------------------
(***************************************************************************)
(* The Android application: one button, in Tap mode.  A tap starts a       *)
(* recording or stops it; the recording becomes a text, the text waits     *)
(* three seconds in which it can be called off, and is then posted.  The   *)
(* view model runs on the main thread, the engine on a pool of threads     *)
(* that check and set its fields without a lock, and MediaRecorder.stop    *)
(* takes its time.  A recording is named after the tap that started it, a  *)
(* text after the tap that stopped its recording.                          *)
(***************************************************************************)
EXTENDS Naturals, FiniteSets

CONSTANTS
  MaxTaps,    \* bound: taps on the button
  MaxLeaves   \* bound: times the screen is left

Taps == 1 .. MaxTaps
NoTap == 0

ASSUME PhoneBounds == MaxTaps \in Nat /\ MaxLeaves \in Nat

VARIABLES
  tap,        \* the coroutine of a tap: what it does, and to which recording
  engine,     \* RemoteWhisperSpeechEngine: recorder, activeFile, isRecording
  mics,       \* recorders that run
  gone,       \* recordings whose file is deleted
  session,    \* RecognitionSession.status
  job,        \* the dispatch of a text
  pendingJob, \* MainViewModel.pendingDispatchJob
  shown,      \* LocalState.sendStatus
  releases,   \* cancel() calls of cleared view models that have not run yet
  leaves,
  calledOff,  \* history: texts cancelled in their three seconds
  posted      \* history: texts posted

phone == <<tap, engine, mics, gone, session>>
dispatch == <<job, pendingJob, shown, calledOff, posted>>
phoneVars == <<phone, dispatch, releases, leaves>>

Active == session \in {"preparing", "listening", "recognizing"}
NoWork == [at |-> "none", file |-> NoTap]
Idle == [recorder |-> NoTap, file |-> NoTap, isRecording |-> FALSE]

-----------------------------------------------------------------------------
(* MainViewModel *)

(* Fault: the new text takes the reference, the old job runs on. *)
CancelledOrNot == job
(* The reference may point to a job that is over: cancelling it does nothing. *)
Cancelled == [i \in Taps |-> IF i = pendingJob /\ job[i] \in {"pending", "sending"}
                             THEN "cancelled" ELSE job[i]]
CalledOff == calledOff \cup {i \in Taps : i = pendingJob /\ job[i] = "pending"}

(* onMicTap: the button is locked while a text is being sent. *)
Tap(i) ==
  /\ tap[i] = NoWork /\ \A k \in Taps : k < i => tap[k] # NoWork
  /\ shown # "Sending"
  /\ \/ /\ Active
        /\ tap' = [tap EXCEPT ![i].at = "stop"]
        /\ UNCHANGED dispatch
     \/ /\ ~ Active
        /\ tap' = [tap EXCEPT ![i].at = "start"]
        /\ job' = Cancelled
        /\ calledOff' = CalledOff
        /\ pendingJob' = NoTap
        /\ shown' = "Idle"
        /\ UNCHANGED posted
  /\ UNCHANGED <<engine, mics, gone, session, releases, leaves>>

(* onPendingSendCancelled: its button is there while the countdown is. *)
CancelPending ==
  /\ shown = "Pending"
  /\ job' = Cancelled
  /\ calledOff' = CalledOff
  /\ pendingJob' = NoTap
  /\ shown' = "Cancelled"
  /\ UNCHANGED <<phone, posted, releases, leaves>>

(* scheduleDispatch *)
Schedule(i) ==
  /\ job' = [Cancelled EXCEPT ![i] = "pending"]
  /\ calledOff' = CalledOff
  /\ pendingJob' = i
  /\ shown' = "Pending"
  /\ UNCHANGED posted

(* Three seconds later; the text leaves in the composition. *)
Dispatch(i) ==
  /\ job[i] = "pending"
  /\ job' = [job EXCEPT ![i] = "sending"]
  /\ shown' = "Sending"
  /\ posted' = posted \cup {i}
  /\ UNCHANGED <<phone, pendingJob, calledOff, releases, leaves>>

Verdict(i, s) ==
  /\ job[i] = "sending"
  /\ job' = [job EXCEPT ![i] = "over"]
  /\ shown' = s
  /\ UNCHANGED <<phone, pendingJob, calledOff, posted, releases, leaves>>

DismissError ==
  /\ shown = "Error"
  /\ shown' = "Idle"
  /\ UNCHANGED <<phone, job, pendingJob, calledOff, posted, releases, leaves>>

-----------------------------------------------------------------------------
(* RemoteWhisperSpeechEngine, on its threads *)

(* A second tap may have passed both checks before the first set the flag. *)
StartEnters(i) ==
  /\ tap[i].at = "start"
  /\ \/ /\ engine.isRecording
        /\ tap' = [tap EXCEPT ![i].at = "over"]
        /\ UNCHANGED session
     \/ /\ ~ engine.isRecording
        /\ tap' = [tap EXCEPT ![i].at = "opening"]
        /\ session' = "preparing"
  /\ UNCHANGED <<engine, mics, gone, dispatch, releases, leaves>>

Opened(i) ==
  /\ tap[i].at = "opening"
  /\ tap' = [tap EXCEPT ![i].at = "over"]
  /\ engine' = [recorder |-> i, file |-> i, isRecording |-> TRUE]
  /\ mics' = mics \cup {i}
  /\ session' = "listening"
  /\ UNCHANGED <<gone, dispatch, releases, leaves>>

(* The recorder that is released here may be that of another tap. *)
NotOpened(i) ==
  /\ tap[i].at = "opening"
  /\ tap' = [tap EXCEPT ![i].at = "over"]
  /\ engine' = [engine EXCEPT !.recorder = NoTap]
  /\ mics' = mics \ {engine.recorder}
  /\ gone' = gone \cup {i}
  /\ session' = "error"
  /\ UNCHANGED <<dispatch, releases, leaves>>

StopEnters(i) ==
  /\ tap[i].at = "stop"
  /\ tap' = [tap EXCEPT ![i] = IF engine.isRecording
                               THEN [at |-> "stopping", file |-> engine.file]
                               ELSE [@ EXCEPT !.at = "over"]]
  /\ UNCHANGED <<engine, mics, gone, session, dispatch, releases, leaves>>

(* stopRecorder returns; a file without sound ends the tap, with no event. *)
Stopped(i) ==
  /\ tap[i].at \in {"stopping", "abandoned"}
  /\ engine' = Idle
  /\ mics' = mics \ {engine.recorder}
  /\ \/ /\ tap[i].at = "stopping" /\ tap[i].file \notin gone \cup {NoTap}
        /\ tap' = [tap EXCEPT ![i].at = "transcribing"]
        /\ session' = "recognizing"
     \/ /\ tap' = [tap EXCEPT ![i].at = "over"]
        /\ UNCHANGED session
  /\ UNCHANGED <<gone, dispatch, releases, leaves>>

Transcribed(i) ==
  /\ tap[i].at = "transcribing"
  /\ tap' = [tap EXCEPT ![i].at = "over"]
  /\ gone' = gone \cup {tap[i].file}
  /\ \/ session' = "success" /\ Schedule(i)
     \/ session' = "error" /\ UNCHANGED dispatch
  /\ UNCHANGED <<engine, mics, releases, leaves>>

-----------------------------------------------------------------------------
(* The screen is left and a new view model made.  Its coroutines end, a thread
   that is in the recorder finishes; onCleared has cancel() called twice. *)
Leave ==
  /\ leaves < MaxLeaves
  /\ leaves' = leaves + 1
  /\ tap' = [i \in Taps |->
               IF tap[i].at \in {"start", "stop", "transcribing"}
               THEN [tap[i] EXCEPT !.at = "over"]
               ELSE IF tap[i].at = "stopping" THEN [tap[i] EXCEPT !.at = "abandoned"]
               ELSE tap[i]]
  /\ gone' = gone \cup {tap[i].file : i \in {k \in Taps : tap[k].at = "transcribing"}}
  /\ job' = [i \in Taps |-> IF job[i] \in {"pending", "sending"} THEN "cancelled" ELSE job[i]]
  /\ calledOff' = calledOff \cup {i \in Taps : job[i] = "pending"}
  /\ pendingJob' = NoTap
  /\ shown' = "Idle"
  /\ releases' = releases + 2
  /\ UNCHANGED <<engine, mics, session, posted>>

Release ==
  /\ releases > 0
  /\ releases' = releases - 1
  /\ engine' = Idle
  /\ mics' = mics \ {engine.recorder}
  /\ gone' = gone \cup ({engine.file} \ {NoTap})
  /\ session' = "idle"
  /\ UNCHANGED <<tap, dispatch, leaves>>

PhoneInit ==
  /\ tap = [i \in Taps |-> NoWork]
  /\ engine = Idle
  /\ mics = {} /\ gone = {}
  /\ session = "idle"
  /\ job = [i \in Taps |-> "none"]
  /\ pendingJob = NoTap
  /\ shown = "Idle"
  /\ releases = 0 /\ leaves = 0
  /\ calledOff = {} /\ posted = {}

Thread(i) ==
  StartEnters(i) \/ Opened(i) \/ NotOpened(i) \/ StopEnters(i) \/ Stopped(i) \/ Transcribed(i)

(* What the phone does by itself; Dispatch and Verdict are shared with the server. *)
PhoneStep == (\E i \in Taps : Tap(i) \/ Thread(i)) \/ CancelPending \/ DismissError \/ Leave \/ Release

-----------------------------------------------------------------------------
(* The fields of the application have the values its classes give them. *)
PhoneTypeOK ==
  /\ tap \in [Taps -> [at : {"none", "start", "opening", "stop", "stopping", "abandoned",
                             "transcribing", "over"}, file : Taps \cup {NoTap}]]
  /\ engine \in [recorder : Taps \cup {NoTap}, file : Taps \cup {NoTap}, isRecording : BOOLEAN]
  /\ mics \subseteq Taps /\ gone \subseteq Taps
  /\ session \in {"idle", "preparing", "listening", "recognizing", "success", "error"}
  /\ job \in [Taps -> {"none", "pending", "sending", "over", "cancelled"}]
  /\ pendingJob \in Taps \cup {NoTap}
  /\ shown \in {"Idle", "Pending", "Sending", "Success", "Error", "Cancelled"}
  /\ releases \in Nat /\ leaves \in 0 .. MaxLeaves
  /\ calledOff \subseteq Taps /\ posted \subseteq Taps

(* One text at a time is on its way out: a newer text takes the place of one that
   still waits, and the button of the countdown reaches the one that is left. *)
OneDispatch ==
  \A i \in Taps : job[i] \in {"pending", "sending"} => pendingJob = i

=============================================================================
