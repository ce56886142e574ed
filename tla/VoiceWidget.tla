---------------------------- MODULE VoiceWidget ----------------------------
(***************************************************************************)
(* The push-to-talk widget in the browser: hold, speak, let go; the        *)
(* recording is uploaded, its status polled, the command shown and, after  *)
(* a countdown that can be stopped, confirmed.  Everything it awaits (the  *)
(* microphone, the recorder, every fetch) comes back while the person may  *)
(* be holding again, and all of it writes the same module variables.       *)
(* What the server makes of a recording is left open: it fails, or becomes *)
(* a command that may or may not be confirmed on the countdown.            *)
(*                                                                         *)
(* A recorder, its stream and its recording bear the number of the hold    *)
(* that asked for the microphone.                                          *)
(***************************************************************************)
EXTENDS Naturals, FiniteSets

CONSTANT MaxHolds   \* bound: times the button is pressed

Holds == 1 .. MaxHolds
No == 0

ASSUME WidgetBounds == MaxHolds \in Nat \ {0}

VARIABLES
  holds,      \* presses so far
  holding, cancelled, recorder, stream, poll, commandId, mode, shown,
  countdown,  \* autoConfirmTimer
  open,       \* the panel
  asking,     \* calls of getUserMedia not yet resolved
  live,       \* streams whose microphone is on
  recording,  \* recorders that record
  stopping,   \* recorders whose onstop is due
  fetches,    \* requests in flight: kind and recording
  resets,     \* resetIdle timers that have not fired
  server,     \* what the server made of a recording
  aborted,    \* history: recordings broken off by the person, or too short
  sent,       \* history: recordings uploaded
  raced       \* history: pressed again while the microphone was still asked for

media == <<recorder, stream, asking, live, recording, stopping>>
talk == <<holds, holding, cancelled>>
card == <<commandId, shown, countdown>>
history == <<aborted, sent, raced>>
widgetVars == <<talk, media, card, poll, mode, open, fetches, resets, server, history>>

-----------------------------------------------------------------------------
(* Recording *)

(* Fault: the tracks of an empty recording are left running. *)
RecorderStoppedEarly(r) ==
  /\ r \in stopping
  /\ recorder' = No
  /\ stopping' = stopping \ {r}
  /\ \/ cancelled /\ UNCHANGED <<mode, fetches, sent>>
     \/ ~cancelled /\ mode' = "error" /\ UNCHANGED <<fetches, sent>>
  /\ UNCHANGED <<talk, stream, live, recording, asking, card, poll, open, resets, server,
                 aborted, raced>>

(* teardownAudio stops the tracks of the stream on record; a recorder whose tracks
   end stops by itself. *)
Teardown ==
  /\ live' = live \ {stream}
  /\ recording' = recording \ {stream}
  /\ stopping' = stopping \cup (recording \cap {stream})
  /\ stream' = No

(* Fault: a recorder that is still stopping is not waited for. *)
MayBeginAnyway == ~holding
MayBegin == ~holding /\ recorder = No

BeginHold ==
  /\ MayBegin
  /\ holds < MaxHolds
  /\ holds' = holds + 1
  /\ holding' = TRUE /\ cancelled' = FALSE
  /\ poll' = No
  /\ shown' = FALSE /\ open' = TRUE /\ mode' = "requesting"
  /\ asking' = asking \cup {holds + 1}
  /\ raced' = (raced \/ asking # {})
  /\ UNCHANGED <<commandId, countdown, recorder, stream, live, recording, stopping,
                 fetches, resets, server, aborted, sent>>

(* getUserMedia resolves, for whichever hold is on by now. *)
MicGranted(g) ==
  /\ g \in asking
  /\ asking' = asking \ {g}
  /\ IF holding
     THEN /\ stream' = g /\ live' = live \cup {g}
          /\ recorder' = g /\ recording' = recording \cup {g}
          /\ mode' = "recording"
     ELSE mode' = "idle" /\ stream' = No /\ UNCHANGED <<live, recorder, recording>>
  /\ UNCHANGED <<talk, stopping, card, poll, open, fetches, resets, server, history>>

MicRefused(g) ==
  /\ g \in asking
  /\ asking' = asking \ {g}
  /\ holding' = FALSE
  /\ mode' = "error"
  /\ Teardown
  /\ UNCHANGED <<holds, cancelled, recorder, card, poll, open, fetches, resets,
                 server, history>>

(* Letting go, or the hard stop after MAX_HOLD_MS.  Sliding off, Escape and blur
   abort; a hold shorter than MIN_HOLD_MS counts as a slip. *)
EndHold(abort) ==
  /\ holding
  /\ holding' = FALSE
  /\ IF recorder \in recording
     THEN /\ cancelled' = abort
          /\ recording' = recording \ {recorder}
          /\ stopping' = stopping \cup {recorder}
          /\ aborted' = IF abort THEN aborted \cup {recorder} ELSE aborted
          /\ mode' = IF abort THEN "idle" ELSE "sending"
          /\ UNCHANGED <<stream, live>>
     ELSE mode' = "idle" /\ Teardown /\ UNCHANGED <<cancelled, aborted>>
  /\ UNCHANGED <<holds, recorder, asking, card, poll, open, fetches, resets,
                 server, sent, raced>>

RecorderStopped(r) ==
  /\ r \in stopping
  /\ recorder' = No
  /\ live' = live \ {stream} /\ stream' = No
  /\ recording' = recording \ {stream}
  /\ stopping' = (stopping \ {r}) \cup (recording \cap {stream})
  /\ \/ cancelled /\ UNCHANGED <<mode, fetches, sent>>
     \/ ~cancelled /\ mode' = "error" /\ UNCHANGED <<fetches, sent>>
     \/ /\ ~cancelled
        /\ fetches' = fetches \cup {<<"upload", r>>}
        /\ sent' = sent \cup {r}
        /\ UNCHANGED mode
  /\ UNCHANGED <<talk, asking, card, poll, open, resets, server, aborted, raced>>

-----------------------------------------------------------------------------
(* Recognition *)

UploadDone(r) ==
  /\ <<"upload", r>> \in fetches
  /\ \/ /\ fetches' = (fetches \ {<<"upload", r>>}) \cup {<<"poll", r>>}
        /\ mode' = "recognizing"
        /\ poll' = r
     \/ /\ fetches' = fetches \ {<<"upload", r>>}
        /\ mode' = "error"
        /\ UNCHANGED poll
  /\ UNCHANGED <<talk, media, card, open, resets, server, history>>

(* The server recognises a recording it has received. *)
Recognise(r) ==
  /\ server[r] = "working" /\ r \in sent
  /\ \E a \in {"failed", "waits", "runs itself"} : server' = [server EXCEPT ![r] = a]
  /\ UNCHANGED <<talk, media, card, poll, mode, open, fetches, resets, history>>

PollAgain ==
  /\ poll # No /\ <<"poll", poll>> \notin fetches
  /\ fetches' = fetches \cup {<<"poll", poll>>}
  /\ UNCHANGED <<talk, media, card, poll, mode, open, resets, server, history>>

(* Fault: polls go on for as long as nothing is found. *)
NoPollTimeout == FALSE

(* RECOGNITION_TIMEOUT_MS has passed when the next poll is due. *)
PollTimesOut ==
  /\ poll # No /\ <<"poll", poll>> \notin fetches
  /\ poll' = No /\ mode' = "error"
  /\ UNCHANGED <<talk, media, card, open, fetches, resets, server, history>>
(* showCommand and startAutoConfirm *)
Show(r) ==
  /\ poll' = No
  /\ commandId' = r /\ shown' = TRUE /\ mode' = "result"
  /\ countdown' = (server[r] = "runs itself")

(* Nothing yet, a dropped poll, a failure, or the command.  The answer to a poll
   that was stopped meanwhile is dropped. *)
PollAnswered(r) ==
  /\ <<"poll", r>> \in fetches
  /\ fetches' = fetches \ {<<"poll", r>>}
  /\ \/ UNCHANGED <<card, poll, mode>>
     \/ /\ poll = r /\ server[r] = "failed"
        /\ poll' = No /\ mode' = "error"
        /\ UNCHANGED card
     \/ /\ poll = r /\ server[r] \in {"waits", "runs itself"}
        /\ Show(r)
  /\ UNCHANGED <<talk, media, open, resets, server, history>>

-----------------------------------------------------------------------------
(* Confirmation *)

SendConfirm ==
  /\ countdown' = FALSE
  /\ IF commandId = No THEN UNCHANGED fetches
     ELSE fetches' = fetches \cup {<<"confirm", commandId>>}
  /\ UNCHANGED <<talk, media, commandId, shown, poll, mode, open, resets, server,
                 history>>

CountdownEnds == countdown /\ SendConfirm
PressConfirm == open /\ shown /\ SendConfirm

(* Done, refused by the server, or the network is gone. *)
ConfirmAnswered(r) ==
  /\ <<"confirm", r>> \in fetches
  /\ fetches' = fetches \ {<<"confirm", r>>}
  /\ \/ /\ mode' = "done" /\ shown' = FALSE /\ commandId' = No
        /\ resets' = resets + 1
     \/ mode' = "error" /\ UNCHANGED <<shown, commandId, resets>>
  /\ UNCHANGED <<talk, media, countdown, poll, open, server, history>>

PressReject ==
  /\ open /\ shown
  /\ countdown' = FALSE
  /\ IF commandId # No
     THEN fetches' = fetches \cup {<<"reject", commandId>>}
          /\ UNCHANGED <<commandId, shown, mode>>
     ELSE shown' = FALSE /\ mode' = "idle" /\ UNCHANGED <<commandId, fetches>>
  /\ UNCHANGED <<talk, media, poll, open, resets, server, history>>

RejectAnswered(r) ==
  /\ <<"reject", r>> \in fetches
  /\ fetches' = fetches \ {<<"reject", r>>}
  /\ commandId' = No /\ shown' = FALSE
  /\ countdown' = FALSE /\ mode' = "idle"
  /\ UNCHANGED <<talk, media, poll, open, resets, server, history>>

ResetIdle ==
  /\ resets > 0
  /\ resets' = resets - 1
  /\ countdown' = FALSE /\ mode' = "idle"
  /\ UNCHANGED <<talk, media, commandId, shown, poll, open, fetches, server, history>>

Close ==
  /\ open
  /\ open' = FALSE /\ countdown' = FALSE /\ poll' = No
  /\ UNCHANGED <<talk, media, commandId, shown, mode, fetches, resets, server,
                 history>>

WidgetInit ==
  /\ holds = 0 /\ holding = FALSE /\ cancelled = FALSE
  /\ recorder = No /\ stream = No /\ asking = {} /\ live = {}
  /\ recording = {} /\ stopping = {}
  /\ commandId = No /\ shown = FALSE /\ countdown = FALSE
  /\ poll = No /\ mode = "idle" /\ open = FALSE
  /\ fetches = {} /\ resets = 0
  /\ server = [r \in Holds |-> "working"]
  /\ aborted = {} /\ sent = {} /\ raced = FALSE

WidgetNext ==
  \/ BeginHold
  \/ \E r \in Holds : MicGranted(r) \/ MicRefused(r) \/ RecorderStopped(r)
  \/ EndHold(FALSE) \/ EndHold(TRUE)
  \/ \E r \in Holds : UploadDone(r) \/ Recognise(r) \/ PollAnswered(r)
  \/ PollAgain \/ PollTimesOut
  \/ CountdownEnds \/ PressConfirm \/ PressReject
  \/ \E r \in Holds : ConfirmAnswered(r) \/ RejectAnswered(r)
  \/ ResetIdle \/ Close

(* Timers fire and fetches end; nobody has to press anything. *)
WidgetFairness ==
  /\ SF_widgetVars(PollTimesOut)
  /\ \A r \in Holds : WF_widgetVars(PollAnswered(r)) /\ WF_widgetVars(UploadDone(r))

WidgetSpec == WidgetInit /\ [][WidgetNext]_widgetVars
WidgetFairSpec == WidgetSpec /\ WidgetFairness

-----------------------------------------------------------------------------
(* Properties *)

(* "Sliding off the button or pressing Escape while still holding cancels without
   sending": what was broken off is never uploaded, although the flag that says so
   is shared by all recordings and read only when the recorder has stopped. *)
CancelledNotSent == aborted \cap sent = {}

(* The microphone is off when nobody holds the button and no recorder is stopping,
   unless it was pressed a second time while permission was still being asked for:
   the first stream is then overwritten and never stopped. *)
MicIsReleased ==
  ~raced /\ ~holding /\ recorder = No => live = {}

(* Polling comes to an end: with a command, an error, or the timeout. *)
PollEnds == \A r \in Holds : (poll = r) ~> (poll # r)
=============================================================================
