---------------------------- MODULE SpeechRelay ----------------------------
(***************************************************************************)
(* From the PushToTalk backend to the QMS.  The backend saves every post   *)
(* as a message of its own, publishes it on MQTT and posts it to the QMS   *)
(* under the id speech-<message id>; the voice gateway hears it on MQTT    *)
(* and posts it too, under the same id and without the user's session.     *)
(* PushToTalkTextCommandView looks for the id, stores the text, and then   *)
(* carries the command out in a second transaction; a caller waits ten     *)
(* seconds.  A message is named after the text it holds.                   *)
(***************************************************************************)
EXTENDS Naturals, FiniteSets

CONSTANTS
  Texts,        \* texts a telephone may post
  MaxCrashes    \* bound: workers of the QMS that die in a request

Callers == {"backend", "gateway"}

ASSUME RelayBounds == MaxCrashes \in Nat

VARIABLES
  stage,    \* the handler receive_speech of the backend
  bus,      \* messages published and not yet heard by the gateway
  req,      \* requests of PushToTalkTextCommandView
  heard,    \* what a caller has been answered
  command,  \* the VoiceMessage under the id and the status of its command
  reply,    \* what the telephone is answered
  crashes,
  auto,     \* history: times the endpoint carried the text out
  done      \* history: texts carried out, also by an operator

relayVars == <<stage, bus, req, heard, command, reply, crashes, auto, done>>

Settled == {"none", "over"}

-----------------------------------------------------------------------------
(* Backend: receive_speech, dispatch_text_command *)

(* Every post is a new message, also the same text said or sent again. *)
Receive(t) ==
  /\ stage[t] = "none"
  /\ stage' = [stage EXCEPT ![t] = "saved"]
  /\ UNCHANGED <<bus, req, heard, command, reply, crashes, auto, done>>

(* A broker that does not answer is only logged; what was given to it in time
   may still be delivered. *)
Publish(t) ==
  /\ stage[t] = "saved"
  /\ stage' = [stage EXCEPT ![t] = "forwarding"]
  /\ bus' \in {bus, bus \cup {t}}
  /\ req' = [req EXCEPT ![t]["backend"] = "arrived"]
  /\ UNCHANGED <<heard, command, reply, crashes, auto, done>>

Answered(t, r) ==
  /\ stage' = [stage EXCEPT ![t] = "over"]
  /\ reply' = [reply EXCEPT ![t] = r]
  /\ UNCHANGED <<bus, req, heard, command, crashes, auto, done>>

TakeReply(t) ==
  /\ stage[t] = "forwarding"
  /\ heard[t]["backend"] # "nothing"
  /\ Answered(t, heard[t]["backend"])

(* KmsForwardError, also by timeout: the telephone is told that the QMS did not
   accept the text and to send it again. *)
GiveUp(t) ==
  /\ stage[t] = "forwarding"
  /\ Answered(t, "refused")

-----------------------------------------------------------------------------
(* Voice gateway: it is subscribed without acknowledgements. *)
Hear(t) ==
  /\ t \in bus
  /\ bus' = bus \ {t}
  /\ req' \in {req, [req EXCEPT ![t]["gateway"] = "arrived"]}
  /\ UNCHANGED <<stage, heard, command, reply, crashes, auto, done>>

-----------------------------------------------------------------------------
(* QMS: PushToTalkTextCommandView.post *)

Respond(t, c, r) ==
  /\ req' = [req EXCEPT ![t][c] = "over"]
  /\ heard' = [heard EXCEPT ![t][c] = r]

Outcome(s) == IF s = "executed" THEN "executed" ELSE "accepted"

(* The id is known: the answer is the command as it stands. *)
Duplicate(t, c) ==
  /\ req[t][c] = "arrived"
  /\ command[t] # "none"
  /\ Respond(t, c, Outcome(command[t]))
  /\ UNCHANGED <<stage, bus, command, reply, crashes, auto, done>>

(* The session of the telephone has expired. *)
UnknownSession(t) ==
  /\ req[t]["backend"] = "arrived"
  /\ command[t] = "none"
  /\ Respond(t, "backend", "refused")
  /\ UNCHANGED <<stage, bus, command, reply, crashes, auto, done>>

LookUp(t, c) ==
  /\ req[t][c] = "arrived"
  /\ command[t] = "none"
  /\ req' = [req EXCEPT ![t][c] = "checked"]
  /\ UNCHANGED <<stage, bus, heard, command, reply, crashes, auto, done>>

(* Fault: client_request_id is not unique. *)
TakenIds == {}
Taken == {t \in Texts : command[t] # "none"}

(* The id is unique in the table: the second of two requests that both looked
   too early fails. *)
Insert(t, c) ==
  /\ req[t][c] = "checked"
  /\ t \notin Taken
  /\ command' = [command EXCEPT ![t] = "detected"]
  /\ req' = [req EXCEPT ![t][c] = "stored"]
  /\ UNCHANGED <<stage, bus, heard, reply, crashes, auto, done>>

(* A text that is no command, or one that is not understood. *)
InsertPlain(t, c) ==
  /\ req[t][c] = "checked"
  /\ t \notin Taken
  /\ \E s \in {"bare", "needs_review"} : command' = [command EXCEPT ![t] = s]
  /\ Respond(t, c, "accepted")
  /\ UNCHANGED <<stage, bus, reply, crashes, auto, done>>

InsertRefused(t, c) ==
  /\ req[t][c] = "checked"
  /\ t \in Taken
  /\ Respond(t, c, "refused")
  /\ UNCHANGED <<stage, bus, command, reply, crashes, auto, done>>

(* confirm_voice_command by the session's user or the default one. *)
Confirm(t, c) ==
  /\ req[t][c] = "stored"
  /\ command[t] = "detected"
  /\ command' = [command EXCEPT ![t] = "executed"]
  /\ auto' = [auto EXCEPT ![t] = @ + 1]
  /\ done' = done \cup {t}
  /\ Respond(t, c, "executed")
  /\ UNCHANGED <<stage, bus, reply, crashes>>

(* There is no user, or the command is refused, an operator's decision meanwhile
   included: _mark_needs_review is written over what the command has become. *)
Mark(t, c) ==
  /\ req[t][c] = "stored"
  /\ command' = [command EXCEPT ![t] = "needs_review"]
  /\ Respond(t, c, "accepted")
  /\ UNCHANGED <<stage, bus, reply, crashes, auto, done>>

Operator(t) ==
  /\ command[t] \in {"detected", "needs_review"}
  /\ \/ command' = [command EXCEPT ![t] = "executed"] /\ done' = done \cup {t}
     \/ command' = [command EXCEPT ![t] = "rejected"] /\ UNCHANGED done
  /\ UNCHANGED <<stage, bus, req, heard, reply, crashes, auto>>

Crash(t, c) ==
  /\ crashes < MaxCrashes
  /\ crashes' = crashes + 1
  /\ req[t][c] \notin Settled
  /\ Respond(t, c, "refused")
  /\ UNCHANGED <<stage, bus, command, reply, auto, done>>

RelayInit ==
  /\ stage = [t \in Texts |-> "none"]
  /\ bus = {}
  /\ req = [t \in Texts |-> [c \in Callers |-> "none"]]
  /\ heard = [t \in Texts |-> [c \in Callers |-> "nothing"]]
  /\ command = [t \in Texts |-> "none"]
  /\ reply = [t \in Texts |-> "nothing"]
  /\ crashes = 0
  /\ auto = [t \in Texts |-> 0]
  /\ done = {}

View(t, c) ==
  \/ Duplicate(t, c) \/ LookUp(t, c) \/ Insert(t, c) \/ InsertPlain(t, c)
  \/ InsertRefused(t, c) \/ Confirm(t, c) \/ Mark(t, c)
Backend(t) == Publish(t) \/ TakeReply(t) \/ GiveUp(t)

(* Receive is shared with the telephone. *)
RelayStep ==
  \/ \E t \in Texts : Backend(t) \/ Hear(t) \/ UnknownSession(t) \/ Operator(t)
  \/ \E t \in Texts, c \in Callers : View(t, c) \/ Crash(t, c)

-----------------------------------------------------------------------------
RelayTypeOK ==
  /\ stage \in [Texts -> {"none", "saved", "forwarding", "over"}]
  /\ bus \subseteq Texts
  /\ req \in [Texts -> [Callers -> {"none", "arrived", "checked", "stored", "over"}]]
  /\ heard \in [Texts -> [Callers -> {"nothing", "executed", "accepted", "refused"}]]
  /\ command \in [Texts -> {"none", "bare", "detected", "needs_review", "executed", "rejected"}]
  /\ reply \in [Texts -> {"nothing", "executed", "accepted", "refused"}]
  /\ crashes \in 0 .. MaxCrashes
  /\ auto \in [Texts -> Nat]
  /\ done \subseteq Texts

(* The backend and the gateway post the same text, and the endpoint carries it out
   at most once: of the two requests only the one that stored it confirms it. *)
CarriedOutOnce == \A t \in Texts : auto[t] <= 1

=============================================================================
