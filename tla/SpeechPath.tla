----------------------------- MODULE SpeechPath -----------------------------
(***************************************************************************)
(* The telephone and the relay behind it: a text that leaves the telephone *)
(* is a post to the backend, and the answer to it, or the call timeout of  *)
(* the HTTP client, is what the telephone shows.                           *)
(***************************************************************************)
EXTENDS SpeechPhone, SpeechRelay

vars == <<phoneVars, relayVars>>

(* sendText: the post may be lost before it is received. *)
PostText(i) ==
  /\ Dispatch(i)
  /\ (i \in Texts /\ Receive(i)) \/ UNCHANGED relayVars

(* executed, or accepted without a reason, is a success on the screen. *)
ShowReply(i) ==
  /\ i \in Texts /\ reply[i] # "nothing"
  /\ Verdict(i, IF reply[i] = "refused" THEN "Error" ELSE "Success")
  /\ UNCHANGED relayVars

(* Fault: the HTTP client has no call timeout. *)
NoCallTimeout(i) == FALSE
CallTimesOut(i) == Verdict(i, "Error") /\ UNCHANGED relayVars

Init == PhoneInit /\ RelayInit

Sending(i) == ShowReply(i) \/ CallTimesOut(i)

Next ==
  \/ PhoneStep /\ UNCHANGED relayVars
  \/ RelayStep /\ UNCHANGED phoneVars
  \/ \E i \in Taps : PostText(i) \/ Sending(i)

(* Threads and timers of the telephone run; every call it makes has a timeout. *)
Fairness ==
  \A i \in Taps : /\ WF_vars(Thread(i) /\ UNCHANGED relayVars)
                  /\ WF_vars(PostText(i))
                  /\ WF_vars(Sending(i))

Spec == Init /\ [][Next]_vars
FairSpec == Spec /\ Fairness

-----------------------------------------------------------------------------
(* Every field of the telephone and of the relay has one of its values. *)
TypeOK == PhoneTypeOK /\ RelayTypeOK

(* A text that was called off in its three seconds, by the button, by a new
   recording, by a newer text or by leaving the screen, reaches no database: what
   the QMS stores was posted by the telephone and is not called off. *)
CalledOffIsNotStored ==
  \A t \in Texts : command[t] # "none" => t \in posted \ calledOff

(* The button is locked while a text is being sent; it does not stay so. *)
ButtonUnlocks == (shown = "Sending") ~> (shown # "Sending")
=============================================================================
