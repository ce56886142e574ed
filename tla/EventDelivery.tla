----------------------------- MODULE EventDelivery -----------------------------
(***************************************************************************)
(* What the QMS and the analytics service promise together about one       *)
(* business event, with no export, packet, answer or log in sight: an      *)
(* event is queued, taken, and settled as sent only after it has arrived;  *)
(* it is settled as refused only if its row is invalid; whoever gives it   *)
(* up or drops it does so without a claim that it has not arrived.         *)
(***************************************************************************)
CONSTANTS Events, Invalid

VARIABLES
    phase,    \* of an event, as the QMS sees it
    offered,  \* events that were ever put in a packet
    arrived   \* events that were ever stored by the analytics service

vars == <<phase, offered, arrived>>

Move(S, to) == phase' = [e \in Events |-> IF e \in S THEN to ELSE phase[e]]

In(S, phases) == \A e \in S : phase[e] \in phases

Init ==
    /\ phase = [e \in Events |-> "none"]
    /\ offered = {}
    /\ arrived = {}

Publish(e) ==
    /\ In({e}, {"none"})
    /\ Move({e}, "queued")
    /\ UNCHANGED <<offered, arrived>>

Take(S) ==
    /\ S # {} /\ In(S, {"queued"})
    /\ Move(S, "taken")
    /\ offered' = offered \cup S
    /\ UNCHANGED arrived

\* A packet may arrive at any time after it was offered: before the QMS knows,
\* after the QMS has given up on it, even after the event was dropped.
Arrive(S) ==
    /\ S \subseteq offered \ Invalid
    /\ arrived' = arrived \cup S
    /\ UNCHANGED <<phase, offered>>

Settle(e) ==
    /\ In({e}, {"taken"})
    /\ IF e \in Invalid THEN Move({e}, "refused")
                        ELSE e \in arrived /\ Move({e}, "sent")
    /\ UNCHANGED <<offered, arrived>>

GiveBack(e) ==
    /\ In({e}, {"taken"})
    /\ Move({e}, "queued") \/ Move({e}, "dead")
    /\ UNCHANGED <<offered, arrived>>

Requeue(S) ==
    /\ S # {} /\ In(S, {"refused"})
    /\ Move(S, "queued")
    /\ UNCHANGED <<offered, arrived>>

Drop(S) ==
    /\ In(S, {"queued", "taken", "refused", "dead"})
    /\ Move(S, "dropped")
    /\ UNCHANGED <<offered, arrived>>

Moves ==
    \/ \E e \in Events : Publish(e) \/ Settle(e) \/ GiveBack(e)
    \/ \E S \in SUBSET Events : Take(S) \/ Requeue(S) \/ Drop(S)

\* Dropping no event is no step.
Next ==
    \/ phase' # phase /\ Moves
    \/ arrived' # arrived /\ \E S \in SUBSET Events : Arrive(S)

Spec == Init /\ [][Next]_vars
=============================================================================
