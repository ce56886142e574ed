-------------------------- MODULE SpeechPathProofs --------------------------
(***************************************************************************)
(* Proofs about SpeechPath, for any number of taps and crashes and any     *)
(* texts.  On the telephone a text has one job, which is the one the       *)
(* reference pendingDispatchJob points to until it is over; behind it, the *)
(* request that has stored a text is the only one to confirm it.           *)
(*                                                                         *)
(* And, in three parts at the end, about the sheets of the bakery, for any *)
(* products, batches, people and dates: the sheet of a day (DaySheet), its *)
(* plan (PlanSheet) and the forecast of a week (ForecastPage).             *)
(***************************************************************************)
EXTENDS SpeechPath, DaySheet, PlanSheet, ForecastPage, FiniteSetTheorems, TLAPS

(* A recording that is being transcribed has a file. *)
FileAtHand == \A i \in Taps : tap[i].at = "transcribing" => tap[i].file # NoTap

(* A text has a job only after the tap that made it. *)
JobOfTap == \A i \in Taps : job[i] # "none" => tap[i].at = "over"

(* A text that was posted has left its three seconds; one that was called off was
   still in them. *)
PostedOrNot ==
  \A i \in Taps :
    /\ i \in posted => job[i] \in {"sending", "over", "cancelled"}
    /\ i \in calledOff => job[i] = "cancelled" /\ i \notin posted

(* Whatever the relay has of a text came from the telephone. *)
CameFromPhone ==
  \A t \in Texts :
    /\ stage[t] # "none" => t \in posted
    /\ \/ t \in bus
       \/ \E c \in Callers : req[t][c] # "none"
       \/ command[t] # "none"
       => stage[t] # "none"

(* The request that stored a text is alone with it, and has not confirmed it. *)
OneConfirmer ==
  \A t \in Texts :
    /\ auto[t] \in {0, 1}
    /\ command[t] = "none" => auto[t] = 0 /\ \A c \in Callers : req[t][c] # "stored"
    /\ \A c \in Callers : req[t][c] = "stored" =>
         auto[t] = 0 /\ \A d \in Callers : req[t][d] = "stored" => c = d

IInv == TypeOK /\ FileAtHand /\ JobOfTap /\ OneDispatch /\ PostedOrNot /\ CameFromPhone /\ OneConfirmer

-----------------------------------------------------------------------------
(* Types *)

LEMMA InitTypes == Init => TypeOK
BY PhoneBounds, RelayBounds DEF Init, PhoneInit, RelayInit, TypeOK, PhoneTypeOK, RelayTypeOK,
   NoWork, Idle, Taps, NoTap, Callers

LEMMA DispatchTypes ==
  ASSUME PhoneTypeOK
  PROVE  /\ Cancelled \in [Taps -> {"none", "pending", "sending", "over", "cancelled"}]
         /\ CalledOff \subseteq Taps
BY DEF PhoneTypeOK, Cancelled, CalledOff

LEMMA PhoneTypes ==
  ASSUME TypeOK, FileAtHand, PhoneStep
  PROVE  PhoneTypeOK'
<1> USE DEF TypeOK, PhoneTypeOK, FileAtHand
<1>1. ASSUME NEW i \in Taps, Tap(i) PROVE PhoneTypeOK'
  BY <1>1, DispatchTypes DEF Tap, dispatch, NoTap
<1>2. ASSUME NEW i \in Taps, StartEnters(i) PROVE PhoneTypeOK'
  BY <1>2 DEF StartEnters, dispatch
<1>3. ASSUME NEW i \in Taps, Opened(i) PROVE PhoneTypeOK'
  BY <1>3 DEF Opened, dispatch
<1>4. ASSUME NEW i \in Taps, NotOpened(i) PROVE PhoneTypeOK'
  BY <1>4 DEF NotOpened, dispatch
<1>5. ASSUME NEW i \in Taps, StopEnters(i) PROVE PhoneTypeOK'
  BY <1>5 DEF StopEnters, dispatch
<1>6. ASSUME NEW i \in Taps, Stopped(i) PROVE PhoneTypeOK'
  BY <1>6 DEF Stopped, dispatch, Idle
<1>7. ASSUME NEW i \in Taps, Transcribed(i) PROVE PhoneTypeOK'
  <2>1. /\ tap' = [tap EXCEPT ![i].at = "over"] /\ gone' = gone \cup {tap[i].file}
        /\ tap[i].file \in Taps
    BY <1>7 DEF Transcribed
  <2> QED
    BY <1>7, <2>1, DispatchTypes DEF Transcribed, Schedule, dispatch
<1>8. ASSUME CancelPending PROVE PhoneTypeOK'
  BY <1>8, DispatchTypes DEF CancelPending, phone
<1>9. ASSUME DismissError PROVE PhoneTypeOK'
  BY <1>9 DEF DismissError, phone
<1>10. ASSUME Leave PROVE PhoneTypeOK'
  BY <1>10, PhoneBounds DEF Leave
<1>11. ASSUME Release PROVE PhoneTypeOK'
  BY <1>11 DEF Release, dispatch, Idle
<1> QED
  BY <1>1, <1>2, <1>3, <1>4, <1>5, <1>6, <1>7, <1>8, <1>9, <1>10, <1>11 DEF PhoneStep, Thread

LEMMA SharedTypes ==
  ASSUME TypeOK, NEW i \in Taps, PostText(i) \/ Sending(i)
  PROVE  TypeOK'
<1>1. CASE PostText(i)
  <2>1. PhoneTypeOK'
    BY <1>1 DEF PostText, Dispatch, phone, TypeOK, PhoneTypeOK
  <2>2. RelayTypeOK'
    <3>1. CASE i \in Texts /\ Receive(i)
      BY <3>1 DEF Receive, TypeOK, RelayTypeOK
    <3>2. CASE UNCHANGED relayVars
      BY <3>2 DEF relayVars, TypeOK, RelayTypeOK
    <3> QED BY <1>1, <3>1, <3>2 DEF PostText
  <2> QED BY <2>1, <2>2 DEF TypeOK
<1>2. CASE Sending(i)
  <2>1. PhoneTypeOK'
    BY <1>2 DEF Sending, ShowReply, CallTimesOut, Verdict, phone, TypeOK, PhoneTypeOK
  <2>2. RelayTypeOK'
    BY <1>2 DEF Sending, ShowReply, CallTimesOut, relayVars, TypeOK, RelayTypeOK
  <2> QED BY <2>1, <2>2 DEF TypeOK
<1> QED BY <1>1, <1>2

LEMMA RelayTypes ==
  ASSUME TypeOK, RelayStep
  PROVE  RelayTypeOK'
<1> USE DEF TypeOK, RelayTypeOK
<1>0. "backend" \in Callers /\ "gateway" \in Callers
  BY DEF Callers
<1>1. ASSUME NEW t \in Texts, Backend(t) PROVE RelayTypeOK'
  <2>1. CASE Publish(t)
    <3>1. req' \in [Texts -> [Callers -> {"none", "arrived", "checked", "stored", "over"}]]
      BY <1>0, <2>1 DEF Publish
    <3> QED BY <2>1, <3>1 DEF Publish
  <2>2. CASE TakeReply(t) \/ GiveUp(t)
    <3>1. heard[t]["backend"] \in {"nothing", "executed", "accepted", "refused"}
      BY <1>0
    <3> QED BY <2>2, <3>1 DEF TakeReply, GiveUp, Answered
  <2> QED BY <1>1, <2>1, <2>2 DEF Backend
<1>2. ASSUME NEW t \in Texts, Hear(t) PROVE RelayTypeOK'
  <2>1. req' \in [Texts -> [Callers -> {"none", "arrived", "checked", "stored", "over"}]]
    <3>1. \/ req' = req
          \/ req' = [req EXCEPT ![t]["gateway"] = "arrived"]
      BY <1>2 DEF Hear
    <3>2. CASE req' = [req EXCEPT ![t]["gateway"] = "arrived"]
      BY <1>0, <3>2
    <3> QED BY <3>1, <3>2
  <2> QED BY <1>2, <2>1 DEF Hear
<1>3. ASSUME NEW t \in Texts, UnknownSession(t) PROVE RelayTypeOK'
  BY <1>3 DEF UnknownSession, Respond, Callers
<1>4. ASSUME NEW t \in Texts, Operator(t) PROVE RelayTypeOK'
  BY <1>4 DEF Operator
<1>5. ASSUME NEW t \in Texts, NEW c \in Callers, View(t, c) PROVE RelayTypeOK'
  <2>1. CASE Duplicate(t, c) BY <2>1 DEF Duplicate, Respond, Outcome
  <2>2. CASE LookUp(t, c) BY <2>2 DEF LookUp
  <2>3. CASE Insert(t, c) BY <2>3 DEF Insert
  <2>4. CASE InsertPlain(t, c) BY <2>4 DEF InsertPlain, Respond
  <2>5. CASE InsertRefused(t, c) BY <2>5 DEF InsertRefused, Respond
  <2>6. CASE Confirm(t, c) BY <2>6 DEF Confirm, Respond
  <2>7. CASE Mark(t, c) BY <2>7 DEF Mark, Respond
  <2> QED BY <1>5, <2>1, <2>2, <2>3, <2>4, <2>5, <2>6, <2>7 DEF View
<1>6. ASSUME NEW t \in Texts, NEW c \in Callers, Crash(t, c) PROVE RelayTypeOK'
  BY <1>6, RelayBounds DEF Crash, Respond
<1> QED BY <1>1, <1>2, <1>3, <1>4, <1>5, <1>6 DEF RelayStep

LEMMA NextTypes == TypeOK /\ FileAtHand /\ [Next]_vars => TypeOK'
<1> SUFFICES ASSUME TypeOK, FileAtHand, [Next]_vars PROVE TypeOK'
  OBVIOUS
<1>1. CASE PhoneStep /\ UNCHANGED relayVars
  BY <1>1, PhoneTypes DEF TypeOK, RelayTypeOK, relayVars
<1>2. CASE RelayStep /\ UNCHANGED phoneVars
  BY <1>2, RelayTypes DEF TypeOK, PhoneTypeOK, phoneVars, phone, dispatch
<1>3. CASE \E i \in Taps : PostText(i) \/ Sending(i)
  BY <1>3, SharedTypes
<1>4. CASE UNCHANGED vars
  BY <1>4 DEF vars, TypeOK, PhoneTypeOK, RelayTypeOK, phoneVars, phone, dispatch, relayVars
<1> QED BY <1>1, <1>2, <1>3, <1>4 DEF Next

-----------------------------------------------------------------------------
(* The telephone *)

PhoneInv == FileAtHand /\ JobOfTap /\ OneDispatch /\ PostedOrNot

(* Calling the pending text off leaves every other job as it is, and none pending
   or under way. *)
LEMMA CalledOffJobs ==
  ASSUME TypeOK, PhoneInv
  PROVE  /\ \A i \in Taps : /\ Cancelled[i] \notin {"pending", "sending"}
                            /\ Cancelled[i] # job[i] => Cancelled[i] = "cancelled"
                                                        /\ job[i] \in {"pending", "sending"}
                            /\ Cancelled[i] # "none" <=> job[i] # "none"
         /\ \A i \in CalledOff : i \in Taps /\ Cancelled[i] = "cancelled" /\ i \notin posted
BY DEF TypeOK, PhoneTypeOK, PhoneInv, OneDispatch, PostedOrNot, Cancelled, CalledOff

LEMMA PhoneKeeps ==
  ASSUME TypeOK, PhoneInv, PhoneStep
  PROVE  PhoneInv'
<1> USE DEF PhoneInv, FileAtHand, JobOfTap, OneDispatch, PostedOrNot
<1> USE CalledOffJobs
<1>0. /\ tap \in [Taps -> [at : {"none", "start", "opening", "stop", "stopping", "abandoned",
                             "transcribing", "over"}, file : Taps \cup {NoTap}]]
      /\ job \in [Taps -> {"none", "pending", "sending", "over", "cancelled"}]
      /\ Cancelled \in [Taps -> {"none", "pending", "sending", "over", "cancelled"}]
  BY DispatchTypes DEF TypeOK, PhoneTypeOK
<1>1. ASSUME NEW i \in Taps, Tap(i) PROVE PhoneInv'
  BY <1>0, <1>1 DEF Tap, dispatch, NoWork
<1>2. ASSUME NEW i \in Taps, StartEnters(i) PROVE PhoneInv'
  BY <1>0, <1>2 DEF StartEnters, dispatch
<1>3. ASSUME NEW i \in Taps, Opened(i) PROVE PhoneInv'
  BY <1>0, <1>3 DEF Opened, dispatch
<1>4. ASSUME NEW i \in Taps, NotOpened(i) PROVE PhoneInv'
  BY <1>0, <1>4 DEF NotOpened, dispatch
<1>5. ASSUME NEW i \in Taps, StopEnters(i) PROVE PhoneInv'
  BY <1>0, <1>5 DEF StopEnters, dispatch
<1>6. ASSUME NEW i \in Taps, Stopped(i) PROVE PhoneInv'
  BY <1>0, <1>6 DEF Stopped, dispatch
<1>7. ASSUME NEW i \in Taps, Transcribed(i) PROVE PhoneInv'
  <2>1. job[i] = "none" /\ i \notin CalledOff /\ i \notin posted
    BY <1>0, <1>7 DEF Transcribed, CalledOff
  <2> QED BY <1>0, <1>7, <2>1 DEF Transcribed, Schedule, dispatch
<1>8. ASSUME CancelPending PROVE PhoneInv'
  BY <1>0, <1>8 DEF CancelPending, phone
<1>9. ASSUME DismissError PROVE PhoneInv'
  BY <1>0, <1>9 DEF DismissError, phone
<1>10. ASSUME Leave PROVE PhoneInv'
  BY <1>0, <1>10 DEF Leave
<1>11. ASSUME Release PROVE PhoneInv'
  BY <1>0, <1>11 DEF Release, dispatch
<1> QED
  BY <1>1, <1>2, <1>3, <1>4, <1>5, <1>6, <1>7, <1>8, <1>9, <1>10, <1>11 DEF PhoneStep, Thread

LEMMA SharedKeeps ==
  ASSUME TypeOK, PhoneInv, NEW i \in Taps, PostText(i) \/ Sending(i)
  PROVE  PhoneInv'
<1> USE DEF PhoneInv, FileAtHand, JobOfTap, OneDispatch, PostedOrNot, TypeOK, PhoneTypeOK
<1>1. CASE PostText(i)
  BY <1>1 DEF PostText, Dispatch, phone
<1>2. CASE Sending(i)
  BY <1>2 DEF Sending, ShowReply, CallTimesOut, Verdict, phone
<1> QED BY <1>1, <1>2

-----------------------------------------------------------------------------
(* The relay *)

LEMMA RelayKeeps ==
  ASSUME TypeOK, OneConfirmer, RelayStep
  PROVE  OneConfirmer'
<1> USE DEF OneConfirmer
<1>0. /\ req \in [Texts -> [Callers -> {"none", "arrived", "checked", "stored", "over"}]]
      /\ command \in [Texts -> {"none", "bare", "detected", "needs_review", "executed", "rejected"}]
      /\ auto \in [Texts -> Nat]
  BY DEF TypeOK, RelayTypeOK
<1>1. ASSUME NEW t \in Texts, Backend(t) PROVE OneConfirmer'
  BY <1>0, <1>1 DEF Backend, Publish, TakeReply, GiveUp, Answered, Callers
<1>2. ASSUME NEW t \in Texts, Hear(t) PROVE OneConfirmer'
  BY <1>0, <1>2 DEF Hear, Callers
<1>3. ASSUME NEW t \in Texts, UnknownSession(t) PROVE OneConfirmer'
  BY <1>0, <1>3 DEF UnknownSession, Respond, Callers
<1>4. ASSUME NEW t \in Texts, Operator(t) PROVE OneConfirmer'
  BY <1>0, <1>4 DEF Operator
<1>5. ASSUME NEW t \in Texts, NEW c \in Callers, View(t, c) PROVE OneConfirmer'
  <2>1. CASE Duplicate(t, c) BY <1>0, <2>1 DEF Duplicate, Respond
  <2>2. CASE LookUp(t, c) BY <1>0, <2>2 DEF LookUp
  <2>3. CASE Insert(t, c) BY <1>0, <2>3 DEF Insert, Taken
  <2>4. CASE InsertPlain(t, c) BY <1>0, <2>4 DEF InsertPlain, Respond
  <2>5. CASE InsertRefused(t, c) BY <1>0, <2>5 DEF InsertRefused, Respond
  <2>6. CASE Confirm(t, c) BY <1>0, <2>6 DEF Confirm, Respond
  <2>7. CASE Mark(t, c) BY <1>0, <2>7 DEF Mark, Respond
  <2> QED BY <1>5, <2>1, <2>2, <2>3, <2>4, <2>5, <2>6, <2>7 DEF View
<1>6. ASSUME NEW t \in Texts, NEW c \in Callers, Crash(t, c) PROVE OneConfirmer'
  BY <1>0, <1>6 DEF Crash, Respond
<1> QED BY <1>1, <1>2, <1>3, <1>4, <1>5, <1>6 DEF RelayStep

LEMMA RelayAddsNothing ==
  ASSUME TypeOK, CameFromPhone, RelayStep, UNCHANGED phoneVars
  PROVE  CameFromPhone'
<1> USE DEF CameFromPhone
<1>0. /\ stage \in [Texts -> {"none", "saved", "forwarding", "over"}]
      /\ req \in [Texts -> [Callers -> {"none", "arrived", "checked", "stored", "over"}]]
      /\ command \in [Texts -> {"none", "bare", "detected", "needs_review", "executed", "rejected"}]
      /\ posted' = posted
  BY DEF TypeOK, RelayTypeOK, phoneVars, dispatch
<1>1. ASSUME NEW t \in Texts, Backend(t) PROVE CameFromPhone'
  BY <1>0, <1>1 DEF Backend, Publish, TakeReply, GiveUp, Answered
<1>2. ASSUME NEW t \in Texts, Hear(t) PROVE CameFromPhone'
  BY <1>0, <1>2 DEF Hear
<1>3. ASSUME NEW t \in Texts, UnknownSession(t) PROVE CameFromPhone'
  BY <1>0, <1>3 DEF UnknownSession, Respond, Callers
<1>4. ASSUME NEW t \in Texts, Operator(t) PROVE CameFromPhone'
  BY <1>0, <1>4 DEF Operator
<1>5. ASSUME NEW t \in Texts, NEW c \in Callers, View(t, c) \/ Crash(t, c) PROVE CameFromPhone'
  <2>1. /\ req[t][c] # "none" /\ stage' = stage /\ bus' = bus
        /\ \A u \in Texts \ {t} : req'[u] = req[u] /\ command'[u] = command[u]
    BY <1>0, <1>5 DEF View, Duplicate, LookUp, Insert, InsertPlain, InsertRefused, Confirm, Mark,
       Crash, Respond, Settled
  <2> QED BY <1>0, <2>1
<1> QED BY <1>1, <1>2, <1>3, <1>4, <1>5 DEF RelayStep

LEMMA PhoneAddsNothing ==
  ASSUME TypeOK, CameFromPhone, PhoneStep, UNCHANGED relayVars
  PROVE  CameFromPhone'
<1>1. posted' = posted
  BY DEF PhoneStep, Thread, Tap, CancelPending, Schedule, DismissError, StartEnters, Opened,
     NotOpened, StopEnters, Stopped, Transcribed, Leave, Release, dispatch
<1> QED BY <1>1 DEF relayVars, CameFromPhone

LEMMA SharedAdds ==
  ASSUME TypeOK, CameFromPhone, OneConfirmer, NEW i \in Taps, PostText(i) \/ Sending(i)
  PROVE  CameFromPhone' /\ OneConfirmer'
<1> USE DEF CameFromPhone, OneConfirmer
<1>1. CASE PostText(i)
  <2>1. posted' = posted \cup {i}
    BY <1>1 DEF PostText, Dispatch
  <2>2. CASE i \in Texts /\ Receive(i)
    <3>1. \A t \in Texts : stage'[t] = IF t = i THEN "saved" ELSE stage[t]
      BY <2>2 DEF Receive, TypeOK, RelayTypeOK
    <3>2. bus' = bus /\ req' = req /\ command' = command /\ auto' = auto
      BY <2>2 DEF Receive
    <3> QED BY <2>1, <3>1, <3>2
  <2>3. CASE UNCHANGED relayVars
    BY <2>1, <2>3 DEF relayVars
  <2> QED BY <1>1, <2>2, <2>3 DEF PostText
<1>2. CASE Sending(i)
  BY <1>2 DEF Sending, ShowReply, CallTimesOut, Verdict, relayVars
<1> QED BY <1>1, <1>2

-----------------------------------------------------------------------------
(* The invariant *)

LEMMA InvInit == Init => IInv
<1> SUFFICES ASSUME Init PROVE IInv
  OBVIOUS
<1>1. TypeOK
  BY InitTypes
<1>2. FileAtHand /\ JobOfTap /\ OneDispatch /\ PostedOrNot
  BY DEF Init, PhoneInit, NoWork, FileAtHand, JobOfTap, OneDispatch, PostedOrNot
<1>3. CameFromPhone /\ OneConfirmer
  BY DEF Init, RelayInit, CameFromPhone, OneConfirmer
<1> QED BY <1>1, <1>2, <1>3 DEF IInv

LEMMA InvNext == IInv /\ [Next]_vars => IInv'
<1> SUFFICES ASSUME IInv, [Next]_vars PROVE IInv'
  OBVIOUS
<1>1. TypeOK /\ PhoneInv /\ CameFromPhone /\ OneConfirmer
  BY DEF IInv, PhoneInv
<1>2. TypeOK'
  BY <1>1, NextTypes DEF PhoneInv
<1>3. PhoneInv' /\ CameFromPhone' /\ OneConfirmer'
  <2>1. CASE PhoneStep /\ UNCHANGED relayVars
    BY <1>1, <2>1, PhoneKeeps, PhoneAddsNothing DEF relayVars, OneConfirmer
  <2>2. CASE RelayStep /\ UNCHANGED phoneVars
    <3>1. PhoneInv'
      BY <1>1, <2>2 DEF PhoneInv, FileAtHand, JobOfTap, OneDispatch, PostedOrNot, phoneVars,
         phone, dispatch
    <3> QED BY <1>1, <2>2, <3>1, RelayKeeps, RelayAddsNothing
  <2>3. CASE \E i \in Taps : PostText(i) \/ Sending(i)
    BY <1>1, <2>3, SharedKeeps, SharedAdds
  <2>4. CASE UNCHANGED vars
    BY <1>1, <2>4 DEF PhoneInv, FileAtHand, JobOfTap, OneDispatch, PostedOrNot, CameFromPhone,
       OneConfirmer, vars, phoneVars, relayVars, phone, dispatch
  <2> QED BY <2>1, <2>2, <2>3, <2>4 DEF Next
<1> QED BY <1>2, <1>3 DEF IInv, PhoneInv

LEMMA InvImplies == IInv => TypeOK /\ CarriedOutOnce /\ OneDispatch /\ CalledOffIsNotStored
BY DEF IInv, CarriedOutOnce, OneConfirmer, CalledOffIsNotStored, CameFromPhone, PostedOrNot,
   TypeOK, PhoneTypeOK

(* Every field of the telephone and of the relay keeps its values. *)
THEOREM TypeCorrect == Spec => []TypeOK
BY InvInit, InvNext, InvImplies, PTL DEF Spec

(* The backend and the gateway post one text under one id, and the endpoint of the QMS
   carries it out at most once, whichever of them comes first and whatever dies. *)
THEOREM TextCarriedOutOnce == Spec => []CarriedOutOnce
BY InvInit, InvNext, InvImplies, PTL DEF Spec

(* However the taps and the threads of the engine interleave, one text at most is
   pending or under way, and the reference by which it is called off points to it. *)
THEOREM OneTextAtATime == Spec => []OneDispatch
BY InvInit, InvNext, InvImplies, PTL DEF Spec

(* A text called off in its three seconds is never stored by the QMS. *)
THEOREM CalledOffStaysOut == Spec => []CalledOffIsNotStored
BY InvInit, InvNext, InvImplies, PTL DEF Spec

-----------------------------------------------------------------------------
(* The sheet of a day *)

(* Days do not overlap. *)
LEMMA DaysApart ==
  ASSUME NEW d \in Int, NEW e \in Int, d < e
  PROVE  d * DayLength + DayLength <= e * DayLength
<1>1. DayLength \in Nat /\ DayLength > 0
  BY SheetAssumption
<1>2. PICK k \in Nat : e = d + 1 + k
  <2>1. e - d - 1 \in Nat /\ e = d + 1 + (e - d - 1)
    OBVIOUS
  <2> QED BY <2>1
<1>3. e * DayLength = d * DayLength + DayLength + k * DayLength
  BY <1>1, <1>2
<1>4. k * DayLength \in Nat
  BY <1>1, <1>2
<1>5. d * DayLength \in Int
  BY <1>1
<1> QED BY <1>1, <1>3, <1>4, <1>5

LEMMA DayOfHas ==
  ASSUME NEW t \in Nat
  PROVE  /\ DayOf(t) \in Int
         /\ DayOf(t) * DayLength <= t /\ t < DayOf(t) * DayLength + DayLength
<1>1. DayLength \in Nat /\ DayLength > 0
  BY SheetAssumption
<1> QED BY <1>1 DEF DayOf

(* The three shifts of a sheet follow one another, and the working day of the board
   consists of the last two. *)
LEMMA ShiftsFollow ==
  ASSUME NEW d \in Int
  PROVE  /\ \A i \in Columns : Start(d, i) \in Int /\ Until(d, i) \in Int /\ Start(d, i) < Until(d, i)
         /\ Until(d, 1) = Start(d, 2) /\ Until(d, 2) = Start(d, 3)
<1>1. /\ DayLength \in Nat /\ ShiftOne \in Nat /\ ShiftTwo \in Nat
      /\ ShiftOne < ShiftTwo /\ ShiftTwo < DayLength
  BY SheetAssumption
<1>2. /\ d * DayLength \in Int
      /\ (d - 1) * DayLength = d * DayLength - DayLength
      /\ (d + 1) * DayLength = d * DayLength + DayLength
  BY <1>1
<1>3. /\ Start(d, 1) = d * DayLength - DayLength + ShiftTwo
      /\ Start(d, 2) = d * DayLength + ShiftOne
      /\ Start(d, 3) = d * DayLength + ShiftTwo
      /\ Until(d, 1) = d * DayLength + ShiftOne
      /\ Until(d, 2) = d * DayLength + ShiftTwo
      /\ Until(d, 3) = d * DayLength + DayLength + ShiftOne
  BY <1>2 DEF Start, Until, OClock
<1> QED BY <1>1, <1>2, <1>3 DEF Columns

LEMMA BoardDayIs ==
  ASSUME NEW t \in Nat, NEW d \in Int, Start(d, 2) <= t, t < Until(d, 3)
  PROVE  BoardDayStart(t) = Start(d, 2)
<1>1. /\ DayLength \in Nat /\ ShiftOne \in Nat /\ ShiftOne < DayLength /\ DayLength > 0
  BY SheetAssumption
<1> DEFINE q == DayOf(t)
<1>2. q \in Int /\ q * DayLength <= t /\ t < q * DayLength + DayLength
  BY DayOfHas
<1>3. /\ Start(d, 2) = d * DayLength + ShiftOne
      /\ Until(d, 3) = d * DayLength + DayLength + ShiftOne
      /\ d * DayLength \in Int /\ q * DayLength \in Int
      /\ (q - 1) * DayLength = q * DayLength - DayLength
  BY <1>1, <1>2 DEF Start, Until, OClock
<1>4. BoardDayStart(t) = IF t < q * DayLength + ShiftOne
                         THEN q * DayLength - DayLength + ShiftOne
                         ELSE q * DayLength + ShiftOne
  BY <1>3 DEF BoardDayStart, OClock
<1> HIDE DEF q
<1>5. CASE t < q * DayLength + ShiftOne
  <2>1. ~ (q <= d)
    <3>1. CASE q = d
      BY <1>1, <1>3, <1>5, <3>1
    <3>2. CASE q < d
      <4>1. q * DayLength + DayLength <= d * DayLength
        BY <1>2, <3>2, DaysApart
      <4> QED BY <1>1, <1>2, <1>3, <4>1
    <3> QED BY <1>2, <3>1, <3>2
  <2>2. ~ (d < q - 1)
    <3>1. CASE d < q - 1
      <4>1. d * DayLength + DayLength <= (q - 1) * DayLength
        BY <1>2, <3>1, DaysApart
      <4> QED BY <1>1, <1>2, <1>3, <4>1
    <3> QED BY <3>1
  <2>3. d = q - 1
    BY <1>2, <2>1, <2>2
  <2> QED BY <1>3, <1>4, <1>5, <2>3
<1>6. CASE ~ t < q * DayLength + ShiftOne
  <2>1. ~ (q < d)
    <3>1. CASE q < d
      <4>1. q * DayLength + DayLength <= d * DayLength
        BY <1>2, <3>1, DaysApart
      <4> QED BY <1>1, <1>2, <1>3, <4>1
    <3> QED BY <3>1
  <2>2. ~ (d < q)
    <3>1. CASE d < q
      <4>1. d * DayLength + DayLength <= q * DayLength
        BY <1>2, <3>1, DaysApart
      <4> QED BY <1>1, <1>2, <1>3, <1>6, <4>1
    <3> QED BY <3>1
  <2>3. d = q
    BY <1>2, <2>1, <2>2
  <2> QED BY <1>3, <1>4, <1>6, <2>3
<1> QED BY <1>5, <1>6

(* The stamps of a batch in the order in which they were taken. *)
StampsInOrder ==
  \A b \in Loaves :
    /\ finish[b] <= moment /\ made[b] <= moment /\ stocked[b] <= moment
    /\ place[b] \in {"written", "done"} => finish[b] <= made[b] /\ stocked[b] <= made[b]
SheetInv == SheetTypeOK /\ StampsInOrder

LEMMA SheetInvInit == SheetInit => SheetInv
BY DEF SheetInit, SheetInv, SheetTypeOK, StampsInOrder, Never

LEMMA SheetInvNext == SheetInv /\ [SheetNext]_sheet => SheetInv'
<1> SUFFICES ASSUME SheetInv, [SheetNext]_sheet PROVE SheetInv'
  OBVIOUS
<1>1. SheetTypeOK /\ StampsInOrder
  BY DEF SheetInv
<1>2. CASE Passes
  BY <1>1, <1>2 DEF SheetInv, SheetTypeOK, StampsInOrder, Passes, Never
<1>3. CASE Sweep
  BY <1>1, <1>3 DEF SheetInv, SheetTypeOK, StampsInOrder, Sweep
<1>4. ASSUME NEW b \in Loaves, PutOnStock(b) PROVE SheetInv'
  BY <1>1, <1>4 DEF SheetInv, SheetTypeOK, StampsInOrder, PutOnStock, Never
<1>5. ASSUME NEW b \in Loaves, TakeOffShelf(b) PROVE SheetInv'
  BY <1>1, <1>5 DEF SheetInv, SheetTypeOK, StampsInOrder, TakeOffShelf
<1>6. ASSUME NEW b \in Loaves, SetOff(b) PROVE SheetInv'
  BY <1>1, <1>6 DEF SheetInv, SheetTypeOK, StampsInOrder, SetOff
<1>7. ASSUME NEW b \in Loaves, Record(b) PROVE SheetInv'
  BY <1>1, <1>7 DEF SheetInv, SheetTypeOK, StampsInOrder, Record
<1>8. ASSUME NEW b \in Loaves, Arrive(b) PROVE SheetInv'
  BY <1>1, <1>8 DEF SheetInv, SheetTypeOK, StampsInOrder, Arrive
<1>9. ASSUME NEW b \in Loaves, TurnBack(b) PROVE SheetInv'
  BY <1>1, <1>9 DEF SheetInv, SheetTypeOK, StampsInOrder, TurnBack
<1>10. ASSUME NEW b \in Loaves, Discard(b) PROVE SheetInv'
  BY <1>1, <1>10 DEF SheetInv, SheetTypeOK, StampsInOrder, Discard
<1>11. CASE UNCHANGED sheet
  BY <1>1, <1>11 DEF SheetInv, SheetTypeOK, StampsInOrder, sheet
<1> QED BY <1>2, <1>3, <1>4, <1>5, <1>6, <1>7, <1>8, <1>9, <1>10, <1>11 DEF SheetNext

(* What is made in a sheet is made in one of its columns. *)
LEMMA OneColumn ==
  ASSUME SheetTypeOK, NEW b \in Loaves, NEW d \in Int
  PROVE  /\ \A i \in Columns : MadeOn(d, b) = {i} <=>
               place[b] = "done" /\ Start(d, i) <= made[b] /\ made[b] < Until(d, i)
         /\ MadeOn(d, b) = {} <=>
               ~ (place[b] = "done" /\ Start(d, 1) <= made[b] /\ made[b] < Until(d, 3))
         /\ MadeOn(d, b) \in {{}, {1}, {2}, {3}}
<1>1. made[b] \in Int
  BY DEF SheetTypeOK
<1> DEFINE m == made[b]
<1>2. /\ Start(d, 1) \in Int /\ Start(d, 2) \in Int /\ Start(d, 3) \in Int /\ Until(d, 3) \in Int
      /\ Start(d, 1) < Start(d, 2) /\ Start(d, 2) < Start(d, 3) /\ Start(d, 3) < Until(d, 3)
      /\ Until(d, 1) = Start(d, 2) /\ Until(d, 2) = Start(d, 3)
  BY ShiftsFollow DEF Columns
<1>3. Columns = {1, 2, 3}
  BY DEF Columns
<1> DEFINE In(i) == Start(d, i) <= m /\ m < Until(d, i)
<1>4. MadeOn(d, b) = IF place[b] = "done" /\ Start(d, 1) <= m /\ m < Until(d, 3)
                     THEN {i \in {1, 2, 3} : In(i)} ELSE {}
  BY <1>3 DEF MadeOn, Contains
<1>5. /\ In(1) => ~ In(2) /\ ~ In(3)
      /\ In(2) => ~ In(1) /\ ~ In(3)
      /\ In(3) => ~ In(1) /\ ~ In(2)
      /\ Start(d, 1) <= m /\ m < Until(d, 3) <=> In(1) \/ In(2) \/ In(3)
  BY <1>1, <1>2
<1> HIDE DEF m, In
<1>6. {i \in {1, 2, 3} : In(i)} = {1} <=> In(1)
  BY <1>5
<1>7. {i \in {1, 2, 3} : In(i)} = {2} <=> In(2)
  BY <1>5
<1>8. {i \in {1, 2, 3} : In(i)} = {3} <=> In(3)
  BY <1>5
<1>9. \A i \in {1, 2, 3} : MadeOn(d, b) = {i} <=> place[b] = "done" /\ In(i)
  BY <1>4, <1>5, <1>6, <1>7, <1>8
<1>10. MadeOn(d, b) = {} <=> ~ (place[b] = "done" /\ Start(d, 1) <= m /\ m < Until(d, 3))
  BY <1>4, <1>5, <1>6, <1>7, <1>8
<1>11. MadeOn(d, b) \in {{}, {1}, {2}, {3}}
  BY <1>5, <1>9, <1>10
<1> QED BY <1>3, <1>9, <1>10, <1>11 DEF In, m

LEMMA BoardAgrees == SheetInv => BoardIsOfTheSheet
<1> SUFFICES ASSUME SheetInv, NEW b \in Loaves, NEW d \in Days,
                    Start(d, 2) <= moment, moment < Until(d, 3)
             PROVE  /\ Visible(b) => MadeOn(d, b) \in {{2}, {3}}
                    /\ MadeOn(d, b) \cap {2, 3} # {} =>
                         Visible(b) \/ cleared[b] \/ finish[b] < Start(d, 2)
  BY DEF BoardIsOfTheSheet
<1>1. /\ SheetTypeOK /\ moment \in Nat /\ finish[b] \in Nat /\ made[b] \in Nat
      /\ made[b] <= moment
      /\ place[b] = "done" => finish[b] <= made[b]
  BY DEF SheetInv, SheetTypeOK, StampsInOrder
<1>2. d \in Int
  BY SheetAssumption DEF Days, DayOf
<1>3. /\ Start(d, 2) \in Int /\ Start(d, 3) \in Int /\ Until(d, 3) \in Int
      /\ Until(d, 2) = Start(d, 3)
  BY <1>2, ShiftsFollow DEF Columns
<1>4. Visible(b) <=> place[b] = "done" /\ ~ cleared[b] /\ finish[b] >= Start(d, 2)
  BY <1>1, <1>2, BoardDayIs DEF Visible
<1>5. ASSUME Visible(b) PROVE MadeOn(d, b) \in {{2}, {3}}
  <2>1. place[b] = "done" /\ Start(d, 2) <= made[b] /\ made[b] < Until(d, 3)
    BY <1>1, <1>3, <1>4, <1>5
  <2>2. CASE made[b] < Start(d, 3)
    BY <1>1, <1>2, <1>3, <2>1, <2>2, OneColumn DEF Columns
  <2>3. CASE ~ made[b] < Start(d, 3)
    <3>1. Start(d, 3) <= made[b]
      BY <1>1, <1>3, <2>3
    <3> QED BY <1>1, <1>2, <1>3, <2>1, <3>1, OneColumn DEF Columns
  <2> QED BY <2>2, <2>3
<1>6. ASSUME MadeOn(d, b) \cap {2, 3} # {}
      PROVE  Visible(b) \/ cleared[b] \/ finish[b] < Start(d, 2)
  <2>1. MadeOn(d, b) # {}
    BY <1>6
  <2>2. place[b] = "done"
    BY <1>1, <1>2, <2>1, OneColumn
  <2> QED BY <1>1, <1>3, <1>4, <2>2
<1> QED BY <1>5, <1>6

LEMMA StockAgrees == SheetInv => StockIsCountedOnce
<1> SUFFICES ASSUME SheetInv, NEW b \in Loaves, NEW d \in Days,
                    shelf[b], place[b] = "done", made[b] < Until(d, 3)
             PROVE  \/ Tallied(d, b) = 1
                    \/ Tallied(d, b) = 2 /\ stocked[b] < Start(d, 1) /\ Start(d, 1) <= made[b]
  BY DEF StockIsCountedOnce
<1>1. /\ SheetTypeOK /\ made[b] \in Nat /\ stocked[b] \in Int /\ stocked[b] <= made[b]
  BY DEF SheetInv, SheetTypeOK, StampsInOrder, Never
<1>2. d \in Int
  BY SheetAssumption DEF Days, DayOf
<1>3. Start(d, 1) \in Int /\ Until(d, 3) \in Int
  BY <1>2, ShiftsFollow DEF Columns
<1>4. Opening(d, b) <=> stocked[b] < Start(d, 1)
  BY DEF Opening
<1>5. CASE Start(d, 1) <= made[b]
  <2>1. MadeOn(d, b) \in {{1}, {2}, {3}}
    BY <1>1, <1>2, <1>5, OneColumn
  <2>2. Cardinality(MadeOn(d, b)) = 1
    BY <2>1, FS_Singleton
  <2> QED BY <1>4, <1>5, <2>2 DEF Tallied
<1>6. CASE ~ Start(d, 1) <= made[b]
  <2>1. MadeOn(d, b) = {}
    BY <1>1, <1>2, <1>6, OneColumn
  <2>2. Cardinality(MadeOn(d, b)) = 0
    BY <2>1, FS_EmptySet
  <2>3. Opening(d, b)
    BY <1>1, <1>3, <1>4, <1>6
  <2> QED BY <2>2, <2>3 DEF Tallied
<1> QED BY <1>5, <1>6

(* Clock, stamps and places keep their types, for any batches and any length of the day. *)
THEOREM SheetTypeCorrect == SheetSpec => []SheetTypeOK
<1>1. SheetInv => SheetTypeOK
  BY DEF SheetInv
<1> QED BY <1>1, SheetInvInit, SheetInvNext, PTL DEF SheetSpec

(* Column "done" of the board and the last two shifts of the sheet show the same batches. *)
THEOREM BoardTellsTheSheet == SheetSpec => []BoardIsOfTheSheet
BY BoardAgrees, SheetInvInit, SheetInvNext, PTL DEF SheetSpec

(* Stock that is there is in the opening or in a shift, and in both only if it was stocked
   before the first shift and finished after that began. *)
THEOREM StockAddsUp == SheetSpec => []StockIsCountedOnce
BY StockAgrees, SheetInvInit, SheetInvNext, PTL DEF SheetSpec

-----------------------------------------------------------------------------
(* The plan of a day *)

(* A decision that nobody has written over without knowing it. *)
Decided(g) == word[g] \in Nat /\ word[g] % 2 = 0 /\ g \notin stale

(* A field that was filled since then shows it, *)
PageKnows ==
  \A u \in Users, g \in Goods :
    page[u] # NoPage /\ g \in fresh[u] /\ Decided(g) => page[u][g] = word[g]

(* and one that is on its way and was not typed over brings it along. *)
PostKnows ==
  \A u \in Users, g \in Goods :
    post[u] # NoPost /\ g \in post[u].left /\ g \notin post[u].typed /\ g \in post[u].knew
      /\ Decided(g) => post[u].sent[g] = word[g]

PlanInv == PlanTypeOK /\ PageKnows /\ PostKnows /\ EditHolds

Sent == [sent : [Goods -> Fields], typed : SUBSET Goods, left : SUBSET Goods,
         knew : SUBSET Goods, adds : [Goods -> Nat]]

LEMMA PostIsSent ==
  ASSUME PlanTypeOK, NEW u \in Users, post[u] # NoPost
  PROVE  post[u] \in Sent
BY DEF PlanTypeOK, Posts, Sent

(* What is queued are amounts. *)
LEMMA QueuedHas ==
  ASSUME NEW button, NEW chosen \in SUBSET Goods, NEW amount \in Fields,
         NEW sent \in [Goods -> Fields]
  PROVE  Queued(button, chosen, amount, sent) \in [Goods -> Nat]
<1> DEFINE W(g) == Wanted(button, amount, sent[g])
<1>1. \A g \in Goods : W(g) \in Fields
  BY DEF Wanted
<1>2. CASE \E g \in chosen : W(g) \in {Empty, Bad, 0}
  BY <1>2 DEF Queued
<1>3. CASE ~ \E g \in chosen : W(g) \in {Empty, Bad, 0}
  <2>1. \A g \in chosen : W(g) \in Nat
    BY <1>1, <1>3 DEF Fields
  <2>2. Queued(button, chosen, amount, sent) = [g \in Goods |-> IF g \in chosen THEN W(g) ELSE 0]
    BY <1>3 DEF Queued
  <2> HIDE DEF W
  <2> QED BY <2>1, <2>2
<1> QED BY <1>2, <1>3

LEMMA FilledHas ==
  ASSUME NEW n \in Nat
  PROVE  Filled(n) \in Nat \cup {Empty} /\ (n % 2 = 0 => Filled(n) = n)
BY DEF Filled

LEMMA PlanInvInit == PlanInit => PlanInv
<1> SUFFICES ASSUME PlanInit PROVE PlanInv
  OBVIOUS
<1>1. PlanTypeOK
  BY DEF PlanInit, PlanTypeOK, Posts
<1>2. \A g \in Goods : ~ Decided(g)
  BY PlanAssumption DEF PlanInit, Decided, Fields
<1>3. PageKnows /\ PostKnows /\ EditHolds
  BY <1>2 DEF PageKnows, PostKnows, EditHolds, Decided
<1> QED BY <1>1, <1>3 DEF PlanInv

(* Nothing a step leaves of memory and plan alone is disturbed by pages and posts that go. *)
LEMMA OrderKeeps ==
  ASSUME PlanInv, NEW h \in Goods, NEW n \in Amounts, Order(h, n)
  PROVE  PlanInv'
<1>1. asked' \in [Goods -> Nat] /\ turns' \in Nat
  BY PlanAssumption DEF PlanInv, PlanTypeOK, Order, Turn
<1>2. UNCHANGED <<plan, page, post, word, fresh, stale>>
  BY DEF Order, memories
<1> QED BY <1>1, <1>2 DEF PlanInv, PlanTypeOK, PageKnows, PostKnows, EditHolds, Decided

LEMMA OpenKeeps ==
  ASSUME PlanInv, NEW u \in Users, Open(u)
  PROVE  PlanInv'
<1>1. PlanTypeOK /\ EditHolds
  BY DEF PlanInv
<1>2. UNCHANGED <<asked, plan, post, word, stale>> /\ turns' \in Nat
  BY <1>1 DEF Open, Turn, PlanTypeOK
<1>3. \A g \in Goods : Planned(g) \in Nat
  BY <1>1 DEF Planned, PlanTypeOK
<1>4. page' = [page EXCEPT ![u] = [g \in Goods |-> Filled(Planned(g))]]
  BY DEF Open
<1>5. [g \in Goods |-> Filled(Planned(g))] \in [Goods -> Nat \cup {Empty}]
  BY <1>3, FilledHas
<1>6. fresh' \in [Users -> SUBSET Goods]
  BY <1>1 DEF Open, PlanTypeOK
<1>7. PlanTypeOK'
  BY <1>1, <1>2, <1>4, <1>5, <1>6 DEF PlanTypeOK
<1>8. \A g \in Goods : Decided(g) => Filled(Planned(g)) = word[g]
  <2> SUFFICES ASSUME NEW g \in Goods, Decided(g) PROVE Filled(Planned(g)) = word[g]
    OBVIOUS
  <2>1. plan[g] = word[g] /\ word[g] \in Nat /\ word[g] % 2 = 0
    BY <1>1 DEF Decided, EditHolds
  <2>2. Planned(g) = word[g]
    BY <2>1, PlanAssumption DEF Planned
  <2> QED BY <2>1, <2>2, FilledHas
<1>9. \A g \in Goods : Decided(g)' <=> Decided(g)
  BY <1>2 DEF Decided
<1>10. PageKnows'
  <2> SUFFICES ASSUME NEW v \in Users, NEW g \in Goods,
                      page'[v] # NoPage, g \in fresh'[v], Decided(g)
               PROVE  page'[v][g] = word'[g]
    BY <1>9 DEF PageKnows
  <2>1. CASE v = u
    BY <1>1, <1>2, <1>4, <1>8, <2>1 DEF PlanTypeOK
  <2>2. CASE v # u
    BY <1>1, <1>2, <1>4, <2>2 DEF PlanTypeOK, PlanInv, PageKnows, Open
  <2> QED BY <2>1, <2>2
<1>11. PostKnows' /\ EditHolds'
  BY <1>2, <1>9 DEF PlanInv, PostKnows, EditHolds
<1> QED BY <1>7, <1>10, <1>11 DEF PlanInv

LEMMA PressKeeps ==
  ASSUME PlanInv, NEW u \in Users, NEW T \in SUBSET Goods, NEW v \in Typed, NEW button,
         NEW chosen \in SUBSET Goods, NEW amount \in Typed,
         Press(u, T, v, button, chosen, amount)
  PROVE  PlanInv'
<1> DEFINE sent == [g \in Goods |-> IF g \in T THEN v ELSE page[u][g]]
           p == [sent |-> sent, typed |-> T, left |-> Goods, knew |-> fresh[u],
                 adds |-> Queued(button, chosen, amount, sent)]
<1>1. PlanTypeOK
  BY DEF PlanInv
<1>2. UNCHANGED <<asked, plan, page, word, fresh, stale>> /\ turns' \in Nat
  BY <1>1 DEF Press, Turn, PlanTypeOK, memories
<1>3. v \in Fields /\ amount \in Fields
  BY PlanAssumption DEF Typed, Fields
<1>4. page[u] \in [Goods -> Nat \cup {Empty}] /\ page[u] # NoPage
  BY <1>1 DEF Press, PlanTypeOK
<1>5. sent \in [Goods -> Fields]
  BY <1>3, <1>4 DEF Fields
<1>6. Queued(button, chosen, amount, sent) \in [Goods -> Nat]
  BY <1>3, <1>5, QueuedHas
<1>7. post' = [post EXCEPT ![u] = p]
  BY DEF Press
<1>8. \A g \in Goods : g \notin T => p.sent[g] = page[u][g]
  OBVIOUS
<1>9. p.typed = T /\ p.knew = fresh[u]
  OBVIOUS
<1>10. p \in Sent
  BY <1>1, <1>5, <1>6 DEF Sent, PlanTypeOK
<1> HIDE DEF p
<1>11. PlanTypeOK'
  BY <1>1, <1>2, <1>7, <1>10 DEF PlanTypeOK, Posts, Sent
<1>12. \A g \in Goods : Decided(g)' <=> Decided(g)
  BY <1>2 DEF Decided
<1>13. PostKnows'
  <2> SUFFICES ASSUME NEW w \in Users, NEW g \in Goods, post'[w] # NoPost,
                      g \in post'[w].left, g \notin post'[w].typed, g \in post'[w].knew,
                      Decided(g)
               PROVE  post'[w].sent[g] = word'[g]
    BY <1>12 DEF PostKnows
  <2>1. CASE w = u
    <3>1. post'[w] = p
      BY <1>1, <1>7, <2>1 DEF PlanTypeOK
    <3>2. p.sent[g] = page[u][g]
      BY <1>8, <1>9, <3>1
    <3>3. page[u][g] = word[g]
      BY <1>4, <1>9, <3>1 DEF PlanInv, PageKnows
    <3> QED BY <1>2, <3>1, <3>2, <3>3
  <2>2. CASE w # u
    <3>1. post'[w] = post[w]
      BY <1>1, <1>7, <2>2 DEF PlanTypeOK
    <3> QED BY <1>2, <3>1 DEF PlanInv, PostKnows
  <2> QED BY <2>1, <2>2
<1>14. PageKnows' /\ EditHolds'
  BY <1>2, <1>12 DEF PlanInv, PageKnows, EditHolds
<1> QED BY <1>11, <1>13, <1>14 DEF PlanInv

LEMMA GoesKeeps ==
  ASSUME PlanInv, NEW u \in Users, Answer(u) \/ Breaks(u)
  PROVE  PlanInv'
<1>1. PlanTypeOK
  BY DEF PlanInv
<1>2. UNCHANGED <<plan, turns, word, fresh, stale>>
  BY DEF Answer, Breaks, memories
<1>3. post' = [post EXCEPT ![u] = NoPost] /\ page' = [page EXCEPT ![u] = NoPage]
  BY DEF Answer, Breaks
<1>4. asked' \in [Goods -> Nat]
  <2>1. CASE Answer(u)
    <3>1. post[u] \in Sent
      BY <1>1, <2>1, PostIsSent DEF Answer
    <3>2. post[u].adds \in [Goods -> Nat]
      BY <3>1 DEF Sent
    <3> QED BY <1>1, <2>1, <3>2 DEF Answer, PlanTypeOK
  <2>2. CASE Breaks(u)
    BY <1>1, <2>2 DEF Breaks, PlanTypeOK
  <2> QED BY <2>1, <2>2
<1>5. PlanTypeOK'
  BY <1>1, <1>2, <1>3, <1>4 DEF PlanTypeOK, Posts
<1>6. \A g \in Goods : Decided(g)' <=> Decided(g)
  BY <1>2 DEF Decided
<1>7. PageKnows' /\ PostKnows' /\ EditHolds'
  BY <1>1, <1>2, <1>3, <1>6 DEF PlanInv, PlanTypeOK, PageKnows, PostKnows, EditHolds
<1> QED BY <1>5, <1>7 DEF PlanInv

LEMMA WriteKeeps ==
  ASSUME PlanInv, NEW u \in Users, NEW h \in Goods, WriteField(u, h)
  PROVE  PlanInv'
<1> DEFINE v == post[u].sent[h]
           says == h \in post[u].typed /\ v # Bad
<1>1. PlanTypeOK
  BY DEF PlanInv
<1>2. post[u] \in Sent /\ post[u] # NoPost /\ h \in post[u].left
  BY <1>1, PostIsSent DEF WriteField
<1>3. v \in Fields
  BY <1>2 DEF Sent
<1>4. /\ plan' = [plan EXCEPT ![h] = Written(h, v)]
      /\ word' = IF says THEN [word EXCEPT ![h] = v] ELSE word
      /\ fresh' = IF says THEN [w \in Users |-> fresh[w] \ {h}] ELSE fresh
      /\ stale' = IF says THEN stale \ {h}
                  ELSE IF v # Bad /\ h \notin post[u].knew THEN stale \cup {h} ELSE stale
      /\ UNCHANGED <<asked, page, turns>>
  BY DEF WriteField
<1> DEFINE rest(w) == IF w = u THEN [post[u] EXCEPT !.left = @ \ {h}]
                      ELSE IF says /\ post[w] # NoPost THEN [post[w] EXCEPT !.knew = @ \ {h}]
                      ELSE post[w]
<1>5. post' = [w \in Users |-> rest(w)]
  BY DEF WriteField
<1>6. \A w \in Users : post[w] # NoPost =>
        /\ rest(w) \in Sent
        /\ rest(w).sent = post[w].sent /\ rest(w).typed = post[w].typed
        /\ rest(w).left \subseteq post[w].left /\ rest(w).knew \subseteq post[w].knew
        /\ w = u => h \notin rest(w).left
        /\ w # u /\ says => h \notin rest(w).knew
  <2> SUFFICES ASSUME NEW w \in Users, post[w] # NoPost
               PROVE  /\ rest(w) \in Sent
                      /\ rest(w).sent = post[w].sent /\ rest(w).typed = post[w].typed
                      /\ rest(w).left \subseteq post[w].left /\ rest(w).knew \subseteq post[w].knew
                      /\ w = u => h \notin rest(w).left
                      /\ w # u /\ says => h \notin rest(w).knew
    OBVIOUS
  <2>1. post[w] \in Sent
    BY <1>1, PostIsSent
  <2>2. CASE w = u
    BY <2>1, <2>2 DEF Sent
  <2>3. CASE w # u /\ says
    BY <2>1, <2>3 DEF Sent
  <2>4. CASE w # u /\ ~ says
    BY <2>1, <2>4 DEF Sent
  <2> QED BY <2>2, <2>3, <2>4
<1>7. \A w \in Users : post[w] = NoPost => rest(w) = NoPost
  BY <1>2
<1>8. plan'[h] = Written(h, v) /\ \A g \in Goods \ {h} : plan'[g] = plan[g]
  BY <1>1, <1>4 DEF PlanTypeOK
<1>9. \A g \in Goods \ {h} : Decided(g)' => Decided(g) /\ word'[g] = word[g]
  BY <1>1, <1>4 DEF PlanTypeOK, Decided
<1>10. says => word'[h] = v
  BY <1>1, <1>4 DEF PlanTypeOK
<1>11. ~ says => word' = word /\ fresh' = fresh
  BY <1>4
<1>12. ~ says /\ Decided(h)' => Decided(h) /\ (v = Bad \/ h \in post[u].knew)
  BY <1>4, <1>11 DEF Decided
<1>13. PlanTypeOK'
  <2>1. Written(h, v) \in Nat \cup {Empty}
    BY <1>1, <1>3 DEF Written, PlanTypeOK, Fields
  <2>2. plan' \in [Goods -> Nat \cup {Empty}]
    BY <1>1, <1>4, <2>1 DEF PlanTypeOK
  <2>3. word' \in [Goods -> Fields \cup {NoWord}]
    BY <1>1, <1>3, <1>4 DEF PlanTypeOK
  <2>4. fresh' \in [Users -> SUBSET Goods] /\ stale' \subseteq Goods
    BY <1>1, <1>4 DEF PlanTypeOK
  <2>5. \A w \in Users : rest(w) \in Posts
    BY <1>6, <1>7 DEF Posts, Sent
  <2> HIDE DEF rest
  <2>6. post' \in [Users -> Posts]
    BY <1>5, <2>5
  <2> QED BY <1>1, <1>4, <2>2, <2>3, <2>4, <2>6 DEF PlanTypeOK
<1> HIDE DEF rest
<1>14. \A w \in Users : post'[w] = rest(w)
  BY <1>5
<1>15. EditHolds'
  <2> SUFFICES ASSUME NEW g \in Goods, Decided(g)' PROVE plan'[g] = word'[g]
    BY DEF EditHolds, Decided
  <2>1. CASE g # h
    BY <1>8, <1>9, <2>1 DEF PlanInv, EditHolds, Decided
  <2>2. CASE g = h /\ says
    BY <1>8, <1>10, <2>2 DEF Written
  <2>3. CASE g = h /\ ~ says
    <3>1. plan[h] = word[h] /\ word'[h] = word[h]
      BY <1>11, <1>12, <2>3 DEF PlanInv, EditHolds, Decided
    <3>2. v # Bad => v = word[h]
      BY <1>2, <1>12, <2>3 DEF PlanInv, PostKnows
    <3> QED BY <1>8, <2>3, <3>1, <3>2 DEF Written
  <2> QED BY <2>1, <2>2, <2>3
<1>16. PageKnows'
  <2> SUFFICES ASSUME NEW w \in Users, NEW g \in Goods, page'[w] # NoPage, g \in fresh'[w],
                      Decided(g)'
               PROVE  page'[w][g] = word'[g]
    BY DEF PageKnows
  <2>1. page' = page /\ g \in fresh[w] /\ ~ (g = h /\ says)
    BY <1>1, <1>4 DEF PlanTypeOK
  <2>2. Decided(g) /\ word'[g] = word[g]
    BY <1>9, <1>11, <1>12, <2>1
  <2> QED BY <2>1, <2>2 DEF PlanInv, PageKnows
<1>17. PostKnows'
  <2> SUFFICES ASSUME NEW w \in Users, NEW g \in Goods, post'[w] # NoPost,
                      g \in post'[w].left, g \notin post'[w].typed, g \in post'[w].knew,
                      Decided(g)'
               PROVE  post'[w].sent[g] = word'[g]
    BY DEF PostKnows
  <2>1. post[w] # NoPost
    BY <1>7, <1>14
  <2>2. /\ g \in post[w].left /\ g \notin post[w].typed /\ g \in post[w].knew
        /\ post'[w].sent = post[w].sent
        /\ w = u => g # h
        /\ ~ (w # u /\ says /\ g = h)
    BY <1>6, <1>14, <2>1
  <2>3. Decided(g) /\ word'[g] = word[g]
    BY <1>9, <1>11, <1>12, <2>2
  <2> QED BY <2>1, <2>2, <2>3 DEF PlanInv, PostKnows
<1> QED BY <1>13, <1>15, <1>16, <1>17 DEF PlanInv

LEMMA PlanInvNext == PlanInv /\ [PlanNext]_plans => PlanInv'
<1> SUFFICES ASSUME PlanInv, [PlanNext]_plans PROVE PlanInv'
  OBVIOUS
<1>1. CASE UNCHANGED plans
  BY <1>1 DEF plans, memories, PlanInv, PlanTypeOK, PageKnows, PostKnows, EditHolds, Decided
<1>2. CASE PlanNext
  BY <1>2, OrderKeeps, OpenKeeps, PressKeeps, GoesKeeps, WriteKeeps DEF PlanNext
<1> QED BY <1>1, <1>2

(* Plan, pages, requests and histories keep their types, for any products and people. *)
THEOREM PlanTypeCorrect == PlanSpec => []PlanTypeOK
<1>1. PlanInv => PlanTypeOK
  BY DEF PlanInv
<1> QED BY <1>1, PlanInvInit, PlanInvNext, PTL DEF PlanSpec

(* A decision in whole units stands until a person decides again, or somebody sends a field
   that was filled before the decision. *)
THEOREM DecisionStands == PlanSpec => []EditHolds
<1>1. PlanInv => EditHolds
  BY DEF PlanInv
<1> QED BY <1>1, PlanInvInit, PlanInvNext, PTL DEF PlanSpec

-----------------------------------------------------------------------------
(* The forecast of a week *)

(* An answer on its way that will replace the part, and whether it has it right. *)
Replied(q, x) == wire[q].at = "made" /\ x \in Replaced(wire[q].cell)
Fresh(q, x) == wire[q].answer[x] = Part(x)

(* A part somebody saved a correction of will be made again; *)
Awaited(x) == \E q \in Tries : wire[q].at = "saved" /\ x \in Replaced(wire[q].cell)
(* or an answer on its way has it right, and those that have it wrong are older; *)
Coming(x) ==
  \E q \in Tries :
    /\ Replied(q, x) /\ Fresh(q, x)
    /\ \A r \in Tries : Replied(r, x) => Fresh(r, x) \/ wire[r].stamp < wire[q].stamp
(* or the page has it right, and an answer that has it wrong is older than the page. *)
Standing(x) ==
  /\ grid[x] = Part(x)
  /\ \A r \in Tries : Replied(r, x) => Fresh(r, x) \/ wire[r].stamp < latest
PartInv ==
  ~ crossed /\ ~ moved => \A x \in Parts : Awaited(x) \/ Coming(x) \/ Standing(x)
PageInv == ForecastTypeOK /\ grid = [x \in Parts |-> grid[x]] /\ PartInv

LEMMA ForecastInitTyped == ForecastInit => PageInv
<1> SUFFICES ASSUME ForecastInit PROVE PageInv
  OBVIOUS
<1>1. \A q \in Tries : wire[q] = NoTry /\ wire[q].at = "none"
  BY DEF ForecastInit, NoTry
<1>2. ASSUME NEW c \in Cells
      PROVE  DOMAIN past[c] \subseteq Weeks /\ \A w \in DOMAIN past[c] : past[c][w] \in Nat
  <2>1. past[c] \in UNION {[W -> Numbers] : W \in SUBSET Weeks}
    BY DEF ForecastInit
  <2>2. PICK W \in SUBSET Weeks : past[c] \in [W -> Numbers]
    BY <2>1
  <2> QED
    BY <2>2, ForecastAssumption
<1>3. ForecastTypeOK
  <2>1. DOMAIN past = Cells
    BY DEF ForecastInit
  <2>2. fix \in [Cells -> Nat \cup {NoFix}] /\ DOMAIN wire = Tries
    BY DEF ForecastInit
  <2>3. DOMAIN grid = Parts
    BY DEF ForecastInit, Sheet
  <2>4. edition \in Nat /\ edits \in Nat /\ latest \in 0 .. edition
    BY DEF ForecastInit
  <2>5. crossed \in BOOLEAN /\ moved \in BOOLEAN
    BY DEF ForecastInit
  <2> QED
    BY <1>1, <1>2, <2>1, <2>2, <2>3, <2>4, <2>5 DEF ForecastTypeOK
<1>4. grid = [x \in Parts |-> grid[x]] /\ \A x \in Parts : grid[x] = Part(x)
  BY DEF ForecastInit, Sheet
<1>5. PartInv
  BY <1>1, <1>4 DEF PartInv, Standing, Replied
<1> QED
  BY <1>3, <1>4, <1>5 DEF PageInv

(* The sheet is made of what is stored. *)
LEMMA SameStoreSameSheet ==
  ASSUME UNCHANGED <<past, fix>> PROVE \A x \in Parts : Part(x)' = Part(x)
<1>1. \A c \in Cells : Shown(c)' = Shown(c)
  BY DEF Shown, Average
<1>2. \A g \in Wares : RowTotal(g)' = RowTotal(g)
  BY DEF RowTotal, Shown, Average
<1> QED
  BY DEF Part, RowTotal, Listed, DayTotal, Shown, Average

(* A correction changes its cell, its row and the foot. *)
LEMMA CorrectionIsLocal ==
  ASSUME ForecastTypeOK, UNCHANGED past,
         NEW c \in Cells, NEW raw, fix' = [fix EXCEPT ![c] = raw]
  PROVE  \A x \in Parts : x \notin Replaced(c) => Part(x)' = Part(x)
<1>1. \A e \in Cells : e # c => fix'[e] = fix[e]
  BY DEF ForecastTypeOK
<1>2. ASSUME NEW e \in Cells, e # c PROVE Shown(e)' = Shown(e)
  BY <1>1, <1>2 DEF Shown, Average
<1>3. ASSUME NEW g \in Wares, g # c[1] PROVE RowTotal(g)' = RowTotal(g) /\ Listed(g)' = Listed(g)
  <2>1. \A d \in Dates : <<g, d>> \in Cells /\ <<g, d>> # c
    BY <1>3 DEF Cells
  <2>2. \A d \in Dates : Shown(<<g, d>>)' = Shown(<<g, d>>)
    BY <2>1, <1>2
  <2>3. [d \in Dates |-> Shown(<<g, d>>)]' = [d \in Dates |-> Shown(<<g, d>>)]
    BY <2>2
  <2>4. RowTotal(g)' = RowTotal(g)
    BY <2>3 DEF RowTotal
  <2> QED
    BY <2>1, <2>4, <1>1 DEF Listed
<1>4. ASSUME NEW x \in Parts, x \notin Replaced(c) PROVE Part(x)' = Part(x)
  <2>1. CASE x \in Cells
    <3>1. x # c
      BY <1>4 DEF Replaced
    <3> QED
      BY <2>1, <3>1, <1>1, <1>2 DEF Part
  <2>2. CASE x \in Wares /\ x \notin Cells
    <3>1. x # c[1]
      BY <1>4 DEF Replaced
    <3> QED
      BY <2>2, <3>1, <1>3 DEF Part
  <2> QED
    BY <1>4, <2>1, <2>2 DEF Parts, Replaced
<1> QED
  BY <1>4

LEMMA ReplacedAreParts ==
  \A c \in Cells : c \in Replaced(c) /\ c[1] \in Replaced(c) /\ Replaced(c) \subseteq Parts
<1>1. \A c \in Cells : c[1] \in Wares
  BY DEF Cells
<1> QED
  BY <1>1 DEF Replaced, Parts

(* A page that was loaded again has every part right. *)
LEMMA ReloadedIsRight ==
  ASSUME PageInv, Reloaded, UNCHANGED <<past, fix, edition>>, edits' \in Nat, UNCHANGED latest
  PROVE  PageInv'
<1>1. wire' = [q \in Tries |->
        IF wire[q].at \in {"sent", "orphan"} THEN [wire[q] EXCEPT !.at = "orphan"] ELSE NoTry]
  BY DEF Reloaded
<1>2. ASSUME NEW q \in Tries
      PROVE  \/ wire'[q] = NoTry /\ wire'[q].at = "none"
             \/ wire'[q].at = "orphan" /\ wire'[q].cell \in Cells
                /\ wire'[q].raw \in Nat \cup {NoFix, NoNumber}
  <2>1. CASE wire[q].at \in {"sent", "orphan"}
    <3>1. wire[q].cell \in Cells /\ wire[q].raw \in Nat \cup {NoFix, NoNumber}
      BY <2>1 DEF PageInv, ForecastTypeOK, NoTry
    <3>2. wire'[q] = [wire[q] EXCEPT !.at = "orphan"]
      BY <1>1, <2>1
    <3> QED
      BY <3>1, <3>2
  <2>2. CASE wire[q].at \notin {"sent", "orphan"}
    BY <1>1, <2>2 DEF NoTry
  <2> QED
    BY <2>1, <2>2
<1>3. \A x \in Parts : Part(x)' = Part(x)
  BY SameStoreSameSheet
<1>4. grid' = [x \in Parts |-> Part(x)]
  BY DEF Reloaded, Sheet
<1>5. ForecastTypeOK'
  BY <1>1, <1>2, <1>4 DEF PageInv, ForecastTypeOK, Reloaded
<1>6. PartInv'
  BY <1>2, <1>3, <1>4 DEF PartInv, Standing, Replied
<1> QED
  BY <1>4, <1>5, <1>6 DEF PageInv

(* Where no request is made or answered and nothing stored changes, the parts stand. *)
LEMMA PartsStand ==
  ASSUME PartInv, UNCHANGED <<past, fix, grid, latest, crossed, moved>>,
         \A q \in Tries : wire[q].at \in {"saved", "made"} => wire'[q] = wire[q],
         \A q \in Tries : wire'[q].at = "made" => wire'[q] = wire[q]
  PROVE  PartInv'
<1>1. \A x \in Parts : Part(x)' = Part(x)
  BY SameStoreSameSheet
<1>2. ASSUME NEW x \in Parts, Awaited(x) PROVE Awaited(x)'
  BY <1>2 DEF Awaited
<1>3. ASSUME NEW x \in Parts, NEW q \in Tries, Replied(q, x)'
      PROVE  Replied(q, x) /\ wire'[q] = wire[q] /\ (Fresh(q, x) => Fresh(q, x)')
  BY <1>1, <1>3 DEF Replied, Fresh
<1>4. ASSUME NEW x \in Parts, Coming(x) PROVE Coming(x)'
  <2>1. PICK q \in Tries :
          /\ Replied(q, x) /\ Fresh(q, x)
          /\ \A r \in Tries : Replied(r, x) => Fresh(r, x) \/ wire[r].stamp < wire[q].stamp
    BY <1>4 DEF Coming
  <2>2. wire'[q] = wire[q] /\ Replied(q, x)' /\ Fresh(q, x)'
    BY <1>1, <2>1 DEF Replied, Fresh
  <2>3. \A r \in Tries :
          Replied(r, x)' => Fresh(r, x)' \/ wire'[r].stamp < wire'[q].stamp
    BY <1>3, <2>1, <2>2
  <2> QED
    BY <2>2, <2>3 DEF Coming
<1>5. ASSUME NEW x \in Parts, Standing(x) PROVE Standing(x)'
  BY <1>1, <1>3, <1>5 DEF Standing
<1> QED
  BY <1>2, <1>4, <1>5 DEF PartInv

LEMMA CorrectKeepsPage ==
  ASSUME PageInv, NEW q \in Tries, NEW c \in Cells, NEW raw \in Nat \cup {NoFix, NoNumber},
         Correct(q, c, raw)
  PROVE  PageInv'
<1>1. wire' = [wire EXCEPT ![q] = [at |-> "sent", cell |-> c, raw |-> raw]]
  BY DEF Correct
<1>2. wire[q].at = "none" /\ wire'[q] = [at |-> "sent", cell |-> c, raw |-> raw]
      /\ \A r \in Tries : r # q => wire'[r] = wire[r]
  BY <1>1 DEF Correct, PageInv, ForecastTypeOK, NoTry
<1>3. ForecastTypeOK'
  <2>1. DOMAIN wire' = Tries /\ edits' \in Nat
    BY <1>1, ForecastAssumption DEF PageInv, ForecastTypeOK, Correct, Edits
  <2> QED
    BY <1>2, <2>1 DEF PageInv, ForecastTypeOK, Correct
<1>4. PartInv'
  <2>1. \A r \in Tries : wire[r].at \in {"saved", "made"} => wire'[r] = wire[r]
    BY <1>2
  <2>2. \A r \in Tries : wire'[r].at = "made" => wire'[r] = wire[r]
    BY <1>2
  <2> QED
    BY <2>1, <2>2, PartsStand DEF PageInv, Correct
<1> QED
  BY <1>3, <1>4 DEF PageInv, Correct

LEMMA VanishKeepsPage ==
  ASSUME PageInv, NEW q \in Tries, Vanish(q)
  PROVE  PageInv'
<1>1. wire[q].at = "orphan" /\ wire' = [wire EXCEPT ![q] = NoTry]
  BY DEF Vanish
<1>2. wire'[q] = NoTry /\ wire'[q].at = "none" /\ \A r \in Tries : r # q => wire'[r] = wire[r]
  BY <1>1 DEF PageInv, ForecastTypeOK, NoTry
<1>3. ForecastTypeOK'
  <2>1. DOMAIN wire' = Tries
    BY <1>1 DEF PageInv, ForecastTypeOK
  <2> QED
    BY <1>2, <2>1 DEF PageInv, ForecastTypeOK, Vanish
<1>4. PartInv'
  <2>1. \A r \in Tries : wire[r].at \in {"saved", "made"} => wire'[r] = wire[r]
    BY <1>1, <1>2
  <2>2. \A r \in Tries : wire'[r].at = "made" => wire'[r] = wire[r]
    BY <1>2
  <2> QED
    BY <2>1, <2>2, PartsStand DEF PageInv, Vanish
<1> QED
  BY <1>3, <1>4 DEF PageInv, Vanish

(* A saved correction is about to be answered for all it changed. *)
LEMMA SaveKeepsPage ==
  ASSUME PageInv, NEW q \in Tries, Save(q)
  PROVE  PageInv'
<1> DEFINE c == wire[q].cell
           new == IF wire[q].at = "sent" THEN [at |-> "saved", cell |-> c] ELSE NoTry
<1>1. c \in Cells /\ wire[q].raw \in Nat \cup {NoFix} /\ wire[q].at \in {"sent", "orphan"}
  BY DEF Save, PageInv, ForecastTypeOK, NoTry
<1>2. wire' = [wire EXCEPT ![q] = new] /\ fix' = [fix EXCEPT ![c] = wire[q].raw]
  BY DEF Save
<1>3. wire'[q] = new /\ \A r \in Tries : r # q => wire'[r] = wire[r]
  BY <1>2 DEF PageInv, ForecastTypeOK
<1>4. new = NoTry \/ (new.at = "saved" /\ new.cell = c)
  OBVIOUS
<1>5. ForecastTypeOK'
  <2>1. fix' \in [Cells -> Nat \cup {NoFix}]
    BY <1>1, <1>2 DEF PageInv, ForecastTypeOK
  <2>2. DOMAIN wire' = Tries
    BY <1>2 DEF PageInv, ForecastTypeOK
  <2>3. moved' \in BOOLEAN
    BY DEF PageInv, ForecastTypeOK, Save
  <2>4. wire'[q] = NoTry \/ (wire'[q].at = "saved" /\ wire'[q].cell \in Cells)
    BY <1>1, <1>3, <1>4
  <2> QED
    BY <1>3, <2>1, <2>2, <2>3, <2>4 DEF PageInv, ForecastTypeOK, Save
<1>6. ASSUME ~ crossed', ~ moved', NEW x \in Parts
      PROVE  Awaited(x)' \/ Coming(x)' \/ Standing(x)'
  <2>1. wire[q].at = "sent" /\ ~ crossed /\ ~ moved
    BY <1>1, <1>6 DEF Save
  <2>2. wire'[q].at = "saved" /\ wire'[q].cell = c
    BY <2>1, <1>3
  <2>3. CASE x \in Replaced(c)
    <3>1. x \in Replaced(wire'[q].cell)
      BY <2>2, <2>3
    <3> QED
      BY <2>2, <3>1 DEF Awaited
  <2>4. CASE x \notin Replaced(c)
    <3>1. Part(x)' = Part(x)
      BY <1>1, <1>2, <2>4, CorrectionIsLocal DEF PageInv, Save
    <3>2. \A r \in Tries : wire[r].at \in {"saved", "made"} => wire'[r] = wire[r]
      BY <1>3, <2>1
    <3>3. ASSUME NEW r \in Tries, Replied(r, x)'
          PROVE  Replied(r, x) /\ wire'[r] = wire[r] /\ (Fresh(r, x) => Fresh(r, x)')
      <4>1. r # q
        BY <3>3, <2>2 DEF Replied
      <4> QED
        BY <4>1, <1>3, <3>1, <3>3 DEF Replied, Fresh
    <3>4. CASE Awaited(x)
      BY <3>2, <3>4 DEF Awaited
    <3>5. CASE Coming(x)
      <4>1. PICK p \in Tries :
              /\ Replied(p, x) /\ Fresh(p, x)
              /\ \A r \in Tries : Replied(r, x) => Fresh(r, x) \/ wire[r].stamp < wire[p].stamp
        BY <3>5 DEF Coming
      <4>2. wire'[p] = wire[p] /\ Replied(p, x)' /\ Fresh(p, x)'
        BY <3>1, <3>2, <4>1 DEF Replied, Fresh
      <4>3. \A r \in Tries :
              Replied(r, x)' => Fresh(r, x)' \/ wire'[r].stamp < wire'[p].stamp
        BY <3>3, <4>1, <4>2
      <4> QED
        BY <4>2, <4>3 DEF Coming
    <3>6. CASE Standing(x)
      BY <3>1, <3>3, <3>6 DEF Standing, Save
    <3> QED
      BY <2>1, <3>4, <3>5, <3>6 DEF PageInv, PartInv
  <2> QED
    BY <2>3, <2>4
<1>7. grid' = [x \in Parts |-> grid'[x]]
  BY DEF PageInv, Save
<1> QED
  BY <1>5, <1>6, <1>7 DEF PageInv, PartInv

(* The sheet made now is newer than every answer on its way. *)
LEMMA MakeAgainKeepsPage ==
  ASSUME PageInv, NEW q \in Tries, MakeAgain(q)
  PROVE  PageInv'
<1> DEFINE c == wire[q].cell
           answer == [x \in Replaced(c) |-> Part(x)]
           new == [at |-> "made", cell |-> c, stamp |-> edition + 1, answer |-> answer]
<1>1. c \in Cells /\ wire[q].at = "saved" /\ edition' = edition + 1
  BY DEF MakeAgain, PageInv, ForecastTypeOK, NoTry
<1>2. wire' = [wire EXCEPT ![q] = new]
  BY DEF MakeAgain
<1>3. wire'[q] = new /\ \A r \in Tries : r # q => wire'[r] = wire[r]
  BY <1>2 DEF PageInv, ForecastTypeOK
<1>4. /\ new.at = "made" /\ new.cell = c /\ new.stamp = edition + 1
      /\ new.answer = answer
  OBVIOUS
<1>5. DOMAIN answer = Replaced(c) /\ \A x \in Replaced(c) : answer[x] = Part(x)
  OBVIOUS
<1> HIDE DEF new, answer
<1>6. edition \in Nat /\ latest \in 0 .. edition
      /\ \A r \in Tries : wire[r].at = "made" => wire[r].stamp \in 1 .. edition
  BY DEF PageInv, ForecastTypeOK, NoTry
<1>7. ForecastTypeOK'
  <2>1. DOMAIN wire' = Tries
    BY <1>2 DEF PageInv, ForecastTypeOK
  <2>2. wire'[q].at = "made" /\ wire'[q].cell \in Cells /\ wire'[q].stamp \in 1 .. edition'
        /\ DOMAIN wire'[q].answer = Replaced(wire'[q].cell)
    BY <1>1, <1>3, <1>4, <1>5, <1>6
  <2>3. ASSUME NEW r \in Tries, r # q
        PROVE \/ wire'[r] = NoTry
              \/ wire'[r].at \in {"sent", "orphan"} /\ wire'[r].cell \in Cells
                 /\ wire'[r].raw \in Nat \cup {NoFix, NoNumber}
              \/ wire'[r].at = "saved" /\ wire'[r].cell \in Cells
              \/ wire'[r].at = "made" /\ wire'[r].cell \in Cells /\ wire'[r].stamp \in 1 .. edition'
                 /\ DOMAIN wire'[r].answer = Replaced(wire'[r].cell)
    <3>1. wire'[r] = wire[r]
      BY <1>3, <2>3
    <3>2. 1 .. edition \subseteq 1 .. edition'
      BY <1>1, <1>6
    <3> QED
      BY <3>1, <3>2 DEF PageInv, ForecastTypeOK
  <2>4. edition' \in Nat /\ latest' \in 0 .. edition'
    BY <1>1, <1>6 DEF MakeAgain
  <2> QED
    BY <2>1, <2>2, <2>3, <2>4 DEF PageInv, ForecastTypeOK, MakeAgain
<1>8. \A x \in Parts : Part(x)' = Part(x)
  BY SameStoreSameSheet DEF MakeAgain
<1>9. ASSUME ~ crossed', ~ moved', NEW x \in Parts
      PROVE  Awaited(x)' \/ Coming(x)' \/ Standing(x)'
  <2>1. \A r \in Tries : Replied(r, x)' /\ r # q =>
          Replied(r, x) /\ (Fresh(r, x) => Fresh(r, x)') /\ wire'[r].stamp = wire[r].stamp
    BY <1>3, <1>8 DEF Replied, Fresh
  <2>2. CASE x \in Replaced(c)
    <3>1. Replied(q, x)' /\ Fresh(q, x)'
      BY <1>3, <1>4, <1>5, <1>8, <2>2 DEF Replied, Fresh
    <3>2. ASSUME NEW r \in Tries, Replied(r, x)'
          PROVE  Fresh(r, x)' \/ wire'[r].stamp < wire'[q].stamp
      <4>1. CASE r = q
        BY <4>1, <3>1
      <4>2. CASE r # q
        <5>1. wire'[r] = wire[r] /\ wire[r].at = "made"
          BY <4>2, <3>2, <1>3 DEF Replied
        <5> QED
          BY <5>1, <1>3, <1>4, <1>6
      <4> QED
        BY <4>1, <4>2
    <3> QED
      BY <3>1, <3>2 DEF Coming
  <2>3. CASE x \notin Replaced(c)
    <3>1. ~ Replied(q, x)' /\ ~ Replied(q, x)
      BY <1>1, <1>3, <1>4, <2>3 DEF Replied
    <3>2. CASE Awaited(x)
      <4>1. PICK r \in Tries : wire[r].at = "saved" /\ x \in Replaced(wire[r].cell)
        BY <3>2 DEF Awaited
      <4>2. r # q
        BY <4>1, <2>3
      <4> QED
        BY <4>1, <4>2, <1>3 DEF Awaited
    <3>3. CASE Coming(x)
      <4>1. PICK p \in Tries :
              /\ Replied(p, x) /\ Fresh(p, x)
              /\ \A r \in Tries : Replied(r, x) => Fresh(r, x) \/ wire[r].stamp < wire[p].stamp
        BY <3>3 DEF Coming
      <4>2. p # q /\ wire'[p] = wire[p]
        BY <4>1, <3>1, <1>3
      <4>3. Replied(p, x)' /\ Fresh(p, x)'
        BY <4>1, <4>2, <1>8 DEF Replied, Fresh
      <4>4. \A r \in Tries :
              Replied(r, x)' => Fresh(r, x)' \/ wire'[r].stamp < wire'[p].stamp
        BY <2>1, <3>1, <4>1, <4>2
      <4> QED
        BY <4>3, <4>4 DEF Coming
    <3>4. CASE Standing(x)
      BY <1>8, <2>1, <3>1, <3>4 DEF Standing, MakeAgain
    <3> QED
      BY <1>9, <3>2, <3>3, <3>4 DEF PageInv, PartInv, MakeAgain
  <2> QED
    BY <2>2, <2>3
<1> QED
  BY <1>7, <1>9 DEF PageInv, PartInv, MakeAgain

(* An answer that is shown was right, or a newer one is coming. *)
LEMMA ShowAnswerKeepsPage ==
  ASSUME PageInv, NEW q \in Tries, ShowAnswer(q)
  PROVE  PageInv'
<1> DEFINE answer == wire[q].answer
<1>1. /\ wire[q].at = "made" /\ wire[q].cell \in Cells /\ wire[q].stamp \in 1 .. edition
      /\ DOMAIN answer = Replaced(wire[q].cell)
  BY DEF ShowAnswer, PageInv, ForecastTypeOK, NoTry
<1>2. CASE ~ answer[wire[q].cell[1]].listed
  BY <1>2, ReloadedIsRight DEF ShowAnswer, PageInv, ForecastTypeOK
<1>3. CASE answer[wire[q].cell[1]].listed
  <2>1. /\ grid' = [x \in Parts |-> IF x \in DOMAIN answer THEN answer[x] ELSE grid[x]]
        /\ wire' = [wire EXCEPT ![q] = NoTry]
        /\ crossed' = (crossed \/ wire[q].stamp < latest)
        /\ latest' = IF wire[q].stamp > latest THEN wire[q].stamp ELSE latest
        /\ UNCHANGED <<moved, past, fix, edition, edits>>
    BY <1>3 DEF ShowAnswer
  <2>2. wire'[q] = NoTry /\ wire'[q].at = "none" /\ \A r \in Tries : r # q => wire'[r] = wire[r]
    BY <2>1 DEF PageInv, ForecastTypeOK, NoTry
  <2>3. edition \in Nat /\ latest \in 0 .. edition /\ latest' \in 0 .. edition
        /\ latest' >= latest /\ latest' >= wire[q].stamp
    BY <1>1, <2>1 DEF PageInv, ForecastTypeOK
  <2>4. ForecastTypeOK'
    <3>1. DOMAIN wire' = Tries /\ DOMAIN grid' = Parts
      BY <2>1 DEF PageInv, ForecastTypeOK
    <3>2. crossed' \in BOOLEAN
      BY <2>1 DEF PageInv, ForecastTypeOK
    <3> QED
      BY <2>1, <2>2, <2>3, <3>1, <3>2 DEF PageInv, ForecastTypeOK
  <2>5. \A x \in Parts : Part(x)' = Part(x)
    BY <2>1, SameStoreSameSheet
  <2>6. ASSUME ~ crossed', ~ moved', NEW x \in Parts
        PROVE  Awaited(x)' \/ Coming(x)' \/ Standing(x)'
    <3>1. ~ crossed /\ ~ moved /\ ~ (wire[q].stamp < latest)
      BY <2>1, <2>6
    <3>2. latest' = wire[q].stamp
      BY <1>1, <2>1, <2>3, <3>1
    <3>3. \A r \in Tries : Replied(r, x)' =>
            r # q /\ Replied(r, x) /\ (Fresh(r, x) => Fresh(r, x)')
            /\ wire'[r].stamp = wire[r].stamp /\ wire[r].stamp \in Nat
      <4>1. ASSUME NEW r \in Tries, Replied(r, x)'
            PROVE  /\ r # q /\ Replied(r, x) /\ (Fresh(r, x) => Fresh(r, x)')
                   /\ wire'[r] = wire[r]
        BY <4>1, <2>2, <2>5 DEF Replied, Fresh
      <4>2. \A r \in Tries : Replied(r, x) => wire[r].stamp \in Nat
        BY DEF Replied, PageInv, ForecastTypeOK, NoTry
      <4> QED
        BY <4>1, <4>2
    <3>4. CASE Awaited(x)
      <4>1. PICK r \in Tries : wire[r].at = "saved" /\ x \in Replaced(wire[r].cell)
        BY <3>4 DEF Awaited
      <4>2. wire'[r] = wire[r]
        BY <4>1, <1>1, <2>2
      <4> QED
        BY <4>1, <4>2 DEF Awaited
    <3>5. ASSUME NEW p \in Tries, Replied(p, x), Fresh(p, x),
                 \A r \in Tries : Replied(r, x) => Fresh(r, x) \/ wire[r].stamp < wire[p].stamp
          PROVE  Coming(x)' \/ Standing(x)'
      <4>1. CASE p # q
        <5>1. wire'[p] = wire[p] /\ Replied(p, x)' /\ Fresh(p, x)'
          BY <4>1, <3>5, <2>2, <2>5 DEF Replied, Fresh
        <5>2. \A r \in Tries :
                Replied(r, x)' => Fresh(r, x)' \/ wire'[r].stamp < wire'[p].stamp
          BY <3>3, <3>5, <5>1
        <5> QED
          BY <5>1, <5>2 DEF Coming
      <4>2. CASE p = q
        <5>1. grid'[x] = answer[x] /\ answer[x] = Part(x)
          BY <1>1, <2>1, <3>5, <4>2 DEF Replied, Fresh
        <5>2. \A r \in Tries : Replied(r, x)' => Fresh(r, x)' \/ wire'[r].stamp < latest'
          BY <3>2, <3>3, <3>5, <4>2
        <5> QED
          BY <5>1, <5>2, <2>5 DEF Standing
      <4> QED
        BY <4>1, <4>2
    <3>6. CASE Standing(x)
      <4>1. \A r \in Tries : Replied(r, x)' => Fresh(r, x)' \/ wire'[r].stamp < latest'
        BY <2>3, <3>3, <3>6 DEF Standing
      <4>2. CASE x \in Replaced(wire[q].cell)
        <5>1. Replied(q, x)
          BY <1>1, <4>2 DEF Replied
        <5>2. answer[x] = Part(x)
          BY <3>1, <3>6, <5>1 DEF Standing, Fresh
        <5>3. grid'[x] = Part(x)'
          BY <1>1, <2>1, <2>5, <4>2, <5>2
        <5> QED
          BY <4>1, <5>3 DEF Standing
      <4>3. CASE x \notin Replaced(wire[q].cell)
        <5>1. grid'[x] = grid[x]
          BY <1>1, <2>1, <4>3
        <5> QED
          BY <2>5, <3>6, <4>1, <5>1 DEF Standing
      <4> QED
        BY <4>2, <4>3
    <3>7. CASE Coming(x)
      BY <3>5, <3>7 DEF Coming
    <3> QED
      BY <2>6, <3>1, <3>4, <3>6, <3>7 DEF PageInv, PartInv
  <2>7. grid' = [x \in Parts |-> grid'[x]]
    BY <2>1
  <2> QED
    BY <2>4, <2>6, <2>7 DEF PageInv, PartInv
<1> QED
  BY <1>2, <1>3

LEMMA OthersKeepPage ==
  ASSUME PageInv, NEW c \in Cells, NEW n \in Numbers \cup {NoFix}, Others(c, n)
  PROVE  PageInv'
<1>1. fix' \in [Cells -> Nat \cup {NoFix}]
  BY ForecastAssumption DEF PageInv, ForecastTypeOK, Others
<1>2. ForecastTypeOK'
  <2>1. UNCHANGED <<past, grid, wire, edition, latest, crossed>> /\ edits' \in Nat
    BY DEF PageInv, ForecastTypeOK, Others, Edits
  <2>2. moved' \in BOOLEAN
    BY DEF Others
  <2> QED
    BY <1>1, <2>1, <2>2 DEF PageInv, ForecastTypeOK
<1> QED
  BY <1>2 DEF PageInv, PartInv, Others

LEMMA BakeKeepsPage ==
  ASSUME PageInv, NEW c \in Cells, NEW n \in Numbers, Bake(c, n)
  PROVE  PageInv'
<1> DEFINE new == [w \in DOMAIN past[c] \cup {1} |->
             IF w # 1 THEN past[c][w] ELSE IF 1 \in DOMAIN past[c] THEN past[c][1] + n ELSE n]
<1>1. past' = [past EXCEPT ![c] = new] /\ 1 \in Weeks /\ n \in Nat
  BY ForecastAssumption DEF Bake
<1>2. DOMAIN past = Cells /\ DOMAIN past[c] \subseteq Weeks
      /\ \A w \in DOMAIN past[c] : past[c][w] \in Nat
  BY DEF PageInv, ForecastTypeOK
<1>3. DOMAIN new \subseteq Weeks /\ \A w \in DOMAIN new : new[w] \in Nat
  BY <1>1, <1>2
<1> HIDE DEF new
<1>4. DOMAIN past' = Cells
  BY <1>1, <1>2
<1>5. \A e \in Cells : past'[e] = IF e = c THEN new ELSE past[e]
  BY <1>1, <1>2
<1>6. \A e \in Cells :
        DOMAIN past'[e] \subseteq Weeks /\ \A w \in DOMAIN past'[e] : past'[e][w] \in Nat
  BY <1>3, <1>5 DEF PageInv, ForecastTypeOK
<1>7. ForecastTypeOK'
  <2>1. UNCHANGED <<fix, grid, wire, edition, latest, crossed>> /\ edits' \in Nat
    BY DEF PageInv, ForecastTypeOK, Bake, Edits
  <2>2. moved' \in BOOLEAN
    BY DEF Bake
  <2> QED
    BY <1>4, <1>6, <2>1, <2>2 DEF PageInv, ForecastTypeOK
<1> QED
  BY <1>7 DEF PageInv, PartInv, Bake

LEMMA ForecastStepKeepsPage == PageInv /\ [ForecastNext]_table => PageInv'
<1> SUFFICES ASSUME PageInv, [ForecastNext]_table PROVE PageInv'
  OBVIOUS
<1>1. CASE LoadPage
  BY <1>1, ReloadedIsRight DEF LoadPage, Edits, PageInv, ForecastTypeOK
<1>2. ASSUME NEW q \in Tries,
             \/ \E c \in Cells, raw \in Numbers \cup {NoFix, NoNumber} : Correct(q, c, raw)
             \/ Save(q) \/ MakeAgain(q) \/ ShowAnswer(q) \/ Lost(q) \/ Vanish(q)
      PROVE  PageInv'
  <2>1. ASSUME NEW c \in Cells, NEW raw \in Numbers \cup {NoFix, NoNumber}, Correct(q, c, raw)
        PROVE  PageInv'
    <3>1. raw \in Nat \cup {NoFix, NoNumber}
      BY ForecastAssumption
    <3> QED
      BY <2>1, <3>1, CorrectKeepsPage
  <2>2. CASE Lost(q)
    BY <2>2, ReloadedIsRight DEF Lost, PageInv, ForecastTypeOK
  <2> QED
    BY <1>2, <2>1, <2>2, SaveKeepsPage, MakeAgainKeepsPage, ShowAnswerKeepsPage, VanishKeepsPage
<1>3. ASSUME NEW c \in Cells, \/ \E n \in Numbers \cup {NoFix} : Others(c, n)
                              \/ \E n \in Numbers : Bake(c, n)
      PROVE  PageInv'
  BY <1>3, OthersKeepPage, BakeKeepsPage
<1>4. CASE UNCHANGED table
  <2>1. UNCHANGED <<past, fix, grid, wire, edition, edits, latest, crossed, moved>>
    BY <1>4 DEF table
  <2>2. PartInv'
    BY <2>1, PartsStand DEF PageInv
  <2> QED
    BY <2>1, <2>2 DEF PageInv, ForecastTypeOK
<1> QED
  BY <1>1, <1>2, <1>3, <1>4 DEF ForecastNext

LEMMA PageHolds == ForecastSpec => []PageInv
  BY ForecastInitTyped, ForecastStepKeepsPage, PTL DEF ForecastSpec

(* Stored corrections, page and requests keep their types, for any products, days and weeks. *)
THEOREM ForecastTypeCorrect == ForecastSpec => []ForecastTypeOK
<1>1. PageInv => ForecastTypeOK
  BY DEF PageInv
<1> QED
  BY <1>1, PageHolds, PTL

(* However corrections, their answers, errors and reloads interleave, a page that waits for
   nothing shows the sheet, unless answers crossed or somebody else changed something. *)
THEOREM PageShowsTheSheet == ForecastSpec => []PageAgrees
<1>1. PageInv => PageAgrees
  <2> SUFFICES ASSUME PageInv, ~ crossed, ~ moved,
                      \A q \in Tries : wire[q].at \notin {"sent", "saved", "made"}
               PROVE  grid = Sheet
    BY DEF PageAgrees
  <2>1. \A x \in Parts : grid[x] = Part(x)
    BY DEF PageInv, PartInv, Awaited, Coming, Standing, Replied
  <2> QED
    BY <2>1 DEF PageInv, Sheet
<1> QED
  BY <1>1, PageHolds, PTL
=============================================================================
