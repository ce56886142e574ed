------------------------- MODULE VoiceCommandProofs -------------------------
(***************************************************************************)
(* Proofs about VoiceCommand, for any commands, batches, cards and request *)
(* threads.  Everything rests on who holds which row: a voice message has  *)
(* one holder from the look at its command to the commit, and a batch has  *)
(* one from the check of its stage to its move.                            *)
(***************************************************************************)
EXTENDS VoiceCommand, TLAPS

Busy(w) == req[w].op \in {"understand", "carry"}
Carrying(w) == req[w].op = "carry"

(* The row of a voice message has one holder. *)
OneHolder ==
  \A v, w \in Workers : v # w /\ Busy(v) /\ Busy(w) => req[v].cmd # req[w].cmd

(* Only texts are carried out, or marked for review, after a commit. *)
TextsOnly ==
  \A w \in Workers :
    \/ req[w].op \in {"text", "mark"}
    \/ Carrying(w) /\ req[w].via = "text"
    => req[w].cmd \in Texts

(* A recording somebody holds has not been carried out, and one that has been
   is closed for good. *)
NotTwice ==
  \A v \in Commands \ Texts :
    /\ executions[v] \in {0, 1}
    /\ executions[v] = 1 => status[v] \in Closing
    /\ \A w \in Workers : Busy(w) /\ req[w].cmd = v => executions[v] = 0

(* A command knows no more batches than were named. *)
Named ==
  /\ \A v \in Commands : known[v] \subseteq DOMAIN Also[v]
  /\ \A w \in Workers : Carrying(w) => req[w].known \subseteq DOMAIN Also[req[w].cmd]

(* A command moves what it has locked, and no two have locked the same batch. *)
LocksHeld ==
  \A w \in Workers : Carrying(w) =>
    /\ req[w].extra \subseteq req[w].known
    /\ req[w].moving \cup req[w].extra \subseteq req[w].locked
    /\ req[w].locked # {} => Lead[req[w].cmd] \in req[w].locked
    /\ \A v \in Workers \ {w} : Carrying(v) => req[v].locked \cap req[w].locked = {}

(* What was checked of the first batch stays true until the commit. *)
LeadStands ==
  \A w \in Workers : Carrying(w) /\ req[w].locked # {} =>
    /\ req[w].from \in {NoStage, stage[Lead[req[w].cmd]]}
    /\ Lead[req[w].cmd] \in req[w].moving \/ state[Lead[req[w].cmd]] = "closed"

IInv ==
  /\ TypeOK
  /\ OneHolder
  /\ TextsOnly
  /\ NotTwice
  /\ Named
  /\ LocksHeld
  /\ LeadStands
-----------------------------------------------------------------------------
(* Helpers *)

CarryRequests ==
  [op : {"carry"}, cmd : Commands, via : {"callback", "person", "text"},
   from : Stages \cup {NoStage}, known : SUBSET Batches,
   locked : SUBSET Batches, moving : SUBSET Batches, extra : SUBSET Batches]

(* What the fields of a request are, by its kind. *)
LEMMA RequestTypes ==
  ASSUME NEW r \in Requests
  PROVE  /\ r.op \in {"idle", "understand", "text", "mark", "carry"}
         /\ r.op \in {"understand", "text", "mark", "carry"} => r.cmd \in Commands
         /\ r.op \in {"text", "mark"} => r.heard \in Stages \cup {NoStage}
         /\ r.op = "carry" => r \in CarryRequests
BY DEF Requests, NoReq, CarryRequests

LEMMA CarryIsRequest == CarryRequests \subseteq Requests
BY DEF Requests, CarryRequests

LEMMA CarryFields ==
  ASSUME NEW r \in CarryRequests
  PROVE  /\ r.op = "carry" /\ r.cmd \in Commands /\ r.via \in {"callback", "person", "text"}
         /\ r.from \in Stages \cup {NoStage} /\ r.known \in SUBSET Batches
         /\ r.locked \in SUBSET Batches /\ r.moving \in SUBSET Batches
         /\ r.extra \in SUBSET Batches
BY DEF CarryRequests

(* What TakeLead and TakeExtra make of a request. *)
LEMMA CarryTakes ==
  ASSUME NEW r \in CarryRequests, NEW l \in SUBSET Batches, NEW m \in SUBSET Batches
  PROVE  /\ [r EXCEPT !.locked = l, !.moving = m] \in CarryRequests
         /\ [r EXCEPT !.locked = l, !.extra = m] \in CarryRequests
BY DEF CarryRequests

(* What is understood of a command are stages and batches that were named. *)
LEMMA HeardTypes ==
  ASSUME TypeOK, NEW v \in Commands
  PROVE  /\ HeardFrom(v) \in Stages \cup {NoStage}
         /\ HeardAlso(v) \subseteq DOMAIN Also[v]
         /\ HeardAlso(v) \subseteq Batches
         /\ Lead[v] \in Batches
BY CommandAssumption DEF HeardFrom, HeardAlso, TypeOK

(* A new carry is a request, and has locked nothing. *)
LEMMA CarryTypes ==
  ASSUME NEW v \in Commands, NEW via \in {"callback", "person", "text"},
         NEW f \in Stages \cup {NoStage}, NEW k \in SUBSET Batches
  PROVE  /\ Carry(v, via, f, k) \in Requests
         /\ Carry(v, via, f, k).op = "carry" /\ Carry(v, via, f, k).cmd = v
         /\ Carry(v, via, f, k).known = k
         /\ Carry(v, via, f, k).locked = {} /\ Carry(v, via, f, k).moving = {}
         /\ Carry(v, via, f, k).extra = {}
BY DEF Carry, Requests

(* The rows of a card are batches, and only closed ones are missing. *)
LEMMA BlockTypes ==
  ASSUME TypeOK, NEW b \in Batches
  PROVE  /\ Block(b) \subseteq Batches
         /\ b \in Block(b) \/ state[b] = "closed"
BY DEF Block, TypeOK

-----------------------------------------------------------------------------
(* Every step preserves every part of the invariant. *)

(* The variables keep their types. *)
LEMMA TypeStep == TypeOK /\ [Next]_vars => TypeOK'
<1> SUFFICES ASSUME TypeOK, [Next]_vars PROVE TypeOK'
  OBVIOUS
<1> USE DEF TypeOK, commands, bounds, Begin, End, Write
<1>0. NoReq \in Requests
  BY DEF Requests
<1>1. ASSUME NEW w \in Workers, NEW v \in Commands, Hear(w, v) PROVE TypeOK'
  <2>1. [op |-> "understand", cmd |-> v] \in Requests
    BY DEF Requests
  <2> QED
    BY <1>1, <2>1, VoiceBoundAssumption DEF Hear
<1>2. ASSUME NEW w \in Workers, Understand(w) PROVE TypeOK'
  <2> DEFINE v == req[w].cmd
  <2>1. v \in Commands
    BY <1>2, RequestTypes DEF Understand
  <2>2. Carry(v, "callback", HeardFrom(v), HeardAlso(v)) \in Requests
    BY <2>1, HeardTypes, CarryTypes
  <2> QED
    BY <1>0, <1>2, <2>1, <2>2, HeardTypes DEF Understand
<1>3. ASSUME NEW w \in Workers, NEW v \in Commands, Tell(w, v) PROVE TypeOK'
  <2>1. [op |-> "text", cmd |-> v, heard |-> HeardFrom(v)] \in Requests
    BY HeardTypes DEF Requests
  <2> QED
    BY <1>3, <2>1, HeardTypes DEF Tell
<1>4. ASSUME NEW w \in Workers, NEW v \in Commands, Confirm(w, v) PROVE TypeOK'
  <2>1. from[v] \in Stages \cup {NoStage} /\ known[v] \in SUBSET Batches
    OBVIOUS
  <2>2. Carry(v, "person", from[v], known[v]) \in Requests
    BY <2>1, CarryTypes
  <2> QED
    BY <1>4, <2>2 DEF Confirm
<1>5. ASSUME NEW w \in Workers, ConfirmText(w) PROVE TypeOK'
  <2> DEFINE v == req[w].cmd
  <2>1. v \in Commands /\ req[w].heard \in Stages \cup {NoStage}
    BY <1>5, RequestTypes DEF ConfirmText
  <2>4. from[v] \in Stages \cup {NoStage} /\ known[v] \in SUBSET Batches
    BY <2>1
  <2>2. Carry(v, "text", from[v], known[v]) \in Requests
    BY <2>1, <2>4, CarryTypes
  <2>3. [op |-> "mark", cmd |-> v, heard |-> req[w].heard] \in Requests
    BY <2>1 DEF Requests
  <2> QED
    BY <1>5, <2>2, <2>3 DEF ConfirmText
<1>6. ASSUME NEW w \in Workers, TakeLead(w) PROVE TypeOK'
  <2> DEFINE r == req[w]
  <2>1. r \in CarryRequests
    BY <1>6, RequestTypes DEF TakeLead
  <2>3. Lead[r.cmd] \in Batches
    BY <2>1, CarryFields, CommandAssumption
  <2>4. Block(Lead[r.cmd]) \subseteq Batches
    BY <2>3, BlockTypes
  <2>2. [r EXCEPT !.locked = Block(Lead[r.cmd]) \cup {Lead[r.cmd]},
                  !.moving = Block(Lead[r.cmd])] \in Requests
    BY <2>1, <2>3, <2>4, CarryTakes, CarryIsRequest
  <2> QED
    BY <1>6, <2>2 DEF TakeLead
<1>7. ASSUME NEW w \in Workers, NEW b \in Batches, TakeExtra(w, b) PROVE TypeOK'
  <2> DEFINE r == req[w]
  <2>2. r \in CarryRequests
    BY <1>7, RequestTypes DEF TakeExtra
  <2>1. [r EXCEPT !.locked = @ \cup {b}, !.extra = @ \cup {b}] \in Requests
    BY <2>2, CarryTakes, CarryFields, CarryIsRequest
  <2> QED
    BY <1>7, <2>1 DEF TakeExtra
<1>8. ASSUME NEW w \in Workers, Refuse(w) PROVE TypeOK'
  <2> DEFINE r == req[w]
  <2>1. /\ r.cmd \in Commands /\ r.from \in Stages \cup {NoStage}
        /\ r.known \in SUBSET Batches
    BY <1>8, RequestTypes, CarryFields DEF Refuse
  <2>2. [op |-> "mark", cmd |-> r.cmd, heard |-> r.from] \in Requests
    BY <2>1 DEF Requests
  <2> QED
    BY <1>0, <1>8, <2>1, <2>2 DEF Refuse
<1>9. ASSUME NEW w \in Workers, Mark(w) PROVE TypeOK'
  <2>1. req[w].cmd \in Commands /\ req[w].heard \in Stages \cup {NoStage}
    BY <1>9, RequestTypes DEF Mark
  <2> QED
    BY <1>0, <1>9, <2>1 DEF Mark
<1>10. ASSUME NEW w \in Workers, Execute(w) PROVE TypeOK'
  <2> DEFINE r == req[w]
             v == r.cmd
             target(b) == IF b \in r.extra THEN Also[v][b] ELSE To[v]
             moved == r.moving \cup r.extra
  <2>1. /\ v \in Commands /\ r.from \in Stages \cup {NoStage}
        /\ r.known \in SUBSET Batches /\ Lead[v] \in Batches
    BY <1>10, RequestTypes, CarryFields, CommandAssumption DEF Execute
  <2>2. \A b \in Batches : b \in moved => target(b) \in Stages
    BY <1>10, <2>1, CommandAssumption DEF Execute, Whole
  <2>3. stage' \in [Batches -> Stages]
    BY <1>10, <2>2 DEF Execute
  <2>4. state' \in [Batches -> {"open", "held", "closed"}]
    BY <1>10 DEF Execute
  <2> QED
    BY <1>0, <1>10, <2>1, <2>3, <2>4 DEF Execute, Closing
<1>11. ASSUME NEW w \in Workers, Abort(w) PROVE TypeOK'
  BY <1>0, <1>11 DEF Abort
<1>12. ASSUME NEW v \in Commands, Reject(v) PROVE TypeOK'
  BY <1>12 DEF Reject, Closing
<1>13. ASSUME NEW b \in Batches, Elsewhere(b) PROVE TypeOK'
  BY <1>13, VoiceBoundAssumption DEF Elsewhere
<1>14. CASE UNCHANGED vars
  BY <1>14 DEF vars
<1> QED
  BY <1>1, <1>2, <1>3, <1>4, <1>5, <1>6, <1>7, <1>8, <1>9, <1>10, <1>11, <1>12, <1>13, <1>14
  DEF Next, Thread

(* What a thread does to its own request and to no other: it goes on with the
   command it holds, or takes one whose voice message nobody holds. *)
LEMMA ThreadEffect ==
  ASSUME TypeOK, TypeOK', TextsOnly, NEW w \in Workers, Thread(w)
  PROVE  /\ \A v \in Workers \ {w} : req'[v] = req[v]
         /\ Busy(w)' => \/ Busy(w) /\ req'[w].cmd = req[w].cmd
                        \/ ~VoiceLocked(req'[w].cmd)
         /\ \/ req'[w].op \in {"text", "mark"}
            \/ Carrying(w)' /\ req'[w].via = "text"
            => req'[w].cmd \in Texts
<1> USE DEF Begin, End, Busy, Carrying
<1> DEFINE Goal == /\ \A v \in Workers \ {w} : req'[v] = req[v]
                   /\ Busy(w)' => \/ Busy(w) /\ req'[w].cmd = req[w].cmd
                                  \/ ~VoiceLocked(req'[w].cmd)
                   /\ \/ req'[w].op \in {"text", "mark"}
                      \/ Carrying(w)' /\ req'[w].via = "text"
                      => req'[w].cmd \in Texts
<1>0. req \in [Workers -> Requests] /\ NoReq.op = "idle"
  BY DEF TypeOK, NoReq
<1>a. ASSUME End(w) PROVE Goal
  BY <1>0, <1>a
<1>1. ASSUME NEW v \in Commands, Hear(w, v) PROVE Goal
  BY <1>0, <1>1 DEF Hear
<1>2. CASE Understand(w)
  <2>1. CASE End(w)
    BY <2>1, <1>a
  <2>2. CASE req' = [req EXCEPT ![w] = Carry(req[w].cmd, "callback", HeardFrom(req[w].cmd),
                                             HeardAlso(req[w].cmd))]
    <3>1. req'[w].cmd = req[w].cmd /\ req'[w].via = "callback"
      BY <2>2, <1>0 DEF Carry
    <3>2. req'[w].op = "carry"
      BY <2>2, <1>0 DEF Carry
    <3> QED
      BY <1>0, <1>2, <2>2, <3>1, <3>2 DEF Understand
  <2> QED
    BY <1>2, <2>1, <2>2 DEF Understand
<1>3. ASSUME NEW v \in Commands, Tell(w, v) PROVE Goal
  BY <1>0, <1>3 DEF Tell
<1>4. ASSUME NEW v \in Commands, Confirm(w, v) PROVE Goal
  BY <1>0, <1>4 DEF Confirm, Carry, LocksFree
<1>5. CASE ConfirmText(w)
  <2>1. req[w].cmd \in Texts
    BY <1>5 DEF ConfirmText, TextsOnly
  <2> QED
    BY <1>0, <1>5, <2>1 DEF ConfirmText, Carry, LocksFree
<1>6. CASE TakeLead(w)
  <2>1. req[w] \in CarryRequests
    BY <1>0, <1>6, RequestTypes DEF TakeLead
  <2>2. /\ req'[w].op = "carry" /\ req'[w].cmd = req[w].cmd /\ req'[w].via = req[w].via
        /\ \A v \in Workers \ {w} : req'[v] = req[v]
    BY <1>0, <1>6, <2>1 DEF TakeLead, CarryRequests
  <2> QED
    BY <1>6, <2>2 DEF TakeLead, TextsOnly
<1>7. ASSUME NEW b \in Batches, TakeExtra(w, b) PROVE Goal
  <2>1. req[w] \in CarryRequests
    BY <1>0, <1>7, RequestTypes DEF TakeExtra
  <2>2. /\ req'[w].op = "carry" /\ req'[w].cmd = req[w].cmd /\ req'[w].via = req[w].via
        /\ \A v \in Workers \ {w} : req'[v] = req[v]
    BY <1>0, <1>7, <2>1 DEF TakeExtra, CarryRequests
  <2> QED
    BY <1>7, <2>2 DEF TakeExtra, TextsOnly
<1>8. CASE Refuse(w)
  <2>1. CASE req[w].via = "text"
    <3>1. req[w].cmd \in Texts
      BY <1>8, <2>1 DEF Refuse, TextsOnly
    <3> QED
      BY <1>0, <1>8, <2>1, <3>1 DEF Refuse
  <2> QED
    BY <1>8, <1>a, <2>1 DEF Refuse
<1>9. CASE Mark(w)
  BY <1>9, <1>a DEF Mark
<1>10. CASE Execute(w)
  BY <1>10, <1>a DEF Execute
<1>11. CASE Abort(w)
  BY <1>11, <1>a DEF Abort
<1> QED
  BY <1>1, <1>2, <1>3, <1>4, <1>5, <1>6, <1>7, <1>8, <1>9, <1>10, <1>11 DEF Thread

(* Steps that are no thread's leave every request alone. *)
LEMMA OtherEffect ==
  ASSUME [Next]_vars, \A w \in Workers : ~Thread(w)
  PROVE  req' = req
BY DEF Next, Reject, Elsewhere, vars

(* Who holds a voice message, and whose commits come first. *)
LEMMA HolderStep ==
  ASSUME TypeOK, TypeOK', OneHolder, TextsOnly, [Next]_vars
  PROVE  OneHolder' /\ TextsOnly'
<1>1. ASSUME NEW w \in Workers, Thread(w) PROVE OneHolder' /\ TextsOnly'
  <2>1. \A v \in Workers \ {w} : req'[v] = req[v]
    BY <1>1, ThreadEffect
  <2>2. TextsOnly'
    BY <1>1, <2>1, ThreadEffect DEF TextsOnly, Carrying
  <2>3. ASSUME NEW v \in Workers \ {w}, Busy(v), Busy(w)'
        PROVE  req'[w].cmd # req[v].cmd
    BY <1>1, <2>3, ThreadEffect DEF OneHolder, VoiceLocked, Busy
  <2> QED
    BY <2>1, <2>2, <2>3 DEF OneHolder, Busy
<1>2. CASE \A w \in Workers : ~Thread(w)
  BY <1>2, OtherEffect DEF OneHolder, TextsOnly, Busy, Carrying
<1> QED
  BY <1>1, <1>2

(* A recording is carried out once. *)
LEMMA OnceStep ==
  ASSUME TypeOK, TypeOK', OneHolder, TextsOnly, NotTwice, [Next]_vars
  PROVE  NotTwice'
<1> USE DEF Begin, End, Busy, Closing, commands, bounds
<1> SUFFICES ASSUME NEW c \in Commands \ Texts
             PROVE  /\ executions'[c] \in {0, 1}
                    /\ executions'[c] = 1 => status'[c] \in Closing
                    /\ \A u \in Workers : Busy(u)' /\ req'[u].cmd = c => executions'[c] = 0
  BY DEF NotTwice
<1> DEFINE Goal == /\ executions'[c] \in {0, 1}
                   /\ executions'[c] = 1 => status'[c] \in Closing
                   /\ \A u \in Workers : Busy(u)' /\ req'[u].cmd = c => executions'[c] = 0
<1>0. /\ executions[c] \in {0, 1}
      /\ executions[c] = 1 => status[c] \in Closing
      /\ \A u \in Workers : Busy(u) /\ req[u].cmd = c => executions[c] = 0
  BY DEF NotTwice
<1>t. /\ req \in [Workers -> Requests] /\ NoReq.op = "idle"
      /\ status \in [Commands -> {"none", "detected", "needs_review", "executed", "rejected"}]
      /\ executions \in [Commands -> Nat]
  BY DEF TypeOK, NoReq
<1>1. ASSUME NEW w \in Workers, NEW v \in Commands, Hear(w, v) PROVE Goal
  <2>1. UNCHANGED <<executions, status>>
    BY <1>1 DEF Hear
  <2>2. CASE status[v] \in Closing
    <3>1. req' = req
      BY <1>1, <2>2 DEF Hear
    <3> QED
      BY <1>0, <2>1, <3>1
  <2>3. CASE status[v] \notin Closing
    <3>1. req' = [req EXCEPT ![w] = [op |-> "understand", cmd |-> v]]
      BY <1>1, <2>3 DEF Hear
    <3>2. req'[w].cmd = v /\ \A u \in Workers \ {w} : req'[u] = req[u]
      BY <1>t, <3>1
    <3>3. executions[v] # 1 \/ v # c
      BY <1>0, <2>3
    <3> QED
      BY <1>0, <2>1, <3>2, <3>3
  <2> QED
    BY <2>2, <2>3
<1>2. ASSUME NEW w \in Workers, Understand(w) PROVE Goal
  <2>1. /\ UNCHANGED executions
        /\ \A v \in Commands \ {req[w].cmd} : status'[v] = status[v]
        /\ \A u \in Workers : Busy(u)' => Busy(u) /\ req'[u].cmd = req[u].cmd
    BY <1>t, <1>2 DEF Understand, Write, Carry
  <2>2. req[w].cmd = c => executions[c] = 0
    BY <1>0, <1>2 DEF Understand
  <2> QED
    BY <1>0, <2>1, <2>2
<1>3. ASSUME NEW w \in Workers, NEW v \in Commands, Tell(w, v) PROVE Goal
  <2>1. /\ UNCHANGED executions
        /\ status'[c] = status[c]
        /\ \A u \in Workers : Busy(u)' => Busy(u) /\ req'[u].cmd = req[u].cmd
    BY <1>t, <1>3 DEF Tell, Write
  <2> QED
    BY <1>0, <2>1
<1>4. ASSUME NEW w \in Workers, NEW v \in Commands, Confirm(w, v) PROVE Goal
  <2>1. /\ UNCHANGED <<executions, status>>
        /\ \A u \in Workers : Busy(u)' => (Busy(u) /\ req'[u].cmd = req[u].cmd)
                                       \/ (req'[u].cmd = v /\ status[v] \notin Closing)
    BY <1>t, <1>4 DEF Confirm, Carry
  <2> QED
    BY <1>0, <2>1
<1>5. ASSUME NEW w \in Workers, ConfirmText(w) PROVE Goal
  <2>1. req[w].cmd \in Texts
    BY <1>5 DEF ConfirmText, TextsOnly
  <2>2. /\ UNCHANGED <<executions, status>>
        /\ \A u \in Workers : Busy(u)' => (Busy(u) /\ req'[u].cmd = req[u].cmd)
                                       \/ req'[u].cmd \in Texts
    BY <1>t, <1>5, <2>1 DEF ConfirmText, Carry
  <2> QED
    BY <1>0, <2>2
<1>6. ASSUME NEW w \in Workers, TakeLead(w) \/ \E b \in Batches : TakeExtra(w, b) PROVE Goal
  <2>1. req[w] \in CarryRequests
    BY <1>t, <1>6, RequestTypes DEF TakeLead, TakeExtra
  <2>2. UNCHANGED <<executions, status>>
    BY <1>6 DEF TakeLead, TakeExtra
  <2>3. \A u \in Workers : req'[u].op = req[u].op /\ req'[u].cmd = req[u].cmd
    <3>1. CASE TakeLead(w)
      BY <1>t, <2>1, <3>1 DEF TakeLead, CarryRequests
    <3>2. ASSUME NEW b \in Batches, TakeExtra(w, b)
          PROVE  \A u \in Workers : req'[u].op = req[u].op /\ req'[u].cmd = req[u].cmd
      BY <1>t, <2>1, <3>2 DEF TakeExtra, CarryRequests
    <3> QED
      BY <1>6, <3>1, <3>2
  <2> QED
    BY <1>0, <2>2, <2>3
<1>7. ASSUME NEW w \in Workers, Refuse(w) PROVE Goal
  <2>1. /\ UNCHANGED executions
        /\ \A v \in Commands \ {req[w].cmd} : status'[v] = status[v]
        /\ \A u \in Workers : Busy(u)' => Busy(u) /\ req'[u].cmd = req[u].cmd
    BY <1>t, <1>7 DEF Refuse, Write
  <2>2. req[w].cmd = c => executions[c] = 0
    BY <1>0, <1>7 DEF Refuse
  <2> QED
    BY <1>0, <2>1, <2>2
<1>8. ASSUME NEW w \in Workers, Mark(w) PROVE Goal
  <2>1. req[w].cmd \in Texts
    BY <1>8 DEF Mark, TextsOnly
  <2>2. /\ UNCHANGED executions
        /\ status'[c] = status[c]
        /\ \A u \in Workers : Busy(u)' => Busy(u) /\ req'[u].cmd = req[u].cmd
    BY <1>t, <1>8, <2>1 DEF Mark, Write
  <2> QED
    BY <1>0, <2>2
<1>9. ASSUME NEW w \in Workers, Execute(w) PROVE Goal
  <2> DEFINE v == req[w].cmd
  <2>1. /\ Busy(w)
        /\ executions' = [executions EXCEPT ![v] = @ + 1]
        /\ status' = [status EXCEPT ![v] = "executed"]
        /\ req' = [req EXCEPT ![w] = NoReq]
    BY <1>9 DEF Execute, Write
  <2>2. CASE v = c
    <3>1. executions'[c] = 1 /\ status'[c] = "executed"
      BY <1>0, <1>t, <2>1, <2>2
    <3>2. \A u \in Workers : Busy(u)' => req'[u].cmd # c
      BY <1>t, <2>1, <2>2 DEF OneHolder
    <3> QED
      BY <3>1, <3>2
  <2>3. CASE v # c
    BY <1>0, <1>t, <2>1, <2>3
  <2> QED
    BY <2>2, <2>3
<1>10. ASSUME NEW w \in Workers, Abort(w) PROVE Goal
  BY <1>0, <1>t, <1>10 DEF Abort
<1>11. ASSUME NEW v \in Commands, Reject(v) PROVE Goal
  BY <1>0, <1>t, <1>11 DEF Reject
<1>12. ASSUME NEW b \in Batches, Elsewhere(b) PROVE Goal
  BY <1>0, <1>12 DEF Elsewhere
<1>13. CASE UNCHANGED vars
  BY <1>0, <1>13 DEF vars
<1> QED
  BY <1>1, <1>2, <1>3, <1>4, <1>5, <1>6, <1>7, <1>8, <1>9, <1>10, <1>11, <1>12, <1>13
  DEF Next, Thread
(* What is known of a command stays within what it named. *)
LEMMA KnownStep ==
  ASSUME TypeOK, Named, [Next]_vars
  PROVE  \A v \in Commands : known'[v] \subseteq DOMAIN Also[v]
<1> USE DEF Begin, End, Write, commands, Carrying
<1> SUFFICES ASSUME NEW c \in Commands PROVE known'[c] \subseteq DOMAIN Also[c]
  OBVIOUS
<1>0. known \in [Commands -> SUBSET Batches] /\ known[c] \subseteq DOMAIN Also[c]
  BY DEF TypeOK, Named
<1>1. ASSUME NEW v \in Commands, NEW k, known' = [known EXCEPT ![v] = k],
             k \subseteq DOMAIN Also[v]
      PROVE  known'[c] \subseteq DOMAIN Also[c]
  BY <1>0, <1>1
<1>2. ASSUME NEW w \in Workers, Understand(w) PROVE known'[c] \subseteq DOMAIN Also[c]
  <2>1. req[w].cmd \in Commands
    BY <1>2, RequestTypes DEF Understand, TypeOK
  <2>2. HeardAlso(req[w].cmd) \subseteq DOMAIN Also[req[w].cmd]
    BY DEF HeardAlso
  <2>3. known' = [known EXCEPT ![req[w].cmd] = HeardAlso(req[w].cmd)] \/ known' = known
    BY <1>2 DEF Understand
  <2> QED
    BY <1>0, <1>1, <2>1, <2>2, <2>3
<1>3. ASSUME NEW w \in Workers, NEW v \in Commands, Tell(w, v)
      PROVE  known'[c] \subseteq DOMAIN Also[c]
  <2>1. HeardAlso(v) \subseteq DOMAIN Also[v]
    BY DEF HeardAlso
  <2>2. known' = [known EXCEPT ![v] = HeardAlso(v)]
    BY <1>3 DEF Tell
  <2> QED
    BY <1>1, <2>1, <2>2
<1>4. ASSUME NEW w \in Workers, Refuse(w) \/ Execute(w)
      PROVE  known'[c] \subseteq DOMAIN Also[c]
  <2>1. req[w].cmd \in Commands /\ req[w].known \subseteq DOMAIN Also[req[w].cmd]
    BY <1>4, RequestTypes DEF Refuse, Execute, TypeOK, Named
  <2>2. known' = [known EXCEPT ![req[w].cmd] = req[w].known] \/ known' = known
    BY <1>4 DEF Refuse, Execute
  <2> QED
    BY <1>0, <1>1, <2>1, <2>2
<1>5. ASSUME NEW w \in Workers, Mark(w) PROVE known'[c] \subseteq DOMAIN Also[c]
  BY <1>0, <1>5 DEF Mark
<1>6. ASSUME NEW w \in Workers, NEW v \in Commands, Hear(w, v) \/ Confirm(w, v)
      PROVE  known'[c] \subseteq DOMAIN Also[c]
  BY <1>0, <1>6 DEF Hear, Confirm
<1>7. ASSUME NEW w \in Workers, \/ ConfirmText(w) \/ TakeLead(w) \/ Abort(w)
                                \/ \E b \in Batches : TakeExtra(w, b)
      PROVE  known'[c] \subseteq DOMAIN Also[c]
  BY <1>0, <1>7 DEF ConfirmText, TakeLead, TakeExtra, Abort
<1>8. ASSUME NEW v \in Commands, Reject(v) PROVE known'[c] \subseteq DOMAIN Also[c]
  BY <1>0, <1>8 DEF Reject
<1>9. ASSUME NEW b \in Batches, Elsewhere(b) PROVE known'[c] \subseteq DOMAIN Also[c]
  BY <1>0, <1>9 DEF Elsewhere
<1>10. CASE UNCHANGED vars
  BY <1>0, <1>10 DEF vars
<1> QED
  BY <1>2, <1>3, <1>4, <1>5, <1>6, <1>7, <1>8, <1>9, <1>10 DEF Next, Thread

(* A thread that carries a command after its step holds its rows, and has taken
   only rows nobody held. *)
Holds(r) ==
  /\ r.known \subseteq DOMAIN Also[r.cmd]
  /\ r.extra \subseteq r.known
  /\ r.moving \cup r.extra \subseteq r.locked
  /\ r.locked # {} => /\ Lead[r.cmd] \in r.locked
                      /\ r.from \in {NoStage, stage[Lead[r.cmd]]}
                      /\ Lead[r.cmd] \in r.moving \/ state[Lead[r.cmd]] = "closed"

LEMMA HoldsAll ==
  Named /\ LocksHeld /\ LeadStands => \A w \in Workers : Carrying(w) => Holds(req[w])
BY DEF Named, LocksHeld, LeadStands, Holds

LEMMA CarryEffect ==
  ASSUME TypeOK, Named, LocksHeld, LeadStands, NEW w \in Workers, Thread(w), Carrying(w)'
  PROVE  /\ UNCHANGED <<stage, state>>
         /\ Holds(req'[w])
         /\ \A b \in req'[w].locked : BatchLocked(b) => Carrying(w) /\ b \in req[w].locked
<1> USE DEF Begin, End, Carrying
<1> DEFINE Goal == /\ UNCHANGED <<stage, state>>
                   /\ Holds(req'[w])
                   /\ \A b \in req'[w].locked : BatchLocked(b) => Carrying(w) /\ b \in req[w].locked
<1>0. req \in [Workers -> Requests] /\ NoReq.op # "carry"
  BY DEF TypeOK, NoReq
<1>a. ASSUME End(w) PROVE FALSE
  BY <1>0, <1>a
<1>b. ASSUME NEW v \in Commands, NEW via, NEW f, NEW k \in SUBSET DOMAIN Also[v],
             req' = [req EXCEPT ![w] = Carry(v, via, f, k)], UNCHANGED <<stage, state>>
      PROVE  Goal
  <2>1. /\ req'[w].cmd = v /\ req'[w].known = k /\ req'[w].locked = {}
        /\ req'[w].moving = {} /\ req'[w].extra = {}
    BY <1>0, <1>b DEF Carry
  <2> QED
    BY <1>b, <2>1 DEF Holds
<1>1. ASSUME NEW v \in Commands, Hear(w, v) PROVE FALSE
  BY <1>0, <1>1 DEF Hear
<1>2. CASE Understand(w)
  <2>1. req[w].cmd \in Commands
    BY <1>2, <1>0, RequestTypes DEF Understand
  <2>2. HeardAlso(req[w].cmd) \in SUBSET DOMAIN Also[req[w].cmd]
    BY DEF HeardAlso
  <2> QED
    BY <1>2, <1>a, <1>b, <2>1, <2>2 DEF Understand
<1>3. ASSUME NEW v \in Commands, Tell(w, v) PROVE FALSE
  BY <1>0, <1>3 DEF Tell
<1>4. ASSUME NEW v \in Commands, Confirm(w, v) PROVE Goal
  <2>1. known[v] \in SUBSET DOMAIN Also[v]
    BY DEF Named
  <2> QED
    BY <1>4, <1>b, <2>1 DEF Confirm
<1>5. CASE ConfirmText(w)
  <2> DEFINE v == req[w].cmd
  <2>1. v \in Commands
    BY <1>5, <1>0, RequestTypes DEF ConfirmText
  <2>2. known[v] \in SUBSET DOMAIN Also[v]
    BY <2>1 DEF Named
  <2>3. req' = [req EXCEPT ![w] = Carry(v, "text", from[v], known[v])]
    BY <1>5, <1>0 DEF ConfirmText
  <2>4. UNCHANGED <<stage, state>>
    BY <1>5 DEF ConfirmText
  <2> HIDE DEF v
  <2> QED
    BY <1>b, <2>1, <2>2, <2>3, <2>4
<1>6. CASE TakeLead(w)
  <2> DEFINE r == req[w]
             rows == Block(Lead[r.cmd]) \cup {Lead[r.cmd]}
  <2>1. r \in CarryRequests /\ r.op = "carry" /\ r.locked = {}
    BY <1>0, <1>6, RequestTypes DEF TakeLead
  <2>2. Lead[r.cmd] \in Batches
    BY <2>1, CarryFields, CommandAssumption
  <2>3. /\ req'[w].cmd = r.cmd /\ req'[w].from = r.from /\ req'[w].known = r.known
        /\ req'[w].extra = r.extra /\ req'[w].moving = Block(Lead[r.cmd])
        /\ req'[w].locked = rows
    BY <1>0, <1>6, <2>1 DEF TakeLead, CarryRequests
  <2>4. Holds(r)
    BY <2>1, HoldsAll
  <2>5. r.from \in {NoStage, stage[Lead[r.cmd]]}
    BY <1>6 DEF TakeLead, LeadMovable, StandsWhereHeard
  <2>6. Lead[r.cmd] \in Block(Lead[r.cmd]) \/ state[Lead[r.cmd]] = "closed"
    BY <2>2, BlockTypes
  <2>7. \A b \in rows : ~BatchLocked(b)
    BY <1>6 DEF TakeLead
  <2>8. UNCHANGED <<stage, state>>
    BY <1>6 DEF TakeLead
  <2>9. r.extra = {}
    BY <2>1, <2>4 DEF Holds
  <2> QED
    BY <2>3, <2>4, <2>5, <2>6, <2>7, <2>8, <2>9 DEF Holds
<1>7. ASSUME NEW b \in Batches, TakeExtra(w, b) PROVE Goal
  <2> DEFINE r == req[w]
  <2>1. r \in CarryRequests /\ r.op = "carry" /\ r.locked # {}
    BY <1>0, <1>7, RequestTypes DEF TakeExtra
  <2>2. /\ req'[w].cmd = r.cmd /\ req'[w].from = r.from /\ req'[w].known = r.known
        /\ req'[w].extra = r.extra \cup {b} /\ req'[w].moving = r.moving
        /\ req'[w].locked = r.locked \cup {b}
    BY <1>0, <1>7, <2>1 DEF TakeExtra, CarryRequests
  <2>3. Holds(r)
    BY <2>1, HoldsAll
  <2>4. b \in r.known /\ (b \in r.locked \/ ~BatchLocked(b))
    BY <1>7 DEF TakeExtra, Unlocked
  <2>5. UNCHANGED <<stage, state>>
    BY <1>7 DEF TakeExtra
  <2> QED
    BY <2>1, <2>2, <2>3, <2>4, <2>5 DEF Holds
<1>8. CASE Refuse(w)
  BY <1>0, <1>8, <1>a DEF Refuse
<1>9. CASE Mark(w) \/ Execute(w) \/ Abort(w)
  BY <1>9, <1>a DEF Mark, Execute, Abort
<1> QED
  BY <1>1, <1>2, <1>3, <1>4, <1>5, <1>6, <1>7, <1>8, <1>9 DEF Thread

(* A batch somebody else has locked does not change under his hands. *)
LEMMA LockedStands ==
  ASSUME TypeOK, LocksHeld, [Next]_vars, NEW u \in Workers, Carrying(u), req'[u] = req[u],
         NEW b \in req[u].locked
  PROVE  stage'[b] = stage[b] /\ state'[b] = state[b]
<1> USE DEF Carrying
<1>0. b \in Batches
  BY RequestTypes, CarryFields DEF TypeOK
<1>1. ASSUME NEW w \in Workers, Execute(w) PROVE stage'[b] = stage[b] /\ state'[b] = state[b]
  <2>1. w # u
    BY <1>1 DEF Execute, End, Begin, NoReq, TypeOK
  <2>2. b \notin req[w].moving \cup req[w].extra
    BY <1>1, <2>1 DEF LocksHeld, Execute
  <2> QED
    BY <1>0, <1>1, <2>2 DEF Execute
<1>2. ASSUME NEW c \in Batches, Elsewhere(c) PROVE stage'[b] = stage[b] /\ state'[b] = state[b]
  <2>1. c # b
    BY <1>2 DEF Elsewhere, BatchLocked
  <2> QED
    BY <1>2, <2>1, <1>0 DEF Elsewhere, TypeOK
<1>3. ASSUME NEW w \in Workers, Thread(w), ~Execute(w)
      PROVE  stage'[b] = stage[b] /\ state'[b] = state[b]
  BY <1>3 DEF Thread, Hear, Tell, Confirm, Understand, ConfirmText, TakeLead, TakeExtra, Refuse,
     Mark, Abort
<1> QED
  BY <1>1, <1>2, <1>3 DEF Next, Reject, vars

(* Who holds a batch, and what stays true of it. *)
LEMMA RowsStep ==
  ASSUME TypeOK, TypeOK', TextsOnly, Named, LocksHeld, LeadStands, [Next]_vars
  PROVE  Named' /\ LocksHeld' /\ LeadStands'
<1> USE DEF Carrying
<1>1. \A v \in Commands : known'[v] \subseteq DOMAIN Also[v]
  BY KnownStep
<1> DEFINE Alone(w) == \A v \in Workers \ {w} :
                         Carrying(v)' => req'[v].locked \cap req'[w].locked = {}
<1>2. ASSUME NEW u \in Workers, Carrying(u), req'[u] = req[u]
      PROVE  Holds(req[u])'
  <2>1. Holds(req[u])
    BY <1>2, HoldsAll
  <2>2. req[u].locked # {} => /\ stage'[Lead[req[u].cmd]] = stage[Lead[req[u].cmd]]
                              /\ state'[Lead[req[u].cmd]] = state[Lead[req[u].cmd]]
    BY <1>2, <2>1, LockedStands DEF Holds
  <2> QED
    BY <1>2, <2>1, <2>2 DEF Holds
<1>3. ASSUME \A u \in Workers : Carrying(u)' => Holds(req[u])' /\ Alone(u)
      PROVE  Named' /\ LocksHeld' /\ LeadStands'
  BY <1>1, <1>3 DEF Named, LocksHeld, LeadStands, Holds
<1>4. ASSUME NEW w \in Workers, Thread(w) PROVE Named' /\ LocksHeld' /\ LeadStands'
  <2>1. \A v \in Workers \ {w} : req'[v] = req[v]
    BY <1>4, ThreadEffect
  <2>2. Carrying(w)' => Holds(req[w])'
    <3>1. SUFFICES ASSUME Carrying(w)' PROVE Holds(req[w])'
      OBVIOUS
    <3>2. UNCHANGED <<stage, state>> /\ Holds(req'[w])
      BY <1>4, <3>1, CarryEffect
    <3> QED
      BY <3>2 DEF Holds
  <2>3. \A u \in Workers : Carrying(u)' => Holds(req[u])'
    BY <1>2, <2>1, <2>2
  <2>4. ASSUME NEW v \in Workers \ {w}, Carrying(v)', Carrying(w)'
        PROVE  req'[v].locked \cap req'[w].locked = {}
    <3>1. Carrying(v) /\ req'[v].locked = req[v].locked
      BY <2>1, <2>4
    <3>2. \A b \in req'[w].locked : BatchLocked(b) => Carrying(w) /\ b \in req[w].locked
      BY <1>4, <2>4, CarryEffect
    <3>3. \A b \in req[v].locked : BatchLocked(b)
      BY <3>1 DEF BatchLocked
    <3>4. Carrying(w) => req[v].locked \cap req[w].locked = {}
      BY <3>1 DEF LocksHeld
    <3> QED
      BY <3>1, <3>2, <3>3, <3>4
  <2>5. ASSUME NEW v \in Workers \ {w}, NEW u \in Workers \ {w, v}, Carrying(v)', Carrying(u)'
        PROVE  req'[v].locked \cap req'[u].locked = {}
    BY <2>1, <2>5 DEF LocksHeld
  <2>6. \A u \in Workers : Carrying(u)' => Alone(u)
    BY <2>4, <2>5
  <2> QED
    BY <1>3, <2>3, <2>6
<1>5. CASE \A w \in Workers : ~Thread(w)
  <2>1. req' = req
    BY <1>5, OtherEffect
  <2>2. \A u \in Workers : Carrying(u)' => Holds(req[u])' /\ Alone(u)
    BY <1>2, <2>1 DEF LocksHeld
  <2> QED
    BY <1>3, <2>2
<1> QED
  BY <1>4, <1>5
-----------------------------------------------------------------------------
(* Theorems *)

(* The invariant holds in every state: of row locks, of who carries which
   command, and of what has been carried out. *)
THEOREM Inductive == Spec => []IInv
<1>1. Init => IInv
  <2> SUFFICES ASSUME Init PROVE IInv
    OBVIOUS
  <2>1. TypeOK
    BY VoiceBoundAssumption DEF Init, TypeOK, Requests, NoReq, Closing
  <2>2. \A w \in Workers : req[w].op = "idle"
    BY DEF Init, NoReq
  <2> QED
    BY <2>1, <2>2 DEF Init, IInv, OneHolder, TextsOnly, NotTwice, Named, LocksHeld, LeadStands,
       Busy, Carrying
<1>2. IInv /\ [Next]_vars => IInv'
  <2> SUFFICES ASSUME IInv, [Next]_vars PROVE IInv'
    OBVIOUS
  <2>1. TypeOK'
    BY TypeStep DEF IInv
  <2> QED
    BY <2>1, HolderStep, OnceStep, RowsStep DEF IInv
<1> QED
  BY <1>1, <1>2, PTL DEF Spec

(* Rows and requests keep the values the code gives them; no command is FAILED. *)
THEOREM TypeCorrect == Spec => []TypeOK
<1>1. IInv => TypeOK
  BY DEF IInv
<1> QED
  BY <1>1, Inductive, PTL

(* A recording is carried out at most once, whatever is repeated or confirmed
   beside it. *)
THEOREM CarriedOutOnce == Spec => []HeardOnce
<1>1. IInv => HeardOnce
  BY DEF IInv, NotTwice, HeardOnce
<1> QED
  BY <1>1, Inductive, PTL

(* Whose step carries a command out. *)
LEMMA OnlyExecute ==
  ASSUME IInv, [Next]_vars, NEW v \in Commands, executions'[v] # executions[v]
  PROVE  \E w \in Workers : Execute(w) /\ req[w].cmd = v
<1>1. ASSUME NEW w \in Workers, Execute(w) PROVE req[w].cmd = v
  BY <1>1 DEF Execute, IInv, TypeOK
<1> QED
  BY <1>1 DEF Next, Thread, Hear, Tell, Confirm, Understand, ConfirmText, TakeLead, TakeExtra,
     Refuse, Mark, Abort, Reject, Elsewhere, vars

(* A command moves its first batch only from the stage it was heard on. *)
THEOREM MovesFromWhereHeard == Spec => MovedAsHeard
<1>1. IInv /\ [Next]_vars =>
        [\A v \in Commands : executions'[v] # executions[v] => from'[v] = stage[Lead[v]]]_vars
  <2> SUFFICES ASSUME IInv, [Next]_vars, NEW v \in Commands, executions'[v] # executions[v]
               PROVE  from'[v] = stage[Lead[v]]
    OBVIOUS
  <2>1. PICK w \in Workers : Execute(w) /\ req[w].cmd = v
    BY OnlyExecute
  <2>2. Carrying(w) /\ req[w].locked # {}
    BY <2>1 DEF Execute, Carrying
  <2>3. req[w].from \in {NoStage, stage[Lead[v]]}
    BY <2>1, <2>2 DEF IInv, LeadStands
  <2> QED
    BY <2>1, <2>3 DEF Execute, Write, IInv, TypeOK
<1> QED
  BY <1>1, Inductive, PTL DEF Spec, MovedAsHeard

(* A command is EXECUTED together with the arrival of all it names, except a
   first batch that was closed in the meantime. *)
THEOREM CarriedOutWhole == Spec => ExecutedIsWhole
<1>1. IInv /\ [Next]_vars =>
        [\A v \in Commands : executions'[v] # executions[v] =>
           /\ \A b \in DOMAIN Also[v] : stage'[b] = Also[v][b]
           /\ stage'[Lead[v]] = To[v] \/ state[Lead[v]] = "closed"]_vars
  <2> SUFFICES ASSUME IInv, [Next]_vars, NEW v \in Commands, executions'[v] # executions[v]
               PROVE  /\ \A b \in DOMAIN Also[v] : stage'[b] = Also[v][b]
                      /\ stage'[Lead[v]] = To[v] \/ state[Lead[v]] = "closed"
    OBVIOUS
  <2>1. PICK w \in Workers : Execute(w) /\ req[w].cmd = v
    BY OnlyExecute
  <2>2. Carrying(w) /\ req[w].locked # {}
    BY <2>1 DEF Execute, Carrying
  <2>3. Lead[v] \in req[w].moving \/ state[Lead[v]] = "closed"
    BY <2>1, <2>2 DEF IInv, LeadStands
  <2>4. req[w].extra = DOMAIN Also[v]
    BY <2>1 DEF Execute, Whole
  <2>5. /\ DOMAIN Also[v] \subseteq Batches \ {Lead[v]}
        /\ Lead[v] \in Batches
    BY CommandAssumption
  <2>6. \A b \in req[w].moving \cup req[w].extra :
          b \in Batches => stage'[b] = IF b \in req[w].extra THEN Also[v][b] ELSE To[v]
    BY <2>1 DEF Execute
  <2> QED
    BY <2>3, <2>4, <2>5, <2>6
<1> QED
  BY <1>1, Inductive, PTL DEF Spec, ExecutedIsWhole
=============================================================================
