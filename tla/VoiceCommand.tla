---------------------------- MODULE VoiceCommand ----------------------------
(***************************************************************************)
(* Spoken commands: a transcript becomes a VoiceCommand, which carries its *)
(* batches to the stages it names.  A recording arrives as a callback of   *)
(* the analytics service, which may repeat it; a text of PushToTalk        *)
(* arrives once, under its client_request_id.  Operators confirm and       *)
(* reject commands, and the board goes on moving batches meanwhile.        *)
(*                                                                         *)
(* PostgreSQL at READ COMMITTED.  A row of a select_related is locked with *)
(* the row it belongs to, so both the callback and confirm_voice_command   *)
(* hold the row of the voice message.  Commands to move batches are        *)
(* modelled; spoken pauses, problems and comments, and devices, are not.   *)
(***************************************************************************)
EXTENDS Naturals

CONSTANTS
  Batches,
  CardOf,     \* the kanban card of a batch: one for all rows of a grouped order
  Stages,
  Done,       \* the stage that completes a batch
  NoStage,
  Commands,   \* voice messages, each with its command
  Texts,      \* those that PushToTalk sends as text
  Lead,       \* the batch a command names first
  To,         \* and the stage it sends it to
  Also,       \* batches named after it in the same breath, with their stages
  Workers,    \* request threads
  MaxPosts,   \* bound: callbacks sent for one recording
  MaxBoard,   \* bound: things that happen on the board by other hands
  MayAbort    \* may a thread die, or lose a deadlock, with its transaction open

Closing == {"executed", "rejected"}

ASSUME CommandAssumption ==
  /\ Texts \subseteq Commands
  /\ Lead \in [Commands -> Batches] /\ To \in [Commands -> Stages]
  /\ \A v \in Commands : /\ DOMAIN Also[v] \subseteq Batches \ {Lead[v]}
                         /\ \A b \in DOMAIN Also[v] : Also[v][b] \in Stages
ASSUME StageAssumption == Stages \subseteq Nat /\ NoStage \notin Stages
ASSUME VoiceBoundAssumption == MaxPosts \in Nat /\ MaxBoard \in Nat /\ MayAbort \in BOOLEAN

VARIABLES
  stage,      \* ProductionBatch.current_stage
  state,      \* ProductionBatch.status: "open" moves, "held" is paused, "closed"
  status,     \* VoiceCommand.status, "none" before the row exists
  from,       \* extracted_data.from_stage: where the lead stood when it was heard
  known,      \* the batches of extracted_data.moves that were found
  req,        \* what each request thread is in the middle of
  posts,      \* callbacks started for a recording
  board,      \* things that happened on the board by other hands
  executions  \* history: how often a command was carried out

commands == <<status, from, known>>
bounds == <<posts, board>>
vars == <<stage, state, commands, req, bounds, executions>>

NoReq == [op |-> "idle"]
Requests ==
  {NoReq}
  \cup [op : {"understand"}, cmd : Commands]
  \cup [op : {"text", "mark"}, cmd : Commands, heard : Stages \cup {NoStage}]
  \cup [op : {"carry"}, cmd : Commands, via : {"callback", "person", "text"},
        from : Stages \cup {NoStage}, known : SUBSET Batches,
        locked : SUBSET Batches, moving : SUBSET Batches, extra : SUBSET Batches]

Begin(w, r) == req' = [req EXCEPT ![w] = r]
End(w) == Begin(w, NoReq)

-----------------------------------------------------------------------------
(* Row locks, read off the requests in flight *)

VoiceLocked(v) == \E w \in Workers : req[w].op \in {"understand", "carry"} /\ req[w].cmd = v
CommandLocked(v) == \E w \in Workers : req[w].op = "carry" /\ req[w].cmd = v
BatchLocked(b) == \E w \in Workers : req[w].op = "carry" /\ b \in req[w].locked

-----------------------------------------------------------------------------
(* create_voice_command: what a transcript is taken to mean right now.  Only
   batches in work are found by the number on their card. *)

HeardFrom(v) == IF state[Lead[v]] # "closed" THEN stage[Lead[v]] ELSE NoStage
HeardAlso(v) == {b \in DOMAIN Also[v] : state[b] # "closed"}

Write(v, s, f, k) ==
  /\ status' = [status EXCEPT ![v] = s]
  /\ from' = [from EXCEPT ![v] = f]
  /\ known' = [known EXCEPT ![v] = k]

Carry(v, via, f, k) ==
  [op |-> "carry", cmd |-> v, via |-> via, from |-> f, known |-> k,
   locked |-> {}, moving |-> {}, extra |-> {}]

(* The callback locks the voice message and looks at the command there may be. *)
Hear(w, v) ==
  /\ req[w] = NoReq
  /\ v \notin Texts
  /\ posts[v] < MaxPosts
  /\ ~VoiceLocked(v)
  /\ posts' = [posts EXCEPT ![v] = @ + 1]
  /\ IF status[v] \in Closing THEN UNCHANGED req
                              ELSE Begin(w, [op |-> "understand", cmd |-> v])
  /\ UNCHANGED <<stage, state, commands, board, executions>>

(* It writes the command as it understands it now.  One recognised with enough
   confidence it carries out in the same transaction. *)
Understand(w) ==
  /\ req[w].op = "understand"
  /\ LET v == req[w].cmd IN
       \/ Write(v, "needs_review", HeardFrom(v), HeardAlso(v)) /\ End(w)
       \/ /\ Begin(w, Carry(v, "callback", HeardFrom(v), HeardAlso(v)))
          /\ UNCHANGED commands
  /\ UNCHANGED <<stage, state, bounds, executions>>

(* PushToTalk: message and command are committed before anything is carried out. *)
Tell(w, v) ==
  /\ req[w] = NoReq
  /\ v \in Texts
  /\ status[v] = "none"
  /\ \/ /\ Write(v, "detected", HeardFrom(v), HeardAlso(v))
        /\ Begin(w, [op |-> "text", cmd |-> v, heard |-> HeardFrom(v)])
     \/ /\ Write(v, "needs_review", HeardFrom(v), HeardAlso(v))
        /\ UNCHANGED req
  /\ UNCHANGED <<stage, state, bounds, executions>>

-----------------------------------------------------------------------------
(* confirm_voice_command *)

(* Fault: the row of the voice message is not locked with the command. *)
LocksCommandOnly(v) == ~CommandLocked(v)
LocksFree(v) == ~VoiceLocked(v) /\ ~CommandLocked(v)

(* An operator presses "confirm". *)
Confirm(w, v) ==
  /\ req[w] = NoReq
  /\ status[v] \notin Closing \cup {"none"}
  /\ LocksFree(v)
  /\ Begin(w, Carry(v, "person", from[v], known[v]))
  /\ UNCHANGED <<stage, state, commands, bounds, executions>>

(* The PushToTalk request goes on to carry out what it committed. *)
ConfirmText(w) ==
  /\ req[w].op = "text"
  /\ LET v == req[w].cmd IN
     /\ LocksFree(v)
     /\ Begin(w, IF status[v] \in Closing
                 THEN [op |-> "mark", cmd |-> v, heard |-> req[w].heard]
                 ELSE Carry(v, "text", from[v], known[v]))
  /\ UNCHANGED <<stage, state, commands, bounds, executions>>

(* A batch whose technical number is on record is found whatever became of it. *)
Found(r) == r.from # NoStage \/ state[Lead[r.cmd]] # "closed"

(* The rows that travel with the lead: of a shared card, those still in work. *)
Block(b) ==
  IF \E c \in Batches \ {b} : CardOf[c] = CardOf[b]
  THEN {c \in Batches : CardOf[c] = CardOf[b] /\ stage[c] = stage[b] /\ state[c] # "closed"}
  ELSE {b}

StandsWhereHeardUnlocked(r) == TRUE
StandsWhereHeard(r) == r.from \in {NoStage, stage[Lead[r.cmd]]}

LeadMovable(r) ==
  /\ StandsWhereHeard(r)
  /\ To[r.cmd] # stage[Lead[r.cmd]] \/ Block(Lead[r.cmd]) = {}
  /\ \A b \in Block(Lead[r.cmd]) : state[b] = "open"

(* The lead and its block are selected FOR UPDATE and moved. *)
TakeLead(w) ==
  LET r == req[w]
      rows == Block(Lead[r.cmd]) \cup {Lead[r.cmd]}
  IN
  /\ r.op = "carry" /\ r.locked = {}
  /\ Found(r)
  /\ \A b \in rows : ~BatchLocked(b)
  /\ LeadMovable(r)
  /\ Begin(w, [r EXCEPT !.locked = rows, !.moving = Block(Lead[r.cmd])])
  /\ UNCHANGED <<stage, state, commands, bounds, executions>>

(* Another batch of the same breath, as this transaction sees it. *)
ExtraMovable(r, b) ==
  IF b \in r.moving THEN To[r.cmd] \notin {Done, Also[r.cmd][b]}
                    ELSE state[b] = "open" /\ stage[b] # Also[r.cmd][b]

Unlocked(w, b) == b \in req[w].locked \/ ~BatchLocked(b)

TakeExtra(w, b) ==
  LET r == req[w] IN
  /\ r.op = "carry" /\ r.locked # {}
  /\ b \in r.known \ r.extra
  /\ Unlocked(w, b)
  /\ ExtraMovable(r, b)
  /\ Begin(w, [r EXCEPT !.locked = @ \cup {b}, !.extra = @ \cup {b}])
  /\ UNCHANGED <<stage, state, commands, bounds, executions>>

RefusedLead(w) ==
  LET r == req[w] IN
  /\ r.locked = {}
  /\ \/ ~Found(r)
     \/ /\ \A b \in Block(Lead[r.cmd]) \cup {Lead[r.cmd]} : ~BatchLocked(b)
        /\ ~LeadMovable(r)
RefusedExtra(w) ==
  LET r == req[w] IN
  /\ r.locked # {}
  /\ \E b \in DOMAIN Also[r.cmd] \ r.extra :
       b \notin r.known \/ (Unlocked(w, b) /\ ~ExtraMovable(r, b))

(* One refusal takes back everything.  The callback and PushToTalk then leave
   the command to a person, the former in its transaction, the latter after it. *)
Refuse(w) ==
  LET r == req[w] IN
  /\ r.op = "carry"
  /\ RefusedLead(w) \/ RefusedExtra(w)
  /\ IF r.via = "callback" THEN Write(r.cmd, "needs_review", r.from, r.known)
                           ELSE UNCHANGED commands
  /\ IF r.via = "text" THEN Begin(w, [op |-> "mark", cmd |-> r.cmd, heard |-> r.from])
                      ELSE End(w)
  /\ UNCHANGED <<stage, state, bounds, executions>>

(* _mark_needs_review: an UPDATE that does not look at what it overwrites. *)
Mark(w) ==
  LET r == req[w] IN
  /\ r.op = "mark"
  /\ ~CommandLocked(r.cmd)
  /\ Write(r.cmd, "needs_review", r.heard, known[r.cmd])
  /\ End(w)
  /\ UNCHANGED <<stage, state, bounds, executions>>

WholeAnyway(r) == TRUE
Whole(r) == r.extra = DOMAIN Also[r.cmd]

(* Everything it names is moved: the command is EXECUTED and all is committed. *)
Execute(w) ==
  LET r == req[w]
      v == r.cmd
      target(b) == IF b \in r.extra THEN Also[v][b] ELSE To[v]
      moved == r.moving \cup r.extra
  IN
  /\ r.op = "carry" /\ r.locked # {}
  /\ Whole(r)
  /\ stage' = [b \in Batches |-> IF b \in moved THEN target(b) ELSE stage[b]]
  /\ state' = [b \in Batches |-> IF b \in moved /\ target(b) = Done THEN "closed" ELSE state[b]]
  /\ Write(v, "executed", IF r.from = NoStage THEN stage[Lead[v]] ELSE r.from, r.known)
  /\ executions' = [executions EXCEPT ![v] = @ + 1]
  /\ End(w)
  /\ UNCHANGED bounds

-----------------------------------------------------------------------------
(* The thread dies, or PostgreSQL ends a deadlock with it: all is rolled back. *)
Abort(w) ==
  /\ MayAbort
  /\ req[w] # NoReq
  /\ End(w)
  /\ UNCHANGED <<stage, state, commands, bounds, executions>>

(* reject_voice_command: an UPDATE that waits for the row, not for its status. *)
Reject(v) ==
  /\ status[v] # "none"
  /\ ~CommandLocked(v)
  /\ status' = [status EXCEPT ![v] = "rejected"]
  /\ UNCHANGED <<stage, state, from, known, req, bounds, executions>>

(* The board, by other hands: moves, pauses, resumptions, cancellations. *)
Elsewhere(b) ==
  /\ board < MaxBoard
  /\ ~BatchLocked(b)
  /\ \/ /\ state[b] = "open"
        /\ \E to \in Stages \ {stage[b]} :
             /\ stage' = [stage EXCEPT ![b] = to]
             /\ state' = [state EXCEPT ![b] = IF to = Done THEN "closed" ELSE "open"]
     \/ /\ \E s \in {"open", "held", "closed"} \ {state[b]} : state' = [state EXCEPT ![b] = s]
        /\ UNCHANGED stage
  /\ board' = board + 1
  /\ UNCHANGED <<commands, req, posts, executions>>

Init ==
  /\ stage \in [Batches -> Stages \ {Done}]
  /\ state = [b \in Batches |-> "open"]
  /\ status = [v \in Commands |-> "none"]
  /\ from = [v \in Commands |-> NoStage]
  /\ known = [v \in Commands |-> {}]
  /\ req = [w \in Workers |-> NoReq]
  /\ posts = [v \in Commands |-> 0]
  /\ board = 0
  /\ executions = [v \in Commands |-> 0]

Thread(w) ==
  \/ \E v \in Commands : Hear(w, v) \/ Tell(w, v) \/ Confirm(w, v)
  \/ Understand(w)
  \/ ConfirmText(w)
  \/ TakeLead(w)
  \/ \E b \in Batches : TakeExtra(w, b)
  \/ Refuse(w)
  \/ Mark(w)
  \/ Execute(w)
  \/ Abort(w)

Next ==
  \/ \E w \in Workers : Thread(w)
  \/ \E v \in Commands : Reject(v)
  \/ \E b \in Batches : Elsewhere(b)

Spec == Init /\ [][Next]_vars

-----------------------------------------------------------------------------
(* Properties *)

(* Rows and requests in flight have the values the code gives them.  FAILED is
   not among the statuses: the Http404 raised after it takes it back. *)
TypeOK ==
  /\ stage \in [Batches -> Stages]
  /\ state \in [Batches -> {"open", "held", "closed"}]
  /\ status \in [Commands -> {"none", "detected", "needs_review"} \cup Closing]
  /\ from \in [Commands -> Stages \cup {NoStage}]
  /\ known \in [Commands -> SUBSET Batches]
  /\ req \in [Workers -> Requests]
  /\ posts \in [Commands -> 0 .. MaxPosts]
  /\ board \in 0 .. MaxBoard
  /\ executions \in [Commands -> Nat]

(* A recording is carried out at most once, however often its callback is
   repeated and whoever confirms or rejects it meanwhile: the callback and
   confirm_voice_command exclude each other on the row of the voice message. *)
HeardOnce == \A v \in Commands \ Texts : executions[v] <= 1

(* A command moves its first batch only from the stage it was heard on, however
   the batch travelled between the recording and the confirmation: the check of
   confirm_voice_command is made under the lock of the batch. *)
MovedAsHeard ==
  [][\A v \in Commands :
       executions'[v] # executions[v] => from'[v] = stage[Lead[v]]]_vars

(* A command becomes EXECUTED together with the arrival of every batch it names,
   except a first batch on a shared card that was closed meanwhile: such a row
   drops out of its own block and the rest is carried out without it. *)
ExecutedIsWhole ==
  [][\A v \in Commands : executions'[v] # executions[v] =>
       /\ \A b \in DOMAIN Also[v] : stage'[b] = Also[v][b]
       /\ stage'[Lead[v]] = To[v] \/ state[Lead[v]] = "closed"]_vars

=============================================================================
