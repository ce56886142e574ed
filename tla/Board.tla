------------------------------- MODULE Board -------------------------------
(***************************************************************************)
(* The production board: batches travel over the stages, stand on devices  *)
(* (production units) and carry their order's status along.  Requests are  *)
(* threads of the web workers over PostgreSQL at READ COMMITTED, without   *)
(* ATOMIC_REQUESTS: what a view read before a transaction may be stale     *)
(* inside it.  A request in flight is req[w]; the row locks it holds are   *)
(* read off it.                                                            *)
(*                                                                         *)
(* move_batch selects the batch FOR UPDATE together with its order (every  *)
(* row of a select_related is locked), so a move holds both rows from its  *)
(* query to its commit.  It locks the row of the stage too; leaving that   *)
(* out only adds interleavings.                                            *)
(***************************************************************************)
EXTENDS Naturals

CONSTANTS
  Batches,    \* batches by primary key
  Orders,
  OrderOf,    \* the order of a batch
  Grouped,    \* the orders shown as one card (kanban_grouped)
  LastStage,  \* stage 1 is "queue", stage LastStage is "done"
  Units,
  StageOf,    \* the stage a device belongs to
  NoUnit,
  Workers,    \* request threads
  MaxRequests \* bound: requests started after the first confirmation

Stages == 1 .. LastStage
Active == {"QUEUED", "IN_PROGRESS", "PAUSED", "PROBLEM"}
Closed == {"COMPLETED", "CANCELLED"}
BatchStatus == Active \cup Closed \cup {"ABSENT"}
OrderStatus == {"DRAFT", "QUEUED", "IN_PRODUCTION", "READY"}

ASSUME BatchesAssumption ==
  Batches \subseteq Nat /\ OrderOf \in [Batches -> Orders] /\ Grouped \subseteq Orders
ASSUME StagesAssumption ==
  LastStage \in Nat \ {0, 1} /\ StageOf \in [Units -> Stages] /\ NoUnit \notin Units
ASSUME BoundAssumption == MaxRequests \in Nat

VARIABLES
  stage,        \* ProductionBatch.current_stage, by its sequence
  status,       \* ProductionBatch.status, "ABSENT" before confirm_order
  unit,         \* ProductionBatch.production_unit
  blocked,      \* batches with an open critical nonconformity
  orderStatus,  \* ProductionOrder.status
  req,          \* what each request thread is in the middle of
  revived,      \* history: batches a late write took out of COMPLETED or CANCELLED
  requests        \* history: requests started so far

rows == <<stage, status, unit, blocked, orderStatus>>
vars == <<stage, status, unit, blocked, orderStatus, req, revived, requests>>

Of(o) == {b \in Batches : OrderOf[b] = o}
Exists(b) == status[b] # "ABSENT"

-----------------------------------------------------------------------------
(* Requests in flight and the rows they lock *)

NoReq == [op |-> "idle"]
Requests ==
  {NoReq}
  \cup [op : {"move"}, batches : SUBSET Batches, order : Orders, to : Stages,
        unit : Units \cup {NoUnit}, block : SUBSET Batches, verdict : OrderStatus]
  \cup [op : {"assign"}, batch : Batches, stage : Stages,
        seen : Units \cup {NoUnit}, unit : Units \cup {NoUnit}]
  \cup [op : {"place"}, block : SUBSET Batches, unit : Units \cup {NoUnit}]
  \cup [op : {"write"}, batch : Batches, status : {"PAUSED", "IN_PROGRESS", "CANCELLED"}]

BatchLocked(b) == \E w \in Workers : req[w].op = "move" /\ b \in req[w].batches

OrderUnlocked(o) == FALSE
OrderLocked(o) == \E w \in Workers : req[w].op = "move" /\ req[w].order = o

UnitUnlocked(u) == FALSE
UnitLocked(u) ==
  u \in Units /\ \E w \in Workers : req[w].op \in {"move", "place"} /\ req[w].unit = u

Counted == requests < MaxRequests /\ requests' = requests + 1
Starts(w) == req[w] = NoReq /\ Counted

(* A late write that makes a closed batch active again. *)
Reviving(b, new) == IF status[b] \in Closed /\ new \in Active THEN {b} ELSE {}

-----------------------------------------------------------------------------
(* unit_occupant: a batch of another order that stands on u and still holds it. *)
Occupied(u, o) ==
  u \in Units /\ \E b \in Batches \ Of(o) : unit[b] = u /\ status[b] \in Active

(* block_batches: the rows of the card of b on stage s. *)
Block(b, s) ==
  IF OrderOf[b] \in Grouped
  THEN {c \in Of(OrderOf[b]) : stage[c] = s /\ status[c] \in Active}
  ELSE {b}

(* `previous` in assign_batch_to_unit: the device of the first row that has one. *)
Previous(block, on) ==
  LET placed == {b \in block : on[b] # NoUnit}
      first  == CHOOSE b \in placed : \A c \in placed : b <= c
  IN  IF placed = {} THEN NoUnit ELSE on[first]

(* Rows the assignment will write: none when the card already stands on u. *)
ToPlace(block, on, u) == IF u # NoUnit /\ Previous(block, on) = u THEN {} ELSE block

-----------------------------------------------------------------------------
(* move_batch *)

Movable(b, to) ==
  /\ status[b] \notin {"PAUSED", "ABSENT"} \cup Closed
  /\ to # stage[b]
  /\ b \in blocked => status[b] # "PROBLEM" /\ to < stage[b]

WaitsForNothing(moving, o) == FALSE
Waiting(moving, o) ==
  \E c \in Of(o) \ moving : status[c] \notin {"ABSENT", "CANCELLED"} /\ stage[c] # LastStage

Verdict(moving, o, to) ==
  IF to = LastStage /\ ~Waiting(moving, o) THEN "READY" ELSE "IN_PRODUCTION"

StatusOn(to) ==
  IF to = LastStage THEN "COMPLETED" ELSE IF to = 1 THEN "QUEUED" ELSE "IN_PROGRESS"

(* What one request moves in one transaction: a batch (move_batch_view, the API),
   or a whole card (move_order_group_view), whose rows were listed before the
   transaction and may have parted since. *)
Movements(o) ==
  IF o \in Grouped THEN (SUBSET Of(o)) \ {{}} ELSE {{b} : b \in Of(o)}

(* The block the card joins on stage `to`, as the transaction that moves
   `moving` there sees it, with the devices the moved rows no longer have. *)
MoveLock(w, o, moving, to, u) ==
  LET joined == IF to = LastStage THEN {}
                ELSE moving \cup {c \in Of(o) : stage[c] = to /\ status[c] \in Active}
      on == [b \in Batches |-> IF b \in moving THEN NoUnit ELSE unit[b]]
  IN  /\ Starts(w)
      /\ ~OrderLocked(o)
      /\ \A b \in moving : ~BatchLocked(b) /\ Movable(b, to)
      /\ u # NoUnit =>
           /\ o \in Grouped /\ StageOf[u] = to
           /\ ~UnitLocked(u) /\ ~Occupied(u, o)
      /\ req' = [req EXCEPT ![w] =
                   [op |-> "move", batches |-> moving, order |-> o, to |-> to, unit |-> u,
                    block |-> IF u = NoUnit THEN {} ELSE ToPlace(joined, on, u),
                    verdict |-> Verdict(moving, o, to)]]
      /\ UNCHANGED <<rows, revived>>

(* The commit.  A single card dropped on a device is assigned next, in a
   transaction of its own, from the batch move_batch returned. *)
MoveCommit(w) ==
  /\ req[w].op = "move"
  /\ LET r == req[w] IN
     /\ stage' = [b \in Batches |-> IF b \in r.batches THEN r.to ELSE stage[b]]
     /\ status' = [b \in Batches |-> IF b \in r.batches THEN StatusOn(r.to) ELSE status[b]]
     /\ unit' = [b \in Batches |-> IF b \in r.block THEN r.unit
                                   ELSE IF b \in r.batches THEN NoUnit ELSE unit[b]]
     /\ orderStatus' = [orderStatus EXCEPT ![r.order] = r.verdict]
     /\ \/ req' = [req EXCEPT ![w] = NoReq]
        \/ \E b \in Batches, u \in Units :
             /\ r.batches = {b} /\ r.unit = NoUnit /\ StageOf[u] = r.to
             /\ req' = [req EXCEPT ![w] =
                          [op |-> "assign", batch |-> b, stage |-> r.to,
                           seen |-> NoUnit, unit |-> u]]
  /\ UNCHANGED <<blocked, revived, requests>>

-----------------------------------------------------------------------------
(* assign_only and assign_batch_to_unit *)

(* The view loads the batch and checks the device against the stage it read. *)
AssignRead(w, b, u) ==
  /\ Starts(w)
  /\ Exists(b)
  /\ u # NoUnit => StageOf[u] = stage[b]
  /\ req' = [req EXCEPT ![w] = [op |-> "assign", batch |-> b, stage |-> stage[b],
                                seen |-> unit[b], unit |-> u]]
  /\ UNCHANGED <<rows, revived>>

(* The transaction: lock the device's row, look for an occupant, read the block.
   An ungrouped batch answers for itself with the copy the view loaded. *)
AssignLock(w) ==
  /\ req[w].op = "assign"
  /\ ~UnitLocked(req[w].unit)
  /\ LET r == req[w]
         o == OrderOf[r.batch]
         on == IF o \in Grouped THEN unit ELSE [unit EXCEPT ![r.batch] = r.seen]
         block == ToPlace(Block(r.batch, r.stage), on, r.unit)
     IN  req' = [req EXCEPT ![w] =
                   IF Occupied(r.unit, o) \/ block = {} THEN NoReq
                   ELSE [op |-> "place", block |-> block, unit |-> r.unit]]
  /\ UNCHANGED <<rows, revived, requests>>

(* The rows are saved and the transaction commits; a row a move holds is waited for. *)
AssignCommit(w) ==
  /\ req[w].op = "place"
  /\ \A b \in req[w].block : ~BatchLocked(b)
  /\ unit' = [b \in Batches |-> IF b \in req[w].block THEN req[w].unit ELSE unit[b]]
  /\ req' = [req EXCEPT ![w] = NoReq]
  /\ UNCHANGED <<stage, status, blocked, orderStatus, revived, requests>>

-----------------------------------------------------------------------------
(* pause_batch, resume_batch and the cancel button: no lock, no transaction; the
   check is made on the copy the view loaded, the write names the status alone. *)

MayBecome(b, new) ==
  CASE new = "PAUSED"      -> status[b] \notin {"PAUSED"} \cup Closed
    [] new = "IN_PROGRESS" -> status[b] = "PAUSED"
    [] new = "CANCELLED"   -> TRUE

StatusRead(w, b, new) ==
  /\ Starts(w)
  /\ Exists(b)
  /\ MayBecome(b, new)
  /\ req' = [req EXCEPT ![w] = [op |-> "write", batch |-> b, status |-> new]]
  /\ UNCHANGED <<rows, revived>>

StatusWrite(w) ==
  /\ req[w].op = "write"
  /\ LET b == req[w].batch
         new == req[w].status
     IN  /\ ~BatchLocked(b)
         /\ status' = [status EXCEPT ![b] = new]
         /\ revived' = revived \cup Reviving(b, new)
  /\ req' = [req EXCEPT ![w] = NoReq]
  /\ UNCHANGED <<stage, unit, blocked, orderStatus, requests>>

-----------------------------------------------------------------------------
(* Whole transactions under the order's row *)

(* confirm_order: no check of the order's status, a batch for every item without one. *)
Confirm(o) ==
  LET new == {b \in Of(o) : ~Exists(b)} IN
  /\ ~OrderLocked(o)
  /\ IF orderStatus[o] = "DRAFT" THEN UNCHANGED requests ELSE Counted
  /\ orderStatus' = [orderStatus EXCEPT ![o] = "QUEUED"]
  /\ status' = [b \in Batches |-> IF b \in new THEN "QUEUED" ELSE status[b]]
  /\ UNCHANGED <<stage, unit, blocked, req, revived>>

(* create_problem_from_voice, inside the transaction of confirm_voice_command. *)
ReportProblem(b) ==
  /\ Counted
  /\ Exists(b)
  /\ ~BatchLocked(b) /\ ~OrderLocked(OrderOf[b])
  /\ status' = [status EXCEPT ![b] = "PROBLEM"]
  /\ blocked' = blocked \cup {b}
  /\ revived' = revived \cup Reviving(b, "PROBLEM")
  /\ UNCHANGED <<stage, unit, orderStatus, req>>

(* The nonconformities of b are closed; its status stays what it was. *)
CloseProblem(b) ==
  /\ b \in blocked
  /\ blocked' = blocked \ {b}
  /\ UNCHANGED <<stage, status, unit, orderStatus, req, revived, requests>>

-----------------------------------------------------------------------------
Init ==
  /\ stage = [b \in Batches |-> 1]
  /\ status = [b \in Batches |-> "ABSENT"]
  /\ unit = [b \in Batches |-> NoUnit]
  /\ blocked = {}
  /\ orderStatus = [o \in Orders |-> "DRAFT"]
  /\ req = [w \in Workers |-> NoReq]
  /\ revived = {}
  /\ requests = 0

Request(w) ==
  \/ \E o \in Orders, to \in Stages, u \in Units \cup {NoUnit} :
       \E moving \in Movements(o) : MoveLock(w, o, moving, to, u)
  \/ MoveCommit(w)
  \/ \E b \in Batches, u \in Units \cup {NoUnit} : AssignRead(w, b, u)
  \/ AssignLock(w)
  \/ AssignCommit(w)
  \/ \E b \in Batches, new \in {"PAUSED", "IN_PROGRESS", "CANCELLED"} : StatusRead(w, b, new)
  \/ StatusWrite(w)

Next ==
  \/ \E w \in Workers : Request(w)
  \/ \E o \in Orders : Confirm(o)
  \/ \E b \in Batches : ReportProblem(b) \/ CloseProblem(b)

Spec == Init /\ [][Next]_vars

-----------------------------------------------------------------------------
(* Properties *)

(* Every row and every request in flight has the values the code gives it. *)
TypeOK ==
  /\ stage \in [Batches -> Stages]
  /\ status \in [Batches -> BatchStatus]
  /\ unit \in [Batches -> Units \cup {NoUnit}]
  /\ blocked \subseteq Batches
  /\ orderStatus \in [Orders -> OrderStatus]
  /\ req \in [Workers -> Requests]
  /\ revived \subseteq Batches
  /\ requests \in 0 .. MaxRequests

(* Two operators reaching for one oven never both get it: batches of different
   orders share a device only when one of them was closed and a late pause,
   resume or problem report brought it back (assign_batch_to_unit, whose lock on
   the device's row closes the race). *)
UnitsAreNotShared ==
  \A b, c \in Batches :
    /\ OrderOf[b] # OrderOf[c]
    /\ unit[b] # NoUnit /\ unit[b] = unit[c]
    /\ status[b] \in Active /\ status[c] \in Active
    => b \in revived \/ c \in revived

(* A READY order has nothing left to make: each of its batches reached the last
   stage or was cancelled, unless it came back later (the `waiting` query of
   move_batch against moves, confirmations and status writes of other threads). *)
ReadyMeansFinished ==
  \A o \in Orders : orderStatus[o] = "READY" =>
    \A b \in Of(o) \ revived :
      status[b] \in {"ABSENT", "CANCELLED"} \/ stage[b] = LastStage

(* The move that brings the last batch of an order to the last stage makes the
   order READY, however the moves of its batches interleave: two moves of one
   order never both count the other one as unfinished. *)
LastBatchFinishesOrder ==
  [][\A o \in Orders :
       /\ \E b \in Of(o) : stage[b] # LastStage
       /\ \A b \in Of(o) : stage'[b] = LastStage /\ status'[b] \notin {"ABSENT", "CANCELLED"}
       => orderStatus'[o] = "READY"]_vars

(* A finished batch stays on the last stage, unless a late write had taken it out
   of its final status first. *)
FinishedStays ==
  [][\A b \in Batches : stage[b] = LastStage =>
       stage'[b] = LastStage \/ b \in revived]_vars

=============================================================================
