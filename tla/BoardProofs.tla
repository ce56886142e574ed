---------------------------- MODULE BoardProofs ----------------------------
(***************************************************************************)
(* Proofs about Board, for every set of batches, orders, devices and       *)
(* request threads.  What makes the properties inductive is what a request *)
(* in flight may rely on: the order it locked is nobody else's, the device *)
(* it locked has no other occupant, and the verdict it computed before its *)
(* commit still holds at the commit.                                       *)
(*                                                                         *)
(* Below them, the proof about BoardScreen, for every set of cards, lanes  *)
(* and pages under way.  Until something goes wrong there is always one    *)
(* who will bring the page up to date, and as long as the board has not    *)
(* changed since the page was made, the page shows it but for what is      *)
(* being moved, and that knows its way back.                               *)
(***************************************************************************)
EXTENDS Board, BoardScreen, FiniteSetTheorems, WellFoundedInduction, SequenceTheorems, TLAPS

Moving(w) == req[w].op = "move"
Placing(w) == req[w].op \in {"move", "place"}

(* The row locks of an order and of a device have one holder. *)
OneHolder ==
  \A v, w \in Workers : v # w =>
    /\ Moving(v) /\ Moving(w) => req[v].order # req[w].order
    /\ Placing(v) /\ Placing(w) /\ req[v].unit \in Units => req[v].unit # req[w].unit

(* Requests are about batches that exist; a move takes batches of its order. *)
RowsExist ==
  /\ \A b \in Batches : ~Exists(b) => stage[b] = 1 /\ unit[b] = NoUnit
  /\ \A w \in Workers :
       /\ Moving(w) => \A b \in req[w].batches : OrderOf[b] = req[w].order
       /\ Placing(w) => \A b \in req[w].block : Exists(b)
       /\ req[w].op \in {"assign", "write"} => Exists(req[w].batch)

(* A batch a move has locked keeps a status it can be moved from. *)
MovesAreOpen ==
  \A w \in Workers : Moving(w) => \A b \in req[w].batches : status[b] \in Active

(* The block about to be placed is of one order, and no batch of another order
   holds the device, but for those brought back after the check. *)
PlaceIsFree ==
  \A w \in Workers : Placing(w) =>
    \A b \in req[w].block :
      /\ \A c \in req[w].block : OrderOf[c] = OrderOf[b]
      /\ \A c \in Batches :
           /\ OrderOf[c] # OrderOf[b]
           /\ req[w].unit # NoUnit /\ unit[c] = req[w].unit /\ status[c] \in Active
           => c \in revived

(* What move_batch concluded from its query is still so when it commits. *)
VerdictHolds ==
  \A w \in Workers : Moving(w) =>
    /\ req[w].verdict = "READY" =>
         /\ req[w].to = LastStage
         /\ \A b \in Of(req[w].order) \ (req[w].batches \cup revived) :
              status[b] \in {"ABSENT", "CANCELLED"} \/ stage[b] = LastStage
    /\ req[w].verdict # "READY" /\ req[w].to = LastStage =>
         \E b \in Of(req[w].order) \ req[w].batches : stage[b] # LastStage

(* A batch on the last stage is closed, unless a late write brought it back. *)
DoneIsClosed ==
  \A b \in Batches : stage[b] = LastStage => status[b] \notin Active \/ b \in revived

IInv ==
  /\ TypeOK
  /\ OneHolder
  /\ RowsExist
  /\ MovesAreOpen
  /\ PlaceIsFree
  /\ VerdictHolds
  /\ DoneIsClosed
  /\ UnitsAreNotShared
  /\ ReadyMeansFinished

-----------------------------------------------------------------------------
(* Helpers *)

(* What the fields of a request are, by its kind. *)
LEMMA RequestTypes ==
  ASSUME NEW r \in Requests
  PROVE  /\ r.op \in {"idle", "move", "assign", "place", "write"}
         /\ r.op = "move" =>
              /\ r.batches \subseteq Batches /\ r.order \in Orders /\ r.to \in Stages
              /\ r.unit \in Units \cup {NoUnit} /\ r.block \subseteq Batches
              /\ r.verdict \in OrderStatus
         /\ r.op = "assign" =>
              /\ r.batch \in Batches /\ r.stage \in Stages
              /\ r.seen \in Units \cup {NoUnit} /\ r.unit \in Units \cup {NoUnit}
         /\ r.op = "place" => r.block \subseteq Batches /\ r.unit \in Units \cup {NoUnit}
         /\ r.op = "write" =>
              r.batch \in Batches /\ r.status \in {"PAUSED", "IN_PROGRESS", "CANCELLED"}
BY DEF Requests, NoReq

(* The rows an assignment writes are rows of its block. *)
LEMMA ToPlaceSubset ==
  ASSUME NEW block, NEW on, NEW u PROVE ToPlace(block, on, u) \subseteq block
BY DEF ToPlace

(* A block is of the order of its batch. *)
LEMMA BlockOfOrder ==
  ASSUME NEW b \in Batches, NEW s
  PROVE  Block(b, s) \subseteq Of(OrderOf[b])
BY DEF Block, Of

(* What a request moves is batches of one order. *)
LEMMA MovementsOfOrder ==
  ASSUME NEW o \in Orders, NEW moving \in Movements(o)
  PROVE  moving \subseteq Of(o) /\ moving # {}
<1>1. CASE o \in Grouped
  BY <1>1, Zenon DEF Movements
<1>2. CASE o \notin Grouped
  <2>1. PICK b \in Of(o) : moving = {b}
    BY <1>2 DEF Movements
  <2> QED
    BY <2>1
<1> QED
  BY <1>1, <1>2

(* The rows AssignLock places are batches of the order of the batch it was asked for. *)
LEMMA AssignBlock ==
  ASSUME NEW b \in Batches, NEW s, NEW on, NEW u
  PROVE  /\ ToPlace(Block(b, s), on, u) \subseteq Of(OrderOf[b])
         /\ ToPlace(Block(b, s), on, u) \subseteq Batches
BY ToPlaceSubset, BlockOfOrder DEF Of

(* The request of a move, field by field. *)
LEMMA MoveRequest ==
  ASSUME NEW moving \in SUBSET Batches, NEW o \in Orders, NEW to \in Stages,
         NEW u \in Units \cup {NoUnit}, NEW block \in SUBSET Batches,
         NEW verdict \in OrderStatus
  PROVE  [op |-> "move", batches |-> moving, order |-> o, to |-> to, unit |-> u,
          block |-> block, verdict |-> verdict] \in Requests
BY DEF Requests

(* The variables keep their types. *)
LEMMA TypeStep ==
  TypeOK /\ [Next]_vars => TypeOK'
<1> SUFFICES ASSUME TypeOK, [Next]_vars
             PROVE  TypeOK'
  OBVIOUS
<1> USE BatchesAssumption, StagesAssumption, BoundAssumption
<1>1. ASSUME NEW w \in Workers, NEW o \in Orders, NEW to \in Stages, NEW u \in Units \cup {NoUnit},
             NEW moving \in Movements(o), MoveLock(w, o, moving, to, u)
       PROVE  TypeOK'
  <2> DEFINE joined == IF to = LastStage THEN {}
                       ELSE moving \cup {c \in Of(o) : stage[c] = to /\ status[c] \in Active}
             on == [b \in Batches |-> IF b \in moving THEN NoUnit ELSE unit[b]]
             block == IF u = NoUnit THEN {} ELSE ToPlace(joined, on, u)
  <2>1. moving \in SUBSET Batches /\ joined \in SUBSET Batches
    BY MovementsOfOrder DEF Of
  <2>2. block \in SUBSET Batches
    BY <2>1, ToPlaceSubset
  <2>3. Verdict(moving, o, to) \in OrderStatus
    BY DEF Verdict, OrderStatus
  <2>4. [op |-> "move", batches |-> moving, order |-> o, to |-> to, unit |-> u,
         block |-> block, verdict |-> Verdict(moving, o, to)] \in Requests
    BY <2>1, <2>2, <2>3, MoveRequest
  <2> HIDE DEF block
  <2>5. req' = [req EXCEPT ![w] =
          [op |-> "move", batches |-> moving, order |-> o, to |-> to, unit |-> u,
           block |-> block, verdict |-> Verdict(moving, o, to)]]
    BY <1>1 DEF MoveLock, block
  <2>6. req' \in [Workers -> Requests]
    BY <2>4, <2>5 DEF TypeOK
  <2> QED
    BY <1>1, <2>6 DEF MoveLock, Starts, Counted, rows, TypeOK
<1>2. ASSUME NEW w \in Workers, MoveCommit(w)
       PROVE  TypeOK'
  <2>1. req[w] \in Requests
    BY DEF TypeOK
  <2>2. \A to \in Stages : StatusOn(to) \in BatchStatus
    BY DEF StatusOn, BatchStatus, Active, Closed
  <2>3. \A b \in Batches, s \in Stages, u \in Units :
          [op |-> "assign", batch |-> b, stage |-> s, seen |-> NoUnit, unit |-> u] \in Requests
    BY DEF Requests
  <2>4. req' \in [Workers -> Requests]
    <3>1. NoReq \in Requests
      BY DEF Requests
    <3>2. \E r \in Requests : req' = [req EXCEPT ![w] = r]
      BY <1>2, <2>1, <2>3, <3>1, RequestTypes DEF MoveCommit
    <3> QED
      BY <3>2 DEF TypeOK
  <2> QED
    BY <1>2, <2>1, <2>2, <2>4, RequestTypes DEF MoveCommit, TypeOK
<1>3. ASSUME NEW w \in Workers, NEW b \in Batches, NEW u \in Units \cup {NoUnit},
             AssignRead(w, b, u)
       PROVE  TypeOK'
  <2>1. [op |-> "assign", batch |-> b, stage |-> stage[b], seen |-> unit[b], unit |-> u]
          \in Requests
    BY DEF TypeOK, Requests
  <2> QED
    BY <1>3, <2>1 DEF AssignRead, Starts, Counted, rows, TypeOK
<1>4. ASSUME NEW w \in Workers, AssignLock(w)
       PROVE  TypeOK'
  <2>1. req[w] \in Requests
    BY DEF TypeOK
  <2>2. \A block \in SUBSET Batches, u \in Units \cup {NoUnit} :
          [op |-> "place", block |-> block, unit |-> u] \in Requests
    BY DEF Requests
  <2> QED
    <3>1. NoReq \in Requests
      BY DEF Requests
    <3>2. \E r \in Requests : req' = [req EXCEPT ![w] = r]
      BY <1>4, <2>1, <2>2, <3>1, RequestTypes, AssignBlock DEF AssignLock
    <3> QED
      BY <1>4, <3>2 DEF AssignLock, rows, TypeOK
<1>5. ASSUME NEW w \in Workers, AssignCommit(w)
       PROVE  TypeOK'
  <2>1. req[w] \in Requests
    BY DEF TypeOK
  <2> QED
    BY <1>5, <2>1, RequestTypes DEF AssignCommit, TypeOK, NoReq, Requests
<1>6. ASSUME NEW w \in Workers, NEW b \in Batches, NEW new \in {"PAUSED", "IN_PROGRESS", "CANCELLED"},
             StatusRead(w, b, new)
       PROVE  TypeOK'
  <2>1. [op |-> "write", batch |-> b, status |-> new] \in Requests
    BY DEF Requests
  <2> QED
    BY <1>6, <2>1 DEF StatusRead, Starts, Counted, rows, TypeOK
<1>7. ASSUME NEW w \in Workers, StatusWrite(w)
       PROVE  TypeOK'
  <2>1. req[w] \in Requests
    BY DEF TypeOK
  <2> QED
    BY <1>7, <2>1, RequestTypes
    DEF StatusWrite, Reviving, TypeOK, NoReq, Requests, BatchStatus, Active, Closed
<1>8. ASSUME NEW o \in Orders, Confirm(o)
       PROVE  TypeOK'
  BY <1>8 DEF Confirm, Counted, TypeOK, BatchStatus, OrderStatus, Active, Closed, Stages
<1>9. ASSUME NEW b \in Batches, ReportProblem(b)
       PROVE  TypeOK'
  BY <1>9 DEF ReportProblem, Counted, Reviving, TypeOK, BatchStatus, Active, Closed
<1>10. ASSUME NEW b \in Batches, CloseProblem(b)
       PROVE  TypeOK'
  BY <1>10 DEF CloseProblem, TypeOK, BatchStatus, OrderStatus, Active, Closed, Stages
<1>11. CASE UNCHANGED vars
  BY <1>11 DEF vars, TypeOK, BatchStatus, OrderStatus, Active, Closed, Stages
<1> QED
  BY <1>1, <1>2, <1>3, <1>4, <1>5, <1>6, <1>7, <1>8, <1>9, <1>10, <1>11 DEF Next, Request

(* What a move's first step leaves: its request, and everything else alone. *)
LEMMA MoveLockEffect ==
  ASSUME TypeOK, NEW w \in Workers, NEW o \in Orders, NEW to \in Stages,
         NEW u \in Units \cup {NoUnit}, NEW moving \in Movements(o), MoveLock(w, o, moving, to, u)
  PROVE  /\ \A v \in Workers : v # w => req'[v] = req[v]
         /\ req'[w].op = "move" /\ req'[w].batches = moving /\ req'[w].order = o
         /\ req'[w].to = to /\ req'[w].unit = u /\ req'[w].verdict = Verdict(moving, o, to)
         /\ \A b \in req'[w].block : b \in Of(o) /\ (b \in moving \/ status[b] \in Active)
         /\ u = NoUnit => req'[w].block = {}
         /\ UNCHANGED <<stage, status, unit, blocked, orderStatus, revived>>
<1> DEFINE joined == IF to = LastStage THEN {}
                     ELSE moving \cup {c \in Of(o) : stage[c] = to /\ status[c] \in Active}
           on == [b \in Batches |-> IF b \in moving THEN NoUnit ELSE unit[b]]
           block == IF u = NoUnit THEN {} ELSE ToPlace(joined, on, u)
           r == [op |-> "move", batches |-> moving, order |-> o, to |-> to, unit |-> u,
                 block |-> block, verdict |-> Verdict(moving, o, to)]
<1>1. \A b \in joined : b \in Of(o) /\ (b \in moving \/ status[b] \in Active)
  BY MovementsOfOrder
<1>2. block \subseteq joined /\ (u = NoUnit => block = {})
  BY ToPlaceSubset
<1> HIDE DEF joined, on, block
<1>3. req' = [req EXCEPT ![w] = r]
  BY DEF MoveLock, joined, on, block
<1>4. /\ \A v \in Workers : v # w => req'[v] = req[v]
      /\ req'[w] = r
  BY <1>3 DEF TypeOK
<1>5. UNCHANGED <<stage, status, unit, blocked, orderStatus, revived>>
  BY DEF MoveLock, rows
<1>6. /\ req'[w].op = "move" /\ req'[w].batches = moving /\ req'[w].order = o
      /\ req'[w].to = to /\ req'[w].unit = u /\ req'[w].verdict = Verdict(moving, o, to)
      /\ req'[w].block = block
  BY <1>4
<1> QED
  BY <1>1, <1>2, <1>4, <1>5, <1>6

(* What the assignment's check leaves: nothing to do, or a block to place on a
   device that no batch of another order holds. *)
LEMMA AssignLockEffect ==
  ASSUME TypeOK, NEW w \in Workers, AssignLock(w)
  PROVE  /\ \A v \in Workers : v # w => req'[v] = req[v]
         /\ req[w].batch \in Batches
         /\ \/ req'[w] = NoReq
            \/ /\ req'[w].op = "place" /\ req'[w].unit = req[w].unit
               /\ ~Occupied(req[w].unit, OrderOf[req[w].batch])
               /\ \A b \in req'[w].block :
                    /\ b \in Of(OrderOf[req[w].batch])
                    /\ b = req[w].batch \/ status[b] \in Active
         /\ UNCHANGED <<stage, status, unit, blocked, orderStatus, revived>>
<1> DEFINE r == req[w]
           o == OrderOf[r.batch]
           on == IF o \in Grouped THEN unit ELSE [unit EXCEPT ![r.batch] = r.seen]
           block == ToPlace(Block(r.batch, r.stage), on, r.unit)
<1>1. r.batch \in Batches
  BY RequestTypes DEF AssignLock, TypeOK
<1>2. block \subseteq Block(r.batch, r.stage)
  BY ToPlaceSubset
<1>3. \A b \in Block(r.batch, r.stage) :
        b \in Of(o) /\ (b = r.batch \/ status[b] \in Active)
  BY <1>1 DEF Block, Of
<1> HIDE DEF on, block
<1>4. req' = [req EXCEPT ![w] =
                IF Occupied(r.unit, o) \/ block = {} THEN NoReq
                ELSE [op |-> "place", block |-> block, unit |-> r.unit]]
  BY DEF AssignLock, on, block
<1>5. /\ \A v \in Workers : v # w => req'[v] = req[v]
      /\ req'[w] = IF Occupied(r.unit, o) \/ block = {} THEN NoReq
                   ELSE [op |-> "place", block |-> block, unit |-> r.unit]
  BY <1>4 DEF TypeOK
<1>6. CASE Occupied(r.unit, o) \/ block = {}
  BY <1>1, <1>5, <1>6 DEF AssignLock, rows
<1>7. CASE ~(Occupied(r.unit, o) \/ block = {})
  <2>1. req'[w] = [op |-> "place", block |-> block, unit |-> r.unit]
    BY <1>5, <1>7
  <2>2. req'[w].op = "place" /\ req'[w].unit = r.unit /\ req'[w].block = block
    BY <2>1
  <2> QED
    BY <1>1, <1>2, <1>3, <1>5, <1>7, <2>2 DEF AssignLock, rows
<1> QED
  BY <1>6, <1>7

(* A move's commit, field by field; the request ends or goes on to an assignment. *)
LEMMA MoveCommitEffect ==
  ASSUME TypeOK, NEW w \in Workers, MoveCommit(w)
  PROVE  /\ Moving(w)
         /\ \A v \in Workers : v # w => req'[v] = req[v]
         /\ \/ req'[w].op = "idle"
            \/ req'[w].op = "assign" /\ req'[w].batch \in req[w].batches
         /\ \A b \in Batches :
              /\ b \in req[w].batches => stage'[b] = req[w].to /\ status'[b] = StatusOn(req[w].to)
              /\ b \notin req[w].batches => stage'[b] = stage[b] /\ status'[b] = status[b]
              /\ b \in req[w].block => unit'[b] = req[w].unit
              /\ b \notin req[w].block =>
                   unit'[b] = IF b \in req[w].batches THEN NoUnit ELSE unit[b]
         /\ \A o \in Orders : orderStatus'[o] = IF o = req[w].order THEN req[w].verdict
                                                ELSE orderStatus[o]
         /\ UNCHANGED <<blocked, revived>>
<1>1. Moving(w)
  BY DEF MoveCommit, Moving
<1>2. \A o \in Orders : orderStatus'[o] = IF o = req[w].order THEN req[w].verdict
                                          ELSE orderStatus[o]
  BY DEF MoveCommit, TypeOK
<1>3. \/ req' = [req EXCEPT ![w] = NoReq]
      \/ \E b \in Batches, u \in Units :
           /\ req[w].batches = {b}
           /\ req' = [req EXCEPT ![w] = [op |-> "assign", batch |-> b, stage |-> req[w].to,
                                         seen |-> NoUnit, unit |-> u]]
  BY DEF MoveCommit
<1>4. CASE req' = [req EXCEPT ![w] = NoReq]
  BY <1>1, <1>2, <1>4 DEF MoveCommit, TypeOK, NoReq
<1>5. ASSUME NEW b \in Batches, NEW u \in Units, req[w].batches = {b},
             req' = [req EXCEPT ![w] = [op |-> "assign", batch |-> b, stage |-> req[w].to,
                                        seen |-> NoUnit, unit |-> u]]
      PROVE  /\ req'[w].op = "assign" /\ req'[w].batch \in req[w].batches
             /\ \A v \in Workers : v # w => req'[v] = req[v]
  BY <1>5 DEF TypeOK
<1> QED
  BY <1>1, <1>2, <1>3, <1>4, <1>5 DEF MoveCommit

(* A lock is not taken while another request holds it. *)
LEMMA OneHolderStep ==
  TypeOK /\ OneHolder /\ [Next]_vars => OneHolder'
<1> SUFFICES ASSUME TypeOK, OneHolder, [Next]_vars
             PROVE  OneHolder'
  OBVIOUS
<1>1. ASSUME NEW w \in Workers, NEW o \in Orders, NEW to \in Stages, NEW u \in Units \cup {NoUnit},
             NEW moving \in Movements(o), MoveLock(w, o, moving, to, u)
       PROVE  OneHolder'
  <2>1. \A v \in Workers : v # w /\ Moving(v) => req[v].order # o
    BY <1>1 DEF MoveLock, OrderLocked, Moving
  <2>2. \A v \in Workers : v # w /\ Placing(v) /\ u \in Units => req[v].unit # u
    BY <1>1, StagesAssumption DEF MoveLock, UnitLocked, Placing
  <2>3. /\ \A v \in Workers : v # w => req'[v] = req[v]
        /\ req'[w].op = "move" /\ req'[w].order = o /\ req'[w].unit = u
    BY <1>1, MoveLockEffect
  <2> QED
    BY <2>1, <2>2, <2>3 DEF OneHolder, Moving, Placing
<1>2. ASSUME NEW w \in Workers, MoveCommit(w)
       PROVE  OneHolder'
  BY <1>2 DEF MoveCommit, OneHolder, Moving, Placing, OrderLocked, UnitLocked, TypeOK, NoReq
<1>3. ASSUME NEW w \in Workers, NEW b \in Batches, NEW u \in Units \cup {NoUnit},
             AssignRead(w, b, u)
       PROVE  OneHolder'
  BY <1>3 DEF AssignRead, Starts, Counted, rows, OneHolder, Moving, Placing, OrderLocked, UnitLocked, TypeOK, NoReq
<1>4. ASSUME NEW w \in Workers, AssignLock(w)
       PROVE  OneHolder'
  BY <1>4 DEF AssignLock, rows, OneHolder, Moving, Placing, OrderLocked, UnitLocked, TypeOK, NoReq
<1>5. ASSUME NEW w \in Workers, AssignCommit(w)
       PROVE  OneHolder'
  BY <1>5 DEF AssignCommit, OneHolder, Moving, Placing, OrderLocked, UnitLocked, TypeOK, NoReq
<1>6. ASSUME NEW w \in Workers, NEW b \in Batches, NEW new \in {"PAUSED", "IN_PROGRESS", "CANCELLED"},
             StatusRead(w, b, new)
       PROVE  OneHolder'
  BY <1>6 DEF StatusRead, Starts, Counted, rows, OneHolder, Moving, Placing, OrderLocked, UnitLocked, TypeOK, NoReq
<1>7. ASSUME NEW w \in Workers, StatusWrite(w)
       PROVE  OneHolder'
  BY <1>7 DEF StatusWrite, OneHolder, Moving, Placing, OrderLocked, UnitLocked, TypeOK, NoReq
<1>8. ASSUME NEW o \in Orders, Confirm(o)
       PROVE  OneHolder'
  BY <1>8 DEF Confirm, Counted, OneHolder, Moving, Placing, OrderLocked, UnitLocked, TypeOK, NoReq
<1>9. ASSUME NEW b \in Batches, ReportProblem(b)
       PROVE  OneHolder'
  BY <1>9 DEF ReportProblem, Counted, OneHolder, Moving, Placing, OrderLocked, UnitLocked, TypeOK, NoReq
<1>10. ASSUME NEW b \in Batches, CloseProblem(b)
       PROVE  OneHolder'
  BY <1>10 DEF CloseProblem, OneHolder, Moving, Placing, OrderLocked, UnitLocked, TypeOK, NoReq
<1>11. CASE UNCHANGED vars
  BY <1>11 DEF vars, OneHolder, Moving, Placing, OrderLocked, UnitLocked, TypeOK, NoReq
<1> QED
  BY <1>1, <1>2, <1>3, <1>4, <1>5, <1>6, <1>7, <1>8, <1>9, <1>10, <1>11 DEF Next, Request

(* Batches do not cease to exist. *)
LEMMA RowsExistStep ==
  TypeOK /\ RowsExist /\ [Next]_vars => RowsExist'
<1> SUFFICES ASSUME TypeOK, RowsExist, [Next]_vars
             PROVE  RowsExist'
  OBVIOUS
<1>1. ASSUME NEW w \in Workers, NEW o \in Orders, NEW to \in Stages, NEW u \in Units \cup {NoUnit},
             NEW moving \in Movements(o), MoveLock(w, o, moving, to, u)
       PROVE  RowsExist'
  <2>1. \A b \in moving : Exists(b)
    BY <1>1 DEF MoveLock, Movable, Exists
  <2>2. \A b \in Batches : status[b] \in Active => Exists(b)
    BY DEF Active, Exists
  <2>3. moving \subseteq Of(o) /\ Of(o) \subseteq Batches
    BY MovementsOfOrder DEF Of
  <2>4. /\ \A v \in Workers : v # w => req'[v] = req[v]
        /\ req'[w].op = "move" /\ req'[w].batches = moving /\ req'[w].order = o
        /\ \A b \in req'[w].block : b \in Of(o) /\ (b \in moving \/ status[b] \in Active)
        /\ UNCHANGED <<stage, status, unit>>
    BY <1>1, MoveLockEffect
  <2> QED
    BY <2>1, <2>2, <2>3, <2>4 DEF RowsExist, Exists, Moving, Placing, Of
<1>2. ASSUME NEW w \in Workers, MoveCommit(w)
       PROVE  RowsExist'
  <2>1. \A v \in Workers : req[v] \in Requests
    BY DEF TypeOK
  <2>2. \A v \in Workers :
          /\ Moving(v) => req[v].batches \subseteq Batches /\ req[v].to \in Stages
          /\ Placing(v) => req[v].block \subseteq Batches
          /\ req[v].op \in {"assign", "write"} => req[v].batch \in Batches
    BY <2>1, RequestTypes DEF Moving, Placing
  <2>3. \A s \in Stages : StatusOn(s) # "ABSENT"
    BY DEF StatusOn
  <2>4. \A b \in Batches : Exists(b) => Exists(b)'
    BY <1>2, <2>2, <2>3, MoveCommitEffect DEF Exists
  <2>5. \A b \in Batches : ~Exists(b)' => stage'[b] = 1 /\ unit'[b] = NoUnit
    BY <1>2, <2>2, <2>3, MoveCommitEffect DEF RowsExist, Exists, Moving, Placing
  <2>6. \A b \in req[w].batches : Exists(b)'
    BY <1>2, <2>2, <2>3, MoveCommitEffect DEF Exists
  <2>7. \A v \in Workers :
          /\ Moving(v)' => \A b \in req'[v].batches : OrderOf[b] = req'[v].order
          /\ Placing(v)' => \A b \in req'[v].block : Exists(b)'
          /\ req'[v].op \in {"assign", "write"} => status'[req'[v].batch] # "ABSENT"
    <3> SUFFICES ASSUME NEW v \in Workers
                 PROVE  /\ Moving(v)' => \A b \in req'[v].batches : OrderOf[b] = req'[v].order
                        /\ Placing(v)' => \A b \in req'[v].block : Exists(b)'
                        /\ req'[v].op \in {"assign", "write"} => status'[req'[v].batch] # "ABSENT"
      OBVIOUS
    <3>1. CASE v = w
      <4>1. \/ req'[w].op = "idle"
            \/ req'[w].op = "assign" /\ req'[w].batch \in req[w].batches
        BY <1>2, MoveCommitEffect
      <4> QED
        BY <3>1, <4>1, <2>6 DEF Exists, Moving, Placing
    <3>2. CASE v # w
      <4>1. req'[v] = req[v]
        BY <1>2, <3>2, MoveCommitEffect
      <4> QED
        BY <4>1, <2>2, <2>4 DEF RowsExist, Exists, Moving, Placing
    <3> QED
      BY <3>1, <3>2
  <2> QED
    BY <2>5, <2>7 DEF RowsExist, Exists, Moving, Placing
<1>3. ASSUME NEW w \in Workers, NEW b \in Batches, NEW u \in Units \cup {NoUnit},
             AssignRead(w, b, u)
       PROVE  RowsExist'
  BY <1>3 DEF AssignRead, Starts, Counted, rows, RowsExist, Exists, Moving, Placing, TypeOK, NoReq
<1>4. ASSUME NEW w \in Workers, AssignLock(w)
       PROVE  RowsExist'
  <2>1. \A b \in Batches : status[b] \in Active => Exists(b)
    BY DEF Active, Exists
  <2>2. req[w].op = "assign"
    BY <1>4 DEF AssignLock
  <2> QED
    BY <1>4, <2>1, <2>2, AssignLockEffect DEF RowsExist, Exists, Moving, Placing, NoReq, Of
<1>5. ASSUME NEW w \in Workers, AssignCommit(w)
       PROVE  RowsExist'
  BY <1>5 DEF AssignCommit, RowsExist, Exists, Moving, Placing, TypeOK, NoReq
<1>6. ASSUME NEW w \in Workers, NEW b \in Batches, NEW new \in {"PAUSED", "IN_PROGRESS", "CANCELLED"},
             StatusRead(w, b, new)
       PROVE  RowsExist'
  BY <1>6 DEF StatusRead, Starts, Counted, rows, RowsExist, Exists, Moving, Placing, TypeOK, NoReq
<1>7. ASSUME NEW w \in Workers, StatusWrite(w)
       PROVE  RowsExist'
  <2>1. \A v \in Workers : req[v] \in Requests
    BY DEF TypeOK
  <2>2. \A v \in Workers :
          /\ Placing(v) => req[v].block \subseteq Batches
          /\ req[v].op \in {"assign", "write"} => req[v].batch \in Batches
          /\ req[v].op = "write" => req[v].status # "ABSENT"
    BY <2>1, RequestTypes DEF Placing
  <2>3. \A b \in Batches : Exists(b) <=> Exists(b)'
    BY <1>7, <2>2 DEF StatusWrite, Exists, RowsExist, TypeOK
  <2>4. \A v \in Workers : req'[v] = IF v = w THEN NoReq ELSE req[v]
    BY <1>7 DEF StatusWrite, TypeOK
  <2>5. UNCHANGED <<stage, unit>>
    BY <1>7 DEF StatusWrite
  <2> QED
    BY <2>2, <2>3, <2>4, <2>5 DEF RowsExist, Exists, Moving, Placing, NoReq
<1>8. ASSUME NEW o \in Orders, Confirm(o)
       PROVE  RowsExist'
  <2>1. \A v \in Workers : req[v] \in Requests
    BY DEF TypeOK
  <2>2. \A v \in Workers :
          /\ Placing(v) => req[v].block \subseteq Batches
          /\ req[v].op \in {"assign", "write"} => req[v].batch \in Batches
    BY <2>1, RequestTypes DEF Placing
  <2>3. \A b \in Batches : status'[b] = "QUEUED" \/ status'[b] = status[b]
    BY <1>8 DEF Confirm
  <2>4. UNCHANGED <<stage, unit, req>>
    BY <1>8 DEF Confirm
  <2> QED
    BY <2>2, <2>3, <2>4 DEF RowsExist, Exists, Moving, Placing
<1>9. ASSUME NEW b \in Batches, ReportProblem(b)
       PROVE  RowsExist'
  BY <1>9 DEF ReportProblem, Counted, RowsExist, Exists, Moving, Placing, TypeOK, NoReq
<1>10. ASSUME NEW b \in Batches, CloseProblem(b)
       PROVE  RowsExist'
  BY <1>10 DEF CloseProblem, RowsExist, Exists, Moving, Placing, TypeOK, NoReq
<1>11. CASE UNCHANGED vars
  BY <1>11 DEF vars, RowsExist, Exists, Moving, Placing, TypeOK, NoReq
<1> QED
  BY <1>1, <1>2, <1>3, <1>4, <1>5, <1>6, <1>7, <1>8, <1>9, <1>10, <1>11 DEF Next, Request

(* Only a move takes a batch to the last stage, and it closes it. *)
LEMMA DoneStep ==
  TypeOK /\ RowsExist /\ DoneIsClosed /\ [Next]_vars => DoneIsClosed'
<1> SUFFICES ASSUME TypeOK, RowsExist, DoneIsClosed, [Next]_vars
             PROVE  DoneIsClosed'
  OBVIOUS
<1> USE StagesAssumption
<1>1. ASSUME NEW w \in Workers, NEW o \in Orders, NEW to \in Stages, NEW u \in Units \cup {NoUnit},
             NEW moving \in Movements(o), MoveLock(w, o, moving, to, u)
       PROVE  DoneIsClosed'
  BY <1>1 DEF MoveLock, Starts, Counted, rows, DoneIsClosed, RowsExist, Exists, Moving, TypeOK
<1>2. ASSUME NEW w \in Workers, MoveCommit(w)
       PROVE  DoneIsClosed'
  <2>1. req[w] \in Requests
    BY DEF TypeOK
  <2>2. StatusOn(LastStage) \notin Active
    BY DEF StatusOn, Active
  <2>3. req[w].batches \subseteq Batches
    BY <1>2, <2>1, RequestTypes DEF MoveCommit
  <2> QED
    BY <1>2, <2>2, <2>3, MoveCommitEffect DEF DoneIsClosed
<1>3. ASSUME NEW w \in Workers, NEW b \in Batches, NEW u \in Units \cup {NoUnit},
             AssignRead(w, b, u)
       PROVE  DoneIsClosed'
  BY <1>3 DEF AssignRead, Starts, Counted, rows, DoneIsClosed, RowsExist, Exists, Moving, TypeOK
<1>4. ASSUME NEW w \in Workers, AssignLock(w)
       PROVE  DoneIsClosed'
  BY <1>4 DEF AssignLock, rows, DoneIsClosed, RowsExist, Exists, Moving, TypeOK
<1>5. ASSUME NEW w \in Workers, AssignCommit(w)
       PROVE  DoneIsClosed'
  BY <1>5 DEF AssignCommit, DoneIsClosed, RowsExist, Exists, Moving, TypeOK
<1>6. ASSUME NEW w \in Workers, NEW b \in Batches, NEW new \in {"PAUSED", "IN_PROGRESS", "CANCELLED"},
             StatusRead(w, b, new)
       PROVE  DoneIsClosed'
  BY <1>6 DEF StatusRead, Starts, Counted, rows, DoneIsClosed, RowsExist, Exists, Moving, TypeOK
<1>7. ASSUME NEW w \in Workers, StatusWrite(w)
       PROVE  DoneIsClosed'
  <2>1. req[w] \in Requests /\ req[w].op = "write"
    BY <1>7 DEF TypeOK, StatusWrite
  <2>2. PICK b \in Batches : b = req[w].batch
    BY <2>1, RequestTypes
  <2>3. /\ \A c \in Batches : c # b => status'[c] = status[c]
        /\ status'[b] = req[w].status
        /\ revived' = revived \cup Reviving(b, req[w].status)
        /\ stage' = stage
    BY <1>7, <2>2 DEF StatusWrite, TypeOK
  <2>4. status[b] \notin Active => status[b] \in Closed
    BY <1>7, <2>1, <2>2 DEF RowsExist, Exists, TypeOK, BatchStatus
  <2> QED
    BY <2>3, <2>4 DEF DoneIsClosed, Reviving
<1>8. ASSUME NEW o \in Orders, Confirm(o)
       PROVE  DoneIsClosed'
  BY <1>8 DEF Confirm, Counted, DoneIsClosed, RowsExist, Exists, Moving, TypeOK
<1>9. ASSUME NEW b \in Batches, ReportProblem(b)
       PROVE  DoneIsClosed'
  <2>1. /\ \A c \in Batches : c # b => status'[c] = status[c]
        /\ status'[b] = "PROBLEM"
        /\ revived' = revived \cup Reviving(b, "PROBLEM")
        /\ stage' = stage
    BY <1>9 DEF ReportProblem, TypeOK
  <2>2. status[b] \notin Active => status[b] \in Closed
    BY <1>9 DEF ReportProblem, Exists, TypeOK, BatchStatus
  <2> QED
    BY <2>1, <2>2 DEF DoneIsClosed, Reviving
<1>10. ASSUME NEW b \in Batches, CloseProblem(b)
       PROVE  DoneIsClosed'
  BY <1>10 DEF CloseProblem, DoneIsClosed, RowsExist, Exists, Moving, TypeOK
<1>11. CASE UNCHANGED vars
  BY <1>11 DEF vars, DoneIsClosed, RowsExist, Exists, Moving, TypeOK
<1> QED
  BY <1>1, <1>2, <1>3, <1>4, <1>5, <1>6, <1>7, <1>8, <1>9, <1>10, <1>11 DEF Next, Request

(* A status written late makes a batch active only if it was, or marks it revived. *)
LEMMA LateStatus ==
  ASSUME TypeOK, RowsExist,
         \/ \E w \in Workers : StatusWrite(w)
         \/ \E b \in Batches : ReportProblem(b)
  PROVE  /\ \A c \in Batches :
              /\ status'[c] \in Active => status[c] \in Active \/ c \in revived'
              /\ status[c] \in {"ABSENT", "CANCELLED"} =>
                   status'[c] \in {"ABSENT", "CANCELLED"} \/ c \in revived'
         /\ revived \subseteq revived'
         /\ \A v \in Workers : req'[v].op = "idle" \/ req'[v] = req[v]
         /\ UNCHANGED <<stage, unit, orderStatus>>
<1>1. ASSUME NEW b \in Batches, NEW new \in {"PAUSED", "IN_PROGRESS", "CANCELLED", "PROBLEM"},
             Exists(b), status' = [status EXCEPT ![b] = new],
             revived' = revived \cup Reviving(b, new)
      PROVE  /\ \A c \in Batches :
                  /\ status'[c] \in Active => status[c] \in Active \/ c \in revived'
                  /\ status[c] \in {"ABSENT", "CANCELLED"} =>
                       status'[c] \in {"ABSENT", "CANCELLED"} \/ c \in revived'
             /\ revived \subseteq revived'
  <2>1. status[b] \in Active \cup Closed
    BY <1>1 DEF Exists, TypeOK, BatchStatus
  <2>2. /\ \A c \in Batches : c # b => status'[c] = status[c]
        /\ status'[b] = new
    BY <1>1 DEF TypeOK
  <2>3. new \in Active \/ new = "CANCELLED"
    BY DEF Active
  <2>4. "CANCELLED" \in Closed /\ "CANCELLED" \notin Active /\ "ABSENT" \notin Active \cup Closed
    BY DEF Active, Closed
  <2> QED
    BY <1>1, <2>1, <2>2, <2>3, <2>4 DEF Reviving
<1>2. ASSUME NEW w \in Workers, StatusWrite(w)
      PROVE  /\ req[w].batch \in Batches /\ Exists(req[w].batch)
             /\ req[w].status \in {"PAUSED", "IN_PROGRESS", "CANCELLED"}
             /\ \A v \in Workers : req'[v].op = "idle" \/ req'[v] = req[v]
  <2>1. req[w] \in Requests
    BY DEF TypeOK
  <2> QED
    BY <1>2, <2>1, RequestTypes DEF StatusWrite, RowsExist, TypeOK, NoReq
<1>3. CASE \E w \in Workers : StatusWrite(w)
  BY <1>1, <1>2, <1>3 DEF StatusWrite
<1>4. CASE \E b \in Batches : ReportProblem(b)
  BY <1>1, <1>4 DEF ReportProblem
<1> QED
  BY <1>3, <1>4

(* A device stays free for the request that locked it. *)
LEMMA PlaceStep ==
  TypeOK /\ OneHolder /\ RowsExist /\ PlaceIsFree /\ [Next]_vars => PlaceIsFree'
<1> SUFFICES ASSUME TypeOK, OneHolder, RowsExist, PlaceIsFree, [Next]_vars
             PROVE  PlaceIsFree'
  OBVIOUS
<1> USE StagesAssumption
<1>1. ASSUME NEW w \in Workers, NEW o \in Orders, NEW to \in Stages, NEW u \in Units \cup {NoUnit},
             NEW moving \in Movements(o), MoveLock(w, o, moving, to, u)
       PROVE  PlaceIsFree'
  <2>1. /\ \A v \in Workers : v # w => req'[v] = req[v]
        /\ req'[w].unit = u
        /\ \A b \in req'[w].block : b \in Of(o)
        /\ UNCHANGED <<stage, status, unit, revived>>
    BY <1>1, MoveLockEffect
  <2>2. \A c \in Batches : OrderOf[c] # o /\ u # NoUnit => unit[c] # u \/ status[c] \notin Active
    BY <1>1 DEF MoveLock, Occupied, Of
  <2>3. \A b \in req'[w].block : OrderOf[b] = o
    BY <2>1 DEF Of
  <2> QED
    BY <2>1, <2>2, <2>3 DEF PlaceIsFree, Placing
<1>2. ASSUME NEW w \in Workers, MoveCommit(w)
       PROVE  PlaceIsFree'
  <2>1. \A v \in Workers : req[v] \in Requests
    BY DEF TypeOK
  <2>2. \A v \in Workers : Placing(v) =>
          req[v].block \subseteq Batches /\ req[v].unit \in Units \cup {NoUnit}
    BY <2>1, RequestTypes DEF Placing
  <2>3. /\ \A v \in Workers : v # w => req'[v] = req[v]
        /\ req'[w].op \in {"idle", "assign"}
        /\ \A c \in Batches :
             /\ c \notin req[w].batches => status'[c] = status[c]
             /\ c \in req[w].block => unit'[c] = req[w].unit
             /\ c \notin req[w].block =>
                  unit'[c] = IF c \in req[w].batches THEN NoUnit ELSE unit[c]
        /\ revived' = revived
    BY <1>2, MoveCommitEffect
  <2>4. Placing(w)
    BY <1>2, MoveCommitEffect DEF Placing, Moving
  <2>5. ASSUME NEW v \in Workers, Placing(v)', NEW b \in req'[v].block, NEW c \in Batches,
               OrderOf[c] # OrderOf[b], req'[v].unit # NoUnit, unit'[c] = req'[v].unit,
               status'[c] \in Active
        PROVE  c \in revived'
    <3>1. v # w /\ req'[v] = req[v] /\ Placing(v)
      BY <2>3, <2>5 DEF Placing
    <3>2. req[v].unit \in Units /\ req[v].unit # req[w].unit
      BY <2>2, <2>4, <2>5, <3>1 DEF OneHolder
    <3>3. c \notin req[w].block /\ c \notin req[w].batches
      BY <2>3, <2>5, <3>1, <3>2
    <3> QED
      BY <2>3, <2>5, <3>1, <3>3 DEF PlaceIsFree
  <2>6. ASSUME NEW v \in Workers, Placing(v)', NEW b \in req'[v].block, NEW c \in req'[v].block
        PROVE  OrderOf[c] = OrderOf[b]
    BY <2>3, <2>6 DEF PlaceIsFree, Placing
  <2> QED
    BY <2>5, <2>6 DEF PlaceIsFree
<1>3. ASSUME NEW w \in Workers, NEW b \in Batches, NEW u \in Units \cup {NoUnit},
             AssignRead(w, b, u)
       PROVE  PlaceIsFree'
  <2>1. /\ \A v \in Workers : v # w => req'[v] = req[v]
        /\ req'[w].op \in {"assign", "write"}
        /\ UNCHANGED <<status, unit, revived>>
    BY <1>3 DEF AssignRead, Starts, rows, TypeOK
  <2> QED
    BY <2>1 DEF PlaceIsFree, Placing
<1>4. ASSUME NEW w \in Workers, AssignLock(w)
       PROVE  PlaceIsFree'
  <2>1. \A c \in Batches : /\ OrderOf[c] # OrderOf[req[w].batch]
                            /\ req[w].unit # NoUnit /\ unit[c] = req[w].unit
                            /\ ~Occupied(req[w].unit, OrderOf[req[w].batch])
                            => status[c] \notin Active
    <3>1. req[w].unit \in Units \cup {NoUnit}
      BY <1>4, RequestTypes DEF AssignLock, TypeOK
    <3> QED
      BY <3>1 DEF Occupied, Of
  <2>2. /\ \A v \in Workers : v # w => req'[v] = req[v]
        /\ \/ req'[w].op = "idle"
           \/ /\ req'[w].unit = req[w].unit
              /\ ~Occupied(req[w].unit, OrderOf[req[w].batch])
              /\ \A b \in req'[w].block : OrderOf[b] = OrderOf[req[w].batch]
        /\ UNCHANGED <<status, unit, revived>>
    BY <1>4, AssignLockEffect DEF NoReq, Of
  <2> QED
    BY <2>1, <2>2 DEF PlaceIsFree, Placing
<1>5. ASSUME NEW w \in Workers, AssignCommit(w)
       PROVE  PlaceIsFree'
  <2>1. \A v \in Workers : req[v] \in Requests
    BY DEF TypeOK
  <2>2. \A v \in Workers : Placing(v) =>
          req[v].block \subseteq Batches /\ req[v].unit \in Units \cup {NoUnit}
    BY <2>1, RequestTypes DEF Placing
  <2>3. /\ \A v \in Workers : v # w => req'[v] = req[v]
        /\ req'[w].op = "idle"
        /\ \A c \in Batches : unit'[c] = IF c \in req[w].block THEN req[w].unit ELSE unit[c]
        /\ UNCHANGED <<status, revived>>
    BY <1>5 DEF AssignCommit, TypeOK, NoReq
  <2>4. Placing(w)
    BY <1>5 DEF AssignCommit, Placing
  <2>5. ASSUME NEW v \in Workers, Placing(v)', NEW b \in req'[v].block, NEW c \in Batches,
               OrderOf[c] # OrderOf[b], req'[v].unit # NoUnit, unit'[c] = req'[v].unit,
               status'[c] \in Active
        PROVE  c \in revived'
    <3>1. v # w /\ req'[v] = req[v] /\ Placing(v)
      BY <2>3, <2>5 DEF Placing
    <3>2. req[v].unit \in Units /\ req[v].unit # req[w].unit
      BY <2>2, <2>4, <2>5, <3>1 DEF OneHolder
    <3> QED
      BY <2>3, <2>5, <3>1, <3>2 DEF PlaceIsFree
  <2>6. ASSUME NEW v \in Workers, Placing(v)', NEW b \in req'[v].block, NEW c \in req'[v].block
        PROVE  OrderOf[c] = OrderOf[b]
    BY <2>3, <2>6 DEF PlaceIsFree, Placing
  <2> QED
    BY <2>5, <2>6 DEF PlaceIsFree
<1>6. ASSUME NEW w \in Workers, NEW b \in Batches, NEW new \in {"PAUSED", "IN_PROGRESS", "CANCELLED"},
             StatusRead(w, b, new)
       PROVE  PlaceIsFree'
  <2>1. /\ \A v \in Workers : v # w => req'[v] = req[v]
        /\ req'[w].op \in {"assign", "write"}
        /\ UNCHANGED <<status, unit, revived>>
    BY <1>6 DEF StatusRead, Starts, rows, TypeOK
  <2> QED
    BY <2>1 DEF PlaceIsFree, Placing
<1>7. ASSUME NEW w \in Workers, StatusWrite(w)
       PROVE  PlaceIsFree'
  <2>3. /\ \A c \in Batches : status'[c] \in Active => status[c] \in Active \/ c \in revived'
        /\ revived \subseteq revived'
        /\ \A v \in Workers : req'[v].op = "idle" \/ req'[v] = req[v]
        /\ UNCHANGED <<stage, unit, orderStatus>>
    BY <1>7, LateStatus
  <2> QED
    BY <2>3 DEF PlaceIsFree, Placing
<1>8. ASSUME NEW o \in Orders, Confirm(o)
       PROVE  PlaceIsFree'
  <2>1. \A v \in Workers : req[v] \in Requests
    BY DEF TypeOK
  <2>2. \A v \in Workers : Placing(v) =>
          req[v].block \subseteq Batches /\ req[v].unit \in Units \cup {NoUnit}
    BY <2>1, RequestTypes DEF Placing
  <2>3. /\ \A c \in Batches : status'[c] = status[c] \/ ~Exists(c)
        /\ UNCHANGED <<unit, req, revived>>
    BY <1>8 DEF Confirm, Exists
  <2>4. \A c \in Batches : ~Exists(c) => unit[c] = NoUnit
    BY DEF RowsExist
  <2> QED
    BY <2>2, <2>3, <2>4 DEF PlaceIsFree, Placing
<1>9. ASSUME NEW b \in Batches, ReportProblem(b)
       PROVE  PlaceIsFree'
  <2>3. /\ \A c \in Batches : status'[c] \in Active => status[c] \in Active \/ c \in revived'
        /\ revived \subseteq revived'
        /\ \A v \in Workers : req'[v].op = "idle" \/ req'[v] = req[v]
        /\ UNCHANGED <<stage, unit, orderStatus>>
    BY <1>9, LateStatus
  <2> QED
    BY <2>3 DEF PlaceIsFree, Placing
<1>10. ASSUME NEW b \in Batches, CloseProblem(b)
       PROVE  PlaceIsFree'
  BY <1>10 DEF CloseProblem, PlaceIsFree, Placing, NoReq
<1>11. CASE UNCHANGED vars
  BY <1>11 DEF vars, PlaceIsFree, Placing, NoReq
<1> QED
  BY <1>1, <1>2, <1>3, <1>4, <1>5, <1>6, <1>7, <1>8, <1>9, <1>10, <1>11 DEF Next, Request

(* Nobody touches the order a move has locked. *)
LEMMA VerdictStep ==
  TypeOK /\ OneHolder /\ RowsExist /\ VerdictHolds /\ [Next]_vars => VerdictHolds'
<1> SUFFICES ASSUME TypeOK, OneHolder, RowsExist, VerdictHolds, [Next]_vars
             PROVE  VerdictHolds'
  OBVIOUS
<1>1. ASSUME NEW w \in Workers, NEW o \in Orders, NEW to \in Stages, NEW u \in Units \cup {NoUnit},
             NEW moving \in Movements(o), MoveLock(w, o, moving, to, u)
       PROVE  VerdictHolds'
  <2>1. /\ \A v \in Workers : v # w => req'[v] = req[v]
        /\ req'[w].batches = moving /\ req'[w].order = o
        /\ req'[w].to = to /\ req'[w].verdict = Verdict(moving, o, to)
        /\ UNCHANGED <<stage, status, revived>>
    BY <1>1, MoveLockEffect
  <2>2. Verdict(moving, o, to) = "READY" =>
          /\ to = LastStage
          /\ \A b \in Of(o) \ moving :
               status[b] \in {"ABSENT", "CANCELLED"} \/ stage[b] = LastStage
    BY DEF Verdict, Waiting
  <2>3. Verdict(moving, o, to) # "READY" /\ to = LastStage =>
          \E b \in Of(o) \ moving : stage[b] # LastStage
    BY DEF Verdict, Waiting
  <2> QED
    BY <2>1, <2>2, <2>3 DEF VerdictHolds, Moving, Of
<1>2. ASSUME NEW w \in Workers, MoveCommit(w)
       PROVE  VerdictHolds'
  <2>1. /\ Moving(w)
        /\ \A v \in Workers : v # w => req'[v] = req[v]
        /\ req'[w].op \in {"idle", "assign"}
        /\ \A b \in Batches : b \notin req[w].batches =>
             stage'[b] = stage[b] /\ status'[b] = status[b]
        /\ revived' = revived
    BY <1>2, MoveCommitEffect
  <2>2. ASSUME NEW v \in Workers, Moving(v)'
        PROVE  /\ v # w /\ Moving(v) /\ req'[v] = req[v]
               /\ \A b \in Of(req[v].order) : stage'[b] = stage[b] /\ status'[b] = status[b]
    BY <2>1, <2>2 DEF OneHolder, RowsExist, Moving, Of
  <2> QED
    BY <2>1, <2>2 DEF VerdictHolds, Of
<1>3. ASSUME NEW w \in Workers, NEW b \in Batches, NEW u \in Units \cup {NoUnit},
             AssignRead(w, b, u)
       PROVE  VerdictHolds'
  <2>1. /\ \A v \in Workers : v # w => req'[v] = req[v]
        /\ req'[w].op \in {"assign", "write"}
        /\ UNCHANGED <<stage, status, revived>>
    BY <1>3 DEF AssignRead, Starts, rows, TypeOK
  <2> QED
    BY <2>1 DEF VerdictHolds, Moving, Of
<1>4. ASSUME NEW w \in Workers, AssignLock(w)
       PROVE  VerdictHolds'
  <2>1. /\ \A v \in Workers : v # w => req'[v] = req[v]
        /\ req'[w].op \in {"idle", "place"}
        /\ UNCHANGED <<stage, status, revived>>
    BY <1>4, AssignLockEffect DEF NoReq
  <2> QED
    BY <2>1 DEF VerdictHolds, Moving, Of
<1>5. ASSUME NEW w \in Workers, AssignCommit(w)
       PROVE  VerdictHolds'
  <2>1. /\ \A v \in Workers : v # w => req'[v] = req[v]
        /\ req'[w].op = "idle"
        /\ UNCHANGED <<stage, status, revived>>
    BY <1>5 DEF AssignCommit, TypeOK, NoReq
  <2> QED
    BY <2>1 DEF VerdictHolds, Moving, Of
<1>6. ASSUME NEW w \in Workers, NEW b \in Batches, NEW new \in {"PAUSED", "IN_PROGRESS", "CANCELLED"},
             StatusRead(w, b, new)
       PROVE  VerdictHolds'
  <2>1. /\ \A v \in Workers : v # w => req'[v] = req[v]
        /\ req'[w].op \in {"assign", "write"}
        /\ UNCHANGED <<stage, status, revived>>
    BY <1>6 DEF StatusRead, Starts, rows, TypeOK
  <2> QED
    BY <2>1 DEF VerdictHolds, Moving, Of
<1>7. ASSUME NEW w \in Workers, StatusWrite(w)
       PROVE  VerdictHolds'
  <2>3. /\ \A c \in Batches : status[c] \in {"ABSENT", "CANCELLED"} =>
               status'[c] \in {"ABSENT", "CANCELLED"} \/ c \in revived'
        /\ revived \subseteq revived'
        /\ \A v \in Workers : req'[v].op = "idle" \/ req'[v] = req[v]
        /\ UNCHANGED <<stage, unit, orderStatus>>
    BY <1>7, LateStatus
  <2> QED
    BY <2>3 DEF VerdictHolds, Moving, Of
<1>8. ASSUME NEW o \in Orders, Confirm(o)
       PROVE  VerdictHolds'
  <2>1. /\ \A v \in Workers : Moving(v) => req[v].order # o
        /\ \A b \in Batches : OrderOf[b] # o => status'[b] = status[b]
        /\ UNCHANGED <<stage, req, revived>>
    BY <1>8 DEF Confirm, OrderLocked, Moving, Of
  <2> QED
    BY <2>1 DEF VerdictHolds, Moving, Of
<1>9. ASSUME NEW b \in Batches, ReportProblem(b)
       PROVE  VerdictHolds'
  <2>3. /\ \A c \in Batches : status[c] \in {"ABSENT", "CANCELLED"} =>
               status'[c] \in {"ABSENT", "CANCELLED"} \/ c \in revived'
        /\ revived \subseteq revived'
        /\ \A v \in Workers : req'[v].op = "idle" \/ req'[v] = req[v]
        /\ UNCHANGED <<stage, unit, orderStatus>>
    BY <1>9, LateStatus
  <2> QED
    BY <2>3 DEF VerdictHolds, Moving, Of
<1>10. ASSUME NEW b \in Batches, CloseProblem(b)
       PROVE  VerdictHolds'
  BY <1>10 DEF CloseProblem, VerdictHolds, Moving, Of
<1>11. CASE UNCHANGED vars
  BY <1>11 DEF vars, VerdictHolds, Moving, Of
<1> QED
  BY <1>1, <1>2, <1>3, <1>4, <1>5, <1>6, <1>7, <1>8, <1>9, <1>10, <1>11 DEF Next, Request

(* A device is given out only when it is free. *)
LEMMA UnitsStep ==
  TypeOK /\ RowsExist /\ PlaceIsFree /\ UnitsAreNotShared /\ [Next]_vars => UnitsAreNotShared'
<1> SUFFICES ASSUME TypeOK, RowsExist, PlaceIsFree, UnitsAreNotShared, [Next]_vars
             PROVE  UnitsAreNotShared'
  OBVIOUS
<1>1. ASSUME NEW w \in Workers, NEW o \in Orders, NEW to \in Stages, NEW u \in Units \cup {NoUnit},
             NEW moving \in Movements(o), MoveLock(w, o, moving, to, u)
       PROVE  UnitsAreNotShared'
  <2> QED
    BY <1>1, MoveLockEffect DEF UnitsAreNotShared
<1>2. ASSUME NEW w \in Workers, MoveCommit(w)
       PROVE  UnitsAreNotShared'
  <2>1. /\ Placing(w)
        /\ \A c \in Batches :
             /\ c \notin req[w].batches => status'[c] = status[c]
             /\ c \in req[w].block => unit'[c] = req[w].unit
             /\ c \notin req[w].block =>
                  unit'[c] = IF c \in req[w].batches THEN NoUnit ELSE unit[c]
        /\ revived' = revived
    BY <1>2, MoveCommitEffect DEF Moving, Placing
  <2>2. ASSUME NEW b \in req[w].block, NEW c \in Batches, OrderOf[c] # OrderOf[b],
               unit'[c] = unit'[b], unit'[b] # NoUnit, status'[c] \in Active, b \in Batches
        PROVE  c \in revived
    BY <2>1, <2>2 DEF PlaceIsFree
  <2> QED
    BY <2>1, <2>2 DEF UnitsAreNotShared
<1>3. ASSUME NEW w \in Workers, NEW b \in Batches, NEW u \in Units \cup {NoUnit},
             AssignRead(w, b, u)
       PROVE  UnitsAreNotShared'
  BY <1>3 DEF AssignRead, Starts, Counted, rows, UnitsAreNotShared
<1>4. ASSUME NEW w \in Workers, AssignLock(w)
       PROVE  UnitsAreNotShared'
  <2> QED
    BY <1>4, AssignLockEffect DEF UnitsAreNotShared
<1>5. ASSUME NEW w \in Workers, AssignCommit(w)
       PROVE  UnitsAreNotShared'
  <2>1. /\ Placing(w)
        /\ \A c \in Batches : unit'[c] = IF c \in req[w].block THEN req[w].unit ELSE unit[c]
        /\ UNCHANGED <<status, revived>>
    BY <1>5 DEF AssignCommit, Placing
  <2>2. ASSUME NEW b \in req[w].block, NEW c \in Batches, OrderOf[c] # OrderOf[b],
               unit'[c] = unit'[b], unit'[b] # NoUnit, status'[c] \in Active, b \in Batches
        PROVE  c \in revived
    BY <2>1, <2>2 DEF PlaceIsFree
  <2> QED
    BY <2>1, <2>2 DEF UnitsAreNotShared
<1>6. ASSUME NEW w \in Workers, NEW b \in Batches, NEW new \in {"PAUSED", "IN_PROGRESS", "CANCELLED"},
             StatusRead(w, b, new)
       PROVE  UnitsAreNotShared'
  BY <1>6 DEF StatusRead, Starts, Counted, rows, UnitsAreNotShared
<1>7. ASSUME NEW w \in Workers, StatusWrite(w)
       PROVE  UnitsAreNotShared'
  <2>3. /\ \A c \in Batches : status'[c] \in Active => status[c] \in Active \/ c \in revived'
        /\ revived \subseteq revived'
        /\ \A v \in Workers : req'[v].op = "idle" \/ req'[v] = req[v]
        /\ UNCHANGED <<stage, unit, orderStatus>>
    BY <1>7, LateStatus
  <2> QED
    BY <2>3 DEF UnitsAreNotShared
<1>8. ASSUME NEW o \in Orders, Confirm(o)
       PROVE  UnitsAreNotShared'
  <2>1. /\ \A c \in Batches : status'[c] = status[c] \/ unit[c] = NoUnit
        /\ UNCHANGED <<unit, revived>>
    BY <1>8 DEF Confirm, Exists, RowsExist
  <2> QED
    BY <2>1 DEF UnitsAreNotShared
<1>9. ASSUME NEW b \in Batches, ReportProblem(b)
       PROVE  UnitsAreNotShared'
  <2>3. /\ \A c \in Batches : status'[c] \in Active => status[c] \in Active \/ c \in revived'
        /\ revived \subseteq revived'
        /\ \A v \in Workers : req'[v].op = "idle" \/ req'[v] = req[v]
        /\ UNCHANGED <<stage, unit, orderStatus>>
    BY <1>9, LateStatus
  <2> QED
    BY <2>3 DEF UnitsAreNotShared
<1>10. ASSUME NEW b \in Batches, CloseProblem(b)
       PROVE  UnitsAreNotShared'
  BY <1>10 DEF CloseProblem, UnitsAreNotShared
<1>11. CASE UNCHANGED vars
  BY <1>11 DEF vars, UnitsAreNotShared
<1> QED
  BY <1>1, <1>2, <1>3, <1>4, <1>5, <1>6, <1>7, <1>8, <1>9, <1>10, <1>11 DEF Next, Request

(* An order becomes READY on a verdict that holds, and stays so. *)
LEMMA ReadyStep ==
  TypeOK /\ RowsExist /\ VerdictHolds /\ ReadyMeansFinished /\ [Next]_vars => ReadyMeansFinished'
<1> SUFFICES ASSUME TypeOK, RowsExist, VerdictHolds, ReadyMeansFinished, [Next]_vars
             PROVE  ReadyMeansFinished'
  OBVIOUS
<1>1. ASSUME NEW w \in Workers, NEW o \in Orders, NEW to \in Stages, NEW u \in Units \cup {NoUnit},
             NEW moving \in Movements(o), MoveLock(w, o, moving, to, u)
       PROVE  ReadyMeansFinished'
  <2> QED
    BY <1>1, MoveLockEffect DEF ReadyMeansFinished, Of
<1>2. ASSUME NEW w \in Workers, MoveCommit(w)
       PROVE  ReadyMeansFinished'
  <2>1. /\ Moving(w)
        /\ \A b \in Batches :
             /\ b \in req[w].batches => stage'[b] = req[w].to
             /\ b \notin req[w].batches => stage'[b] = stage[b] /\ status'[b] = status[b]
        /\ \A o \in Orders : orderStatus'[o] = IF o = req[w].order THEN req[w].verdict
                                               ELSE orderStatus[o]
        /\ revived' = revived
    BY <1>2, MoveCommitEffect
  <2>2. ASSUME NEW o \in Orders, orderStatus'[o] = "READY", NEW b \in Of(o) \ revived
        PROVE  status'[b] \in {"ABSENT", "CANCELLED"} \/ stage'[b] = LastStage
    <3>1. b \in Batches /\ OrderOf[b] = o
      BY DEF Of
    <3>2. CASE o = req[w].order
      <4>1. req[w].verdict = "READY"
        BY <2>1, <2>2, <3>2
      <4> QED
        BY <2>1, <3>1, <3>2, <4>1 DEF VerdictHolds
    <3>3. CASE o # req[w].order
      <4>1. b \notin req[w].batches
        BY <2>1, <3>1, <3>3 DEF RowsExist
      <4> QED
        BY <2>1, <2>2, <3>1, <3>3, <4>1 DEF ReadyMeansFinished
    <3> QED
      BY <3>2, <3>3
  <2> QED
    BY <2>1, <2>2 DEF ReadyMeansFinished, Of
<1>3. ASSUME NEW w \in Workers, NEW b \in Batches, NEW u \in Units \cup {NoUnit},
             AssignRead(w, b, u)
       PROVE  ReadyMeansFinished'
  BY <1>3 DEF AssignRead, Starts, Counted, rows, ReadyMeansFinished, Of
<1>4. ASSUME NEW w \in Workers, AssignLock(w)
       PROVE  ReadyMeansFinished'
  <2> QED
    BY <1>4, AssignLockEffect DEF ReadyMeansFinished, Of
<1>5. ASSUME NEW w \in Workers, AssignCommit(w)
       PROVE  ReadyMeansFinished'
  BY <1>5 DEF AssignCommit, ReadyMeansFinished, Of
<1>6. ASSUME NEW w \in Workers, NEW b \in Batches, NEW new \in {"PAUSED", "IN_PROGRESS", "CANCELLED"},
             StatusRead(w, b, new)
       PROVE  ReadyMeansFinished'
  BY <1>6 DEF StatusRead, Starts, Counted, rows, ReadyMeansFinished, Of
<1>7. ASSUME NEW w \in Workers, StatusWrite(w)
       PROVE  ReadyMeansFinished'
  <2>3. /\ \A c \in Batches : status[c] \in {"ABSENT", "CANCELLED"} =>
               status'[c] \in {"ABSENT", "CANCELLED"} \/ c \in revived'
        /\ revived \subseteq revived'
        /\ \A v \in Workers : req'[v].op = "idle" \/ req'[v] = req[v]
        /\ UNCHANGED <<stage, unit, orderStatus>>
    BY <1>7, LateStatus
  <2> QED
    BY <2>3 DEF ReadyMeansFinished, Of
<1>8. ASSUME NEW o \in Orders, Confirm(o)
       PROVE  ReadyMeansFinished'
  <2>1. /\ \A p \in Orders : orderStatus'[p] = "READY" => p # o /\ orderStatus[p] = "READY"
        /\ \A b \in Batches : OrderOf[b] # o => status'[b] = status[b]
        /\ UNCHANGED <<stage, revived>>
    BY <1>8 DEF Confirm, TypeOK, Of
  <2> QED
    BY <2>1 DEF ReadyMeansFinished, Of
<1>9. ASSUME NEW b \in Batches, ReportProblem(b)
       PROVE  ReadyMeansFinished'
  <2>3. /\ \A c \in Batches : status[c] \in {"ABSENT", "CANCELLED"} =>
               status'[c] \in {"ABSENT", "CANCELLED"} \/ c \in revived'
        /\ revived \subseteq revived'
        /\ \A v \in Workers : req'[v].op = "idle" \/ req'[v] = req[v]
        /\ UNCHANGED <<stage, unit, orderStatus>>
    BY <1>9, LateStatus
  <2> QED
    BY <2>3 DEF ReadyMeansFinished, Of
<1>10. ASSUME NEW b \in Batches, CloseProblem(b)
       PROVE  ReadyMeansFinished'
  BY <1>10 DEF CloseProblem, ReadyMeansFinished, Of
<1>11. CASE UNCHANGED vars
  BY <1>11 DEF vars, ReadyMeansFinished, Of
<1> QED
  BY <1>1, <1>2, <1>3, <1>4, <1>5, <1>6, <1>7, <1>8, <1>9, <1>10, <1>11 DEF Next, Request

(* No status write reaches a batch a move has locked. *)
LEMMA MovesStep ==
  TypeOK /\ OneHolder /\ RowsExist /\ MovesAreOpen /\ [Next]_vars => MovesAreOpen'
<1> SUFFICES ASSUME TypeOK, OneHolder, RowsExist, MovesAreOpen, [Next]_vars
             PROVE  MovesAreOpen'
  OBVIOUS
<1>1. ASSUME NEW w \in Workers, NEW o \in Orders, NEW to \in Stages, NEW u \in Units \cup {NoUnit},
             NEW moving \in Movements(o), MoveLock(w, o, moving, to, u)
       PROVE  MovesAreOpen'
  <2>1. \A b \in moving : b \in Batches /\ status[b] \in Active
    BY <1>1, MovementsOfOrder DEF MoveLock, Movable, TypeOK, BatchStatus, Active, Of
  <2>2. /\ \A v \in Workers : v # w => req'[v] = req[v]
        /\ req'[w].batches = moving /\ UNCHANGED status
    BY <1>1, MoveLockEffect
  <2> QED
    BY <2>1, <2>2 DEF MovesAreOpen, Moving
<1>2. ASSUME NEW w \in Workers, MoveCommit(w)
       PROVE  MovesAreOpen'
  <2>1. /\ Moving(w)
        /\ \A v \in Workers : v # w => req'[v] = req[v]
        /\ req'[w].op \in {"idle", "assign"}
        /\ \A b \in Batches : b \notin req[w].batches => status'[b] = status[b]
    BY <1>2, MoveCommitEffect
  <2>2. ASSUME NEW v \in Workers, Moving(v)', NEW b \in req'[v].batches
        PROVE  status'[b] \in Active
    <3>1. v # w /\ req'[v] = req[v] /\ Moving(v)
      BY <2>1, <2>2 DEF Moving
    <3>2. b \in Batches
      BY <2>2, <3>1, RequestTypes DEF TypeOK, Moving
    <3>3. b \notin req[w].batches
      BY <2>1, <2>2, <3>1 DEF OneHolder, RowsExist
    <3> QED
      BY <2>1, <2>2, <3>1, <3>2, <3>3 DEF MovesAreOpen
  <2> QED
    BY <2>2 DEF MovesAreOpen
<1>3. ASSUME NEW w \in Workers, NEW b \in Batches, NEW u \in Units \cup {NoUnit},
             AssignRead(w, b, u)
       PROVE  MovesAreOpen'
  <2>1. /\ \A v \in Workers : v # w => req'[v] = req[v]
        /\ req'[w].op \in {"assign", "write"}
        /\ UNCHANGED status
    BY <1>3 DEF AssignRead, Starts, rows, TypeOK
  <2> QED
    BY <2>1 DEF MovesAreOpen, Moving
<1>4. ASSUME NEW w \in Workers, AssignLock(w)
       PROVE  MovesAreOpen'
  <2>1. /\ \A v \in Workers : v # w => req'[v] = req[v]
        /\ req'[w].op \in {"idle", "place"}
        /\ UNCHANGED status
    BY <1>4, AssignLockEffect DEF NoReq
  <2> QED
    BY <2>1 DEF MovesAreOpen, Moving
<1>5. ASSUME NEW w \in Workers, AssignCommit(w)
       PROVE  MovesAreOpen'
  <2>1. /\ \A v \in Workers : v # w => req'[v] = req[v]
        /\ req'[w].op = "idle"
        /\ UNCHANGED status
    BY <1>5 DEF AssignCommit, TypeOK, NoReq
  <2> QED
    BY <2>1 DEF MovesAreOpen, Moving
<1>6. ASSUME NEW w \in Workers, NEW b \in Batches, NEW new \in {"PAUSED", "IN_PROGRESS", "CANCELLED"},
             StatusRead(w, b, new)
       PROVE  MovesAreOpen'
  <2>1. /\ \A v \in Workers : v # w => req'[v] = req[v]
        /\ req'[w].op \in {"assign", "write"}
        /\ UNCHANGED status
    BY <1>6 DEF StatusRead, Starts, rows, TypeOK
  <2> QED
    BY <2>1 DEF MovesAreOpen, Moving
<1>7. ASSUME NEW w \in Workers, StatusWrite(w)
       PROVE  MovesAreOpen'
  <2>1. /\ \A v \in Workers : v # w => req'[v] = req[v]
        /\ req'[w].op = "idle"
        /\ \A b \in Batches : BatchLocked(b) => status'[b] = status[b]
    BY <1>7 DEF StatusWrite, TypeOK, NoReq
  <2> QED
    BY <2>1, RequestTypes DEF MovesAreOpen, Moving, BatchLocked, TypeOK
<1>8. ASSUME NEW o \in Orders, Confirm(o)
       PROVE  MovesAreOpen'
  <2>1. \A b \in Batches : status[b] \in Active => status'[b] = status[b]
    BY <1>8 DEF Confirm, Exists, Active
  <2>2. req' = req
    BY <1>8 DEF Confirm
  <2> QED
    BY <2>1, <2>2, RequestTypes DEF MovesAreOpen, Moving, TypeOK
<1>9. ASSUME NEW b \in Batches, ReportProblem(b)
       PROVE  MovesAreOpen'
  <2>1. /\ req' = req
        /\ \A c \in Batches : BatchLocked(c) => status'[c] = status[c]
    BY <1>9 DEF ReportProblem, TypeOK
  <2> QED
    BY <2>1, RequestTypes DEF MovesAreOpen, Moving, BatchLocked, TypeOK
<1>10. ASSUME NEW b \in Batches, CloseProblem(b)
       PROVE  MovesAreOpen'
  BY <1>10 DEF CloseProblem, MovesAreOpen, Moving
<1>11. CASE UNCHANGED vars
  BY <1>11 DEF vars, MovesAreOpen, Moving
<1> QED
  BY <1>1, <1>2, <1>3, <1>4, <1>5, <1>6, <1>7, <1>8, <1>9, <1>10, <1>11 DEF Next, Request

(* Only the commit of a move changes a stage. *)
LEMMA StageMoves ==
  [Next]_vars /\ stage' # stage => \E w \in Workers : MoveCommit(w)
<1> SUFFICES ASSUME [Next]_vars, stage' # stage
             PROVE  \E w \in Workers : MoveCommit(w)
  OBVIOUS
<1>1. ASSUME NEW w \in Workers, NEW o \in Orders, NEW to \in Stages, NEW u \in Units \cup {NoUnit},
             NEW moving \in Movements(o), MoveLock(w, o, moving, to, u)
       PROVE  FALSE
  BY <1>1 DEF MoveLock, rows
<1>2. ASSUME NEW w \in Workers, NEW b \in Batches, NEW u \in Units \cup {NoUnit},
             AssignRead(w, b, u)
       PROVE  FALSE
  BY <1>2 DEF AssignRead, rows
<1>3. ASSUME NEW w \in Workers, AssignLock(w)
       PROVE  FALSE
  BY <1>3 DEF AssignLock, rows
<1>4. ASSUME NEW w \in Workers, AssignCommit(w)
       PROVE  FALSE
  BY <1>4 DEF AssignCommit
<1>5. ASSUME NEW w \in Workers, NEW b \in Batches, NEW new \in {"PAUSED", "IN_PROGRESS", "CANCELLED"},
             StatusRead(w, b, new)
       PROVE  FALSE
  BY <1>5 DEF StatusRead, rows
<1>6. ASSUME NEW w \in Workers, StatusWrite(w)
       PROVE  FALSE
  BY <1>6 DEF StatusWrite
<1>7. ASSUME NEW o \in Orders, Confirm(o)
       PROVE  FALSE
  BY <1>7 DEF Confirm
<1>8. ASSUME NEW b \in Batches, ReportProblem(b)
       PROVE  FALSE
  BY <1>8 DEF ReportProblem
<1>9. ASSUME NEW b \in Batches, CloseProblem(b)
       PROVE  FALSE
  BY <1>9 DEF CloseProblem
<1> QED
  BY <1>1, <1>2, <1>3, <1>4, <1>5, <1>6, <1>7, <1>8, <1>9 DEF Next, Request, vars

-----------------------------------------------------------------------------
(* Theorems *)

(* The strengthened invariant holds in every reachable state. *)
THEOREM Inductive == Spec => []IInv
<1>1. Init => IInv
  BY BatchesAssumption, StagesAssumption, BoundAssumption
  DEF Init, IInv, TypeOK, OneHolder, RowsExist, MovesAreOpen, PlaceIsFree, VerdictHolds, DoneIsClosed,
      UnitsAreNotShared, ReadyMeansFinished, Moving, Placing, Exists, Of, NoReq, Requests,
      Stages, BatchStatus, OrderStatus, Active, Closed
<1>2. IInv /\ [Next]_vars => IInv'
  BY TypeStep, OneHolderStep, RowsExistStep, MovesStep, DoneStep, PlaceStep, VerdictStep, UnitsStep,
     ReadyStep DEF IInv
<1> QED
  BY <1>1, <1>2, PTL DEF Spec

(* Every row and every request in flight is of the kind the code gives it. *)
THEOREM TypeCorrect == Spec => []TypeOK
BY Inductive, PTL DEF IInv

(* However requests interleave, two batches of different orders share a device
   only if a late status write brought one of them back (assign_batch_to_unit). *)
THEOREM OneOvenOneOrder == Spec => []UnitsAreNotShared
BY Inductive, PTL DEF IInv

(* A READY order has no unfinished batch but one brought back later (move_batch). *)
THEOREM ReadyIsFinished == Spec => []ReadyMeansFinished
BY Inductive, PTL DEF IInv

(* The move that brings the last batch to the last stage makes its order READY. *)
THEOREM LastBatchCounts == Spec => LastBatchFinishesOrder
<1>1. IInv /\ [Next]_vars =>
        [\A o \in Orders :
           /\ \E b \in Of(o) : stage[b] # LastStage
           /\ \A b \in Of(o) : stage'[b] = LastStage /\ status'[b] \notin {"ABSENT", "CANCELLED"}
           => orderStatus'[o] = "READY"]_vars
  <2> SUFFICES ASSUME IInv, [Next]_vars, NEW o \in Orders, NEW b \in Of(o), stage[b] # LastStage,
                      \A c \in Of(o) : stage'[c] = LastStage
               PROVE  orderStatus'[o] = "READY"
    OBVIOUS
  <2>1. stage' # stage
    OBVIOUS
  <2>2. PICK w \in Workers : MoveCommit(w)
    BY <2>1, StageMoves
  <2>3. /\ Moving(w)
        /\ \A c \in Batches :
             /\ c \in req[w].batches => stage'[c] = req[w].to
             /\ c \notin req[w].batches => stage'[c] = stage[c]
        /\ \A p \in Orders : orderStatus'[p] = IF p = req[w].order THEN req[w].verdict
                                               ELSE orderStatus[p]
    BY <2>2, MoveCommitEffect DEF IInv
  <2>4. b \in Batches /\ OrderOf[b] = o
    BY DEF Of
  <2>5. b \in req[w].batches
    BY <2>3, <2>4
  <2>6. req[w].order = o /\ req[w].to = LastStage
    BY <2>3, <2>4, <2>5 DEF IInv, RowsExist
  <2>7. req[w].verdict = "READY"
    <3>1. \A c \in Of(o) \ req[w].batches : stage[c] = LastStage
      BY <2>3 DEF Of
    <3> QED
      BY <2>3, <2>6, <3>1 DEF IInv, VerdictHolds
  <2> QED
    BY <2>3, <2>6, <2>7
<1> QED
  BY <1>1, Inductive, PTL DEF Spec, LastBatchFinishesOrder

(* A finished batch is not moved off the last stage while it stays finished. *)
THEOREM FinishedIsKept == Spec => FinishedStays
<1>1. IInv /\ [Next]_vars =>
        [\A b \in Batches : stage[b] = LastStage =>
           stage'[b] = LastStage \/ b \in revived]_vars
  <2> SUFFICES ASSUME IInv, [Next]_vars, NEW b \in Batches, stage[b] = LastStage,
                      stage'[b] # LastStage
               PROVE  b \in revived
    OBVIOUS
  <2>1. PICK w \in Workers : MoveCommit(w)
    BY StageMoves
  <2>2. Moving(w) /\ b \in req[w].batches
    BY <2>1, MoveCommitEffect DEF IInv
  <2> QED
    BY <2>2 DEF IInv, MovesAreOpen, DoneIsClosed
<1> QED
  BY <1>1, Inductive, PTL DEF Spec, FinishedStays

-----------------------------------------------------------------------------
(* The board on the screen *)

Marks == (0 .. clock) \X (0 .. clock)
Places == Lanes \cup {Gone}
Cells == Cards \X Nat
Drags == [el : Cells, home : Lanes, next : Cards \cup {NoCard}]
Moves == [drag : Drags, to : Lanes, answer : {"due", "ok", "no"}]
Views == [Cards -> Places] \cup {<<>>}
Fetches == [at : {"none", "asked", "rendered"}, by : {"none", "page", "event", "visible"},
            view : Views, time : Nat]

ScreenTypes ==
  /\ place \in [Cards -> Places] /\ clock \in Nat
  /\ hist \in [Cards -> 0 .. clock] /\ stamp \in [Cards -> 0 .. clock]
  /\ stream \in Marks \cup {Off} /\ seen \in Marks \cup {NoMark}
  /\ mail \in Seq({"ready", "changed"} \X Marks)
  /\ pending \in BOOLEAN /\ refreshing \in BOOLEAN /\ waiting \in BOOLEAN /\ hidden \in BOOLEAN
  /\ finger \in Drags \cup {NoDrag} /\ moves \subseteq Moves
  /\ shown \subseteq Cells \X Lanes
  /\ page \in Nat /\ drawn \in 0 .. clock
  /\ fetch \in [Slots -> Fetches]

(* The last mark the stream told is the last one under way, or the one taken over. *)
Told ==
  IF stream = Off THEN mail = <<>>
  ELSE stream = IF mail = <<>> THEN Known ELSE mail[Len(mail)][2]

(* A page that was made shows the board of its time. *)
Faithful ==
  \A s \in Slots : fetch[s].at = "rendered" =>
    /\ fetch[s].view \in [Cards -> Places] /\ fetch[s].time <= clock
    /\ fetch[s].time = clock => fetch[s].view = place

(* Somebody will clear the flag, by a redraw. *)
Owed == pending => Held \/ hidden \/ \E s \in Slots : fetch[s].by = "visible"

Underway ==
  \E s \in Slots : \/ fetch[s].at = "asked"
                   \/ fetch[s].at = "rendered" /\ fetch[s].time = clock

(* The board has not changed since the page was made, or the page will be redrawn, or
   the mark says that it must be. *)
UpToDate == drawn = clock \/ Underway \/ waiting \/ pending \/ Mark # Known

(* What is held is of this page, and is one card at a time. *)
OfPage ==
  /\ finger # NoDrag => finger.el[2] = page
  /\ \A m \in moves : m.drag.el[2] = page
  /\ \A x \in shown : x[1][2] = page
Once ==
  /\ \A m, n \in moves : m.drag.el[1] = n.drag.el[1] => m = n
  /\ \A m \in moves : m.drag.el[1] # finger.el[1]

InMove(c) == \E m \in moves : m.drag.el[1] = c

(* While the board has not changed, the page shows it, but for what is being moved; and
   that knows its way back. *)
Content ==
  /\ finger # NoDrag => finger.home = place[finger.el[1]]
  /\ \A m \in moves : m.drag.home = place[m.drag.el[1]] /\ m.answer # "ok" /\ m.to # m.drag.home
  /\ \A m \in moves, l \in Lanes : <<<<m.drag.el[1], page>>, l>> \in shown <=> l = m.to
  /\ \A c \in Cards, l \in Lanes : ~InMove(c) => (<<<<c, page>>, l>> \in shown <=> l = place[c])

Agreed == excused = {} => Owed /\ UpToDate /\ OfPage /\ Once /\ (drawn = clock => Content)

ScreenInv == ScreenTypes /\ Told /\ Faithful /\ Agreed

Below == {p \in Nat \X Nat : p[1] < p[2]}

(* A set of numbers has a least one, which Min picks. *)
LEMMA LeastExists ==
  ASSUME NEW S \in SUBSET Nat, S # {}
  PROVE  \E x \in S : \A y \in S : x <= y
<1>1. IsWellFoundedOn(Below, Nat)
  <2>1. Below = OpToRel(<, Nat)
    BY DEF Below, OpToRel
  <2> QED BY <2>1, NatLessThanWellFounded
<1>2. PICK x \in S : \A y \in S : <<y, x>> \notin Below
  BY <1>1, WFMin
<1>3. \A y \in S : x <= y
  <2>1. TAKE y \in S
  <2>2. /\ x \in Nat /\ y \in Nat /\ <<y, x>> \in Nat \X Nat
        /\ <<y, x>>[1] = y /\ <<y, x>>[2] = x
    OBVIOUS
  <2>3. ~ (y < x)
    BY <1>2, <2>2 DEF Below
  <2> QED BY <2>2, <2>3
<1> QED BY <1>3

LEMMA LeastIsLeast ==
  ASSUME NEW S \in SUBSET Nat, S # {}
  PROVE  Min(S) \in S /\ \A y \in S : Min(S) <= y
<1>1. PICK x \in S : \A y \in S : x <= y
  BY LeastExists
<1> QED BY <1>1 DEF Min

(* A finite set of numbers has a largest one. *)
LEMMA MaxIsHighest ==
  ASSUME NEW S \in SUBSET Nat, IsFiniteSet(S), S # {}
  PROVE  Max(S) \in S /\ \A y \in S : y <= Max(S)
<1> DEFINE bad == {T \in FiniteSubsetsOf(S) : T # {} /\ ~ \E x \in T : \A y \in T : y <= x}
<1>1. bad = {}
  <2>1. SUFFICES ASSUME bad # {} PROVE FALSE
    OBVIOUS
  <2>2. PICK T \in bad : \A U \in bad : <<U, T>> \notin StrictSubsetOrdering(S)
    <3>1. bad \subseteq FiniteSubsetsOf(S)
      OBVIOUS
    <3> HIDE DEF bad
    <3> QED BY <2>1, <3>1, FS_StrictSubsetOrderingWellFounded, WFMin
  <2>3. PICK z \in T : TRUE
    OBVIOUS
  <2>4. T \ {z} \in FiniteSubsetsOf(S) /\ <<T \ {z}, T>> \in StrictSubsetOrdering(S)
    BY <2>3, FS_RemoveElement DEF FiniteSubsetsOf, StrictSubsetOrdering
  <2>5. T \ {z} \notin bad
    BY <2>2, <2>4
  <2>6. CASE T \ {z} = {}
    BY <2>3, <2>6 DEF FiniteSubsetsOf
  <2>7. CASE T \ {z} # {}
    <3>1. PICK x \in T \ {z} : \A y \in T \ {z} : y <= x
      BY <2>4, <2>5, <2>7
    <3>2. T \subseteq Nat
      BY DEF FiniteSubsetsOf
    <3> QED BY <3>1, <3>2, <2>3
  <2> QED BY <2>6, <2>7
<1>2. PICK x \in S : \A y \in S : y <= x
  BY <1>1 DEF FiniteSubsetsOf
<1>3. \A y \in S : x >= y
  BY <1>2
<1>4. Max(S) \in S /\ \A y \in S : Max(S) >= y
  BY <1>3 DEF Max
<1> QED BY <1>4

(* The server *)

(* Highest is one of the numbers, and none is above it. *)
LEMMA HighestOf ==
  ASSUME NEW p, NEW n \in Nat, NEW f \in [Cards -> 0 .. n]
  PROVE  LET high == Max({0} \cup {f[c] : c \in {d \in Cards : p[d] # Gone}}) IN
           high \in 0 .. n /\ \A c \in Cards : p[c] # Gone => f[c] <= high
<1> DEFINE S == {0} \cup {f[c] : c \in {d \in Cards : p[d] # Gone}}
<1>1. S \in SUBSET (0 .. n) /\ S \in SUBSET Nat /\ S # {}
  OBVIOUS
<1>2. IsFiniteSet(S)
  <2>1. IsFiniteSet(0 .. n)
    BY FS_Interval
  <2> HIDE DEF S
  <2> QED BY <1>1, <2>1, FS_Subset
<1>3. Max(S) \in S /\ \A y \in S : y <= Max(S)
  <2> HIDE DEF S
  <2> QED BY <1>1, <1>2, MaxIsHighest
<1>4. Max(S) \in 0 .. n /\ \A c \in Cards : p[c] # Gone => f[c] <= Max(S)
  BY <1>1, <1>3
<1> QED BY <1>4

(* Marks are made of times that have passed. *)
LEMMA MarkType ==
  ASSUME ScreenTypes
  PROVE  Mark \in Marks /\ Known \in Marks
<1>1. Highest(hist) \in 0 .. clock /\ Highest(stamp) \in 0 .. clock
  BY HighestOf DEF ScreenTypes, Highest
<1> QED BY <1>1 DEF Mark, Known, Marks, ScreenTypes

(* A batch that is moved leaves a mark that nobody was told before. *)
LEMMA ChangeTells ==
  ASSUME ScreenTypes, NEW c \in Cards, NEW l \in Lanes, NEW staged \in BOOLEAN,
         Change(c, l, staged)
  PROVE  /\ place' \in [Cards -> Places] /\ clock' = clock + 1
         /\ hist' \in [Cards -> 0 .. clock'] /\ stamp' \in [Cards -> 0 .. clock']
         /\ Mark' \notin Marks
<1>1. clock \in Nat /\ clock' = clock + 1 /\ clock' \in Nat
  BY DEF ScreenTypes, Change
<1>2. place' \in [Cards -> Places] /\ place'[c] = l
  BY DEF ScreenTypes, Change, Places
<1>3. hist' \in [Cards -> 0 .. clock'] /\ stamp' \in [Cards -> 0 .. clock'] /\ stamp'[c] = clock'
  BY <1>1 DEF ScreenTypes, Change
<1>4. Highest(stamp)' \in 0 .. clock' /\ clock' <= Highest(stamp)'
  <2>1. place'[c] # Gone
    BY <1>2, ScreenAssumption
  <2>2. \A q : \A n \in Nat : \A f \in [Cards -> 0 .. n] :
          LET high == Max({0} \cup {f[d] : d \in {e \in Cards : q[e] # Gone}}) IN
            high \in 0 .. n /\ \A d \in Cards : q[d] # Gone => f[d] <= high
    BY HighestOf
  <2> DEFINE high == Max({0} \cup {stamp'[d] : d \in {e \in Cards : place'[e] # Gone}})
  <2>3. high \in 0 .. clock' /\ \A d \in Cards : place'[d] # Gone => stamp'[d] <= high
    BY <1>1, <1>3, <2>2
  <2>4. Highest(stamp)' = high
    BY DEF Highest
  <2> HIDE DEF high
  <2> QED BY <1>3, <2>1, <2>3, <2>4
<1>5. Mark'[2] = clock + 1
  BY <1>1, <1>4 DEF Mark
<1> QED BY <1>1, <1>2, <1>3, <1>5 DEF Marks

(* Marks that were possible stay so. *)
LEMMA MarksGrow ==
  ASSUME ScreenTypes, clock' = clock \/ clock' = clock + 1
  PROVE  Marks \subseteq Marks' /\ clock' \in Nat /\ 0 .. clock \subseteq 0 .. clock'
BY DEF ScreenTypes, Marks

(* Redraws *)

(* Pages under way stay as they are; new ones may be asked for. *)
FetchGrows ==
  \A s \in Slots : fetch'[s] = fetch[s] \/ (fetch[s] = NoFetch /\ fetch'[s].at = "asked")

Reasons == {"page", "event", "visible"}

(* A request for the page as it is made. *)
LEMMA AskedFits ==
  ASSUME NEW by \in Reasons
  PROVE  LET x == [NoFetch EXCEPT !.at = "asked", !.by = by] IN
           x \in Fetches /\ x.at = "asked" /\ x.by = by /\ x.time = 0
BY DEF NoFetch, Fetches, Views, Reasons

(* Asking takes a free slot and leaves the others alone. *)
LEMMA AskKeeps ==
  ASSUME ScreenTypes, NEW by \in Reasons, NEW s \in Slots, fetch[s] = NoFetch,
         fetch' = [fetch EXCEPT ![s] = [NoFetch EXCEPT !.at = "asked", !.by = by]]
  PROVE  /\ fetch' \in [Slots -> Fetches] /\ FetchGrows
         /\ \E r \in Slots : fetch'[r].at = "asked" /\ fetch'[r].by = by
<1> DEFINE x == [NoFetch EXCEPT !.at = "asked", !.by = by]
<1>1. x \in Fetches /\ x.at = "asked" /\ x.by = by
  BY AskedFits
<1>2. fetch' = [fetch EXCEPT ![s] = x]
  OBVIOUS
<1> HIDE DEF x
<1>3. fetch' \in [Slots -> Fetches] /\ fetch'[s] = x /\ \A r \in Slots \ {s} : fetch'[r] = fetch[r]
  BY <1>1, <1>2 DEF ScreenTypes
<1> QED BY <1>1, <1>3 DEF FetchGrows

(* refreshBoard waits when a card is held and asks when none is. *)
LEMMA RedrawKeeps ==
  ASSUME ScreenTypes, NEW held \in BOOLEAN, NEW by \in Reasons, Redraw(held, by)
  PROVE  /\ fetch' \in [Slots -> Fetches] /\ waiting' \in BOOLEAN /\ FetchGrows
         /\ waiting => waiting'
         /\ held => waiting'
         /\ ~held => \E r \in Slots : fetch'[r].at = "asked" /\ fetch'[r].by = by
<1>1. CASE held
  BY <1>1 DEF Redraw, ScreenTypes, FetchGrows
<1>2. CASE ~held
  <2>1. PICK s \in Slots :
          /\ fetch[s] = NoFetch
          /\ fetch' = [fetch EXCEPT ![s] = [NoFetch EXCEPT !.at = "asked", !.by = by]]
    BY <1>2 DEF Redraw
  <2>2. UNCHANGED waiting
    BY <1>2 DEF Redraw
  <2> QED BY <1>2, <2>1, <2>2, AskKeeps DEF ScreenTypes
<1> QED BY <1>1, <1>2

(* What is known of the pages under way survives new requests. *)
LEMMA GrowthKeeps ==
  ASSUME ScreenTypes, Faithful, FetchGrows, UNCHANGED <<place, clock>>
  PROVE  /\ Faithful'
         /\ Underway => Underway'
         /\ (\E s \in Slots : fetch[s].by = "visible") => \E s \in Slots : fetch'[s].by = "visible"
<1>1. \A s \in Slots : fetch[s] = NoFetch => fetch[s].at = "none" /\ fetch[s].by = "none"
  BY DEF NoFetch
<1>2. Faithful'
  BY <1>1 DEF Faithful, FetchGrows
<1>3. Underway => Underway'
  BY <1>1 DEF Underway, FetchGrows
<1> QED BY <1>1, <1>2, <1>3 DEF FetchGrows

(* The handler of kanban:move-settled turns the flag into a redraw. *)
LEMMA SettledKeeps ==
  ASSUME ScreenTypes, Settled, finger' \in Drags \cup {NoDrag}
  PROVE  /\ fetch' \in [Slots -> Fetches] /\ waiting' \in BOOLEAN /\ pending' \in BOOLEAN
         /\ FetchGrows /\ (waiting => waiting') /\ (pending' => pending /\ moves' # {})
         /\ pending => pending' \/ waiting' \/ \E r \in Slots : fetch'[r].at = "asked"
<1>1. CASE pending /\ moves' = {}
  <2>1. pending' = FALSE /\ Redraw(finger' # NoDrag, "page")
    BY <1>1 DEF Settled
  <2> QED BY <2>1, RedrawKeeps DEF Reasons
<1>2. CASE ~(pending /\ moves' = {})
  <2>1. UNCHANGED <<pending, waiting, fetch>>
    BY <1>2 DEF Settled
  <2> QED BY <1>2, <2>1 DEF ScreenTypes, FetchGrows
<1> QED BY <1>1, <1>2

(* A request that has ended frees its slot. *)
LEMMA EndedKeeps ==
  ASSUME ScreenTypes, NEW s \in Slots, fetch' = [fetch EXCEPT ![s] = NoFetch]
  PROVE  /\ fetch' \in [Slots -> Fetches] /\ fetch'[s] = NoFetch
         /\ \A r \in Slots \ {s} : fetch'[r] = fetch[r]
<1>1. NoFetch \in Fetches
  BY DEF NoFetch, Fetches, Views
<1> QED BY <1>1 DEF ScreenTypes

(* Elements *)

(* Going home leaves a page of elements in lanes. *)
LEMMA HomeType ==
  ASSUME ScreenTypes, NEW d \in Drags
  PROVE  Home(d) \subseteq Cells \X Lanes
BY DEF Home, Moved, Drags, ScreenTypes

(* What startDrag notes is a drag. *)
LEMMA GripType ==
  ASSUME ScreenTypes, NEW x \in shown
  PROVE  [el |-> x[1], home |-> x[2], next |-> Behind(x[1])] \in Drags
<1> DEFINE behind == {d \in Cards : d > x[1][1] /\ <<<<d, x[1][2]>>, LaneOf(x[1])>> \in shown}
<1>1. Behind(x[1]) \in Cards \cup {NoCard}
  <2>1. CASE behind = {}
    BY <2>1 DEF Behind
  <2>2. CASE behind # {}
    <3>1. behind \in SUBSET Nat /\ behind \subseteq Cards
      BY ScreenAssumption DEF Cards
    <3>2. Behind(x[1]) = Min(behind)
      BY <2>2 DEF Behind
    <3> HIDE DEF behind
    <3> QED BY <2>2, <3>1, <3>2, LeastIsLeast
  <2> QED BY <2>1, <2>2
<1>2. x[1] \in Cells /\ x[2] \in Lanes
  BY DEF ScreenTypes
<1> QED BY <1>1, <1>2 DEF Drags

(* A move holds a card and knows its lanes. *)
LEMMA FingerMoves ==
  ASSUME ScreenTypes, NEW m \in moves
  PROVE  m \in Moves /\ m.drag \in Drags /\ m.to \in Lanes /\ m.drag.el \in Cells
         /\ m.drag.el[1] \in Cards /\ m.drag.home \in Lanes
BY DEF ScreenTypes, Moves, Drags, Cells

(* Types of the server's variables. *)
LEMMA ServerKeepsTypes ==
  ASSUME ScreenTypes,
         \/ UNCHANGED server
         \/ /\ place' \in [Cards -> Places] /\ clock' = clock + 1
            /\ hist' \in [Cards -> 0 .. clock'] /\ stamp' \in [Cards -> 0 .. clock']
  PROVE  /\ place' \in [Cards -> Places] /\ clock' \in Nat
         /\ hist' \in [Cards -> 0 .. clock'] /\ stamp' \in [Cards -> 0 .. clock']
         /\ Marks \subseteq Marks' /\ 0 .. clock \subseteq 0 .. clock'
<1>1. CASE UNCHANGED server
  BY <1>1 DEF ScreenTypes, server, Marks
<1>2. CASE clock' = clock + 1 /\ place' \in [Cards -> Places]
           /\ hist' \in [Cards -> 0 .. clock'] /\ stamp' \in [Cards -> 0 .. clock']
  BY <1>2, MarksGrow
<1> QED BY <1>1, <1>2

(* Events stay events when more marks become possible. *)
LEMMA MailGrows ==
  ASSUME ScreenTypes, Marks \subseteq Marks'
  PROVE  mail \in Seq({"ready", "changed"} \X Marks')
<1>1. {"ready", "changed"} \X Marks \subseteq {"ready", "changed"} \X Marks'
  OBVIOUS
<1>2. mail \in Seq({"ready", "changed"} \X Marks)
  BY DEF ScreenTypes
<1> QED BY <1>1, <1>2, SeqMonotonic

(* Types, when the board changes. *)
LEMMA ServerTypes ==
  ASSUME ScreenTypes, NEW c \in Cards, Elsewhere(c) \/ Delete(c)
  PROVE  ScreenTypes'
<1>1. /\ place' \in [Cards -> Places] /\ clock' = clock + 1
      /\ hist' \in [Cards -> 0 .. clock'] /\ stamp' \in [Cards -> 0 .. clock']
  <2>1. CASE Elsewhere(c)
    BY <2>1, ChangeTells DEF Elsewhere
  <2>2. CASE Delete(c)
    BY <2>2 DEF Delete, ScreenTypes, Places
  <2> QED BY <2>1, <2>2
<1>2. clock' \in Nat /\ Marks \subseteq Marks' /\ 0 .. clock \subseteq 0 .. clock'
  BY <1>1, MarksGrow
<1>3. UNCHANGED <<events, client, hand, screen>>
  BY DEF Elsewhere, Delete
<1>4. mail' \in Seq({"ready", "changed"} \X Marks')
  BY <1>2, <1>3, MailGrows DEF events
<1> QED BY <1>1, <1>2, <1>3, <1>4 DEF ScreenTypes, events, client, hand, screen

(* The rest of a step that leaves the server alone. *)
LEMMA OthersTypes ==
  ASSUME ScreenTypes, UNCHANGED server, stream' \in Marks \cup {Off}, seen' \in Marks \cup {NoMark},
         mail' \in Seq({"ready", "changed"} \X Marks),
         pending' \in BOOLEAN, refreshing' \in BOOLEAN, waiting' \in BOOLEAN, hidden' \in BOOLEAN,
         finger' \in Drags \cup {NoDrag}, moves' \subseteq Moves, shown' \subseteq Cells \X Lanes,
         page' \in Nat, drawn' \in 0 .. clock, fetch' \in [Slots -> Fetches]
  PROVE  ScreenTypes'
<1>1. Marks' = Marks
  BY DEF server, Marks
<1> QED BY <1>1 DEF ScreenTypes, server

(* Types, when events are told and heard. *)
LEMMA EventTypes ==
  ASSUME ScreenTypes, Tell \/ Break \/ Connect \/ Receive
  PROVE  ScreenTypes'
<1>1. Mark \in Marks /\ Known \in Marks
  BY MarkType
<1> DEFINE E == {"ready", "changed"} \X Marks
<1>2. CASE Tell \/ Break \/ Connect
  <2>1. stream' \in Marks \cup {Off} /\ mail' \in Seq(E)
    <3>1. mail \in Seq(E) /\ <<"changed", Mark>> \in E /\ <<"ready", Mark>> \in E
      BY <1>1 DEF ScreenTypes
    <3>2. Append(mail, <<"changed", Mark>>) \in Seq(E) /\ << <<"ready", Mark>> >> \in Seq(E)
          /\ <<>> \in Seq(E)
      <4> HIDE DEF E
      <4> QED BY <3>1
    <3> HIDE DEF E
    <3> QED BY <1>1, <1>2, <3>2 DEF Tell, Break, Connect
  <2>2. UNCHANGED <<server, client, hand, screen>>
    BY <1>2 DEF Tell, Break, Connect
  <2> QED BY <2>1, <2>2, OthersTypes DEF client, hand, screen, ScreenTypes
<1>3. CASE Receive
  <2>1. mail # <<>> /\ mail' = Tail(mail) /\ mail \in Seq(E)
        /\ UNCHANGED <<server, stream, hidden, hand, shown, page, drawn>>
    BY <1>3 DEF Receive, ScreenTypes
  <2>2. Tail(mail) \in Seq(E) /\ Head(mail) \in E
    <3> HIDE DEF E
    <3> QED BY <2>1
  <2>3. Head(mail)[2] \in Marks
    BY <2>2
  <2>4. Ready(Head(mail)[2]) \/ Changed(Head(mail)[2])
    BY <1>3 DEF Receive
  <2>5. /\ seen' \in Marks \cup {NoMark} /\ pending' \in BOOLEAN /\ refreshing' \in BOOLEAN
        /\ waiting' \in BOOLEAN /\ fetch' \in [Slots -> Fetches]
    <3>1. CASE Ready(Head(mail)[2])
      BY <2>3, <3>1 DEF Ready, ScreenTypes
    <3>2. CASE Changed(Head(mail)[2])
      <4>1. CASE Redraw(FALSE, "event") /\ refreshing' = TRUE /\ UNCHANGED pending
                 /\ seen' = Head(mail)[2]
        BY <2>3, <4>1, RedrawKeeps DEF Reasons, ScreenTypes
      <4>2. CASE UNCHANGED <<refreshing, waiting, fetch>>
        BY <2>3, <3>2, <4>2 DEF Changed, ScreenTypes
      <4> QED BY <3>2, <4>1, <4>2 DEF Changed
    <3> QED BY <2>4, <3>1, <3>2
  <2> QED BY <2>1, <2>2, <2>5, OthersTypes DEF hand, ScreenTypes
<1> QED BY <1>2, <1>3

(* Types, when the page is asked for, made and drawn. *)
LEMMA RedrawTypes ==
  ASSUME ScreenTypes, Faithful,
         \/ Hide \/ Unhide \/ Retry \/ Call
         \/ \E s \in Slots : Render(s) \/ Drawn(s) \/ FetchFails(s)
  PROVE  ScreenTypes'
<1>1. CASE Hide
  BY <1>1, OthersTypes DEF Hide, ScreenTypes, events, hand, screen
<1>2. CASE Unhide
  <2>1. pending' \in BOOLEAN /\ waiting' \in BOOLEAN /\ fetch' \in [Slots -> Fetches]
    BY <1>2, RedrawKeeps DEF Unhide, Held, Reasons, ScreenTypes
  <2> QED BY <1>2, <2>1, OthersTypes DEF Unhide, ScreenTypes, events, hand
<1>3. CASE Retry
  <2>1. fetch' \in [Slots -> Fetches]
    BY <1>3, AskKeeps DEF Retry, Reasons
  <2> QED BY <1>3, <2>1, OthersTypes DEF Retry, ScreenTypes, events, hand
<1>4. CASE Call
  <2>1. waiting' \in BOOLEAN /\ fetch' \in [Slots -> Fetches]
    BY <1>4, RedrawKeeps DEF Call, Held, Reasons
  <2> QED BY <1>4, <2>1, OthersTypes DEF Call, ScreenTypes, events, hand
<1>5. ASSUME NEW s \in Slots, Render(s) PROVE ScreenTypes'
  <2> DEFINE x == [fetch[s] EXCEPT !.at = "rendered", !.view = place, !.time = clock]
  <2>1. x \in Fetches
    <3>1. fetch[s] \in Fetches /\ place \in Views /\ clock \in Nat
      BY DEF ScreenTypes, Views
    <3> QED BY <3>1 DEF Fetches
  <2>2. fetch' = [fetch EXCEPT ![s] = x]
    BY <1>5 DEF Render
  <2> HIDE DEF x
  <2>3. fetch' \in [Slots -> Fetches]
    BY <2>1, <2>2 DEF ScreenTypes
  <2> QED BY <1>5, <2>3, OthersTypes DEF Render, ScreenTypes, events, client, hand
<1>6. ASSUME NEW s \in Slots, Drawn(s) PROVE ScreenTypes'
  <2> DEFINE view == fetch[s].view
  <2>1. view \in [Cards -> Places] /\ fetch[s].time \in 0 .. clock
    <3>1. fetch[s].at = "rendered" /\ fetch[s] \in Fetches
      BY <1>6 DEF Drawn, ScreenTypes
    <3>2. view \in [Cards -> Places] /\ fetch[s].time <= clock
      BY <3>1 DEF Faithful
    <3>3. fetch[s].time \in Nat /\ clock \in Nat
      BY <3>1 DEF Fetches, ScreenTypes
    <3> HIDE DEF view
    <3> QED BY <3>2, <3>3
  <2>2. page' \in Nat
    <3>1. page \in Nat /\ page' = page + 1
      BY <1>6 DEF Drawn, ScreenTypes
    <3> QED BY <3>1
  <2>3. shown' = {<<<<c, page + 1>>, view[c]>> : c \in {d \in Cards : view[d] # Gone}}
    BY <1>6 DEF Drawn
  <2>4. shown' \subseteq Cells \X Lanes
    <3>1. page + 1 \in Nat
      BY DEF ScreenTypes
    <3> HIDE DEF view
    <3>2. \A c \in Cards : view[c] # Gone => view[c] \in Lanes
      BY <2>1 DEF Places
    <3> QED BY <2>3, <3>1, <3>2 DEF Cells
  <2>5. fetch' \in [Slots -> Fetches] /\ refreshing' \in BOOLEAN /\ pending' \in BOOLEAN
    BY <1>6, EndedKeeps DEF Drawn, After, ScreenTypes
  <2> QED BY <1>6, <2>1, <2>2, <2>4, <2>5, OthersTypes DEF Drawn, ScreenTypes, events, hand
<1>7. ASSUME NEW s \in Slots, FetchFails(s) PROVE ScreenTypes'
  <2>1. fetch' \in [Slots -> Fetches] /\ refreshing' \in BOOLEAN /\ pending' \in BOOLEAN
    BY <1>7, EndedKeeps DEF FetchFails, After, ScreenTypes
  <2> QED BY <1>7, <2>1, OthersTypes DEF FetchFails, ScreenTypes, events, hand
<1> QED BY <1>1, <1>2, <1>3, <1>4, <1>5, <1>6, <1>7

(* Types, when a card is dragged. *)
LEMMA HandTypes ==
  ASSUME ScreenTypes,
         \/ \E x \in shown : Press(x)
         \/ Lift \/ PutBack
         \/ \E l \in Lanes : Drop(l)
         \/ \E m \in moves : Served(m) \/ Answered(m)
  PROVE  ScreenTypes'
<1>1. ASSUME NEW x \in shown, Press(x) PROVE ScreenTypes'
  <2>1. finger' \in Drags
    BY <1>1, GripType DEF Press
  <2> QED BY <1>1, <2>1, OthersTypes DEF Press, ScreenTypes, events, client, screen
<1>2. CASE Lift
  BY <1>2, OthersTypes DEF Lift, ScreenTypes, events, client, screen
<1>3. CASE PutBack
  <2>1. finger \in Drags /\ finger' = NoDrag /\ shown' = Home(finger) /\ Settled
    BY <1>3 DEF PutBack, ScreenTypes
  <2>2. shown' \subseteq Cells \X Lanes
    BY <2>1, HomeType
  <2>3. fetch' \in [Slots -> Fetches] /\ waiting' \in BOOLEAN /\ pending' \in BOOLEAN
    BY <2>1, SettledKeeps
  <2> QED BY <1>3, <2>2, <2>3, OthersTypes DEF PutBack, ScreenTypes, events
<1>4. ASSUME NEW l \in Lanes, Drop(l) PROVE ScreenTypes'
  <2>1. finger \in Drags /\ finger.el \in Cells
    BY <1>4 DEF Drop, ScreenTypes, Drags
  <2>2. moves' \subseteq Moves /\ shown' \subseteq Cells \X Lanes
    BY <1>4, <2>1 DEF Drop, Moved, ScreenTypes, Moves
  <2> QED BY <1>4, <2>2, OthersTypes DEF Drop, ScreenTypes, events, client
<1>5. ASSUME NEW m \in moves, Served(m) PROVE ScreenTypes'
  <2>1. m.drag.el[1] \in Cards /\ m \in Moves /\ m.to \in Lanes
    BY FingerMoves
  <2>2. \/ UNCHANGED server
        \/ \E l \in Lanes, staged \in BOOLEAN : Change(m.drag.el[1], l, staged)
    BY <1>5, <2>1 DEF Served
  <2>3. \/ UNCHANGED server
        \/ /\ place' \in [Cards -> Places] /\ clock' = clock + 1
           /\ hist' \in [Cards -> 0 .. clock'] /\ stamp' \in [Cards -> 0 .. clock']
    BY <2>1, <2>2, ChangeTells
  <2>4. \E a \in {"ok", "no"} : moves' = (moves \ {m}) \cup {[m EXCEPT !.answer = a]}
    BY <1>5 DEF Served
  <2>5. moves' \subseteq Moves
    BY <2>1, <2>4 DEF ScreenTypes, Moves
  <2>6. /\ place' \in [Cards -> Places] /\ clock' \in Nat
        /\ hist' \in [Cards -> 0 .. clock'] /\ stamp' \in [Cards -> 0 .. clock']
        /\ Marks \subseteq Marks' /\ 0 .. clock \subseteq 0 .. clock'
    BY <2>3, ServerKeepsTypes
  <2>7. UNCHANGED <<events, client, finger, screen>>
    BY <1>5 DEF Served
  <2>8. mail' \in Seq({"ready", "changed"} \X Marks')
    BY <2>6, <2>7, MailGrows DEF events
  <2> QED BY <2>5, <2>6, <2>7, <2>8 DEF ScreenTypes, events, client, screen
<1>6. ASSUME NEW m \in moves, Answered(m) PROVE ScreenTypes'
  <2>1. m.drag \in Drags
    BY FingerMoves
  <2>2. Settled /\ finger' = finger /\ finger \in Drags \cup {NoDrag}
    BY <1>6 DEF Answered, ScreenTypes
  <2>3. fetch' \in [Slots -> Fetches] /\ waiting' \in BOOLEAN /\ pending' \in BOOLEAN
    BY <2>2, SettledKeeps
  <2>4. shown' \subseteq Cells \X Lanes
    BY <1>6, <2>1, HomeType DEF Answered, ScreenTypes
  <2> QED BY <1>6, <2>3, <2>4, OthersTypes DEF Answered, ScreenTypes, events
<1> QED BY <1>1, <1>2, <1>3, <1>4, <1>5, <1>6

(* Types, in every step. *)
LEMMA ScreenTypesKeep ==
  ASSUME ScreenTypes, Faithful, ScreenNext
  PROVE  ScreenTypes'
BY ServerTypes, EventTypes, RedrawTypes, HandTypes DEF ScreenNext

(* Events *)

(* Hearing an event, the page knows its mark, whatever else it does. *)
LEMMA ReceiveLearns ==
  ASSUME ScreenTypes, Receive
  PROVE  seen' = Head(mail)[2] /\ Head(mail)[2] \in Marks /\ Known' = Head(mail)[2]
<1>1. mail # <<>> /\ mail \in Seq({"ready", "changed"} \X Marks)
  BY DEF Receive, ScreenTypes
<1>2. Head(mail) \in {"ready", "changed"} \X Marks
  <2> DEFINE E == {"ready", "changed"} \X Marks
  <2> HIDE DEF E
  <2> QED BY <1>1 DEF E
<1>3. Head(mail)[2] \in Marks
  BY <1>2
<1>4. seen' = Head(mail)[2]
  BY DEF Receive, Ready, Changed
<1> QED BY <1>3, <1>4 DEF Known, NoMark, Marks

(* Marks come in the order they were told, and none is lost on an open stream. *)
LEMMA ToldKeeps ==
  ASSUME ScreenTypes, Told, ScreenNext
  PROVE  Told'
<1>1. CASE UNCHANGED <<stream, mail, seen>>
  BY <1>1 DEF Told, Known
<1>2. Mark \in Marks /\ Off \notin Marks
  BY MarkType DEF Marks, Off
<1>3. CASE Tell
  <2>1. stream' = Mark /\ mail' = Append(mail, <<"changed", Mark>>) /\ stream' # Off
    BY <1>2, <1>3 DEF Tell
  <2>2. mail' # <<>> /\ mail'[Len(mail')] = <<"changed", Mark>>
    <3> DEFINE E == {"ready", "changed"} \X Marks
               e == <<"changed", Mark>>
    <3>1. mail \in Seq(E) /\ e \in E
      BY <1>2 DEF ScreenTypes
    <3>2. mail' = Append(mail, e)
      BY <2>1
    <3> HIDE DEF E, e
    <3>3. mail' # <<>> /\ mail'[Len(mail')] = e
      BY <3>1, <3>2
    <3> QED BY <3>3 DEF e
  <2> QED BY <2>1, <2>2 DEF Told
<1>4. CASE Break
  BY <1>4 DEF Break, Told
<1>5. CASE Connect
  BY <1>2, <1>5 DEF Connect, Told
<1>6. CASE Receive
  <2>1. stream # Off /\ mail # <<>> /\ mail' = Tail(mail) /\ stream' = stream
    BY <1>6 DEF Receive, Told
  <2>2. stream = mail[Len(mail)][2]
    BY <2>1 DEF Told
  <2>3. Known' = Head(mail)[2]
    BY <1>6, ReceiveLearns
  <2> DEFINE E == {"ready", "changed"} \X Marks
  <2>4. mail \in Seq(E)
    BY DEF ScreenTypes
  <2> HIDE DEF E
  <2>5. CASE Tail(mail) = <<>>
    <3>1. Len(Tail(mail)) = Len(mail) - 1 /\ Head(mail) = mail[1] /\ Len(mail) \in Nat
      BY <2>1, <2>4, HeadTailProperties
    <3>2. Len(mail) = 1
      <4>1. Len(Tail(mail)) = 0
        BY <2>5, EmptySeq
      <4> QED BY <3>1, <4>1
    <3>3. mail[Len(mail)] = Head(mail)
      BY <3>1, <3>2
    <3> QED BY <2>1, <2>2, <2>3, <2>5, <3>3 DEF Told
  <2>6. CASE Tail(mail) # <<>>
    <3>1. Tail(mail)[Len(Tail(mail))] = mail[Len(mail)]
      BY <2>1, <2>4, <2>6
    <3> QED BY <2>1, <2>2, <2>6, <3>1 DEF Told
  <2> QED BY <2>5, <2>6
<1>7. UNCHANGED <<stream, mail, seen>> \/ Tell \/ Break \/ Connect \/ Receive
  BY DEF ScreenNext, Elsewhere, Delete, Hide, Unhide, Retry, Call, Render, Drawn, FetchFails, Press,
     Lift, PutBack, Drop, Served, Answered, events, client
<1> QED BY <1>1, <1>3, <1>4, <1>5, <1>6, <1>7

(* A page that is made stays a page of its time. *)
LEMMA FaithfulKeeps ==
  ASSUME ScreenTypes, Faithful, ScreenNext
  PROVE  Faithful'
<1>1. CASE FetchGrows /\ UNCHANGED <<place, clock>>
  BY <1>1, GrowthKeeps
<1>2. CASE UNCHANGED fetch
  <2>1. CASE UNCHANGED <<place, clock>>
    BY <1>2, <2>1 DEF Faithful
  <2>2. CASE clock' = clock + 1
    <3>1. \A s \in Slots : fetch[s].time \in Nat
      BY DEF ScreenTypes, Fetches
    <3>2. clock \in Nat
      BY DEF ScreenTypes
    <3> QED BY <1>2, <2>2, <3>1, <3>2 DEF Faithful
  <2>3. UNCHANGED <<place, clock>> \/ clock' = clock + 1
    BY DEF ScreenNext, Elsewhere, Delete, Hide, Unhide, Retry, Call, Render, Drawn, FetchFails,
       Press, Lift, PutBack, Drop, Served, Answered, Tell, Break, Connect, Receive, Change, server
  <2> QED BY <2>1, <2>2, <2>3
<1>3. ASSUME NEW s \in Slots, Render(s) PROVE Faithful'
  <2> DEFINE x == [fetch[s] EXCEPT !.at = "rendered", !.view = place, !.time = clock]
  <2>1. fetch' = [fetch EXCEPT ![s] = x] /\ UNCHANGED <<place, clock>>
    BY <1>3 DEF Render, server
  <2>2. x.view = place /\ x.time = clock
    <3>1. fetch[s] \in Fetches
      BY DEF ScreenTypes
    <3> QED BY <3>1 DEF Fetches
  <2> HIDE DEF x
  <2>3. fetch'[s] = x /\ \A r \in Slots \ {s} : fetch'[r] = fetch[r]
    BY <2>1 DEF ScreenTypes
  <2>4. place \in [Cards -> Places] /\ clock \in Nat
    BY DEF ScreenTypes
  <2> QED BY <2>1, <2>2, <2>3, <2>4 DEF Faithful
<1>4. ASSUME NEW s \in Slots, fetch' = [fetch EXCEPT ![s] = NoFetch], UNCHANGED <<place, clock>>
      PROVE  Faithful'
  <2>1. fetch'[s].at = "none" /\ \A r \in Slots \ {s} : fetch'[r] = fetch[r]
    BY <1>4, EndedKeeps DEF NoFetch
  <2> QED BY <1>4, <2>1 DEF Faithful
<1>5. ASSUME NEW s \in Slots, Drawn(s) \/ FetchFails(s) PROVE Faithful'
  BY <1>4, <1>5 DEF Drawn, FetchFails, After, server
<1>6. CASE Receive
  <2>1. FetchGrows
    <3>1. CASE Redraw(FALSE, "event")
      BY <3>1, RedrawKeeps DEF Reasons
    <3>2. CASE UNCHANGED fetch
      BY <3>2 DEF FetchGrows
    <3> QED BY <1>6, <3>1, <3>2 DEF Receive, Ready, Changed
  <2> QED BY <1>1, <1>6, <2>1 DEF Receive, server
<1>7. CASE Unhide \/ Retry \/ Call
  <2>1. FetchGrows
    <3>1. CASE \E by \in Reasons : Redraw(Held, by)
      BY <3>1, RedrawKeeps DEF Held
    <3>2. CASE UNCHANGED fetch
      BY <3>2 DEF FetchGrows
    <3>3. CASE Retry
      BY <3>3, AskKeeps DEF Retry, Reasons
    <3> QED BY <1>7, <3>1, <3>2, <3>3 DEF Unhide, Call, Reasons
  <2> QED BY <1>1, <1>7, <2>1 DEF Unhide, Retry, Call, server
<1>8. ASSUME PutBack \/ \E m \in moves : Answered(m) PROVE Faithful'
  <2>1. Settled /\ finger' \in Drags \cup {NoDrag}
    BY <1>8 DEF PutBack, Answered, ScreenTypes
  <2>2. UNCHANGED <<place, clock>>
    BY <1>8 DEF PutBack, Answered, server
  <2> QED BY <1>1, <2>1, <2>2, SettledKeeps
<1>9. CASE \/ \E c \in Cards : Elsewhere(c) \/ Delete(c)
           \/ Tell \/ Break \/ Connect \/ Hide \/ Lift
           \/ (\E x \in shown : Press(x)) \/ (\E l \in Lanes : Drop(l))
           \/ \E m \in moves : Served(m)
  BY <1>2, <1>9 DEF Elsewhere, Delete, Tell, Break, Connect, Hide, Lift, Press, Drop, Served, screen
<1> QED BY <1>3, <1>5, <1>6, <1>7, <1>8, <1>9 DEF ScreenNext

(* Where the cards are *)

(* Only the element that is moved changes its lane. *)
LEMMA MovedOnly ==
  ASSUME NEW el \in Cells, NEW l \in Lanes
  PROVE  \A e \in Cells, k \in Lanes :
           <<e, k>> \in Moved(el, l) <=> IF e = el THEN k = l ELSE <<e, k>> \in shown
BY DEF Moved

(* What does not move the cards and asks for pages only. *)
LEMMA AgreedStands ==
  ASSUME ScreenTypes, Faithful, Agreed,
         UNCHANGED <<server, hand, shown, page, drawn, excused, hidden>>, FetchGrows,
         Known' = Known, waiting => waiting',
         pending => pending' \/ waiting' \/ \E r \in Slots : fetch'[r].at = "asked",
         pending' => pending
  PROVE  Agreed'
<1> SUFFICES ASSUME excused' = {}
             PROVE  Owed' /\ UpToDate' /\ OfPage' /\ Once' /\ (drawn' = clock' => Content')
  BY DEF Agreed
<1>1. Owed /\ UpToDate /\ OfPage /\ Once /\ (drawn = clock => Content)
  BY DEF Agreed
<1>2. UNCHANGED <<place, hist, stamp, clock, finger, moves>>
  BY DEF server, hand
<1>3. Mark' = Mark
  BY <1>2 DEF Mark, Highest
<1>4. Held' = Held
  BY <1>2 DEF Held
<1>5. Owed'
  BY <1>1, <1>2, <1>4, GrowthKeeps DEF Owed
<1>6. UpToDate'
  BY <1>1, <1>2, <1>3, GrowthKeeps DEF UpToDate, Underway
<1>7. OfPage' /\ Once'
  BY <1>1, <1>2 DEF OfPage, Once
<1>8. drawn' = clock' => Content'
  BY <1>1, <1>2 DEF Content, InMove
<1> QED BY <1>5, <1>6, <1>7, <1>8

(* The board changed, and the mark says so. *)
LEMMA AgreedOnChange ==
  ASSUME ScreenTypes, Agreed, clock' = clock + 1, excused \subseteq excused',
         excused' = {} => Mark' # Known,
         UNCHANGED <<client, screen, finger>>,
         \/ moves' = moves
         \/ \E m \in moves, y \in Moves :
              moves' = (moves \ {m}) \cup {y} /\ y.drag = m.drag
  PROVE  Agreed'
<1> SUFFICES ASSUME excused' = {}
             PROVE  Owed' /\ UpToDate' /\ OfPage' /\ Once' /\ (drawn' = clock' => Content')
  BY DEF Agreed
<1>1. Owed /\ OfPage /\ Once
  BY DEF Agreed
<1>2. UNCHANGED <<seen, pending, hidden, fetch, shown, page, drawn>>
  BY DEF client, screen
<1>3. Held => Held'
  BY DEF Held
<1>4. Owed'
  BY <1>1, <1>2, <1>3 DEF Owed
<1>5. UpToDate'
  BY <1>2 DEF UpToDate, Known
<1>6. OfPage' /\ Once'
  BY <1>1, <1>2 DEF OfPage, Once
<1>7. drawn' # clock'
  BY <1>2 DEF ScreenTypes
<1> QED BY <1>4, <1>5, <1>6, <1>7

(* Agreed, when the board changes. *)
LEMMA ServerAgrees ==
  ASSUME ScreenTypes, Agreed, NEW c \in Cards, Elsewhere(c) \/ Delete(c)
  PROVE  Agreed'
<1>1. Known \in Marks
  BY MarkType
<1>2. CASE Elsewhere(c)
  <2>1. clock' = clock + 1 /\ Mark' \notin Marks
    BY <1>2, ChangeTells DEF Elsewhere
  <2>2. UNCHANGED <<client, screen, finger, moves, excused>>
    BY <1>2 DEF Elsewhere, hand
  <2> QED BY <1>1, <2>1, <2>2, AgreedOnChange
<1>3. CASE Delete(c)
  <2>1. clock' = clock + 1 /\ UNCHANGED <<client, screen, finger, moves>>
    BY <1>3 DEF Delete, hand
  <2>2. excused \subseteq excused' /\ (excused' = {} => Mark' # Known)
    BY <1>3 DEF Delete
  <2> QED BY <2>1, <2>2, AgreedOnChange
<1> QED BY <1>2, <1>3

(* Agreed, when events are told and heard. *)
LEMMA EventsAgree ==
  ASSUME ScreenTypes, Faithful, Agreed, Tell \/ Break \/ Connect \/ Receive
  PROVE  Agreed'
<1>1. CASE Tell \/ Break \/ Connect
  <2>1. UNCHANGED <<server, hand, shown, page, drawn, excused, hidden, seen, waiting, pending,
                    fetch>>
    BY <1>1 DEF Tell, Break, Connect, client, screen
  <2> QED BY <2>1, AgreedStands DEF Known, FetchGrows
<1>2. CASE Receive
  <2> DEFINE m == Head(mail)[2]
  <2>1. seen' = m /\ Known' = m /\ m \in Marks
    BY <1>2, ReceiveLearns
  <2>2. UNCHANGED <<server, hand, shown, page, drawn, hidden>> /\ (Ready(m) \/ Changed(m))
    BY <1>2 DEF Receive
  <2> HIDE DEF m
  <2> SUFFICES ASSUME excused' = {} PROVE Agreed'
    BY DEF Agreed
  <2>3. CASE Ready(m)
    <3>1. m = Known /\ UNCHANGED <<pending, waiting, fetch, excused>>
      BY <2>3 DEF Ready
    <3> QED BY <2>1, <2>2, <3>1, AgreedStands DEF FetchGrows
  <2>4. CASE Changed(m) /\ m = seen
    <3>1. UNCHANGED <<seen, pending, waiting, fetch, excused>>
      BY <2>4 DEF Changed
    <3> QED BY <2>2, <3>1, AgreedStands DEF FetchGrows, Known
  <2>5. CASE Changed(m) /\ m # seen
    <3>1. UNCHANGED excused /\ ~refreshing
      BY <2>5 DEF Changed
    <3>2. Owed /\ OfPage /\ Once /\ (drawn = clock => Content)
      BY <3>1 DEF Agreed
    <3>3. UNCHANGED <<place, clock, finger, moves>>
      BY <2>2 DEF server, hand
    <3>4. OfPage' /\ Once' /\ (drawn' = clock' => Content')
      BY <2>2, <3>2, <3>3 DEF OfPage, Once, Content, InMove
    <3>5. CASE hidden \/ Held
      <4>1. pending' = TRUE
        BY <2>5, <3>1, <3>5 DEF Changed
      <4>2. hidden' \/ Held'
        BY <2>2, <3>3, <3>5 DEF Held
      <4> QED BY <3>4, <4>1, <4>2 DEF Agreed, Owed, UpToDate
    <3>6. CASE ~(hidden \/ Held)
      <4>1. Redraw(FALSE, "event") /\ UNCHANGED pending
        BY <2>5, <3>1, <3>6 DEF Changed
      <4>2. FetchGrows /\ \E r \in Slots : fetch'[r].at = "asked"
        BY <4>1, RedrawKeeps DEF Reasons
      <4>3. UpToDate'
        BY <4>2 DEF UpToDate, Underway
      <4>4. Owed'
        BY <2>2, <3>2, <3>3, <4>1, <4>2, GrowthKeeps DEF Owed, Held
      <4> QED BY <3>4, <4>3, <4>4 DEF Agreed
    <3> QED BY <3>5, <3>6
  <2> QED BY <2>2, <2>3, <2>4, <2>5
<1> QED BY <1>1, <1>2

(* Agreed, when the page is asked for, made and drawn. *)
LEMMA RedrawsAgree ==
  ASSUME ScreenTypes, Faithful, Agreed,
         \/ Hide \/ Unhide \/ Retry \/ Call
         \/ \E s \in Slots : Render(s) \/ Drawn(s) \/ FetchFails(s)
  PROVE  Agreed'
<1> SUFFICES ASSUME excused' = {} PROVE Agreed'
  BY DEF Agreed
<1>1. ASSUME UNCHANGED <<server, hand, shown, page, drawn, excused>>
      PROVE  /\ OfPage' /\ Once' /\ (drawn' = clock' => Content')
             /\ Held' = Held /\ Mark' = Mark /\ Owed /\ UpToDate
             /\ UNCHANGED <<place, clock, finger, moves>>
  BY <1>1 DEF Agreed, OfPage, Once, Content, InMove, server, hand, Held, Mark, Highest
<1>2. CASE Hide
  <2>1. UNCHANGED <<server, hand, shown, page, drawn, excused>> /\ hidden'
        /\ UNCHANGED <<seen, pending, waiting, fetch>>
    BY <1>2 DEF Hide, screen
  <2> QED BY <1>1, <2>1 DEF Agreed, Owed, UpToDate, Underway, Known
<1>3. CASE Unhide
  <2>1. UNCHANGED <<server, hand, shown, page, drawn, excused, seen>>
    BY <1>3 DEF Unhide
  <2>2. OfPage' /\ Once' /\ (drawn' = clock' => Content') /\ Held' = Held /\ Mark' = Mark
        /\ UpToDate /\ UNCHANGED <<place, clock>>
    BY <1>1, <2>1
  <2>3. CASE pending
    <3>1. Redraw(Held, "visible") /\ pending' = ~Held
      BY <1>3, <2>3 DEF Unhide
    <3>2. /\ Held => waiting'
          /\ ~Held => \E r \in Slots : fetch'[r].at = "asked" /\ fetch'[r].by = "visible"
      BY <3>1, RedrawKeeps DEF Held, Reasons
    <3>3. UpToDate' /\ Owed'
      BY <3>1, <3>2 DEF UpToDate, Underway, Owed
    <3> QED BY <2>2, <3>3 DEF Agreed
  <2>4. CASE ~pending
    <3>1. UNCHANGED <<pending, waiting, fetch>>
      BY <1>3, <2>4 DEF Unhide
    <3>2. UpToDate' /\ Owed'
      BY <2>1, <2>2, <2>4, <3>1 DEF UpToDate, Underway, Owed, Known
    <3> QED BY <2>2, <3>2 DEF Agreed
  <2> QED BY <2>3, <2>4
<1>4. CASE Retry
  <2>1. UNCHANGED <<server, hand, shown, page, drawn, excused, seen, pending, hidden>>
    BY <1>4 DEF Retry
  <2>2. FetchGrows /\ \E r \in Slots : fetch'[r].at = "asked"
    BY <1>4, AskKeeps DEF Retry, Reasons
  <2>3. UpToDate'
    BY <2>2 DEF UpToDate, Underway
  <2>4. Owed'
    BY <1>1, <2>1, <2>2, GrowthKeeps DEF Owed
  <2> QED BY <1>1, <2>1, <2>3, <2>4 DEF Agreed
<1>5. CASE Call
  <2>1. UNCHANGED <<server, hand, shown, page, drawn, excused, seen, pending, hidden>>
        /\ Redraw(Held, "page")
    BY <1>5 DEF Call
  <2>2. FetchGrows /\ (waiting => waiting')
    BY <2>1, RedrawKeeps DEF Held, Reasons
  <2> QED BY <2>1, <2>2, AgreedStands DEF Known
<1>6. ASSUME NEW s \in Slots, Render(s) PROVE Agreed'
  <2> DEFINE x == [fetch[s] EXCEPT !.at = "rendered", !.view = place, !.time = clock]
  <2>1. fetch' = [fetch EXCEPT ![s] = x]
        /\ UNCHANGED <<server, hand, shown, page, drawn, excused, seen, pending, waiting, hidden>>
    BY <1>6 DEF Render, client
  <2>2. x.at = "rendered" /\ x.time = clock /\ x.by = fetch[s].by
    <3>1. fetch[s] \in Fetches
      BY DEF ScreenTypes
    <3> QED BY <3>1 DEF Fetches
  <2> HIDE DEF x
  <2>3. fetch'[s] = x /\ \A r \in Slots \ {s} : fetch'[r] = fetch[r]
    BY <2>1 DEF ScreenTypes
  <2>4. UpToDate'
    BY <1>1, <2>1, <2>2, <2>3 DEF UpToDate, Underway
  <2>5. Owed'
    BY <1>1, <2>1, <2>2, <2>3 DEF Owed
  <2> QED BY <1>1, <2>1, <2>4, <2>5 DEF Agreed
<1>7. ASSUME NEW s \in Slots, Drawn(s) PROVE Agreed'
  <2> DEFINE view == fetch[s].view
             time == fetch[s].time
  <2>1. /\ excused = {} /\ ~Held /\ ~(time < drawn) /\ Cleared(s) = {}
    BY <1>7 DEF Drawn
  <2>2. /\ UNCHANGED <<place, hist, stamp, clock, finger, moves, seen, waiting, hidden>>
        /\ page' = page + 1 /\ drawn' = time
        /\ shown' = {<<<<c, page + 1>>, view[c]>> : c \in {d \in Cards : view[d] # Gone}}
        /\ pending' = (pending /\ fetch[s].by = "page")
        /\ fetch' = [fetch EXCEPT ![s] = NoFetch]
    BY <1>7 DEF Drawn, After, server, hand
  <2>3. /\ view \in [Cards -> Places] /\ time <= clock /\ time \in Nat
        /\ time = clock => view = place
    <3>1. fetch[s].at = "rendered" /\ fetch[s] \in Fetches
      BY <1>7 DEF Drawn, ScreenTypes
    <3>2. time \in Nat
      BY <3>1 DEF Fetches
    <3> QED BY <3>1, <3>2 DEF Faithful
  <2>4. pending /\ ~pending' => time = clock
    <3>1. pending /\ ~pending' => ~(time < clock)
      BY <2>1 DEF Cleared
    <3>2. clock \in Nat
      BY DEF ScreenTypes
    <3> HIDE DEF time
    <3> QED BY <2>3, <3>1, <3>2
  <2> HIDE DEF view
  <2>5. \A r \in Slots \ {s} : fetch'[r] = fetch[r]
    BY <2>2, EndedKeeps
  <2>6. Owed /\ UpToDate /\ finger = NoDrag /\ moves = {}
    BY <2>1 DEF Agreed, Held
  <2>7. Mark' = Mark /\ Known' = Known /\ Held' = Held
    BY <2>2 DEF Mark, Highest, Known, Held
  <2>8. Owed'
    BY <2>1, <2>2, <2>5, <2>6 DEF Owed, Held
  <2>9. UpToDate'
    <3>1. CASE drawn = clock
      <4>1. drawn \in Nat /\ clock \in Nat
        BY DEF ScreenTypes
      <4> HIDE DEF time
      <4>2. time = clock
        BY <2>1, <2>3, <3>1, <4>1
      <4> QED BY <2>2, <4>2 DEF UpToDate
    <3>2. CASE Underway
      <4>1. PICK r \in Slots : \/ fetch[r].at = "asked"
                               \/ fetch[r].at = "rendered" /\ fetch[r].time = clock
        BY <3>2 DEF Underway
      <4>2. CASE r = s
        BY <1>7, <2>2, <4>1, <4>2 DEF Drawn, UpToDate
      <4>3. CASE r # s
        BY <2>2, <2>5, <4>1, <4>3 DEF UpToDate, Underway
      <4> QED BY <4>2, <4>3
    <3>3. CASE waiting \/ pending \/ Mark # Known
      BY <2>2, <2>4, <2>7, <3>3 DEF UpToDate
    <3> QED BY <2>6, <3>1, <3>2, <3>3 DEF UpToDate
  <2>10. OfPage' /\ Once'
    BY <2>2, <2>6 DEF OfPage, Once
  <2>11. drawn' = clock' => Content'
    <3> SUFFICES ASSUME time = clock PROVE Content'
      BY <2>2
    <3>1. view = place
      BY <2>3
    <3>2. \A c \in Cards, l \in Lanes : <<<<c, page'>>, l>> \in shown' <=> l = place[c]
      BY <2>2, <3>1, ScreenAssumption
    <3> QED BY <2>2, <2>6, <3>2 DEF Content
  <2> QED BY <2>8, <2>9, <2>10, <2>11 DEF Agreed
<1>8. ASSUME NEW s \in Slots, FetchFails(s) PROVE FALSE
  BY <1>8 DEF FetchFails
<1> QED BY <1>2, <1>3, <1>4, <1>5, <1>6, <1>7, <1>8

(* One element of the page is put into a lane. *)
LEMMA Landed ==
  ASSUME ScreenTypes, OfPage, NEW el \in Cells, el[2] = page, NEW l \in Lanes,
         shown' = Moved(el, l)
  PROVE  /\ \A c \in Cards, k \in Lanes :
              <<<<c, page>>, k>> \in shown' <=>
                IF c = el[1] THEN k = l ELSE <<<<c, page>>, k>> \in shown
         /\ \A x \in shown' : x[1][2] = page
<1>1. page \in Nat /\ el = <<el[1], page>>
  BY DEF ScreenTypes, Cells
<1>2. \A x \in shown : x[1][2] = page
  BY DEF OfPage
<1>3. ASSUME NEW c \in Cards, NEW k \in Lanes
      PROVE  <<<<c, page>>, k>> \in shown' <=>
               IF c = el[1] THEN k = l ELSE <<<<c, page>>, k>> \in shown
  <2>1. <<c, page>> \in Cells
    BY <1>1 DEF Cells
  <2>2. <<c, page>> = el <=> c = el[1]
    BY <1>1
  <2> QED BY <2>1, <2>2, MovedOnly
<1>4. \A x \in shown' : x[1][2] = page
  BY <1>2 DEF Moved
<1> QED BY <1>3, <1>4

(* What asks for the redraw that waited for a card. *)
LEMMA SettledAgrees ==
  ASSUME ScreenTypes, Faithful, Owed, UpToDate, Settled, finger' \in Drags \cup {NoDrag},
         UNCHANGED <<server, seen, drawn>>
  PROVE  Owed' /\ UpToDate'
<1>1. UNCHANGED <<place, hist, stamp, clock>>
  BY DEF server
<1>2. Mark' = Mark /\ Known' = Known
  BY <1>1 DEF Mark, Highest, Known
<1>3. FetchGrows /\ (waiting => waiting') /\ (pending' => pending /\ moves' # {})
      /\ (pending => pending' \/ waiting' \/ \E r \in Slots : fetch'[r].at = "asked")
  BY SettledKeeps
<1>4. Underway => Underway'
  BY <1>1, <1>3, GrowthKeeps
<1> QED BY <1>1, <1>2, <1>3, <1>4 DEF Owed, Held, UpToDate, Underway

(* Agreed, when a card is picked up and put down. *)
LEMMA HandAgrees ==
  ASSUME ScreenTypes, Faithful, Agreed,
         \/ \E x \in shown : Press(x)
         \/ Lift \/ PutBack
         \/ \E l \in Lanes : Drop(l)
  PROVE  Agreed'
<1> SUFFICES ASSUME excused' = {} PROVE Agreed'
  BY DEF Agreed
<1>1. ASSUME NEW x \in shown, Press(x) PROVE Agreed'
  <2>1. excused = {} /\ ~ \E m \in moves : m.drag.el[1] = x[1][1]
    BY <1>1 DEF Press
  <2>2. /\ finger' = [el |-> x[1], home |-> x[2], next |-> Behind(x[1])]
        /\ UNCHANGED <<place, hist, stamp, clock, moves, seen, pending, waiting, hidden>>
        /\ UNCHANGED <<shown, page, fetch, drawn>>
    BY <1>1 DEF Press, server, client, screen
  <2>3. Owed /\ UpToDate /\ OfPage /\ Once /\ (drawn = clock => Content)
    BY <2>1 DEF Agreed
  <2>4. x[1][1] \in Cards /\ x[2] \in Lanes /\ x = <<<<x[1][1], x[1][2]>>, x[2]>>
    BY DEF ScreenTypes, Cells
  <2>5. finger' # NoDrag
    BY <2>2, <2>4 DEF NoDrag, NoCard, Cards
  <2>6. Owed'
    BY <2>5 DEF Owed, Held
  <2>7. UpToDate'
    BY <2>2, <2>3 DEF UpToDate, Underway, Mark, Highest, Known
  <2>8. OfPage' /\ Once'
    BY <2>1, <2>2, <2>3 DEF OfPage, Once
  <2>9. ASSUME drawn = clock PROVE Content'
    <3>1. x[2] = place[x[1][1]]
      <4>1. x[1][2] = page
        BY <2>3 DEF OfPage
      <4> QED BY <2>1, <2>3, <2>4, <2>9, <4>1 DEF Content, InMove
    <3> QED BY <2>2, <2>3, <2>9, <3>1 DEF Content, InMove
  <2> QED BY <2>2, <2>6, <2>7, <2>8, <2>9 DEF Agreed
<1>2. CASE Lift
  <2>1. excused = {} /\ ~pending /\ finger' = NoDrag
        /\ UNCHANGED <<place, hist, stamp, clock, moves, seen, pending, waiting, hidden>>
        /\ UNCHANGED <<shown, page, fetch, drawn>>
    BY <1>2 DEF Lift, server, client, screen
  <2>2. Owed /\ UpToDate /\ OfPage /\ Once /\ (drawn = clock => Content)
    BY <2>1 DEF Agreed
  <2>3. Owed' /\ UpToDate'
    BY <2>1, <2>2 DEF Owed, UpToDate, Underway, Mark, Highest, Known
  <2>4. OfPage'
    BY <2>1, <2>2 DEF OfPage
  <2>5. Once'
    <3>1. \A m \in moves : m.drag.el[1] # 0
      BY FingerMoves, ScreenAssumption DEF Cards
    <3> QED BY <2>1, <2>2, <3>1 DEF Once, NoDrag, NoCard
  <2>6. drawn' = clock' => Content'
    BY <2>1, <2>2 DEF Content, InMove
  <2> QED BY <2>3, <2>4, <2>5, <2>6 DEF Agreed
<1>3. CASE PutBack
  <2>1. /\ excused = {} /\ ~Homeless(finger) /\ finger # NoDrag /\ finger' = NoDrag
        /\ shown' = Home(finger) /\ Settled
        /\ UNCHANGED <<server, place, clock, moves, seen, page, drawn>>
    BY <1>3 DEF PutBack, server
  <2>2. Owed /\ UpToDate /\ OfPage /\ Once /\ (drawn = clock => Content)
    BY <2>1 DEF Agreed
  <2>3. /\ finger.el \in Cells /\ finger.el[1] \in Cards /\ finger.home \in Lanes
        /\ finger.el[2] = page
    BY <2>1, <2>2 DEF ScreenTypes, Drags, Cells, OfPage
  <2>4. shown' = Moved(finger.el, finger.home)
    BY <2>1, <2>3 DEF Home
  <2>5. /\ \A c \in Cards, k \in Lanes : <<<<c, page>>, k>> \in shown' <=>
              IF c = finger.el[1] THEN k = finger.home ELSE <<<<c, page>>, k>> \in shown
        /\ \A x \in shown' : x[1][2] = page
    BY <2>2, <2>3, <2>4, Landed
  <2>6. Owed' /\ UpToDate'
    BY <2>1, <2>2, SettledAgrees
  <2>7. OfPage'
    BY <2>1, <2>2, <2>5 DEF OfPage
  <2>8. \A m \in moves : m.drag.el[1] \in Cards /\ m.drag.el[1] # 0
    BY FingerMoves, ScreenAssumption DEF Cards
  <2>9. Once'
    BY <2>1, <2>2, <2>8 DEF Once, NoDrag, NoCard
  <2>10. drawn' = clock' => Content'
    <3> SUFFICES ASSUME drawn = clock PROVE Content'
      BY <2>1
    <3>1. Content /\ finger.home = place[finger.el[1]]
      BY <2>1, <2>2 DEF Content
    <3>2. \A m \in moves : m.drag.el[1] # finger.el[1]
      BY <2>2 DEF Once
    <3>3. \A m \in moves, l \in Lanes : <<<<m.drag.el[1], page>>, l>> \in shown' <=> l = m.to
      BY <2>5, <2>8, <3>1, <3>2 DEF Content
    <3>4. \A c \in Cards, l \in Lanes :
            ~InMove(c) => (<<<<c, page>>, l>> \in shown' <=> l = place[c])
      BY <2>5, <3>1 DEF Content
    <3> QED BY <2>1, <3>1, <3>3, <3>4 DEF Content, InMove
  <2> QED BY <2>6, <2>7, <2>9, <2>10 DEF Agreed
<1>4. ASSUME NEW l \in Lanes, Drop(l) PROVE Agreed'
  <2> DEFINE n == [drag |-> finger, to |-> l, answer |-> "due"]
  <2>1. /\ excused = {} /\ finger # NoDrag /\ finger' = NoDrag
        /\ shown' = Moved(finger.el, l) /\ moves' = moves \cup {n}
        /\ l # finger.home \/ finger.el[2] # page
        /\ UNCHANGED <<place, hist, stamp, clock, seen, pending, waiting, hidden>>
        /\ UNCHANGED <<page, fetch, drawn>>
    BY <1>4 DEF Drop, server, client
  <2>2. Owed /\ UpToDate /\ OfPage /\ Once /\ (drawn = clock => Content)
    BY <2>1 DEF Agreed
  <2>3. /\ finger.el \in Cells /\ finger.el[1] \in Cards /\ finger.home \in Lanes
        /\ finger.el[2] = page
    BY <2>1, <2>2 DEF ScreenTypes, Drags, Cells, OfPage
  <2>4. n.drag = finger /\ n.to = l /\ n.answer = "due"
    OBVIOUS
  <2> HIDE DEF n
  <2>5. /\ \A c \in Cards, k \in Lanes : <<<<c, page>>, k>> \in shown' <=>
              IF c = finger.el[1] THEN k = l ELSE <<<<c, page>>, k>> \in shown
        /\ \A x \in shown' : x[1][2] = page
    BY <2>1, <2>2, <2>3, Landed
  <2>6. Owed'
    BY <2>1 DEF Owed, Held
  <2>7. UpToDate'
    BY <2>1, <2>2 DEF UpToDate, Underway, Mark, Highest, Known
  <2>8. OfPage'
    BY <2>1, <2>2, <2>3, <2>4, <2>5 DEF OfPage
  <2>9. \A m \in moves : m.drag.el[1] \in Cards /\ m.drag.el[1] # 0
    BY FingerMoves, ScreenAssumption DEF Cards
  <2>10. finger.el[1] # 0
    BY <2>3, ScreenAssumption DEF Cards
  <2>11. \A m \in moves : m.drag.el[1] # finger.el[1]
    BY <2>2 DEF Once
  <2>12. Once'
    BY <2>1, <2>2, <2>4, <2>9, <2>10, <2>11 DEF Once, NoDrag, NoCard
  <2>13. drawn' = clock' => Content'
    <3> SUFFICES ASSUME drawn = clock PROVE Content'
      BY <2>1
    <3>1. Content /\ finger.home = place[finger.el[1]]
      BY <2>1, <2>2 DEF Content
    <3>2. \A m \in moves' :
             m.drag.home = place[m.drag.el[1]] /\ m.answer # "ok" /\ m.to # m.drag.home
      BY <2>1, <2>3, <2>4, <3>1 DEF Content
    <3>3. ASSUME NEW m \in moves', NEW k \in Lanes
          PROVE  <<<<m.drag.el[1], page>>, k>> \in shown' <=> k = m.to
      <4>1. CASE m = n
        BY <2>3, <2>4, <2>5, <4>1
      <4>2. CASE m # n
        <5>1. m \in moves
          BY <2>1, <4>2
        <5> QED BY <2>5, <2>9, <2>11, <3>1, <5>1 DEF Content
      <4> QED BY <4>1, <4>2
    <3>4. ASSUME NEW c \in Cards, NEW k \in Lanes, ~ \E m \in moves' : m.drag.el[1] = c
          PROVE  <<<<c, page>>, k>> \in shown' <=> k = place[c]
      <4>1. c # finger.el[1] /\ ~InMove(c)
        BY <2>1, <2>4, <3>4 DEF InMove
      <4> QED BY <2>5, <3>1, <4>1 DEF Content
    <3> QED BY <2>1, <3>2, <3>3, <3>4 DEF Content, InMove
  <2> QED BY <2>6, <2>7, <2>8, <2>12, <2>13 DEF Agreed
<1> QED BY <1>1, <1>2, <1>3, <1>4

(* Agreed, when the server answers a move. *)
LEMMA MovesAgree ==
  ASSUME ScreenTypes, Faithful, Agreed, NEW m \in moves, Served(m) \/ Answered(m)
  PROVE  Agreed'
<1> DEFINE c == m.drag.el[1]
<1> SUFFICES ASSUME excused' = {} PROVE Agreed'
  BY DEF Agreed
<1>0. c \in Cards /\ m \in Moves /\ m.drag \in Drags /\ m.to \in Lanes
  BY FingerMoves
<1>1. CASE Served(m)
  <2>1. UNCHANGED <<client, screen, finger>> /\ excused' = excused /\ excused = {}
    BY <1>1 DEF Served
  <2>2. Owed /\ UpToDate /\ OfPage /\ Once /\ (drawn = clock => Content)
    BY <2>1 DEF Agreed
  <2>3. PICK a \in {"ok", "no"} :
          /\ moves' = (moves \ {m}) \cup {[m EXCEPT !.answer = a]}
          /\ \/ \E l \in Lanes, staged \in BOOLEAN : Change(c, l, staged)
             \/ UNCHANGED server /\ (a = "ok" => place[c] = m.to)
    BY <1>0, <1>1 DEF Served
  <2> DEFINE y == [m EXCEPT !.answer = a]
  <2>4. y \in Moves /\ y.drag = m.drag /\ y.to = m.to /\ y.answer = a
    BY <1>0 DEF Moves
  <2>5. moves' = (moves \ {m}) \cup {y}
    BY <2>3
  <2> HIDE DEF y, c
  <2>6. CASE \E l \in Lanes, staged \in BOOLEAN : Change(c, l, staged)
    <3>1. clock' = clock + 1 /\ Mark' \notin Marks
      BY <1>0, <2>6, ChangeTells
    <3>2. Mark' # Known
      BY <3>1, MarkType
    <3> QED BY <2>1, <2>4, <2>5, <3>1, <3>2, AgreedOnChange
  <2>7. CASE UNCHANGED server /\ (a = "ok" => place[c] = m.to)
    <3>1. /\ UNCHANGED <<place, hist, stamp, clock>>
          /\ UNCHANGED <<seen, pending, waiting, hidden, shown, page, fetch, drawn>>
      BY <2>1, <2>7 DEF server, client, screen
    <3>2. Owed' /\ UpToDate'
      BY <2>1, <2>2, <2>5, <3>1 DEF Owed, Held, UpToDate, Underway, Mark, Highest, Known
    <3>3. OfPage' /\ Once'
      BY <2>1, <2>2, <2>4, <2>5, <3>1 DEF OfPage, Once
    <3>4. drawn' = clock' => Content'
      <4> SUFFICES ASSUME drawn = clock PROVE Content'
        BY <3>1
      <4>1. Content /\ m.drag.home = place[c] /\ m.to # m.drag.home
        BY <2>2 DEF Content, c
      <4>2. a # "ok"
        BY <2>7, <4>1
      <4>3. \A n \in moves' :
               n.drag.home = place[n.drag.el[1]] /\ n.answer # "ok" /\ n.to # n.drag.home
        BY <2>4, <2>5, <4>1, <4>2 DEF Content, c
      <4>4. \A n \in moves', l \in Lanes : <<<<n.drag.el[1], page>>, l>> \in shown <=> l = n.to
        BY <2>4, <2>5, <4>1 DEF Content
      <4>5. \A d \in Cards : (\E n \in moves' : n.drag.el[1] = d) <=> InMove(d)
        BY <2>4, <2>5 DEF InMove
      <4> QED BY <2>1, <3>1, <4>1, <4>3, <4>4, <4>5 DEF Content, InMove
    <3> QED BY <3>2, <3>3, <3>4 DEF Agreed
  <2> QED BY <2>3, <2>6, <2>7
<1>2. CASE Answered(m)
  <2>1. /\ excused = {} /\ (m.answer = "no" => ~Homeless(m.drag)) /\ m.answer # "due"
        /\ finger' = finger /\ moves' = moves \ {m} /\ Settled
        /\ shown' = IF m.answer = "ok" THEN shown ELSE Home(m.drag)
        /\ UNCHANGED <<server, place, clock, seen, page, drawn>>
    BY <1>2 DEF Answered, server
  <2>2. Owed /\ UpToDate /\ OfPage /\ Once /\ (drawn = clock => Content)
    BY <2>1 DEF Agreed
  <2>3. m.drag.el \in Cells /\ m.drag.home \in Lanes /\ m.drag.el[2] = page
    BY <1>0, <2>2 DEF Drags, OfPage
  <2>4. Owed' /\ UpToDate'
    <3>1. finger' \in Drags \cup {NoDrag}
      BY <2>1 DEF ScreenTypes
    <3> QED BY <2>1, <2>2, <3>1, SettledAgrees
  <2>5. m.answer # "ok" =>
          /\ \A d \in Cards, k \in Lanes : <<<<d, page>>, k>> \in shown' <=>
                IF d = c THEN k = m.drag.home ELSE <<<<d, page>>, k>> \in shown
          /\ \A x \in shown' : x[1][2] = page
    <3> SUFFICES ASSUME m.answer # "ok"
                 PROVE  /\ \A d \in Cards, k \in Lanes : <<<<d, page>>, k>> \in shown' <=>
                             IF d = c THEN k = m.drag.home ELSE <<<<d, page>>, k>> \in shown
                        /\ \A x \in shown' : x[1][2] = page
      OBVIOUS
    <3>1. m.answer = "no"
      BY <1>0, <2>1 DEF Moves
    <3>2. shown' = Moved(m.drag.el, m.drag.home)
      BY <2>1, <2>3, <3>1 DEF Home
    <3> QED BY <2>2, <2>3, <3>2, Landed
  <2> HIDE DEF c
  <2>6. OfPage' /\ Once'
    BY <2>1, <2>2, <2>5 DEF OfPage, Once
  <2>7. drawn' = clock' => Content'
    <3> SUFFICES ASSUME drawn = clock PROVE Content'
      BY <2>1
    <3>1. Content /\ m.drag.home = place[c] /\ m.answer # "ok"
      BY <2>1, <2>2 DEF Content, c
    <3>2. \A n \in moves \ {m} : n.drag.el[1] # c /\ n.drag.el[1] \in Cards
      BY <2>2, FingerMoves DEF Once, c
    <3>3. \A n \in moves', l \in Lanes : <<<<n.drag.el[1], page>>, l>> \in shown' <=> l = n.to
      BY <2>1, <2>5, <3>1, <3>2 DEF Content
    <3>4. ASSUME NEW d \in Cards, NEW l \in Lanes, ~ \E n \in moves' : n.drag.el[1] = d
          PROVE  <<<<d, page>>, l>> \in shown' <=> l = place[d]
      <4>1. CASE d = c
        BY <2>5, <3>1, <4>1
      <4>2. CASE d # c
        <5>1. ~InMove(d)
          BY <2>1, <3>4, <4>2 DEF InMove, c
        <5> QED BY <2>5, <3>1, <4>2, <5>1 DEF Content
      <4> QED BY <4>1, <4>2
    <3> QED BY <2>1, <3>1, <3>3, <3>4 DEF Content, InMove
  <2> QED BY <2>4, <2>6, <2>7 DEF Agreed
<1> QED BY <1>1, <1>2

(* The invariant holds at first, *)
LEMMA ScreenInvStarts ==
  ASSUME ScreenInit
  PROVE  ScreenInv
<1>1. ScreenTypes
  <2>1. NoFetch \in Fetches
    BY DEF NoFetch, Fetches, Views
  <2>2. shown \subseteq Cells \X Lanes
    BY DEF ScreenInit, Cells
  <2>3. mail \in Seq({"ready", "changed"} \X Marks)
    BY DEF ScreenInit
  <2>4. place \in [Cards -> Places] /\ clock \in Nat
        /\ hist \in [Cards -> 0 .. clock] /\ stamp \in [Cards -> 0 .. clock]
        /\ page \in Nat /\ drawn \in 0 .. clock
    BY DEF ScreenInit, Places
  <2>5. fetch \in [Slots -> Fetches]
    BY <2>1 DEF ScreenInit
  <2>6. /\ stream = Off /\ seen = NoMark /\ finger = NoDrag /\ moves = {}
        /\ pending = FALSE /\ refreshing = FALSE /\ waiting = FALSE /\ hidden = FALSE
    BY DEF ScreenInit
  <2> QED BY <2>2, <2>3, <2>4, <2>5, <2>6 DEF ScreenTypes
<1>2. Told
  BY DEF ScreenInit, Told
<1>3. Faithful
  BY DEF ScreenInit, Faithful, NoFetch
<1>4. Agreed
  <2>1. \A c \in Cards, l \in Lanes : <<<<c, 0>>, l>> \in shown <=> l = place[c]
    BY DEF ScreenInit
  <2> QED BY <2>1 DEF ScreenInit, Agreed, Owed, UpToDate, OfPage, Once, Content, InMove
<1> QED BY <1>1, <1>2, <1>3, <1>4 DEF ScreenInv

(* is kept by every step, *)
LEMMA ScreenInvStays ==
  ASSUME ScreenInv, [ScreenNext]_screenVars
  PROVE  ScreenInv'
<1>1. CASE ScreenNext
  <2>1. ScreenTypes' /\ Told' /\ Faithful'
    BY <1>1, ScreenTypesKeep, ToldKeeps, FaithfulKeeps DEF ScreenInv
  <2>2. Agreed'
    BY <1>1, ServerAgrees, EventsAgree, RedrawsAgree, HandAgrees, MovesAgree
       DEF ScreenInv, ScreenNext
  <2> QED BY <2>1, <2>2 DEF ScreenInv
<1>2. CASE UNCHANGED screenVars
  <2>1. UNCHANGED <<place, hist, stamp, clock, stream, mail, seen, pending, refreshing, waiting,
                    hidden, finger, moves, shown, page, fetch, drawn, excused>>
    BY <1>2 DEF screenVars, server, events, client, hand, screen
  <2>2. Mark' = Mark /\ Known' = Known /\ Held' = Held /\ Marks' = Marks
    BY <2>1 DEF Mark, Highest, Known, Held, Marks
  <2>3. ScreenTypes' /\ Told' /\ Faithful'
    BY <2>1, <2>2 DEF ScreenInv, ScreenTypes, Told, Faithful
  <2>4. Agreed'
    BY <2>1, <2>2 DEF ScreenInv, Agreed, Owed, UpToDate, Underway, OfPage, Once, Content, InMove
  <2> QED BY <2>3, <2>4 DEF ScreenInv
<1> QED BY <1>1, <1>2

(* and says of a quiet board that its page is right. *)
LEMMA QuietIsCaughtUp ==
  ASSUME ScreenInv
  PROVE  CaughtUp
<1> SUFFICES ASSUME Quiet, excused = {}
             PROVE  shown = {<<<<c, page>>, place[c]>> : c \in {d \in Cards : place[d] # Gone}}
  BY DEF CaughtUp
<1>1. finger = NoDrag /\ moves = {} /\ ~waiting /\ ~hidden /\ mail = <<>> /\ stream = Mark
      /\ \A s \in Slots : fetch[s].at = "none" /\ fetch[s].by = "none"
  BY DEF Quiet, Held, NoFetch
<1>2. Mark = Known
  <2>1. Mark # Off
    BY MarkType DEF ScreenInv, ScreenTypes, Marks, Off
  <2> QED BY <1>1, <2>1 DEF ScreenInv, Told
<1>3. OfPage /\ ~pending /\ Content
  <2>1. Owed /\ UpToDate /\ OfPage /\ (drawn = clock => Content)
    BY DEF ScreenInv, Agreed
  <2>2. ~pending
    BY <1>1, <2>1 DEF Owed, Held
  <2> QED BY <1>1, <1>2, <2>1, <2>2 DEF UpToDate, Underway
<1>4. \A c \in Cards, l \in Lanes : <<<<c, page>>, l>> \in shown <=> l = place[c]
  BY <1>1, <1>3 DEF Content, InMove
<1>5. \A x \in shown : \E c \in Cards, l \in Lanes : x = <<<<c, page>>, l>>
  BY <1>3 DEF ScreenInv, ScreenTypes, Cells, OfPage
<1>6. \A c \in Cards : place[c] # Gone => place[c] \in Lanes
  BY DEF ScreenInv, ScreenTypes, Places
<1> QED BY <1>4, <1>5, <1>6, ScreenAssumption

(* When every event was told and every request has ended, the page of the board shows
   each card once and where the server has it, unless one of the ten things happened that
   kanban.js has no answer to: for every number of cards, every set of lanes, any number of
   pages under way and any number of changes. *)
THEOREM ScreenCatchesUp == ScreenSpec => []CaughtUp
<1>1. ScreenInit => ScreenInv
  BY ScreenInvStarts
<1>2. ScreenInv /\ [ScreenNext]_screenVars => ScreenInv'
  BY ScreenInvStays
<1>3. ScreenInv => CaughtUp
  BY QuietIsCaughtUp
<1> QED BY <1>1, <1>2, <1>3, PTL DEF ScreenSpec
=============================================================================
