---------------------------- MODULE QualityProofs ----------------------------
(***************************************************************************)
(* Proofs about Quality, for any objects, route, parameters, tasks,        *)
(* nonconformities and request threads, and about the two copies of the    *)
(* board that leave the house, TwinMirror and PointStream.                 *)
(***************************************************************************)
EXTENDS Quality, TwinMirror, PointStream, FiniteSetTheorems, WellFoundedInduction, TLAPS

Used(t) == task[t].status # "none"

(* What a card, a defect and a thread refer to is a row of its table. *)
Referenced ==
  /\ \A t \in Tasks : card[t] # "none" => Used(t)
  /\ \A n \in NCs : nc[n].status # "none" => nc[n].card \in Tasks /\ Used(nc[n].card)
  /\ \A h \in Threads : pending[h].op # "idle" => pending[h].task \in Tasks /\ Used(pending[h].task)
  /\ \A t \in Tasks : Used(t) => task[t].step \in Steps /\ quality[task[t].object] # "absent"

(* Only a manager closes a critical defect. *)
Approvals == \A n \in NCs : nc[n].status = "closed" /\ nc[n].critical => nc[n].approved

Cleared(o) == \A n \in NCs : DefectOf(n, o) /\ nc[n].critical => nc[n].approved

(* An object that is ready, or that a thread found without an open critical
   defect, has no defect a manager did not approve. *)
Clearance ==
  \A o \in Objects \ irregular :
    quality[o] = "ready_for_shipment" \/ BeingCompleted(o) => Cleared(o)

Live(t) == task[t].routed /\ task[t].status # "completed" /\ card[t] # "completed"

(* The open tasks of the route at a post. *)
OpenAt(o, s) ==
  {t \in Tasks : /\ task[t].routed /\ task[t].object = o /\ task[t].step = s
                 /\ task[t].status # "completed" /\ card[t] # "completed"}

(* The route's open tasks stand alone at their posts. *)
Alone ==
  /\ \A t \in Tasks : task[t].status = "completed" => card[t] = "completed"
  /\ \A t \in Tasks : task[t].routed => task[t].status \in {"assigned", "in_progress", "completed"}
  /\ \A t, u \in Tasks :
       /\ Live(t) /\ Live(u)
       /\ task[t].object = task[u].object /\ task[t].step = task[u].step
       => t = u

Rows == TypeOK /\ Referenced
IInv == Rows /\ Approvals /\ Clearance /\ StepsWereChecked /\ Alone

-----------------------------------------------------------------------------
(* The next step of the route *)

Below == {p \in Nat \X Nat : p[1] < p[2]}

LEMMA LeastExists ==
  ASSUME NEW S \in SUBSET Nat, S # {}
  PROVE  \E x \in S : \A y \in S : x <= y
<1>1. IsWellFoundedOn(Below, Nat)
  <2>1. Below = OpToRel(<, Nat)
    BY DEF Below, OpToRel
  <2> QED BY <2>1, NatLessThanWellFounded
<1>2. PICK x \in S : \A y \in S : <<y, x>> \notin Below
  BY <1>1, WFMin
<1>3. \A y \in S : x <= y
  <2>1. TAKE y \in S
  <2>2. /\ x \in Nat /\ y \in Nat /\ <<y, x>> \in Nat \X Nat
        /\ <<y, x>>[1] = y /\ <<y, x>>[2] = x
    OBVIOUS
  <2>3. ~ (y < x)
    BY <1>2, <2>2 DEF Below
  <2> QED BY <2>2, <2>3
<1> QED BY <1>3

LEMMA FirstIsLeast ==
  ASSUME NEW S \in SUBSET Required, S # {}
  PROVE  First(S) \in S /\ First(S) \in 0 .. LastStep /\ \A y \in S : First(S) <= y
<1>1. S \in SUBSET Nat /\ S \subseteq 0 .. LastStep
  BY RouteAssumption DEF Steps
<1>2. \E x \in S : \A y \in S : x <= y
  BY <1>1, LeastExists
<1>3. First(S) \in S /\ \A y \in S : First(S) <= y
  BY <1>2 DEF First
<1> QED BY <1>1, <1>3

LEMMA Route ==
  /\ First(Required) \in Required /\ First(Required) \in 0 .. LastStep
  /\ \A y \in Required : First(Required) <= y
  /\ \A s \in 0 .. LastStep : Later(s) # {} =>
       /\ First(Later(s)) \in Later(s) /\ First(Later(s)) \in 0 .. LastStep
       /\ \A y \in Later(s) : First(Later(s)) <= y
<1>1. \A s : Later(s) \in SUBSET Required
  BY DEF Later
<1> QED BY <1>1, RouteAssumption, FirstIsLeast

-----------------------------------------------------------------------------
(* Rows *)

LEMMA InitTypes ==
  ASSUME Init
  PROVE  TypeOK
<1>1. NoTask \in TaskRows
  BY ObjectsAssumption, RouteAssumption DEF NoTask, TaskRows, TaskStatuses
<1>2. NoPending \in PendingOps
  BY RouteAssumption DEF NoPending, PendingOps
<1> QED BY <1>1, <1>2, RouteAssumption
        DEF Init, TypeOK, Statuses, Values, NCRows, NCStatuses

(* A task row is written. *)
LEMMA TaskWrite ==
  ASSUME TypeOK, NEW t \in Tasks, NEW s \in TaskStatuses
  PROVE  [task EXCEPT ![t].status = s] \in [Tasks -> TaskRows]
BY DEF TypeOK, TaskRows

LEMMA TaskNew ==
  ASSUME NEW T \in [Tasks -> TaskRows], NEW t \in Tasks, NEW r \in TaskRows
  PROVE  [T EXCEPT ![t] = r] \in [Tasks -> TaskRows]
OBVIOUS

LEMMA TaskTypes ==
  ASSUME Rows, NEW h \in Threads, pending[h].op # "idle"
  PROVE  /\ pending[h].task \in Tasks /\ Used(pending[h].task)
         /\ task[pending[h].task] \in TaskRows
         /\ task[pending[h].task].object \in Objects
         /\ task[pending[h].task].step \in 0 .. LastStep
         /\ pending[h].step \in 0 .. LastStep
BY DEF Rows, Referenced, TypeOK, TaskRows, PendingOps

(* What complete_card makes of the object o at the step s, and of the tasks. *)
Outcome(t, o, s) ==
  /\ t \in Tasks /\ Used(t) /\ o \in Objects /\ task[t].step \in Steps
  /\ s \in 0 .. LastStep
  /\ \/ /\ \/ quality' = [quality EXCEPT ![o] = "blocked"]
           \/ quality' = [quality EXCEPT ![o] = "correction_required"]
        /\ UNCHANGED <<step, checked>>
     \/ /\ quality' = [quality EXCEPT ![o] = "awaiting_control"]
        /\ Later(s) # {} /\ step' = [step EXCEPT ![o] = First(Later(s))]
        /\ checked' = [checked EXCEPT ![o] = @ \cup {task[t].step}]
     \/ /\ quality' = [quality EXCEPT ![o] = "ready_for_shipment"]
        /\ Later(s) = {} /\ UNCHANGED step
        /\ checked' = [checked EXCEPT ![o] = @ \cup {task[t].step}]
  /\ \/ task' = Finished(t)
     \/ \E new \in Tasks :
          /\ ~ Used(new) /\ Later(s) # {}
          /\ ActiveAt(o, First(Later(s))) \ {t} = {}
          /\ task' = [Finished(t) EXCEPT ![new] = RoutedTask(o, First(Later(s)))]

LEMMA Completion ==
  ASSUME Rows, NEW h \in Threads, CompleteWrites(h)
  PROVE  Outcome(pending[h].task, task[pending[h].task].object, pending[h].step)
<1> DEFINE t == pending[h].task
           o == task[t].object
           s == pending[h].step
<1>1. /\ t \in Tasks /\ Used(t) /\ o \in Objects /\ task[t].step \in Steps
      /\ s \in 0 .. LastStep
  <2>1. pending[h].op # "idle"
    BY DEF CompleteWrites
  <2> QED BY <2>1, TaskTypes DEF Rows, Referenced
<1>2. CASE Deviates(h)
  BY <1>1, <1>2 DEF Deviates, Outcome
<1>3. CASE Advances(h)
  BY <1>1, <1>3 DEF Advances, Used, Outcome
<1>4. CASE Released(h)
  BY <1>1, <1>4 DEF Released, Outcome
<1> QED BY <1>2, <1>3, <1>4 DEF CompleteWrites

(* Rows in use keep their object, their post and who opened them. *)
Kept ==
  \A t \in Tasks : Used(t) =>
    /\ task'[t].status # "none" /\ task'[t].object = task[t].object
    /\ task'[t].step = task[t].step /\ task'[t].routed = task[t].routed

LEMMA CompletionKeeps ==
  ASSUME Rows, NEW h \in Threads, CompleteWrites(h)
  PROVE  Rows' /\ Kept
<1> USE DEF Rows
<1> DEFINE t == pending[h].task
           o == task[t].object
           s == pending[h].step
<1>1. /\ t \in Tasks /\ Used(t) /\ o \in Objects /\ task[t].step \in Steps
      /\ s \in 0 .. LastStep
      /\ \/ /\ \/ quality' = [quality EXCEPT ![o] = "blocked"]
               \/ quality' = [quality EXCEPT ![o] = "correction_required"]
            /\ UNCHANGED <<step, checked>>
         \/ /\ quality' = [quality EXCEPT ![o] = "awaiting_control"]
            /\ Later(s) # {} /\ step' = [step EXCEPT ![o] = First(Later(s))]
            /\ checked' = [checked EXCEPT ![o] = @ \cup {task[t].step}]
         \/ /\ quality' = [quality EXCEPT ![o] = "ready_for_shipment"]
            /\ Later(s) = {} /\ UNCHANGED step
            /\ checked' = [checked EXCEPT ![o] = @ \cup {task[t].step}]
      /\ \/ task' = Finished(t)
         \/ \E new \in Tasks :
              /\ ~ Used(new) /\ Later(s) # {}
              /\ ActiveAt(o, First(Later(s))) \ {t} = {}
              /\ task' = [Finished(t) EXCEPT ![new] = RoutedTask(o, First(Later(s)))]
  BY Completion DEF Outcome
<1>2. Finished(t) \in [Tasks -> TaskRows] /\ task \in [Tasks -> TaskRows]
  BY <1>1, TaskWrite DEF Finished, TaskStatuses, TypeOK
<1>3. /\ UNCHANGED <<values, nc>> /\ card' = [card EXCEPT ![t] = "completed"]
      /\ irregular' \subseteq irregular \cup {o} /\ irregular \subseteq irregular'
      /\ pending' = [pending EXCEPT ![h] = NoPending]
  BY DEF CompleteWrites
<1>4. \A u \in Tasks : /\ Finished(t)[u].object = task[u].object
                       /\ Finished(t)[u].step = task[u].step
                       /\ Finished(t)[u].routed = task[u].routed
                       /\ Finished(t)[u].status = IF u = t THEN "completed" ELSE task[u].status
  BY <1>1, <1>2 DEF Finished, TaskRows
<1>5. Later(s) # {} => RoutedTask(o, First(Later(s))) \in TaskRows /\ First(Later(s)) \in Steps
  BY <1>1, Route, RouteAssumption DEF RoutedTask, TaskRows, TaskStatuses, Later
<1>6. task' \in [Tasks -> TaskRows]
  BY <1>1, <1>2, <1>5, TaskNew
<1>7. quality' \in [Objects -> Statuses] /\ \A p \in Objects : quality[p] # "absent" => quality'[p] # "absent"
  BY <1>1 DEF TypeOK, Statuses
<1>8. step' \in [Objects -> 0 .. LastStep]
  <2>1. CASE UNCHANGED step
    BY <2>1 DEF TypeOK
  <2>2. CASE Later(s) # {} /\ step' = [step EXCEPT ![o] = First(Later(s))]
    <3>1. First(Later(s)) \in 0 .. LastStep
      BY <1>1, <2>2, Route
    <3> QED BY <2>2, <3>1 DEF TypeOK
  <2> QED BY <1>1, <2>1, <2>2
<1>9. checked' \in [Objects -> SUBSET Steps]
  <2>1. CASE UNCHANGED checked
    BY <2>1 DEF TypeOK
  <2>2. CASE checked' = [checked EXCEPT ![o] = @ \cup {task[t].step}]
    <3>1. checked[o] \cup {task[t].step} \in SUBSET Steps
      BY <1>1 DEF TypeOK
    <3> QED BY <2>2, <3>1 DEF TypeOK
  <2> QED BY <1>1, <2>1, <2>2
<1>10. pending' \in [Threads -> PendingOps]
  BY <1>3, RouteAssumption DEF NoPending, PendingOps, TypeOK
<1>11. TypeOK'
  BY <1>1, <1>3, <1>6, <1>7, <1>8, <1>9, <1>10 DEF TypeOK
<1>12. Kept
  <2>1. CASE task' = Finished(t)
    BY <1>4, <2>1 DEF Kept, Used
  <2>2. ASSUME NEW new \in Tasks, ~ Used(new),
               task' = [Finished(t) EXCEPT ![new] = RoutedTask(o, First(Later(s)))]
        PROVE  Kept
    BY <1>2, <1>4, <2>2 DEF Kept, Used
  <2> QED BY <1>1, <2>1, <2>2
<1>13. \A u \in Tasks : Used(u)' => task'[u].step \in Steps /\ quality'[task'[u].object] # "absent"
  <2>1. quality[o] # "absent"
    BY <1>1 DEF Referenced
  <2>2. \A u \in Tasks : Used(u) => task'[u].step \in Steps /\ quality'[task'[u].object] # "absent"
    BY <1>2, <1>7, <1>12 DEF Kept, Referenced, TaskRows
  <2>3. CASE task' = Finished(t)
    BY <1>1, <1>4, <2>2, <2>3 DEF Used
  <2>4. ASSUME NEW new \in Tasks, ~ Used(new), Later(s) # {},
               task' = [Finished(t) EXCEPT ![new] = RoutedTask(o, First(Later(s)))]
        PROVE  \A u \in Tasks : Used(u)' => /\ task'[u].step \in Steps
                                           /\ quality'[task'[u].object] # "absent"
    <3>1. task'[new] = RoutedTask(o, First(Later(s))) /\ \A u \in Tasks \ {new} : task'[u] = Finished(t)[u]
      BY <1>2, <2>4
    <3>2. task'[new].step \in Steps /\ task'[new].object = o
      BY <1>5, <2>4, <3>1 DEF RoutedTask
    <3>3. quality'[o] # "absent"
      BY <1>1, <1>7, <2>1
    <3>4. ASSUME NEW u \in Tasks \ {new}, Used(u)' PROVE Used(u)
      BY <1>1, <1>4, <3>1, <3>4 DEF Used
    <3> QED BY <2>2, <3>2, <3>3, <3>4
  <2> QED BY <1>1, <2>3, <2>4
<1>14. Referenced'
  BY <1>1, <1>3, <1>12, <1>13 DEF Referenced, Kept, Used, TypeOK, NoPending
<1> QED BY <1>11, <1>12, <1>14

(* An unused row becomes a task at a step of an object that exists by then. *)
LEMMA RowOpened ==
  ASSUME Rows, NEW new \in Tasks, ~ Used(new), NEW r \in TaskRows,
         r.status # "none", r.step \in Steps, quality'[r.object] # "absent",
         task' = [task EXCEPT ![new] = r],
         \A p \in Objects : quality[p] # "absent" => quality'[p] # "absent"
  PROVE  /\ task' \in [Tasks -> TaskRows] /\ Kept
         /\ \A u \in Tasks : Used(u)' => task'[u].step \in Steps /\ quality'[task'[u].object] # "absent"
<1>1. task \in [Tasks -> TaskRows]
  BY DEF Rows, TypeOK
<1>2. task'[new] = r /\ \A u \in Tasks \ {new} : task'[u] = task[u]
  BY <1>1
<1>3. Kept
  BY <1>2 DEF Kept, Used
<1>4. \A u \in Tasks \ {new} : Used(u)' => task'[u].step \in Steps /\ quality'[task'[u].object] # "absent"
  BY <1>1, <1>2 DEF Rows, Referenced, Used, TaskRows
<1> QED BY <1>1, <1>2, <1>3, <1>4, TaskNew

LEMMA CreateKeeps ==
  ASSUME Rows, NEW o \in Objects, Create(o)
  PROVE  Rows' /\ Kept
<1> USE DEF Rows
<1>1. PICK new \in Tasks : ~ Used(new) /\ task' = [task EXCEPT ![new] = RoutedTask(o, First(Required))]
  BY DEF Create, Used
<1>2. /\ quality' = [quality EXCEPT ![o] = "awaiting_control"]
      /\ step' = [step EXCEPT ![o] = First(Required)]
      /\ UNCHANGED <<card, values, nc, pending, checked, irregular>>
  BY DEF Create
<1>3. /\ RoutedTask(o, First(Required)) \in TaskRows
      /\ RoutedTask(o, First(Required)).status # "none"
      /\ RoutedTask(o, First(Required)).step \in Steps
      /\ RoutedTask(o, First(Required)).object = o
  BY Route, RouteAssumption DEF RoutedTask, TaskRows, TaskStatuses
<1>4. /\ quality' \in [Objects -> Statuses] /\ quality'[o] # "absent"
      /\ \A p \in Objects : quality[p] # "absent" => quality'[p] # "absent"
  BY <1>2 DEF TypeOK, Statuses
<1>5. /\ task' \in [Tasks -> TaskRows] /\ Kept
      /\ \A u \in Tasks : Used(u)' => task'[u].step \in Steps /\ quality'[task'[u].object] # "absent"
  BY <1>1, <1>3, <1>4, RowOpened
<1>6. TypeOK'
  BY <1>2, <1>4, <1>5, Route DEF TypeOK
<1>7. Referenced'
  BY <1>2, <1>5 DEF Referenced, Kept, Used, TypeOK
<1> QED BY <1>5, <1>6, <1>7

LEMMA ReinspectKeeps ==
  ASSUME Rows, NEW n \in NCs, Reinspect(n)
  PROVE  Rows' /\ Kept
<1> USE DEF Rows
<1> DEFINE t == nc[n].card
           r == [status |-> "awaiting_reinspection", object |-> task[t].object,
                 step |-> task[t].step, routed |-> FALSE]
<1>1. PICK new \in Tasks : ~ Used(new) /\ task' = [task EXCEPT ![new] = r]
  BY DEF Reinspect, Used
<1>2. /\ quality' = [quality EXCEPT ![task[t].object] = "awaiting_reinspection"]
      /\ nc[n].status # "none" /\ nc' = [nc EXCEPT ![n].status = "open"]
      /\ UNCHANGED <<step, card, values, pending, checked, irregular>>
  BY DEF Reinspect
<1>3. /\ t \in Tasks /\ Used(t) /\ task[t].object \in Objects /\ task[t].step \in Steps
      /\ quality[task[t].object] # "absent"
  BY <1>2 DEF Referenced, TypeOK, TaskRows
<1>4. r \in TaskRows
  BY <1>3, RouteAssumption DEF TaskRows, TaskStatuses, Steps
<1>5. /\ quality' \in [Objects -> Statuses]
      /\ \A p \in Objects : quality[p] # "absent" => quality'[p] # "absent"
  BY <1>2 DEF TypeOK, Statuses
<1>6. /\ task' \in [Tasks -> TaskRows] /\ Kept
      /\ \A u \in Tasks : Used(u)' => task'[u].step \in Steps /\ quality'[task'[u].object] # "absent"
  BY <1>1, <1>3, <1>4, <1>5, RowOpened
<1>7. nc' \in [NCs -> NCRows] /\ \A m \in NCs : nc'[m].card = nc[m].card
                             /\ (nc'[m].status # "none" => nc[m].status # "none")
  BY <1>2 DEF TypeOK, NCRows, NCStatuses
<1>8. TypeOK'
  BY <1>2, <1>5, <1>6, <1>7 DEF TypeOK
<1>9. Referenced'
  BY <1>2, <1>6, <1>7 DEF Referenced, Kept, Used, TypeOK
<1> QED BY <1>6, <1>8, <1>9

LEMMA StartKeeps ==
  ASSUME Rows, NEW h \in Threads, StartWrites(h)
  PROVE  Rows' /\ Kept
<1> USE DEF Rows
<1> DEFINE t == pending[h].task
           o == task[t].object
<1>1. t \in Tasks /\ Used(t) /\ o \in Objects
  BY TaskTypes DEF StartWrites
<1>2. /\ task' = [task EXCEPT ![t].status = "in_progress"]
      /\ quality' = [quality EXCEPT ![o] = "control_in_progress"]
      /\ card' = [card EXCEPT ![t] = IF @ = "none" THEN "draft" ELSE @]
      /\ pending' = [pending EXCEPT ![h] = NoPending]
      /\ irregular \subseteq irregular' /\ irregular' \subseteq irregular \cup {o}
      /\ UNCHANGED <<step, values, nc, checked>>
  BY DEF StartWrites
<1>3. task' \in [Tasks -> TaskRows]
  BY <1>1, <1>2, TaskWrite DEF TaskStatuses
<1>4. \A u \in Tasks : /\ task'[u].object = task[u].object /\ task'[u].step = task[u].step
                       /\ task'[u].routed = task[u].routed
                       /\ task'[u].status = IF u = t THEN "in_progress" ELSE task[u].status
  BY <1>1, <1>2 DEF TypeOK, TaskRows
<1>5. Kept
  BY <1>4 DEF Kept, Used
<1>6. pending' \in [Threads -> PendingOps] /\ card' \in [Tasks -> {"none", "draft", "completed"}]
      /\ quality' \in [Objects -> Statuses]
      /\ \A p \in Objects : quality[p] # "absent" => quality'[p] # "absent"
  BY <1>1, <1>2, RouteAssumption DEF NoPending, PendingOps, TypeOK, Statuses
<1>7. TypeOK'
  BY <1>1, <1>2, <1>3, <1>6 DEF TypeOK
<1>8. \A u \in Tasks : card'[u] # "none" => card[u] # "none" \/ u = t
  BY <1>2 DEF TypeOK
<1>9. \A g \in Threads : pending'[g].op # "idle" => pending'[g] = pending[g]
  BY <1>2 DEF NoPending, TypeOK
<1>10. \A u \in Tasks : Used(u)' => Used(u)
  BY <1>1, <1>4 DEF Used
<1>11. Referenced'
  BY <1>1, <1>2, <1>4, <1>5, <1>6, <1>8, <1>9, <1>10 DEF Referenced, Kept, Used, TypeOK, TaskRows
<1> QED BY <1>5, <1>7, <1>11

(* The steps that write no task. *)
LEMMA OthersKeep ==
  ASSUME Rows,
         \/ \E h \in Threads : \/ \E t \in Tasks : StartReads(h, t) \/ CompleteReads(h, t)
                              \/ CompleteRefused(h)
         \/ \E t \in Tasks, p \in Params, v \in Values : SaveResult(t, p, v)
         \/ \E n \in NCs :
               \/ \E t \in Tasks, critical, block \in BOOLEAN : Register(n, t, critical, block)
               \/ Assign(n)
               \/ \E boss \in BOOLEAN : Close(n, boss)
         \/ UNCHANGED vars
  PROVE  Rows' /\ Kept
<1> USE DEF Rows
<1>0. ASSUME task' = task PROVE Kept
  BY <1>0 DEF Kept, Used
<1>1. ASSUME NEW h \in Threads, NEW t \in Tasks, NEW r \in PendingOps,
             r.task = t, Used(t), pending' = [pending EXCEPT ![h] = r],
             UNCHANGED <<quality, step, task, card, values, nc, checked, irregular>>
      PROVE  Rows'
  BY <1>1 DEF TypeOK, Referenced, Used
<1>2. ASSUME NEW h \in Threads, NEW t \in Tasks, StartReads(h, t) PROVE Rows' /\ Kept
  <2>1. [NoPending EXCEPT !.op = "start", !.task = t] \in PendingOps
    <3>1. NoPending \in PendingOps
      BY RouteAssumption DEF PendingOps, NoPending
    <3> QED BY <3>1 DEF PendingOps
  <2>2. [NoPending EXCEPT !.op = "start", !.task = t].task = t
    BY DEF NoPending
  <2> QED BY <1>0, <1>1, <1>2, <2>1, <2>2 DEF StartReads, Used
<1>3. ASSUME NEW h \in Threads, NEW t \in Tasks, CompleteReads(h, t) PROVE Rows' /\ Kept
  <2> DEFINE r == [op |-> "complete", task |-> t, step |-> step[task[t].object],
                   critical |-> Bad(t) \cap Critical # {}]
  <2>1. r \in PendingOps /\ r.task = t /\ pending' = [pending EXCEPT ![h] = r]
        /\ UNCHANGED <<quality, step, task, card, values, nc, checked, irregular>>
    BY <1>3 DEF PendingOps, CompleteReads, TypeOK, TaskRows
  <2>2. Used(t)
    BY <1>3 DEF CompleteReads, Referenced
  <2> HIDE DEF r
  <2> QED BY <1>0, <1>1, <2>1, <2>2
<1>4. ASSUME NEW h \in Threads, CompleteRefused(h) PROVE Rows' /\ Kept
  <2>1. NoPending \in PendingOps /\ NoPending.op = "idle"
    BY RouteAssumption DEF NoPending, PendingOps
  <2>2. pending' = [pending EXCEPT ![h] = NoPending]
        /\ UNCHANGED <<quality, step, task, card, values, nc, checked, irregular>>
    BY <1>4 DEF CompleteRefused
  <2> QED BY <1>0, <2>1, <2>2 DEF TypeOK, Referenced, Used
<1>5. ASSUME NEW t \in Tasks, NEW p \in Params, NEW v \in Values, SaveResult(t, p, v) PROVE Rows' /\ Kept
  <2>1. values' \in [Tasks -> [Params -> Values]]
    BY <1>5 DEF SaveResult, TypeOK
  <2> QED BY <1>0, <1>5, <2>1 DEF SaveResult, TypeOK, Referenced, Used
<1>6. ASSUME NEW n \in NCs, NEW t \in Tasks, NEW critical \in BOOLEAN, NEW block \in BOOLEAN,
             Register(n, t, critical, block)
      PROVE  Rows' /\ Kept
  <2>1. /\ Used(t) /\ task[t].object \in Objects
        /\ nc' = [nc EXCEPT ![n] = [status |-> "open", critical |-> critical,
                                    approved |-> FALSE, card |-> t]]
        /\ UNCHANGED <<step, task, card, values, pending, checked>>
    BY <1>6 DEF Register, Referenced, TypeOK, TaskRows
  <2>2. nc' \in [NCs -> NCRows]
    BY <2>1 DEF TypeOK, NCRows, NCStatuses
  <2>3. quality' \in [Objects -> Statuses]
        /\ \A p \in Objects : quality[p] # "absent" => quality'[p] # "absent"
    BY <1>6 DEF Register, TypeOK, Statuses
  <2>4. irregular' \subseteq Objects
    BY <1>6, <2>1 DEF Register, TypeOK
  <2>5. TypeOK'
    BY <2>1, <2>2, <2>3, <2>4 DEF TypeOK
  <2>6. Referenced'
    BY <2>1, <2>3 DEF Referenced, Used, TypeOK, TaskRows
  <2> QED BY <1>0, <2>1, <2>5, <2>6
<1>7. ASSUME NEW n \in NCs, NEW boss \in BOOLEAN, Assign(n) \/ Close(n, boss) PROVE Rows' /\ Kept
  <2>1. UNCHANGED <<quality, step, task, card, values, pending, checked, irregular>>
    BY <1>7 DEF Assign, Close
  <2>2. nc[n].status # "none" /\ nc[n] \in NCRows
    BY <1>7 DEF Assign, Close, TypeOK
  <2>3. PICK r \in NCRows : r.card = nc[n].card /\ nc' = [nc EXCEPT ![n] = r]
    <3>1. CASE Assign(n)
      BY <2>2, <3>1 DEF Assign, NCRows, NCStatuses
    <3>2. CASE Close(n, boss)
      <4>1. /\ [nc[n] EXCEPT !.status = "closed", !.approved = @ \/ nc[n].critical] \in NCRows
            /\ nc' = [nc EXCEPT ![n] = [nc[n] EXCEPT !.status = "closed",
                                                     !.approved = @ \/ nc[n].critical]]
            /\ [nc[n] EXCEPT !.status = "closed", !.approved = @ \/ nc[n].critical].card = nc[n].card
        BY <2>2, <3>2 DEF Close, NCRows, NCStatuses
      <4> QED BY <4>1
    <3> QED BY <1>7, <3>1, <3>2
  <2>4. TypeOK'
    BY <2>1, <2>3 DEF TypeOK
  <2>5. Referenced'
    BY <2>1, <2>2, <2>3 DEF Referenced, Used, TypeOK
  <2> QED BY <1>0, <2>1, <2>4, <2>5
<1>8. CASE UNCHANGED vars
  BY <1>0, <1>8 DEF vars, TypeOK, Referenced, Used
<1> QED BY <1>2, <1>3, <1>4, <1>5, <1>6, <1>7, <1>8

LEMMA RowsKeep ==
  ASSUME Rows, [Next]_vars
  PROVE  Rows' /\ Kept
BY CreateKeeps, CompletionKeeps, StartKeeps, ReinspectKeeps, OthersKeep DEF Next

-----------------------------------------------------------------------------
(* Defects *)

(* The steps that leave the nonconformities alone. *)
LEMMA NCUnchanged ==
  ASSUME [Next]_vars,
         ~ \E n \in NCs :
             \/ \E t \in Tasks, critical, block \in BOOLEAN : Register(n, t, critical, block)
             \/ Assign(n) \/ Reinspect(n)
             \/ \E boss \in BOOLEAN : Close(n, boss)
  PROVE  nc' = nc
BY DEF Next, Create, StartReads, CompleteReads, StartWrites, CompleteWrites, CompleteRefused,
   SaveResult, vars

LEMMA NCWritten ==
  ASSUME TypeOK, NEW n \in NCs, Assign(n) \/ Reinspect(n) \/ \E boss \in BOOLEAN : Close(n, boss)
  PROVE  /\ nc' \in [NCs -> NCRows] /\ \A m \in NCs \ {n} : nc'[m] = nc[m]
         /\ nc[n].status # "none"
         /\ nc'[n].critical = nc[n].critical /\ nc'[n].card = nc[n].card
         /\ nc[n].approved => nc'[n].approved
         /\ nc'[n].status \in {"open", "closed"}
         /\ nc'[n].status = "closed" /\ nc[n].critical => nc'[n].approved
<1>1. nc \in [NCs -> NCRows] /\ nc[n] \in NCRows
  BY DEF TypeOK
<1>2. CASE Assign(n) \/ Reinspect(n)
  <2>1. nc[n].status # "none" /\ nc' = [nc EXCEPT ![n] = [nc[n] EXCEPT !.status = "open"]]
    BY <1>2 DEF Assign, Reinspect
  <2>2. [nc[n] EXCEPT !.status = "open"] \in NCRows
    BY <1>1 DEF NCRows, NCStatuses
  <2>3. nc'[n] = [nc[n] EXCEPT !.status = "open"]
    BY <1>1, <2>1
  <2> QED BY <1>1, <2>1, <2>2, <2>3 DEF NCRows
<1>3. ASSUME NEW boss \in BOOLEAN, Close(n, boss)
      PROVE  /\ nc' \in [NCs -> NCRows] /\ \A m \in NCs \ {n} : nc'[m] = nc[m]
             /\ nc[n].status # "none" /\ nc'[n].status = "closed"
             /\ nc'[n].critical = nc[n].critical /\ nc'[n].card = nc[n].card
             /\ nc'[n].approved = (nc[n].approved \/ nc[n].critical)
  <2> DEFINE r == [nc[n] EXCEPT !.status = "closed", !.approved = @ \/ nc[n].critical]
  <2>1. nc[n].status # "none" /\ nc' = [nc EXCEPT ![n] = r]
    BY <1>3 DEF Close
  <2>2. /\ r \in NCRows /\ r.status = "closed" /\ r.critical = nc[n].critical
        /\ r.card = nc[n].card /\ r.approved = (nc[n].approved \/ nc[n].critical)
    BY <1>1 DEF NCRows, NCStatuses
  <2>3. nc'[n] = r /\ nc' \in [NCs -> NCRows] /\ \A m \in NCs \ {n} : nc'[m] = nc[m]
    BY <1>1, <2>1, <2>2
  <2> QED BY <2>1, <2>2, <2>3
<1> QED BY <1>2, <1>3

LEMMA NCRegistered ==
  ASSUME TypeOK, NEW n \in NCs, NEW t \in Tasks, NEW critical \in BOOLEAN, NEW block \in BOOLEAN,
         Register(n, t, critical, block)
  PROVE  /\ \A m \in NCs \ {n} : nc'[m] = nc[m]
         /\ nc[n].status = "none" /\ nc'[n].status = "open" /\ nc'[n].card = t
         /\ \A o \in Objects : quality'[o] = "ready_for_shipment" => quality[o] = "ready_for_shipment"
         /\ task[t].object \in Objects /\ quality'[task[t].object] # "ready_for_shipment"
         /\ task' = task /\ pending' = pending
         /\ BeingCompleted(task[t].object) => task[t].object \in irregular'
BY DEF Register, TypeOK, TaskRows

LEMMA ApprovalsKeep ==
  ASSUME IInv, [Next]_vars
  PROVE  Approvals'
<1>1. ASSUME NEW n \in NCs, Assign(n) \/ Reinspect(n) \/ \E boss \in BOOLEAN : Close(n, boss)
      PROVE  Approvals'
  BY <1>1, NCWritten DEF IInv, Rows, Approvals
<1>2. ASSUME NEW n \in NCs, NEW t \in Tasks, NEW critical \in BOOLEAN, NEW block \in BOOLEAN,
             Register(n, t, critical, block)
      PROVE  Approvals'
  BY <1>2, NCRegistered DEF IInv, Rows, Approvals
<1>3. ASSUME nc' = nc PROVE Approvals'
  BY <1>3 DEF IInv, Approvals
<1> QED BY <1>1, <1>2, <1>3, NCUnchanged

(* An object whose defects are approved stays so while no defect is registered. *)
LEMMA ClearedKept ==
  ASSUME Rows, Kept, nc' = nc, NEW o \in Objects, Cleared(o)
  PROVE  Cleared(o)'
BY DEF Rows, Referenced, Kept, Cleared, DefectOf, Used

(* A thread that found no open critical defect. *)
LEMMA FoundCleared ==
  ASSUME IInv, NEW o \in Objects, ~ OpenCritical(o)
  PROVE  Cleared(o)
BY DEF IInv, Rows, TypeOK, Approvals, Cleared, OpenCritical

(* Which objects become ready, and which a thread is completing. *)
LEMMA Readiness ==
  ASSUME IInv, [Next]_vars, NEW o \in Objects \ irregular'
  PROVE  /\ o \notin irregular
         /\ quality'[o] = "ready_for_shipment" => quality[o] = "ready_for_shipment" \/ BeingCompleted(o)
         /\ BeingCompleted(o)' => BeingCompleted(o) \/ (~ OpenCritical(o) /\ nc' = nc)
<1> USE DEF IInv
<1>1. TypeOK /\ Referenced /\ Kept
  BY RowsKeep DEF Rows
<1>2. o \notin irregular
  BY DEF Next, Create, StartReads, CompleteReads, StartWrites, CompleteWrites, CompleteRefused,
     SaveResult, Register, Assign, Reinspect, Close, vars
<1>3. ASSUME quality'[o] = "ready_for_shipment"
      PROVE  quality[o] = "ready_for_shipment" \/ BeingCompleted(o)
  <2>1. ASSUME NEW h \in Threads, CompleteWrites(h) PROVE quality[o] = "ready_for_shipment" \/ BeingCompleted(o)
    <3>1. CASE task[pending[h].task].object = o
      BY <2>1, <3>1 DEF CompleteWrites, BeingCompleted
    <3>2. CASE task[pending[h].task].object # o
      BY <1>1, <1>3, <2>1, <3>2 DEF CompleteWrites, Deviates, Advances, Released, TypeOK
    <3> QED BY <3>1, <3>2
  <2>2. ASSUME \/ \E p \in Objects : Create(p)
               \/ \E h \in Threads : StartWrites(h)
               \/ \E n \in NCs : \/ Reinspect(n)
                                  \/ \E t \in Tasks, critical, block \in BOOLEAN :
                                       Register(n, t, critical, block)
        PROVE  quality[o] = "ready_for_shipment"
    BY <1>1, <1>3, <2>2 DEF Create, StartWrites, Reinspect, Register, TypeOK
  <2>3. CASE quality' = quality
    BY <1>3, <2>3
  <2> QED BY <2>1, <2>2, <2>3 DEF Next, StartReads, CompleteReads, CompleteRefused, SaveResult,
             Assign, Close, vars
<1>4. ASSUME BeingCompleted(o)'
      PROVE  BeingCompleted(o) \/ (~ OpenCritical(o) /\ nc' = nc)
  <2>1. PICK h \in Threads : pending'[h].op = "complete" /\ task'[pending'[h].task].object = o
    BY <1>4 DEF BeingCompleted
  <2>2. CASE pending'[h] = pending[h]
    <3>1. pending[h].task \in Tasks /\ Used(pending[h].task)
      BY <1>1, <2>1, <2>2 DEF Referenced
    <3> QED BY <1>1, <2>1, <2>2, <3>1 DEF Kept, BeingCompleted
  <2>3. CASE pending'[h] # pending[h]
    <3>1. PICK g \in Threads : \/ \E t \in Tasks : StartReads(g, t) \/ CompleteReads(g, t)
                              \/ StartWrites(g) \/ CompleteWrites(g) \/ CompleteRefused(g)
      BY <2>3 DEF Next, Create, SaveResult, Register, Assign, Reinspect, Close, vars
    <3>2. g = h
      BY <1>1, <2>3, <3>1 DEF StartReads, CompleteReads, StartWrites, CompleteWrites,
         CompleteRefused, TypeOK
    <3>3. PICK t \in Tasks : CompleteReads(h, t)
      <4>1. DOMAIN pending = Threads
        BY <1>1 DEF TypeOK
      <4>2. ASSUME StartWrites(h) \/ CompleteWrites(h) \/ CompleteRefused(h) PROVE FALSE
        <5>1. pending'[h] = NoPending
          BY <4>1, <4>2 DEF StartWrites, CompleteWrites, CompleteRefused
        <5> QED BY <2>1, <5>1 DEF NoPending
      <4>3. ASSUME NEW t \in Tasks, StartReads(h, t) PROVE FALSE
        <5>1. pending'[h] = [NoPending EXCEPT !.op = "start", !.task = t]
          BY <4>1, <4>3 DEF StartReads
        <5> QED BY <2>1, <5>1 DEF NoPending
      <4> QED BY <3>1, <3>2, <4>2, <4>3
    <3>4. pending'[h].task = t /\ task' = task /\ nc' = nc /\ ~ OpenCritical(task[t].object)
      BY <1>1, <3>3 DEF CompleteReads, Completable, TypeOK
    <3> QED BY <2>1, <3>4
  <2> QED BY <2>2, <2>3
<1> QED BY <1>2, <1>3, <1>4

LEMMA ClearanceKeeps ==
  ASSUME IInv, [Next]_vars
  PROVE  Clearance'
<1> USE DEF IInv
<1>0. Rows /\ TypeOK /\ Referenced /\ Kept
  BY RowsKeep DEF Rows
<1>1. SUFFICES ASSUME NEW o \in Objects \ irregular',
                      quality'[o] = "ready_for_shipment" \/ BeingCompleted(o)'
               PROVE  Cleared(o)'
  BY DEF Clearance
<1>2. o \in Objects \ irregular
  BY Readiness
<1>3. CASE nc' = nc
  <2>1. Cleared(o)
    BY <1>1, <1>2, Readiness, FoundCleared DEF Clearance
  <2> QED BY <1>0, <1>3, <2>1, ClearedKept
<1>4. CASE nc' # nc
  <2>1. Cleared(o)
    BY <1>1, <1>2, <1>4, Readiness DEF Clearance
  <2>2. PICK n \in NCs :
             \/ \E t \in Tasks, critical, block \in BOOLEAN : Register(n, t, critical, block)
             \/ Assign(n) \/ Reinspect(n)
             \/ \E boss \in BOOLEAN : Close(n, boss)
    BY <1>4, NCUnchanged
  <2>3. CASE Assign(n) \/ Reinspect(n) \/ \E boss \in BOOLEAN : Close(n, boss)
    <3>1. \A m \in NCs : DefectOf(m, o)' => DefectOf(m, o)
      BY <1>0, <2>3, NCWritten DEF DefectOf, Referenced, Kept, Used
    <3> QED BY <1>0, <2>1, <2>3, <3>1, NCWritten DEF Cleared
  <2>4. ASSUME NEW t \in Tasks, NEW critical \in BOOLEAN, NEW block \in BOOLEAN,
               Register(n, t, critical, block)
        PROVE  Cleared(o)'
    <3>1. task[t].object # o
      BY <1>0, <1>1, <2>4, NCRegistered DEF BeingCompleted
    <3>2. \A m \in NCs : DefectOf(m, o)' => m # n /\ DefectOf(m, o)
      BY <1>0, <2>4, <3>1, NCRegistered DEF DefectOf
    <3> QED BY <1>0, <2>1, <2>4, <3>2, NCRegistered DEF Cleared
  <2> QED BY <2>2, <2>3, <2>4
<1> QED BY <1>3, <1>4

-----------------------------------------------------------------------------
(* The steps of the route *)

LEMMA StepsKeep ==
  ASSUME IInv, [Next]_vars
  PROVE  StepsWereChecked'
<1> USE DEF IInv
<1>0. Rows /\ TypeOK /\ Referenced
  BY DEF Rows
<1>1. irregular \subseteq irregular'
  BY DEF Next, Create, StartReads, CompleteReads, StartWrites, CompleteWrites, CompleteRefused,
     SaveResult, Register, Assign, Reinspect, Close, vars
<1>2. ASSUME UNCHANGED <<step, checked>>,
             \A o \in Objects : quality'[o] = "ready_for_shipment" => quality[o] = "ready_for_shipment"
      PROVE  StepsWereChecked'
  BY <1>1, <1>2 DEF StepsWereChecked
<1>3. ASSUME NEW o \in Objects, Create(o) PROVE StepsWereChecked'
  <2>1. /\ step' = [step EXCEPT ![o] = First(Required)] /\ UNCHANGED <<checked, irregular>>
        /\ quality' = [quality EXCEPT ![o] = "awaiting_control"]
    BY <1>3 DEF Create
  <2>2. {s \in Required : s < First(Required)} = {}
    <3>1. \A r \in Required : r \in Nat /\ First(Required) <= r /\ First(Required) \in Nat
      BY Route, RouteAssumption DEF Steps
    <3>2. \A r \in Required : ~ (r < First(Required))
      BY <3>1
    <3> QED BY <3>2
  <2>3. /\ quality'[o] # "ready_for_shipment" /\ step'[o] = First(Required)
        /\ \A p \in Objects \ {o} : quality'[p] = quality[p] /\ step'[p] = step[p]
    BY <1>0, <2>1 DEF TypeOK
  <2> QED BY <2>1, <2>2, <2>3 DEF StepsWereChecked
<1>4. ASSUME NEW h \in Threads, CompleteWrites(h) PROVE StepsWereChecked'
  <2> DEFINE t == pending[h].task
             o == task[t].object
             s == pending[h].step
  <2>1. Outcome(t, o, s) /\ s \in 0 .. LastStep
    BY <1>0, <1>4, Completion DEF Outcome
  <2>2. o \in irregular' \/ (task[t].step = s /\ step[o] = s)
    BY <1>4 DEF CompleteWrites, Overtaken
  <2>3. \A p \in Objects \ {o} : quality'[p] = quality[p] /\ step'[p] = step[p]
                                /\ checked'[p] = checked[p]
    BY <1>0, <2>1 DEF Outcome, TypeOK
  <2>4. SUFFICES ASSUME o \in Objects, o \notin irregular'
                 PROVE  /\ {r \in Required : r < step'[o]} \subseteq checked'[o]
                        /\ quality'[o] = "ready_for_shipment" => Required \subseteq checked'[o]
    BY <1>1, <2>3 DEF StepsWereChecked
  <2>5. /\ task[t].step = s /\ step[o] = s /\ {r \in Required : r < s} \subseteq checked[o]
        /\ checked[o] \in SUBSET Steps
    BY <1>0, <1>1, <2>2, <2>4 DEF StepsWereChecked, TypeOK
  <2>6. \A r \in Required : r \in Nat
    BY RouteAssumption DEF Steps
  <2>7. CASE quality'[o] \in {"blocked", "correction_required"} /\ UNCHANGED <<step, checked>>
    BY <2>5, <2>7
  <2>8. CASE /\ quality'[o] = "awaiting_control" /\ Later(s) # {} /\ step'[o] = First(Later(s))
             /\ checked'[o] = checked[o] \cup {s}
    <3>1. \A r \in Required : r < First(Later(s)) => r < s \/ r = s
      <4>1. SUFFICES ASSUME NEW r \in Required, r > s PROVE ~ (r < First(Later(s)))
        BY <2>1, <2>6
      <4>2. r \in Later(s)
        BY <4>1 DEF Later
      <4>3. First(Later(s)) <= r /\ First(Later(s)) \in Nat
        BY <2>1, <2>8, <4>2, Route, RouteAssumption
      <4> QED BY <2>6, <4>3
    <3> QED BY <2>5, <2>8, <3>1
  <2>9. CASE /\ quality'[o] = "ready_for_shipment" /\ Later(s) = {} /\ step'[o] = step[o]
             /\ checked'[o] = checked[o] \cup {s}
    <3>1. \A r \in Required : r < s \/ r = s
      BY <2>1, <2>6, <2>9 DEF Later
    <3> QED BY <2>5, <2>9, <3>1
  <2>10. /\ quality \in [Objects -> Statuses] /\ step \in [Objects -> 0 .. LastStep]
         /\ checked \in [Objects -> SUBSET Steps]
    BY <1>0 DEF TypeOK
  <2>11. CASE /\ quality' = [quality EXCEPT ![o] = "awaiting_control"]
              /\ Later(s) # {} /\ step' = [step EXCEPT ![o] = First(Later(s))]
              /\ checked' = [checked EXCEPT ![o] = @ \cup {task[t].step}]
    BY <2>4, <2>5, <2>8, <2>10, <2>11
  <2>12. CASE /\ quality' = [quality EXCEPT ![o] = "ready_for_shipment"]
              /\ Later(s) = {} /\ UNCHANGED step
              /\ checked' = [checked EXCEPT ![o] = @ \cup {task[t].step}]
    BY <2>4, <2>5, <2>9, <2>10, <2>12
  <2>13. CASE /\ \/ quality' = [quality EXCEPT ![o] = "blocked"]
                 \/ quality' = [quality EXCEPT ![o] = "correction_required"]
              /\ UNCHANGED <<step, checked>>
    BY <2>4, <2>7, <2>10, <2>13
  <2> QED BY <2>1, <2>11, <2>12, <2>13 DEF Outcome
<1>5. ASSUME \/ \E h \in Threads : StartWrites(h)
             \/ \E n \in NCs : \/ Reinspect(n)
                                \/ \E t \in Tasks, critical, block \in BOOLEAN :
                                     Register(n, t, critical, block)
      PROVE  StepsWereChecked'
  <2>1. UNCHANGED <<step, checked>>
    BY <1>5 DEF StartWrites, Reinspect, Register
  <2>2. \A o \in Objects : quality'[o] = "ready_for_shipment" => quality[o] = "ready_for_shipment"
    BY <1>0, <1>5 DEF StartWrites, Reinspect, Register, TypeOK
  <2> QED BY <1>2, <2>1, <2>2
<1>6. ASSUME UNCHANGED <<step, checked, quality>> PROVE StepsWereChecked'
  BY <1>2, <1>6
<1> QED BY <1>3, <1>4, <1>5, <1>6 DEF Next, StartReads, CompleteReads, CompleteRefused,
        SaveResult, Assign, Close, vars

-----------------------------------------------------------------------------
(* The tasks of a post *)

(* No open task joins those of a post. *)
LEMMA AloneKept ==
  ASSUME TypeOK, Alone,
         \A t \in Tasks :
           /\ task'[t].status = "completed" => card'[t] = "completed"
           /\ task'[t].routed => task'[t].status \in {"assigned", "in_progress", "completed"}
           /\ Live(t)' => Live(t) /\ task'[t].object = task[t].object /\ task'[t].step = task[t].step
  PROVE  Alone'
BY DEF Alone

LEMMA AloneKeeps ==
  ASSUME IInv, [Next]_vars
  PROVE  Alone'
<1> USE DEF IInv
<1>0. Rows /\ TypeOK /\ Referenced
  BY DEF Rows
<1>1. ASSUME NEW o \in Objects, Create(o) PROVE Alone'
  <2>1. PICK new \in Tasks : ~ Used(new) /\ task' = [task EXCEPT ![new] = RoutedTask(o, First(Required))]
    BY <1>1 DEF Create, Used
  <2>2. card' = card /\ quality[o] = "absent" /\ card[new] = "none"
    BY <1>0, <1>1, <2>1 DEF Create, Referenced, TypeOK
  <2>3. \A t \in Tasks \ {new} : task'[t] = task[t]
    BY <1>0, <2>1 DEF TypeOK
  <2>4. /\ task'[new].status = "assigned" /\ task'[new].object = o
        /\ task'[new].routed = TRUE
    BY <1>0, <2>1 DEF RoutedTask, TypeOK
  <2>5. \A t \in Tasks \ {new} : Live(t) => task[t].object # o
    BY <1>0, <2>2 DEF Alone, Live, Referenced, Used
  <2> QED BY <2>2, <2>3, <2>4, <2>5 DEF Alone, Live
<1>2. ASSUME NEW h \in Threads, StartWrites(h) PROVE Alone'
  <2> DEFINE t == pending[h].task
  <2>1. /\ t \in Tasks /\ task' = [task EXCEPT ![t].status = "in_progress"]
        /\ card' = [card EXCEPT ![t] = IF @ = "none" THEN "draft" ELSE @]
    BY <1>0, <1>2, TaskTypes DEF StartWrites
  <2>2. \A u \in Tasks : /\ task'[u].object = task[u].object /\ task'[u].step = task[u].step
                         /\ task'[u].routed = task[u].routed
                         /\ task'[u].status = IF u = t THEN "in_progress" ELSE task[u].status
                         /\ card'[u] = "completed" <=> card[u] = "completed"
    BY <1>0, <2>1 DEF TypeOK, TaskRows
  <2>3. \A u \in Tasks : Live(u)' => Live(u)
    BY <2>2 DEF Live, Alone
  <2> QED BY <1>0, <2>2, <2>3, AloneKept DEF Alone
<1>3. ASSUME NEW h \in Threads, CompleteWrites(h) PROVE Alone'
  <2> DEFINE t == pending[h].task
             o == task[t].object
             s == pending[h].step
  <2>1. Outcome(t, o, s) /\ t \in Tasks /\ card' = [card EXCEPT ![t] = "completed"]
    BY <1>0, <1>3, Completion DEF Outcome, CompleteWrites
  <2>2. card'[t] = "completed" /\ \A u \in Tasks \ {t} : card'[u] = card[u]
    BY <1>0, <2>1 DEF TypeOK
  <2>3. /\ Finished(t) \in [Tasks -> TaskRows]
        /\ \A u \in Tasks : /\ Finished(t)[u].object = task[u].object
                             /\ Finished(t)[u].step = task[u].step
                             /\ Finished(t)[u].routed = task[u].routed
                             /\ Finished(t)[u].status = IF u = t THEN "completed" ELSE task[u].status
    BY <1>0, <2>1 DEF Finished, TypeOK, TaskRows, TaskStatuses
  <2>4. CASE task' = Finished(t)
    <3>1. \A u \in Tasks : Live(u)' => Live(u)
      BY <2>2, <2>3, <2>4 DEF Live
    <3> QED BY <1>0, <2>2, <2>3, <2>4, <3>1, AloneKept DEF Alone
  <2>5. ASSUME NEW new \in Tasks, ~ Used(new), ActiveAt(o, First(Later(s))) \ {t} = {},
               task' = [Finished(t) EXCEPT ![new] = RoutedTask(o, First(Later(s)))]
        PROVE  Alone'
    <3> DEFINE q == First(Later(s))
    <3>1. /\ task'[new].status = "assigned" /\ task'[new].object = o /\ task'[new].step = q
          /\ task'[new].routed = TRUE /\ \A u \in Tasks \ {new} : task'[u] = Finished(t)[u]
      BY <2>3, <2>5 DEF RoutedTask
    <3>2. new # t
      BY <2>1, <2>5 DEF Outcome
    <3>3. ASSUME NEW u \in Tasks \ {new}, Live(u)'
          PROVE  Live(u) /\ ~ (task[u].object = o /\ task[u].step = q)
      <4>1. u # t /\ Live(u)
        BY <2>2, <2>3, <3>1, <3>3 DEF Live
      <4>2. task[u].status \in {"assigned", "in_progress"}
        BY <4>1 DEF Alone, Live
      <4> QED BY <2>5, <4>1, <4>2 DEF ActiveAt
    <3>4. \A u \in Tasks : task'[u].status = "completed" => card'[u] = "completed"
      BY <2>2, <2>3, <3>1 DEF Alone
    <3>5. \A u \in Tasks : task'[u].routed => task'[u].status \in {"assigned", "in_progress", "completed"}
      BY <2>3, <3>1 DEF Alone
    <3>6. ASSUME NEW u \in Tasks, NEW w \in Tasks, Live(u)', Live(w)',
                 task'[u].object = task'[w].object, task'[u].step = task'[w].step
          PROVE  u = w
      <4>1. CASE u # new /\ w # new
        BY <2>3, <3>1, <3>3, <3>6, <4>1 DEF Alone
      <4>2. CASE u = new /\ w # new
        BY <2>3, <3>1, <3>3, <3>6, <4>2
      <4>3. CASE u # new /\ w = new
        BY <2>3, <3>1, <3>3, <3>6, <4>3
      <4> QED BY <4>1, <4>2, <4>3
    <3> QED BY <3>4, <3>5, <3>6 DEF Alone
  <2> QED BY <2>1, <2>4, <2>5 DEF Outcome
<1>4. ASSUME NEW n \in NCs, Reinspect(n) PROVE Alone'
  <2>1. PICK new \in Tasks :
          /\ ~ Used(new)
          /\ task' = [task EXCEPT ![new] = [status |-> "awaiting_reinspection",
                                            object |-> task[nc[n].card].object,
                                            step |-> task[nc[n].card].step, routed |-> FALSE]]
    BY <1>4 DEF Reinspect, Used
  <2>2. /\ card' = card /\ task'[new].routed = FALSE /\ task'[new].status = "awaiting_reinspection"
        /\ \A t \in Tasks \ {new} : task'[t] = task[t]
    BY <1>0, <1>4, <2>1 DEF Reinspect, TypeOK
  <2> QED BY <1>0, <2>2, AloneKept DEF Alone, Live
<1>5. ASSUME UNCHANGED <<task, card>> PROVE Alone'
  BY <1>5 DEF Alone, Live
<1> QED BY <1>1, <1>2, <1>3, <1>4, <1>5 DEF Next, StartReads, CompleteReads, CompleteRefused,
        SaveResult, Register, Assign, Close, vars

-----------------------------------------------------------------------------
LEMMA InvInit ==
  ASSUME Init
  PROVE  IInv
<1>1. TypeOK
  BY InitTypes
<1>2. /\ \A t \in Tasks : task[t].status = "none" /\ task[t].routed = FALSE /\ card[t] = "none"
      /\ \A o \in Objects : quality[o] = "absent" /\ step[o] = 0
      /\ \A n \in NCs : nc[n].status = "none"
      /\ \A h \in Threads : pending[h].op = "idle"
  BY DEF Init, NoPending, NoTask
<1>3. Referenced /\ Approvals
  BY <1>2 DEF Referenced, Used, Approvals
<1>4. Clearance
  BY <1>2 DEF Clearance, BeingCompleted
<1>5. StepsWereChecked
  <2>1. \A s \in Required : ~ (s < 0)
    BY RouteAssumption DEF Steps
  <2> QED BY <1>2, <2>1 DEF StepsWereChecked
<1>6. Alone
  BY <1>2 DEF Alone, Live
<1> QED BY <1>1, <1>3, <1>4, <1>5, <1>6 DEF IInv, Rows

LEMMA InvNext ==
  ASSUME IInv, [Next]_vars
  PROVE  IInv'
<1>1. Rows'
  BY RowsKeep DEF IInv
<1> QED BY <1>1, ApprovalsKeep, ClearanceKeeps, StepsKeep, AloneKeeps DEF IInv

LEMMA InvHolds == Spec => []IInv
BY InvInit, InvNext, PTL DEF Spec

-----------------------------------------------------------------------------
(* Theorems *)

(* Objects, tasks, cards and nonconformities have the values the code gives them. *)
THEOREM TypeCorrect == Spec => []TypeOK
<1>1. IInv => TypeOK
  BY DEF IInv, Rows
<1> QED BY <1>1, InvHolds, PTL

(* A manager has approved every critical defect of an object that is ready for
   shipment, unless its registration overtook a completion (complete_card,
   close_nonconformity). *)
THEOREM ReadyIsApproved == Spec => []ReadyMeansApproved
<1>1. IInv => ReadyMeansApproved
  BY DEF IInv, Clearance, Cleared, ReadyMeansApproved
<1> QED BY <1>1, InvHolds, PTL

(* The required steps behind an object were passed (complete_card). *)
THEOREM StepsPassed == Spec => []StepsWereChecked
<1>1. IInv => StepsWereChecked
  BY DEF IInv
<1> QED BY <1>1, InvHolds, PTL

(* A post has at most one open task of the route (create_inspection_task_for_step). *)
THEOREM OneTaskEach == Spec => []OneTaskAtPost
<1>1. IInv => OneTaskAtPost
  <2>1. SUFFICES ASSUME IInv, NEW o \in Objects, NEW s \in Steps
                 PROVE  Cardinality(OpenAt(o, s)) <= 1
    BY DEF OneTaskAtPost, OpenAt
  <2>2. \A t, u \in OpenAt(o, s) : t = u
    BY <2>1 DEF IInv, Alone, Live, OpenAt
  <2>3. CASE OpenAt(o, s) = {}
    BY <2>3, FS_EmptySet
  <2>4. ASSUME NEW t \in OpenAt(o, s) PROVE Cardinality(OpenAt(o, s)) <= 1
    <3>1. OpenAt(o, s) = {t}
      BY <2>2, <2>4
    <3> QED BY <3>1, FS_Singleton
  <2> QED BY <2>3, <2>4
<1> QED BY <1>1, InvHolds, PTL

-----------------------------------------------------------------------------
(* The mirror of the board in the twins *)

(* The push has seen the last change of its device. *)
Fresh(p) == p.seen = changes[p.device]

MovesAreLocked ==
  /\ \A w \in Savers : saving[w].op = "move" => at[saving[w].batch] = saving[w].prev
  /\ \A v, w \in Savers :
       /\ saving[v].op = "move" /\ saving[w].op = "move"
       /\ saving[v].batch = saving[w].batch
       => v = w

(* A push that has seen the last change carries what the device shows now. *)
PushesAreSound ==
  \A p \in pushes :
    /\ p.step # "waiting" => p.seen <= changes[p.device]
    /\ p.step = "fetched" /\ Fresh(p) => Card(p.device, at, state, p.free) = CardNow(p.device)
    /\ p.step = "put" /\ Fresh(p) => p.card = CardNow(p.device)

Coming(u) ==
  \E p \in pushes :
    /\ p.device = u
    /\ p.step = "waiting" \/ (p.thing = twinOf[u] /\ Fresh(p))

(* A device whose twin nobody gave up has it current or a push under way. *)
Promised(u) ==
  twinOf[u] # NoThing /\ u \notin behind =>
    \/ shown[u] = changes[u] /\ feature[twinOf[u]] = CardNow(u)
    \/ shown[u] < changes[u] /\ Coming(u)

MirrorInv ==
  /\ MirrorTypeOK
  /\ MovesAreLocked
  /\ PushesAreSound
  /\ \A u \in Devices : shown[u] <= changes[u] /\ Promised(u)

LEMMA CardType ==
  ASSUME NEW u, NEW on, NEW st \in [BatchRows -> RowStatus], NEW free \in Conditions
  PROVE  Card(u, on, st, free) \in Cards
<1> DEFINE here == Here(u, on, st)
<1>1. here \in SUBSET BatchRows /\ here \subseteq Nat
  BY MirrorAssumption DEF Here
<1>2. CASE here = {}
  BY <1>1, <1>2 DEF Card, Cards
<1>3. CASE here # {}
  <2>1. \E x \in here : \A y \in here : x <= y
    BY <1>1, <1>3, LeastExists
  <2>2. FirstOf(here) \in here
    BY <2>1 DEF FirstOf
  <2>3. st[FirstOf(here)] \in Standing
    BY <2>2 DEF Here
  <2> QED BY <1>1, <1>3, <2>3 DEF Card, Cards
<1> QED BY <1>2, <1>3

(* Only the devices a batch leaves and comes to can show something else. *)
LEMMA CardElsewhere ==
  ASSUME NEW on, NEW st, NEW on2, NEW st2, NEW free, NEW b \in BatchRows, NEW u,
         u # on[b], u # on2[b],
         \A c \in BatchRows \ {b} : on2[c] = on[c] /\ st2[c] = st[c]
  PROVE  Card(u, on2, st2, free) = Card(u, on, st, free)
<1>2. Here(u, on2, st2) = Here(u, on, st)
  BY DEF Here
<1>3. CASE Here(u, on, st) = {}
  BY <1>2, <1>3 DEF Card
<1>4. CASE Here(u, on, st) # {}
  <2>1. Here(u, on, st) \subseteq BatchRows \ {b} /\ Here(u, on, st) \subseteq Nat
    BY MirrorAssumption DEF Here
  <2>2. \E x \in Here(u, on, st) : \A y \in Here(u, on, st) : x <= y
    BY <1>4, <2>1, LeastExists
  <2>3. FirstOf(Here(u, on, st)) \in Here(u, on, st)
    BY <2>2 DEF FirstOf
  <2>4. st2[FirstOf(Here(u, on, st))] = st[FirstOf(Here(u, on, st))]
    BY <2>1, <2>3
  <2> QED BY <1>2, <1>4, <2>4 DEF Card
<1> QED BY <1>3, <1>4

(* Whether a card tells the condition shows on the card. *)
LEMMA SameCondition ==
  ASSUME NEW u, NEW on, NEW st, NEW on2, NEW st2, NEW c, NEW f,
         Card(u, on, st, f) = Card(u, on, st, c),
         Card(u, on2, st2, c) = Card(u, on, st, c)
  PROVE  Card(u, on2, st2, f) = Card(u, on2, st2, c)
<1>1. /\ Card(u, on, st, f).status = Card(u, on, st, c).status
      /\ Card(u, on2, st2, c).bread = Card(u, on, st, c).bread
  OBVIOUS
<1>2. Here(u, on2, st2) = Here(u, on, st)
  BY <1>1 DEF Card
<1>3. CASE Here(u, on, st) = {}
  BY <1>1, <1>2, <1>3 DEF Card
<1>4. CASE Here(u, on, st) # {}
  BY <1>2, <1>4 DEF Card
<1> QED BY <1>3, <1>4

LEMMA FieldsOfPushes ==
  ASSUME NEW p \in Pushes
  PROVE  /\ p.device \in Devices /\ p.burst \in Nat
         /\ p.step \in {"waiting", "fetched", "put"}
         /\ p.step # "waiting" => p.thing \in Things /\ p.seen \in Nat
         /\ p.step = "fetched" => p.free \in Conditions
         /\ p.step = "put" => p.card \in Cards
BY DEF Pushes

LEMMA FieldsOfSaves ==
  ASSUME NEW s \in Saves
  PROVE  /\ s.op \in {"none", "move", "place", "restamp", "look", "delete"}
         /\ s.op # "none" => s.batch \in BatchRows
         /\ s.op = "move" => s.prev \in Places
         /\ s.op = "place" => s.to \in Places /\ s.prev \in Places
         /\ s.op \in {"restamp", "look"} =>
              s.status \in RowStatus /\ s.loaded \in Places /\ s.prev \in Places
         /\ s.op = "delete" => s.loaded \in Places
BY DEF Saves, NoSave

LEMMA MirrorStarts == MirrorInit => MirrorInv
<1> SUFFICES ASSUME MirrorInit PROVE MirrorInv
  OBVIOUS
<1> USE MirrorAssumption
<1>1. MirrorTypeOK
  BY DEF MirrorInit, MirrorTypeOK, Places, RowStatus, Standing, Conditions, Saves
<1>2. MovesAreLocked /\ PushesAreSound
  BY DEF MirrorInit, MovesAreLocked, PushesAreSound, NoSave
<1>3. ASSUME NEW u \in Devices PROVE shown[u] <= changes[u] /\ Promised(u)
  BY DEF MirrorInit, Promised
<1> QED BY <1>1, <1>2, <1>3 DEF MirrorInv

(* A request that has not written changes neither rows nor pushes. *)
LEMMA RequestOnly ==
  ASSUME MirrorInv,
         saving' \in [Savers -> Saves], MovesAreLocked',
         UNCHANGED <<at, state, condition, twinOf, pushes, feature, steps, changes, shown,
                     behind>>
  PROVE  MirrorInv'
<1>1. MirrorTypeOK'
  BY DEF MirrorInv, MirrorTypeOK, Places
<1>2. PushesAreSound'
  BY DEF MirrorInv, PushesAreSound, Fresh, CardNow
<1>3. \A u \in Devices : (shown[u] <= changes[u])' /\ Promised(u)'
  BY DEF MirrorInv, Promised, Coming, Fresh, CardNow
<1> QED BY <1>1, <1>2, <1>3 DEF MirrorInv

(* The lock of move_batch survives a request that locks nothing. *)
LEMMA LocksStay ==
  ASSUME MirrorInv, NEW w \in Savers, NEW s \in Saves, s.op # "move",
         saving' = [saving EXCEPT ![w] = s],
         NEW on \in [BatchRows -> Places], at' = on,
         \A v \in Savers \ {w} : saving[v].op = "move" =>
           on[saving[v].batch] = at[saving[v].batch]
  PROVE  MovesAreLocked'
<1>1. saving \in [Savers -> Saves]
  BY DEF MirrorInv, MirrorTypeOK
<1>2. \A v \in Savers : saving'[v].op = "move" => v # w /\ saving'[v] = saving[v]
  BY <1>1
<1> QED BY <1>2 DEF MirrorInv, MovesAreLocked

LEMMA MoveKeeps ==
  ASSUME MirrorInv, NEW w \in Savers, NEW b \in BatchRows, Move(w, b)
  PROVE  MirrorInv'
<1> DEFINE s == [op |-> "move", batch |-> b, prev |-> at[b]]
<1>1. at \in [BatchRows -> Places] /\ saving \in [Savers -> Saves]
  BY DEF MirrorInv, MirrorTypeOK
<1>2. s \in Saves
  BY <1>1 DEF Saves
<1>3. saving' = [saving EXCEPT ![w] = s]
  BY DEF Move
<1>4. MovesAreLocked'
  <2>1. \A v \in Savers : saving'[v] = IF v = w THEN s ELSE saving[v]
    BY <1>1, <1>3
  <2>2. \A v \in Savers : ~ (saving[v].op = "move" /\ saving[v].batch = b)
    BY DEF Move
  <2>3. at' = at
    BY DEF Move
  <2> QED BY <2>1, <2>2, <2>3 DEF MirrorInv, MovesAreLocked
<1>5. saving' \in [Savers -> Saves]
  BY <1>1, <1>2, <1>3
<1> QED BY <1>4, <1>5, RequestOnly DEF Move

LEMMA PlaceKeeps ==
  ASSUME MirrorInv, NEW w \in Savers, NEW b \in BatchRows, NEW u \in Places, Place(w, b, u)
  PROVE  MirrorInv'
<1> DEFINE s == [op |-> "place", batch |-> b, to |-> u, prev |-> at[b]]
<1>1. at \in [BatchRows -> Places] /\ saving \in [Savers -> Saves]
  BY DEF MirrorInv, MirrorTypeOK
<1>2. s \in Saves /\ s.op # "move"
  BY <1>1 DEF Saves
<1>3. saving' = [saving EXCEPT ![w] = s] /\ at' = at
  BY DEF Place
<1>4. MovesAreLocked'
  BY <1>1, <1>2, <1>3, LocksStay
<1>5. saving' \in [Savers -> Saves]
  BY <1>1, <1>2, <1>3
<1> QED BY <1>4, <1>5, RequestOnly DEF Place

LEMMA LoadKeeps ==
  ASSUME MirrorInv, NEW w \in Savers, NEW b \in BatchRows,
         NEW new \in {"PAUSED", "IN_PROGRESS", "CANCELLED"}, Load(w, b, new)
  PROVE  MirrorInv'
<1> DEFINE s == [op |-> "look", batch |-> b, status |-> new, loaded |-> at[b],
                 prev |-> NoDevice]
<1>1. at \in [BatchRows -> Places] /\ saving \in [Savers -> Saves]
  BY DEF MirrorInv, MirrorTypeOK
<1>2. s \in Saves /\ s.op # "move"
  BY <1>1 DEF Saves, Places, RowStatus, Standing
<1>3. saving' = [saving EXCEPT ![w] = s] /\ at' = at
  BY DEF Load
<1>4. MovesAreLocked'
  BY <1>1, <1>2, <1>3, LocksStay
<1>5. saving' \in [Savers -> Saves]
  BY <1>1, <1>2, <1>3
<1> QED BY <1>4, <1>5, RequestOnly DEF Load

LEMMA LookKeeps ==
  ASSUME MirrorInv, NEW w \in Savers, Look(w)
  PROVE  MirrorInv'
<1> DEFINE s == [saving[w] EXCEPT !.op = "restamp", !.prev = at[saving[w].batch]]
<1>1. at \in [BatchRows -> Places] /\ saving \in [Savers -> Saves]
  BY DEF MirrorInv, MirrorTypeOK
<1>2. saving[w] \in [op : {"restamp", "look"}, batch : BatchRows, status : RowStatus,
                     loaded : Places, prev : Places]
  BY <1>1 DEF Look, Saves, NoSave
<1>3. at[saving[w].batch] \in Places
  BY <1>1, <1>2
<1>4. s \in [op : {"restamp", "look"}, batch : BatchRows, status : RowStatus,
             loaded : Places, prev : Places] /\ s.op = "restamp"
  BY <1>2, <1>3
<1>5. s \in Saves /\ s.op # "move"
  BY <1>4 DEF Saves
<1>6. saving' = [saving EXCEPT ![w] = s] /\ at' = at
  BY DEF Look
<1>7. MovesAreLocked'
  BY <1>1, <1>5, <1>6, LocksStay
<1>8. saving' \in [Savers -> Saves]
  BY <1>1, <1>5, <1>6
<1> QED BY <1>7, <1>8, RequestOnly DEF Look

LEMMA LoadToDeleteKeeps ==
  ASSUME MirrorInv, NEW w \in Savers, NEW b \in BatchRows, LoadToDelete(w, b)
  PROVE  MirrorInv'
<1> DEFINE s == [op |-> "delete", batch |-> b, loaded |-> at[b]]
<1>1. at \in [BatchRows -> Places] /\ saving \in [Savers -> Saves]
  BY DEF MirrorInv, MirrorTypeOK
<1>2. s \in Saves /\ s.op # "move"
  BY <1>1 DEF Saves
<1>3. saving' = [saving EXCEPT ![w] = s] /\ at' = at
  BY DEF LoadToDelete
<1>4. MovesAreLocked'
  BY <1>1, <1>2, <1>3, LocksStay
<1>5. saving' \in [Savers -> Saves]
  BY <1>1, <1>2, <1>3
<1> QED BY <1>4, <1>5, RequestOnly DEF LoadToDelete

LEMMA WriteNothingKeeps ==
  ASSUME MirrorInv, NEW w \in Savers, WriteNothing(w)
  PROVE  MirrorInv'
<1>1. at \in [BatchRows -> Places] /\ saving \in [Savers -> Saves]
  BY DEF MirrorInv, MirrorTypeOK
<1>2. NoSave \in Saves /\ NoSave.op # "move"
  BY DEF Saves, NoSave
<1>3. saving' = [saving EXCEPT ![w] = NoSave] /\ at' = at
  BY DEF WriteNothing
<1>4. MovesAreLocked'
  BY <1>1, <1>2, <1>3, LocksStay
<1>5. saving' \in [Savers -> Saves]
  BY <1>1, <1>2, <1>3
<1> QED BY <1>4, <1>5, RequestOnly DEF WriteNothing

(* Every device a commit changes is pushed, unless the row had changed devices
   between the save's look and its write. *)
LEMMA CommitKeeps ==
  ASSUME MirrorInv, NEW w \in Savers,
         saving[w].op \in {"move", "place", "restamp", "delete"},
         NEW b \in BatchRows, b = saving[w].batch,
         NEW to \in Places, NEW new \in RowStatus, NEW ids \in SUBSET Devices,
         Commit(w, [at EXCEPT ![b] = to], [state EXCEPT ![b] = new], ids),
         Unlocked(w),
         to \in ids \cup {NoDevice, at[b]},
         \/ at[b] \in ids \cup {NoDevice}
         \/ /\ saving[w].op # "move"
            /\ at[b] # IF saving[w].op = "delete" THEN saving[w].loaded ELSE saving[w].prev
  PROVE  MirrorInv'
<1> DEFINE on == [at EXCEPT ![b] = to]
           st == [state EXCEPT ![b] = new]
           now(u) == Card(u, on, st, condition[u])
           fresh == {[burst |-> steps, device |-> u, step |-> "waiting"] : u \in ids}
<1>1. /\ at \in [BatchRows -> Places] /\ state \in [BatchRows -> RowStatus]
      /\ condition \in [Devices -> Conditions] /\ saving \in [Savers -> Saves]
      /\ pushes \subseteq Pushes /\ steps \in Nat /\ changes \in [Devices -> Nat]
      /\ behind \subseteq Devices /\ shown \in [Devices -> Nat]
      /\ twinOf \in [Devices -> Things \cup {NoThing}] /\ feature \in [Things -> Cards]
  BY DEF MirrorInv, MirrorTypeOK
<1>2. on \in [BatchRows -> Places] /\ st \in [BatchRows -> RowStatus]
  BY <1>1
<1>3. /\ at' = on /\ state' = st
      /\ changes' = [u \in Devices |->
           IF now(u) = CardNow(u) THEN changes[u] ELSE changes[u] + 1]
      /\ pushes' = pushes \cup fresh
      /\ saving' = [saving EXCEPT ![w] = NoSave]
      /\ steps' = steps + 1
      /\ UNCHANGED <<condition, twinOf, feature, shown>>
  BY DEF Commit
<1>4. /\ behind \subseteq behind' /\ behind' \subseteq Devices
      /\ at[b] \in Devices => at[b] \in ids \/ at[b] \in behind'
  BY <1>1, MirrorAssumption DEF Commit
<1>5. NoSave \in Saves /\ NoSave.op # "move"
  BY DEF Saves, NoSave
<1>6. fresh \subseteq Pushes
  BY <1>1 DEF Pushes
<1>7. changes' \in [Devices -> Nat]
  BY <1>1, <1>3
<1>8. MirrorTypeOK'
  BY <1>1, <1>2, <1>3, <1>4, <1>5, <1>6, <1>7 DEF MirrorTypeOK
<1>9. MovesAreLocked'
  <2>1. \A v \in Savers \ {w} : saving[v].op = "move" => saving[v].batch # b
    BY DEF Unlocked
  <2>2. \A v \in Savers \ {w} :
          saving[v].op = "move" => on[saving[v].batch] = at[saving[v].batch]
    <3>1. TAKE v \in Savers \ {w}
    <3>2. saving[v] \in Saves
      BY <1>1
    <3> QED BY <1>1, <2>1, <3>2, FieldsOfSaves
  <2>3. saving' = [saving EXCEPT ![w] = NoSave]
    BY <1>3
  <2>4. at' = on
    BY <1>3
  <2> HIDE DEF on
  <2> QED BY <1>2, <1>5, <2>2, <2>3, <2>4, LocksStay
<1>10. ASSUME NEW u \in Devices
       PROVE  \/ now(u) = CardNow(u) /\ changes'[u] = changes[u]
              \/ /\ now(u) # CardNow(u) /\ changes'[u] = changes[u] + 1
                 /\ u \in ids \/ u \in behind'
  <2>1. CASE u # at[b] /\ u # to
    <3>1. /\ u # at[b] /\ u # on[b]
          /\ \A c \in BatchRows \ {b} : on[c] = at[c] /\ st[c] = state[c]
      BY <1>1, <2>1
    <3>2. Card(u, on, st, condition[u]) = Card(u, at, state, condition[u])
      <4> DEFINE free == condition[u]
      <4> HIDE DEF on, st, free
      <4>1. Card(u, on, st, free) = Card(u, at, state, free)
        BY ONLY <3>1, b \in BatchRows, CardElsewhere
      <4> QED BY <4>1 DEF free
    <3>3. now(u) = CardNow(u)
      BY <3>2 DEF CardNow
    <3> QED BY <1>3, <3>3
  <2>2. CASE u = at[b] \/ u = to
    <3>1. u \in ids \/ u \in behind'
      BY <1>4, <2>2, MirrorAssumption
    <3> QED BY <1>3, <3>1
  <2> QED BY <2>1, <2>2
<1>11. \A u \in Devices : CardNow(u)' = now(u)
  BY <1>3 DEF CardNow
<1>12. PushesAreSound'
  <2> SUFFICES ASSUME NEW p \in pushes'
      PROVE /\ p.step # "waiting" => p.seen <= changes'[p.device]
            /\ p.step = "fetched" /\ p.seen = changes'[p.device] =>
                 Card(p.device, on, st, p.free) = now(p.device)
            /\ p.step = "put" /\ p.seen = changes'[p.device] => p.card = now(p.device)
    <3>1. \A p \in pushes' : p.device \in Devices
      BY <1>8, FieldsOfPushes DEF MirrorTypeOK
    <3> QED BY <1>3, <1>11, <3>1 DEF PushesAreSound, Fresh
  <2>1. CASE p \in fresh
    <3>1. p.step = "waiting"
      BY <2>1
    <3> QED BY <3>1
  <2>2. CASE p \in pushes
    <3>1. p \in Pushes
      BY <1>1, <2>2
    <3> DEFINE u == p.device
    <3>2. u \in Devices /\ changes[u] \in Nat
      BY <1>1, <3>1, FieldsOfPushes
    <3>3. p.step # "waiting" => p.seen \in Nat /\ p.seen <= changes[u]
      BY <2>2, <3>1, FieldsOfPushes DEF MirrorInv, PushesAreSound
    <3>4. CASE changes'[u] = changes[u] + 1
      BY <3>2, <3>3, <3>4
    <3>5. CASE now(u) = CardNow(u) /\ changes'[u] = changes[u]
      <4>1. p.step = "put" /\ p.seen = changes[u] => p.card = now(u)
        BY <2>2, <3>5 DEF MirrorInv, PushesAreSound, Fresh
      <4>2. ASSUME p.step = "fetched", p.seen = changes[u]
            PROVE  Card(u, on, st, p.free) = now(u)
        <5>1. Card(u, at, state, p.free) = Card(u, at, state, condition[u])
          BY <2>2, <4>2 DEF MirrorInv, PushesAreSound, Fresh, CardNow
        <5>2. Card(u, on, st, condition[u]) = Card(u, at, state, condition[u])
          BY <3>5 DEF CardNow
        <5> HIDE DEF on, st
        <5> QED BY <5>1, <5>2, SameCondition
      <4> QED BY <3>3, <3>5, <4>1, <4>2
    <3> QED BY <1>10, <3>2, <3>4, <3>5
  <2> QED BY <1>3, <2>1, <2>2
<1>13. ASSUME NEW u \in Devices PROVE (shown[u] <= changes[u] /\ Promised(u))'
  <2>1. /\ shown[u] \in Nat /\ changes[u] \in Nat /\ shown[u] <= changes[u]
        /\ shown'[u] = shown[u] /\ Promised(u)
    BY <1>1, <1>3 DEF MirrorInv
  <2>2. shown'[u] <= changes'[u]
    BY <1>10, <2>1
  <2> SUFFICES ASSUME twinOf[u] # NoThing, u \notin behind'
      PROVE \/ shown[u] = changes'[u] /\ feature[twinOf[u]] = now(u)
            \/ shown[u] < changes'[u] /\ Coming(u)'
    BY <1>3, <1>11, <2>2 DEF Promised
  <2>3. CASE now(u) = CardNow(u) /\ changes'[u] = changes[u]
    <3>1. Coming(u) => Coming(u)'
      BY <1>3, <2>3 DEF Coming, Fresh
    <3> QED BY <1>4, <2>1, <2>3, <3>1 DEF Promised
  <2>4. CASE now(u) # CardNow(u) /\ changes'[u] = changes[u] + 1
    <3>1. u \in ids
      BY <1>10, <2>4
    <3>2. [burst |-> steps, device |-> u, step |-> "waiting"] \in pushes'
      BY <1>3, <3>1
    <3>3. Coming(u)'
      BY <3>2 DEF Coming
    <3> QED BY <2>1, <2>4, <3>3
  <2> QED BY <1>10, <2>3, <2>4
<1> QED BY <1>8, <1>9, <1>12, <1>13 DEF MirrorInv

LEMMA WriteKeeps ==
  ASSUME MirrorInv, NEW w \in Savers,
         \/ \E new \in {"QUEUED", "IN_PROGRESS", "COMPLETED"} : WriteMove(w, new)
         \/ WritePlace(w)
         \/ WriteRestamp(w)
         \/ WriteDelete(w)
  PROVE  MirrorInv'
<1> DEFINE b == saving[w].batch
<1>1. /\ at \in [BatchRows -> Places] /\ state \in [BatchRows -> RowStatus]
      /\ saving[w] \in Saves
  BY DEF MirrorInv, MirrorTypeOK
<1>2. ASSUME NEW new \in {"QUEUED", "IN_PROGRESS", "COMPLETED"}, WriteMove(w, new)
      PROVE  MirrorInv'
  <2>1. saving[w].op = "move" /\ b \in BatchRows /\ at[b] = saving[w].prev
    BY <1>1, <1>2, FieldsOfSaves DEF WriteMove, MirrorInv, MovesAreLocked
  <2>2. Unlocked(w)
    BY <2>1 DEF Unlocked, MirrorInv, MovesAreLocked
  <2>3. Commit(w, [at EXCEPT ![b] = NoDevice], [state EXCEPT ![b] = new],
               Pushed(NoDevice, saving[w].prev))
    BY <1>2 DEF WriteMove
  <2>4. /\ Pushed(NoDevice, saving[w].prev) \in SUBSET Devices
        /\ at[b] \in Pushed(NoDevice, saving[w].prev) \cup {NoDevice}
    BY <1>1, <2>1 DEF Pushed, Places
  <2>5. NoDevice \in Places /\ new \in RowStatus
    BY DEF Places, RowStatus, Standing
  <2> HIDE DEF b
  <2>6. saving[w].op \in {"move", "place", "restamp", "delete"} /\ b = saving[w].batch
    BY <2>1 DEF b
  <2> QED BY <2>1, <2>2, <2>3, <2>4, <2>5, <2>6, CommitKeeps
<1>3. ASSUME WritePlace(w) PROVE MirrorInv'
  <2>1. /\ saving[w].op = "place" /\ b \in BatchRows
        /\ saving[w].to \in Places /\ saving[w].prev \in Places
    BY <1>1, <1>3, FieldsOfSaves DEF WritePlace
  <2>2. state = [state EXCEPT ![b] = state[b]] /\ state[b] \in RowStatus
    BY <1>1, <2>1
  <2>3. Commit(w, [at EXCEPT ![b] = saving[w].to], [state EXCEPT ![b] = state[b]],
               Pushed(saving[w].to, saving[w].prev)) /\ Unlocked(w)
    BY <1>3, <2>2 DEF WritePlace
  <2>4. /\ Pushed(saving[w].to, saving[w].prev) \in SUBSET Devices
        /\ saving[w].to \in Pushed(saving[w].to, saving[w].prev) \cup {NoDevice, at[b]}
        /\ \/ at[b] \in Pushed(saving[w].to, saving[w].prev) \cup {NoDevice}
           \/ at[b] # saving[w].prev
    BY <1>1, <2>1 DEF Pushed, Places
  <2> HIDE DEF b
  <2>5. saving[w].op \in {"move", "place", "restamp", "delete"} /\ b = saving[w].batch
    BY <2>1 DEF b
  <2>6. \/ at[b] \in Pushed(saving[w].to, saving[w].prev) \cup {NoDevice}
        \/ /\ saving[w].op # "move"
           /\ at[b] # IF saving[w].op = "delete" THEN saving[w].loaded ELSE saving[w].prev
    BY <2>1, <2>4
  <2> QED BY <2>1, <2>2, <2>3, <2>4, <2>5, <2>6, CommitKeeps
<1>4. ASSUME WriteRestamp(w) PROVE MirrorInv'
  <2>1. /\ saving[w].op = "restamp" /\ b \in BatchRows /\ saving[w].status \in RowStatus
        /\ saving[w].loaded \in Places /\ saving[w].prev \in Places
    BY <1>1, <1>4, FieldsOfSaves DEF WriteRestamp
  <2>2. at = [at EXCEPT ![b] = at[b]] /\ at[b] \in Places
    BY <1>1, <2>1
  <2>3. Commit(w, [at EXCEPT ![b] = at[b]], [state EXCEPT ![b] = saving[w].status],
               Pushed(saving[w].loaded, saving[w].prev)) /\ Unlocked(w)
    BY <1>4, <2>2 DEF WriteRestamp
  <2>4. /\ Pushed(saving[w].loaded, saving[w].prev) \in SUBSET Devices
        /\ \/ at[b] \in Pushed(saving[w].loaded, saving[w].prev) \cup {NoDevice}
           \/ at[b] # saving[w].prev
    BY <1>1, <2>1, <2>2 DEF Pushed, Places
  <2> HIDE DEF b
  <2>5. saving[w].op \in {"move", "place", "restamp", "delete"} /\ b = saving[w].batch
    BY <2>1 DEF b
  <2>6. \/ at[b] \in Pushed(saving[w].loaded, saving[w].prev) \cup {NoDevice}
        \/ /\ saving[w].op # "move"
           /\ at[b] # IF saving[w].op = "delete" THEN saving[w].loaded ELSE saving[w].prev
    BY <2>1, <2>4
  <2> QED BY <2>1, <2>2, <2>3, <2>4, <2>5, <2>6, CommitKeeps
<1>5. ASSUME WriteDelete(w) PROVE MirrorInv'
  <2>1. saving[w].op = "delete" /\ b \in BatchRows /\ saving[w].loaded \in Places
    BY <1>1, <1>5, FieldsOfSaves DEF WriteDelete
  <2>2. at = [at EXCEPT ![b] = at[b]] /\ at[b] \in Places
    BY <1>1, <2>1
  <2>3. Commit(w, [at EXCEPT ![b] = at[b]], [state EXCEPT ![b] = "DELETED"],
               Pushed(saving[w].loaded, NoDevice)) /\ Unlocked(w)
    BY <1>5, <2>2 DEF WriteDelete
  <2>4. /\ Pushed(saving[w].loaded, NoDevice) \in SUBSET Devices
        /\ \/ at[b] \in Pushed(saving[w].loaded, NoDevice) \cup {NoDevice}
           \/ at[b] # saving[w].loaded
    BY <1>1, <2>1, <2>2 DEF Pushed, Places
  <2>5. "DELETED" \in RowStatus
    BY DEF RowStatus
  <2> HIDE DEF b
  <2>6. saving[w].op \in {"move", "place", "restamp", "delete"} /\ b = saving[w].batch
    BY <2>1 DEF b
  <2>7. \/ at[b] \in Pushed(saving[w].loaded, NoDevice) \cup {NoDevice}
        \/ /\ saving[w].op # "move"
           /\ at[b] # IF saving[w].op = "delete" THEN saving[w].loaded ELSE saving[w].prev
    BY <2>1, <2>4
  <2> QED BY <2>1, <2>2, <2>3, <2>4, <2>5, <2>6, <2>7, CommitKeeps
<1> QED BY <1>2, <1>3, <1>4, <1>5

LEMMA PushTypes ==
  ASSUME MirrorInv
  PROVE  /\ at \in [BatchRows -> Places] /\ state \in [BatchRows -> RowStatus]
         /\ condition \in [Devices -> Conditions] /\ saving \in [Savers -> Saves]
         /\ pushes \subseteq Pushes /\ steps \in Nat /\ changes \in [Devices -> Nat]
         /\ behind \subseteq Devices /\ shown \in [Devices -> Nat]
         /\ twinOf \in [Devices -> Things \cup {NoThing}] /\ feature \in [Things -> Cards]
         /\ \A p \in pushes : p \in Pushes /\ p.device \in Devices /\ p.burst \in Nat
BY FieldsOfPushes DEF MirrorInv, MirrorTypeOK

(* Promises outlive a push that is replaced by its next step or that carries nothing. *)
LEMMA FetchKeeps ==
  ASSUME MirrorInv, NEW p \in pushes, Fetch(p)
  PROVE  MirrorInv'
<1> DEFINE u == p.device
           q == [burst |-> p.burst, device |-> u, step |-> "fetched",
                 thing |-> twinOf[u], seen |-> changes[u], free |-> condition[u]]
<1>1. p.step = "waiting" /\ u \in Devices /\ p.burst \in Nat
  BY PushTypes DEF Fetch
<1>2. /\ pushes' = (pushes \ {p}) \cup (IF twinOf[u] = NoThing THEN {} ELSE {q})
      /\ UNCHANGED <<at, state, condition, twinOf, saving, feature, steps, changes, shown,
                     behind>>
  BY DEF Fetch
<1>3. twinOf[u] # NoThing => q \in Pushes
  BY <1>1, PushTypes DEF Pushes
<1>4. MirrorTypeOK'
  BY <1>2, <1>3, PushTypes DEF MirrorTypeOK
<1>5. MovesAreLocked'
  BY <1>2 DEF MirrorInv, MovesAreLocked
<1>6. PushesAreSound'
  <2>1. /\ q.seen = changes[q.device] /\ q.seen <= changes[q.device] /\ q.step = "fetched"
        /\ Card(q.device, at, state, q.free) = CardNow(q.device)
    BY <1>1, PushTypes DEF CardNow
  <2> QED BY <1>2, <2>1 DEF MirrorInv, PushesAreSound, Fresh, CardNow
<1>7. ASSUME NEW v \in Devices PROVE (shown[v] <= changes[v] /\ Promised(v))'
  <2>1. twinOf[v] # NoThing /\ Coming(v) => Coming(v)'
    <3> SUFFICES ASSUME twinOf[v] # NoThing, Coming(v) PROVE Coming(v)'
      OBVIOUS
    <3>1. PICK r \in pushes : r.device = v /\ (r.step = "waiting" \/ (r.thing = twinOf[v] /\ Fresh(r)))
      BY DEF Coming
    <3>2. CASE r = p
      <4>1. q \in pushes' /\ q.device = v /\ q.thing = twinOf[v] /\ q.seen = changes[v]
        BY <1>2, <3>1, <3>2
      <4> QED BY <1>2, <4>1 DEF Coming, Fresh
    <3>3. CASE r # p
      BY <1>2, <3>1, <3>3 DEF Coming, Fresh
    <3> QED BY <3>2, <3>3
  <2> QED BY <1>2, <2>1 DEF MirrorInv, Promised, CardNow
<1> QED BY <1>4, <1>5, <1>6, <1>7 DEF MirrorInv

LEMMA ReadKeeps ==
  ASSUME MirrorInv, NEW p \in pushes, Read(p)
  PROVE  MirrorInv'
<1> DEFINE u == p.device
           q == [burst |-> p.burst, device |-> u, step |-> "put", thing |-> p.thing,
                 seen |-> p.seen, card |-> Card(u, at, state, p.free)]
<1>1. /\ p.step = "fetched" /\ u \in Devices /\ p.burst \in Nat
      /\ p.thing \in Things /\ p.seen \in Nat /\ p.free \in Conditions
  BY PushTypes, FieldsOfPushes DEF Read
<1>2. /\ pushes' = (pushes \ {p}) \cup {q}
      /\ UNCHANGED <<at, state, condition, twinOf, saving, feature, steps, changes, shown,
                     behind>>
  BY DEF Read
<1>3. q \in Pushes
  <2>1. Card(u, at, state, p.free) \in Cards
    BY <1>1, PushTypes, CardType
  <2> QED BY <1>1, <2>1 DEF Pushes
<1>4. MirrorTypeOK'
  BY <1>2, <1>3, PushTypes DEF MirrorTypeOK
<1>5. MovesAreLocked'
  BY <1>2 DEF MirrorInv, MovesAreLocked
<1>6. PushesAreSound'
  <2>1. /\ q.seen <= changes[q.device] /\ q.step = "put"
        /\ q.seen = changes[q.device] => q.card = CardNow(q.device)
    BY <1>1 DEF MirrorInv, PushesAreSound, Fresh
  <2> QED BY <1>2, <2>1 DEF MirrorInv, PushesAreSound, Fresh, CardNow
<1>7. ASSUME NEW v \in Devices PROVE (shown[v] <= changes[v] /\ Promised(v))'
  <2>1. Coming(v) => Coming(v)'
    <3> SUFFICES ASSUME Coming(v) PROVE Coming(v)'
      OBVIOUS
    <3>1. PICK r \in pushes : r.device = v /\ (r.step = "waiting" \/ (r.thing = twinOf[v] /\ Fresh(r)))
      BY DEF Coming
    <3>2. CASE r = p
      <4>1. q \in pushes' /\ q.device = v /\ q.thing = twinOf[v] /\ q.seen = changes[v]
        BY <1>1, <1>2, <3>1, <3>2 DEF Fresh
      <4> QED BY <1>2, <4>1 DEF Coming, Fresh
    <3>3. CASE r # p
      BY <1>2, <3>1, <3>3 DEF Coming, Fresh
    <3> QED BY <3>2, <3>3
  <2> QED BY <1>2, <2>1 DEF MirrorInv, Promised, CardNow
<1> QED BY <1>4, <1>5, <1>6, <1>7 DEF MirrorInv

LEMMA DeliverKeeps ==
  ASSUME MirrorInv, NEW p \in pushes, Deliver(p)
  PROVE  MirrorInv'
<1> DEFINE u == p.device
           mine == p.thing = twinOf[u]
<1>1. /\ p.step = "put" /\ u \in Devices /\ p.thing \in Things /\ p.thing # NoThing
      /\ p.seen \in Nat /\ p.card \in Cards
  BY PushTypes, FieldsOfPushes, MirrorAssumption DEF Deliver
<1>2. /\ feature' = [feature EXCEPT ![p.thing] = p.card]
      /\ pushes' = pushes \ {p}
      /\ shown' = [shown EXCEPT ![u] = IF mine /\ p.seen > shown[u] THEN p.seen ELSE shown[u]]
      /\ behind' = {v \in Devices \ {u} : twinOf[v] = p.thing}
           \cup (IF mine /\ p.seen = changes[u] THEN behind \ {u}
                 ELSE IF mine /\ p.seen < shown[u] THEN behind \cup {u}
                 ELSE behind)
      /\ UNCHANGED <<at, state, condition, twinOf, saving, steps, changes>>
  BY DEF Deliver
<1>3. /\ p.seen <= changes[u] /\ changes[u] \in Nat /\ shown[u] \in Nat
      /\ p.seen = changes[u] => p.card = CardNow(u)
      /\ shown[u] <= changes[u] /\ Promised(u)
  BY <1>1, PushTypes DEF MirrorInv, PushesAreSound, Fresh
<1>4. MirrorTypeOK'
  BY <1>1, <1>2, PushTypes DEF MirrorTypeOK
<1>5. MovesAreLocked'
  BY <1>2 DEF MirrorInv, MovesAreLocked
<1>6. PushesAreSound'
  BY <1>2 DEF MirrorInv, PushesAreSound, Fresh, CardNow
<1>7. ASSUME NEW v \in Devices PROVE (shown[v] <= changes[v] /\ Promised(v))'
  <2>1. /\ CardNow(v)' = CardNow(v) /\ twinOf' = twinOf /\ changes' = changes
    BY <1>2 DEF CardNow
  <2>2. CASE v # u
    <3>1. shown'[v] = shown[v] /\ shown[v] <= changes[v] /\ Promised(v)
      BY <1>2, <2>2, PushTypes DEF MirrorInv
    <3>2. CASE twinOf[v] = p.thing
      <4>1. v \in behind'
        BY <1>2, <2>2, <3>2
      <4> QED BY <2>1, <3>1, <4>1 DEF Promised
    <3>3. CASE twinOf[v] # p.thing
      <4>1. v \in behind <=> v \in behind'
        BY <1>2, <2>2, <3>3
      <4>2. twinOf[v] # NoThing => feature'[twinOf[v]] = feature[twinOf[v]]
        BY <1>2, <3>3, PushTypes
      <4>3. Coming(v) => Coming(v)'
        BY <1>2, <2>2 DEF Coming, Fresh
      <4> QED BY <2>1, <3>1, <4>1, <4>2, <4>3 DEF Promised
    <3> QED BY <3>2, <3>3
  <2>3. CASE v = u
    <3>1. shown'[u] = IF mine /\ p.seen > shown[u] THEN p.seen ELSE shown[u]
      BY <1>1, <1>2, PushTypes
    <3>2. CASE ~ mine
      <4>1. shown'[u] = shown[u] /\ (u \in behind <=> u \in behind')
        BY <1>2, <3>1, <3>2
      <4>2. twinOf[u] # NoThing => feature'[twinOf[u]] = feature[twinOf[u]]
        BY <1>1, <1>2, <3>2, PushTypes
      <4>3. Coming(u) => Coming(u)'
        BY <1>1, <1>2, <3>2 DEF Coming, Fresh
      <4> QED BY <1>3, <2>1, <2>3, <4>1, <4>2, <4>3 DEF Promised
    <3>3. CASE mine /\ p.seen = changes[u]
      <4>1. shown'[u] = changes[u]
        BY <1>3, <3>1, <3>3
      <4>2. feature'[twinOf[u]] = CardNow(u)
        BY <1>1, <1>2, <1>3, <3>3, PushTypes
      <4>3. CardNow(u)' = CardNow(u) /\ changes'[u] = changes[u]
        BY <2>1, <2>3
      <4> QED BY <1>3, <2>1, <2>3, <4>1, <4>2, <4>3 DEF Promised
    <3>4. CASE mine /\ p.seen # changes[u] /\ p.seen < shown[u]
      <4>1. u \in behind' /\ shown'[u] = shown[u]
        BY <1>1, <1>2, <1>3, <3>1, <3>4
      <4> QED BY <1>3, <2>1, <2>3, <4>1 DEF Promised
    <3>5. CASE mine /\ p.seen # changes[u] /\ ~ (p.seen < shown[u])
      <4>1. p.seen < changes[u] /\ shown[u] < changes[u] /\ shown'[u] < changes[u]
        BY <1>1, <1>3, <3>1, <3>5
      <4>2. u \in behind <=> u \in behind'
        BY <1>2, <3>5
      <4>3. Coming(u) => Coming(u)'
        BY <1>1, <1>2, <3>5 DEF Coming, Fresh
      <4>4. twinOf[u] # NoThing /\ u \notin behind => Coming(u)
        BY <1>3, <4>1 DEF Promised
      <4>5. changes[u]' = changes[u] /\ shown'[u] \in Nat
        BY <1>1, <1>3, <2>1, <3>1
      <4> QED BY <2>1, <2>3, <4>1, <4>2, <4>3, <4>4, <4>5, <1>3 DEF Promised
    <3> QED BY <3>2, <3>3, <3>4, <3>5
  <2> QED BY <2>2, <2>3
<1> QED BY <1>4, <1>5, <1>6, <1>7 DEF MirrorInv

(* A push that is lost leaves its device behind if the twin needed it. *)
LEMMA LosingKeeps ==
  ASSUME MirrorInv, NEW gone \in SUBSET pushes,
         pushes' = pushes \ gone,
         behind' = behind \cup {p.device : p \in {q \in gone : Carries(q)}},
         UNCHANGED <<at, state, condition, twinOf, feature, steps, changes, shown>>,
         saving' = saving \/ saving' = [w \in Savers |-> NoSave]
  PROVE  MirrorInv'
<1>1. saving' \in [Savers -> Saves] /\ MovesAreLocked'
  <2>1. CASE saving' = saving
    BY <2>1, PushTypes DEF MirrorInv, MovesAreLocked
  <2>2. CASE saving' = [w \in Savers |-> NoSave]
    BY <2>2 DEF MovesAreLocked, NoSave, Saves
  <2> QED BY <2>1, <2>2
<1>2. behind \subseteq behind' /\ behind' \subseteq Devices
  BY PushTypes
<1>3. MirrorTypeOK'
  BY <1>1, <1>2, PushTypes DEF MirrorTypeOK
<1>4. PushesAreSound'
  BY DEF MirrorInv, PushesAreSound, Fresh, CardNow
<1>5. ASSUME NEW v \in Devices PROVE (shown[v] <= changes[v] /\ Promised(v))'
  <2>1. shown[v] <= changes[v] /\ Promised(v) /\ shown[v] \in Nat /\ changes[v] \in Nat
    BY PushTypes DEF MirrorInv
  <2>2. ASSUME v \notin behind', Coming(v), shown[v] < changes[v] PROVE Coming(v)'
    <3>1. PICK r \in pushes : r.device = v /\ (r.step = "waiting" \/ (r.thing = twinOf[v] /\ Fresh(r)))
      BY <2>2 DEF Coming
    <3>2. Carries(r)
      BY <2>2, <3>1, <2>1 DEF Carries, Fresh
    <3>3. r \notin gone
      BY <2>2, <3>1, <3>2
    <3> QED BY <3>1, <3>3 DEF Coming, Fresh
  <2> QED BY <1>2, <2>1, <2>2 DEF Promised, CardNow
<1> QED BY <1>1, <1>3, <1>4, <1>5 DEF MirrorInv

LEMMA GiveUpAndRestartKeep ==
  ASSUME MirrorInv, Restart \/ \E p \in pushes : GiveUp(p)
  PROVE  MirrorInv'
<1>1. CASE Restart
  <2>1. pushes' = pushes \ pushes
    BY <1>1 DEF Restart
  <2> QED BY <1>1, <2>1, LosingKeeps DEF Restart
<1>2. ASSUME NEW p \in pushes, GiveUp(p) PROVE MirrorInv'
  <2>1. {p} \in SUBSET pushes /\ pushes' = pushes \ {p}
    BY <1>2 DEF GiveUp
  <2>2. behind' = behind \cup {r.device : r \in {q \in {p} : Carries(q)}}
    <3>1. CASE Carries(p)
      BY <1>2, <3>1 DEF GiveUp
    <3>2. CASE ~ Carries(p)
      BY <1>2, <3>2 DEF GiveUp
    <3> QED BY <3>1, <3>2
  <2> QED BY <1>2, <2>1, <2>2, LosingKeeps DEF GiveUp
<1> QED BY <1>1, <1>2

LEMMA RepairKeeps ==
  ASSUME MirrorInv, NEW u \in Devices, NEW new \in Conditions, Repair(u, new)
  PROVE  MirrorInv'
<1> DEFINE look(free) == Card(u, at, state, free)
<1>1. /\ condition' = [condition EXCEPT ![u] = new]
      /\ changes' = [changes EXCEPT ![u] =
           IF look(new) = look(condition[u]) THEN changes[u] ELSE changes[u] + 1]
      /\ behind' = behind \cup {u}
      /\ steps' = steps + 1
      /\ UNCHANGED <<at, state, twinOf, saving, pushes, feature, shown>>
  BY DEF Repair
<1>2. MirrorTypeOK'
  BY <1>1, PushTypes DEF MirrorTypeOK
<1>3. MovesAreLocked'
  BY <1>1 DEF MirrorInv, MovesAreLocked
<1>4. ASSUME NEW v \in Devices, v # u
      PROVE  CardNow(v)' = CardNow(v) /\ changes'[v] = changes[v]
  BY <1>1, <1>4, PushTypes DEF CardNow
<1>5. \/ changes'[u] = changes[u] /\ look(new) = look(condition[u])
      \/ changes'[u] = changes[u] + 1
  BY <1>1, PushTypes
<1>6. CardNow(u)' = look(new) /\ CardNow(u) = look(condition[u])
  BY <1>1, PushTypes DEF CardNow
<1>7. PushesAreSound'
  <2> SUFFICES ASSUME NEW p \in pushes
      PROVE /\ p.step # "waiting" => p.seen <= changes'[p.device]
            /\ p.step = "fetched" /\ p.seen = changes'[p.device] =>
                 Card(p.device, at, state, p.free) = CardNow(p.device)'
            /\ p.step = "put" /\ p.seen = changes'[p.device] =>
                 p.card = CardNow(p.device)'
    BY <1>1 DEF PushesAreSound, Fresh
  <2>1. /\ p.device \in Devices /\ changes[p.device] \in Nat
        /\ p.step # "waiting" => p.seen \in Nat
    BY PushTypes, FieldsOfPushes
  <2>2. /\ p.step # "waiting" => p.seen <= changes[p.device]
        /\ p.step = "fetched" /\ p.seen = changes[p.device] =>
             Card(p.device, at, state, p.free) = CardNow(p.device)
        /\ p.step = "put" /\ p.seen = changes[p.device] => p.card = CardNow(p.device)
    BY DEF MirrorInv, PushesAreSound, Fresh
  <2>3. CASE p.device # u
    BY <1>4, <2>1, <2>2, <2>3
  <2>4. CASE p.device = u /\ changes'[u] = changes[u] + 1
    BY <2>1, <2>2, <2>4, FieldsOfPushes
  <2>5. CASE p.device = u /\ changes'[u] = changes[u] /\ look(new) = look(condition[u])
    BY <1>6, <2>1, <2>2, <2>5
  <2> QED BY <1>5, <2>3, <2>4, <2>5
<1>8. ASSUME NEW v \in Devices PROVE (shown[v] <= changes[v] /\ Promised(v))'
  <2>1. shown[v] <= changes[v] /\ Promised(v) /\ shown[v] \in Nat /\ changes[v] \in Nat
    BY PushTypes DEF MirrorInv
  <2>2. CASE v = u
    <3>1. v \in behind' /\ shown'[v] = shown[v]
      BY <1>1, <2>2
    <3>2. shown'[v] <= changes'[v]
      BY <1>5, <2>1, <2>2, <3>1
    <3> QED BY <3>1, <3>2 DEF Promised
  <2>3. CASE v # u
    <3>1. Coming(v) => Coming(v)'
      BY <1>1, <1>4, <2>3 DEF Coming, Fresh
    <3>2. (v \in behind <=> v \in behind') /\ twinOf' = twinOf /\ feature' = feature
          /\ shown' = shown
      BY <1>1, <2>3
    <3> QED BY <1>4, <2>1, <2>3, <3>1, <3>2 DEF Promised
  <2> QED BY <2>2, <2>3
<1> QED BY <1>2, <1>3, <1>7, <1>8 DEF MirrorInv

LEMMA RelinkKeeps ==
  ASSUME MirrorInv, NEW u \in Devices,
         ClearTwin(u) \/ \E t \in Things : SetTwin(u, t)
  PROVE  MirrorInv'
<1>1. PICK t \in Things \cup {NoThing} :
        /\ twinOf' = [twinOf EXCEPT ![u] = t]
        /\ behind' = behind \/ behind' = behind \cup {u}
        /\ t # NoThing => u \in behind'
        /\ steps' = steps + 1
        /\ UNCHANGED <<at, state, condition, saving, pushes, feature, changes, shown>>
  <2>1. CASE ClearTwin(u)
    BY <2>1 DEF ClearTwin
  <2>2. ASSUME NEW t \in Things, SetTwin(u, t)
        PROVE  /\ twinOf' = [twinOf EXCEPT ![u] = t]
               /\ behind' = behind \cup {u}
               /\ steps' = steps + 1
               /\ UNCHANGED <<at, state, condition, saving, pushes, feature, changes, shown>>
    BY <2>2 DEF SetTwin
  <2> QED BY <2>1, <2>2
<1>2. MirrorTypeOK'
  <2>1. behind' \subseteq Devices /\ twinOf' \in [Devices -> Things \cup {NoThing}]
    BY <1>1, PushTypes
  <2> QED BY <1>1, <2>1, PushTypes DEF MirrorTypeOK
<1>3. MovesAreLocked' /\ PushesAreSound'
  BY <1>1 DEF MirrorInv, MovesAreLocked, PushesAreSound, Fresh, CardNow
<1>4. ASSUME NEW v \in Devices PROVE (shown[v] <= changes[v] /\ Promised(v))'
  <2>1. shown[v] <= changes[v] /\ Promised(v)
    BY DEF MirrorInv
  <2>2. CASE v = u
    <3>1. twinOf'[v] = NoThing \/ v \in behind'
      BY <1>1, <2>2, PushTypes
    <3> QED BY <1>1, <2>1, <3>1 DEF Promised
  <2>3. CASE v # u
    <3>1. twinOf'[v] = twinOf[v] /\ (v \in behind' <=> v \in behind)
      BY <1>1, <2>3, PushTypes
    <3>2. Coming(v) => Coming(v)'
      BY <1>1, <3>1 DEF Coming, Fresh
    <3> QED BY <1>1, <2>1, <3>1, <3>2 DEF Promised, CardNow
  <2> QED BY <2>2, <2>3
<1> QED BY <1>2, <1>3, <1>4 DEF MirrorInv

LEMMA SyncKeeps ==
  ASSUME MirrorInv, SyncTwins
  PROVE  MirrorInv'
<1> DEFINE fresh == {[burst |-> steps, device |-> u, step |-> "fetched", thing |-> twinOf[u],
                      seen |-> changes[u], free |-> condition[u]]
                       : u \in {v \in Devices : twinOf[v] # NoThing}}
<1>1. /\ pushes' = pushes \cup fresh
      /\ steps' = steps + 1
      /\ UNCHANGED <<at, state, condition, twinOf, saving, feature, changes, shown, behind>>
  BY DEF SyncTwins
<1>2. fresh \subseteq Pushes
  BY PushTypes DEF Pushes
<1>3. MirrorTypeOK'
  BY <1>1, <1>2, PushTypes DEF MirrorTypeOK
<1>4. MovesAreLocked'
  BY <1>1 DEF MirrorInv, MovesAreLocked
<1>5. PushesAreSound'
  <2>1. \A p \in fresh : /\ p.seen <= changes[p.device] /\ p.step = "fetched"
                         /\ Card(p.device, at, state, p.free) = CardNow(p.device)
    BY PushTypes DEF CardNow
  <2> QED BY <1>1, <2>1 DEF MirrorInv, PushesAreSound, Fresh, CardNow
<1>6. ASSUME NEW v \in Devices PROVE (shown[v] <= changes[v] /\ Promised(v))'
  <2>1. Coming(v) => Coming(v)'
    BY <1>1 DEF Coming, Fresh
  <2> QED BY <1>1, <2>1 DEF MirrorInv, Promised, CardNow
<1> QED BY <1>3, <1>4, <1>5, <1>6 DEF MirrorInv

LEMMA MirrorStep == MirrorInv /\ [MirrorNext]_mirror => MirrorInv'
<1> SUFFICES ASSUME MirrorInv, [MirrorNext]_mirror PROVE MirrorInv'
  OBVIOUS
<1>1. ASSUME NEW w \in Savers, SaveStep(w) PROVE MirrorInv'
  BY <1>1, MoveKeeps, PlaceKeeps, LoadKeeps, LoadToDeleteKeeps, LookKeeps, WriteKeeps,
     WriteNothingKeeps DEF SaveStep
<1>2. ASSUME NEW p \in pushes, Fetch(p) \/ Read(p) \/ Deliver(p) \/ GiveUp(p)
      PROVE  MirrorInv'
  BY <1>2, FetchKeeps, ReadKeeps, DeliverKeeps, GiveUpAndRestartKeep
<1>3. CASE Restart
  BY <1>3, GiveUpAndRestartKeep
<1>4. ASSUME NEW u \in Devices,
             \/ \E new \in Conditions : Repair(u, new)
             \/ \E t \in Things : SetTwin(u, t)
             \/ ClearTwin(u)
      PROVE  MirrorInv'
  BY <1>4, RepairKeeps, RelinkKeeps
<1>5. CASE SyncTwins
  BY <1>5, SyncKeeps
<1>6. CASE UNCHANGED mirror
  <2>1. saving' \in [Savers -> Saves] /\ MovesAreLocked'
    BY <1>6, PushTypes DEF mirror, MirrorInv, MovesAreLocked
  <2> QED BY <1>6, <2>1, RequestOnly DEF mirror
<1> QED BY <1>1, <1>2, <1>3, <1>4, <1>5, <1>6 DEF MirrorNext

(* Saves, pushes, twins and what is known of them keep their types, for any batches,
   devices, twins and request threads. *)
THEOREM MirrorTypeCorrect == MirrorSpec => []MirrorTypeOK
<1>1. MirrorInv => MirrorTypeOK
  BY DEF MirrorInv
<1> QED BY <1>1, MirrorStarts, MirrorStep, PTL DEF MirrorSpec

(* A twin that no push is on its way to shows what stands on its device, unless the
   module names the reason: the devices a save pushes are all it can have changed, and
   of two pushes the one that saw the last change wins or leaves a mark. *)
THEOREM TwinsCatchUp == MirrorSpec => []MirrorCatchesUp
<1>1. MirrorInv => MirrorCatchesUp
  <2> SUFFICES ASSUME MirrorInv, NEW u \in Devices, twinOf[u] # NoThing, u \notin behind,
                      \A p \in pushes : p.device # u
               PROVE  feature[twinOf[u]] = CardNow(u)
    BY DEF MirrorCatchesUp
  <2>1. ~ Coming(u)
    BY DEF Coming
  <2> QED BY <2>1 DEF MirrorInv, Promised
<1> QED BY <1>1, MirrorStarts, MirrorStep, PTL DEF MirrorSpec

-----------------------------------------------------------------------------
(* The stream of points *)

Promises(t) == t.step = "ready" \/ t.seen = changed[t.machine]

(* A reading that saw the last change says who stands on the machine now. *)
ReadingsAreSound ==
  /\ \A t \in tells : t.step # "ready" =>
       /\ t.seen <= changed[t.machine]
       /\ t.seen = changed[t.machine] => t.who = Now(t.machine)
  /\ \A m \in Machines :
       /\ panel[m].seen <= changed[m]
       /\ panel[m].seen = changed[m] => panel[m].who = Now(m)

Awaited(m) == \E t \in tells : t.machine = m /\ Promises(t)

Ensured(m) == m \notin adrift => panel[m].seen = changed[m] \/ Awaited(m)

RowEnsured(r) ==
  r.batch \notin Rehearsals => r \in lost \/ Delivered(r) \/ \E p \in pours : p.row = r

StreamInv ==
  /\ StreamTypeOK
  /\ ReadingsAreSound
  /\ \A m \in Machines : Ensured(m)
  /\ \A p \in pours : p.step = "made" => p.point.row = p.row.row
  /\ \A r \in history : RowEnsured(r)

LEMMA StreamTypes ==
  ASSUME StreamInv
  PROVE  /\ stands \in [Parties -> Spots] /\ onBoard \subseteq Parties
         /\ history \subseteq HistoryRows /\ writing \in [Hands -> Writings]
         /\ pours \subseteq Pours /\ tells \subseteq Tells /\ bucket \subseteq Points
         /\ panel \in [Machines -> LastPoint] /\ clock \in Nat /\ moves \in Nat
         /\ changed \in [Machines -> Nat] /\ lost \subseteq HistoryRows
         /\ adrift \subseteq Machines
BY DEF StreamInv, StreamTypeOK

LEMMA FieldsOfTells ==
  ASSUME NEW t \in Tells
  PROVE  /\ t.machine \in Machines /\ t.burst \in Nat
         /\ t.step \in {"ready", "read", "stamped"}
         /\ t.step # "ready" => t.seen \in Nat /\ t.who \in SUBSET Parties
         /\ t.step = "stamped" => t.stamp \in Nat
BY DEF Tells

LEMMA FieldsOfPours ==
  ASSUME NEW p \in Pours
  PROVE  /\ p.row \in HistoryRows /\ p.times \in Nat
         /\ p.step \in {"ready", "made"}
         /\ p.step = "made" => p.point \in Points
BY DEF Pours

LEMMA FieldsOfWritings ==
  ASSUME NEW s \in Writings
  PROVE  /\ s.op \in {"idle", "place", "close"}
         /\ s.op # "idle" => s.batch \in Parties /\ s.prev \in Spots
         /\ s.op = "place" => s.to \in Spots
BY DEF Writings, Idle

LEMMA StreamStarts == StreamInit => StreamInv
<1> SUFFICES ASSUME StreamInit PROVE StreamInv
  OBVIOUS
<1> USE StreamAssumption
<1>1. \A m \in Machines : Now(m) \in SUBSET Parties
  BY DEF Now, StandingOn, StreamInit
<1>2. StreamTypeOK
  BY <1>1 DEF StreamInit, StreamTypeOK, Spots, Writings, LastPoint, HistoryRows
<1>3. ReadingsAreSound
  BY DEF StreamInit, ReadingsAreSound
<1>4. \A m \in Machines : Ensured(m)
  BY DEF StreamInit, Ensured
<1> QED BY <1>2, <1>3, <1>4 DEF StreamInv, StreamInit

(* Only the machines a batch leaves and comes to are stood on by others. *)
LEMMA StandingElsewhere ==
  ASSUME NEW on, NEW on2, NEW there, NEW there2, NEW b, NEW m,
         m # on[b], m # on2[b],
         \A c : c # b => (on2[c] = on[c] /\ (c \in there2 <=> c \in there))
  PROVE  StandingOn(m, on2, there2) = StandingOn(m, on, there)
BY DEF StandingOn

(* A save keeps what is promised of the panel: it tells of every machine it changed,
   or leaves it adrift. *)
LEMMA SavedKeeps ==
  ASSUME StreamInv, NEW b \in Parties, NEW to \in Spots, NEW there \in SUBSET Parties,
         NEW prev \in Spots, NEW ids \in SUBSET Machines,
         \A c : c # b => (c \in there <=> c \in onBoard),
         Saved(b, [stands EXCEPT ![b] = to], there, ids, prev),
         to \in Machines /\ to # stands[b] => to \in ids \/ b \in Rehearsals,
         \/ b \in Rehearsals
         \/ stands[b] # prev
         \/ stands[b] \in Machines => stands[b] \in ids,
         panel' = panel
  PROVE  /\ stands' \in [Parties -> Spots] /\ onBoard' \subseteq Parties
         /\ tells' \subseteq Tells /\ changed' \in [Machines -> Nat]
         /\ adrift' \subseteq Machines /\ moves' \in Nat
         /\ ReadingsAreSound'
         /\ \A m \in Machines : Ensured(m)'
<1> DEFINE on == [stands EXCEPT ![b] = to]
           touched == {m \in Machines : StandingOn(m, on, there) # Now(m)}
           new == {[burst |-> moves, machine |-> m, step |-> "ready"] : m \in ids}
           excused == b \in Rehearsals \/ stands[b] # prev
<1>1. /\ stands' = on /\ onBoard' = there
      /\ changed' = [m \in Machines |-> IF m \in touched THEN changed[m] + 1 ELSE changed[m]]
      /\ tells' = tells \cup new
      /\ adrift' = adrift \cup (IF excused THEN touched \ ids ELSE {})
      /\ moves' = moves + 1
  BY DEF Saved
<1>2. on \in [Parties -> Spots] /\ on[b] = to /\ \A c : c # b => on[c] = stands[c]
  BY StreamTypes
<1>3. new \subseteq Tells
  BY StreamTypes DEF Tells
<1>4. ASSUME NEW m \in Machines, m \in touched
      PROVE  m \in ids \/ m \in adrift'
  <2>1. CASE m = stands[b] \/ m = to
    <3>1. CASE excused
      BY <1>1, <1>4, <3>1
    <3>2. CASE ~ excused
      BY <2>1, <3>2
    <3> QED BY <3>1, <3>2
  <2>2. CASE m # stands[b] /\ m # to
    <3>1. StandingOn(m, on, there) = StandingOn(m, stands, onBoard)
      <4>1. m # stands[b] /\ m # on[b]
        BY <1>2, <2>2
      <4> HIDE DEF on
      <4>2. \A c : c # b => (on[c] = stands[c] /\ (c \in there <=> c \in onBoard))
        BY <1>2
      <4> QED BY ONLY <4>1, <4>2, StandingElsewhere
    <3> QED BY <1>4, <3>1 DEF Now
  <2> QED BY <2>1, <2>2
<1>5. \A m \in Machines : Now(m)' = StandingOn(m, on, there)
  BY <1>1 DEF Now
<1>6. ASSUME NEW m \in Machines
      PROVE  \/ m \notin touched /\ Now(m)' = Now(m) /\ changed'[m] = changed[m]
             \/ m \in touched /\ changed'[m] = changed[m] + 1
  BY <1>1, <1>5
<1>7. ReadingsAreSound'
  <2>1. ASSUME NEW m \in Machines
        PROVE  /\ panel[m].seen <= changed'[m]
               /\ panel[m].seen = changed'[m] => panel[m].who = Now(m)'
    <3>1. panel[m].seen \in Nat /\ changed[m] \in Nat /\ panel[m].seen <= changed[m]
      BY StreamTypes DEF StreamInv, ReadingsAreSound, LastPoint
    <3>2. panel[m].seen = changed[m] => panel[m].who = Now(m)
      BY DEF StreamInv, ReadingsAreSound
    <3> QED BY <1>6, <3>1, <3>2
  <2>2. ASSUME NEW t \in tells', t.step # "ready"
        PROVE  /\ t.seen <= changed'[t.machine]
               /\ t.seen = changed'[t.machine] => t.who = Now(t.machine)'
    <3>1. t \in tells
      BY <1>1, <2>2
    <3>2. t.machine \in Machines /\ t.seen \in Nat /\ changed[t.machine] \in Nat
      BY <2>2, <3>1, StreamTypes, FieldsOfTells
    <3>3. /\ t.seen <= changed[t.machine]
          /\ t.seen = changed[t.machine] => t.who = Now(t.machine)
      BY <2>2, <3>1 DEF StreamInv, ReadingsAreSound
    <3>4. CASE Now(t.machine)' = Now(t.machine) /\ changed'[t.machine] = changed[t.machine]
      BY <3>3, <3>4
    <3>5. CASE changed'[t.machine] = changed[t.machine] + 1
      BY <3>2, <3>3, <3>5
    <3> QED BY <1>6, <3>2, <3>4, <3>5
  <2> QED BY <2>1, <2>2 DEF ReadingsAreSound
<1>8. ASSUME NEW m \in Machines PROVE Ensured(m)'
  <2>1. CASE m \in touched
    <3>1. CASE m \in ids
      <4>1. [burst |-> moves, machine |-> m, step |-> "ready"] \in tells'
        BY <1>1, <3>1
      <4> QED BY <4>1 DEF Ensured, Awaited, Promises
    <3>2. CASE m \in adrift'
      BY <3>2 DEF Ensured
    <3> QED BY <1>4, <2>1, <3>1, <3>2
  <2>2. CASE m \notin touched
    <3>1. changed'[m] = changed[m] /\ (m \in adrift => m \in adrift')
      BY <1>1, <1>6, <2>2
    <3>2. Awaited(m) => Awaited(m)'
      BY <1>1, <3>1 DEF Awaited, Promises
    <3> QED BY <3>1, <3>2 DEF Ensured, StreamInv
  <2> QED BY <2>1, <2>2
<1>9. adrift' \subseteq Machines /\ changed' \in [Machines -> Nat]
  BY <1>1, StreamTypes
<1> QED BY <1>1, <1>2, <1>3, <1>7, <1>8, <1>9, StreamTypes

LEMMA ShiftKeeps ==
  ASSUME StreamInv, NEW b \in Parties, NEW done \in BOOLEAN, Shift(b, done)
  PROVE  StreamInv'
<1> DEFINE r == [row |-> clock, batch |-> b]
           there == IF done THEN onBoard \ {b} ELSE onBoard
           ids == Told(b, Nowhere, stands[b])
<1>1. /\ history' = history \cup {r}
      /\ Saved(b, [stands EXCEPT ![b] = Nowhere], there, ids, stands[b])
      /\ pours' = pours \cup Poured(r)
      /\ clock' = clock + 1
      /\ UNCHANGED <<writing, bucket, panel, lost>>
  BY DEF Shift
<1>2. /\ there \in SUBSET Parties /\ (\A c : c # b => (c \in there <=> c \in onBoard))
      /\ stands[b] \in Spots /\ Nowhere \in Spots /\ Nowhere \notin Machines
      /\ ids \in SUBSET Machines
      /\ b \in Rehearsals \/ (stands[b] \in Machines => stands[b] \in ids)
  BY StreamTypes, StreamAssumption DEF Told, Spots
<1>3. /\ stands' \in [Parties -> Spots] /\ onBoard' \subseteq Parties
      /\ tells' \subseteq Tells /\ changed' \in [Machines -> Nat]
      /\ adrift' \subseteq Machines /\ moves' \in Nat
      /\ ReadingsAreSound'
      /\ \A m \in Machines : Ensured(m)'
  <2>1. panel' = panel /\ Saved(b, [stands EXCEPT ![b] = Nowhere], there, ids, stands[b])
    BY <1>1
  <2> HIDE DEF there, ids
  <2> QED BY <1>2, <2>1, SavedKeeps
<1>4. r \in HistoryRows /\ r.batch = b
  BY StreamTypes DEF HistoryRows
<1>5. Poured(r) \subseteq Pours /\ \A p \in Poured(r) : p.step = "ready"
  BY <1>4, StreamTypes DEF Poured, Pours
<1>6. StreamTypeOK'
  BY <1>1, <1>3, <1>4, <1>5, StreamTypes DEF StreamTypeOK
<1>7. \A p \in pours' : p.step = "made" => p.point.row = p.row.row
  BY <1>1, <1>5 DEF StreamInv
<1>8. ASSUME NEW h \in history' PROVE RowEnsured(h)'
  <2>1. CASE h \in history
    BY <1>1, <2>1 DEF StreamInv, RowEnsured, Delivered
  <2>2. CASE h = r
    <3>1. b \notin Rehearsals => [step |-> "ready", row |-> r, times |-> moves] \in pours'
      BY <1>1, <1>4 DEF Poured
    <3> QED BY <1>4, <2>2, <3>1 DEF RowEnsured
  <2> QED BY <1>1, <2>1, <2>2
<1> QED BY <1>3, <1>6, <1>7, <1>8 DEF StreamInv

(* A request that has not written yet changes nothing else. *)
LEMMA LookingKeeps ==
  ASSUME StreamInv, NEW w \in Hands, NEW b \in Parties,
         CallOff(w, b) \/ \E m \in Spots : Choose(w, b, m)
  PROVE  StreamInv'
<1>1. writing' \in [Hands -> Writings]
  <2>1. CASE CallOff(w, b)
    <3>1. [op |-> "close", batch |-> b, prev |-> stands[b]] \in Writings
      BY StreamTypes DEF Writings
    <3> QED BY <2>1, <3>1, StreamTypes DEF CallOff
  <2>2. ASSUME NEW m \in Spots, Choose(w, b, m) PROVE writing' \in [Hands -> Writings]
    <3>1. [op |-> "place", batch |-> b, to |-> m, prev |-> stands[b]] \in Writings
      BY StreamTypes DEF Writings
    <3> QED BY <2>2, <3>1, StreamTypes DEF Choose
  <2> QED BY <2>1, <2>2
<1>2. UNCHANGED <<stands, onBoard, history, moves, pours, tells, bucket, panel, clock,
                  changed, lost, adrift>>
  BY DEF CallOff, Choose, Quiet
<1>3. StreamTypeOK'
  BY <1>1, <1>2, StreamTypes DEF StreamTypeOK
<1> QED BY <1>2, <1>3 DEF StreamInv, ReadingsAreSound, Ensured, Awaited, Promises,
                          RowEnsured, Delivered, Now

LEMMA WritingKeeps ==
  ASSUME StreamInv, NEW w \in Hands, Placed(w) \/ CalledOff(w) \/ Removed(w)
  PROVE  StreamInv'
<1> DEFINE b == writing[w].batch
<1>0. writing[w] \in Writings /\ Idle \in Writings
  BY StreamTypes DEF Writings
<1>1. /\ b \in Parties /\ writing[w].prev \in Spots
      /\ writing' = [writing EXCEPT ![w] = Idle]
      /\ history' \subseteq history
      /\ UNCHANGED <<pours, bucket, panel, clock, lost>>
  BY <1>0, FieldsOfWritings DEF Placed, CalledOff, Removed
<1>2. /\ stands' \in [Parties -> Spots] /\ onBoard' \subseteq Parties
      /\ tells' \subseteq Tells /\ changed' \in [Machines -> Nat]
      /\ adrift' \subseteq Machines /\ moves' \in Nat
      /\ ReadingsAreSound'
      /\ \A m \in Machines : Ensured(m)'
  <2>0. panel' = panel
    BY <1>1
  <2>1. CASE Placed(w)
    <3> DEFINE ids == Told(b, writing[w].to, writing[w].prev)
    <3>1. /\ writing[w].to \in Spots
          /\ Saved(b, [stands EXCEPT ![b] = writing[w].to], onBoard, ids, writing[w].prev)
      BY <1>0, <2>1, FieldsOfWritings DEF Placed
    <3>2. /\ ids \in SUBSET Machines /\ onBoard \in SUBSET Parties
          /\ writing[w].to \in Machines => writing[w].to \in ids \/ b \in Rehearsals
          /\ \/ b \in Rehearsals
             \/ stands[b] # writing[w].prev
             \/ stands[b] \in Machines => stands[b] \in ids
      BY StreamTypes DEF Told
    <3> HIDE DEF ids, b
    <3> QED BY <1>1, <2>0, <3>1, <3>2, SavedKeeps
  <2>2. CASE CalledOff(w) \/ Removed(w)
    <3>1. PICK ids \in SUBSET Machines :
            /\ Saved(b, stands, onBoard \ {b}, ids, writing[w].prev)
            /\ \/ b \in Rehearsals
               \/ stands[b] # writing[w].prev
               \/ stands[b] \in Machines => stands[b] \in ids
      <4>1. /\ Told(b, writing[w].prev, writing[w].prev) \in SUBSET Machines
            /\ Told(b, writing[w].prev, Nowhere) \in SUBSET Machines
            /\ b \notin Rehearsals /\ stands[b] = writing[w].prev /\ stands[b] \in Machines
                 => /\ stands[b] \in Told(b, writing[w].prev, writing[w].prev)
                    /\ stands[b] \in Told(b, writing[w].prev, Nowhere)
        BY DEF Told
      <4>2. CASE CalledOff(w)
        <5>1. Saved(b, stands, onBoard \ {b}, Told(b, writing[w].prev, writing[w].prev),
                    writing[w].prev)
          BY <4>2 DEF CalledOff
        <5> HIDE DEF b
        <5> QED BY <4>1, <5>1
      <4>3. CASE Removed(w)
        <5>1. Saved(b, stands, onBoard \ {b}, Told(b, writing[w].prev, Nowhere),
                    writing[w].prev)
          BY <4>3 DEF Removed
        <5> HIDE DEF b
        <5> QED BY <4>1, <5>1
      <4> QED BY <2>2, <4>2, <4>3
    <3>2. stands = [stands EXCEPT ![b] = stands[b]] /\ stands[b] \in Spots
          /\ onBoard \ {b} \in SUBSET Parties
          /\ \A c : c # b => (c \in onBoard \ {b} <=> c \in onBoard)
      BY <1>1, StreamTypes
    <3>3. Saved(b, [stands EXCEPT ![b] = stands[b]], onBoard \ {b}, ids, writing[w].prev)
      BY <3>1, <3>2
    <3> HIDE DEF b
    <3> QED BY <1>1, <2>0, <3>1, <3>2, <3>3, SavedKeeps
  <2> QED BY <2>1, <2>2
<1>3. StreamTypeOK'
  BY <1>0, <1>1, <1>2, StreamTypes DEF StreamTypeOK
<1>4. \A r \in history' : RowEnsured(r)'
  BY <1>1 DEF StreamInv, RowEnsured, Delivered
<1> QED BY <1>1, <1>2, <1>3, <1>4 DEF StreamInv

(* Lines of the history leave states alone. *)
LEMMA PoursKeep ==
  ASSUME StreamInv, NEW p \in pours, Make(p) \/ Pour(p) \/ Spill(p)
  PROVE  StreamInv'
<1>1. /\ UNCHANGED <<stands, onBoard, history, writing, tells, panel, clock, moves, changed,
                     adrift>>
  BY DEF Make, Pour, Spill
<1>2. p \in Pours /\ p.row \in HistoryRows /\ p.times \in Nat
  BY StreamTypes, FieldsOfPours
<1>3. ReadingsAreSound' /\ \A m \in Machines : Ensured(m)'
  BY <1>1 DEF StreamInv, ReadingsAreSound, Ensured, Awaited, Promises, Now
<1>4. CASE Make(p)
  <2> DEFINE q == [step |-> "made", row |-> p.row, point |-> PointOf(p.row), times |-> p.times]
  <2>1. /\ pours' = (pours \ {p}) \cup (IF p.row \notin history THEN {} ELSE {q})
        /\ UNCHANGED <<bucket, lost>>
    BY <1>4 DEF Make
  <2>2. PointOf(p.row) \in Points /\ PointOf(p.row).row = p.row.row
    BY <1>2, StreamTypes DEF PointOf, Points, HistoryRows
  <2>3. q \in Pours
    BY <1>2, <2>2 DEF Pours
  <2>4. StreamTypeOK'
    BY <1>1, <2>1, <2>3, StreamTypes DEF StreamTypeOK
  <2>5. \A h \in pours' : h.step = "made" => h.point.row = h.row.row
    BY <2>1, <2>2 DEF StreamInv
  <2>6. \A r \in history : RowEnsured(r)'
    <3>1. TAKE r \in history
    <3>2. RowEnsured(r)
      BY DEF StreamInv
    <3>3. (\E h \in pours : h.row = r) => \E h \in pours' : h.row = r
      <4>1. CASE p.row = r
        <5>1. q \in pours' /\ q.row = r
          BY <2>1, <4>1
        <5> QED BY <5>1
      <4>2. CASE p.row # r
        BY <2>1, <4>2
      <4> QED BY <4>1, <4>2
    <3> QED BY <2>1, <3>2, <3>3 DEF RowEnsured, Delivered
  <2> QED BY <1>1, <1>3, <2>4, <2>5, <2>6 DEF StreamInv
<1>5. CASE Pour(p)
  <2>1. /\ p.step = "made" /\ pours' = pours \ {p} /\ bucket' = bucket \cup {p.point}
        /\ lost' = lost \ {p.row}
    BY <1>5 DEF Pour
  <2>2. p.point \in Points /\ p.point.row = p.row.row
    BY <1>2, <2>1, FieldsOfPours DEF StreamInv
  <2>3. StreamTypeOK'
    BY <1>1, <2>1, <2>2, StreamTypes DEF StreamTypeOK
  <2>4. \A r \in history : RowEnsured(r)'
    <3>1. TAKE r \in history
    <3>2. RowEnsured(r)
      BY DEF StreamInv
    <3>3. CASE p.row = r
      BY <2>1, <2>2, <3>3 DEF RowEnsured, Delivered
    <3>4. CASE p.row # r
      BY <2>1, <3>2, <3>4 DEF RowEnsured, Delivered
    <3> QED BY <3>3, <3>4
  <2> QED BY <1>1, <1>3, <2>1, <2>3, <2>4 DEF StreamInv
<1>6. CASE Spill(p)
  <2>1. /\ pours' = pours \ {p} /\ bucket' = bucket
        /\ lost' = lost \cup (IF Delivered(p.row) THEN {} ELSE {p.row})
    BY <1>6 DEF Spill
  <2>2. StreamTypeOK'
    BY <1>1, <1>2, <2>1, StreamTypes DEF StreamTypeOK
  <2>3. \A r \in history : RowEnsured(r)'
    <3>1. TAKE r \in history
    <3>2. RowEnsured(r)
      BY DEF StreamInv
    <3>3. Delivered(r)' <=> Delivered(r)
      BY <2>1 DEF Delivered
    <3>4. CASE p.row = r
      BY <2>1, <3>3, <3>4 DEF RowEnsured
    <3>5. CASE p.row # r
      BY <2>1, <3>2, <3>3, <3>5 DEF RowEnsured
    <3> QED BY <3>4, <3>5
  <2> QED BY <1>1, <1>3, <2>1, <2>2, <2>3 DEF StreamInv
<1> QED BY <1>4, <1>5, <1>6

LEMMA AskAndStampKeep ==
  ASSUME StreamInv, NEW t \in tells, Ask(t) \/ Stamp(t)
  PROVE  StreamInv'
<1> DEFINE m == t.machine
<1>0. t \in Tells /\ m \in Machines /\ t.burst \in Nat
  BY StreamTypes, FieldsOfTells
<1>1. PICK q \in Tells :
        /\ tells' = (tells \ {t}) \cup {q}
        /\ q.machine = m /\ q.step # "ready"
        /\ Promises(t) => q.seen = changed[m]
        /\ q.seen <= changed[m]
        /\ q.seen = changed[m] => q.who = Now(m)
  <2>1. CASE Ask(t)
    <3> DEFINE q == [burst |-> t.burst, machine |-> m, step |-> "read",
                     seen |-> changed[m], who |-> Now(m)]
    <3>1. changed[m] \in Nat /\ Now(m) \in SUBSET Parties
      BY <1>0, StreamTypes DEF Now, StandingOn
    <3>2. q \in Tells
      BY <1>0, <3>1 DEF Tells
    <3>3. tells' = (tells \ {t}) \cup {q}
      BY <2>1 DEF Ask
    <3> QED BY <3>1, <3>2, <3>3
  <2>2. CASE Stamp(t)
    <3> DEFINE q == [burst |-> t.burst, machine |-> m, step |-> "stamped", seen |-> t.seen,
                     who |-> t.who, stamp |-> clock]
    <3>1. t.step = "read" /\ tells' = (tells \ {t}) \cup {q}
      BY <2>2 DEF Stamp
    <3>2. t.seen \in Nat /\ t.who \in SUBSET Parties /\ clock \in Nat
      BY <1>0, <3>1, StreamTypes, FieldsOfTells
    <3>3. q \in Tells
      BY <1>0, <3>2 DEF Tells
    <3>4. t.seen <= changed[m] /\ (t.seen = changed[m] => t.who = Now(m))
      BY <3>1 DEF StreamInv, ReadingsAreSound
    <3> QED BY <3>1, <3>3, <3>4 DEF Promises
  <2> QED BY <2>1, <2>2
<1>2. /\ UNCHANGED <<stands, onBoard, history, writing, pours, bucket, panel, moves, changed,
                     lost, adrift>>
      /\ clock' \in Nat
  BY StreamTypes DEF Ask, Stamp
<1>3. StreamTypeOK'
  BY <1>1, <1>2, StreamTypes DEF StreamTypeOK
<1>4. ReadingsAreSound'
  BY <1>1, <1>2 DEF StreamInv, ReadingsAreSound, Now
<1>5. ASSUME NEW k \in Machines PROVE Ensured(k)'
  <2>1. Awaited(k) => Awaited(k)'
    <3> SUFFICES ASSUME Awaited(k) PROVE Awaited(k)'
      OBVIOUS
    <3>1. PICK r \in tells : r.machine = k /\ Promises(r)
      BY DEF Awaited
    <3>2. CASE r = t
      BY <1>1, <1>2, <3>1, <3>2 DEF Awaited, Promises
    <3>3. CASE r # t
      BY <1>1, <1>2, <3>1, <3>3 DEF Awaited, Promises
    <3> QED BY <3>2, <3>3
  <2> QED BY <1>2, <2>1 DEF StreamInv, Ensured
<1> QED BY <1>2, <1>3, <1>4, <1>5 DEF StreamInv, RowEnsured, Delivered

LEMMA TellKeeps ==
  ASSUME StreamInv, NEW t \in tells, Tell(t)
  PROVE  StreamInv'
<1> DEFINE m == t.machine
           later == t.stamp > panel[m].stamp
           point == [stamp |-> t.stamp, seen |-> t.seen, who |-> t.who]
<1>1. /\ t.step = "stamped" /\ tells' = tells \ {t}
      /\ panel' = IF later THEN [panel EXCEPT ![m] = point] ELSE panel
      /\ adrift' = IF later /\ t.seen = changed[m] THEN adrift \ {m}
                   ELSE IF IF later THEN t.seen < panel[m].seen ELSE t.seen > panel[m].seen
                   THEN adrift \cup {m}
                   ELSE adrift
      /\ UNCHANGED <<stands, onBoard, history, writing, pours, bucket, clock, moves, changed,
                     lost>>
  BY DEF Tell
<1>2. /\ t \in Tells /\ m \in Machines /\ t.seen \in Nat /\ t.who \in SUBSET Parties
      /\ t.stamp \in Nat /\ changed[m] \in Nat /\ panel[m].seen \in Nat
  BY <1>1, StreamTypes, FieldsOfTells DEF LastPoint
<1>3. /\ t.seen <= changed[m] /\ (t.seen = changed[m] => t.who = Now(m))
      /\ panel[m].seen <= changed[m] /\ (panel[m].seen = changed[m] => panel[m].who = Now(m))
  BY <1>1, <1>2 DEF StreamInv, ReadingsAreSound
<1>4. point \in LastPoint
  BY <1>2 DEF LastPoint
<1>5. StreamTypeOK'
  BY <1>1, <1>2, <1>4, StreamTypes DEF StreamTypeOK
<1>6. panel'[m] = (IF later THEN point ELSE panel[m])
      /\ \A k \in Machines \ {m} : panel'[k] = panel[k]
  BY <1>1, <1>2, StreamTypes
<1>7. ReadingsAreSound'
  <2>1. ASSUME NEW k \in Machines
        PROVE  /\ panel'[k].seen <= changed[k]
               /\ panel'[k].seen = changed[k] => panel'[k].who = Now(k)
    BY <1>3, <1>6 DEF StreamInv, ReadingsAreSound
  <2> QED BY <1>1, <2>1 DEF StreamInv, ReadingsAreSound, Now
<1>8. ASSUME NEW k \in Machines PROVE Ensured(k)'
  <2>1. CASE k # m
    <3>1. panel'[k] = panel[k] /\ (k \in adrift' <=> k \in adrift) /\ changed' = changed
      BY <1>1, <1>6, <2>1
    <3>2. Awaited(k) => Awaited(k)'
      BY <1>1, <2>1 DEF Awaited, Promises
    <3> QED BY <3>1, <3>2 DEF StreamInv, Ensured
  <2>2. CASE k = m
    <3>1. CASE later /\ t.seen = changed[m]
      BY <1>1, <1>6, <2>2, <3>1 DEF Ensured
    <3>2. CASE later /\ t.seen # changed[m] /\ t.seen < panel[m].seen
      BY <1>1, <2>2, <3>2 DEF Ensured
    <3>3. CASE later /\ t.seen # changed[m] /\ ~ (t.seen < panel[m].seen)
      <4>1. panel[m].seen # changed[m]
        BY <1>2, <1>3, <3>3
      <4>2. adrift' = adrift
        BY <1>1, <3>3
      <4>3. Awaited(m) => Awaited(m)'
        BY <1>1, <3>3 DEF Awaited, Promises
      <4>4. m \notin adrift => Awaited(m)
        BY <1>2, <4>1 DEF StreamInv, Ensured
      <4> QED BY <2>2, <4>2, <4>3, <4>4 DEF Ensured
    <3>4. CASE ~ later /\ t.seen > panel[m].seen
      BY <1>1, <2>2, <3>4 DEF Ensured
    <3>5. CASE ~ later /\ ~ (t.seen > panel[m].seen)
      <4>1. adrift' = adrift /\ panel' = panel /\ changed' = changed
        BY <1>1, <3>5
      <4>2. CASE t.seen = changed[m]
        <5>1. panel[m].seen = changed[m]
          BY <1>2, <1>3, <3>5, <4>2
        <5> QED BY <2>2, <4>1, <5>1 DEF Ensured
      <4>3. CASE t.seen # changed[m]
        <5>1. Awaited(m) => Awaited(m)'
          BY <1>1, <4>3 DEF Awaited, Promises
        <5>2. Ensured(m)
          BY <1>2 DEF StreamInv
        <5> QED BY <2>2, <4>1, <5>1, <5>2 DEF Ensured
      <4> QED BY <4>2, <4>3
    <3> QED BY <3>1, <3>2, <3>3, <3>4, <3>5
  <2> QED BY <2>1, <2>2
<1> QED BY <1>1, <1>5, <1>7, <1>8 DEF StreamInv, RowEnsured, Delivered

LEMMA UnsaidKeeps ==
  ASSUME StreamInv, NEW t \in tells, Unsaid(t)
  PROVE  StreamInv'
<1> DEFINE m == t.machine
<1>1. /\ tells' = tells \ {t}
      /\ adrift' = adrift \cup
           (IF t.step = "ready" \/ t.seen > panel[m].seen THEN {m} ELSE {})
      /\ UNCHANGED <<stands, onBoard, history, writing, pours, bucket, panel, clock, moves,
                     changed, lost>>
  BY DEF Unsaid
<1>2. /\ t \in Tells /\ m \in Machines /\ changed[m] \in Nat /\ panel[m].seen \in Nat
      /\ t.step # "ready" => t.seen \in Nat /\ t.seen <= changed[m]
      /\ panel[m].seen <= changed[m]
  BY StreamTypes, FieldsOfTells DEF LastPoint, StreamInv, ReadingsAreSound
<1>3. StreamTypeOK'
  BY <1>1, <1>2, StreamTypes DEF StreamTypeOK
<1>4. ReadingsAreSound'
  BY <1>1 DEF StreamInv, ReadingsAreSound, Now
<1>5. ASSUME NEW k \in Machines PROVE Ensured(k)'
  <2>1. Ensured(k) /\ (k \in adrift => k \in adrift')
    BY <1>1 DEF StreamInv
  <2>2. CASE k # m \/ ~ Promises(t)
    <3>1. Awaited(k) => Awaited(k)'
      BY <1>1, <2>2 DEF Awaited, Promises
    <3> QED BY <1>1, <2>1, <3>1 DEF Ensured
  <2>3. CASE k = m /\ Promises(t)
    <3>1. k \in adrift' \/ panel[m].seen = changed[m]
      BY <1>1, <1>2, <2>3 DEF Promises
    <3> QED BY <1>1, <2>3, <3>1 DEF Ensured
  <2> QED BY <2>2, <2>3
<1> QED BY <1>1, <1>3, <1>4, <1>5 DEF StreamInv, RowEnsured, Delivered

LEMMA SyncInfluxKeeps ==
  ASSUME StreamInv, SyncInflux
  PROVE  StreamInv'
<1> DEFINE lines == {[step |-> "ready", row |-> r, times |-> moves]
                       : r \in {h \in history : h.batch \notin Rehearsals}}
           states == {[burst |-> moves, machine |-> m, step |-> "ready"] : m \in Machines}
<1>1. /\ pours' = pours \cup lines
      /\ tells' = tells \cup states
      /\ moves' = moves + 1
      /\ UNCHANGED <<stands, onBoard, history, writing, bucket, panel, clock, changed, lost,
                     adrift>>
  BY DEF SyncInflux
<1>2. /\ lines \subseteq Pours /\ (\A p \in lines : p.step = "ready")
      /\ states \subseteq Tells /\ (\A t \in states : t.step = "ready")
  BY StreamTypes DEF Pours, Tells
<1>3. StreamTypeOK'
  BY <1>1, <1>2, StreamTypes DEF StreamTypeOK
<1>4. ReadingsAreSound'
  BY <1>1, <1>2 DEF StreamInv, ReadingsAreSound, Now
<1>5. \A m \in Machines : Ensured(m)'
  BY <1>1 DEF StreamInv, Ensured, Awaited, Promises
<1>6. \A p \in pours' : p.step = "made" => p.point.row = p.row.row
  BY <1>1, <1>2 DEF StreamInv
<1>7. \A r \in history : RowEnsured(r)'
  BY <1>1 DEF StreamInv, RowEnsured, Delivered
<1> QED BY <1>1, <1>3, <1>4, <1>5, <1>6, <1>7 DEF StreamInv

LEMMA StreamStep == StreamInv /\ [StreamNext]_stream => StreamInv'
<1> SUFFICES ASSUME StreamInv, [StreamNext]_stream PROVE StreamInv'
  OBVIOUS
<1>1. ASSUME NEW b \in Parties, NEW done \in BOOLEAN, Shift(b, done) PROVE StreamInv'
  BY <1>1, ShiftKeeps
<1>2. ASSUME NEW w \in Hands,
             \/ \E b \in Parties : CallOff(w, b) \/ (\E m \in Spots : Choose(w, b, m))
             \/ Placed(w) \/ CalledOff(w) \/ Removed(w)
      PROVE  StreamInv'
  BY <1>2, LookingKeeps, WritingKeeps
<1>3. ASSUME NEW p \in pours, Make(p) \/ Pour(p) \/ Spill(p) PROVE StreamInv'
  BY <1>3, PoursKeep
<1>4. ASSUME NEW t \in tells, Ask(t) \/ Stamp(t) \/ Tell(t) \/ Unsaid(t) PROVE StreamInv'
  BY <1>4, AskAndStampKeep, TellKeeps, UnsaidKeeps
<1>5. CASE SyncInflux
  BY <1>5, SyncInfluxKeeps
<1>6. CASE UNCHANGED stream
  BY <1>6 DEF stream, StreamInv, StreamTypeOK, ReadingsAreSound, Ensured, Awaited, Promises,
              RowEnsured, Delivered, Now
<1> QED BY <1>1, <1>2, <1>3, <1>4, <1>5, <1>6 DEF StreamNext

(* The board, the lines under way and the points keep their types, for any batches,
   machines and request threads. *)
THEOREM StreamTypeCorrect == StreamSpec => []StreamTypeOK
<1>1. StreamInv => StreamTypeOK
  BY DEF StreamInv
<1> QED BY <1>1, StreamStarts, StreamStep, PTL DEF StreamSpec

(* No move of the factory is missing from the stream but for a line that was lost and
   not poured again. *)
THEOREM EveryMoveArrives == StreamSpec => []RowsArrive
<1>1. StreamInv => RowsArrive
  BY DEF StreamInv, RowsArrive, RowEnsured
<1> QED BY <1>1, StreamStarts, StreamStep, PTL DEF StreamSpec

(* The last point of a machine says who stands on it, but for the reasons the module
   names, whatever the order the threads read, stamp and write in. *)
THEOREM PanelCatchesUp == StreamSpec => []PanelIsCurrent
<1>1. StreamInv => PanelIsCurrent
  <2> SUFFICES ASSUME StreamInv, NEW m \in Machines, m \notin adrift,
                      \A t \in tells : t.machine # m
               PROVE  panel[m].who = Now(m)
    BY DEF PanelIsCurrent
  <2>1. ~ Awaited(m)
    BY DEF Awaited
  <2> QED BY <2>1 DEF StreamInv, Ensured, ReadingsAreSound
<1> QED BY <1>1, StreamStarts, StreamStep, PTL DEF StreamSpec
=============================================================================
