-------------------------------- MODULE Quality --------------------------------
(***************************************************************************)
(* Quality control: objects that pass the posts of a route, the inspection *)
(* tasks and cards of the posts, and nonconformities with their            *)
(* reinspections (apps quality, inspections, nonconformities).             *)
(*                                                                         *)
(* Every service is one transaction at READ COMMITTED without row locks.   *)
(* Those that decide on what they read, start_task and complete_card, are  *)
(* split into the reads and the writes; the others write whatever they     *)
(* read and are one step.  The generic writes of the REST view sets are    *)
(* left out.                                                               *)
(***************************************************************************)
EXTENDS FiniteSets, Naturals

CONSTANTS
    Objects,
    LastStep,  \* the route has the steps 1 .. LastStep, a post each
    Required,  \* steps with is_required
    Automatic, \* steps with create_next_task_automatically
    Params,    \* the parameters of the posts' template, all required
    Critical,  \* those whose criticality is "critical"
    Tasks,     \* rows of InspectionTask, used or not
    NCs,       \* rows of Nonconformity, used or not
    Threads,   \* request threads
    None

Steps == 1 .. LastStep
ASSUME RouteAssumption ==
    LastStep \in Nat /\ Required \subseteq Steps /\ Required # {} /\ Automatic \subseteq Steps
ASSUME ObjectsAssumption == Objects # {}
ASSUME ParamsAssumption == Critical \subseteq Params
ASSUME NoneAssumption == None \notin Tasks

VARIABLES
    quality,  \* quality_status of an object
    step,     \* current_route_step; 0 before the object exists
    task,     \* an InspectionTask: status, object, step, made by the route
    card,     \* status of the card of a task
    values,   \* its results, per parameter
    nc,       \* a Nonconformity: open (any status but CLOSED) or closed,
              \* critical, approved, card
    pending,  \* what a thread has read and not yet written
    checked,  \* history: required steps passed with a conforming card
    irregular \* history: objects for which a write came late, or which a card
              \* other than that of the current step moved on

vars == <<quality, step, task, card, values, nc, pending, checked, irregular>>

Statuses == {"absent", "awaiting_control", "control_in_progress", "blocked",
             "correction_required", "awaiting_reinspection", "ready_for_shipment"}
TaskStatuses == {"none", "assigned", "awaiting_reinspection", "in_progress", "completed"}
Values == {"blank", "ok", "bad"}
NCStatuses == {"none", "open", "closed"}

NoTask    == [status |-> "none", object |-> CHOOSE o \in Objects : TRUE, step |-> 0, routed |-> FALSE]
TaskRows == [status : TaskStatuses, object : Objects, step : 0 .. LastStep, routed : BOOLEAN]
NCRows == [status : NCStatuses, critical : BOOLEAN, approved : BOOLEAN, card : Tasks \cup {None}]
PendingOps == [op : {"idle", "start", "complete"}, task : Tasks \cup {None},
               step : 0 .. LastStep, critical : BOOLEAN]
NoPending == [op |-> "idle", task |-> None, step |-> 0, critical |-> FALSE]

TypeOK ==
    /\ quality \in [Objects -> Statuses]
    /\ step \in [Objects -> 0 .. LastStep]
    /\ task \in [Tasks -> TaskRows]
    /\ card \in [Tasks -> {"none", "draft", "completed"}]
    /\ values \in [Tasks -> [Params -> Values]]
    /\ nc \in [NCs -> NCRows]
    /\ pending \in [Threads -> PendingOps]
    /\ checked \in [Objects -> SUBSET Steps]
    /\ irregular \subseteq Objects

Init ==
    /\ quality = [o \in Objects |-> "absent"]
    /\ step = [o \in Objects |-> 0]
    /\ task = [t \in Tasks |-> NoTask]
    /\ card = [t \in Tasks |-> "none"]
    /\ values = [t \in Tasks |-> [p \in Params |-> "blank"]]
    /\ nc = [n \in NCs |-> [status |-> "none", critical |-> FALSE, approved |-> FALSE, card |-> None]]
    /\ pending = [h \in Threads |-> NoPending]
    /\ checked = [o \in Objects |-> {}]
    /\ irregular = {}

-----------------------------------------------------------------------------
Later(s) == {x \in Required : x > s}
First(S) == CHOOSE x \in S : \A y \in S : x <= y

\* QualityObject.has_open_critical_nonconformity
DefectOf(n, o) == nc[n].status # "none" /\ task[nc[n].card].object = o
OpenCritical(o) == \E n \in NCs : DefectOf(n, o) /\ nc[n].critical /\ nc[n].status # "closed"

Bad(t) == {p \in Params : values[t][p] = "bad"}

\* a task that somebody has started does not count
ActiveUnstarted(o, s) == {t \in Tasks : task[t].status = "assigned" /\ task[t].object = o /\ task[t].step = s}

\* the tasks that create_inspection_task_for_step counts as active
ActiveAt(o, s) == {t \in Tasks : /\ task[t].status \in {"assigned", "in_progress"}
                                 /\ task[t].object = o
                                 /\ task[t].step = s}
RoutedTask(o, s) == [status |-> "assigned", object |-> o, step |-> s, routed |-> TRUE]

\* create_quality_object_with_route
Create(o) ==
    /\ quality[o] = "absent"
    /\ quality' = [quality EXCEPT ![o] = "awaiting_control"]
    /\ step' = [step EXCEPT ![o] = First(Required)]
    /\ \E t \in Tasks :
          /\ task[t].status = "none"
          /\ task' = [task EXCEPT ![t] = RoutedTask(o, First(Required))]
    /\ UNCHANGED <<card, values, nc, pending, checked, irregular>>

-----------------------------------------------------------------------------
(* start_task *)

StartReads(h, t) ==
    /\ pending[h].op = "idle"
    /\ task[t].status \notin {"none", "completed"}
    /\ pending' = [pending EXCEPT ![h] = [NoPending EXCEPT !.op = "start", !.task = t]]
    /\ UNCHANGED <<quality, step, task, card, values, nc, checked, irregular>>

StartWrites(h) ==
    LET t == pending[h].task
        o == task[t].object IN
    /\ pending[h].op = "start"
    /\ task' = [task EXCEPT ![t].status = "in_progress"]
    /\ quality' = [quality EXCEPT ![o] = "control_in_progress"]
    /\ card' = [card EXCEPT ![t] = IF @ = "none" THEN "draft" ELSE @]
    /\ irregular' = IF task[t].status = "completed" THEN irregular \cup {o} ELSE irregular
    /\ pending' = [pending EXCEPT ![h] = NoPending]
    /\ UNCHANGED <<step, values, nc, checked>>

\* card_save: the results are saved one by one, whatever the card's status
SaveResult(t, p, v) ==
    /\ card[t] # "none"
    /\ values[t][p] # v
    /\ values' = [values EXCEPT ![t][p] = v]
    /\ UNCHANGED <<quality, step, task, card, nc, pending, checked, irregular>>

-----------------------------------------------------------------------------
(* complete_card *)

Filled(t) == \A p \in Params : values[t][p] # "blank"

CompletableAnyway(t) ==
    /\ task[t].status # "completed"
    /\ Filled(t)

\* the three refusals: finished already, an open critical defect, a blank
Completable(t) ==
    /\ task[t].status # "completed"
    /\ ~ OpenCritical(task[t].object)
    /\ Filled(t)

CompleteReads(h, t) ==
    /\ pending[h].op = "idle"
    /\ card[t] # "none"
    /\ Completable(t)
    /\ pending' = [pending EXCEPT ![h] = [op |-> "complete", task |-> t,
                                          step |-> step[task[t].object],
                                          critical |-> Bad(t) \cap Critical # {}]]
    /\ UNCHANGED <<quality, step, task, card, values, nc, checked, irregular>>

Finished(t) == [task EXCEPT ![t].status = "completed"]

\* what is written is no longer what was read, or the card is not that of the
\* step the object stands on
Overtaken(h) ==
    LET t == pending[h].task IN
    \/ task[t].status = "completed"
    \/ step[task[t].object] # pending[h].step
    \/ task[t].step # pending[h].step

Deviates(h) ==
    LET t == pending[h].task
        o == task[t].object IN
    /\ Bad(t) # {}
    /\ quality' = [quality EXCEPT ![o] =
          IF pending[h].critical THEN "blocked" ELSE "correction_required"]
    /\ task' = Finished(t)
    /\ UNCHANGED <<step, checked>>

AdvancesAnyway(h) ==
    LET t == pending[h].task
        o == task[t].object
        s == pending[h].step IN
    /\ Later(s) # {}
    /\ step' = [step EXCEPT ![o] = First(Later(s))]
    /\ quality' = [quality EXCEPT ![o] = "awaiting_control"]
    /\ checked' = [checked EXCEPT ![o] = IF Bad(t) = {} THEN @ \cup {task[t].step} ELSE @]
    /\ task' = Finished(t)

\* the object moves on from the step that was read
Advances(h) ==
    LET t == pending[h].task
        o == task[t].object
        s == pending[h].step
        next == First(Later(s)) IN
    /\ Bad(t) = {}
    /\ Later(s) # {}
    /\ step' = [step EXCEPT ![o] = next]
    /\ quality' = [quality EXCEPT ![o] = "awaiting_control"]
    /\ checked' = [checked EXCEPT ![o] = @ \cup {task[t].step}]
    /\ IF s \in Automatic
       THEN /\ ActiveAt(o, next) \ {t} = {}
            /\ \E new \in Tasks :
                  /\ task[new].status = "none"
                  /\ task' = [Finished(t) EXCEPT ![new] = RoutedTask(o, next)]
       ELSE task' = Finished(t)

Released(h) ==
    LET t == pending[h].task
        o == task[t].object IN
    /\ Bad(t) = {}
    /\ Later(pending[h].step) = {}
    /\ quality' = [quality EXCEPT ![o] = "ready_for_shipment"]
    /\ checked' = [checked EXCEPT ![o] = @ \cup {task[t].step}]
    /\ task' = Finished(t)
    /\ UNCHANGED step

CompleteWrites(h) ==
    LET t == pending[h].task
        o == task[t].object IN
    /\ pending[h].op = "complete"
    /\ Deviates(h) \/ Advances(h) \/ Released(h)
    /\ card' = [card EXCEPT ![t] = "completed"]
    /\ irregular' = IF Overtaken(h) THEN irregular \cup {o} ELSE irregular
    /\ pending' = [pending EXCEPT ![h] = NoPending]
    /\ UNCHANGED <<values, nc>>

\* "У объекта уже есть активное задание этого поста": all is rolled back
CompleteRefused(h) ==
    LET t == pending[h].task
        s == pending[h].step IN
    /\ pending[h].op = "complete"
    /\ Bad(t) = {} /\ Later(s) # {} /\ s \in Automatic
    /\ ActiveAt(task[t].object, First(Later(s))) \ {t} # {}
    /\ pending' = [pending EXCEPT ![h] = NoPending]
    /\ UNCHANGED <<quality, step, task, card, values, nc, checked, irregular>>

-----------------------------------------------------------------------------
(* Nonconformities: REGISTERED, ASSIGNED and AWAITING_REINSPECTION are open. *)

BeingCompleted(o) == \E h \in Threads : pending[h].op = "complete" /\ task[pending[h].task].object = o

\* register_nonconformity, from a card (create_from_card)
Register(n, t, critical, block) ==
    /\ nc[n].status = "none"
    /\ card[t] # "none"
    /\ nc' = [nc EXCEPT ![n] = [status |-> "open", critical |-> critical,
                                approved |-> FALSE, card |-> t]]
    /\ quality' = [quality EXCEPT ![task[t].object] =
          IF critical \/ block THEN "blocked" ELSE "correction_required"]
    /\ irregular' = IF BeingCompleted(task[t].object) THEN irregular \cup {task[t].object}
                    ELSE irregular
    /\ UNCHANGED <<step, task, card, values, pending, checked>>

\* assign_corrective_action: ASSIGNED, also when it was closed
Assign(n) ==
    /\ nc[n].status # "none"
    /\ nc' = [nc EXCEPT ![n].status = "open"]
    /\ UNCHANGED <<quality, step, task, card, values, pending, checked, irregular>>

\* close_nonconformity: a critical one is approved by a manager
Close(n, boss) ==
    /\ nc[n].status # "none"
    /\ nc[n].critical => boss
    /\ nc' = [nc EXCEPT ![n].status = "closed", ![n].approved = @ \/ nc[n].critical]
    /\ UNCHANGED <<quality, step, task, card, values, pending, checked, irregular>>

\* create_reinspection: AWAITING_REINSPECTION, also when it was closed
Reinspect(n) ==
    LET t == nc[n].card IN
    /\ nc[n].status # "none"
    /\ \E new \in Tasks :
          /\ task[new].status = "none"
          /\ task' = [task EXCEPT ![new] = [status |-> "awaiting_reinspection",
                                            object |-> task[t].object,
                                            step |-> task[t].step, routed |-> FALSE]]
    /\ nc' = [nc EXCEPT ![n].status = "open"]
    /\ quality' = [quality EXCEPT ![task[t].object] = "awaiting_reinspection"]
    /\ UNCHANGED <<step, card, values, pending, checked, irregular>>

Next ==
    \/ \E o \in Objects : Create(o)
    \/ \E h \in Threads :
          \/ \E t \in Tasks : StartReads(h, t) \/ CompleteReads(h, t)
          \/ StartWrites(h) \/ CompleteWrites(h) \/ CompleteRefused(h)
    \/ \E t \in Tasks, p \in Params, v \in Values : SaveResult(t, p, v)
    \/ \E n \in NCs :
          \/ \E t \in Tasks, critical, block \in BOOLEAN : Register(n, t, critical, block)
          \/ Assign(n) \/ Reinspect(n)
          \/ \E boss \in BOOLEAN : Close(n, boss)

Spec == Init /\ [][Next]_vars

-----------------------------------------------------------------------------
\* Every critical defect of an object that is ready for shipment was closed by
\* a manager (it may have been reopened since: nothing refuses that), unless its
\* registration overtook a completion that had seen no defect.
ReadyMeansApproved ==
    \A o \in Objects \ irregular, n \in NCs :
        quality[o] = "ready_for_shipment" /\ DefectOf(n, o) /\ nc[n].critical => nc[n].approved

\* Every required step behind an object, and every step of one that is ready,
\* was passed with a conforming card, unless a late write or a card of another
\* step (a reinspection) moved the object on.
StepsWereChecked ==
    \A o \in Objects \ irregular :
        /\ {s \in Required : s < step[o]} \subseteq checked[o]
        /\ quality[o] = "ready_for_shipment" => Required \subseteq checked[o]

\* The route opens one task at a post, not a second one beside it, however many
\* completions meet; a finished task that a late start reopened is not counted.
OneTaskAtPost ==
    \A o \in Objects, s \in Steps :
        Cardinality({t \in Tasks : /\ task[t].routed /\ task[t].object = o /\ task[t].step = s
                                   /\ task[t].status # "completed" /\ card[t] # "completed"}) <= 1

=============================================================================
