----------------------------- MODULE TwinMirror -----------------------------
(***************************************************************************)
(* The mirror of the board in the digital twins (Ditto): what stands on a  *)
(* device is written into the twin the device is linked to.                *)
(*                                                                         *)
(* A save of a batch looks up the device the row had (pre_save), writes    *)
(* the row, and after the commit one thread pushes the devices involved.   *)
(* Nothing locks the row between the look and the write except in          *)
(* move_batch, the pushes are not ordered, and a push that fails is only   *)
(* logged.  A push fetches the device's row (its twin and its condition),  *)
(* then reads who stands on it, then PUTs.  The model lets every device of *)
(* a thread be pushed by itself, and a PUT take effect as late as it likes.*)
(* Assignments are Board's: the checks they make are not repeated here,    *)
(* and the rows of a grouped card are written one by one.                  *)
(***************************************************************************)
EXTENDS Naturals

CONSTANTS
  BatchRows,        \* batches by primary key
  Devices,     \* production units
  NoDevice,
  Things,      \* twins in Ditto
  NoThing,
  FirstTwin,   \* the twin_id of each device at the start
  Savers,      \* request threads
  MaxSteps     \* bound: no save, edit or command starts once so many took effect

Standing == {"QUEUED", "IN_PROGRESS", "PAUSED"}
RowStatus == Standing \cup {"COMPLETED", "CANCELLED", "DELETED"}
Conditions == {"available", "repair"}
Cards == [bread : SUBSET BatchRows, status : Standing \cup Conditions]

ASSUME MirrorAssumption ==
  /\ BatchRows \subseteq Nat
  /\ NoDevice \notin Devices
  /\ NoThing \notin Things
  /\ FirstTwin \in [Devices -> Things \cup {NoThing}]
  /\ MaxSteps \in Nat

VARIABLES
  at,         \* ProductionBatch.production_unit
  state,      \* ProductionBatch.status, "DELETED" once the row is gone
  condition,  \* ProductionUnit.status
  twinOf,     \* ProductionUnit.twin_id
  saving,     \* the save each request thread is in the middle of
  pushes,     \* the devices that daemon threads and sync_twins still have to push
  feature,    \* the feature `product` of each twin
  steps,      \* saves, edits and commands that took effect: also names a burst of pushes
  changes,    \* history: how often what a device shows has changed
  shown,      \* history: the newest change a delivered push had seen
  behind      \* history: devices whose twin nobody promised to refresh

mirror == <<at, state, condition, twinOf, saving, pushes, feature, steps, changes,
            shown, behind>>

(* unit_product_value: the first standing batch lends its status, a free device
   tells its own condition. *)
Here(u, on, st) == {b \in BatchRows : on[b] = u /\ st[b] \in Standing}
FirstOf(bs) == CHOOSE b \in bs : \A c \in bs : b <= c
Card(u, on, st, free) ==
  LET here == Here(u, on, st)
  IN  [bread  |-> here,
       status |-> IF here = {} THEN free ELSE st[FirstOf(here)]]
CardNow(u) == Card(u, at, state, condition[u])

NoSave == [op |-> "none"]
Places == Devices \cup {NoDevice}
Saves ==
  {NoSave}
  \cup [op : {"move"}, batch : BatchRows, prev : Places]
  \cup [op : {"place"}, batch : BatchRows, to : Places, prev : Places]
  \cup [op : {"restamp", "look"}, batch : BatchRows, status : RowStatus, loaded : Places,
        prev : Places]
  \cup [op : {"delete"}, batch : BatchRows, loaded : Places]

Pushes ==
  [burst : Nat, device : Devices, step : {"waiting"}]
  \cup [burst : Nat, device : Devices, step : {"fetched"}, thing : Things,
        seen : Nat, free : Conditions]
  \cup [burst : Nat, device : Devices, step : {"put"}, thing : Things,
        seen : Nat, card : Cards]

Starts(w) == saving[w] = NoSave /\ steps < MaxSteps

-----------------------------------------------------------------------------
(* Saves *)

(* move_batch: the row is locked, so the look of pre_save stays true. *)
Move(w, b) ==
  /\ Starts(w)
  /\ state[b] \in Standing \ {"PAUSED"}
  /\ ~ \E v \in Savers : saving[v].op = "move" /\ saving[v].batch = b
  /\ saving' = [saving EXCEPT ![w] = [op |-> "move", batch |-> b, prev |-> at[b]]]
  /\ UNCHANGED <<at, state, condition, twinOf, pushes, feature, steps, changes, shown,
                 behind>>

(* row.save() in assign_batch_to_unit, up to the look of pre_save. *)
Place(w, b, u) ==
  /\ Starts(w)
  /\ state[b] \in Standing
  /\ saving' = [saving EXCEPT ![w] =
       [op |-> "place", batch |-> b, to |-> u, prev |-> at[b]]]
  /\ UNCHANGED <<at, state, condition, twinOf, pushes, feature, steps, changes, shown,
                 behind>>

(* pause_batch, resume_batch and the cancellation load the row without a lock ... *)
Load(w, b, new) ==
  /\ Starts(w)
  /\ \/ new = "PAUSED" /\ state[b] \in Standing \ {"PAUSED"}
     \/ new = "IN_PROGRESS" /\ state[b] = "PAUSED"
     \/ new = "CANCELLED" /\ state[b] \in Standing
  /\ saving' = [saving EXCEPT ![w] = [op |-> "look", batch |-> b, status |-> new,
                                      loaded |-> at[b], prev |-> NoDevice]]
  /\ UNCHANGED <<at, state, condition, twinOf, pushes, feature, steps, changes, shown,
                 behind>>

(* ... and their save looks at the device again. *)
Look(w) ==
  /\ saving[w].op = "look"
  /\ saving' = [saving EXCEPT ![w] =
       [saving[w] EXCEPT !.op = "restamp", !.prev = at[saving[w].batch]]]
  /\ UNCHANGED <<at, state, condition, twinOf, pushes, feature, steps, changes, shown,
                 behind>>

(* delete_batch: the view loaded the batch it deletes. *)
LoadToDelete(w, b) ==
  /\ Starts(w)
  /\ state[b] # "DELETED"
  /\ saving' = [saving EXCEPT ![w] =
       [op |-> "delete", batch |-> b, loaded |-> at[b]]]
  /\ UNCHANGED <<at, state, condition, twinOf, pushes, feature, steps, changes, shown,
                 behind>>

-----------------------------------------------------------------------------
(* schedule_sync: the devices one save pushes. *)
PushedOnlyNew(new, prev) == {new} \cap Devices
Pushed(new, prev) == {new, prev} \cap Devices

(* The row is written and the transaction commits: what devices show may change,
   and one burst of pushes is left to a daemon thread.  The row may have changed
   devices since the save looked it up. *)
Commit(w, on, st, ids) ==
  LET b == saving[w].batch
      new(u) == Card(u, on, st, condition[u])
      overtaken == /\ saving[w].op # "move"
                   /\ at[b] # IF saving[w].op = "delete" THEN saving[w].loaded
                              ELSE saving[w].prev
  IN  /\ at' = on
      /\ state' = st
      /\ changes' = [u \in Devices |->
           IF new(u) = CardNow(u) THEN changes[u] ELSE changes[u] + 1]
      /\ pushes' = pushes \cup
           {[burst |-> steps, device |-> u, step |-> "waiting"] : u \in ids}
      /\ behind' = behind \cup
           (IF overtaken THEN {u \in Devices : u = at[b] /\ u \notin ids} ELSE {})
      /\ saving' = [saving EXCEPT ![w] = NoSave]
      /\ steps' = steps + 1
      /\ UNCHANGED <<condition, twinOf, feature, shown>>

Unlocked(w) ==
  ~ \E v \in Savers \ {w} : saving[v].op = "move" /\ saving[v].batch = saving[w].batch

WriteMove(w, new) ==
  LET b == saving[w].batch
  IN  /\ saving[w].op = "move"
      /\ new \in {"QUEUED", "IN_PROGRESS", "COMPLETED"}
      /\ Commit(w, [at EXCEPT ![b] = NoDevice], [state EXCEPT ![b] = new],
                Pushed(NoDevice, saving[w].prev))

WritePlace(w) ==
  LET b == saving[w].batch
  IN  /\ saving[w].op = "place"
      /\ Unlocked(w)
      /\ state[b] # "DELETED"
      /\ Commit(w, [at EXCEPT ![b] = saving[w].to], state,
                Pushed(saving[w].to, saving[w].prev))

(* update_fields=["status"]: the instance's own device is the one it was loaded with. *)
WriteRestamp(w) ==
  LET b == saving[w].batch
  IN  /\ saving[w].op = "restamp"
      /\ Unlocked(w)
      /\ state[b] # "DELETED"
      /\ Commit(w, at, [state EXCEPT ![b] = saving[w].status],
                Pushed(saving[w].loaded, saving[w].prev))

WriteDelete(w) ==
  LET b == saving[w].batch
  IN  /\ saving[w].op = "delete"
      /\ Unlocked(w)
      /\ state[b] # "DELETED"
      /\ Commit(w, at, [state EXCEPT ![b] = "DELETED"],
                Pushed(saving[w].loaded, NoDevice))

(* The row is gone: a save with update_fields raises, a delete finds nothing. *)
WriteNothing(w) ==
  /\ saving[w].op \in {"place", "restamp", "delete"}
  /\ state[saving[w].batch] = "DELETED"
  /\ saving' = [saving EXCEPT ![w] = NoSave]
  /\ UNCHANGED <<at, state, condition, twinOf, pushes, feature, steps, changes, shown,
                 behind>>

-----------------------------------------------------------------------------
(* Pushes *)

(* A push that would bring the twin further than it is. *)
Carries(p) ==
  \/ p.step = "waiting"
  \/ p.thing = twinOf[p.device] /\ p.seen > shown[p.device]

(* The thread's query of its devices: one without a twin is not pushed. *)
Fetch(p) ==
  LET u == p.device
  IN  /\ p.step = "waiting"
      /\ pushes' = (pushes \ {p}) \cup
           (IF twinOf[u] = NoThing THEN {}
            ELSE {[burst |-> p.burst, device |-> u, step |-> "fetched",
                   thing |-> twinOf[u], seen |-> changes[u], free |-> condition[u]]})
      /\ UNCHANGED <<at, state, condition, twinOf, saving, feature, steps, changes, shown,
                     behind>>

(* unit_product_value: who stands there is read after the device's row. *)
Read(p) ==
  /\ p.step = "fetched"
  /\ pushes' = (pushes \ {p}) \cup
       {[burst |-> p.burst, device |-> p.device, step |-> "put", thing |-> p.thing,
         seen |-> p.seen, card |-> Card(p.device, at, state, p.free)]}
  /\ UNCHANGED <<at, state, condition, twinOf, saving, feature, steps, changes, shown,
                 behind>>

(* The PUT takes effect, whether or not its answer comes back: a twin without the
   feature gets it.  A push older than what the twin showed takes the twin back,
   one for a thing that was given to another device overwrites that one's card. *)
Deliver(p) ==
  LET u == p.device
      others == {v \in Devices \ {u} : twinOf[v] = p.thing}
      mine == p.thing = twinOf[u]
  IN  /\ p.step = "put"
      /\ feature' = [feature EXCEPT ![p.thing] = p.card]
      /\ pushes' = pushes \ {p}
      /\ shown' = [shown EXCEPT ![u] = IF mine /\ p.seen > shown[u] THEN p.seen ELSE shown[u]]
      /\ behind' =
           others \cup (IF mine /\ p.seen = changes[u] THEN behind \ {u}
                       ELSE IF mine /\ p.seen < shown[u] THEN behind \cup {u}
                       ELSE behind)
      /\ UNCHANGED <<at, state, condition, twinOf, saving, steps, changes>>

(* put_feature_properties logs a failure and returns False: nobody tries again. *)
GiveUp(p) ==
  /\ p.step = "put"
  /\ pushes' = pushes \ {p}
  /\ behind' = behind \cup (IF Carries(p) THEN {p.device} ELSE {})
  /\ UNCHANGED <<at, state, condition, twinOf, saving, feature, steps, changes, shown>>

(* The threads are daemons: a restart of the server takes them along. *)
Restart ==
  /\ pushes # {}
  /\ pushes' = {}
  /\ behind' = behind \cup {p.device : p \in {q \in pushes : Carries(q)}}
  /\ saving' = [w \in Savers |-> NoSave]
  /\ UNCHANGED <<at, state, condition, twinOf, feature, steps, changes, shown>>

-----------------------------------------------------------------------------
(* Edits and commands *)

(* The admin page saves the device; no signal listens to it. *)
Repair(u, new) ==
  LET card(free) == Card(u, at, state, free)
  IN  /\ steps < MaxSteps
      /\ new # condition[u]
      /\ condition' = [condition EXCEPT ![u] = new]
      /\ changes' = [changes EXCEPT ![u] =
           IF card(new) = card(condition[u]) THEN @ ELSE @ + 1]
      /\ behind' = behind \cup {u}
      /\ steps' = steps + 1
      /\ UNCHANGED <<at, state, twinOf, saving, pushes, feature, shown>>

(* twin_ids --set refuses a twin that another device has ... *)
SetTwin(u, t) ==
  /\ steps < MaxSteps
  /\ ~ \E v \in Devices \ {u} : twinOf[v] = t
  /\ twinOf' = [twinOf EXCEPT ![u] = t]
  /\ behind' = behind \cup {u}
  /\ steps' = steps + 1
  /\ UNCHANGED <<at, state, condition, saving, pushes, feature, changes, shown>>

(* ... --clear unlinks, and neither pushes. *)
ClearTwin(u) ==
  /\ steps < MaxSteps
  /\ twinOf' = [twinOf EXCEPT ![u] = NoThing]
  /\ steps' = steps + 1
  /\ UNCHANGED <<at, state, condition, saving, pushes, feature, changes, shown, behind>>

(* sync_twins lists the linked devices once, then pushes each of them. *)
SyncTwins ==
  LET linked == {u \in Devices : twinOf[u] # NoThing}
  IN  /\ steps < MaxSteps
      /\ linked # {}
      /\ pushes' = pushes \cup
           {[burst |-> steps, device |-> u, step |-> "fetched", thing |-> twinOf[u],
             seen |-> changes[u], free |-> condition[u]] : u \in linked}
      /\ steps' = steps + 1
      /\ UNCHANGED <<at, state, condition, twinOf, saving, feature, changes, shown, behind>>

-----------------------------------------------------------------------------
(* sync_twins has just been run. *)
MirrorInit ==
  /\ at \in [BatchRows -> Places]
  /\ state = [b \in BatchRows |-> "QUEUED"]
  /\ condition = [u \in Devices |-> "available"]
  /\ twinOf = FirstTwin
  /\ saving = [w \in Savers |-> NoSave]
  /\ pushes = {}
  /\ feature \in [Things -> Cards]
  /\ \A u \in Devices : twinOf[u] # NoThing => feature[twinOf[u]] = CardNow(u)
  /\ steps = 0
  /\ changes = [u \in Devices |-> 0]
  /\ shown = [u \in Devices |-> 0]
  /\ behind = {}

SaveStep(w) ==
  \/ \E b \in BatchRows :
       \/ Move(w, b)
       \/ \E u \in Places : Place(w, b, u)
       \/ \E new \in {"PAUSED", "IN_PROGRESS", "CANCELLED"} : Load(w, b, new)
       \/ LoadToDelete(w, b)
  \/ Look(w)
  \/ \E new \in {"QUEUED", "IN_PROGRESS", "COMPLETED"} : WriteMove(w, new)
  \/ WritePlace(w)
  \/ WriteRestamp(w)
  \/ WriteDelete(w)
  \/ WriteNothing(w)

MirrorNext ==
  \/ \E w \in Savers : SaveStep(w)
  \/ \E p \in pushes : Fetch(p) \/ Read(p) \/ Deliver(p) \/ GiveUp(p)
  \/ Restart
  \/ \E u \in Devices :
       \/ \E new \in Conditions : Repair(u, new)
       \/ \E t \in Things : SetTwin(u, t)
       \/ ClearTwin(u)
  \/ SyncTwins

MirrorSpec == MirrorInit /\ [][MirrorNext]_mirror

-----------------------------------------------------------------------------
MirrorTypeOK ==
  /\ at \in [BatchRows -> Places]
  /\ state \in [BatchRows -> RowStatus]
  /\ condition \in [Devices -> Conditions]
  /\ twinOf \in [Devices -> Things \cup {NoThing}]
  /\ saving \in [Savers -> Saves]
  /\ pushes \subseteq Pushes
  /\ feature \in [Things -> Cards]
  /\ steps \in Nat
  /\ changes \in [Devices -> Nat]
  /\ shown \in [Devices -> Nat]
  /\ behind \subseteq Devices

(* Once no push of a device is under way its twin shows what stands on it (twins.py:1-18:
   "держит её в актуальном состоянии").  The twin may lag only where `behind` says so:
   a push failed or died with the server, an older push arrived after a newer one, a
   device was put on repair, linked anew or overwritten by a push for its former owner,
   or a batch changed devices between a save's look and its write. *)
MirrorCatchesUp ==
  \A u \in Devices :
    twinOf[u] # NoThing /\ u \notin behind /\ (\A p \in pushes : p.device # u)
      => feature[twinOf[u]] = CardNow(u)
=============================================================================
