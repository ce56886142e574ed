---------------------------- MODULE PointStream ----------------------------
(***************************************************************************)
(* The stream of production into InfluxDB.  Every move of a batch leaves a *)
(* row of its history, which becomes a point tagged with the machine the   *)
(* batch stands on when the point is made; every save of a batch makes a   *)
(* point of state for the machines involved, stamped after who stands      *)
(* there was read.  Points are keyed by tags and time: the same point sent *)
(* twice is one point, and a panel asks a machine's series for its last.   *)
(* Threads start after the commit and are not ordered, a write that fails  *)
(* is only logged, and sync_influx pours the history and the states again. *)
(* Demo batches are left out of pushes and of the poured history.          *)
(*                                                                         *)
(* move_batch looks and writes under the lock of its row and is one step;  *)
(* the other saves look up the previous machine first.                     *)
(***************************************************************************)
EXTENDS Naturals

CONSTANTS
  Parties,      \* batches by primary key
  Rehearsals,   \* those with is_demo
  Machines,     \* production units
  Nowhere,
  Hands,        \* request threads
  MaxMoves      \* bound: no save or command starts once so many took effect

ASSUME StreamAssumption ==
  /\ Rehearsals \subseteq Parties
  /\ Nowhere \notin Machines
  /\ MaxMoves \in Nat

VARIABLES
  stands,     \* ProductionBatch.production_unit of the batches on the board
  onBoard,    \* batches that exist and are not closed
  history,    \* BatchStageHistory: [row, batch]
  writing,    \* the save each request thread is in the middle of
  pours,      \* lines on their way: rows of the history
  tells,      \* states on their way
  bucket,     \* InfluxDB: points of the history, [row, batch, machine]
  panel,      \* InfluxDB: the last point of state of each machine
  clock,      \* the time: stamps of points, keys of rows
  moves,      \* saves and commands that took effect
  changed,    \* history: how often who stands on a machine has changed
  lost,       \* history: rows whose point was lost on its way
  adrift      \* history: machines whose last state nobody promised to tell

stream == <<stands, onBoard, history, writing, pours, tells, bucket, panel, clock, moves,
            changed, lost, adrift>>

Spots == Machines \cup {Nowhere}

(* unit_occupants, of demo batches too. *)
StandingOn(m, on, there) == {b \in there : on[b] = m}
Now(m) == StandingOn(m, stands, onBoard)

Idle == [op |-> "idle"]
Writings ==
  {Idle} \cup [op : {"place"}, batch : Parties, to : Spots, prev : Spots]
         \cup [op : {"close"}, batch : Parties, prev : Spots]

HistoryRows == [row : Nat, batch : Parties]
Points == [row : Nat, batch : Parties, machine : Spots]
Pours ==
  [step : {"ready"}, row : HistoryRows, times : Nat]
  \cup [step : {"made"}, row : HistoryRows, point : Points, times : Nat]
Tells ==
  [burst : Nat, machine : Machines, step : {"ready"}]
  \cup [burst : Nat, machine : Machines, step : {"read"}, seen : Nat, who : SUBSET Parties]
  \cup [burst : Nat, machine : Machines, step : {"stamped"}, seen : Nat, who : SUBSET Parties,
        stamp : Nat]
LastPoint == [stamp : Nat, seen : Nat, who : SUBSET Parties]

Begins(w) == writing[w] = Idle /\ moves < MaxMoves
Quiet == UNCHANGED <<pours, tells, bucket, panel, clock, changed, lost, adrift>>

-----------------------------------------------------------------------------
(* Saves *)

(* schedule_state_sync, which the signal of a demo batch does not reach. *)
ToldNewOnly(b, new, prev) == {new} \cap Machines
Told(b, new, prev) == IF b \in Rehearsals THEN {} ELSE {new, prev} \cap Machines

(* A save takes effect: `on` and `there` are the rows after it, ids the machines its
   signal tells of.  What it changed and does not tell of is adrift if the batch is
   a demo batch or the row had changed machines since the save looked. *)
Saved(b, on, there, ids, prev) ==
  LET touched == {m \in Machines : StandingOn(m, on, there) # Now(m)}
      excused == b \in Rehearsals \/ stands[b] # prev
  IN  /\ stands' = on
      /\ onBoard' = there
      /\ changed' = [m \in Machines |-> IF m \in touched THEN changed[m] + 1 ELSE changed[m]]
      /\ tells' = tells \cup {[burst |-> moves, machine |-> m, step |-> "ready"] : m \in ids}
      /\ adrift' = adrift \cup (IF excused THEN touched \ ids ELSE {})
      /\ moves' = moves + 1

(* _push_after_transition: a created row becomes a point, wherever its batch stands. *)
PouredStanding(r) ==
  IF r.batch \in Rehearsals \/ stands[r.batch] = Nowhere THEN {}
  ELSE {[step |-> "ready", row |-> r, times |-> moves]}
Poured(r) ==
  IF r.batch \in Rehearsals THEN {} ELSE {[step |-> "ready", row |-> r, times |-> moves]}

(* Only move_batch locks the row, and only for the step in which it moves it. *)
Shift(b, done) ==
  LET r == [row |-> clock, batch |-> b]
  IN  /\ moves < MaxMoves
      /\ b \in onBoard
      /\ history' = history \cup {r}
      /\ Saved(b, [stands EXCEPT ![b] = Nowhere],
               IF done THEN onBoard \ {b} ELSE onBoard,
               Told(b, Nowhere, stands[b]), stands[b])
      /\ pours' = pours \cup Poured(r)
      /\ clock' = clock + 1
      /\ UNCHANGED <<writing, bucket, panel, lost>>

(* assign_batch_to_unit, up to the look of pre_save. *)
Choose(w, b, m) ==
  /\ Begins(w)
  /\ b \in onBoard
  /\ writing' = [writing EXCEPT ![w] =
       [op |-> "place", batch |-> b, to |-> m, prev |-> stands[b]]]
  /\ UNCHANGED <<stands, onBoard, history, moves>> /\ Quiet

(* A cancellation or a deletion, up to its look; that the batch was loaded earlier only
   lets a cancellation tell of one more machine. *)
CallOff(w, b) ==
  /\ Begins(w)
  /\ b \in onBoard
  /\ writing' = [writing EXCEPT ![w] = [op |-> "close", batch |-> b, prev |-> stands[b]]]
  /\ UNCHANGED <<stands, onBoard, history, moves>> /\ Quiet

Placed(w) ==
  LET b == writing[w].batch
  IN  /\ writing[w].op = "place"
      /\ Saved(b, [stands EXCEPT ![b] = writing[w].to], onBoard,
               Told(b, writing[w].to, writing[w].prev), writing[w].prev)
      /\ writing' = [writing EXCEPT ![w] = Idle]
      /\ UNCHANGED <<history, pours, bucket, panel, clock, lost>>

CalledOff(w) ==
  LET b == writing[w].batch
  IN  /\ writing[w].op = "close"
      /\ Saved(b, stands, onBoard \ {b}, Told(b, writing[w].prev, writing[w].prev),
               writing[w].prev)
      /\ writing' = [writing EXCEPT ![w] = Idle]
      /\ UNCHANGED <<history, pours, bucket, panel, clock, lost>>

(* delete_batch: the history goes by cascade, post_delete tells of the machine that
   the batch was loaded with. *)
Removed(w) ==
  LET b == writing[w].batch
  IN  /\ writing[w].op = "close"
      /\ Saved(b, stands, onBoard \ {b}, Told(b, writing[w].prev, Nowhere), writing[w].prev)
      /\ history' = {h \in history : h.batch # b}
      /\ writing' = [writing EXCEPT ![w] = Idle]
      /\ UNCHANGED <<pours, bucket, panel, clock, lost>>

-----------------------------------------------------------------------------
(* Points of the history *)

(* history_point: the machine is the batch's of now, not of the move; a row that is gone
   is not found. *)
PointOf(r) == [row |-> r.row, batch |-> r.batch, machine |-> stands[r.batch]]

Make(p) ==
  /\ p.step = "ready"
  /\ pours' = (pours \ {p}) \cup
       (IF p.row \notin history THEN {}
        ELSE {[step |-> "made", row |-> p.row, point |-> PointOf(p.row), times |-> p.times]})
  /\ UNCHANGED <<stands, onBoard, history, writing, tells, bucket, panel, clock, moves,
                 changed, lost, adrift>>

Pour(p) ==
  /\ p.step = "made"
  /\ pours' = pours \ {p}
  /\ bucket' = bucket \cup {p.point}
  /\ lost' = lost \ {p.row}
  /\ UNCHANGED <<stands, onBoard, history, writing, tells, panel, clock, moves, changed,
                 adrift>>

(* write_lines returns False, and nobody sends the line again before sync_influx does. *)
Delivered(r) == \E q \in bucket : q.row = r.row
Spill(p) ==
  /\ pours' = pours \ {p}
  /\ lost' = lost \cup (IF Delivered(p.row) THEN {} ELSE {p.row})
  /\ UNCHANGED <<stands, onBoard, history, writing, tells, bucket, panel, clock, moves,
                 changed, adrift>>

-----------------------------------------------------------------------------
(* Points of state *)

Ask(t) ==
  /\ t.step = "ready"
  /\ tells' = (tells \ {t}) \cup
       {[burst |-> t.burst, machine |-> t.machine, step |-> "read",
         seen |-> changed[t.machine], who |-> Now(t.machine)]}
  /\ UNCHANGED <<stands, onBoard, history, writing, pours, bucket, panel, clock, moves,
                 changed, lost, adrift>>

(* unit_state_point takes the time once the value is there. *)
Stamp(t) ==
  /\ t.step = "read"
  /\ tells' = (tells \ {t}) \cup
       {[burst |-> t.burst, machine |-> t.machine, step |-> "stamped", seen |-> t.seen,
         who |-> t.who, stamp |-> clock]}
  /\ clock' = clock + 1
  /\ UNCHANGED <<stands, onBoard, history, writing, pours, bucket, panel, moves, changed,
                 lost, adrift>>

(* The point is stored; last() shows it unless a later stamp is there already.  A
   reading that an older one hides, or that itself hides a newer one, is adrift. *)
Tell(t) ==
  LET m == t.machine
      last == panel[m]
      later == t.stamp > last.stamp
  IN  /\ t.step = "stamped"
      /\ tells' = tells \ {t}
      /\ panel' = IF later
                  THEN [panel EXCEPT ![m] = [stamp |-> t.stamp, seen |-> t.seen, who |-> t.who]]
                  ELSE panel
      /\ adrift' = IF later /\ t.seen = changed[m] THEN adrift \ {m}
                   ELSE IF IF later THEN t.seen < last.seen ELSE t.seen > last.seen
                   THEN adrift \cup {m}
                   ELSE adrift
      /\ UNCHANGED <<stands, onBoard, history, writing, pours, bucket, clock, moves, changed,
                     lost>>

(* write_lines failed, or the daemon died with the server. *)
Unsaid(t) ==
  /\ tells' = tells \ {t}
  /\ adrift' = adrift \cup
       (IF t.step = "ready" \/ t.seen > panel[t.machine].seen THEN {t.machine} ELSE {})
  /\ UNCHANGED <<stands, onBoard, history, writing, pours, bucket, panel, clock, moves,
                 changed, lost>>

(* sync_influx: the history but for demo batches, then every machine. *)
SyncInflux ==
  /\ moves < MaxMoves
  /\ pours' = pours \cup
       {[step |-> "ready", row |-> r, times |-> moves] : r \in {h \in history : h.batch \notin Rehearsals}}
  /\ tells' = tells \cup {[burst |-> moves, machine |-> m, step |-> "ready"] : m \in Machines}
  /\ moves' = moves + 1
  /\ UNCHANGED <<stands, onBoard, history, writing, bucket, panel, clock, changed, lost, adrift>>

-----------------------------------------------------------------------------
(* The panel has just been told who stands where, and no row has been written yet. *)
StreamInit ==
  /\ stands \in [Parties -> Spots]
  /\ \A b \in Rehearsals : stands[b] = Nowhere
  /\ onBoard = Parties
  /\ history = {}
  /\ writing = [w \in Hands |-> Idle]
  /\ pours = {}
  /\ tells = {}
  /\ bucket = {}
  /\ panel = [m \in Machines |-> [stamp |-> 0, seen |-> 0, who |-> Now(m)]]
  /\ clock = 1
  /\ moves = 0
  /\ changed = [m \in Machines |-> 0]
  /\ lost = {}
  /\ adrift = {}

StreamNext ==
  \/ \E b \in Parties, done \in BOOLEAN : Shift(b, done)
  \/ \E w \in Hands :
       \/ \E b \in Parties : CallOff(w, b) \/ (\E m \in Spots : Choose(w, b, m))
       \/ Placed(w)
       \/ CalledOff(w)
       \/ Removed(w)
  \/ \E p \in pours : Make(p) \/ Pour(p) \/ Spill(p)
  \/ \E t \in tells : Ask(t) \/ Stamp(t) \/ Tell(t) \/ Unsaid(t)
  \/ SyncInflux

StreamSpec == StreamInit /\ [][StreamNext]_stream

-----------------------------------------------------------------------------
StreamTypeOK ==
  /\ stands \in [Parties -> Spots]
  /\ onBoard \subseteq Parties
  /\ history \subseteq HistoryRows
  /\ writing \in [Hands -> Writings]
  /\ pours \subseteq Pours
  /\ tells \subseteq Tells
  /\ bucket \subseteq Points
  /\ panel \in [Machines -> LastPoint]
  /\ clock \in Nat /\ moves \in Nat
  /\ changed \in [Machines -> Nat]
  /\ lost \subseteq HistoryRows
  /\ adrift \subseteq Machines

(* Every move of a batch that is no demo has its point once its line is not under way,
   unless the line was lost and sync_influx has not poured it since (influx.py:1-7). *)
RowsArrive ==
  \A r \in history :
    r.batch \notin Rehearsals /\ r \notin lost /\ (\A p \in pours : p.row # r)
      => Delivered(r)

(* Once no state of a machine is under way its last point says who stands on it
   (influx.py:118-129: "свободная машина честно говорит «свободно»"), unless a point was
   lost, two of them were stamped against the order they were read in, a demo batch
   moved without telling, or a batch changed machines between a save's look and write. *)
PanelIsCurrent ==
  \A m \in Machines :
    m \notin adrift /\ (\A t \in tells : t.machine # m) => panel[m].who = Now(m)

(* What sync_influx.py:4-7 says: pouring over what was sent already doubles nothing. *)
PouringTwiceIsHarmless == \A p, q \in bucket : p.row = q.row => p = q
=============================================================================
