------------------------------ MODULE DaySheet ------------------------------
(***************************************************************************)
(* The production sheet of a day: three shifts, from the evening before to *)
(* the next morning; what was made in each of them; what was in stock when *)
(* the first began.  And the column "done" of the board, which is empty    *)
(* again every morning, by a command just before the shift begins and by   *)
(* the boundary of the working day itself.                                 *)
(*                                                                         *)
(* Sheet and board read different stamps of the same move: the board       *)
(* actual_finish, taken when the move begins, the sheet created_at of the  *)
(* row of its history, taken when that is written; both show when the move *)
(* commits.  Opening stock is read from a third one, that of the           *)
(* warehouse.                                                              *)
(***************************************************************************)
EXTENDS Integers, FiniteSets

CONSTANTS
  Loaves,     \* batches that are not of a demonstration
  DayLength,  \* ticks of a day, local time
  ShiftOne,   \* SHIFT_ONE_START, 8:00
  ShiftTwo,   \* SHIFT_TWO_START, 20:00
  LastTick    \* bound: the last moment

ASSUME SheetAssumption ==
  /\ {DayLength, ShiftOne, ShiftTwo, LastTick} \subseteq Nat
  /\ 0 < ShiftOne /\ ShiftOne < ShiftTwo /\ ShiftTwo < DayLength

VARIABLES
  moment,
  place,    \* where the batch is: "floor", in a move to "done" that is "stamped" or
            \* "written", "done", or "gone"
  finish,   \* actual_finish, meaningful from "stamped" on
  made,     \* created_at of the row of the history, from "written" on
  stocked,  \* created_at of its stock record, Never without one
  shelf,    \* its stock record is AVAILABLE
  cleared   \* board_cleared_at is set

sheet == <<moment, place, finish, made, stocked, shelf, cleared>>

Never == -1

-----------------------------------------------------------------------------
(* The shifts of a sheet, and the working day of the board *)

DayOf(t) == t \div DayLength
Days == -1 .. DayOf(LastTick) + 1  \* all that have a sheet by then, and two more
OClock(d, hour) == d * DayLength + hour
Columns == 1 .. 3
Start(d, i) == CASE i = 1 -> OClock(d - 1, ShiftTwo)
                 [] i = 2 -> OClock(d, ShiftOne)
                 [] i = 3 -> OClock(d, ShiftTwo)
Until(d, i) == CASE i = 1 -> OClock(d, ShiftOne)
               [] i = 2 -> OClock(d, ShiftTwo)
               [] i = 3 -> OClock(d + 1, ShiftOne)
Contains(d, i, t) == Start(d, i) <= t /\ t < Until(d, i)

(* Fault: before eight it is the new day already. *)
EightOfToday(t) == OClock(DayOf(t), ShiftOne)
(* board_day_start: the last 8:00 there was *)
BoardDayStart(t) == IF t < OClock(DayOf(t), ShiftOne) THEN OClock(DayOf(t) - 1, ShiftOne)
                    ELSE OClock(DayOf(t), ShiftOne)

Visible(b) == place[b] = "done" /\ ~ cleared[b] /\ finish[b] >= BoardDayStart(moment)

(* production_sheet: the columns a batch is counted in, and the stock of the morning *)
MadeOn(d, b) ==
  IF place[b] = "done" /\ Start(d, 1) <= made[b] /\ made[b] < Until(d, 3)
  THEN {i \in Columns : Contains(d, i, made[b])} ELSE {}
Opening(d, b) == shelf[b] /\ stocked[b] < Start(d, 1)
(* Row.closing, before what is planned is taken off: how often it holds the batch *)
Tallied(d, b) == (IF Opening(d, b) THEN 1 ELSE 0) + Cardinality(MadeOn(d, b))

-----------------------------------------------------------------------------
Passes ==
  /\ moment < LastTick
  /\ moment' = moment + 1
  /\ UNCHANGED <<place, finish, made, stocked, shelf, cleared>>

(* move_batch to the warehouse: a stock record is made once. *)
PutOnStock(b) ==
  /\ place[b] = "floor" /\ stocked[b] = Never
  /\ stocked' = [stocked EXCEPT ![b] = moment]
  /\ shelf' = [shelf EXCEPT ![b] = TRUE]
  /\ UNCHANGED <<moment, place, finish, made, cleared>>

(* The stock record is reserved, shipped, blocked over the API. *)
TakeOffShelf(b) ==
  /\ shelf[b]
  /\ shelf' = [shelf EXCEPT ![b] = FALSE]
  /\ UNCHANGED <<moment, place, finish, made, stocked, cleared>>

(* move_batch to "done", past the warehouse too: the stamp of the move, the row of the
   history, the commit; or none of it. *)
SetOff(b) ==
  /\ place[b] = "floor"
  /\ place' = [place EXCEPT ![b] = "stamped"]
  /\ finish' = [finish EXCEPT ![b] = moment]
  /\ UNCHANGED <<moment, made, stocked, shelf, cleared>>

Record(b) ==
  /\ place[b] = "stamped"
  /\ place' = [place EXCEPT ![b] = "written"]
  /\ made' = [made EXCEPT ![b] = moment]
  /\ UNCHANGED <<moment, finish, stocked, shelf, cleared>>

Arrive(b) ==
  /\ place[b] = "written"
  /\ place' = [place EXCEPT ![b] = "done"]
  /\ UNCHANGED <<moment, finish, made, stocked, shelf, cleared>>

TurnBack(b) ==
  /\ place[b] \in {"stamped", "written"}
  /\ place' = [place EXCEPT ![b] = "floor"]
  /\ finish' = [finish EXCEPT ![b] = 0] /\ made' = [made EXCEPT ![b] = 0]
  /\ UNCHANGED <<moment, stocked, shelf, cleared>>

(* delete_batch: only what has no stock record *)
Discard(b) ==
  /\ place[b] \in {"floor", "done"} /\ stocked[b] = Never
  /\ place' = [place EXCEPT ![b] = "gone"]
  /\ UNCHANGED <<moment, finish, made, stocked, shelf, cleared>>

(* sweep_done_board: everything that was done before the cutoff *)
Swept(cutoff) == {b \in Loaves : place[b] = "done" /\ ~ cleared[b] /\ finish[b] < cutoff}

(* clear_done_board: the cutoff is now. *)
Sweep ==
  /\ Swept(moment) # {}
  /\ cleared' = [b \in Loaves |-> cleared[b] \/ b \in Swept(moment)]
  /\ UNCHANGED <<moment, place, finish, made, stocked, shelf>>

-----------------------------------------------------------------------------
SheetInit ==
  /\ moment = 0
  /\ place = [b \in Loaves |-> "floor"]
  /\ finish = [b \in Loaves |-> 0] /\ made = [b \in Loaves |-> 0]
  /\ stocked = [b \in Loaves |-> Never]
  /\ shelf = [b \in Loaves |-> FALSE] /\ cleared = [b \in Loaves |-> FALSE]

SheetNext ==
  \/ Passes \/ Sweep
  \/ \E b \in Loaves : \/ PutOnStock(b) \/ TakeOffShelf(b) \/ SetOff(b) \/ Record(b) \/ Arrive(b)
                       \/ TurnBack(b) \/ Discard(b)

SheetSpec == SheetInit /\ [][SheetNext]_sheet

-----------------------------------------------------------------------------
SheetTypeOK ==
  /\ moment \in Nat
  /\ place \in [Loaves -> {"floor", "stamped", "written", "done", "gone"}]
  /\ finish \in [Loaves -> Nat] /\ made \in [Loaves -> Nat]
  /\ stocked \in [Loaves -> Nat \cup {Never}]
  /\ shelf \in [Loaves -> BOOLEAN] /\ cleared \in [Loaves -> BOOLEAN]

(* The board and the sheet of its day tell one story, at every hour of the night too: what
   the column "done" shows, one column of that sheet counts, not the one of the night
   before; and what these columns count the board shows until it is cleared away, but for a
   move that began in one working day and was written in the next. *)
BoardIsOfTheSheet ==
  \A b \in Loaves, d \in Days : Start(d, 2) <= moment /\ moment < Until(d, 3) =>
    /\ Visible(b) => MadeOn(d, b) \in {{2}, {3}}
    /\ MadeOn(d, b) \cap {2, 3} # {} => Visible(b) \/ cleared[b] \/ finish[b] < Start(d, 2)

(* The sheet adds opening stock and what the shifts made.  Nothing that is on the shelf and
   was done by the end of the sheet is left out of that sum, whichever day is opened, and it
   is counted twice only if the first shift began between its two moves. *)
StockIsCountedOnce ==
  \A b \in Loaves, d \in Days :
    shelf[b] /\ place[b] = "done" /\ made[b] < Until(d, 3) =>
      \/ Tallied(d, b) = 1
      \/ Tallied(d, b) = 2 /\ stocked[b] < Start(d, 1) /\ Start(d, 1) <= made[b]
=============================================================================
