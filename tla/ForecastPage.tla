----------------------------- MODULE ForecastPage -----------------------------
(***************************************************************************)
(* The forecast of a week on a page: for every product and day the average *)
(* of the same weekday in the weeks before, or what a manager wrote over   *)
(* it.  A cell is corrected in place: the server saves the correction,     *)
(* then makes the whole sheet again and answers with the cell, the total   *)
(* of its row and the totals below.  Corrections are sent without waiting  *)
(* for one another, and their answers come in any order.                   *)
(*                                                                         *)
(* The page is a function of its parts: a cell, a row (its total), and the *)
(* foot (the totals of the days and of the week).                          *)
(***************************************************************************)
EXTENDS Naturals, FiniteSets, Functions

CONSTANTS
  Wares,      \* products with a history
  Dates,      \* the days of the sheet
  Foot,
  Weeks,      \* weeks_back: how many weeks before are looked at, 1 is the last one
  Numbers,    \* quantities that were made, or are typed
  NoFix, NoNumber, \* a cell without ForecastOverride, or a blank; what is no number
  Tries,      \* requests of the page, by slot
  MaxEdits    \* bound: corrections, changes by others, pages loaded

Cells == Wares \X Dates
Parts == Cells \cup Wares \cup {Foot}

ASSUME ForecastAssumption ==
  /\ Numbers \subseteq Nat /\ Weeks \subseteq Nat \ {0} /\ MaxEdits \in Nat
  /\ Foot \notin Wares \cup Cells /\ Wares \cap Cells = {}
  /\ NoFix \notin Nat /\ NoNumber \notin Nat /\ NoFix # NoNumber

VARIABLES
  past,     \* what was finished on the same weekday, for the weeks that had any
  fix,      \* ForecastOverride
  grid,     \* the page
  wire,     \* its requests
  edition,  \* sheets made for answers so far
  edits,
  latest,   \* history: the edition of the newest answer shown
  crossed,  \* history: an answer was shown after a newer one
  moved     \* history: somebody else changed something after the page was loaded

table == <<past, fix, grid, wire, edition, edits, latest, crossed, moved>>

NoTry == [at |-> "none"]

-----------------------------------------------------------------------------
(* predict_day and build_forecast *)

TotalOf(f) == FoldFunction(+, 0, f)

(* ROUND_HALF_UP *)
Average(days) ==
  LET n == Cardinality(DOMAIN days) IN IF n = 0 THEN 0 ELSE (2 * TotalOf(days) + n) \div (2 * n)

Shown(c) == IF fix[c] = NoFix THEN Average(past[c]) ELSE fix[c]
RowTotal(g) == TotalOf([d \in Dates |-> Shown(<<g, d>>)])
Listed(g) == RowTotal(g) > 0 \/ \E d \in Dates : fix[<<g, d>>] # NoFix
DayTotal(d) == TotalOf([g \in {h \in Wares : Listed(h)} |-> Shown(<<g, d>>)])

Part(x) ==
  IF x \in Cells THEN [quantity |-> Shown(x), overridden |-> fix[x] # NoFix]
  ELSE IF x \in Wares THEN [total |-> RowTotal(x), listed |-> Listed(x)]
  ELSE [daily |-> [d \in Dates |-> DayTotal(d)],
        grand |-> TotalOf([g \in {h \in Wares : Listed(h)} |-> RowTotal(g)])]
Sheet == [x \in Parts |-> Part(x)]

(* Fault: the foot is not brought up to date. *)
ReplacedRow(c) == {c, c[1]}
(* What the answer to a correction replaces: applyCell, updateTotals *)
Replaced(c) == {c, c[1], Foot}

-----------------------------------------------------------------------------
Edits == edits < MaxEdits /\ edits' = edits + 1

(* The page is loaded: what its requests are still doing, nobody hears any more. *)
Reloaded ==
  /\ grid' = Sheet
  /\ wire' = [q \in Tries |->
       IF wire[q].at \in {"sent", "orphan"} THEN [wire[q] EXCEPT !.at = "orphan"] ELSE NoTry]
  /\ crossed' = FALSE /\ moved' = FALSE

LoadPage ==
  /\ Edits
  /\ Reloaded
  /\ UNCHANGED <<past, fix, edition, latest>>

(* A cell of a row that is listed is clicked and typed over.  A blank in a cell that was
   computed is a change of mind, not a nought. *)
Correct(q, c, raw) ==
  /\ Edits
  /\ wire[q] = NoTry
  /\ grid[c[1]].listed
  /\ raw = NoFix => grid[c].overridden
  /\ wire' = [wire EXCEPT ![q] = [at |-> "sent", cell |-> c, raw |-> raw]]
  /\ UNCHANGED <<past, fix, grid, edition, latest, crossed, moved>>

(* forecast_override: the correction is saved or taken back.  One that the page has left
   is saved like one of somebody else. *)
Save(q) ==
  /\ wire[q].at \in {"sent", "orphan"} /\ wire[q].raw # NoNumber
  /\ fix' = [fix EXCEPT ![wire[q].cell] = wire[q].raw]
  /\ wire' = [wire EXCEPT ![q] =
       IF wire[q].at = "sent" THEN [at |-> "saved", cell |-> wire[q].cell] ELSE NoTry]
  /\ moved' = (moved \/ wire[q].at = "orphan")
  /\ UNCHANGED <<past, grid, edition, edits, latest, crossed>>

(* The sheet is made again, from what is stored by then. *)
MakeAgain(q) ==
  /\ wire[q].at = "saved"
  /\ edition' = edition + 1
  /\ wire' = [wire EXCEPT ![q] =
       [at |-> "made", cell |-> wire[q].cell, stamp |-> edition',
        answer |-> [x \in Replaced(wire[q].cell) |-> Part(x)]]]
  /\ UNCHANGED <<past, fix, grid, edits, latest, crossed, moved>>

(* The answer is shown; if the row is gone the page is loaded again. *)
ShowAnswer(q) ==
  LET answer == wire[q].answer IN
  /\ wire[q].at = "made"
  /\ IF answer[wire[q].cell[1]].listed
     THEN /\ grid' = [x \in Parts |-> IF x \in DOMAIN answer THEN answer[x] ELSE grid[x]]
          /\ wire' = [wire EXCEPT ![q] = NoTry]
          /\ crossed' = (crossed \/ wire[q].stamp < latest)
          /\ latest' = IF wire[q].stamp > latest THEN wire[q].stamp ELSE latest
          /\ UNCHANGED moved
     ELSE Reloaded /\ UNCHANGED latest
  /\ UNCHANGED <<past, fix, edition, edits>>

(* An error, or no answer: the page says so and is loaded again. *)
Lost(q) ==
  /\ wire[q].at \in {"sent", "saved", "made"}
  /\ Reloaded
  /\ UNCHANGED <<past, fix, edition, edits, latest>>

Vanish(q) ==
  /\ wire[q].at = "orphan"
  /\ wire' = [wire EXCEPT ![q] = NoTry]
  /\ UNCHANGED <<past, fix, grid, edition, edits, latest, crossed, moved>>

-----------------------------------------------------------------------------
(* Another manager corrects a cell; a batch of last week's weekday is finished. *)
Others(c, n) ==
  /\ Edits
  /\ fix' = [fix EXCEPT ![c] = n]
  /\ moved' = TRUE
  /\ UNCHANGED <<past, grid, wire, edition, latest, crossed>>

Bake(c, n) ==
  /\ Edits
  /\ 1 \in Weeks
  /\ past' = [past EXCEPT ![c] = [w \in DOMAIN @ \cup {1} |->
       IF w # 1 THEN past[c][w] ELSE IF 1 \in DOMAIN @ THEN past[c][1] + n ELSE n]]
  /\ moved' = TRUE
  /\ UNCHANGED <<fix, grid, wire, edition, latest, crossed>>

-----------------------------------------------------------------------------
ForecastInit ==
  /\ past \in [Cells -> UNION {[W -> Numbers] : W \in SUBSET Weeks}]
  /\ fix = [c \in Cells |-> NoFix]
  /\ grid = Sheet
  /\ wire = [q \in Tries |-> NoTry]
  /\ edition = 0 /\ edits = 0 /\ latest = 0
  /\ crossed = FALSE /\ moved = FALSE

ForecastNext ==
  \/ LoadPage
  \/ \E q \in Tries :
       \/ \E c \in Cells, raw \in Numbers \cup {NoFix, NoNumber} : Correct(q, c, raw)
       \/ Save(q) \/ MakeAgain(q) \/ ShowAnswer(q) \/ Lost(q) \/ Vanish(q)
  \/ \E c \in Cells : \/ \E n \in Numbers \cup {NoFix} : Others(c, n)
                      \/ \E n \in Numbers : Bake(c, n)

ForecastSpec == ForecastInit /\ [][ForecastNext]_table

-----------------------------------------------------------------------------
ForecastTypeOK ==
  /\ DOMAIN past = Cells
  /\ \A c \in Cells : DOMAIN past[c] \subseteq Weeks /\ \A w \in DOMAIN past[c] : past[c][w] \in Nat
  /\ fix \in [Cells -> Nat \cup {NoFix}]
  /\ DOMAIN grid = Parts
  /\ DOMAIN wire = Tries
  /\ \A q \in Tries :
       \/ wire[q] = NoTry
       \/ wire[q].at \in {"sent", "orphan"} /\ wire[q].cell \in Cells
          /\ wire[q].raw \in Nat \cup {NoFix, NoNumber}
       \/ wire[q].at = "saved" /\ wire[q].cell \in Cells
       \/ wire[q].at = "made" /\ wire[q].cell \in Cells /\ wire[q].stamp \in 1 .. edition
          /\ DOMAIN wire[q].answer = Replaced(wire[q].cell)
  /\ edition \in Nat /\ edits \in Nat /\ latest \in 0 .. edition
  /\ crossed \in BOOLEAN /\ moved \in BOOLEAN

(* A page that waits for nothing shows the sheet the server would make: cells, totals of
   rows, days and week, and which of them a person wrote; unless an older answer came after
   a newer one, or others changed something since it was loaded. *)
PageAgrees ==
  ~ crossed /\ ~ moved /\ (\A q \in Tries : wire[q].at \notin {"sent", "saved", "made"}) =>
    grid = Sheet
=============================================================================
