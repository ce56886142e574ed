---------------------------- MODULE CardNumbers ----------------------------
(***************************************************************************)
(* The numbers the bakery chalks on its trolleys.  Confirming an order     *)
(* takes an order number of the production day, makes a batch of every     *)
(* item that has none and gives the cards of the order numbers that no     *)
(* card on the board bears.  A confirmation is one transaction of READ     *)
(* COMMITTED: it reads what others have committed (Django drops the row    *)
(* lock of an aggregate), waits for a number another transaction has       *)
(* inserted, and fails if that one commits it.  Only the pair of an        *)
(* order's date and number is unique; card numbers are not.                *)
(***************************************************************************)
EXTENDS Naturals, FiniteSets, FiniteSetsExt

CONSTANTS
  Orders,       \* orders ever made
  MaxItems,     \* bound: items of an order
  Days,         \* production days
  Week,         \* days from an order to its repetition
  Requests,     \* confirmations that may run at the same time
  MaxConfirms   \* bound: confirmations ever begun

Items == 1 .. MaxItems
None == 0

ASSUME NumberBounds == MaxItems \in Nat \ {0} /\ MaxConfirms \in Nat /\ Week \in Nat \ {0}
ASSUME DaysAssumption == Days \subseteq Nat \ {None}
ASSUME OrdersAssumption == IsFiniteSet(Orders)

VARIABLES
  order,     \* ProductionOrder: day it is required, date and number it bears
  card,      \* ProductionBatch of an item: date and number, open or closed
  request,   \* confirm_order: the order it loaded and how far it is
  begun,
  serial,    \* history: no two confirmations have overlapped
  crossed    \* history: days two confirmations of which have overlapped

past == <<begun, serial, crossed>>
vars == <<order, card, request, past>>

NoOrder == [status |-> "none", day |-> None, date |-> None, number |-> None,
            grouped |-> FALSE, items |-> 0]
NoCard == [status |-> "none", date |-> None, number |-> None]
NoRequest == [at |-> "idle", order |-> None, copy |-> NoOrder, held |-> {}, want |-> None,
              plan |-> <<>>]

Made(o) == order[o].status # "none"
OpenCards == {x \in Orders \X Items : card[x[1]][x[2]].status = "open"}
Bears(x) == card[x[1]][x[2]].number
DateOf(x) == card[x[1]][x[2]].date

-----------------------------------------------------------------------------
(* Orders are made, repeated, get more items and another day, and are deleted: the
   order page refuses once there are batches, the board deletes them with the order.
   The sheet of the day makes an order, grouped or not, and confirms it in one
   transaction: till then its row is "new", and no other transaction sees it. *)

NewOrder(status, d, g, k) ==
  [NoOrder EXCEPT !.status = status, !.day = d, !.grouped = g, !.items = k]

Create(o) ==
  /\ ~ Made(o)
  /\ \E d \in Days : order' = [order EXCEPT ![o] = NewOrder("draft", d, FALSE, 1)]
  /\ UNCHANGED <<card, request, past>>

(* The plan of a week ago, with the items it has by now. *)
Repeat(o, p) ==
  /\ ~ Made(o)
  /\ order[p].status \in {"draft", "queued"} /\ order[p].day + Week \in Days
  /\ order' = [order EXCEPT ![o] = NewOrder("draft", order[p].day + Week, FALSE,
                                            order[p].items)]
  /\ UNCHANGED <<card, request, past>>

AddItem(o) ==
  /\ order[o].status \in {"draft", "queued"} /\ order[o].items < MaxItems
  /\ order' = [order EXCEPT ![o].items = @ + 1]
  /\ UNCHANGED <<card, request, past>>

Reschedule(o) ==
  /\ order[o].status \in {"draft", "queued"}
  /\ \E d \in Days \ {order[o].day} : order' = [order EXCEPT ![o].day = d]
  /\ UNCHANGED <<card, request, past>>

InRequest(o) == \E r \in Requests : request[r].at # "idle" /\ request[r].order = o

Delete(o) ==
  /\ Made(o) /\ order[o].status # "deleted" /\ ~ InRequest(o)
  /\ order' = [order EXCEPT ![o] = [NoOrder EXCEPT !.status = "deleted"]]
  /\ card' = [card EXCEPT ![o] = [i \in Items |-> NoCard]]
  /\ UNCHANGED <<request, past>>

(* The batch is completed or cancelled: nobody looks for its number again. *)
Close(o, i) ==
  /\ card[o][i].status = "open"
  /\ card' = [card EXCEPT ![o][i].status = "closed"]
  /\ UNCHANGED <<order, request, past>>

-----------------------------------------------------------------------------
(* What a statement of a transaction sees *)

OrderNumbers(d, o) ==
  {order[p].number : p \in {q \in Orders \ {o} : order[q].date = d}}
CardNumbers(d) ==
  {Bears(x) : x \in {y \in Orders \X Items : DateOf(y) = d}}

Highest(S) == Max(S \cup {0})

(* Fault: what other days still have on the board is not looked at. *)
BusyToday(d, o) == {}

(* numbers_busy_on_board: open cards of other days, those of the order excepted. *)
Busy(d, o) == {Bears(x) : x \in {y \in OpenCards : DateOf(y) # d /\ y[1] # o}}

(* Counting on from current past busy numbers: as many steps as there are of them,
   and one more, are enough. *)
NextFree(current, busy) ==
  Min({n \in (current + 1) .. (current + 1 + Cardinality(busy)) : n \notin busy})

(* One number for a grouped order, a number of its own for each card otherwise. *)
CountOn(highest, busy, grouped, k) ==
  LET nth[i \in 0 .. k] == IF i = 0 THEN highest
                           ELSE IF grouped /\ i > 1 THEN nth[i - 1]
                           ELSE NextFree(nth[i - 1], busy)
  IN [i \in 1 .. k |-> nth[i]]

NumbersFor(o, d, k) ==
  CountOn(Highest(CardNumbers(d) \cup OrderNumbers(d, o)), Busy(d, o), order[o].grouped, k)

-----------------------------------------------------------------------------
(* confirm_order *)

ActiveOn(d) == {q \in Requests : request[q].at # "idle" /\ request[q].copy.day = d}

Begin(r, o, copy) ==
  /\ request[r].at = "idle" /\ begun < MaxConfirms
  /\ request' = [request EXCEPT ![r] = [NoRequest EXCEPT !.at = "loaded", !.order = o,
                                        !.copy = copy]]
  /\ begun' = begun + 1
  /\ serial' = (serial /\ \A q \in Requests : request[q].at = "idle")
  /\ crossed' = IF ActiveOn(copy.day) = {} THEN crossed ELSE crossed \cup {copy.day}
  /\ UNCHANGED card

Load(r, o) ==
  /\ order[o].status \in {"draft", "queued"}
  /\ Begin(r, o, order[o])
  /\ UNCHANGED order

(* A line of the sheet, or the lines that are ticked as one card. *)
Queue(r, o) ==
  /\ ~ Made(o)
  /\ \E d \in Days, k \in Items, g \in BOOLEAN :
       /\ g \/ k = 1
       /\ order' = [order EXCEPT ![o] = NewOrder("new", d, g, k)]
       /\ Begin(r, o, NewOrder("new", d, g, k))

(* assign_daily_batch_number: the highest of the day, and one. *)
Reserve(r) ==
  LET c == request[r].copy IN
  /\ request[r].at = "loaded"
  /\ request' = [request EXCEPT ![r].at = "reserving",
                   ![r].want = IF c.date = c.day /\ c.number # None THEN c.number
                               ELSE 1 + Highest(OrderNumbers(c.day, None))]
  /\ UNCHANGED <<order, card, past>>

(* Entries of the unique index, and the row of the order, another transaction
   has written and not yet committed. *)
Blocked(r, e) ==
  \E q \in Requests \ {r} : request[q].held # {}
    /\ (e \in request[q].held \/ request[q].order = request[r].order)
Clash(r, e) ==
  \E p \in Orders \ {request[r].order} : <<order[p].date, order[p].number>> = e
Entry(r) == <<request[r].copy.day, request[r].want>>

Reserved(r) ==
  /\ request[r].at = "reserving"
  /\ ~ Blocked(r, Entry(r)) /\ ~ Clash(r, Entry(r))
  /\ request' = [request EXCEPT ![r].at = "reserved", ![r].held = {Entry(r)}]
  /\ UNCHANGED <<order, card, past>>

(* assign_batch_card_numbers: if every card has a number of the day, nothing. *)
Plan(r) ==
  LET o == request[r].order
      d == request[r].copy.day
      k == order[o].items IN
  /\ request[r].at = "reserved"
  /\ \/ /\ \A i \in 1 .. k : card[o][i].date = d
        /\ request' = [request EXCEPT ![r].at = "numbered",
                         ![r].plan = [i \in 1 .. k |-> card[o][i].number]]
     \/ /\ \E i \in 1 .. k : card[o][i].date # d
        /\ request' = [request EXCEPT ![r].at = "numbered",
                         ![r].plan = NumbersFor(o, d, k),
                         ![r].want = NumbersFor(o, d, k)[1]]
  /\ UNCHANGED <<order, card, past>>

Numbered(r) ==
  /\ request[r].at = "numbered"
  /\ ~ Blocked(r, Entry(r)) /\ ~ Clash(r, Entry(r))
  /\ request' = [request EXCEPT ![r].at = "written", ![r].held = @ \cup {Entry(r)}]
  /\ UNCHANGED <<order, card, past>>

Commit(r) ==
  LET q == request[r]
      o == q.order IN
  /\ q.at = "written"
  /\ order' = [order EXCEPT ![o].status = "queued", ![o].date = q.copy.day,
                            ![o].number = q.want]
  /\ card' = [card EXCEPT ![o] = [i \in Items |->
                IF i \in DOMAIN q.plan
                THEN [status |-> IF @[i].status = "none" THEN "open" ELSE @[i].status,
                      date |-> q.copy.day, number |-> q.plan[i]]
                ELSE @[i]]]
  /\ request' = [request EXCEPT ![r] = NoRequest]
  /\ UNCHANGED past

(* A taken number, a deadlock or a lost connection: nothing is written. *)
Rollback(r) ==
  /\ request[r].at # "idle"
  /\ request' = [request EXCEPT ![r] = NoRequest]
  /\ order' = [o \in Orders |-> IF o = request[r].order /\ order[o].status = "new"
                                THEN NoOrder ELSE order[o]]
  /\ UNCHANGED <<card, past>>

Init ==
  /\ order = [o \in Orders |-> NoOrder]
  /\ card = [o \in Orders |-> [i \in Items |-> NoCard]]
  /\ request = [r \in Requests |-> NoRequest]
  /\ begun = 0
  /\ serial = TRUE
  /\ crossed = {}

Confirm(r) ==
  \/ \E o \in Orders : Load(r, o) \/ Queue(r, o)
  \/ Reserve(r) \/ Reserved(r) \/ Plan(r) \/ Numbered(r) \/ Commit(r) \/ Rollback(r)

Next ==
  \/ \E o \in Orders : Create(o) \/ AddItem(o) \/ Reschedule(o) \/ Delete(o)
                       \/ \E p \in Orders : Repeat(o, p)
  \/ \E o \in Orders, i \in Items : Close(o, i)
  \/ \E r \in Requests : Confirm(r)

Spec == Init /\ [][Next]_vars

-----------------------------------------------------------------------------
(* Properties *)

Distinct(X) == \A x, y \in X : x[1] # y[1] /\ Bears(x) = Bears(y) => x = y

(* "No two active cards on the board share a number": cards of two orders never
   bear the same one, whichever day they are of, as long as confirmations do not
   overlap. *)
OneCardPerNumber == serial => Distinct(OpenCards)

(* Of one day, the cards of two orders differ as long as no two confirmations of that
   day have overlapped: what is confirmed for other days at the same time does no harm,
   although its cards decide which numbers are skipped. *)
DayIsDistinct == \A d \in Days \ crossed : Distinct({x \in OpenCards : DateOf(x) = d})

=============================================================================
