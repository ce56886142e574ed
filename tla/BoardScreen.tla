---------------------------- MODULE BoardScreen ----------------------------
(***************************************************************************)
(* The production board in a browser: cards in lanes, dragged by hand, and *)
(* redrawn from the server when its stream of events says that something   *)
(* changed.  The server keeps no list of changes: it compares a mark made  *)
(* of the newest history row and the latest edit.  A redraw replaces every *)
(* card of the page, so it is put off while a finger or a move holds one;  *)
(* that is asked before the page is fetched and not when it has come.      *)
(*                                                                         *)
(* A lane is a device of a stage or its pool.  An element of the page is a *)
(* card and the drawing it was made for: one that is held while the page   *)
(* is replaced belongs to no lane any more.                                *)
(***************************************************************************)
EXTENDS Integers, Sequences, FiniteSets, FiniteSetsExt

CONSTANTS
  MaxCards,    \* the cards, in the order of planned_finish and id
  Lanes,       \* all places a card can be in: the devices of the stages
  Pools,       \* and those that take any number of cards
  Slots,       \* bound: pages fetched at the same time
  MaxChanges,  \* bound: changes of the board on the server
  MaxUses      \* bound: cards picked up, times the tab is hidden, redraws asked for
               \* by other scripts, ends of the stream, requests for the page that fail

Cards == 1 .. MaxCards
Gone == "gone"
NoCard == 0
NoDrag == [el |-> <<NoCard, 0>>, home |-> Gone, next |-> NoCard]
NoFetch == [at |-> "none", by |-> "none", view |-> <<>>, time |-> 0]
NoMark == <<-1, -1>>
Off == <<-2, -2>>

ASSUME ScreenAssumption == MaxCards \in Nat \ {0} /\ Gone \notin Lanes /\ Pools \subseteq Lanes

VARIABLES
  place, hist, stamp, clock,  \* batches, newest history row and updated_at of each
  stream,      \* kanban_events: the mark it told last, Off when it has ended
  mail,        \* events on their way to the page
  seen, pending, refreshing,  \* lastMarker, pendingRefresh, refreshing
  waiting,     \* refreshWaiter
  hidden,      \* document.hidden
  finger,      \* drag
  moves,       \* movesInFlight: moves whose answer is due
  shown,       \* elements of the page and the lanes they are in
  page,        \* drawings so far
  fetch,       \* redraws that wait for their page
  uses,
  drawn,       \* history: time the page on the screen was made
  excused      \* history: what went wrong on the way, see CaughtUp

server == <<place, hist, stamp, clock>>
events == <<stream, mail>>
client == <<seen, pending, refreshing, waiting, hidden>>
hand == <<finger, moves>>
screen == <<shown, page, fetch, drawn>>
screenVars == <<server, events, client, hand, screen, uses, excused>>

-----------------------------------------------------------------------------
(* The server *)

Highest(f) == Max({0} \cup {f[c] : c \in {d \in Cards : place[d] # Gone}})
(* kanban_change_marker *)
Mark == <<Highest(hist), Highest(stamp)>>

(* A batch is moved, or only put on another device: that leaves no history row.
   The order of the two writes to the clock does not matter. *)
Change(c, l, staged) ==
  /\ clock < MaxChanges
  /\ clock' = clock + 1
  /\ place' = [place EXCEPT ![c] = l]
  /\ stamp' = [stamp EXCEPT ![c] = clock']
  /\ hist' = IF staged THEN [hist EXCEPT ![c] = clock'] ELSE hist

Elsewhere(c) ==
  /\ place[c] # Gone
  /\ \E l \in Lanes, staged \in BOOLEAN : l # place[c] /\ Change(c, l, staged)
  /\ UNCHANGED <<events, client, hand, screen, uses, excused>>

(* The mark the page was loaded or last told with. *)
Known == IF seen = NoMark THEN <<0, 0>> ELSE seen

(* A deletion stamps nothing.  The mark may stay, or go back to one that was told. *)
Delete(c) ==
  /\ clock < MaxChanges
  /\ place[c] # Gone
  /\ clock' = clock + 1
  /\ place' = [place EXCEPT ![c] = Gone]
  /\ UNCHANGED <<hist, stamp, events, client, hand, screen, uses>>
  /\ excused' = excused \cup (IF stream = Off \/ Mark' \in {stream, Known}
                            THEN {"deletion"} ELSE {})

(* kanban_events: every two seconds, and for five minutes at most *)
Tell ==
  /\ stream # Off
  /\ stream # Mark
  /\ stream' = Mark
  /\ mail' = Append(mail, <<"changed", Mark>>)
  /\ UNCHANGED <<server, client, hand, screen, uses, excused>>

Break ==
  /\ uses < MaxUses
  /\ stream # Off
  /\ uses' = uses + 1
  /\ stream' = Off /\ mail' = <<>>
  /\ UNCHANGED <<server, client, hand, screen, excused>>

Connect ==
  /\ stream = Off
  /\ stream' = Mark
  /\ mail' = << <<"ready", Mark>> >>
  /\ UNCHANGED <<server, client, hand, screen, uses, excused>>

-----------------------------------------------------------------------------
(* Redrawing *)

(* Fault: a redraw that comes at a bad time is given up. *)
RedrawOrForget(held, by) ==
  /\ UNCHANGED waiting
  /\ \/ held /\ UNCHANGED fetch
     \/ /\ ~held
        /\ \E s \in Slots : fetch[s] = NoFetch
             /\ fetch' = [fetch EXCEPT ![s] = [NoFetch EXCEPT !.at = "asked", !.by = by]]

(* refreshBoard, up to its fetch *)
Redraw(held, by) ==
  \/ held /\ waiting' = TRUE /\ UNCHANGED fetch
  \/ /\ ~held
     /\ UNCHANGED waiting
     /\ \E s \in Slots : fetch[s] = NoFetch
          /\ fetch' = [fetch EXCEPT ![s] = [NoFetch EXCEPT !.at = "asked", !.by = by]]

Held == finger # NoDrag \/ moves # {}

(* The interval that waits for the finger. *)
Retry ==
  /\ waiting /\ ~Held
  /\ waiting' = FALSE
  /\ \E s \in Slots : fetch[s] = NoFetch
       /\ fetch' = [fetch EXCEPT ![s] = [NoFetch EXCEPT !.at = "asked", !.by = "page"]]
  /\ UNCHANGED <<server, events, seen, pending, refreshing, hidden, hand, shown, page,
                 drawn, uses, excused>>

(* window.kanbanRefresh, for the voice widget and the panel of the demo *)
Call ==
  /\ uses < MaxUses
  /\ uses' = uses + 1
  /\ Redraw(Held, "page")
  /\ UNCHANGED <<server, events, seen, pending, refreshing, hidden, hand, shown, page,
                 drawn, excused>>

Render(s) ==
  /\ fetch[s].at = "asked"
  /\ fetch' = [fetch EXCEPT ![s] = [@ EXCEPT !.at = "rendered", !.view = place, !.time = clock]]
  /\ UNCHANGED <<server, events, client, hand, shown, page, drawn, uses, excused>>

(* What follows the await: refreshFromEvent and the handler of visibilitychange
   clear the flag, also one that was set while they waited. *)
After(s) ==
  /\ refreshing' = (refreshing /\ fetch[s].by # "event")
  /\ pending' = (pending /\ fetch[s].by = "page")
  /\ fetch' = [fetch EXCEPT ![s] = NoFetch]

Cleared(s) == IF pending /\ ~pending' /\ fetch[s].time < clock THEN {"cleared"} ELSE {}

Drawn(s) ==
  /\ fetch[s].at = "rendered"
  /\ page' = page + 1
  /\ shown' = {<<<<c, page + 1>>, fetch[s].view[c]>> :
                 c \in {d \in Cards : fetch[s].view[d] # Gone}}
  /\ drawn' = fetch[s].time
  /\ After(s)
  /\ excused' = excused \cup Cleared(s)
                  \cup (IF fetch[s].time < drawn THEN {"overtaken"} ELSE {})
                  \cup (IF Held THEN {"under a finger"} ELSE {})
  /\ UNCHANGED <<server, events, seen, waiting, hidden, hand, uses>>

(* An answer that is not a page is dropped like one that is; without an answer the
   flag is not cleared. *)
FetchFails(s) ==
  /\ fetch[s].at # "none"
  /\ uses < MaxUses
  /\ uses' = uses + 1
  /\ \/ After(s)
     \/ /\ refreshing' = (refreshing /\ fetch[s].by # "event")
        /\ fetch' = [fetch EXCEPT ![s] = NoFetch]
        /\ UNCHANGED pending
  /\ excused' = excused \cup {"failed"}
  /\ UNCHANGED <<server, events, seen, waiting, hidden, hand, shown, page, drawn>>

-----------------------------------------------------------------------------
(* Events *)

(* The mark of a new stream is taken over as if the page showed it. *)
Ready(m) ==
  /\ seen' = m
  /\ excused' = excused \cup (IF m # Known THEN {"reconnected"} ELSE {})
  /\ UNCHANGED <<pending, refreshing, waiting, fetch>>

(* refreshFromEvent *)
Changed(m) ==
  IF m = seen THEN UNCHANGED <<seen, pending, refreshing, waiting, fetch, excused>>
  ELSE /\ seen' = m
       /\ IF refreshing
          THEN /\ excused' = excused \cup {"refreshing"}
               /\ UNCHANGED <<pending, refreshing, waiting, fetch>>
          ELSE /\ UNCHANGED excused
               /\ IF hidden \/ Held
                  THEN pending' = TRUE /\ UNCHANGED <<refreshing, waiting, fetch>>
                  ELSE refreshing' = TRUE /\ Redraw(FALSE, "event") /\ UNCHANGED pending

Receive ==
  /\ mail # <<>>
  /\ mail' = Tail(mail)
  /\ LET e == Head(mail) IN
       \/ e[1] = "ready" /\ Ready(e[2])
       \/ e[1] = "changed" /\ Changed(e[2])
  /\ UNCHANGED <<server, stream, hidden, hand, shown, page, drawn, uses>>

Hide ==
  /\ ~hidden /\ uses < MaxUses /\ finger = NoDrag
  /\ hidden' = TRUE /\ uses' = uses + 1
  /\ UNCHANGED <<server, events, seen, pending, refreshing, waiting, hand, screen, excused>>

(* A redraw that has to wait is a promise fulfilled at once. *)
Unhide ==
  /\ hidden
  /\ hidden' = FALSE
  /\ IF pending
     THEN Redraw(Held, "visible") /\ pending' = ~Held
     ELSE UNCHANGED <<pending, waiting, fetch>>
  /\ UNCHANGED <<server, events, seen, refreshing, hand, shown, page, drawn, uses, excused>>

-----------------------------------------------------------------------------
(* Dragging *)

LaneOf(el) == IF \E l \in Lanes : <<el, l>> \in shown
              THEN CHOOSE l \in Lanes : <<el, l>> \in shown ELSE Gone
(* The element behind this one in its lane. *)
Behind(el) ==
  LET behind == {d \in Cards : d > el[1] /\ <<<<d, el[2]>>, LaneOf(el)>> \in shown}
  IN IF behind = {} THEN NoCard ELSE Min(behind)

(* startDrag: from here on the card is held, though it may turn out to be a tap or
   the beginning of a scroll. *)
Press(x) ==
  /\ uses < MaxUses /\ ~hidden
  /\ finger = NoDrag
  /\ x \in shown
  /\ uses' = uses + 1
  /\ finger' = [el |-> x[1], home |-> x[2], next |-> Behind(x[1])]
  /\ excused' = excused \cup (IF \E m \in moves : m.drag.el[1] = x[1][1]
                               THEN {"twice"} ELSE {})
  /\ UNCHANGED <<server, events, client, moves, screen>>

(* The handler of kanban:move-settled *)
Settled ==
  IF pending /\ moves' = {}
  THEN pending' = FALSE /\ Redraw(finger' # NoDrag, "page")
  ELSE UNCHANGED <<pending, waiting, fetch>>

(* Nothing was moved: no event tells the redraw that waits for it. *)
Lift ==
  /\ finger # NoDrag
  /\ finger' = NoDrag
  /\ excused' = excused \cup (IF pending THEN {"lifted"} ELSE {})
  /\ UNCHANGED <<server, events, client, moves, screen, uses>>

Moved(el, l) == {x \in shown : x[1] # el} \cup {<<el, l>>}
(* goHome: an element of an older drawing leaves the page.  insertBefore throws when
   the element behind it has left the lane meanwhile. *)
Homeless(d) == d.next # NoCard /\ <<<<d.next, d.el[2]>>, d.home>> \notin shown
Home(d) ==
  IF Homeless(d) /\ d.el[2] = page THEN shown
  ELSE IF d.el[2] # page THEN {x \in shown : x[1] # d.el}
  ELSE Moved(d.el, d.home)

(* Let go over its own lane, over none, over one that is taken, or Escape. *)
PutBack ==
  /\ finger # NoDrag
  /\ finger' = NoDrag
  /\ shown' = Home(finger)
  /\ UNCHANGED moves
  /\ Settled
  /\ excused' = excused \cup (IF Homeless(finger) THEN {"thrown"} ELSE {})
  /\ UNCHANGED <<server, events, seen, refreshing, hidden, page, drawn, uses>>

(* Let go over another lane: the card is put there before the server agrees. *)
Drop(l) ==
  /\ finger # NoDrag
  /\ l \in Pools \/ \A x \in shown : x[2] = l => x[1] = finger.el
  /\ l # finger.home \/ finger.el[2] # page
  /\ finger' = NoDrag
  /\ shown' = Moved(finger.el, l)
  /\ moves' = moves \cup {[drag |-> finger, to |-> l, answer |-> "due"]}
  /\ UNCHANGED <<server, events, client, page, fetch, drawn, uses, excused>>

(* move_batch_view: done, refused, or moved and then refused its device.  A refusal
   answers 200 as well. *)
Served(m) ==
  /\ m.answer = "due"
  /\ LET c == m.drag.el[1]
         Answer(a) == moves' = (moves \ {m}) \cup {[m EXCEPT !.answer = a]}
     IN \/ /\ place[c] \notin {Gone, m.to}
           /\ \E staged \in BOOLEAN : Change(c, m.to, staged)
           /\ Answer("ok")
        \/ /\ place[c] # Gone
           /\ \E l \in Lanes \ {place[c], m.to} : Change(c, l, TRUE)
           /\ Answer("no")
        \/ Answer("no") /\ UNCHANGED server
        \/ place[c] = m.to /\ Answer("ok") /\ UNCHANGED server
  /\ UNCHANGED <<events, client, finger, screen, uses, excused>>

Answered(m) ==
  /\ m.answer # "due"
  /\ moves' = moves \ {m}
  /\ UNCHANGED finger
  /\ shown' = IF m.answer = "ok" THEN shown ELSE Home(m.drag)
  /\ Settled
  /\ excused' = excused \cup (IF m.answer = "no" /\ Homeless(m.drag) THEN {"thrown"} ELSE {})
  /\ UNCHANGED <<server, events, seen, refreshing, hidden, page, drawn, uses>>

-----------------------------------------------------------------------------
ScreenInit ==
  /\ place \in [Cards -> Lanes]
  /\ hist = [c \in Cards |-> 0] /\ stamp = [c \in Cards |-> 0] /\ clock = 0
  /\ stream = Off /\ mail = <<>>
  /\ seen = NoMark /\ pending = FALSE /\ refreshing = FALSE
  /\ waiting = FALSE /\ hidden = FALSE
  /\ finger = NoDrag /\ moves = {}
  /\ shown = {<<<<c, 0>>, place[c]>> : c \in Cards}
  /\ page = 0 /\ drawn = 0
  /\ fetch = [s \in Slots |-> NoFetch]
  /\ uses = 0
  /\ excused = {}

ScreenNext ==
  \/ \E c \in Cards : Elsewhere(c) \/ Delete(c)
  \/ Tell \/ Break \/ Connect \/ Receive
  \/ Hide \/ Unhide \/ Retry \/ Call
  \/ \E s \in Slots : Render(s) \/ Drawn(s) \/ FetchFails(s)
  \/ \E x \in shown : Press(x)
  \/ Lift \/ PutBack
  \/ \E l \in Lanes : Drop(l)
  \/ \E m \in moves : Served(m) \/ Answered(m)

ScreenSpec == ScreenInit /\ [][ScreenNext]_screenVars

-----------------------------------------------------------------------------
Quiet ==
  /\ ~Held /\ ~waiting /\ ~hidden
  /\ \A s \in Slots : fetch[s] = NoFetch
  /\ stream = Mark /\ mail = <<>>

(* When every event was told and every request has ended, the page shows each card
   once and where the server has it.  What keeps it from doing so is one of these,
   and each of them does (README):
     deletion        a batch left and the mark did not change
     reconnected     the mark of a new stream is news
     refreshing      an event came while the page was fetched for another
     lifted          a card was only tapped while a redraw waited for it to be put down
     cleared         the flag was set again while the redraw it asked for was under way
     overtaken       an older page came after a newer one
     under a finger  the page came while a card was held
     twice           a card was dragged whose move was not answered yet
     thrown          the card behind its old place has left it too
     failed          a request for the page *)
CaughtUp ==
  Quiet /\ excused = {} =>
    shown = {<<<<c, page>>, place[c]>> : c \in {d \in Cards : place[d] # Gone}}
=============================================================================
