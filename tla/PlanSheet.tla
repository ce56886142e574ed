------------------------------ MODULE PlanSheet ------------------------------
(***************************************************************************)
(* The plan of one production date.  A sheet shows for every product the   *)
(* quantity of the plan, and where nobody planned the sum of the orders.   *)
(* Both stand in the same input field, and every button of the sheet sends *)
(* all fields: each is written, or erased if it is empty, by a statement   *)
(* of its own.  Only then what was queued becomes an order with batches,   *)
(* in one transaction.                                                     *)
(*                                                                         *)
(* Quantities are counted in halves.  A broken one is shown with a comma,  *)
(* which a field for numbers takes for nothing.                            *)
(***************************************************************************)
EXTENDS Naturals, FiniteSets

CONSTANTS
  Goods,     \* active products
  Amounts,   \* quantities people think of, in halves
  Users,     \* browsers with the sheet of the date
  MaxTurns,  \* bound: pages opened, buttons pressed, orders changed
  Empty, Bad, \* a field with nothing, a field with no number
  NoWord, NoPage

Fields == Nat \cup {Empty, Bad}
Typed == Amounts \cup {Empty, Bad}

ASSUME PlanAssumption ==
  /\ Amounts \subseteq Nat /\ MaxTurns \in Nat
  /\ Empty \notin Nat /\ Bad \notin Nat /\ Empty # Bad /\ NoWord \notin Fields

VARIABLES
  asked,   \* sum of the order items for the date, those of the sheet itself too
  plan,    \* ProductionPlan, Empty where there is no row
  page,    \* what the fields of the browser were filled with
  post,    \* the request each browser waits for
  turns,
  word,    \* history: what was last typed for a product and written, or NoWord
  fresh,   \* history: products whose word the page of the browser knows
  stale    \* history: products that were written since by who did not know their word

memories == <<word, fresh, stale>>
plans == <<asked, plan, page, post, turns, memories>>

NoPost == [adds |-> "nothing"]
(* A request: the fields it sends, which of them were typed, which are not written yet,
   which words its page knew; and what it will put into the queue. *)
Posts ==
  {NoPost} \cup
  [sent : [Goods -> Fields], typed : SUBSET Goods, left : SUBSET Goods,
   knew : SUBSET Goods, adds : [Goods -> Nat]]

-----------------------------------------------------------------------------
(* Fault: what was ordered goes before what was planned. *)
OrdersFirst(g) == IF asked[g] # 0 \/ plan[g] = Empty THEN asked[g] ELSE plan[g]
(* planned = dict(ordered), then the rows of the plan *)
Planned(g) == IF plan[g] = Empty THEN asked[g] ELSE plan[g]

(* value="{{ row.planned|floatformat }}" of <input type="number"> *)
Filled(n) == IF n % 2 = 0 THEN n ELSE Empty

Turn == turns < MaxTurns /\ turns' = turns + 1

(* Customers order, change and cancel. *)
Order(g, n) ==
  /\ Turn
  /\ n # asked[g]
  /\ asked' = [asked EXCEPT ![g] = n]
  /\ UNCHANGED <<plan, page, post, memories>>

(* The page is opened, opened again, or shown after a button. *)
Open(u) ==
  /\ post[u] = NoPost
  /\ IF page[u] = NoPage THEN UNCHANGED turns ELSE Turn
  /\ page' = [page EXCEPT ![u] = [g \in Goods |-> Filled(Planned(g))]]
  /\ fresh' = [fresh EXCEPT ![u] = Goods]
  /\ UNCHANGED <<asked, plan, post, word, stale>>

(* _queue_production_plan: the amounts of what was chosen; a tick alone takes the field of
   the plan.  If one is missing, nonsense or nought, nothing is queued. *)
Wanted(button, amount, field) == IF button = "block" /\ amount = Empty THEN field ELSE amount
Queued(button, chosen, amount, sent) ==
  IF \E g \in chosen : Wanted(button, amount, sent[g]) \in {Empty, Bad, 0}
  THEN [g \in Goods |-> 0]
  ELSE [g \in Goods |-> IF g \in chosen THEN Wanted(button, amount, sent[g]) ELSE 0]

(* Some fields are typed over, perhaps with nonsense, and a button is pressed: save, a batch
   of one product, or one block of those that are ticked. *)
Press(u, T, v, button, chosen, amount) ==
  LET sent == [g \in Goods |-> IF g \in T THEN v ELSE page[u][g]] IN
  /\ Turn
  /\ page[u] # NoPage /\ post[u] = NoPost
  /\ button = "save" => chosen = {}
  /\ button = "one" => Cardinality(chosen) = 1
  /\ post' = [post EXCEPT ![u] =
       [sent |-> sent, typed |-> T, left |-> Goods, knew |-> fresh[u],
        adds |-> Queued(button, chosen, amount, sent)]]
  /\ UNCHANGED <<asked, plan, page, memories>>

(* _save_production_plan, one field: an empty one erases, nonsense is passed over.  What
   was typed is the word on the product from then on, which no other page knows. *)
Written(g, v) == IF v = Bad THEN plan[g] ELSE v

WriteField(u, g) ==
  LET v == post[u].sent[g]
      says == g \in post[u].typed /\ v # Bad
  IN  /\ post[u] # NoPost
      /\ g \in post[u].left
      /\ plan' = [plan EXCEPT ![g] = Written(g, v)]
      /\ word' = IF says THEN [word EXCEPT ![g] = v] ELSE word
      /\ fresh' = IF says THEN [w \in Users |-> fresh[w] \ {g}] ELSE fresh
      /\ stale' = IF says THEN stale \ {g}
                  ELSE IF v # Bad /\ g \notin post[u].knew THEN stale \cup {g} ELSE stale
      /\ post' = [w \in Users |->
           IF w = u THEN [post[u] EXCEPT !.left = @ \ {g}]
           ELSE IF says /\ post[w] # NoPost THEN [post[w] EXCEPT !.knew = @ \ {g}]
           ELSE post[w]]
      /\ UNCHANGED <<asked, page, turns>>

(* What was queued is one order, for the date of the sheet; the answer is a new page. *)
Answer(u) ==
  /\ post[u] # NoPost /\ post[u].left = {}
  /\ asked' = [g \in Goods |-> asked[g] + post[u].adds[g]]
  /\ post' = [post EXCEPT ![u] = NoPost]
  /\ page' = [page EXCEPT ![u] = NoPage]
  /\ UNCHANGED <<plan, turns, memories>>

(* A worker dies, a statement fails, or the queue is not for this user: the fields that are
   written stay written. *)
Breaks(u) ==
  /\ post[u] # NoPost
  /\ post' = [post EXCEPT ![u] = NoPost]
  /\ page' = [page EXCEPT ![u] = NoPage]
  /\ UNCHANGED <<asked, plan, turns, memories>>

-----------------------------------------------------------------------------
PlanInit ==
  /\ asked = [g \in Goods |-> 0]
  /\ plan = [g \in Goods |-> Empty]
  /\ page = [u \in Users |-> NoPage]
  /\ post = [u \in Users |-> NoPost]
  /\ turns = 0
  /\ word = [g \in Goods |-> NoWord]
  /\ fresh = [u \in Users |-> {}]
  /\ stale = {}

PlanNext ==
  \/ \E g \in Goods, n \in Amounts : Order(g, n)
  \/ \E u \in Users :
       \/ Open(u) \/ Answer(u) \/ Breaks(u)
       \/ \E T, chosen \in SUBSET Goods, v, amount \in Typed :
            \E button \in {"save", "one", "block"} : Press(u, T, v, button, chosen, amount)
       \/ \E g \in Goods : WriteField(u, g)

PlanSpec == PlanInit /\ [][PlanNext]_plans

-----------------------------------------------------------------------------
PlanTypeOK ==
  /\ asked \in [Goods -> Nat]
  /\ plan \in [Goods -> Nat \cup {Empty}]
  /\ page \in [Users -> [Goods -> Nat \cup {Empty}] \cup {NoPage}]
  /\ post \in [Users -> Posts]
  /\ turns \in Nat
  /\ word \in [Goods -> Fields \cup {NoWord}]
  /\ fresh \in [Users -> SUBSET Goods]
  /\ stale \subseteq Goods

(* Whole units decided by a person stand in the plan until a person decides again: neither
   orders that change, nor a field that is only sent along, rewrite them, unless the page it
   came from was older than the decision. *)
EditHolds ==
  \A g \in Goods :
    word[g] \in Nat /\ word[g] % 2 = 0 => plan[g] = word[g] \/ g \in stale
=============================================================================
