-------------------------- MODULE CardNumbersProofs --------------------------
(***************************************************************************)
(* Theorems about the numbers of the cards: while confirmations come one   *)
(* after the other no two orders have open cards of one number, and of a   *)
(* day whose confirmations never overlapped the cards of two orders        *)
(* differ, whatever overlaps on other days.  Of the numbering it needs     *)
(* that counting on always ends at a number above the highest of the day   *)
(* which no open card of another day bears.                                *)
(*                                                                         *)
(* The second part is about the demonstrations on the board: what a tick   *)
(* holds, how a run ends, and when the run that is on has all its cards.   *)
(***************************************************************************)
EXTENDS CardNumbers, DemoRun, FiniteSetTheorems, WellFoundedInduction, TLAPS

OrderType == [status : {"none", "draft", "new", "queued", "deleted"},
              day : Days \cup {None}, date : Days \cup {None}, number : Nat,
              grouped : BOOLEAN, items : 0 .. MaxItems]
CardType == [status : {"none", "open", "closed"}, date : Days \cup {None}, number : Nat]
PlanType == UNION {[1 .. k -> Nat] : k \in 0 .. MaxItems}
At == {"idle", "loaded", "reserving", "reserved", "numbered", "written"}
RequestType == [at : At, order : Orders \cup {None}, copy : OrderType,
                held : SUBSET (Days \X Nat), want : Nat, plan : PlanType]

TypeOK ==
  /\ order \in [Orders -> OrderType]
  /\ card \in [Orders -> [Items -> CardType]]
  /\ request \in [Requests -> RequestType]
  /\ begun \in Nat /\ serial \in BOOLEAN /\ crossed \subseteq Days

Alive == {"draft", "new", "queued"}
Running(r) == request[r].at # "idle"
Planned(r) == request[r].at \in {"numbered", "written"}
DayOf(r) == request[r].copy.day

(* Orders that are alive have a day and items; the order of a request is alive, and
   one that is not committed yet has one request. *)
AliveOrders ==
  /\ \A o \in Orders : order[o].status \in Alive => order[o].day \in Days /\ order[o].items > 0
  /\ \A r \in Requests : Running(r) =>
       /\ request[r].order \in Orders /\ DayOf(r) \in Days
       /\ order[request[r].order].status \in Alive
  /\ \A q, r \in Requests :
       /\ Running(q) /\ Running(r) /\ request[q].order = request[r].order
       /\ order[request[r].order].status = "new"
       => q = r

(* What the two histories say of the requests at hand. *)
Alone ==
  \A q, r \in Requests : Running(q) /\ Running(r) /\ q # r
     => ~ serial /\ (DayOf(q) = DayOf(r) => DayOf(r) \in crossed)

(* A row that was not made has no date. *)
CardsDated ==
  \A o \in Orders, i \in Items : card[o][i].status = "none" => card[o][i].date = None

(* Of an uncrossed day all cards of two orders differ, the closed ones too, because
   the highest number of the day is looked for among all of them. *)
DayDiffers ==
  \A x, y \in Orders \X Items :
    /\ x[1] # y[1] /\ DateOf(x) = DateOf(y) /\ DateOf(x) \in Days \ crossed
    => Bears(x) # Bears(y)

(* What a request is about to write differs from what it will stand beside. *)
PlanDiffers ==
  \A r \in Requests : Planned(r) =>
    \A i \in DOMAIN request[r].plan : \A y \in Orders \X Items : y[1] # request[r].order =>
      /\ DateOf(y) = DayOf(r) /\ DayOf(r) \notin crossed => Bears(y) # request[r].plan[i]
      /\ /\ serial /\ card[y[1]][y[2]].status = "open"
         /\ card[request[r].order][i].status # "closed"
         => Bears(y) # request[r].plan[i]

IInv == /\ TypeOK /\ AliveOrders /\ Alone /\ CardsDated
        /\ DayDiffers /\ PlanDiffers /\ OneCardPerNumber

-----------------------------------------------------------------------------
(* The least and the greatest of a set of numbers, and counting on *)

Below == {p \in Nat \X Nat : p[1] < p[2]}

LEMMA LeastExists ==
  ASSUME NEW S \in SUBSET Nat, S # {}
  PROVE  \E x \in S : \A y \in S : x <= y
<1>1. IsWellFoundedOn(Below, Nat)
  <2>1. Below = OpToRel(<, Nat)
    BY DEF Below, OpToRel
  <2> QED BY <2>1, NatLessThanWellFounded
<1>2. PICK x \in S : \A y \in S : <<y, x>> \notin Below
  BY <1>1, WFMin
<1>3. \A y \in S : x <= y
  <2>1. TAKE y \in S
  <2>2. /\ x \in Nat /\ y \in Nat /\ <<y, x>> \in Nat \X Nat
        /\ <<y, x>>[1] = y /\ <<y, x>>[2] = x
    OBVIOUS
  <2>3. ~ (y < x)
    BY <1>2, <2>2 DEF Below
  <2> QED BY <2>2, <2>3
<1> QED BY <1>3

LEMMA LeastIsLeast ==
  ASSUME NEW S \in SUBSET Nat, S # {}
  PROVE  Min(S) \in S /\ \A y \in S : Min(S) <= y
<1>1. PICK x \in S : \A y \in S : x <= y
  BY LeastExists
<1> QED BY <1>1 DEF Min

\* A finite set of numbers has a largest one.
LEMMA MaxIsHighest ==
  ASSUME NEW S \in SUBSET Nat, IsFiniteSet(S), S # {}
  PROVE  Max(S) \in S /\ \A y \in S : y <= Max(S)
<1> DEFINE bad == {T \in FiniteSubsetsOf(S) : T # {} /\ ~ \E x \in T : \A y \in T : y <= x}
<1>1. bad = {}
  <2>1. SUFFICES ASSUME bad # {} PROVE FALSE
    OBVIOUS
  <2>2. PICK T \in bad : \A U \in bad : <<U, T>> \notin StrictSubsetOrdering(S)
    <3>1. bad \subseteq FiniteSubsetsOf(S)
      OBVIOUS
    <3> HIDE DEF bad
    <3> QED BY <2>1, <3>1, FS_StrictSubsetOrderingWellFounded, WFMin
  <2>3. PICK z \in T : TRUE
    OBVIOUS
  <2>4. T \ {z} \in FiniteSubsetsOf(S) /\ <<T \ {z}, T>> \in StrictSubsetOrdering(S)
    BY <2>3, FS_RemoveElement DEF FiniteSubsetsOf, StrictSubsetOrdering
  <2>5. T \ {z} \notin bad
    BY <2>2, <2>4
  <2>6. CASE T \ {z} = {}
    BY <2>3, <2>6 DEF FiniteSubsetsOf
  <2>7. CASE T \ {z} # {}
    <3>1. PICK x \in T \ {z} : \A y \in T \ {z} : y <= x
      BY <2>4, <2>5, <2>7
    <3>2. T \subseteq Nat
      BY DEF FiniteSubsetsOf
    <3> QED BY <3>1, <3>2, <2>3
  <2> QED BY <2>6, <2>7
<1>2. PICK x \in S : \A y \in S : y <= x
  BY <1>1 DEF FiniteSubsetsOf
<1>3. \A y \in S : x >= y
  BY <1>2
<1>4. Max(S) \in S /\ \A y \in S : Max(S) >= y
  BY <1>3 DEF Max
<1> QED BY <1>4

LEMMA NextFreeIsFree ==
  ASSUME NEW h \in Nat, NEW busy \in SUBSET Nat, IsFiniteSet(busy)
  PROVE  NextFree(h, busy) \in Nat /\ NextFree(h, busy) > h /\ NextFree(h, busy) \notin busy
<1> DEFINE c == Cardinality(busy)
           S == {n \in (h + 1) .. (h + 1 + c) : n \notin busy}
<1>1. c \in Nat
  BY FS_CardinalityType
<1>2. S # {}
  <2>1. SUFFICES ASSUME S = {} PROVE FALSE
    OBVIOUS
  <2>2. (h + 1) .. (h + 1 + c) \in SUBSET busy
    BY <2>1
  <2>3. Cardinality((h + 1) .. (h + 1 + c)) <= c
    BY <2>2, FS_Subset
  <2>4. Cardinality((h + 1) .. (h + 1 + c)) = c + 1
    <3> HIDE DEF c
    <3>1. h + 1 \in Int /\ h + 1 + c \in Int /\ ~ (h + 1 > h + 1 + c)
      BY <1>1
    <3>2. Cardinality((h + 1) .. (h + 1 + c)) = (h + 1 + c) - (h + 1) + 1
      BY <3>1, FS_Interval
    <3> QED BY <3>2, <1>1
  <2> HIDE DEF c
  <2> QED BY <1>1, <2>3, <2>4
<1>3. S \in SUBSET Nat
  BY <1>1
<1>4. Min(S) \in S
  BY <1>2, <1>3, LeastIsLeast
<1>5. NextFree(h, busy) = Min(S)
  BY DEF NextFree
<1> HIDE DEF c
<1> QED BY <1>1, <1>4, <1>5
\* The numbers of the cards: all above the highest there is, none of them busy.
LEMMA CountOnSkips ==
  ASSUME NEW h \in Nat, NEW busy \in SUBSET Nat, IsFiniteSet(busy), NEW g \in BOOLEAN,
         NEW k \in Nat
  PROVE  /\ CountOn(h, busy, g, k) \in [1 .. k -> Nat]
         /\ \A i \in 1 .. k : CountOn(h, busy, g, k)[i] > h /\ CountOn(h, busy, g, k)[i] \notin busy
<1> DEFINE Next1(f, i) == IF i = 0 THEN h ELSE IF g /\ i > 1 THEN f[i - 1]
                          ELSE NextFree(f[i - 1], busy)
           Run(f, m) == f = [i \in 0 .. m |-> Next1(f, i)]
           bad == {m \in Nat : ~ \E f : Run(f, m)}
<1>1. bad = {}
  <2>1. SUFFICES ASSUME bad # {} PROVE FALSE
    OBVIOUS
  <2>2. PICK m \in bad : \A n \in bad : m <= n
    <3>1. bad \in SUBSET Nat
      OBVIOUS
    <3> HIDE DEF bad
    <3> QED BY <2>1, <3>1, LeastExists
  <2>3. CASE m = 0
    <3> DEFINE f == [i \in 0 .. 0 |-> h]
    <3>1. Run(f, 0)
      OBVIOUS
    <3> QED BY <3>1, <2>3
  <2>4. CASE m # 0
    <3>1. m - 1 \in Nat /\ m - 1 \notin bad
      BY <2>2, <2>4
    <3>2. PICK f : Run(f, m - 1)
      BY <3>1
    <3> DEFINE e == [i \in 0 .. m |-> IF i = m THEN Next1(f, m) ELSE f[i]]
    <3>3. \A i \in 0 .. m : e[i] = Next1(e, i)
      <4>1. TAKE i \in 0 .. m
      <4>2. i # 0 => i - 1 \in 0 .. (m - 1) /\ i - 1 # m /\ i - 1 \in 0 .. m
        OBVIOUS
      <4>3. i # 0 => e[i - 1] = f[i - 1]
        BY <4>2
      <4>4. Next1(e, i) = Next1(f, i)
        BY <4>3
      <4>5. i # m => i \in 0 .. (m - 1)
        OBVIOUS
      <4>6. i # m => f[i] = Next1(f, i)
        BY <4>5, <3>2
      <4> HIDE DEF Next1
      <4> QED BY <4>4, <4>6
    <3>4. e = [i \in 0 .. m |-> Next1(e, i)]
      BY <3>3
    <3> QED BY <3>4
  <2> QED BY <2>3, <2>4
<1> DEFINE nth == CHOOSE f : Run(f, k)
<1>2. Run(nth, k)
  BY <1>1
<1>3. CountOn(h, busy, g, k) = [i \in 1 .. k |-> nth[i]]
  BY DEF CountOn
<1> DEFINE Good(i) == nth[i] \in Nat /\ nth[i] >= h /\ (i > 0 => nth[i] > h /\ nth[i] \notin busy)
           wrong == {i \in 0 .. k : ~ Good(i)}
<1>4. wrong = {}
  <2>1. SUFFICES ASSUME wrong # {} PROVE FALSE
    OBVIOUS
  <2>2. PICK m \in wrong : \A n \in wrong : m <= n
    <3>1. wrong \in SUBSET Nat
      OBVIOUS
    <3> HIDE DEF wrong
    <3> QED BY <2>1, <3>1, LeastExists
  <2>3. nth[m] = Next1(nth, m)
    <3> HIDE DEF Next1, nth
    <3> QED BY <1>2
  <2> HIDE DEF nth
  <2>4. m # 0
    BY <2>2, <2>3
  <2>5. Good(m - 1)
    <3>1. m - 1 \in 0 .. k /\ ~ (m <= m - 1)
      BY <2>2, <2>4
    <3> QED BY <3>1, <2>2
  <2>6. /\ NextFree(nth[m - 1], busy) \in Nat /\ NextFree(nth[m - 1], busy) > nth[m - 1]
        /\ NextFree(nth[m - 1], busy) \notin busy
    BY <2>5, NextFreeIsFree
  <2>7. Good(m)
    BY <2>3, <2>4, <2>5, <2>6
  <2> QED BY <2>2, <2>7
<1> HIDE DEF nth
<1> QED BY <1>3, <1>4

-----------------------------------------------------------------------------
(* What the statements of a transaction find *)

Pairs == Orders \X Items

LEMMA PairsFinite == IsFiniteSet(Pairs)
<1>1. IsFiniteSet(Items)
  BY FS_Interval, NumberBounds DEF Items
<1> QED BY <1>1, OrdersAssumption, FS_Product DEF Pairs

LEMMA NumbersAreNat ==
  ASSUME TypeOK
  PROVE  /\ \A x \in Pairs : /\ x[1] \in Orders /\ x[2] \in Items /\ x = <<x[1], x[2]>>
                           /\ card[x[1]][x[2]] \in CardType
                           /\ Bears(x) \in Nat /\ DateOf(x) \in Days \cup {None}
         /\ \A o \in Orders : order[o] \in OrderType
         /\ \A r \in Requests : request[r] \in RequestType
BY DEF TypeOK, Pairs, Bears, DateOf, CardType

\* The numbers of some of the cards are a finite set of numbers.
LEMMA BornBySome ==
  ASSUME TypeOK, NEW X \in SUBSET Pairs
  PROVE  IsFiniteSet({Bears(x) : x \in X}) /\ {Bears(x) : x \in X} \in SUBSET Nat
<1> DEFINE S == {Bears(x) : x \in X}
           f == [x \in X |-> Bears(x)]
<1>1. f \in Surjection(X, S)
  BY DEF Surjection
<1>2. IsFiniteSet(X)
  BY PairsFinite, FS_Subset
<1>3. S \in SUBSET Nat
  BY NumbersAreNat
<1> HIDE DEF f
<1> QED BY <1>1, <1>2, <1>3, FS_Surjection

LEMMA OrderNumbersFinite ==
  ASSUME TypeOK, NEW d, NEW o
  PROVE  IsFiniteSet(OrderNumbers(d, o)) /\ OrderNumbers(d, o) \in SUBSET Nat
<1> DEFINE X == {q \in Orders \ {o} : order[q].date = d}
           S == {order[p].number : p \in X}
           f == [p \in X |-> order[p].number]
<1>1. f \in Surjection(X, S)
  BY DEF Surjection
<1>2. IsFiniteSet(X)
  BY OrdersAssumption, FS_Subset
<1>3. S \in SUBSET Nat
  BY NumbersAreNat DEF OrderType
<1>4. OrderNumbers(d, o) = S
  BY DEF OrderNumbers
<1> HIDE DEF f
<1> QED BY <1>1, <1>2, <1>3, <1>4, FS_Surjection

LEMMA HighestIsHighest ==
  ASSUME NEW S \in SUBSET Nat, IsFiniteSet(S)
  PROVE  Highest(S) \in Nat /\ \A y \in S : y <= Highest(S)
<1>1. IsFiniteSet(S \cup {0}) /\ S \cup {0} \in SUBSET Nat /\ S \cup {0} # {}
  BY FS_AddElement
<1> QED BY <1>1, MaxIsHighest DEF Highest

\* assign_batch_card_numbers: above every card of the day, and none that is busy on
\* another day.
LEMMA NumbersAreFree ==
  ASSUME TypeOK, NEW o \in Orders, NEW d, NEW k \in Nat
  PROVE  /\ NumbersFor(o, d, k) \in [1 .. k -> Nat]
         /\ \A i \in 1 .. k : \A y \in Pairs :
              /\ DateOf(y) = d => Bears(y) < NumbersFor(o, d, k)[i]
              /\ card[y[1]][y[2]].status = "open" /\ DateOf(y) # d /\ y[1] # o
                   => Bears(y) # NumbersFor(o, d, k)[i]
<1> DEFINE S == CardNumbers(d) \cup OrderNumbers(d, o)
           N == NumbersFor(o, d, k)
<1>1. IsFiniteSet(CardNumbers(d)) /\ CardNumbers(d) \in SUBSET Nat
  <2>1. {y \in Pairs : DateOf(y) = d} \in SUBSET Pairs
    OBVIOUS
  <2> QED BY <2>1, BornBySome DEF CardNumbers, Pairs
<1>2. IsFiniteSet(Busy(d, o)) /\ Busy(d, o) \in SUBSET Nat
  <2>1. {y \in OpenCards : DateOf(y) # d /\ y[1] # o} \in SUBSET Pairs
    BY DEF OpenCards, Pairs
  <2> QED BY <2>1, BornBySome DEF Busy
<1>3. IsFiniteSet(S) /\ S \in SUBSET Nat
  BY <1>1, OrderNumbersFinite, FS_Union
<1>4. Highest(S) \in Nat /\ \A y \in S : y <= Highest(S)
  BY <1>3, HighestIsHighest
<1>5. order[o].grouped \in BOOLEAN
  BY NumbersAreNat DEF OrderType
<1>6. N = CountOn(Highest(S), Busy(d, o), order[o].grouped, k)
  BY DEF NumbersFor
<1>7. N \in [1 .. k -> Nat] /\ \A i \in 1 .. k : N[i] > Highest(S) /\ N[i] \notin Busy(d, o)
  <2> DEFINE h == Highest(S)
             B == Busy(d, o)
             g == order[o].grouped
             C == CountOn(h, B, g, k)
  <2>1. h \in Nat /\ B \in SUBSET Nat /\ IsFiniteSet(B) /\ g \in BOOLEAN
    BY <1>2, <1>4, <1>5
  <2>2. N = C
    BY <1>6
  <2> HIDE DEF h, B, g, N
  <2>3. C \in [1 .. k -> Nat] /\ \A i \in 1 .. k : C[i] > h /\ C[i] \notin B
    BY <2>1, CountOnSkips
  <2> QED BY <2>2, <2>3 DEF h, B
<1>8. ASSUME NEW i \in 1 .. k, NEW y \in Pairs, DateOf(y) = d
      PROVE  Bears(y) < N[i]
  <2>1. Bears(y) \in S
    BY <1>8 DEF CardNumbers, Pairs
  <2>2. Bears(y) \in Nat /\ Bears(y) <= Highest(S) /\ N[i] \in Nat /\ N[i] > Highest(S)
    BY <2>1, <1>3, <1>4, <1>7
  <2> QED BY <2>2, <1>4
<1>9. ASSUME NEW i \in 1 .. k, NEW y \in Pairs, card[y[1]][y[2]].status = "open",
             DateOf(y) # d, y[1] # o
      PROVE  Bears(y) # N[i]
  <2>1. Bears(y) \in Busy(d, o)
    BY <1>9 DEF Busy, OpenCards, Pairs
  <2> QED BY <2>1, <1>7
<1>10. N \in [1 .. k -> Nat]
  BY <1>7
<1> QED BY <1>8, <1>9, <1>10

-----------------------------------------------------------------------------
(* Types *)

LEMMA RowsTyped ==
  /\ NoOrder \in OrderType /\ NoCard \in CardType /\ NoRequest \in RequestType
  /\ \A s \in {"none", "draft", "new", "queued", "deleted"}, d \in Days, g \in BOOLEAN,
        k \in Items : NewOrder(s, d, g, k) \in OrderType
<1>1. NoOrder \in OrderType /\ NoCard \in CardType
  BY NumberBounds DEF NoOrder, OrderType, None, NoCard, CardType
<1>2. <<>> \in PlanType
  <2>1. <<>> \in [1 .. 0 -> Nat] /\ 0 \in 0 .. MaxItems
    BY NumberBounds
  <2> QED BY <2>1 DEF PlanType
<1>3. NoRequest \in RequestType
  BY <1>1, <1>2 DEF NoRequest, RequestType, At, None
<1>4. ASSUME NEW s \in {"none", "draft", "new", "queued", "deleted"}, NEW d \in Days,
             NEW g \in BOOLEAN, NEW k \in Items
      PROVE  NewOrder(s, d, g, k) \in OrderType
  <2>1. k \in 0 .. MaxItems
    BY NumberBounds DEF Items
  <2> QED BY <1>1, <2>1 DEF NewOrder, OrderType
<1> QED BY <1>1, <1>3, <1>4

\* What a confirmation is about to write.
LEMMA PlanTyped ==
  ASSUME TypeOK, AliveOrders, NEW r \in Requests, Plan(r)
  PROVE  /\ request'[r].plan \in PlanType /\ request'[r].want \in Nat
         /\ request' = [request EXCEPT ![r] = [@ EXCEPT !.at = "numbered",
                          !.plan = request'[r].plan, !.want = request'[r].want]]
         /\ \A i \in DOMAIN request'[r].plan : \A y \in Pairs : y[1] # request[r].order =>
              \/ /\ card[request[r].order][i].date = DayOf(r)
                 /\ request'[r].plan[i] = card[request[r].order][i].number
              \/ /\ DateOf(y) = DayOf(r) => Bears(y) # request'[r].plan[i]
                 /\ card[y[1]][y[2]].status = "open" => Bears(y) # request'[r].plan[i]
         /\ DOMAIN request'[r].plan \subseteq Items
<1> DEFINE o == request[r].order
           d == DayOf(r)
           k == order[o].items
           N == NumbersFor(o, d, k)
           K == [i \in 1 .. k |-> card[o][i].number]
<1>1. /\ o \in Orders /\ d \in Days /\ k \in 0 .. MaxItems /\ k \in Nat /\ k > 0
      /\ request[r] \in RequestType
  <2>1. request[r].at = "reserved" /\ request[r] \in RequestType
    BY NumbersAreNat DEF Plan
  <2>2. o \in Orders /\ d \in Days /\ order[o].status \in Alive
    BY <2>1 DEF AliveOrders, Running
  <2>3. order[o] \in OrderType /\ order[o].items > 0
    BY <2>2, NumbersAreNat DEF AliveOrders
  <2> QED BY <2>1, <2>2, <2>3, NumberBounds DEF OrderType
<1>2. 1 .. k \subseteq Items
  BY <1>1, NumberBounds DEF Items
<1>3. ASSUME \A i \in 1 .. k : card[o][i].date = d,
             request' = [request EXCEPT ![r].at = "numbered", ![r].plan = K]
      PROVE  /\ request'[r].plan = K /\ request'[r].want = request[r].want
             /\ request' = [request EXCEPT ![r] = [@ EXCEPT !.at = "numbered",
                              !.plan = K, !.want = request[r].want]]
  BY <1>1, <1>3 DEF TypeOK, RequestType
<1>4. ASSUME request' = [request EXCEPT ![r].at = "numbered", ![r].plan = N, ![r].want = N[1]]
      PROVE  /\ request'[r].plan = N /\ request'[r].want = N[1]
             /\ request' = [request EXCEPT ![r] = [@ EXCEPT !.at = "numbered",
                              !.plan = N, !.want = N[1]]]
  BY <1>1, <1>4 DEF TypeOK, RequestType
<1>5. K \in [1 .. k -> Nat]
  BY <1>1, <1>2 DEF TypeOK, CardType
<1>6. N \in [1 .. k -> Nat] /\ N[1] \in Nat
      /\ \A i \in 1 .. k : \A y \in Pairs : y[1] # o =>
           /\ DateOf(y) = d => Bears(y) # N[i]
           /\ card[y[1]][y[2]].status = "open" => Bears(y) # N[i]
  <2>1. /\ N \in [1 .. k -> Nat]
        /\ \A i \in 1 .. k : \A y \in Pairs :
             /\ DateOf(y) = d => Bears(y) < N[i]
             /\ card[y[1]][y[2]].status = "open" /\ DateOf(y) # d /\ y[1] # o
                   => Bears(y) # N[i]
    BY <1>1, NumbersAreFree
  <2>2. 1 \in 1 .. k
    BY <1>1
  <2> HIDE DEF N
  <2> QED BY <2>1, <2>2, NumbersAreNat
<1>7. \/ (\A i \in 1 .. k : card[o][i].date = d)
         /\ request' = [request EXCEPT ![r].at = "numbered", ![r].plan = K]
      \/ request' = [request EXCEPT ![r].at = "numbered", ![r].plan = N, ![r].want = N[1]]
  BY DEF Plan, DayOf
<1> HIDE DEF N, K, k
<1>8. CASE /\ \A i \in 1 .. k : card[o][i].date = d
           /\ request' = [request EXCEPT ![r].at = "numbered", ![r].plan = K]
  <2>1. K \in PlanType
    BY <1>1, <1>5 DEF PlanType
  <2>2. DOMAIN K = 1 .. k /\ \A i \in 1 .. k : K[i] = card[o][i].number
    BY <1>5 DEF K
  <2>3. request[r].want \in Nat
    BY <1>1 DEF RequestType
  <2> QED BY <1>2, <1>3, <1>8, <2>1, <2>2, <2>3
<1>9. CASE request' = [request EXCEPT ![r].at = "numbered", ![r].plan = N, ![r].want = N[1]]
  <2>1. N \in PlanType
    BY <1>1, <1>6 DEF PlanType
  <2>2. DOMAIN N = 1 .. k
    BY <1>6
  <2>3. request'[r].plan = N /\ request'[r].want = N[1]
        /\ request' = [request EXCEPT ![r] = [@ EXCEPT !.at = "numbered",
                         !.plan = N, !.want = N[1]]]
    BY <1>4, <1>9
  <2> QED BY <1>2, <1>6, <2>1, <2>2, <2>3
<1> QED BY <1>7, <1>8, <1>9

LEMMA TypeStep == TypeOK /\ AliveOrders /\ [Next]_vars => TypeOK'
<1> SUFFICES ASSUME TypeOK, AliveOrders, [Next]_vars PROVE TypeOK'
  OBVIOUS
<1>1. ASSUME NEW o \in Orders, Create(o) PROVE TypeOK'
  <2>1. 1 \in Items
    BY NumberBounds DEF Items
  <2> QED BY <1>1, <2>1, RowsTyped DEF Create, TypeOK, past
<1>2. ASSUME NEW o \in Orders, AddItem(o) PROVE TypeOK'
  <2>1. [order[o] EXCEPT !.items = @ + 1] \in OrderType
    <3>1. order[o] \in OrderType /\ order[o].items < MaxItems
      BY <1>2, NumbersAreNat DEF AddItem
    <3>2. order[o].items + 1 \in 0 .. MaxItems
      BY <3>1, NumberBounds DEF OrderType
    <3> QED BY <3>1, <3>2 DEF OrderType
  <2>2. order' \in [Orders -> OrderType]
    BY <1>2, <2>1 DEF AddItem, TypeOK
  <2> QED BY <1>2, <2>2 DEF AddItem, TypeOK, past
<1>3. ASSUME NEW o \in Orders, Reschedule(o) PROVE TypeOK'
  <2>1. PICK d \in Days : order' = [order EXCEPT ![o].day = d]
    BY <1>3 DEF Reschedule
  <2>2. [order[o] EXCEPT !.day = d] \in OrderType
    BY NumbersAreNat DEF OrderType
  <2>3. order' \in [Orders -> OrderType]
    BY <2>1, <2>2 DEF TypeOK
  <2> QED BY <1>3, <2>3 DEF Reschedule, TypeOK, past
<1>4. ASSUME NEW o \in Orders, Delete(o) PROVE TypeOK'
  <2>1. [NoOrder EXCEPT !.status = "deleted"] \in OrderType
    BY RowsTyped DEF OrderType
  <2> QED BY <1>4, <2>1, RowsTyped DEF Delete, TypeOK, past
<1>5. ASSUME NEW o \in Orders, NEW p \in Orders, Repeat(o, p) PROVE TypeOK'
  <2>1. order[p].status \in Alive /\ order[p].items \in Items
    <3>1. order[p].status \in Alive /\ order[p] \in OrderType
      BY <1>5, NumbersAreNat DEF Repeat, Alive
    <3>2. order[p].items > 0 /\ order[p].items \in 0 .. MaxItems
      BY <3>1 DEF AliveOrders, OrderType
    <3> QED BY <3>1, <3>2, NumberBounds DEF Items
  <2>2. order' \in [Orders -> OrderType]
    BY <1>5, <2>1, RowsTyped DEF Repeat, TypeOK
  <2> QED BY <1>5, <2>2 DEF Repeat, TypeOK, past
<1>6. ASSUME NEW o \in Orders, NEW i \in Items, Close(o, i) PROVE TypeOK'
  <2>1. [card[o][i] EXCEPT !.status = "closed"] \in CardType
    <3>1. card[o][i] \in CardType
      BY DEF TypeOK
    <3> QED BY <3>1 DEF CardType
  <2>2. card' \in [Orders -> [Items -> CardType]]
    BY <1>6, <2>1 DEF Close, TypeOK
  <2> QED BY <1>6, <2>2 DEF Close, TypeOK, past
<1>7. ASSUME NEW r \in Requests, NEW o \in Orders, NEW c \in OrderType, Begin(r, o, c),
             c.day \in Days, order' \in [Orders -> OrderType]
      PROVE  TypeOK'
  <2>1. [NoRequest EXCEPT !.at = "loaded", !.order = o, !.copy = c] \in RequestType
    BY RowsTyped DEF RequestType, At
  <2> QED BY <1>7, <2>1 DEF Begin, TypeOK
<1>8. ASSUME NEW r \in Requests, NEW o \in Orders, Load(r, o) PROVE TypeOK'
  <2>1. order[o] \in OrderType /\ order[o].day \in Days
    BY <1>8 DEF Load, TypeOK, AliveOrders, Alive
  <2> QED BY <1>7, <1>8, <2>1 DEF Load, TypeOK
<1>9. ASSUME NEW r \in Requests, NEW o \in Orders, Queue(r, o) PROVE TypeOK'
  <2>1. PICK d \in Days, k \in Items, g \in BOOLEAN :
          /\ order' = [order EXCEPT ![o] = NewOrder("new", d, g, k)]
          /\ Begin(r, o, NewOrder("new", d, g, k))
    BY <1>9 DEF Queue
  <2>2. NewOrder("new", d, g, k) \in OrderType /\ NewOrder("new", d, g, k).day = d
    BY RowsTyped DEF NewOrder, NoOrder
  <2>3. order' \in [Orders -> OrderType]
    BY <2>1, <2>2 DEF TypeOK
  <2> QED BY <1>7, <2>1, <2>2, <2>3
<1>10. ASSUME NEW r \in Requests, Reserve(r) PROVE TypeOK'
  <2> DEFINE c == request[r].copy
             want == IF c.date = c.day /\ c.number # None THEN c.number
                     ELSE 1 + Highest(OrderNumbers(c.day, None))
  <2>1. want \in Nat
    <3>1. Highest(OrderNumbers(c.day, None)) \in Nat
      BY OrderNumbersFinite, HighestIsHighest
    <3>2. c.number \in Nat
      BY DEF TypeOK, RequestType, OrderType
    <3> QED BY <3>1, <3>2
  <2>2. request' = [request EXCEPT ![r].at = "reserving", ![r].want = want]
    BY <1>10 DEF Reserve
  <2> HIDE DEF want
  <2>3. [request[r] EXCEPT !.at = "reserving", !.want = want] \in RequestType
    BY <2>1 DEF TypeOK, RequestType, At
  <2>4. request' \in [Requests -> RequestType]
    BY <2>2, <2>3 DEF TypeOK
  <2> QED BY <1>10, <2>4 DEF Reserve, TypeOK, past
<1>11. ASSUME NEW r \in Requests, request[r].at # "idle" PROVE Entry(r) \in Days \X Nat
  BY <1>11 DEF Entry, TypeOK, RequestType, AliveOrders, Running, DayOf
<1>12. ASSUME NEW r \in Requests, Reserved(r) PROVE TypeOK'
  <2>1. [request[r] EXCEPT !.at = "reserved", !.held = {Entry(r)}] \in RequestType
    BY <1>11, <1>12 DEF Reserved, TypeOK, RequestType, At
  <2>2. request' \in [Requests -> RequestType]
    BY <1>12, <2>1 DEF Reserved, TypeOK
  <2> QED BY <1>12, <2>2 DEF Reserved, TypeOK, past
<1>13. ASSUME NEW r \in Requests, Plan(r) PROVE TypeOK'
  <2>1. /\ request'[r].plan \in PlanType /\ request'[r].want \in Nat
        /\ request' = [request EXCEPT ![r] = [@ EXCEPT !.at = "numbered",
                         !.plan = request'[r].plan, !.want = request'[r].want]]
    BY <1>13, PlanTyped
  <2> DEFINE plan == request'[r].plan
             want == request'[r].want
  <2> HIDE DEF plan, want
  <2>2. request[r] \in RequestType /\ plan \in PlanType /\ want \in Nat
    BY <2>1, NumbersAreNat DEF plan, want
  <2>3. [request[r] EXCEPT !.at = "numbered", !.plan = plan, !.want = want] \in RequestType
    BY <2>2 DEF RequestType, At
  <2>4. request' \in [Requests -> RequestType]
    BY <2>1, <2>3 DEF TypeOK, plan, want
  <2> QED BY <1>13, <2>4 DEF Plan, TypeOK, past
<1>14. ASSUME NEW r \in Requests, Numbered(r) PROVE TypeOK'
  <2>1. [request[r] EXCEPT !.at = "written", !.held = @ \cup {Entry(r)}] \in RequestType
    BY <1>11, <1>14 DEF Numbered, TypeOK, RequestType, At
  <2>2. request' \in [Requests -> RequestType]
    BY <1>14, <2>1 DEF Numbered, TypeOK
  <2> QED BY <1>14, <2>2 DEF Numbered, TypeOK, past
<1>15. ASSUME NEW r \in Requests, Commit(r) PROVE TypeOK'
  <2> DEFINE q == request[r]
             o == q.order
  <2>1. o \in Orders /\ q.copy.day \in Days /\ q \in RequestType
    BY <1>15 DEF Commit, AliveOrders, Running, DayOf, TypeOK
  <2>2. order' \in [Orders -> OrderType]
    <3>0. order[o] \in OrderType /\ q.want \in Nat
      BY <2>1, NumbersAreNat DEF RequestType
    <3>1. [order[o] EXCEPT !.status = "queued", !.date = q.copy.day, !.number = q.want]
            \in OrderType
      BY <2>1, <3>0 DEF OrderType
    <3>2. order' = [order EXCEPT ![o] = [@ EXCEPT !.status = "queued",
                      !.date = q.copy.day, !.number = q.want]]
      BY <1>15, <2>1 DEF Commit, TypeOK, OrderType
    <3> QED BY <3>1, <3>2 DEF TypeOK
  <2>3. card' \in [Orders -> [Items -> CardType]]
    <3> DEFINE new == [i \in Items |->
                IF i \in DOMAIN q.plan
                THEN [status |-> IF card[o][i].status = "none" THEN "open" ELSE card[o][i].status,
                      date |-> q.copy.day, number |-> q.plan[i]]
                ELSE card[o][i]]
    <3>1. \A i \in DOMAIN q.plan : q.plan[i] \in Nat
      BY <2>1 DEF RequestType, PlanType
    <3>2. new \in [Items -> CardType]
      BY <2>1, <3>1 DEF TypeOK, CardType
    <3>3. card' = [card EXCEPT ![o] = new]
      BY <1>15, <2>1 DEF Commit, TypeOK
    <3> HIDE DEF new
    <3> QED BY <2>1, <3>2, <3>3 DEF TypeOK
  <2>4. request' \in [Requests -> RequestType] /\ UNCHANGED past
    BY <1>15, RowsTyped DEF Commit, TypeOK
  <2> QED BY <2>2, <2>3, <2>4 DEF TypeOK, past
<1>16. ASSUME NEW r \in Requests, Rollback(r) PROVE TypeOK'
  BY <1>16, RowsTyped DEF Rollback, TypeOK, past
<1>17. CASE UNCHANGED vars
  BY <1>17 DEF vars, past, TypeOK
<1> QED
  BY <1>1, <1>2, <1>3, <1>4, <1>5, <1>6, <1>8, <1>9, <1>10, <1>12, <1>13, <1>14, <1>15,
     <1>16, <1>17 DEF Next, Confirm

-----------------------------------------------------------------------------
(* What a step may do to the cards and to a request *)

\* Nothing begins or ends: cards may be closed, and go with an order nobody confirms.
Quiet ==
  /\ UNCHANGED <<request, past>>
  /\ \A o \in Orders, i \in Items :
       \/ card'[o][i] = card[o][i]
       \/ card'[o][i] = NoCard /\ ~ InRequest(o)
       \/ card[o][i].status = "open" /\ card'[o][i] = [card[o][i] EXCEPT !.status = "closed"]

Starts(r) ==
  /\ request[r].at = "idle" /\ request'[r].at = "loaded"
  /\ \A q \in Requests \ {r} : request'[q] = request[q]
  /\ serial' => serial /\ \A q \in Requests : request[q].at = "idle"
  /\ crossed \subseteq crossed'
  /\ DayOf(r)' \in crossed' \/ \A q \in Requests : Running(q) => DayOf(q) # DayOf(r)'
  /\ UNCHANGED card

\* One more statement, or the end without a write.
Goes(r) ==
  /\ Running(r)
  /\ \/ request'[r].at = "idle"
     \/ /\ request'[r].order = request[r].order /\ request'[r].copy = request[r].copy
        /\ \/ request'[r].plan = request[r].plan /\ (Planned(r)' => Planned(r))
           \/ Plan(r)
  /\ \A q \in Requests \ {r} : request'[q] = request[q]
  /\ UNCHANGED <<card, past>>

\* The card of an item after a commit.
Written(r, i) ==
  IF i \in DOMAIN request[r].plan
  THEN [status |-> IF card[request[r].order][i].status = "none" THEN "open"
                   ELSE card[request[r].order][i].status,
        date |-> DayOf(r), number |-> request[r].plan[i]]
  ELSE card[request[r].order][i]

Writes(r) ==
  /\ Running(r) /\ Planned(r)
  /\ request'[r].at = "idle"
  /\ \A q \in Requests \ {r} : request'[q] = request[q]
  /\ \A i \in Items : card'[request[r].order][i] = Written(r, i)
  /\ \A o \in Orders \ {request[r].order} : card'[o] = card[o]
  /\ UNCHANGED past

LEMMA Moves ==
  ASSUME TypeOK, AliveOrders, [Next]_vars
  PROVE  Quiet \/ \E r \in Requests : Starts(r) \/ Goes(r) \/ Writes(r)
<1>1. ASSUME NEW o \in Orders, Create(o) PROVE Quiet
  BY <1>1 DEF Create, Quiet
<1>2. ASSUME NEW o \in Orders, AddItem(o) PROVE Quiet
  BY <1>2 DEF AddItem, Quiet
<1>3. ASSUME NEW o \in Orders, Reschedule(o) PROVE Quiet
  BY <1>3 DEF Reschedule, Quiet
<1>4. ASSUME NEW o \in Orders, Delete(o) PROVE Quiet
  BY <1>4 DEF Delete, Quiet, TypeOK
<1>5. ASSUME NEW o \in Orders, NEW p \in Orders, Repeat(o, p) PROVE Quiet
  BY <1>5 DEF Repeat, Quiet
<1>6. ASSUME NEW o \in Orders, NEW i \in Items, Close(o, i) PROVE Quiet
  <2>1. \A p \in Orders, j \in Items :
          card'[p][j] = IF p = o /\ j = i THEN [card[o][i] EXCEPT !.status = "closed"]
                        ELSE card[p][j]
    BY <1>6 DEF Close, TypeOK
  <2> QED BY <1>6, <2>1 DEF Close, Quiet, TypeOK
<1>7. ASSUME NEW r \in Requests, NEW o \in Orders, NEW c, Begin(r, o, c)
      PROVE  Starts(r)
  <2>1. request' = [request EXCEPT ![r] = [NoRequest EXCEPT !.at = "loaded", !.order = o,
                                             !.copy = c]]
    BY <1>7 DEF Begin
  <2>2. request'[r].at = "loaded" /\ DayOf(r)' = c.day
        /\ \A q \in Requests \ {r} : request'[q] = request[q]
    BY <2>1 DEF TypeOK, NoRequest, DayOf
  <2>3. c.day \in crossed' \/ \A q \in Requests : Running(q) => DayOf(q) # c.day
    BY <1>7 DEF Begin, ActiveOn, Running, DayOf
  <2>4. crossed \subseteq crossed' /\ serial' = (serial /\ \A q \in Requests : request[q].at = "idle")
    BY <1>7 DEF Begin
  <2> QED BY <1>7, <2>2, <2>3, <2>4 DEF Begin, Starts
<1>8. ASSUME NEW r \in Requests, NEW o \in Orders, Load(r, o) \/ Queue(r, o) PROVE Starts(r)
  BY <1>7, <1>8 DEF Load, Queue
<1>9. ASSUME NEW r \in Requests, Reserve(r) PROVE Goes(r)
  <2>1. PICK want : request' = [request EXCEPT ![r].at = "reserving", ![r].want = want]
    BY <1>9 DEF Reserve
  <2> QED BY <1>9, <2>1 DEF Reserve, Goes, Running, Planned, TypeOK, RequestType
<1>10. ASSUME NEW r \in Requests, Reserved(r) PROVE Goes(r)
  BY <1>10 DEF Reserved, Goes, Running, Planned, TypeOK, RequestType
<1>11. ASSUME NEW r \in Requests, Plan(r) PROVE Goes(r)
  <2> DEFINE plan == request'[r].plan
             want == request'[r].want
  <2> HIDE DEF plan, want
  <2>1. request' = [request EXCEPT ![r] = [@ EXCEPT !.at = "numbered", !.plan = plan,
                                             !.want = want]]
    BY <1>11, PlanTyped DEF plan, want
  <2>2. request[r] \in RequestType
    BY NumbersAreNat
  <2>3. /\ request'[r].order = request[r].order /\ request'[r].copy = request[r].copy
        /\ \A q \in Requests \ {r} : request'[q] = request[q]
    BY <2>1, <2>2 DEF TypeOK, RequestType
  <2>4. request[r].at = "reserved" /\ UNCHANGED <<card, past>>
    BY <1>11 DEF Plan
  <2> QED BY <1>11, <2>3, <2>4 DEF Goes, Running
<1>12. ASSUME NEW r \in Requests, Numbered(r) PROVE Goes(r)
  BY <1>12 DEF Numbered, Goes, Running, Planned, TypeOK, RequestType
<1>13. ASSUME NEW r \in Requests, Commit(r) PROVE Writes(r)
  <2> DEFINE o == request[r].order
  <2>1. o \in Orders /\ request[r].at = "written"
    BY <1>13 DEF Commit, AliveOrders, Running
  <2>2. card' = [card EXCEPT ![o] = [i \in Items |-> Written(r, i)]]
    BY <1>13, <2>1 DEF Commit, Written, DayOf, TypeOK
  <2>3. /\ \A i \in Items : card'[o][i] = Written(r, i)
        /\ \A p \in Orders \ {o} : card'[p] = card[p]
    BY <2>1, <2>2 DEF TypeOK
  <2>4. /\ request'[r].at = "idle" /\ \A q \in Requests \ {r} : request'[q] = request[q]
        /\ UNCHANGED past
    BY <1>13 DEF Commit, TypeOK, NoRequest
  <2> QED BY <2>1, <2>3, <2>4 DEF Writes, Running, Planned
<1>14. ASSUME NEW r \in Requests, Rollback(r) PROVE Goes(r)
  BY <1>14 DEF Rollback, Goes, Running, TypeOK, NoRequest
<1>15. CASE UNCHANGED vars
  BY <1>15 DEF vars, Quiet
<1> QED
  BY <1>1, <1>2, <1>3, <1>4, <1>5, <1>6, <1>8, <1>9, <1>10, <1>11, <1>12, <1>13, <1>14,
     <1>15 DEF Next, Confirm

-----------------------------------------------------------------------------
(* The parts of the invariant *)

LEMMA AliveStep == TypeOK /\ AliveOrders /\ [Next]_vars => AliveOrders'
<1> SUFFICES ASSUME TypeOK, AliveOrders, [Next]_vars PROVE AliveOrders'
  OBVIOUS
<1> USE DEF AliveOrders, Alive, Running, DayOf
<1>1. ASSUME NEW o \in Orders, Create(o) PROVE AliveOrders'
  BY <1>1 DEF Create, NewOrder, NoOrder, Made, TypeOK
<1>2. ASSUME NEW o \in Orders, AddItem(o) PROVE AliveOrders'
  <2>1. order[o].items \in Nat /\ order[o] \in OrderType
    BY NumbersAreNat, NumberBounds DEF OrderType
  <2> QED BY <1>2, <2>1 DEF AddItem, TypeOK, OrderType
<1>3. ASSUME NEW o \in Orders, Reschedule(o) PROVE AliveOrders'
  BY <1>3 DEF Reschedule, TypeOK, OrderType
<1>4. ASSUME NEW o \in Orders, Delete(o) PROVE AliveOrders'
  BY <1>4 DEF Delete, InRequest, NoOrder, TypeOK
<1>5. ASSUME NEW o \in Orders, NEW p \in Orders, Repeat(o, p) PROVE AliveOrders'
  BY <1>5 DEF Repeat, NewOrder, NoOrder, Made, TypeOK
<1>6. ASSUME NEW o \in Orders, NEW i \in Items, Close(o, i) PROVE AliveOrders'
  BY <1>6 DEF Close
<1>7. ASSUME NEW r \in Requests, NEW o \in Orders, Load(r, o) PROVE AliveOrders'
  <2>1. request' = [request EXCEPT ![r] = [NoRequest EXCEPT !.at = "loaded", !.order = o,
                                             !.copy = order[o]]]
    BY <1>7 DEF Load, Begin
  <2>2. /\ request'[r].order = o /\ request'[r].copy = order[o]
        /\ \A q \in Requests \ {r} : request'[q] = request[q]
    BY <2>1 DEF TypeOK, NoRequest
  <2>3. UNCHANGED order /\ order[o].status \in {"draft", "queued"}
    BY <1>7 DEF Load
  <2> QED BY <2>2, <2>3
<1>8. ASSUME NEW r \in Requests, NEW o \in Orders, Queue(r, o) PROVE AliveOrders'
  <2>1. PICK d \in Days, k \in Items, g \in BOOLEAN :
          /\ order' = [order EXCEPT ![o] = NewOrder("new", d, g, k)]
          /\ Begin(r, o, NewOrder("new", d, g, k))
    BY <1>8 DEF Queue
  <2> DEFINE c == NewOrder("new", d, g, k)
  <2>2. c.day = d /\ c.status = "new" /\ c.items = k /\ k > 0
    BY NumberBounds DEF NewOrder, NoOrder, Items
  <2> HIDE DEF c
  <2>3. request' = [request EXCEPT ![r] = [NoRequest EXCEPT !.at = "loaded", !.order = o,
                                             !.copy = c]]
    BY <2>1 DEF Begin, c
  <2>4. /\ request'[r].order = o /\ request'[r].copy = c
        /\ \A q \in Requests \ {r} : request'[q] = request[q]
    BY <2>3 DEF TypeOK, NoRequest
  <2>5. order'[o] = c /\ \A p \in Orders \ {o} : order'[p] = order[p]
    BY <2>1 DEF TypeOK, c
  <2>6. order[o].status = "none"
    BY <1>8 DEF Queue, Made
  <2>7. \A q \in Requests \ {r} : Running(q) => request[q].order # o
    BY <2>6
  <2> QED BY <2>2, <2>4, <2>5, <2>7
<1>10. ASSUME NEW r \in Requests, Reserve(r) \/ Reserved(r) \/ Plan(r) \/ Numbered(r)
       PROVE  AliveOrders'
  <2>1. UNCHANGED order
    BY <1>10 DEF Reserve, Reserved, Plan, Numbered
  <2>2. request'[r].order = request[r].order /\ request'[r].copy = request[r].copy
        /\ request[r].at # "idle" /\ \A q \in Requests \ {r} : request'[q] = request[q]
    <3>1. CASE Plan(r)
      <4> DEFINE plan == request'[r].plan
                 want == request'[r].want
      <4> HIDE DEF plan, want
      <4>1. request' = [request EXCEPT ![r] = [@ EXCEPT !.at = "numbered", !.plan = plan,
                                                 !.want = want]]
        BY <3>1, PlanTyped DEF plan, want
      <4>2. request[r] \in RequestType
        BY NumbersAreNat
      <4> QED BY <3>1, <4>1, <4>2 DEF Plan, TypeOK, RequestType
    <3>2. CASE Reserve(r)
      <4>1. PICK want : request' = [request EXCEPT ![r].at = "reserving", ![r].want = want]
        BY <3>2 DEF Reserve
      <4> QED BY <3>2, <4>1 DEF Reserve, TypeOK, RequestType
    <3>3. CASE Reserved(r) \/ Numbered(r)
      BY <3>3 DEF Reserved, Numbered, TypeOK, RequestType
    <3> QED BY <1>10, <3>1, <3>2, <3>3
  <2> QED BY <2>1, <2>2
<1>11. ASSUME NEW r \in Requests, Commit(r) PROVE AliveOrders'
  <2> DEFINE o == request[r].order
  <2>1. o \in Orders /\ request[r].at = "written" /\ order[o].status \in Alive
    BY <1>11 DEF Commit
  <2>2. /\ order'[o].status = "queued" /\ order'[o].day = order[o].day
        /\ order'[o].items = order[o].items /\ \A p \in Orders \ {o} : order'[p] = order[p]
    BY <1>11, <2>1 DEF Commit, TypeOK, OrderType
  <2>3. request'[r].at = "idle" /\ \A q \in Requests \ {r} : request'[q] = request[q]
    BY <1>11 DEF Commit, TypeOK, NoRequest
  <2> QED BY <2>1, <2>2, <2>3
<1>12. ASSUME NEW r \in Requests, Rollback(r) PROVE AliveOrders'
  BY <1>12 DEF Rollback, NoOrder, NoRequest, TypeOK
<1>13. CASE UNCHANGED vars
  BY <1>13 DEF vars
<1> QED
  BY <1>1, <1>2, <1>3, <1>4, <1>5, <1>6, <1>7, <1>8, <1>10, <1>11, <1>12, <1>13
     DEF Next, Confirm

LEMMA AloneStep ==
  ASSUME TypeOK, AliveOrders, Alone, [Next]_vars
  PROVE  Alone'
<1>1. CASE Quiet
  BY <1>1 DEF Quiet, Alone, Running, DayOf, past
<1>2. ASSUME NEW r \in Requests, Starts(r) PROVE Alone'
  BY <1>2 DEF Starts, Alone, Running, DayOf
<1>3. ASSUME NEW r \in Requests, Goes(r) PROVE Alone'
  BY <1>3 DEF Goes, Alone, Running, DayOf, past
<1>4. ASSUME NEW r \in Requests, Writes(r) PROVE Alone'
  BY <1>4 DEF Writes, Alone, Running, DayOf, past
<1> QED BY <1>1, <1>2, <1>3, <1>4, Moves

\* What is left of a card when nothing is confirmed.
LEMMA QuietCards ==
  ASSUME TypeOK, Quiet, NEW y \in Pairs
  PROVE  /\ DateOf(y)' \in Days => DateOf(y)' = DateOf(y) /\ Bears(y)' = Bears(y)
         /\ card'[y[1]][y[2]].status = "open" => /\ card[y[1]][y[2]].status = "open"
                                                 /\ Bears(y)' = Bears(y)
         /\ card'[y[1]][y[2]].status = "none" =>
              card'[y[1]][y[2]] = card[y[1]][y[2]] \/ DateOf(y)' = None
         /\ InRequest(y[1]) /\ card'[y[1]][y[2]].status # "closed"
              => card'[y[1]][y[2]] = card[y[1]][y[2]]
<1> DEFINE c == card[y[1]][y[2]]
           e == card'[y[1]][y[2]]
<1>1. y[1] \in Orders /\ y[2] \in Items /\ c \in CardType
  BY NumbersAreNat
<1>2. \/ e = c
      \/ e = NoCard /\ ~ InRequest(y[1])
      \/ c.status = "open" /\ e = [c EXCEPT !.status = "closed"]
  BY <1>1 DEF Quiet
<1>3. /\ NoCard.status = "none" /\ NoCard.date = None /\ None \notin Days
      /\ [c EXCEPT !.status = "closed"].status = "closed"
      /\ [c EXCEPT !.status = "closed"].date = c.date
      /\ [c EXCEPT !.status = "closed"].number = c.number
  BY <1>1, DaysAssumption DEF NoCard, CardType
<1>4. DateOf(y)' = e.date /\ Bears(y)' = e.number /\ DateOf(y) = c.date /\ Bears(y) = c.number
  BY DEF DateOf, Bears
<1> HIDE DEF c, e
<1>5. /\ e.date \in Days => e.date = c.date /\ e.number = c.number
      /\ e.status = "open" => c.status = "open" /\ e.number = c.number
      /\ e.status = "none" => e = c \/ e.date = None
      /\ InRequest(y[1]) /\ e.status # "closed" => e = c
  BY <1>2, <1>3
<1> QED BY <1>4, <1>5 DEF c, e

\* What a commit writes, and what it leaves alone.
LEMMA WrittenCards ==
  ASSUME TypeOK, AliveOrders, NEW r \in Requests, Writes(r), NEW y \in Pairs
  PROVE  \/ /\ UNCHANGED <<card[y[1]][y[2]], DateOf(y), Bears(y)>>
         \/ /\ y[1] = request[r].order /\ y[2] \in DOMAIN request[r].plan
            /\ DateOf(y)' = DayOf(r) /\ Bears(y)' = request[r].plan[y[2]]
            /\ card'[y[1]][y[2]].status = IF card[y[1]][y[2]].status = "none" THEN "open"
                                          ELSE card[y[1]][y[2]].status
<1> DEFINE o == request[r].order
           i == y[2]
<1>1. y[1] \in Orders /\ i \in Items
  BY NumbersAreNat
<1>2. CASE y[1] # o
  BY <1>1, <1>2 DEF Writes, DateOf, Bears
<1>3. CASE y[1] = o /\ i \notin DOMAIN request[r].plan
  <2>1. Written(r, i) = card[o][i]
    BY <1>3 DEF Written
  <2>2. card'[o][i] = Written(r, i)
    BY <1>1, <1>3 DEF Writes
  <2>3. card'[y[1]][i] = card[y[1]][i]
    BY <1>3, <2>1, <2>2
  <2> QED BY <2>3 DEF DateOf, Bears
<1>4. CASE y[1] = o /\ i \in DOMAIN request[r].plan
  <2>1. card'[y[1]][i] =
          [status |-> IF card[y[1]][i].status = "none" THEN "open" ELSE card[y[1]][i].status,
           date |-> DayOf(r), number |-> request[r].plan[i]]
    BY <1>1, <1>4 DEF Writes, Written
  <2> QED BY <1>4, <2>1 DEF DateOf, Bears
<1> QED BY <1>2, <1>3, <1>4

LEMMA DatedStep ==
  ASSUME TypeOK, AliveOrders, CardsDated, [Next]_vars
  PROVE  CardsDated'
<1> SUFFICES ASSUME NEW o \in Orders, NEW i \in Items, card'[o][i].status = "none"
             PROVE  card'[o][i].date = None
  BY DEF CardsDated
<1> DEFINE y == <<o, i>>
<1>1. /\ y \in Pairs /\ y[1] = o /\ y[2] = i
      /\ DateOf(y) = card[o][i].date /\ DateOf(y)' = card'[o][i].date
  BY DEF Pairs, DateOf
<1>2. card[o][i].status = "none" => card[o][i].date = None
  BY DEF CardsDated
<1> HIDE DEF y
<1>3. CASE Quiet
  BY <1>1, <1>2, <1>3, QuietCards
<1>4. ASSUME NEW r \in Requests, Starts(r) \/ Goes(r) PROVE card'[o][i].date = None
  BY <1>2, <1>4 DEF Starts, Goes
<1>5. ASSUME NEW r \in Requests, Writes(r) PROVE card'[o][i].date = None
  <2>1. card'[y[1]][y[2]] = card[y[1]][y[2]]
    BY <1>1, <1>5, WrittenCards
  <2> QED BY <1>1, <1>2, <2>1
<1> QED BY <1>3, <1>4, <1>5, Moves

LEMMA DayStep ==
  ASSUME TypeOK, AliveOrders, DayDiffers, PlanDiffers, [Next]_vars
  PROVE  DayDiffers'
<1> SUFFICES ASSUME NEW x \in Pairs, NEW y \in Pairs, x[1] # y[1],
                    DateOf(x)' = DateOf(y)', DateOf(x)' \in Days \ crossed'
             PROVE  Bears(x)' # Bears(y)'
  BY DEF DayDiffers, Pairs
<1>1. DateOf(x) = DateOf(y) /\ DateOf(x) \in Days \ crossed => Bears(x) # Bears(y)
  BY DEF DayDiffers, Pairs
<1>2. CASE Quiet
  <2>1. crossed' = crossed
    BY <1>2 DEF Quiet, past
  <2> QED BY <1>1, <1>2, <2>1, QuietCards
<1>3. ASSUME NEW r \in Requests, Starts(r) \/ Goes(r) PROVE Bears(x)' # Bears(y)'
  <2>1. crossed \subseteq crossed' /\ card' = card
    BY <1>3 DEF Starts, Goes, past
  <2> QED BY <1>1, <2>1 DEF DateOf, Bears
<1>4. ASSUME NEW r \in Requests, Writes(r) PROVE Bears(x)' # Bears(y)'
  <2>1. crossed' = crossed /\ Planned(r)
    BY <1>4 DEF Writes, past
  <2>2. \A i \in DOMAIN request[r].plan : \A z \in Pairs :
          z[1] # request[r].order /\ DateOf(z) = DayOf(r) /\ DayOf(r) \notin crossed
          => Bears(z) # request[r].plan[i]
    BY <2>1 DEF PlanDiffers, Pairs
  <2> QED BY <1>1, <1>4, <2>1, <2>2, WrittenCards
<1> QED BY <1>2, <1>3, <1>4, Moves

LEMMA PlanStep == IInv /\ [Next]_vars => PlanDiffers'
<1> SUFFICES ASSUME IInv, [Next]_vars,
                    NEW r \in Requests, Planned(r)', NEW i \in DOMAIN request'[r].plan,
                    NEW y \in Pairs, y[1] # request'[r].order
             PROVE  /\ DateOf(y)' = DayOf(r)' /\ DayOf(r)' \notin crossed'
                         => Bears(y)' # request'[r].plan[i]
                    /\ /\ serial' /\ card'[y[1]][y[2]].status = "open"
                       /\ card'[request'[r].order][i].status # "closed"
                       => Bears(y)' # request'[r].plan[i]
  BY DEF PlanDiffers, Pairs
<1> DEFINE o == request[r].order
<1>0. TypeOK /\ AliveOrders
  BY DEF IInv
<1>1. ASSUME Planned(r), i \in DOMAIN request[r].plan, y[1] # o
      PROVE  /\ DateOf(y) = DayOf(r) /\ DayOf(r) \notin crossed => Bears(y) # request[r].plan[i]
             /\ serial /\ card[y[1]][y[2]].status = "open" /\ card[o][i].status # "closed"
                  => Bears(y) # request[r].plan[i]
  BY <1>1 DEF IInv, PlanDiffers, Pairs
<1>2. ASSUME Planned(r) PROVE o \in Orders /\ DayOf(r) \in Days /\ InRequest(o)
  BY <1>0, <1>2 DEF AliveOrders, Planned, Running, InRequest
<1>3. ASSUME Planned(r), i \in DOMAIN request[r].plan PROVE i \in Items
  <2>1. request[r].plan \in PlanType
    BY <1>0, NumbersAreNat DEF RequestType
  <2>2. PICK k \in 0 .. MaxItems : request[r].plan \in [1 .. k -> Nat]
    BY <2>1 DEF PlanType
  <2> QED BY <1>3, <2>2, NumberBounds DEF Items
<1>4. CASE Quiet
  <2>1. request' = request /\ crossed' = crossed /\ serial' = serial
    BY <1>4 DEF Quiet, past
  <2>2. Planned(r) /\ DayOf(r)' = DayOf(r) /\ i \in DOMAIN request[r].plan
    BY <2>1 DEF Planned, DayOf
  <2> DEFINE x == <<o, i>>
  <2>3. x \in Pairs /\ x[1] = o /\ x[2] = i
    BY <1>2, <1>3, <2>2 DEF Pairs
  <2> HIDE DEF x
  <2>4. card'[o][i].status # "closed" => card[o][i].status # "closed"
    BY <1>0, <1>2, <1>4, <2>2, <2>3, QuietCards
  <2> QED BY <1>0, <1>1, <1>2, <1>4, <2>1, <2>2, <2>4, QuietCards
<1>5. ASSUME NEW q \in Requests, Starts(q)
      PROVE  /\ DateOf(y)' = DayOf(r)' /\ DayOf(r)' \notin crossed'
                  => Bears(y)' # request'[r].plan[i]
             /\ serial' /\ card'[y[1]][y[2]].status = "open"
                  /\ card'[request'[r].order][i].status # "closed"
                  => Bears(y)' # request'[r].plan[i]
  <2>1. r # q /\ request'[r] = request[r] /\ crossed \subseteq crossed' /\ (serial' => serial)
        /\ card' = card
    BY <1>5 DEF Starts, Planned
  <2>2. Planned(r) /\ DayOf(r)' = DayOf(r) /\ i \in DOMAIN request[r].plan
        /\ DateOf(y)' = DateOf(y) /\ Bears(y)' = Bears(y)
    BY <2>1 DEF Planned, DayOf, DateOf, Bears
  <2> QED BY <1>1, <2>1, <2>2
<1>6. ASSUME NEW q \in Requests, Goes(q)
      PROVE  /\ DateOf(y)' = DayOf(r)' /\ DayOf(r)' \notin crossed'
                  => Bears(y)' # request'[r].plan[i]
             /\ serial' /\ card'[y[1]][y[2]].status = "open"
                  /\ card'[request'[r].order][i].status # "closed"
                  => Bears(y)' # request'[r].plan[i]
  <2>1. crossed' = crossed /\ serial' = serial /\ card' = card
        /\ DateOf(y)' = DateOf(y) /\ Bears(y)' = Bears(y)
    BY <1>6 DEF Goes, past, DateOf, Bears
  <2>2. CASE q # r \/ (request'[r].plan = request[r].plan /\ (Planned(r)' => Planned(r))
                       /\ request'[r].order = o /\ request'[r].copy = request[r].copy)
    <3>1. Planned(r) /\ DayOf(r)' = DayOf(r) /\ request'[r].plan = request[r].plan
          /\ request'[r].order = o
      BY <1>6, <2>2 DEF Goes, Planned, DayOf
    <3> QED BY <1>1, <2>1, <3>1
  <2>3. CASE q = r /\ Plan(r) /\ request'[r].order = o /\ request'[r].copy = request[r].copy
    <3>1. o \in Orders /\ DayOf(r) \in Days
      BY <1>0, <2>3 DEF Plan, AliveOrders, Running
    <3>2. i \in Items
      BY <1>0, <2>3, PlanTyped
    <3>3. \/ /\ card[o][i].date = DayOf(r)
             /\ request'[r].plan[i] = card[o][i].number
          \/ /\ DateOf(y) = DayOf(r) => Bears(y) # request'[r].plan[i]
             /\ card[y[1]][y[2]].status = "open" => Bears(y) # request'[r].plan[i]
      BY <1>0, <2>3, PlanTyped
    <3>4. CASE card[o][i].date = DayOf(r) /\ request'[r].plan[i] = card[o][i].number
      <4> DEFINE x == <<o, i>>
      <4>1. x \in Pairs /\ x[1] = o /\ x[2] = i /\ Bears(x) = card[o][i].number
            /\ DateOf(x) = card[o][i].date
        BY <3>1, <3>2 DEF Pairs, Bears, DateOf
      <4> HIDE DEF x
      <4>2. card[o][i].status # "closed" => card[o][i].status = "open"
        <5>1. card[o][i].status # "none"
          BY <3>1, <3>2, <3>4, DaysAssumption DEF IInv, CardsDated
        <5>2. card[o][i] \in CardType
          BY <1>0, <3>1, <3>2 DEF TypeOK
        <5> QED BY <5>1, <5>2 DEF CardType
      <4>3. serial /\ card[o][i].status = "open" /\ card[y[1]][y[2]].status = "open"
              => Bears(y) # Bears(x)
        BY <4>1, <2>3 DEF IInv, OneCardPerNumber, Distinct, OpenCards, Pairs
      <4>4. DateOf(y) = DayOf(r) /\ DayOf(r) \notin crossed => Bears(y) # Bears(x)
        BY <3>1, <3>4, <4>1, <2>3 DEF IInv, DayDiffers, Pairs
      <4> QED BY <2>1, <2>3, <3>4, <4>1, <4>2, <4>3, <4>4 DEF DayOf
    <3>5. CASE /\ DateOf(y) = DayOf(r) => Bears(y) # request'[r].plan[i]
               /\ card[y[1]][y[2]].status = "open" => Bears(y) # request'[r].plan[i]
      BY <2>1, <2>3, <3>5 DEF DayOf
    <3> QED BY <3>3, <3>4, <3>5
  <2>4. request'[q].at # "idle" => \/ request'[q].plan = request[q].plan
                                     /\ (Planned(q)' => Planned(q))
                                     /\ request'[q].order = request[q].order
                                     /\ request'[q].copy = request[q].copy
                                   \/ Plan(q) /\ request'[q].order = request[q].order
                                      /\ request'[q].copy = request[q].copy
    BY <1>6 DEF Goes
  <2>5. request'[r].at # "idle"
    BY DEF Planned
  <2> QED BY <2>2, <2>3, <2>4, <2>5
<1>7. ASSUME NEW q \in Requests, Writes(q)
      PROVE  /\ DateOf(y)' = DayOf(r)' /\ DayOf(r)' \notin crossed'
                  => Bears(y)' # request'[r].plan[i]
             /\ serial' /\ card'[y[1]][y[2]].status = "open"
                  /\ card'[request'[r].order][i].status # "closed"
                  => Bears(y)' # request'[r].plan[i]
  <2>1. r # q /\ request'[r] = request[r] /\ crossed' = crossed /\ serial' = serial
    BY <1>7 DEF Writes, Planned, past
  <2>2. Planned(r) /\ DayOf(r)' = DayOf(r) /\ i \in DOMAIN request[r].plan
    BY <2>1 DEF Planned, DayOf
  <2>3. ~ serial /\ (DayOf(q) = DayOf(r) => DayOf(r) \in crossed)
    BY <1>7, <2>1, <2>2 DEF IInv, Alone, Writes, Planned, Running
  <2>4. DateOf(y)' = DayOf(r) /\ DayOf(r) \notin crossed
          => DateOf(y)' = DateOf(y) /\ Bears(y)' = Bears(y)
    BY <1>0, <1>7, <2>3, WrittenCards
  <2> QED BY <1>1, <2>1, <2>2, <2>3, <2>4
<1> QED BY <1>0, <1>4, <1>5, <1>6, <1>7, Moves

LEMMA CardStep ==
  ASSUME TypeOK, AliveOrders, PlanDiffers, OneCardPerNumber, [Next]_vars
  PROVE  OneCardPerNumber'
<1> SUFFICES ASSUME serial', NEW x \in Pairs, NEW y \in Pairs, x[1] # y[1],
                    card'[x[1]][x[2]].status = "open", card'[y[1]][y[2]].status = "open"
             PROVE  Bears(x)' # Bears(y)'
  BY DEF OneCardPerNumber, Distinct, OpenCards, Pairs
<1>1. /\ serial /\ card[x[1]][x[2]].status = "open" /\ card[y[1]][y[2]].status = "open"
      => Bears(x) # Bears(y)
  BY DEF OneCardPerNumber, Distinct, OpenCards, Pairs
<1>2. CASE Quiet
  <2>1. serial' = serial
    BY <1>2 DEF Quiet, past
  <2> QED BY <1>1, <1>2, <2>1, QuietCards
<1>3. ASSUME NEW r \in Requests, Starts(r) \/ Goes(r) PROVE Bears(x)' # Bears(y)'
  <2>1. (serial' => serial) /\ card' = card
    BY <1>3 DEF Starts, Goes, past
  <2> QED BY <1>1, <2>1 DEF Bears
<1>4. ASSUME NEW r \in Requests, Writes(r) PROVE Bears(x)' # Bears(y)'
  <2>1. serial /\ Planned(r)
    BY <1>4 DEF Writes, past
  <2>2. \A i \in DOMAIN request[r].plan : \A z \in Pairs :
          /\ z[1] # request[r].order /\ card[z[1]][z[2]].status = "open"
          /\ card[request[r].order][i].status # "closed"
          => Bears(z) # request[r].plan[i]
    BY <2>1 DEF PlanDiffers, Pairs
  <2> QED BY <1>1, <1>4, <2>1, <2>2, WrittenCards
<1> QED BY <1>2, <1>3, <1>4, Moves

-----------------------------------------------------------------------------
(* The theorems *)

LEMMA InvInit == Init => IInv
<1> SUFFICES ASSUME Init PROVE IInv
  OBVIOUS
<1>1. TypeOK
  BY RowsTyped DEF Init, TypeOK
<1>2. AliveOrders /\ Alone /\ PlanDiffers
  BY DEF Init, AliveOrders, Alone, PlanDiffers, Alive, Running, Planned, NoOrder, NoRequest
<1>3. CardsDated /\ OneCardPerNumber
  BY DEF Init, CardsDated, NoCard, OneCardPerNumber, Distinct, OpenCards
<1>4. DayDiffers
  <2>1. \A x \in Pairs : DateOf(x) \notin Days
    BY DaysAssumption DEF Init, NoCard, DateOf, Pairs
  <2> QED BY <2>1 DEF DayDiffers, Pairs
<1> QED BY <1>1, <1>2, <1>3, <1>4 DEF IInv

LEMMA InvNext == IInv /\ [Next]_vars => IInv'
<1> SUFFICES ASSUME IInv, [Next]_vars PROVE IInv'
  OBVIOUS
<1>1. TypeOK' /\ AliveOrders'
  BY TypeStep, AliveStep DEF IInv
<1>2. Alone' /\ CardsDated' /\ DayDiffers' /\ OneCardPerNumber'
  BY AloneStep, DatedStep, DayStep, CardStep DEF IInv
<1>3. PlanDiffers'
  BY PlanStep
<1> QED BY <1>1, <1>2, <1>3 DEF IInv

LEMMA InvHolds == Spec => []IInv
<1> QED BY InvInit, InvNext, PTL DEF Spec

(* Orders, cards and requests keep their types, for any orders, days, items and number of
   confirmations at once. *)
THEOREM TypeCorrect == Spec => []TypeOK
<1>1. IInv => TypeOK
  BY DEF IInv
<1> QED BY <1>1, InvHolds, PTL

(* While confirmations come one after the other, no two orders have open cards of one
   number, whatever is re-dated, repeated, deleted or closed in between. *)
THEOREM OneNumberOneCard == Spec => []OneCardPerNumber
<1>1. IInv => OneCardPerNumber
  BY DEF IInv
<1> QED BY <1>1, InvHolds, PTL

(* Of a day no two confirmations of which overlapped, the open cards of two orders
   differ: confirmations of other days do no harm. *)
THEOREM DaysAreDistinct == Spec => []DayIsDistinct
<1>1. IInv => DayIsDistinct
  <2> SUFFICES ASSUME IInv, NEW d \in Days \ crossed, NEW x \in OpenCards, NEW y \in OpenCards,
                      DateOf(x) = d, DateOf(y) = d, x[1] # y[1]
               PROVE  Bears(x) # Bears(y)
    BY DEF DayIsDistinct, Distinct
  <2>1. x \in Orders \X Items /\ y \in Orders \X Items
    BY DEF OpenCards
  <2> QED BY <2>1 DEF IInv, DayDiffers
<1> QED BY <1>1, InvHolds, PTL

-----------------------------------------------------------------------------
(* Demonstrations (DemoRun) *)

(* How many cards there are of a kind. *)
LEMMA TraysCount ==
  ASSUME NEW T \in SUBSET Trays PROVE Cardinality(T) \in Nat
<1>1. IsFiniteSet(Trays)
  BY FS_Interval, DemoAssumption DEF Trays
<1>2. IsFiniteSet(T)
  BY <1>1, FS_Subset
<1> QED
  BY <1>2, FS_CardinalityType

LEMMA DoneIsNat == \A r : Done(r) \in Nat
<1> SUFFICES ASSUME NEW r PROVE Done(r) \in Nat
  OBVIOUS
<1>1. {i \in TraysOf(r) : tray[i].post = LastPost} \in SUBSET Trays
  BY DEF TraysOf
<1> QED
  BY <1>1, TraysCount DEF Done

(* What a thread can be in the middle of. *)
CarriedCalls ==
  [at : Carrying, op : {"start", "pause", "stop", "drive", "status"}, run : Runs,
   status : Opened \cup Closed, count : Nat, seen : Nat]
TickCalls == [at : {"ticking"}, run : Runs, trays : SUBSET Trays, seen : Nat]
ResetCalls == [at : {"collected"}, run : Runs, trays : SUBSET Trays]
DemoRows == [status : {"none", "gone"} \cup Opened \cup Closed, count : Nat,
             total : Trays, active : BOOLEAN]
TrayRows == [post : 0 .. LastPost, run : Runs \cup {NoRun}, stock : Runs \cup {NoRun}]

LEMMA KindsOfCall ==
  ASSUME DemoTypeOK, NEW u \in People
  PROVE  /\ call[u] \in CallsOf
         /\ call[u].at \in Carrying => call[u] \in CarriedCalls
         /\ call[u].at = "ticking" => call[u] \in TickCalls
         /\ call[u].at = "collected" => call[u] \in ResetCalls
BY DEF DemoTypeOK, CallsOf, NoCall, Carrying, CarriedCalls, TickCalls, ResetCalls

LEMMA CallOfKind ==
  /\ NoCall \in CallsOf
  /\ [at |-> "looked"] \in CallsOf
  /\ CarriedCalls \subseteq CallsOf /\ TickCalls \subseteq CallsOf /\ ResetCalls \subseteq CallsOf
BY DEF CallsOf, CarriedCalls, TickCalls, ResetCalls

LEMMA NewCallTyped ==
  ASSUME DemoTypeOK, NEW u \in People, NEW c \in CallsOf
  PROVE  [call EXCEPT ![u] = c] \in [People -> CallsOf]
BY DEF DemoTypeOK

LEMMA ExistingRun ==
  ASSUME DemoTypeOK, NEW r \in Runs, Exists(r)
  PROVE  demo[r] \in DemoRows /\ demo[r].status \in Opened \cup Closed
BY DEF DemoTypeOK, Exists, DemoRows

LEMMA DemoTypeInit == DemoInit => DemoTypeOK
<1> SUFFICES ASSUME DemoInit PROVE DemoTypeOK
  OBVIOUS
<1>1. 1 \in Trays /\ 0 \in 0 .. LastPost
  BY DemoAssumption DEF Trays
<1> QED
  BY <1>1, CallOfKind DEF DemoInit, DemoTypeOK, NoDemo, NoTray

LEMMA CreateLookType ==
  ASSUME DemoTypeOK, NEW u \in People, CreateLook(u) PROVE DemoTypeOK'
<1>1. call' \in [People -> CallsOf]
  <2>1. CASE \E r \in Runs : IsOn(r)
             /\ call' = [call EXCEPT ![u] =
                  [at |-> "counting", op |-> "status", run |-> r, status |-> demo[r].status,
                   count |-> demo[r].count, seen |-> 0]]
    <3>1. PICK r \in Runs : IsOn(r)
             /\ call' = [call EXCEPT ![u] =
                  [at |-> "counting", op |-> "status", run |-> r, status |-> demo[r].status,
                   count |-> demo[r].count, seen |-> 0]]
      BY <2>1
    <3>2. demo[r] \in DemoRows
      BY DEF DemoTypeOK, DemoRows
    <3>3. demo[r].status \in Opened
      BY <3>1 DEF IsOn
    <3>4. [at |-> "counting", op |-> "status", run |-> r, status |-> demo[r].status,
           count |-> demo[r].count, seen |-> 0] \in CarriedCalls
      BY <3>2, <3>3 DEF CarriedCalls, Carrying, DemoRows
    <3> QED
      BY <3>1, <3>4, CallOfKind, NewCallTyped
  <2>2. CASE call' = [call EXCEPT ![u] = [at |-> "looked"]]
    BY <2>2, CallOfKind, NewCallTyped
  <2> QED
    BY <2>1, <2>2 DEF CreateLook
<1>2. calm' \in BOOLEAN
  BY DEF CreateLook, DemoTypeOK
<1>3. calls' \in Nat
  BY DEF CreateLook, DemoTypeOK, Rests, Calls
<1> QED
  BY <1>1, <1>2, <1>3 DEF CreateLook, DemoTypeOK

LEMMA CreateWriteType ==
  ASSUME DemoTypeOK, NEW u \in People, NEW r \in Runs, NEW n \in Trays, CreateWrite(u, r, n)
  PROVE  DemoTypeOK'
<1>1. demo' \in [Runs -> DemoRows]
  <2>1. [status |-> "created", count |-> 0, total |-> n, active |-> TRUE] \in DemoRows
    BY DEF DemoRows, Opened
  <2> QED
    BY <2>1 DEF CreateWrite, DemoTypeOK, DemoRows
<1>2. tray' \in [Trays -> TrayRows]
  <2>1. \A i \in Trays : tray[i] \in TrayRows
    BY DEF DemoTypeOK, TrayRows
  <2>2. 1 \in 0 .. LastPost
    BY DemoAssumption
  <2>3. \A i \in Trays : [tray[i] EXCEPT !.post = 1, !.run = r] \in TrayRows
    BY <2>1, <2>2 DEF TrayRows
  <2> QED
    BY <2>1, <2>3 DEF CreateWrite
<1>3. call' \in [People -> CallsOf]
  <2>1. [at |-> "counting", op |-> "status", run |-> r, status |-> "created", count |-> 0,
         seen |-> 0] \in CarriedCalls
    BY DEF CarriedCalls, Carrying, Opened
  <2> QED
    BY <2>1, CallOfKind, NewCallTyped DEF CreateWrite
<1> QED
  BY <1>1, <1>2, <1>3 DEF CreateWrite, DemoTypeOK, memory, DemoRows, TrayRows

LEMMA ReadRunType ==
  ASSUME DemoTypeOK, NEW u \in People, NEW r \in Runs,
         NEW op \in {"start", "pause", "stop", "drive", "status"}, ReadRun(u, r, op)
  PROVE  DemoTypeOK'
<1> DEFINE c == [at |-> IF op = "status" THEN "counting" ELSE "loaded", op |-> op, run |-> r,
                 status |-> demo[r].status, count |-> demo[r].count, seen |-> 0]
<1>1. Exists(r) /\ call' = [call EXCEPT ![u] = c] /\ UNCHANGED <<demo, tray, memory>>
  BY DEF ReadRun
<1>2. c \in CarriedCalls
  BY <1>1, ExistingRun DEF CarriedCalls, Carrying, DemoRows
<1>3. call' \in [People -> CallsOf]
  BY <1>1, <1>2, CallOfKind, NewCallTyped
<1>4. calls' \in Nat
  BY DEF ReadRun, Rests, Calls, DemoTypeOK
<1> QED
  BY <1>1, <1>3, <1>4 DEF DemoTypeOK, memory

LEMMA WritesType ==
  ASSUME DemoTypeOK, NEW u \in People, call[u] \in CarriedCalls,
         NEW new \in Opened \cup {"stopped"}, WriteStatus(u, new)
  PROVE  demo' \in [Runs -> DemoRows] /\ reopened' \subseteq Runs
<1>1. call[u].run \in Runs
  BY DEF CarriedCalls
<1>2. demo[call[u].run] \in DemoRows /\ new \in Opened \cup Closed
  BY <1>1 DEF DemoTypeOK, DemoRows, Closed
<1>3. [demo[call[u].run] EXCEPT !.status = new,
         !.active = demo[call[u].run].active /\ new # "stopped"] \in DemoRows
  BY <1>2 DEF DemoRows
<1>4. demo' = [demo EXCEPT ![call[u].run] = [demo[call[u].run] EXCEPT !.status = new,
                 !.active = demo[call[u].run].active /\ new # "stopped"]]
  BY <1>1 DEF WriteStatus, DemoTypeOK
<1> QED
  BY <1>1, <1>3, <1>4 DEF WriteStatus, DemoTypeOK, DemoRows

LEMMA ActType == ASSUME DemoTypeOK, NEW u \in People, Act(u) PROVE DemoTypeOK'
<1> DEFINE new == CASE call[u].op = "pause" -> "paused"
                    [] call[u].op = "stop"  -> "stopped"
                    [] OTHER                -> "running"
           c == [call[u] EXCEPT !.at = IF call[u].op = "drive" THEN "driving" ELSE "counting",
                                !.status = new]
<1>1. call[u].at = "loaded" /\ WriteStatus(u, new) /\ call' = [call EXCEPT ![u] = c]
  BY DEF Act, DemoTypeOK
<1>2. call[u] \in CarriedCalls
  BY <1>1, KindsOfCall DEF Carrying
<1>3. new \in Opened \cup {"stopped"}
  BY DEF Opened
<1>4. c \in CarriedCalls
  BY <1>2, <1>3 DEF CarriedCalls, Carrying, Closed
<1>5. call' \in [People -> CallsOf]
  BY <1>1, <1>4, CallOfKind, NewCallTyped
<1>6. demo' \in [Runs -> DemoRows] /\ reopened' \subseteq Runs
  <2> HIDE DEF new
  <2> QED
    BY <1>1, <1>2, <1>3, WritesType
<1>7. UNCHANGED <<tray, calls, early, calm>>
  BY <1>1 DEF WriteStatus
<1> QED
  BY <1>5, <1>6, <1>7 DEF DemoTypeOK, DemoRows

LEMMA DriverGivesUpType == ASSUME DemoTypeOK, NEW u \in People, DriverGivesUp(u) PROVE DemoTypeOK'
<1> DEFINE c == [call[u] EXCEPT !.at = "counting", !.status = "failed"]
<1>1. call[u].at = "driving" /\ WriteStatus(u, "failed") /\ call' = [call EXCEPT ![u] = c]
  BY DEF DriverGivesUp, DemoTypeOK
<1>2. call[u] \in CarriedCalls
  BY <1>1, KindsOfCall DEF Carrying
<1>3. c \in CarriedCalls
  BY <1>2 DEF CarriedCalls, Carrying, Opened
<1>4. call' \in [People -> CallsOf]
  BY <1>1, <1>3, CallOfKind, NewCallTyped
<1>5. demo' \in [Runs -> DemoRows] /\ reopened' \subseteq Runs
  BY <1>1, <1>2, WritesType DEF Opened
<1>6. UNCHANGED <<tray, calls, early, calm>>
  BY <1>1 DEF WriteStatus
<1> QED
  BY <1>4, <1>5, <1>6 DEF DemoTypeOK, DemoRows

LEMMA CountTraysType ==
  ASSUME DemoTypeOK, NEW u \in People, CountTrays(u) PROVE DemoTypeOK'
<1> DEFINE c == IF Done(call[u].run) = call[u].count THEN NoCall
                ELSE [call[u] EXCEPT !.at = "saving", !.seen = Done(call[u].run)]
<1>1. /\ call[u].at = "counting" /\ call' = [call EXCEPT ![u] = c]
      /\ UNCHANGED <<demo, tray, calls, memory>>
  BY DEF CountTrays, DemoTypeOK
<1>2. call[u] \in CarriedCalls
  BY <1>1, KindsOfCall DEF Carrying
<1>3. [call[u] EXCEPT !.at = "saving", !.seen = Done(call[u].run)] \in CarriedCalls
  BY <1>2, DoneIsNat DEF CarriedCalls, Carrying
<1>4. c \in CallsOf
  BY <1>3, CallOfKind
<1>5. call' \in [People -> CallsOf]
  BY <1>1, <1>4, NewCallTyped
<1> QED
  BY <1>1, <1>5 DEF DemoTypeOK, memory

LEMMA CountedType ==
  ASSUME DemoTypeOK, NEW r \in Runs, NEW n \in Nat, NEW copy, Counted(r, n, copy)
  PROVE  demo' \in [Runs -> DemoRows] /\ early' \subseteq Runs
<1> DEFINE st == IF Finishes(copy, r, n) THEN "completed" ELSE demo[r].status
           d == [demo[r] EXCEPT !.count = n, !.status = st]
<1>1. demo[r] \in DemoRows
  BY DEF DemoTypeOK, DemoRows
<1>2. st \in {"none", "gone"} \cup Opened \cup Closed
  BY <1>1 DEF DemoRows, Closed
<1>3. d \in DemoRows
  <2> HIDE DEF st
  <2> QED
    BY <1>1, <1>2 DEF DemoRows
<1>4. demo' = [demo EXCEPT ![r] = d]
  BY DEF Counted, DemoTypeOK
<1>5. early' \subseteq Runs
  BY DEF Counted, DemoTypeOK
<1>6. demo' \in [Runs -> DemoRows]
  <2> HIDE DEF d
  <2> QED
    BY <1>3, <1>4 DEF DemoTypeOK, DemoRows
<1> QED
  BY <1>5, <1>6

LEMMA SaveCountType == ASSUME DemoTypeOK, NEW u \in People, SaveCount(u) PROVE DemoTypeOK'
<1>1. call[u] \in CarriedCalls
  BY KindsOfCall DEF SaveCount, Carrying
<1>2. demo' \in [Runs -> DemoRows] /\ early' \subseteq Runs
  BY <1>1, CountedType DEF SaveCount, CarriedCalls
<1>3. call' \in [People -> CallsOf]
  BY CallOfKind, NewCallTyped DEF SaveCount, Ends
<1> QED
  BY <1>2, <1>3 DEF SaveCount, DemoTypeOK, DemoRows

LEMMA TickLockType ==
  ASSUME DemoTypeOK, NEW u \in People, NEW r \in Runs, TickLock(u, r) PROVE DemoTypeOK'
<1>1. PICK T \in SUBSET {i \in TraysOf(r) : tray[i].post # LastPost} :
        call' = [call EXCEPT ![u] =
            [at |-> "ticking", run |-> r, trays |-> T,
             seen |-> Done(r) + Cardinality({i \in T : tray[i].post + 1 = LastPost})]]
  BY DEF TickLock
<1>2. T \in SUBSET Trays /\ {i \in T : tray[i].post + 1 = LastPost} \in SUBSET Trays
  BY DEF TraysOf
<1>3. Cardinality({i \in T : tray[i].post + 1 = LastPost}) \in Nat
  BY <1>2, TraysCount
<1>4. Done(r) \in Nat
  BY DoneIsNat
<1>5. [at |-> "ticking", run |-> r, trays |-> T,
       seen |-> Done(r) + Cardinality({i \in T : tray[i].post + 1 = LastPost})] \in TickCalls
  BY <1>2, <1>3, <1>4 DEF TickCalls
<1>6. call' \in [People -> CallsOf]
  BY <1>1, <1>5, CallOfKind, NewCallTyped
<1>7. calls' \in Nat
  BY DEF TickLock, Rests, Calls, DemoTypeOK
<1> QED
  BY <1>6, <1>7 DEF TickLock, DemoTypeOK, memory

LEMMA MovedToType ==
  ASSUME NEW t \in TrayRows, NEW p \in 0 .. LastPost PROVE MovedTo(t, p) \in TrayRows
BY DEF MovedTo, TrayRows

LEMMA TickCommitType ==
  ASSUME DemoTypeOK, NEW u \in People, TickCommit(u),
         \A i \in call[u].trays : tray[i].post + 1 \in 0 .. LastPost
  PROVE  DemoTypeOK'
<1>1. call[u] \in TickCalls
  BY KindsOfCall DEF TickCommit
<1>2. demo' \in [Runs -> DemoRows] /\ early' \subseteq Runs
  <2>1. CASE Counted(call[u].run, call[u].seen, demo[call[u].run].status)
    BY <1>1, <2>1, CountedType DEF TickCalls
  <2>2. CASE UNCHANGED <<demo, early>>
    BY <2>2 DEF DemoTypeOK, DemoRows
  <2> QED
    BY <2>1, <2>2 DEF TickCommit
<1>3. \A i \in Trays : tray[i] \in TrayRows
  BY DEF DemoTypeOK, TrayRows
<1>4. \A i \in Trays : i \in call[u].trays => MovedTo(tray[i], tray[i].post + 1) \in TrayRows
  BY <1>3, MovedToType
<1>5. tray' \in [Trays -> TrayRows]
  BY <1>3, <1>4 DEF TickCommit
<1>6. call' \in [People -> CallsOf]
  BY CallOfKind, NewCallTyped DEF TickCommit, Ends
<1> QED
  BY <1>2, <1>5, <1>6 DEF TickCommit, DemoTypeOK, DemoRows, TrayRows

LEMMA TickRestsType ==
  ASSUME DemoTypeOK, NEW u \in People, NEW r \in Runs, TickRests(u, r) PROVE DemoTypeOK'
<1>1. demo' \in [Runs -> DemoRows] /\ early' \subseteq Runs
  BY DoneIsNat, CountedType DEF TickRests
<1>2. calls' \in Nat
  BY DEF TickRests, Rests, Calls, DemoTypeOK
<1> QED
  BY <1>1, <1>2 DEF TickRests, DemoTypeOK, DemoRows

LEMMA ResetCollectType ==
  ASSUME DemoTypeOK, NEW u \in People, NEW r \in Runs, ResetCollect(u, r) PROVE DemoTypeOK'
<1>1. [at |-> "collected", run |-> r, trays |-> TraysOf(r)] \in ResetCalls
  BY DEF ResetCalls, TraysOf
<1>2. call' \in [People -> CallsOf]
  BY <1>1, CallOfKind, NewCallTyped DEF ResetCollect
<1>3. calls' \in Nat /\ calm' \in BOOLEAN
  BY DEF ResetCollect, Rests, Calls, DemoTypeOK
<1> QED
  BY <1>2, <1>3 DEF ResetCollect, DemoTypeOK

LEMMA FewerTrays ==
  ASSUME DemoTypeOK, NEW v \in People, NEW T, call[v].at = "collected"
  PROVE  [call[v] EXCEPT !.trays = @ \ T] \in ResetCalls
<1>1. call[v] \in ResetCalls
  BY KindsOfCall
<1> QED
  BY <1>1 DEF ResetCalls

LEMMA ResetCommitType ==
  ASSUME DemoTypeOK, NEW u \in People, ResetCommit(u) PROVE DemoTypeOK'
<1>1. call[u] \in ResetCalls
  BY KindsOfCall DEF ResetCommit
<1>2. demo' \in [Runs -> DemoRows]
  <2>1. 1 \in Trays
    BY DemoAssumption DEF Trays
  <2>2. [NoDemo EXCEPT !.status = "gone"] \in DemoRows
    BY <2>1 DEF NoDemo, DemoRows
  <2> QED
    BY <2>2 DEF ResetCommit, DemoTypeOK, DemoRows
<1>3. tray' \in [Trays -> TrayRows]
  <2>1. \A i \in Trays : tray[i] \in TrayRows
    BY DEF DemoTypeOK, TrayRows
  <2>2. NoTray \in TrayRows
    BY DemoAssumption DEF NoTray, TrayRows
  <2>3. \A i \in Trays : [tray[i] EXCEPT !.stock = StockLeft(i, call[u].run)] \in TrayRows
    BY <2>1 DEF StockLeft, TrayRows
  <2> QED
    BY <2>1, <2>2, <2>3 DEF ResetCommit
<1>4. call' \in [People -> CallsOf]
  <2>1. \A v \in People : call[v].at = "collected" =>
          [call[v] EXCEPT !.trays = @ \ call[u].trays] \in CallsOf
    BY FewerTrays, CallOfKind
  <2>2. \A v \in People : call[v] \in CallsOf
    BY KindsOfCall
  <2> QED
    BY <2>1, <2>2, CallOfKind DEF ResetCommit
<1> QED
  BY <1>2, <1>3, <1>4 DEF ResetCommit, DemoTypeOK, DemoRows, TrayRows, memory

LEMMA FailsType == ASSUME DemoTypeOK, NEW u \in People, Fails(u) PROVE DemoTypeOK'
<1>1. call' \in [People -> CallsOf]
  BY CallOfKind, NewCallTyped DEF Fails, Ends
<1> QED
  BY <1>1 DEF Fails, DemoTypeOK, memory

LEMMA HandMoveType == ASSUME DemoTypeOK, NEW i \in Trays, HandMove(i) PROVE DemoTypeOK'
<1>1. PICK p \in 1 .. LastPost : tray' = [tray EXCEPT ![i] = MovedTo(tray[i], p)]
  BY DEF HandMove
<1>2. p \in 0 .. LastPost /\ tray[i] \in TrayRows
  BY DemoAssumption DEF DemoTypeOK, TrayRows
<1>3. MovedTo(tray[i], p) \in TrayRows
  BY <1>2, MovedToType
<1>4. tray' \in [Trays -> TrayRows]
  BY <1>1, <1>3 DEF DemoTypeOK, TrayRows
<1>5. calls' \in Nat
  BY DEF HandMove, Calls, DemoTypeOK
<1> QED
  BY <1>4, <1>5 DEF HandMove, DemoTypeOK, TrayRows, memory

LEMMA HandDeleteType == ASSUME DemoTypeOK, NEW i \in Trays, HandDelete(i) PROVE DemoTypeOK'
<1>1. NoTray \in TrayRows
  BY DemoAssumption DEF NoTray, TrayRows
<1>2. tray' \in [Trays -> TrayRows]
  BY <1>1 DEF HandDelete, DemoTypeOK, TrayRows
<1>3. call' \in [People -> CallsOf]
  <2>1. \A v \in People : call[v].at = "collected" =>
          [call[v] EXCEPT !.trays = @ \ {i}] \in CallsOf
    BY FewerTrays, CallOfKind
  <2>2. \A v \in People : call[v] \in CallsOf
    BY KindsOfCall
  <2> QED
    BY <2>1, <2>2 DEF HandDelete
<1>4. calls' \in Nat
  BY DEF HandDelete, Calls, DemoTypeOK
<1>5. calm' \in BOOLEAN
  BY DEF HandDelete
<1> QED
  BY <1>2, <1>3, <1>4, <1>5 DEF HandDelete, DemoTypeOK, TrayRows

(* A card that is on a run is at a post; a tick in progress is the only one of its run, and
   its cards are still on the run, before the last post; a run that is not active any more is
   over, or was reopened. *)
TrayAtPost == \A i \in Trays : tray[i].run # NoRun => tray[i].post # 0
TickHolds ==
  \A u \in People : call[u].at = "ticking" =>
    /\ demo[call[u].run].status = "running"
    /\ \A i \in call[u].trays :
         tray[i].run = call[u].run /\ tray[i].post # LastPost /\ tray[i].post # 0
OneTick ==
  \A u, v \in People :
    call[u].at = "ticking" /\ call[v].at = "ticking" /\ call[u].run = call[v].run => u = v
TickInv == DemoTypeOK /\ TrayAtPost /\ TickHolds /\ OneTick

(* One operator per kind of step; the next-state relation is their union. *)
DemoStep(u) ==
  \/ CreateLook(u)
  \/ \E r \in Runs, n \in Trays : CreateWrite(u, r, n)
  \/ \E r \in Runs, op \in {"start", "pause", "stop", "drive", "status"} : ReadRun(u, r, op)
  \/ Act(u) \/ DriverGivesUp(u) \/ CountTrays(u) \/ SaveCount(u)
  \/ \E r \in Runs : TickLock(u, r) \/ TickRests(u, r)
  \/ TickCommit(u)
  \/ \E r \in Runs : ResetCollect(u, r)
  \/ ResetCommit(u) \/ Fails(u)

LEMMA LockedTray ==
  ASSUME TickInv, NEW u \in People, call[u].at = "ticking", NEW i \in call[u].trays
  PROVE  TrayLocked(i) /\ i \in Trays
<1>1. call[u] \in TickCalls
  BY KindsOfCall DEF TickInv
<1> QED
  BY <1>1 DEF TickInv, TickHolds, TrayLocked, TickCalls

LEMMA LockedRun ==
  ASSUME NEW u \in People, call[u].at = "ticking"
  PROVE  RunLocked(call[u].run)
BY DEF RunLocked

(* What a call in progress does is not disturbed by a step that changes neither its own
   call nor its run's status nor its cards. *)
LEMMA TickUndisturbed ==
  ASSUME TickInv,
         \A v \in People : call'[v].at = "ticking" =>
           /\ call[v].at = "ticking" /\ call'[v] = call[v]
           /\ demo'[call[v].run].status = demo[call[v].run].status
           /\ \A i \in call[v].trays : /\ tray'[i].run = tray[i].run
                                       /\ tray'[i].post = tray[i].post
  PROVE  TickHolds' /\ OneTick'
BY DEF TickInv, TickHolds, OneTick

LEMMA CarriedNotTicking ==
  /\ \A c \in CarriedCalls : c.at # "ticking"
  /\ NoCall.at # "ticking"
BY DEF CarriedCalls, Carrying, NoCall

LEMMA DemoTypeStep ==
  ASSUME TickInv, NEW u \in People, DemoStep(u) PROVE DemoTypeOK'
<1>0. DemoTypeOK
  BY DEF TickInv
<1>1. CASE CreateLook(u)
  BY <1>0, <1>1, CreateLookType
<1>2. CASE \E r \in Runs, n \in Trays : CreateWrite(u, r, n)
  BY <1>0, <1>2, CreateWriteType
<1>3. CASE \E r \in Runs, op \in {"start", "pause", "stop", "drive", "status"} : ReadRun(u, r, op)
  BY <1>0, <1>3, ReadRunType
<1>4. CASE Act(u)
  BY <1>0, <1>4, ActType
<1>5. CASE DriverGivesUp(u)
  BY <1>0, <1>5, DriverGivesUpType
<1>6. CASE CountTrays(u)
  BY <1>0, <1>6, CountTraysType
<1>7. CASE SaveCount(u)
  BY <1>0, <1>7, SaveCountType
<1>8. CASE \E r \in Runs : TickLock(u, r)
  BY <1>0, <1>8, TickLockType
<1>9. CASE \E r \in Runs : TickRests(u, r)
  BY <1>0, <1>9, TickRestsType
<1>10. CASE TickCommit(u)
  <2>1. ASSUME NEW i \in call[u].trays PROVE tray[i].post + 1 \in 0 .. LastPost
    <3>1. call[u].at = "ticking" /\ i \in Trays
      BY <1>10, LockedTray DEF TickCommit
    <3>2. tray[i].post \in 0 .. LastPost /\ tray[i].post # LastPost
      BY <3>1 DEF TickInv, TickHolds, DemoTypeOK
    <3> QED
      BY <3>2, DemoAssumption
  <2> QED
    BY <1>0, <1>10, <2>1, TickCommitType
<1>11. CASE \E r \in Runs : ResetCollect(u, r)
  BY <1>0, <1>11, ResetCollectType
<1>12. CASE ResetCommit(u)
  BY <1>0, <1>12, ResetCommitType
<1>13. CASE Fails(u)
  BY <1>0, <1>13, FailsType
<1> QED
  BY <1>1, <1>2, <1>3, <1>4, <1>5, <1>6, <1>7, <1>8, <1>9, <1>10, <1>11, <1>12, <1>13
     DEF DemoStep

(* Every card that gets or keeps a run stands at a post. *)
LEMMA TrayAtPostStep ==
  ASSUME TickInv, NEW u \in People, DemoStep(u) PROVE TrayAtPost'
<1>0. TrayAtPost /\ \A i \in Trays : tray[i] \in TrayRows
  BY DEF TickInv, DemoTypeOK, TrayRows
<1>1. CASE UNCHANGED tray
  BY <1>0, <1>1 DEF TrayAtPost
<1>2. CASE \E r \in Runs, n \in Trays : CreateWrite(u, r, n)
  <2>1. PICK r \in Runs, n \in Trays : CreateWrite(u, r, n)
    BY <1>2
  <2>2. \A i \in Trays : tray'[i].post = 1 \/ tray'[i] = tray[i]
    BY <2>1, <1>0 DEF CreateWrite, TrayRows
  <2> QED
    BY <2>2, <1>0 DEF TrayAtPost
<1>3. CASE TickCommit(u)
  <2>1. call[u].at = "ticking"
    BY <1>3 DEF TickCommit
  <2>2. \A i \in Trays : i \in call[u].trays =>
          MovedTo(tray[i], tray[i].post + 1).post = tray[i].post + 1
    BY <1>0 DEF MovedTo, TrayRows
  <2>3. \A i \in Trays : i \in call[u].trays => tray[i].post + 1 # 0
    BY <1>0, DemoAssumption DEF TrayRows
  <2>4. \A i \in Trays : tray'[i].post # 0 \/ tray'[i] = tray[i]
    BY <1>3, <2>2, <2>3 DEF TickCommit
  <2> QED
    BY <2>4, <1>0 DEF TrayAtPost
<1>4. CASE ResetCommit(u)
  <2>1. \A i \in Trays : \/ tray'[i] = NoTray
                         \/ tray'[i].run = tray[i].run /\ tray'[i].post = tray[i].post
    BY <1>4, <1>0 DEF ResetCommit, TrayRows
  <2> QED
    BY <2>1, <1>0 DEF TrayAtPost, NoTray
<1> QED
  BY <1>1, <1>2, <1>3, <1>4 DEF DemoStep, CreateLook, ReadRun, Act, WriteStatus, DriverGivesUp,
     CountTrays,
     SaveCount, TickLock, TickRests, ResetCollect, Fails

LEMMA TickKeptByOthers ==
  ASSUME TickInv, NEW u \in People, NEW c,
         call' = [call EXCEPT ![u] = c], c.at # "ticking",
         \A v \in People : v # u /\ call[v].at = "ticking" =>
           /\ demo'[call[v].run].status = demo[call[v].run].status
           /\ \A i \in call[v].trays : /\ tray'[i].run = tray[i].run
                                       /\ tray'[i].post = tray[i].post
  PROVE  TickHolds' /\ OneTick'
<1>1. \A v \in People : call'[v] = IF v = u THEN c ELSE call[v]
  BY DEF TickInv, DemoTypeOK
<1> QED
  BY <1>1, TickUndisturbed

LEMMA TickKeptByReaders ==
  ASSUME TickInv, NEW u \in People, NEW c, UNCHANGED <<demo, tray>>,
         call' = [call EXCEPT ![u] = c], c.at # "ticking"
  PROVE  TickHolds' /\ OneTick'
BY TickKeptByOthers

LEMMA TickKeptByWriters ==
  ASSUME TickInv, NEW u \in People, NEW r \in Runs, ~ RunLocked(r),
         \A q \in Runs : q # r => demo'[q] = demo[q]
  PROVE  \A v \in People : call[v].at = "ticking" =>
           demo'[call[v].run].status = demo[call[v].run].status
<1> SUFFICES ASSUME NEW v \in People, call[v].at = "ticking"
             PROVE  demo'[call[v].run] = demo[call[v].run]
  OBVIOUS
<1>1. call[v].run \in Runs
  BY KindsOfCall DEF TickInv, TickCalls
<1>2. call[v].run # r
  BY LockedRun
<1> QED
  BY <1>1, <1>2

LEMMA TickHoldsStep ==
  ASSUME TickInv, NEW u \in People, DemoStep(u) PROVE TickHolds' /\ OneTick'
<1>0. DemoTypeOK
  BY DEF TickInv
<1>1. CASE CreateLook(u)
  <2>1. UNCHANGED <<demo, tray>>
    BY <1>1 DEF CreateLook
  <2>2. ASSUME NEW r \in Runs,
               call' = [call EXCEPT ![u] =
                 [at |-> "counting", op |-> "status", run |-> r, status |-> demo[r].status,
                  count |-> demo[r].count, seen |-> 0]]
        PROVE  TickHolds' /\ OneTick'
    <3> DEFINE c == [at |-> "counting", op |-> "status", run |-> r, status |-> demo[r].status,
                     count |-> demo[r].count, seen |-> 0]
    <3>1. c.at # "ticking"
      OBVIOUS
    <3>2. call' = [call EXCEPT ![u] = c]
      BY <2>2
    <3> HIDE DEF c
    <3> QED
      BY <2>1, <3>1, <3>2, TickKeptByReaders
  <2>3. ASSUME call' = [call EXCEPT ![u] = [at |-> "looked"]]
        PROVE  TickHolds' /\ OneTick'
    <3> DEFINE c == [at |-> "looked"]
    <3>1. c.at # "ticking"
      OBVIOUS
    <3>2. call' = [call EXCEPT ![u] = c]
      BY <2>3
    <3> HIDE DEF c
    <3> QED
      BY <2>1, <3>1, <3>2, TickKeptByReaders
  <2> QED
    BY <1>1, <2>2, <2>3 DEF CreateLook
<1>2. CASE \E r \in Runs, n \in Trays : CreateWrite(u, r, n)
  <2>1. PICK r \in Runs, n \in Trays : CreateWrite(u, r, n)
    BY <1>2
  <2> DEFINE c == [at |-> "counting", op |-> "status", run |-> r, status |-> "created",
                   count |-> 0, seen |-> 0]
  <2>2. demo[r] = NoDemo /\ call' = [call EXCEPT ![u] = c]
    BY <2>1 DEF CreateWrite
  <2>5. c.at # "ticking"
    OBVIOUS
  <2> HIDE DEF c
  <2>3. ASSUME NEW v \in People, call[v].at = "ticking"
        PROVE  demo'[call[v].run].status = demo[call[v].run].status
    <3>1. demo[call[v].run].status = "running" /\ call[v].run \in Runs
      BY <2>3, KindsOfCall DEF TickInv, TickHolds, TickCalls
    <3>2. demo[r].status # "running"
      BY <2>2 DEF NoDemo
    <3> QED
      BY <2>1, <3>1, <3>2, <1>0 DEF CreateWrite, DemoTypeOK
  <2>4. ASSUME NEW v \in People, call[v].at = "ticking", NEW i \in call[v].trays
        PROVE  tray'[i].run = tray[i].run /\ tray'[i].post = tray[i].post
    <3>1. TrayLocked(i) /\ i \in Trays
      BY <2>4, LockedTray
    <3> QED
      BY <2>1, <3>1 DEF CreateWrite
  <2> QED
    BY <2>2, <2>3, <2>4, <2>5, TickKeptByOthers
<1>3. CASE \E r \in Runs, op \in {"start", "pause", "stop", "drive", "status"} : ReadRun(u, r, op)
  <2>1. PICK r \in Runs, op \in {"start", "pause", "stop", "drive", "status"} : ReadRun(u, r, op)
    BY <1>3
  <2> DEFINE c == [at |-> IF op = "status" THEN "counting" ELSE "loaded", op |-> op, run |-> r,
                   status |-> demo[r].status, count |-> demo[r].count, seen |-> 0]
  <2>2. call' = [call EXCEPT ![u] = c] /\ UNCHANGED <<demo, tray>>
    BY <2>1 DEF ReadRun
  <2>3. c.at # "ticking"
    OBVIOUS
  <2> HIDE DEF c
  <2> QED
    BY <2>2, <2>3, TickKeptByReaders
<1>4. CASE Act(u)
  <2>1. call[u] \in CarriedCalls
    BY <1>4, <1>0, KindsOfCall DEF Act, Carrying
  <2>2. PICK new : /\ WriteStatus(u, new)
                   /\ call' = [call EXCEPT ![u] =
                        [call[u] EXCEPT !.at = IF call[u].op = "drive" THEN "driving"
                                               ELSE "counting",
                                        !.status = new]]
    BY <1>4, <1>0 DEF Act, DemoTypeOK
  <2>3. [call[u] EXCEPT !.at = IF call[u].op = "drive" THEN "driving" ELSE "counting",
                        !.status = new].at # "ticking"
    BY <2>1 DEF CarriedCalls
  <2>4. \A q \in Runs : q # call[u].run => demo'[q] = demo[q]
    BY <2>2, <1>0 DEF WriteStatus, DemoTypeOK
  <2>5. call[u].run \in Runs /\ ~ RunLocked(call[u].run) /\ UNCHANGED tray
    BY <2>1, <2>2 DEF WriteStatus, CarriedCalls
  <2>6. \A v \in People : call[v].at = "ticking" =>
          demo'[call[v].run].status = demo[call[v].run].status
    BY <2>4, <2>5, TickKeptByWriters
  <2> QED
    BY <2>2, <2>3, <2>5, <2>6, TickKeptByOthers
<1>5. CASE DriverGivesUp(u)
  <2>1. call[u] \in CarriedCalls
    BY <1>5, <1>0, KindsOfCall DEF DriverGivesUp, Carrying
  <2>2. /\ WriteStatus(u, "failed")
        /\ call' = [call EXCEPT ![u] = [call[u] EXCEPT !.at = "counting", !.status = "failed"]]
    BY <1>5, <1>0 DEF DriverGivesUp, DemoTypeOK
  <2>3. [call[u] EXCEPT !.at = "counting", !.status = "failed"].at # "ticking"
    BY <2>1 DEF CarriedCalls
  <2>4. \A q \in Runs : q # call[u].run => demo'[q] = demo[q]
    BY <2>2, <1>0 DEF WriteStatus, DemoTypeOK
  <2>5. call[u].run \in Runs /\ ~ RunLocked(call[u].run) /\ UNCHANGED tray
    BY <2>1, <2>2 DEF WriteStatus, CarriedCalls
  <2>6. \A v \in People : call[v].at = "ticking" =>
          demo'[call[v].run].status = demo[call[v].run].status
    BY <2>4, <2>5, TickKeptByWriters
  <2> QED
    BY <2>2, <2>3, <2>5, <2>6, TickKeptByOthers
<1>6. CASE CountTrays(u)
  <2>1. call[u] \in CarriedCalls
    BY <1>6, <1>0, KindsOfCall DEF CountTrays, Carrying
  <2>2. [call[u] EXCEPT !.at = "saving", !.seen = Done(call[u].run)].at # "ticking"
    BY <2>1 DEF CarriedCalls
  <2>3. PICK c : call' = [call EXCEPT ![u] = c] /\ c.at # "ticking"
    BY <1>6, <1>0, <2>2, CarriedNotTicking DEF CountTrays, DemoTypeOK
  <2> QED
    BY <1>6, <2>3, TickKeptByOthers DEF CountTrays
<1>7. CASE SaveCount(u)
  <2>1. call[u] \in CarriedCalls
    BY <1>7, <1>0, KindsOfCall DEF SaveCount, Carrying
  <2>2. /\ call[u].run \in Runs /\ ~ RunLocked(call[u].run) /\ UNCHANGED tray
        /\ call' = [call EXCEPT ![u] = NoCall]
    BY <1>7, <2>1 DEF SaveCount, CarriedCalls, Ends
  <2>3. \A q \in Runs : q # call[u].run => demo'[q] = demo[q]
    BY <1>7, <1>0, <2>2 DEF SaveCount, Counted, DemoTypeOK
  <2>4. \A v \in People : call[v].at = "ticking" =>
          demo'[call[v].run].status = demo[call[v].run].status
    BY <2>2, <2>3, TickKeptByWriters
  <2> QED
    BY <2>2, <2>4, CarriedNotTicking, TickKeptByOthers
<1>9. CASE \E r \in Runs : TickRests(u, r)
  <2>1. PICK r \in Runs : TickRests(u, r)
    BY <1>9
  <2>2. ~ RunLocked(r) /\ UNCHANGED <<tray, call>> /\ \A q \in Runs : q # r => demo'[q] = demo[q]
    BY <2>1, <1>0 DEF TickRests, Counted, DemoTypeOK
  <2>3. \A v \in People : call[v].at = "ticking" =>
          demo'[call[v].run].status = demo[call[v].run].status
    BY <2>2, TickKeptByWriters
  <2> QED
    BY <2>2, <2>3, TickUndisturbed
<1>11. CASE \E r \in Runs : ResetCollect(u, r)
  <2>1. PICK r \in Runs : ResetCollect(u, r)
    BY <1>11
  <2> DEFINE c == [at |-> "collected", run |-> r, trays |-> TraysOf(r)]
  <2>2. call' = [call EXCEPT ![u] = c] /\ UNCHANGED <<demo, tray>>
    BY <2>1 DEF ResetCollect
  <2>3. c.at # "ticking"
    OBVIOUS
  <2> HIDE DEF c
  <2> QED
    BY <2>2, <2>3, TickKeptByReaders
<1>12. CASE ResetCommit(u)
  <2>1. call[u] \in ResetCalls /\ call[u].at = "collected"
    BY <1>12, <1>0, KindsOfCall DEF ResetCommit
  <2>2. call[u].run \in Runs /\ ~ RunLocked(call[u].run)
    BY <1>12, <2>1 DEF ResetCommit, ResetCalls
  <2>3. \A q \in Runs : q # call[u].run => demo'[q] = demo[q]
    BY <1>12, <1>0, <2>2 DEF ResetCommit, DemoTypeOK
  <2>4. \A v \in People : call[v].at = "ticking" =>
          demo'[call[v].run].status = demo[call[v].run].status
    BY <2>2, <2>3, TickKeptByWriters
  <2>5. ASSUME NEW v \in People, call[v].at = "ticking", NEW i \in call[v].trays
        PROVE  tray'[i].run = tray[i].run /\ tray'[i].post = tray[i].post
    <3>1. TrayLocked(i) /\ i \in Trays
      BY <2>5, LockedTray
    <3>2. i \notin call[u].trays /\ tray[i] \in TrayRows
      BY <1>12, <1>0, <3>1 DEF ResetCommit, DemoTypeOK, TrayRows
    <3>3. tray'[i] = [tray[i] EXCEPT !.stock = StockLeft(i, call[u].run)]
      BY <1>12, <3>1, <3>2 DEF ResetCommit
    <3> QED
      BY <3>2, <3>3 DEF TrayRows
  <2>6. ASSUME NEW v \in People, call'[v].at = "ticking"
        PROVE  call[v].at = "ticking" /\ call'[v] = call[v]
    <3>1. CASE v = u
      BY <1>12, <2>6, <3>1, CarriedNotTicking DEF ResetCommit
    <3>2. CASE v # u /\ call[v].at = "collected"
      <4>1. call'[v] = [call[v] EXCEPT !.trays = @ \ call[u].trays]
        BY <1>12, <3>2 DEF ResetCommit
      <4>2. call'[v] \in ResetCalls
        BY <4>1, <3>2, <1>0, FewerTrays
      <4> QED
        BY <4>2, <2>6 DEF ResetCalls
    <3>3. CASE v # u /\ call[v].at # "collected"
      BY <1>12, <2>6, <3>3 DEF ResetCommit
    <3> QED
      BY <3>1, <3>2, <3>3
  <2> QED
    BY <2>4, <2>5, <2>6, TickUndisturbed
<1>13. CASE Fails(u)
  <2>1. call' = [call EXCEPT ![u] = NoCall] /\ UNCHANGED <<demo, tray>>
    BY <1>13 DEF Fails, Ends
  <2> QED
    BY <2>1, CarriedNotTicking, TickKeptByOthers
<1>8. CASE \E r \in Runs : TickLock(u, r)
  <2>1. PICK r \in Runs : TickLock(u, r)
    BY <1>8
  <2>2. PICK T \in SUBSET {i \in TraysOf(r) : tray[i].post # LastPost} :
          call' = [call EXCEPT ![u] =
            [at |-> "ticking", run |-> r, trays |-> T,
             seen |-> Done(r) + Cardinality({i \in T : tray[i].post + 1 = LastPost})]]
    BY <2>1 DEF TickLock
  <2> DEFINE n == Done(r) + Cardinality({i \in T : tray[i].post + 1 = LastPost})
  <2>3. demo[r].status = "running" /\ ~ RunLocked(r) /\ UNCHANGED <<demo, tray>>
    BY <2>1 DEF TickLock, memory
  <2> DEFINE c == [at |-> "ticking", run |-> r, trays |-> T, seen |-> n]
  <2>4. \A v \in People : call'[v] = IF v = u THEN c ELSE call[v]
    BY <2>2, <1>0 DEF DemoTypeOK
  <2>9. c.run = r /\ c.trays = T
    OBVIOUS
  <2> HIDE DEF c
  <2>5. \A v \in People : call[v].at = "ticking" => call[v].run # r
    BY <2>3, LockedRun
  <2>6. \A i \in T : tray[i].run = r /\ tray[i].post # LastPost /\ tray[i].post # 0
    <3>1. r # NoRun
      BY DemoAssumption
    <3> QED
      BY <3>1 DEF TraysOf, TickInv, TrayAtPost
  <2>7. TickHolds'
    BY <2>3, <2>4, <2>6, <2>9 DEF TickInv, TickHolds
  <2>8. OneTick'
    BY <2>4, <2>5, <2>9 DEF TickInv, OneTick
  <2> QED
    BY <2>7, <2>8
<1>10. CASE TickCommit(u)
  <2>1. call[u].at = "ticking" /\ call[u] \in TickCalls
    BY <1>10, <1>0, KindsOfCall DEF TickCommit
  <2>2. call' = [call EXCEPT ![u] = NoCall]
    BY <1>10 DEF TickCommit, Ends
  <2>3. \A v \in People : v # u /\ call[v].at = "ticking" => call[v].run # call[u].run
    BY <2>1 DEF TickInv, OneTick
  <2>4. \A q \in Runs : q # call[u].run => demo'[q] = demo[q]
    BY <1>10, <1>0 DEF TickCommit, Counted, DemoTypeOK
  <2>5. ASSUME NEW v \in People, v # u, call[v].at = "ticking"
        PROVE  demo'[call[v].run] = demo[call[v].run]
    <3>1. call[v].run \in Runs
      BY <2>5, <1>0, KindsOfCall DEF TickCalls
    <3> QED
      BY <2>3, <2>4, <2>5, <3>1
  <2>6. ASSUME NEW v \in People, v # u, call[v].at = "ticking", NEW i \in call[v].trays
        PROVE  tray'[i] = tray[i]
    <3>1. i \in Trays
      BY <2>6, LockedTray
    <3>2. tray[i].run = call[v].run
      BY <2>6 DEF TickInv, TickHolds
    <3>3. i \notin call[u].trays
      BY <2>1, <2>3, <2>6, <3>2 DEF TickInv, TickHolds
    <3> QED
      BY <1>10, <3>1, <3>3 DEF TickCommit
  <2> QED
    BY <2>2, <2>5, <2>6, CarriedNotTicking, TickKeptByOthers
<1> QED
  BY <1>1, <1>2, <1>3, <1>4, <1>5, <1>6, <1>7, <1>8, <1>9, <1>10, <1>11, <1>12, <1>13
     DEF DemoStep

(* By hand: a card that no tick holds. *)
LEMMA HandStep ==
  ASSUME TickInv, NEW i \in Trays, HandMove(i) \/ HandDelete(i) PROVE TickInv'
<1>0. DemoTypeOK /\ tray[i] \in TrayRows
  BY DEF TickInv, DemoTypeOK, TrayRows
<1>1. DemoTypeOK'
  BY <1>0, HandMoveType, HandDeleteType
<1>2. ~ TrayLocked(i) /\ UNCHANGED demo /\ \A j \in Trays : j # i => tray'[j] = tray[j]
  BY <1>0 DEF HandMove, HandDelete, DemoTypeOK
<1>3. \A v \in People : call'[v].at = "ticking" => call[v].at = "ticking" /\ call'[v] = call[v]
  <2>1. CASE HandMove(i)
    BY <2>1 DEF HandMove
  <2>2. CASE HandDelete(i)
    <3> SUFFICES ASSUME NEW v \in People, call'[v].at = "ticking"
                 PROVE  call[v].at = "ticking" /\ call'[v] = call[v]
      OBVIOUS
    <3>1. CASE call[v].at = "collected"
      <4>1. call'[v] = [call[v] EXCEPT !.trays = @ \ {i}]
        BY <2>2, <3>1 DEF HandDelete
      <4>2. call'[v] \in ResetCalls
        BY <4>1, <3>1, <1>0, FewerTrays
      <4> QED
        BY <4>2 DEF ResetCalls
    <3>2. CASE call[v].at # "collected"
      BY <2>2, <3>2 DEF HandDelete
    <3> QED
      BY <3>1, <3>2
  <2> QED
    BY <2>1, <2>2
<1>4. \A v \in People : call[v].at = "ticking" => \A j \in call[v].trays : tray'[j] = tray[j]
  BY <1>2, LockedTray
<1>5. TickHolds' /\ OneTick'
  BY <1>2, <1>3, <1>4, TickUndisturbed
<1>6. TrayAtPost'
  <2>1. CASE HandMove(i)
    <3>1. PICK p \in 1 .. LastPost : tray' = [tray EXCEPT ![i] = MovedTo(tray[i], p)]
      BY <2>1 DEF HandMove
    <3>2. tray'[i].post # 0
      BY <3>1, <1>0, DemoAssumption DEF MovedTo, TrayRows, DemoTypeOK
    <3> QED
      BY <1>2, <3>2 DEF TickInv, TrayAtPost
  <2>2. CASE HandDelete(i)
    BY <1>0, <1>2, <2>2 DEF TickInv, TrayAtPost, HandDelete, NoTray, DemoTypeOK
  <2> QED
    BY <2>1, <2>2
<1> QED
  BY <1>1, <1>5, <1>6 DEF TickInv

LEMMA TickInvInit == DemoInit => TickInv
BY DemoTypeInit DEF DemoInit, TickInv, TrayAtPost, TickHolds, OneTick, NoTray, NoCall

LEMMA TickInvNext == TickInv /\ [DemoNext]_rehearsal => TickInv'
<1> SUFFICES ASSUME TickInv, [DemoNext]_rehearsal PROVE TickInv'
  OBVIOUS
<1>1. CASE \E u \in People : DemoStep(u)
  BY <1>1, DemoTypeStep, TrayAtPostStep, TickHoldsStep DEF TickInv
<1>2. CASE \E i \in Trays : HandMove(i) \/ HandDelete(i)
  BY <1>2, HandStep
<1>3. CASE UNCHANGED rehearsal
  BY <1>3 DEF rehearsal, memory, TickInv, DemoTypeOK, TrayAtPost, TickHolds, OneTick
<1> QED
  BY <1>1, <1>2, <1>3 DEF DemoNext, DemoStep

(* A full count closes the run in the statement that saves it, or the run is remembered. *)
LEMMA CountedFull ==
  ASSUME DemoTypeOK, FullMeansClosed, NEW r \in Runs, NEW n \in Nat, NEW copy,
         Counted(r, n, copy), UNCHANGED reopened
  PROVE  FullMeansClosed'
<1> SUFFICES ASSUME NEW q \in Runs, Exists(q)', demo'[q].count >= demo'[q].total
             PROVE  demo'[q].status \in Closed \/ q \in early' \cup reopened'
  BY DEF FullMeansClosed
<1>1. CASE q # r
  <2>1. demo'[q] = demo[q] /\ early \subseteq early'
    BY <1>1 DEF Counted, DemoTypeOK
  <2>2. Exists(q) /\ demo[q].count >= demo[q].total
    BY <2>1 DEF Exists
  <2> QED
    BY <2>1, <2>2 DEF FullMeansClosed
<1>2. CASE q = r
  <2> DEFINE st == IF Finishes(copy, r, n) THEN "completed" ELSE demo[r].status
             d == [demo[r] EXCEPT !.count = n, !.status = st]
  <2>1. demo'[r] = d
    BY DEF Counted, DemoTypeOK
  <2>2. d.count = n /\ d.total = demo[r].total /\ d.status = st
    BY DEF DemoTypeOK
  <2>3. n >= demo[r].total
    <3> HIDE DEF d
    <3> QED
      BY <1>2, <2>1, <2>2
  <2>4. CASE copy = "running"
    <3>1. st = "completed"
      BY <2>3, <2>4 DEF Finishes
    <3> HIDE DEF d, st
    <3> QED
      BY <1>2, <2>1, <2>2, <3>1 DEF Closed
  <2>5. CASE copy # "running"
    BY <1>2, <2>3, <2>5 DEF Counted
  <2> QED
    BY <2>4, <2>5
<1> QED
  BY <1>1, <1>2

LEMMA WritesFull ==
  ASSUME DemoTypeOK, FullMeansClosed, NEW u \in People, call[u] \in CarriedCalls,
         NEW new \in Opened \cup {"stopped"}, WriteStatus(u, new)
  PROVE  FullMeansClosed'
<1> DEFINE r == call[u].run
<1> SUFFICES ASSUME NEW q \in Runs, Exists(q)', demo'[q].count >= demo'[q].total
             PROVE  demo'[q].status \in Closed \/ q \in early' \cup reopened'
  BY DEF FullMeansClosed
<1>1. r \in Runs /\ Exists(r) /\ early' = early /\ reopened \subseteq reopened'
  BY DEF CarriedCalls, WriteStatus
<1>2. CASE q # r
  <2>1. demo'[q] = demo[q]
    BY <1>1, <1>2 DEF WriteStatus, DemoTypeOK
  <2> QED
    BY <1>1, <2>1 DEF FullMeansClosed, Exists
<1>3. CASE q = r
  <2>1. /\ demo'[r].count = demo[r].count /\ demo'[r].total = demo[r].total
        /\ demo'[r].status = new
    BY <1>1 DEF WriteStatus, DemoTypeOK
  <2>2. demo[r].status \in Closed \/ r \in early \cup reopened
    BY <1>1, <1>3, <2>1 DEF FullMeansClosed
  <2>3. CASE new \in Opened /\ demo[r].status \in Closed
    BY <1>3, <2>3 DEF WriteStatus
  <2>4. CASE new = "stopped"
    BY <1>3, <2>1, <2>4 DEF Closed
  <2> QED
    BY <1>1, <1>3, <2>2, <2>3, <2>4
<1> QED
  BY <1>2, <1>3

(* What a call writes with its copy: the status, by Act or DriverGivesUp. *)
LEMMA ActWrites ==
  ASSUME DemoTypeOK, NEW u \in People, Act(u) \/ DriverGivesUp(u)
  PROVE  /\ call[u] \in CarriedCalls
         /\ \E new \in Opened \cup {"stopped"} : WriteStatus(u, new)
         /\ \E c \in CarriedCalls : call' = [call EXCEPT ![u] = c]
<1>1. call[u] \in CarriedCalls
  BY KindsOfCall DEF Act, DriverGivesUp, Carrying
<1>2. CASE Act(u)
  <2> DEFINE new == CASE call[u].op = "pause" -> "paused"
                      [] call[u].op = "stop"  -> "stopped"
                      [] OTHER                -> "running"
             c == [call[u] EXCEPT !.at = IF call[u].op = "drive" THEN "driving" ELSE "counting",
                                  !.status = new]
  <2>1. WriteStatus(u, new) /\ call' = [call EXCEPT ![u] = c]
    BY <1>2 DEF Act, DemoTypeOK
  <2>2. new \in Opened \cup {"stopped"}
    BY DEF Opened
  <2>3. c \in CarriedCalls
    BY <1>1, <2>2 DEF CarriedCalls, Carrying, Closed
  <2> HIDE DEF new, c
  <2> QED
    BY <1>1, <2>1, <2>2, <2>3
<1>3. CASE DriverGivesUp(u)
  <2> DEFINE c == [call[u] EXCEPT !.at = "counting", !.status = "failed"]
  <2>1. WriteStatus(u, "failed") /\ call' = [call EXCEPT ![u] = c]
    BY <1>3 DEF DriverGivesUp, DemoTypeOK
  <2>2. c \in CarriedCalls
    BY <1>1 DEF CarriedCalls, Carrying, Opened
  <2>3. "failed" \in Opened
    BY DEF Opened
  <2> HIDE DEF c
  <2> QED
    BY <1>1, <2>1, <2>2, <2>3
<1> QED
  BY <1>2, <1>3

LEMMA FullStep ==
  ASSUME TickInv, FullMeansClosed, NEW u \in People, DemoStep(u) PROVE FullMeansClosed'
<1>0. DemoTypeOK
  BY DEF TickInv
<1>1. CASE UNCHANGED <<demo, early, reopened>>
  BY <1>1 DEF FullMeansClosed, Exists
<1>2. CASE \E r \in Runs, n \in Trays : CreateWrite(u, r, n)
  <2>1. PICK r \in Runs, n \in Trays : CreateWrite(u, r, n)
    BY <1>2
  <2>2. n \in Nat /\ n > 0
    BY DemoAssumption DEF Trays
  <2>3. ~ (demo'[r].count >= demo'[r].total)
    <3>1. demo'[r] = [status |-> "created", count |-> 0, total |-> n, active |-> TRUE]
      BY <2>1, <1>0 DEF CreateWrite, DemoTypeOK
    <3>2. demo'[r].count = 0 /\ demo'[r].total = n
      BY <3>1
    <3> QED
      BY <2>2, <3>2
  <2>4. \A q \in Runs : q # r => demo'[q] = demo[q]
    BY <2>1, <1>0 DEF CreateWrite, DemoTypeOK
  <2> QED
    BY <2>1, <2>3, <2>4 DEF FullMeansClosed, Exists, CreateWrite, memory
<1>3. CASE Act(u) \/ DriverGivesUp(u)
  BY <1>0, <1>3, ActWrites, WritesFull
<1>4. CASE SaveCount(u)
  <2>1. call[u] \in CarriedCalls
    BY <1>4, <1>0, KindsOfCall DEF SaveCount, Carrying
  <2> QED
    BY <1>0, <1>4, <2>1, CountedFull DEF SaveCount, CarriedCalls
<1>5. CASE \E r \in Runs : TickRests(u, r)
  BY <1>0, <1>5, DoneIsNat, CountedFull DEF TickRests
<1>6. CASE TickCommit(u)
  <2>1. call[u] \in TickCalls
    BY <1>6, <1>0, KindsOfCall DEF TickCommit
  <2>2. CASE Counted(call[u].run, call[u].seen, demo[call[u].run].status)
    BY <1>0, <1>6, <2>1, <2>2, CountedFull DEF TickCommit, TickCalls
  <2>3. CASE UNCHANGED <<demo, early>>
    BY <1>1, <1>6, <2>3 DEF TickCommit
  <2> QED
    BY <1>6, <2>2, <2>3 DEF TickCommit
<1>7. CASE ResetCommit(u)
  <2>1. call[u] \in ResetCalls
    BY <1>7, <1>0, KindsOfCall DEF ResetCommit
  <2>2. demo'[call[u].run].status = "gone"
    BY <1>7, <1>0, <2>1 DEF ResetCommit, ResetCalls, DemoTypeOK, NoDemo
  <2>3. \A q \in Runs : q # call[u].run => demo'[q] = demo[q]
    BY <1>7, <1>0 DEF ResetCommit, DemoTypeOK
  <2>4. demo'[call[u].run].status \notin Opened \cup Closed
    BY <2>2 DEF Opened, Closed
  <2>5. early' = early /\ reopened' = reopened
    BY <1>7 DEF ResetCommit, memory
  <2> QED
    BY <2>3, <2>4, <2>5 DEF FullMeansClosed, Exists
<1> QED
  BY <1>1, <1>2, <1>3, <1>4, <1>5, <1>6, <1>7 DEF DemoStep, CreateLook, ReadRun, CountTrays,
     TickLock, ResetCollect, Fails, memory

(* The cards of the run that is on. *)
StaysActive == \A r \in Runs : Exists(r) /\ ~ demo[r].active =>
                 demo[r].status \in Closed \/ r \in reopened
OneCrowds == calm => \A u, v \in People :
  call[u].at \in {"looked", "collected"} /\ call[v].at \in {"looked", "collected"} => u = v
LookedMeansNone == calm /\ reopened = {} =>
  \A u \in People : call[u].at = "looked" => \A r \in Runs : demo[r].status \notin Opened
CollectedIsItsOwn == calm =>
  \A u \in People : call[u].at = "collected" => \A i \in call[u].trays : tray[i].run = call[u].run
WholeInv == OneCrowds /\ LookedMeansNone /\ CollectedIsItsOwn /\ DemoIsWhole

LEMMA CountedKeeps ==
  ASSUME DemoTypeOK, NEW r \in Runs, NEW n \in Nat, NEW copy, Counted(r, n, copy)
  PROVE  \A q \in Runs : /\ demo'[q].total = demo[q].total /\ demo'[q].active = demo[q].active
                         /\ demo'[q].status \in {demo[q].status, "completed"}
<1> DEFINE st == IF Finishes(copy, r, n) THEN "completed" ELSE demo[r].status
           d == [demo[r] EXCEPT !.count = n, !.status = st]
<1>1. demo' = [demo EXCEPT ![r] = d]
  BY DEF Counted, DemoTypeOK
<1>2. d.active = demo[r].active /\ d.total = demo[r].total /\ d.status = st
  BY DEF DemoTypeOK
<1>3. st \in {demo[r].status, "completed"}
  OBVIOUS
<1> HIDE DEF d, st
<1> QED
  BY <1>1, <1>2, <1>3 DEF DemoTypeOK

LEMMA WritesKeeps ==
  ASSUME DemoTypeOK, NEW u \in People, call[u] \in CarriedCalls, NEW new, WriteStatus(u, new),
         new \in Opened \cup {"stopped"}
  PROVE  /\ reopened \subseteq reopened'
         /\ \A q \in Runs : demo'[q].total = demo[q].total
         /\ reopened' = {} => \A q \in Runs : demo'[q].status \in Opened =>
                                demo[q].status \in Opened
<1>1. call[u].run \in Runs /\ Exists(call[u].run)
  BY DEF CarriedCalls, WriteStatus
<1>2. \A q \in Runs : demo'[q].total = demo[q].total
  BY <1>1 DEF WriteStatus, DemoTypeOK
<1>3. \A q \in Runs : q # call[u].run => demo'[q] = demo[q]
  BY DEF WriteStatus, DemoTypeOK
<1>4. demo'[call[u].run].status = new
  BY <1>1 DEF WriteStatus, DemoTypeOK
<1>5. reopened' = {} /\ new \in Opened => demo[call[u].run].status \in Opened
  BY <1>1 DEF WriteStatus, Exists
<1>6. reopened \subseteq reopened'
  BY DEF WriteStatus
<1> QED
  BY <1>2, <1>3, <1>4, <1>5, <1>6

LEMMA WholeUndisturbed ==
  ASSUME DemoTypeOK, WholeInv,
         calm' => calm, reopened \subseteq reopened',
         reopened' = {} => \A r \in Runs : demo'[r].status \in Opened =>
                             demo[r].status \in Opened /\ demo'[r].total = demo[r].total,
         \A i \in Trays : tray'[i].run = tray[i].run,
         \A v \in People : call'[v].at \in {"looked", "collected"} => call'[v] = call[v]
  PROVE  WholeInv'
<1>1. reopened' = {} => reopened = {}
  OBVIOUS
<1>2. OneCrowds'
  BY DEF WholeInv, OneCrowds
<1>3. LookedMeansNone'
  BY <1>1 DEF WholeInv, LookedMeansNone
<1>4. CollectedIsItsOwn'
  <2>1. \A v \in People : call[v].at = "collected" => call[v].trays \subseteq Trays
    BY KindsOfCall DEF ResetCalls
  <2> QED
    BY <2>1 DEF WholeInv, CollectedIsItsOwn
<1>5. DemoIsWhole'
  <2> SUFFICES ASSUME calm', reopened' = {}, NEW r \in Runs, demo'[r].status \in Opened,
                      NEW i \in 1 .. demo'[r].total
               PROVE  tray'[i].run = r
    BY DEF DemoIsWhole
  <2>1. demo[r].status \in Opened /\ demo'[r].total = demo[r].total /\ i \in 1 .. demo[r].total
    OBVIOUS
  <2>2. i \in Trays
    BY <2>1, DemoAssumption DEF DemoTypeOK, Trays
  <2> QED
    BY <1>1, <2>1, <2>2 DEF WholeInv, DemoIsWhole
<1> QED
  BY <1>2, <1>3, <1>4, <1>5 DEF WholeInv

LEMMA WholeKeptByReaders ==
  ASSUME DemoTypeOK, WholeInv, NEW u \in People, NEW c \in CallsOf,
         c.at \notin {"looked", "collected"}, call' = [call EXCEPT ![u] = c],
         UNCHANGED <<demo, tray, reopened, calm>>
  PROVE  WholeInv'
<1>1. \A v \in People : call'[v] = IF v = u THEN c ELSE call[v]
  BY DEF DemoTypeOK
<1> QED
  BY <1>1, WholeUndisturbed

LEMMA ActiveStep ==
  ASSUME TickInv, StaysActive, NEW u \in People, DemoStep(u) PROVE StaysActive'
<1>0. DemoTypeOK
  BY DEF TickInv
<1>1. CASE UNCHANGED <<demo, reopened>>
  BY <1>1 DEF StaysActive, Exists
<1>2. CASE \E r \in Runs, n \in Trays : CreateWrite(u, r, n)
  <2>1. PICK r \in Runs, n \in Trays : CreateWrite(u, r, n)
    BY <1>2
  <2>2. demo'[r] = [status |-> "created", count |-> 0, total |-> n, active |-> TRUE]
    BY <2>1, <1>0 DEF CreateWrite, DemoTypeOK
  <2>3. \A q \in Runs : q # r => demo'[q] = demo[q]
    BY <2>1, <1>0 DEF CreateWrite, DemoTypeOK
  <2>4. demo'[r].active /\ reopened' = reopened
    <3>1. demo'[r].active = TRUE
      BY <2>2
    <3>2. reopened' = reopened
      BY <2>1 DEF CreateWrite, memory
    <3> QED
      BY <3>1, <3>2
  <2> QED
    BY <2>3, <2>4 DEF StaysActive, Exists
<1>3. CASE Act(u) \/ DriverGivesUp(u)
  <2>1. call[u] \in CarriedCalls
    BY <1>0, <1>3, ActWrites
  <2>2. PICK new \in Opened \cup {"stopped"} : WriteStatus(u, new)
    BY <1>0, <1>3, ActWrites
  <2>3. call[u].run \in Runs /\ Exists(call[u].run) /\ reopened \subseteq reopened'
    BY <2>1, <2>2 DEF CarriedCalls, WriteStatus
  <2>4. \A q \in Runs : q # call[u].run => demo'[q] = demo[q]
    BY <2>2, <1>0 DEF WriteStatus, DemoTypeOK
  <2>5. /\ demo'[call[u].run].status = new
        /\ demo'[call[u].run].active = (demo[call[u].run].active /\ new # "stopped")
    BY <2>2, <2>3, <1>0 DEF WriteStatus, DemoTypeOK
  <2>6. CASE new \in Closed
    BY <2>3, <2>4, <2>5, <2>6 DEF StaysActive, Exists
  <2>7. CASE new \in Opened
    <3>1. new # "stopped"
      BY <2>7 DEF Opened
    <3>2. ~ demo'[call[u].run].active => call[u].run \in reopened'
      BY <2>2, <2>3, <2>5, <2>7, <3>1 DEF StaysActive, WriteStatus
    <3> QED
      BY <2>3, <2>4, <3>2 DEF StaysActive, Exists
  <2> QED
    BY <2>6, <2>7 DEF Closed
<1>4. ASSUME NEW r \in Runs, NEW n \in Nat, NEW copy, Counted(r, n, copy), UNCHANGED reopened,
             Exists(r)
      PROVE  StaysActive'
  <2>1. \A q \in Runs : /\ demo'[q].active = demo[q].active
                        /\ demo'[q].status \in {demo[q].status, "completed"}
    BY <1>0, <1>4, CountedKeeps
  <2>2. \A q \in Runs : q # r => demo'[q] = demo[q]
    BY <1>0, <1>4 DEF Counted, DemoTypeOK
  <2> QED
    BY <1>4, <2>1, <2>2 DEF StaysActive, Exists, Closed
<1>5. CASE SaveCount(u)
  <2>1. call[u] \in CarriedCalls
    BY <1>5, <1>0, KindsOfCall DEF SaveCount, Carrying
  <2> QED
    BY <1>4, <1>5, <2>1 DEF SaveCount, CarriedCalls
<1>6. CASE \E r \in Runs : TickRests(u, r)
  BY <1>4, <1>6, DoneIsNat DEF TickRests
<1>7. CASE TickCommit(u)
  <2>1. call[u] \in TickCalls
    BY <1>7, <1>0, KindsOfCall DEF TickCommit
  <2>2. CASE Counted(call[u].run, call[u].seen, demo[call[u].run].status)
    <3>1. demo[call[u].run].status = "running"
      BY <1>7 DEF TickCommit, TickInv, TickHolds
    <3>2. Exists(call[u].run)
      BY <3>1 DEF Exists, Opened
    <3> QED
      BY <1>4, <1>7, <2>1, <2>2, <3>2 DEF TickCommit, TickCalls
  <2>3. CASE UNCHANGED demo
    BY <1>1, <1>7, <2>3 DEF TickCommit
  <2> QED
    BY <1>7, <2>2, <2>3 DEF TickCommit
<1>8. CASE ResetCommit(u)
  <2>1. call[u] \in ResetCalls
    BY <1>8, <1>0, KindsOfCall DEF ResetCommit
  <2>2. demo'[call[u].run].status = "gone"
    BY <1>8, <1>0, <2>1 DEF ResetCommit, ResetCalls, DemoTypeOK, NoDemo
  <2>3. \A q \in Runs : q # call[u].run => demo'[q] = demo[q]
    BY <1>8, <1>0 DEF ResetCommit, DemoTypeOK
  <2>4. demo'[call[u].run].status \notin Opened \cup Closed
    BY <2>2 DEF Opened, Closed
  <2>5. reopened' = reopened
    BY <1>8 DEF ResetCommit, memory
  <2> QED
    BY <2>3, <2>4, <2>5 DEF StaysActive, Exists
<1> QED
  BY <1>1, <1>2, <1>3, <1>5, <1>6, <1>7, <1>8 DEF DemoStep, CreateLook, ReadRun, CountTrays,
     TickLock, ResetCollect, Fails, memory

LEMMA WholeStep ==
  ASSUME TickInv, StaysActive, WholeInv, NEW u \in People, DemoStep(u) PROVE WholeInv'
<1>0. DemoTypeOK
  BY DEF TickInv
<1>1. ASSUME NEW c \in CallsOf, c.at \notin {"looked", "collected"},
             call' = [call EXCEPT ![u] = c]
      PROVE  \A v \in People : call'[v].at \in {"looked", "collected"} => call'[v] = call[v]
  <2>1. \A v \in People : call'[v] = IF v = u THEN c ELSE call[v]
    BY <1>0, <1>1 DEF DemoTypeOK
  <2> QED
    BY <1>1, <2>1
<1>2. \A c \in CarriedCalls \cup TickCalls \cup {NoCall} :
        c \in CallsOf /\ c.at \notin {"looked", "collected"}
  BY CallOfKind DEF CarriedCalls, TickCalls, NoCall, Carrying
<1>3. CASE CreateLook(u)
  <2>1. CASE \E r \in Runs : /\ IsOn(r)
                             /\ call' = [call EXCEPT ![u] =
                                  [at |-> "counting", op |-> "status", run |-> r,
                                   status |-> demo[r].status, count |-> demo[r].count,
                                   seen |-> 0]]
                             /\ UNCHANGED calm
    <3>1. PICK r \in Runs : /\ IsOn(r)
                            /\ call' = [call EXCEPT ![u] =
                                 [at |-> "counting", op |-> "status", run |-> r,
                                  status |-> demo[r].status, count |-> demo[r].count,
                                  seen |-> 0]]
                            /\ UNCHANGED calm
      BY <2>1
    <3> DEFINE c == [at |-> "counting", op |-> "status", run |-> r, status |-> demo[r].status,
                     count |-> demo[r].count, seen |-> 0]
    <3>2. demo[r] \in DemoRows /\ demo[r].status \in Opened
      BY <1>0, <3>1 DEF DemoTypeOK, DemoRows, IsOn
    <3>3. c \in CarriedCalls
      BY <3>2 DEF CarriedCalls, Carrying, DemoRows
    <3>4. call' = [call EXCEPT ![u] = c] /\ UNCHANGED <<demo, tray, reopened, calm>>
      BY <1>3, <3>1 DEF CreateLook
    <3> HIDE DEF c
    <3> QED
      BY <1>0, <1>2, <3>3, <3>4, WholeKeptByReaders
  <2>2. CASE /\ \A r \in Runs : ~ IsOn(r)
             /\ call' = [call EXCEPT ![u] = [at |-> "looked"]]
             /\ calm' = (calm /\ ~ Crowded)
    <3>1. \A v \in People : call'[v] = IF v = u THEN [at |-> "looked"] ELSE call[v]
      BY <1>0, <2>2 DEF DemoTypeOK
    <3>2. UNCHANGED <<demo, tray, reopened>>
      BY <1>3 DEF CreateLook
    <3>3. calm' => calm /\ \A v \in People : call[v].at \notin {"looked", "collected"}
      BY <2>2 DEF Crowded
    <3>4. OneCrowds'
      BY <3>1, <3>3 DEF OneCrowds
    <3>5. reopened = {} => \A r \in Runs : demo[r].status \notin Opened
      <4> SUFFICES ASSUME reopened = {}, NEW r \in Runs, demo[r].status \in Opened PROVE FALSE
        OBVIOUS
      <4>1. ~ demo[r].active
        BY <2>2 DEF IsOn
      <4>2. demo[r].status \in Closed
        BY <4>1 DEF StaysActive, Exists
      <4> QED
        BY <4>2 DEF Opened, Closed
    <3>6. LookedMeansNone'
      BY <3>2, <3>5 DEF LookedMeansNone
    <3>7. CollectedIsItsOwn'
      <4>1. \A v \in People : call'[v].at = "collected" => v # u
        BY <3>1
      <4> QED
        BY <3>1, <3>2, <3>3, <4>1 DEF CollectedIsItsOwn
    <3>8. DemoIsWhole'
      BY <3>2, <3>3 DEF WholeInv, DemoIsWhole
    <3> QED
      BY <3>4, <3>6, <3>7, <3>8 DEF WholeInv
  <2> QED
    BY <1>3, <2>1, <2>2 DEF CreateLook
<1>4. CASE \E r \in Runs, n \in Trays : CreateWrite(u, r, n)
  <2>1. PICK r \in Runs, n \in Trays : CreateWrite(u, r, n)
    BY <1>4
  <2> DEFINE c == [at |-> "counting", op |-> "status", run |-> r, status |-> "created",
                   count |-> 0, seen |-> 0]
  <2>2. call' = [call EXCEPT ![u] = c] /\ call[u].at = "looked" /\ UNCHANGED memory
    BY <2>1 DEF CreateWrite
  <2>3. c \in CarriedCalls
    BY DEF CarriedCalls, Carrying, Opened
  <2>4. \A v \in People : call'[v] = IF v = u THEN c ELSE call[v]
    BY <1>0, <2>2 DEF DemoTypeOK
  <2>5. demo'[r] = [status |-> "created", count |-> 0, total |-> n, active |-> TRUE]
    BY <2>1, <1>0 DEF CreateWrite, DemoTypeOK
  <2>6. \A q \in Runs : q # r => demo'[q] = demo[q]
    BY <2>1, <1>0 DEF CreateWrite, DemoTypeOK
  <2>7. ASSUME calm PROVE \A v \in People : call'[v].at \notin {"looked", "collected"}
    <3>1. c.at \notin {"looked", "collected"}
      BY <1>2, <2>3
    <3> HIDE DEF c
    <3> QED
      BY <2>2, <2>4, <2>7, <3>1 DEF WholeInv, OneCrowds
  <2>8. OneCrowds' /\ LookedMeansNone' /\ CollectedIsItsOwn'
    BY <2>2, <2>7 DEF OneCrowds, LookedMeansNone, CollectedIsItsOwn, memory
  <2>9. DemoIsWhole'
    <3> SUFFICES ASSUME calm, reopened = {}, NEW q \in Runs, demo'[q].status \in Opened,
                        NEW i \in 1 .. demo'[q].total
                 PROVE  tray'[i].run = q
      BY <2>2 DEF DemoIsWhole, memory
    <3>1. q = r
      BY <2>2, <2>6 DEF WholeInv, LookedMeansNone
    <3>2. i \in 1 .. n /\ i \in Trays
      BY <2>5, <3>1, DemoAssumption DEF Trays
    <3>3. tray'[i] = [tray[i] EXCEPT !.post = 1, !.run = r]
      BY <2>1, <3>2 DEF CreateWrite
    <3>4. tray[i] \in TrayRows
      BY <1>0, <3>2 DEF DemoTypeOK, TrayRows
    <3> QED
      BY <3>1, <3>3, <3>4 DEF TrayRows
  <2> QED
    BY <2>8, <2>9 DEF WholeInv
<1>5. CASE \E r \in Runs, op \in {"start", "pause", "stop", "drive", "status"} : ReadRun(u, r, op)
  <2>1. PICK r \in Runs, op \in {"start", "pause", "stop", "drive", "status"} : ReadRun(u, r, op)
    BY <1>5
  <2> DEFINE c == [at |-> IF op = "status" THEN "counting" ELSE "loaded", op |-> op, run |-> r,
                   status |-> demo[r].status, count |-> demo[r].count, seen |-> 0]
  <2>2. Exists(r) /\ call' = [call EXCEPT ![u] = c] /\ UNCHANGED <<demo, tray, reopened, calm>>
    BY <2>1 DEF ReadRun, memory
  <2>3. c \in CarriedCalls
    BY <1>0, <2>2, ExistingRun DEF CarriedCalls, Carrying, DemoRows
  <2> HIDE DEF c
  <2> QED
    BY <1>0, <1>2, <2>2, <2>3, WholeKeptByReaders
<1>6. CASE Act(u) \/ DriverGivesUp(u)
  <2>1. call[u] \in CarriedCalls
    BY <1>0, <1>6, ActWrites
  <2>2. PICK new \in Opened \cup {"stopped"} : WriteStatus(u, new)
    BY <1>0, <1>6, ActWrites
  <2>3. PICK c \in CarriedCalls : call' = [call EXCEPT ![u] = c]
    BY <1>0, <1>6, ActWrites
  <2>4. \A v \in People : call'[v].at \in {"looked", "collected"} => call'[v] = call[v]
    BY <1>1, <1>2, <2>3
  <2>5. /\ reopened \subseteq reopened'
        /\ \A q \in Runs : demo'[q].total = demo[q].total
        /\ reopened' = {} => \A q \in Runs : demo'[q].status \in Opened =>
                               demo[q].status \in Opened
    BY <1>0, <2>1, <2>2, WritesKeeps
  <2>6. UNCHANGED <<tray, calm>>
    BY <2>2 DEF WriteStatus
  <2> QED
    BY <1>0, <2>4, <2>5, <2>6, WholeUndisturbed
<1>7. CASE CountTrays(u)
  <2> DEFINE c == IF Done(call[u].run) = call[u].count THEN NoCall
                  ELSE [call[u] EXCEPT !.at = "saving", !.seen = Done(call[u].run)]
  <2>1. call[u] \in CarriedCalls
    BY <1>7, <1>0, KindsOfCall DEF CountTrays, Carrying
  <2>2. [call[u] EXCEPT !.at = "saving", !.seen = Done(call[u].run)] \in CarriedCalls
    BY <2>1, DoneIsNat DEF CarriedCalls, Carrying
  <2>3. call' = [call EXCEPT ![u] = c] /\ UNCHANGED <<demo, tray, reopened, calm>>
    BY <1>7, <1>0 DEF CountTrays, memory, DemoTypeOK
  <2>4. c \in CarriedCalls \cup {NoCall}
    BY <2>2
  <2> HIDE DEF c
  <2> QED
    BY <1>0, <1>2, <2>3, <2>4, WholeKeptByReaders
<1>8. ASSUME NEW r \in Runs, NEW n \in Nat, NEW copy, Counted(r, n, copy),
             UNCHANGED <<reopened, calm>>, \A i \in Trays : tray'[i].run = tray[i].run,
             \A v \in People : call'[v].at \in {"looked", "collected"} => call'[v] = call[v]
      PROVE  WholeInv'
  <2>1. \A q \in Runs : /\ demo'[q].total = demo[q].total
                        /\ demo'[q].status \in {demo[q].status, "completed"}
    BY <1>0, <1>8, CountedKeeps
  <2>2. \A q \in Runs : demo'[q].status \in Opened =>
          demo[q].status \in Opened /\ demo'[q].total = demo[q].total
    BY <2>1 DEF Opened
  <2> QED
    BY <1>0, <1>8, <2>2, WholeUndisturbed
<1>9. CASE SaveCount(u)
  <2>1. call[u] \in CarriedCalls /\ call' = [call EXCEPT ![u] = NoCall]
    BY <1>9, <1>0, KindsOfCall DEF SaveCount, Carrying, Ends
  <2>2. \A v \in People : call'[v].at \in {"looked", "collected"} => call'[v] = call[v]
    BY <1>1, <1>2, <2>1
  <2> QED
    BY <1>8, <1>9, <2>1, <2>2 DEF SaveCount, CarriedCalls
<1>10. CASE \E r \in Runs : TickLock(u, r)
  <2>1. PICK r \in Runs : TickLock(u, r)
    BY <1>10
  <2>2. PICK T \in SUBSET {i \in TraysOf(r) : tray[i].post # LastPost} :
          call' = [call EXCEPT ![u] =
            [at |-> "ticking", run |-> r, trays |-> T,
             seen |-> Done(r) + Cardinality({i \in T : tray[i].post + 1 = LastPost})]]
    BY <2>1 DEF TickLock
  <2> DEFINE c == [at |-> "ticking", run |-> r, trays |-> T,
                   seen |-> Done(r) + Cardinality({i \in T : tray[i].post + 1 = LastPost})]
  <2>3. T \in SUBSET Trays /\ {i \in T : tray[i].post + 1 = LastPost} \in SUBSET Trays
    BY DEF TraysOf
  <2>4. Cardinality({i \in T : tray[i].post + 1 = LastPost}) \in Nat
    BY <2>3, TraysCount
  <2>5. Done(r) \in Nat
    BY DoneIsNat
  <2>6. c \in TickCalls
    BY <2>3, <2>4, <2>5 DEF TickCalls
  <2>7. call' = [call EXCEPT ![u] = c] /\ UNCHANGED <<demo, tray, reopened, calm>>
    BY <2>1, <2>2 DEF TickLock, memory
  <2> HIDE DEF c
  <2> QED
    BY <1>0, <1>2, <2>6, <2>7, WholeKeptByReaders
<1>11. CASE \E r \in Runs : TickRests(u, r)
  BY <1>8, <1>11, DoneIsNat DEF TickRests
<1>12. CASE TickCommit(u)
  <2>1. call[u] \in TickCalls /\ call' = [call EXCEPT ![u] = NoCall]
    BY <1>12, <1>0, KindsOfCall DEF TickCommit, Ends
  <2>2. \A v \in People : call'[v].at \in {"looked", "collected"} => call'[v] = call[v]
    BY <1>1, <1>2, <2>1
  <2>3. \A i \in Trays : tray'[i].run = tray[i].run
    <3>1. \A i \in Trays : tray[i] \in TrayRows
      BY <1>0 DEF DemoTypeOK, TrayRows
    <3>2. \A i \in Trays : MovedTo(tray[i], tray[i].post + 1).run = tray[i].run
      BY <3>1 DEF MovedTo, TrayRows
    <3> QED
      BY <1>12, <3>2 DEF TickCommit
  <2>4. CASE Counted(call[u].run, call[u].seen, demo[call[u].run].status)
    BY <1>8, <1>12, <2>1, <2>2, <2>3, <2>4 DEF TickCommit, TickCalls
  <2>5. CASE UNCHANGED demo
    BY <1>0, <1>12, <2>2, <2>3, <2>5, WholeUndisturbed DEF TickCommit
  <2> QED
    BY <1>12, <2>4, <2>5 DEF TickCommit
<1>13. CASE \E r \in Runs : ResetCollect(u, r)
  <2>1. PICK r \in Runs : ResetCollect(u, r)
    BY <1>13
  <2>2. \A v \in People : call'[v] =
          IF v = u THEN [at |-> "collected", run |-> r, trays |-> TraysOf(r)] ELSE call[v]
    BY <1>0, <2>1 DEF ResetCollect, DemoTypeOK
  <2>3. UNCHANGED <<demo, tray, reopened>>
    BY <2>1 DEF ResetCollect
  <2>4. calm' => calm /\ \A v \in People : call[v].at \notin {"looked", "collected"}
    BY <2>1 DEF ResetCollect, Crowded
  <2>5. OneCrowds'
    BY <2>2, <2>4 DEF OneCrowds
  <2>6. LookedMeansNone'
    BY <2>2, <2>3, <2>4 DEF LookedMeansNone
  <2>7. CollectedIsItsOwn'
    <3>1. \A i \in TraysOf(r) : tray[i].run = r
      BY DEF TraysOf
    <3> SUFFICES ASSUME calm', NEW v \in People, call'[v].at = "collected",
                        NEW i \in call'[v].trays
                 PROVE  tray[i].run = call'[v].run
      BY <2>3 DEF CollectedIsItsOwn
    <3>2. v = u
      BY <2>2, <2>4
    <3>3. call'[v].trays = TraysOf(r) /\ call'[v].run = r
      BY <2>2, <3>2
    <3> QED
      BY <3>1, <3>3
  <2>8. DemoIsWhole'
    BY <2>3, <2>4 DEF WholeInv, DemoIsWhole
  <2> QED
    BY <2>5, <2>6, <2>7, <2>8 DEF WholeInv
<1>14. CASE ResetCommit(u)
  <2>1. call[u] \in ResetCalls /\ call[u].at = "collected" /\ UNCHANGED memory
    BY <1>14, <1>0, KindsOfCall DEF ResetCommit
  <2>2. ASSUME calm, NEW v \in People PROVE call'[v].at \notin {"looked", "collected"}
    <3>1. CASE v = u
      BY <1>14, <3>1 DEF ResetCommit, NoCall
    <3>2. CASE v # u
      <4>1. call[v].at \notin {"looked", "collected"}
        BY <2>1, <2>2, <3>2 DEF WholeInv, OneCrowds
      <4> QED
        BY <1>14, <3>2, <4>1 DEF ResetCommit
    <3> QED
      BY <3>1, <3>2
  <2>3. OneCrowds' /\ LookedMeansNone' /\ CollectedIsItsOwn'
    BY <2>1, <2>2 DEF OneCrowds, LookedMeansNone, CollectedIsItsOwn, memory
  <2>4. DemoIsWhole'
    <3> SUFFICES ASSUME calm, reopened = {}, NEW q \in Runs, demo'[q].status \in Opened,
                        NEW i \in 1 .. demo'[q].total
                 PROVE  tray'[i].run = q
      BY <2>1 DEF DemoIsWhole, memory
    <3>1. call[u].run \in Runs /\ demo'[call[u].run].status = "gone"
      BY <1>14, <1>0, <2>1 DEF ResetCommit, ResetCalls, DemoTypeOK, NoDemo
    <3>2. q # call[u].run
      BY <3>1 DEF Opened
    <3>3. demo'[q] = demo[q]
      BY <1>14, <1>0, <3>2 DEF ResetCommit, DemoTypeOK
    <3>4. tray[i].run = q
      BY <3>3 DEF WholeInv, DemoIsWhole
    <3>5. i \in Trays /\ tray[i] \in TrayRows
      BY <1>0, <3>3, DemoAssumption DEF DemoTypeOK, Trays, TrayRows
    <3>6. i \notin call[u].trays
      BY <2>1, <3>2, <3>4 DEF WholeInv, CollectedIsItsOwn
    <3>7. tray'[i] = [tray[i] EXCEPT !.stock = StockLeft(i, call[u].run)]
      BY <1>14, <3>5, <3>6 DEF ResetCommit
    <3> QED
      BY <3>4, <3>5, <3>7 DEF TrayRows
  <2> QED
    BY <2>3, <2>4 DEF WholeInv
<1>15. CASE Fails(u)
  <2>1. call' = [call EXCEPT ![u] = NoCall] /\ UNCHANGED <<demo, tray, reopened, calm>>
    BY <1>15 DEF Fails, Ends, memory
  <2> QED
    BY <1>0, <1>2, <2>1, WholeKeptByReaders
<1> QED
  BY <1>3, <1>4, <1>5, <1>6, <1>7, <1>9, <1>10, <1>11, <1>12, <1>13, <1>14, <1>15 DEF DemoStep

LEMMA WholeByHand ==
  ASSUME DemoTypeOK, WholeInv, NEW i \in Trays, HandMove(i) \/ HandDelete(i) PROVE WholeInv'
<1>1. CASE HandMove(i)
  <2>1. UNCHANGED <<demo, call, reopened, calm>>
    BY <1>1 DEF HandMove, memory
  <2>2. PICK p \in 1 .. LastPost : tray' = [tray EXCEPT ![i] = MovedTo(tray[i], p)]
    BY <1>1 DEF HandMove
  <2>3. tray[i] \in TrayRows
    BY DEF DemoTypeOK, TrayRows
  <2>4. MovedTo(tray[i], p).run = tray[i].run
    BY <2>3 DEF MovedTo, TrayRows
  <2>5. \A j \in Trays : tray'[j].run = tray[j].run
    BY <2>2, <2>4 DEF DemoTypeOK
  <2> QED
    BY <2>1, <2>5, WholeUndisturbed
<1>2. CASE HandDelete(i)
  <2>1. ~ calm'
    BY <1>2 DEF HandDelete
  <2> QED
    BY <2>1 DEF WholeInv, OneCrowds, LookedMeansNone, CollectedIsItsOwn, DemoIsWhole
<1> QED
  BY <1>1, <1>2

DemoInv == TickInv /\ FullMeansClosed /\ StaysActive /\ WholeInv

LEMMA DemoInvInit == DemoInit => DemoInv
<1> SUFFICES ASSUME DemoInit PROVE DemoInv
  OBVIOUS
<1>1. \A r \in Runs : demo[r].status = "none"
  BY DEF DemoInit, NoDemo
<1>2. \A r \in Runs : ~ Exists(r) /\ demo[r].status \notin Opened
  BY <1>1 DEF Exists, Opened, Closed
<1>3. \A u \in People : call[u].at = "idle"
  BY DEF DemoInit, NoCall
<1>4. FullMeansClosed /\ StaysActive
  BY <1>2 DEF FullMeansClosed, StaysActive
<1>5. WholeInv
  BY <1>2, <1>3 DEF WholeInv, OneCrowds, LookedMeansNone, CollectedIsItsOwn, DemoIsWhole
<1> QED
  BY <1>4, <1>5, TickInvInit DEF DemoInv

LEMMA DemoInvNext == DemoInv /\ [DemoNext]_rehearsal => DemoInv'
<1> SUFFICES ASSUME DemoInv, [DemoNext]_rehearsal PROVE DemoInv'
  OBVIOUS
<1>1. TickInv'
  BY TickInvNext DEF DemoInv
<1>2. CASE \E u \in People : DemoStep(u)
  BY <1>1, <1>2, FullStep, ActiveStep, WholeStep DEF DemoInv
<1>3. CASE \E i \in Trays : HandMove(i) \/ HandDelete(i)
  <2>1. UNCHANGED <<demo, early, reopened>>
    BY <1>3 DEF HandMove, HandDelete, memory
  <2>2. FullMeansClosed' /\ StaysActive'
    BY <2>1 DEF DemoInv, FullMeansClosed, StaysActive, Exists
  <2>3. WholeInv'
    BY <1>3, WholeByHand DEF DemoInv, TickInv
  <2> QED
    BY <1>1, <2>2, <2>3 DEF DemoInv
<1>4. CASE UNCHANGED rehearsal
  <2>1. UNCHANGED <<demo, tray, call, calls, early, reopened, calm>>
    BY <1>4 DEF rehearsal, memory
  <2> QED
    BY <1>1, <2>1 DEF DemoInv, FullMeansClosed, StaysActive, Exists, WholeInv, OneCrowds,
       LookedMeansNone, CollectedIsItsOwn, DemoIsWhole
<1> QED
  BY <1>2, <1>3, <1>4 DEF DemoNext, DemoStep

LEMMA DemoInvariant == DemoSpec => []DemoInv
BY DemoInvInit, DemoInvNext, PTL DEF DemoSpec

(* Type correctness of the demonstration, for any number of runs, cards, posts and people. *)
THEOREM DemoTypeCorrect == DemoSpec => []DemoTypeOK
<1>1. DemoInv => DemoTypeOK
  BY DEF DemoInv, TickInv
<1> QED
  BY <1>1, DemoInvariant, PTL

(* A tick that is under way holds its run RUNNING: whoever pauses, stops or resets waits. *)
THEOREM RunningWhileItTicks == DemoSpec => []TicksOnlyWhileRunning
<1>1. DemoInv => TicksOnlyWhileRunning
  BY DEF DemoInv, TickInv, TickHolds, TicksOnlyWhileRunning
<1> QED
  BY <1>1, DemoInvariant, PTL

(* A run whose cards were all counted at the last post is closed, but for the two orders of
   a poll and a status that the definition names. *)
THEOREM FullRunCloses == DemoSpec => []FullMeansClosed
<1>1. DemoInv => FullMeansClosed
  BY DEF DemoInv
<1> QED
  BY <1>1, DemoInvariant, PTL

(* The run that is on has all its cards, as long as nothing was made and deleted at once. *)
THEOREM RunKeepsItsCards == DemoSpec => []DemoIsWhole
<1>1. DemoInv => DemoIsWhole
  BY DEF DemoInv, WholeInv
<1> QED
  BY <1>1, DemoInvariant, PTL
=============================================================================
