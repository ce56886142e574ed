---------------------------- MODULE LogAnalysis ----------------------------
(***************************************************************************)
(* What the analytics service computes of a log of events.  A frame is a   *)
(* sequence of rows with a case, an activity and a time, ordered by case   *)
(* and time; rows of one time stay in the order of their arrival.  The     *)
(* process map and the ranking of bottlenecks order the rows they get once *)
(* more; the routes, the durations and the filters take them as they come. *)
(***************************************************************************)
EXTENDS Integers, Sequences, FiniteSets, FiniteSetsExt, SequencesExt

CONSTANTS
  MinEdgeSamples,  \* MIN_EDGE_SAMPLES
  AnomalyRatio,    \* ANOMALY_RATIO
  AnomalyFloor,    \* ANOMALY_FLOOR_SECONDS, in the unit of time
  UnitSeconds      \* seconds of the unit of time

NoTime == -1
Rows(frame) == DOMAIN frame
Cases(frame) == {frame[i].case : i \in Rows(frame)}
Indices(s) == [i \in DOMAIN s |-> i]
Picked(s, idx) == [k \in DOMAIN idx |-> s[idx[k]]]

(* The elements of S from the first to the last in the order R, a set of pairs. *)
Before(S, R, x) == {y \in S : <<y, x>> \in R}
InOrder(S, R) ==
  <<>> \o [k \in 1 .. Cardinality(S) |-> CHOOSE x \in S : Cardinality(Before(S, R, x)) = k - 1]
Ascending(I) == InOrder(I, {p \in I \X I : p[1] < p[2]})
PickedWhere(s, I) == Picked(s, Ascending(I))
OfCase(frame, c) == {i \in Rows(frame) : frame[i].case = c}

-----------------------------------------------------------------------------
(* The canonical frame *)

Less(c, d) == c[1] < d[1] \/ (c[1] = d[1] /\ c[2] < d[2])
Earlier(r, i, s, j) ==
  \/ Less(r.case, s.case)
  \/ r.case = s.case /\ (r.time < s.time \/ (r.time = s.time /\ i < j))

(* normalize_dtypes, and the same sort in the functions that repeat it. *)
Ordered(rows) ==
  Picked(rows, InOrder(Rows(rows), {p \in Rows(rows) \X Rows(rows) :
                                      Earlier(rows[p[1]], p[1], rows[p[2]], p[2])}))

(* A row without a time is dropped; a label no rule of the profile knows becomes its
   fallback. *)
Canonical(rows, profile, fallback) ==
  LET timed == SelectSeq(rows, LAMBDA r : r.time # NoTime)
  IN Ordered([k \in DOMAIN timed |->
       [timed[k] EXCEPT !.activity = IF @ \in DOMAIN profile THEN profile[@] ELSE fallback]])

-----------------------------------------------------------------------------
(* Arcs of the process map *)

(* Fault: the next row counts whatever case it is of. *)
AnyNext(frame) == {i \in Rows(frame) : i + 1 \in Rows(frame)}
(* shift(-1) within a case: rows that have a next one. *)
Steps(frame) ==
  {i \in Rows(frame) : i + 1 \in Rows(frame) /\ frame[i].case = frame[i + 1].case}

Arc(frame, i) == <<frame[i].activity, frame[i + 1].activity>>
Waited(frame, i) == frame[i + 1].time - frame[i].time
Arcs(frame) == {Arc(frame, i) : i \in Steps(frame)}
StepsOn(frame, a) == {i \in Steps(frame) : Arc(frame, i) = a}

Waits(frame, a) ==
  LET on == SelectSeq(Indices(frame), LAMBDA i : i \in StepsOn(frame, a))
  IN SortSeq([k \in DOMAIN on |-> Waited(frame, on[k])], <)

(* The rank of the 95th percentile of n values: Python rounds half to even. *)
Rank95(n) == LET q == (19 * (n - 1)) \div 20
                 r == (19 * (n - 1)) % 20
             IN 1 + q + IF r > 10 \/ (r = 10 /\ q % 2 = 1) THEN 1 ELSE 0

Twice(w) == w[(Len(w) + 1) \div 2] + w[Len(w) \div 2 + 1]
Stats(w) ==
  [count |-> Len(w), total |-> FoldLeft(LAMBDA x, y : x + y, 0, w),
   twiceMedian |-> Twice(w), p95 |-> w[Rank95(Len(w))]]

(* _edge_duration_stats *)
EdgeStats(rows) ==
  LET frame == Ordered(rows) IN [a \in Arcs(frame) |-> Stats(Waits(frame, a))]

(* find_anomalies: waits above three medians, the 95th percentile and the floor. *)
Anomalies(rows) ==
  LET frame == Ordered(rows)
      edge == EdgeStats(rows)
      Longer(i) ==
        LET e == edge[Arc(frame, i)] IN
          /\ e.count >= MinEdgeSamples /\ e.twiceMedian > 0
          /\ 2 * Waited(frame, i) > AnomalyRatio * e.twiceMedian
          /\ Waited(frame, i) > e.p95 /\ Waited(frame, i) > AnomalyFloor
  IN {i \in Steps(frame) : Longer(i)}

-----------------------------------------------------------------------------
(* Figures of the dashboard *)

Route(frame, c) ==
  LET own == SelectSeq(frame, LAMBDA r : r.case = c) IN [k \in DOMAIN own |-> own[k].activity]
Duration(frame, c) ==
  LET times == {frame[i].time : i \in OfCase(frame, c)} IN Max(times) - Min(times)

Routes(frame) == {Route(frame, c) : c \in Cases(frame)}
Taking(frame, route) == {c \in Cases(frame) : Route(frame, c) = route}
Throughput(frame) == MapThenSumSet(LAMBDA c : Duration(frame, c), Cases(frame))

(* _service_times: seconds between an activity and the next one. *)
WaitingAfter(rows, activity) ==
  LET frame == Ordered(rows)
  IN MapThenSumSet(LAMBDA i : Waited(frame, i),
                   {i \in Steps(frame) : frame[i].activity = activity})

(* total_flow_time_seconds: of an empty log none, and one second where nothing waited. *)
Flow(rows) ==
  LET edge == EdgeStats(rows)
      total == MapThenSumSet(LAMBDA a : edge[a].total, DOMAIN edge)
  IN CASE rows = <<>> -> 0
       [] rows # <<>> /\ total = 0 -> 1
       [] OTHER -> UnitSeconds * total

(* bottlenecks: what a case passes more than once, and twice in a row. *)
Passes(route, activity) == Cardinality({k \in DOMAIN route : route[k] = activity})
Rework(frame) ==
  {x \in Cases(frame) \X {frame[i].activity : i \in Rows(frame)} :
     Passes(Route(frame, x[1]), x[2]) > 1}
SelfLoops(frame) ==
  UNION {{r[k] : k \in {j \in DOMAIN r : j + 1 \in DOMAIN r /\ r[j] = r[j + 1]}} :
           r \in Routes(frame)}

-----------------------------------------------------------------------------
(* Filters *)

Keep(frame, ok(_)) == SelectSeq(frame, ok)
KeepCases(frame, cs) == Keep(frame, LAMBDA r : r.case \in cs)
Sizes(frame, c) == Cardinality(OfCase(frame, c))

(* Items from the most to the least frequent; ties in the order given. *)
Ranking(S, count, first) ==
  SetToSortSeq(S, LAMBDA x, y : \/ count[x] > count[y]
                                \/ count[x] = count[y] /\ first[x] < first[y])

(* Those that together stay within the share; the first one, if none does. *)
Top(ranking, count, percent) ==
  LET all == FoldLeft(LAMBDA n, x : n + count[x], 0, ranking)
      upTo(k) == FoldLeft(LAMBDA n, x : n + count[x], 0, SubSeq(ranking, 1, k))
      kept == {ranking[k] : k \in {j \in DOMAIN ranking : 100 * upTo(j) <= percent * all}}
  IN IF kept = {} THEN {ranking[1]} ELSE kept

(* variant_coverage *)
KeepRoutes(frame, percent) ==
  LET count == [r \in Routes(frame) |-> Cardinality(Taking(frame, r))]
      first == [r \in Routes(frame) |->
                  Min({i \in Rows(frame) : frame[i].case \in Taking(frame, r)})]
      top == Top(Ranking(Routes(frame), count, first), count, percent)
  IN KeepCases(frame, {c \in Cases(frame) : Route(frame, c) \in top})

(* activity_coverage *)
KeepActivities(frame, percent) ==
  LET known == {frame[i].activity : i \in Rows(frame)}
      of == [a \in known |-> {i \in Rows(frame) : frame[i].activity = a}]
      count == [a \in known |-> Cardinality(of[a])]
      first == [a \in known |-> Min(of[a])]
      top == Top(Ranking(known, count, first), count, percent)
  IN Keep(frame, LAMBDA r : r.activity \in top)

NoFilter == [from |-> 0, exclude |-> {}, activityShare |-> 0, starts |-> {}, ends |-> {},
             minLength |-> 0, routeShare |-> 0]

(* apply_filters: rows first, then whole cases; a field that is empty is no filter. *)
Filtered(frame, f) ==
  LET Then(g, on, apply(_)) == IF on /\ g # <<>> THEN apply(g) ELSE g
      dated == Keep(frame, LAMBDA r : r.time >= f.from)
      named == Keep(dated, LAMBDA r : r.activity \notin f.exclude)
      main == Then(named, f.activityShare > 0, LAMBDA g : KeepActivities(g, f.activityShare))
      begun == Then(main, f.starts # {}, LAMBDA g :
                 KeepCases(g, {c \in Cases(g) : Head(Route(g, c)) \in f.starts}))
      ended == Then(begun, f.ends # {}, LAMBDA g :
                 KeepCases(g, {c \in Cases(g) : Last(Route(g, c)) \in f.ends}))
      long == Then(ended, f.minLength > 0, LAMBDA g :
                KeepCases(g, {c \in Cases(g) : Sizes(g, c) >= f.minLength}))
  IN Then(long, f.routeShare > 0, LAMBDA g : KeepRoutes(g, f.routeShare))
=============================================================================
