------------------------------ MODULE MCOneC ------------------------------
(***************************************************************************)
(* Three documents of one client, of today and of the day before, all of   *)
(* one month; a page holds two.  Beside the run, the operators that the    *)
(* figures are built from are evaluated over all short logs.               *)
(***************************************************************************)
EXTENDS OneC

SmallRows == [case : {<<1, 0>>, <<2, 0>>}, activity : {1, 2}, time : {NoTime, 0, 1}]
SmallLogs == UNION {[1 .. n -> SmallRows] : n \in 1 .. 3}
SmallFrames == {Ordered(s) : s \in {s \in SmallLogs : \A i \in DOMAIN s : s[i].time # NoTime}}

(* A log uploaded once more from its own frame is the same log. *)
ASSUME \A s \in SmallLogs :
         LET frame == Canonical(s, (1 :> 2) @@ (2 :> 2), 1) IN
           Canonical(frame, (1 :> 1) @@ (2 :> 2), 1) = frame

(* A case that repeats itself at once repeats an activity; what is kept of a log never
   has a case the log has not. *)
ASSUME \A f \in SmallFrames :
         /\ SelfLoops(f) \subseteq {x[2] : x \in Rework(f)}
         /\ \A share \in {50, 75, 100} :
              LET kept == Filtered(f, [NoFilter EXCEPT !.activityShare = share]) IN
                kept # <<>> /\ Cases(kept) \subseteq Cases(f)

(* Cases that all wait for 2, but for the last, which waits for 90. *)
OneLateOf(n) ==
  [k \in 1 .. 2 * n |->
     [case |-> <<(k + 1) \div 2, 0>>, activity |-> 1 + ((k + 1) % 2),
      time |-> IF k % 2 = 1 THEN 0 ELSE IF k = 2 * n THEN 90 ELSE 2]]

(* The late one is an anomaly of an arc that twelve cases took, never of fewer: the 95th
   percentile of eleven waits is the longest of them, whatever MIN_EDGE_SAMPLES says. *)
ASSUME /\ \A n \in 1 .. 11 : Rank95(n) = n /\ Anomalies(OneLateOf(n)) = {}
       /\ Anomalies(OneLateOf(12)) # {}
=============================================================================
