---------------------------- MODULE MCAnalytics ----------------------------
(* One stream log that can be deleted and come back, two requests, two threads; and
   a console over two logs, either of which may be uploaded while the page is open.
   The two modules share no variable: one moves while the other rests, so that the
   states of the run are the sum of theirs. *)
EXTENDS MiningCache, Studio, TLC

CONSTANTS l1, e1, e2, r1, r2, plain, month, main

MCLogs == {l1}
MCEvents == {e1, e2}
MCFiles == {{e1}, {e2}}
MCRequests == {r1, r2}
(* All, the events of a month, and of these the cases on the main routes. *)
MCFilters == {plain, month, main}
MCLocal == [f \in MCFilters |-> IF f = main THEN month ELSE f]
MCSymmetry == Permutations(StudioLogs) \cup Permutations(MCRequests)

MCPageRests ==
  StudioInit /\ storedLog = NoLog /\ \A l \in StudioLogs : life[l] = "unborn"
MCInit == Init /\ StudioInit /\ route = "other"
(* A page is not followed further once something went wrong that FiguresAreOfTheLog does not
   name: ScreenAgrees says nothing of it any more, and neither the log that is open nor the
   requests for figures and lists nor the log of the figures depend on it. *)
MCFollowed == \A w \in excused : w[1] \in {"failed", "list failed"}
MCNext ==
  \/ MCPageRests /\ Next /\ UNCHANGED studioVars
  \/ Init /\ MCFollowed /\ StudioNext /\ UNCHANGED vars
MCSpec == MCInit /\ [][MCNext]_<<vars, studioVars>>
=============================================================================
