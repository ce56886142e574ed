------------------------------ MODULE MCBoard ------------------------------
(* A grouped order with two batches and an order with one, one device; and a page
   of the board with two cards, a pool and a device.  The two modules share no
   variable: one moves while the other rests, so that the states of the run are
   the sum of theirs. *)
EXTENDS Board, BoardScreen, TLC

CONSTANTS o1, o2, w1, w2, oven, s1, s2

MCBatches == 1 .. 3
MCOrders == {o1, o2}
MCOrderOf == [b \in MCBatches |-> IF b <= 2 THEN o1 ELSE o2]
MCOneCard == {o1}
MCStageOf == [u \in {oven} |-> 2]
MCSlots == {s1, s2}
MCSymmetry == Permutations({w1, w2}) \cup Permutations(MCSlots)

MCPageRests == ScreenInit /\ \A c \in Cards : place[c] = "a"
MCInit == Init /\ ScreenInit
MCNext ==
  \/ MCPageRests /\ Next /\ UNCHANGED screenVars
  \/ excused = {} /\ Init /\ ScreenNext /\ UNCHANGED vars
MCSpec == MCInit /\ [][MCNext]_<<vars, screenVars>>
=============================================================================
