--------------------------- MODULE MCCardNumbers ---------------------------
(* Two days, two orders of one or two items, two confirmations at once, the third
   one a repeated confirmation of an order that got an item or another day. *)
EXTENDS CardNumbers, TLC

CONSTANTS o1, o2, r1, r2

MCOrders == {o1, o2}
MCDays == 1 .. 2
MCRequests == {r1, r2}
MCSymmetry == Permutations(MCOrders) \cup Permutations(MCRequests)
=============================================================================
