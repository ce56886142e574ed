---------------------------- MODULE MCShowcase ----------------------------
(* A batch, an oven with a twin and a mixer without one, two request threads; the
   stream of points of a batch of the factory and one of a rehearsal on one machine;
   two runs of a demonstration with up to two cards, two people; one batch on the sheets
   of five days; the plan of one product on two screens; and the forecast of two products
   for one day, from two weeks, corrected by two requests at a time.
   The modules share no variable: one moves while the others rest, so that the states of
   the run are the sum of theirs. *)
EXTENDS TwinMirror, PointStream, DemoRun, DaySheet, PlanSheet, ForecastPage, TLC

CONSTANTS oven, mixer, twin1, w1, w2, h1, loaf, trial, d1, d2, p1, p2, l1, bun, g1, g2, u1, u2, t1, t2

MCDevices == {oven, mixer}
MCFirstTwin == [u \in MCDevices |-> IF u = oven THEN twin1 ELSE NoThing]
MCSymmetry == Permutations({w1, w2}) \cup Permutations({d1, d2}) \cup Permutations({p1, p2})

MCMirrorRests == MirrorInit /\ \A b \in BatchRows : at[b] = NoDevice
MCStreamRests == StreamInit /\ \A b \in Parties : stands[b] = Nowhere
(* One product was made in both weeks, the other in any of them.  Whatever happens first
   on the page counts as an edit. *)
MCForecastInit == ForecastInit /\ past[<<g2, 1>>] = <<0, 1>>
MCForecastRests == edits = 0 /\ past[<<g1, 1>>] = <<>>
MCBoardRests == MCMirrorRests /\ MCStreamRests /\ DemoInit
MCSheetsRest == SheetInit /\ PlanInit /\ MCForecastRests
MCInit == MirrorInit /\ StreamInit /\ DemoInit /\ SheetInit /\ PlanInit /\ MCForecastInit
(* Bound: saves that took effect or are under way. *)
MCFew == steps + Cardinality({w \in Savers : saving[w] # NoSave}) <= MaxSteps

MCNext ==
  \/ /\ MCSheetsRest /\ UNCHANGED <<sheet, plans, table>>
     /\ \/ MCStreamRests /\ DemoInit /\ MirrorNext /\ UNCHANGED <<stream, rehearsal>> /\ MCFew'
        \/ MCMirrorRests /\ DemoInit /\ StreamNext /\ UNCHANGED <<mirror, rehearsal>>
        \/ MCMirrorRests /\ MCStreamRests /\ DemoNext /\ UNCHANGED <<mirror, stream>>
  \/ /\ MCBoardRests /\ UNCHANGED <<mirror, stream, rehearsal>>
     /\ \/ PlanInit /\ MCForecastRests /\ SheetNext /\ UNCHANGED <<plans, table>>
        \/ SheetInit /\ MCForecastRests /\ PlanNext /\ UNCHANGED <<sheet, table>>
        \/ SheetInit /\ PlanInit /\ ForecastNext /\ UNCHANGED <<sheet, plans>>
MCVars == <<mirror, stream, rehearsal, sheet, plans, table>>
MCSpec == MCInit /\ [][MCNext]_MCVars

(* The stream alone. *)
MCStreamSpec ==
  /\ MCInit /\ MCMirrorRests /\ MCSheetsRest
  /\ [][StreamNext /\ UNCHANGED <<mirror, rehearsal, sheet, plans, table>>]_MCVars
=============================================================================
