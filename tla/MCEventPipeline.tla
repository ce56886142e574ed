---------------------------- MODULE MCEventPipeline ----------------------------
(***************************************************************************)
(* Small instance of EventPipeline: two exporters, two keys, an event of a *)
(* demo batch, one of another log and one that no intake would accept.     *)
(***************************************************************************)
EXTENDS EventPipeline, TLC

CONSTANTS real, demo, batchLog, orderLog

MCEvents    == 1..3
MCBatches   == {real, demo}
MCOwner     == [e \in MCEvents |-> IF e = 1 THEN demo ELSE real]
MCDemo      == {demo}
MCCaseTypes == {batchLog, orderLog}
MCCaseType  == [e \in MCEvents |-> IF e = 2 THEN orderLog ELSE batchLog]
MCInvalid   == {3}

Symmetry == Permutations(Workers) \cup Permutations(Keys)
=============================================================================
