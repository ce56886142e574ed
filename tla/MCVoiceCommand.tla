--------------------------- MODULE MCVoiceCommand ---------------------------
(* A shared card of two batches and a card of one; a recording that names a
   batch of each, and a text that names the second row of the shared card. *)
EXTENDS VoiceCommand, TLC

CONSTANTS spoken, typed, w1, w2, tray, loaf

MCBatches == 1 .. 3
MCCardOf == [b \in MCBatches |-> IF b <= 2 THEN tray ELSE loaf]
MCStages == 1 .. 3
MCCommands == {spoken, typed}
MCTexts == {typed}
MCLead == [v \in MCCommands |-> IF v = spoken THEN 1 ELSE 2]
MCTo == [v \in MCCommands |-> IF v = spoken THEN 2 ELSE 3]
MCAlso == [v \in MCCommands |-> IF v = spoken THEN [b \in {3} |-> 2] ELSE [b \in {} |-> 1]]
MCSymmetry == Permutations({w1, w2})
=============================================================================
