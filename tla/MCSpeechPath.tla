---------------------------- MODULE MCSpeechPath ----------------------------
(* Three presses of the button: a recording that is stopped twice, two starts, or a
   recording after a text; the text of the second press is followed to the QMS. *)
EXTENDS SpeechPath, TLC

MCTexts == {2}
=============================================================================
