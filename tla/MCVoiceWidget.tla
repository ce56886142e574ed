---------------------------- MODULE MCVoiceWidget ----------------------------
(* Three presses: the third meets what the first two have left in flight. *)
EXTENDS VoiceWidget, TLC
=============================================================================
