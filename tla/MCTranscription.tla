-------------------------- MODULE MCTranscription --------------------------
(* One recording, posted up to three times, whose callback has three tries; two
   telephones that want the only worker of the pool; two restarts. *)
EXTENDS Transcription, TLC

CONSTANTS c1, p1, p2

MCClips == {c1}
MCPhones == {p1, p2}
=============================================================================
