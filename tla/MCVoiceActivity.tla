--------------------------- MODULE MCVoiceActivity ---------------------------
(* VoiceActivity by itself: the constants are in the configuration. *)
EXTENDS VoiceActivity
=============================================================================
