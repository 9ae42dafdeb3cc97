----------------------------- MODULE MCVoiceTurn -----------------------------
(***************************************************************************)
(* A small instance of VoiceTurn, with the Gemini bridge it extends.       *)
(***************************************************************************)
EXTENDS VoiceTurn
=============================================================================
