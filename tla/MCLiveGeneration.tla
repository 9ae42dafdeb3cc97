-------------------------- MODULE MCLiveGeneration --------------------------
(* LiveGeneration alone, for the claim about the fallback to Gemini.       *)
EXTENDS LiveGeneration

=============================================================================
