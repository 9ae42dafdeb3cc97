----------------------------- MODULE MCToolForge -----------------------------
(***************************************************************************)
(* A small instance of ToolForge for TLC: queued builds beside one forge   *)
(* of the execution engine, which may choose the same technical id.        *)
(***************************************************************************)
EXTENDS ToolForge
=============================================================================
