---------------------------- MODULE MCToolBuilder ----------------------------
(***************************************************************************)
(* A small instance of ToolBuilder for TLC: generate_tool, a legacy tool   *)
(* that asks for a banned permission, and two builds.                      *)
(***************************************************************************)
EXTENDS ToolBuilder
=============================================================================
