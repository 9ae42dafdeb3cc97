------------------------------ MODULE MCQuitting -----------------------------
(***************************************************************************)
(* A small instance of Quitting, with the memory it extends: a short text  *)
(* and one that is too long for an entry.                                  *)
(***************************************************************************)
EXTENDS Quitting

CONSTANTS f1, f2

MCSaid == {<<f1>>, <<f2, f2, f2>>}
=============================================================================
