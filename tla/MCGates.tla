------------------------------ MODULE MCGates -------------------------------
(***************************************************************************)
(* The gates of minisat.cc over a few variables.                           *)
(***************************************************************************)
EXTENDS Gates
CONSTANTS x, y
=============================================================================
