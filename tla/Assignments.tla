---------------------------- MODULE Assignments ----------------------------
(***************************************************************************)
(* The values the free variables of a query may take together: what a      *)
(* formula holds under.                                                    *)
(***************************************************************************)
CONSTANT Assignment
=============================================================================
