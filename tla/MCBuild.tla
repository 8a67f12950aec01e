------------------------------ MODULE MCBuild ------------------------------
(***************************************************************************)
(* Calls of Build for TLC, over formulas that share what they can.         *)
(***************************************************************************)
EXTENDS Build, TLC

CONSTANTS x1, x2,      \* two nodes of the variable x
          i1,          \* an integer literal
          leq, and, or, \* leq i1 x1, and leq x2, or leq and
          c1, c2, c3,  \* a call for each of or, and, x1
          x, y

MCKids == x1 :> <<>> @@ x2 :> <<>> @@ i1 :> <<>>
            @@ leq :> <<i1, x1>> @@ and :> <<leq, x2>> @@ or :> <<leq, and>>

MCIdOf == x1 :> x @@ x2 :> x

MCRoot == c1 :> or @@ c2 :> and @@ c3 :> x1
=============================================================================
