----------------------------- MODULE MCSolver -----------------------------
(***************************************************************************)
(* Calls of Solver for TLC: queries over a boolean and a bit vector.       *)
(***************************************************************************)
EXTENDS Solver, TLC

CONSTANTS b, x,  \* a boolean, and a vector of two bits
          c1, c2

MCWidth == x :> 2

Where(V, P(_)) == [vars |-> V, sat |-> {a \in Values(V) : P(a)}]

True == Where({}, LAMBDA a : TRUE)
IsTwo == Where({x}, LAMBDA a : a[x] = 2)
AtLeastTwo == Where({x}, LAMBDA a : a[x] >= 2)
Implied == Where({b, x}, LAMBDA a : a[b] = 1 => a[x] = 1)
Unsat == Where({b, x}, LAMBDA a : FALSE)

MCQueries == {c1 :> q @@ c2 :> r : q \in {True, IsTwo, Unsat},
                                   r \in {AtLeastTwo, Implied}}

\* Yices2; MiniSat and smten; Z3, STP and Yices1.
MCBackends == {[blast |-> FALSE, exits |-> TRUE],
               [blast |-> TRUE, exits |-> FALSE],
               [blast |-> FALSE, exits |-> FALSE]}
=============================================================================
