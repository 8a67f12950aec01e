------------------------------- MODULE MCCdcl -------------------------------
(***************************************************************************)
(* Scripts for the SAT solver.                                             *)
(***************************************************************************)
EXTENDS Cdcl

Make(n) == [k \in 1 .. n |-> [op |-> "newVar"]]
Add(cs) == [k \in DOMAIN cs |-> [op |-> "addClause", ps |-> cs[k]]]
Check == <<[op |-> "check"]>>

\* All eight clauses over three variables: unsatisfiable, by several conflicts.
Cube == Make(3) \o Add(<< <<0,2,4>>, <<0,2,5>>, <<0,3,4>>, <<0,3,5>>, <<1,2,4>>, <<1,2,5>>, <<1,3,4>>, <<1,3,5>> >>) \o Check

\* A conflict clause with a literal that follows from the others through two
\* reasons, or, when b or a is decided first, does not.
Chain == Make(5) \o Add(<< <<0,3>>, <<2,5>>, <<0,4,6,8>>, <<4,6,9>> >>) \o Check

\* A literal of the conflict clause with two literals in its reason, of which
\* the clause has only one.
Wide == Make(5) \o Add(<< <<0,2,5>>, <<0,4,6,8>>, <<4,6,9>> >>) \o Check

\* Conflict clauses of three literals: clauses to forget, garbage to collect.
Forget == Make(4) \o Add(<< <<0,2,4,6>>, <<0,2,4,7>>, <<0,2,5,6>>, <<0,2,5,7>>, <<1,2,4,6>>, <<0,3,6>> >>) \o Check

\* One conflict clause of three literals, which may be forgotten at the restart
\* after it, so that the search starts over.
Again == Make(4) \o Add(<< <<0,2,4,6>>, <<0,2,4,7>> >>) \o Check

\* Repeated, opposite, true and false literals, and clauses between checks.
Grow == Make(2) \o Add(<< <<0,0,2>>, <<1,3,1>>, <<0,1>> >>) \o Check
        \o Make(1) \o Add(<< <<4,0>>, <<5,2>>, <<4,1>> >>) \o Check \o Add(<< <<3>>, <<2,1,5>> >>) \o Check
        \o Make(1) \o Add(<< <<6>>, <<7>> >>) \o Check \o Make(1) \o Check
Empty == Make(1) \o Check \o Add(<< <<>> >>) \o Check

Mode(m) == [ccmin_mode |-> m, phase_saving |-> m]
Try(scripts, modes) == { [opts |-> Mode(m), calls |-> c] : m \in modes, c \in scripts }
MCInputs == Try({Again}, {0}) \cup Try({Cube, Grow, Empty}, 0 .. 2) \cup Try({Chain, Wide, Forget}, {1, 2})
MCLearnt == <<1, 8>>
MCGarbage == <<1, 8>>
=============================================================================
