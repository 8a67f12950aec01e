------------------------------ MODULE SatSpec ------------------------------
(***************************************************************************)
(* What the users of the bundled SAT solver rely on (minisat.cc calls      *)
(* newVar, addClause, simplify and solve, and reads `model'): the solver   *)
(* collects clauses, and every check is answered by a model of all the     *)
(* clauses added so far, or, if they have none, by "unsat".                *)
(***************************************************************************)
EXTENDS Integers

VARIABLES
  nVars,    \* variables made so far: 0 .. nVars - 1
  added,    \* the clauses added so far, each a set of literals
  answer,   \* "none", "asked", "sat" or "unsat"
  model     \* after "sat": a truth value for every variable

vars == <<nVars, added, answer, model>>

(***************************************************************************)
(* A literal is 2v or 2v + 1: variable v, plain or negated.                *)
(***************************************************************************)
mkLit(v, s) == 2 * v + (IF s THEN 1 ELSE 0)
var(p) == p \div 2
sign(p) == p % 2
neg(p) == IF p % 2 = 0 THEN p + 1 ELSE p - 1

Literals(n) == 0 .. 2 * n - 1
Assignments(n) == [0 .. n - 1 -> BOOLEAN]
Holds(p, A) == A[var(p)] = (sign(p) = 0)
Satisfies(A, cs) == \A c \in cs : \E p \in c : Holds(p, A)
Satisfiable(n, cs) == \E A \in Assignments(n) : Satisfies(A, cs)

Init == nVars = 0 /\ added = {} /\ answer = "none" /\ model = <<>>

NewVar ==
  /\ answer # "asked"
  /\ nVars' = nVars + 1
  /\ UNCHANGED <<added, answer, model>>

AddClause ==
  /\ answer # "asked"
  /\ \E c \in SUBSET Literals(nVars) : added' = added \cup {c}
  /\ answer' = "none" /\ model' = <<>>
  /\ UNCHANGED nVars

Ask ==
  /\ answer # "asked"
  /\ answer' = "asked" /\ model' = <<>>
  /\ UNCHANGED <<nVars, added>>

AnswerSat ==
  /\ answer = "asked"
  /\ \E A \in Assignments(nVars) : Satisfies(A, added) /\ model' = A
  /\ answer' = "sat"
  /\ UNCHANGED <<nVars, added>>

AnswerUnsat ==
  /\ answer = "asked"
  /\ ~Satisfiable(nVars, added)
  /\ answer' = "unsat"
  /\ UNCHANGED <<nVars, added, model>>

Next == NewVar \/ AddClause \/ Ask \/ AnswerSat \/ AnswerUnsat

Spec == Init /\ [][Next]_vars
=============================================================================
