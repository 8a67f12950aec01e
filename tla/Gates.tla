------------------------------- MODULE Gates --------------------------------
(***************************************************************************)
(* minisat.cc: the operations the MiniSat backend is built on, over the    *)
(* promise of the SAT solver (SatSpec, which Cdcl implements).  An         *)
(* expression is a literal; every gate makes a variable, defines it by     *)
(* clauses and returns the negated literal of it, mkLit(x, true), and      *)
(* minisat_not is the other literal of the same variable.                  *)
(*                                                                         *)
(* What an expression stands for is kept beside it: `meaning' has, for     *)
(* each variable, the sets of names whose being true makes mkLit(x, true)  *)
(* true.                                                                   *)
(***************************************************************************)
EXTENDS Integers, FiniteSets

CONSTANTS
  Names,      \* the free boolean variables of the program
  MaxVars,    \* bound: variables of the solver
  MaxAsserts  \* bound: assertions

ASSUME GatesAssumption == MaxVars \in Nat /\ MaxAsserts \in Nat

VARIABLES
  nVars, added, answer, model,   \* the solver, as in SatSpec
  declared,                      \* s_vars: the literal of each declared name
  meaning, asserted,             \* history
  values                         \* what getvar has returned since the check

vars == <<nVars, added, answer, model, declared, meaning, asserted, values>>

Sat == INSTANCE SatSpec

mkLit(v, s) == 2 * v + (IF s THEN 1 ELSE 0)
minisat_not(a) == IF a % 2 = 0 THEN a + 1 ELSE a - 1

Exprs == 0 .. 2 * nVars - 1
Worlds == SUBSET Names
Makes(p) == IF p % 2 = 1 THEN meaning[p \div 2] ELSE Worlds \ meaning[p \div 2]
NoValues == [n \in {} |-> FALSE]

Init ==
  /\ nVars = 0 /\ added = {} /\ answer = "none" /\ model = <<>>
  /\ declared = [n \in {} |-> 0] /\ meaning = [v \in {} |-> {}]
  /\ asserted = {} /\ values = NoValues

-----------------------------------------------------------------------------
(***************************************************************************)
(* A gate: a new variable x, clauses, and the worlds in which the literal  *)
(* mkLit(x, true) is to be true.                                           *)
(***************************************************************************)
Gate(clauses, worlds) ==
  /\ nVars < MaxVars
  /\ nVars' = nVars + 1
  /\ added' = added \cup clauses
  /\ meaning' = [v \in 0 .. nVars |-> IF v = nVars THEN worlds ELSE meaning[v]]
  /\ answer' = "none" /\ model' = <<>> /\ values' = NoValues
  /\ UNCHANGED asserted

new == mkLit(nVars, TRUE)

(***************************************************************************)
(* minisat_true returns the new literal, minisat_false its negation.       *)
(***************************************************************************)
minisat_true == Gate({{new}}, Worlds) /\ UNCHANGED declared

(***************************************************************************)
(* minisat_var is called when a name is declared, once for each name.      *)
(***************************************************************************)
minisat_var(n) ==
  /\ n \notin DOMAIN declared
  /\ Gate({}, {W \in Worlds : n \in W})
  /\ declared' = [m \in DOMAIN declared \cup {n} |-> IF m = n THEN new ELSE declared[m]]

AndClauses(x, a, b) ==
  {{minisat_not(x), a}, {minisat_not(x), b}, {minisat_not(a), minisat_not(b), x}}
minisat_and(a, b) == Gate(AndClauses(new, a, b), Makes(a) \cap Makes(b)) /\ UNCHANGED declared

\* Mutant of OrClauses: the second argument is left out of the third clause.
OrClausesStrict(x, a, b) ==
  {{minisat_not(a), x}, {minisat_not(b), x}, {minisat_not(x), a}}

OrClauses(x, a, b) ==
  {{minisat_not(a), x}, {minisat_not(b), x}, {minisat_not(x), a, b}}
minisat_or(a, b) == Gate(OrClauses(new, a, b), Makes(a) \cup Makes(b)) /\ UNCHANGED declared

\* Mutant of IteClauses: the last clause is missing.
IteClausesThree(x, p, a, b) ==
  {{minisat_not(p), a, minisat_not(x)}, {minisat_not(p), minisat_not(a), x},
   {p, b, minisat_not(x)}}

IteClauses(x, p, a, b) ==
  {{minisat_not(p), a, minisat_not(x)}, {minisat_not(p), minisat_not(a), x},
   {p, b, minisat_not(x)}, {p, minisat_not(b), x}}
minisat_ite(p, a, b) ==
  /\ Gate(IteClauses(new, p, a, b), (Makes(p) \cap Makes(a)) \cup (Makes(b) \ Makes(p)))
  /\ UNCHANGED declared

minisat_assert(a) ==
  /\ Cardinality(asserted) < MaxAsserts
  /\ added' = added \cup {{a}}
  /\ asserted' = asserted \cup {a}
  /\ answer' = "none" /\ model' = <<>> /\ values' = NoValues
  /\ UNCHANGED <<nVars, declared, meaning>>

(***************************************************************************)
(* simplify and solve, by what SatSpec promises of them.                   *)
(***************************************************************************)
minisat_check ==
  /\ answer = "none"
  /\ values' = NoValues
  /\ \/ /\ answer' = "sat"
        /\ model' \in Sat!Assignments(nVars)
        /\ Sat!Satisfies(model', added)
     \/ /\ answer' = "unsat" /\ model' = <<>>
        /\ ~Sat!Satisfiable(nVars, added)
  /\ UNCHANGED <<nVars, added, declared, meaning, asserted>>

\* Mutant of toInt: true is 1.
toIntPlain(b) == IF b THEN 1 ELSE 0

(***************************************************************************)
(* toInt of the variable's value, not of the literal's: l_True is 0, so    *)
(* 1, which the backend reads as True, is a false variable, and that is a  *)
(* true mkLit(x, true).  Called for declared names after a Sat.            *)
(***************************************************************************)
toInt(b) == IF b THEN 0 ELSE 1
minisat_getvar(n) ==
  /\ answer = "sat"
  /\ values' = [m \in DOMAIN values \cup {n} |->
                  IF m = n THEN toInt(model[declared[n] \div 2]) = 1 ELSE values[m]]
  /\ UNCHANGED <<nVars, added, answer, model, declared, meaning, asserted>>

Next ==
  \/ minisat_true
  \/ \E n \in Names : minisat_var(n)
  \/ \E a \in Exprs, b \in Exprs : minisat_and(a, b)
  \/ \E a \in Exprs, b \in Exprs : minisat_or(a, b)
  \/ \E p \in Exprs, a \in Exprs, b \in Exprs : minisat_ite(p, a, b)
  \/ \E a \in Exprs : minisat_assert(a)
  \/ minisat_check
  \/ \E n \in DOMAIN declared : minisat_getvar(n)

Spec == Init /\ [][Next]_vars

-----------------------------------------------------------------------------
(***************************************************************************)
(* Properties.                                                             *)
(***************************************************************************)

(***************************************************************************)
(* The worlds the assertions allow, and those an assignment of the         *)
(* solver's variables shows: a name that is not declared may be either.    *)
(***************************************************************************)
Allowed == {W \in Worlds : \A p \in asserted : W \in Makes(p)}
Shows(A, W) == \A n \in DOMAIN declared : Sat!Holds(declared[n], A) <=> n \in W

(***************************************************************************)
(* In every assignment that satisfies the clauses each expression has the  *)
(* truth value it stands for, and the assertions hold: the clauses of a    *)
(* gate define its literal, and no later gate disturbs an earlier one.     *)
(***************************************************************************)
GatesSound ==
  \A A \in Sat!Assignments(nVars) : Sat!Satisfies(A, added) =>
    \A W \in Worlds : Shows(A, W) =>
      /\ W \in Allowed
      /\ \A p \in Exprs : Sat!Holds(p, A) <=> W \in Makes(p)

(***************************************************************************)
(* The clauses of the gates exclude no world: each one the assertions      *)
(* allow has an assignment.  With a clause too many, "unsat" would be      *)
(* answered for a formula that has solutions.                              *)
(***************************************************************************)
GatesConservative ==
  \A W \in Allowed : \E A \in Sat!Assignments(nVars) : Sat!Satisfies(A, added) /\ Shows(A, W)

(***************************************************************************)
(* What the backend reports is right: after Sat the values getvar returns  *)
(* are those of a world that the assertions allow, through the negated     *)
(* literals and the numbering of l_True and l_False; after Unsat there is  *)
(* no such world.                                                          *)
(***************************************************************************)
AnswerRight ==
  /\ answer = "sat" => \E W \in Allowed : \A n \in DOMAIN values : values[n] <=> n \in W
  /\ answer = "unsat" => Allowed = {}
=============================================================================
