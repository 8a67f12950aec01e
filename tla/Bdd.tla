-------------------------------- MODULE Bdd --------------------------------
(***************************************************************************)
(* The solver that is part of Smten (Solver.Smten): every expression is a  *)
(* pair of decision diagrams, one for the ways to make it true and one for *)
(* the ways to make it false.  A call of solve makes a solver, builds      *)
(* expressions, asserts some, asks once and reads the model.               *)
(*                                                                         *)
(* Bits and Integers sit on top (addBits, addIntegers); there is no node   *)
(* table, so diagrams are values.                                          *)
(***************************************************************************)
EXTENDS Integers, FiniteSets

CONSTANTS
  Names,        \* the FreeIDs of the variables, ordered as numbers
  MaxExprs,     \* bound: expressions made in one call
  MaxAsserts    \* bound: assertions of one call

ASSUME BddAssumption == Names \subseteq Nat /\ MaxExprs \in Nat /\ MaxAsserts \in Nat

VARIABLES
  exprs,        \* the expressions made so far, each with what it should mean
  mref,         \* the conjunction of the asserted ones
  asserted,     \* what they should mean
  asserts,      \* how many there are
  answer        \* of check: "none", "unsat" or "sat"

bddVars == <<exprs, mref, asserted, asserts, answer>>

-----------------------------------------------------------------------------
\* Decision diagrams

None == [node |-> "None"]
Done == [node |-> "Done"]
Split(x, t, f) == [node |-> "Var", nm |-> x, tt |-> t, ff |-> f]

IsLeaf(a) == a.node # "Var"

RECURSIVE orBDD(_, _)
orBDD(a, b) ==
  IF a = None THEN b ELSE IF a = Done THEN Done ELSE IF b = None THEN a ELSE IF b = Done THEN Done
  ELSE IF a.nm < b.nm THEN Split(a.nm, orBDD(a.tt, b), orBDD(a.ff, b))
  ELSE IF a.nm = b.nm THEN Split(a.nm, orBDD(a.tt, b.tt), orBDD(a.ff, b.ff))
  ELSE Split(b.nm, orBDD(a, b.tt), orBDD(a, b.ff))

\* Mutant of Joined: a node both of whose branches are impossible is kept.
JoinedAlways(x, t, f) == Split(x, t, f)
Joined(x, t, f) == IF t = None /\ f = None THEN None ELSE Split(x, t, f)

RECURSIVE andBDD(_, _)
andBDD(a, b) ==
  IF a = None THEN None ELSE IF a = Done THEN b ELSE IF b = None THEN None ELSE IF b = Done THEN a
  ELSE IF a.nm < b.nm THEN Joined(a.nm, andBDD(a.tt, b), andBDD(a.ff, b))
  ELSE IF a.nm = b.nm THEN Joined(a.nm, andBDD(a.tt, b.tt), andBDD(a.ff, b.ff))
  ELSE Joined(b.nm, andBDD(a, b.tt), andBDD(a, b.ff))

(***************************************************************************)
(* The value a diagram gives a variable: the way that is possible, and     *)
(* true where both are.  {} is the error of a diagram with no way.         *)
(***************************************************************************)
RECURSIVE lookupBDD(_, _)
lookupBDD(n, a) ==
  IF a = None THEN {} ELSE IF a = Done THEN {FALSE}
  ELSE IF a.tt = None THEN (IF n <= a.nm THEN {FALSE} ELSE lookupBDD(n, a.ff))
  ELSE (IF n <= a.nm THEN {TRUE} ELSE lookupBDD(n, a.tt))

-----------------------------------------------------------------------------
\* Expressions

trueExp == [pos |-> Done, neg |-> None]
falseExp == [pos |-> None, neg |-> Done]
varExp(n) == [pos |-> Split(n, Done, None), neg |-> Split(n, None, Done)]
notExp(e) == [pos |-> e.neg, neg |-> e.pos]
orExp(d, e) == [pos |-> orBDD(d.pos, e.pos), neg |-> andBDD(d.neg, e.neg)]
andExp(d, e) == [pos |-> andBDD(d.pos, e.pos), neg |-> orBDD(d.neg, e.neg)]
iteExp(p, d, e) == orExp(andExp(p, d), andExp(notExp(p), e))

-----------------------------------------------------------------------------
\* The solver

Assignments == [Names -> BOOLEAN]

BddInit ==
  /\ exprs = {} /\ mref = trueExp /\ asserted = Assignments
  /\ asserts = 0 /\ answer = [kind |-> "none"]

MakesExp(e, means) ==
  /\ answer.kind = "none" /\ Cardinality(exprs) < MaxExprs
  /\ exprs' = exprs \cup {[exp |-> e, means |-> means]}
  /\ UNCHANGED <<mref, asserted, asserts, answer>>

bool(b) == MakesExp(IF b THEN trueExp ELSE falseExp, IF b THEN Assignments ELSE {})
var_bool(n) == MakesExp(varExp(n), {A \in Assignments : A[n]})
not_bool(d) == MakesExp(notExp(d.exp), Assignments \ d.means)
and_bool(d, e) == MakesExp(andExp(d.exp, e.exp), d.means \cap e.means)
or_bool(d, e) == MakesExp(orExp(d.exp, e.exp), d.means \cup e.means)
ite_bool(p, d, e) ==
  MakesExp(iteExp(p.exp, d.exp, e.exp), (p.means \cap d.means) \cup (e.means \ p.means))

assert(d) ==
  /\ answer.kind = "none" /\ asserts < MaxAsserts
  /\ mref' = andExp(d.exp, mref)
  /\ asserted' = asserted \cap d.means
  /\ asserts' = asserts + 1
  /\ UNCHANGED <<exprs, answer>>

(***************************************************************************)
(* check, and after Sat the values of all variables (getBoolValue).        *)
(***************************************************************************)
check ==
  /\ answer.kind = "none"
  /\ answer' = IF mref.pos = None THEN [kind |-> "unsat"]
               ELSE [kind |-> "sat", model |-> [n \in Names |-> lookupBDD(n, mref.pos)]]
  /\ UNCHANGED <<exprs, mref, asserted, asserts>>

\* The next call makes a solver of its own.
smten ==
  /\ answer.kind # "none"
  /\ exprs' = {} /\ mref' = trueExp /\ asserted' = Assignments
  /\ asserts' = 0 /\ answer' = [kind |-> "none"]

BddNext ==
  \/ \E b \in BOOLEAN : bool(b)
  \/ \E n \in Names : var_bool(n)
  \/ \E d \in exprs : not_bool(d) \/ assert(d)
  \/ \E d, e \in exprs : and_bool(d, e) \/ or_bool(d, e)
  \/ \E p, d, e \in exprs : ite_bool(p, d, e)
  \/ check \/ smten

-----------------------------------------------------------------------------
(***************************************************************************)
(* check says "sat" exactly if the assertions have a common solution, and  *)
(* the values read off the diagram, each by a walk of its own through it,  *)
(* together are one: impossible diagrams must all have collapsed to None,  *)
(* and a variable that a path does not split on may take any value         *)
(* (Solver/Smten.hs check, lookupBDD, andBDD).                             *)
(***************************************************************************)
BddAnswerRight ==
  /\ answer.kind = "unsat" => asserted = {}
  /\ answer.kind = "sat" =>
       \E A \in asserted : \A n \in Names : answer.model[n] = {A[n]}
=============================================================================
