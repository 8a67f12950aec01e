------------------------------- MODULE IntFF -------------------------------
(***************************************************************************)
(* Symbolic machine integers (Smten.Runtime.IntFF): a map from the values  *)
(* an Int may have to the formulas under which it has them.  One           *)
(* assignment is fixed and a formula is its value under it; a reachable    *)
(* Int has exactly one guard that holds, though the map may also list      *)
(* values whose guards hold nowhere.                                       *)
(*                                                                         *)
(* A concrete Int is the map with its one value; the class tells the two   *)
(* apart where the code does.  Results of a comparison are sets: {} is     *)
(* Unreachable_BoolFF.                                                     *)
(***************************************************************************)
EXTENDS Integers

CONSTANT Width      \* bits of Int# (64 in the code)

Int_ == -(2^(Width - 1)) .. 2^(Width - 1) - 1
minBound == -(2^(Width - 1))
Wrap(n) == ((n - minBound) % 2^Width) + minBound

Concrete(v) == [class |-> "IntFF", map |-> [k \in {v} |-> TRUE]]
Symbolic_IntFF(m) == [class |-> "symbolic", map |-> m]
Unreachable_IntFF == [class |-> "unreachable", map |-> [k \in {} |-> TRUE]]

concrete(x) == x.class = "IntFF"
unreachable(x) == x.class = "unreachable"
valueOf(x) == CHOOSE v \in DOMAIN x.map : TRUE      \* of a concrete one
Any(m, S) == \E k \in S : m[k]                      \* orsFF

(***************************************************************************)
(* A guard p: the literals TrueFF and FalseFF, unreachable, or symbolic.   *)
(***************************************************************************)
Merge(p, ma, mb) ==
  [k \in DOMAIN ma \cup DOMAIN mb |->
     \/ k \in DOMAIN ma /\ p /\ ma[k]
     \/ k \in DOMAIN mb /\ ~p /\ mb[k]]

ite_IntFF(p, a, b) ==
  CASE p.class = "true" -> a
    [] p.class = "false" -> b
    [] p.class = "unreachable" -> Unreachable_IntFF
    [] p.class = "symbolic" ->
         IF concrete(a) /\ concrete(b) /\ valueOf(a) = valueOf(b) THEN a
         ELSE IF unreachable(a) THEN b
         ELSE IF unreachable(b) THEN a
         ELSE Symbolic_IntFF(Merge(p.holds, a.map, b.map))

eq_IntFF(a, b) ==
  IF unreachable(a) \/ unreachable(b) THEN {}
  ELSE {\E k \in DOMAIN a.map \cap DOMAIN b.map : a.map[k] /\ b.map[k]}

(***************************************************************************)
(* The arithmetic wraps.  A divisor 0 gives 0; minBound quot -1 is left to *)
(* the primitive operation, whose outcome is not defined.                  *)
(***************************************************************************)
Abs_(n) == IF n < 0 THEN -n ELSE n
Truncated(a, b) == IF (a < 0) = (b < 0) THEN Abs_(a) \div Abs_(b) ELSE -(Abs_(a) \div Abs_(b))
Primitive(op, a, b) ==
  CASE op = "add" -> Wrap(a + b)
    [] op = "sub" -> Wrap(a - b)
    [] op = "mul" -> Wrap(a * b)
    [] op = "quot" -> IF b = 0 THEN 0 ELSE Truncated(a, b)
    [] op = "rem" -> IF b = 0 THEN 0 ELSE a - b * Truncated(a, b)

(***************************************************************************)
(* Pairs of values with one result share a key, whose guard is the         *)
(* disjunction of theirs (mapKeysWith orFF, unionsWith orFF).              *)
(***************************************************************************)
iii(op, a, b) ==
  IF unreachable(a) \/ unreachable(b) THEN Unreachable_IntFF
  ELSE [class |-> IF concrete(a) /\ concrete(b) THEN "IntFF" ELSE "symbolic",
        map |-> [k \in {Primitive(op, x, y) : x \in DOMAIN a.map, y \in DOMAIN b.map} |->
                   \E x \in DOMAIN a.map, y \in DOMAIN b.map :
                     Primitive(op, x, y) = k /\ a.map[x] /\ b.map[y]]]

negate_IntFF(a) ==
  [a EXCEPT !.map = [k \in {Wrap(-x) : x \in DOMAIN a.map} |-> a.map[Wrap(-k)]]]

-----------------------------------------------------------------------------
\* Comparisons.  An ascending list of pairs is the map itself.

least(m) == CHOOSE k \in DOMAIN m : \A j \in DOMAIN m : k <= j
behead(m) == [k \in DOMAIN m \ {least(m)} |-> m[k]]

RECURSIVE gtf(_, _, _)
gtf(p, a, b) ==
  IF DOMAIN a = {} THEN FALSE
  ELSE IF DOMAIN b = {} THEN p /\ Any(a, DOMAIN a)
  ELSE IF least(b) < least(a) THEN gtf(p \/ b[least(b)], a, behead(b))
  ELSE (p /\ a[least(a)]) \/ gtf(p, behead(a), b)

RECURSIVE gef(_, _, _)
gef(p, a, b) ==
  IF DOMAIN a = {} THEN FALSE
  ELSE IF DOMAIN b = {} THEN p /\ Any(a, DOMAIN a)
  ELSE IF least(b) <= least(a) THEN gef(p \/ b[least(b)], a, behead(b))
  ELSE (p /\ a[least(a)]) \/ gef(p, behead(a), b)

(***************************************************************************)
(* x + 1 and y - 1 wrap at the ends of the range; the lookups before them  *)
(* answer there.                                                           *)
(***************************************************************************)
geqSplit(x, m) == {k \in DOMAIN m : k < Wrap(x + 1)}

\* Mutant of geqLow: the split without the lookup.
geqLowUnguarded(x, m) == Any(m, geqSplit(x, m))
geqLow(x, m) == (\A k \in DOMAIN m : k <= x) \/ Any(m, geqSplit(x, m))
geqHigh(m, y) == (\A k \in DOMAIN m : k >= y) \/ Any(m, {k \in DOMAIN m : k > Wrap(y - 1)})

geq_IntFF(a, b) ==
  CASE unreachable(a) \/ unreachable(b) -> {}
    [] concrete(a) /\ concrete(b) -> {valueOf(a) >= valueOf(b)}
    [] concrete(a) /\ b.class = "symbolic" -> {geqLow(valueOf(a), b.map)}
    [] a.class = "symbolic" /\ concrete(b) -> {geqHigh(a.map, valueOf(b))}
    [] a.class = "symbolic" /\ b.class = "symbolic" -> {gef(FALSE, a.map, b.map)}

gtLow(x, m) == (\A k \in DOMAIN m : k < x) \/ Any(m, {k \in DOMAIN m : k < x})
gtHigh(m, y) == (\A k \in DOMAIN m : k > y) \/ Any(m, {k \in DOMAIN m : k > y})

gt_IntFF(a, b) ==
  CASE unreachable(a) \/ unreachable(b) -> {}
    [] concrete(a) /\ concrete(b) -> {valueOf(a) > valueOf(b)}
    [] concrete(a) /\ b.class = "symbolic" -> {gtLow(valueOf(a), b.map)}
    [] a.class = "symbolic" /\ concrete(b) -> {gtHigh(a.map, valueOf(b))}
    [] a.class = "symbolic" /\ b.class = "symbolic" -> {gtf(FALSE, a.map, b.map)}

leq_IntFF(a, b) == geq_IntFF(b, a)
lt_IntFF(a, b) == gt_IntFF(b, a)
=============================================================================
