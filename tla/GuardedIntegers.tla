-------------------------- MODULE GuardedIntegers --------------------------
(***************************************************************************)
(* Integers for a backend that has none (Smten.Runtime.Integers): a list   *)
(* of a formula and a value each.  As in Bits.tla, a formula is its value  *)
(* under one assignment; exactly one guard of a list holds.  Free integers *)
(* are errors in Integers.hs.                                              *)
(***************************************************************************)
EXTENDS Integers, Sequences

integer(i) == <<[guard |-> TRUE, value |-> i]>>

Join(p, xs) == [k \in DOMAIN xs |-> [xs[k] EXCEPT !.guard = p /\ @]]
ite_integer(p, a, b) == Join(p, a) \o Join(~p, b)

\* The pairs of [ax, bx | ax <- a, bx <- b], by their place in the list.
Pairs(a, b) ==
  [k \in 1 .. Len(a) * Len(b) |->
     [x |-> a[(k - 1) \div Len(b) + 1], y |-> b[((k - 1) % Len(b)) + 1]]]

\* ibprim: whether some pair that holds is related.
eq_integer(a, b) ==
  \E k \in DOMAIN Pairs(a, b) :
    LET q == Pairs(a, b)[k] IN q.x.guard /\ q.y.guard /\ q.x.value = q.y.value
leq_integer(a, b) ==
  \E k \in DOMAIN Pairs(a, b) :
    LET q == Pairs(a, b)[k] IN q.x.guard /\ q.y.guard /\ q.x.value <= q.y.value

\* iiprim: one element for each pair.
add_integer(a, b) ==
  [k \in DOMAIN Pairs(a, b) |->
     LET q == Pairs(a, b)[k]
     IN [guard |-> q.x.guard /\ q.y.guard, value |-> q.x.value + q.y.value]]
sub_integer(a, b) ==
  [k \in DOMAIN Pairs(a, b) |->
     LET q == Pairs(a, b)[k]
     IN [guard |-> q.x.guard /\ q.y.guard, value |-> q.x.value - q.y.value]]
=============================================================================
