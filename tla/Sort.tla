-------------------------------- MODULE Sort --------------------------------
(***************************************************************************)
(* minisat/mtl/Sort.h with the order reduceDB gives it: clauses with their *)
(* size and activity, in an array with indices from 0.  The scans of the   *)
(* partition have no bound of their own: they stop at an element because   *)
(* the order is what it is.                                                *)
(***************************************************************************)
EXTENDS Integers

CONSTANT Cutoff     \* arrays this short are sorted by selection (15)

\* Mutant of reduceDB_lt: clauses of one activity are each before the other.
reduceDB_ltLoose(x, y) == x.size > 2 /\ (y.size = 2 \/ x.activity <= y.activity)
reduceDB_lt(x, y) == x.size > 2 /\ (y.size = 2 \/ x.activity < y.activity)

Swap(a, i, j) == [a EXCEPT ![i] = a[j], ![j] = a[i]]

RECURSIVE Best(_, _, _, _)
Best(a, best_i, j, end) ==
  IF j = end THEN best_i
  ELSE Best(a, IF reduceDB_lt(a[j], a[best_i]) THEN j ELSE best_i, j + 1, end)

RECURSIVE selectionSort(_, _, _)
selectionSort(a, i, end) ==
  IF i >= end - 1 THEN a ELSE selectionSort(Swap(a, i, Best(a, i, i + 1, end)), i + 1, end)

(***************************************************************************)
(* A scan that passes the end of its part of the array, or a partition     *)
(* that leaves one side empty and so is repeated for ever.                 *)
(***************************************************************************)
Broken == [k \in {} |-> 0]

(***************************************************************************)
(* The for(;;) loop on the part [from, end): i goes up past what is below  *)
(* the pivot, j down past what is above it.                                *)
(***************************************************************************)
RECURSIVE Partition(_, _, _, _, _, _)
Partition(a, from, end, pivot, i, j) ==
  LET ups == {k \in i + 1 .. end - 1 : ~reduceDB_lt(a[k], pivot)}
      downs == {k \in from .. j - 1 : ~reduceDB_lt(pivot, a[k])}
      up == CHOOSE k \in ups : \A l \in ups : k <= l
      down == CHOOSE k \in downs : \A l \in downs : k >= l
  IN IF ups = {} \/ downs = {} THEN [array |-> Broken, at |-> from]
     ELSE IF up >= down THEN [array |-> a, at |-> up]
     ELSE Partition(Swap(a, up, down), from, end, pivot, up, down)

RECURSIVE sort(_, _, _)
sort(a, from, end) ==
  IF end - from <= Cutoff THEN selectionSort(a, from, end)
  ELSE LET part == Partition(a, from, end, a[from + (end - from) \div 2], from - 1, end)
       IN IF part.at \notin from + 1 .. end - 1 THEN Broken
          ELSE LET low == sort(part.array, from, part.at)
               IN IF low = Broken THEN Broken ELSE sort(low, part.at, end)
=============================================================================
