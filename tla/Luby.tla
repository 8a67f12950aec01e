-------------------------------- MODULE Luby --------------------------------
(***************************************************************************)
(* The restart intervals of the SAT solver: luby(y, x) of core/Solver.cc   *)
(* is y to the power luby[x] here.                                         *)
(***************************************************************************)
EXTENDS Integers

(***************************************************************************)
(* The first loop: the smallest finite subsequence 1, 3, 7, 15, ... with   *)
(* more than x elements, as its index seq and its size.                    *)
(***************************************************************************)
Fit[x \in Nat, seq \in Nat, size \in Nat] ==
  IF size < x + 1 THEN Fit[x, seq + 1, 2 * size + 1] ELSE <<seq, size>>

(***************************************************************************)
(* The second loop: halve the subsequence until x is its last element.     *)
(***************************************************************************)
Shrink[x \in Nat, seq \in Int, size \in Nat] ==
  IF size - 1 = x THEN seq
  ELSE Shrink[x % ((size - 1) \div 2), seq - 1, (size - 1) \div 2]

luby[x \in Nat] == Shrink[x, Fit[x, 0, 1][1], Fit[x, 0, 1][2]]
=============================================================================
