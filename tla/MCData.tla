------------------------------- MODULE MCData -------------------------------
(***************************************************************************)
(* The data structures and algorithms that no other run contains, side by  *)
(* side: a behaviour drives the heap, calls the pure algorithms or builds  *)
(* decision diagrams, and turns to another of the three only where the     *)
(* first has nothing under way.  They share no state.                      *)
(*                                                                         *)
(* Four variables give the heap a third level, and activities 0 .. 2 give  *)
(* ties, strict order and a rescaling that rounds.                         *)
(***************************************************************************)
EXTENDS Heap, Algorithms, Bdd

HeapIdle == Var = {}
CallIdle == call = Idle
BddIdle == exprs = {} /\ answer.kind = "none"

DataInit == Init /\ CallInit /\ BddInit

DataNext ==
  \/ CallIdle /\ BddIdle /\ Next /\ UNCHANGED <<call, bddVars>>
  \/ HeapIdle /\ BddIdle /\ CallNext /\ UNCHANGED <<vars, bddVars>>
  \/ HeapIdle /\ CallIdle /\ BddNext /\ UNCHANGED <<vars, call>>

DataSpec == DataInit /\ [][DataNext]_<<vars, call, bddVars>>
=============================================================================
