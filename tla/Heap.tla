------------------------------- MODULE Heap -------------------------------
(***************************************************************************)
(* The decision order of the bundled SAT solver: the binary heap of        *)
(* minisat/mtl/Heap.h with its table of positions, driven as               *)
(* minisat/core/Solver does.  Decisions take the least element until it is *)
(* unassigned; assigned variables stay in the heap until they come up;     *)
(* backtracking puts the missing ones back; conflict analysis raises an    *)
(* activity, which changes the order UNDER the heap, and then mends the    *)
(* heap at that one variable, or rescales all the activities.  Cdcl.tla    *)
(* keeps only the heap's set of variables.                                 *)
(*                                                                         *)
(* `update', `increase' and `clear' have no caller in the solver.          *)
(***************************************************************************)
EXTENDS Integers, Sequences, FiniteSets

CONSTANTS
  MaxVars,      \* bound: variables made
  MaxActivity,  \* the activity above which all are rescaled (1e100)
  Scale         \* what rescaling divides by (1e100); small values round to 0

ASSUME HeapAssumption == MaxVars \in Nat /\ MaxActivity \in Nat /\ Scale \in Nat \ {0}

VARIABLES
  heap,       \* positions 0 .. size - 1 -> variables
  indices,    \* variables -> their position, -1 when not in the heap
  activity, trail, trail_lim

vars == <<heap, indices, activity, trail, trail_lim>>

Var == DOMAIN activity
Assigned == {trail[k] : k \in DOMAIN trail}
decisionLevel == Len(trail_lim)

left(i) == i * 2 + 1
right(i) == (i + 1) * 2
parent(i) == (i - 1) \div 2

(***************************************************************************)
(* The comparison reads the activities as they are at the call.            *)
(***************************************************************************)
lt(act, x, y) == act[x] > act[y]

(***************************************************************************)
(* A heap value H is the pair of arrays.  `Set' writes one slot of each.   *)
(***************************************************************************)
size(H) == Cardinality(DOMAIN H.heap)
inHeap(H, n) == n \in DOMAIN H.indices /\ H.indices[n] >= 0
Set(H, i, x) == [heap |-> [H.heap EXCEPT ![i] = x], indices |-> [H.indices EXCEPT ![x] = i]]

RECURSIVE Rise(_, _, _, _)
Rise(act, H, x, i) ==
  IF i # 0 /\ lt(act, x, H.heap[parent(i)])
    THEN Rise(act, Set(H, i, H.heap[parent(i)]), x, parent(i))
    ELSE Set(H, i, x)
percolateUp(act, H, i) == Rise(act, H, H.heap[i], i)

Child(act, H, i) ==
  IF right(i) < size(H) /\ lt(act, H.heap[right(i)], H.heap[left(i)]) THEN right(i) ELSE left(i)

RECURSIVE Sink(_, _, _, _)
Sink(act, H, x, i) ==
  IF left(i) < size(H) /\ lt(act, H.heap[Child(act, H, i)], x)
    THEN Sink(act, Set(H, i, H.heap[Child(act, H, i)]), x, Child(act, H, i))
    ELSE Set(H, i, x)
percolateDown(act, H, i) == Sink(act, H, H.heap[i], i)

\* Mutant of decrease: the heap is not mended after an activity was raised.
decreaseNot(act, H, n) == H
decrease(act, H, n) == percolateUp(act, H, H.indices[n])

(***************************************************************************)
(* The table of positions grows to n + 1 with -1.                          *)
(***************************************************************************)
growTo(t, n) == [k \in DOMAIN t \cup 0 .. n |-> IF k \in DOMAIN t THEN t[k] ELSE -1]

insert(act, H, n) ==
  percolateUp(act, [heap |-> [k \in 0 .. size(H) |-> IF k < size(H) THEN H.heap[k] ELSE n],
                    indices |-> [growTo(H.indices, n) EXCEPT ![n] = size(H)]], size(H))

(***************************************************************************)
(* The last element goes to the root; its position is written before the   *)
(* removed one's is erased, since the two may be the same.                 *)
(***************************************************************************)
removeMin(act, H) ==
  LET last == H.heap[size(H) - 1]
      R == [heap |-> [k \in 0 .. size(H) - 2 |-> IF k = 0 THEN last ELSE H.heap[k]],
            indices |-> [H.indices EXCEPT ![last] = 0, ![H.heap[0]] = -1]]
  IN IF size(R) > 1 THEN percolateDown(act, R, 0) ELSE R

(***************************************************************************)
(* build(ns), for the ascending sequence of the variables in S.            *)
(***************************************************************************)
Rank(S, v) == Cardinality({w \in S : w < v})
RECURSIVE Heapify(_, _, _)
Heapify(act, H, i) == IF i < 0 THEN H ELSE Heapify(act, percolateDown(act, H, i), i - 1)
build(act, H, S) ==
  Heapify(act, [heap |-> [k \in 0 .. Cardinality(S) - 1 |-> CHOOSE v \in S : Rank(S, v) = k],
                indices |-> [v \in DOMAIN H.indices |-> IF v \in S THEN Rank(S, v) ELSE -1]],
          Cardinality(S) \div 2 - 1)

Order == [heap |-> heap, indices |-> indices]
Becomes(H) == heap' = H.heap /\ indices' = H.indices

-----------------------------------------------------------------------------
Init ==
  /\ heap = <<>> /\ indices = <<>>
  /\ activity = <<>> /\ trail = <<>> /\ trail_lim = <<>>

insertVarOrder(act, H, x) == IF inHeap(H, x) THEN H ELSE insert(act, H, x)

(***************************************************************************)
(* Between two solves.  Every variable may be decided on.                  *)
(***************************************************************************)
newVar ==
  /\ decisionLevel = 0 /\ Cardinality(Var) < MaxVars
  /\ activity' = [v \in 0 .. Cardinality(Var) |-> IF v \in Var THEN activity[v] ELSE 0]
  /\ Becomes(insertVarOrder(activity', Order, Cardinality(Var)))
  /\ UNCHANGED <<trail, trail_lim>>

(***************************************************************************)
(* pickBranchLit: drop the assigned ones; next = -1 if the heap runs out.  *)
(***************************************************************************)
RECURSIVE pickBranchLit(_)
pickBranchLit(H) ==
  IF size(H) = 0 THEN [order |-> H, next |-> -1]
  ELSE IF H.heap[0] \in Assigned THEN pickBranchLit(removeMin(activity, H))
  ELSE [order |-> removeMin(activity, H), next |-> H.heap[0]]

(***************************************************************************)
(* cancelUntil(lvl) unassigns from the end of the trail.                   *)
(***************************************************************************)
RECURSIVE Reinsert(_, _, _)
Reinsert(H, c, from) ==
  IF c <= from THEN H ELSE Reinsert(insertVarOrder(activity, H, trail[c]), c - 1, from)
cancelUntil(H, lvl) ==
  IF decisionLevel > lvl
    THEN /\ Becomes(Reinsert(H, Len(trail), trail_lim[lvl + 1]))
         /\ trail' = SubSeq(trail, 1, trail_lim[lvl + 1])
         /\ trail_lim' = SubSeq(trail_lim, 1, lvl)
    ELSE Becomes(H) /\ UNCHANGED <<trail, trail_lim>>

decide ==
  \E r \in {pickBranchLit(Order)} :
    /\ r.next # -1
    /\ Becomes(r.order)
    /\ trail' = Append(trail, r.next)
    /\ trail_lim' = Append(trail_lim, Len(trail))
    /\ UNCHANGED activity

(***************************************************************************)
(* No decision is left: the search reports a model and backtracks to the   *)
(* root (solve_).                                                          *)
(***************************************************************************)
modelFound ==
  \E r \in {pickBranchLit(Order)} :
    /\ r.next = -1
    /\ cancelUntil(r.order, 0)
    /\ UNCHANGED activity

(***************************************************************************)
(* Propagation assigns any variable and leaves the heap alone.             *)
(***************************************************************************)
uncheckedEnqueue ==
  /\ \E v \in Var \ Assigned : trail' = Append(trail, v)
  /\ UNCHANGED <<heap, indices, activity, trail_lim>>

backtrack ==
  /\ \E lvl \in 0 .. decisionLevel - 1 : cancelUntil(Order, lvl)
  /\ UNCHANGED activity

(***************************************************************************)
(* Conflict analysis raises the activity of a variable assigned above the  *)
(* root level.                                                             *)
(***************************************************************************)
Rescaled(act) ==
  IF \E v \in DOMAIN act : act[v] > MaxActivity THEN [v \in DOMAIN act |-> act[v] \div Scale] ELSE act

varBumpActivity ==
  /\ decisionLevel > 0
  /\ \E k \in trail_lim[1] + 1 .. Len(trail) :
       /\ activity' = Rescaled([activity EXCEPT ![trail[k]] = @ + 1])
       /\ Becomes(IF inHeap(Order, trail[k]) THEN decrease(activity', Order, trail[k]) ELSE Order)
  /\ UNCHANGED <<trail, trail_lim>>

(***************************************************************************)
(* simplify() at the root.                                                 *)
(***************************************************************************)
rebuildOrderHeap ==
  /\ decisionLevel = 0
  /\ Becomes(build(activity, Order, Var \ Assigned))
  /\ UNCHANGED <<activity, trail, trail_lim>>

Next ==
  \/ newVar \/ decide \/ modelFound \/ uncheckedEnqueue \/ backtrack \/ varBumpActivity
  \/ rebuildOrderHeap

Spec == Init /\ [][Next]_vars

-----------------------------------------------------------------------------
Abs == INSTANCE OrderSpec

(***************************************************************************)
(* Every decision the heap yields is a most active one of all unassigned   *)
(* variables, and the search reports a model only when none is unassigned, *)
(* through any sequence of bumps, rescalings, lazy removals, reinsertions  *)
(* and rebuilds: position table and order agree at every call              *)
(* (Heap.h percolateUp/percolateDown/insert/removeMin/build, Solver.cc     *)
(* pickBranchLit and cancelUntil, Solver.h varBumpActivity).               *)
(***************************************************************************)
DecidesMostActive == Abs!Spec
=============================================================================
