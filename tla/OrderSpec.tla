----------------------------- MODULE OrderSpec -----------------------------
(***************************************************************************)
(* What the search of the bundled SAT solver expects of its decision       *)
(* order: a decision takes a most active one of ALL unassigned variables,  *)
(* and there is none to take only when every variable has a value.  There  *)
(* is no heap here, only the activities and the trail.                     *)
(***************************************************************************)
EXTENDS Integers, Sequences

VARIABLES
  activity,   \* the activity of each variable made so far
  trail,      \* the assigned variables, in order of assignment
  trail_lim   \* the length of the trail at each decision

vars == <<activity, trail, trail_lim>>

Var == DOMAIN activity
Unassigned == {v \in Var : \A k \in DOMAIN trail : trail[k] # v}
MostActive == {v \in Unassigned : \A w \in Unassigned : activity[w] <= activity[v]}

Init == activity = <<>> /\ trail = <<>> /\ trail_lim = <<>>

NewVar ==
  /\ trail_lim = <<>>
  /\ \E v \in DOMAIN activity' \ Var : DOMAIN activity' = Var \cup {v}
  /\ \A v \in DOMAIN activity' : activity'[v] = IF v \in Var THEN activity[v] ELSE 0
  /\ UNCHANGED <<trail, trail_lim>>

Decide ==
  /\ \E v \in MostActive : trail' = Append(trail, v)
  /\ trail_lim' = Append(trail_lim, Len(trail))
  /\ UNCHANGED activity

Imply ==
  /\ \E v \in Unassigned : trail' = Append(trail, v)
  /\ UNCHANGED <<activity, trail_lim>>

Backtrack ==
  /\ \E l \in DOMAIN trail_lim : /\ trail' = SubSeq(trail, 1, trail_lim[l])
                                 /\ trail_lim' = SubSeq(trail_lim, 1, l - 1)
  /\ UNCHANGED activity

(***************************************************************************)
(* One variable may overtake others; no other two change places, although  *)
(* rescaling may make them equal.                                          *)
(***************************************************************************)
Bump ==
  /\ DOMAIN activity' = Var
  /\ \E v \in Var : \A x \in Var : \A y \in Var \ {v} :
        activity[y] <= activity[x] => activity'[y] <= activity'[x]
  /\ UNCHANGED <<trail, trail_lim>>

(***************************************************************************)
(* The search ends with a model and gives up every decision.               *)
(***************************************************************************)
Complete ==
  /\ Unassigned = {}
  /\ trail' = (IF trail_lim = <<>> THEN trail ELSE SubSeq(trail, 1, trail_lim[1]))
  /\ trail_lim' = <<>>
  /\ UNCHANGED activity

Next == NewVar \/ Decide \/ Imply \/ Backtrack \/ Bump \/ Complete

Spec == Init /\ [][Next]_vars
=============================================================================
