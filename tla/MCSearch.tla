------------------------------ MODULE MCSearch ------------------------------
(***************************************************************************)
(* Instances of Search for TLC: every partial formula of fewer than        *)
(* MaxLevels levels that treats two of the assignments, the Twins, alike,  *)
(* and those of MaxLevels levels whose values lie within their guards; and *)
(* of all assignments the formulas whose levels decide less and less.      *)
(***************************************************************************)
EXTENDS Search

CONSTANTS Twins, MaxLevels

Alike(l) == \A s \in {l.p, l.a} : Twins \subseteq s \/ Twins \cap s = {}
Coarse == {l \in Level : Alike(l)}

Tight(levels) == {l \in levels : l.a \subseteq l.p}

Chains(levels) ==
  UNION {[1..n -> levels] : n \in 0..(MaxLevels - 1)} \cup [1..MaxLevels -> Tight(levels)]

MCFormulas ==
  [levels : Chains(Coarse), end : End]
    \cup {f \in [levels : Chains(Level), end : End] : WellFormed(f)}
=============================================================================
