------------------------------ MODULE CdclInv ------------------------------
(***************************************************************************)
(* The inductive invariant of Cdcl, in named parts: what every step of the *)
(* solver relies on and leaves behind, stated for any inputs.  Facts on    *)
(* places and counts are put as facts on elements, which the proofs use    *)
(* directly.                                                               *)
(***************************************************************************)
EXTENDS Cdcl

ClauseSet == [lits : Seq(Lit), learnt : BOOLEAN, mark : 0 .. 1]
WatcherSet == [cref : Nat, blocker : Lit]
ListSet == [p : Lit \cup {-1}, i : Nat, kept : Seq(WatcherSet)]
AnalysisSet ==
  [p : Lit \cup {-1}, index : Nat, pathC : Nat, out : Seq(Lit \cup {-1}), kept : Seq(Lit \cup {-1}),
   i : Nat, toclear : Seq(Lit \cup {-1}), stack : Seq(Lit \cup {-1}), top : Nat, levels : SUBSET Nat]

(***************************************************************************)
(* The values the variables take.                                          *)
(***************************************************************************)
VarsType == nVars \in Nat /\ DOMAIN assigns = Var
AssignmentType ==
  /\ assigns \in [Var -> 0 .. 2] /\ polarity \in [Var -> 0 .. 1]
  /\ vardata \in [Var -> [reason : Nat, level : Nat]]
  /\ trail \in Seq(Lit) /\ trail_lim \in Seq(Nat) /\ qhead \in Nat
  /\ order_heap \subseteq Var
DatabaseType ==
  /\ ca \in Seq(ClauseSet) /\ clauses \subseteq DOMAIN ca /\ learnts \subseteq DOMAIN ca
  /\ watches \in [Lit -> Seq(WatcherSet)] /\ dirty \subseteq Lit
ScratchType ==
  /\ ok \in BOOLEAN /\ confl \in Nat /\ seen \subseteq Var
  /\ ws \in ListSet /\ an \in AnalysisSet

TypeOK == VarsType /\ AssignmentType /\ DatabaseType /\ ScratchType

(***************************************************************************)
(* Where the program is, and where propagate and the collector return to.  *)
(***************************************************************************)
InPropagate == pc \in {"propagate", "facts", "watches"}
InMinimize == pc \in {"minimize", "litRedundant"}

Returns ==
  /\ pc \in {"idle", "propagate", "facts", "watches", "addClause", "simplify", "garbage", "solve",
             "search", "analyze", "minimize", "litRedundant", "reduce", "decide", "l_False", "unsat"}
  /\ stack \in IF InPropagate THEN {<<"addClause">>, <<"simplify", "solve">>, <<"search">>,
                                    <<"simplify", "reduce">>}
               ELSE IF pc = "simplify" THEN {<<"solve">>, <<"reduce">>}
               ELSE IF pc = "garbage" THEN {<<"solve">>, <<"reduce">>, <<"decide">>}
               ELSE {<<>>}

AtRoot ==
  \/ pc \in {"idle", "addClause", "unsat", "simplify", "solve", "l_False"}
  \/ InPropagate /\ stack # <<"search">>
  \/ pc = "garbage" /\ stack # <<"decide">>

(***************************************************************************)
(* The queue of facts: empty but in propagate.                             *)
(***************************************************************************)
Control ==
  /\ Returns
  /\ AtRoot => decisionLevel = 0
  /\ pc \in {"analyze", "minimize", "litRedundant"} => decisionLevel > 0
  /\ pc \notin {"idle", "unsat", "l_False"} => ok
  /\ pc = "unsat" => ~ok
  /\ qhead <= nAssigns
  /\ decisionLevel > 0 => trail_lim[decisionLevel] <= qhead
  /\ ok /\ ~InPropagate /\ pc # "l_False" => qhead = nAssigns
  /\ pc \notin {"facts", "watches", "addClause", "simplify", "search", "analyze"} => confl = CRef_Undef
  /\ pc = "facts" /\ confl # CRef_Undef => qhead = nAssigns
  /\ pc \in {"facts", "watches"} => dirty = {}

(***************************************************************************)
(* propagate works on the list of a true literal of the current level.     *)
(***************************************************************************)
Working ==
  /\ pc # "watches" => ws = NoList
  /\ pc = "watches" =>
       /\ ws.i > 0
       /\ \E k \in 1 .. qhead : trail[k] = ws.p
       /\ level(var(ws.p)) = decisionLevel
       /\ confl # CRef_Undef => ws.i > Len(watches[ws.p]) /\ qhead = nAssigns

(***************************************************************************)
(* The trail T and its levels, given by L and in D: it is the assignment A *)
(* in order.                                                               *)
(***************************************************************************)
TrailIn(A, D, T, L) ==
  /\ \A k \in DOMAIN T : A[var(T[k])] = sign(T[k])
  /\ \A j, k \in DOMAIN T : var(T[j]) = var(T[k]) => j = k
  /\ \A v \in DOMAIN A : A[v] # l_Undef => \E k \in DOMAIN T : var(T[k]) = v
  /\ \A l \in DOMAIN L : L[l] < Len(T)
  /\ \A l, m \in DOMAIN L : l < m => L[l] < L[m]
  /\ \A k \in DOMAIN T :
       /\ D[var(T[k])].level <= Len(L)
       /\ \A l \in DOMAIN L : l <= D[var(T[k])].level <=> L[l] < k
Trail == TrailIn(assigns, vardata, trail, trail_lim)

(***************************************************************************)
(* Clauses of the database C, those of the references S, have two literals *)
(* at least, of distinct variables.                                        *)
(***************************************************************************)
Distinct(c) == \A i, j \in DOMAIN c : var(c[i]) = var(c[j]) => i = j
ClausesIn(C, S) == \A cr \in S : C[cr].mark = 0 /\ Len(C[cr].lits) >= 2 /\ Distinct(C[cr].lits)
Clauses == ClausesIn(ca, Live)

(***************************************************************************)
(* The clause of a conflict, and the reason of the k-th fact.              *)
(***************************************************************************)
Conflicting(cr) ==
  /\ cr \in Live
  /\ \A j \in DOMAIN lits(cr) : value(lits(cr)[j]) = l_False
  /\ decisionLevel > 0 => \E j \in DOMAIN lits(cr) : level(var(lits(cr)[j])) = decisionLevel
Conflict == confl # CRef_Undef /\ pc # "analyze" => Conflicting(confl)

Implies(c, T, k) ==
  /\ c[1] = T[k]
  /\ \A j \in 2 .. Len(c) : \E m \in 1 .. k - 1 : T[m] = neg(c[j])
ReasonedIn(C, S, D, T, L) ==
  \A k \in DOMAIN T :
    LET d == D[var(T[k])]
    IN IF d.reason = CRef_Undef THEN d.level = 0 \/ L[d.level] = k - 1
       ELSE d.reason \in S /\ Implies(C[d.reason].lits, T, k)
Reasoned == ReasonedIn(ca, Live, vardata, trail, trail_lim)

(***************************************************************************)
(* Each list of W has a clause at most once, and the clauses it is watched *)
(* by.                                                                     *)
(***************************************************************************)
Watched(l, cr) == \E k \in DOMAIN l : l[k].cref = cr
WatchesIn(W, C, S, dirt) ==
  /\ \A p \in DOMAIN W : \A j, k \in DOMAIN W[p] : W[p][j].cref = W[p][k].cref => j = k
  /\ \A cr \in S : \A p \in DOMAIN W : Watched(W[p], cr) <=> p \in {neg(C[cr].lits[1]), neg(C[cr].lits[2])}
  /\ \A p \in DOMAIN W : \A k \in DOMAIN W[p] :
       LET w == W[p][k]
       IN /\ w.cref \in DOMAIN C /\ \E j \in DOMAIN C[w.cref].lits : C[w.cref].lits[j] = w.blocker
          /\ w.cref \in S \/ (C[w.cref].mark = 1 /\ p \in dirt)
ListsOf(P, W, w) == [p \in P |-> IF w.p = p THEN w.kept \o SubSeq(W[p], w.i, Len(W[p])) ELSE W[p]]
Lists == ListsOf(Lit, watches, ws)
Watches == WatchesIn(Lists, ca, Live, dirty)

(***************************************************************************)
(* analyze: the literals below the current level are in `out', those of it *)
(* are marked and counted.                                                 *)
(***************************************************************************)
FalseBelow(q) == value(q) = l_False /\ level(var(q)) > 0 /\ level(var(q)) < decisionLevel
Here == {k \in 1 .. an.index : var(trail[k]) \in seen /\ level(var(trail[k])) = decisionLevel}
Below(out) ==
  /\ Len(out) > 0
  /\ \A k \in 2 .. Len(out) : out[k] \in Lit /\ FalseBelow(out[k])
  /\ \A j, k \in 2 .. Len(out) : var(out[j]) = var(out[k]) => j = k
Analysis ==
  pc = "analyze" =>
    /\ Below(an.out)
    /\ \A k \in 2 .. Len(an.out) : var(an.out[k]) \in seen
    /\ \A v \in seen : \/ \E k \in 2 .. Len(an.out) : var(an.out[k]) = v
                       \/ \E k \in Here : var(trail[k]) = v
    /\ an.pathC = Cardinality(Here)
    /\ an.p = -1 => an.index = nAssigns /\ seen = {} /\ Conflicting(confl)
    /\ an.p # -1 =>
         /\ an.pathC > 0 /\ an.index < nAssigns
         /\ an.p = trail[an.index + 1] /\ level(var(an.p)) = decisionLevel
         /\ confl = reason(var(an.p)) /\ confl # CRef_Undef

(***************************************************************************)
(* The learnt clause while it is minimized.                                *)
(***************************************************************************)
Minimization ==
  InMinimize =>
    /\ Below(an.out)
    /\ an.out[1] \in Lit /\ value(an.out[1]) = l_False /\ level(var(an.out[1])) = decisionLevel
    /\ an.i > 1 /\ an.i <= Len(an.out) + 1
    /\ pc = "litRedundant" => an.i <= Len(an.out)
    /\ Len(an.kept) > 0 /\ an.kept[1] = an.out[1]
    /\ \A j \in 2 .. Len(an.kept) : \E k \in 2 .. an.i - 1 : an.kept[j] = an.out[k]
    /\ \A j, k \in 2 .. Len(an.kept) : var(an.kept[j]) = var(an.kept[k]) => j = k
    /\ an.top <= Len(an.toclear)
    /\ \A v \in seen : \E j \in DOMAIN an.toclear : var(an.toclear[j]) = v
    /\ pc = "litRedundant" =>
         \A j \in DOMAIN an.stack : LET q == an.stack[j]
                                    IN q \in Lit /\ value(q) = l_False /\ reason(var(q)) # CRef_Undef
Cleared == pc \notin {"analyze", "minimize", "litRedundant"} => seen = {}

Structure ==
  /\ TypeOK /\ Control /\ Working /\ Trail /\ Clauses /\ Conflict /\ Reasoned /\ Watches
  /\ Analysis /\ Minimization /\ Cleared

(***************************************************************************)
(* The invariant of the two watched literals: a watched literal that was   *)
(* false before the current level, or that propagate has been through, is  *)
(* made good by a true literal that will not be undone before it.          *)
(***************************************************************************)
Settled == ok /\ confl = CRef_Undef /\ pc \notin {"minimize", "litRedundant", "l_False"}
Processed(q) == \E k \in 1 .. qhead : trail[k] = neg(q)
Pending(cr, q) ==
  /\ pc = "watches" /\ neg(q) = ws.p
  /\ \E k \in ws.i .. Len(watches[ws.p]) : watches[ws.p][k].cref = cr
MadeGood(cr, q) ==
  \E j \in DOMAIN lits(cr) : value(lits(cr)[j]) = l_True /\ level(var(lits(cr)[j])) <= level(var(q))
Due(cr, q) ==
  value(q) = l_False /\ (level(var(q)) < decisionLevel \/ (Settled /\ Processed(q) /\ ~Pending(cr, q)))
TwoWatched == \A cr \in Live : \A i \in 1 .. 2 : Due(cr, lits(cr)[i]) => MadeGood(cr, lits(cr)[i])

(***************************************************************************)
(* What is entailed.  A satisfying assignment makes the clauses and the    *)
(* facts of level 0 true; a conflict with none left is the end of it; the  *)
(* clause under analysis and the learnt clause are consequences.           *)
(***************************************************************************)
Model(A) == A \in Abs!Assignments(nVars) /\ Abs!Satisfies(A, added)
H(p, A) == Abs!Holds(p, A)
Typed == added \subseteq SUBSET Lit
Resolvent(A) ==
  \/ \E k \in 2 .. Len(an.out) : H(an.out[k], A)
  \/ \E k \in Here : ~H(trail[k], A)
  \/ ~H(an.p, A)
DatabaseHolds(A) == \A cr \in Live : \E j \in DOMAIN lits(cr) : H(lits(cr)[j], A)
RootHolds(A) == \A k \in DOMAIN trail : level(var(trail[k])) = 0 => H(trail[k], A)
AnalysisHolds(A) ==
  /\ pc = "analyze" /\ an.p # -1 => Resolvent(A)
  /\ InMinimize => \E k \in DOMAIN an.out : H(an.out[k], A)
Follows(A) == ok /\ pc # "l_False" /\ DatabaseHolds(A) /\ RootHolds(A) /\ AnalysisHolds(A)
Sound == \A A \in Abs!Assignments(nVars) : Abs!Satisfies(A, added) => Follows(A)

(***************************************************************************)
(* What minimization has dropped follows from what it has kept: a marked   *)
(* variable is in the clause or its reason has only marked variables and   *)
(* facts of level 0.  What litRedundant has marked for the literal it is   *)
(* at counts only if it succeeds.                                          *)
(***************************************************************************)
Explained(v, S) ==
  /\ reason(v) # CRef_Undef
  /\ \A j \in 2 .. Len(lits(reason(v))) : LET u == var(lits(reason(v))[j]) IN u \in S \/ level(u) = 0
Remains(v) ==
  \/ \E j \in 2 .. Len(an.kept) : var(an.kept[j]) = v
  \/ \E k \in an.i .. Len(an.out) : var(an.out[k]) = v
Tentative == IF pc = "litRedundant" THEN {var(an.toclear[j]) : j \in an.top + 1 .. Len(an.toclear)} ELSE {}
OnStack(v) == pc = "litRedundant" /\ \E j \in DOMAIN an.stack : var(an.stack[j]) = v
Redundancy ==
  InMinimize =>
    /\ \A v \in seen : assigns[v] # l_Undef
    /\ \A k \in 2 .. Len(an.out) : var(an.out[k]) \in seen \ Tentative
    /\ \A v \in seen \ Tentative : Remains(v) \/ Explained(v, seen \ Tentative)
    /\ \A v \in Tentative : OnStack(v) \/ Explained(v, seen)
    /\ pc = "litRedundant" => OnStack(var(an.out[an.i])) \/ Explained(var(an.out[an.i]), seen)

Soundness == Typed /\ Sound /\ Redundancy

(***************************************************************************)
(* A clause that was added is kept, or part of it is, or it is true; every *)
(* unassigned variable can still be decided on; and a check is being       *)
(* answered exactly while the solver is at it.                             *)
(***************************************************************************)
Tautology(S) == \E p \in S : neg(p) \in S
TrueForGood(S) == \E k \in DOMAIN trail : trail[k] \in S /\ level(var(trail[k])) = 0
Represented(S) == \E cr \in clauses : \A j \in DOMAIN lits(cr) : lits(cr)[j] \in S
Adds == ok => \A S \in added : Tautology(S) \/ TrueForGood(S) \/ Represented(S)
Apart == clauses \cap learnts = {}
Heap == \A v \in Var : assigns[v] = l_Undef => v \in order_heap
Adding == pc = "addClause" \/ (InPropagate /\ stack = <<"addClause">>)
Asked ==
  /\ pc = "idle" => answer # "asked"
  /\ pc # "idle" /\ ~Adding => answer = "asked"
  /\ Adding => answer # "asked" /\ answer # "sat"
Answering == Adds /\ Apart /\ Heap /\ Asked
=============================================================================
