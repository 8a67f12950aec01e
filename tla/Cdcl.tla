-------------------------------- MODULE Cdcl --------------------------------
(***************************************************************************)
(* The bundled SAT solver: core/Solver.cc and its headers.  The solver is  *)
(* one sequential program; an action is one turn of one of its loops, so   *)
(* that the invariants are looked at inside propagate and analyze as well  *)
(* as between calls.  `pc' says where the program is and `stack' where     *)
(* propagate returns to.                                                   *)
(*                                                                         *)
(* Activities are abstracted: pickBranchLit takes any unassigned variable  *)
(* of the heap (Heap.tla is the heap itself), reduceDB any clauses its     *)
(* sort and activity bound can select.  The solver is called the way       *)
(* minisat.cc calls it: every variable is a decision variable, and there   *)
(* are no assumptions, budgets or interrupts.                              *)
(***************************************************************************)
EXTENDS Luby, SequencesExt

CONSTANTS
  Inputs,            \* what to try: [opts |-> [ccmin_mode, phase_saving], calls |-> a sequence]
  LevelBits,         \* width of an abstract level (32)
  restart_first,     \* conflicts before the first restart (100)
  MaxRestarts,       \* bound: restarts after which a search runs to its end
  learntsize_factor, \* <<n, d>>: n/d learnt clauses per clause (1/3)
  garbage_frac       \* <<n, d>>: wasted part that triggers a collection (1/5)

ASSUME CdclAssumption ==
  /\ \A i \in Inputs : i.opts.ccmin_mode \in 0 .. 2 /\ i.opts.phase_saving \in 0 .. 2
  /\ LevelBits \in Nat \ {0} /\ restart_first \in Nat \ {0} /\ MaxRestarts \in Nat

VARIABLES
  opts,              \* the options, fixed at the start
  calls,             \* the calls still to come
  added,             \* history: the clauses passed to addClause, as sets
  answer,            \* the answer to the last check
  ok, clauses, learnts, ca, watches, dirty,
  assigns, vardata, trail, trail_lim, qhead, order_heap, polarity,
  simpDB_assigns, simpDB_props, max_learnts, conflictC, curr_restarts,
  model, seen,
  pc, stack, confl,
  ws,                \* propagate's inner loop: the list, its index i, what is kept
  an                 \* the locals of analyze and litRedundant

input == <<opts, calls, added, answer>>
db == <<ok, clauses, learnts, ca, dirty>>
assignment == <<assigns, vardata, trail, trail_lim, order_heap, polarity>>
limits == <<simpDB_assigns, max_learnts, conflictC, curr_restarts>>
scratch == <<seen, an>>
vars == <<input, db, watches, assignment, qhead, limits, simpDB_props, model,
          scratch, pc, stack, confl, ws>>

-----------------------------------------------------------------------------
(***************************************************************************)
(* Literals and lifted booleans, by their representation.                  *)
(***************************************************************************)
var(p) == p \div 2
sign(p) == p % 2
neg(p) == IF p % 2 = 0 THEN p + 1 ELSE p - 1
l_True == 0
l_False == 1
l_Undef == 2

CRef_Undef == 0
nVars == Cardinality(DOMAIN assigns)
Var == 0 .. nVars - 1
Lit == 0 .. 2 * nVars - 1

value(p) == IF assigns[var(p)] = l_Undef THEN l_Undef ELSE (assigns[var(p)] + sign(p)) % 2
reason(v) == vardata[v].reason
level(v) == vardata[v].level
decisionLevel == Len(trail_lim)
nAssigns == Len(trail)
abstractLevel(v) == level(v) % LevelBits
lits(cr) == ca[cr].lits
Live == clauses \cup learnts

Ascending(S) == [k \in 1 .. Cardinality(S) |-> CHOOSE x \in S : Cardinality({y \in S : y < x}) = k - 1]
Selected(s, I) == LET a == Ascending(I) IN [k \in 1 .. Cardinality(I) |-> s[a[k]]]
satisfied(c) == \E j \in DOMAIN c : value(c[j]) = l_True
locked(cr) == value(lits(cr)[1]) = l_True /\ reason(var(lits(cr)[1])) = cr

NoList == [p |-> -1, i |-> 0, kept |-> <<>>]
NoAnalysis == [p |-> -1, index |-> 0, pathC |-> 0, out |-> <<>>, kept |-> <<>>, i |-> 0,
               toclear |-> <<>>, stack |-> <<>>, top |-> 0, levels |-> {}]

Init ==
  /\ \E i \in Inputs : opts = i.opts /\ calls = i.calls
  /\ added = {} /\ answer = "none"
  /\ ok = TRUE /\ clauses = {} /\ learnts = {} /\ ca = <<>>
  /\ watches = [p \in {} |-> <<>>] /\ dirty = {}
  /\ assigns = [v \in {} |-> l_Undef] /\ vardata = [v \in {} |-> 0]
  /\ trail = <<>> /\ trail_lim = <<>> /\ qhead = 0
  /\ order_heap = {} /\ polarity = [v \in {} |-> 0]
  /\ simpDB_assigns = -1 /\ simpDB_props = 0
  /\ max_learnts = 0 /\ conflictC = 0 /\ curr_restarts = 0
  /\ model = <<>> /\ seen = {}
  /\ pc = "idle" /\ stack = <<>> /\ confl = CRef_Undef
  /\ ws = NoList /\ an = NoAnalysis

-----------------------------------------------------------------------------
(***************************************************************************)
(* The assignment after p is enqueued, on top of given tables.             *)
(***************************************************************************)
Enqueued(p, from, lvl, A, D, T) ==
  [assigns |-> [A EXCEPT ![var(p)] = sign(p)],
   vardata |-> [D EXCEPT ![var(p)] = [reason |-> from, level |-> lvl]],
   trail |-> Append(T, p)]

uncheckedEnqueue(p, from, lvl, A, D, T) ==
  LET e == Enqueued(p, from, lvl, A, D, T)
  IN assigns' = e.assigns /\ vardata' = e.vardata /\ trail' = e.trail

(***************************************************************************)
(* cancelUntil: what each table is after the levels beyond lvl are undone. *)
(* The reason and the level of an undone variable stay behind.             *)
(***************************************************************************)
Kept(lvl) == IF decisionLevel > lvl THEN trail_lim[lvl + 1] ELSE nAssigns
Undone(lvl) == {var(trail[k]) : k \in Kept(lvl) + 1 .. nAssigns}
AssignsAt(lvl) == [v \in Var |-> IF v \in Undone(lvl) THEN l_Undef ELSE assigns[v]]
TrailAt(lvl) == SubSeq(trail, 1, Kept(lvl))
SavedPhase(k) ==
  \/ opts.phase_saving > 1
  \/ opts.phase_saving = 1 /\ k > trail_lim[decisionLevel] + 1

\* Mutant of cancelUntilRest: undone variables do not return to the heap.
cancelUntilLost(lvl) ==
  /\ polarity' = [v \in Var |->
       IF \E k \in Kept(lvl) + 1 .. nAssigns : var(trail[k]) = v /\ SavedPhase(k)
       THEN assigns[v] ELSE polarity[v]]
  /\ order_heap' = order_heap
  /\ qhead' = IF decisionLevel > lvl THEN Kept(lvl) ELSE qhead
  /\ trail_lim' = SubSeq(trail_lim, 1, IF decisionLevel > lvl THEN lvl ELSE decisionLevel)

cancelUntilRest(lvl) ==
  /\ polarity' = [v \in Var |->
       IF \E k \in Kept(lvl) + 1 .. nAssigns : var(trail[k]) = v /\ SavedPhase(k)
       THEN assigns[v] ELSE polarity[v]]
  /\ order_heap' = order_heap \cup Undone(lvl)
  /\ qhead' = IF decisionLevel > lvl THEN Kept(lvl) ELSE qhead
  /\ trail_lim' = SubSeq(trail_lim, 1, IF decisionLevel > lvl THEN lvl ELSE decisionLevel)

cancelUntil(lvl) ==
  /\ assigns' = AssignsAt(lvl) /\ trail' = TrailAt(lvl)
  /\ cancelUntilRest(lvl) /\ vardata' = vardata

(***************************************************************************)
(* The clause database: allocation appends to the region, and both watched *)
(* literals get a watcher whose blocker is the other one.                  *)
(***************************************************************************)
Alloc(ps, learnt) == Append(ca, [lits |-> ps, learnt |-> learnt, mark |-> 0])
attachClause(cr, c) ==
  watches' = [watches EXCEPT
    ![neg(c[1])] = Append(@, [cref |-> cr, blocker |-> c[2]]),
    ![neg(c[2])] = Append(@, [cref |-> cr, blocker |-> c[1]])]

\* Mutant of RemoveClauses: the watch lists are not smudged.
RemoveClausesClean(R) ==
  /\ dirty' = dirty
  /\ vardata' = [v \in Var |->
       IF \E cr \in R : locked(cr) /\ var(lits(cr)[1]) = v
       THEN [vardata[v] EXCEPT !.reason = CRef_Undef] ELSE vardata[v]]
  /\ ca' = [cr \in DOMAIN ca |-> IF cr \in R THEN [ca[cr] EXCEPT !.mark = 1] ELSE ca[cr]]
  /\ clauses' = clauses \ R
  /\ learnts' = learnts \ R

\* Mutant of RemoveClauses: a reason is not forgotten.
RemoveClausesLocked(R) ==
  /\ dirty' = dirty \cup {neg(lits(cr)[j]) : cr \in R, j \in 1 .. 2}
  /\ vardata' = vardata
  /\ ca' = [cr \in DOMAIN ca |-> IF cr \in R THEN [ca[cr] EXCEPT !.mark = 1] ELSE ca[cr]]
  /\ clauses' = clauses \ R
  /\ learnts' = learnts \ R

(***************************************************************************)
(* removeClause of every clause in R: watchers are only smudged, a reason  *)
(* is forgotten, the clause is marked and its words are counted as wasted. *)
(***************************************************************************)
RemoveClauses(R) ==
  /\ dirty' = dirty \cup {neg(lits(cr)[j]) : cr \in R, j \in 1 .. 2}
  /\ vardata' = [v \in Var |->
       IF \E cr \in R : locked(cr) /\ var(lits(cr)[1]) = v
       THEN [vardata[v] EXCEPT !.reason = CRef_Undef] ELSE vardata[v]]
  /\ ca' = [cr \in DOMAIN ca |-> IF cr \in R THEN [ca[cr] EXCEPT !.mark = 1] ELSE ca[cr]]
  /\ clauses' = clauses \ R
  /\ learnts' = learnts \ R

(***************************************************************************)
(* OccLists: drop the watchers of marked clauses from the dirty lists.     *)
(***************************************************************************)
CleanAll(W, C, D) ==
  [p \in DOMAIN W |->
     IF p \in D THEN Selected(W[p], {j \in DOMAIN W[p] : C[W[p][j].cref].mark # 1}) ELSE W[p]]

Words(c) == 1 + Len(c.lits) + (IF c.learnt THEN 1 ELSE 0)
RegionSize == MapThenSumSet(LAMBDA cr : Words(ca[cr]), DOMAIN ca)
Wasted == MapThenSumSet(LAMBDA cr : Words(ca[cr]), {cr \in DOMAIN ca : ca[cr].mark = 1})

(***************************************************************************)
(* relocAll: a clause moves when the first reference to it is found, in    *)
(* the watcher lists, the reasons on the trail, the learnt clauses and the *)
(* original ones; a later reference finds its forwarding address.  The     *)
(* reasons of unassigned variables are not touched.                        *)
(***************************************************************************)
WatchPlaces(W, cr) == UNION {{p} \X {j \in DOMAIN W[p] : W[p][j].cref = cr} : p \in Lit}
Reached(W) ==
  {k \in DOMAIN trail : LET cr == reason(var(trail[k]))
                        IN cr # CRef_Undef /\ (WatchPlaces(W, cr) # {} \/ locked(cr))}
Places(W, cr) ==
  WatchPlaces(W, cr) \cup {<<2 * nVars, k>> : k \in {j \in Reached(W) : reason(var(trail[j])) = cr}}
    \cup {<<2 * nVars + 1, c>> : c \in learnts \cap {cr}}
    \cup {<<2 * nVars + 2, c>> : c \in clauses \cap {cr}}
Before(q, r) == q[1] < r[1] \/ (q[1] = r[1] /\ q[2] < r[2])
FoundBefore(places, a, b) == \E q \in places[a] : \A r \in places[b] : Before(q, r)
Found(places) == {cr \in DOMAIN places : places[cr] # {}}
Address(places) ==
  [cr \in Found(places) |->
     Cardinality({c \in Found(places) : c = cr \/ FoundBefore(places, c, cr)})]

garbageCollect ==
  /\ pc = "garbage" /\ garbage_frac[2] * Wasted > garbage_frac[1] * RegionSize
  /\ \E W \in {CleanAll(watches, ca, dirty)} :
     \E new \in {Address([cr \in DOMAIN ca |-> Places(W, cr)])} :
       /\ ca' = [k \in 1 .. Cardinality(DOMAIN new) |-> ca[CHOOSE cr \in DOMAIN new : new[cr] = k]]
       /\ watches' = [p \in DOMAIN W |-> [j \in DOMAIN W[p] |-> [W[p][j] EXCEPT !.cref = new[@]]]]
       /\ dirty' = {}
       /\ vardata' = [v \in Var |->
            IF v \in {var(trail[k]) : k \in Reached(W)} THEN [vardata[v] EXCEPT !.reason = new[@]]
            ELSE vardata[v]]
       /\ clauses' = {new[cr] : cr \in clauses}
       /\ learnts' = {new[cr] : cr \in learnts}
  /\ pc' = Head(stack) /\ stack' = Tail(stack)
  /\ UNCHANGED <<input, ok, assigns, trail, trail_lim, order_heap, polarity, qhead, limits, simpDB_props,
                 model, scratch, confl, ws>>

noGarbage ==
  /\ pc = "garbage" /\ garbage_frac[2] * Wasted <= garbage_frac[1] * RegionSize
  /\ pc' = Head(stack) /\ stack' = Tail(stack)
  /\ UNCHANGED <<input, db, watches, assignment, qhead, limits, simpDB_props, model, scratch, confl, ws>>

-----------------------------------------------------------------------------
(***************************************************************************)
(* The calls of minisat.cc.                                                *)
(***************************************************************************)
Call(op) == pc = "idle" /\ calls # <<>> /\ Head(calls).op = op /\ calls' = Tail(calls)

(***************************************************************************)
(* newVar(true): branch on false first.                                    *)
(***************************************************************************)
newVar ==
  /\ Call("newVar")
  /\ LET v == nVars
         grown == 0 .. v
         Grow(f, e) == [x \in grown |-> IF x = v THEN e ELSE f[x]]
     IN /\ watches' = [p \in 0 .. 2 * v + 1 |-> IF p \in Lit THEN watches[p] ELSE <<>>]
        /\ assigns' = Grow(assigns, l_Undef)
        /\ vardata' = Grow(vardata, [reason |-> CRef_Undef, level |-> 0])
        /\ polarity' = Grow(polarity, 1)
        /\ order_heap' = order_heap \cup {v}
  /\ UNCHANGED <<opts, added, answer, db, trail, trail_lim, qhead, limits, simpDB_props, model,
                 scratch, pc, stack, confl, ws>>

(***************************************************************************)
(* addClause_: sorting puts p next to ~p, so a clause that is a tautology  *)
(* or already true is dropped, and false and repeated literals go.  The    *)
(* literals are of variables the caller has made.                          *)
(***************************************************************************)
Redundant(S) == \E p \in S : value(p) = l_True \/ (neg(p) \in S /\ value(p) = l_Undef)
Remaining(S) == Ascending({p \in S : value(p) # l_False})

addClause ==
  /\ Call("addClause") /\ ToSet(Head(calls).ps) \subseteq Lit
  /\ LET S == ToSet(Head(calls).ps)
         ps == Remaining(S)
     IN /\ added' = added \cup {S}
        /\ IF ~ok \/ Redundant(S)
           THEN UNCHANGED <<db, watches, assignment, pc, stack>>
           ELSE IF Len(ps) = 0
           THEN ok' = FALSE /\ UNCHANGED <<clauses, learnts, ca, dirty, watches, assignment, pc, stack>>
           ELSE IF Len(ps) = 1
           THEN /\ uncheckedEnqueue(ps[1], CRef_Undef, decisionLevel, assigns, vardata, trail)
                /\ pc' = "propagate" /\ stack' = <<"addClause">>
                /\ UNCHANGED <<db, watches, trail_lim, order_heap, polarity>>
           ELSE /\ ca' = Alloc(ps, FALSE)
                /\ clauses' = clauses \cup {Len(ca) + 1}
                /\ attachClause(Len(ca) + 1, ps)
                /\ UNCHANGED <<ok, learnts, dirty, assignment, pc, stack>>
  /\ answer' = "none"
  /\ UNCHANGED <<opts, qhead, limits, simpDB_props, model, scratch, confl, ws>>

(***************************************************************************)
(* The end of addClause_ for a unit clause: ok = (propagate() == Undef).   *)
(***************************************************************************)
clauseAdded ==
  /\ pc = "addClause"
  /\ ok' = (confl = CRef_Undef)
  /\ pc' = "idle" /\ stack' = <<>> /\ confl' = CRef_Undef
  /\ UNCHANGED <<input, clauses, learnts, ca, dirty, watches, assignment, qhead, limits, simpDB_props,
                 model, scratch, ws>>

(***************************************************************************)
(* minisat_check: simplify, then solve.                                    *)
(***************************************************************************)
check ==
  /\ Call("check")
  /\ IF ok
     THEN pc' = "propagate" /\ stack' = <<"simplify", "solve">> /\ answer' = "asked"
     ELSE pc' = "unsat" /\ stack' = <<>> /\ answer' = "asked"
  /\ UNCHANGED <<opts, added, db, watches, assignment, qhead, limits, simpDB_props, model,
                 scratch, confl, ws>>

(***************************************************************************)
(* minisat_check's return 0 when simplify() fails: the old model stays.    *)
(***************************************************************************)
checkFails ==
  /\ pc = "unsat"
  /\ answer' = "unsat" /\ pc' = "idle"
  /\ UNCHANGED <<opts, calls, added, db, watches, assignment, qhead, limits, simpDB_props, model,
                 scratch, stack, confl, ws>>

(***************************************************************************)
(* solve_: max_learnts is kept times the denominator of its factor.        *)
(***************************************************************************)
solve ==
  /\ pc = "solve"
  /\ model' = <<>>
  /\ max_learnts' = Cardinality(clauses) * learntsize_factor[1]
  /\ curr_restarts' = 0 /\ conflictC' = 0
  /\ pc' = "propagate" /\ stack' = <<"search">>
  /\ UNCHANGED <<input, db, watches, assignment, qhead, simpDB_assigns, simpDB_props, scratch, confl, ws>>

-----------------------------------------------------------------------------
(***************************************************************************)
(* propagate.                                                              *)
(***************************************************************************)
propagate ==
  /\ pc = "propagate"
  /\ watches' = CleanAll(watches, ca, dirty)
  /\ dirty' = {}
  /\ confl' = CRef_Undef
  /\ pc' = "facts"
  /\ UNCHANGED <<input, ok, clauses, learnts, ca, assignment, qhead, limits, simpDB_props, model,
                 scratch, stack, ws>>

(***************************************************************************)
(* Take the next fact from the queue.  simpDB_props counts down and only   *)
(* its being positive matters, so it stops at 0.                           *)
(***************************************************************************)
nextFact ==
  /\ pc = "facts" /\ qhead < nAssigns
  /\ ws' = [p |-> trail[qhead + 1], i |-> 1, kept |-> <<>>]
  /\ qhead' = qhead + 1
  /\ simpDB_props' = IF simpDB_props > 0 THEN simpDB_props - 1 ELSE 0
  /\ pc' = "watches"
  /\ UNCHANGED <<input, db, watches, assignment, limits, model, scratch, stack, confl>>

(***************************************************************************)
(* One watcher of the list: skipped if its blocker is true; else the false *)
(* literal goes to position 2, and the watcher stays if the other watch is *)
(* true, moves to the first literal that is not false, or the clause is    *)
(* unit or a conflict.                                                     *)
(***************************************************************************)
Swapped(c, false_lit) == IF c[1] = false_lit THEN [c EXCEPT ![1] = c[2], ![2] = false_lit] ELSE c
NewWatch(c) == {k \in 3 .. Len(c) : value(c[k]) # l_False}

\* Mutant of SkipWatcher: a blocker that is not false will do.
SkipWatcherOpen(w) ==
  /\ value(w.blocker) # l_False
  /\ ws' = [ws EXCEPT !.i = @ + 1, !.kept = Append(@, w)]
  /\ UNCHANGED <<ca, watches, assigns, vardata, trail, qhead, confl>>

SkipWatcher(w) ==
  /\ value(w.blocker) = l_True
  /\ ws' = [ws EXCEPT !.i = @ + 1, !.kept = Append(@, w)]
  /\ UNCHANGED <<ca, watches, assigns, vardata, trail, qhead, confl>>

KeepWatcher(w, c) ==
  /\ c[1] # w.blocker /\ value(c[1]) = l_True
  /\ ca' = [ca EXCEPT ![w.cref].lits = c]
  /\ ws' = [ws EXCEPT !.i = @ + 1, !.kept = Append(@, [w EXCEPT !.blocker = c[1]])]
  /\ UNCHANGED <<watches, assigns, vardata, trail, qhead, confl>>

MoveWatcher(w, c) ==
  LET k == Min(NewWatch(c))
      moved == [c EXCEPT ![2] = c[k], ![k] = c[2]]
  IN /\ ~(c[1] # w.blocker /\ value(c[1]) = l_True)
     /\ NewWatch(c) # {}
     /\ ca' = [ca EXCEPT ![w.cref].lits = moved]
     /\ watches' = [watches EXCEPT ![neg(moved[2])] = Append(@, [w EXCEPT !.blocker = c[1]])]
     /\ ws' = [ws EXCEPT !.i = @ + 1]
     /\ UNCHANGED <<assigns, vardata, trail, qhead, confl>>

UnitOrConflict(w, c) ==
  LET kept == Append(ws.kept, [w EXCEPT !.blocker = c[1]])
      end == Len(watches[ws.p])
  IN /\ ~(c[1] # w.blocker /\ value(c[1]) = l_True)
     /\ NewWatch(c) = {}
     /\ ca' = [ca EXCEPT ![w.cref].lits = c]
     /\ IF value(c[1]) = l_False
        THEN /\ confl' = w.cref
             /\ qhead' = nAssigns
             /\ ws' = [ws EXCEPT !.i = end + 1, !.kept = kept \o SubSeq(watches[ws.p], ws.i + 1, end)]
             /\ UNCHANGED <<assigns, vardata, trail>>
        ELSE /\ uncheckedEnqueue(c[1], w.cref, decisionLevel, assigns, vardata, trail)
             /\ ws' = [ws EXCEPT !.i = @ + 1, !.kept = kept]
             /\ UNCHANGED <<qhead, confl>>
     /\ UNCHANGED watches

watcher ==
  /\ pc = "watches" /\ ws.i <= Len(watches[ws.p])
  /\ LET w == watches[ws.p][ws.i]
         c == Swapped(lits(w.cref), neg(ws.p))
     IN \/ SkipWatcher(w)
        \/ value(w.blocker) # l_True /\ (KeepWatcher(w, c) \/ MoveWatcher(w, c) \/ UnitOrConflict(w, c))
  /\ UNCHANGED <<input, ok, clauses, learnts, dirty, trail_lim, order_heap, polarity, limits, simpDB_props,
                 model, scratch, pc, stack>>

endOfList ==
  /\ pc = "watches" /\ ws.i > Len(watches[ws.p])
  /\ watches' = [watches EXCEPT ![ws.p] = ws.kept]
  /\ ws' = NoList
  /\ pc' = "facts"
  /\ UNCHANGED <<input, db, assignment, qhead, limits, simpDB_props, model, scratch, stack, confl>>

propagated ==
  /\ pc = "facts" /\ qhead = nAssigns
  /\ pc' = Head(stack) /\ stack' = Tail(stack)
  /\ UNCHANGED <<input, db, watches, assignment, qhead, limits, simpDB_props, model, scratch, confl, ws>>

-----------------------------------------------------------------------------
(***************************************************************************)
(* simplify, after its propagate.  It returns to minisat_check ("solve")   *)
(* or into search ("reduce").  The propagate has nothing left to do in     *)
(* this use of the solver, so the test of confl is for the reader only.    *)
(***************************************************************************)
simplifyEnds ==
  /\ pc = "simplify"
  /\ confl # CRef_Undef \/ nAssigns = simpDB_assigns \/ simpDB_props > 0
  /\ IF confl # CRef_Undef
     THEN /\ ok' = FALSE /\ confl' = CRef_Undef /\ stack' = <<>>
          /\ pc' = IF Head(stack) = "solve" THEN "unsat" ELSE "l_False"
     ELSE /\ pc' = Head(stack) /\ stack' = Tail(stack)
          /\ UNCHANGED <<ok, confl>>
  /\ UNCHANGED <<input, clauses, learnts, ca, dirty, watches, assignment, qhead, limits, simpDB_props, model,
                 scratch, ws>>

simplify ==
  /\ pc = "simplify" /\ confl = CRef_Undef
  /\ nAssigns # simpDB_assigns /\ simpDB_props = 0
  /\ LET R == {cr \in Live : satisfied(lits(cr))}
     IN /\ RemoveClauses(R)
        /\ simpDB_props' = MapThenSumSet(LAMBDA cr : Len(lits(cr)), Live \ R)
  /\ order_heap' = {v \in Var : assigns[v] = l_Undef}
  /\ simpDB_assigns' = nAssigns
  /\ pc' = "garbage"
  /\ UNCHANGED <<input, ok, watches, assigns, trail, trail_lim, polarity, qhead, max_learnts, conflictC,
                 curr_restarts, model, scratch, stack, confl, ws>>

-----------------------------------------------------------------------------
(***************************************************************************)
(* search: a conflict.                                                     *)
(***************************************************************************)
conflictAtRoot ==
  /\ pc = "search" /\ confl # CRef_Undef /\ decisionLevel = 0
  /\ conflictC' = conflictC + 1
  /\ pc' = "l_False" /\ confl' = CRef_Undef
  /\ UNCHANGED <<input, db, watches, assignment, qhead, simpDB_assigns, max_learnts, curr_restarts,
                 simpDB_props, model, scratch, stack, ws>>

conflict ==
  /\ pc = "search" /\ confl # CRef_Undef /\ decisionLevel > 0
  /\ conflictC' = conflictC + 1
  /\ an' = [NoAnalysis EXCEPT !.index = nAssigns, !.out = <<-1>>]
  /\ pc' = "analyze"
  /\ UNCHANGED <<input, db, watches, assignment, qhead, simpDB_assigns, max_learnts, curr_restarts,
                 simpDB_props, model, seen, stack, confl, ws>>

(***************************************************************************)
(* analyze: one clause of the implication graph.  Its unseen literals are  *)
(* marked and, below the current level, added to the learnt clause; then   *)
(* the last marked literal of the trail is the next to be resolved on.     *)
(***************************************************************************)
Unseen(c, from) == {k \in from .. Len(c) : var(c[k]) \notin seen /\ level(var(c[k])) > 0}

analyze ==
  /\ pc = "analyze"
  /\ LET c == lits(confl)
         new == Unseen(c, IF an.p = -1 THEN 1 ELSE 2)
         here == {k \in new : level(var(c[k])) >= decisionLevel}
         marked == seen \cup {var(c[k]) : k \in new}
         next == Max({k \in 1 .. an.index : var(trail[k]) \in marked})
         p == trail[next]
         pathC == an.pathC + Cardinality(here) - 1
         out == an.out \o Selected(c, new \ here)
     IN /\ seen' = marked \ {var(p)}
        /\ IF pathC > 0
           THEN /\ an' = [an EXCEPT !.p = p, !.index = next - 1, !.pathC = pathC, !.out = out]
                /\ confl' = reason(var(p))
                /\ pc' = "analyze"
           ELSE LET learnt == [out EXCEPT ![1] = neg(p)]
                IN /\ an' = [NoAnalysis EXCEPT !.out = learnt, !.kept = <<learnt[1]>>, !.i = 2, !.toclear = learnt,
                               !.levels = {abstractLevel(var(learnt[k])) : k \in 2 .. Len(learnt)}]
                   /\ confl' = CRef_Undef
                   /\ pc' = "minimize"
  /\ UNCHANGED <<input, db, watches, assignment, qhead, limits, simpDB_props, model, stack, ws>>

\* Mutant of Implied: one literal of the reason is not looked at.
ImpliedButOne(cr) == \A k \in 3 .. Len(lits(cr)) : var(lits(cr)[k]) \in seen \/ level(var(lits(cr)[k])) = 0

(***************************************************************************)
(* analyze, simplifying the conflict clause: the next literal is kept,     *)
(* dropped, or (deep mode) handed to litRedundant.                         *)
(***************************************************************************)
Implied(cr) == \A k \in 2 .. Len(lits(cr)) : var(lits(cr)[k]) \in seen \/ level(var(lits(cr)[k])) = 0
Keep(a) == [a EXCEPT !.kept = Append(@, a.out[a.i]), !.i = @ + 1]
Drop(a) == [a EXCEPT !.i = @ + 1]

minimize ==
  /\ pc = "minimize" /\ an.i <= Len(an.out)
  /\ LET q == an.out[an.i]
     IN \/ /\ opts.ccmin_mode = 0 \/ reason(var(q)) = CRef_Undef
           /\ an' = Keep(an) /\ pc' = pc
        \/ /\ opts.ccmin_mode = 1 /\ reason(var(q)) # CRef_Undef
           /\ an' = IF Implied(reason(var(q))) THEN Drop(an) ELSE Keep(an)
           /\ pc' = pc
        \/ /\ opts.ccmin_mode = 2 /\ reason(var(q)) # CRef_Undef
           /\ an' = [an EXCEPT !.stack = <<q>>, !.top = Len(an.toclear)]
           /\ pc' = "litRedundant"
  /\ UNCHANGED <<input, db, watches, assignment, qhead, limits, simpDB_props, model, seen, stack, confl, ws>>

(***************************************************************************)
(* litRedundant: one literal of analyze_stack.  A literal without a reason *)
(* or of a level the clause has not ends the visit, and what this visit    *)
(* marked is unmarked again.                                               *)
(***************************************************************************)
litRedundant ==
  /\ pc = "litRedundant"
  /\ IF an.stack = <<>>
     THEN an' = Drop(an) /\ pc' = "minimize" /\ seen' = seen
     ELSE LET c == lits(reason(var(Last(an.stack))))
              new == Unseen(c, 2)
              stuck(q) == reason(var(q)) = CRef_Undef \/ abstractLevel(var(q)) \notin an.levels
          IN IF \E k \in new : stuck(c[k])
             THEN /\ seen' = seen \ {var(an.toclear[j]) : j \in an.top + 1 .. Len(an.toclear)}
                  /\ an' = Keep([an EXCEPT !.toclear = SubSeq(@, 1, an.top), !.stack = <<>>])
                  /\ pc' = "minimize"
             ELSE /\ seen' = seen \cup {var(c[k]) : k \in new}
                  /\ an' = [an EXCEPT !.stack = Front(@) \o Selected(c, new),
                                     !.toclear = @ \o Selected(c, new)]
                  /\ pc' = pc
  /\ UNCHANGED <<input, db, watches, assignment, qhead, limits, simpDB_props, model, stack, confl, ws>>

(***************************************************************************)
(* The rest of analyze and of the conflict branch: the literal of the      *)
(* highest remaining level goes to position 2, seen is cleared, the solver *)
(* jumps back, and the learnt clause is attached and implies its first     *)
(* literal.                                                                *)
(***************************************************************************)
Highest(out) == Min({k \in 2 .. Len(out) : \A j \in 2 .. Len(out) : level(var(out[j])) <= level(var(out[k]))})

learn ==
  /\ pc = "minimize" /\ an.i > Len(an.out)
  /\ LET unit == Len(an.kept) = 1
         m == Highest(an.kept)
         out == IF unit THEN an.kept ELSE [an.kept EXCEPT ![2] = an.kept[m], ![m] = an.kept[2]]
         bt == IF unit THEN 0 ELSE level(var(out[2]))
         cr == Len(ca) + 1
     IN /\ cancelUntilRest(bt)
        /\ uncheckedEnqueue(out[1], IF unit THEN CRef_Undef ELSE cr, bt, AssignsAt(bt), vardata, TrailAt(bt))
        /\ IF unit THEN UNCHANGED <<ca, learnts, watches>>
           ELSE ca' = Alloc(out, TRUE) /\ learnts' = learnts \cup {cr} /\ attachClause(cr, out)
  /\ seen' = seen \ {var(an.toclear[j]) : j \in DOMAIN an.toclear}
  /\ an' = NoAnalysis
  /\ pc' = "propagate" /\ stack' = <<"search">>
  /\ UNCHANGED <<input, ok, clauses, dirty, limits, simpDB_props, model, confl, ws>>

-----------------------------------------------------------------------------
(***************************************************************************)
(* search: no conflict.  After MaxRestarts the interval counts as endless. *)
(***************************************************************************)
IntervalOver == curr_restarts < MaxRestarts /\ conflictC >= restart_first * 2 ^ luby[curr_restarts]

\* Mutant of restart: the restart is not counted.
restartUncounted ==
  /\ pc = "search" /\ confl = CRef_Undef /\ IntervalOver
  /\ cancelUntil(0)
  /\ curr_restarts' = curr_restarts /\ conflictC' = 0
  /\ pc' = "propagate" /\ stack' = <<"search">>
  /\ UNCHANGED <<input, db, watches, simpDB_assigns, max_learnts, simpDB_props, model, scratch, confl, ws>>

restart ==
  /\ pc = "search" /\ confl = CRef_Undef /\ IntervalOver
  /\ cancelUntil(0)
  /\ curr_restarts' = curr_restarts + 1 /\ conflictC' = 0
  /\ pc' = "propagate" /\ stack' = <<"search">>
  /\ UNCHANGED <<input, db, watches, simpDB_assigns, max_learnts, simpDB_props, model, scratch, confl, ws>>

noConflict ==
  /\ pc = "search" /\ confl = CRef_Undef /\ ~IntervalOver
  /\ IF decisionLevel = 0 THEN pc' = "propagate" /\ stack' = <<"simplify", "reduce">>
     ELSE pc' = "reduce" /\ stack' = stack
  /\ UNCHANGED <<input, db, watches, assignment, qhead, limits, simpDB_props, model, scratch, confl, ws>>

(***************************************************************************)
(* reduceDB: the learnt clauses longer than 2 are sorted first, so all of  *)
(* the first half that are long and not locked go; beyond it, any clause   *)
(* of low activity.                                                        *)
(***************************************************************************)
Removable == {cr \in learnts : Len(lits(cr)) > 2 /\ ~locked(cr)}
LongLocked == {cr \in learnts : Len(lits(cr)) > 2 /\ locked(cr)}
LeastRemoved ==
  Min({Cardinality(Removable) + Cardinality(LongLocked), Cardinality(learnts) \div 2}) - Cardinality(LongLocked)
TooManyLearnts ==
  learntsize_factor[2] * (Cardinality(learnts) - nAssigns) >= max_learnts

reduceDB ==
  /\ pc = "reduce" /\ TooManyLearnts
  /\ \E R \in SUBSET Removable :
       /\ Cardinality(R) >= LeastRemoved
       /\ RemoveClauses(R)
  /\ pc' = "garbage" /\ stack' = <<"decide">>
  /\ UNCHANGED <<input, ok, watches, assigns, trail, trail_lim, order_heap, polarity, qhead, limits,
                 simpDB_props, model, scratch, confl, ws>>

noReduce ==
  /\ pc = "reduce" /\ ~TooManyLearnts
  /\ pc' = "decide"
  /\ UNCHANGED <<input, db, watches, assignment, qhead, limits, simpDB_props, model, scratch, stack, confl, ws>>

(***************************************************************************)
(* pickBranchLit takes variables off the heap until one is unassigned;     *)
(* those it passes over are assigned.                                      *)
(***************************************************************************)
decide ==
  /\ pc = "decide"
  /\ \E v \in order_heap, skipped \in SUBSET {x \in order_heap : assigns[x] # l_Undef} :
       /\ assigns[v] = l_Undef
       /\ order_heap' = order_heap \ (skipped \cup {v})
       /\ trail_lim' = Append(trail_lim, nAssigns)
       /\ uncheckedEnqueue(2 * v + polarity[v], CRef_Undef, decisionLevel + 1, assigns, vardata, trail)
  /\ pc' = "propagate" /\ stack' = <<"search">>
  /\ UNCHANGED <<input, db, watches, polarity, qhead, limits, simpDB_props, model, scratch, confl, ws>>

(***************************************************************************)
(* The end of solve_: a model when no variable is left to decide on, or    *)
(* unsatisfiability for good; in both cases back to level 0.               *)
(***************************************************************************)
modelFound ==
  /\ pc = "decide" /\ \A v \in order_heap : assigns[v] # l_Undef
  /\ model' = assigns
  /\ answer' = "sat"
  /\ assigns' = AssignsAt(0) /\ trail' = TrailAt(0) /\ vardata' = vardata
  /\ polarity' = [v \in Var |->
       IF \E k \in Kept(0) + 1 .. nAssigns : var(trail[k]) = v /\ SavedPhase(k) THEN assigns[v] ELSE polarity[v]]
  /\ order_heap' = Undone(0)
  /\ qhead' = Kept(0) /\ trail_lim' = <<>>
  /\ pc' = "idle"
  /\ UNCHANGED <<opts, calls, added, db, watches, limits, simpDB_props, scratch, stack, confl, ws>>

solveFails ==
  /\ pc = "l_False"
  /\ ok' = FALSE
  /\ answer' = "unsat"
  /\ cancelUntil(0)
  /\ pc' = "idle" /\ stack' = <<>>
  /\ UNCHANGED <<opts, calls, added, clauses, learnts, ca, dirty, watches, limits, simpDB_props, model,
                 scratch, confl, ws>>

-----------------------------------------------------------------------------
Next ==
  \/ newVar \/ addClause \/ clauseAdded \/ check \/ checkFails \/ solve
  \/ propagate \/ nextFact \/ watcher \/ endOfList \/ propagated
  \/ simplifyEnds \/ simplify \/ garbageCollect \/ noGarbage
  \/ conflictAtRoot \/ conflict \/ analyze \/ minimize \/ litRedundant \/ learn
  \/ restart \/ noConflict \/ reduceDB \/ noReduce \/ decide \/ modelFound \/ solveFails

Spec == Init /\ [][Next]_vars

(***************************************************************************)
(* A sequential program runs on as long as it can.                         *)
(***************************************************************************)
FairSpec == Spec /\ WF_vars(Next)

-----------------------------------------------------------------------------
(***************************************************************************)
(* Properties.                                                             *)
(***************************************************************************)
Position(v) == CHOOSE k \in DOMAIN trail : var(trail[k]) = v
LevelAt(k) == Cardinality({l \in DOMAIN trail_lim : trail_lim[l] < k})

(***************************************************************************)
(* The trail is the assignment, in order: each assigned variable is on it  *)
(* once, at the level its position says, and every literal that was not    *)
(* decided has a reason clause that is in the database, has the literal in *)
(* front and only earlier, false literals behind it.  analyze, minimize,   *)
(* locked and the collector rely on it, also in the middle of propagate,   *)
(* and jumping back, removing and moving clauses have to keep it.          *)
(***************************************************************************)
ReasonsOk ==
  /\ \A v \in Var : assigns[v] # l_Undef <=> \E k \in DOMAIN trail : var(trail[k]) = v
  /\ \A k \in DOMAIN trail :
       LET v == var(trail[k])
           r == reason(v)
       IN /\ Position(v) = k /\ value(trail[k]) = l_True /\ level(v) = LevelAt(k)
          /\ r = CRef_Undef => level(v) = 0 \/ trail_lim[level(v)] = k - 1
          /\ r # CRef_Undef =>
               /\ r \in Live /\ lits(r)[1] = trail[k]
               /\ \A j \in 2 .. Len(lits(r)) :
                    value(lits(r)[j]) = l_False /\ Position(var(lits(r)[j])) < k

(***************************************************************************)
(* Every clause of the database is watched exactly once from each of its   *)
(* first two literals and from no other; a watcher of a removed clause is  *)
(* only in a list that is marked dirty, so that none is left when the      *)
(* clause's memory is given up, and the blocker is a literal of the        *)
(* clause.  This is about the list propagate is rewriting too.             *)
(***************************************************************************)
List(p) == IF ws.p = p THEN ws.kept \o SubSeq(watches[p], ws.i, Len(watches[p])) ELSE watches[p]
WatchersIn(p, cr) == {k \in DOMAIN List(p) : List(p)[k].cref = cr}

WatchesOk ==
  /\ \A cr \in Live : \A p \in Lit :
       Cardinality(WatchersIn(p, cr)) = IF p \in {neg(lits(cr)[1]), neg(lits(cr)[2])} THEN 1 ELSE 0
  /\ \A p \in Lit : \A k \in DOMAIN List(p) :
       LET w == List(p)[k]
       IN /\ w.cref \in DOMAIN ca /\ w.blocker \in ToSet(lits(w.cref))
          /\ w.cref \in Live \/ (ca[w.cref].mark = 1 /\ p \in dirty)

(***************************************************************************)
(* When propagate has ended without a conflict, no clause is false or      *)
(* unit: each has a true literal or two that are unassigned.  A watch that *)
(* was lost or left on a false literal by any earlier step, including a    *)
(* jump back, breaks it.                                                   *)
(***************************************************************************)
Propagated ==
  \/ pc \in {"simplify", "garbage", "search", "reduce", "decide"} /\ confl = CRef_Undef
  \/ pc = "idle" /\ ok
PropagationComplete ==
  Propagated => \A cr \in Live :
    \/ satisfied(lits(cr))
    \/ Cardinality({j \in DOMAIN lits(cr) : value(lits(cr)[j]) = l_Undef}) >= 2

(***************************************************************************)
(* Whatever the solver has concluded follows from the clauses added: each  *)
(* learnt clause, as learnt and minimized, each literal assigned at level  *)
(* 0, and the contradiction when ok is false.                              *)
(***************************************************************************)
Abs == INSTANCE SatSpec WITH
  nVars <- nVars, added <- added, answer <- answer,
  model <- IF answer # "sat" THEN <<>>
           ELSE [v \in {x \in DOMAIN model : model[x] # l_Undef} |-> model[v] = l_True]

Entailed ==
  \A A \in Abs!Assignments(nVars) : Abs!Satisfies(A, added) =>
    /\ ok
    /\ \A cr \in learnts : \E j \in DOMAIN lits(cr) : Abs!Holds(lits(cr)[j], A)
    /\ \A k \in DOMAIN trail : level(var(trail[k])) = 0 => Abs!Holds(trail[k], A)

(***************************************************************************)
(* The solver keeps its promise: "sat" comes with a value for every        *)
(* variable that satisfies every clause ever added, "unsat" only if there  *)
(* is no such assignment.                                                  *)
(***************************************************************************)
Implements == Abs!Spec

(***************************************************************************)
(* Every check is answered: neither restarts, nor forgetting clauses, nor  *)
(* collecting garbage makes the search go in circles.                      *)
(***************************************************************************)
Answers == [](answer = "asked" => <>(answer # "asked"))
=============================================================================
