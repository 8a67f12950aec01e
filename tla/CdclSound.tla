------------------------------ MODULE CdclSound -----------------------------
(***************************************************************************)
(* The SAT solver is correct, over the structure that CdclProofs shows to be *)
(* invariant.  Four parts:                                                 *)
(*   - the two watched literals, and that propagate leaves no clause false or *)
(*     unit;                                                               *)
(*   - what has been learnt, also by minimization, follows from the clauses *)
(*     that were added;                                                    *)
(*   - no clause that was added is lost and no variable is forgotten;      *)
(*   - so the solver implements SatSpec.                                   *)
(***************************************************************************)
EXTENDS CdclProofs

-----------------------------------------------------------------------------
(***************************************************************************)
(* The two watched literals.                                               *)
(***************************************************************************)
LEMMA LiveClause ==
  ASSUME Structure, NEW cr \in Live
  PROVE  /\ cr \in DOMAIN ca /\ lits(cr) \in Seq(Lit) /\ Len(lits(cr)) \in Nat /\ Len(lits(cr)) >= 2
         /\ DOMAIN lits(cr) = 1 .. Len(lits(cr))
         /\ \A j \in DOMAIN lits(cr) : lits(cr)[j] \in Lit /\ lits(cr)[j] \in Nat /\ var(lits(cr)[j]) \in Var
<1>1. VarsType /\ DatabaseType /\ Clauses
  BY DEF Structure, TypeOK
<1>2. ca \in Seq(ClauseSet) /\ cr \in DOMAIN ca
  BY <1>1 DEF DatabaseType, Live
<1>3. ca[cr] \in ClauseSet
  BY <1>2
<1>4. lits(cr) \in Seq(Lit) /\ Len(lits(cr)) >= 2
  BY <1>1, <1>3 DEF ClauseSet, lits, Clauses, ClausesIn
<1>5. \A p \in Lit : p \in Nat /\ var(p) \in Var
  BY <1>1, Literals
<1> QED
  BY <1>2, <1>4, <1>5

(***************************************************************************)
(* A literal with a value is on the trail, true or negated, at a level     *)
(* there is.                                                               *)
(***************************************************************************)
LEMMA FalseLiteral ==
  ASSUME Structure, NEW q \in Lit
  PROVE  /\ q \in Nat /\ var(q) \in Var /\ value(q) \in {l_True, l_False, l_Undef}
         /\ assigns[var(q)] # l_Undef <=> value(q) # l_Undef
         /\ value(q) # l_Undef => level(var(q)) \in Nat /\ level(var(q)) <= decisionLevel
         /\ value(q) = l_False => \E k \in 1 .. nAssigns : trail[k] = neg(q)
         /\ (\E k \in 1 .. nAssigns : trail[k] = neg(q)) => value(q) = l_False
         /\ value(q) = l_True => \E k \in 1 .. nAssigns : trail[k] = q
<1>1. VarsType /\ AssignmentType /\ Trail
  BY DEF Structure, TypeOK
<1>2. q \in Nat /\ var(q) \in Var /\ assigns[var(q)] \in 0 .. 2
  BY <1>1, Literals DEF AssignmentType
<1>3. /\ value(q) = l_True <=> assigns[var(q)] = sign(q)
      /\ value(q) = l_False <=> assigns[var(q)] = 1 - sign(q)
      /\ value(q) = l_Undef <=> assigns[var(q)] = l_Undef
      /\ value(q) \in {l_True, l_False, l_Undef}
  BY <1>2, ValueIs
<1>4. DOMAIN trail = 1 .. nAssigns /\ DOMAIN assigns = Var /\ \A k \in DOMAIN trail : trail[k] \in Nat
  BY <1>1, Literals DEF AssignmentType, nAssigns
<1>5. \A k \in DOMAIN trail : assigns[var(trail[k])] = sign(trail[k])
  BY <1>1 DEF Trail, TrailIn
<1>6. /\ neg(q) \in Nat /\ var(neg(q)) = var(q) /\ neg(neg(q)) = q /\ sign(neg(q)) = 1 - sign(q) /\ sign(q) \in 0 .. 1
  BY <1>2, LitFacts
<1>7. ASSUME value(q) # l_Undef
      PROVE  /\ level(var(q)) \in Nat /\ level(var(q)) <= decisionLevel
             /\ \E k \in 1 .. nAssigns : trail[k] = IF value(q) = l_True THEN q ELSE neg(q)
  <2>1. PICK k \in DOMAIN trail : var(trail[k]) = var(q)
    BY <1>1, <1>2, <1>3, <1>4, <1>7 DEF Trail, TrailIn
  <2>2. trail[k] = q \/ trail[k] = neg(q)
    BY <1>2, <1>4, <2>1, SameVar
  <2>3. assigns[var(q)] = sign(trail[k])
    BY <1>5, <2>1
  <2>4. trail[k] = IF value(q) = l_True THEN q ELSE neg(q)
    BY <1>3, <1>6, <2>2, <2>3
  <2>5. vardata[var(q)].level <= Len(trail_lim)
    BY <1>1, <2>1 DEF Trail, TrailIn
  <2>6. vardata[var(q)].level \in Nat
    BY <1>1, <1>2 DEF AssignmentType
  <2> QED
    BY <1>4, <2>1, <2>4, <2>5, <2>6 DEF level, decisionLevel
<1>8. ASSUME NEW k \in 1 .. nAssigns, trail[k] = neg(q) PROVE value(q) = l_False
  BY <1>3, <1>4, <1>5, <1>6, <1>8
<1> QED
  BY <1>2, <1>3, <1>7, <1>8, TruthValues

(***************************************************************************)
(* What has a value keeps it, and its level; clauses keep their literals.  *)
(***************************************************************************)
KeepsLiterals(cr) == \A x : Has(ca[cr].lits, x) => Has(ca'[cr].lits, x)
KeepsValue(v) == assigns'[v] = assigns[v] /\ vardata'[v].level = vardata[v].level

LEMMA MadeGoodKept ==
  ASSUME Structure, NEW cr \in Live, NEW q \in Lit, value(q) = l_False, MadeGood(cr, q), KeepsLiterals(cr),
         \A v \in Var : assigns[v] # l_Undef /\ level(v) <= level(var(q)) => KeepsValue(v)
  PROVE  MadeGood(cr, q)' /\ value(q)' = l_False /\ level(var(q))' = level(var(q))
<1>1. PICK j \in DOMAIN lits(cr) : value(lits(cr)[j]) = l_True /\ level(var(lits(cr)[j])) <= level(var(q))
  BY DEF MadeGood
<1>2. PICK x : x = lits(cr)[j]
  OBVIOUS
<1>3. x \in Lit /\ Has(ca[cr].lits, x)
  BY <1>1, <1>2, LiveClause DEF Has, lits
<1>4. /\ var(x) \in Var /\ assigns[var(x)] # l_Undef /\ var(q) \in Var /\ assigns[var(q)] # l_Undef
      /\ level(var(q)) \in Nat
  BY <1>1, <1>2, <1>3, FalseLiteral, TruthValues
<1>5. KeepsValue(var(x)) /\ KeepsValue(var(q))
  BY <1>1, <1>2, <1>4
<1>6. value(x)' = l_True /\ level(var(x))' <= level(var(q))' /\ value(q)' = l_False /\ level(var(q))' = level(var(q))
  BY <1>1, <1>2, <1>5 DEF KeepsValue, value, level
<1>7. PICK i \in DOMAIN ca'[cr].lits : ca'[cr].lits[i] = x
  BY <1>3 DEF KeepsLiterals, Has
<1> QED
  BY <1>6, <1>7 DEF MadeGood, lits

(***************************************************************************)
(* What a step has to show: a watched literal that is due after it was a   *)
(* watched literal that was due, or is made good now.                      *)
(***************************************************************************)
Watch(cr, q) == \E i \in 1 .. 2 : lits(cr)[i] = q
WasDue(cr, q) == Watch(cr, q) /\ Due(cr, q)
Keeps(cr, q) == \A v \in Var : assigns[v] # l_Undef /\ level(v) <= level(var(q)) => KeepsValue(v)

LEMMA TwoWatchedStep ==
  ASSUME Structure, TwoWatched,
         \A cr \in Live' : \A q :
            WasDue(cr, q)' => \/ cr \in Live /\ WasDue(cr, q) /\ KeepsLiterals(cr) /\ Keeps(cr, q)
                              \/ MadeGood(cr, q)'
  PROVE  TwoWatched'
<1> SUFFICES ASSUME NEW cr \in Live', NEW q, Watch(cr, q)', Due(cr, q)' PROVE MadeGood(cr, q)'
  BY DEF TwoWatched, Watch
<1>0. WasDue(cr, q)'
  BY DEF WasDue
<1> SUFFICES ASSUME cr \in Live, WasDue(cr, q), KeepsLiterals(cr), Keeps(cr, q)
             PROVE  MadeGood(cr, q)'
  BY <1>0
<1>1. PICK k \in 1 .. 2 : lits(cr)[k] = q
  BY DEF WasDue, Watch
<1>2. Due(cr, q)
  BY DEF WasDue
<1>3. MadeGood(cr, q)
  BY <1>1, <1>2 DEF TwoWatched
<1>4. q \in Lit
  BY <1>1, LiveClause
<1>5. value(q) = l_False
  BY <1>2 DEF Due
<1> QED
  BY <1>3, <1>4, <1>5, MadeGoodKept DEF Keeps

(***************************************************************************)
(* A step that assigns nothing and leaves the clauses and the facts that   *)
(* have been propagated, and does not settle anything.                     *)
(***************************************************************************)
LEMMA TwoWatchedQuiet ==
  ASSUME Structure, TwoWatched, Live' \subseteq Live, \A cr \in Live' : ca'[cr].lits = ca[cr].lits,
         \A v \in Var : KeepsValue(v), trail_lim' = trail_lim,
         \A cr \in Live', q \in Lit : (Settled /\ Processed(q) /\ ~Pending(cr, q))'
                                      => Settled /\ Processed(q) /\ ~Pending(cr, q)
  PROVE  TwoWatched'
<1> SUFFICES ASSUME NEW cr \in Live', NEW q, WasDue(cr, q)'
             PROVE  cr \in Live /\ WasDue(cr, q) /\ KeepsLiterals(cr) /\ Keeps(cr, q)
  BY TwoWatchedStep
<1>1. cr \in Live /\ ca'[cr].lits = ca[cr].lits
  OBVIOUS
<1>2. Watch(cr, q) /\ q \in Lit
  <2>1. PICK i \in 1 .. 2 : ca'[cr].lits[i] = q
    BY DEF WasDue, Watch, lits
  <2>2. lits(cr)[i] = q
    BY <1>1, <2>1 DEF lits
  <2> QED
    BY <1>1, <2>2, LiveClause DEF Watch
<1>3. KeepsLiterals(cr) /\ Keeps(cr, q)
  BY <1>1 DEF KeepsLiterals, Keeps
<1>4. var(q) \in Var
  BY <1>2, FalseLiteral
<1>5. KeepsValue(var(q))
  BY <1>4
<1>6. value(q)' = value(q) /\ level(var(q))' = level(var(q)) /\ decisionLevel' = decisionLevel
  BY <1>5 DEF KeepsValue, value, level, decisionLevel
<1>7. value(q)' = l_False /\ (level(var(q))' < decisionLevel' \/ (Settled /\ Processed(q) /\ ~Pending(cr, q))')
  BY DEF WasDue, Due
<1>8. Due(cr, q)
  BY <1>2, <1>6, <1>7 DEF Due
<1> QED
  BY <1>1, <1>2, <1>3, <1>8 DEF WasDue

(***************************************************************************)
(* Nothing is being propagated: a step that only moves on settles nothing. *)
(***************************************************************************)
LEMMA TwoWatchedPlain ==
  ASSUME Structure, TwoWatched, Live' \subseteq Live, \A cr \in Live' : ca'[cr].lits = ca[cr].lits,
         assigns' = assigns, trail' = trail, trail_lim' = trail_lim, qhead' = qhead,
         \A v \in Var : vardata'[v].level = vardata[v].level,
         pc # "watches", pc' # "watches", Settled' => Settled
  PROVE  TwoWatched'
<1>1. \A v \in Var : KeepsValue(v)
  BY DEF KeepsValue
<1>2. \A cr, q : ~Pending(cr, q) /\ ~Pending(cr, q)'
  BY DEF Pending
<1>3. \A q : Processed(q)' <=> Processed(q)
  BY DEF Processed
<1>4. \A cr \in Live', q \in Lit : (Settled /\ Processed(q) /\ ~Pending(cr, q))'
                                   => Settled /\ Processed(q) /\ ~Pending(cr, q)
  BY <1>2, <1>3
<1> QED
  BY <1>1, <1>4, TwoWatchedQuiet

LEMMA TwoWatchedMoves ==
  ASSUME Structure, Structure', TwoWatched, UNCHANGED <<clauses, learnts, ca>>, UNCHANGED assignment,
         qhead' = qhead, pc # "watches", ws' = ws, Settled' => Settled
  PROVE  TwoWatched'
<1>1. /\ clauses' = clauses /\ learnts' = learnts /\ ca' = ca /\ assigns' = assigns /\ vardata' = vardata
      /\ trail' = trail /\ trail_lim' = trail_lim
  BY DEF assignment
<1>2. pc' # "watches"
  <2>1. ws = NoList
    BY DEF Structure, Working
  <2>2. pc' = "watches" => ws'.i > 0
    BY DEF Structure, Working
  <2> QED
    BY <2>1, <2>2 DEF NoList
<1>3. Live' \subseteq Live
  BY <1>1 DEF Live
<1> QED
  BY <1>1, <1>2, <1>3, TwoWatchedPlain

(***************************************************************************)
(* The steps of search and of the calls that only move on, and those of    *)
(* analyze, which starts with a conflict.                                  *)
(***************************************************************************)
LEMMA TwoWatchedIdle ==
  ASSUME Structure, Structure', TwoWatched,
         noGarbage \/ clauseAdded \/ check \/ checkFails \/ solve \/ propagated \/ conflictAtRoot \/ conflict
           \/ noConflict \/ noReduce \/ simplifyEnds \/ analyze \/ minimize \/ litRedundant
  PROVE  TwoWatched'
<1>1. Control
  BY DEF Structure
<1>2. /\ UNCHANGED <<clauses, learnts, ca>> /\ UNCHANGED assignment /\ qhead' = qhead /\ pc # "watches"
      /\ ws' = ws
  <2>1. CASE noGarbage
    BY <2>1 DEF noGarbage, db
  <2>2. CASE clauseAdded
    BY <2>2 DEF clauseAdded, db
  <2>3. CASE check
    BY <2>3 DEF check, db, Call
  <2>4. CASE checkFails
    BY <2>4 DEF checkFails, db
  <2>5. CASE solve
    BY <2>5 DEF solve, db
  <2>6. CASE propagated
    BY <2>6 DEF propagated, db
  <2>7. CASE conflictAtRoot
    BY <2>7 DEF conflictAtRoot, db
  <2>8. CASE conflict
    BY <2>8 DEF conflict, db
  <2>9. CASE noConflict
    BY <2>9 DEF noConflict, db
  <2>10. CASE noReduce
    BY <2>10 DEF noReduce, db
  <2>11. CASE simplifyEnds
    BY <2>11 DEF simplifyEnds, db
  <2>12. CASE analyze
    BY <2>12 DEF analyze, db
  <2>13. CASE minimize
    BY <2>13 DEF minimize, db
  <2>14. CASE litRedundant
    BY <2>14 DEF litRedundant, db
  <2> QED
    BY <2>1, <2>2, <2>3, <2>4, <2>5, <2>6, <2>7, <2>8, <2>9, <2>10, <2>11, <2>12, <2>13, <2>14
<1>3. Settled' => Settled
  <2>1. CASE noGarbage \/ check \/ checkFails \/ solve \/ propagated \/ noConflict \/ noReduce
    <3>1. ok' = ok /\ confl' = confl /\ pc \notin {"minimize", "litRedundant", "l_False"}
      <4>1. CASE noGarbage
        BY <4>1 DEF noGarbage, db
      <4>2. CASE check
        BY <4>2 DEF check, db, Call
      <4>3. CASE checkFails
        BY <4>3 DEF checkFails, db
      <4>4. CASE solve
        BY <4>4 DEF solve, db
      <4>5. CASE propagated
        BY <4>5 DEF propagated, db
      <4>6. CASE noConflict
        BY <4>6 DEF noConflict, db
      <4>7. CASE noReduce
        BY <4>7 DEF noReduce, db
      <4> QED
        BY <2>1, <4>1, <4>2, <4>3, <4>4, <4>5, <4>6, <4>7
    <3> QED
      BY <3>1 DEF Settled, CRef_Undef
  <2>2. CASE clauseAdded
    BY <1>1, <2>2 DEF clauseAdded, Settled, Control, CRef_Undef
  <2>3. CASE conflictAtRoot
    BY <2>3 DEF conflictAtRoot, Settled
  <2>4. CASE conflict
    BY <2>4 DEF conflict, Settled, CRef_Undef
  <2>5. CASE simplifyEnds
    <3>1. CASE confl # CRef_Undef
      BY <2>5, <3>1 DEF simplifyEnds, Settled
    <3>2. CASE confl = CRef_Undef
      BY <2>5, <3>2 DEF simplifyEnds, Settled
    <3> QED
      BY <3>1, <3>2
  <2>6. CASE analyze
    <3>1. pc' = "analyze" \/ pc' = "minimize"
      BY <2>6 DEF analyze
    <3>2. pc' = "analyze" => confl' # CRef_Undef
      <4>1. pc' = "analyze" => (an'.p = -1 => Conflicting(confl)') /\ (an'.p # -1 => confl' # CRef_Undef)
        BY DEF Structure, Analysis, CRef_Undef
      <4>2. Conflicting(confl)' => confl' # CRef_Undef
        <5>1. confl' \in Live' => confl' \in DOMAIN ca' /\ ca' \in Seq(ClauseSet')
          BY DEF Structure, TypeOK, DatabaseType, Live
        <5> QED
          BY <5>1 DEF Conflicting, CRef_Undef
      <4> QED
        BY <4>1, <4>2
    <3> QED
      BY <3>1, <3>2 DEF Settled, CRef_Undef
  <2>7. CASE minimize \/ litRedundant
    BY <2>7 DEF minimize, litRedundant, Settled
  <2> QED
    BY <2>1, <2>2, <2>3, <2>4, <2>5, <2>6, <2>7
<1> QED
  BY <1>2, <1>3, TwoWatchedMoves

LEMMA TwoWatchedPropagate == ASSUME Structure, TwoWatched, propagate PROVE TwoWatched'
<1>1. /\ clauses' = clauses /\ learnts' = learnts /\ ca' = ca /\ assigns' = assigns /\ vardata' = vardata
      /\ trail' = trail /\ trail_lim' = trail_lim /\ qhead' = qhead /\ pc = "propagate" /\ pc' = "facts" /\ ok' = ok
  BY DEF propagate, assignment
<1>2. confl = CRef_Undef
  BY <1>1 DEF Structure, Control
<1>3. Settled' => Settled
  BY <1>1, <1>2 DEF Settled
<1>4. Live' \subseteq Live
  BY <1>1 DEF Live
<1> QED
  BY <1>1, <1>3, <1>4, TwoWatchedPlain

LEMMA TwoWatchedEnd == ASSUME Structure, TwoWatched, endOfList PROVE TwoWatched'
<1>1. /\ clauses' = clauses /\ learnts' = learnts /\ ca' = ca /\ assigns' = assigns /\ vardata' = vardata
      /\ trail' = trail /\ trail_lim' = trail_lim /\ qhead' = qhead /\ pc = "watches" /\ pc' = "facts" /\ ok' = ok
      /\ confl' = confl /\ ws.i > Len(watches[ws.p])
  BY DEF endOfList, assignment, db
<1>2. Live' \subseteq Live /\ \A v \in Var : KeepsValue(v)
  BY <1>1 DEF Live, KeepsValue
<1>3. \A cr, q : ~Pending(cr, q)
  <2>1. ws.i \in Nat /\ ws.i > 0
    BY <1>1 DEF Structure, TypeOK, ScratchType, ListSet, Working
  <2>2. ws.p \in Lit
    <3>1. PICK k \in 1 .. qhead : trail[k] = ws.p
      BY <1>1 DEF Structure, Working
    <3>2. qhead <= Len(trail) /\ qhead \in Nat /\ trail \in Seq(Lit)
      BY DEF Structure, TypeOK, AssignmentType, Control, nAssigns
    <3> QED
      BY <3>1, <3>2
  <2>3. watches[ws.p] \in Seq(WatcherSet)
    BY <2>2 DEF Structure, TypeOK, DatabaseType
  <2>4. Len(watches[ws.p]) \in Nat
    BY <2>3
  <2>5. ws.i .. Len(watches[ws.p]) = {}
    BY <1>1, <2>1, <2>4
  <2> QED
    BY <2>5 DEF Pending
<1>4. \A cr \in Live', q \in Lit : (Settled /\ Processed(q) /\ ~Pending(cr, q))'
                                   => Settled /\ Processed(q) /\ ~Pending(cr, q)
  BY <1>1, <1>3 DEF Settled, Processed
<1> QED
  BY <1>1, <1>2, <1>4, TwoWatchedQuiet

(***************************************************************************)
(* The list of the next fact has each clause it watches.                   *)
(***************************************************************************)
LEMMA TwoWatchedNext == ASSUME Structure, TwoWatched, nextFact PROVE TwoWatched'
<1>1. /\ clauses' = clauses /\ learnts' = learnts /\ ca' = ca /\ assigns' = assigns /\ vardata' = vardata
      /\ trail' = trail /\ trail_lim' = trail_lim /\ pc = "facts" /\ pc' = "watches" /\ ok' = ok
      /\ confl' = confl /\ watches' = watches /\ qhead' = qhead + 1 /\ qhead < nAssigns
      /\ ws' = [p |-> trail[qhead + 1], i |-> 1, kept |-> <<>>]
  BY DEF nextFact, assignment, db
<1>2. Live' = Live /\ \A v \in Var : KeepsValue(v)
  BY <1>1 DEF Live, KeepsValue
<1>3. PICK n \in Nat : n = qhead + 1
  BY DEF Structure, TypeOK, AssignmentType
<1>4. PICK p : p = trail[n]
  OBVIOUS
<1>5. ws'.p = p /\ ws'.i = 1 /\ p \in Lit
  <2>1. n \in 1 .. Len(trail) /\ trail \in Seq(Lit)
    BY <1>1, <1>3 DEF Structure, TypeOK, AssignmentType, nAssigns
  <2> QED
    BY <1>1, <1>3, <1>4, <2>1
<1>6. ASSUME NEW cr \in Live', NEW q, WasDue(cr, q)'
      PROVE  WasDue(cr, q) /\ KeepsLiterals(cr) /\ Keeps(cr, q)
  <2>1. cr \in Live /\ Watch(cr, q)
    BY <1>1, <1>2, <1>6 DEF WasDue, Watch, lits
  <2>2. q \in Lit
    BY <2>1, LiveClause DEF Watch
  <2>3. KeepsLiterals(cr) /\ Keeps(cr, q)
    BY <1>1, <1>2 DEF KeepsLiterals, Keeps
  <2>4. /\ value(q)' = l_False /\ (level(var(q))' < decisionLevel' \/ (Settled /\ Processed(q) /\ ~Pending(cr, q))')
    BY <1>6 DEF WasDue, Due
  <2>5. value(q)' = value(q) /\ level(var(q))' = level(var(q)) /\ decisionLevel' = decisionLevel
        /\ (Settled' <=> Settled)
    BY <1>1 DEF value, level, decisionLevel, Settled
  <2>6. Due(cr, q)
    <3>1. CASE Processed(q)
      BY <1>1, <2>4, <2>5, <3>1 DEF Due, Pending
    <3>2. CASE ~Processed(q) /\ Processed(q)'
      <4>1. PICK k \in 1 .. qhead' : trail'[k] = neg(q)
        BY <3>2 DEF Processed
      <4>2. k = n
        <5>1. qhead \in Nat
          BY DEF Structure, TypeOK, AssignmentType
        <5>2. k \in 1 .. qhead \/ k = n
          BY <1>1, <1>3, <5>1
        <5> QED
          BY <1>1, <3>2, <4>1, <5>2 DEF Processed
      <4>3. neg(q) = p
        BY <1>1, <1>4, <4>1, <4>2
      <4>4. Pending(cr, q)'
        <5>1. WatchesIn(watches, ca, Live, dirty)
          <6>1. ws = NoList
            BY <1>1 DEF Structure, Working
          <6>2. Lists = watches
            <7>1. VarsType /\ watches \in [Lit -> Seq(WatcherSet)] /\ Lit \subseteq Nat
              BY Literals DEF Structure, TypeOK, DatabaseType
            <7> QED
              BY <6>1, <7>1, ListsIdle DEF Lists
          <6> QED
            BY <6>2 DEF Structure, Watches
        <5>2. DOMAIN watches = Lit /\ watches[p] \in Seq(WatcherSet)
          BY <1>5 DEF Structure, TypeOK, DatabaseType
        <5>3. p \in {neg(ca[cr].lits[1]), neg(ca[cr].lits[2])}
          BY <2>1, <4>3 DEF Watch, lits
        <5>4. Watched(watches[p], cr)
          BY <1>5, <2>1, <5>1, <5>2, <5>3 DEF WatchesIn
        <5>5. PICK i \in DOMAIN watches[p] : watches[p][i].cref = cr
          BY <5>4 DEF Watched
        <5>6. i \in 1 .. Len(watches[p])
          BY <5>2, <5>5
        <5> QED
          BY <1>1, <1>5, <4>3, <5>5, <5>6 DEF Pending
      <4> QED
        BY <2>4, <2>5, <4>4 DEF Due
    <3>3. CASE ~Processed(q)'
      BY <2>4, <2>5, <3>3 DEF Due
    <3> QED
      BY <3>1, <3>2, <3>3
  <2> QED
    BY <2>1, <2>3, <2>6 DEF WasDue
<1> QED
  BY <1>2, <1>6, TwoWatchedStep

(***************************************************************************)
(* Clauses are removed, collected, and made.                               *)
(***************************************************************************)
LEMMA RemovedLevels ==
  ASSUME Structure, NEW R, RemoveClauses(R)
  PROVE  /\ \A v \in Var : vardata'[v].level = vardata[v].level
         /\ \A cr \in DOMAIN ca : ca'[cr].lits = ca[cr].lits
         /\ Live' \subseteq Live
<1>1. vardata \in [Var -> DataSet] /\ ca \in Seq(ClauseSet)
  BY DEF Structure, TypeOK, AssignmentType, DatabaseType, DataSet
<1>2. ASSUME NEW v \in Var PROVE vardata'[v].level = vardata[v].level
  <2>1. vardata'[v] \in {[vardata[v] EXCEPT !.reason = CRef_Undef], vardata[v]}
    BY DEF RemoveClauses
  <2>2. vardata[v] \in DataSet
    BY <1>1
  <2> QED
    BY <2>1, <2>2 DEF DataSet
<1>3. ASSUME NEW cr \in DOMAIN ca PROVE ca'[cr].lits = ca[cr].lits
  <2>1. ca'[cr] \in {[ca[cr] EXCEPT !.mark = 1], ca[cr]}
    BY DEF RemoveClauses
  <2>2. ca[cr] \in ClauseSet
    BY <1>1
  <2> QED
    BY <2>1, <2>2 DEF ClauseSet
<1>4. Live' \subseteq Live
  BY DEF RemoveClauses, Live
<1> QED
  BY <1>2, <1>3, <1>4

LEMMA TwoWatchedRemove ==
  ASSUME Structure, TwoWatched, simplify \/ reduceDB
  PROVE  TwoWatched'
<1>1. PICK R : RemoveClauses(R)
  BY DEF simplify, reduceDB
<1>2. /\ assigns' = assigns /\ trail' = trail /\ trail_lim' = trail_lim /\ qhead' = qhead
      /\ ok' = ok /\ confl' = confl /\ pc' = "garbage" /\ pc \in {"simplify", "reduce"}
  BY DEF simplify, reduceDB
<1>3. Settled' => Settled
  BY <1>2 DEF Settled
<1>4. /\ \A v \in Var : vardata'[v].level = vardata[v].level
      /\ \A cr \in Live' : ca'[cr].lits = ca[cr].lits
      /\ Live' \subseteq Live
  <2>1. Live \subseteq DOMAIN ca
    BY DEF Structure, TypeOK, DatabaseType, Live
  <2> QED
    BY <1>1, <2>1, RemovedLevels
<1> QED
  BY <1>2, <1>3, <1>4, TwoWatchedPlain

LEMMA TwoWatchedCollect == ASSUME Structure, TwoWatched, garbageCollect PROVE TwoWatched'
<1>1. PICK W, new : Collected(W, new)
  BY CollectorMoves
<1>2. /\ assigns' = assigns /\ trail' = trail /\ trail_lim' = trail_lim /\ qhead' = qhead
      /\ ok' = ok /\ confl' = confl /\ pc = "garbage" /\ ws' = ws /\ pc' = Head(stack)
  BY DEF garbageCollect
<1>3. pc' \in {"solve", "reduce", "decide"}
  <2>1. stack \in {<<"solve">>, <<"reduce">>, <<"decide">>}
    BY <1>2 DEF Structure, Control, Returns, InPropagate
  <2> QED
    BY <1>2, <2>1, OneFrame
<1>4. \A v \in Var : vardata'[v].level = vardata[v].level
  <2> SUFFICES ASSUME NEW v \in Var PROVE vardata'[v].level = vardata[v].level
    OBVIOUS
  <2>1. vardata'[v] \in {[vardata[v] EXCEPT !.reason = new[@]], vardata[v]}
    BY <1>1 DEF Collected
  <2>2. vardata[v] \in DataSet
    BY DEF Structure, TypeOK, AssignmentType, DataSet
  <2> QED
    BY <2>1, <2>2 DEF DataSet
<1>5. ASSUME NEW cr \in Live', NEW i \in 1 .. 2, Due(cr, lits(cr)[i])'
      PROVE  MadeGood(cr, lits(cr)[i])'
  <2>1. PICK x \in Live : new[x] = cr /\ ca'[cr] = ca[x]
    BY <1>1 DEF Collected
  <2>2. PICK q : q = lits(x)[i]
    OBVIOUS
  <2>3. lits(cr)' = lits(x)
    BY <2>1 DEF lits
  <2>4. q \in Lit /\ var(q) \in Var
    <3>1. q \in Lit
      BY <2>2, LiveClause
    <3> QED
      BY <3>1, FalseLiteral
  <2>5. /\ value(q)' = value(q) /\ level(var(q))' = level(var(q)) /\ decisionLevel' = decisionLevel
        /\ (Processed(q)' <=> Processed(q)) /\ (Settled' <=> Settled) /\ ~Pending(x, q)
    BY <1>2, <1>3, <1>4, <2>4 DEF value, level, decisionLevel, Processed, Settled, Pending
  <2>6. Due(cr, q)'
    BY <1>5, <2>2, <2>3
  <2>7. Due(x, q)
    BY <2>5, <2>6 DEF Due
  <2>8. MadeGood(x, q)
    BY <2>2, <2>7 DEF TwoWatched
  <2>9. PICK j \in DOMAIN lits(x) : value(lits(x)[j]) = l_True /\ level(var(lits(x)[j])) <= level(var(q))
    BY <2>8 DEF MadeGood
  <2>10. PICK y : y = lits(x)[j]
    OBVIOUS
  <2>11. var(y) \in Var
    BY <2>9, <2>10, LiveClause
  <2>12. value(y)' = l_True /\ level(var(y))' <= level(var(q))'
    BY <1>2, <1>4, <2>4, <2>9, <2>10, <2>11 DEF value, level
  <2> QED
    BY <2>2, <2>3, <2>9, <2>10, <2>12 DEF MadeGood
<1> QED
  BY <1>5 DEF TwoWatched

LEMMA TwoWatchedVar == ASSUME Structure, TwoWatched, newVar PROVE TwoWatched'
<1>1. PICK n : n = nVars
  OBVIOUS
<1>2. /\ pc = "idle" /\ pc' = pc /\ confl' = confl /\ ok' = ok /\ qhead' = qhead
      /\ trail' = trail /\ trail_lim' = trail_lim
      /\ clauses' = clauses /\ learnts' = learnts /\ ca' = ca
      /\ assigns' = [x \in 0 .. n |-> IF x = n THEN l_Undef ELSE assigns[x]]
      /\ vardata' = [x \in 0 .. n |-> IF x = n THEN [reason |-> CRef_Undef, level |-> 0] ELSE vardata[x]]
  BY <1>1 DEF newVar, Call, db
<1>3. n \in Nat /\ Var = 0 .. n - 1
  BY <1>1, Literals DEF Structure, TypeOK
<1>4. \A v \in Var : KeepsValue(v)
  BY <1>2, <1>3 DEF KeepsValue
<1>5. \A cr, q : ~Pending(cr, q) /\ ~Pending(cr, q)'
  BY <1>2 DEF Pending
<1>6. Live' \subseteq Live
  BY <1>2 DEF Live
<1>7. \A cr \in Live', q \in Lit : (Settled /\ Processed(q) /\ ~Pending(cr, q))'
                                   => Settled /\ Processed(q) /\ ~Pending(cr, q)
  BY <1>2, <1>5 DEF Settled, Processed
<1> QED
  BY <1>2, <1>4, <1>6, <1>7, TwoWatchedQuiet

(***************************************************************************)
(* Where nothing is left to propagate, every false literal is due.         *)
(***************************************************************************)
AtRest == ok /\ confl = CRef_Undef /\ ~InPropagate /\ pc \notin {"minimize", "litRedundant", "l_False"}

LEMMA AllDue ==
  ASSUME Structure, AtRest, NEW cr, NEW q \in Lit, value(q) = l_False
  PROVE  Due(cr, q)
<1>1. qhead = nAssigns
  BY DEF Structure, Control, AtRest
<1>2. \E k \in 1 .. nAssigns : trail[k] = neg(q)
  BY FalseLiteral
<1> QED
  BY <1>1, <1>2 DEF Due, Settled, Processed, Pending, AtRest, InPropagate

(***************************************************************************)
(* A literal is enqueued.                                                  *)
(***************************************************************************)
LEMMA EnqueueKeeps ==
  ASSUME Structure, NEW p \in Lit, value(p) = l_Undef, NEW from \in Nat, NEW lvl \in Nat,
         uncheckedEnqueue(p, from, lvl, assigns, vardata, trail)
  PROVE  /\ \A v \in Var : assigns[v] # l_Undef => KeepsValue(v)
         /\ value(p)' = l_True /\ level(var(p))' = lvl
         /\ \A q \in Lit : value(q)' = l_False => value(q) = l_False \/ q = neg(p)
         /\ \A k \in 1 .. nAssigns : trail'[k] = trail[k]
<1>1. PICK e : e = Enqueued(p, from, lvl, assigns, vardata, trail)
  OBVIOUS
<1>2. assigns' = e.assigns /\ vardata' = e.vardata /\ trail' = e.trail
  BY <1>1 DEF uncheckedEnqueue
<1>3. Tables(Var, Lit, assigns, vardata, trail, trail_lim)
  BY Assigned DEF Structure, TypeOK
<1>4. /\ e.assigns[var(p)] = sign(p) /\ \A v \in Var : v # var(p) => e.assigns[v] = assigns[v]
      /\ e.vardata[var(p)].level = lvl
      /\ \A v \in Var : v # var(p) => e.vardata[v] = vardata[v]
  BY <1>1, <1>3, EnqueuedIs
<1>5. \A k \in 1 .. Len(trail) : e.trail[k] = trail[k]
  BY <1>1, <1>3, EnqueuedIs
<1>6. p \in Nat /\ var(p) \in Var /\ assigns[var(p)] = l_Undef
  BY FalseLiteral
<1>7. ASSUME NEW v \in Var, assigns[v] # l_Undef PROVE KeepsValue(v)
  <2>1. v # var(p)
    BY <1>6, <1>7
  <2> QED
    BY <1>2, <1>4, <2>1 DEF KeepsValue
<1>8. value(p)' = l_True
  <2>1. value(p)' = IF assigns'[var(p)] = l_Undef THEN l_Undef ELSE (assigns'[var(p)] + sign(p)) % 2
    BY DEF value
  <2>2. sign(p) \in 0 .. 1
    BY <1>6, LitFacts
  <2>3. assigns'[var(p)] = sign(p)
    BY <1>2, <1>4
  <2> QED
    BY <2>1, <2>2, <2>3 DEF l_True, l_Undef
<1>9. ASSUME NEW q \in Lit, value(q)' = l_False PROVE value(q) = l_False \/ q = neg(p)
  <2>1. q \in Nat /\ var(q) \in Var
    BY FalseLiteral
  <2>2. CASE var(q) = var(p)
    <3>1. q = p \/ q = neg(p)
      BY <1>6, <2>1, <2>2, SameVar
    <3> QED
      BY <1>8, <1>9, <3>1, TruthValues
  <2>3. CASE var(q) # var(p)
    <3>1. assigns'[var(q)] = assigns[var(q)]
      BY <1>2, <1>4, <2>1, <2>3
    <3>2. value(q)' = value(q)
      BY <3>1 DEF value
    <3> QED
      BY <1>9, <3>2
  <2> QED
    BY <2>2, <2>3
<1> QED
  BY <1>2, <1>4, <1>5, <1>7, <1>8, <1>9 DEF level, nAssigns

LEMMA TwoWatchedDecide == ASSUME Structure, TwoWatched, decide PROVE TwoWatched'
<1>1. PICK v \in order_heap :
        /\ assigns[v] = l_Undef
        /\ trail_lim' = Append(trail_lim, nAssigns)
        /\ uncheckedEnqueue(2 * v + polarity[v], CRef_Undef, decisionLevel + 1, assigns, vardata, trail)
  BY DEF decide
<1>2. /\ pc = "decide" /\ pc' = "propagate" /\ confl' = confl /\ ok' = ok /\ qhead' = qhead
      /\ clauses' = clauses /\ learnts' = learnts /\ ca' = ca
  BY DEF decide, db
<1>3. VarsType /\ AssignmentType /\ Control
  BY DEF Structure, TypeOK
<1>4. PICK p : p = 2 * v + polarity[v]
  OBVIOUS
<1>5. p \in Lit /\ value(p) = l_Undef /\ p \in Nat
  <2>1. v \in Var /\ v \in Nat /\ polarity[v] \in 0 .. 1
    BY <1>1, <1>3, Literals DEF AssignmentType
  <2>2. p \in Nat /\ var(p) = v
    BY <1>4, <2>1, LitMade
  <2>3. p \in Lit
    BY <1>3, <2>1, <2>2, Literals
  <2> QED
    BY <1>1, <2>2, <2>3, FalseLiteral
<1>6. PICK d \in Nat : d = decisionLevel
  BY <1>3 DEF AssignmentType, decisionLevel
<1>7. decisionLevel' = d + 1
  BY <1>1, <1>3, <1>6 DEF AssignmentType, decisionLevel
<1>8. CRef_Undef \in Nat /\ uncheckedEnqueue(p, CRef_Undef, d + 1, assigns, vardata, trail)
  BY <1>1, <1>4, <1>6 DEF CRef_Undef
<1>9. /\ \A x \in Var : assigns[x] # l_Undef => KeepsValue(x)
      /\ level(var(p))' = d + 1
      /\ \A q \in Lit : value(q)' = l_False => value(q) = l_False \/ q = neg(p)
      /\ \A k \in 1 .. nAssigns : trail'[k] = trail[k]
  BY <1>5, <1>6, <1>8, EnqueueKeeps
<1>10. AtRest
  BY <1>2, <1>3 DEF AtRest, Control, InPropagate
<1>11. qhead = nAssigns /\ nAssigns \in Nat
  BY <1>3, <1>10 DEF Control, AtRest, AssignmentType, nAssigns
<1>12. ASSUME NEW cr \in Live', NEW q, WasDue(cr, q)'
       PROVE  cr \in Live /\ WasDue(cr, q) /\ KeepsLiterals(cr) /\ Keeps(cr, q)
  <2>1. cr \in Live /\ Watch(cr, q)
    BY <1>2, <1>12 DEF WasDue, Watch, lits, Live
  <2>2. q \in Lit
    BY <2>1, LiveClause DEF Watch
  <2>3. KeepsLiterals(cr) /\ Keeps(cr, q)
    BY <1>2, <1>9 DEF KeepsLiterals, Keeps
  <2>4. value(q)' = l_False /\ (level(var(q))' < decisionLevel' \/ Processed(q)')
    BY <1>12 DEF WasDue, Due
  <2>5. value(q) = l_False
    <3> SUFFICES ASSUME q = neg(p) PROVE FALSE
      BY <1>9, <2>2, <2>4
    <3>1. var(q) = var(p) /\ neg(q) = p
      BY <1>5, LitFacts
    <3>2. Processed(q)'
      BY <1>6, <1>7, <1>9, <2>4, <3>1
    <3>3. PICK k \in 1 .. qhead' : trail'[k] = neg(q)
      BY <3>2 DEF Processed
    <3>4. k \in 1 .. nAssigns /\ trail[k] = p
      BY <1>2, <1>9, <1>11, <3>1, <3>3
    <3>5. value(q) = l_False
      BY <2>2, <3>1, <3>4, FalseLiteral
    <3>6. assigns[var(q)] # l_Undef
      BY <2>2, <3>5, FalseLiteral, TruthValues
    <3>7. assigns[var(p)] = l_Undef
      BY <1>5, FalseLiteral
    <3> QED
      BY <3>1, <3>6, <3>7
  <2>6. Due(cr, q)
    BY <1>10, <2>2, <2>5, AllDue
  <2> QED
    BY <2>1, <2>3, <2>6 DEF WasDue
<1> QED
  BY <1>12, TwoWatchedStep

(***************************************************************************)
(* A clause is added when everything has been propagated: a unit is a new  *)
(* fact, a longer clause has no literal with a value.                      *)
(***************************************************************************)
LEMMA TwoWatchedAdd == ASSUME Structure, Structure', TwoWatched, addClause PROVE TwoWatched'
<1>1. /\ VarsType /\ AssignmentType /\ DatabaseType /\ ScratchType /\ Control /\ Working /\ Clauses /\ Watches
  BY DEF Structure, TypeOK
<1>2. PICK S : S = ToSet(Head(calls).ps)
  OBVIOUS
<1>3. PICK c : c = Remaining(S)
  OBVIOUS
<1>4. /\ pc = "idle" /\ S \subseteq Lit /\ qhead' = qhead /\ confl' = confl /\ ws' = ws
      /\ \/ UNCHANGED <<db, watches, assignment, pc, stack>>
         \/ ok' = FALSE /\ UNCHANGED <<clauses, learnts, ca, dirty, watches, assignment, pc, stack>>
         \/ /\ ok /\ ~Redundant(S) /\ Len(c) = 1
            /\ uncheckedEnqueue(c[1], CRef_Undef, decisionLevel, assigns, vardata, trail)
            /\ UNCHANGED <<db, watches, trail_lim, order_heap, polarity>>
         \/ /\ ok /\ ~Redundant(S) /\ Len(c) # 0 /\ Len(c) # 1
            /\ ca' = Alloc(c, FALSE) /\ clauses' = clauses \cup {Len(ca) + 1}
            /\ watches' = Attached(c, Len(ca) + 1)
            /\ UNCHANGED <<ok, learnts, dirty, assignment, pc, stack>>
  BY <1>2, <1>3 DEF addClause, Call, attachClause, Attached
<1>5. /\ confl = CRef_Undef /\ decisionLevel = 0 /\ qhead <= nAssigns /\ qhead \in Nat /\ nAssigns \in Nat
  BY <1>1, <1>4 DEF Control, AtRoot, AssignmentType, InPropagate, nAssigns
<1>6. CASE UNCHANGED <<db, watches, assignment, pc, stack>>
  <2>1. UNCHANGED <<clauses, learnts, ca>> /\ UNCHANGED assignment /\ pc # "watches" /\ (Settled' => Settled)
    BY <1>4, <1>6 DEF db, Settled
  <2> QED
    BY <1>4, <2>1, TwoWatchedMoves
<1>7. CASE ok' = FALSE /\ UNCHANGED <<clauses, learnts, ca, dirty, watches, assignment, pc, stack>>
  <2>1. UNCHANGED <<clauses, learnts, ca>> /\ UNCHANGED assignment /\ pc # "watches" /\ (Settled' => Settled)
    BY <1>4, <1>7 DEF Settled
  <2> QED
    BY <1>4, <2>1, TwoWatchedMoves
<1>8. CASE /\ ok /\ ~Redundant(S) /\ Len(c) = 1
           /\ uncheckedEnqueue(c[1], CRef_Undef, decisionLevel, assigns, vardata, trail)
           /\ UNCHANGED <<db, watches, trail_lim, order_heap, polarity>>
  <2>1. c \in Seq(Lit) /\ \A k \in DOMAIN c : assigns[var(c[k])] = l_Undef
    BY <1>1, <1>3, <1>4, <1>8, RemainingIs
  <2>2. PICK p : p = c[1]
    OBVIOUS
  <2>3. p \in Lit /\ value(p) = l_Undef
    <3>1. p \in Lit /\ assigns[var(p)] = l_Undef
      BY <1>8, <2>1, <2>2
    <3> QED
      BY <3>1, FalseLiteral
  <2>4. CRef_Undef \in Nat /\ 0 \in Nat /\ uncheckedEnqueue(p, CRef_Undef, 0, assigns, vardata, trail)
    BY <1>5, <1>8, <2>2 DEF CRef_Undef
  <2>5. /\ \A x \in Var : assigns[x] # l_Undef => KeepsValue(x)
        /\ \A k \in 1 .. nAssigns : trail'[k] = trail[k]
    BY <2>3, <2>4, EnqueueKeeps
  <2>6. AtRest
    BY <1>4, <1>5, <1>8 DEF AtRest, InPropagate
  <2>7. decisionLevel' = 0 /\ clauses' = clauses /\ learnts' = learnts /\ ca' = ca
    BY <1>5, <1>8 DEF decisionLevel, db
  <2>8. ASSUME NEW cr \in Live', NEW q, WasDue(cr, q)'
        PROVE  cr \in Live /\ WasDue(cr, q) /\ KeepsLiterals(cr) /\ Keeps(cr, q)
    <3>1. cr \in Live /\ Watch(cr, q)
      BY <2>7, <2>8 DEF WasDue, Watch, lits, Live
    <3>2. q \in Lit
      BY <3>1, LiveClause DEF Watch
    <3>3. KeepsLiterals(cr) /\ Keeps(cr, q)
      BY <2>5, <2>7 DEF KeepsLiterals, Keeps
    <3>4. level(var(q))' < decisionLevel' \/ Processed(q)'
      BY <2>8 DEF WasDue, Due
    <3>5. Processed(q)'
      <4>1. var(q) \in Var /\ DOMAIN assigns' = Var'
        BY <3>2, FalseLiteral DEF Structure, TypeOK, VarsType
      <4>2. Var' = Var
        <5>1. DOMAIN assigns' = DOMAIN assigns
          BY <1>8 DEF uncheckedEnqueue, Enqueued
        <5> QED
          BY <1>1, <5>1, SameVars
      <4>3. vardata' \in [Var' -> [reason : Nat, level : Nat]]
        BY DEF Structure, TypeOK, AssignmentType
      <4>4. vardata'[var(q)] \in [reason : Nat, level : Nat]
        BY <4>1, <4>2, <4>3
      <4>5. level(var(q))' \in Nat
        BY <4>4 DEF level
      <4> QED
        BY <2>7, <3>4, <4>5
    <3>6. PICK k \in 1 .. qhead' : trail'[k] = neg(q)
      BY <3>5 DEF Processed
    <3>7. k \in 1 .. nAssigns /\ trail[k] = neg(q)
      BY <1>4, <1>5, <2>5, <3>6
    <3>8. value(q) = l_False
      BY <3>2, <3>7, FalseLiteral
    <3>9. Due(cr, q)
      BY <2>6, <3>2, <3>8, AllDue
    <3> QED
      BY <3>1, <3>3, <3>9 DEF WasDue
  <2> QED
    BY <2>8, TwoWatchedStep
<1>9. CASE /\ ok /\ ~Redundant(S) /\ Len(c) # 0 /\ Len(c) # 1
           /\ ca' = Alloc(c, FALSE) /\ clauses' = clauses \cup {Len(ca) + 1}
           /\ watches' = Attached(c, Len(ca) + 1)
           /\ UNCHANGED <<ok, learnts, dirty, assignment, pc, stack>>
  <2>1. c \in Seq(Lit) /\ Len(c) >= 2 /\ Distinct(c) /\ \A k \in DOMAIN c : assigns[var(c[k])] = l_Undef
    <3>1. c \in Seq(Lit) /\ Len(c) \in Nat /\ Distinct(c) /\ \A k \in DOMAIN c : assigns[var(c[k])] = l_Undef
      BY <1>1, <1>3, <1>4, <1>9, RemainingIs
    <3>2. PICK l : l = Len(c)
      OBVIOUS
    <3>3. l # 0 /\ l # 1 /\ l \in Nat
      BY <1>9, <3>1, <3>2
    <3>4. l >= 2
      BY <3>3
    <3> QED
      BY <3>1, <3>2, <3>4
  <2>2. /\ ok' = ok /\ learnts' = learnts /\ pc' = pc
        /\ assigns' = assigns /\ vardata' = vardata /\ trail' = trail /\ trail_lim' = trail_lim
    BY <1>9 DEF assignment
  <2>7. PICK e : e = [lits |-> c, learnt |-> FALSE, mark |-> 0]
    OBVIOUS
  <2>8. PICK n : n = Len(ca) + 1
    OBVIOUS
  <2>9. Live \subseteq DOMAIN ca /\ ca \in Seq(ClauseSet) /\ e \in ClauseSet /\ e.lits = c
    BY <1>1, <2>1, <2>7 DEF DatabaseType, Live, ClauseSet
  <2>10. PICK B : B = Append(ca, e)
    OBVIOUS
  <2>11. (\A x \in Live : B[x] = ca[x]) /\ B[n].lits = c
    <3>1. DOMAIN ca = 1 .. Len(ca)
      BY <2>9
    <3>2. B[Len(ca) + 1] = e /\ \A k \in 1 .. Len(ca) : B[k] = ca[k]
      BY <2>9, <2>10, AppendIs
    <3> QED
      BY <2>8, <2>9, <3>1, <3>2
  <2>12. ca' = B /\ Live' = Live \cup {n}
    BY <1>9, <2>2, <2>7, <2>8, <2>10 DEF Live, Alloc
  <2>13. AtRest
    BY <1>4, <1>5, <1>9 DEF AtRest, InPropagate
  <2>14. ASSUME NEW cr \in Live', NEW q, WasDue(cr, q)'
         PROVE  cr \in Live /\ WasDue(cr, q) /\ KeepsLiterals(cr) /\ Keeps(cr, q)
    <3>1. value(q)' = l_False /\ value(q)' = value(q)
      BY <2>2, <2>14 DEF WasDue, Due, value
    <3>2. PICK j \in 1 .. 2 : ca'[cr].lits[j] = q
      BY <2>14 DEF WasDue, Watch, lits
    <3>3. cr # n
      <4> SUFFICES ASSUME cr = n PROVE FALSE
        OBVIOUS
      <4>1. j \in DOMAIN c /\ c[j] = q
        BY <2>1, <2>11, <2>12, <3>2
      <4>2. q \in Lit /\ assigns[var(q)] = l_Undef
        BY <2>1, <4>1
      <4> QED
        BY <3>1, <4>2, FalseLiteral, TruthValues
    <3>4. cr \in Live /\ ca'[cr] = ca[cr]
      BY <2>11, <2>12, <3>3
    <3>5. Watch(cr, q) /\ KeepsLiterals(cr)
      BY <3>2, <3>4 DEF Watch, lits, KeepsLiterals
    <3>6. q \in Lit
      BY <3>4, <3>5, LiveClause DEF Watch
    <3>7. Due(cr, q)
      BY <2>13, <3>1, <3>6, AllDue
    <3>8. Keeps(cr, q)
      BY <2>2 DEF Keeps, KeepsValue
    <3> QED
      BY <3>4, <3>5, <3>7, <3>8 DEF WasDue
  <2> QED
    BY <2>14, TwoWatchedStep
<1> QED
  BY <1>4, <1>6, <1>7, <1>8, <1>9

(***************************************************************************)
(* One turn of the watcher loop: the other clauses and what was assigned   *)
(* stay; a is the literal of the list's watches that has become false.     *)
(***************************************************************************)
Turns(p, i, l, cr) ==
  /\ Live' = Live /\ trail_lim' = trail_lim /\ pc' = pc /\ ok' = ok /\ watches'[p] = l
  /\ \A x \in Live : x # cr => ca'[x] = ca[x]
  /\ \A v \in Var : assigns[v] # l_Undef => KeepsValue(v)
  /\ \A k \in 1 .. nAssigns : trail'[k] = trail[k]
  /\ \A q \in Lit : value(q)' = l_False =>
       value(q) = l_False \/ (level(var(q))' = decisionLevel /\ \A k \in 1 .. nAssigns : trail[k] # neg(q))
  /\ confl' # CRef_Undef \/ (qhead' = qhead /\ ws'.p = p /\ ws'.i = i + 1)

LEMMA TurnDue ==
  ASSUME Structure, NEW p, NEW a, NEW i, NEW l, NEW s, NEW w, NEW cr, NEW d, NEW c,
         AtWatcher(p, a, i, l, s, w, cr, d, c), Turns(p, i, l, cr),
         NEW x \in Live, NEW q \in Lit, x # cr \/ q # a, Due(x, q)'
  PROVE  Due(x, q)
<1>1. /\ VarsType /\ AssignmentType /\ Control
  BY DEF Structure, TypeOK
<1>2. /\ pc = "watches" /\ ws.p = p /\ ws.i = i /\ watches[p] = l /\ a = neg(p) /\ l[i].cref = cr
  BY DEF AtWatcher
<1>3. /\ p \in Nat /\ l \in Seq(WatcherSet) /\ i \in 1 .. Len(l) /\ confl = CRef_Undef /\ ok
  BY WatcherList
<1>4. /\ trail_lim' = trail_lim /\ pc' = pc /\ ok' = ok /\ watches'[p] = l
      /\ confl' # CRef_Undef \/ (qhead' = qhead /\ ws'.p = p /\ ws'.i = i + 1)
  BY DEF Turns
<1>5. qhead \in Nat /\ nAssigns \in Nat /\ qhead <= nAssigns /\ decisionLevel \in Nat /\ decisionLevel' = decisionLevel
  BY <1>1, <1>4 DEF AssignmentType, Control, nAssigns, decisionLevel
<1>6. /\ value(q)' = l_False /\ (level(var(q))' < decisionLevel' \/ (Settled /\ Processed(q) /\ ~Pending(x, q))')
  BY DEF Due
<1>7. (Settled /\ Processed(q))' => confl' = CRef_Undef /\ Processed(q)
  <2> SUFFICES ASSUME Settled', Processed(q)' PROVE confl' = CRef_Undef /\ Processed(q)
    OBVIOUS
  <2>1. confl' = CRef_Undef
    BY DEF Settled, CRef_Undef
  <2>2. qhead' = qhead
    BY <1>4, <2>1
  <2>3. PICK k \in 1 .. qhead : trail'[k] = neg(q)
    BY <2>2 DEF Processed
  <2>4. k \in 1 .. nAssigns
    BY <1>5
  <2>5. trail[k] = neg(q)
    BY <2>3, <2>4 DEF Turns
  <2> QED
    BY <2>1, <2>5 DEF Processed
<1>8. value(q) = l_False
  <2> SUFFICES ASSUME level(var(q))' = decisionLevel, \A k \in 1 .. nAssigns : trail[k] # neg(q) PROVE FALSE
    BY <1>6 DEF Turns
  <2>1. Processed(q)
    BY <1>5, <1>6, <1>7
  <2>2. PICK k \in 1 .. qhead : trail[k] = neg(q)
    BY <2>1 DEF Processed
  <2> QED
    BY <1>5, <2>2
<1>9. level(var(q))' = level(var(q))
  <2>1. var(q) \in Var /\ assigns[var(q)] # l_Undef
    BY <1>8, FalseLiteral, TruthValues
  <2> QED
    BY <2>1 DEF Turns, KeepsValue, level
<1>10. CASE level(var(q))' < decisionLevel'
  BY <1>5, <1>8, <1>9, <1>10 DEF Due
<1>11. CASE (Settled /\ Processed(q) /\ ~Pending(x, q))'
  <2>1. confl' = CRef_Undef /\ Processed(q)
    BY <1>7, <1>11
  <2>2. Settled
    BY <1>2, <1>3 DEF Settled
  <2>3. ~Pending(x, q)
    <3> SUFFICES ASSUME Pending(x, q) PROVE FALSE
      OBVIOUS
    <3>1. neg(q) = p /\ \E k \in i .. Len(l) : l[k].cref = x
      BY <1>2 DEF Pending
    <3>2. PICK k \in i .. Len(l) : l[k].cref = x
      BY <3>1
    <3>3. q = a
      <4>1. q \in Nat
        BY FalseLiteral
      <4> QED
        BY <1>2, <3>1, <4>1, LitFacts
    <3>4. x # cr
      BY <3>3
    <3>5. k \in i + 1 .. Len(l)
      <4>1. Len(l) \in Nat /\ i \in Nat
        BY <1>3
      <4>2. k # i
        BY <1>2, <3>2, <3>4
      <4> QED
        BY <4>1, <4>2
    <3>6. Pending(x, q)'
      BY <1>2, <1>4, <2>1, <3>1, <3>2, <3>5 DEF Pending
    <3> QED
      BY <1>11, <3>6
  <2> QED
    BY <1>8, <2>1, <2>2, <2>3 DEF Due
<1> QED
  BY <1>6, <1>10, <1>11

(***************************************************************************)
(* The clause of the watcher: a watch that is due was one before, or is    *)
(* not false, or is made good, or there is a conflict.                     *)
(***************************************************************************)
LEMMA TwoWatchedTurn ==
  ASSUME Structure, TwoWatched, NEW p, NEW a, NEW i, NEW l, NEW s, NEW w, NEW cr, NEW d, NEW c,
         AtWatcher(p, a, i, l, s, w, cr, d, c), Turns(p, i, l, cr), KeepsLiterals(cr),
         \A q : Watch(cr, q)' => \/ q # a /\ (Watch(cr, q) \/ value(q)' # l_False)
                                 \/ q = a /\ (confl' # CRef_Undef \/ MadeGood(cr, a)')
  PROVE  TwoWatched'
<1>1. cr \in Live
  BY WatcherClause
<1>2. Live' = Live
  BY DEF Turns
<1>3. ASSUME NEW x \in Live', NEW q, WasDue(x, q)', ~MadeGood(x, q)'
      PROVE  x \in Live /\ WasDue(x, q) /\ KeepsLiterals(x) /\ Keeps(x, q)
  <2>1. x \in Live
    BY <1>2
  <2>2. KeepsLiterals(x) /\ Keeps(x, q)
    BY <2>1 DEF Turns, KeepsLiterals, Keeps
  <2>3. Watch(x, q)' /\ Due(x, q)'
    BY <1>3 DEF WasDue
  <2>4. Watch(x, q) /\ (x # cr \/ q # a)
    <3>1. CASE x # cr
      BY <2>1, <2>3, <3>1 DEF Turns, Watch, lits
    <3>2. CASE x = cr /\ q # a
      BY <2>3, <3>2 DEF Due
    <3>3. CASE x = cr /\ q = a
      <4>1. confl' # CRef_Undef
        BY <1>3, <2>3, <3>3
      <4>2. level(var(a))' < decisionLevel'
        BY <2>3, <3>3, <4>1 DEF Due, Settled
      <4>3. /\ value(a) = l_False /\ a \in Lit /\ var(a) = var(p) /\ level(var(p)) = decisionLevel
        BY WatcherList
      <4>4. var(a) \in Var /\ assigns[var(a)] # l_Undef /\ level(var(a)) \in Nat
        BY <4>3, FalseLiteral, TruthValues
      <4>5. level(var(a))' = level(var(a)) /\ decisionLevel' = decisionLevel
        BY <4>4 DEF Turns, KeepsValue, level, decisionLevel
      <4> QED
        BY <4>2, <4>3, <4>4, <4>5
    <3> QED
      BY <3>1, <3>2, <3>3
  <2>5. q \in Lit
    BY <2>1, <2>4, LiveClause DEF Watch
  <2>6. Due(x, q)
    BY <2>1, <2>3, <2>4, <2>5, TurnDue
  <2> QED
    BY <2>1, <2>2, <2>4, <2>6 DEF WasDue
<1> QED
  BY <1>3, TwoWatchedStep

(***************************************************************************)
(* The watched literals of the clause are those of the swapped one.        *)
(***************************************************************************)
LEMMA SwappedWatches ==
  ASSUME NEW d, NEW a, NEW c, c = Swapped(d, a), c[2] = a, 1 \in DOMAIN d, 2 \in DOMAIN d
  PROVE  (c[1] = d[1] /\ c[2] = d[2]) \/ (c[1] = d[2] /\ c[2] = d[1])
<1>1. CASE d[1] = a
  <2>1. c = [d EXCEPT ![1] = d[2], ![2] = a]
    BY <1>1 DEF Swapped
  <2> QED
    BY <1>1, <2>1
<1>2. CASE d[1] # a
  BY <1>2 DEF Swapped
<1> QED
  BY <1>1, <1>2

(***************************************************************************)
(* The turns that assign nothing.                                          *)
(***************************************************************************)
LEMMA QuietTurn ==
  ASSUME Structure, watcher, NEW p, NEW a, NEW i, NEW l, NEW s, NEW w, NEW cr, NEW d, NEW c,
         AtWatcher(p, a, i, l, s, w, cr, d, c),
         assigns' = assigns, vardata' = vardata, trail' = trail, watches'[p] = l,
         \A x \in Live : x # cr => ca'[x] = ca[x],
         confl' # CRef_Undef \/ (qhead' = qhead /\ ws'.p = p /\ ws'.i = i + 1)
  PROVE  Turns(p, i, l, cr)
<1>1. /\ clauses' = clauses /\ learnts' = learnts /\ trail_lim' = trail_lim /\ pc' = pc /\ ok' = ok
  BY DEF watcher
<1>2. \A v \in Var : KeepsValue(v)
  BY DEF KeepsValue
<1>3. \A q : value(q)' = value(q)
  BY DEF value
<1> QED
  BY <1>1, <1>2, <1>3 DEF Turns, Live

LEMMA TwoWatchedWatcher == ASSUME Structure, TwoWatched, watcher PROVE TwoWatched'
<1>1. PICK p, a : p = ws.p /\ a = neg(p)
  OBVIOUS
<1>2. PICK i, l, s : i = ws.i /\ l = watches[p] /\ s = ws.kept
  OBVIOUS
<1>3. PICK w : w = l[i]
  OBVIOUS
<1>4. PICK cr : cr = w.cref
  OBVIOUS
<1>5. PICK d : d = lits(cr)
  OBVIOUS
<1>6. PICK c : c = Swapped(d, a)
  OBVIOUS
<1>7. pc = "watches" /\ i <= Len(l)
  BY <1>1, <1>2 DEF watcher
<1>8. AtWatcher(p, a, i, l, s, w, cr, d, c)
  BY <1>1, <1>2, <1>3, <1>4, <1>5, <1>6, <1>7 DEF AtWatcher
<1>9. w = watches[ws.p][ws.i] /\ c = Swapped(lits(w.cref), neg(ws.p))
  BY <1>1, <1>2, <1>3, <1>4, <1>5, <1>6
<1>10. \/ SkipWatcher(w)
       \/ value(w.blocker) # l_True /\ (KeepWatcher(w, c) \/ MoveWatcher(w, c) \/ UnitOrConflict(w, c))
  BY <1>9 DEF watcher
<1>11. /\ p \in Lit /\ a \in Lit /\ l \in Seq(WatcherSet) /\ i \in Nat /\ i \in 1 .. Len(l) /\ w \in WatcherSet
       /\ confl = CRef_Undef /\ value(a) = l_False /\ var(a) = var(p) /\ level(var(p)) = decisionLevel
  BY <1>8, WatcherList
<1>12. /\ Has(d, w.blocker) /\ w.blocker \in Lit /\ cr \in Live /\ cr \in DOMAIN ca /\ d = ca[cr].lits
       /\ cr # CRef_Undef /\ d \in Seq(Lit) /\ Len(d) >= 2 /\ Distinct(d)
  BY <1>8, WatcherClause
<1>13. c \in Seq(Lit) /\ Len(c) >= 2 /\ Distinct(c) /\ c[1] \in Lit /\ c[2] = a /\ var(c[1]) # var(a)
  BY <1>8, WatcherSwaps
<1>14. \A q : Has(d, q) <=> Has(c, q)
  BY <1>8, WatcherSwaps
<1>15. VarsType /\ AssignmentType /\ DatabaseType /\ ScratchType
  BY DEF Structure, TypeOK
<1>16. decisionLevel \in Nat /\ decisionLevel' = decisionLevel /\ Len(c) \in Nat /\ DOMAIN c = 1 .. Len(c)
  BY <1>13, <1>15 DEF AssignmentType, decisionLevel, watcher
<1>17. \A q : (c[1] = q \/ c[2] = q) <=> Watch(cr, q)
  <2>1. (c[1] = d[1] /\ c[2] = d[2]) \/ (c[1] = d[2] /\ c[2] = d[1])
    <3>1. 1 \in DOMAIN d /\ 2 \in DOMAIN d
      BY <1>12
    <3> QED
      BY <1>6, <1>13, <3>1, SwappedWatches
  <2> QED
    BY <1>5, <2>1 DEF Watch
<1>18. \A x \in DOMAIN ca : \A m : Rewritten(ca, cr, m)[x] = IF x = cr THEN [ca[cr] EXCEPT !.lits = m] ELSE ca[x]
  BY DEF Rewritten
<1>19. \A m : [ca[cr] EXCEPT !.lits = m].lits = m
  <2>1. ca[cr] \in ClauseSet
    BY <1>12, <1>15 DEF DatabaseType
  <2> QED
    BY <2>1 DEF ClauseSet
<1>20. \A m : ca' = Rewritten(ca, cr, m) => ca'[cr].lits = m /\ \A x \in Live : x # cr => ca'[x] = ca[x]
  <2>1. Live \subseteq DOMAIN ca
    BY <1>15 DEF DatabaseType, Live
  <2> QED
    BY <1>12, <1>18, <1>19, <2>1
<1>21. PICK x : x = ws
  OBVIOUS
<1>22. x \in ListSet /\ x.i = i /\ x.kept = s /\ x.p = p
  BY <1>1, <1>2, <1>15, <1>21 DEF ScratchType
<1>23. \A z : [x EXCEPT !.i = @ + 1, !.kept = z].p = p /\ [x EXCEPT !.i = @ + 1, !.kept = z].i = i + 1
              /\ [x EXCEPT !.i = @ + 1].p = p /\ [x EXCEPT !.i = @ + 1].i = i + 1
  BY <1>22 DEF ListSet
<1>24. CASE SkipWatcher(w)
  <2>1. /\ watches' = watches /\ ca' = ca /\ qhead' = qhead /\ value(w.blocker) = l_True
        /\ assigns' = assigns /\ vardata' = vardata /\ trail' = trail /\ ws'.p = p /\ ws'.i = i + 1
    BY <1>21, <1>23, <1>24 DEF SkipWatcher
  <2>2. Turns(p, i, l, cr)
    BY <1>2, <1>8, <2>1, QuietTurn
  <2>3. PICK j \in DOMAIN d : d[j] = w.blocker
    BY <1>12 DEF Has
  <2>4. level(var(w.blocker)) <= level(var(a))
    BY <1>11, <1>12, <2>1, FalseLiteral, TruthValues
  <2>5. MadeGood(cr, a)'
    BY <1>5, <2>1, <2>3, <2>4 DEF MadeGood, lits, value, level
  <2>6. KeepsLiterals(cr) /\ \A q : Watch(cr, q)' => Watch(cr, q)
    BY <2>1 DEF KeepsLiterals, Watch, lits
  <2> QED
    BY <1>8, <2>2, <2>5, <2>6, TwoWatchedTurn
<1>25. CASE KeepWatcher(w, c)
  <2>1. /\ watches' = watches /\ ca' = Rewritten(ca, cr, c) /\ qhead' = qhead /\ value(c[1]) = l_True
        /\ assigns' = assigns /\ vardata' = vardata /\ trail' = trail /\ ws'.p = p /\ ws'.i = i + 1
    BY <1>4, <1>21, <1>23, <1>25 DEF KeepWatcher, Rewritten
  <2>2. ca'[cr].lits = c /\ \A y \in Live : y # cr => ca'[y] = ca[y]
    BY <1>20, <2>1
  <2>3. Turns(p, i, l, cr)
    BY <1>2, <1>8, <2>1, <2>2, QuietTurn
  <2>4. level(var(c[1])) <= level(var(a)) /\ 1 \in DOMAIN c
    BY <1>11, <1>13, <1>16, <2>1, FalseLiteral, TruthValues
  <2>5. MadeGood(cr, a)'
    BY <2>1, <2>2, <2>4 DEF MadeGood, lits, value, level
  <2>6. KeepsLiterals(cr) /\ \A q : Watch(cr, q)' => Watch(cr, q)
    BY <1>12, <1>14, <1>17, <2>2 DEF KeepsLiterals, Watch, lits
  <2> QED
    BY <1>8, <2>3, <2>5, <2>6, TwoWatchedTurn
<1>26. CASE MoveWatcher(w, c)
  <2>1. PICK k : k = Min(NewWatch(c))
    OBVIOUS
  <2>2. PICK m : m = Exchanged(c, 2, k)
    OBVIOUS
  <2>3. PICK q : q = neg(m[2])
    OBVIOUS
  <2>4. k \in NewWatch(c)
    <3>1. NewWatch(c) \subseteq Nat /\ NewWatch(c) # {}
      BY <1>13, <1>26 DEF NewWatch, MoveWatcher
    <3> QED
      BY <2>1, <3>1, MinIs
  <2>5. k \in DOMAIN c /\ k > 2 /\ value(c[k]) # l_False /\ k \in Nat
    BY <1>13, <2>4 DEF NewWatch
  <2>6. /\ ca' = Rewritten(ca, cr, m) /\ \E e : watches' = [watches EXCEPT ![q] = e]
        /\ assigns' = assigns /\ vardata' = vardata /\ trail' = trail /\ qhead' = qhead
        /\ ws'.p = p /\ ws'.i = i + 1
    BY <1>4, <1>21, <1>23, <1>26, <2>1, <2>2, <2>3 DEF MoveWatcher, Exchanged, Rewritten
  <2>7. q # p
    BY <1>8, <2>2, <2>3, <2>5, MovedIs
  <2>8. watches'[p] = l
    BY <1>2, <1>11, <1>15, <2>6, <2>7 DEF DatabaseType
  <2>9. ca'[cr].lits = m /\ \A y \in Live : y # cr => ca'[y] = ca[y]
    BY <1>20, <2>6
  <2>10. Turns(p, i, l, cr)
    BY <1>8, <2>6, <2>8, <2>9, QuietTurn
  <2>11. DOMAIN m = DOMAIN c /\ m[2] = c[k] /\ m[k] = c[2] /\ m[1] = c[1] /\ \A y \in DOMAIN c : y # 2 /\ y # k => m[y] = c[y]
    <3>1. 1 \in DOMAIN c /\ 2 \in DOMAIN c /\ 1 # k /\ 2 # k
      BY <1>13, <1>16, <2>5
    <3> QED
      BY <2>2, <2>5, <3>1 DEF Exchanged
  <2>12. KeepsLiterals(cr)
    <3>1. \A y : Has(c, y) => Has(m, y)
      <4>1. \A y \in DOMAIN c : \E z \in DOMAIN m : m[z] = c[y]
        BY <1>13, <1>16, <2>5, <2>11
      <4> QED
        BY <4>1 DEF Has
    <3> QED
      BY <1>12, <1>14, <2>9, <3>1 DEF KeepsLiterals
  <2>13. \A y : Watch(cr, y)' => y # a /\ (Watch(cr, y) \/ value(y)' # l_False)
    <3>1. \A y : Watch(cr, y)' => y = m[1] \/ y = m[2]
      BY <2>9 DEF Watch, lits
    <3>2. c[1] # a /\ c[k] # a
      <4>1. var(c[k]) # var(c[2]) /\ 2 \in DOMAIN c
        BY <1>13, <1>16, <2>5 DEF Distinct
      <4> QED
        BY <1>13, <4>1
    <3>3. value(c[k])' # l_False
      BY <2>5, <2>6 DEF value
    <3>4. Watch(cr, c[1])
      BY <1>17
    <3> QED
      BY <2>11, <3>1, <3>2, <3>3, <3>4
  <2> QED
    BY <1>8, <2>10, <2>12, <2>13, TwoWatchedTurn
<1>27. CASE value(w.blocker) # l_True /\ UnitOrConflict(w, c)
  <2>1. /\ ~(c[1] # w.blocker /\ value(c[1]) = l_True) /\ NewWatch(c) = {} /\ ca' = Rewritten(ca, cr, c)
        /\ watches' = watches
    BY <1>4, <1>27 DEF UnitOrConflict, Rewritten
  <2>2. ca'[cr].lits = c /\ \A y \in Live : y # cr => ca'[y] = ca[y]
    BY <1>20, <2>1
  <2>3. KeepsLiterals(cr) /\ \A q : Watch(cr, q)' => Watch(cr, q)
    BY <1>12, <1>14, <1>17, <2>2 DEF KeepsLiterals, Watch, lits
  <2>4. CASE value(c[1]) = l_False
    <3>1. confl' = cr /\ assigns' = assigns /\ vardata' = vardata /\ trail' = trail
      BY <1>4, <1>27, <2>4 DEF UnitOrConflict
    <3>2. confl' # CRef_Undef
      BY <1>12, <3>1
    <3>3. Turns(p, i, l, cr)
      BY <1>2, <1>8, <2>1, <2>2, <3>1, <3>2, QuietTurn
    <3> QED
      BY <1>8, <2>3, <3>2, <3>3, TwoWatchedTurn
  <2>5. CASE value(c[1]) # l_False
    <3>1. /\ qhead' = qhead /\ confl' = confl /\ ws'.p = p /\ ws'.i = i + 1
          /\ uncheckedEnqueue(c[1], cr, decisionLevel, assigns, vardata, trail)
      BY <1>4, <1>21, <1>23, <1>27, <2>5 DEF UnitOrConflict
    <3>2. PICK b : b = c[1]
      OBVIOUS
    <3>3. b \in Lit /\ value(b) = l_Undef
      <4>1. value(b) # l_True
        BY <1>27, <2>1, <3>2
      <4> QED
        BY <1>13, <2>5, <3>2, <4>1, FalseLiteral
    <3>4. PICK dl \in Nat : dl = decisionLevel
      BY <1>16
    <3>5. cr \in Nat /\ uncheckedEnqueue(b, cr, dl, assigns, vardata, trail)
      BY <1>12, <1>15, <3>1, <3>2, <3>4 DEF DatabaseType
    <3>6. /\ \A v \in Var : assigns[v] # l_Undef => KeepsValue(v)
          /\ value(b)' = l_True /\ level(var(b))' = dl
          /\ \A q \in Lit : value(q)' = l_False => value(q) = l_False \/ q = neg(b)
          /\ \A k \in 1 .. nAssigns : trail'[k] = trail[k]
      BY <3>3, <3>5, EnqueueKeeps
    <3>7. \A q \in Lit : value(q)' = l_False =>
            value(q) = l_False \/ (level(var(q))' = decisionLevel /\ \A k \in 1 .. nAssigns : trail[k] # neg(q))
      <4> SUFFICES ASSUME NEW q \in Lit, q = neg(b)
                   PROVE  level(var(q))' = decisionLevel /\ \A k \in 1 .. nAssigns : trail[k] # neg(q)
        BY <3>6
      <4>1. b \in Nat /\ var(q) = var(b)
        BY <3>3, FalseLiteral, LitFacts
      <4>2. assigns[var(q)] = l_Undef
        BY <3>3, <4>1, FalseLiteral
      <4>3. value(q) # l_False
        BY <4>2, FalseLiteral, TruthValues
      <4>4. level(var(q))' = decisionLevel
        BY <3>4, <3>6, <4>1 DEF level
      <4> QED
        BY <4>3, <4>4, FalseLiteral
    <3>8. Turns(p, i, l, cr)
      <4>1. /\ clauses' = clauses /\ learnts' = learnts /\ trail_lim' = trail_lim /\ pc' = pc /\ ok' = ok
        BY DEF watcher
      <4>2. Live' = Live /\ watches'[p] = l
        BY <1>2, <2>1, <4>1 DEF Live
      <4> QED
        BY <2>2, <3>1, <3>6, <3>7, <4>1, <4>2 DEF Turns
    <3>9. MadeGood(cr, a)'
      <4>1. var(a) \in Var /\ assigns[var(a)] # l_Undef
        BY <1>11, FalseLiteral, TruthValues
      <4>2. level(var(a))' = dl
        BY <1>11, <3>4, <3>6, <4>1 DEF KeepsValue, level
      <4>3. lits(cr)' = c /\ 1 \in DOMAIN c
        BY <1>13, <1>16, <2>2 DEF lits
      <4>4. value(c[1])' = l_True /\ level(var(c[1]))' <= level(var(a))'
        BY <3>2, <3>4, <3>6, <4>2
      <4> QED
        BY <4>3, <4>4 DEF MadeGood
    <3> QED
      BY <1>8, <2>3, <3>8, <3>9, TwoWatchedTurn
  <2> QED
    BY <2>4, <2>5
<1> QED
  BY <1>10, <1>24, <1>25, <1>26, <1>27

(***************************************************************************)
(* After a jump back to a level what was assigned up to it is as before,   *)
(* and the rest is unassigned.                                             *)
(***************************************************************************)
LEMMA CancelKeeps ==
  ASSUME Structure, NEW lvl \in Nat, lvl <= decisionLevel, NEW v \in Var
  PROVE  /\ assigns[v] # l_Undef /\ level(v) <= lvl => AssignsAt(lvl)[v] = assigns[v]
         /\ AssignsAt(lvl)[v] # l_Undef => AssignsAt(lvl)[v] = assigns[v] /\ level(v) <= lvl
<1>1. VarsType /\ AssignmentType /\ Trail /\ Reasoned
  BY DEF Structure, TypeOK
<1>2. PICK A, U, M : A = AssignsAt(lvl) /\ U = TrailAt(lvl) /\ M = SubSeq(trail_lim, 1, lvl)
  OBVIOUS
<1>3. /\ Kept(lvl) \in 0 .. Len(trail)
      /\ \A k \in 1 .. Len(trail) : k <= Kept(lvl) <=> level(var(trail[k])) <= lvl
  BY <1>1, <1>2, UndoState
<1>4. /\ \A k \in 1 .. Kept(lvl) : A[var(trail[k])] = assigns[var(trail[k])]
      /\ \A k \in 1 .. Len(trail) : k > Kept(lvl) => A[var(trail[k])] = l_Undef
      /\ \A x \in Var : A[x] # l_Undef => A[x] = assigns[x]
  BY <1>1, <1>2, UndoState
<1>5. ASSUME assigns[v] # l_Undef
      PROVE  (level(v) <= lvl => A[v] = assigns[v]) /\ (A[v] # l_Undef => level(v) <= lvl)
  <2>1. DOMAIN assigns = Var /\ DOMAIN trail = 1 .. Len(trail) /\ Len(trail) \in Nat
    BY <1>1 DEF AssignmentType
  <2>2. PICK k \in 1 .. Len(trail) : var(trail[k]) = v
    BY <1>1, <1>5, <2>1 DEF Trail, TrailIn
  <2>3. k <= Kept(lvl) <=> level(v) <= lvl
    BY <1>3, <2>2
  <2>4. CASE k <= Kept(lvl)
    <3>1. k \in 1 .. Kept(lvl)
      BY <1>3, <2>1, <2>4
    <3> QED
      BY <1>4, <2>2, <2>3, <2>4, <3>1
  <2>5. CASE ~(k <= Kept(lvl))
    <3>1. k > Kept(lvl)
      BY <1>3, <2>1, <2>5
    <3> QED
      BY <1>4, <2>2, <2>3, <2>5, <3>1
  <2> QED
    BY <2>4, <2>5
<1> QED
  BY <1>2, <1>4, <1>5

(***************************************************************************)
(* Back to level 0, from where all has been propagated or for good.        *)
(***************************************************************************)
LEMMA TwoWatchedRoot ==
  ASSUME Structure, TwoWatched, UNCHANGED <<clauses, learnts, ca>>, assigns' = AssignsAt(0), vardata' = vardata,
         decisionLevel' = 0, AtRest \/ ~Settled'
  PROVE  TwoWatched'
<1>1. 0 \in Nat /\ 0 <= decisionLevel
  BY DEF Structure, TypeOK, AssignmentType, decisionLevel
<1>2. ASSUME NEW cr \in Live', NEW q, WasDue(cr, q)'
      PROVE  cr \in Live /\ WasDue(cr, q) /\ KeepsLiterals(cr) /\ Keeps(cr, q)
  <2>1. cr \in Live /\ Watch(cr, q)
    BY <1>2 DEF WasDue, Watch, lits, Live
  <2>2. q \in Lit
    BY <2>1, LiveClause DEF Watch
  <2>3. /\ value(q)' = l_False /\ (level(var(q))' < decisionLevel' \/ Settled')
    BY <1>2 DEF WasDue, Due
  <2>4. var(q) \in Var
    BY <2>2, FalseLiteral
  <2>5. AssignsAt(0)[var(q)] # l_Undef
    BY <2>3, TruthValues DEF value
  <2>6. AssignsAt(0)[var(q)] = assigns[var(q)] /\ level(var(q)) <= 0
    BY <1>1, <2>4, <2>5, CancelKeeps
  <2>7. value(q) = l_False
    <3>1. assigns'[var(q)] = assigns[var(q)]
      BY <2>6
    <3> QED
      BY <2>3, <3>1 DEF value
  <2>8. level(var(q)) \in Nat /\ level(var(q))' = level(var(q))
    BY <2>2, <2>7, FalseLiteral, TruthValues DEF level
  <2>9. AtRest
    BY <2>3, <2>8
  <2>10. Due(cr, q)
    BY <2>2, <2>7, <2>9, AllDue
  <2>11. Keeps(cr, q)
    <3> SUFFICES ASSUME NEW v \in Var, assigns[v] # l_Undef, level(v) <= level(var(q)) PROVE KeepsValue(v)
      BY DEF Keeps
    <3>1. level(v) \in Nat
      BY DEF Structure, TypeOK, AssignmentType, level
    <3>2. level(v) <= 0
      BY <2>6, <2>8, <3>1
    <3>3. AssignsAt(0)[v] = assigns[v]
      BY <1>1, <3>2, CancelKeeps
    <3> QED
      BY <3>3 DEF KeepsValue
  <2> QED
    BY <2>1, <2>10, <2>11 DEF WasDue, KeepsLiterals
<1> QED
  BY <1>2, TwoWatchedStep

LEMMA TwoWatchedBack ==
  ASSUME Structure, TwoWatched, restart \/ modelFound \/ solveFails
  PROVE  TwoWatched'
<1>1. Control /\ SubSeq(trail_lim, 1, 0) = <<>> /\ decisionLevel \in Nat
  BY RootFacts DEF Structure
<1>2. UNCHANGED <<clauses, learnts, ca>> /\ assigns' = AssignsAt(0) /\ vardata' = vardata
      /\ (AtRest \/ ~Settled')
  <2>1. CASE restart
    BY <1>1, <2>1 DEF restart, cancelUntil, db, AtRest, Control, InPropagate
  <2>2. CASE modelFound
    BY <1>1, <2>2 DEF modelFound, db, AtRest, Control, InPropagate
  <2>3. CASE solveFails
    BY <2>3 DEF solveFails, cancelUntil, Settled
  <2> QED
    BY <2>1, <2>2, <2>3
<1>3. decisionLevel' = 0
  <2>1. CASE modelFound
    BY <2>1 DEF modelFound, decisionLevel
  <2>2. CASE restart \/ solveFails
    <3>1. trail_lim' = SubSeq(trail_lim, 1, IF decisionLevel > 0 THEN 0 ELSE decisionLevel)
      BY <2>2 DEF restart, solveFails, cancelUntil, cancelUntilRest
    <3>2. trail_lim' = SubSeq(trail_lim, 1, 0)
      BY <1>1, <3>1
    <3> QED
      BY <1>1, <3>2 DEF decisionLevel
  <2> QED
    BY <2>1, <2>2
<1> QED
  BY <1>2, <1>3, TwoWatchedRoot

(***************************************************************************)
(* What learn does: the facts up to level bt stay, the first literal of    *)
(* the learnt clause o is true at that level, and o is in the database     *)
(* unless it is a unit.                                                    *)
(***************************************************************************)
Learns(s, o, bt) ==
  /\ AtLearn(s, o, bt) /\ pc' = "propagate" /\ ok' = ok /\ confl' = confl /\ decisionLevel' = bt
  /\ value(o[1])' = l_True /\ level(var(o[1]))' = bt
  /\ \A v \in Var : assigns[v] # l_Undef /\ level(v) <= bt => KeepsValue(v)
  /\ \A v \in Var : v # var(o[1]) /\ assigns'[v] # l_Undef => assigns[v] # l_Undef /\ level(v) <= bt
  /\ qhead' \in Nat /\ qhead' <= nAssigns /\ nAssigns' = qhead' + 1 /\ trail'[qhead' + 1] = o[1]
  /\ \A k \in 1 .. qhead' : trail'[k] = trail[k] /\ level(var(trail[k])) <= bt
  /\ clauses' = clauses /\ learnts \subseteq learnts'
  /\ \A x \in Live : ca'[x] = ca[x]
  /\ \A x \in Live' : x \in Live \/ (Len(o) >= 2 /\ ca'[x].lits = o)

LEMMA LearnDoes == ASSUME Structure, learn PROVE \E s, o, bt : Learns(s, o, bt)
<1>1. /\ VarsType /\ AssignmentType /\ DatabaseType /\ ScratchType /\ Trail /\ Reasoned
  BY DEF Structure, TypeOK
<1>2. PICK s : s = an.kept
  OBVIOUS
<1>3. PICK o : o = IF Len(an.kept) = 1 THEN an.kept
                   ELSE [an.kept EXCEPT ![2] = an.kept[Highest(an.kept)], ![Highest(an.kept)] = an.kept[2]]
  OBVIOUS
<1>4. PICK bt : bt = IF Len(an.kept) = 1 THEN 0 ELSE level(var(o[2]))
  OBVIOUS
<1>5. PICK n : n = Len(ca) + 1
  OBVIOUS
<1>6. PICK from : from = IF Len(an.kept) = 1 THEN CRef_Undef ELSE n
  OBVIOUS
<1>7. PICK A, U, M : A = AssignsAt(bt) /\ U = TrailAt(bt) /\ M = SubSeq(trail_lim, 1, bt)
  OBVIOUS
<1>8. PICK e : e = Enqueued(o[1], from, bt, A, vardata, U)
  OBVIOUS
<1>9. /\ pc = "minimize" /\ an.i > Len(an.out)
      /\ pc' = "propagate" /\ ok' = ok /\ clauses' = clauses /\ confl' = confl
  BY DEF learn
<1>10. /\ qhead' = (IF decisionLevel > bt THEN Kept(bt) ELSE qhead)
       /\ trail_lim' = SubSeq(trail_lim, 1, IF decisionLevel > bt THEN bt ELSE decisionLevel)
  <2>1. cancelUntilRest(bt)
    BY <1>3, <1>4 DEF learn
  <2> QED
    BY <2>1 DEF cancelUntilRest
<1>11. assigns' = e.assigns /\ vardata' = e.vardata /\ trail' = e.trail
  <2>1. uncheckedEnqueue(o[1], from, bt, AssignsAt(bt), vardata, TrailAt(bt))
    BY <1>3, <1>4, <1>5, <1>6 DEF learn
  <2> QED
    BY <1>7, <1>8, <2>1 DEF uncheckedEnqueue
<1>12. \/ Len(s) = 1 /\ UNCHANGED <<ca, learnts>>
       \/ Len(s) # 1 /\ ca' = Alloc(o, TRUE) /\ learnts' = learnts \cup {n}
  BY <1>2, <1>3, <1>5 DEF learn
<1>13. AtLearn(s, o, bt)
  BY <1>2, <1>3, <1>4, <1>9 DEF AtLearn, Exchanged
<1>14. /\ o \in Seq(Lit) /\ Len(o) >= 1 /\ Len(o) \in Nat /\ Len(o) = Len(s) /\ bt \in Nat /\ bt < decisionLevel
       /\ o[1] \in Lit /\ level(var(o[1])) = decisionLevel
  BY <1>13, LearntClause
<1>15. bt <= decisionLevel /\ decisionLevel > bt /\ decisionLevel \in Nat /\ trail_lim \in Seq(Nat) /\ nAssigns \in Nat
  BY <1>1, <1>14 DEF decisionLevel, AssignmentType, nAssigns
<1>16. /\ Tables(Var, Lit, A, vardata, U, M) /\ Len(M) = bt
       /\ Kept(bt) \in 0 .. Len(trail) /\ Len(U) = Kept(bt) /\ (\A k \in 1 .. Kept(bt) : U[k] = trail[k])
       /\ \A k \in 1 .. Len(trail) : k <= Kept(bt) <=> level(var(trail[k])) <= bt
  BY <1>1, <1>7, <1>14, <1>15, UndoState
<1>17. from \in Nat
  BY <1>1, <1>5, <1>6 DEF DatabaseType, CRef_Undef
<1>18. /\ Len(e.trail) = Len(U) + 1 /\ e.trail[Len(U) + 1] = o[1] /\ \A k \in 1 .. Len(U) : e.trail[k] = U[k]
  BY <1>8, <1>14, <1>16, <1>17, EnqueuedIs
<1>19. /\ e.assigns[var(o[1])] = sign(o[1]) /\ \A v \in Var : v # var(o[1]) => e.assigns[v] = A[v]
       /\ e.vardata[var(o[1])].level = bt
       /\ \A v \in Var : v # var(o[1]) => e.vardata[v] = vardata[v]
  BY <1>8, <1>14, <1>16, <1>17, EnqueuedIs
<1>20. decisionLevel' = bt /\ qhead' = Kept(bt) /\ qhead' \in Nat /\ qhead' <= nAssigns
  <2>1. trail_lim' = M /\ qhead' = Kept(bt)
    BY <1>7, <1>10, <1>15
  <2>2. decisionLevel' = bt
    BY <1>16, <2>1 DEF decisionLevel
  <2>3. Kept(bt) \in Nat /\ Kept(bt) <= nAssigns
    BY <1>15, <1>16 DEF nAssigns
  <2> QED
    BY <2>1, <2>2, <2>3
<1>21. nAssigns' = qhead' + 1 /\ trail'[qhead' + 1] = o[1]
  BY <1>11, <1>16, <1>18, <1>20 DEF nAssigns
<1>22. \A k \in 1 .. qhead' : trail'[k] = trail[k] /\ level(var(trail[k])) <= bt
  <2> SUFFICES ASSUME NEW k \in 1 .. Kept(bt) PROVE trail'[k] = trail[k] /\ level(var(trail[k])) <= bt
    BY <1>20
  <2>1. k \in 1 .. Len(trail) /\ k <= Kept(bt) /\ k \in 1 .. Len(U)
    BY <1>15, <1>16 DEF nAssigns
  <2> QED
    BY <1>11, <1>16, <1>18, <2>1
<1>23. value(o[1])' = l_True /\ level(var(o[1]))' = bt
  <2>1. o[1] \in Nat /\ sign(o[1]) \in 0 .. 1
    BY <1>1, <1>14, Literals, LitFacts
  <2>2. value(o[1])' = IF assigns'[var(o[1])] = l_Undef THEN l_Undef ELSE (assigns'[var(o[1])] + sign(o[1])) % 2
    BY DEF value
  <2>3. assigns'[var(o[1])] = sign(o[1])
    BY <1>11, <1>19
  <2>4. value(o[1])' = l_True
    BY <2>1, <2>2, <2>3 DEF l_True, l_Undef
  <2> QED
    BY <1>11, <1>19, <2>4 DEF level
<1>24. ASSUME NEW v \in Var, assigns[v] # l_Undef, level(v) <= bt PROVE KeepsValue(v)
  <2>1. v # var(o[1])
    BY <1>14, <1>15, <1>24
  <2>2. A[v] = assigns[v]
    BY <1>7, <1>14, <1>15, <1>24, CancelKeeps
  <2> QED
    BY <1>11, <1>19, <2>1, <2>2 DEF KeepsValue
<1>25. ASSUME NEW v \in Var, v # var(o[1]), assigns'[v] # l_Undef PROVE assigns[v] # l_Undef /\ level(v) <= bt
  <2>1. A[v] # l_Undef
    BY <1>11, <1>19, <1>25
  <2> QED
    BY <1>7, <1>14, <1>15, <2>1, CancelKeeps
<1>26. /\ learnts \subseteq learnts' /\ \A x \in Live : ca'[x] = ca[x]
       /\ \A x \in Live' : x \in Live \/ (Len(o) >= 2 /\ ca'[x].lits = o)
  <2>1. CASE Len(s) = 1
    BY <1>9, <1>12, <2>1 DEF Live
  <2>2. CASE Len(s) # 1
    <3>1. ca' = Alloc(o, TRUE) /\ learnts' = learnts \cup {n} /\ Len(o) >= 2
      <4>1. PICK l \in Nat : l = Len(o)
        BY <1>14
      <4>2. l >= 1 /\ l # 1
        BY <1>14, <2>2, <4>1
      <4>3. l >= 2
        BY <4>2
      <4> QED
        BY <1>12, <2>2, <4>1, <4>3
    <3>2. PICK x : x = [lits |-> o, learnt |-> TRUE, mark |-> 0]
      OBVIOUS
    <3>3. x \in ClauseSet /\ x.lits = o /\ ca' = Append(ca, x) /\ Live \subseteq DOMAIN ca /\ ca \in Seq(ClauseSet)
      BY <1>1, <1>14, <3>1, <3>2 DEF Alloc, ClauseSet, DatabaseType, Live
    <3>4. ca'[Len(ca) + 1] = x /\ \A k \in 1 .. Len(ca) : ca'[k] = ca[k]
      BY <3>3, AppendIs
    <3>5. DOMAIN ca = 1 .. Len(ca)
      BY <3>3
    <3> QED
      BY <1>5, <1>9, <3>1, <3>3, <3>4, <3>5 DEF Live
  <2> QED
    BY <2>1, <2>2
<1>27. Learns(s, o, bt)
  BY <1>9, <1>13, <1>20, <1>21, <1>22, <1>23, <1>24, <1>25, <1>26 DEF Learns
<1> QED
  BY <1>27

(***************************************************************************)
(* An old watch that is false after the jump was false before this level;  *)
(* the learnt clause is watched from its first literal, now true, and one  *)
(* that is false at the same level.                                        *)
(***************************************************************************)
LEMMA TwoWatchedLearn == ASSUME Structure, TwoWatched, learn PROVE TwoWatched'
<1>1. PICK s, o, bt : Learns(s, o, bt)
  BY LearnDoes
<1>2. AtLearn(s, o, bt)
  BY <1>1 DEF Learns
<1>3. /\ o \in Seq(Lit) /\ Len(o) \in Nat /\ Len(o) = Len(s) /\ bt \in Nat /\ bt < decisionLevel
      /\ o[1] \in Lit /\ level(var(o[1])) = decisionLevel /\ DOMAIN o = 1 .. Len(o)
      /\ \A j \in 2 .. Len(o) : o[j] \in Lit /\ value(o[j]) = l_False /\ level(var(o[j])) <= bt
  BY <1>2, LearntClause
<1>4. decisionLevel \in Nat /\ decisionLevel' = bt /\ o[1] \in Nat
  BY <1>1, <1>3, FalseLiteral DEF Structure, TypeOK, AssignmentType, decisionLevel, Learns
<1>5. ASSUME NEW x \in Live', NEW q, WasDue(x, q)', x \in Live
      PROVE  WasDue(x, q) /\ KeepsLiterals(x) /\ Keeps(x, q)
  <2>1. ca'[x] = ca[x]
    BY <1>1, <1>5 DEF Learns
  <2>2. Watch(x, q) /\ KeepsLiterals(x)
    BY <1>5, <2>1 DEF WasDue, Watch, lits, KeepsLiterals
  <2>3. q \in Lit
    BY <1>5, <2>2, LiveClause DEF Watch
  <2>4. q \in Nat /\ var(q) \in Var
    BY <2>3, FalseLiteral
  <2>5. value(q)' = l_False /\ (level(var(q))' < decisionLevel' \/ Processed(q)')
    BY <1>5 DEF WasDue, Due
  <2>6. var(q) # var(o[1])
    <3> SUFFICES ASSUME var(q) = var(o[1]) PROVE FALSE
      OBVIOUS
    <3>1. q = o[1] \/ q = neg(o[1])
      BY <1>4, <2>4, SameVar
    <3>2. value(o[1])' = l_True /\ level(var(o[1]))' = bt
      BY <1>1 DEF Learns
    <3>3. q = neg(o[1])
      BY <2>5, <3>1, <3>2, TruthValues
    <3>4. level(var(q))' = bt
      BY <3>2 DEF level
    <3>5. Processed(q)'
      BY <1>3, <1>4, <2>5, <3>4
    <3>6. PICK k \in 1 .. qhead' : trail'[k] = neg(q)
      BY <3>5 DEF Processed
    <3>7. trail[k] = o[1] /\ level(var(trail[k])) <= bt
      <4>1. neg(q) = o[1]
        BY <1>4, <3>3, LitFacts
      <4> QED
        BY <1>1, <3>6, <4>1 DEF Learns
    <3> QED
      BY <1>3, <1>4, <3>7
  <2>7. assigns[var(q)] # l_Undef /\ level(var(q)) <= bt /\ KeepsValue(var(q))
    <3>1. assigns'[var(q)] # l_Undef
      BY <2>5, TruthValues DEF value
    <3> QED
      BY <1>1, <2>4, <2>6, <3>1 DEF Learns
  <2>8. value(q) = l_False /\ level(var(q)) \in Nat
    <3>1. value(q) = l_False
      BY <2>5, <2>7 DEF value, KeepsValue
    <3> QED
      BY <2>3, <3>1, FalseLiteral, TruthValues
  <2>9. Due(x, q)
    BY <1>3, <1>4, <2>7, <2>8 DEF Due
  <2>10. Keeps(x, q)
    <3> SUFFICES ASSUME NEW v \in Var, assigns[v] # l_Undef, level(v) <= level(var(q)) PROVE KeepsValue(v)
      BY DEF Keeps
    <3>1. level(v) \in Nat
      BY DEF Structure, TypeOK, AssignmentType, level
    <3>2. level(v) <= bt
      BY <1>3, <2>7, <2>8, <3>1
    <3> QED
      BY <1>1, <3>2 DEF Learns
  <2> QED
    BY <2>2, <2>9, <2>10 DEF WasDue
<1>6. ASSUME NEW x \in Live', NEW q, WasDue(x, q)', x \notin Live
      PROVE  MadeGood(x, q)'
  <2>1. Len(o) >= 2 /\ lits(x)' = o
    BY <1>1, <1>6 DEF Learns, lits
  <2>2. q = o[1] \/ q = o[2]
    BY <1>6, <2>1 DEF WasDue, Watch
  <2>3. value(o[1])' = l_True /\ level(var(o[1]))' = bt
    BY <1>1 DEF Learns
  <2>4. q = o[2]
    BY <1>6, <2>2, <2>3, TruthValues DEF WasDue, Due
  <2>5. 1 \in DOMAIN o /\ 2 \in 2 .. Len(o)
    BY <1>3, <2>1
  <2>6. o[2] \in Lit /\ value(o[2]) = l_False /\ level(var(o[2])) <= bt
    BY <1>3, <2>5
  <2>7. KeepsValue(var(o[2]))
    BY <1>1, <2>6, FalseLiteral, TruthValues DEF Learns
  <2>8. level(var(o[2])) = bt
    <3>1. Len(s) # 1
      BY <1>3, <2>1
    <3> QED
      BY <1>2, <3>1 DEF AtLearn
  <2>9. level(var(q))' = bt
    BY <2>4, <2>7, <2>8 DEF KeepsValue, level
  <2> QED
    BY <1>3, <2>1, <2>3, <2>5, <2>9 DEF MadeGood
<1> QED
  BY <1>5, <1>6, TwoWatchedStep

(***************************************************************************)
(* The invariant of the two watched literals: it holds of no clauses, and  *)
(* every step keeps it.                                                    *)
(***************************************************************************)
LEMMA TwoWatchedInit == ASSUME Init PROVE TwoWatched
<1>1. Live = {}
  BY DEF Init, Live
<1> QED
  BY <1>1 DEF TwoWatched

LEMMA TwoWatchedKept == ASSUME Structure, Structure', TwoWatched, [Next]_vars PROVE TwoWatched'
<1>1. CASE UNCHANGED vars
  <2>1. /\ clauses' = clauses /\ learnts' = learnts /\ ca' = ca /\ watches' = watches
        /\ assigns' = assigns /\ vardata' = vardata /\ trail' = trail /\ trail_lim' = trail_lim
        /\ qhead' = qhead /\ ok' = ok /\ confl' = confl /\ pc' = pc /\ ws' = ws
    BY <1>1 DEF vars, db, assignment
  <2>2. Live' \subseteq Live /\ \A cr \in Live' : ca'[cr].lits = ca[cr].lits
    BY <2>1 DEF Live
  <2>3. \A v \in Var : KeepsValue(v)
    BY <2>1 DEF KeepsValue
  <2>4. \A cr \in Live', q \in Lit : (Settled /\ Processed(q) /\ ~Pending(cr, q))'
                                     => Settled /\ Processed(q) /\ ~Pending(cr, q)
    BY <2>1 DEF Settled, Processed, Pending
  <2> QED
    BY <2>1, <2>2, <2>3, <2>4, TwoWatchedQuiet
<1>2. CASE newVar \/ addClause \/ simplify \/ reduceDB \/ garbageCollect
  BY <1>2, TwoWatchedVar, TwoWatchedAdd, TwoWatchedRemove, TwoWatchedCollect
<1>3. CASE propagate \/ nextFact \/ watcher \/ endOfList
  BY <1>3, TwoWatchedPropagate, TwoWatchedNext, TwoWatchedWatcher, TwoWatchedEnd
<1>4. CASE \/ noGarbage \/ clauseAdded \/ check \/ checkFails \/ solve \/ propagated \/ conflictAtRoot
           \/ conflict \/ noConflict \/ noReduce \/ simplifyEnds \/ analyze \/ minimize \/ litRedundant
  BY <1>4, TwoWatchedIdle
<1>5. CASE learn \/ decide
  BY <1>5, TwoWatchedLearn, TwoWatchedDecide
<1>6. CASE restart \/ modelFound \/ solveFails
  BY <1>6, TwoWatchedBack
<1> QED
  BY <1>1, <1>2, <1>3, <1>4, <1>5, <1>6 DEF Next

\* The two watched literals: a false one has been made good by a literal true
\* at its level or below, or propagate is still to look at it.
THEOREM TwoWatchedThm == Spec => []TwoWatched
<1>1. Init => TwoWatched
  BY TwoWatchedInit
<1>2. Structure /\ Structure' /\ TwoWatched /\ [Next]_vars => TwoWatched'
  BY TwoWatchedKept
<1> QED
  BY <1>1, <1>2, StructureThm, PTL DEF Spec

(***************************************************************************)
(* propagate is complete: where the solver goes on after it, no clause is  *)
(* false and none has a single literal left, whichever its facts and in    *)
(* whatever order the lists were worked off.                               *)
(***************************************************************************)
LEMMA TwoLeft ==
  ASSUME NEW n \in Nat, n >= 2, NEW S \in SUBSET (1 .. n), 1 \in S, 2 \in S
  PROVE  Cardinality(S) >= 2
<1>1. IsFiniteSet(1 .. n)
  BY FS_Interval
<1>2. IsFiniteSet(S)
  BY <1>1, FS_Subset
<1>3. IsFiniteSet({1}) /\ Cardinality({1}) = 1
  BY FS_Singleton
<1>4. Cardinality({1} \cup {2}) = Cardinality({1}) + 1
  BY <1>3, FS_AddElement
<1>5. {1} \cup {2} \subseteq S
  OBVIOUS
<1>6. Cardinality({1} \cup {2}) <= Cardinality(S)
  BY <1>2, <1>5, FS_Subset
<1>7. Cardinality(S) \in Nat
  BY <1>2, FS_CardinalityType
<1> QED
  BY <1>3, <1>4, <1>6, <1>7

LEMMA CompleteFromWatches == ASSUME Structure, TwoWatched PROVE PropagationComplete
<1> SUFFICES ASSUME Propagated, NEW cr \in Live, ~satisfied(lits(cr))
             PROVE  Cardinality({j \in DOMAIN lits(cr) : value(lits(cr)[j]) = l_Undef}) >= 2
  BY DEF PropagationComplete
<1>1. AtRest
  BY DEF Propagated, AtRest, Structure, Control, InPropagate
<1>2. PICK c : c = lits(cr)
  OBVIOUS
<1>3. Len(c) \in Nat /\ Len(c) >= 2 /\ DOMAIN c = 1 .. Len(c) /\ \A j \in DOMAIN c : c[j] \in Lit
  BY <1>2, LiveClause
<1>4. \A j \in DOMAIN c : value(c[j]) # l_True
  BY <1>2 DEF satisfied
<1>5. ASSUME NEW i \in 1 .. 2 PROVE i \in 1 .. Len(c) /\ value(c[i]) = l_Undef
  <2>1. i \in DOMAIN c
    BY <1>3
  <2>2. c[i] \in Lit
    BY <1>3, <2>1
  <2>3. value(c[i]) # l_False
    <3> SUFFICES ASSUME value(c[i]) = l_False PROVE FALSE
      OBVIOUS
    <3>1. Due(cr, c[i])
      BY <1>1, <2>2, AllDue
    <3>2. MadeGood(cr, c[i])
      BY <1>2, <3>1 DEF TwoWatched
    <3> QED
      BY <1>2, <1>4, <3>2 DEF MadeGood
  <2>4. value(c[i]) \in {l_True, l_False, l_Undef}
    BY <2>2, FalseLiteral
  <2> QED
    BY <1>3, <1>4, <2>1, <2>3, <2>4
<1>6. PICK S : S = {j \in DOMAIN c : value(c[j]) = l_Undef}
  OBVIOUS
<1>7. S \in SUBSET (1 .. Len(c)) /\ 1 \in S /\ 2 \in S
  BY <1>3, <1>5, <1>6
<1>8. Cardinality(S) >= 2
  BY <1>3, <1>7, TwoLeft
<1> QED
  BY <1>2, <1>6, <1>8

THEOREM PropagationCompleteThm == Spec => []PropagationComplete
<1>1. Structure /\ TwoWatched => PropagationComplete
  BY CompleteFromWatches
<1> QED
  BY <1>1, StructureThm, TwoWatchedThm, PTL

-----------------------------------------------------------------------------
(***************************************************************************)
(* What is entailed.  Under an assignment of all variables a literal holds *)
(* or its negation does.                                                   *)
(***************************************************************************)
LEMMA HoldsIs ==
  ASSUME NEW n \in Nat, NEW A \in [0 .. n - 1 -> BOOLEAN], NEW p \in 0 .. 2 * n - 1
  PROVE  /\ H(p, A) <=> A[var(p)] = (sign(p) = 0)
         /\ H(neg(p), A) <=> ~H(p, A)
<1>1. p \in Nat /\ 2 * n \in Nat /\ p < 2 * n
  OBVIOUS
<1>2. var(p) \in 0 .. n - 1
  BY <1>1 DEF var
<1>3. A[var(p)] \in BOOLEAN
  BY <1>2
<1>4. neg(p) \in Nat /\ var(neg(p)) = var(p) /\ sign(neg(p)) = 1 - sign(p) /\ sign(p) \in 0 .. 1
  BY <1>1, LitFacts
<1>5. \A q : H(q, A) <=> A[var(q)] = (sign(q) = 0)
  BY DEF H, Abs!Holds, Abs!var, Abs!sign, var, sign
<1>6. (sign(neg(p)) = 0) <=> ~(sign(p) = 0)
  BY <1>4
<1>7. H(p, A) <=> A[var(p)] = (sign(p) = 0)
  BY <1>5
<1>8. H(neg(p), A) <=> A[var(p)] = (sign(neg(p)) = 0)
  BY <1>4, <1>5
<1> QED
  BY <1>3, <1>6, <1>7, <1>8

LEMMA ModelIs ==
  ASSUME Structure, NEW A, Model(A)
  PROVE  /\ A \in [Var -> BOOLEAN]
         /\ \A q \in Lit : H(neg(q), A) <=> ~H(q, A)
         /\ \A S \in added : \E p \in S : H(p, A)
<1>1. nVars \in Nat
  BY DEF Structure, TypeOK, VarsType
<1>2. A \in [0 .. nVars - 1 -> BOOLEAN]
  BY DEF Model, Abs!Assignments
<1>3. \A S \in added : \E p \in S : H(p, A)
  BY DEF Model, Abs!Satisfies, H
<1>4. \A q \in 0 .. 2 * nVars - 1 : H(neg(q), A) <=> ~H(q, A)
  BY <1>1, <1>2, HoldsIs
<1> QED
  BY <1>2, <1>3, <1>4 DEF Var, Lit

(***************************************************************************)
(* What is false at level 0 does not hold, so a conflict there leaves no   *)
(* satisfying assignment.                                                  *)
(***************************************************************************)
LEMMA RootFalse ==
  ASSUME Structure, NEW A, Model(A), RootHolds(A), NEW q \in Lit, value(q) = l_False, level(var(q)) = 0
  PROVE  ~H(q, A)
<1>1. q \in Nat /\ nAssigns = Len(trail) /\ DOMAIN trail = 1 .. Len(trail)
  BY FalseLiteral DEF Structure, TypeOK, AssignmentType, nAssigns
<1>2. PICK k \in 1 .. nAssigns : trail[k] = neg(q)
  BY FalseLiteral
<1>3. var(neg(q)) = var(q)
  BY <1>1, LitFacts
<1>4. H(neg(q), A)
  BY <1>1, <1>2, <1>3 DEF RootHolds
<1> QED
  BY <1>4, ModelIs

LEMMA NoRootConflict ==
  ASSUME Structure, NEW A, Model(A), Follows(A), decisionLevel = 0, NEW cr, Conflicting(cr)
  PROVE  FALSE
<1>1. cr \in Live /\ RootHolds(A) /\ DatabaseHolds(A)
  BY DEF Conflicting, Follows
<1>2. PICK j \in DOMAIN lits(cr) : H(lits(cr)[j], A)
  BY <1>1 DEF DatabaseHolds
<1>3. lits(cr)[j] \in Lit
  BY <1>1, LiveClause
<1>4. value(lits(cr)[j]) = l_False
  BY DEF Conflicting
<1>5. level(var(lits(cr)[j])) \in Nat /\ level(var(lits(cr)[j])) <= decisionLevel
  BY <1>3, <1>4, FalseLiteral, TruthValues
<1>6. level(var(lits(cr)[j])) = 0
  BY <1>5
<1> QED
  BY <1>1, <1>2, <1>3, <1>4, <1>6, RootFalse

(***************************************************************************)
(* Clauses keep their literals; facts stay, or what is new holds.          *)
(***************************************************************************)
LEMMA DatabaseKept ==
  ASSUME NEW A, DatabaseHolds(A), \A cr \in Live' : cr \in Live /\ KeepsLiterals(cr)
  PROVE  DatabaseHolds(A)'
<1> SUFFICES ASSUME NEW cr \in Live' PROVE \E j \in DOMAIN ca'[cr].lits : H(ca'[cr].lits[j], A)
  BY DEF DatabaseHolds, lits, H, Abs!Holds, Abs!var, Abs!sign
<1>1. cr \in Live /\ KeepsLiterals(cr)
  OBVIOUS
<1>2. PICK j \in DOMAIN lits(cr) : H(lits(cr)[j], A)
  BY <1>1 DEF DatabaseHolds
<1>3. Has(ca[cr].lits, lits(cr)[j])
  BY <1>2 DEF Has, lits
<1>4. PICK i \in DOMAIN ca'[cr].lits : ca'[cr].lits[i] = lits(cr)[j]
  BY <1>1, <1>3 DEF KeepsLiterals, Has
<1> QED
  BY <1>2, <1>4

LEMMA RootKept ==
  ASSUME NEW A, RootHolds(A),
         \A k \in DOMAIN trail' : vardata'[var(trail'[k])].level = 0 =>
           \/ k \in DOMAIN trail /\ trail'[k] = trail[k] /\ level(var(trail[k])) = 0
           \/ H(trail'[k], A)
  PROVE  RootHolds(A)'
<1> SUFFICES ASSUME NEW k \in DOMAIN trail', vardata'[var(trail'[k])].level = 0 PROVE H(trail'[k], A)
  BY DEF RootHolds, level, var, H, Abs!Holds, Abs!var, Abs!sign
<1> QED
  BY DEF RootHolds

LEMMA RootEnqueue ==
  ASSUME Structure, NEW A, RootHolds(A), NEW p \in Lit, value(p) = l_Undef, NEW from \in Nat, NEW lvl \in Nat,
         uncheckedEnqueue(p, from, lvl, assigns, vardata, trail), lvl = 0 => H(p, A)
  PROVE  RootHolds(A)'
<1>1. /\ \A v \in Var : assigns[v] # l_Undef => KeepsValue(v)
      /\ level(var(p))' = lvl
      /\ \A k \in 1 .. nAssigns : trail'[k] = trail[k]
  BY EnqueueKeeps
<1>2. trail \in Seq(Lit) /\ trail' = Append(trail, p)
  BY DEF uncheckedEnqueue, Enqueued, Structure, TypeOK, AssignmentType
<1>3. Len(trail) \in Nat /\ DOMAIN trail = 1 .. Len(trail) /\ DOMAIN trail' = 1 .. Len(trail) + 1
      /\ trail'[Len(trail) + 1] = p
  BY <1>2
<1>4. \A k \in DOMAIN trail : trail[k] \in Lit
  BY <1>2
<1>5. ASSUME NEW k \in DOMAIN trail', vardata'[var(trail'[k])].level = 0
      PROVE  \/ k \in DOMAIN trail /\ trail'[k] = trail[k] /\ level(var(trail[k])) = 0
             \/ H(trail'[k], A)
  <2>1. CASE k \in 1 .. Len(trail)
    <3>1. trail'[k] = trail[k] /\ trail[k] \in Lit
      BY <1>1, <1>3, <1>4, <2>1 DEF nAssigns
    <3>2. var(trail[k]) \in Var /\ assigns[var(trail[k])] # l_Undef
      BY <1>3, <2>1, TrailSays
    <3>3. level(var(trail[k])) = 0
      BY <1>1, <1>5, <3>1, <3>2 DEF KeepsValue, level
    <3> QED
      BY <1>3, <2>1, <3>1, <3>3
  <2>2. CASE k = Len(trail) + 1
    BY <1>1, <1>3, <1>5, <2>2 DEF level
  <2> QED
    BY <1>3, <2>1, <2>2
<1> QED
  BY <1>5, RootKept

(***************************************************************************)
(* What a turn of propagate's loop does to clauses and facts: literals     *)
(* change places at most, and a clause c with its other literals false     *)
(* may imply its first.                                                    *)
(***************************************************************************)
SameLiterals(cr) == \A q : Has(ca'[cr].lits, q) <=> Has(ca[cr].lits, q)
UnitClause(cr, c) ==
  /\ c \in Seq(Lit) /\ Len(c) >= 2 /\ value(c[1]) = l_Undef /\ \A j \in 2 .. Len(c) : value(c[j]) = l_False
  /\ \A q : Has(ca[cr].lits, q) <=> Has(c, q)
TurnDoes(cr, c) ==
  /\ cr \in Live /\ cr \in Nat
  /\ \A x \in Live : SameLiterals(x)
  /\ \/ assigns' = assigns /\ vardata' = vardata /\ trail' = trail
     \/ UnitClause(cr, c) /\ uncheckedEnqueue(c[1], cr, decisionLevel, assigns, vardata, trail)

LEMMA WatcherDoes == ASSUME Structure, watcher PROVE \E cr, c : TurnDoes(cr, c)
<1>1. PICK p, a : p = ws.p /\ a = neg(p)
  OBVIOUS
<1>2. PICK i, l, s : i = ws.i /\ l = watches[p] /\ s = ws.kept
  OBVIOUS
<1>3. PICK w : w = l[i]
  OBVIOUS
<1>4. PICK cr : cr = w.cref
  OBVIOUS
<1>5. PICK d : d = lits(cr)
  OBVIOUS
<1>6. PICK c : c = Swapped(d, a)
  OBVIOUS
<1>7. pc = "watches" /\ i <= Len(l)
  BY <1>1, <1>2 DEF watcher
<1>8. AtWatcher(p, a, i, l, s, w, cr, d, c)
  BY <1>1, <1>2, <1>3, <1>4, <1>5, <1>6, <1>7 DEF AtWatcher
<1>9. w = watches[ws.p][ws.i] /\ c = Swapped(lits(w.cref), neg(ws.p))
  BY <1>1, <1>2, <1>3, <1>4, <1>5, <1>6
<1>10. \/ SkipWatcher(w)
       \/ value(w.blocker) # l_True /\ (KeepWatcher(w, c) \/ MoveWatcher(w, c) \/ UnitOrConflict(w, c))
  BY <1>9 DEF watcher
<1>11. value(a) = l_False
  BY <1>8, WatcherList
<1>12. cr \in Live /\ cr \in DOMAIN ca /\ d = ca[cr].lits
  BY <1>8, WatcherClause
<1>13. c \in Seq(Lit) /\ Len(c) >= 2 /\ Distinct(c) /\ c[1] \in Lit /\ c[2] = a /\ var(c[1]) # var(a)
  BY <1>8, WatcherSwaps
<1>14. \A q : Has(d, q) <=> Has(c, q)
  BY <1>8, WatcherSwaps
<1>15. ca \in Seq(ClauseSet) /\ Live \subseteq DOMAIN ca /\ cr \in Nat
  BY <1>12 DEF Structure, TypeOK, DatabaseType, Live
<1>16. Len(c) \in Nat /\ DOMAIN c = 1 .. Len(c)
  BY <1>13
<1>17. ASSUME NEW m, ca' = Rewritten(ca, cr, m), \A q : Has(d, q) <=> Has(m, q)
       PROVE  \A x \in Live : SameLiterals(x)
  <2>1. ca[cr] \in ClauseSet
    BY <1>12, <1>15
  <2>2. [ca[cr] EXCEPT !.lits = m].lits = m
    BY <2>1 DEF ClauseSet
  <2>3. \A x \in DOMAIN ca : ca'[x] = IF x = cr THEN [ca[cr] EXCEPT !.lits = m] ELSE ca[x]
    BY <1>17 DEF Rewritten
  <2>4. SameLiterals(cr)
    <3>1. ca'[cr].lits = m
      BY <1>12, <2>2, <2>3
    <3> QED
      BY <1>12, <1>17, <3>1 DEF SameLiterals
  <2>5. \A x \in Live : x # cr => ca'[x] = ca[x]
    BY <1>15, <2>3
  <2> QED
    BY <2>4, <2>5 DEF SameLiterals
<1>18. CASE SkipWatcher(w)
  <2>1. ca' = ca /\ assigns' = assigns /\ vardata' = vardata /\ trail' = trail
    BY <1>18 DEF SkipWatcher
  <2> QED
    BY <1>12, <1>15, <2>1 DEF TurnDoes, SameLiterals
<1>19. CASE KeepWatcher(w, c)
  <2>1. ca' = Rewritten(ca, cr, c) /\ assigns' = assigns /\ vardata' = vardata /\ trail' = trail
    BY <1>4, <1>19 DEF KeepWatcher, Rewritten
  <2> QED
    BY <1>12, <1>14, <1>15, <1>17, <2>1 DEF TurnDoes
<1>20. CASE MoveWatcher(w, c)
  <2>1. PICK k : k = Min(NewWatch(c))
    OBVIOUS
  <2>2. PICK m : m = Exchanged(c, 2, k)
    OBVIOUS
  <2>3. k \in NewWatch(c)
    <3>1. NewWatch(c) \subseteq Nat /\ NewWatch(c) # {}
      BY <1>13, <1>20 DEF NewWatch, MoveWatcher
    <3> QED
      BY <2>1, <3>1, MinIs
  <2>4. k \in DOMAIN c /\ 2 \in DOMAIN c /\ k > 2
    BY <1>13, <2>3 DEF NewWatch
  <2>5. ca' = Rewritten(ca, cr, m) /\ assigns' = assigns /\ vardata' = vardata /\ trail' = trail
    BY <1>4, <1>20, <2>1, <2>2 DEF MoveWatcher, Exchanged, Rewritten
  <2>6. DOMAIN m = DOMAIN c /\ m[2] = c[k] /\ m[k] = c[2] /\ \A y \in DOMAIN c : y # 2 /\ y # k => m[y] = c[y]
    <3>1. 2 # k
      BY <2>4
    <3> QED
      BY <2>2, <2>4, <3>1 DEF Exchanged
  <2>7. \A q : Has(d, q) <=> Has(m, q)
    <3>1. \A y \in DOMAIN c : \E z \in DOMAIN m : m[z] = c[y]
      BY <2>4, <2>6
    <3>2. \A y \in DOMAIN m : \E z \in DOMAIN c : c[z] = m[y]
      BY <2>4, <2>6
    <3> QED
      BY <1>14, <3>1, <3>2 DEF Has
  <2> QED
    BY <1>12, <1>15, <1>17, <2>5, <2>7 DEF TurnDoes
<1>21. CASE value(w.blocker) # l_True /\ UnitOrConflict(w, c)
  <2>1. /\ ~(c[1] # w.blocker /\ value(c[1]) = l_True) /\ NewWatch(c) = {} /\ ca' = Rewritten(ca, cr, c)
    BY <1>4, <1>21 DEF UnitOrConflict, Rewritten
  <2>2. \A x \in Live : SameLiterals(x)
    BY <1>14, <1>17, <2>1
  <2>3. CASE value(c[1]) = l_False
    <3>1. assigns' = assigns /\ vardata' = vardata /\ trail' = trail
      BY <1>4, <1>21, <2>3 DEF UnitOrConflict
    <3> QED
      BY <1>12, <1>15, <2>2, <3>1 DEF TurnDoes
  <2>4. CASE value(c[1]) # l_False
    <3>1. uncheckedEnqueue(c[1], cr, decisionLevel, assigns, vardata, trail)
      BY <1>4, <1>21, <2>4 DEF UnitOrConflict
    <3>2. value(c[1]) = l_Undef
      <4>1. value(c[1]) # l_True
        BY <1>21, <2>1
      <4> QED
        BY <1>13, <2>4, <4>1, FalseLiteral
    <3>3. ASSUME NEW j \in 2 .. Len(c) PROVE value(c[j]) = l_False
      <4>1. j = 2 \/ j \in 3 .. Len(c)
        BY <1>16
      <4> QED
        BY <1>11, <1>13, <2>1, <4>1 DEF NewWatch
    <3>4. UnitClause(cr, c)
      BY <1>12, <1>13, <1>14, <3>2, <3>3 DEF UnitClause
    <3> QED
      BY <1>12, <1>15, <2>2, <3>1, <3>4 DEF TurnDoes
  <2> QED
    BY <2>3, <2>4
<1> QED
  BY <1>10, <1>18, <1>19, <1>20, <1>21

(***************************************************************************)
(* Steps between analyses.                                                 *)
(***************************************************************************)
Elsewhere == (pc = "analyze" => an.p = -1) /\ ~InMinimize

LEMMA FollowsStep ==
  ASSUME NEW A, ok', pc' # "l_False", DatabaseHolds(A)', RootHolds(A)', Elsewhere'
  PROVE  Follows(A)'
BY DEF Follows, AnalysisHolds, Elsewhere, DatabaseHolds, RootHolds

LEMMA FollowsSame ==
  ASSUME Structure, NEW A, Follows(A), UNCHANGED <<clauses, learnts, ca, assigns, vardata, trail>>,
         ok', pc' # "l_False", Elsewhere'
  PROVE  Follows(A)'
<1>1. DatabaseHolds(A)'
  BY DatabaseKept DEF Follows, KeepsLiterals, Live
<1>2. RootHolds(A)'
  BY RootKept DEF Follows, level
<1> QED
  BY <1>1, <1>2, FollowsStep

LEMMA FollowsWatcher ==
  ASSUME Structure, NEW A, Model(A), Follows(A), watcher
  PROVE  Follows(A)'
<1>1. PICK cr, c : TurnDoes(cr, c)
  BY WatcherDoes
<1>2. /\ clauses' = clauses /\ learnts' = learnts /\ pc' = pc /\ ok' = ok /\ pc = "watches"
  BY DEF watcher
<1>3. DatabaseHolds(A)'
  <2>1. \A x \in Live' : x \in Live /\ KeepsLiterals(x)
    BY <1>1, <1>2 DEF TurnDoes, SameLiterals, KeepsLiterals, Live
  <2> QED
    BY <2>1, DatabaseKept DEF Follows
<1>4. RootHolds(A)'
  <2>1. CASE assigns' = assigns /\ vardata' = vardata /\ trail' = trail
    BY <2>1, RootKept DEF Follows, level
  <2>2. CASE UnitClause(cr, c) /\ uncheckedEnqueue(c[1], cr, decisionLevel, assigns, vardata, trail)
    <3>1. PICK p, dl : p = c[1] /\ dl = decisionLevel
      OBVIOUS
    <3>2. dl \in Nat
      BY <3>1 DEF Structure, TypeOK, AssignmentType, decisionLevel
    <3>3. p \in Lit /\ value(p) = l_Undef /\ cr \in Nat /\ cr \in Live
      BY <1>1, <2>2, <3>1 DEF UnitClause, TurnDoes
    <3>4. ASSUME dl = 0 PROVE H(p, A)
      <4>1. PICK j \in DOMAIN lits(cr) : H(lits(cr)[j], A)
        BY <3>3 DEF Follows, DatabaseHolds
      <4>2. Has(c, lits(cr)[j])
        BY <2>2, <4>1 DEF UnitClause, Has, lits
      <4>3. PICK i \in DOMAIN c : c[i] = lits(cr)[j]
        BY <4>2 DEF Has
      <4>4. ASSUME i # 1 PROVE FALSE
        <5>1. value(c[i]) = l_False /\ c[i] \in Lit
          BY <2>2, <4>4 DEF UnitClause
        <5>2. level(var(c[i])) \in Nat /\ level(var(c[i])) <= decisionLevel
          BY <5>1, FalseLiteral, TruthValues
        <5>3. level(var(c[i])) = 0
          BY <3>1, <3>4, <5>2
        <5> QED
          BY <4>1, <4>3, <5>1, <5>3, RootFalse DEF Follows
      <4> QED
        BY <3>1, <4>1, <4>3, <4>4
    <3> QED
      BY <2>2, <3>1, <3>2, <3>3, <3>4, RootEnqueue DEF Follows
  <2> QED
    BY <1>1, <2>1, <2>2 DEF TurnDoes
<1> QED
  BY <1>2, <1>3, <1>4, FollowsStep DEF Follows, Elsewhere, InMinimize

LEMMA FrameIs ==
  ASSUME Structure, stack # <<>>
  PROVE  Head(stack) \in {"addClause", "simplify", "search", "solve", "reduce", "decide"}
<1>1. stack \in {<<"addClause">>, <<"simplify", "solve">>, <<"search">>, <<"simplify", "reduce">>,
                 <<"solve">>, <<"reduce">>, <<"decide">>}
  BY DEF Structure, Control, Returns
<1> QED
  BY <1>1, OneFrame, TwoFrames

LEMMA FollowsMoves ==
  ASSUME Structure, NEW A, Follows(A),
         noGarbage \/ check \/ solve \/ propagate \/ nextFact \/ endOfList \/ propagated \/ noConflict \/ noReduce
           \/ conflict \/ checkFails
  PROVE  Follows(A)'
<1>1. UNCHANGED <<clauses, learnts, ca, assigns, vardata, trail>> /\ ok' = ok
  <2>1. CASE noGarbage
    BY <2>1 DEF noGarbage, db, assignment
  <2>2. CASE check
    BY <2>2 DEF check, db, assignment
  <2>3. CASE solve
    BY <2>3 DEF solve, db, assignment
  <2>4. CASE propagate
    BY <2>4 DEF propagate, db, assignment
  <2>5. CASE nextFact
    BY <2>5 DEF nextFact, db, assignment
  <2>6. CASE endOfList
    BY <2>6 DEF endOfList, db, assignment
  <2>7. CASE propagated
    BY <2>7 DEF propagated, db, assignment
  <2>8. CASE noConflict
    BY <2>8 DEF noConflict, db, assignment
  <2>9. CASE noReduce
    BY <2>9 DEF noReduce, db, assignment
  <2>10. CASE conflict
    BY <2>10 DEF conflict, db, assignment
  <2>11. CASE checkFails
    BY <2>11 DEF checkFails, db, assignment
  <2> QED
    BY <2>1, <2>2, <2>3, <2>4, <2>5, <2>6, <2>7, <2>8, <2>9, <2>10, <2>11
<1>2. ok /\ ok'
  BY <1>1 DEF Follows
<1>3. pc' # "l_False" /\ Elsewhere'
  <2>1. CASE noGarbage \/ propagated
    <3>1. pc' = Head(stack) /\ (pc = "garbage" \/ pc = "facts")
      BY <2>1 DEF noGarbage, propagated
    <3>2. stack # <<>>
      BY <3>1 DEF Structure, Control, Returns, InPropagate
    <3>3. pc' \in {"addClause", "simplify", "search", "solve", "reduce", "decide"}
      BY <3>1, <3>2, FrameIs
    <3> QED
      BY <3>3 DEF Elsewhere, InMinimize
  <2>2. CASE check
    BY <2>2 DEF check, Call, Elsewhere, InMinimize
  <2>3. CASE solve \/ propagate \/ nextFact \/ endOfList
    BY <2>3 DEF solve, propagate, nextFact, endOfList, Elsewhere, InMinimize
  <2>4. CASE noConflict \/ noReduce \/ checkFails
    BY <2>4 DEF noConflict, noReduce, checkFails, Elsewhere, InMinimize
  <2>5. CASE conflict
    BY <2>5 DEF conflict, Elsewhere, InMinimize, NoAnalysis
  <2> QED
    BY <2>1, <2>2, <2>3, <2>4, <2>5
<1> QED
  BY <1>1, <1>2, <1>3, FollowsSame

(***************************************************************************)
(* A conflict at level 0, which ends simplify, search or the call of       *)
(* addClause, is met only without a satisfying assignment.                 *)
(***************************************************************************)
LEMMA FollowsRoot ==
  ASSUME Structure, NEW A, Model(A), Follows(A), clauseAdded \/ simplifyEnds \/ conflictAtRoot
  PROVE  Follows(A)'
<1>1. confl = CRef_Undef
  <2> SUFFICES ASSUME confl # CRef_Undef PROVE FALSE
    OBVIOUS
  <2>1. decisionLevel = 0 /\ pc # "analyze"
    BY DEF clauseAdded, simplifyEnds, conflictAtRoot, Structure, Control, AtRoot
  <2>2. Conflicting(confl)
    BY <2>1 DEF Structure, Conflict
  <2> QED
    BY <2>1, <2>2, NoRootConflict
<1>2. ~conflictAtRoot
  BY <1>1 DEF conflictAtRoot
<1>3. UNCHANGED <<clauses, learnts, ca, assigns, vardata, trail>>
  BY <1>2 DEF clauseAdded, simplifyEnds, assignment
<1>4. ok
  BY DEF Follows
<1>5. ok' /\ pc' # "l_False" /\ Elsewhere'
  <2>1. CASE clauseAdded
    BY <1>1, <2>1 DEF clauseAdded, Elsewhere, InMinimize
  <2>2. CASE simplifyEnds
    <3>1. pc = "simplify" /\ pc' = Head(stack) /\ ok' = ok
      BY <1>1, <2>2 DEF simplifyEnds
    <3>2. stack # <<>>
      BY <3>1 DEF Structure, Control, Returns, InPropagate
    <3>3. pc' \in {"addClause", "simplify", "search", "solve", "reduce", "decide"}
      BY <3>1, <3>2, FrameIs
    <3> QED
      BY <1>4, <3>1, <3>3 DEF Elsewhere, InMinimize
  <2> QED
    BY <1>2, <2>1, <2>2
<1> QED
  BY <1>3, <1>5, FollowsSame

(***************************************************************************)
(* Clauses are removed and move.                                           *)
(***************************************************************************)
LEMMA FollowsRemove ==
  ASSUME Structure, NEW A, Follows(A), simplify \/ reduceDB
  PROVE  Follows(A)'
<1>1. PICK R : RemoveClauses(R)
  BY DEF simplify, reduceDB
<1>2. trail' = trail /\ ok' = ok /\ pc' = "garbage" /\ ok
  BY DEF simplify, reduceDB, Follows
<1>3. /\ \A v \in Var : vardata'[v].level = vardata[v].level
      /\ \A cr \in DOMAIN ca : ca'[cr].lits = ca[cr].lits
      /\ Live' \subseteq Live
  BY <1>1, RemovedLevels
<1>4. Live \subseteq DOMAIN ca
  BY DEF Structure, TypeOK, DatabaseType, Live
<1>5. DatabaseHolds(A)'
  <2>1. \A cr \in Live' : cr \in Live /\ KeepsLiterals(cr)
    BY <1>3, <1>4 DEF KeepsLiterals
  <2> QED
    BY <2>1, DatabaseKept DEF Follows
<1>6. RootHolds(A)'
  <2>1. \A k \in DOMAIN trail : level(var(trail[k]))' = level(var(trail[k]))
    <3> SUFFICES ASSUME NEW k \in DOMAIN trail PROVE level(var(trail[k]))' = level(var(trail[k]))
      OBVIOUS
    <3>1. var(trail[k]) \in Var
      BY TrailSays
    <3> QED
      BY <1>2, <1>3, <3>1 DEF level
  <2> QED
    BY <1>2, <2>1, RootKept DEF Follows, level
<1> QED
  BY <1>2, <1>5, <1>6, FollowsStep DEF Elsewhere, InMinimize

LEMMA FollowsCollect ==
  ASSUME Structure, NEW A, Follows(A), garbageCollect
  PROVE  Follows(A)'
<1>1. PICK W, new : Collected(W, new)
  BY CollectorMoves
<1>2. trail' = trail /\ ok' = ok /\ pc = "garbage" /\ pc' = Head(stack) /\ ok
  BY DEF garbageCollect, Follows
<1>3. pc' \in {"addClause", "simplify", "search", "solve", "reduce", "decide"}
  <2>1. stack # <<>>
    BY <1>2 DEF Structure, Control, Returns, InPropagate
  <2> QED
    BY <1>2, <2>1, FrameIs
<1>4. \A v \in Var : vardata'[v].level = vardata[v].level
  <2> SUFFICES ASSUME NEW v \in Var PROVE vardata'[v].level = vardata[v].level
    OBVIOUS
  <2>1. vardata'[v] \in {[vardata[v] EXCEPT !.reason = new[@]], vardata[v]}
    BY <1>1 DEF Collected
  <2>2. vardata[v] \in DataSet
    BY DEF Structure, TypeOK, AssignmentType, DataSet
  <2> QED
    BY <2>1, <2>2 DEF DataSet
<1>5. DatabaseHolds(A)'
  <2> SUFFICES ASSUME NEW cr \in Live' PROVE \E j \in DOMAIN ca'[cr].lits : H(ca'[cr].lits[j], A)
    BY DEF DatabaseHolds, lits, H, Abs!Holds, Abs!var, Abs!sign
  <2>1. PICK x \in Live : new[x] = cr /\ ca'[cr] = ca[x]
    BY <1>1 DEF Collected
  <2> QED
    BY <2>1 DEF Follows, DatabaseHolds, lits
<1>6. RootHolds(A)'
  <2>1. \A k \in DOMAIN trail : level(var(trail[k]))' = level(var(trail[k]))
    <3> SUFFICES ASSUME NEW k \in DOMAIN trail PROVE level(var(trail[k]))' = level(var(trail[k]))
      OBVIOUS
    <3>1. var(trail[k]) \in Var
      BY TrailSays
    <3> QED
      BY <1>2, <1>4, <3>1 DEF level
  <2> QED
    BY <1>2, <2>1, RootKept DEF Follows, level
<1> QED
  BY <1>2, <1>3, <1>5, <1>6, FollowsStep DEF Elsewhere, InMinimize

(***************************************************************************)
(* What addClause does with the clause S, at level 0: nothing if S is true *)
(* or the solver has given up, which it does if S is false; a single       *)
(* literal that remains is a new fact, and else the literals that remain   *)
(* are a new clause.                                                       *)
(***************************************************************************)
AddsNothing(S) == (~ok \/ Redundant(S)) /\ UNCHANGED <<ok, clauses, ca, assigns, vardata, trail>>
AddsFalse(S) == (\A p \in S : value(p) = l_False) /\ ok' = FALSE /\ UNCHANGED <<clauses, ca, assigns, vardata, trail>>
AddsFact(S) ==
  \E p \in S : /\ value(p) = l_Undef /\ \A q \in S : value(q) # l_False => q = p
               /\ uncheckedEnqueue(p, CRef_Undef, 0, assigns, vardata, trail)
               /\ UNCHANGED <<ok, clauses, ca>>
AddsClause(S) ==
  \E n, c : /\ n \notin DOMAIN ca /\ clauses' = clauses \cup {n} /\ ca'[n].lits = c
            /\ \A x \in DOMAIN ca : ca'[x] = ca[x]
            /\ \A j \in DOMAIN c : c[j] \in S
            /\ \A p \in S : value(p) # l_False => Has(c, p)
            /\ UNCHANGED <<ok, assigns, vardata, trail>>
AddDoes(S) ==
  /\ S \subseteq Lit /\ added' = added \cup {S} /\ pc = "idle" /\ pc' \in {"idle", "propagate"}
  /\ decisionLevel = 0 /\ learnts' = learnts
  /\ AddsNothing(S) \/ (ok /\ ~Redundant(S) /\ (AddsFalse(S) \/ AddsFact(S) \/ AddsClause(S)))

LEMMA AddClauseDoes == ASSUME Structure, addClause PROVE \E S : AddDoes(S)
<1>1. VarsType /\ AssignmentType /\ DatabaseType /\ Control
  BY DEF Structure, TypeOK
<1>2. PICK S : S = ToSet(Head(calls).ps)
  OBVIOUS
<1>3. PICK c : c = Remaining(S)
  OBVIOUS
<1>4. PICK dl : dl = decisionLevel
  OBVIOUS
<1>5. /\ pc = "idle" /\ S \subseteq Lit /\ added' = added \cup {S}
      /\ \/ (~ok \/ Redundant(S)) /\ UNCHANGED <<db, watches, assignment, pc, stack>>
         \/ /\ ok /\ ~Redundant(S) /\ Len(c) = 0
            /\ ok' = FALSE /\ UNCHANGED <<clauses, learnts, ca, dirty, watches, assignment, pc, stack>>
         \/ /\ ok /\ ~Redundant(S) /\ Len(c) = 1
            /\ uncheckedEnqueue(c[1], CRef_Undef, dl, assigns, vardata, trail)
            /\ pc' = "propagate" /\ UNCHANGED <<db, watches, trail_lim, order_heap, polarity>>
         \/ /\ ok /\ ~Redundant(S) /\ ca' = Alloc(c, FALSE) /\ clauses' = clauses \cup {Len(ca) + 1}
            /\ UNCHANGED <<ok, learnts, dirty, assignment, pc, stack>>
  BY <1>2, <1>3, <1>4 DEF addClause, Call
<1>6. dl = 0
  BY <1>1, <1>4, <1>5 DEF Control, AtRoot
<1>7. CASE (~ok \/ Redundant(S)) /\ UNCHANGED <<db, watches, assignment, pc, stack>>
  <2>1. AddsNothing(S) /\ pc' = pc /\ learnts' = learnts
    BY <1>7 DEF AddsNothing, db, assignment
  <2> QED
    BY <1>4, <1>5, <1>6, <2>1 DEF AddDoes
<1> SUFFICES ASSUME ok, ~Redundant(S) PROVE \E T : AddDoes(T)
  BY <1>5, <1>7
<1>8. /\ c \in Seq(Lit) /\ Len(c) \in Nat /\ \A k \in DOMAIN c : c[k] \in S /\ assigns[var(c[k])] = l_Undef
      /\ \A p \in S : value(p) # l_False => \E k \in DOMAIN c : c[k] = p
  BY <1>1, <1>3, <1>5, RemainingIs
<1>9. DOMAIN c = 1 .. Len(c)
  BY <1>8
<1>10. CASE Len(c) = 0 /\ ok' = FALSE /\ UNCHANGED <<clauses, learnts, ca, dirty, watches, assignment, pc, stack>>
  <2>1. AddsFalse(S) /\ pc' = pc /\ learnts' = learnts
    BY <1>8, <1>9, <1>10 DEF AddsFalse, assignment
  <2> QED
    BY <1>4, <1>5, <1>6, <2>1 DEF AddDoes
<1>11. CASE /\ Len(c) = 1 /\ uncheckedEnqueue(c[1], CRef_Undef, dl, assigns, vardata, trail)
            /\ pc' = "propagate" /\ UNCHANGED <<db, watches, trail_lim, order_heap, polarity>>
  <2>1. PICK p : p = c[1]
    OBVIOUS
  <2>2. p \in S /\ p \in Lit /\ assigns[var(p)] = l_Undef /\ \A k \in DOMAIN c : c[k] = p
    BY <1>5, <1>8, <1>9, <1>11, <2>1
  <2>3. value(p) = l_Undef
    BY <2>2, FalseLiteral
  <2>4. \A q \in S : value(q) # l_False => q = p
    BY <1>8, <2>2
  <2>5. uncheckedEnqueue(p, CRef_Undef, 0, assigns, vardata, trail) /\ UNCHANGED <<ok, clauses, ca>> /\ learnts' = learnts
    BY <1>6, <1>11, <2>1 DEF db
  <2>6. AddsFact(S)
    BY <2>2, <2>3, <2>4, <2>5 DEF AddsFact
  <2> QED
    BY <1>4, <1>5, <1>6, <1>11, <2>5, <2>6 DEF AddDoes
<1>12. CASE /\ ca' = Alloc(c, FALSE) /\ clauses' = clauses \cup {Len(ca) + 1}
            /\ UNCHANGED <<ok, learnts, dirty, assignment, pc, stack>>
  <2>1. PICK e : e = [lits |-> c, learnt |-> FALSE, mark |-> 0]
    OBVIOUS
  <2>2. PICK n : n = Len(ca) + 1
    OBVIOUS
  <2>3. ca' = Append(ca, e) /\ e.lits = c /\ ca \in Seq(ClauseSet)
    BY <1>1, <1>12, <2>1 DEF Alloc, DatabaseType
  <2>4. n \notin DOMAIN ca /\ ca'[n] = e /\ \A x \in DOMAIN ca : ca'[x] = ca[x]
    BY <2>2, <2>3
  <2>5. \A p \in S : value(p) # l_False => Has(c, p)
    BY <1>8 DEF Has
  <2>6. ca'[n].lits = c /\ clauses' = clauses \cup {n} /\ UNCHANGED <<ok, assigns, vardata, trail>>
    BY <1>12, <2>2, <2>3, <2>4 DEF assignment
  <2>7. AddsClause(S)
    BY <1>8, <2>4, <2>5, <2>6 DEF AddsClause
  <2> QED
    BY <1>4, <1>5, <1>6, <1>12, <2>7 DEF AddDoes
<1> QED
  BY <1>5, <1>10, <1>11, <1>12

LEMMA FollowsAdd ==
  ASSUME Structure, NEW A, Model(A), Model(A)', Follows(A), addClause
  PROVE  Follows(A)'
<1>1. PICK S : AddDoes(S)
  BY AddClauseDoes
<1>2. S \subseteq Lit /\ learnts' = learnts /\ decisionLevel = 0 /\ pc' \in {"idle", "propagate"}
  BY <1>1 DEF AddDoes
<1>3. DatabaseHolds(A) /\ RootHolds(A) /\ ok
  BY DEF Follows
<1>4. PICK p \in S : H(p, A)
  <2>1. S \in added'
    BY <1>1 DEF AddDoes
  <2> QED
    BY <2>1 DEF Model, Abs!Satisfies, H, Abs!Holds, Abs!var, Abs!sign
<1>5. value(p) # l_False
  <2> SUFFICES ASSUME value(p) = l_False PROVE FALSE
    OBVIOUS
  <2>1. p \in Lit
    BY <1>2
  <2>2. level(var(p)) \in Nat /\ level(var(p)) <= decisionLevel
    BY <2>1, FalseLiteral, TruthValues
  <2>3. level(var(p)) = 0
    BY <1>2, <2>2
  <2> QED
    BY <1>3, <1>4, <2>1, <2>3, RootFalse
<1>6. Live \subseteq DOMAIN ca
  BY DEF Structure, TypeOK, DatabaseType, Live
<1>7. CASE AddsNothing(S)
  <2>1. UNCHANGED <<ok, clauses, ca, assigns, vardata, trail>>
    BY <1>7 DEF AddsNothing
  <2> QED
    BY <1>2, <1>3, <2>1, FollowsSame DEF Elsewhere, InMinimize
<1>8. CASE AddsFact(S)
  <2>1. PICK q \in S : /\ value(q) = l_Undef /\ \A r \in S : value(r) # l_False => r = q
                       /\ uncheckedEnqueue(q, CRef_Undef, 0, assigns, vardata, trail)
                       /\ UNCHANGED <<ok, clauses, ca>>
    BY <1>8 DEF AddsFact
  <2>2. H(q, A) /\ q \in Lit /\ CRef_Undef \in Nat /\ 0 \in Nat
    BY <1>2, <1>4, <1>5, <2>1 DEF CRef_Undef
  <2>3. RootHolds(A)'
    BY <1>3, <2>1, <2>2, RootEnqueue
  <2>4. DatabaseHolds(A)'
    BY <1>2, <1>3, <2>1, DatabaseKept DEF KeepsLiterals, Live
  <2> QED
    BY <1>2, <1>3, <2>1, <2>3, <2>4, FollowsStep DEF Elsewhere, InMinimize
<1>9. CASE AddsClause(S)
  <2>1. PICK n, c : /\ n \notin DOMAIN ca /\ clauses' = clauses \cup {n} /\ ca'[n].lits = c
                    /\ \A x \in DOMAIN ca : ca'[x] = ca[x]
                    /\ \A j \in DOMAIN c : c[j] \in S
                    /\ \A r \in S : value(r) # l_False => Has(c, r)
                    /\ UNCHANGED <<ok, assigns, vardata, trail>>
    BY <1>9 DEF AddsClause
  <2>2. RootHolds(A)'
    BY <1>3, <2>1, RootKept DEF level
  <2>3. DatabaseHolds(A)'
    <3> SUFFICES ASSUME NEW cr \in Live' PROVE \E j \in DOMAIN ca'[cr].lits : H(ca'[cr].lits[j], A)
      BY DEF DatabaseHolds, lits, H, Abs!Holds, Abs!var, Abs!sign
    <3>1. CASE cr = n
      <4>1. PICK j \in DOMAIN c : c[j] = p
        BY <1>5, <2>1 DEF Has
      <4> QED
        BY <1>4, <2>1, <3>1, <4>1
    <3>2. CASE cr # n
      <4>1. cr \in Live
        BY <1>2, <2>1, <3>2 DEF Live
      <4>2. ca'[cr] = ca[cr]
        BY <1>6, <2>1, <4>1
      <4> QED
        BY <1>3, <4>1, <4>2 DEF DatabaseHolds, lits
    <3> QED
      BY <3>1, <3>2
  <2> QED
    BY <1>2, <1>3, <2>1, <2>2, <2>3, FollowsStep DEF Elsewhere, InMinimize
<1>10. ~AddsFalse(S)
  BY <1>4, <1>5 DEF AddsFalse
<1> QED
  BY <1>1, <1>3, <1>7, <1>8, <1>9, <1>10 DEF AddDoes

(***************************************************************************)
(* A decision opens a level; jumps back keep the facts of level 0.         *)
(***************************************************************************)
LEMMA FollowsDecide ==
  ASSUME Structure, NEW A, Follows(A), decide
  PROVE  Follows(A)'
<1>1. PICK v \in order_heap :
        /\ assigns[v] = l_Undef
        /\ uncheckedEnqueue(2 * v + polarity[v], CRef_Undef, decisionLevel + 1, assigns, vardata, trail)
  BY DEF decide
<1>2. /\ pc' = "propagate" /\ ok' = ok /\ clauses' = clauses /\ learnts' = learnts /\ ca' = ca
  BY DEF decide, db
<1>3. VarsType /\ AssignmentType
  BY DEF Structure, TypeOK
<1>4. PICK p : p = 2 * v + polarity[v]
  OBVIOUS
<1>5. p \in Lit /\ value(p) = l_Undef /\ p \in Nat
  <2>1. v \in Var /\ v \in Nat /\ polarity[v] \in 0 .. 1
    BY <1>1, <1>3, Literals DEF AssignmentType
  <2>2. p \in Nat /\ var(p) = v
    BY <1>4, <2>1, LitMade
  <2>3. p \in Lit
    BY <1>3, <2>1, <2>2, Literals
  <2> QED
    BY <1>1, <2>2, <2>3, FalseLiteral
<1>6. PICK d : d = decisionLevel + 1
  OBVIOUS
<1>7. d \in Nat /\ d # 0 /\ CRef_Undef \in Nat /\ uncheckedEnqueue(p, CRef_Undef, d, assigns, vardata, trail)
  BY <1>1, <1>3, <1>4, <1>6 DEF AssignmentType, decisionLevel, CRef_Undef
<1>8. RootHolds(A)'
  BY <1>5, <1>7, RootEnqueue DEF Follows
<1>9. DatabaseHolds(A)'
  BY <1>2, DatabaseKept DEF Follows, KeepsLiterals, Live
<1> QED
  BY <1>2, <1>8, <1>9, FollowsStep DEF Follows, Elsewhere, InMinimize

LEMMA FollowsBack ==
  ASSUME Structure, NEW A, Follows(A), restart \/ modelFound \/ solveFails
  PROVE  Follows(A)'
<1>1. ~solveFails
  BY DEF solveFails, Follows
<1>2. /\ trail' = TrailAt(0) /\ vardata' = vardata /\ ok' = ok /\ clauses' = clauses /\ learnts' = learnts /\ ca' = ca
      /\ pc' \in {"propagate", "idle"}
  BY <1>1 DEF restart, modelFound, cancelUntil, db
<1>3. PICK B, U, M : B = AssignsAt(0) /\ U = TrailAt(0) /\ M = SubSeq(trail_lim, 1, 0)
  OBVIOUS
<1>4. VarsType /\ AssignmentType /\ Trail /\ Reasoned /\ 0 \in Nat /\ 0 <= decisionLevel
  BY DEF Structure, TypeOK, AssignmentType, decisionLevel
<1>5. Kept(0) \in 0 .. Len(trail) /\ Len(U) = Kept(0) /\ \A k \in 1 .. Kept(0) : U[k] = trail[k]
  BY <1>3, <1>4, UndoState
<1>6. DOMAIN trail = 1 .. Len(trail) /\ Len(trail) \in Nat /\ DOMAIN U = 1 .. Len(U)
  <2>1. Tables(Var, Lit, B, vardata, U, M)
    BY <1>3, <1>4, UndoState
  <2> QED
    BY <1>4, <2>1, TableFacts DEF AssignmentType
<1>7. RootHolds(A)'
  <2>1. \A k \in DOMAIN U : k \in DOMAIN trail /\ U[k] = trail[k]
    BY <1>5, <1>6
  <2> QED
    BY <1>2, <1>3, <2>1, RootKept DEF Follows, level
<1>8. DatabaseHolds(A)'
  BY <1>2, DatabaseKept DEF Follows, KeepsLiterals, Live
<1> QED
  BY <1>2, <1>7, <1>8, FollowsStep DEF Follows, Elsewhere, InMinimize

(***************************************************************************)
(* Two false literals of a variable are the same.                          *)
(***************************************************************************)
LEMMA SameFalse ==
  ASSUME Structure, NEW q \in Lit, NEW r \in Lit, var(q) = var(r), value(q) = l_False, value(r) = l_False
  PROVE  q = r
<1>1. VarsType /\ AssignmentType
  BY DEF Structure, TypeOK
<1>2. q \in Nat /\ r \in Nat /\ var(q) \in Var
  BY FalseLiteral
<1>3. assigns[var(q)] \in 0 .. 2
  BY <1>1, <1>2 DEF AssignmentType
<1>4. assigns[var(q)] = 1 - sign(q) /\ assigns[var(q)] = 1 - sign(r)
  BY <1>2, <1>3, ValueIs
<1>5. sign(q) \in 0 .. 1 /\ sign(r) \in 0 .. 1 /\ sign(neg(r)) = 1 - sign(r)
  BY <1>2, LitFacts
<1>6. q = r \/ q = neg(r)
  BY <1>2, SameVar
<1> QED
  BY <1>4, <1>5, <1>6

(***************************************************************************)
(* What a turn of analyze does: the literals it had are kept, or are the   *)
(* one to resolve on next, and so is each literal of the clause resolved   *)
(* with that is not false for good.                                        *)
(***************************************************************************)
Resolved(q, p, out, P) ==
  /\ q \in Lit /\ value(q) = l_False
  /\ \/ level(var(q)) = 0 \/ p = neg(q)
     \/ \E j \in 2 .. Len(out) : out[j] = q
     \/ \E j \in P : trail[j] = neg(q)
Continues(p, out, P) == pc' = "analyze" /\ an'.out = out /\ an'.p = p /\ Here' = P
Concludes(p, out, P) ==
  /\ pc' = "minimize" /\ P = {} /\ Len(out) \in Nat /\ Len(out) > 0 /\ DOMAIN an'.out = 1 .. Len(out) /\ Len(an'.out) = Len(out)
  /\ an'.out[1] = neg(p) /\ an'.i = 2 /\ \A k \in 2 .. Len(out) : an'.out[k] = out[k]
Resolves(p, out, P) ==
  /\ pc = "analyze" /\ confl \in Live /\ p \in Lit
  /\ \A k \in DOMAIN lits(confl) : (an.p # -1 /\ k = 1) \/ Resolved(lits(confl)[k], p, out, P)
  /\ an.p # -1 => lits(confl)[1] = an.p
  /\ \A k \in 2 .. Len(an.out) : \E j \in 2 .. Len(out) : out[j] = an.out[k]
  /\ \A k \in Here : k \in P \/ trail[k] = p
  /\ P \subseteq DOMAIN trail
  /\ \A k \in 2 .. Len(out) : out[k] \in Lit /\ value(out[k]) = l_False /\ var(out[k]) \in seen'
  /\ \A v \in seen' : (\E k \in 2 .. Len(out) : var(out[k]) = v) \/ \E k \in P : var(trail[k]) = v
  /\ Continues(p, out, P) \/ Concludes(p, out, P)

LEMMA AnalyzeDoes == ASSUME Structure, analyze PROVE \E p, out, P : Resolves(p, out, P)
<1>1. VarsType /\ AssignmentType /\ ScratchType /\ Control /\ Trail /\ Analysis /\ Reasoned
  BY DEF Structure, TypeOK
<1>2. PICK c, from : c = lits(confl) /\ from = (IF an.p = -1 THEN 1 ELSE 2)
  OBVIOUS
<1>3. PICK new : new = Unseen(c, from)
  OBVIOUS
<1>4. PICK here : here = {k \in new : level(var(c[k])) >= decisionLevel}
  OBVIOUS
<1>5. PICK marked : marked = seen \cup {var(c[k]) : k \in new}
  OBVIOUS
<1>6. PICK next : next = Max({k \in 1 .. an.index : var(trail[k]) \in marked})
  OBVIOUS
<1>7. PICK p : p = trail[next]
  OBVIOUS
<1>8. pc = "analyze"
  BY DEF analyze
<1>9. AtAnalysis(c, from, new, here, marked, next, p)
  BY <1>2, <1>3, <1>4, <1>5, <1>6, <1>7, <1>8 DEF AtAnalysis
<1>10. PICK out : out = an.out \o Selected(c, new \ here)
  OBVIOUS
<1>11. PICK S : S = marked \ {var(p)}
  OBVIOUS
<1>12. PICK n : n = an.pathC + Cardinality(here) - 1
  OBVIOUS
<1>13. /\ seen' = S
       /\ IF n > 0
          THEN /\ an' = [an EXCEPT !.p = p, !.index = next - 1, !.pathC = n, !.out = out]
               /\ confl' = reason(var(p))
               /\ pc' = "analyze"
          ELSE LET learnt == [out EXCEPT ![1] = neg(p)]
               IN /\ an' = [NoAnalysis EXCEPT !.out = learnt, !.kept = <<learnt[1]>>, !.i = 2, !.toclear = learnt,
                              !.levels = {abstractLevel(var(learnt[k])) : k \in 2 .. Len(learnt)}]
                  /\ confl' = CRef_Undef
                  /\ pc' = "minimize"
       /\ UNCHANGED <<input, db, watches, assignment, qhead, limits, simpDB_props, model, stack, ws>>
  BY <1>2, <1>3, <1>4, <1>5, <1>6, <1>7, <1>10, <1>11, <1>12 DEF analyze
<1>14. PICK M : M = HereOf(marked)
  OBVIOUS
<1>15. /\ new \subseteq from .. Len(c) /\ Cardinality(here) \in Nat /\ an.pathC \in Nat
       /\ IsFiniteSet(M) /\ Cardinality(M) = an.pathC + Cardinality(here) /\ next \in M
       /\ \A k \in 1 .. an.index : var(trail[k]) \in marked => k <= next
  BY <1>9, <1>14, AnalysisCount
<1>16. c \in Seq(Lit) /\ from \in 1 .. 2 /\ decisionLevel \in Nat /\ an.index \in Nat
       /\ an.index <= Len(trail) /\ Len(c) >= 2 /\ confl \in Live
  BY <1>9, AnalysisClause
<1>17. OutIs(c, new, here, marked, p, out, S)
  BY <1>10, <1>11 DEF OutIs
<1>18. out \in Seq(Lit \cup {-1}) /\ Below(out) /\ \A k \in 2 .. Len(out) : var(out[k]) \in S
  BY <1>9, <1>17, AnalysisOut
<1>19. \A v \in S : (\E k \in 2 .. Len(out) : var(out[k]) = v) \/ (\E k \in HereOf(S) : var(trail[k]) = v)
  BY <1>9, <1>17, AnalysisOut
<1>20. /\ \A k \in new \ here : \E j \in 2 .. Len(out) : out[j] = c[k]
       /\ \A k \in 2 .. Len(an.out) : \E j \in 2 .. Len(out) : out[j] = an.out[k]
  <2>1. \A k \in new \ here : \E j \in 2 .. Len(out) : out[j] = c[k]
    BY <1>9, <1>17, AnalysisOut
  <2>2. \A k \in 2 .. Len(an.out) : \E j \in 2 .. Len(out) : out[j] = an.out[k]
    BY <1>9, <1>17, AnalysisOut
  <2> QED
    BY <2>1, <2>2
<1>21. Len(trail) \in Nat /\ DOMAIN trail = 1 .. Len(trail) /\ \A k \in 1 .. Len(trail) : trail[k] \in Lit
  BY <1>1 DEF AssignmentType
<1>22. next \in 1 .. an.index /\ next \in DOMAIN trail /\ next \in Nat /\ p \in Lit /\ next - 1 \in Nat
  BY <1>7, <1>14, <1>15, <1>16, <1>21 DEF HereOf
<1>23. PICK P : P = HereOf(S)
  OBVIOUS
<1>24. P = M \ {next} /\ P \subseteq DOMAIN trail
  <2>1. \A k \in 1 .. an.index : var(trail[k]) = var(p) => k = next
    BY <1>1, <1>7, <1>16, <1>21, <1>22 DEF Trail, TrailIn
  <2>2. P = M \ {next}
    BY <1>7, <1>11, <1>14, <1>23, <2>1 DEF HereOf
  <2>3. 1 .. an.index \subseteq DOMAIN trail
    BY <1>16, <1>21
  <2> QED
    BY <1>23, <2>2, <2>3 DEF HereOf
<1>25. \A k \in M : k \in P \/ trail[k] = p
  BY <1>7, <1>24
<1>26. \A k \in Here : k \in M
  BY <1>5, <1>14 DEF Here, HereOf
<1>27. ASSUME NEW k \in from .. Len(c) PROVE Resolved(c[k], p, out, P)
  <2>1. PICK q : q = c[k]
    OBVIOUS
  <2>2. /\ q \in Lit /\ value(q) = l_False /\ level(var(q)) \in Nat /\ level(var(q)) <= decisionLevel
        /\ \E m \in 1 .. an.index : trail[m] = neg(q)
    BY <1>9, <2>1, AnalysisClause
  <2>3. PICK m \in 1 .. an.index : trail[m] = neg(q)
    BY <2>2
  <2>4. q \in Nat /\ var(neg(q)) = var(q) /\ m \in DOMAIN trail
    <3>1. q \in Nat /\ var(neg(q)) = var(q)
      BY <2>2, FalseLiteral, LitFacts
    <3> QED
      BY <1>16, <1>21, <3>1
  <2>5. CASE m \in M
    <3>1. m \in P \/ p = neg(q)
      BY <1>25, <2>3, <2>5
    <3> QED
      BY <2>1, <2>2, <2>3, <3>1 DEF Resolved
  <2>6. CASE level(var(q)) = 0
    BY <2>1, <2>2, <2>6 DEF Resolved
  <2>7. CASE level(var(q)) # 0 /\ var(q) \notin seen
    <3>1. k \in new
      BY <1>3, <2>1, <2>2, <2>7 DEF Unseen
    <3>2. CASE k \in here
      <4>1. level(var(q)) = decisionLevel
        BY <1>4, <1>16, <2>1, <2>2, <3>2
      <4>2. var(trail[m]) \in marked /\ level(var(trail[m])) = decisionLevel
        BY <1>5, <2>1, <2>3, <2>4, <3>1, <4>1
      <4>3. m \in M
        BY <1>14, <2>3, <4>2 DEF HereOf
      <4> QED
        BY <2>5, <4>3
    <3>3. CASE k \notin here
      <4>1. \E j \in 2 .. Len(out) : out[j] = q
        BY <1>20, <2>1, <3>1, <3>3
      <4> QED
        BY <2>1, <2>2, <4>1 DEF Resolved
    <3> QED
      BY <3>2, <3>3
  <2>8. CASE var(q) \in seen
    <3>1. CASE \E j \in 2 .. Len(an.out) : var(an.out[j]) = var(q)
      <4>1. PICK j \in 2 .. Len(an.out) : var(an.out[j]) = var(q)
        BY <3>1
      <4>2. PICK r : r = an.out[j]
        OBVIOUS
      <4>3. r \in Lit /\ value(r) = l_False /\ var(r) = var(q)
        BY <1>1, <1>8, <4>1, <4>2 DEF Analysis, Below, FalseBelow
      <4>4. r = q
        BY <2>2, <4>3, SameFalse
      <4>5. \E i \in 2 .. Len(out) : out[i] = q
        BY <1>20, <4>2, <4>4
      <4> QED
        BY <2>1, <2>2, <4>5 DEF Resolved
    <3>2. CASE \E j \in Here : var(trail[j]) = var(q)
      <4>1. PICK j \in Here : var(trail[j]) = var(q)
        BY <3>2
      <4>2. j \in DOMAIN trail
        BY <1>24, <1>26, <1>22, <4>1
      <4>3. j = m
        BY <1>1, <2>3, <2>4, <4>1, <4>2 DEF Trail, TrailIn
      <4> QED
        BY <1>26, <2>5, <4>1, <4>3
    <3> QED
      BY <1>1, <1>8, <2>8, <3>1, <3>2 DEF Analysis
  <2> QED
    BY <2>6, <2>7, <2>8
<1>28. \A k \in DOMAIN c : (an.p # -1 /\ k = 1) \/ k \in from .. Len(c)
  <2>1. DOMAIN c = 1 .. Len(c) /\ Len(c) \in Nat
    BY <1>16
  <2> QED
    BY <1>2, <2>1
<1>29. an.p # -1 => c[1] = an.p
  <2> SUFFICES ASSUME an.p # -1 PROVE c[1] = an.p
    OBVIOUS
  <2>1. /\ an.index < nAssigns /\ an.p = trail[an.index + 1] /\ confl = reason(var(an.p)) /\ confl # CRef_Undef
    BY <1>1, <1>8 DEF Analysis
  <2>2. PICK k \in DOMAIN trail : k = an.index + 1
    BY <1>16, <1>21, <2>1 DEF nAssigns
  <2>3. vardata[var(trail[k])].reason = confl
    BY <2>1, <2>2 DEF reason
  <2>4. ca[confl].lits[1] = trail[k]
    BY <1>1, <2>1, <2>3 DEF Reasoned, ReasonedIn, Implies
  <2> QED
    BY <1>2, <2>1, <2>2, <2>4 DEF lits
<1>30. \A k \in 2 .. Len(out) : out[k] \in Lit /\ value(out[k]) = l_False /\ var(out[k]) \in seen'
  BY <1>13, <1>18 DEF Below, FalseBelow
<1>31. trail' = trail /\ vardata' = vardata /\ trail_lim' = trail_lim
  BY <1>13 DEF assignment
<1>32. CASE n > 0
  <2>1. an' = [an EXCEPT !.p = p, !.index = next - 1, !.pathC = n, !.out = out] /\ pc' = "analyze" /\ an \in AnalysisSet
    BY <1>1, <1>13, <1>32 DEF ScratchType
  <2>2. an'.p = p /\ an'.index = next - 1 /\ an'.out = out
    BY <2>1 DEF AnalysisSet
  <2>3. Here' = {k \in 1 .. next - 1 : var(trail[k]) \in S /\ level(var(trail[k])) = decisionLevel}
    BY <1>13, <1>31, <2>2 DEF Here, level, decisionLevel
  <2>4. Here' = P
    <3>1. \A k \in Here' : k \in P
      <4>1. \A k \in 1 .. next - 1 : k \in 1 .. an.index
        BY <1>16, <1>22
      <4> QED
        BY <1>23, <2>3, <4>1 DEF HereOf
    <3>2. \A k \in P : k \in Here'
      <4>1. \A k \in P : k \in 1 .. an.index /\ k <= next /\ k # next
        BY <1>14, <1>15, <1>24 DEF HereOf
      <4>2. \A k \in P : k \in 1 .. next - 1
        BY <1>22, <4>1
      <4> QED
        BY <1>23, <2>3, <4>2 DEF HereOf
    <3> QED
      BY <3>1, <3>2
  <2>5. Continues(p, out, P)
    BY <2>1, <2>2, <2>4 DEF Continues
  <2> QED
    BY <1>2, <1>8, <1>13, <1>16, <1>19, <1>20, <1>22, <1>23, <1>24, <1>25, <1>26, <1>27, <1>28, <1>29, <1>30, <2>5 DEF Resolves
<1>33. CASE ~(n > 0)
  <2>1. PICK g : g = [out EXCEPT ![1] = neg(p)]
    OBVIOUS
  <2>2. Len(out) \in Nat /\ DOMAIN out = 1 .. Len(out) /\ Len(out) > 0
    BY <1>18 DEF Below
  <2>3. g[1] = neg(p) /\ DOMAIN g = DOMAIN out /\ \A k \in 2 .. Len(out) : g[k] = out[k]
    BY <2>1, <2>2
  <2>4. an'.out = g /\ an'.i = 2 /\ pc' = "minimize"
    BY <1>13, <1>33, <2>1 DEF NoAnalysis
  <2>5. P = {}
    <3>1. Cardinality(M \ {next}) = Cardinality(M) - 1 /\ IsFiniteSet(M \ {next})
      BY <1>15, FS_RemoveElement
    <3>2. Cardinality(M \ {next}) \in Nat
      BY <3>1, FS_CardinalityType
    <3>3. Cardinality(M \ {next}) = 0
      BY <1>12, <1>15, <1>33, <3>1, <3>2
    <3> QED
      BY <1>24, <3>1, <3>3, FS_EmptySet
  <2>6. Len(an'.out) = Len(out)
    <3>1. g \in Seq(Lit \cup {-1})
      <4>1. neg(p) \in Lit
        BY <1>1, <1>22, Literals
      <4> QED
        BY <1>18, <2>1, <2>2, <4>1
    <3> QED
      BY <2>1, <2>2, <2>3, <2>4, <3>1
  <2>7. Concludes(p, out, P)
    BY <2>2, <2>3, <2>4, <2>5, <2>6 DEF Concludes
  <2> QED
    BY <1>2, <1>8, <1>13, <1>16, <1>19, <1>20, <1>22, <1>23, <1>24, <1>25, <1>26, <1>27, <1>28, <1>29, <1>30, <2>7 DEF Resolves
<1> QED
  BY <1>32, <1>33

(***************************************************************************)
(* Resolution keeps the clause a consequence.                              *)
(***************************************************************************)
ResolventOf(p, out, P, A) ==
  \/ \E k \in 2 .. Len(out) : H(out[k], A)
  \/ \E k \in P : ~H(trail[k], A)
  \/ ~H(p, A)

LEMMA Resolution ==
  ASSUME Structure, NEW A, Model(A), Follows(A), NEW p, NEW out, NEW P, Resolves(p, out, P)
  PROVE  ResolventOf(p, out, P, A)
<1>1. confl \in Live /\ p \in Lit /\ pc = "analyze"
  BY DEF Resolves
<1>2. PICK k \in DOMAIN lits(confl) : H(lits(confl)[k], A)
  BY <1>1 DEF Follows, DatabaseHolds
<1>3. \A q \in Lit : H(neg(q), A) <=> ~H(q, A)
  BY ModelIs
<1>4. CASE Resolved(lits(confl)[k], p, out, P)
  <2>1. PICK q : q = lits(confl)[k]
    OBVIOUS
  <2>2. /\ q \in Lit /\ value(q) = l_False
        /\ \/ level(var(q)) = 0 \/ p = neg(q)
           \/ \E j \in 2 .. Len(out) : out[j] = q
           \/ \E j \in P : trail[j] = neg(q)
    BY <1>4, <2>1 DEF Resolved
  <2>3. H(q, A) /\ ~H(neg(q), A)
    BY <1>2, <1>3, <2>1, <2>2
  <2>4. level(var(q)) # 0
    BY <2>2, <2>3, RootFalse DEF Follows
  <2> QED
    BY <2>2, <2>3, <2>4 DEF ResolventOf
<1>5. CASE an.p # -1 /\ k = 1
  <2>1. H(an.p, A)
    BY <1>2, <1>5 DEF Resolves
  <2>2. Resolvent(A)
    BY <1>1, <1>5 DEF Follows, AnalysisHolds
  <2>3. CASE \E j \in 2 .. Len(an.out) : H(an.out[j], A)
    BY <2>3 DEF Resolves, ResolventOf
  <2>4. CASE \E j \in Here : ~H(trail[j], A)
    BY <2>4 DEF Resolves, ResolventOf
  <2> QED
    BY <2>1, <2>2, <2>3, <2>4 DEF Resolvent
<1> QED
  BY <1>2, <1>4, <1>5 DEF Resolves

LEMMA FollowsSteady ==
  ASSUME Structure, NEW A, Follows(A), UNCHANGED <<clauses, learnts, ca, assigns, vardata, trail, ok>>,
         pc' # "l_False", AnalysisHolds(A)'
  PROVE  Follows(A)'
<1>1. DatabaseHolds(A)'
  BY DatabaseKept DEF Follows, KeepsLiterals, Live
<1>2. RootHolds(A)'
  BY RootKept DEF Follows, level
<1>3. ok'
  BY DEF Follows
<1> QED
  BY <1>1, <1>2, <1>3 DEF Follows, DatabaseHolds, RootHolds, AnalysisHolds

LEMMA FollowsAnalyze ==
  ASSUME Structure, NEW A, Model(A), Follows(A), analyze
  PROVE  Follows(A)'
<1>1. PICK p, out, P : Resolves(p, out, P)
  BY AnalyzeDoes
<1>2. ResolventOf(p, out, P, A) /\ p \in Lit
  BY <1>1, Resolution DEF Resolves
<1>3. UNCHANGED <<clauses, learnts, ca, assigns, vardata, trail, ok>>
  BY DEF analyze, db, assignment
<1>4. CASE Continues(p, out, P)
  <2>1. an'.out = out /\ an'.p = p /\ Here' = P /\ pc' = "analyze"
    BY <1>4 DEF Continues
  <2>2. Resolvent(A)'
    <3>1. \/ \E k \in 2 .. Len(an'.out) : H(an'.out[k], A)
          \/ \E k \in Here' : ~H(trail'[k], A)
          \/ ~H(an'.p, A)
      BY <1>2, <1>3, <2>1 DEF ResolventOf
    <3> QED
      BY <3>1 DEF Resolvent, H, Abs!Holds, Abs!var, Abs!sign
  <2>3. AnalysisHolds(A)'
    BY <2>1, <2>2 DEF AnalysisHolds, Resolvent, InMinimize
  <2> QED
    BY <1>3, <2>1, <2>3, FollowsSteady
<1>5. CASE Concludes(p, out, P)
  <2>1. /\ pc' = "minimize" /\ P = {} /\ Len(out) \in Nat /\ Len(out) > 0 /\ DOMAIN an'.out = 1 .. Len(out)
        /\ an'.out[1] = neg(p) /\ \A k \in 2 .. Len(out) : an'.out[k] = out[k]
    BY <1>5 DEF Concludes
  <2>2. \E k \in DOMAIN an'.out : H(an'.out[k], A)
    <3>1. CASE ~H(p, A)
      <4>1. H(neg(p), A)
        BY <1>2, <3>1, ModelIs
      <4>2. 1 \in DOMAIN an'.out
        BY <2>1
      <4> QED
        BY <2>1, <4>1, <4>2
    <3>2. CASE \E k \in 2 .. Len(out) : H(out[k], A)
      <4>1. PICK k \in 2 .. Len(out) : H(out[k], A)
        BY <3>2
      <4>2. k \in DOMAIN an'.out
        BY <2>1
      <4> QED
        BY <2>1, <4>1, <4>2
    <3> QED
      BY <1>2, <2>1, <3>1, <3>2 DEF ResolventOf
  <2>3. (\E k \in DOMAIN an.out : H(an.out[k], A))'
    BY <2>2 DEF H, Abs!Holds, Abs!var, Abs!sign
  <2>4. AnalysisHolds(A)'
    BY <2>1, <2>3 DEF AnalysisHolds, H
  <2> QED
    BY <1>3, <2>1, <2>4, FollowsSteady
<1> QED
  BY <1>1, <1>4, <1>5 DEF Resolves

(***************************************************************************)
(* Minimization changes the learnt clause only when it is done.            *)
(***************************************************************************)
LEMMA SameOut == ASSUME Structure, minimize \/ litRedundant PROVE an'.out = an.out
<1>1. an \in AnalysisSet
  BY DEF Structure, TypeOK, ScratchType
<1>2. \A s, t : [an EXCEPT !.stack = s, !.top = t].out = an.out
  BY <1>1 DEF AnalysisSet
<1>3. \A s, t : [an EXCEPT !.stack = s, !.toclear = t].out = an.out
  BY <1>1 DEF AnalysisSet
<1>4. Keep(an).out = an.out /\ Drop(an).out = an.out
  BY <1>1 DEF AnalysisSet, Keep, Drop
<1>5. CASE minimize
  <2>1. \/ an' = Keep(an) \/ an' = Drop(an) \/ \E s, t : an' = [an EXCEPT !.stack = s, !.top = t]
    BY <1>5 DEF minimize
  <2> QED
    BY <1>2, <1>4, <2>1
<1>6. CASE litRedundant
  <2>1. \/ an' = Drop(an)
        \/ \E s, t : an' = [an EXCEPT !.stack = s, !.toclear = t]
        \/ \E t : an' = Keep([an EXCEPT !.toclear = t, !.stack = <<>>])
    BY <1>6 DEF litRedundant
  <2>2. \A t : Keep([an EXCEPT !.toclear = t, !.stack = <<>>]).out = an.out
    BY <1>1 DEF AnalysisSet, Keep
  <2> QED
    BY <1>3, <1>4, <2>1, <2>2
<1> QED
  BY <1>5, <1>6

LEMMA FollowsMinimize ==
  ASSUME Structure, NEW A, Follows(A), minimize \/ litRedundant
  PROVE  Follows(A)'
<1>1. an'.out = an.out
  BY SameOut
<1>2. UNCHANGED <<clauses, learnts, ca, assigns, vardata, trail, ok>>
  BY DEF minimize, litRedundant, db, assignment
<1>3. InMinimize /\ pc' \in {"minimize", "litRedundant"}
  BY DEF minimize, litRedundant, InMinimize
<1>4. \E k \in DOMAIN an.out : H(an.out[k], A)
  BY <1>3 DEF Follows, AnalysisHolds
<1>5. (\E k \in DOMAIN an.out : H(an.out[k], A))'
  BY <1>1, <1>4 DEF H, Abs!Holds, Abs!var, Abs!sign
<1>6. AnalysisHolds(A)'
  BY <1>3, <1>5 DEF AnalysisHolds, H
<1> QED
  BY <1>2, <1>3, <1>6, FollowsSteady

(***************************************************************************)
(* Redundancy, of the locals b of the analysis and the marks S.            *)
(***************************************************************************)
RemainsIn(b, v) ==
  \/ \E j \in 2 .. Len(b.kept) : var(b.kept[j]) = v
  \/ \E k \in b.i .. Len(b.out) : var(b.out[k]) = v
StackHas(b, v) == \E j \in DOMAIN b.stack : var(b.stack[j]) = v
TentativeOf(b) == {var(b.toclear[j]) : j \in b.top + 1 .. Len(b.toclear)}
OutMarked(b, S) == \A k \in 2 .. Len(b.out) : var(b.out[k]) \in S
Assigns(S) == \A v \in S : assigns[v] # l_Undef
SettledMarks(b, S) == \A v \in S : RemainsIn(b, v) \/ Explained(v, S)
VisitMarks(b, S, T) ==
  /\ \A v \in T : StackHas(b, v) \/ Explained(v, S)
  /\ StackHas(b, var(b.out[b.i])) \/ Explained(var(b.out[b.i]), S)
Minimizing(b, S) == Assigns(S) /\ OutMarked(b, S) /\ SettledMarks(b, S)
Visiting(b, S, T) == Assigns(S) /\ OutMarked(b, S \ T) /\ SettledMarks(b, S \ T) /\ VisitMarks(b, S, T)

LEMMA MinimizingIs ==
  ASSUME Redundancy
  PROVE  /\ pc = "minimize" => Minimizing(an, seen)
         /\ pc = "litRedundant" => Visiting(an, seen, TentativeOf(an))
<1>1. CASE pc = "minimize"
  <2>1. InMinimize /\ Tentative = {} /\ seen \ {} = seen
    BY <1>1 DEF InMinimize, Tentative
  <2> QED
    BY <1>1, <2>1 DEF Redundancy, Minimizing, Assigns, OutMarked, SettledMarks, RemainsIn, Remains
<1>2. CASE pc = "litRedundant"
  <2>1. InMinimize /\ Tentative = TentativeOf(an)
    BY <1>2 DEF InMinimize, Tentative, TentativeOf
  <2>2. \A v : OnStack(v) <=> StackHas(an, v)
    BY <1>2 DEF OnStack, StackHas
  <2>3. \A v : Remains(v) <=> RemainsIn(an, v)
    BY DEF Remains, RemainsIn
  <2> QED
    BY <1>2, <2>1, <2>2, <2>3 DEF Redundancy, Visiting, Assigns, OutMarked, SettledMarks, VisitMarks
<1> QED
  BY <1>1, <1>2

LEMMA RedundancyEnds ==
  ASSUME UNCHANGED <<ca, assigns, vardata>>, NEW b, b = an', NEW S, S = seen',
         \/ pc' = "minimize" /\ Minimizing(b, S)
         \/ pc' = "litRedundant" /\ Visiting(b, S, TentativeOf(b))
  PROVE  Redundancy'
<1>1. \A v, R : Explained(v, R)' <=> Explained(v, R)
  BY DEF Explained, reason, lits, level
<1>2. \A v : Remains(v)' <=> RemainsIn(b, v)
  BY DEF Remains, RemainsIn
<1>3. CASE pc' = "minimize" /\ Minimizing(b, S)
  <2>1. Tentative' = {} /\ S \ {} = S
    BY <1>3 DEF Tentative
  <2>2. /\ \A v \in seen' : assigns'[v] # l_Undef
        /\ \A k \in 2 .. Len(an'.out) : var(an'.out[k]) \in seen' \ Tentative'
    BY <1>3, <2>1 DEF Minimizing, Assigns, OutMarked
  <2>3. \A v \in seen' \ Tentative' : Remains(v)' \/ Explained(v, S)'
    BY <1>1, <1>2, <1>3, <2>1 DEF Minimizing, SettledMarks
  <2>4. \A v \in seen' \ Tentative' : Remains(v)' \/ Explained(v, seen \ Tentative)'
    BY <2>1, <2>3 DEF Explained
  <2> QED
    BY <1>3, <2>1, <2>2, <2>4 DEF Redundancy
<1>4. CASE pc' = "litRedundant" /\ Visiting(b, S, TentativeOf(b))
  <2>1. Tentative' = TentativeOf(b)
    BY <1>4 DEF Tentative, TentativeOf
  <2>2. \A v : OnStack(v)' <=> StackHas(b, v)
    BY <1>4 DEF OnStack, StackHas
  <2>3. PICK R : R = S \ TentativeOf(b)
    OBVIOUS
  <2>4. /\ \A v \in seen' : assigns'[v] # l_Undef
        /\ \A k \in 2 .. Len(an'.out) : var(an'.out[k]) \in seen' \ Tentative'
    BY <1>4, <2>1 DEF Visiting, Assigns, OutMarked
  <2>5. \A v \in R : Remains(v)' \/ Explained(v, R)'
    BY <1>1, <1>2, <1>4, <2>3 DEF Visiting, SettledMarks
  <2>6. \A v \in seen' \ Tentative' : Remains(v)' \/ Explained(v, seen \ Tentative)'
    BY <2>1, <2>3, <2>5 DEF Explained
  <2>7. \A v \in Tentative' : OnStack(v)' \/ Explained(v, S)'
    BY <1>1, <1>4, <2>1, <2>2 DEF Visiting, VisitMarks
  <2>8. OnStack(var(b.out[b.i]))' \/ Explained(var(b.out[b.i]), S)'
    BY <1>1, <1>4, <2>2 DEF Visiting, VisitMarks
  <2>9. \A v \in Tentative' : OnStack(v)' \/ Explained(v, seen)'
    BY <2>7 DEF Explained
  <2>10. OnStack(var(an.out[an.i]))' \/ Explained(var(an.out[an.i]), seen)'
    BY <2>8 DEF OnStack, Explained
  <2> QED
    BY <1>4, <2>4, <2>6, <2>9, <2>10 DEF Redundancy
<1> QED
  BY <1>3, <1>4

LEMMA ExplainedMore ==
  ASSUME NEW v, NEW S, NEW R, Explained(v, S), S \subseteq R
  PROVE  Explained(v, R)
BY DEF Explained

(***************************************************************************)
(* The next literal of the clause is kept, or dropped and explained.       *)
(***************************************************************************)
LEMMA KeepRemains ==
  ASSUME NEW a \in AnalysisSet, NEW b, b = Keep(a), a.i <= Len(a.out), Len(a.kept) > 0, a.i > 1,
         NEW v, RemainsIn(a, v)
  PROVE  RemainsIn(b, v)
<1>1. PICK s, q, t : s = a.kept /\ q = a.out[a.i] /\ t = Append(s, q)
  OBVIOUS
<1>2. a.i \in Nat /\ Len(a.out) \in Nat /\ s \in Seq(Lit \cup {-1}) /\ DOMAIN a.out = 1 .. Len(a.out)
      /\ a.out \in Seq(Lit \cup {-1})
  BY <1>1 DEF AnalysisSet
<1>3. q \in Lit \cup {-1}
  <2>1. a.i \in DOMAIN a.out
    BY <1>2
  <2> QED
    BY <1>1, <1>2, <2>1
<1>4. /\ Len(s) \in Nat /\ Len(t) = Len(s) + 1
      /\ t[Len(s) + 1] = q /\ \A k \in 1 .. Len(s) : t[k] = s[k]
  BY <1>1, <1>2, <1>3, AppendIs
<1>5. b.kept = t /\ b.i = a.i + 1 /\ b.out = a.out
  BY <1>1 DEF Keep, AnalysisSet
<1>6. CASE \E j \in 2 .. Len(s) : var(s[j]) = v
  <2>1. PICK j \in 2 .. Len(s) : var(s[j]) = v
    BY <1>6
  <2>2. j \in 2 .. Len(t) /\ j \in 1 .. Len(s)
    BY <1>4
  <2> QED
    BY <1>4, <1>5, <2>1, <2>2 DEF RemainsIn
<1>7. CASE \E k \in a.i .. Len(a.out) : var(a.out[k]) = v
  <2>1. PICK k \in a.i .. Len(a.out) : var(a.out[k]) = v
    BY <1>7
  <2>2. k = a.i \/ k \in a.i + 1 .. Len(a.out)
    BY <1>2
  <2>3. Len(s) + 1 \in 2 .. Len(t)
    BY <1>1, <1>4
  <2> QED
    BY <1>1, <1>4, <1>5, <2>1, <2>2, <2>3 DEF RemainsIn
<1> QED
  BY <1>1, <1>6, <1>7 DEF RemainsIn

LEMMA DropRemains ==
  ASSUME NEW a \in AnalysisSet, NEW b, b = Drop(a), NEW v, RemainsIn(a, v)
  PROVE  RemainsIn(b, v) \/ v = var(a.out[a.i])
<1>1. a.i \in Nat /\ Len(a.out) \in Nat
  BY DEF AnalysisSet
<1>2. b.kept = a.kept /\ b.i = a.i + 1 /\ b.out = a.out
  BY DEF Drop, AnalysisSet
<1>3. \A k \in a.i .. Len(a.out) : k = a.i \/ k \in a.i + 1 .. Len(a.out)
  BY <1>1
<1> QED
  BY <1>2, <1>3 DEF RemainsIn

LEMMA RedundancyKeep ==
  ASSUME NEW a \in AnalysisSet, NEW b, b = Keep(a), a.i <= Len(a.out), Len(a.kept) > 0, a.i > 1,
         NEW S, Minimizing(a, S)
  PROVE  Minimizing(b, S)
<1>1. b.out = a.out
  BY DEF Keep, AnalysisSet
<1>2. \A v \in S : RemainsIn(b, v) \/ Explained(v, S)
  BY KeepRemains DEF Minimizing, SettledMarks
<1> QED
  BY <1>1, <1>2 DEF Minimizing, OutMarked, SettledMarks

LEMMA RedundancyDrop ==
  ASSUME NEW a \in AnalysisSet, NEW b, b = Drop(a), NEW S, Minimizing(a, S), Explained(var(a.out[a.i]), S)
  PROVE  Minimizing(b, S)
<1>1. b.out = a.out
  BY DEF Drop, AnalysisSet
<1>2. \A v \in S : RemainsIn(b, v) \/ Explained(v, S)
  BY DropRemains DEF Minimizing, SettledMarks
<1> QED
  BY <1>1, <1>2 DEF Minimizing, OutMarked, SettledMarks

LEMMA RedundancyMinimize == ASSUME Structure, Redundancy, minimize PROVE Redundancy'
<1>1. PICK q : q = an.out[an.i]
  OBVIOUS
<1>2. PICK b, S : b = an' /\ S = seen'
  OBVIOUS
<1>3. /\ pc = "minimize" /\ an.i <= Len(an.out) /\ UNCHANGED <<ca, assigns, vardata>> /\ S = seen
  BY <1>2 DEF minimize, db, assignment
<1>4. an \in AnalysisSet /\ Len(an.kept) > 0 /\ an.i > 1 /\ an.i \in Nat /\ Len(an.out) \in Nat
  BY <1>3, MinimizeFacts DEF KeptPart
<1>5. Minimizing(an, S)
  BY <1>3, MinimizingIs
<1>6. \/ b = Keep(an) /\ pc' = "minimize"
      \/ b = Drop(an) /\ pc' = "minimize" /\ reason(var(q)) # CRef_Undef /\ Implied(reason(var(q)))
      \/ b = [an EXCEPT !.stack = <<q>>, !.top = Len(an.toclear)] /\ pc' = "litRedundant"
  BY <1>1, <1>2 DEF minimize
<1>7. CASE b = Keep(an) /\ pc' = "minimize"
  <2>1. Minimizing(b, S)
    BY <1>3, <1>4, <1>5, <1>7, RedundancyKeep
  <2> QED
    BY <1>2, <1>3, <1>7, <2>1, RedundancyEnds
<1>8. CASE b = Drop(an) /\ pc' = "minimize" /\ reason(var(q)) # CRef_Undef /\ Implied(reason(var(q)))
  <2>1. Explained(var(an.out[an.i]), S)
    BY <1>1, <1>3, <1>8 DEF Explained, Implied
  <2>2. Minimizing(b, S)
    BY <1>4, <1>5, <1>8, <2>1, RedundancyDrop
  <2> QED
    BY <1>2, <1>3, <1>8, <2>2, RedundancyEnds
<1>9. CASE b = [an EXCEPT !.stack = <<q>>, !.top = Len(an.toclear)] /\ pc' = "litRedundant"
  <2>1. b.out = an.out /\ b.kept = an.kept /\ b.i = an.i /\ b.stack = <<q>> /\ b.top = Len(an.toclear)
        /\ b.toclear = an.toclear
    BY <1>4, <1>9 DEF AnalysisSet
  <2>2. PICK m \in Nat : m = Len(an.toclear)
    BY <1>4 DEF AnalysisSet
  <2>3. TentativeOf(b) = {}
    <3>1. m + 1 .. m = {}
      BY <2>2
    <3> QED
      BY <2>1, <2>2, <3>1 DEF TentativeOf
  <2>4. S \ TentativeOf(b) = S
    BY <2>3
  <2>5. StackHas(b, var(b.out[b.i]))
    <3>1. 1 \in DOMAIN b.stack /\ b.stack[1] = q
      BY <2>1
    <3> QED
      BY <1>1, <2>1, <3>1 DEF StackHas
  <2>6. OutMarked(b, S) /\ SettledMarks(b, S) /\ Assigns(S)
    BY <1>5, <2>1 DEF Minimizing, OutMarked, SettledMarks, RemainsIn
  <2>7. Visiting(b, S, TentativeOf(b))
    BY <2>3, <2>4, <2>5, <2>6 DEF Visiting, VisitMarks
  <2> QED
    BY <1>2, <1>3, <1>9, <2>7, RedundancyEnds
<1> QED
  BY <1>6, <1>7, <1>8, <1>9

(***************************************************************************)
(* The literals litRedundant visits are false, and the reason of each is   *)
(* in the database.                                                        *)
(***************************************************************************)
LEMMA FactReason ==
  ASSUME Structure, NEW v \in Var, assigns[v] # l_Undef, reason(v) # CRef_Undef
  PROVE  /\ reason(v) \in Live
         /\ \E k \in DOMAIN trail :
              /\ var(trail[k]) = v /\ lits(reason(v))[1] = trail[k]
              /\ \A j \in 2 .. Len(lits(reason(v))) : \E m \in 1 .. k - 1 : trail[m] = neg(lits(reason(v))[j])
<1>1. Trail /\ Reasoned /\ VarsType
  BY DEF Structure, TypeOK
<1>2. PICK k \in DOMAIN trail : var(trail[k]) = v
  BY <1>1 DEF Trail, TrailIn, VarsType
<1>3. vardata[var(trail[k])].reason = reason(v)
  BY <1>2 DEF reason
<1>4. reason(v) \in Live /\ Implies(ca[reason(v)].lits, trail, k)
  BY <1>1, <1>3 DEF Reasoned, ReasonedIn
<1> QED
  BY <1>2, <1>4 DEF Implies, lits

StackReason(q) == reason(var(q)) \in Live
LEMMA StackReasons ==
  ASSUME Structure, pc = "litRedundant", NEW j \in DOMAIN an.stack
  PROVE  StackReason(an.stack[j])
<1>1. PICK q : q = an.stack[j]
  OBVIOUS
<1>2. q \in Lit /\ value(q) = l_False /\ reason(var(q)) # CRef_Undef
  BY <1>1, MinimizeFacts
<1>3. var(q) \in Var /\ assigns[var(q)] # l_Undef
  BY <1>2, FalseLiteral, TruthValues
<1> QED
  BY <1>1, <1>2, <1>3, FactReason DEF StackReason

(***************************************************************************)
(* What litRedundant marks: all of it is explained once the stack is       *)
(* empty, and none of it stays if a literal has no reason.                 *)
(***************************************************************************)
LEMMA RedundancyVisit == ASSUME Structure, Redundancy, litRedundant PROVE Redundancy'
<1>1. PICK b, S, T : b = an' /\ S = seen' /\ T = TentativeOf(an)
  OBVIOUS
<1>2. PICK c : c = lits(reason(var(Last(an.stack))))
  OBVIOUS
<1>3. PICK new : new = Unseen(c, 2)
  OBVIOUS
<1>4. PICK u : u = Selected(c, new)
  OBVIOUS
<1>5. pc = "litRedundant" /\ UNCHANGED <<ca, assigns, vardata>>
  BY DEF litRedundant, db, assignment
<1>6. /\ an \in AnalysisSet /\ Len(an.kept) > 0 /\ an.i > 1 /\ an.i \in Nat /\ Len(an.out) \in Nat
      /\ an.i <= Len(an.out) /\ an.top <= Len(an.toclear)
      /\ \A j \in DOMAIN an.stack : an.stack[j] \in Lit /\ reason(var(an.stack[j])) # CRef_Undef
  BY <1>5, MinimizeFacts DEF KeptPart
<1>7. /\ Assigns(seen) /\ OutMarked(an, seen \ T) /\ SettledMarks(an, seen \ T)
      /\ (\A v \in T : StackHas(an, v) \/ Explained(v, seen))
      /\ StackHas(an, var(an.out[an.i])) \/ Explained(var(an.out[an.i]), seen)
  BY <1>1, <1>5, MinimizingIs DEF Visiting, VisitMarks
<1>8. CASE an.stack = <<>>
  <2>1. b = Drop(an) /\ pc' = "minimize" /\ S = seen
    BY <1>1, <1>8 DEF litRedundant
  <2>2. \A v : ~StackHas(an, v)
    BY <1>8 DEF StackHas
  <2>3. SettledMarks(an, S)
    <3>1. \A v : Explained(v, seen \ T) => Explained(v, S)
      BY <2>1, ExplainedMore
    <3> QED
      BY <1>7, <2>1, <2>2, <3>1 DEF SettledMarks
  <2>4. Minimizing(an, S)
    BY <1>7, <2>1, <2>3 DEF Minimizing, OutMarked
  <2>5. Explained(var(an.out[an.i]), S)
    BY <1>7, <2>1, <2>2
  <2>6. Minimizing(b, S)
    BY <1>6, <2>1, <2>4, <2>5, RedundancyDrop
  <2> QED
    BY <1>1, <1>5, <2>1, <2>6, RedundancyEnds
<1>9. CASE an.stack # <<>>
  <2> DEFINE stuck(q) == reason(var(q)) = CRef_Undef \/ abstractLevel(var(q)) \notin an.levels
  <2>1. IF \E k \in new : stuck(c[k])
        THEN /\ S = seen \ T
             /\ b = Keep([an EXCEPT !.toclear = SubSeq(@, 1, an.top), !.stack = <<>>])
             /\ pc' = "minimize"
        ELSE /\ S = seen \cup {var(c[k]) : k \in new}
             /\ b = [an EXCEPT !.stack = Front(@) \o u, !.toclear = @ \o u]
             /\ pc' = "litRedundant"
    BY <1>1, <1>2, <1>3, <1>4, <1>5, <1>9 DEF litRedundant, TentativeOf
  <2> HIDE DEF stuck
  <2>2. CASE \E k \in new : stuck(c[k])
    <3>1. PICK a : a = [an EXCEPT !.toclear = SubSeq(@, 1, an.top), !.stack = <<>>]
      OBVIOUS
    <3>2. a \in AnalysisSet /\ a.out = an.out /\ a.kept = an.kept /\ a.i = an.i
      <4>1. PICK t, z : t = an.toclear /\ z = SubSeq(t, 1, an.top)
        OBVIOUS
      <4>2. t \in Seq(Lit \cup {-1}) /\ an.top \in Nat /\ an.top <= Len(t)
        BY <1>6, <4>1 DEF AnalysisSet
      <4>3. z \in Seq(Lit \cup {-1})
        BY <4>1, <4>2, PrefixIs
      <4>4. <<>> \in Seq(Lit \cup {-1}) /\ a = [an EXCEPT !.toclear = z, !.stack = <<>>]
        BY <3>1, <4>1
      <4> QED
        BY <1>6, <4>3, <4>4 DEF AnalysisSet
    <3>3. b = Keep(a) /\ S = seen \ T /\ pc' = "minimize"
      BY <2>1, <2>2, <3>1
    <3>4. Minimizing(a, S)
      BY <1>7, <3>2, <3>3 DEF Minimizing, Assigns, OutMarked, SettledMarks, RemainsIn
    <3>5. Minimizing(b, S)
      BY <1>6, <3>2, <3>3, <3>4, RedundancyKeep
    <3> QED
      BY <1>1, <1>5, <3>3, <3>5, RedundancyEnds
  <2>3. CASE ~ \E k \in new : stuck(c[k])
    <3>1. PICK N : N = {var(c[k]) : k \in new}
      OBVIOUS
    <3>2. PICK y, z : y = Front(an.stack) \o u /\ z = an.toclear \o u
      OBVIOUS
    <3>3. S = seen \cup N /\ b = [an EXCEPT !.stack = y, !.toclear = z] /\ pc' = "litRedundant"
      BY <2>1, <2>3, <3>1, <3>2
    <3>4. b.out = an.out /\ b.kept = an.kept /\ b.i = an.i /\ b.stack = y /\ b.toclear = z /\ b.top = an.top
      BY <1>6, <3>3 DEF AnalysisSet
    <3>5. AtLiteral(c, new, u)
      BY <1>2, <1>3, <1>4, <1>5, <1>9 DEF AtLiteral
    <3>6. /\ u \in Seq(Lit)
          /\ \A j \in DOMAIN u : value(u[j]) = l_False /\ \E k \in new : u[j] = c[k]
          /\ \A k \in new : var(c[k]) \in Var /\ \E j \in DOMAIN u : u[j] = c[k]
      BY <3>5, LiteralClause
    <3>7. \A v : v \in N <=> \E j \in DOMAIN u : var(u[j]) = v
      BY <3>1, <3>6
    <3>8. \A v \in N : v \notin seen
      BY <1>3, <3>1 DEF Unseen
    <3>9. PICK st, t : st = an.stack /\ t = an.toclear
      OBVIOUS
    <3>10. PICK n, l \in Nat : n = Len(t) /\ l = Len(u)
      BY <1>6, <3>6, <3>9 DEF AnalysisSet
    <3>11. /\ st \in Seq(Lit \cup {-1}) /\ t \in Seq(Lit \cup {-1}) /\ u \in Seq(Lit \cup {-1})
           /\ an.top \in Nat /\ an.top <= n
      BY <1>6, <3>6, <3>9, <3>10 DEF AnalysisSet
    <3>12. /\ z \in Seq(Lit \cup {-1}) /\ Len(z) = n + l
           /\ (\A k \in 1 .. n : z[k] = t[k]) /\ \A k \in 1 .. l : z[n + k] = u[k]
      <4>1. z = t \o u
        BY <3>2, <3>9
      <4> QED
        BY <3>10, <3>11, <4>1, ConcatIs
    <3>13. TentativeOf(b) = T \cup N
      <4>1. \A v \in TentativeOf(b) : v \in T \cup N
        <5> SUFFICES ASSUME NEW j \in an.top + 1 .. Len(z) PROVE var(z[j]) \in T \cup N
          BY <3>4 DEF TentativeOf
        <5>1. CASE j \in 1 .. n
          <6>1. j \in an.top + 1 .. n
            BY <3>11, <5>1
          <6> QED
            BY <1>1, <3>9, <3>10, <3>12, <5>1, <6>1 DEF TentativeOf
        <5>2. CASE j \notin 1 .. n
          <6>1. PICK k \in 1 .. l : j = n + k
            <7>1. j - n \in 1 .. l /\ j = n + (j - n)
              BY <3>11, <3>12, <5>2
            <7> QED
              BY <7>1
          <6>2. k \in DOMAIN u
            BY <3>6, <3>10
          <6> QED
            BY <3>7, <3>12, <6>1, <6>2
        <5> QED
          BY <5>1, <5>2
      <4>2. \A v \in T : v \in TentativeOf(b)
        <5> SUFFICES ASSUME NEW j \in an.top + 1 .. n PROVE var(t[j]) \in TentativeOf(b)
          BY <1>1, <3>9, <3>10 DEF TentativeOf
        <5>1. j \in an.top + 1 .. Len(z) /\ j \in 1 .. n
          BY <3>11, <3>12
        <5> QED
          BY <3>4, <3>12, <5>1 DEF TentativeOf
      <4>3. \A v \in N : v \in TentativeOf(b)
        <5> SUFFICES ASSUME NEW k \in DOMAIN u PROVE var(u[k]) \in TentativeOf(b)
          BY <3>7
        <5>1. k \in 1 .. l
          BY <3>6, <3>10
        <5>2. n + k \in an.top + 1 .. Len(z)
          BY <3>11, <3>12, <5>1
        <5> QED
          BY <3>4, <3>12, <5>1, <5>2 DEF TentativeOf
      <4> QED
        BY <4>1, <4>2, <4>3
    <3>14. S \ TentativeOf(b) = seen \ T
      BY <3>3, <3>8, <3>13
    <3>15. Assigns(S)
      <4>1. \A v \in N : assigns[v] # l_Undef
        <5> SUFFICES ASSUME NEW j \in DOMAIN u PROVE assigns[var(u[j])] # l_Undef
          BY <3>7
        <5>1. value(u[j]) = l_False /\ u[j] \in Lit
          BY <3>6
        <5> QED
          BY <5>1, FalseLiteral, TruthValues
      <4> QED
        BY <1>7, <3>3, <4>1 DEF Assigns
    <3>16. OutMarked(b, S \ TentativeOf(b)) /\ SettledMarks(b, S \ TentativeOf(b))
      BY <1>7, <3>4, <3>14 DEF OutMarked, SettledMarks, RemainsIn
    <3>17. PICK m \in Nat : m = Len(st) - 1 /\ m + 1 = Len(st) /\ m + 1 \in DOMAIN st
      <4>1. Len(st) \in Nat /\ Len(st) > 0 /\ DOMAIN st = 1 .. Len(st)
        BY <1>9, <3>9, <3>11
      <4>2. Len(st) - 1 \in Nat /\ Len(st) - 1 + 1 = Len(st) /\ Len(st) \in DOMAIN st
        BY <4>1
      <4> QED
        BY <4>2
    <3>27. PICK f : f = Front(st)
      OBVIOUS
    <3>18. f \in Seq(Lit \cup {-1}) /\ \A k \in DOMAIN st : k <= m => k \in DOMAIN f /\ f[k] = st[k]
      <4>1. f = SubSeq(st, 1, m) /\ m <= Len(st)
        BY <3>17, <3>27 DEF Front
      <4> QED
        BY <3>11, <4>1, PrefixIs
    <3>19. /\ \A k \in DOMAIN f : k \in DOMAIN y /\ y[k] = f[k]
           /\ \A j \in DOMAIN u : \E k \in DOMAIN y : y[k] = u[j]
      <4>1. y = f \o u
        BY <3>2, <3>9, <3>27
      <4>2. \A k \in DOMAIN f : k \in DOMAIN y
        <5>1. y \in Seq(Lit \cup {-1}) /\ Len(y) = Len(f) + Len(u)
          BY <3>11, <3>18, <4>1, ConcatIs
        <5>2. Len(f) \in Nat /\ Len(u) \in Nat /\ DOMAIN f = 1 .. Len(f) /\ DOMAIN y = 1 .. Len(y)
          BY <3>11, <3>18, <5>1
        <5> QED
          BY <5>1, <5>2
      <4>3. \A k \in 1 .. Len(f) : y[k] = f[k]
        BY <3>11, <3>18, <4>1, ConcatIs
      <4>4. \A j \in DOMAIN u : \E k \in DOMAIN y : y[k] = u[j]
        <5>1. \A k \in 1 .. Len(u) : y[Len(f) + k] = u[k]
          BY <3>11, <3>18, <4>1, ConcatIs
        <5>2. y \in Seq(Lit \cup {-1}) /\ Len(y) = Len(f) + Len(u)
          BY <3>11, <3>18, <4>1, ConcatIs
        <5>3. Len(f) \in Nat /\ Len(u) \in Nat /\ DOMAIN u = 1 .. Len(u) /\ DOMAIN y = 1 .. Len(y)
          BY <3>11, <3>18, <5>2
        <5>4. \A k \in 1 .. Len(u) : Len(f) + k \in DOMAIN y
          BY <5>2, <5>3
        <5> QED
          BY <5>1, <5>3, <5>4
      <4>5. DOMAIN f = 1 .. Len(f)
        BY <3>18
      <4> QED
        BY <4>2, <4>3, <4>4, <4>5
    <3>20. PICK q : q = Last(an.stack)
      OBVIOUS
    <3>21. q = st[m + 1] /\ q \in Lit /\ reason(var(q)) # CRef_Undef
      <4>1. q = st[m + 1]
        BY <3>9, <3>17, <3>20 DEF Last
      <4> QED
        BY <1>6, <3>9, <3>17, <4>1
    <3>22. Explained(var(q), S)
      <4>1. c = lits(reason(var(q)))
        BY <1>2, <3>20
      <4> SUFFICES ASSUME NEW j \in 2 .. Len(c) PROVE var(c[j]) \in S \/ level(var(c[j])) = 0
        BY <3>21, <4>1 DEF Explained
      <4>2. CASE j \in new
        BY <3>1, <3>3, <4>2
      <4>3. CASE j \notin new
        <5>1. var(c[j]) \in seen \/ ~(level(var(c[j])) > 0)
          BY <1>3, <4>3 DEF Unseen
        <5>2. level(var(c[j])) \in Nat
          <6>1. reason(var(q)) \in Live
            <7>1. StackReason(q)
              BY <3>9, <3>17, <3>21, <1>5, StackReasons
            <7> QED
              BY <7>1 DEF StackReason
          <6>2. j \in DOMAIN lits(reason(var(q)))
            BY <4>1, <6>1, LiveClause
          <6>3. var(c[j]) \in Var
            BY <4>1, <6>1, <6>2, LiveClause
          <6> QED
            BY <6>3 DEF Structure, TypeOK, AssignmentType, level
        <5>3. level(var(c[j])) > 0 \/ level(var(c[j])) = 0
          BY <5>2
        <5> QED
          BY <3>3, <5>1, <5>3
      <4> QED
        BY <4>2, <4>3
    <3>23. ASSUME NEW v, StackHas(an, v) \/ Explained(v, seen) PROVE StackHas(b, v) \/ Explained(v, S)
      <4>1. CASE Explained(v, seen)
        BY <3>3, <4>1, ExplainedMore
      <4>2. CASE StackHas(an, v)
        <5>1. PICK j \in DOMAIN st : var(st[j]) = v
          BY <3>9, <4>2 DEF StackHas
        <5>2. CASE j <= m
          BY <3>4, <3>18, <3>19, <5>1, <5>2 DEF StackHas
        <5>3. CASE ~(j <= m)
          <6>1. j = m + 1
            BY <3>11, <3>17, <5>3
          <6> QED
            BY <3>21, <3>22, <5>1, <6>1
        <5> QED
          BY <5>2, <5>3
      <4> QED
        BY <3>23, <4>1, <4>2
    <3>24. \A v \in N : StackHas(b, v)
      BY <3>4, <3>7, <3>19 DEF StackHas
    <3>25. VisitMarks(b, S, TentativeOf(b))
      BY <1>7, <3>4, <3>13, <3>23, <3>24 DEF VisitMarks
    <3>26. Visiting(b, S, TentativeOf(b))
      BY <3>15, <3>16, <3>25 DEF Visiting
    <3> QED
      BY <1>1, <1>5, <3>3, <3>26, RedundancyEnds
  <2> QED
    BY <2>2, <2>3
<1> QED
  BY <1>8, <1>9

(***************************************************************************)
(* The clause analyze ends with has all that is marked.                    *)
(***************************************************************************)
LEMMA RedundancyAnalyze == ASSUME Structure, analyze PROVE Redundancy'
<1>1. PICK p, out, P : Resolves(p, out, P)
  BY AnalyzeDoes
<1>2. CASE Continues(p, out, P)
  BY <1>2 DEF Continues, Redundancy, InMinimize
<1>3. CASE Concludes(p, out, P)
  <2>1. PICK b, S : b = an' /\ S = seen'
    OBVIOUS
  <2>2. /\ pc' = "minimize" /\ P = {} /\ Len(out) \in Nat /\ Len(b.out) = Len(out)
        /\ b.i = 2 /\ \A k \in 2 .. Len(out) : b.out[k] = out[k]
    BY <1>3, <2>1 DEF Concludes
  <2>3. \A k \in 2 .. Len(out) : out[k] \in Lit /\ value(out[k]) = l_False /\ var(out[k]) \in S
    BY <1>1, <2>1 DEF Resolves
  <2>4. \A v \in S : \E k \in 2 .. Len(out) : var(out[k]) = v
    BY <1>1, <2>1, <2>2 DEF Resolves
  <2>5. Assigns(S)
    <3>1. \A k \in 2 .. Len(out) : assigns[var(out[k])] # l_Undef
      BY <2>3, FalseLiteral, TruthValues
    <3> QED
      BY <2>4, <3>1 DEF Assigns
  <2>6. Minimizing(b, S)
    BY <2>2, <2>3, <2>4, <2>5 DEF Minimizing, OutMarked, SettledMarks, RemainsIn
  <2>7. UNCHANGED <<ca, assigns, vardata>>
    BY DEF analyze, db, assignment
  <2> QED
    BY <2>1, <2>2, <2>6, <2>7, RedundancyEnds
<1> QED
  BY <1>1, <1>2, <1>3 DEF Resolves

LEMMA RedundancyNext == ASSUME Structure, Redundancy, [Next]_vars PROVE Redundancy'
<1>1. CASE UNCHANGED vars
  <2>1. UNCHANGED <<ca, assigns, vardata>> /\ an' = an /\ seen' = seen /\ pc' = pc
    BY <1>1 DEF vars, db, assignment, scratch
  <2>2. PICK b, S : b = an' /\ S = seen'
    OBVIOUS
  <2>3. pc = "minimize" => Minimizing(b, S)
    BY <2>1, <2>2, MinimizingIs
  <2>4. pc = "litRedundant" => Visiting(b, S, TentativeOf(b))
    BY <2>1, <2>2, MinimizingIs
  <2>5. CASE pc \in {"minimize", "litRedundant"}
    BY <2>1, <2>2, <2>3, <2>4, <2>5, RedundancyEnds
  <2>6. CASE pc \notin {"minimize", "litRedundant"}
    BY <2>1, <2>6 DEF Redundancy, InMinimize
  <2> QED
    BY <2>5, <2>6
<1>2. CASE analyze
  BY <1>2, RedundancyAnalyze
<1>3. CASE minimize
  BY <1>3, RedundancyMinimize
<1>4. CASE litRedundant
  BY <1>4, RedundancyVisit
<1>5. ASSUME Next, ~analyze, ~minimize, ~litRedundant PROVE pc' \notin {"minimize", "litRedundant"}
  <2> SUFFICES ASSUME pc' \in {"minimize", "litRedundant"} PROVE FALSE
    OBVIOUS
  <2>1. ~newVar /\ ~addClause /\ ~check /\ ~checkFails /\ ~clauseAdded /\ ~solve
    <3>1. ~newVar /\ ~check /\ ~checkFails /\ ~clauseAdded /\ ~solve
      BY DEF newVar, check, checkFails, clauseAdded, solve, Call
    <3>2. ~addClause
      <4> SUFFICES ASSUME addClause PROVE FALSE
        OBVIOUS
      <4>1. PICK S : AddDoes(S)
        BY AddClauseDoes
      <4> QED
        BY <4>1 DEF AddDoes
    <3> QED
      BY <3>1, <3>2
  <2>2. ~propagate /\ ~nextFact /\ ~watcher /\ ~endOfList
    BY DEF propagate, nextFact, watcher, endOfList
  <2>3. stack # <<>> => Head(stack) \in {"addClause", "simplify", "search", "solve", "reduce", "decide"}
    BY FrameIs
  <2>4. ~propagated
    <3>1. pc = "facts" => stack # <<>>
      BY DEF Structure, Control, Returns, InPropagate
    <3> QED
      BY <2>3, <3>1 DEF propagated
  <2>5. ~simplifyEnds /\ ~simplify
    <3>1. pc = "simplify" => stack # <<>>
      BY DEF Structure, Control, Returns, InPropagate
    <3> QED
      BY <2>3, <3>1 DEF simplifyEnds, simplify
  <2>6. ~garbageCollect /\ ~noGarbage
    <3>1. pc = "garbage" => stack # <<>>
      BY DEF Structure, Control, Returns, InPropagate
    <3> QED
      BY <2>3, <3>1 DEF garbageCollect, noGarbage
  <2>7. ~conflictAtRoot /\ ~conflict /\ ~learn /\ ~restart /\ ~noConflict
    BY DEF conflictAtRoot, conflict, learn, restart, noConflict
  <2>8. ~reduceDB /\ ~noReduce /\ ~decide /\ ~modelFound /\ ~solveFails
    BY DEF reduceDB, noReduce, decide, modelFound, solveFails
  <2> QED
    BY <1>5, <2>1, <2>2, <2>4, <2>5, <2>6, <2>7, <2>8 DEF Next
<1> QED
  BY <1>1, <1>2, <1>3, <1>4, <1>5 DEF Redundancy, InMinimize

(***************************************************************************)
(* The learnt clause is a consequence: a marked fact holds if no literal   *)
(* kept does, the earliest that did not being explained by earlier ones.   *)
(***************************************************************************)
LEMMA MarkedHold ==
  ASSUME Structure, Redundancy, NEW A, Model(A), Follows(A), NEW s, NEW o, NEW bt, AtLearn(s, o, bt),
         \A j \in DOMAIN s : ~H(s[j], A),
         NEW k \in DOMAIN trail, var(trail[k]) \in seen,
         \A m \in 1 .. k - 1 : var(trail[m]) \in seen => H(trail[m], A)
  PROVE  H(trail[k], A)
<1>1. pc = "minimize" /\ an.i > Len(an.out) /\ s = an.kept /\ Minimizing(an, seen) /\ an \in AnalysisSet
  BY MinimizingIs DEF AtLearn, Structure, TypeOK, ScratchType
<1>2. PICK v : v = var(trail[k])
  OBVIOUS
<1>3. v \in Var /\ assigns[v] # l_Undef /\ v \in seen
  BY <1>2, TrailSays
<1>4. \A q \in Lit : H(neg(q), A) <=> ~H(q, A)
  BY ModelIs
<1>5. \A m \in DOMAIN trail : var(trail[m]) = v => m = k
  BY <1>2 DEF Structure, Trail, TrailIn
<1>6. DOMAIN trail = 1 .. nAssigns /\ nAssigns \in Nat /\ VarsType
  BY DEF Structure, TypeOK, AssignmentType, nAssigns
<1>7. ASSUME NEW q \in Lit, value(q) = l_False, var(q) = v PROVE trail[k] = neg(q)
  <2>1. q \in Nat /\ \E m \in 1 .. nAssigns : trail[m] = neg(q)
    BY <1>7, FalseLiteral
  <2>2. PICK m \in 1 .. nAssigns : trail[m] = neg(q)
    BY <2>1
  <2>3. var(trail[m]) = v
    BY <1>7, <2>1, <2>2, LitFacts
  <2> QED
    BY <1>5, <1>6, <2>2, <2>3
<1>8. CASE RemainsIn(an, v)
  <2>1. an.i .. Len(an.out) = {}
    BY <1>1 DEF AnalysisSet
  <2>2. PICK j \in 2 .. Len(s) : var(s[j]) = v
    BY <1>1, <1>8, <2>1 DEF RemainsIn
  <2>3. j \in DOMAIN s /\ j \in 1 .. Len(s)
    BY <2>2, KeptLiterals
  <2>4. s[j] \in Lit /\ value(s[j]) = l_False
    BY <2>3, KeptLiterals
  <2>5. trail[k] = neg(s[j])
    BY <1>7, <2>2, <2>4
  <2> QED
    BY <1>4, <2>3, <2>4, <2>5
<1>9. CASE Explained(v, seen)
  <2>1. PICK c : c = lits(reason(v))
    OBVIOUS
  <2>2. reason(v) # CRef_Undef /\ \A j \in 2 .. Len(c) : var(c[j]) \in seen \/ level(var(c[j])) = 0
    BY <1>9, <2>1 DEF Explained
  <2>3. reason(v) \in Live /\ \E n \in DOMAIN trail : /\ var(trail[n]) = v /\ c[1] = trail[n]
              /\ \A j \in 2 .. Len(c) : \E m \in 1 .. n - 1 : trail[m] = neg(c[j])
    BY <1>3, <2>1, <2>2, FactReason
  <2>4. c[1] = trail[k] /\ \A j \in 2 .. Len(c) : \E m \in 1 .. k - 1 : trail[m] = neg(c[j])
    BY <1>5, <2>3
  <2>5. PICK j \in DOMAIN c : H(c[j], A)
    BY <2>1, <2>3 DEF Follows, DatabaseHolds
  <2>6. c[j] \in Lit /\ (j = 1 \/ j \in 2 .. Len(c))
    BY <2>1, <2>3, LiveClause
  <2>7. ASSUME j \in 2 .. Len(c) PROVE FALSE
    <3>1. PICK m \in 1 .. k - 1 : trail[m] = neg(c[j])
      BY <2>4, <2>7
    <3>2. m \in 1 .. nAssigns
      BY <1>6
    <3>3. value(c[j]) = l_False
      BY <2>6, <3>1, <3>2, FalseLiteral
    <3>4. var(trail[m]) = var(c[j])
      <4>1. c[j] \in Nat
        BY <2>6, FalseLiteral
      <4> QED
        BY <3>1, <4>1, LitFacts
    <3>5. CASE var(c[j]) \in seen
      <4>1. H(neg(c[j]), A)
        BY <3>1, <3>4, <3>5
      <4> QED
        BY <1>4, <2>5, <2>6, <4>1
    <3>6. CASE level(var(c[j])) = 0
      BY <2>5, <2>6, <3>3, <3>6, RootFalse DEF Follows
    <3> QED
      BY <2>2, <2>7, <3>5, <3>6
  <2> QED
    BY <2>4, <2>5, <2>6, <2>7
<1> QED
  BY <1>1, <1>3, <1>8, <1>9 DEF Minimizing, SettledMarks

LEMMA KeptHolds ==
  ASSUME Structure, Redundancy, NEW A, Model(A), Follows(A), NEW s, NEW o, NEW bt, AtLearn(s, o, bt)
  PROVE  \E j \in DOMAIN s : H(s[j], A)
<1> SUFFICES ASSUME \A j \in DOMAIN s : ~H(s[j], A) PROVE FALSE
  OBVIOUS
<1>1. pc = "minimize" /\ s = an.kept /\ Minimizing(an, seen)
  BY MinimizingIs DEF AtLearn
<1>2. Below(an.out) /\ KeptPart(an) /\ Len(an.out) \in Nat /\ an \in AnalysisSet
  BY <1>1, MinimizeFacts
<1>3. DOMAIN trail = 1 .. nAssigns /\ nAssigns \in Nat
  BY DEF Structure, TypeOK, AssignmentType, nAssigns
<1>4. PICK B : B = {k \in DOMAIN trail : var(trail[k]) \in seen /\ ~H(trail[k], A)}
  OBVIOUS
<1>5. B = {}
  <2> SUFFICES ASSUME B # {} PROVE FALSE
    OBVIOUS
  <2>1. B \subseteq Nat
    BY <1>3, <1>4
  <2>2. PICK k \in B : \A y \in B : k <= y
    BY <2>1, NatMin
  <2>3. k \in DOMAIN trail /\ var(trail[k]) \in seen /\ ~H(trail[k], A)
    BY <1>4, <2>2
  <2>4. ASSUME NEW m \in 1 .. k - 1, var(trail[m]) \in seen PROVE H(trail[m], A)
    <3>1. m \in DOMAIN trail /\ ~(k <= m)
      BY <1>3, <2>3
    <3> QED
      BY <1>4, <2>2, <2>4, <3>1
  <2> QED
    BY <2>3, <2>4, MarkedHold
<1>6. PICK k \in DOMAIN an.out : H(an.out[k], A)
  BY <1>1 DEF Follows, AnalysisHolds, InMinimize
<1>7. k = 1 \/ k \in 2 .. Len(an.out)
  <2>1. DOMAIN an.out = 1 .. Len(an.out)
    BY <1>2 DEF AnalysisSet
  <2> QED
    BY <1>2, <2>1
<1>8. ASSUME k = 1 PROVE FALSE
  <2>1. an.out[1] = s[1] /\ 1 \in DOMAIN s
    BY <1>1, <1>2, KeptLiterals DEF KeptPart
  <2> QED
    BY <1>6, <1>8, <2>1
<1>9. ASSUME k \in 2 .. Len(an.out) PROVE FALSE
  <2>1. PICK q : q = an.out[k]
    OBVIOUS
  <2>2. q \in Lit /\ value(q) = l_False /\ var(q) \in seen
    BY <1>1, <1>2, <1>9, <2>1 DEF Below, FalseBelow, Minimizing, OutMarked
  <2>3. PICK m \in 1 .. nAssigns : trail[m] = neg(q)
    BY <2>2, FalseLiteral
  <2>4. var(trail[m]) = var(q)
    <3>1. q \in Nat
      BY <2>2, FalseLiteral
    <3> QED
      BY <2>3, <3>1, LitFacts
  <2>5. H(neg(q), A)
    BY <1>3, <1>4, <1>5, <2>2, <2>3, <2>4
  <2> QED
    BY <1>6, <2>1, <2>2, <2>5, ModelIs
<1> QED
  BY <1>7, <1>8, <1>9

LEMMA LearntHas ==
  ASSUME Structure, NEW s, NEW o, NEW bt, AtLearn(s, o, bt)
  PROVE  \A k \in DOMAIN s : \E m \in DOMAIN o : o[m] = s[k]
<1>1. CASE Len(s) = 1
  BY <1>1 DEF AtLearn
<1>2. CASE Len(s) # 1
  <2>1. PICK m : m = Highest(s)
    OBVIOUS
  <2>2. /\ s \in Seq(Lit) /\ Len(s) \in Nat /\ Len(s) >= 2 /\ DOMAIN s = 1 .. Len(s) /\ decisionLevel \in Nat
        /\ \A i \in 1 .. Len(s) : level(var(s[i])) \in Nat
        /\ \A i \in 2 .. Len(s) : level(var(s[i])) < decisionLevel
    <3>1. PICK l \in Nat : l = Len(s) /\ l >= 1 /\ l # 1
      BY <1>2, KeptLiterals
    <3>2. l >= 2
      BY <3>1
    <3> QED
      BY <3>1, <3>2, KeptLiterals
  <2>3. \A i \in 2 .. Len(s) : level(var(s[i])) <= decisionLevel
    <3>1. \A i \in 2 .. Len(s) : i \in 1 .. Len(s)
      BY <2>2
    <3> QED
      BY <2>2, <3>1
  <2>4. m \in 2 .. Len(s)
    BY <2>1, <2>2, <2>3, HighestIs
  <2>5. 2 \in DOMAIN s /\ m \in DOMAIN s
    BY <2>2, <2>4
  <2>6. o = Exchanged(s, 2, m)
    BY <1>2, <2>1 DEF AtLearn
  <2>7. s \in Seq(Lit) /\ Distinct(s) /\ o = Exchanged(s, 2, m) /\ 2 \in DOMAIN s /\ m \in DOMAIN s
    BY <2>2, <2>5, <2>6, KeptLiterals
  <2>8. o \in Seq(Lit) /\ Len(o) = Len(s) /\ DOMAIN o = DOMAIN s
    BY <2>7, ExchangedIs
  <2>9. o[2] = s[m] /\ o[m] = s[2] /\ \A k \in DOMAIN s : k # 2 /\ k # m => o[k] = s[k]
    BY <2>7, ExchangedIs
  <2> QED
    BY <2>7, <2>8, <2>9
<1> QED
  BY <1>1, <1>2

LEMMA LearnTrail == ASSUME Structure, learn PROVE \E T : trail' \in Seq(T)
<1>1. Structure'
  BY LearnStep
<1> QED
  BY <1>1 DEF Structure, TypeOK, AssignmentType

LEMMA FollowsLearn ==
  ASSUME Structure, Redundancy, NEW A, Model(A), Follows(A), learn
  PROVE  Follows(A)'
<1>1. PICK s, o, bt : Learns(s, o, bt)
  BY LearnDoes
<1>2. /\ AtLearn(s, o, bt) /\ pc' = "propagate" /\ ok' = ok
      /\ level(var(o[1]))' = bt
      /\ \A v \in Var : assigns[v] # l_Undef /\ level(v) <= bt => KeepsValue(v)
      /\ qhead' \in Nat /\ qhead' <= nAssigns /\ nAssigns' = qhead' + 1 /\ trail'[qhead' + 1] = o[1]
      /\ \A k \in 1 .. qhead' : trail'[k] = trail[k] /\ level(var(trail[k])) <= bt
      /\ \A x \in Live : ca'[x] = ca[x]
      /\ \A x \in Live' : x \in Live \/ ca'[x].lits = o
  BY <1>1 DEF Learns
<1>3. /\ DOMAIN o = 1 .. Len(o) /\ Len(o) \in Nat /\ bt \in Nat
      /\ \A j \in 2 .. Len(o) : o[j] \in Lit /\ value(o[j]) = l_False /\ level(var(o[j])) <= bt
  BY <1>2, LearntClause
<1>4. PICK j \in DOMAIN s : H(s[j], A)
  BY <1>2, KeptHolds
<1>5. \E i \in DOMAIN o : o[i] = s[j]
  BY <1>2, LearntHas
<1>6. PICK i \in DOMAIN o : H(o[i], A)
  BY <1>4, <1>5
<1>7. DatabaseHolds(A)'
  <2> SUFFICES ASSUME NEW cr \in Live' PROVE \E x \in DOMAIN ca'[cr].lits : H(ca'[cr].lits[x], A)
    BY DEF DatabaseHolds, lits, H, Abs!Holds, Abs!var, Abs!sign
  <2>1. CASE cr \in Live
    BY <1>2, <2>1 DEF Follows, DatabaseHolds, lits
  <2>2. CASE ca'[cr].lits = o
    BY <1>6, <2>2
  <2> QED
    BY <1>2, <2>1, <2>2
<1>8. ASSUME bt = 0 PROVE H(o[1], A)
  <2>1. ASSUME i \in 2 .. Len(o) PROVE FALSE
    <3>1. o[i] \in Lit /\ value(o[i]) = l_False /\ level(var(o[i])) <= bt
      BY <1>3, <2>1
    <3>2. level(var(o[i])) \in Nat
      BY <3>1, FalseLiteral, TruthValues
    <3>3. level(var(o[i])) = 0
      BY <1>8, <3>1, <3>2
    <3> QED
      BY <1>6, <3>1, <3>3, RootFalse DEF Follows
  <2>2. i = 1 \/ i \in 2 .. Len(o)
    BY <1>3
  <2> QED
    BY <1>6, <2>1, <2>2
<1>9. nAssigns \in Nat /\ DOMAIN trail = 1 .. nAssigns /\ DOMAIN trail' = 1 .. qhead' + 1
  <2>1. trail \in Seq(Lit)
    BY DEF Structure, TypeOK, AssignmentType
  <2>2. \E T : trail' \in Seq(T)
    BY LearnTrail
  <2> QED
    BY <1>2, <2>1, <2>2 DEF nAssigns
<1>10. RootHolds(A)'
  <2>1. ASSUME NEW k \in DOMAIN trail', vardata'[var(trail'[k])].level = 0
        PROVE  \/ k \in DOMAIN trail /\ trail'[k] = trail[k] /\ level(var(trail[k])) = 0
               \/ H(trail'[k], A)
    <3>1. CASE k \in 1 .. qhead'
      <4>1. trail'[k] = trail[k] /\ level(var(trail[k])) <= bt /\ k \in DOMAIN trail
        <5>1. k \in DOMAIN trail
          <6>1. k <= qhead' /\ k \in Nat /\ k >= 1 /\ qhead' \in Nat /\ qhead' <= nAssigns
            BY <1>2, <3>1
          <6>2. k \in 1 .. nAssigns
            BY <1>9, <6>1
          <6> QED
            BY <1>9, <6>2
        <5>2. trail'[k] = trail[k] /\ level(var(trail[k])) <= bt
          BY <1>2, <3>1
        <5> QED
          BY <5>1, <5>2
      <4>2. KeepsValue(var(trail[k]))
        BY <1>2, <4>1, TrailSays
      <4> QED
        BY <2>1, <4>1, <4>2 DEF KeepsValue, level
    <3>2. CASE k = qhead' + 1
      <4>1. bt = 0
        BY <1>2, <2>1, <3>2 DEF level
      <4> QED
        BY <1>2, <1>8, <3>2, <4>1
    <3> QED
      BY <1>2, <1>9, <3>1, <3>2
  <2> QED
    BY <2>1, RootKept DEF Follows
<1> QED
  BY <1>2, <1>7, <1>10, FollowsStep DEF Follows, Elsewhere, InMinimize

(***************************************************************************)
(* A new variable: an assignment that has it restricts to one without.     *)
(***************************************************************************)
LEMMA OneMoreVar ==
  ASSUME Structure, Structure', newVar
  PROVE  nVars' = nVars + 1 /\ Var' = 0 .. nVars /\ Lit \subseteq Lit'
<1>1. nVars \in Nat /\ nVars' \in Nat /\ DOMAIN assigns' = Var'
  BY DEF Structure, TypeOK, VarsType
<1>2. DOMAIN assigns' = 0 .. nVars
  BY DEF newVar
<1>3. 0 .. nVars' - 1 = 0 .. nVars
  BY <1>1, <1>2 DEF Var
<1>4. PICK m \in Nat : m = nVars'
  BY <1>1
<1>5. PICK n \in Nat : n = nVars
  BY <1>1
<1>6. n \in 0 .. m - 1
  <2>1. n \in 0 .. n
    OBVIOUS
  <2> QED
    BY <1>3, <1>4, <1>5, <2>1
<1>9. m - 1 \in 0 .. n
  <2>1. m - 1 \in 0 .. m - 1
    BY <1>6
  <2> QED
    BY <1>3, <1>4, <1>5, <2>1
<1>7. m = n + 1
  BY <1>6, <1>9
<1>8. 0 .. 2 * n - 1 \subseteq 0 .. 2 * m - 1
  BY <1>7
<1> QED
  BY <1>1, <1>2, <1>4, <1>5, <1>7, <1>8 DEF Lit

LEMMA FollowsVar ==
  ASSUME Structure, Structure', Typed, Sound, newVar, NEW A, Model(A)'
  PROVE  Follows(A)'
<1>1. nVars' = nVars + 1 /\ Var' = 0 .. nVars /\ nVars \in Nat /\ nVars' \in Nat
  BY OneMoreVar DEF Structure, TypeOK, VarsType
<1>2. A \in [0 .. nVars -> BOOLEAN] /\ Abs!Satisfies(A, added)
  <2>1. A \in Abs!Assignments(nVars)' /\ Abs!Satisfies(A, added)' /\ added' = added
    BY DEF Model, newVar
  <2>2. A \in [0 .. nVars' - 1 -> BOOLEAN] /\ \A S \in added : \E p \in S : Abs!Holds(p, A)
    BY <2>1 DEF Abs!Assignments, Abs!Satisfies, Abs!Holds, Abs!var, Abs!sign
  <2>3. nVars' - 1 = nVars
    BY <1>1
  <2> QED
    BY <2>2, <2>3 DEF Abs!Satisfies
<1>3. PICK B : B = [v \in Var |-> A[v]]
  OBVIOUS
<1>4. ASSUME NEW q \in Lit PROVE H(q, B) <=> H(q, A)
  <2>1. var(q) \in Var
    BY <1>4, FalseLiteral
  <2>2. B[var(q)] = A[var(q)]
    BY <1>3, <2>1
  <2> QED
    BY <2>2 DEF H, Abs!Holds, Abs!var, Abs!sign, var, sign
<1>5. B \in Abs!Assignments(nVars)
  <2>1. \A v \in Var : v \in 0 .. nVars
    BY <1>1 DEF Var
  <2>2. B \in [Var -> BOOLEAN]
    BY <1>2, <1>3, <2>1
  <2> QED
    BY <2>2 DEF Abs!Assignments, Var
<1>6. Abs!Satisfies(B, added)
  <2>1. \A S \in added : \E p \in S : H(p, A)
    BY <1>2 DEF Abs!Satisfies, H
  <2>2. \A S \in added : \E p \in S : H(p, B)
    BY <1>4, <2>1 DEF Typed
  <2> QED
    BY <2>2 DEF Abs!Satisfies, H
<1>7. Follows(B)
  BY <1>5, <1>6 DEF Sound
<1>8. /\ UNCHANGED <<ok, clauses, learnts, ca, trail>> /\ pc' = pc /\ pc = "idle"
  BY DEF newVar, Call, db
<1>9. DatabaseHolds(A)'
  <2> SUFFICES ASSUME NEW cr \in Live PROVE \E j \in DOMAIN lits(cr) : H(lits(cr)[j], A)
    BY <1>8 DEF DatabaseHolds, Live, lits, H, Abs!Holds, Abs!var, Abs!sign
  <2>1. PICK j \in DOMAIN lits(cr) : H(lits(cr)[j], B)
    BY <1>7 DEF Follows, DatabaseHolds
  <2>2. lits(cr)[j] \in Lit
    BY <2>1, LiveClause
  <2> QED
    BY <1>4, <2>1, <2>2
<1>10. RootHolds(A)'
  <2> SUFFICES ASSUME NEW k \in DOMAIN trail, vardata'[var(trail[k])].level = 0 PROVE H(trail[k], A)
    BY <1>8 DEF RootHolds, level, var, H, Abs!Holds, Abs!var, Abs!sign
  <2>1. var(trail[k]) \in Var /\ trail[k] \in Lit
    BY TrailSays DEF Structure, TypeOK, AssignmentType
  <2>2. vardata'[var(trail[k])] = vardata[var(trail[k])]
    <3>1. PICK v : v = var(trail[k])
      OBVIOUS
    <3>2. v \in 0 .. nVars /\ v # nVars
      BY <1>1, <2>1, <3>1 DEF Var
    <3>3. vardata' = [x \in 0 .. nVars |-> IF x = nVars THEN [reason |-> CRef_Undef, level |-> 0] ELSE vardata[x]]
      BY DEF newVar
    <3> QED
      BY <3>1, <3>2, <3>3
  <2>3. H(trail[k], B)
    BY <1>7, <2>2 DEF Follows, RootHolds, level
  <2> QED
    BY <1>4, <2>1, <2>3
<1> QED
  BY <1>7, <1>8, <1>9, <1>10, FollowsStep DEF Follows, Elsewhere, InMinimize

(***************************************************************************)
(* The variables and the clauses asked about grow.                         *)
(***************************************************************************)
LEMMA SameAdded ==
  ASSUME Structure, [Next]_vars, ~addClause
  PROVE  added' = added
BY DEF Next, vars, input, newVar, clauseAdded, check, checkFails, solve, propagate, nextFact, watcher,
       endOfList, propagated, simplifyEnds, simplify, garbageCollect, noGarbage, conflictAtRoot, conflict, analyze,
       minimize, litRedundant, learn, restart, noConflict, reduceDB, noReduce, decide, modelFound, solveFails

LEMMA EnqueueDomain ==
  ASSUME NEW p, NEW from, NEW lvl, NEW A, NEW D, NEW T, uncheckedEnqueue(p, from, lvl, A, D, T)
  PROVE  DOMAIN assigns' = DOMAIN A
BY DEF uncheckedEnqueue, Enqueued

LEMMA SameVarsStep ==
  ASSUME Structure, [Next]_vars, ~newVar
  PROVE  nVars' = nVars /\ Lit' = Lit
<1>1. VarsType
  BY DEF Structure, TypeOK
<1>2. \A l : DOMAIN AssignsAt(l) = DOMAIN assigns
  BY <1>1 DEF AssignsAt, VarsType
<1>3. CASE UNCHANGED vars \/ clauseAdded \/ check \/ checkFails \/ solve \/ propagate \/ nextFact
             \/ endOfList \/ propagated \/ simplifyEnds \/ simplify
  <2>1. assigns' = assigns
    BY <1>3 DEF vars, assignment, clauseAdded, check, checkFails, solve, propagate, nextFact,
                endOfList, propagated, simplifyEnds, simplify
  <2> QED
    BY <1>1, <2>1, SameVars
<1>4. CASE garbageCollect \/ noGarbage \/ conflictAtRoot \/ conflict \/ analyze \/ minimize \/ litRedundant
             \/ noConflict \/ reduceDB \/ noReduce
  <2>1. assigns' = assigns
    BY <1>4 DEF assignment, garbageCollect, noGarbage, conflictAtRoot, conflict, analyze, minimize,
                litRedundant, noConflict, reduceDB, noReduce
  <2> QED
    BY <1>1, <2>1, SameVars
<1>5. CASE restart \/ modelFound \/ solveFails
  <2>1. assigns' = AssignsAt(0)
    BY <1>5 DEF restart, modelFound, solveFails, cancelUntil
  <2> QED
    BY <1>1, <1>2, <2>1, SameVars
<1>6. CASE learn
  <2>1. PICK p, from, lvl, bt : uncheckedEnqueue(p, from, lvl, AssignsAt(bt), vardata, TrailAt(bt))
    BY <1>6 DEF learn
  <2>2. DOMAIN assigns' = DOMAIN assigns
    BY <1>2, <2>1, EnqueueDomain
  <2> QED
    BY <1>1, <2>2, SameVars
<1>7. CASE decide
  <2>1. PICK p, lvl : uncheckedEnqueue(p, CRef_Undef, lvl, assigns, vardata, trail)
    BY <1>7 DEF decide
  <2>2. DOMAIN assigns' = DOMAIN assigns
    BY <2>1, EnqueueDomain
  <2> QED
    BY <1>1, <2>2, SameVars
<1>8. CASE watcher
  <2>1. PICK cr, c : TurnDoes(cr, c)
    BY <1>8, WatcherDoes
  <2>2. DOMAIN assigns' = DOMAIN assigns
    BY <2>1, EnqueueDomain DEF TurnDoes
  <2> QED
    BY <1>1, <2>2, SameVars
<1>9. CASE addClause
  <2>1. PICK S : AddDoes(S)
    BY <1>9, AddClauseDoes
  <2>2. DOMAIN assigns' = DOMAIN assigns
    <3>1. CASE AddsFact(S)
      BY <3>1, EnqueueDomain DEF AddsFact
    <3> QED
      BY <2>1, <3>1 DEF AddDoes, AddsNothing, AddsFalse, AddsClause
  <2> QED
    BY <1>1, <2>2, SameVars
<1> QED
  BY <1>3, <1>4, <1>5, <1>6, <1>7, <1>8, <1>9 DEF Next

LEMMA LitGrows == ASSUME Structure, Structure', [Next]_vars PROVE Lit \subseteq Lit'
<1>1. CASE newVar
  BY <1>1, OneMoreVar
<1> QED
  BY <1>1, SameVarsStep

LEMMA TypedKept ==
  ASSUME Structure, Structure', Typed, [Next]_vars
  PROVE  Typed' /\ added \subseteq added'
<1>1. Lit \subseteq Lit'
  BY LitGrows
<1>2. CASE addClause
  <2>1. PICK S : AddDoes(S)
    BY <1>2, AddClauseDoes
  <2> QED
    BY <1>1, <2>1 DEF AddDoes, Typed
<1>3. CASE ~addClause
  BY <1>1, <1>3, SameAdded DEF Typed
<1> QED
  BY <1>2, <1>3

LEMMA FollowsNext ==
  ASSUME Structure, Redundancy, [Next]_vars, ~newVar, NEW A, Model(A), Model(A)', Follows(A)
  PROVE  Follows(A)'
<1>1. CASE noGarbage \/ check \/ solve \/ propagate \/ nextFact \/ endOfList \/ propagated \/ noConflict \/ noReduce
             \/ conflict \/ checkFails
  BY <1>1, FollowsMoves
<1>2. CASE clauseAdded \/ simplifyEnds \/ conflictAtRoot
  BY <1>2, FollowsRoot
<1>3. CASE simplify \/ reduceDB
  BY <1>3, FollowsRemove
<1>4. CASE garbageCollect
  BY <1>4, FollowsCollect
<1>5. CASE addClause
  BY <1>5, FollowsAdd
<1>6. CASE decide
  BY <1>6, FollowsDecide
<1>7. CASE restart \/ modelFound \/ solveFails
  BY <1>7, FollowsBack
<1>8. CASE analyze
  BY <1>8, FollowsAnalyze
<1>9. CASE minimize \/ litRedundant
  BY <1>9, FollowsMinimize
<1>10. CASE learn
  BY <1>10, FollowsLearn
<1>11. CASE watcher
  BY <1>11, FollowsWatcher
<1>12. CASE UNCHANGED vars
  <2>1. UNCHANGED <<clauses, learnts, ca, assigns, vardata, trail, trail_lim, ok>> /\ pc' = pc /\ an' = an /\ seen' = seen
    BY <1>12 DEF vars, db, assignment, scratch
  <2>2. Here' = Here
    BY <2>1 DEF Here, level, decisionLevel
  <2>3. AnalysisHolds(A)'
    BY <2>1, <2>2 DEF Follows, AnalysisHolds, Resolvent, InMinimize, H, Abs!Holds, Abs!var, Abs!sign
  <2>4. pc' # "l_False"
    BY <2>1 DEF Follows
  <2> QED
    BY <2>1, <2>3, <2>4, FollowsSteady
<1> QED
  BY <1>1, <1>2, <1>3, <1>4, <1>5, <1>6, <1>7, <1>8, <1>9, <1>10, <1>11, <1>12 DEF Next

(***************************************************************************)
(* A step keeps what follows from the clauses added.                       *)
(***************************************************************************)
LEMMA SoundNext ==
  ASSUME Structure, Structure', Soundness, [Next]_vars
  PROVE  Soundness'
<1>1. Typed /\ Sound /\ Redundancy
  BY DEF Soundness
<1>2. Typed' /\ added \subseteq added'
  BY <1>1, TypedKept
<1>3. Redundancy'
  BY <1>1, RedundancyNext
<1>4. ASSUME NEW A, Model(A)' PROVE Follows(A)'
  <2>1. CASE newVar
    BY <1>1, <1>4, <2>1, FollowsVar
  <2>2. CASE ~newVar
    <3>1. nVars' = nVars
      BY <2>2, SameVarsStep
    <3>2. A \in Abs!Assignments(nVars) /\ \A S \in added' : \E p \in S : Abs!Holds(p, A)
      BY <1>4, <3>1 DEF Model, Abs!Assignments, Abs!Satisfies, Abs!Holds, Abs!var, Abs!sign
    <3>3. Abs!Satisfies(A, added)
      BY <1>2, <3>2 DEF Abs!Satisfies
    <3>4. Model(A) /\ Follows(A)
      BY <1>1, <3>2, <3>3 DEF Model, Sound
    <3> QED
      BY <1>1, <1>4, <2>2, <3>4, FollowsNext
  <2> QED
    BY <2>1, <2>2
<1>5. Sound'
  <2> SUFFICES ASSUME NEW A \in Abs!Assignments(nVars)', Abs!Satisfies(A, added)' PROVE Follows(A)'
    BY DEF Sound, Abs!Assignments, Abs!Satisfies, Abs!Holds, Abs!var, Abs!sign,
           Follows, DatabaseHolds, RootHolds, AnalysisHolds, Resolvent, H
  <2>1. Model(A)'
    BY DEF Model, Abs!Assignments, Abs!Satisfies, Abs!Holds, Abs!var, Abs!sign
  <2> QED
    BY <1>4, <2>1
<1> QED
  BY <1>2, <1>3, <1>5 DEF Soundness

LEMMA SoundInit == ASSUME Init PROVE Soundness
<1>1. Typed /\ Redundancy
  BY DEF Init, Typed, Redundancy, InMinimize
<1>2. ASSUME NEW A PROVE Follows(A)
  BY DEF Init, Follows, DatabaseHolds, RootHolds, AnalysisHolds, Live, InMinimize
<1> QED
  BY <1>1, <1>2 DEF Soundness, Sound

(***************************************************************************)
(* Whatever the solver has concluded follows from the clauses added.       *)
(***************************************************************************)
THEOREM SoundnessThm == Spec => []Soundness
<1>1. Init => Soundness
  BY SoundInit
<1>2. Structure /\ Structure' /\ Soundness /\ [Next]_vars => Soundness'
  BY SoundNext
<1>3. Spec => []Structure
  BY StructureThm
<1> QED
  BY <1>1, <1>2, <1>3, PTL DEF Spec

LEMMA SoundEntailed == ASSUME Soundness PROVE Entailed
<1> SUFFICES ASSUME NEW A \in Abs!Assignments(nVars), Abs!Satisfies(A, added)
             PROVE  /\ ok
                    /\ \A cr \in learnts : \E j \in DOMAIN lits(cr) : Abs!Holds(lits(cr)[j], A)
                    /\ \A k \in DOMAIN trail : level(var(trail[k])) = 0 => Abs!Holds(trail[k], A)
  BY DEF Entailed
<1>1. Follows(A)
  BY DEF Soundness, Sound
<1> QED
  BY <1>1 DEF Follows, DatabaseHolds, RootHolds, H, Live

(***************************************************************************)
(* Each clause learnt and minimized, each fact of level 0 and the          *)
(* contradiction when ok is false is a consequence of the clauses added.   *)
(***************************************************************************)
THEOREM EntailedThm == Spec => []Entailed
<1>1. Soundness => Entailed
  BY SoundEntailed
<1> QED
  BY <1>1, SoundnessThm, PTL

-----------------------------------------------------------------------------
(***************************************************************************)
(* Answers.  The facts of level 0 stay, wherever they go on the trail.     *)
(***************************************************************************)
Fact(p) == \E k \in DOMAIN trail : trail[k] = p /\ level(var(p)) = 0
FactsStay == \A p : Fact(p) => Fact(p)'

LEMMA StayFacts ==
  ASSUME Structure, Structure', \A v \in Var : assigns[v] # l_Undef /\ level(v) = 0 => v \in Var' /\ KeepsValue(v)
  PROVE  FactsStay
<1> SUFFICES ASSUME NEW p, Fact(p) PROVE Fact(p)'
  BY DEF FactsStay
<1>1. VarsType /\ AssignmentType /\ Trail /\ (VarsType /\ AssignmentType /\ Trail)'
  BY DEF Structure, TypeOK
<1>2. PICK k \in DOMAIN trail : trail[k] = p /\ level(var(p)) = 0
  BY DEF Fact
<1>3. PICK v : v = var(p)
  OBVIOUS
<1>4. v \in Var /\ assigns[v] # l_Undef /\ p \in Lit /\ p \in Nat
  <2>1. p \in Lit
    BY <1>1, <1>2 DEF AssignmentType
  <2> QED
    BY <1>2, <1>3, <2>1, TrailSays, FalseLiteral
<1>5. v \in Var' /\ assigns'[v] = assigns[v] /\ vardata'[v].level = 0
  BY <1>2, <1>3, <1>4 DEF KeepsValue, level
<1>6. assigns[v] = sign(p)
  BY <1>1, <1>2, <1>3 DEF Trail, TrailIn
<1>7. PICK m \in DOMAIN trail' : var(trail'[m]) = v
  <2>1. v \in DOMAIN assigns'
    BY <1>1, <1>5 DEF VarsType
  <2> QED
    BY <1>1, <1>4, <1>5, <2>1 DEF Trail, TrailIn
<1>8. assigns'[v] = sign(trail'[m]) /\ trail'[m] \in Nat
  <2>1. trail'[m] \in Lit'
    BY <1>1 DEF AssignmentType
  <2>2. \A q \in Lit' : q \in Nat
    BY <1>1 DEF Lit, VarsType
  <2>3. assigns'[var(trail'[m])] = sign(trail'[m])
    BY <1>1 DEF Trail, TrailIn
  <2> QED
    BY <1>7, <2>1, <2>2, <2>3
<1>9. PICK q \in Nat : q = trail'[m]
  BY <1>8
<1>10. var(q) = var(p) /\ sign(q) = sign(p)
  BY <1>3, <1>5, <1>6, <1>7, <1>8, <1>9
<1>11. q = p
  <2>1. p = 2 * var(p) + sign(p) /\ q = 2 * var(q) + sign(q)
    BY <1>4, LitFacts
  <2> QED
    BY <1>10, <2>1
<1> QED
  BY <1>3, <1>5, <1>9, <1>11 DEF Fact, level

LEMMA StaySame ==
  ASSUME Structure, trail' = trail, \A v \in Var : vardata'[v].level = vardata[v].level
  PROVE  FactsStay
<1> SUFFICES ASSUME NEW p, Fact(p) PROVE Fact(p)'
  BY DEF FactsStay
<1>1. PICK k \in DOMAIN trail : trail[k] = p /\ level(var(p)) = 0
  BY DEF Fact
<1>2. var(p) \in Var
  BY <1>1, TrailSays
<1> QED
  BY <1>1, <1>2 DEF Fact, level

LEMMA StayEnqueue ==
  ASSUME Structure, Structure', Var' = Var, NEW p \in Lit, value(p) = l_Undef, NEW from \in Nat, NEW lvl \in Nat,
         uncheckedEnqueue(p, from, lvl, assigns, vardata, trail)
  PROVE  FactsStay
<1>1. \A v \in Var : assigns[v] # l_Undef => KeepsValue(v)
  BY EnqueueKeeps
<1> QED
  BY <1>1, StayFacts

(***************************************************************************)
(* What the literal decided on is.                                         *)
(***************************************************************************)
LEMMA DecideDoes ==
  ASSUME Structure, decide
  PROVE  \E p \in Lit, d \in Nat : /\ value(p) = l_Undef /\ d # 0
                                   /\ uncheckedEnqueue(p, CRef_Undef, d, assigns, vardata, trail)
<1>1. PICK v \in order_heap :
        /\ assigns[v] = l_Undef
        /\ uncheckedEnqueue(2 * v + polarity[v], CRef_Undef, decisionLevel + 1, assigns, vardata, trail)
  BY DEF decide
<1>2. VarsType /\ AssignmentType
  BY DEF Structure, TypeOK
<1>3. PICK p : p = 2 * v + polarity[v]
  OBVIOUS
<1>4. p \in Lit /\ value(p) = l_Undef
  <2>1. v \in Var /\ v \in Nat /\ polarity[v] \in 0 .. 1
    BY <1>1, <1>2, Literals DEF AssignmentType
  <2>2. p \in Nat /\ var(p) = v
    BY <1>3, <2>1, LitMade
  <2>3. p \in Lit
    BY <1>2, <2>1, <2>2, Literals
  <2> QED
    BY <1>1, <2>2, <2>3, FalseLiteral
<1>5. PICK d : d = decisionLevel + 1
  OBVIOUS
<1>6. d \in Nat /\ d # 0
  BY <1>2, <1>5 DEF AssignmentType, decisionLevel
<1> QED
  BY <1>1, <1>3, <1>4, <1>5, <1>6

LEMMA StayNext == ASSUME Structure, Structure', [Next]_vars PROVE FactsStay
<1>1. CASE UNCHANGED vars \/ clauseAdded \/ check \/ checkFails \/ solve \/ propagate \/ nextFact
             \/ endOfList \/ propagated \/ simplifyEnds
  <2>1. UNCHANGED <<vardata, trail>>
    BY <1>1 DEF vars, assignment, clauseAdded, check, checkFails, solve, propagate, nextFact,
                endOfList, propagated, simplifyEnds
  <2> QED
    BY <2>1, StaySame
<1>2. CASE noGarbage \/ conflictAtRoot \/ conflict \/ analyze \/ minimize \/ litRedundant \/ noConflict \/ noReduce
  <2>1. UNCHANGED <<vardata, trail>>
    BY <1>2 DEF assignment, noGarbage, conflictAtRoot, conflict, analyze, minimize, litRedundant, noConflict, noReduce
  <2> QED
    BY <2>1, StaySame
<1>3. CASE simplify \/ reduceDB
  <2>1. PICK R : RemoveClauses(R)
    BY <1>3 DEF simplify, reduceDB
  <2>2. trail' = trail
    BY <1>3 DEF simplify, reduceDB
  <2> QED
    BY <2>1, <2>2, RemovedLevels, StaySame
<1>4. CASE garbageCollect
  <2>1. PICK W, new : Collected(W, new)
    BY <1>4, CollectorMoves
  <2>2. trail' = trail
    BY <1>4 DEF garbageCollect
  <2>3. \A v \in Var : vardata'[v].level = vardata[v].level
    <3> SUFFICES ASSUME NEW v \in Var PROVE vardata'[v].level = vardata[v].level
      OBVIOUS
    <3>1. vardata'[v] \in {[vardata[v] EXCEPT !.reason = new[@]], vardata[v]}
      BY <2>1 DEF Collected
    <3>2. vardata[v] \in DataSet
      BY DEF Structure, TypeOK, AssignmentType, DataSet
    <3> QED
      BY <3>1, <3>2 DEF DataSet
  <2> QED
    BY <2>2, <2>3, StaySame
<1>5. CASE addClause
  <2>1. PICK S : AddDoes(S)
    BY <1>5, AddClauseDoes
  <2>2. CASE UNCHANGED <<vardata, trail>>
    BY <2>2, StaySame
  <2>3. CASE AddsFact(S)
    <3>1. PICK p \in S : value(p) = l_Undef /\ uncheckedEnqueue(p, CRef_Undef, 0, assigns, vardata, trail)
      BY <2>3 DEF AddsFact
    <3>2. p \in Lit /\ CRef_Undef \in Nat /\ 0 \in Nat
      BY <2>1, <3>1 DEF AddDoes, CRef_Undef
    <3>3. Var' = Var
      BY <1>5, SameVarsStep DEF Var, addClause, newVar, Call
    <3> QED
      BY <3>1, <3>2, <3>3, StayEnqueue
  <2> QED
    BY <2>1, <2>2, <2>3 DEF AddDoes, AddsNothing, AddsFalse, AddsClause
<1>6. CASE decide
  <2>1. PICK p \in Lit, d \in Nat : value(p) = l_Undef /\ uncheckedEnqueue(p, CRef_Undef, d, assigns, vardata, trail)
    BY <1>6, DecideDoes
  <2>2. Var' = Var
    BY <1>6, SameVarsStep DEF Var, decide, newVar, Call
  <2> QED
    BY <2>1, <2>2, StayEnqueue DEF CRef_Undef
<1>7. CASE watcher
  <2>1. PICK cr, c : TurnDoes(cr, c)
    BY <1>7, WatcherDoes
  <2>2. CASE UNCHANGED <<vardata, trail>>
    BY <2>2, StaySame
  <2>3. CASE UnitClause(cr, c) /\ uncheckedEnqueue(c[1], cr, decisionLevel, assigns, vardata, trail)
    <3>1. PICK p, d : p = c[1] /\ d = decisionLevel
      OBVIOUS
    <3>2. p \in Lit /\ value(p) = l_Undef /\ cr \in Nat
      BY <2>1, <2>3, <3>1 DEF UnitClause, TurnDoes
    <3>3. d \in Nat
      BY <3>1 DEF Structure, TypeOK, AssignmentType, decisionLevel
    <3>4. Var' = Var
      BY <1>7, SameVarsStep DEF Var, watcher, newVar, Call
    <3> QED
      BY <2>3, <3>1, <3>2, <3>3, <3>4, StayEnqueue
  <2> QED
    BY <2>1, <2>2, <2>3 DEF TurnDoes
<1>8. CASE restart \/ modelFound \/ solveFails
  <2>1. assigns' = AssignsAt(0) /\ vardata' = vardata
    BY <1>8 DEF restart, modelFound, solveFails, cancelUntil
  <2>2. Var' = Var
    BY <1>8, SameVarsStep DEF Var, restart, modelFound, solveFails, newVar, Call
  <2>3. 0 \in Nat /\ 0 <= decisionLevel
    BY DEF Structure, TypeOK, AssignmentType, decisionLevel
  <2>4. ASSUME NEW v \in Var, assigns[v] # l_Undef, level(v) = 0 PROVE KeepsValue(v)
    <3>1. AssignsAt(0)[v] = assigns[v]
      BY <2>3, <2>4, CancelKeeps
    <3> QED
      BY <2>1, <3>1 DEF KeepsValue
  <2> QED
    BY <2>2, <2>4, StayFacts
<1>9. CASE learn
  <2>1. PICK s, o, bt : Learns(s, o, bt)
    BY <1>9, LearnDoes
  <2>2. decisionLevel' \in Nat /\ decisionLevel' = bt
    BY <2>1 DEF Learns, Structure, TypeOK, AssignmentType, decisionLevel
  <2>3. Var' = Var
    BY <1>9, SameVarsStep DEF Var, learn, newVar, Call
  <2>4. ASSUME NEW v \in Var, assigns[v] # l_Undef, level(v) = 0 PROVE KeepsValue(v)
    <3>1. level(v) <= bt
      BY <2>2, <2>4
    <3> QED
      BY <2>1, <2>4, <3>1 DEF Learns
  <2> QED
    BY <2>3, <2>4, StayFacts
<1>10. CASE newVar
  <2>1. Var' = 0 .. nVars /\ nVars \in Nat
    BY <1>10, OneMoreVar DEF Structure, TypeOK, VarsType
  <2>2. /\ assigns' = [x \in 0 .. nVars |-> IF x = nVars THEN l_Undef ELSE assigns[x]]
        /\ vardata' = [x \in 0 .. nVars |-> IF x = nVars THEN [reason |-> CRef_Undef, level |-> 0] ELSE vardata[x]]
    BY <1>10 DEF newVar
  <2>3. ASSUME NEW v \in Var PROVE v \in Var' /\ KeepsValue(v)
    <3>1. v \in 0 .. nVars /\ v # nVars
      BY <2>1 DEF Var
    <3>2. assigns'[v] = assigns[v] /\ vardata'[v] = vardata[v]
      BY <2>2, <3>1
    <3> QED
      BY <2>1, <3>1, <3>2 DEF KeepsValue
  <2> QED
    BY <2>3, StayFacts
<1> QED
  BY <1>1, <1>2, <1>3, <1>4, <1>5, <1>6, <1>7, <1>8, <1>9, <1>10 DEF Next

(***************************************************************************)
(* A clause of the program stays, or goes when a fact makes it true.       *)
(***************************************************************************)
ClauseStays(cr) ==
  \/ \E x \in clauses' : \A q : Has(ca'[x].lits, q) => Has(ca[cr].lits, q)
  \/ \E q : Has(ca[cr].lits, q) /\ Fact(q)'

LEMMA StayClauses ==
  ASSUME clauses \subseteq clauses', \A cr \in clauses : \A q : Has(ca'[cr].lits, q) => Has(ca[cr].lits, q),
         NEW cr \in clauses
  PROVE  ClauseStays(cr)
BY DEF ClauseStays

LEMMA RemovedClauses ==
  ASSUME Structure, NEW R, RemoveClauses(R), NEW cr \in clauses, cr \notin R
  PROVE  ClauseStays(cr)
<1>1. cr \in DOMAIN ca
  BY DEF Structure, TypeOK, DatabaseType
<1>2. cr \in clauses' /\ ca'[cr].lits = ca[cr].lits
  BY <1>1, RemovedLevels DEF RemoveClauses
<1> QED
  BY <1>2 DEF ClauseStays

LEMMA ClausesStayNext ==
  ASSUME Structure, Structure', Apart, [Next]_vars, NEW cr \in clauses
  PROVE  ClauseStays(cr)
<1>0. clauses \subseteq DOMAIN ca /\ ca \in Seq(ClauseSet)
  BY DEF Structure, TypeOK, DatabaseType
<1>1. CASE UNCHANGED vars \/ newVar \/ clauseAdded \/ check \/ checkFails \/ solve \/ propagate \/ nextFact
             \/ endOfList \/ propagated \/ simplifyEnds
  <2>1. UNCHANGED <<clauses, ca>>
    BY <1>1 DEF vars, db, newVar, clauseAdded, check, checkFails, solve, propagate, nextFact,
                endOfList, propagated, simplifyEnds
  <2> QED
    BY <2>1, StayClauses
<1>2. CASE noGarbage \/ conflictAtRoot \/ conflict \/ analyze \/ minimize \/ litRedundant \/ noConflict \/ noReduce
             \/ decide \/ restart \/ modelFound \/ solveFails
  <2>1. UNCHANGED <<clauses, ca>>
    BY <1>2 DEF db, noGarbage, conflictAtRoot, conflict, analyze, minimize, litRedundant, noConflict, noReduce,
                decide, restart, modelFound, solveFails
  <2> QED
    BY <2>1, StayClauses
<1>3. CASE simplify
  <2>1. PICK R : R = {x \in Live : satisfied(lits(x))} /\ RemoveClauses(R)
    BY <1>3 DEF simplify
  <2>2. CASE cr \in R
    <3>1. PICK j \in DOMAIN lits(cr) : value(lits(cr)[j]) = l_True
      BY <2>1, <2>2 DEF satisfied
    <3>2. PICK q : q = lits(cr)[j]
      OBVIOUS
    <3>3. q \in Lit /\ value(q) = l_True
      BY <2>1, <2>2, <3>1, <3>2, LiveClause
    <3>4. level(var(q)) \in Nat /\ level(var(q)) <= decisionLevel /\ \E k \in 1 .. nAssigns : trail[k] = q
      BY <3>3, FalseLiteral, TruthValues
    <3>5. decisionLevel = 0
      BY <1>3 DEF simplify, Structure, Control, AtRoot
    <3>6. DOMAIN trail = 1 .. nAssigns
      BY DEF Structure, TypeOK, AssignmentType, nAssigns
    <3>7. Fact(q)
      BY <3>4, <3>5, <3>6 DEF Fact
    <3>8. Fact(q)'
      BY <3>7, StayNext DEF FactsStay
    <3>9. Has(ca[cr].lits, q)
      BY <3>1, <3>2 DEF Has, lits
    <3> QED
      BY <3>8, <3>9 DEF ClauseStays
  <2> QED
    BY <2>1, <2>2, RemovedClauses
<1>4. CASE reduceDB
  <2>1. PICK R \in SUBSET Removable : RemoveClauses(R)
    BY <1>4 DEF reduceDB
  <2>2. cr \notin R
    BY <2>1 DEF Removable, Apart
  <2> QED
    BY <2>1, <2>2, RemovedClauses
<1>5. CASE garbageCollect
  <2>1. PICK W, new : Collected(W, new)
    BY <1>5, CollectorMoves
  <2>2. PICK x : x = new[cr]
    OBVIOUS
  <2>3. x \in clauses' /\ ca'[x] = ca[cr]
    BY <2>1, <2>2 DEF Collected, Live
  <2> QED
    BY <2>3 DEF ClauseStays
<1>6. CASE addClause
  <2>1. PICK S : AddDoes(S)
    BY <1>6, AddClauseDoes
  <2>2. CASE UNCHANGED <<clauses, ca>>
    BY <2>2, StayClauses
  <2>3. CASE AddsClause(S)
    <3>1. clauses \subseteq clauses' /\ \A x \in DOMAIN ca : ca'[x] = ca[x]
      BY <2>3 DEF AddsClause
    <3> QED
      BY <1>0, <3>1, StayClauses
  <2> QED
    BY <2>1, <2>2, <2>3 DEF AddDoes, AddsNothing, AddsFalse, AddsFact
<1>7. CASE watcher
  <2>1. PICK x, c : TurnDoes(x, c)
    BY <1>7, WatcherDoes
  <2>2. clauses' = clauses
    BY <1>7 DEF watcher
  <2>3. \A y \in clauses : \A q : Has(ca'[y].lits, q) => Has(ca[y].lits, q)
    BY <2>1 DEF TurnDoes, SameLiterals, Live
  <2> QED
    BY <2>2, <2>3, StayClauses
<1>8. CASE learn
  <2>1. PICK s, o, bt : Learns(s, o, bt)
    BY <1>8, LearnDoes
  <2>2. clauses' = clauses /\ \A x \in clauses : ca'[x] = ca[x]
    BY <2>1 DEF Learns, Live
  <2> QED
    BY <2>2, StayClauses
<1> QED
  BY <1>1, <1>2, <1>3, <1>4, <1>5, <1>6, <1>7, <1>8 DEF Next

(***************************************************************************)
(* Once the solver has given up it stays so.                               *)
(***************************************************************************)
LEMMA OkEnds == ASSUME Structure, [Next]_vars, ok' PROVE ok
<1>1. CASE UNCHANGED vars \/ newVar \/ check \/ checkFails \/ solve \/ propagate \/ nextFact
             \/ endOfList \/ propagated
  BY <1>1 DEF vars, db, newVar, check, checkFails, solve, propagate, nextFact, endOfList, propagated
<1>2. CASE noGarbage \/ conflictAtRoot \/ conflict \/ analyze \/ minimize \/ litRedundant \/ noConflict \/ noReduce
             \/ decide \/ restart \/ modelFound \/ solveFails
  BY <1>2 DEF db, noGarbage, conflictAtRoot, conflict, analyze, minimize, litRedundant, noConflict, noReduce,
              decide, restart, modelFound, solveFails
<1>3. CASE simplify \/ reduceDB \/ garbageCollect \/ watcher \/ learn \/ simplifyEnds
  BY <1>3 DEF simplify, reduceDB, garbageCollect, watcher, learn, simplifyEnds
<1>4. CASE clauseAdded
  BY <1>4 DEF clauseAdded, Structure, Control
<1>5. CASE addClause
  <2>1. PICK S : AddDoes(S)
    BY <1>5, AddClauseDoes
  <2> QED
    BY <2>1 DEF AddDoes, AddsNothing, AddsFalse, AddsFact, AddsClause
<1> QED
  BY <1>1, <1>2, <1>3, <1>4, <1>5 DEF Next

(***************************************************************************)
(* What has been done about a clause that was added stays done.            *)
(***************************************************************************)
Done(S) == Tautology(S) \/ (\E q \in S : Fact(q)) \/ Represented(S)

LEMMA AddsIs == Adds <=> (ok => \A S \in added : Done(S))
<1>1. \A S : TrueForGood(S) <=> \E q \in S : Fact(q)
  BY DEF TrueForGood, Fact
<1> QED
  BY <1>1 DEF Adds, Done

LEMMA DoneStays ==
  ASSUME Structure, Structure', Apart, [Next]_vars, NEW S, Done(S)
  PROVE  Done(S)'
<1>1. CASE Tautology(S)
  BY <1>1 DEF Done, Tautology
<1>2. CASE \E q \in S : Fact(q)
  BY <1>2, StayNext DEF Done, FactsStay
<1>3. CASE Represented(S)
  <2>1. PICK cr \in clauses : \A j \in DOMAIN lits(cr) : lits(cr)[j] \in S
    BY <1>3 DEF Represented
  <2>2. \A q : Has(ca[cr].lits, q) => q \in S
    BY <2>1 DEF Has, lits
  <2>3. CASE \E x \in clauses' : \A q : Has(ca'[x].lits, q) => Has(ca[cr].lits, q)
    <3>1. PICK x \in clauses' : \A q : Has(ca'[x].lits, q) => q \in S
      BY <2>2, <2>3
    <3>2. \A j \in DOMAIN ca'[x].lits : ca'[x].lits[j] \in S
      BY <3>1 DEF Has
    <3> QED
      BY <3>2 DEF Done, Represented, lits
  <2>4. CASE \E q : Has(ca[cr].lits, q) /\ Fact(q)'
    BY <2>2, <2>4 DEF Done
  <2> QED
    BY <2>3, <2>4, ClausesStayNext DEF ClauseStays
<1> QED
  BY <1>1, <1>2, <1>3 DEF Done

LEMMA AddsDone ==
  ASSUME Structure, Structure', NEW S, AddDoes(S), ok'
  PROVE  Done(S)'
<1>1. S \subseteq Lit /\ decisionLevel = 0
  BY DEF AddDoes
<1>2. CASE AddsNothing(S)
  <2>1. ok /\ UNCHANGED <<vardata, trail>>
    BY <1>2 DEF AddsNothing
  <2>2. PICK p \in S : value(p) = l_True \/ neg(p) \in S
    BY <1>2, <2>1 DEF AddsNothing, Redundant
  <2>3. CASE neg(p) \in S
    BY <2>3 DEF Done, Tautology
  <2>4. CASE value(p) = l_True
    <3>1. p \in Lit
      BY <1>1
    <3>2. level(var(p)) \in Nat /\ level(var(p)) <= decisionLevel /\ \E k \in 1 .. nAssigns : trail[k] = p
      BY <2>4, <3>1, FalseLiteral, TruthValues
    <3>3. DOMAIN trail = 1 .. nAssigns
      BY DEF Structure, TypeOK, AssignmentType, nAssigns
    <3>4. Fact(p)
      BY <1>1, <3>2, <3>3 DEF Fact
    <3>5. Fact(p)'
      BY <2>1, <3>4 DEF Fact, level
    <3> QED
      BY <3>5 DEF Done
  <2> QED
    BY <2>2, <2>3, <2>4
<1>3. CASE AddsFact(S)
  <2>1. PICK p \in S : value(p) = l_Undef /\ uncheckedEnqueue(p, CRef_Undef, 0, assigns, vardata, trail)
    BY <1>3 DEF AddsFact
  <2>2. p \in Lit /\ CRef_Undef \in Nat /\ 0 \in Nat
    BY <1>1, <2>1 DEF CRef_Undef
  <2>3. level(var(p))' = 0
    BY <2>1, <2>2, EnqueueKeeps
  <2>4. trail \in Seq(Lit) /\ trail' = Append(trail, p)
    BY <2>1 DEF uncheckedEnqueue, Enqueued, Structure, TypeOK, AssignmentType
  <2>5. Len(trail) + 1 \in DOMAIN trail' /\ trail'[Len(trail) + 1] = p
    BY <2>4
  <2>6. Fact(p)'
    BY <2>3, <2>5 DEF Fact
  <2> QED
    BY <2>6 DEF Done
<1>4. CASE AddsClause(S)
  <2>1. PICK n \in clauses' : \A j \in DOMAIN ca'[n].lits : ca'[n].lits[j] \in S
    BY <1>4 DEF AddsClause
  <2> QED
    BY <2>1 DEF Done, Represented, lits
<1> QED
  BY <1>2, <1>3, <1>4 DEF AddDoes, AddsFalse

LEMMA AddsNext ==
  ASSUME Structure, Structure', Apart, Adds, [Next]_vars
  PROVE  Adds'
<1> SUFFICES ASSUME ok', NEW S \in added' PROVE Done(S)'
  BY AddsIs DEF Adds, Done, Fact, TrueForGood, Represented, Tautology, lits, level
<1>1. ok
  BY OkEnds
<1>2. CASE S \in added
  BY <1>1, <1>2, AddsIs, DoneStays
<1>3. CASE S \notin added
  <2>1. addClause
    BY <1>3, SameAdded
  <2>2. PICK T : AddDoes(T)
    BY <2>1, AddClauseDoes
  <2>3. S = T
    BY <1>3, <2>2 DEF AddDoes
  <2> QED
    BY <2>2, <2>3, AddsDone
<1> QED
  BY <1>2, <1>3

(***************************************************************************)
(* A learnt clause is not one of the program's.                            *)
(***************************************************************************)
LEMMA ApartNext ==
  ASSUME Structure, Apart, [Next]_vars
  PROVE  Apart'
<1>0. clauses \subseteq DOMAIN ca /\ learnts \subseteq DOMAIN ca /\ ca \in Seq(ClauseSet)
  BY DEF Structure, TypeOK, DatabaseType
<1>1. CASE UNCHANGED vars \/ newVar \/ clauseAdded \/ check \/ checkFails \/ solve \/ propagate \/ nextFact
             \/ endOfList \/ propagated \/ simplifyEnds \/ watcher
  BY <1>1 DEF vars, db, newVar, clauseAdded, check, checkFails, solve, propagate, nextFact,
              endOfList, propagated, simplifyEnds, watcher, Apart
<1>2. CASE noGarbage \/ conflictAtRoot \/ conflict \/ analyze \/ minimize \/ litRedundant \/ noConflict \/ noReduce
             \/ decide \/ restart \/ modelFound \/ solveFails
  BY <1>2 DEF db, noGarbage, conflictAtRoot, conflict, analyze, minimize, litRedundant, noConflict, noReduce,
              decide, restart, modelFound, solveFails, Apart
<1>3. CASE simplify \/ reduceDB
  <2>1. PICK R : RemoveClauses(R)
    BY <1>3 DEF simplify, reduceDB
  <2> QED
    BY <2>1 DEF RemoveClauses, Apart
<1>4. CASE garbageCollect
  <2>1. PICK W, new : Collected(W, new)
    BY <1>4, CollectorMoves
  <2>2. /\ \A x, y \in Live : new[x] = new[y] => x = y
        /\ clauses' = {new[cr] : cr \in clauses} /\ learnts' = {new[cr] : cr \in learnts}
    BY <2>1 DEF Collected
  <2> SUFFICES ASSUME NEW n, n \in clauses', n \in learnts' PROVE FALSE
    BY DEF Apart
  <2>3. PICK x \in clauses, y \in learnts : new[x] = n /\ new[y] = n
    BY <2>2
  <2> QED
    BY <2>2, <2>3 DEF Live, Apart
<1>5. CASE addClause
  <2>1. PICK S : AddDoes(S)
    BY <1>5, AddClauseDoes
  <2>2. learnts' = learnts /\ (clauses' = clauses \/ \E n : n \notin DOMAIN ca /\ clauses' = clauses \cup {n})
    BY <2>1 DEF AddDoes, AddsNothing, AddsFalse, AddsFact, AddsClause
  <2> QED
    BY <1>0, <2>2 DEF Apart
<1>6. CASE learn
  <2>1. clauses' = clauses /\ (learnts' = learnts \/ learnts' = learnts \cup {Len(ca) + 1})
    BY <1>6 DEF learn
  <2>2. Len(ca) + 1 \notin DOMAIN ca
    BY <1>0
  <2> QED
    BY <1>0, <2>1, <2>2 DEF Apart
<1> QED
  BY <1>1, <1>2, <1>3, <1>4, <1>5, <1>6 DEF Next

(***************************************************************************)
(* Every unassigned variable is in the heap.                               *)
(***************************************************************************)
LEMMA HeapStep ==
  ASSUME Heap, Var' = Var, \A v \in Var : assigns'[v] = l_Undef => v \in order_heap' \/ (assigns[v] = l_Undef /\ order_heap \subseteq order_heap')
  PROVE  Heap'
BY DEF Heap

LEMMA HeapEnqueue ==
  ASSUME Structure, Heap, Var' = Var, order_heap' = order_heap, NEW p \in Lit, value(p) = l_Undef, NEW from \in Nat,
         NEW lvl \in Nat, uncheckedEnqueue(p, from, lvl, assigns, vardata, trail)
  PROVE  Heap'
<1>1. \A v \in Var : assigns[v] # l_Undef => KeepsValue(v)
  BY EnqueueKeeps
<1>2. \A v \in Var : assigns'[v] = l_Undef => assigns[v] = l_Undef
  BY <1>1 DEF KeepsValue
<1> QED
  BY <1>2, HeapStep

LEMMA UndoneIs ==
  ASSUME Structure, NEW lvl, NEW v \in Var, AssignsAt(lvl)[v] = l_Undef
  PROVE  v \in Undone(lvl) \/ assigns[v] = l_Undef
BY DEF AssignsAt

LEMMA HeapNext == ASSUME Structure, Structure', Heap, [Next]_vars PROVE Heap'
<1>1. CASE UNCHANGED vars \/ clauseAdded \/ check \/ checkFails \/ solve \/ propagate \/ nextFact
             \/ endOfList \/ propagated \/ simplifyEnds
  <2>1. UNCHANGED <<assigns, order_heap>>
    BY <1>1 DEF vars, assignment, clauseAdded, check, checkFails, solve, propagate, nextFact,
                endOfList, propagated, simplifyEnds
  <2> QED
    BY <2>1 DEF Heap, Var, nVars
<1>2. CASE garbageCollect \/ noGarbage \/ conflictAtRoot \/ conflict \/ analyze \/ minimize \/ litRedundant
             \/ noConflict \/ noReduce \/ reduceDB
  <2>1. UNCHANGED <<assigns, order_heap>>
    BY <1>2 DEF assignment, garbageCollect, noGarbage, conflictAtRoot, conflict, analyze, minimize, litRedundant,
                noConflict, noReduce, reduceDB
  <2> QED
    BY <2>1 DEF Heap, Var, nVars
<1>3. CASE newVar
  <2>1. Var' = 0 .. nVars /\ nVars \in Nat
    BY <1>3, OneMoreVar DEF Structure, TypeOK, VarsType
  <2>2. /\ assigns' = [x \in 0 .. nVars |-> IF x = nVars THEN l_Undef ELSE assigns[x]]
        /\ order_heap' = order_heap \cup {nVars}
    BY <1>3 DEF newVar
  <2> SUFFICES ASSUME NEW v \in 0 .. nVars, assigns'[v] = l_Undef PROVE v \in order_heap'
    BY <2>1 DEF Heap
  <2>3. CASE v # nVars
    <3>1. v \in Var /\ assigns[v] = l_Undef
      BY <2>1, <2>2, <2>3 DEF Var
    <3> QED
      BY <2>2, <3>1 DEF Heap
  <2> QED
    BY <2>2, <2>3
<1>4. CASE simplify
  <2>1. order_heap' = {v \in Var : assigns[v] = l_Undef} /\ assigns' = assigns
    BY <1>4 DEF simplify
  <2> QED
    BY <2>1 DEF Heap, Var, nVars
<1>5. CASE addClause
  <2>1. PICK S : AddDoes(S)
    BY <1>5, AddClauseDoes
  <2>2. order_heap' = order_heap
    BY <1>5 DEF addClause, assignment
  <2>3. CASE assigns' = assigns
    BY <2>2, <2>3 DEF Heap, Var, nVars
  <2>4. CASE AddsFact(S)
    <3>1. PICK p \in S : value(p) = l_Undef /\ uncheckedEnqueue(p, CRef_Undef, 0, assigns, vardata, trail)
      BY <2>4 DEF AddsFact
    <3>2. p \in Lit /\ CRef_Undef \in Nat /\ 0 \in Nat
      BY <2>1, <3>1 DEF AddDoes, CRef_Undef
    <3>3. Var' = Var
      BY <1>5, SameVarsStep DEF Var, addClause, newVar, Call
    <3> QED
      BY <2>2, <3>1, <3>2, <3>3, HeapEnqueue
  <2> QED
    BY <2>1, <2>3, <2>4 DEF AddDoes, AddsNothing, AddsFalse, AddsClause
<1>6. CASE watcher
  <2>1. PICK cr, c : TurnDoes(cr, c)
    BY <1>6, WatcherDoes
  <2>2. order_heap' = order_heap
    BY <1>6 DEF watcher
  <2>3. CASE assigns' = assigns
    BY <2>2, <2>3 DEF Heap, Var, nVars
  <2>4. CASE UnitClause(cr, c) /\ uncheckedEnqueue(c[1], cr, decisionLevel, assigns, vardata, trail)
    <3>1. PICK p, d : p = c[1] /\ d = decisionLevel
      OBVIOUS
    <3>2. p \in Lit /\ value(p) = l_Undef /\ cr \in Nat
      BY <2>1, <2>4, <3>1 DEF UnitClause, TurnDoes
    <3>3. d \in Nat
      BY <3>1 DEF Structure, TypeOK, AssignmentType, decisionLevel
    <3>4. Var' = Var
      BY <1>6, SameVarsStep DEF Var, watcher, newVar, Call
    <3> QED
      BY <2>2, <2>4, <3>1, <3>2, <3>3, <3>4, HeapEnqueue
  <2> QED
    BY <2>1, <2>3, <2>4 DEF TurnDoes
<1>7. CASE decide
  <2>1. PICK v \in order_heap, skipped \in SUBSET {x \in order_heap : assigns[x] # l_Undef} :
          /\ assigns[v] = l_Undef /\ order_heap' = order_heap \ (skipped \cup {v})
          /\ uncheckedEnqueue(2 * v + polarity[v], CRef_Undef, decisionLevel + 1, assigns, vardata, trail)
    BY <1>7 DEF decide
  <2>2. VarsType /\ AssignmentType
    BY DEF Structure, TypeOK
  <2>3. v \in Var /\ v \in Nat /\ polarity[v] \in 0 .. 1
    BY <2>1, <2>2, Literals DEF AssignmentType
  <2>4. PICK p : p = 2 * v + polarity[v]
    OBVIOUS
  <2>5. p \in Nat /\ var(p) = v /\ sign(p) \in 0 .. 1
    <3>1. p \in Nat /\ var(p) = v
      BY <2>3, <2>4, LitMade
    <3> QED
      BY <3>1, LitFacts
  <2>6. assigns' = [assigns EXCEPT ![v] = sign(p)] /\ assigns \in [Var -> 0 .. 2]
    BY <2>1, <2>2, <2>4, <2>5 DEF uncheckedEnqueue, Enqueued, AssignmentType
  <2>7. assigns'[v] # l_Undef /\ \A x \in Var : x # v => assigns'[x] = assigns[x]
    BY <2>3, <2>5, <2>6 DEF l_Undef
  <2>8. Var' = Var
    BY <1>7, SameVarsStep DEF Var, decide, newVar, Call
  <2> SUFFICES ASSUME NEW x \in Var, assigns'[x] = l_Undef PROVE x \in order_heap'
    BY <2>8 DEF Heap
  <2>9. x # v /\ assigns[x] = l_Undef
    BY <2>7
  <2> QED
    BY <2>1, <2>9 DEF Heap
<1>8. CASE restart \/ modelFound \/ solveFails
  <2>1. assigns' = AssignsAt(0)
    BY <1>8 DEF restart, modelFound, solveFails, cancelUntil
  <2>2. Var' = Var
    BY <1>8, SameVarsStep DEF Var, restart, modelFound, solveFails, newVar, Call
  <2>3. \/ order_heap' = order_heap \cup Undone(0)
        \/ order_heap' = Undone(0) /\ \A v \in order_heap : assigns[v] # l_Undef
    BY <1>8 DEF restart, modelFound, solveFails, cancelUntil, cancelUntilRest
  <2> SUFFICES ASSUME NEW v \in Var, assigns'[v] = l_Undef PROVE v \in order_heap'
    BY <2>2 DEF Heap
  <2>4. v \in Undone(0) \/ assigns[v] = l_Undef
    BY <2>1, UndoneIs
  <2> QED
    BY <2>3, <2>4 DEF Heap
<1>9. CASE learn
  <2>1. \E p, from, bt : /\ p \in Nat /\ uncheckedEnqueue(p, from, bt, AssignsAt(bt), vardata, TrailAt(bt))
                         /\ order_heap' = order_heap \cup Undone(bt)
    <3>1. PICK o : o = IF Len(an.kept) = 1 THEN an.kept
                       ELSE [an.kept EXCEPT ![2] = an.kept[Highest(an.kept)], ![Highest(an.kept)] = an.kept[2]]
      OBVIOUS
    <3>2. PICK bt : bt = IF Len(an.kept) = 1 THEN 0 ELSE level(var(o[2]))
      OBVIOUS
    <3>3. PICK from : from = IF Len(an.kept) = 1 THEN CRef_Undef ELSE Len(ca) + 1
      OBVIOUS
    <3>4. cancelUntilRest(bt) /\ uncheckedEnqueue(o[1], from, bt, AssignsAt(bt), vardata, TrailAt(bt))
      BY <1>9, <3>1, <3>2, <3>3 DEF learn
    <3>5. AtLearn(an.kept, o, bt)
      BY <1>9, <3>1, <3>2 DEF learn, AtLearn, Exchanged
    <3>6. o[1] \in Lit
      BY <3>5, LearntClause
    <3>7. o[1] \in Nat
      BY <3>6, FalseLiteral
    <3> QED
      BY <3>4, <3>7 DEF cancelUntilRest
  <2>7. PICK p, from, bt : /\ p \in Nat /\ uncheckedEnqueue(p, from, bt, AssignsAt(bt), vardata, TrailAt(bt))
                           /\ order_heap' = order_heap \cup Undone(bt)
    BY <2>1
  <2>2. Var' = Var
    BY <1>9, SameVarsStep DEF Var, learn, newVar, Call
  <2>3. PICK A : A = AssignsAt(bt)
    OBVIOUS
  <2>4. assigns' = [A EXCEPT ![var(p)] = sign(p)] /\ DOMAIN A = Var
    BY <2>3, <2>7 DEF uncheckedEnqueue, Enqueued, AssignsAt
  <2> SUFFICES ASSUME NEW v \in Var, assigns'[v] = l_Undef PROVE v \in order_heap'
    BY <2>2 DEF Heap
  <2>5. A[v] = l_Undef \/ assigns[v] = l_Undef
    <3>1. v # var(p) => assigns'[v] = A[v]
      BY <2>4
    <3>2. CASE v = var(p)
      <4>1. sign(p) # 2
        BY <2>7, LitFacts
      <4> QED
        BY <2>4, <3>2, <4>1 DEF l_Undef
    <3> QED
      BY <3>1, <3>2
  <2>6. v \in Undone(bt) \/ assigns[v] = l_Undef
    BY <2>3, <2>5, UndoneIs
  <2> QED
    BY <2>6, <2>7 DEF Heap
<1> QED
  BY <1>1, <1>2, <1>3, <1>4, <1>5, <1>6, <1>7, <1>8, <1>9 DEF Next

(***************************************************************************)
(* A check is being answered exactly while the solver is at it.            *)
(***************************************************************************)
LEMMA AskedSame ==
  ASSUME Asked, answer' = answer, pc # "idle", pc' # "idle", Adding' <=> Adding
  PROVE  Asked'
BY DEF Asked

LEMMA AskedNext == ASSUME Structure, Structure', Asked, [Next]_vars PROVE Asked'
<1>1. CASE UNCHANGED vars \/ newVar
  <2>1. pc' = pc /\ stack' = stack /\ answer' = answer
    BY <1>1 DEF vars, input, newVar
  <2> QED
    BY <2>1 DEF Asked, Adding, InPropagate
<1>2. CASE addClause
  <2>1. pc = "idle" /\ answer' = "none" /\ ((pc' = pc /\ stack' = stack) \/ (pc' = "propagate" /\ stack' = <<"addClause">>))
    BY <1>2 DEF addClause, Call
  <2> QED
    BY <2>1 DEF Asked, Adding, InPropagate
<1>3. CASE clauseAdded \/ check \/ checkFails \/ modelFound \/ solveFails
  <2>1. CASE clauseAdded
    BY <2>1 DEF clauseAdded, input, Asked, Adding, InPropagate
  <2>2. CASE check
    <3>1. answer' = "asked" /\ ((pc' = "propagate" /\ stack' = <<"simplify", "solve">>) \/ pc' = "unsat")
      BY <2>2 DEF check
    <3>2. <<"simplify", "solve">> # <<"addClause">>
      OBVIOUS
    <3> QED
      BY <3>1, <3>2 DEF Asked, Adding, InPropagate
  <2>3. CASE checkFails \/ modelFound \/ solveFails
    BY <2>3 DEF checkFails, modelFound, solveFails, Asked, Adding, InPropagate
  <2> QED
    BY <1>3, <2>1, <2>2, <2>3
<1>4. CASE solve \/ restart \/ learn \/ decide
  <2>1. pc' = "propagate" /\ stack' = <<"search">> /\ answer' = answer /\ pc \in {"solve", "search", "minimize", "decide"}
    BY <1>4 DEF solve, restart, learn, decide, input
  <2>2. <<"search">> # <<"addClause">>
    OBVIOUS
  <2>3. ~Adding /\ ~Adding' /\ pc # "idle" /\ pc' # "idle"
    BY <2>1, <2>2 DEF Adding, InPropagate
  <2> QED
    BY <2>1, <2>3, AskedSame
<1>5. CASE propagate \/ nextFact \/ watcher \/ endOfList
  <2>1. InPropagate /\ InPropagate' /\ stack' = stack /\ answer' = answer
    BY <1>5 DEF propagate, nextFact, watcher, endOfList, input, InPropagate
  <2>2. (Adding' <=> Adding) /\ pc # "idle" /\ pc' # "idle"
    BY <2>1 DEF Adding, InPropagate
  <2> QED
    BY <2>1, <2>2, AskedSame
<1>6. CASE propagated
  <2>1. pc = "facts" /\ pc' = Head(stack) /\ answer' = answer
    BY <1>6 DEF propagated, input
  <2>2. stack \in {<<"addClause">>, <<"simplify", "solve">>, <<"search">>, <<"simplify", "reduce">>}
    BY <2>1 DEF Structure, Control, Returns, InPropagate
  <2>3. CASE stack = <<"addClause">>
    <3>1. pc' = "addClause"
      BY <2>1, <2>3, OneFrame
    <3> QED
      BY <2>1, <2>3, <3>1 DEF Asked, Adding, InPropagate
  <2>4. CASE stack # <<"addClause">>
    <3>1. pc' \in {"simplify", "search"}
      BY <2>1, <2>2, <2>4, OneFrame, TwoFrames
    <3> QED
      BY <2>1, <2>4, <3>1 DEF Asked, Adding, InPropagate
  <2> QED
    BY <2>3, <2>4
<1>7. CASE garbageCollect \/ noGarbage
  <2>1. pc = "garbage" /\ pc' = Head(stack) /\ answer' = answer
    BY <1>7 DEF garbageCollect, noGarbage, input
  <2>2. stack \in {<<"solve">>, <<"reduce">>, <<"decide">>}
    BY <2>1 DEF Structure, Control, Returns, InPropagate
  <2>3. pc' \in {"solve", "reduce", "decide"}
    BY <2>1, <2>2, OneFrame
  <2> QED
    BY <2>1, <2>3 DEF Asked, Adding, InPropagate
<1>8. CASE simplifyEnds
  <2>1. pc = "simplify" /\ (pc' = Head(stack) \/ pc' \in {"unsat", "l_False"}) /\ answer' = answer
    BY <1>8 DEF simplifyEnds, input
  <2>2. stack \in {<<"solve">>, <<"reduce">>}
    BY <2>1 DEF Structure, Control, Returns, InPropagate
  <2>3. pc' \in {"solve", "reduce", "unsat", "l_False"}
    BY <2>1, <2>2, OneFrame
  <2> QED
    BY <2>1, <2>3 DEF Asked, Adding, InPropagate
<1>9. CASE noConflict
  <2>1. /\ pc = "search" /\ answer' = answer
        /\ (pc' = "propagate" /\ stack' = <<"simplify", "reduce">>) \/ pc' = "reduce"
    BY <1>9 DEF noConflict, input
  <2>2. <<"simplify", "reduce">> # <<"addClause">>
    OBVIOUS
  <2> QED
    BY <2>1, <2>2 DEF Asked, Adding, InPropagate
<1>10. CASE simplify \/ conflictAtRoot \/ conflict \/ analyze \/ minimize \/ litRedundant \/ reduceDB \/ noReduce
  <2>1. /\ answer' = answer
        /\ pc \in {"simplify", "search", "analyze", "minimize", "litRedundant", "reduce"}
        /\ pc' \in {"garbage", "l_False", "analyze", "minimize", "litRedundant", "decide"}
    BY <1>10 DEF simplify, conflictAtRoot, conflict, analyze, minimize, litRedundant, reduceDB, noReduce, input
  <2> QED
    BY <2>1 DEF Asked, Adding, InPropagate
<1> QED
  BY <1>1, <1>2, <1>3, <1>4, <1>5, <1>6, <1>7, <1>8, <1>9, <1>10 DEF Next

LEMMA AnsweringInit == ASSUME Init PROVE Answering
<1>1. Adds /\ Apart /\ Asked
  BY DEF Init, Adds, Apart, Asked, Adding, InPropagate
<1>2. nVars = 0
  BY FS_EmptySet DEF Init, nVars
<1>3. Var = {}
  BY <1>2 DEF Var
<1> QED
  BY <1>1, <1>3 DEF Heap, Answering

LEMMA AnsweringNext ==
  ASSUME Structure, Structure', Answering, [Next]_vars
  PROVE  Answering'
BY AddsNext, ApartNext, HeapNext, AskedNext DEF Answering

(***************************************************************************)
(* Nothing that was added is lost, no variable is forgotten, and an answer *)
(* is due exactly while the solver works on a check.                       *)
(***************************************************************************)
THEOREM AnsweringThm == Spec => []Answering
<1>1. Init => Answering
  BY AnsweringInit
<1>2. Structure /\ Structure' /\ Answering /\ [Next]_vars => Answering'
  BY AnsweringNext
<1> QED
  BY <1>1, <1>2, StructureThm, PTL DEF Spec

-----------------------------------------------------------------------------
(***************************************************************************)
(* The solver keeps the promise of SatSpec.  `Shown' is the model a caller *)
(* sees.                                                                   *)
(***************************************************************************)
Shown == IF answer # "sat" THEN <<>>
         ELSE [v \in {x \in DOMAIN model : model[x] # l_Undef} |-> model[v] = l_True]

LEMMA RefinementInit == ASSUME Init PROVE Abs!Init
<1>1. nVars = 0
  BY FS_EmptySet DEF Init, nVars
<1> QED
  BY <1>1 DEF Init, Abs!Init

LEMMA RefinementStutter ==
  ASSUME nVars' = nVars, added' = added, answer' = answer, model' = model \/ answer # "sat"
  PROVE  UNCHANGED Abs!vars
BY DEF Abs!vars

(***************************************************************************)
(* When no variable is left to decide on the assignment makes every clause *)
(* that was added true.                                                    *)
(***************************************************************************)
Chosen(A) == A = [v \in Var |-> assigns[v] = l_True]

LEMMA ChosenHolds ==
  ASSUME Structure, \A v \in Var : assigns[v] # l_Undef, NEW A, Chosen(A), NEW p \in Lit
  PROVE  (H(p, A) <=> value(p) = l_True) /\ (value(p) = l_True \/ value(p) = l_False)
<1>1. p \in Nat /\ var(p) \in Var /\ assigns[var(p)] \in 0 .. 2
  BY FalseLiteral DEF Structure, TypeOK, AssignmentType
<1>2. assigns[var(p)] \in 0 .. 1 /\ sign(p) \in 0 .. 1
  BY <1>1, LitFacts DEF l_Undef
<1>3. H(p, A) <=> A[var(p)] = (sign(p) = 0)
  BY DEF H, Abs!Holds, Abs!var, Abs!sign, var, sign
<1>4. A[var(p)] = (assigns[var(p)] = 0)
  BY <1>1 DEF Chosen, l_True
<1>5. H(p, A) <=> (assigns[var(p)] = 0) = (sign(p) = 0)
  BY <1>3, <1>4
<1>6. H(p, A) <=> assigns[var(p)] = sign(p)
  BY <1>2, <1>5
<1>7. value(p) = l_True <=> assigns[var(p)] = sign(p)
  BY <1>1, ValueIs
<1>8. value(p) \in {l_True, l_False, l_Undef} /\ value(p) # l_Undef
  BY <1>1, ValueIs
<1> QED
  BY <1>6, <1>7, <1>8

LEMMA ChosenSatisfies ==
  ASSUME Structure, PropagationComplete, Propagated, Typed, Adds, ok, \A v \in Var : assigns[v] # l_Undef,
         NEW A, Chosen(A)
  PROVE  Abs!Satisfies(A, added)
<1> SUFFICES ASSUME NEW S \in added PROVE \E p \in S : H(p, A)
  BY DEF Abs!Satisfies, H
<1>1. S \subseteq Lit
  BY DEF Typed
<1>2. CASE Tautology(S)
  <2>1. PICK p \in S : neg(p) \in S
    BY <1>2 DEF Tautology
  <2>2. p \in Lit /\ neg(p) \in Lit
    BY <1>1, <2>1
  <2>3. p \in Nat /\ assigns[var(p)] \in 0 .. 2
    BY <2>2, FalseLiteral DEF Structure, TypeOK, AssignmentType
  <2>4. CASE value(p) = l_True
    BY <2>1, <2>2, <2>4, ChosenHolds
  <2>5. CASE value(p) = l_False
    <3>1. value(neg(p)) = l_True
      BY <2>3, <2>5, ValueNeg
    <3> QED
      BY <2>1, <2>2, <3>1, ChosenHolds
  <2> QED
    BY <2>2, <2>4, <2>5, ChosenHolds
<1>3. CASE TrueForGood(S)
  <2>1. PICK k \in DOMAIN trail : trail[k] \in S
    BY <1>3 DEF TrueForGood
  <2>2. value(trail[k]) = l_True /\ trail[k] \in Lit
    BY <1>1, <2>1, TrailSays
  <2> QED
    BY <2>1, <2>2, ChosenHolds
<1>4. CASE Represented(S)
  <2>1. PICK cr \in clauses : \A j \in DOMAIN lits(cr) : lits(cr)[j] \in S
    BY <1>4 DEF Represented
  <2>2. cr \in Live
    BY DEF Live
  <2>3. \A j \in DOMAIN lits(cr) : value(lits(cr)[j]) # l_Undef
    <3> SUFFICES ASSUME NEW j \in DOMAIN lits(cr) PROVE value(lits(cr)[j]) # l_Undef
      OBVIOUS
    <3>1. lits(cr)[j] \in Lit
      BY <2>2, LiveClause
    <3> QED
      BY <3>1, ChosenHolds, TruthValues
  <2>4. {j \in DOMAIN lits(cr) : value(lits(cr)[j]) = l_Undef} = {}
    BY <2>3
  <2>5. ~(Cardinality({}) >= 2)
    BY FS_EmptySet
  <2>6. satisfied(lits(cr))
    BY <2>2, <2>4, <2>5 DEF PropagationComplete
  <2>7. PICK j \in DOMAIN lits(cr) : value(lits(cr)[j]) = l_True
    BY <2>6 DEF satisfied
  <2>8. lits(cr)[j] \in Lit
    BY <2>2, LiveClause
  <2> QED
    BY <2>1, <2>7, <2>8, ChosenHolds
<1> QED
  BY <1>2, <1>3, <1>4 DEF Adds

LEMMA RefinementSat ==
  ASSUME Structure, TwoWatched, Soundness, Answering, modelFound
  PROVE  Abs!AnswerSat
<1>1. /\ pc = "decide" /\ \A v \in order_heap : assigns[v] # l_Undef
      /\ model' = assigns /\ answer' = "sat" /\ added' = added
  BY DEF modelFound
<1>2. \A v \in Var : assigns[v] # l_Undef
  BY <1>1 DEF Answering, Heap
<1>3. answer = "asked"
  BY <1>1 DEF Answering, Asked, Adding, InPropagate
<1>4. ok /\ confl = CRef_Undef
  BY <1>1 DEF Structure, Control
<1>5. PICK A : Chosen(A)
  BY DEF Chosen
<1>6. Abs!Satisfies(A, added)
  <2>1. PropagationComplete /\ Propagated
    BY <1>1, <1>4, CompleteFromWatches DEF Propagated
  <2> QED
    BY <1>2, <1>4, <1>5, <2>1, ChosenSatisfies DEF Soundness, Answering
<1>7. A \in Abs!Assignments(nVars)
  <2>1. A \in [Var -> BOOLEAN]
    BY <1>5 DEF Chosen
  <2> QED
    BY <2>1 DEF Abs!Assignments, Var
<1>8. Shown' = A
  <2>1. DOMAIN assigns = Var
    BY DEF Structure, TypeOK, VarsType
  <2>2. {x \in DOMAIN model' : model'[x] # l_Undef} = Var
    BY <1>1, <1>2, <2>1
  <2>3. Shown' = [v \in {x \in DOMAIN model' : model'[x] # l_Undef} |-> model'[v] = l_True]
    BY <1>1 DEF Shown
  <2>4. Shown' = [v \in Var |-> assigns[v] = l_True]
    BY <1>1, <2>2, <2>3
  <2> QED
    BY <1>5, <2>4 DEF Chosen
<1>9. nVars' = nVars
  BY SameVarsStep DEF Next, modelFound, newVar, Call
<1> QED
  BY <1>1, <1>3, <1>6, <1>7, <1>8, <1>9 DEF Abs!AnswerSat, Shown

LEMMA RefinementUnsat ==
  ASSUME Structure, Soundness, Answering, checkFails \/ solveFails
  PROVE  Abs!AnswerUnsat
<1>1. answer' = "unsat" /\ added' = added /\ (pc = "unsat" \/ pc = "l_False")
  BY DEF checkFails, solveFails
<1>2. answer = "asked"
  BY <1>1 DEF Answering, Asked, Adding, InPropagate
<1>3. ~ok \/ pc = "l_False"
  BY <1>1 DEF Structure, Control
<1>4. \A A \in Abs!Assignments(nVars) : ~Abs!Satisfies(A, added)
  BY <1>3 DEF Soundness, Sound, Follows
<1>5. nVars' = nVars
  BY <1>1, SameVarsStep DEF Next, newVar, Call
<1> QED
  BY <1>1, <1>2, <1>4, <1>5 DEF Abs!AnswerUnsat, Abs!Satisfiable

LEMMA RefinementNext ==
  ASSUME Structure, Structure', TwoWatched, Soundness, Answering, Answering', [Next]_vars
  PROVE  [Abs!Next]_(Abs!vars)
<1>1. CASE newVar
  <2>1. pc = "idle" /\ added' = added /\ answer' = answer /\ model' = model /\ nVars' = nVars + 1
    BY <1>1, OneMoreVar DEF newVar, Call
  <2>2. answer # "asked"
    BY <2>1 DEF Answering, Asked
  <2> QED
    BY <2>1, <2>2 DEF Abs!Next, Abs!NewVar
<1>2. CASE addClause
  <2>1. PICK S : AddDoes(S)
    BY <1>2, AddClauseDoes
  <2>2. pc = "idle" /\ answer' = "none" /\ nVars' = nVars
    BY <1>2, SameVarsStep DEF addClause, Call, newVar
  <2>3. answer # "asked"
    BY <2>2 DEF Answering, Asked
  <2>4. S \in SUBSET Abs!Literals(nVars) /\ added' = added \cup {S}
    BY <2>1 DEF AddDoes, Lit, Abs!Literals
  <2> QED
    BY <2>2, <2>3, <2>4 DEF Abs!Next, Abs!AddClause
<1>3. CASE check
  <2>1. pc = "idle" /\ answer' = "asked" /\ added' = added /\ nVars' = nVars
    BY <1>3, SameVarsStep DEF check, Call, newVar
  <2>2. answer # "asked"
    BY <2>1 DEF Answering, Asked
  <2> QED
    BY <2>1, <2>2 DEF Abs!Next, Abs!Ask
<1>4. CASE checkFails \/ solveFails
  BY <1>4, RefinementUnsat DEF Abs!Next
<1>5. CASE modelFound
  BY <1>5, RefinementSat DEF Abs!Next
<1>6. CASE solve
  <2>1. pc = "solve" /\ answer' = answer /\ added' = added /\ nVars' = nVars
    BY <1>6, SameVarsStep DEF solve, newVar, Call, input
  <2>2. answer # "sat"
    BY <2>1 DEF Answering, Asked, Adding, InPropagate
  <2> QED
    BY <2>1, <2>2, RefinementStutter
<1>7. CASE UNCHANGED vars \/ clauseAdded \/ propagate \/ nextFact \/ watcher \/ endOfList \/ propagated
             \/ simplifyEnds \/ simplify \/ garbageCollect \/ noGarbage
  <2>1. UNCHANGED <<added, answer, model>>
    BY <1>7 DEF vars, input, clauseAdded, propagate, nextFact, watcher, endOfList, propagated, simplifyEnds,
                simplify, garbageCollect, noGarbage
  <2>2. CASE UNCHANGED vars
    <3>1. nVars' = nVars
      BY <2>2 DEF vars, assignment, nVars
    <3> QED
      BY <2>1, <3>1, RefinementStutter
  <2>3. CASE ~UNCHANGED vars
    <3>1. ~newVar
      BY <1>7, <2>3 DEF clauseAdded, propagate, nextFact, watcher, endOfList, propagated, simplifyEnds,
                        simplify, garbageCollect, noGarbage, newVar, Call
    <3> QED
      BY <2>1, <3>1, SameVarsStep, RefinementStutter
  <2> QED
    BY <2>2, <2>3
<1>8. CASE conflictAtRoot \/ conflict \/ analyze \/ minimize \/ litRedundant \/ learn \/ restart \/ noConflict
             \/ reduceDB \/ noReduce \/ decide
  <2>1. UNCHANGED <<added, answer, model>> /\ pc # "idle"
    BY <1>8 DEF input, conflictAtRoot, conflict, analyze, minimize, litRedundant, learn, restart, noConflict,
                reduceDB, noReduce, decide
  <2>2. nVars' = nVars
    BY <2>1, SameVarsStep DEF newVar, Call
  <2> QED
    BY <2>1, <2>2, RefinementStutter
<1> QED
  BY <1>1, <1>2, <1>3, <1>4, <1>5, <1>6, <1>7, <1>8 DEF Next

(***************************************************************************)
(* The bundled solver, however it branches, learns, minimizes, restarts,   *)
(* forgets and collects, implements SatSpec: "sat" comes with a value for  *)
(* every variable that satisfies every clause ever added, "unsat" only if  *)
(* no assignment does.                                                     *)
(***************************************************************************)
THEOREM ImplementsThm == Spec => Implements
<1>1. Init => Abs!Init
  BY RefinementInit
<1>2. Structure /\ Structure' /\ TwoWatched /\ Soundness /\ Answering /\ Answering' /\ [Next]_vars
        => [Abs!Next]_(Abs!vars)
  BY RefinementNext
<1> QED
  BY <1>1, <1>2, StructureThm, TwoWatchedThm, SoundnessThm, AnsweringThm, PTL DEF Spec, Implements, Abs!Spec
=============================================================================
