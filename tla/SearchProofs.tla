---------------------------- MODULE SearchProofs ----------------------------
(***************************************************************************)
(* search is correct, for every set of identifiers and every computation.  *)
(*                                                                         *)
(* The loop of Search.  Its inductive invariant relates the formula q the  *)
(* loop is at to the formula form it started from.  After k rounds q is    *)
(* what is left of form after k levels, with the assignments the passed    *)
(* levels decide taken out of every a; and no passed level holds for an    *)
(* assignment it decides.                                                  *)
(*                                                                         *)
(* The formulas of Space.  The operations of PartialF.hs say of every      *)
(* assignment what they should (by induction on the levels), so runS gives *)
(* a formula that says of every assignment what the computation means      *)
(* under it (by induction on the parts of the computation).                *)
(*                                                                         *)
(* Together: what search returns is about the computation.                 *)
(***************************************************************************)
EXTENDS SpaceSearch, Recursion, TLAPS

Depth == Len(form.levels) - Len(q.levels)

\* No assignment decided at one of the first k levels satisfies the formula.
Refuted(k) == \A i \in 1..k : \A m \in Assignment :
                  Decides(form, i, m) => m \notin form.levels[i].a

\* q is form from level Depth + 1 on, without the assignments already decided.
Remaining ==
    /\ Depth \in 0..Len(form.levels)
    /\ q.end = form.end
    /\ \A i \in 1..Len(q.levels) :
         /\ q.levels[i].p = form.levels[Depth + i].p
         /\ q.levels[i].a = {m \in form.levels[Depth + i].a :
                               \A j \in 1..Depth : m \notin form.levels[j].p}

\* No level passed decides everything: the loop would have ended there.
NotTotal == \A i \in 1..Depth : form.levels[i].p # Assignment

\* An assignment decided at one of the first k levels is decided first at one.
\* (That a set of levels has a first one needs induction: the loop does it.)
HasFirst(k) ==
    \A m \in Assignment : \/ \E i \in 1..k : Decides(form, i, m)
                          \/ \A i \in 1..k : m \notin form.levels[i].p

Progress ==
    /\ pc \in {"run", "solve"} => Refuted(Depth) /\ HasFirst(Depth)
    /\ pc = "approx" => Refuted(Depth + 1) /\ HasFirst(Depth + 1)
    /\ pc # "done" => result = Pending

Answers ==
    /\ result.kind = "just" => Holds(form, result.model)
    /\ result.kind = "nothing" =>
         \E k \in 1..Len(form.levels) : /\ form.levels[k].p = Assignment
                                        /\ Refuted(k) /\ HasFirst(k)
    /\ result.kind = "raised" => /\ form.end = "error"
                                 /\ Len(q.levels) = 0
                                 /\ Refuted(Len(form.levels))
    /\ result.kind = "no_match" => Len(q.levels) = 0 /\ form.end = "unreachable"

IInv == TypeOK /\ Remaining /\ NotTotal /\ Progress /\ Answers

-----------------------------------------------------------------------------
\* Rewriting a formula for the next round keeps its levels one for one.
LEMMA AndFRest ==
    ASSUME NEW f \in PartialSat, f.levels # <<>>, NEW x \in SUBSET Assignment,
           NEW g, g = andF_(x, Behind(f))
    PROVE  /\ g \in PartialSat
           /\ Len(g.levels) = Len(f.levels) - 1
           /\ g.end = f.end
           /\ \A i \in 1..Len(g.levels) : /\ g.levels[i].p = f.levels[i + 1].p
                                          /\ g.levels[i].a = x \cap f.levels[i + 1].a
<1> DEFINE n == Len(f.levels) - 1
           lv(i) == [p |-> f.levels[i + 1].p, a |-> andSat(x, f.levels[i + 1].a)]
           l == [i \in 1..n |-> lv(i)]
<1>1. /\ f.levels \in Seq(Level) /\ f.end \in End /\ n \in Nat
      /\ \A i \in 1..n : f.levels[i + 1] \in Level
  BY DEF PartialSat
<1>2. /\ Len(Tail(f.levels)) = n
      /\ \A i \in 1..n : Tail(f.levels)[i] = f.levels[i + 1]
  BY <1>1
<1>3. andF_(x, Behind(f)) = [levels |-> l, end |-> f.end]
  BY <1>2 DEF andF_, Behind
<1>4. \A i \in 1..n : lv(i) \in Level
  BY <1>1 DEF Level, andSat
<1>5. l \in Seq(Level) /\ Len(l) = n
  <2> HIDE DEF lv, n
  <2> QED BY <1>1, <1>4
<1>6. \A i \in 1..n : l[i] = lv(i)
  OBVIOUS
<1>7. g.levels = l /\ g.end = f.end
  BY <1>3
<1>8. g \in PartialSat
  BY <1>1, <1>3, <1>5 DEF PartialSat
<1>9. \A i \in 1..n : /\ g.levels[i].p = f.levels[i + 1].p
                      /\ g.levels[i].a = x \cap f.levels[i + 1].a
  BY <1>6, <1>7 DEF andSat
<1> HIDE DEF l
<1> QED
  BY <1>5, <1>7, <1>8, <1>9

-----------------------------------------------------------------------------
\* The values of the variables: the formula the loop is at stays a formula.
THEOREM TypeCorrect == Spec => []TypeOK
<1>1. Init => TypeOK
  BY SearchAssumption DEF Init, TypeOK, Pending, None, Kinds
<1>2. TypeOK /\ [Next]_vars => TypeOK'
  <2> SUFFICES ASSUME TypeOK, [Next]_vars PROVE TypeOK'
    OBVIOUS
  <2> USE DEF TypeOK
  <2>1. CASE DeBoolF
    BY <2>1 DEF DeBoolF, Finish, None, Kinds
  <2>2. CASE SolveFinite
    <3>1. q.levels \in Seq(Level) /\ q.levels # <<>>
      BY <2>2 DEF SolveFinite, PartialSat
    <3>2. Head(q.levels) \in Level
      BY <3>1
    <3>3. andSat(pp, pa) \subseteq Assignment
      BY <3>2 DEF pp, pa, andSat, Level
    <3> QED
      BY <2>2, <3>3 DEF SolveFinite, Finish
  <2>3. CASE SolveApprox
    <3>1. notSat(pp) \in SUBSET Assignment
      BY DEF notSat
    <3>2. q.levels # <<>>
      BY <2>3 DEF SolveApprox
    <3>3. andF_(notSat(pp), Behind(q)) \in PartialSat
      BY <3>1, <3>2, AndFRest
    <3> QED
      BY <2>3, <3>3 DEF SolveApprox, Finish, None, Kinds
  <2>4. CASE SolverFails
    BY <2>4 DEF SolverFails, Finish, None, Kinds
  <2>5. CASE Interrupted
    BY <2>5 DEF Interrupted, Finish, None, Kinds
  <2>6. CASE UNCHANGED vars
    BY <2>6 DEF vars
  <2> QED
    BY <2>1, <2>2, <2>3, <2>4, <2>5, <2>6 DEF Next
<1> QED
  BY <1>1, <1>2, PTL DEF Spec

-----------------------------------------------------------------------------
\* Facts about the lengths and the current level that every step below uses.
LEMMA CurrentLevel ==
    ASSUME TypeOK, Remaining, q.levels # <<>>
    PROVE  /\ Len(form.levels) \in Nat /\ Len(q.levels) \in Nat \ {0}
           /\ Depth \in Nat /\ Depth + 1 \in 1..Len(form.levels)
           /\ pp = form.levels[Depth + 1].p
           /\ pa = {m \in form.levels[Depth + 1].a : \A j \in 1..Depth : m \notin form.levels[j].p}
           /\ pp \subseteq Assignment
<1>1. form \in PartialSat /\ q \in PartialSat
  BY SearchAssumption DEF TypeOK
<1>2. /\ form.levels \in Seq(Level) /\ q.levels \in Seq(Level)
      /\ Len(form.levels) \in Nat /\ Len(q.levels) \in Nat
  BY <1>1 DEF PartialSat
<1>3. Len(q.levels) # 0 /\ Head(q.levels) = q.levels[1] /\ q.levels[1] \in Level
  BY <1>2
<1>4. Depth \in Nat /\ Depth + 1 \in 1..Len(form.levels)
  <2>1. Depth \in 0..Len(form.levels)
    BY DEF Remaining
  <2>2. \A a, b \in Nat : /\ b # 0
                          /\ a - b \in 0..a
                          => a - b \in Nat /\ (a - b) + 1 \in 1..a
    OBVIOUS
  <2> QED
    BY <1>2, <1>3, <2>1, <2>2 DEF Depth
<1>5. /\ q.levels[1].p = form.levels[Depth + 1].p
      /\ q.levels[1].a = {m \in form.levels[Depth + 1].a :
                            \A j \in 1..Depth : m \notin form.levels[j].p}
  BY <1>2, <1>3 DEF Remaining
<1> QED
  BY <1>2, <1>3, <1>4, <1>5 DEF pp, pa, Level

\* The query for the finite part has exactly the assignments that this level,
\* and none before it, decides and makes true.
LEMMA QueryMeans ==
    ASSUME TypeOK, Remaining, q.levels # <<>>
    PROVE  \A m : m \in andSat(pp, pa) <=> /\ Decides(form, Depth + 1, m)
                                         /\ m \in form.levels[Depth + 1].a
<1>1. Depth \in Nat
  BY CurrentLevel
<1>2. (Depth + 1) - 1 = Depth
  BY <1>1
<1> QED
  BY <1>2, CurrentLevel DEF andSat, Decides

\* One level more is split into assignments it decides first and the others.
LEMMA FirstNext ==
    ASSUME NEW k \in Nat, HasFirst(k)
    PROVE  HasFirst(k + 1)
<1> SUFFICES ASSUME NEW m \in Assignment, NEW i \in 1..(k + 1), m \in form.levels[i].p
             PROVE  \E j \in 1..(k + 1) : Decides(form, j, m)
  BY DEF HasFirst
<1>1. CASE \E j \in 1..k : Decides(form, j, m)
  BY <1>1
<1>2. CASE \A j \in 1..k : m \notin form.levels[j].p
  <2>1. i = k + 1
    BY <1>2
  <2>2. (k + 1) - 1 = k
    OBVIOUS
  <2> QED
    BY <1>2, <2>1, <2>2 DEF Decides
<1> QED
  BY <1>1, <1>2 DEF HasFirst

\* An unsatisfiable finite part refutes one level more.
LEMMA RefuteNext ==
    ASSUME TypeOK, Remaining, q.levels # <<>>, Refuted(Depth), andSat(pp, pa) = {}
    PROVE  Refuted(Depth + 1)
<1>1. Depth \in Nat
  BY CurrentLevel
<1> SUFFICES ASSUME NEW i \in 1..(Depth + 1), NEW m \in Assignment, Decides(form, i, m)
             PROVE  m \notin form.levels[i].a
  BY DEF Refuted
<1>2. CASE i = Depth + 1
  BY <1>2, QueryMeans
<1>3. CASE i \in 1..Depth
  BY <1>3 DEF Refuted
<1> QED
  BY <1>1, <1>2, <1>3

-----------------------------------------------------------------------------
\* IInv is inductive, one lemma per action that changes more than the result.
LEMMA InitIInv == Init => IInv
<1> SUFFICES ASSUME Init PROVE IInv
  OBVIOUS
<1>1. TypeOK
  BY SearchAssumption DEF Init, TypeOK, Pending, None, Kinds
<1>2. Len(form.levels) \in Nat
  BY SearchAssumption DEF Init, PartialSat
<1>3. q = form /\ Depth = 0
  BY <1>2 DEF Init, Depth
<1>4. Remaining
  <2>1. \A i \in 1..Len(form.levels) : 0 + i = i
    BY <1>2
  <2>2. form \in PartialSat
    BY <1>1, SearchAssumption DEF TypeOK
  <2>3. \A i \in 1..Len(form.levels) : form.levels[i] \in Level
    BY <1>2, <2>2 DEF PartialSat
  <2> QED
    BY <1>2, <1>3, <2>1, <2>3 DEF Remaining, Level
<1>5. Progress
  BY <1>3 DEF Progress, Init, Refuted, HasFirst
<1>6. NotTotal /\ Answers
  BY <1>3 DEF NotTotal, Answers, Init, Pending, None
<1> QED
  BY <1>1, <1>4, <1>5, <1>6 DEF IInv

LEMMA DeBoolFStep == IInv /\ TypeOK' /\ DeBoolF => IInv'
<1> SUFFICES ASSUME IInv, TypeOK', DeBoolF PROVE IInv'
  OBVIOUS
<1>1. UNCHANGED <<form, q>>
  BY DEF DeBoolF, Finish
<1>2. Remaining' /\ NotTotal'
  BY <1>1 DEF IInv, Remaining, NotTotal, Depth
<1>3. Refuted(Depth) /\ HasFirst(Depth) /\ Len(form.levels) \in Nat
  BY SearchAssumption DEF IInv, TypeOK, PartialSat, Progress, DeBoolF
<1>4. Refuted(Depth)' /\ HasFirst(Depth)'
  BY <1>1, <1>3 DEF Refuted, HasFirst, Depth, Decides
<1>5. CASE q.levels # <<>>
  BY <1>1, <1>2, <1>4, <1>5 DEF IInv, Progress, Answers, DeBoolF, Pending, None
<1>6. CASE q.levels = <<>>
  <2>1. Len(q.levels) = 0 /\ Depth = Len(form.levels)
    BY <1>3, <1>6 DEF Depth
  <2>2. q.end = form.end
    BY DEF IInv, Remaining
  <2>3. Refuted(Len(form.levels))'
    BY <1>1, <1>3, <2>1 DEF Refuted, Decides
  <2>4. pc' = "done" /\ Progress'
    BY <1>6 DEF DeBoolF, Finish, Progress
  <2>5. \/ result' = None("raised") /\ form.end = "error"
        \/ result' = None("no_match") /\ form.end = "unreachable"
    BY <1>6, <2>2 DEF DeBoolF, Finish
  <2>6. Answers'
    BY <1>1, <2>1, <2>3, <2>5 DEF Answers, None
  <2> QED
    BY <1>2, <2>4, <2>6 DEF IInv
<1> QED
  BY <1>5, <1>6

LEMMA SolveFiniteStep == IInv /\ TypeOK' /\ SolveFinite => IInv'
<1> SUFFICES ASSUME IInv, TypeOK', SolveFinite PROVE IInv'
  OBVIOUS
<1>1. UNCHANGED <<form, q>>
  BY DEF SolveFinite, Finish
<1>2. Remaining' /\ NotTotal'
  BY <1>1 DEF IInv, Remaining, NotTotal, Depth
<1>3. TypeOK /\ Remaining /\ q.levels # <<>> /\ Refuted(Depth) /\ HasFirst(Depth)
  BY DEF IInv, TypeOK, SolveFinite, Progress
<1>4. CASE andSat(pp, pa) = {}
  <2>1. Refuted(Depth + 1) /\ HasFirst(Depth + 1)
    BY <1>3, <1>4, CurrentLevel, RefuteNext, FirstNext
  <2>2. Refuted(Depth + 1)' /\ HasFirst(Depth + 1)'
    BY <1>1, <2>1 DEF Refuted, HasFirst, Depth, Decides
  <2>3. pc' = "approx" /\ result' = result /\ result = Pending
    BY <1>4 DEF SolveFinite, IInv, Progress
  <2>4. Progress' /\ Answers'
    BY <2>2, <2>3 DEF Progress, Answers, Pending, None
  <2> QED
    BY <1>2, <2>4 DEF IInv
<1>5. CASE \E m \in andSat(pp, pa) : Finish([kind |-> "just", model |-> m])
  <2>1. PICK m \in andSat(pp, pa) : Finish([kind |-> "just", model |-> m])
    BY <1>5
  <2>2. Depth + 1 \in 1..Len(form.levels)
    BY <1>3, CurrentLevel
  <2>3. Decides(form, Depth + 1, m) /\ m \in form.levels[Depth + 1].a
    BY <1>3, QueryMeans
  <2>4. Holds(form, m)
    BY <2>2, <2>3 DEF Holds
  <2>5. pc' = "done" /\ result' = [kind |-> "just", model |-> m] /\ Progress'
    BY <2>1 DEF Finish, Progress
  <2>6. Holds(form, m)'
    BY <1>1, <2>4 DEF Holds, Decides
  <2>7. Answers'
    BY <2>5, <2>6 DEF Answers
  <2> QED
    BY <1>2, <2>5, <2>7 DEF IInv
<1> QED
  BY <1>4, <1>5 DEF SolveFinite

LEMMA SolveApproxStep == IInv /\ TypeOK' /\ SolveApprox => IInv'
<1> SUFFICES ASSUME IInv, TypeOK', SolveApprox PROVE IInv'
  OBVIOUS
<1>1. TypeOK /\ Remaining /\ q.levels # <<>> /\ Refuted(Depth + 1) /\ HasFirst(Depth + 1)
  BY DEF IInv, TypeOK, SolveApprox, Progress
<1>2. /\ Depth + 1 \in 1..Len(form.levels) /\ Depth \in Nat
      /\ pp = form.levels[Depth + 1].p /\ pp \subseteq Assignment
      /\ Len(form.levels) \in Nat /\ Len(q.levels) \in Nat \ {0}
  BY <1>1, CurrentLevel
<1>3. CASE notSat(pp) = {}
  <2>1. pp = Assignment
    BY <1>2, <1>3 DEF notSat
  <2>2. result' = None("nothing") /\ pc' = "done" /\ UNCHANGED <<form, q>>
    BY <1>3 DEF SolveApprox, Finish
  <2>3. Remaining' /\ NotTotal' /\ Progress'
    BY <2>2 DEF IInv, Remaining, NotTotal, Depth, Progress
  <2>4. \E k \in 1..Len(form.levels) : form.levels[k].p = Assignment /\ Refuted(k) /\ HasFirst(k)
    BY <1>1, <1>2, <2>1
  <2>5. (\E k \in 1..Len(form.levels) : form.levels[k].p = Assignment /\ Refuted(k) /\ HasFirst(k))'
    BY <2>2, <2>4 DEF Refuted, HasFirst, Decides
  <2> QED
    BY <2>2, <2>3, <2>5 DEF IInv, Answers, None
<1>4. CASE notSat(pp) # {}
  <2>1. /\ q' = andF_(notSat(pp), Behind(q)) /\ pc' = "run"
        /\ form' = form /\ result' = result
    BY <1>4 DEF SolveApprox
  <2>2. notSat(pp) \in SUBSET Assignment /\ q \in PartialSat /\ form \in PartialSat
    BY <1>1, SearchAssumption DEF notSat, TypeOK
  <2>3. /\ Len(q'.levels) = Len(q.levels) - 1
        /\ q'.end = q.end
        /\ \A i \in 1..Len(q'.levels) : /\ q'.levels[i].p = q.levels[i + 1].p
                                       /\ q'.levels[i].a = notSat(pp) \cap q.levels[i + 1].a
    BY <1>1, <2>1, <2>2, AndFRest
  <2>4. Depth' = Depth + 1 /\ Depth' \in 0..Len(form.levels)
    <3>1. Depth' = Len(form.levels) - (Len(q.levels) - 1)
      BY <2>1, <2>3 DEF Depth
    <3>2. \A a, b \in Nat : a - (b - 1) = (a - b) + 1
      OBVIOUS
    <3>3. Depth' = Depth + 1
      BY <1>2, <3>1, <3>2 DEF Depth
    <3> QED
      BY <1>2, <3>3
  <2>5. ASSUME NEW i \in 1..Len(q'.levels)
        PROVE  /\ q'.levels[i].p = form.levels[(Depth + 1) + i].p
               /\ q'.levels[i].a = {m \in form.levels[(Depth + 1) + i].a :
                                     \A j \in 1..(Depth + 1) : m \notin form.levels[j].p}
    <3>1. i + 1 \in 1..Len(q.levels) /\ Depth + (i + 1) = (Depth + 1) + i
      <4>1. Len(q'.levels) = Len(q.levels) - 1 /\ Len(q.levels) \in Nat /\ Depth \in Nat
        BY <1>2, <2>3
      <4>2. \A n, d \in Nat : \A k \in 1..(n - 1) : k + 1 \in 1..n /\ d + (k + 1) = (d + 1) + k
        OBVIOUS
      <4> QED
        BY <4>1, <4>2
    <3>2. /\ q.levels[i + 1].p = form.levels[(Depth + 1) + i].p
          /\ q.levels[i + 1].a = {m \in form.levels[(Depth + 1) + i].a :
                                   \A j \in 1..Depth : m \notin form.levels[j].p}
      BY <1>1, <3>1 DEF Remaining
    <3>3. q.levels[i + 1].a \subseteq Assignment
      <4>1. q.levels[i + 1] \in Level
        BY <2>2, <3>1 DEF PartialSat
      <4> QED
        BY <4>1 DEF Level
    <3>4. \A j : j \in 1..(Depth + 1) <=> j \in 1..Depth \/ j = Depth + 1
      BY <1>2
    <3>5. \A m : m \in notSat(pp) <=> m \in Assignment /\ m \notin form.levels[Depth + 1].p
      BY <1>2 DEF notSat
    <3> QED
      BY <2>3, <3>2, <3>3, <3>4, <3>5
  <2>6. Remaining'
    BY <1>1, <2>1, <2>3, <2>4, <2>5 DEF Remaining
  <2>7. NotTotal'
    <3>1. form.levels[Depth + 1].p # Assignment
      BY <1>2, <1>4 DEF notSat
    <3>2. \A i : i \in 1..(Depth + 1) => i \in 1..Depth \/ i = Depth + 1
      BY <1>2
    <3>3. NotTotal
      BY DEF IInv
    <3> QED
      BY <2>1, <2>4, <3>1, <3>2, <3>3 DEF NotTotal
  <2>8. Refuted(Depth)' /\ HasFirst(Depth)'
    BY <1>1, <2>1, <2>4 DEF Refuted, HasFirst, Decides
  <2>9. result = Pending
    BY DEF IInv, Progress, SolveApprox
  <2>10. Progress' /\ Answers'
    BY <2>1, <2>8, <2>9 DEF Progress, Answers, Pending, None
  <2> QED
    BY <2>6, <2>7, <2>10 DEF IInv
<1> QED
  BY <1>3, <1>4

LEMMA OtherSteps ==
    IInv /\ TypeOK' /\ (SolverFails \/ Interrupted \/ UNCHANGED vars) => IInv'
<1> SUFFICES ASSUME IInv, TypeOK', SolverFails \/ Interrupted \/ UNCHANGED vars PROVE IInv'
  OBVIOUS
<1>1. UNCHANGED <<form, q>>
  BY DEF SolverFails, Interrupted, Finish, vars
<1>2. Remaining' /\ NotTotal'
  BY <1>1 DEF IInv, Remaining, NotTotal, Depth
<1>3. CASE UNCHANGED vars
  BY <1>2, <1>3 DEF IInv, Progress, Answers, Refuted, HasFirst, Holds, Decides, Depth, vars
<1>4. CASE SolverFails \/ Interrupted
  BY <1>2, <1>4 DEF IInv, Progress, Answers, SolverFails, Interrupted, Finish, None
<1> QED
  BY <1>3, <1>4

\* What the loop knows at each round, for every formula it is called with.
THEOREM Invariance == Spec => []IInv
<1>1. IInv /\ TypeOK' /\ [Next]_vars => IInv'
  BY DeBoolFStep, SolveFiniteStep, SolveApproxStep, OtherSteps DEF Next
<1> QED
  BY InitIInv, TypeCorrect, <1>1, PTL DEF Spec

-----------------------------------------------------------------------------
\* The formula searched has finitely many levels.
LEMMA LevelsOfForm ==
    ASSUME TypeOK
    PROVE  /\ Len(form.levels) \in Nat
           /\ \A i \in 1..Len(form.levels) : form.levels[i] \in Level
<1>1. form \in PartialSat
  BY SearchAssumption DEF TypeOK
<1> QED
  BY <1>1 DEF PartialSat

\* The model of a round is an element: what Answers says.
LEMMA JustIsElementHolds == IInv => JustIsElement
BY DEF IInv, Answers, JustIsElement

\* Just v is an element of the set.
THEOREM JustIsElementThm == Spec => []JustIsElement
  BY JustIsElementHolds, Invariance, PTL

\* The error is met after every level was refuted.
LEMMA ErrorOnlyIfNoElementHolds == IInv => ErrorOnlyIfNoElement
<1> SUFFICES ASSUME IInv, result.kind = "raised", NEW m \in Assignment, Holds(form, m)
             PROVE  FALSE
  BY DEF ErrorOnlyIfNoElement
<1>1. Refuted(Len(form.levels))
  BY DEF IInv, Answers
<1> QED
  BY <1>1 DEF Holds, Refuted

\* An error is raised only when no assignment satisfies the formula.
THEOREM ErrorOnlyIfNoElementThm == Spec => []ErrorOnlyIfNoElement
  BY ErrorOnlyIfNoElementHolds, Invariance, PTL

\* A proper formula ends after a level that decides everything, which the loop
\* does not pass.
LEMMA NeverNoMatchHolds == IInv => NeverNoMatch
<1> SUFFICES ASSUME IInv, EndsTotal(form), result.kind = "no_match" PROVE FALSE
  BY DEF NeverNoMatch
<1>1. /\ Len(q.levels) = 0 /\ form.end = "unreachable" /\ TypeOK
      /\ \A i \in 1..Depth : form.levels[i].p # Assignment
  BY DEF IInv, Answers, NotTotal
<1>2. Len(form.levels) \in Nat
  BY <1>1, LevelsOfForm
<1>3. Depth = Len(form.levels)
  BY <1>1, <1>2 DEF Depth
<1>4. Len(form.levels) > 0 /\ form.levels[Len(form.levels)].p = Assignment
  BY <1>1 DEF EndsTotal
<1> QED
  BY <1>1, <1>3, <1>4

\* deBoolF is not called on Unreachable_PartialF if the formula ends properly.
THEOREM NeverNoMatchThm == Spec => []NeverNoMatch
  BY NeverNoMatchHolds, Invariance, PTL

\* When a level decides every assignment, each was decided first at a refuted one.
LEMMA NothingIsEmptyHolds == IInv => NothingIsEmpty
<1> SUFFICES ASSUME IInv, result.kind = "nothing", NEW m \in Assignment
             PROVE  Denotes(form, m) = "fails"
  BY DEF NothingIsEmpty
<1>1. Len(form.levels) \in Nat
  BY LevelsOfForm DEF IInv
<1>2. PICK k \in 1..Len(form.levels) :
             form.levels[k].p = Assignment /\ Refuted(k) /\ HasFirst(k)
  BY DEF IInv, Answers
<1>3. PICK i \in 1..k : Decides(form, i, m)
  BY <1>1, <1>2 DEF HasFirst
<1>4. m \notin form.levels[i].a /\ i \in 1..Len(form.levels)
  BY <1>1, <1>2, <1>3 DEF Refuted
<1>5. ~Undecided(form, m)
  BY <1>3, <1>4 DEF Undecided, Decides
<1>6. ~Holds(form, m)
  <2> SUFFICES ASSUME NEW j \in 1..Len(form.levels), Decides(form, j, m),
                      m \in form.levels[j].a
               PROVE  FALSE
    BY DEF Holds
  <2>1. ~(j < i) /\ ~(i < j)
    BY <1>1, <1>3, <1>4 DEF Decides
  <2>2. i = j
    BY <1>1, <1>4, <2>1
  <2> QED
    BY <1>4, <2>2
<1> QED
  BY <1>5, <1>6 DEF Denotes

\* Nothing is returned only of the empty set.
THEOREM NothingIsEmptyThm == Spec => []NothingIsEmpty
  BY NothingIsEmptyHolds, Invariance, PTL

\* An assignment the first level leaves undecided is left so by all of them.
LEMMA ErrorIsRealHolds == IInv => ErrorIsReal
<1> SUFFICES ASSUME IInv, result.kind = "raised", CoversShrink(form)
             PROVE  \E m \in Assignment : Denotes(form, m) = "undefined"
  BY DEF ErrorIsReal
<1>1. /\ Len(form.levels) \in Nat
      /\ \A i \in 1..Len(form.levels) : form.levels[i].p \subseteq Assignment
  BY LevelsOfForm DEF IInv, Level
<1>2. Len(q.levels) = 0 /\ form.end = "error"
  BY DEF IInv, Answers
<1>3. Depth = Len(form.levels)
  BY <1>1, <1>2 DEF Depth
<1>4. \E m \in Assignment : Undecided(form, m)
  <2>1. CASE Len(form.levels) = 0
    BY <1>1, <2>1, SearchAssumption DEF Undecided
  <2>2. CASE Len(form.levels) # 0
    <3>1. 1 \in 1..Len(form.levels) /\ \A i \in 1..Len(form.levels) : 1 <= i
      BY <1>1, <2>2
    <3>2. form.levels[1].p # Assignment
      BY <1>3, <3>1 DEF IInv, NotTotal
    <3>3. PICK m \in Assignment : m \notin form.levels[1].p
      BY <1>1, <3>1, <3>2
    <3>4. \A i \in 1..Len(form.levels) : form.levels[i].p \subseteq form.levels[1].p
      BY <3>1 DEF CoversShrink
    <3> QED
      BY <3>3, <3>4 DEF Undecided
  <2> QED
    BY <2>1, <2>2
<1> QED
  BY <1>2, <1>4 DEF Denotes

\* An error that is raised is in the computation, if covers shrink.
THEOREM ErrorIsRealThm == Spec => []ErrorIsReal
  BY ErrorIsRealHolds, Invariance, PTL

-----------------------------------------------------------------------------
\* What SearchSpec calls "holds" is what Search calls Holds.
LEMMA HoldsMeans ==
    ASSUME NEW m \in Assignment
    PROVE  Denotes(form, m) = "holds" <=> Holds(form, m)
<1>1. Holds(form, m) => ~Undecided(form, m)
  BY DEF Holds, Decides, Undecided
<1> QED
  BY <1>1 DEF Denotes

\* Each way a call ends, as a step of SearchSpec.
LEMMA EndingStep ==
    ASSUME WellFormed(form), IInv, IInv', Next, result' # result
    PROVE  Abstract!Next
<1> DEFINE verdict == [m \in Assignment |-> Denotes(form, m)]
<1>1. /\ result = Pending /\ result = Abstract!Pending
      /\ form' = form /\ verdict' = verdict
      /\ EndsTotal(form)' /\ CoversShrink(form)'
      /\ Shown = result /\ Shown' = result'
  <2>1. pc # "done" /\ form' = form
    BY DEF Next, DeBoolF, SolveFinite, SolveApprox, SolverFails, Interrupted, Finish
  <2>2. verdict' = verdict
    BY <2>1 DEF Denotes, Undecided, Holds, Decides
  <2>3. EndsTotal(form)' /\ CoversShrink(form)'
    BY <2>1 DEF WellFormed, EndsTotal, CoversShrink
  <2>4. Shown = result /\ Shown' = result'
    BY <2>3 DEF Shown, WellFormed
  <2> QED
    BY <2>1, <2>2, <2>3, <2>4 DEF IInv, TypeOK, Progress, Pending, None, Abstract!Pending,
                                  Abstract!None
<1>2. /\ JustIsElement' /\ ErrorOnlyIfNoElement' /\ NeverNoMatch'
      /\ NothingIsEmpty' /\ ErrorIsReal'
  BY JustIsElementHolds, ErrorOnlyIfNoElementHolds, NeverNoMatchHolds, NothingIsEmptyHolds,
     ErrorIsRealHolds, PTL
<1>3. CASE \E m \in Assignment : result' = [kind |-> "just", model |-> m]
  <2>1. PICK m \in Assignment : result' = [kind |-> "just", model |-> m]
    BY <1>3
  <2>2. Holds(form, m)
    BY <1>1, <1>2, <2>1 DEF JustIsElement, Holds, Decides
  <2>3. verdict[m] = "holds"
    BY <2>2, HoldsMeans
  <2>4. Abstract!Found(m)
    BY <1>1, <2>1, <2>3 DEF Abstract!Found
  <2> QED
    BY <2>4 DEF Abstract!Next
<1>4. CASE result' = None("nothing")
  <2>1. \A m \in Assignment : Denotes(form, m)' = "fails"
    BY <1>2, <1>4 DEF NothingIsEmpty, None
  <2>2. \A m \in Assignment : verdict[m] = "fails"
    BY <1>1, <2>1 DEF Denotes, Undecided, Holds, Decides
  <2>3. Abstract!Empty
    BY <1>1, <1>4, <2>2 DEF Abstract!Empty, Abstract!None, None
  <2> QED
    BY <2>3 DEF Abstract!Next
<1>5. CASE result' = None("raised")
  <2>1. /\ \A m \in Assignment : ~Holds(form, m)'
        /\ \E m \in Assignment : Denotes(form, m)' = "undefined"
    BY <1>1, <1>2, <1>5 DEF ErrorOnlyIfNoElement, ErrorIsReal, None
  <2>2. /\ \A m \in Assignment : ~Holds(form, m)
        /\ \E m \in Assignment : Denotes(form, m) = "undefined"
    BY <1>1, <2>1 DEF Denotes, Undecided, Holds, Decides
  <2>3. Abstract!Raises
    BY <1>1, <1>5, <2>2, HoldsMeans DEF Abstract!Raises, Abstract!None, None
  <2> QED
    BY <2>3 DEF Abstract!Next
<1>6. CASE result' \in {None("solver_error"), None("interrupted")}
  BY <1>1, <1>6 DEF Abstract!Aborts, Abstract!Next, Abstract!None, None
<1>7. result' # None("no_match")
  BY <1>1, <1>2 DEF NeverNoMatch, None
<1>8. \/ \E m \in Assignment : result' = [kind |-> "just", model |-> m]
      \/ result' \in {None("nothing"), None("raised"), None("no_match"),
                      None("solver_error"), None("interrupted")}
  <2>1. result'.kind \in {"just"} \cup Kinds
    BY DEF IInv, TypeOK
  <2>2. CASE result' \in [kind : {"just"}, model : Assignment]
    BY <2>2
  <2>3. CASE result' \in [kind : Kinds, model : {NoAssignment}]
    BY <1>1, <2>3 DEF Kinds, None, Pending
  <2> QED
    BY <2>2, <2>3 DEF IInv, TypeOK
<1> QED
  BY <1>3, <1>4, <1>5, <1>6, <1>7, <1>8

\* The loop implements the promise of the interface (Shown: on formulas that
\* end properly and whose levels decide less and less): it finds an element if
\* there is one, answers Nothing only of the empty set, raises only errors that
\* are there, and ends in no other way but the solver's failure or an interrupt.
THEOREM Refinement == Spec => Promise
<1>1. Init => Abstract!Init
  BY DEF Init, Abstract!Init, Abstract!Verdict, Abstract!Pending, Abstract!None,
         Shown, Pending, None, Denotes
<1>2. IInv /\ IInv' /\ [Next]_vars => [Abstract!Next]_(Abstract!vars)
  <2> SUFFICES ASSUME IInv, IInv', [Next]_vars PROVE [Abstract!Next]_(Abstract!vars)
    OBVIOUS
  <2>1. form' = form
    BY DEF Next, DeBoolF, SolveFinite, SolveApprox, SolverFails, Interrupted, Finish, vars
  <2>2. [m \in Assignment |-> Denotes(form, m)]' = [m \in Assignment |-> Denotes(form, m)]
    BY <2>1 DEF Denotes, Undecided, Holds, Decides
  <2>3. WellFormed(form)' <=> WellFormed(form)
    BY <2>1 DEF WellFormed, EndsTotal, CoversShrink
  <2>4. CASE result' = result \/ ~WellFormed(form)
    <3>1. Shown' = Shown
      BY <2>3, <2>4 DEF Shown, Pending, None
    <3> QED
      BY <2>2, <3>1 DEF Abstract!vars
  <2>5. CASE result' # result /\ WellFormed(form)
    BY <2>5, EndingStep DEF vars
  <2> QED
    BY <2>4, <2>5
<1> QED
  BY <1>1, <1>2, Invariance, PTL DEF Spec, Promise, Abstract!Spec

-----------------------------------------------------------------------------
\* Partial formulas: a tail, or a level in front of one.

\* A partial formula is a tail or a level in front of one: with these lemmas
\* the proofs need no sequences.
Level_ == [p : BoolFF, a : BoolFF]

\* Its levels.
Size(f) == Len(f.levels)

\* A tail is a formula without levels.
LEMMA TailFacts ==
    ASSUME NEW e \in Ends
    PROVE  /\ Tail_(e) \in PartialF /\ ~IsLevel(Tail_(e)) /\ Tail_(e).end = e
           /\ Size(Tail_(e)) = 0
<1>1. <<>> \in Seq(Level_) /\ Len(<<>>) = 0
  OBVIOUS
<1> QED BY <1>1 DEF Tail_, PartialF, IsLevel, Size, Level_

\* The three tails differ.
LEMMA Tails ==
    /\ unreachablePF \in PartialF /\ Errors \in PartialF /\ Hangs \in PartialF
    /\ ~IsLevel(unreachablePF) /\ ~IsLevel(Errors) /\ ~IsLevel(Hangs)
    /\ unreachablePF.end = "unreachable" /\ Errors.end = "error" /\ Hangs.end = "hang"
    /\ Size(unreachablePF) = 0 /\ Size(Errors) = 0 /\ Size(Hangs) = 0
    /\ unreachablePF # Errors /\ unreachablePF # Hangs /\ Errors # Hangs
<1>1. "unreachable" \in Ends /\ "error" \in Ends /\ "hang" \in Ends
  BY DEF Ends
<1>2. /\ unreachablePF \in PartialF /\ Errors \in PartialF /\ Hangs \in PartialF
      /\ ~IsLevel(unreachablePF) /\ ~IsLevel(Errors) /\ ~IsLevel(Hangs)
      /\ unreachablePF.end = "unreachable" /\ Errors.end = "error" /\ Hangs.end = "hang"
      /\ Size(unreachablePF) = 0 /\ Size(Errors) = 0 /\ Size(Hangs) = 0
  BY <1>1, TailFacts DEF unreachablePF, Errors, Hangs
<1> QED BY <1>2, Zenon

\* A formula without levels is one of the three tails.
LEMMA TailIs ==
    ASSUME NEW f \in PartialF, ~IsLevel(f)
    PROVE  f = unreachablePF \/ f = Errors \/ f = Hangs
<1>1. f = [levels |-> f.levels, end |-> f.end] /\ f.end \in Ends
  BY DEF PartialF
<1>2. f.levels = <<>>
  BY DEF IsLevel
<1> QED BY <1>1, <1>2 DEF Ends, unreachablePF, Errors, Hangs, Tail_

\* PartialF: a level in front of a formula.
LEMMA Cons ==
    ASSUME NEW p \in BoolFF, NEW a \in BoolFF, NEW r \in PartialF
    PROVE  /\ PartialF_(p, a, r) \in PartialF /\ IsLevel(PartialF_(p, a, r))
           /\ hp(PartialF_(p, a, r)) = p /\ ha(PartialF_(p, a, r)) = a
           /\ Rest(PartialF_(p, a, r)) = r /\ PartialF_(p, a, r).end = r.end
           /\ Size(PartialF_(p, a, r)) = Size(r) + 1
<1> DEFINE l == [p |-> p, a |-> a]
           s == <<l>> \o r.levels
<1>1. r.levels \in Seq(Level_) /\ l \in Level_ /\ r.end \in Ends
      /\ r = [levels |-> r.levels, end |-> r.end]
  BY DEF PartialF, Level_
<1> HIDE DEF l
<1>2. s \in Seq(Level_) /\ s # <<>> /\ Head(s) = l /\ Tail(s) = r.levels
      /\ Len(s) = Len(r.levels) + 1
  <2>1. <<l>> \in Seq(Level_)
    BY <1>1
  <2> QED BY <2>1, <1>1
<1> HIDE DEF s
<1>3. PartialF_(p, a, r) = [levels |-> s, end |-> r.end]
  BY DEF PartialF_, s, l
<1>4. l.p = p /\ l.a = a
  BY DEF l
<1> QED BY <1>1, <1>2, <1>3, <1>4 DEF PartialF, IsLevel, hp, ha, Rest, Size, Level_

\* A formula with a level is that level in front of its rest.
LEMMA LevelIs ==
    ASSUME NEW f \in PartialF, IsLevel(f)
    PROVE  /\ hp(f) \in BoolFF /\ ha(f) \in BoolFF /\ Rest(f) \in PartialF
           /\ f = PartialF_(hp(f), ha(f), Rest(f))
           /\ Size(f) = Size(Rest(f)) + 1 /\ Rest(f).end = f.end
           /\ f # unreachablePF /\ f # Errors /\ f # Hangs
<1>1. f.levels \in Seq(Level_) /\ f.end \in Ends /\ f.levels # <<>>
      /\ f = [levels |-> f.levels, end |-> f.end]
  BY DEF PartialF, IsLevel, Level_
<1> DEFINE s == f.levels
<1> HIDE DEF s
<1>2. s \in Seq(Level_) /\ s # <<>>
  BY <1>1 DEF s
<1>3. Head(s) \in Level_ /\ Tail(s) \in Seq(Level_) /\ s = <<Head(s)>> \o Tail(s)
      /\ Len(s) = Len(Tail(s)) + 1
  BY <1>2
<1>4. Head(s) = [p |-> Head(s).p, a |-> Head(s).a]
  BY <1>3 DEF Level_
<1>5. hp(f) \in BoolFF /\ ha(f) \in BoolFF
  BY <1>3 DEF hp, ha, s, Level_
<1>6. Rest(f) = [levels |-> Tail(s), end |-> f.end]
  BY DEF Rest, s
<1>7. Rest(f) \in PartialF /\ Rest(f).end = f.end /\ Size(f) = Size(Rest(f)) + 1
  BY <1>6, <1>3, <1>1 DEF PartialF, Size, s, Level_
<1>8. f = PartialF_(hp(f), ha(f), Rest(f))
  <2>1. Rest(f).levels = Tail(s)
    BY <1>6
  <2>2. [p |-> hp(f), a |-> ha(f)] = Head(s)
    BY <1>4 DEF hp, ha, s
  <2>3. f = [levels |-> s, end |-> f.end]
    BY <1>1 DEF s
  <2> QED BY <2>1, <2>2, <2>3, <1>3, <1>7 DEF PartialF_
<1> QED BY <1>5, <1>7, <1>8, <1>1, Tails

\* A formula has finitely many levels.
LEMMA SizeNat == \A f \in PartialF : Size(f) \in Nat
BY DEF Size, PartialF

-----------------------------------------------------------------------------
\* What a formula says of an assignment, and when it is proper.

\* What the loop of Search sees of a formula.
Says(f, m) == Denotes(Levels[f], m)

\* No guard is unreachable, and what a level gives is unreachable only where
\* the level decides nothing.
FFsOk(f) == \A i \in 1..Len(f.levels) :
               /\ f.levels[i].p # Unreachable_BoolFF
               /\ f.levels[i].a = Unreachable_BoolFF => f.levels[i].p = FalseFF

\* It ends in Unreachable_PartialF only behind a level that decides everything.
EndsCovered(f) == (f.end = "unreachable" /\ f.levels # <<>>) => f.levels[Len(f.levels)].p.sat = Assignment

\* Its levels decide less and less.
Shrinks(f) == \A i \in 1..Len(f.levels) - 1 : f.levels[i + 1].p.sat \subseteq f.levels[i].p.sat

\* The levels of a formula with one put in front.
LEMMA ConsLevels ==
    ASSUME NEW p \in BoolFF, NEW a \in BoolFF, NEW r \in PartialF, NEW f, f = PartialF_(p, a, r)
    PROVE  /\ Len(r.levels) \in Nat /\ Len(f.levels) = Len(r.levels) + 1
           /\ f.levels[1] = [p |-> p, a |-> a]
           /\ \A i \in 1..Len(r.levels) : f.levels[i + 1] = r.levels[i]
           /\ \A i \in 1..Len(f.levels) : i = 1 \/ i - 1 \in 1..Len(r.levels)
           /\ r.levels \in Seq(Level_) /\ f.levels \in Seq(Level_) /\ f.end = r.end
<1> DEFINE l == [p |-> p, a |-> a]
           s == <<l>> \o r.levels
<1>1. r.levels \in Seq(Level_) /\ l \in Level_
  BY DEF PartialF, Level_
<1> HIDE DEF l
<1>2. s \in Seq(Level_) /\ Len(s) = Len(r.levels) + 1 /\ s[1] = l
      /\ \A i \in 1..Len(r.levels) : s[i + 1] = r.levels[i]
  <2>1. <<l>> \in Seq(Level_)
    BY <1>1
  <2> QED BY <2>1, <1>1
<1> HIDE DEF s
<1>3. f.levels = s /\ f.end = r.end
  BY DEF PartialF_, s, l
<1>4. Len(r.levels) \in Nat
  BY <1>1
<1>5. \A i \in 1..(Len(r.levels) + 1) : i = 1 \/ i - 1 \in 1..Len(r.levels)
  BY <1>4
<1> QED BY <1>1, <1>2, <1>3, <1>4, <1>5 DEF l

\* The loop sees the same levels.
LEMMA LevelsIs ==
    ASSUME NEW f \in PartialF
    PROVE  /\ Levels[f].end = f.end /\ Len(Levels[f].levels) = Len(f.levels)
           /\ \A i \in 1..Len(f.levels) : /\ Levels[f].levels[i].p = f.levels[i].p.sat
                                          /\ Levels[f].levels[i].a = f.levels[i].a.sat
<1> DEFINE n == Len(f.levels)
           g(i) == [p |-> f.levels[i].p.sat, a |-> f.levels[i].a.sat]
           l == [i \in 1..n |-> g(i)]
<1>1. n \in Nat
  BY DEF PartialF
<1>2. Levels[f] = [levels |-> l, end |-> f.end]
  BY DEF Levels
<1>3. \A i \in 1..n : l[i].p = f.levels[i].p.sat /\ l[i].a = f.levels[i].a.sat
  OBVIOUS
<1>4. Len(l) = n
  <2> HIDE DEF g, n
  <2> QED BY <1>1
<1> HIDE DEF l, n
<1> QED BY <1>2, <1>3, <1>4 DEF n

\* A tail says nothing of an assignment.
LEMMA SaysTail ==
    ASSUME NEW f \in PartialF, ~IsLevel(f), NEW m
    PROVE  Says(f, m) = IF f = unreachablePF THEN "unreachable" ELSE "undefined"
<1>1. Len(f.levels) = 0
  BY DEF IsLevel
<1>2. Undecided(Levels[f], m)
  BY <1>1, LevelsIs DEF Undecided
<1>3. Says(f, m) = IF f.end = "unreachable" THEN "unreachable" ELSE "undefined"
  BY <1>2, LevelsIs DEF Says, Denotes
<1> QED BY <1>3, TailIs, Tails

\* A level speaks for the assignments it decides.
LEMMA SaysCons ==
    ASSUME NEW p \in BoolFF, NEW a \in BoolFF, NEW r \in PartialF, NEW m
    PROVE  Says(PartialF_(p, a, r), m) = IF m \in p.sat THEN IF m \in a.sat THEN "holds" ELSE "fails"
                                         ELSE Says(r, m)
<1> DEFINE f == PartialF_(p, a, r)
           L == Levels[f]
           R == Levels[r]
           n == Len(r.levels)
<1>1. /\ n \in Nat /\ Len(f.levels) = n + 1 /\ f.levels[1] = [p |-> p, a |-> a]
      /\ \A i \in 1..n : f.levels[i + 1] = r.levels[i]
      /\ \A i \in 1..(n + 1) : i = 1 \/ i - 1 \in 1..n
      /\ f.end = r.end /\ f \in PartialF
  <2> HIDE DEF f
  <2>1. f = PartialF_(p, a, r)
    BY DEF f
  <2>2. f \in PartialF
    BY <2>1, Cons
  <2> QED BY <2>1, <2>2, ConsLevels
<1>2. f.levels[1].p = p /\ f.levels[1].a = a
  <2> HIDE DEF f
  <2> QED BY <1>1
<1> HIDE DEF f
<1>3. /\ L.end = f.end /\ Len(L.levels) = n + 1 /\ R.end = f.end /\ Len(R.levels) = n
      /\ L.levels[1].p = p.sat /\ L.levels[1].a = a.sat
      /\ \A i \in 1..n : L.levels[i + 1].p = R.levels[i].p /\ L.levels[i + 1].a = R.levels[i].a
  <2>1. L.end = f.end /\ Len(L.levels) = n + 1 /\ R.end = f.end /\ Len(R.levels) = n
    BY <1>1, LevelsIs
  <2>2. 1 \in 1..(n + 1)
    BY <1>1
  <2>3. L.levels[1].p = p.sat /\ L.levels[1].a = a.sat
    BY <1>1, <1>2, <2>2, LevelsIs
  <2>4. ASSUME NEW i \in 1..n
        PROVE  L.levels[i + 1].p = R.levels[i].p /\ L.levels[i + 1].a = R.levels[i].a
    <3>1. i + 1 \in 1..(n + 1)
      BY <1>1
    <3>2. /\ L.levels[i + 1].p = f.levels[i + 1].p.sat /\ L.levels[i + 1].a = f.levels[i + 1].a.sat
          /\ R.levels[i].p = r.levels[i].p.sat /\ R.levels[i].a = r.levels[i].a.sat
      BY <1>1, <3>1, LevelsIs
    <3> QED BY <3>2, <1>1
  <2> QED BY <2>1, <2>3, <2>4
<1> HIDE DEF L, R, n
<1>4. 1 \in 1..(n + 1) /\ \A i \in 1..n : i + 1 \in 1..(n + 1)
  BY <1>1 DEF n
<1>5. \A i \in 1..(n + 1) : \A j \in 1..(i - 1) : j \in 1..(n + 1)
  BY <1>1 DEF n
<1>6. CASE m \in p.sat
  <2>1. ~Undecided(L, m)
    BY <1>3, <1>4, <1>6 DEF Undecided
  <2>2. Decides(L, 1, m)
    BY <1>3, <1>6 DEF Decides
  <2>3. ASSUME NEW i \in 1..(n + 1), Decides(L, i, m) PROVE i = 1
    <3> SUFFICES ASSUME i # 1 PROVE FALSE
      OBVIOUS
    <3>1. 1 \in 1..(i - 1)
      BY <1>1
    <3> QED BY <3>1, <2>3, <1>3, <1>6 DEF Decides
  <2>4. Holds(L, m) <=> m \in a.sat
    BY <2>2, <2>3, <1>3, <1>4 DEF Holds
  <2> QED BY <2>1, <2>4, <1>6 DEF Says, Denotes, L, f
<1>7. CASE m \notin p.sat
  <2>1. ASSUME NEW i \in 1..(n + 1), m \in L.levels[i].p
        PROVE  i # 1 /\ i - 1 \in 1..n /\ m \in R.levels[i - 1].p
    <3>1. i # 1
      BY <2>1, <1>3, <1>7
    <3>2. i - 1 \in 1..n /\ i = (i - 1) + 1
      BY <3>1, <1>1 DEF n
    <3> QED BY <3>1, <3>2, <1>3, <2>1
  <2>2. Undecided(L, m) <=> Undecided(R, m)
    <3>1. ASSUME Undecided(R, m) PROVE Undecided(L, m)
      <4> SUFFICES ASSUME NEW i \in 1..(n + 1), m \in L.levels[i].p PROVE FALSE
        BY <1>3 DEF Undecided
      <4> QED BY <2>1, <3>1, <1>3 DEF Undecided
    <3>2. ASSUME Undecided(L, m), NEW i \in 1..n PROVE m \notin R.levels[i].p
      BY <3>2, <1>3, <1>4 DEF Undecided
    <3>3. Undecided(L, m) => Undecided(R, m)
      BY <3>2, <1>3 DEF Undecided
    <3> QED BY <3>1, <3>3
  <2>3. ASSUME NEW i \in 1..n PROVE Decides(L, i + 1, m) <=> Decides(R, i, m)
    <3>1. ASSUME Decides(L, i + 1, m) PROVE Decides(R, i, m)
      <4>1. m \in R.levels[i].p
        BY <3>1, <1>3 DEF Decides
      <4>2. ASSUME NEW j \in 1..(i - 1) PROVE m \notin R.levels[j].p
        <5>1. j + 1 \in 1..((i + 1) - 1) /\ j \in 1..n
          BY <1>1 DEF n
        <5> QED BY <5>1, <3>1, <1>3 DEF Decides
      <4> QED BY <4>1, <4>2 DEF Decides
    <3>2. ASSUME Decides(R, i, m) PROVE Decides(L, i + 1, m)
      <4>1. m \in L.levels[i + 1].p
        BY <3>2, <1>3 DEF Decides
      <4>2. ASSUME NEW j \in 1..((i + 1) - 1), m \in L.levels[j].p PROVE FALSE
        <5>1. j \in 1..(n + 1)
          BY <1>1 DEF n
        <5>2. j # 1 /\ j - 1 \in 1..n /\ m \in R.levels[j - 1].p
          BY <5>1, <2>1, <4>2
        <5>3. j - 1 \in 1..(i - 1)
          BY <5>2, <1>1 DEF n
        <5> QED BY <5>2, <5>3, <3>2 DEF Decides
      <4> QED BY <4>1, <4>2 DEF Decides
    <3> QED BY <3>1, <3>2
  <2>4. Holds(L, m) <=> Holds(R, m)
    <3>1. ASSUME Holds(L, m) PROVE Holds(R, m)
      <4>1. PICK i \in 1..(n + 1) : Decides(L, i, m) /\ m \in L.levels[i].a
        BY <3>1, <1>3 DEF Holds
      <4>2. i - 1 \in 1..n /\ i = (i - 1) + 1
        BY <4>1, <2>1, <1>1 DEF Decides, n
      <4>3. Decides(R, i - 1, m) /\ m \in R.levels[i - 1].a
        BY <4>1, <4>2, <2>3, <1>3
      <4> QED BY <4>2, <4>3, <1>3 DEF Holds
    <3>2. ASSUME Holds(R, m) PROVE Holds(L, m)
      <4>1. PICK i \in 1..n : Decides(R, i, m) /\ m \in R.levels[i].a
        BY <3>2, <1>3 DEF Holds
      <4> QED BY <4>1, <2>3, <1>3, <1>4 DEF Holds
    <3> QED BY <3>1, <3>2
  <2>5. L.end = R.end
    BY <1>3
  <2> QED BY <2>2, <2>4, <2>5, <1>7 DEF Says, Denotes, L, R, f
<1> QED BY <1>6, <1>7

-----------------------------------------------------------------------------
\* Finite formulas.

\* What is decided before anything behind f matters.
Cover(f) == IF IsLevel(f) THEN hp(f).sat ELSE IF f = unreachablePF THEN Assignment ELSE {}

\* The four kinds of finite formulas.
LEMMA BoolFFs ==
    /\ TrueFF \in BoolFF /\ FalseFF \in BoolFF /\ Unreachable_BoolFF \in BoolFF
    /\ TrueFF.sat = Assignment /\ FalseFF.sat = {} /\ Unreachable_BoolFF.sat = {}
    /\ TrueFF # FalseFF /\ TrueFF # Unreachable_BoolFF /\ FalseFF # Unreachable_BoolFF
    /\ \A a \in BoolFF : a.sat \in SUBSET Assignment
    /\ \A s \in SUBSET Assignment : /\ Symbolic(s) \in BoolFF /\ Symbolic(s).sat = s
                                    /\ Symbolic(s) # TrueFF /\ Symbolic(s) # FalseFF
                                    /\ Symbolic(s) # Unreachable_BoolFF
<1>1. TrueFF \in BoolFF /\ FalseFF \in BoolFF /\ Unreachable_BoolFF \in BoolFF
  BY DEF BoolFF
<1>2. /\ TrueFF.class = "true" /\ FalseFF.class = "false" /\ Unreachable_BoolFF.class = "unreachable"
      /\ TrueFF.sat = Assignment /\ FalseFF.sat = {} /\ Unreachable_BoolFF.sat = {}
  BY DEF TrueFF, FalseFF, Unreachable_BoolFF
<1>3. \A a \in BoolFF : a.sat \in SUBSET Assignment
  BY <1>2 DEF BoolFF
<1>4. \A s \in SUBSET Assignment : /\ Symbolic(s) \in BoolFF /\ Symbolic(s).sat = s
                                   /\ Symbolic(s).class = "symbolic"
  BY DEF Symbolic, BoolFF
<1>5. "true" # "false" /\ "true" # "unreachable" /\ "false" # "unreachable"
      /\ "symbolic" \notin {"true", "false", "unreachable"}
  OBVIOUS
<1> QED BY <1>1, <1>2, <1>3, <1>4, <1>5

\* andFF is conjunction, and gives Unreachable_BoolFF only where it was.
LEMMA AndFFIs ==
    ASSUME NEW a \in BoolFF, NEW b \in BoolFF
    PROVE  /\ andFF(a, b) \in BoolFF /\ andFF(a, b).sat = a.sat \cap b.sat
           /\ andFF(a, b) = Unreachable_BoolFF => a = Unreachable_BoolFF \/ b = Unreachable_BoolFF
           /\ andFF(FalseFF, b) = FalseFF /\ andFF(a, FalseFF) = FalseFF
<1>1. a.sat \in SUBSET Assignment /\ b.sat \in SUBSET Assignment
  BY BoolFFs
<1>2. Symbolic(a.sat \cap b.sat) \in BoolFF /\ Symbolic(a.sat \cap b.sat).sat = a.sat \cap b.sat
      /\ Symbolic(a.sat \cap b.sat) # Unreachable_BoolFF
  <2>1. a.sat \cap b.sat \in SUBSET Assignment
    BY <1>1
  <2> QED BY <2>1, BoolFFs
<1>3. andFF(FalseFF, b) = FalseFF /\ andFF(a, FalseFF) = FalseFF
  BY BoolFFs DEF andFF
<1>4. CASE a = TrueFF
  BY <1>1, <1>4, <1>3, BoolFFs DEF andFF
<1>5. CASE b = TrueFF
  BY <1>1, <1>5, <1>3, BoolFFs DEF andFF
<1>6. CASE a # TrueFF /\ b # TrueFF /\ FalseFF \in {a, b}
  BY <1>1, <1>6, <1>3, BoolFFs DEF andFF
<1>7. CASE a # TrueFF /\ b # TrueFF /\ FalseFF \notin {a, b} /\ Unreachable_BoolFF \in {a, b}
  BY <1>1, <1>7, <1>3, BoolFFs DEF andFF
<1>8. CASE a # TrueFF /\ b # TrueFF /\ FalseFF \notin {a, b} /\ Unreachable_BoolFF \notin {a, b}
  <2>1. andFF(a, b) = Symbolic(a.sat \cap b.sat)
    BY <1>8 DEF andFF
  <2> QED BY <2>1, <1>2, <1>3
<1> QED BY <1>4, <1>5, <1>6, <1>7, <1>8

\* notFF is negation of what is reachable.
LEMMA NotFFIs ==
    ASSUME NEW a \in BoolFF
    PROVE  /\ notFF(a) \in BoolFF /\ (notFF(a) = Unreachable_BoolFF <=> a = Unreachable_BoolFF)
           /\ a # Unreachable_BoolFF => notFF(a).sat = Assignment \ a.sat
           /\ a \notin {TrueFF, FalseFF, Unreachable_BoolFF} => notFF(a) = Symbolic(Assignment \ a.sat)
<1>1. a.sat \in SUBSET Assignment /\ Assignment \ a.sat \in SUBSET Assignment
  BY BoolFFs
<1>2. CASE a \in {TrueFF, FalseFF, Unreachable_BoolFF}
  BY <1>1, <1>2, BoolFFs DEF notFF
<1>3. CASE a \notin {TrueFF, FalseFF, Unreachable_BoolFF}
  <2>1. notFF(a) = Symbolic(Assignment \ a.sat)
    BY <1>3 DEF notFF
  <2> QED BY <2>1, <1>1, <1>3, BoolFFs
<1> QED BY <1>2, <1>3

\* orFF is disjunction of what is reachable.
LEMMA OrFFIs ==
    ASSUME NEW a \in BoolFF, NEW b \in BoolFF
    PROVE  /\ orFF(a, b) \in BoolFF
           /\ a # Unreachable_BoolFF => orFF(a, b) # Unreachable_BoolFF \/ (a = FalseFF /\ b = Unreachable_BoolFF)
           /\ a # Unreachable_BoolFF /\ b # Unreachable_BoolFF => orFF(a, b).sat = a.sat \cup b.sat
           /\ a \notin {TrueFF, FalseFF, Unreachable_BoolFF} => orFF(a, Unreachable_BoolFF) = TrueFF
<1>1. a.sat \in SUBSET Assignment /\ b.sat \in SUBSET Assignment
  BY BoolFFs
<1>2. Symbolic(a.sat \cup b.sat) \in BoolFF /\ Symbolic(a.sat \cup b.sat).sat = a.sat \cup b.sat
      /\ Symbolic(a.sat \cup b.sat) # Unreachable_BoolFF
  <2>1. a.sat \cup b.sat \in SUBSET Assignment
    BY <1>1
  <2> QED BY <2>1, BoolFFs
<1>3. a \notin {TrueFF, FalseFF, Unreachable_BoolFF} => orFF(a, Unreachable_BoolFF) = TrueFF
  BY BoolFFs DEF orFF
<1>4. CASE TrueFF \in {a, b}
  BY <1>1, <1>4, <1>3, BoolFFs DEF orFF
<1>5. CASE TrueFF \notin {a, b} /\ (a = FalseFF \/ b = FalseFF)
  BY <1>1, <1>5, <1>3, BoolFFs DEF orFF
<1>6. CASE TrueFF \notin {a, b} /\ a # FalseFF /\ b # FalseFF /\ Unreachable_BoolFF \in {a, b}
  BY <1>1, <1>6, <1>3, BoolFFs DEF orFF
<1>7. CASE TrueFF \notin {a, b} /\ a # FalseFF /\ b # FalseFF /\ Unreachable_BoolFF \notin {a, b}
  <2>1. orFF(a, b) = Symbolic(a.sat \cup b.sat)
    BY <1>7 DEF orFF
  <2> QED BY <2>1, <1>2, <1>3
<1> QED BY <1>4, <1>5, <1>6, <1>7

\* if p then a else b: where p selects a branch, that branch.
LEMMA IteFFIs ==
    ASSUME NEW p \in BoolFF, NEW a \in BoolFF, NEW b \in BoolFF
    PROVE  /\ iteFF(p, a, b) \in BoolFF
           /\ p # Unreachable_BoolFF =>
                /\ iteFF(p, a, b) = Unreachable_BoolFF =>
                     \/ p = TrueFF /\ a = Unreachable_BoolFF
                     \/ p = FalseFF /\ b = Unreachable_BoolFF
                     \/ a = Unreachable_BoolFF /\ b = Unreachable_BoolFF
                /\ iteFF(p, FalseFF, FalseFF) = FalseFF
                /\ \A m \in Assignment :
                     /\ m \in p.sat /\ a # Unreachable_BoolFF => (m \in iteFF(p, a, b).sat <=> m \in a.sat)
                     /\ m \notin p.sat /\ b # Unreachable_BoolFF => (m \in iteFF(p, a, b).sat <=> m \in b.sat)
           /\ iteFF(TrueFF, a, b) = a /\ iteFF(FalseFF, a, b) = b
           /\ iteFF(Unreachable_BoolFF, a, b) = Unreachable_BoolFF
<1> DEFINE U == Unreachable_BoolFF
           s == (p.sat \cap a.sat) \cup (b.sat \ p.sat)
<1>1. /\ a.sat \in SUBSET Assignment /\ b.sat \in SUBSET Assignment /\ p.sat \in SUBSET Assignment
      /\ s \in SUBSET Assignment
  BY BoolFFs
<1>2. /\ iteFF(TrueFF, a, b) = a /\ iteFF(FalseFF, a, b) = b /\ iteFF(U, a, b) = U
      /\ iteFF(TrueFF, FalseFF, FalseFF) = FalseFF /\ iteFF(FalseFF, FalseFF, FalseFF) = FalseFF
  BY BoolFFs DEF iteFF
<1>3. CASE p \in {TrueFF, FalseFF, U}
  BY <1>1, <1>2, <1>3, BoolFFs
<1>4. CASE p \notin {TrueFF, FalseFF, U}
  <2>0. iteFF(p, FalseFF, FalseFF) = FalseFF
    <3>1. iteFF(p, FalseFF, FalseFF) = andFF(p, FalseFF)
      BY <1>4, BoolFFs DEF iteFF
    <3> QED BY <3>1, AndFFIs, BoolFFs
  <2> DEFINE r == iteFF(p, a, b)
             Goal == /\ r \in BoolFF /\ (r = U => a = U /\ b = U)
                     /\ \A m \in Assignment :
                          /\ m \in p.sat /\ a # U => (m \in r.sat <=> m \in a.sat)
                          /\ m \notin p.sat /\ b # U => (m \in r.sat <=> m \in b.sat)
  <2> SUFFICES Goal
    BY <2>0, <1>2, <1>4
  <2>1. CASE a = TrueFF
    <3>1. r = orFF(p, b)
      BY <1>4, <2>1 DEF iteFF
    <3> HIDE DEF r
    <3>2. r \in BoolFF /\ r # U
      BY <3>1, <1>4, OrFFIs
    <3>3. CASE b = U
      <4>1. r = TrueFF
        BY <3>1, <3>3, <1>4, OrFFIs
      <4> QED BY <4>1, <3>2, <3>3, <2>1, <1>1, BoolFFs
    <3>4. CASE b # U
      <4>1. r.sat = p.sat \cup b.sat
        BY <3>1, <3>4, <1>4, OrFFIs
      <4> QED BY <4>1, <3>2, <2>1, <1>1, BoolFFs
    <3> QED BY <3>3, <3>4
  <2>2. CASE a # TrueFF /\ b = FalseFF
    <3>1. r = andFF(p, a)
      BY <1>4, <2>2 DEF iteFF
    <3> HIDE DEF r
    <3>2. r \in BoolFF /\ (r = U => a = U) /\ r.sat = p.sat \cap a.sat
      BY <3>1, <1>4, AndFFIs
    <3>3. r # U \/ a = U
      BY <3>2
    <3>4. a = U => r = FalseFF
      <4> SUFFICES ASSUME a = U PROVE andFF(p, U) = FalseFF
        BY <3>1
      <4> QED BY <1>4, BoolFFs DEF andFF
    <3> QED BY <3>2, <3>4, <2>2, <1>1, BoolFFs
  <2>3. CASE a # TrueFF /\ b # FalseFF /\ b = TrueFF
    <3>1. r = orFF(notFF(p), a)
      BY <1>4, <2>3, BoolFFs DEF iteFF
    <3> HIDE DEF r
    <3>2. /\ notFF(p) \in BoolFF /\ notFF(p) \notin {TrueFF, FalseFF, U}
          /\ notFF(p).sat = Assignment \ p.sat
      <4>1. Assignment \ p.sat \in SUBSET Assignment
        BY <1>1
      <4> QED BY <4>1, <1>4, NotFFIs, BoolFFs
    <3>3. r \in BoolFF /\ r # U
      BY <3>1, <3>2, OrFFIs
    <3>4. CASE a = U
      <4>1. r = TrueFF
        BY <3>1, <3>2, <3>4, OrFFIs
      <4> QED BY <4>1, <3>3, <3>4, <2>3, <1>1, BoolFFs
    <3>5. CASE a # U
      <4>1. r.sat = (Assignment \ p.sat) \cup a.sat
        BY <3>1, <3>2, <3>5, OrFFIs
      <4> QED BY <4>1, <3>3, <2>3, <1>1, BoolFFs
    <3> QED BY <3>4, <3>5
  <2>4. CASE a # TrueFF /\ b # FalseFF /\ b # TrueFF /\ a = FalseFF
    <3>1. r = andFF(notFF(p), b)
      BY <1>4, <2>4, BoolFFs DEF iteFF
    <3> HIDE DEF r
    <3>2. /\ notFF(p) \in BoolFF /\ notFF(p) \notin {TrueFF, FalseFF, U}
          /\ notFF(p).sat = Assignment \ p.sat
      <4>1. Assignment \ p.sat \in SUBSET Assignment
        BY <1>1
      <4> QED BY <4>1, <1>4, NotFFIs, BoolFFs
    <3>3. r \in BoolFF /\ r.sat = (Assignment \ p.sat) \cap b.sat /\ (r = U => b = U)
      BY <3>1, <3>2, AndFFIs
    <3>4. b = U => r = FalseFF
      <4> SUFFICES ASSUME b = U PROVE andFF(notFF(p), U) = FalseFF
        BY <3>1
      <4> QED BY <3>2, BoolFFs DEF andFF
    <3> QED BY <3>3, <3>4, <2>4, <1>1, BoolFFs
  <2>5. CASE a \notin {TrueFF, FalseFF} /\ b \notin {TrueFF, FalseFF} /\ a = U
    <3>1. r = b
      BY <1>4, <2>5, BoolFFs DEF iteFF
    <3> QED BY <3>1, <2>5
  <2>6. CASE a \notin {TrueFF, FalseFF, U} /\ b \notin {TrueFF, FalseFF} /\ b = U
    <3>1. r = a
      BY <1>4, <2>6, BoolFFs DEF iteFF
    <3> QED BY <3>1, <2>6
  <2>7. CASE a \notin {TrueFF, FalseFF, U} /\ b \notin {TrueFF, FalseFF, U}
    <3>1. r = Symbolic(s)
      BY <1>4, <2>7, BoolFFs DEF iteFF
    <3>2. r \in BoolFF /\ r # U /\ r.sat = s
      BY <3>1, <1>1, BoolFFs
    <3> QED BY <3>2, <2>7
  <2> QED BY <2>1, <2>2, <2>3, <2>4, <2>5, <2>6, <2>7
<1> QED BY <1>3, <1>4

-----------------------------------------------------------------------------
\* Properness, level by level, and induction on formulas.

\* Decides less and less, down to a proper end.
Narrows(f) == Shrinks(f) /\ EndsCovered(f)

\* A tail is proper.
LEMMA TailProper ==
    ASSUME NEW f \in PartialF, ~IsLevel(f) PROVE FFsOk(f) /\ EndsCovered(f) /\ Narrows(f)
<1>1. Len(f.levels) = 0 /\ f.levels = <<>>
  BY DEF IsLevel
<1> QED BY <1>1 DEF FFsOk, EndsCovered, Narrows, Shrinks

\* What makes a formula proper, level by level.
LEMMA ConsProper ==
    ASSUME NEW p \in BoolFF, NEW a \in BoolFF, NEW r \in PartialF
    PROVE  /\ FFsOk(PartialF_(p, a, r)) <=> /\ p # Unreachable_BoolFF
                                            /\ (a = Unreachable_BoolFF => p = FalseFF) /\ FFsOk(r)
           /\ EndsCovered(PartialF_(p, a, r)) <=> (r = unreachablePF => p.sat = Assignment) /\ EndsCovered(r)
           /\ Narrows(PartialF_(p, a, r)) <=> Cover(r) \subseteq p.sat /\ Narrows(r)
           /\ Cover(PartialF_(p, a, r)) = p.sat
<1> DEFINE f == PartialF_(p, a, r)
           n == Len(r.levels)
<1>1. /\ n \in Nat /\ Len(f.levels) = n + 1 /\ f.levels[1] = [p |-> p, a |-> a]
      /\ \A i \in 1..n : f.levels[i + 1] = r.levels[i]
      /\ \A i \in 1..(n + 1) : i = 1 \/ i - 1 \in 1..n
      /\ f.end = r.end
      /\ f \in PartialF /\ IsLevel(f) /\ hp(f) = p
  <2> HIDE DEF f
  <2>1. f = PartialF_(p, a, r)
    BY DEF f
  <2>2. f \in PartialF /\ IsLevel(f) /\ hp(f) = p
    BY <2>1, Cons
  <2>3. /\ n \in Nat /\ Len(f.levels) = n + 1 /\ f.levels[1] = [p |-> p, a |-> a]
        /\ \A i \in 1..n : f.levels[i + 1] = r.levels[i]
        /\ \A i \in 1..(n + 1) : i = 1 \/ i - 1 \in 1..n
        /\ f.end = r.end
    BY <2>1, ConsLevels
  <2> HIDE DEF n
  <2> QED BY <2>2, <2>3
<1>2. f.levels[1].p = p /\ f.levels[1].a = a
  <2> HIDE DEF f
  <2> QED BY <1>1
<1>3. p.sat \in SUBSET Assignment
  BY BoolFFs
<1>4. f.levels # <<>>
  BY <1>1 DEF IsLevel
<1>r. IF IsLevel(r) THEN /\ n > 0 /\ hp(r) = r.levels[1].p /\ r # unreachablePF
                         /\ r.levels # <<>>
      ELSE n = 0 /\ (r.end = "unreachable" <=> r = unreachablePF) /\ r.levels = <<>>
  <2>1. CASE IsLevel(r)
    <3>1. r.levels \in Seq(Level_)
      BY DEF PartialF, Level_
    <3>2. r.levels # <<>>
      BY <2>1 DEF IsLevel
    <3>3. n > 0 /\ Head(r.levels) = r.levels[1]
      BY <3>1, <3>2
    <3> QED BY <3>2, <3>3, <2>1, LevelIs DEF hp
  <2>2. CASE ~IsLevel(r)
    <3>1. r.levels = <<>> /\ n = 0
      BY <2>2 DEF IsLevel
    <3> QED BY <3>1, <2>2, TailIs, Tails
  <2> QED BY <2>1, <2>2
<1> HIDE DEF f, n
<1>5. FFsOk(f) <=> p # Unreachable_BoolFF /\ (a = Unreachable_BoolFF => p = FalseFF) /\ FFsOk(r)
  <2>1. ASSUME FFsOk(f) PROVE p # Unreachable_BoolFF /\ (a = Unreachable_BoolFF => p = FalseFF)
    <3>1. 1 \in 1..Len(f.levels)
      BY <1>1
    <3> QED BY <3>1, <2>1, <1>2 DEF FFsOk
  <2>2. ASSUME FFsOk(f), NEW i \in 1..n
        PROVE  /\ r.levels[i].p # Unreachable_BoolFF
               /\ r.levels[i].a = Unreachable_BoolFF => r.levels[i].p = FalseFF
    <3>1. i + 1 \in 1..Len(f.levels)
      BY <1>1
    <3> QED BY <3>1, <2>2, <1>1 DEF FFsOk
  <2>3. ASSUME p # Unreachable_BoolFF, a = Unreachable_BoolFF => p = FalseFF, FFsOk(r),
               NEW i \in 1..Len(f.levels)
        PROVE  /\ f.levels[i].p # Unreachable_BoolFF
               /\ f.levels[i].a = Unreachable_BoolFF => f.levels[i].p = FalseFF
    <3>1. CASE i = 1
      BY <3>1, <2>3, <1>2
    <3>2. CASE i # 1
      <4>1. i - 1 \in 1..n /\ i = (i - 1) + 1
        BY <3>2, <1>1
      <4>2. f.levels[i] = r.levels[i - 1]
        BY <4>1, <1>1
      <4> QED BY <4>1, <4>2, <2>3 DEF FFsOk, n
    <3> QED BY <3>1, <3>2
  <2> QED BY <2>1, <2>2, <2>3 DEF FFsOk, n
<1>6. EndsCovered(f) <=> (r = unreachablePF => p.sat = Assignment) /\ EndsCovered(r)
  <2>1. CASE IsLevel(r)
    <3>1. n \in 1..n /\ f.levels[n + 1] = r.levels[n]
      BY <2>1, <1>r, <1>1
    <3> QED BY <3>1, <2>1, <1>r, <1>1, <1>4 DEF EndsCovered, n
  <2>2. CASE ~IsLevel(r)
    <3>1. EndsCovered(r)
      BY <2>2, TailProper
    <3>2. f.levels[Len(f.levels)].p = p
      BY <2>2, <1>r, <1>1, <1>2
    <3> QED BY <3>1, <3>2, <2>2, <1>r, <1>1, <1>4 DEF EndsCovered
  <2> QED BY <2>1, <2>2
<1>7. Shrinks(f) <=> (IsLevel(r) => hp(r).sat \subseteq p.sat) /\ Shrinks(r)
  <2>1. Len(f.levels) - 1 = n
    BY <1>1
  <2>2. ASSUME Shrinks(f), NEW i \in 1..(n - 1)
        PROVE  r.levels[i + 1].p.sat \subseteq r.levels[i].p.sat
    <3>1. i + 1 \in 1..n /\ i \in 1..n
      BY <1>1
    <3>2. f.levels[(i + 1) + 1].p.sat \subseteq f.levels[i + 1].p.sat
      BY <3>1, <2>1, <2>2 DEF Shrinks
    <3> QED BY <3>1, <3>2, <1>1
  <2>3. ASSUME Shrinks(f), IsLevel(r) PROVE hp(r).sat \subseteq p.sat
    <3>1. 1 \in 1..n
      BY <2>3, <1>r, <1>1
    <3>2. f.levels[1 + 1].p.sat \subseteq f.levels[1].p.sat
      BY <3>1, <2>1, <2>3 DEF Shrinks
    <3> QED BY <3>1, <3>2, <1>1, <1>2, <1>r, <2>3
  <2>4. ASSUME IsLevel(r) => hp(r).sat \subseteq p.sat, Shrinks(r), NEW i \in 1..n
        PROVE  f.levels[i + 1].p.sat \subseteq f.levels[i].p.sat
    <3>1. f.levels[i + 1] = r.levels[i]
      BY <1>1
    <3>2. CASE i = 1
      <4>1. IsLevel(r)
        BY <1>r, <1>1
      <4> QED BY <4>1, <3>1, <3>2, <1>2, <1>r, <2>4
    <3>3. CASE i # 1
      <4>1. i - 1 \in 1..n /\ i - 1 \in 1..(n - 1) /\ (i - 1) + 1 = i
        BY <3>3, <1>1
      <4>2. f.levels[i] = r.levels[i - 1]
        BY <4>1, <1>1
      <4>3. r.levels[(i - 1) + 1].p.sat \subseteq r.levels[i - 1].p.sat
        BY <4>1, <2>4 DEF Shrinks, n
      <4> QED BY <4>1, <4>2, <4>3, <3>1
    <3> QED BY <3>2, <3>3
  <2> QED BY <2>1, <2>2, <2>3, <2>4 DEF Shrinks, n
<1>8. Narrows(f) <=> Cover(r) \subseteq p.sat /\ Narrows(r)
  <2>1. CASE IsLevel(r)
    BY <2>1, <1>6, <1>7, <1>r DEF Narrows, Cover
  <2>2. CASE ~IsLevel(r)
    BY <2>2, <1>3, <1>6, <1>7, <1>r DEF Narrows, Cover
  <2> QED BY <2>1, <2>2
<1>9. Cover(f) = p.sat
  BY <1>1 DEF Cover
<1> QED BY <1>5, <1>6, <1>8, <1>9 DEF f

\* What the tails decide.
LEMMA Covers ==
    /\ Cover(unreachablePF) = Assignment /\ Cover(Errors) = {} /\ Cover(Hangs) = {}
    /\ \A f \in PartialF : Cover(f) \in SUBSET Assignment
<1>1. Cover(unreachablePF) = Assignment /\ Cover(Errors) = {} /\ Cover(Hangs) = {}
  BY Tails DEF Cover
<1>2. ASSUME NEW f \in PartialF PROVE Cover(f) \in SUBSET Assignment
  BY BoolFFs, LevelIs DEF Cover
<1> QED BY <1>1, <1>2

\* Induction on formulas, stated of sets of them.
LEMMA FormulaInduction ==
    ASSUME NEW P \in SUBSET PartialF, unreachablePF \in P, Errors \in P, Hangs \in P,
           \A p, a \in BoolFF : \A r \in P : PartialF_(p, a, r) \in P
    PROVE  P = PartialF
<1> DEFINE rank == [f \in PartialF |-> Size(f)]
<1>1. rank \in [PartialF -> Nat]
  BY SizeNat
<1>2. ASSUME NEW f \in PartialF, \A g \in PartialF : rank[g] < rank[f] => g \in P
      PROVE  f \in P
  <2>1. CASE IsLevel(f)
    <3>1. /\ hp(f) \in BoolFF /\ ha(f) \in BoolFF /\ Rest(f) \in PartialF
          /\ f = PartialF_(hp(f), ha(f), Rest(f)) /\ Size(f) = Size(Rest(f)) + 1
      BY <2>1, LevelIs
    <3>2. rank[Rest(f)] < rank[f]
      BY <3>1, SizeNat
    <3>3. Rest(f) \in P
      BY <3>1, <3>2, <1>2
    <3> QED BY <3>1, <3>3
  <2>2. CASE ~IsLevel(f)
    BY <2>2, TailIs
  <2> QED BY <2>1, <2>2
<1> HIDE DEF rank
<1>3. Inductive(P, PartialF, rank)
  BY <1>1, <1>2 DEF Inductive
<1> QED BY <1>3, RankInduction

-----------------------------------------------------------------------------
\* unaryPF.

\* unaryPF, for a function.
Map(F, f) ==
    [levels |-> [i \in 1..Len(f.levels) |-> [p |-> f.levels[i].p, a |-> F[f.levels[i].a]]],
     end |-> f.end]

\* andFF g and notFF, as functions.
AndFn(g) == [a \in BoolFF |-> andFF(g, a)]
NotFn == [a \in BoolFF |-> notFF(a)]

\* The levels are pairs of finite formulas.
LEMMA LevelsTyped ==
    ASSUME NEW f \in PartialF
    PROVE  /\ Len(f.levels) \in Nat /\ f.end \in Ends /\ f.levels \in Seq(Level_)
           /\ \A i \in 1..Len(f.levels) : /\ f.levels[i].p \in BoolFF /\ f.levels[i].a \in BoolFF
                                          /\ f.levels[i] = [p |-> f.levels[i].p, a |-> f.levels[i].a]
<1>1. f.levels \in Seq(Level_) /\ f.end \in Ends
  BY DEF PartialF, Level_
<1>2. Len(f.levels) \in Nat /\ \A i \in 1..Len(f.levels) : f.levels[i] \in Level_
  BY <1>1
<1> QED BY <1>1, <1>2 DEF Level_

\* unaryPF, level by level.
LEMMA MapIs ==
    ASSUME NEW F \in [BoolFF -> BoolFF]
    PROVE  /\ \A f \in PartialF : Map(F, f) \in PartialF
           /\ Map(F, unreachablePF) = unreachablePF /\ Map(F, Errors) = Errors
           /\ Map(F, Hangs) = Hangs
           /\ \A p, a \in BoolFF : \A r \in PartialF :
                Map(F, PartialF_(p, a, r)) = PartialF_(p, F[a], Map(F, r))
<1>1. ASSUME NEW f \in PartialF
      PROVE  /\ Map(F, f).levels \in [1..Len(f.levels) -> Level_]
             /\ Map(F, f).levels \in Seq(Level_) /\ Len(Map(F, f).levels) = Len(f.levels)
             /\ Map(F, f).end = f.end /\ Map(F, f) \in PartialF
             /\ \A i \in 1..Len(f.levels) :
                  Map(F, f).levels[i] = [p |-> f.levels[i].p, a |-> F[f.levels[i].a]]
  <2> DEFINE n == Len(f.levels)
             g(i) == [p |-> f.levels[i].p, a |-> F[f.levels[i].a]]
             l == [i \in 1..n |-> g(i)]
  <2>1. n \in Nat /\ f.end \in Ends /\ \A i \in 1..n : g(i) \in Level_
    BY LevelsTyped DEF Level_
  <2>2. Map(F, f) = [levels |-> l, end |-> f.end]
    BY DEF Map
  <2>3. l \in [1..n -> Level_] /\ l \in Seq(Level_) /\ Len(l) = n /\ \A i \in 1..n : l[i] = g(i)
    <3> HIDE DEF g, n
    <3> QED BY <2>1
  <2>4. Map(F, f).levels = l /\ Map(F, f).end = f.end
    BY <2>2
  <2> HIDE DEF l
  <2>5. Map(F, f) \in PartialF
    BY <2>1, <2>2, <2>3 DEF PartialF, Level_
  <2> QED BY <2>3, <2>4, <2>5
<1>2. ASSUME NEW e \in Ends PROVE Map(F, Tail_(e)) = Tail_(e)
  <2> DEFINE f == Tail_(e)
  <2>1. f \in PartialF /\ f.end = e /\ ~IsLevel(f)
    BY TailFacts
  <2>2. f.levels = <<>>
    BY DEF Tail_
  <2>3. Map(F, f) \in PartialF /\ Len(Map(F, f).levels) = 0 /\ Map(F, f).end = e
        /\ Map(F, f).levels \in Seq(Level_)
    <3> HIDE DEF f
    <3>1. Len(f.levels) = 0
      BY <2>2
    <3> QED BY <1>1, <2>1, <3>1
  <2>4. Map(F, f).levels = <<>>
    BY <2>3
  <2>5. Map(F, f) = [levels |-> Map(F, f).levels, end |-> Map(F, f).end]
    BY DEF Map
  <2> QED BY <2>3, <2>4, <2>5 DEF Tail_
<1>3. /\ Map(F, unreachablePF) = unreachablePF /\ Map(F, Errors) = Errors
      /\ Map(F, Hangs) = Hangs
  BY <1>2 DEF unreachablePF, Errors, Hangs, Ends
<1>4. ASSUME NEW p \in BoolFF, NEW a \in BoolFF, NEW r \in PartialF
      PROVE  Map(F, PartialF_(p, a, r)) = PartialF_(p, F[a], Map(F, r))
  <2> DEFINE f == PartialF_(p, a, r)
             h == PartialF_(p, F[a], Map(F, r))
             n == Len(r.levels)
  <2>1. f \in PartialF /\ h \in PartialF /\ F[a] \in BoolFF /\ Map(F, r) \in PartialF
    BY <1>1, Cons
  <2>2. /\ n \in Nat /\ Len(f.levels) = n + 1 /\ f.levels[1] = [p |-> p, a |-> a]
        /\ \A i \in 1..n : f.levels[i + 1] = r.levels[i]
        /\ \A i \in 1..(n + 1) : i = 1 \/ i - 1 \in 1..n
        /\ f.end = r.end
    <3> HIDE DEF f
    <3>1. f = PartialF_(p, a, r)
      BY DEF f
    <3>2. /\ n \in Nat /\ Len(f.levels) = n + 1 /\ f.levels[1] = [p |-> p, a |-> a]
          /\ \A i \in 1..n : f.levels[i + 1] = r.levels[i]
          /\ \A i \in 1..Len(f.levels) : i = 1 \/ i - 1 \in 1..n
          /\ f.end = r.end
      BY <3>1, ConsLevels
    <3> HIDE DEF n
    <3> QED BY <3>2
  <2>3. /\ Len(h.levels) = n + 1 /\ h.levels[1] = [p |-> p, a |-> F[a]]
        /\ \A i \in 1..n : h.levels[i + 1] = Map(F, r).levels[i]
        /\ h.end = r.end
    <3> HIDE DEF h
    <3>1. h = PartialF_(p, F[a], Map(F, r))
      BY DEF h
    <3>2. Len(Map(F, r).levels) = n /\ Map(F, r).end = r.end
      BY <1>1
    <3>3. /\ Len(h.levels) = Len(Map(F, r).levels) + 1 /\ h.levels[1] = [p |-> p, a |-> F[a]]
          /\ \A i \in 1..Len(Map(F, r).levels) : h.levels[i + 1] = Map(F, r).levels[i]
          /\ h.end = Map(F, r).end
      BY <3>1, <2>1, ConsLevels
    <3> HIDE DEF n
    <3> QED BY <3>2, <3>3
  <2> HIDE DEF f, h
  <2>4. /\ Map(F, f).levels \in [1..(n + 1) -> Level_] /\ Map(F, f).end = r.end
        /\ Map(F, f) \in PartialF
        /\ \A i \in 1..(n + 1) : Map(F, f).levels[i] = [p |-> f.levels[i].p, a |-> F[f.levels[i].a]]
    BY <1>1, <2>1, <2>2
  <2>5. h.levels \in [1..(n + 1) -> Level_]
    <3>1. h.levels \in Seq(Level_) /\ Len(h.levels) = n + 1
      BY <2>1, <2>3, LevelsTyped
    <3> HIDE DEF n
    <3> QED BY <3>1
  <2>6. ASSUME NEW i \in 1..(n + 1) PROVE Map(F, f).levels[i] = h.levels[i]
    <3>1. CASE i = 1
      <4>1. f.levels[1].p = p /\ f.levels[1].a = a
        BY <2>2
      <4> QED BY <4>1, <3>1, <2>3, <2>4
    <3>2. CASE i # 1
      <4>1. i - 1 \in 1..n /\ i = (i - 1) + 1
        BY <3>2, <2>2
      <4>2. f.levels[i] = r.levels[i - 1] /\ h.levels[i] = Map(F, r).levels[i - 1]
        BY <4>1, <2>2, <2>3
      <4>3. Map(F, r).levels[i - 1] = [p |-> r.levels[i - 1].p, a |-> F[r.levels[i - 1].a]]
        BY <4>1, <1>1
      <4> QED BY <4>2, <4>3, <2>4
    <3> QED BY <3>1, <3>2
  <2>7. Map(F, f).levels = h.levels
    <3> DEFINE S == 1..(n + 1)
               u == Map(F, f).levels
               v == h.levels
    <3>1. u \in [S -> Level_] /\ v \in [S -> Level_] /\ \A i \in S : u[i] = v[i]
      BY <2>4, <2>5, <2>6
    <3> HIDE DEF S, u, v
    <3>2. u = v
      BY <3>1
    <3> QED BY <3>2 DEF u, v
  <2>8. Map(F, f) = [levels |-> Map(F, f).levels, end |-> Map(F, f).end]
        /\ h = [levels |-> h.levels, end |-> h.end]
    BY <2>1 DEF Map, PartialF
  <2>9. Map(F, f) = h
    BY <2>3, <2>4, <2>7, <2>8
  <2> QED BY <2>9 DEF f, h
<1> QED BY <1>1, <1>3, <1>4

\* andF_ and notF are unaryPF of them.
LEMMA UnaryIs ==
    ASSUME NEW f \in PartialF
    PROVE  /\ \A g \in BoolFF : andAll(g, f) = Map(AndFn(g), f)
           /\ notF(f) = Map(NotFn, f)
           /\ \A g \in BoolFF : AndFn(g) \in [BoolFF -> BoolFF]
           /\ NotFn \in [BoolFF -> BoolFF]
<1>1. ASSUME NEW g \in BoolFF PROVE andAll(g, f) = Map(AndFn(g), f) /\ AndFn(g) \in [BoolFF -> BoolFF]
  <2>1. AndFn(g) \in [BoolFF -> BoolFF]
    BY AndFFIs DEF AndFn
  <2>2. \A i \in 1..Len(f.levels) : AndFn(g)[f.levels[i].a] = andFF(g, f.levels[i].a)
    BY LevelsTyped DEF AndFn
  <2>3. andAll(g, f) = [levels |-> [i \in 1..Len(f.levels) |->
                                     [p |-> f.levels[i].p, a |-> andFF(g, f.levels[i].a)]],
                        end |-> f.end]
    BY DEF andAll, unaryPF
  <2>4. [i \in 1..Len(f.levels) |-> [p |-> f.levels[i].p, a |-> andFF(g, f.levels[i].a)]]
          = [i \in 1..Len(f.levels) |-> [p |-> f.levels[i].p, a |-> AndFn(g)[f.levels[i].a]]]
    BY <2>2
  <2> QED BY <2>1, <2>3, <2>4 DEF Map
<1>2. notF(f) = Map(NotFn, f) /\ NotFn \in [BoolFF -> BoolFF]
  <2>1. NotFn \in [BoolFF -> BoolFF]
    BY NotFFIs DEF NotFn
  <2>2. \A i \in 1..Len(f.levels) : NotFn[f.levels[i].a] = notFF(f.levels[i].a)
    BY LevelsTyped DEF NotFn
  <2>3. notF(f) = [levels |-> [i \in 1..Len(f.levels) |->
                                     [p |-> f.levels[i].p, a |-> notFF(f.levels[i].a)]],
                        end |-> f.end]
    BY DEF notF, unaryPF
  <2>4. [i \in 1..Len(f.levels) |-> [p |-> f.levels[i].p, a |-> notFF(f.levels[i].a)]]
          = [i \in 1..Len(f.levels) |-> [p |-> f.levels[i].p, a |-> NotFn[f.levels[i].a]]]
    BY <2>2
  <2> QED BY <2>1, <2>3, <2>4 DEF Map
<1> QED BY <1>1, <1>2

\* Only what the levels give changes; an element that is unreachable stays.
MapKeeps(F, f) ==
    LET h == Map(F, f)
    IN  /\ h \in PartialF /\ h.end = f.end /\ Cover(h) = Cover(f) /\ (h = unreachablePF <=> f = unreachablePF)
        /\ IsLevel(h) <=> IsLevel(f)
        /\ EndsCovered(f) => EndsCovered(h)
        /\ Narrows(f) => Narrows(h)

\* unaryPF keeps the guards, so what is decided.
LEMMA MapShape ==
    ASSUME NEW F \in [BoolFF -> BoolFF], NEW f \in PartialF
    PROVE  MapKeeps(F, f)
<1> DEFINE P == {x \in PartialF : MapKeeps(F, x)}
<1>1. unreachablePF \in P /\ Errors \in P /\ Hangs \in P
  BY MapIs, Tails DEF MapKeeps
<1>2. ASSUME NEW p \in BoolFF, NEW a \in BoolFF, NEW r \in P PROVE PartialF_(p, a, r) \in P
  <2> DEFINE x == PartialF_(p, a, r)
             h == PartialF_(p, F[a], Map(F, r))
  <2>1. r \in PartialF /\ MapKeeps(F, r) /\ F[a] \in BoolFF
    OBVIOUS
  <2>2. Map(F, x) = h /\ Map(F, r) \in PartialF
    BY <2>1, MapIs
  <2>3. /\ x \in PartialF /\ h \in PartialF /\ IsLevel(x) /\ IsLevel(h) /\ x.end = r.end
        /\ h.end = Map(F, r).end
    BY <2>1, <2>2, Cons
  <2>4. x # unreachablePF /\ h # unreachablePF
    BY <2>3, LevelIs
  <2>5. /\ EndsCovered(x) <=> (r = unreachablePF => p.sat = Assignment) /\ EndsCovered(r)
        /\ Narrows(x) <=> Cover(r) \subseteq p.sat /\ Narrows(r)
        /\ Cover(x) = p.sat
    BY <2>1, ConsProper
  <2>6. /\ EndsCovered(h) <=> (Map(F, r) = unreachablePF => p.sat = Assignment) /\ EndsCovered(Map(F, r))
        /\ Narrows(h) <=> Cover(Map(F, r)) \subseteq p.sat /\ Narrows(Map(F, r))
        /\ Cover(h) = p.sat
    BY <2>1, <2>2, ConsProper
  <2> HIDE DEF x, h
  <2>7. MapKeeps(F, x)
    BY <2>1, <2>2, <2>3, <2>4, <2>5, <2>6 DEF MapKeeps
  <2>8. x \in P
    BY <2>3, <2>7
  <2> QED BY <2>8 DEF x
<1> HIDE DEF P
<1>3. P \in SUBSET PartialF
  BY DEF P
<1>4. P = PartialF
  BY <1>1, <1>2, <1>3, FormulaInduction
<1> QED BY <1>4 DEF P

\* unaryPF (andFF g): conjunction with a finite formula.
LEMMA AndAllIs ==
    ASSUME NEW g \in BoolFF, NEW f \in PartialF
    PROVE  /\ andAll(g, f) \in PartialF /\ andAll(g, f).end = f.end /\ Cover(andAll(g, f)) = Cover(f)
           /\ andAll(g, f) = unreachablePF <=> f = unreachablePF
           /\ EndsCovered(f) => EndsCovered(andAll(g, f))
           /\ Narrows(f) => Narrows(andAll(g, f))
           /\ g # Unreachable_BoolFF /\ FFsOk(f) => FFsOk(andAll(g, f))
           /\ \A m : Says(andAll(g, f), m) = IF Says(f, m) = "holds" /\ m \notin g.sat THEN "fails"
                                             ELSE Says(f, m)
<1>1. /\ andAll(g, f) = Map(AndFn(g), f) /\ MapKeeps(AndFn(g), f)
      /\ AndFn(g) \in [BoolFF -> BoolFF]
  BY UnaryIs, MapShape
<1> DEFINE ok(x) ==
             LET h == Map(AndFn(g), x)
             IN  /\ g # Unreachable_BoolFF /\ FFsOk(x) => FFsOk(h)
                 /\ \A m : Says(h, m) = IF Says(x, m) = "holds" /\ m \notin g.sat THEN "fails" ELSE Says(x, m)
           P == {x \in PartialF : ok(x)}
<1>2. unreachablePF \in P /\ Errors \in P /\ Hangs \in P
  BY <1>1, MapIs, Tails, SaysTail
<1>3. ASSUME NEW p \in BoolFF, NEW a \in BoolFF, NEW r \in P PROVE PartialF_(p, a, r) \in P
  <2> DEFINE x == PartialF_(p, a, r)
             b == andFF(g, a)
             s == Map(AndFn(g), r)
             h == PartialF_(p, b, s)
  <2>1. r \in PartialF /\ ok(r)
    OBVIOUS
  <2>2. /\ b \in BoolFF /\ b.sat = g.sat \cap a.sat /\ s \in PartialF
        /\ (g # Unreachable_BoolFF /\ b = Unreachable_BoolFF => a = Unreachable_BoolFF)
    BY <1>1, <2>1, MapIs, AndFFIs
  <2>3. Map(AndFn(g), x) = h
    BY <1>1, <2>1, MapIs DEF AndFn
  <2>4. x \in PartialF
    BY <2>1, Cons
  <2>5. g # Unreachable_BoolFF /\ FFsOk(x) => FFsOk(h)
    <3>1. FFsOk(x) <=> p # Unreachable_BoolFF /\ (a = Unreachable_BoolFF => p = FalseFF) /\ FFsOk(r)
      BY <2>1, ConsProper
    <3>2. FFsOk(h) <=> p # Unreachable_BoolFF /\ (b = Unreachable_BoolFF => p = FalseFF) /\ FFsOk(s)
      BY <2>2, ConsProper
    <3> QED BY <3>1, <3>2, <2>1, <2>2
  <2>6. ASSUME NEW m
        PROVE  Says(h, m) = IF Says(x, m) = "holds" /\ m \notin g.sat THEN "fails" ELSE Says(x, m)
    <3>1. Says(x, m) = IF m \in p.sat THEN IF m \in a.sat THEN "holds" ELSE "fails" ELSE Says(r, m)
      BY <2>1, SaysCons
    <3>2. Says(h, m) = IF m \in p.sat THEN IF m \in b.sat THEN "holds" ELSE "fails" ELSE Says(s, m)
      BY <2>2, SaysCons
    <3>3. Says(s, m) = IF Says(r, m) = "holds" /\ m \notin g.sat THEN "fails" ELSE Says(r, m)
      BY <2>1
    <3>4. m \in b.sat <=> m \in g.sat /\ m \in a.sat
      BY <2>2
    <3> HIDE DEF x, h, s, b
    <3>5. CASE m \in p.sat
      BY <3>1, <3>2, <3>4, <3>5
    <3>6. CASE m \notin p.sat
      BY <3>1, <3>2, <3>3, <3>6
    <3> QED BY <3>5, <3>6
  <2> HIDE DEF x, h
  <2>7. x \in P
    BY <2>3, <2>4, <2>5, <2>6
  <2> QED BY <2>7 DEF x
<1> HIDE DEF P
<1>4. P \in SUBSET PartialF
  BY DEF P
<1>5. P = PartialF
  BY <1>2, <1>3, <1>4, FormulaInduction
<1> QED BY <1>1, <1>5 DEF P, MapKeeps

\* notF: negation.
LEMMA NotFIs ==
    ASSUME NEW f \in PartialF, FFsOk(f)
    PROVE  /\ notF(f) \in PartialF /\ notF(f).end = f.end /\ Cover(notF(f)) = Cover(f)
           /\ EndsCovered(f) => EndsCovered(notF(f))
           /\ Narrows(f) => Narrows(notF(f))
           /\ FFsOk(notF(f))
           /\ \A m \in Assignment : Says(notF(f), m) = IF Says(f, m) = "holds" THEN "fails"
                                                       ELSE IF Says(f, m) = "fails" THEN "holds"
                                                       ELSE Says(f, m)
<1>1. /\ notF(f) = Map(NotFn, f) /\ MapKeeps(NotFn, f)
      /\ NotFn \in [BoolFF -> BoolFF]
  BY UnaryIs, MapShape
<1> DEFINE ok(x) ==
             FFsOk(x) =>
             LET h == Map(NotFn, x)
             IN  /\ FFsOk(h)
                 /\ \A m \in Assignment : Says(h, m) = IF Says(x, m) = "holds" THEN "fails"
                                                       ELSE IF Says(x, m) = "fails" THEN "holds"
                                                       ELSE Says(x, m)
           P == {x \in PartialF : ok(x)}
<1>2. unreachablePF \in P /\ Errors \in P /\ Hangs \in P
  BY <1>1, MapIs, Tails, SaysTail
<1>3. ASSUME NEW p \in BoolFF, NEW a \in BoolFF, NEW r \in P PROVE PartialF_(p, a, r) \in P
  <2> DEFINE x == PartialF_(p, a, r)
             b == notFF(a)
             s == Map(NotFn, r)
             h == PartialF_(p, b, s)
  <2>1. r \in PartialF /\ ok(r)
    OBVIOUS
  <2>2. /\ b \in BoolFF /\ (a # Unreachable_BoolFF => b.sat = Assignment \ a.sat) /\ s \in PartialF
        /\ (b = Unreachable_BoolFF => a = Unreachable_BoolFF)
    BY <1>1, <2>1, MapIs, NotFFIs
  <2>3. Map(NotFn, x) = h
    BY <1>1, <2>1, MapIs DEF NotFn
  <2>4. x \in PartialF
    BY <2>1, Cons
  <2>5. FFsOk(x) <=> p # Unreachable_BoolFF /\ (a = Unreachable_BoolFF => p = FalseFF) /\ FFsOk(r)
    BY <2>1, ConsProper
  <2>6. FFsOk(x) => FFsOk(h)
    <3>2. FFsOk(h) <=> p # Unreachable_BoolFF /\ (b = Unreachable_BoolFF => p = FalseFF) /\ FFsOk(s)
      BY <2>2, ConsProper
    <3> QED BY <3>2, <2>1, <2>2, <2>5
  <2>7. ASSUME NEW m \in Assignment, FFsOk(x)
        PROVE  Says(h, m) = IF Says(x, m) = "holds" THEN "fails"
                            ELSE IF Says(x, m) = "fails" THEN "holds" ELSE Says(x, m)
    <3>1. Says(x, m) = IF m \in p.sat THEN IF m \in a.sat THEN "holds" ELSE "fails" ELSE Says(r, m)
      BY <2>1, SaysCons
    <3>2. Says(h, m) = IF m \in p.sat THEN IF m \in b.sat THEN "holds" ELSE "fails" ELSE Says(s, m)
      BY <2>2, SaysCons
    <3>3. Says(s, m) = IF Says(r, m) = "holds" THEN "fails"
                       ELSE IF Says(r, m) = "fails" THEN "holds" ELSE Says(r, m)
      BY <2>1, <2>5, <2>7
    <3> HIDE DEF x, h, s, b
    <3>5. CASE m \in p.sat
      <4>1. a # Unreachable_BoolFF
        BY <3>5, <2>5, <2>7, BoolFFs
      <4>2. m \in b.sat <=> m \notin a.sat
        BY <4>1, <2>2
      <4> QED BY <3>1, <3>2, <3>5, <4>2
    <3>6. CASE m \notin p.sat
      BY <3>1, <3>2, <3>3, <3>6
    <3> QED BY <3>5, <3>6
  <2> HIDE DEF x, h
  <2>8. x \in P
    BY <2>3, <2>4, <2>6, <2>7
  <2> QED BY <2>8 DEF x
<1> HIDE DEF P
<1>4. P \in SUBSET PartialF
  BY DEF P
<1>5. P = PartialF
  BY <1>2, <1>3, <1>4, FormulaInduction
<1> QED BY <1>1, <1>5 DEF P, MapKeeps

-----------------------------------------------------------------------------
\* itePF_: the function exists.

\* What select has of its arguments when it is done.
First(c) == approximated(c.x, "x" \in c.late)
Second(c) == approximated(c.y, "y" \in c.late)
Stuck(c) == Blocks(c.x, "x" \in c.late) \/ Blocks(c.y, "y" \in c.late)
Raised(c) == SelectRaises(c.x, c.y, c.late)


IteLevel_(f, c) ==
    PartialF_(iteFF(c.p, hp(First(c)), hp(Second(c))), iteFF(c.p, ha(First(c)), ha(Second(c))),
              f[Ite_(c.p, Rest(First(c)), Rest(Second(c)), {})])

IteBody_(f, c) ==
    IF c.p = TrueFF THEN c.x
    ELSE IF c.p = FalseFF THEN c.y
    ELSE IF Stuck(c) THEN Hangs
    ELSE IF Raised(c) THEN Errors
    ELSE IF First(c) = unreachablePF THEN c.y
    ELSE IF Second(c) = unreachablePF THEN c.x
    ELSE IteLevel_(f, c)

\* itePF_ is a function that satisfies its equation, if there is one.
LEMMA IteUnfold_ == itePF_ = CHOOSE f : f = [c \in IteDom_ |-> IteBody_(f, c)]
BY DEF itePF_, IteDom_, IteBody_, IteLevel_, selectPF, Stuck, Raised, First, Second

\* approximated: the same formula, behind a level that decides nothing where
\* evaluation was cut short.  What is recursed on is no larger.
LEMMA Approximates ==
    ASSUME NEW x \in PartialF, NEW l \in BOOLEAN, NEW u, u = approximated(x, l)
    PROVE  /\ u \in PartialF /\ u.end = x.end
           /\ \A m : Says(u, m) = Says(x, m)
           /\ u = unreachablePF => x = unreachablePF
           /\ x = unreachablePF /\ ~l => u = unreachablePF
           /\ FFsOk(x) => FFsOk(u)
           /\ EndsCovered(x) /\ (x = unreachablePF => ~l) => EndsCovered(u)
           /\ ~l => (Narrows(x) => Narrows(u)) /\ Cover(u) = Cover(x)
           /\ ~Blocks(x, l) => IsLevel(u) \/ u = unreachablePF
           /\ IsLevel(u) => Size(Rest(u)) <= Size(x) /\ (~Fails(x, l) => Size(Rest(u)) < Size(x))
<1>0. Unreachable_BoolFF \in BoolFF /\ FalseFF \in BoolFF /\ FalseFF.sat = {}
      /\ FalseFF # Unreachable_BoolFF
  BY BoolFFs
<1>1. CASE Fails(x, l)
  <2>1. u = PartialF_(FalseFF, Unreachable_BoolFF, x)
    BY <1>1 DEF approximated, approxPF
  <2>2. u \in PartialF /\ IsLevel(u) /\ u.end = x.end /\ u # unreachablePF /\ Rest(u) = x
    <3> DEFINE v == PartialF_(FalseFF, Unreachable_BoolFF, x)
    <3>2. v \in PartialF /\ IsLevel(v) /\ v.end = x.end /\ Rest(v) = x
      BY <1>0, Cons
    <3>3. u = v
      BY <2>1
    <3> HIDE DEF v
    <3>1. u \in PartialF /\ IsLevel(u) /\ u.end = x.end /\ Rest(u) = x
      BY <3>2, <3>3
    <3> QED BY <3>1, LevelIs
  <2>3. \A m : Says(u, m) = Says(x, m)
    BY <2>1, <1>0, SaysCons
  <2>4. FFsOk(x) => FFsOk(u)
    BY <2>1, <1>0, ConsProper
  <2>5. EndsCovered(x) /\ (x = unreachablePF => ~l) => EndsCovered(u)
    <3>1. EndsCovered(u) <=> (x = unreachablePF => FalseFF.sat = Assignment) /\ EndsCovered(x)
      BY <2>1, <1>0, ConsProper
    <3>2. x = unreachablePF => l
      BY <1>1, Tails DEF Fails
    <3> QED BY <3>1, <3>2
  <2>6. ~l => (Narrows(x) => Narrows(u)) /\ Cover(u) = Cover(x)
    <3>1. ~l => x = Errors
      BY <1>1 DEF Fails
    <3>2. Narrows(u) <=> Cover(x) \subseteq FalseFF.sat /\ Narrows(x)
      BY <2>1, <1>0, ConsProper
    <3>3. Cover(u) = FalseFF.sat
      BY <2>1, <1>0, ConsProper
    <3> QED BY <3>1, <3>2, <3>3, <1>0, Covers
  <2>7. ~(x = unreachablePF /\ ~l)
    BY <1>1, Tails DEF Fails
  <2> QED BY <2>2, <2>3, <2>4, <2>5, <2>6, <2>7, <1>1, SizeNat
<1>2. CASE ~Fails(x, l)
  <2>1. u = x /\ ~l /\ x # Errors
    BY <1>2 DEF approximated, Fails
  <2>2. ~Blocks(x, l) => IsLevel(u) \/ u = unreachablePF
    BY <2>1, TailIs DEF Blocks
  <2>3. IsLevel(u) => Size(Rest(u)) <= Size(x) /\ Size(Rest(u)) < Size(x)
    BY <2>1, LevelIs, SizeNat
  <2> QED BY <2>1, <2>2, <2>3
<1> QED BY <1>1, <1>2

\* The two arguments of a select that gives both: and what is left of them is
\* less.
LEMMA Selects ==
    ASSUME NEW c, c.x \in PartialF, c.y \in PartialF, c.late \in Lates
    PROVE  /\ First(c) \in PartialF /\ Second(c) \in PartialF
           /\ ~Stuck(c) => /\ IsLevel(First(c)) \/ First(c) = unreachablePF
                           /\ IsLevel(Second(c)) \/ Second(c) = unreachablePF
           /\ ~Stuck(c) /\ ~Raised(c) /\ First(c) # unreachablePF /\ Second(c) # unreachablePF =>
                /\ IsLevel(First(c)) /\ IsLevel(Second(c))
                /\ Rest(First(c)) \in PartialF /\ Rest(Second(c)) \in PartialF
                /\ Size(Rest(First(c))) + Size(Rest(Second(c))) < Size(c.x) + Size(c.y)
<1> DEFINE lx == "x" \in c.late
           ly == "y" \in c.late
<1>1. lx \in BOOLEAN /\ ly \in BOOLEAN
  OBVIOUS
<1>2. First(c) = approximated(c.x, lx) /\ Second(c) = approximated(c.y, ly)
  BY DEF First, Second
<1>3. Stuck(c) <=> Blocks(c.x, lx) \/ Blocks(c.y, ly)
  BY DEF Stuck
<1>4. Raised(c) <=> Fails(c.x, lx) /\ Fails(c.y, ly)
  BY DEF Raised, SelectRaises
<1> HIDE DEF lx, ly
<1>5. /\ First(c) \in PartialF /\ (~Blocks(c.x, lx) => IsLevel(First(c)) \/ First(c) = unreachablePF)
      /\ IsLevel(First(c)) => Size(Rest(First(c))) <= Size(c.x)
                                 /\ (~Fails(c.x, lx) => Size(Rest(First(c))) < Size(c.x))
  BY <1>1, <1>2, Approximates
<1>6. /\ Second(c) \in PartialF /\ (~Blocks(c.y, ly) => IsLevel(Second(c)) \/ Second(c) = unreachablePF)
      /\ IsLevel(Second(c)) => Size(Rest(Second(c))) <= Size(c.y)
                                  /\ (~Fails(c.y, ly) => Size(Rest(Second(c))) < Size(c.y))
  BY <1>1, <1>2, Approximates
<1>7. /\ IsLevel(First(c)) => Rest(First(c)) \in PartialF /\ Size(Rest(First(c))) \in Nat
      /\ IsLevel(Second(c)) => Rest(Second(c)) \in PartialF /\ Size(Rest(Second(c))) \in Nat
      /\ Size(c.x) \in Nat /\ Size(c.y) \in Nat
  BY <1>5, <1>6, LevelIs, SizeNat
<1> QED BY <1>3, <1>4, <1>5, <1>6, <1>7

\* The recursion of itePF_ is on smaller formulas.
LEMMA IteBodyType_ ==
    ASSUME NEW f, NEW c \in IteDom_,
           \A d \in IteDom_ : Size(d.x) + Size(d.y) < Size(c.x) + Size(c.y) => f[d] \in PartialF
    PROVE  IteBody_(f, c) \in PartialF
<1>1. c.p \in BoolFF /\ c.x \in PartialF /\ c.y \in PartialF /\ c.late \in Lates /\ {} \in Lates
  BY DEF IteDom_, Lates
<1>2. CASE ~Stuck(c) /\ ~Raised(c) /\ First(c) # unreachablePF /\ Second(c) # unreachablePF
  <2>1. /\ IsLevel(First(c)) /\ IsLevel(Second(c)) /\ First(c) \in PartialF /\ Second(c) \in PartialF
        /\ Rest(First(c)) \in PartialF /\ Rest(Second(c)) \in PartialF
        /\ Size(Rest(First(c))) + Size(Rest(Second(c))) < Size(c.x) + Size(c.y)
    BY <1>1, <1>2, Selects
  <2>2. /\ hp(First(c)) \in BoolFF /\ hp(Second(c)) \in BoolFF /\ ha(First(c)) \in BoolFF /\ ha(Second(c)) \in BoolFF
    BY <2>1, LevelIs
  <2>3. Ite_(c.p, Rest(First(c)), Rest(Second(c)), {}) \in IteDom_
    BY <1>1, <2>1 DEF Ite_, IteDom_
  <2>4. f[Ite_(c.p, Rest(First(c)), Rest(Second(c)), {})] \in PartialF
    <3>1. /\ Ite_(c.p, Rest(First(c)), Rest(Second(c)), {}).x = Rest(First(c))
          /\ Ite_(c.p, Rest(First(c)), Rest(Second(c)), {}).y = Rest(Second(c))
      BY DEF Ite_
    <3> QED BY <2>1, <2>3, <3>1
  <2>5. /\ iteFF(c.p, hp(First(c)), hp(Second(c))) \in BoolFF
        /\ iteFF(c.p, ha(First(c)), ha(Second(c))) \in BoolFF
    BY <1>1, <2>2, IteFFIs
  <2>6. IteLevel_(f, c) \in PartialF
    BY <2>4, <2>5, Cons DEF IteLevel_
  <2> QED BY <1>1, <1>2, <2>6 DEF IteBody_
<1>3. CASE ~(~Stuck(c) /\ ~Raised(c) /\ First(c) # unreachablePF /\ Second(c) # unreachablePF)
  BY <1>1, <1>3, Tails DEF IteBody_
<1> QED BY <1>2, <1>3

\* So there is such a function: itePF_ is total.
LEMMA IteEquation_ ==
    itePF_ \in [IteDom_ -> PartialF] /\ \A c \in IteDom_ : itePF_[c] = IteBody_(itePF_, c)
<1> DEFINE S == IteDom_
           T == PartialF
           rank == [c \in S |-> Size(c.x) + Size(c.y)]
           G == [c \in S |-> [f \in [S -> T] |-> IteBody_(f, c)]]
<1>1. T # {}
  BY Tails
<1>2. rank \in [S -> Nat]
  <2> SUFFICES ASSUME NEW c \in S PROVE Size(c.x) + Size(c.y) \in Nat
    OBVIOUS
  <2> QED BY SizeNat DEF IteDom_
<1>3. G \in [S -> [[S -> T] -> T]]
  <2>1. \A c \in S : \A f \in [S -> T] : IteBody_(f, c) \in T
    BY IteBodyType_
  <2> QED BY <2>1
<1>4. ASSUME NEW c \in S, NEW f \in [S -> T], NEW g \in [S -> T],
             \A y \in S : rank[y] < rank[c] => f[y] = g[y]
      PROVE  G[c][f] = G[c][g]
  <2>1. c.p \in BoolFF /\ c.x \in PartialF /\ c.y \in PartialF /\ c.late \in Lates /\ {} \in Lates
    BY DEF IteDom_, Lates
  <2>2. IteBody_(f, c) = IteBody_(g, c)
    <3>1. CASE ~Stuck(c) /\ ~Raised(c) /\ First(c) # unreachablePF /\ Second(c) # unreachablePF
      <4> DEFINE d == Ite_(c.p, Rest(First(c)), Rest(Second(c)), {})
      <4>1. /\ Rest(First(c)) \in PartialF /\ Rest(Second(c)) \in PartialF
            /\ Size(Rest(First(c))) + Size(Rest(Second(c))) < Size(c.x) + Size(c.y)
        BY <2>1, <3>1, Selects
      <4>2. d \in S /\ d.x = Rest(First(c)) /\ d.y = Rest(Second(c))
        BY <2>1, <4>1 DEF Ite_, IteDom_
      <4>3. rank[d] < rank[c]
        BY <4>1, <4>2
      <4>4. f[d] = g[d]
        BY <4>2, <4>3, <1>4
      <4>5. IteLevel_(f, c) = IteLevel_(g, c)
        BY <4>4 DEF IteLevel_
      <4> QED BY <4>5 DEF IteBody_
    <3>2. CASE ~(~Stuck(c) /\ ~Raised(c) /\ First(c) # unreachablePF /\ Second(c) # unreachablePF)
      BY <3>2 DEF IteBody_
    <3> QED BY <3>1, <3>2
  <2> QED BY <2>2
<1>5. \A f \in [S -> T] : [c \in S |-> G[c][f]] = [c \in S |-> IteBody_(f, c)]
  OBVIOUS
<1>11. ASSUME NEW c \in S, NEW f, \A d \in S : rank[d] < rank[c] => f[d] \in T
       PROVE  IteBody_(f, c) \in T
  BY <1>11, IteBodyType_
<1> HIDE DEF S, T, rank, G
<1>6. Descends(S, T, rank, G)
  BY <1>2, <1>3, <1>4 DEF Descends
<1>7. PICK f \in [S -> T] : Solves(f, S, G)
  BY <1>1, <1>6, Recursion
<1>8. f = [c \in S |-> IteBody_(f, c)]
  BY <1>5, <1>7 DEF Solves
<1>9. itePF_ = [c \in S |-> IteBody_(itePF_, c)]
  BY <1>8, IteUnfold_ DEF S
<1>10. \A c \in S : itePF_[c] = IteBody_(itePF_, c)
  BY <1>9
<1>12. \A c \in S : itePF_[c] \in T
  <2> DEFINE P == {c \in S : itePF_[c] \in T}
  <2>1. ASSUME NEW c \in S, \A d \in S : rank[d] < rank[c] => d \in P PROVE c \in P
    <3>1. IteBody_(itePF_, c) \in T
      BY <2>1, <1>11
    <3> QED BY <3>1, <1>10
  <2>2. P \in SUBSET S
    OBVIOUS
  <2> HIDE DEF P
  <2>3. Inductive(P, S, rank)
    BY <2>1, <2>2, <1>2 DEF Inductive
  <2>4. P = S
    BY <2>3, RankInduction
  <2> QED BY <2>4 DEF P
<1>13. itePF_ \in [S -> T]
  BY <1>9, <1>12
<1> QED BY <1>10, <1>13 DEF S, T

-----------------------------------------------------------------------------
\* itePF_: what it must keep.

\* What a formula says of an assignment.
Verdicts == {"holds", "fails", "undefined"}

\* f says d of m, or never ends.
Tells(f, m, d) == Says(f, m) = d \/ (Says(f, m) = "undefined" /\ f.end = "hang")

\* Proper, as what runS gives is.
Good(f) == FFsOk(f) /\ EndsCovered(f)

\* A Timeout does not hide that an argument is unreachable.
LateHarmless(c) == /\ c.x = unreachablePF => "x" \notin c.late
                   /\ c.y = unreachablePF => "y" \notin c.late

\* What itePF_ keeps: its levels and its end are proper; it is unreachable only
\* if the branches are; it says what the branch an assignment takes says; and
\* where no Timeout fires it decides no more than its branches.
IteFFs_(c) == FFsOk(c.x) /\ FFsOk(c.y) => FFsOk(itePF_[c])
IteEnds_(c) == Good(c.x) /\ Good(c.y) /\ LateHarmless(c) => EndsCovered(itePF_[c])
IteReached_(c) ==
    LateHarmless(c) /\ itePF_[c] = unreachablePF =>
       \/ c.p = TrueFF /\ c.x = unreachablePF
       \/ c.p = FalseFF /\ c.y = unreachablePF
       \/ c.x = unreachablePF /\ c.y = unreachablePF
IteTells_(c) ==
    \A m \in Assignment, d \in Verdicts :
      LET s == IF m \in c.p.sat THEN c.x ELSE c.y
      IN  FFsOk(s) /\ Tells(s, m, d) /\ Swallowed(c.x, c.y, c.late) => Tells(itePF_[c], m, d)
IteShrinks_(c) ==
    c.late = {} /\ FFsOk(c.x) /\ FFsOk(c.y) /\ Narrows(c.x) /\ Narrows(c.y) =>
      Narrows(itePF_[c]) /\ Cover(itePF_[c]) \subseteq (c.p.sat \cap Cover(c.x)) \cup (Cover(c.y) \ c.p.sat)

IteFacts_(c) == c.p # Unreachable_BoolFF =>
                  IteFFs_(c) /\ IteEnds_(c) /\ IteReached_(c) /\ IteTells_(c) /\ IteShrinks_(c)

\* A proper formula with a level, part by part.
LEMMA LevelProper ==
    ASSUME NEW f \in PartialF, IsLevel(f)
    PROVE  /\ hp(f) \in BoolFF /\ ha(f) \in BoolFF /\ Rest(f) \in PartialF /\ Rest(f).end = f.end
           /\ FFsOk(f) <=> /\ hp(f) # Unreachable_BoolFF
                           /\ (ha(f) = Unreachable_BoolFF => hp(f) = FalseFF) /\ FFsOk(Rest(f))
           /\ EndsCovered(f) <=> (Rest(f) = unreachablePF => hp(f).sat = Assignment) /\ EndsCovered(Rest(f))
           /\ Narrows(f) <=> Cover(Rest(f)) \subseteq hp(f).sat /\ Narrows(Rest(f))
           /\ Cover(f) = hp(f).sat
           /\ \A m : Says(f, m) = IF m \in hp(f).sat THEN IF m \in ha(f).sat THEN "holds" ELSE "fails"
                                  ELSE Says(Rest(f), m)
<1> DEFINE p == hp(f)
           a == ha(f)
           r == Rest(f)
<1>1. p \in BoolFF /\ a \in BoolFF /\ r \in PartialF /\ f = PartialF_(p, a, r) /\ r.end = f.end
  BY LevelIs
<1> HIDE DEF p, a, r
<1>2. /\ FFsOk(PartialF_(p, a, r)) <=> /\ p # Unreachable_BoolFF
                                       /\ (a = Unreachable_BoolFF => p = FalseFF) /\ FFsOk(r)
      /\ EndsCovered(PartialF_(p, a, r)) <=> (r = unreachablePF => p.sat = Assignment) /\ EndsCovered(r)
      /\ Narrows(PartialF_(p, a, r)) <=> Cover(r) \subseteq p.sat /\ Narrows(r)
      /\ Cover(PartialF_(p, a, r)) = p.sat
  BY <1>1, ConsProper
<1>3. \A m : Says(PartialF_(p, a, r), m) = IF m \in p.sat THEN IF m \in a.sat THEN "holds" ELSE "fails"
                                           ELSE Says(r, m)
  BY <1>1, SaysCons
<1>4. f = PartialF_(p, a, r)
  BY <1>1
<1> DEFINE g == PartialF_(p, a, r)
<1>5. g = f
  BY <1>4
<1>6. /\ FFsOk(g) <=> /\ p # Unreachable_BoolFF
                      /\ (a = Unreachable_BoolFF => p = FalseFF) /\ FFsOk(r)
      /\ EndsCovered(g) <=> (r = unreachablePF => p.sat = Assignment) /\ EndsCovered(r)
      /\ Narrows(g) <=> Cover(r) \subseteq p.sat /\ Narrows(r)
      /\ Cover(g) = p.sat
      /\ \A m : Says(g, m) = IF m \in p.sat THEN IF m \in a.sat THEN "holds" ELSE "fails" ELSE Says(r, m)
  BY <1>2, <1>3
<1> HIDE DEF g
<1> QED BY <1>1, <1>5, <1>6 DEF p, a, r

\* A level put in front, in the form the operations do it.
LEMMA NewLevel ==
    ASSUME NEW p \in BoolFF, NEW a \in BoolFF, NEW r \in PartialF, NEW f, f = PartialF_(p, a, r)
    PROVE  /\ f \in PartialF /\ f # unreachablePF /\ f.end = r.end
           /\ FFsOk(f) <=> /\ p # Unreachable_BoolFF
                           /\ (a = Unreachable_BoolFF => p = FalseFF) /\ FFsOk(r)
           /\ EndsCovered(f) <=> (r = unreachablePF => p.sat = Assignment) /\ EndsCovered(r)
           /\ Narrows(f) <=> Cover(r) \subseteq p.sat /\ Narrows(r)
           /\ Cover(f) = p.sat
           /\ \A m : Says(f, m) = IF m \in p.sat THEN IF m \in a.sat THEN "holds" ELSE "fails"
                                  ELSE Says(r, m)
<1> DEFINE g == PartialF_(p, a, r)
<1>1. /\ FFsOk(g) <=> /\ p # Unreachable_BoolFF
                      /\ (a = Unreachable_BoolFF => p = FalseFF) /\ FFsOk(r)
      /\ EndsCovered(g) <=> (r = unreachablePF => p.sat = Assignment) /\ EndsCovered(r)
      /\ Narrows(g) <=> Cover(r) \subseteq p.sat /\ Narrows(r)
      /\ Cover(g) = p.sat
  BY ConsProper
<1>2. \A m : Says(g, m) = IF m \in p.sat THEN IF m \in a.sat THEN "holds" ELSE "fails" ELSE Says(r, m)
  BY SaysCons
<1>3. g \in PartialF /\ IsLevel(g) /\ g.end = r.end
  BY Cons
<1> HIDE DEF g
<1>4. g # unreachablePF
  BY <1>3, LevelIs
<1>5. g = f
  BY DEF g
<1> QED BY <1>1, <1>2, <1>3, <1>4, <1>5

\* What a formula says of an assignment: never more than one thing.
LEMMA TellsIs ==
    ASSUME NEW f \in PartialF, NEW m, NEW d \in Verdicts, Tells(f, m, d)
    PROVE  /\ f # unreachablePF /\ Says(f, m) # "unreachable"
           /\ ~IsLevel(f) => f = Hangs \/ (f = Errors /\ d = "undefined")
           /\ Says(f, m) \in {"holds", "fails"} => Says(f, m) = d
<1>1. Says(f, m) # "unreachable"
  BY DEF Tells, Verdicts
<1>2. ~IsLevel(f) => Says(f, m) = IF f = unreachablePF THEN "unreachable" ELSE "undefined"
  BY SaysTail
<1>3. unreachablePF \in PartialF /\ ~IsLevel(unreachablePF)
  BY Tails
<1>4. f # unreachablePF
  BY <1>1, <1>2, <1>3
<1>5. ~IsLevel(f) => f = Hangs \/ (f = Errors /\ d = "undefined")
  BY <1>2, <1>4, TailIs, Tails DEF Tells, Verdicts
<1>6. Says(f, m) \in {"holds", "fails"} => Says(f, m) = d
  BY DEF Tells
<1> QED BY <1>1, <1>4, <1>5, <1>6

\* What the tails tell.
LEMMA TailTells ==
    ASSUME NEW m, NEW d \in Verdicts
    PROVE  Tells(Hangs, m, d) /\ Says(Hangs, m) = "undefined" /\ Tells(Errors, m, "undefined")
           /\ Says(Errors, m) = "undefined" /\ Says(unreachablePF, m) = "unreachable"
<1>1. Says(Hangs, m) = "undefined" /\ Says(Errors, m) = "undefined" /\ Says(unreachablePF, m) = "unreachable"
  BY Tails, SaysTail
<1> QED BY <1>1, Tails DEF Tells

-----------------------------------------------------------------------------
\* itePF_: it does.

\* The calls itePF_ makes of itself.
IteLess_(d, c) == Size(d.x) + Size(d.y) < Size(c.x) + Size(c.y)

\* One call of itePF_, if those it makes are right.
LEMMA IteStep_ ==
    ASSUME NEW c \in IteDom_, c.p # Unreachable_BoolFF,
           \A d \in IteDom_ : IteLess_(d, c) => IteFacts_(d)
    PROVE  IteFacts_(c)
<1> DEFINE p == c.p
           x == c.x
           y == c.y
           r == itePF_[c]
           u == First(c)
           v == Second(c)
           lx == "x" \in c.late
           ly == "y" \in c.late
<1> USE DEF IteFacts_
<1>1. /\ p \in BoolFF /\ x \in PartialF /\ y \in PartialF /\ c.late \in Lates /\ {} \in Lates
      /\ p.sat \in SUBSET Assignment
  BY BoolFFs DEF IteDom_, Lates
<1>2. r = IteBody_(itePF_, c)
  BY IteEquation_
<1>3. Cover(x) \in SUBSET Assignment /\ Cover(y) \in SUBSET Assignment
  BY <1>1, Covers
<1>4. CASE p = TrueFF
  <2>1. r = x /\ p.sat = Assignment
    BY <1>2, <1>4, BoolFFs DEF IteBody_
  <2> QED BY <2>1, <1>3, <1>4 DEF IteFFs_, IteEnds_, IteReached_, IteTells_, IteShrinks_, Good
<1>5. CASE p = FalseFF
  <2>1. r = y /\ p.sat = {}
    BY <1>2, <1>5, BoolFFs DEF IteBody_
  <2> QED BY <2>1, <1>3, <1>5 DEF IteFFs_, IteEnds_, IteReached_, IteTells_, IteShrinks_, Good
<1>6. CASE p # TrueFF /\ p # FalseFF /\ Stuck(c)
  <2>1. r = Hangs
    BY <1>2, <1>6 DEF IteBody_
  <2>2. FFsOk(Hangs) /\ EndsCovered(Hangs) /\ Narrows(Hangs) /\ Cover(Hangs) = {} /\ Hangs # unreachablePF
    BY TailProper, Tails, Covers
  <2> QED BY <2>1, <2>2, TailTells DEF IteFFs_, IteEnds_, IteReached_, IteTells_, IteShrinks_
<1>7. CASE p # TrueFF /\ p # FalseFF /\ ~Stuck(c) /\ Raised(c)
  <2>1. r = Errors
    BY <1>2, <1>7 DEF IteBody_
  <2>2. FFsOk(Errors) /\ EndsCovered(Errors) /\ Narrows(Errors) /\ Cover(Errors) = {} /\ Errors # unreachablePF
    BY TailProper, Tails, Covers
  <2>3. ASSUME NEW m \in Assignment, NEW d \in Verdicts,
               Tells(IF m \in p.sat THEN x ELSE y, m, d), Swallowed(x, y, c.late)
        PROVE  Tells(r, m, d)
    <3>1. x = Errors /\ y = Errors
      BY <1>7, <2>3 DEF Raised, Swallowed, SelectRaises, Fails
    <3> QED BY <3>1, <2>1, <2>3
  <2>4. IteTells_(c)
    BY <2>3 DEF IteTells_
  <2> QED BY <2>1, <2>2, <2>4 DEF IteFFs_, IteEnds_, IteReached_, IteShrinks_
<1>a. /\ lx \in BOOLEAN /\ ly \in BOOLEAN
      /\ u = approximated(x, lx) /\ v = approximated(y, ly)
  BY DEF First, Second
<1> HIDE DEF r, u, v, lx, ly, p, x, y
<1>u. /\ u \in PartialF /\ u.end = x.end
      /\ \A m : Says(u, m) = Says(x, m)
      /\ u = unreachablePF => x = unreachablePF
      /\ x = unreachablePF /\ ~lx => u = unreachablePF
      /\ FFsOk(x) => FFsOk(u)
      /\ EndsCovered(x) /\ (x = unreachablePF => ~lx) => EndsCovered(u)
      /\ ~lx => (Narrows(x) => Narrows(u)) /\ Cover(u) = Cover(x)
  BY <1>1, <1>a, Approximates
<1>v. /\ v \in PartialF /\ v.end = y.end
      /\ \A m : Says(v, m) = Says(y, m)
      /\ v = unreachablePF => y = unreachablePF
      /\ y = unreachablePF /\ ~ly => v = unreachablePF
      /\ FFsOk(y) => FFsOk(v)
      /\ EndsCovered(y) /\ (y = unreachablePF => ~ly) => EndsCovered(v)
      /\ ~ly => (Narrows(y) => Narrows(v)) /\ Cover(v) = Cover(y)
  BY <1>1, <1>a, Approximates
<1>l. LateHarmless(c) <=> (x = unreachablePF => ~lx) /\ (y = unreachablePF => ~ly)
  BY DEF LateHarmless, lx, ly, x, y
<1>n. /\ Says(unreachablePF, 0) = "unreachable"
      /\ \A m, d : d \in Verdicts => ~Tells(unreachablePF, m, d)
  BY TailTells, TellsIs, Tails DEF Verdicts
<1>8. CASE p # TrueFF /\ p # FalseFF /\ ~Stuck(c) /\ ~Raised(c) /\ u = unreachablePF
  <2>1. r = y /\ x = unreachablePF
    BY <1>2, <1>8, <1>u DEF IteBody_, u, p, y
  <2>2. Cover(x) = Assignment
    BY <2>1, Covers
  <2>3. IteTells_(c)
    BY <2>1, <1>n DEF IteTells_, r, x, y, p
  <2>4. IteFFs_(c) /\ IteEnds_(c) /\ IteReached_(c)
    BY <2>1 DEF IteFFs_, IteEnds_, IteReached_, Good, r, x, y, p
  <2>5. IteShrinks_(c)
    BY <2>1, <2>2, <1>1, <1>3 DEF IteShrinks_, r, x, y, p
  <2> QED BY <2>3, <2>4, <2>5
<1>9. CASE p # TrueFF /\ p # FalseFF /\ ~Stuck(c) /\ ~Raised(c) /\ u # unreachablePF /\ v = unreachablePF
  <2>1. r = x /\ y = unreachablePF
    BY <1>2, <1>9, <1>v DEF IteBody_, u, v, p, x
  <2>2. Cover(y) = Assignment
    BY <2>1, Covers
  <2>3. IteTells_(c)
    BY <2>1, <1>n DEF IteTells_, r, x, y, p
  <2>4. IteFFs_(c) /\ IteEnds_(c) /\ IteReached_(c)
    BY <2>1 DEF IteFFs_, IteEnds_, IteReached_, Good, r, x, y, p
  <2>5. IteShrinks_(c)
    BY <2>1, <2>2, <1>1, <1>3 DEF IteShrinks_, r, x, y, p
  <2> QED BY <2>3, <2>4, <2>5
<1>10. CASE /\ p # TrueFF /\ p # FalseFF /\ ~Stuck(c) /\ ~Raised(c)
            /\ u # unreachablePF /\ v # unreachablePF
  <2> DEFINE up == hp(u)
             ua == ha(u)
             ur == Rest(u)
             vp == hp(v)
             va == ha(v)
             vr == Rest(v)
             e == Ite_(p, ur, vr, {})
             s == itePF_[e]
             rp == iteFF(p, up, vp)
             ra == iteFF(p, ua, va)
  <2>1. /\ IsLevel(u) /\ IsLevel(v) /\ ur \in PartialF /\ vr \in PartialF
        /\ Size(ur) + Size(vr) < Size(c.x) + Size(c.y)
    BY <1>1, <1>10, Selects DEF u, v, x, y
  <2>2. r = PartialF_(rp, ra, s)
    BY <1>2, <1>10 DEF IteBody_, IteLevel_, u, v, p, x, y, r
  <2>3. e \in IteDom_ /\ e.p = p /\ e.x = ur /\ e.y = vr /\ e.late = {}
    BY <2>1, <1>1 DEF Ite_, IteDom_
  <2>4. p # Unreachable_BoolFF
    BY DEF p
  <2>5. /\ IteFFs_(e) /\ IteEnds_(e) /\ IteReached_(e) /\ IteTells_(e) /\ IteShrinks_(e)
    <3>1. IteLess_(e, c)
      BY <2>1, <2>3 DEF IteLess_
    <3>2. IteFacts_(e)
      BY <3>1, <2>3
    <3> QED BY <3>2, <2>3, <2>4 DEF IteFacts_
  <2>u. /\ up \in BoolFF /\ ua \in BoolFF /\ ur.end = u.end
        /\ FFsOk(u) <=> /\ up # Unreachable_BoolFF
                        /\ (ua = Unreachable_BoolFF => up = FalseFF) /\ FFsOk(ur)
        /\ EndsCovered(u) <=> (ur = unreachablePF => up.sat = Assignment) /\ EndsCovered(ur)
        /\ Narrows(u) <=> Cover(ur) \subseteq up.sat /\ Narrows(ur)
        /\ Cover(u) = up.sat
        /\ \A m : Says(u, m) = IF m \in up.sat THEN IF m \in ua.sat THEN "holds" ELSE "fails"
                               ELSE Says(ur, m)
    BY <2>1, <1>u, LevelProper
  <2>v. /\ vp \in BoolFF /\ va \in BoolFF /\ vr.end = v.end
        /\ FFsOk(v) <=> /\ vp # Unreachable_BoolFF
                        /\ (va = Unreachable_BoolFF => vp = FalseFF) /\ FFsOk(vr)
        /\ EndsCovered(v) <=> (vr = unreachablePF => vp.sat = Assignment) /\ EndsCovered(vr)
        /\ Narrows(v) <=> Cover(vr) \subseteq vp.sat /\ Narrows(vr)
        /\ Cover(v) = vp.sat
        /\ \A m : Says(v, m) = IF m \in vp.sat THEN IF m \in va.sat THEN "holds" ELSE "fails"
                               ELSE Says(vr, m)
    BY <2>1, <1>v, LevelProper
  <2>p. /\ rp \in BoolFF
        /\ up # Unreachable_BoolFF /\ vp # Unreachable_BoolFF => rp # Unreachable_BoolFF
        /\ \A m \in Assignment :
             /\ m \in p.sat /\ up # Unreachable_BoolFF => (m \in rp.sat <=> m \in up.sat)
             /\ m \notin p.sat /\ vp # Unreachable_BoolFF => (m \in rp.sat <=> m \in vp.sat)
        /\ up = FalseFF /\ vp = FalseFF => rp = FalseFF
    BY <1>1, <2>u, <2>v, <2>4, IteFFIs
  <2>a. /\ ra \in BoolFF
        /\ ra = Unreachable_BoolFF => ua = Unreachable_BoolFF /\ va = Unreachable_BoolFF
        /\ \A m \in Assignment :
             /\ m \in p.sat /\ ua # Unreachable_BoolFF => (m \in ra.sat <=> m \in ua.sat)
             /\ m \notin p.sat /\ va # Unreachable_BoolFF => (m \in ra.sat <=> m \in va.sat)
    BY <1>1, <1>10, <2>u, <2>v, <2>4, IteFFIs
  <2>s. s \in PartialF
    BY <2>3, IteEquation_
  <2> HIDE DEF e, s, rp, ra, up, ua, ur, vp, va, vr
  <2>r. /\ r \in PartialF /\ r # unreachablePF /\ r.end = s.end
        /\ FFsOk(r) <=> /\ rp # Unreachable_BoolFF
                        /\ (ra = Unreachable_BoolFF => rp = FalseFF) /\ FFsOk(s)
        /\ EndsCovered(r) <=> (s = unreachablePF => rp.sat = Assignment) /\ EndsCovered(s)
        /\ Narrows(r) <=> Cover(s) \subseteq rp.sat /\ Narrows(s)
        /\ Cover(r) = rp.sat
        /\ \A m : Says(r, m) = IF m \in rp.sat THEN IF m \in ra.sat THEN "holds" ELSE "fails"
                               ELSE Says(s, m)
    BY <2>2, <2>p, <2>a, <2>s, NewLevel
  <2>6. IteFFs_(c)
    <3> SUFFICES ASSUME FFsOk(x), FFsOk(y) PROVE FFsOk(r)
      BY DEF IteFFs_, x, y, r
    <3>1. FFsOk(u) /\ FFsOk(v)
      BY <1>u, <1>v
    <3>2. FFsOk(s)
      BY <3>1, <2>u, <2>v, <2>5, <2>3 DEF IteFFs_, s
    <3> QED BY <3>1, <3>2, <2>u, <2>v, <2>p, <2>a, <2>r
  <2>7. LateHarmless(e)
    BY <2>3 DEF LateHarmless
  <2>8. s = unreachablePF => ur = unreachablePF /\ vr = unreachablePF
    BY <2>5, <2>7, <2>3, <1>10 DEF IteReached_, s
  <2>9. IteEnds_(c)
    <3> SUFFICES ASSUME Good(x), Good(y), LateHarmless(c) PROVE EndsCovered(r)
      BY DEF IteEnds_, x, y, r
    <3>1. FFsOk(u) /\ FFsOk(v) /\ EndsCovered(u) /\ EndsCovered(v)
      BY <1>u, <1>v, <1>l DEF Good
    <3>2. Good(ur) /\ Good(vr)
      BY <3>1, <2>u, <2>v DEF Good
    <3>3. EndsCovered(s)
      BY <3>2, <2>5, <2>3, <2>7 DEF IteEnds_, s
    <3>4. ASSUME s = unreachablePF PROVE rp.sat = Assignment
      <4>1. up.sat = Assignment /\ vp.sat = Assignment
        BY <3>1, <3>4, <2>8, <2>u, <2>v
      <4>2. up # Unreachable_BoolFF /\ vp # Unreachable_BoolFF
        BY <3>1, <2>u, <2>v
      <4>3. \A m \in Assignment : m \in rp.sat
        BY <4>1, <4>2, <2>p
      <4> QED BY <4>3, <2>p, BoolFFs
    <3> QED BY <3>3, <3>4, <2>r
  <2>10. IteReached_(c)
    BY <2>r DEF IteReached_, r
  <2>11. IteTells_(c)
    <3> SUFFICES ASSUME NEW m \in Assignment, NEW d \in Verdicts,
                        FFsOk(IF m \in p.sat THEN x ELSE y),
                        Tells(IF m \in p.sat THEN x ELSE y, m, d)
                 PROVE  Tells(r, m, d)
      BY DEF IteTells_, x, y, r, p
    <3>0. Swallowed(ur, vr, {})
      BY DEF Swallowed
    <3>s. FFsOk(IF m \in p.sat THEN ur ELSE vr) /\ Tells(IF m \in p.sat THEN ur ELSE vr, m, d)
            => Tells(s, m, d)
      BY <2>5, <2>3, <3>0 DEF IteTells_, s
    <3>1. CASE m \in p.sat
      <4>1. FFsOk(u) /\ Says(u, m) = Says(x, m) /\ u.end = x.end /\ Tells(u, m, d)
        BY <3>1, <1>u DEF Tells
      <4>2. up # Unreachable_BoolFF /\ FFsOk(ur) /\ (m \in rp.sat <=> m \in up.sat)
        BY <4>1, <3>1, <2>u, <2>p
      <4>3. CASE m \in up.sat
        <5>1. ua # Unreachable_BoolFF
          BY <4>1, <4>3, <2>u, BoolFFs
        <5>2. m \in ra.sat <=> m \in ua.sat
          BY <5>1, <3>1, <2>a
        <5>3. Says(r, m) = Says(u, m) /\ Says(u, m) \in {"holds", "fails"}
          BY <5>2, <4>2, <4>3, <2>u, <2>r
        <5> QED BY <5>3, <4>1 DEF Tells
      <4>4. CASE m \notin up.sat
        <5>1. Says(u, m) = Says(ur, m) /\ Says(r, m) = Says(s, m)
          BY <4>4, <4>2, <2>u, <2>r
        <5>2. Tells(ur, m, d)
          BY <5>1, <4>1, <2>u DEF Tells
        <5>3. Tells(s, m, d)
          BY <5>2, <4>2, <3>1, <3>s
        <5> QED BY <5>1, <5>3, <2>r DEF Tells
      <4> QED BY <4>3, <4>4
    <3>2. CASE m \notin p.sat
      <4>1. FFsOk(v) /\ Says(v, m) = Says(y, m) /\ v.end = y.end /\ Tells(v, m, d)
        BY <3>2, <1>v DEF Tells
      <4>2. vp # Unreachable_BoolFF /\ FFsOk(vr) /\ (m \in rp.sat <=> m \in vp.sat)
        BY <4>1, <3>2, <2>v, <2>p
      <4>3. CASE m \in vp.sat
        <5>1. va # Unreachable_BoolFF
          BY <4>1, <4>3, <2>v, BoolFFs
        <5>2. m \in ra.sat <=> m \in va.sat
          BY <5>1, <3>2, <2>a
        <5>3. Says(r, m) = Says(v, m) /\ Says(v, m) \in {"holds", "fails"}
          BY <5>2, <4>2, <4>3, <2>v, <2>r
        <5> QED BY <5>3, <4>1 DEF Tells
      <4>4. CASE m \notin vp.sat
        <5>1. Says(v, m) = Says(vr, m) /\ Says(r, m) = Says(s, m)
          BY <4>4, <4>2, <2>v, <2>r
        <5>2. Tells(vr, m, d)
          BY <5>1, <4>1, <2>v DEF Tells
        <5>3. Tells(s, m, d)
          BY <5>2, <4>2, <3>2, <3>s
        <5> QED BY <5>1, <5>3, <2>r DEF Tells
      <4> QED BY <4>3, <4>4
    <3> QED BY <3>1, <3>2
  <2>12. IteShrinks_(c)
    <3> SUFFICES ASSUME c.late = {}, FFsOk(x), FFsOk(y), Narrows(x), Narrows(y)
                 PROVE  Narrows(r) /\ Cover(r) \subseteq (p.sat \cap Cover(x)) \cup (Cover(y) \ p.sat)
      BY DEF IteShrinks_, x, y, r, p
    <3>1. ~lx /\ ~ly
      BY DEF lx, ly
    <3>2. /\ FFsOk(u) /\ FFsOk(v) /\ Narrows(u) /\ Narrows(v)
          /\ Cover(x) = up.sat /\ Cover(y) = vp.sat
      BY <3>1, <1>u, <1>v, <2>u, <2>v
    <3>3. /\ up # Unreachable_BoolFF /\ vp # Unreachable_BoolFF /\ FFsOk(ur) /\ FFsOk(vr)
          /\ Cover(ur) \subseteq up.sat /\ Cover(vr) \subseteq vp.sat /\ Narrows(ur) /\ Narrows(vr)
      BY <3>2, <2>u, <2>v
    <3>4. Narrows(s) /\ Cover(s) \subseteq (p.sat \cap Cover(ur)) \cup (Cover(vr) \ p.sat)
      BY <3>3, <2>3, <2>5 DEF IteShrinks_, s
    <3>5. rp.sat = (p.sat \cap up.sat) \cup (vp.sat \ p.sat)
      <4>1. rp.sat \in SUBSET Assignment /\ up.sat \in SUBSET Assignment /\ vp.sat \in SUBSET Assignment
        BY <2>p, <2>u, <2>v, BoolFFs
      <4>2. \A m \in Assignment : m \in rp.sat <=> IF m \in p.sat THEN m \in up.sat ELSE m \in vp.sat
        BY <3>3, <2>p
      <4> QED BY <4>1, <4>2, <1>1
    <3> QED BY <3>2, <3>3, <3>4, <3>5, <2>r
  <2> QED BY <2>6, <2>9, <2>10, <2>11, <2>12 DEF IteFacts_
<1> QED BY <1>4, <1>5, <1>6, <1>7, <1>8, <1>9, <1>10

\* itePF_ chooses between two formulas by a finite one.
LEMMA IteIs_ ==
    ASSUME NEW c \in IteDom_, c.p # Unreachable_BoolFF
    PROVE  /\ itePF_[c] \in PartialF
           /\ IteFFs_(c) /\ IteEnds_(c) /\ IteReached_(c) /\ IteTells_(c) /\ IteShrinks_(c)
<1> DEFINE S == IteDom_
           rank == [d \in S |-> Size(d.x) + Size(d.y)]
           P == {d \in S : IteFacts_(d)}
<1>1. rank \in [S -> Nat]
  <2> SUFFICES ASSUME NEW d \in S PROVE Size(d.x) + Size(d.y) \in Nat
    OBVIOUS
  <2> QED BY SizeNat DEF IteDom_
<1>2. ASSUME NEW d \in S, \A b \in S : rank[b] < rank[d] => b \in P PROVE d \in P
  <2>1. \A b \in IteDom_ : IteLess_(b, d) => IteFacts_(b)
    BY <1>2 DEF IteLess_
  <2>2. IteFacts_(d)
    <3>1. CASE d.p = Unreachable_BoolFF
      BY <3>1 DEF IteFacts_
    <3>2. CASE d.p # Unreachable_BoolFF
      BY <3>2, <2>1, IteStep_
    <3> QED BY <3>1, <3>2
  <2> QED BY <2>2
<1>3. P \in SUBSET S
  OBVIOUS
<1> HIDE DEF rank, P
<1>4. Inductive(P, S, rank)
  BY <1>1, <1>2, <1>3 DEF Inductive
<1>5. P = S
  BY <1>4, RankInduction
<1>6. IteFacts_(c)
  BY <1>5 DEF P
<1> QED BY <1>6, IteEquation_ DEF IteFacts_

-----------------------------------------------------------------------------
\* itePF: the function exists, and what it must keep.

\* The two parts of what lies behind the first level.
IteThen(c) == itePF_[Ite_(ha(c.g), c.x, c.y, {})]
IteElse(f, c) == f[Ite(Rest(c.g), c.x, c.y, FALSE, {})]

IteLevel(f, c) ==
    PartialF_(andFF(hp(c.g), iteFF(ha(c.g), hp(First(c)), hp(Second(c)))),
              iteFF(ha(c.g), ha(First(c)), ha(Second(c))),
              itePF_[Ite_(hp(c.g), IteThen(c), IteElse(f, c), {})])

IteBody(f, c) ==
    IF ~IsLevel(c.g) THEN c.g
    ELSE IF hp(c.g) = TrueFF THEN itePF_[Ite_(ha(c.g), c.x, c.y, c.late)]
    ELSE IF c.same /\ c.x = c.y THEN c.x
    ELSE IF Stuck(c) THEN Hangs
    ELSE IF Raised(c) THEN Errors
    ELSE IF First(c) = unreachablePF THEN c.y
    ELSE IF Second(c) = unreachablePF THEN c.x
    ELSE IteLevel(f, c)

\* itePF is a function that satisfies its equation, if there is one.
LEMMA IteUnfold == itePF = CHOOSE f : f = [c \in IteDom |-> IteBody(f, c)]
BY DEF itePF, IteDom, IteBody, IteLevel, IteThen, IteElse, selectPF, Stuck, Raised, First, Second

\* The arguments of the calls itePF makes are formulas.
LEMMA IteDoms ==
    ASSUME NEW c \in IteDom, IsLevel(c.g)
    PROVE  /\ c.g \in PartialF /\ c.x \in PartialF /\ c.y \in PartialF /\ c.late \in Lates
           /\ {} \in Lates /\ c.same \in BOOLEAN
           /\ hp(c.g) \in BoolFF /\ ha(c.g) \in BoolFF /\ Rest(c.g) \in PartialF
           /\ Size(Rest(c.g)) < Size(c.g)
           /\ Ite_(ha(c.g), c.x, c.y, {}) \in IteDom_ /\ Ite_(ha(c.g), c.x, c.y, c.late) \in IteDom_
           /\ Ite(Rest(c.g), c.x, c.y, FALSE, {}) \in IteDom
           /\ IteThen(c) \in PartialF
           /\ \A z \in PartialF : Ite_(hp(c.g), IteThen(c), z, {}) \in IteDom_
<1>1. /\ c.g \in PartialF /\ c.x \in PartialF /\ c.y \in PartialF /\ c.late \in Lates
      /\ {} \in Lates /\ c.same \in BOOLEAN
  BY DEF IteDom, Lates
<1>2. /\ hp(c.g) \in BoolFF /\ ha(c.g) \in BoolFF /\ Rest(c.g) \in PartialF
      /\ Size(Rest(c.g)) < Size(c.g)
  <2>1. /\ hp(c.g) \in BoolFF /\ ha(c.g) \in BoolFF /\ Rest(c.g) \in PartialF
        /\ Size(c.g) = Size(Rest(c.g)) + 1
    BY <1>1, LevelIs
  <2> QED BY <2>1, SizeNat
<1>3. Ite_(ha(c.g), c.x, c.y, {}) \in IteDom_ /\ Ite_(ha(c.g), c.x, c.y, c.late) \in IteDom_
  BY <1>1, <1>2 DEF Ite_, IteDom_
<1>4. Ite(Rest(c.g), c.x, c.y, FALSE, {}) \in IteDom
  BY <1>1, <1>2 DEF Ite, IteDom
<1>5. IteThen(c) \in PartialF
  BY <1>3, IteEquation_ DEF IteThen
<1>6. \A z \in PartialF : Ite_(hp(c.g), IteThen(c), z, {}) \in IteDom_
  BY <1>1, <1>2, <1>5 DEF Ite_, IteDom_
<1> QED BY <1>1, <1>2, <1>3, <1>4, <1>5, <1>6

\* The recursion of itePF is on a smaller guard.
LEMMA IteBodyType ==
    ASSUME NEW f, NEW c \in IteDom,
           \A d \in IteDom : Size(d.g) < Size(c.g) => f[d] \in PartialF
    PROVE  IteBody(f, c) \in PartialF
<1>0. c.g \in PartialF /\ c.x \in PartialF /\ c.y \in PartialF /\ c.late \in Lates
  BY DEF IteDom, Lates
<1>1. CASE ~IsLevel(c.g)
  BY <1>0, <1>1 DEF IteBody
<1>2. CASE IsLevel(c.g) /\ hp(c.g) = TrueFF
  BY <1>2, IteDoms, IteEquation_ DEF IteBody
<1>3. CASE /\ IsLevel(c.g) /\ hp(c.g) # TrueFF
           /\ ~(~Stuck(c) /\ ~Raised(c) /\ First(c) # unreachablePF /\ Second(c) # unreachablePF)
  BY <1>3, <1>0, Tails DEF IteBody
<1>4. CASE /\ IsLevel(c.g) /\ hp(c.g) # TrueFF
           /\ ~Stuck(c) /\ ~Raised(c) /\ First(c) # unreachablePF /\ Second(c) # unreachablePF
  <2>1. /\ IsLevel(First(c)) /\ IsLevel(Second(c)) /\ First(c) \in PartialF /\ Second(c) \in PartialF
    BY <1>0, <1>4, Selects
  <2>2. /\ hp(First(c)) \in BoolFF /\ hp(Second(c)) \in BoolFF /\ ha(First(c)) \in BoolFF /\ ha(Second(c)) \in BoolFF
    BY <2>1, LevelIs
  <2>3. IteElse(f, c) \in PartialF
    <3>1. Ite(Rest(c.g), c.x, c.y, FALSE, {}).g = Rest(c.g)
      BY DEF Ite
    <3> QED BY <3>1, <1>4, IteDoms DEF IteElse
  <2>4. itePF_[Ite_(hp(c.g), IteThen(c), IteElse(f, c), {})] \in PartialF
    BY <2>3, <1>4, IteDoms, IteEquation_
  <2>5. /\ andFF(hp(c.g), iteFF(ha(c.g), hp(First(c)), hp(Second(c)))) \in BoolFF
        /\ iteFF(ha(c.g), ha(First(c)), ha(Second(c))) \in BoolFF
    <3>1. hp(c.g) \in BoolFF /\ ha(c.g) \in BoolFF
      BY <1>4, IteDoms
    <3>2. /\ iteFF(ha(c.g), hp(First(c)), hp(Second(c))) \in BoolFF
          /\ iteFF(ha(c.g), ha(First(c)), ha(Second(c))) \in BoolFF
      BY <3>1, <2>2, IteFFIs
    <3> QED BY <3>1, <3>2, AndFFIs
  <2>6. IteLevel(f, c) \in PartialF
    BY <2>4, <2>5, Cons DEF IteLevel
  <2> QED BY <1>0, <1>4, <2>6 DEF IteBody
<1> QED BY <1>1, <1>2, <1>3, <1>4

\* So there is such a function: itePF is total.
LEMMA IteEquation ==
    itePF \in [IteDom -> PartialF] /\ \A c \in IteDom : itePF[c] = IteBody(itePF, c)
<1> DEFINE S == IteDom
           T == PartialF
           rank == [c \in S |-> Size(c.g)]
           G == [c \in S |-> [f \in [S -> T] |-> IteBody(f, c)]]
<1>1. T # {}
  BY Tails
<1>2. rank \in [S -> Nat]
  <2> SUFFICES ASSUME NEW c \in S PROVE Size(c.g) \in Nat
    OBVIOUS
  <2> QED BY SizeNat DEF IteDom
<1>3. G \in [S -> [[S -> T] -> T]]
  <2>1. \A c \in S : \A f \in [S -> T] : IteBody(f, c) \in T
    BY IteBodyType
  <2> QED BY <2>1
<1>4. ASSUME NEW c \in S, NEW f \in [S -> T], NEW g \in [S -> T],
             \A y \in S : rank[y] < rank[c] => f[y] = g[y]
      PROVE  G[c][f] = G[c][g]
  <2>1. IteBody(f, c) = IteBody(g, c)
    <3>1. CASE IsLevel(c.g)
      <4> DEFINE d == Ite(Rest(c.g), c.x, c.y, FALSE, {})
      <4>1. d \in S /\ Size(Rest(c.g)) < Size(c.g)
        BY <3>1, IteDoms
      <4>2. d.g = Rest(c.g)
        BY DEF Ite
      <4>3. rank[d] < rank[c]
        BY <4>1, <4>2
      <4>4. f[d] = g[d]
        BY <4>1, <4>3, <1>4
      <4>5. IteLevel(f, c) = IteLevel(g, c)
        BY <4>4 DEF IteLevel, IteElse
      <4> QED BY <4>5 DEF IteBody
    <3>2. CASE ~IsLevel(c.g)
      BY <3>2 DEF IteBody
    <3> QED BY <3>1, <3>2
  <2> QED BY <2>1
<1>5. \A f \in [S -> T] : [c \in S |-> G[c][f]] = [c \in S |-> IteBody(f, c)]
  OBVIOUS
<1>11. ASSUME NEW c \in S, NEW f, \A d \in S : rank[d] < rank[c] => f[d] \in T
       PROVE  IteBody(f, c) \in T
  BY <1>11, IteBodyType
<1> HIDE DEF S, T, rank, G
<1>6. Descends(S, T, rank, G)
  BY <1>2, <1>3, <1>4 DEF Descends
<1>7. PICK f \in [S -> T] : Solves(f, S, G)
  BY <1>1, <1>6, Recursion
<1>8. f = [c \in S |-> IteBody(f, c)]
  BY <1>5, <1>7 DEF Solves
<1>9. itePF = [c \in S |-> IteBody(itePF, c)]
  BY <1>8, IteUnfold DEF S
<1>10. \A c \in S : itePF[c] = IteBody(itePF, c)
  BY <1>9
<1>12. \A c \in S : itePF[c] \in T
  <2> DEFINE P == {c \in S : itePF[c] \in T}
  <2>1. ASSUME NEW c \in S, \A d \in S : rank[d] < rank[c] => d \in P PROVE c \in P
    <3>1. IteBody(itePF, c) \in T
      BY <2>1, <1>11
    <3> QED BY <3>1, <1>10
  <2>2. P \in SUBSET S
    OBVIOUS
  <2> HIDE DEF P
  <2>3. Inductive(P, S, rank)
    BY <2>1, <2>2, <1>2 DEF Inductive
  <2>4. P = S
    BY <2>3, RankInduction
  <2> QED BY <2>4 DEF P
<1>13. itePF \in [S -> T]
  BY <1>9, <1>12
<1> QED BY <1>10, <1>13 DEF S, T

\* itePF for branches that are two heap objects.
IteFFs(c) == FFsOk(c.g) /\ FFsOk(c.x) /\ FFsOk(c.y) => FFsOk(itePF[c])
IteEnds(c) == Good(c.g) /\ Good(c.x) /\ Good(c.y) /\ LateHarmless(c) => EndsCovered(itePF[c])
IteReached(c) ==
    FFsOk(c.g) /\ c.x # unreachablePF /\ c.y # unreachablePF /\ itePF[c] = unreachablePF
      => c.g = unreachablePF
IteTells(c) ==
    \A m \in Assignment, b \in {"holds", "fails"}, d \in Verdicts :
      /\ FFsOk(c.g) /\ FFsOk(c.x) /\ FFsOk(c.y) /\ Swallowed(c.x, c.y, c.late)
      /\ Tells(c.g, m, b) /\ Tells(IF b = "holds" THEN c.x ELSE c.y, m, d)
      => Tells(itePF[c], m, d)
IteUndefined(c) ==
    \A m \in Assignment :
      /\ FFsOk(c.g) /\ FFsOk(c.x) /\ FFsOk(c.y) /\ c.x # unreachablePF /\ c.y # unreachablePF
      /\ Says(c.g, m) = "undefined"
      => Says(itePF[c], m) = "undefined"
IteShrinks(c) ==
    /\ c.late = {} /\ FFsOk(c.g) /\ FFsOk(c.x) /\ FFsOk(c.y) /\ Narrows(c.g) /\ Narrows(c.x) /\ Narrows(c.y)
    => /\ Narrows(itePF[c])
       /\ c.x # unreachablePF /\ c.y # unreachablePF => Cover(itePF[c]) \subseteq Cover(c.g)

IteFacts(c) == c.same = FALSE =>
                 /\ IteFFs(c) /\ IteEnds(c) /\ IteReached(c) /\ IteTells(c) /\ IteUndefined(c)
                 /\ IteShrinks(c)

-----------------------------------------------------------------------------
\* itePF: it does.

\* One call of itePF, if those it makes are right.
LEMMA IteStep ==
    ASSUME NEW c \in IteDom, c.same = FALSE,
           \A d \in IteDom : Size(d.g) < Size(c.g) => IteFacts(d)
    PROVE  IteFacts(c)
<1> DEFINE g == c.g
           x == c.x
           y == c.y
           r == itePF[c]
           u == First(c)
           v == Second(c)
           lx == "x" \in c.late
           ly == "y" \in c.late
           gp == hp(g)
           ga == ha(g)
           gr == Rest(g)
<1>1. /\ g \in PartialF /\ x \in PartialF /\ y \in PartialF /\ c.late \in Lates /\ {} \in Lates
  BY DEF IteDom, Lates
<1>2. r = IteBody(itePF, c)
  BY IteEquation
<1>d. IteFacts(c) <=> /\ IteFFs(c) /\ IteEnds(c) /\ IteReached(c) /\ IteTells(c) /\ IteUndefined(c)
                      /\ IteShrinks(c)
  BY DEF IteFacts
<1>e. \A d \in IteDom : Size(d.g) < Size(c.g) /\ d.same = FALSE =>
         /\ IteFFs(d) /\ IteEnds(d) /\ IteReached(d) /\ IteTells(d) /\ IteUndefined(d)
         /\ IteShrinks(d)
  BY DEF IteFacts
<1>a. /\ lx \in BOOLEAN /\ ly \in BOOLEAN
      /\ u = approximated(x, lx) /\ v = approximated(y, ly)
  BY DEF First, Second
<1>l. LateHarmless(c) <=> (x = unreachablePF => ~lx) /\ (y = unreachablePF => ~ly)
  BY DEF LateHarmless
<1>q. Verdicts = {"holds", "fails", "undefined"} /\ {"holds", "fails"} \subseteq Verdicts
  BY DEF Verdicts
<1> HIDE DEF r, u, v, lx, ly, g, x, y, gp, ga, gr
<1>3. CASE ~IsLevel(g)
  <2>1. r = g
    BY <1>2, <1>3 DEF IteBody, g, r
  <2>2. IteTells(c)
    <3> SUFFICES ASSUME NEW m \in Assignment, NEW b \in {"holds", "fails"}, NEW d \in Verdicts,
                        Tells(g, m, b)
                 PROVE  Tells(r, m, d)
      BY DEF IteTells, g, r
    <3>1. g = Hangs
      BY <1>1, <1>3, <1>q, TellsIs
    <3> QED BY <2>1, <3>1, TailTells
  <2>3. IteFFs(c) /\ IteEnds(c) /\ IteReached(c) /\ IteUndefined(c)
    BY <2>1 DEF IteFFs, IteEnds, IteReached, IteUndefined, Good, g, r
  <2>4. IteShrinks(c)
    BY <2>1 DEF IteShrinks, g, r
  <2> QED BY <2>2, <2>3, <2>4, <1>d
<1>g. ASSUME IsLevel(g)
      PROVE  /\ gp \in BoolFF /\ ga \in BoolFF /\ gr \in PartialF /\ gr.end = g.end
             /\ FFsOk(g) <=> /\ gp # Unreachable_BoolFF
                             /\ (ga = Unreachable_BoolFF => gp = FalseFF) /\ FFsOk(gr)
             /\ EndsCovered(g) <=> (gr = unreachablePF => gp.sat = Assignment) /\ EndsCovered(gr)
             /\ Narrows(g) <=> Cover(gr) \subseteq gp.sat /\ Narrows(gr)
             /\ Cover(g) = gp.sat /\ g # unreachablePF
             /\ \A m : Says(g, m) = IF m \in gp.sat THEN IF m \in ga.sat THEN "holds" ELSE "fails"
                                    ELSE Says(gr, m)
  BY <1>1, <1>g, LevelProper, LevelIs DEF gp, ga, gr
<1>t. TrueFF.sat = Assignment /\ TrueFF # Unreachable_BoolFF /\ TrueFF # FalseFF
      /\ \A z \in BoolFF : z.sat \in SUBSET Assignment
  BY BoolFFs
<1>4. CASE IsLevel(g) /\ gp = TrueFF
  <2> DEFINE e == Ite_(ga, x, y, c.late)
  <2>1. r = itePF_[e]
    BY <1>2, <1>4 DEF IteBody, g, r, gp, ga, x, y
  <2>2. e \in IteDom_ /\ e.p = ga /\ e.x = x /\ e.y = y /\ e.late = c.late
    <3>1. e \in IteDom_
      BY <1>4, IteDoms DEF g, ga, x, y
    <3> QED BY <3>1 DEF Ite_
  <2> HIDE DEF e
  <2>3. FFsOk(g) => ga # Unreachable_BoolFF
    BY <1>4, <1>g, <1>t
  <2>4. FFsOk(g) => /\ IteFFs_(e) /\ IteEnds_(e) /\ IteReached_(e) /\ IteTells_(e)
                    /\ IteShrinks_(e)
    BY <2>2, <2>3, IteIs_
  <2>5. LateHarmless(e) <=> LateHarmless(c)
    BY <2>2 DEF LateHarmless, x, y
  <2>6. IteFFs(c)
    BY <2>1, <2>2, <2>4 DEF IteFFs, IteFFs_, g, r, x, y
  <2>7. IteEnds(c)
    BY <2>1, <2>2, <2>4, <2>5 DEF IteEnds, IteEnds_, Good, g, r, x, y
  <2>8. IteReached(c)
    <3>1. x # unreachablePF /\ y # unreachablePF => LateHarmless(e)
      BY <2>2 DEF LateHarmless
    <3> QED BY <3>1, <2>1, <2>2, <2>4 DEF IteReached, IteReached_, g, r, x, y
  <2>9. IteTells(c)
    <3> SUFFICES ASSUME NEW m \in Assignment, NEW b \in {"holds", "fails"}, NEW d \in Verdicts,
                        FFsOk(g), FFsOk(x), FFsOk(y), Swallowed(x, y, c.late),
                        Tells(g, m, b), Tells(IF b = "holds" THEN x ELSE y, m, d)
                 PROVE  Tells(r, m, d)
      BY DEF IteTells, g, r, x, y
    <3>1. Says(g, m) = IF m \in ga.sat THEN "holds" ELSE "fails"
      BY <1>4, <1>g, <1>t
    <3>2. Says(g, m) = b
      BY <3>1, <1>1, <1>q, TellsIs
    <3>3. Tells(IF m \in ga.sat THEN x ELSE y, m, d)
      BY <3>1, <3>2
    <3> QED BY <3>3, <2>1, <2>2, <2>4 DEF IteTells_
  <2>10. IteUndefined(c)
    <3>1. \A m \in Assignment : Says(g, m) # "undefined"
      BY <1>4, <1>g, <1>t
    <3> QED BY <3>1 DEF IteUndefined, g
  <2>11. IteShrinks(c)
    <3> SUFFICES ASSUME c.late = {}, FFsOk(g), FFsOk(x), FFsOk(y), Narrows(x), Narrows(y)
                 PROVE  Narrows(r) /\ Cover(r) \subseteq Cover(g)
      BY DEF IteShrinks, g, r, x, y
    <3>1. Narrows(r) /\ Cover(r) \subseteq (ga.sat \cap Cover(x)) \cup (Cover(y) \ ga.sat)
      BY <2>1, <2>2, <2>4 DEF IteShrinks_
    <3>2. Cover(x) \in SUBSET Assignment /\ Cover(y) \in SUBSET Assignment /\ Cover(g) = Assignment
      BY <1>1, <1>4, <1>g, <1>t, Covers
    <3> QED BY <3>1, <3>2
  <2> QED BY <2>6, <2>7, <2>8, <2>9, <2>10, <2>11, <1>d
<1>5. CASE IsLevel(g) /\ gp # TrueFF /\ Stuck(c)
  <2>1. r = Hangs
    BY <1>2, <1>5 DEF IteBody, g, r, gp
  <2>2. FFsOk(Hangs) /\ EndsCovered(Hangs) /\ Narrows(Hangs) /\ Cover(Hangs) = {} /\ Hangs # unreachablePF
    BY TailProper, Tails, Covers
  <2>3. \A m \in Assignment : Says(r, m) = "undefined" /\ \A d \in Verdicts : Tells(r, m, d)
    BY <2>1, TailTells, <1>q
  <2>4. IteFFs(c) /\ IteEnds(c) /\ IteReached(c) /\ IteShrinks(c)
    BY <2>1, <2>2 DEF IteFFs, IteEnds, IteReached, IteShrinks, r
  <2>5. IteTells(c) /\ IteUndefined(c)
    BY <2>3 DEF IteTells, IteUndefined, r
  <2> QED BY <2>4, <2>5, <1>d
<1>6. CASE IsLevel(g) /\ gp # TrueFF /\ ~Stuck(c) /\ Raised(c)
  <2>1. r = Errors
    BY <1>2, <1>6 DEF IteBody, g, r, gp
  <2>2. FFsOk(Errors) /\ EndsCovered(Errors) /\ Narrows(Errors) /\ Cover(Errors) = {} /\ Errors # unreachablePF
    BY TailProper, Tails, Covers
  <2>3. IteFFs(c) /\ IteEnds(c) /\ IteReached(c) /\ IteShrinks(c)
    BY <2>1, <2>2 DEF IteFFs, IteEnds, IteReached, IteShrinks, r
  <2>4. IteTells(c)
    <3> SUFFICES ASSUME NEW m \in Assignment, NEW b \in {"holds", "fails"}, NEW d \in Verdicts,
                        Swallowed(x, y, c.late), Tells(IF b = "holds" THEN x ELSE y, m, d)
                 PROVE  Tells(r, m, d)
      BY DEF IteTells, g, r, x, y
    <3>1. x = Errors /\ y = Errors
      BY <1>6 DEF Raised, Swallowed, SelectRaises, Fails, x, y
    <3> QED BY <3>1, <2>1
  <2>5. IteUndefined(c)
    BY <2>1, TailTells, <1>q DEF IteUndefined, r
  <2> QED BY <2>3, <2>4, <2>5, <1>d
<1>u. /\ u \in PartialF /\ u.end = x.end
      /\ \A m : Says(u, m) = Says(x, m)
      /\ u = unreachablePF => x = unreachablePF
      /\ x = unreachablePF /\ ~lx => u = unreachablePF
      /\ FFsOk(x) => FFsOk(u)
      /\ ~lx => (Narrows(x) => Narrows(u)) /\ Cover(u) = Cover(x)
  BY <1>1, <1>a, Approximates
<1>v. /\ v \in PartialF /\ v.end = y.end
      /\ \A m : Says(v, m) = Says(y, m)
      /\ v = unreachablePF => y = unreachablePF
      /\ y = unreachablePF /\ ~ly => v = unreachablePF
      /\ FFsOk(y) => FFsOk(v)
      /\ ~ly => (Narrows(y) => Narrows(v)) /\ Cover(v) = Cover(y)
  BY <1>1, <1>a, Approximates
<1>n. \A m, d : d \in Verdicts => ~Tells(unreachablePF, m, d)
  BY TellsIs, Tails
<1>7. CASE IsLevel(g) /\ gp # TrueFF /\ ~Stuck(c) /\ ~Raised(c) /\ u = unreachablePF
  <2>1. r = y /\ x = unreachablePF
    BY <1>2, <1>7, <1>u DEF IteBody, g, r, gp, u, y
  <2>2. IteFFs(c) /\ IteEnds(c) /\ IteReached(c) /\ IteUndefined(c)
    BY <2>1 DEF IteFFs, IteEnds, IteReached, IteUndefined, Good, r, x, y
  <2>3. IteTells(c)
    <3> SUFFICES ASSUME NEW m \in Assignment, NEW b \in {"holds", "fails"}, NEW d \in Verdicts,
                        Tells(IF b = "holds" THEN x ELSE y, m, d)
                 PROVE  Tells(r, m, d)
      BY DEF IteTells, r, x, y
    <3> QED BY <2>1, <1>n
  <2>4. IteShrinks(c)
    BY <2>1 DEF IteShrinks, r, x, y
  <2> QED BY <2>2, <2>3, <2>4, <1>d
<1>8. CASE /\ IsLevel(g) /\ gp # TrueFF /\ ~Stuck(c) /\ ~Raised(c)
           /\ u # unreachablePF /\ v = unreachablePF
  <2>1. r = x /\ y = unreachablePF
    <3>1. ~c.same
      OBVIOUS
    <3> QED BY <3>1, <1>2, <1>8, <1>v DEF IteBody, g, r, gp, u, v, x
  <2>2. IteFFs(c) /\ IteEnds(c) /\ IteReached(c) /\ IteUndefined(c)
    BY <2>1 DEF IteFFs, IteEnds, IteReached, IteUndefined, Good, r, x, y
  <2>3. IteTells(c)
    <3> SUFFICES ASSUME NEW m \in Assignment, NEW b \in {"holds", "fails"}, NEW d \in Verdicts,
                        Tells(IF b = "holds" THEN x ELSE y, m, d)
                 PROVE  Tells(r, m, d)
      BY DEF IteTells, r, x, y
    <3> QED BY <2>1, <1>n
  <2>4. IteShrinks(c)
    BY <2>1 DEF IteShrinks, r, x, y
  <2> QED BY <2>2, <2>3, <2>4, <1>d
<1>9. CASE /\ IsLevel(g) /\ gp # TrueFF /\ ~Stuck(c) /\ ~Raised(c)
           /\ u # unreachablePF /\ v # unreachablePF
  <2> DEFINE up == hp(u)
             ua == ha(u)
             vp == hp(v)
             va == ha(v)
             ia == Ite_(ga, x, y, {})
             A == itePF_[ia]
             ib == Ite(gr, x, y, FALSE, {})
             B == itePF[ib]
             is == Ite_(gp, A, B, {})
             s == itePF_[is]
             ip == iteFF(ga, up, vp)
             rp == andFF(gp, ip)
             ra == iteFF(ga, ua, va)
  <2>1. /\ IsLevel(u) /\ IsLevel(v)
    BY <1>1, <1>9, Selects DEF u, v, x, y
  <2>2. r = PartialF_(rp, ra, s)
    <3>1. ~c.same
      OBVIOUS
    <3> QED BY <3>1, <1>2, <1>9 DEF IteBody, IteLevel, IteThen, IteElse, g, x, y, r, u, v, gp, ga, gr
  <2>3. /\ ia \in IteDom_ /\ ib \in IteDom /\ A \in PartialF /\ B \in PartialF /\ is \in IteDom_
        /\ s \in PartialF /\ Size(gr) < Size(g)
    <3>1. /\ ia \in IteDom_ /\ ib \in IteDom /\ A \in PartialF /\ Size(gr) < Size(g)
      BY <1>9, IteDoms DEF g, x, y, ga, gr, IteThen
    <3>2. B \in PartialF
      BY <3>1, IteEquation
    <3>3. is \in IteDom_
      BY <3>2, <1>9, IteDoms DEF g, x, y, ga, gp, IteThen
    <3> QED BY <3>1, <3>2, <3>3, IteEquation_
  <2>4. /\ ia.p = ga /\ ia.x = x /\ ia.y = y /\ ia.late = {}
        /\ ib.g = gr /\ ib.x = x /\ ib.y = y /\ ib.late = {} /\ ib.same = FALSE
        /\ is.p = gp /\ is.x = A /\ is.y = B /\ is.late = {}
    BY DEF Ite_, Ite
  <2>g. /\ gp \in BoolFF /\ ga \in BoolFF /\ gr \in PartialF /\ gr.end = g.end
        /\ FFsOk(g) <=> /\ gp # Unreachable_BoolFF
                        /\ (ga = Unreachable_BoolFF => gp = FalseFF) /\ FFsOk(gr)
        /\ EndsCovered(g) <=> (gr = unreachablePF => gp.sat = Assignment) /\ EndsCovered(gr)
        /\ Narrows(g) <=> Cover(gr) \subseteq gp.sat /\ Narrows(gr)
        /\ Cover(g) = gp.sat /\ g # unreachablePF
        /\ \A m : Says(g, m) = IF m \in gp.sat THEN IF m \in ga.sat THEN "holds" ELSE "fails"
                               ELSE Says(gr, m)
    BY <1>9, <1>g
  <2>u. /\ up \in BoolFF /\ ua \in BoolFF
        /\ FFsOk(u) => /\ up # Unreachable_BoolFF
                       /\ (ua = Unreachable_BoolFF => up = FalseFF)
        /\ Cover(u) = up.sat
        /\ \A m : Says(u, m) = IF m \in up.sat THEN IF m \in ua.sat THEN "holds" ELSE "fails"
                               ELSE Says(Rest(u), m)
        /\ Rest(u).end = u.end
    BY <2>1, <1>u, LevelProper
  <2>v. /\ vp \in BoolFF /\ va \in BoolFF
        /\ FFsOk(v) => /\ vp # Unreachable_BoolFF
                       /\ (va = Unreachable_BoolFF => vp = FalseFF)
        /\ Cover(v) = vp.sat
        /\ \A m : Says(v, m) = IF m \in vp.sat THEN IF m \in va.sat THEN "holds" ELSE "fails"
                               ELSE Says(Rest(v), m)
        /\ Rest(v).end = v.end
    BY <2>1, <1>v, LevelProper
  <2>i. /\ ip \in BoolFF
        /\ ga # Unreachable_BoolFF =>
             /\ up # Unreachable_BoolFF /\ vp # Unreachable_BoolFF => ip # Unreachable_BoolFF
             /\ \A m \in Assignment :
                  /\ m \in ga.sat /\ up # Unreachable_BoolFF => (m \in ip.sat <=> m \in up.sat)
                  /\ m \notin ga.sat /\ vp # Unreachable_BoolFF => (m \in ip.sat <=> m \in vp.sat)
             /\ up = FalseFF /\ vp = FalseFF => ip = FalseFF
        /\ ga = TrueFF => ip = up
        /\ ga = FalseFF => ip = vp
    BY <2>g, <2>u, <2>v, IteFFIs
  <2>p. /\ rp \in BoolFF /\ rp.sat = gp.sat \cap ip.sat
        /\ gp # Unreachable_BoolFF /\ ip # Unreachable_BoolFF => rp # Unreachable_BoolFF
        /\ gp = FalseFF => rp = FalseFF
        /\ ip = FalseFF => rp = FalseFF
    BY <2>g, <2>i, AndFFIs
  <2>a. /\ ra \in BoolFF
        /\ ga # Unreachable_BoolFF =>
             /\ ra = Unreachable_BoolFF =>
                  \/ ga = TrueFF /\ ua = Unreachable_BoolFF
                  \/ ga = FalseFF /\ va = Unreachable_BoolFF
                  \/ ua = Unreachable_BoolFF /\ va = Unreachable_BoolFF
             /\ \A m \in Assignment :
                  /\ m \in ga.sat /\ ua # Unreachable_BoolFF => (m \in ra.sat <=> m \in ua.sat)
                  /\ m \notin ga.sat /\ va # Unreachable_BoolFF => (m \in ra.sat <=> m \in va.sat)
    BY <2>g, <2>u, <2>v, IteFFIs
  <2>F. FalseFF.sat = {} /\ FalseFF # Unreachable_BoolFF
    BY BoolFFs
  <2>s. s \in PartialF /\ rp \in BoolFF /\ ra \in BoolFF
    BY <2>3, <2>p, <2>a
  <2> HIDE DEF s, A, B, ia, ib, is, rp, ra, ip, up, ua, vp, va
  <2>r. /\ r \in PartialF /\ r # unreachablePF /\ r.end = s.end
        /\ FFsOk(r) <=> /\ rp # Unreachable_BoolFF
                        /\ (ra = Unreachable_BoolFF => rp = FalseFF) /\ FFsOk(s)
        /\ EndsCovered(r) <=> (s = unreachablePF => rp.sat = Assignment) /\ EndsCovered(s)
        /\ Narrows(r) <=> Cover(s) \subseteq rp.sat /\ Narrows(s)
        /\ Cover(r) = rp.sat
        /\ \A m : Says(r, m) = IF m \in rp.sat THEN IF m \in ra.sat THEN "holds" ELSE "fails"
                               ELSE Says(s, m)
    <3> HIDE DEF r
    <3> QED BY <2>2, <2>s, NewLevel
  \* What is known of the three calls.
  <2>A. ga # Unreachable_BoolFF =>
          IteFFs_(ia) /\ IteEnds_(ia) /\ IteReached_(ia) /\ IteTells_(ia) /\ IteShrinks_(ia)
    BY <2>3, <2>4, IteIs_
  <2>B. IteFFs(ib) /\ IteEnds(ib) /\ IteReached(ib) /\ IteTells(ib) /\ IteUndefined(ib)
        /\ IteShrinks(ib)
    <3>1. Size(ib.g) < Size(c.g)
      BY <2>3, <2>4 DEF g
    <3> QED BY <3>1, <2>3, <2>4, <1>e
  <2>S. gp # Unreachable_BoolFF =>
          IteFFs_(is) /\ IteEnds_(is) /\ IteReached_(is) /\ IteTells_(is) /\ IteShrinks_(is)
    BY <2>3, <2>4, IteIs_
  <2>f. gp = FalseFF => s = B
    BY <2>3, <2>4, <2>F, IteEquation_, BoolFFs DEF IteBody_, s
  <2>o. LateHarmless(ia) /\ LateHarmless(ib) /\ LateHarmless(is)
    BY <2>4 DEF LateHarmless
  <2>w. Swallowed(x, y, {}) /\ Swallowed(A, B, {})
    BY DEF Swallowed
  \* An unreachable branch has been returned already.
  <2>x. LateHarmless(c) => x # unreachablePF /\ y # unreachablePF
    BY <1>l, <1>u, <1>v, <1>9
  <2>5. ASSUME FFsOk(g), FFsOk(x), FFsOk(y) PROVE FFsOk(B) /\ FFsOk(s) /\ (ga # Unreachable_BoolFF => FFsOk(A))
    <3>1. FFsOk(B)
      BY <2>5, <2>B, <2>4, <2>g DEF IteFFs, B
    <3>2. ga # Unreachable_BoolFF => FFsOk(A)
      BY <2>5, <2>A, <2>4 DEF IteFFs_, A
    <3>3. CASE gp = FalseFF
      BY <3>1, <3>2, <3>3, <2>f
    <3>4. CASE gp # FalseFF
      <4>1. ga # Unreachable_BoolFF /\ gp # Unreachable_BoolFF
        BY <3>4, <2>5, <2>g
      <4>2. FFsOk(s)
        BY <4>1, <3>1, <3>2, <2>S, <2>4 DEF IteFFs_, s
      <4> QED BY <4>2, <3>1, <3>2
    <3> QED BY <3>3, <3>4
  <2>6. IteFFs(c)
    <3> SUFFICES ASSUME FFsOk(g), FFsOk(x), FFsOk(y) PROVE FFsOk(r)
      BY DEF IteFFs, g, x, y, r
    <3>1. FFsOk(u) /\ FFsOk(v) /\ FFsOk(s)
      BY <1>u, <1>v, <2>5
    <3>2. CASE gp = FalseFF
      BY <3>1, <3>2, <2>p, <2>r, <2>F
    <3>3. CASE gp # FalseFF
      <4>1. ga # Unreachable_BoolFF /\ gp # Unreachable_BoolFF
        BY <3>3, <2>g
      <4>2. up # Unreachable_BoolFF /\ vp # Unreachable_BoolFF
        BY <3>1, <2>u, <2>v
      <4>3. rp # Unreachable_BoolFF
        BY <4>1, <4>2, <2>i, <2>p
      <4>4. ASSUME ra = Unreachable_BoolFF PROVE rp = FalseFF
        <5>1. ip = FalseFF
          BY <4>1, <4>4, <3>1, <2>a, <2>i, <2>u, <2>v
        <5> QED BY <5>1, <2>p
      <4> QED BY <4>3, <4>4, <3>1, <2>r
    <3> QED BY <3>2, <3>3
  <2>7. IteEnds(c)
    <3> SUFFICES ASSUME Good(g), Good(x), Good(y), LateHarmless(c) PROVE EndsCovered(r)
      BY DEF IteEnds, g, x, y, r
    <3>1. FFsOk(g) /\ FFsOk(x) /\ FFsOk(y) /\ Good(gr) /\ x # unreachablePF /\ y # unreachablePF
      BY <2>x, <2>g DEF Good
    <3>2. EndsCovered(B)
      BY <3>1, <2>B, <2>4, <2>o DEF IteEnds, B
    <3>3. B = unreachablePF => gr = unreachablePF
      BY <3>1, <2>B, <2>4 DEF IteReached, B, Good
    <3>4. CASE gp = FalseFF
      <4>1. s = B
        BY <3>4, <2>f
      <4>2. gr # unreachablePF
        BY <3>4, <2>g, <2>F, SearchAssumption DEF Good
      <4> QED BY <4>1, <4>2, <3>2, <3>3, <2>r
    <3>5. CASE gp # FalseFF
      <4>1. ga # Unreachable_BoolFF /\ gp # Unreachable_BoolFF
        BY <3>5, <3>1, <2>g
      <4>2. FFsOk(A) /\ FFsOk(B)
        BY <4>1, <3>1, <2>5
      <4>3. EndsCovered(A)
        BY <4>1, <2>A, <2>4, <2>o DEF IteEnds_, A
      <4>4. A # unreachablePF
        BY <4>1, <3>1, <2>A, <2>4, <2>o DEF IteReached_, A
      <4>5. Good(A) /\ Good(B)
        BY <4>2, <4>3, <3>2 DEF Good
      <4>6. EndsCovered(s)
        BY <4>1, <4>5, <2>S, <2>4, <2>o DEF IteEnds_, s
      <4>7. s # unreachablePF
        BY <4>1, <4>4, <3>5, <2>S, <2>4, <2>o, <1>9 DEF IteReached_, s
      <4> QED BY <4>6, <4>7, <2>r
    <3> QED BY <3>4, <3>5
  <2>8. IteReached(c)
    BY <2>r DEF IteReached, r
  \* Where the first guard decides nothing, what is behind it counts.
  <2>9. ASSUME NEW m \in Assignment, NEW d \in Verdicts, FFsOk(g), FFsOk(x), FFsOk(y),
               m \notin gp.sat, Tells(B, m, d)
        PROVE  Tells(s, m, d) /\ Says(r, m) = Says(s, m)
    <3>1. Says(r, m) = Says(s, m)
      BY <2>9, <2>p, <2>r
    <3>2. CASE gp = FalseFF
      BY <3>1, <3>2, <2>9, <2>f
    <3>3. CASE gp # FalseFF
      <4>1. gp # Unreachable_BoolFF /\ FFsOk(B)
        BY <2>9, <2>g, <2>5
      <4>2. Tells(s, m, d)
        BY <4>1, <2>9, <2>S, <2>4, <2>w DEF IteTells_, s
      <4> QED BY <4>2, <3>1
    <3> QED BY <3>2, <3>3
  <2>10. IteTells(c)
    <3> SUFFICES ASSUME NEW m \in Assignment, NEW b \in {"holds", "fails"}, NEW d \in Verdicts,
                        FFsOk(g), FFsOk(x), FFsOk(y),
                        Tells(g, m, b), Tells(IF b = "holds" THEN x ELSE y, m, d)
                 PROVE  Tells(r, m, d)
      BY DEF IteTells, g, r, x, y
    <3>1. CASE m \notin gp.sat
      <4>1. Says(g, m) = Says(gr, m) /\ FFsOk(gr)
        BY <3>1, <2>g
      <4>2. Tells(gr, m, b)
        BY <4>1, <2>g DEF Tells
      <4>3. Tells(B, m, d)
        BY <4>1, <4>2, <2>B, <2>4, <2>w DEF IteTells, B
      <4>4. Tells(s, m, d) /\ Says(r, m) = Says(s, m)
        BY <4>3, <3>1, <2>9
      <4> QED BY <4>4, <2>r DEF Tells
    <3>2. CASE m \in gp.sat
      <4>1. ga # Unreachable_BoolFF /\ gp # Unreachable_BoolFF
        BY <3>2, <2>g, <2>F
      <4>2. Says(g, m) = IF m \in ga.sat THEN "holds" ELSE "fails"
        BY <3>2, <2>g
      <4>3. Says(g, m) = b
        BY <4>2, <1>1, <1>q, TellsIs
      <4>4. FFsOk(A) /\ FFsOk(s)
        BY <4>1, <2>5
      <4>5. Tells(A, m, d)
        <5>1. Tells(IF m \in ga.sat THEN x ELSE y, m, d)
          BY <4>2, <4>3
        <5> QED BY <5>1, <4>1, <2>A, <2>4, <2>w DEF IteTells_, A
      <4>6. Tells(s, m, d)
        BY <4>1, <4>4, <4>5, <3>2, <2>S, <2>4, <2>w DEF IteTells_, s
      <4>7. CASE m \notin ip.sat
        <5>1. Says(r, m) = Says(s, m)
          BY <4>7, <2>p, <2>r
        <5> QED BY <5>1, <4>6, <2>r DEF Tells
      <4>8. CASE m \in ip.sat /\ m \in ga.sat
        <5>1. Tells(u, m, d) /\ FFsOk(u)
          BY <4>2, <4>3, <4>8, <1>u DEF Tells
        <5>2. m \in up.sat
          BY <5>1, <4>1, <4>8, <2>i, <2>u
        <5>3. ua # Unreachable_BoolFF
          BY <5>1, <5>2, <2>u, <2>F
        <5>4. m \in ra.sat <=> m \in ua.sat
          BY <5>3, <4>1, <4>8, <2>a
        <5>5. Says(r, m) = Says(u, m) /\ Says(u, m) \in {"holds", "fails"}
          BY <5>2, <5>4, <4>8, <3>2, <2>p, <2>r, <2>u
        <5> QED BY <5>5, <5>1 DEF Tells
      <4>9. CASE m \in ip.sat /\ m \notin ga.sat
        <5>1. Tells(v, m, d) /\ FFsOk(v)
          BY <4>2, <4>3, <4>9, <1>v DEF Tells
        <5>2. m \in vp.sat
          BY <5>1, <4>1, <4>9, <2>i, <2>v
        <5>3. va # Unreachable_BoolFF
          BY <5>1, <5>2, <2>v, <2>F
        <5>4. m \in ra.sat <=> m \in va.sat
          BY <5>3, <4>1, <4>9, <2>a
        <5>5. Says(r, m) = Says(v, m) /\ Says(v, m) \in {"holds", "fails"}
          BY <5>2, <5>4, <4>9, <3>2, <2>p, <2>r, <2>v
        <5> QED BY <5>5, <5>1 DEF Tells
      <4> QED BY <4>7, <4>8, <4>9
    <3> QED BY <3>1, <3>2
  <2>11. IteUndefined(c)
    <3> SUFFICES ASSUME NEW m \in Assignment, FFsOk(g), FFsOk(x), FFsOk(y),
                        x # unreachablePF, y # unreachablePF, Says(g, m) = "undefined"
                 PROVE  Says(r, m) = "undefined"
      BY DEF IteUndefined, g, r, x, y
    <3>1. m \notin gp.sat /\ Says(gr, m) = "undefined" /\ FFsOk(gr)
      BY <2>g
    <3>2. Says(B, m) = "undefined"
      BY <3>1, <2>B, <2>4 DEF IteUndefined, B
    <3>3. Tells(B, m, "undefined")
      BY <3>2 DEF Tells
    <3>4. Tells(s, m, "undefined") /\ Says(r, m) = Says(s, m)
      BY <3>1, <3>3, <1>q, <2>9
    <3> QED BY <3>4 DEF Tells
  <2>12. IteShrinks(c)
    <3> SUFFICES ASSUME c.late = {}, FFsOk(g), FFsOk(x), FFsOk(y), Narrows(g), Narrows(x), Narrows(y)
                 PROVE  Narrows(r) /\ Cover(r) \subseteq Cover(g)
      BY DEF IteShrinks, g, r, x, y
    <3>1. ~lx /\ ~ly
      BY DEF lx, ly
    <3>2. /\ FFsOk(u) /\ FFsOk(v) /\ Cover(x) = up.sat /\ Cover(y) = vp.sat
          /\ up # Unreachable_BoolFF /\ vp # Unreachable_BoolFF
          /\ x # unreachablePF /\ y # unreachablePF
      BY <3>1, <1>u, <1>v, <2>u, <2>v, <1>9
    <3>3. FFsOk(gr) /\ Narrows(gr) /\ Cover(gr) \subseteq gp.sat /\ Cover(g) = gp.sat
      BY <2>g
    <3>4. Narrows(B) /\ Cover(B) \subseteq gp.sat
      BY <3>2, <3>3, <2>B, <2>4 DEF IteShrinks, B
    <3>5. CASE gp = FalseFF
      BY <3>4, <3>5, <2>f, <2>p, <2>r, <2>F, <3>3
    <3>6. CASE gp # FalseFF
      <4>1. ga # Unreachable_BoolFF /\ gp # Unreachable_BoolFF
        BY <3>6, <2>g
      <4>2. FFsOk(A) /\ FFsOk(B)
        BY <4>1, <2>5
      <4>3. Narrows(A) /\ Cover(A) \subseteq (ga.sat \cap Cover(x)) \cup (Cover(y) \ ga.sat)
        BY <4>1, <2>A, <2>4 DEF IteShrinks_, A
      <4>4. Narrows(s) /\ Cover(s) \subseteq (gp.sat \cap Cover(A)) \cup (Cover(B) \ gp.sat)
        BY <4>1, <4>2, <4>3, <3>4, <2>S, <2>4 DEF IteShrinks_, s
      <4>5. ip.sat = (ga.sat \cap up.sat) \cup (vp.sat \ ga.sat)
        <5>1. ip.sat \in SUBSET Assignment /\ up.sat \in SUBSET Assignment /\ vp.sat \in SUBSET Assignment
              /\ ga.sat \in SUBSET Assignment
          BY <2>i, <2>u, <2>v, <2>g, <1>t
        <5>2. \A m \in Assignment : m \in ip.sat <=> IF m \in ga.sat THEN m \in up.sat ELSE m \in vp.sat
          BY <4>1, <3>2, <2>i
        <5> QED BY <5>1, <5>2
      <4>6. Cover(s) \subseteq rp.sat
        BY <4>3, <4>4, <4>5, <3>2, <3>4, <2>p
      <4> QED BY <4>4, <4>6, <2>p, <2>r, <3>3
    <3> QED BY <3>5, <3>6
  <2> QED BY <2>6, <2>7, <2>8, <2>10, <2>11, <2>12, <1>d
<1> QED BY <1>3, <1>4, <1>5, <1>6, <1>7, <1>8, <1>9

\* itePF: the choice between two partial formulas by a third is
\* right under every assignment, whatever the branches do.  It tells what the
\* branch taken tells, is undefined where the guard is, and ends properly; the
\* branches must not be one heap object.
THEOREM IteIs ==
    ASSUME NEW c \in IteDom, c.same = FALSE
    PROVE  /\ itePF[c] \in PartialF
           /\ IteFFs(c) /\ IteEnds(c) /\ IteReached(c) /\ IteTells(c) /\ IteUndefined(c)
           /\ IteShrinks(c)
<1> DEFINE S == IteDom
           rank == [d \in S |-> Size(d.g)]
           P == {d \in S : IteFacts(d)}
<1>1. rank \in [S -> Nat]
  <2> SUFFICES ASSUME NEW d \in S PROVE Size(d.g) \in Nat
    OBVIOUS
  <2> QED BY SizeNat DEF IteDom
<1>2. ASSUME NEW d \in S, \A b \in S : rank[b] < rank[d] => b \in P PROVE d \in P
  <2>1. \A b \in IteDom : Size(b.g) < Size(d.g) => IteFacts(b)
    BY <1>2
  <2>2. IteFacts(d)
    <3>1. CASE d.same # FALSE
      BY <3>1 DEF IteFacts
    <3>2. CASE d.same = FALSE
      BY <3>2, <2>1, IteStep
    <3> QED BY <3>1, <3>2
  <2> QED BY <2>2
<1>3. P \in SUBSET S
  OBVIOUS
<1> HIDE DEF rank, P
<1>4. Inductive(P, S, rank)
  BY <1>1, <1>2, <1>3 DEF Inductive
<1>5. P = S
  BY <1>4, RankInduction
<1>6. IteFacts(c)
  BY <1>5 DEF P
<1> QED BY <1>6, IteEquation DEF IteFacts

-----------------------------------------------------------------------------
\* andPF: the function exists.

\* andPF evaluates only its second argument in a select of its own.
AndSecond(c) == approximated(c.y, "y" \in c.late \cap {"y"})
AndStuck(c) == Blocks(c.x, "x" \in c.late \cap {"y"}) \/ Blocks(c.y, "y" \in c.late \cap {"y"})
AndRaised(c) == SelectRaises(c.x, c.y, c.late \cap {"y"})


\* What is left when the first decides nothing, and when neither does.
AndElse(f, c) ==
    itePF_[Ite_(hp(AndSecond(c)), andAll(ha(AndSecond(c)), Rest(c.x)), f[And(Rest(c.x), Rest(AndSecond(c)), {})], {})]

AndLevel(f, c) ==
    PartialF_(andFF(hp(c.x), hp(AndSecond(c))), andFF(ha(c.x), ha(AndSecond(c))),
              itePF_[Ite_(hp(c.x), andAll(ha(c.x), Rest(AndSecond(c))), AndElse(f, c), {})])

AndBody(f, c) ==
    IF IsLevel(c.x)
    THEN IF AndStuck(c) THEN Hangs
         ELSE IF AndRaised(c) THEN Errors
         ELSE IF AndSecond(c) # unreachablePF THEN AndLevel(f, c)
         ELSE IF hp(c.x) = TrueFF THEN unreachablePF
         ELSE finitePF(FalseFF)
    ELSE c.x

\* andPF is a function that satisfies its equation, if there is one.
LEMMA AndUnfold == andPF = CHOOSE f : f = [c \in AndDom |-> AndBody(f, c)]
BY DEF andPF, AndDom, AndBody, AndLevel, AndElse, AndSecond, selectPF, AndStuck, AndRaised

\* The first argument is a level: the select waits for the second alone.
LEMMA AndArgs ==
    ASSUME NEW c \in AndDom, IsLevel(c.x)
    PROVE  /\ c.x \in PartialF /\ c.y \in PartialF /\ c.late \in Lates /\ {} \in Lates
           /\ hp(c.x) \in BoolFF /\ ha(c.x) \in BoolFF /\ Rest(c.x) \in PartialF
           /\ Size(Rest(c.x)) < Size(c.x)
           /\ ~AndRaised(c)
           /\ AndSecond(c) \in PartialF /\ AndSecond(c) = approximated(c.y, "y" \in c.late)
           /\ ~AndStuck(c) /\ AndSecond(c) # unreachablePF => IsLevel(AndSecond(c))
<1>1. /\ c.x \in PartialF /\ c.y \in PartialF /\ c.late \in Lates /\ {} \in Lates
  BY DEF AndDom, Lates
<1>2. /\ hp(c.x) \in BoolFF /\ ha(c.x) \in BoolFF /\ Rest(c.x) \in PartialF
      /\ Size(Rest(c.x)) < Size(c.x) /\ c.x # Errors
  <2>1. /\ hp(c.x) \in BoolFF /\ ha(c.x) \in BoolFF /\ Rest(c.x) \in PartialF
        /\ Size(c.x) = Size(Rest(c.x)) + 1 /\ c.x # Errors
    BY <1>1, LevelIs
  <2> QED BY <2>1, SizeNat
<1> DEFINE l == "y" \in c.late \cap {"y"}
<1>4. l \in BOOLEAN /\ l = ("y" \in c.late) /\ "x" \notin c.late \cap {"y"}
  OBVIOUS
<1>5. ~AndRaised(c)
  BY <1>2, <1>4 DEF AndRaised, SelectRaises, Fails
<1>a. AndSecond(c) = approximated(c.y, l) /\ (~AndStuck(c) => ~Blocks(c.y, l))
  BY DEF AndSecond, AndStuck
<1>7. AndSecond(c) = approximated(c.y, "y" \in c.late)
  BY <1>4, <1>a
<1> HIDE DEF l
<1>6. AndSecond(c) \in PartialF /\ (~AndStuck(c) => IsLevel(AndSecond(c)) \/ AndSecond(c) = unreachablePF)
  BY <1>1, <1>4, <1>a, Approximates
<1> QED BY <1>1, <1>2, <1>5, <1>6, <1>7

\* The arguments of the calls andPF makes are formulas.
LEMMA AndDoms ==
    ASSUME NEW c \in AndDom, IsLevel(c.x), IsLevel(AndSecond(c)), NEW f,
           f[And(Rest(c.x), Rest(AndSecond(c)), {})] \in PartialF
    PROVE  /\ hp(AndSecond(c)) \in BoolFF /\ ha(AndSecond(c)) \in BoolFF /\ Rest(AndSecond(c)) \in PartialF
           /\ andAll(ha(AndSecond(c)), Rest(c.x)) \in PartialF
           /\ andAll(ha(c.x), Rest(AndSecond(c))) \in PartialF
           /\ Ite_(hp(AndSecond(c)), andAll(ha(AndSecond(c)), Rest(c.x)), f[And(Rest(c.x), Rest(AndSecond(c)), {})], {})
                \in IteDom_
           /\ AndElse(f, c) \in PartialF
           /\ Ite_(hp(c.x), andAll(ha(c.x), Rest(AndSecond(c))), AndElse(f, c), {}) \in IteDom_
           /\ AndLevel(f, c) \in PartialF
<1> DEFINE v == AndSecond(c)
           w == f[And(Rest(c.x), Rest(v), {})]
           t == AndElse(f, c)
           s == itePF_[Ite_(hp(c.x), andAll(ha(c.x), Rest(v)), t, {})]
<1>1. hp(c.x) \in BoolFF /\ ha(c.x) \in BoolFF /\ Rest(c.x) \in PartialF /\ {} \in Lates
      /\ v \in PartialF
  BY AndArgs
<1>2. hp(v) \in BoolFF /\ ha(v) \in BoolFF /\ Rest(v) \in PartialF
  BY <1>1, LevelIs
<1>3. andAll(ha(v), Rest(c.x)) \in PartialF /\ andAll(ha(c.x), Rest(v)) \in PartialF
  <2>1. andAll(ha(v), Rest(c.x)) \in PartialF
    BY <1>1, <1>2, AndAllIs
  <2>2. andAll(ha(c.x), Rest(v)) \in PartialF
    BY <1>1, <1>2, AndAllIs
  <2> QED BY <2>1, <2>2
<1>4. Ite_(hp(v), andAll(ha(v), Rest(c.x)), w, {}) \in IteDom_
  BY <1>1, <1>2, <1>3 DEF Ite_, IteDom_
<1>5. t \in PartialF
  BY <1>4, IteEquation_ DEF AndElse
<1>6. Ite_(hp(c.x), andAll(ha(c.x), Rest(v)), t, {}) \in IteDom_
  BY <1>1, <1>3, <1>5 DEF Ite_, IteDom_
<1>7. s \in PartialF
  BY <1>6, IteEquation_
<1>8. andFF(hp(c.x), hp(v)) \in BoolFF /\ andFF(ha(c.x), ha(v)) \in BoolFF
  BY <1>1, <1>2, AndFFIs
<1>9. AndLevel(f, c) \in PartialF
  BY <1>7, <1>8, Cons DEF AndLevel
<1> QED BY <1>2, <1>3, <1>4, <1>5, <1>6, <1>9

\* The recursion of andPF is on what lies behind both.
LEMMA AndNext ==
    ASSUME NEW c \in AndDom, IsLevel(c.x), IsLevel(AndSecond(c))
    PROVE  /\ And(Rest(c.x), Rest(AndSecond(c)), {}) \in AndDom
           /\ Size(And(Rest(c.x), Rest(AndSecond(c)), {}).x) < Size(c.x)
<1>1. /\ Rest(c.x) \in PartialF /\ AndSecond(c) \in PartialF /\ Size(Rest(c.x)) < Size(c.x) /\ {} \in Lates
  BY AndArgs
<1>2. Rest(AndSecond(c)) \in PartialF
  BY <1>1, LevelIs
<1>3. And(Rest(c.x), Rest(AndSecond(c)), {}).x = Rest(c.x)
  BY DEF And
<1>4. And(Rest(c.x), Rest(AndSecond(c)), {}) \in AndDom
  BY <1>1, <1>2 DEF And, AndDom
<1> QED BY <1>1, <1>3, <1>4

\* So its values are formulas.
LEMMA AndBodyType ==
    ASSUME NEW f, NEW c \in AndDom,
           \A d \in AndDom : Size(d.x) < Size(c.x) => f[d] \in PartialF
    PROVE  AndBody(f, c) \in PartialF
<1>0. c.x \in PartialF /\ c.y \in PartialF
  BY DEF AndDom
<1>1. CASE ~IsLevel(c.x)
  BY <1>0, <1>1 DEF AndBody
<1>2. CASE IsLevel(c.x) /\ IsLevel(AndSecond(c))
  <2>1. f[And(Rest(c.x), Rest(AndSecond(c)), {})] \in PartialF
    BY <1>2, AndNext
  <2>2. AndLevel(f, c) \in PartialF
    BY <1>2, <2>1, AndDoms
  <2>3. finitePF(FalseFF) \in PartialF
    BY BoolFFs, Tails, Cons DEF finitePF
  <2> QED BY <1>2, <2>2, <2>3, Tails DEF AndBody
<1>3. CASE IsLevel(c.x) /\ ~IsLevel(AndSecond(c))
  <2>1. AndStuck(c) \/ AndSecond(c) = unreachablePF
    BY <1>3, AndArgs
  <2>2. finitePF(FalseFF) \in PartialF
    BY BoolFFs, Tails, Cons DEF finitePF
  <2> QED BY <1>3, <2>1, <2>2, Tails DEF AndBody
<1> QED BY <1>1, <1>2, <1>3

\* So there is such a function: andPF is total.
LEMMA AndEquation ==
    andPF \in [AndDom -> PartialF] /\ \A c \in AndDom : andPF[c] = AndBody(andPF, c)
<1> DEFINE S == AndDom
           T == PartialF
           rank == [c \in S |-> Size(c.x)]
           G == [c \in S |-> [f \in [S -> T] |-> AndBody(f, c)]]
<1>1. T # {}
  BY Tails
<1>2. rank \in [S -> Nat]
  <2> SUFFICES ASSUME NEW c \in S PROVE Size(c.x) \in Nat
    OBVIOUS
  <2> QED BY SizeNat DEF AndDom
<1>3. G \in [S -> [[S -> T] -> T]]
  <2>1. \A c \in S : \A f \in [S -> T] : AndBody(f, c) \in T
    BY AndBodyType
  <2> QED BY <2>1
<1>4. ASSUME NEW c \in S, NEW f \in [S -> T], NEW g \in [S -> T],
             \A y \in S : rank[y] < rank[c] => f[y] = g[y]
      PROVE  G[c][f] = G[c][g]
  <2>1. AndBody(f, c) = AndBody(g, c)
    <3>1. CASE IsLevel(c.x) /\ IsLevel(AndSecond(c))
      <4> DEFINE d == And(Rest(c.x), Rest(AndSecond(c)), {})
      <4>1. d \in S /\ Size(d.x) < Size(c.x)
        BY <3>1, AndNext
      <4>3. rank[d] < rank[c]
        BY <4>1
      <4>4. f[d] = g[d]
        BY <4>1, <4>3, <1>4
      <4>5. AndLevel(f, c) = AndLevel(g, c)
        BY <4>4 DEF AndLevel, AndElse
      <4> QED BY <4>5 DEF AndBody
    <3>2. CASE ~IsLevel(c.x)
      BY <3>2 DEF AndBody
    <3>3. CASE IsLevel(c.x) /\ ~IsLevel(AndSecond(c))
      <4>1. AndStuck(c) \/ AndSecond(c) = unreachablePF
        BY <3>3, AndArgs
      <4> QED BY <4>1 DEF AndBody
    <3> QED BY <3>1, <3>2, <3>3
  <2> QED BY <2>1
<1>5. \A f \in [S -> T] : [c \in S |-> G[c][f]] = [c \in S |-> AndBody(f, c)]
  OBVIOUS
<1>11. ASSUME NEW c \in S, NEW f, \A d \in S : rank[d] < rank[c] => f[d] \in T
       PROVE  AndBody(f, c) \in T
  BY <1>11, AndBodyType
<1> HIDE DEF S, T, rank, G
<1>6. Descends(S, T, rank, G)
  BY <1>2, <1>3, <1>4 DEF Descends
<1>7. PICK f \in [S -> T] : Solves(f, S, G)
  BY <1>1, <1>6, Recursion
<1>8. f = [c \in S |-> AndBody(f, c)]
  BY <1>5, <1>7 DEF Solves
<1>9. andPF = [c \in S |-> AndBody(andPF, c)]
  BY <1>8, AndUnfold DEF S
<1>10. \A c \in S : andPF[c] = AndBody(andPF, c)
  BY <1>9
<1>12. \A c \in S : andPF[c] \in T
  <2> DEFINE P == {c \in S : andPF[c] \in T}
  <2>1. ASSUME NEW c \in S, \A d \in S : rank[d] < rank[c] => d \in P PROVE c \in P
    <3>1. AndBody(andPF, c) \in T
      BY <2>1, <1>11
    <3> QED BY <3>1, <1>10
  <2>2. P \in SUBSET S
    OBVIOUS
  <2> HIDE DEF P
  <2>3. Inductive(P, S, rank)
    BY <2>1, <2>2, <1>2 DEF Inductive
  <2>4. P = S
    BY <2>3, RankInduction
  <2> QED BY <2>4 DEF P
<1>13. andPF \in [S -> T]
  BY <1>9, <1>12
<1> QED BY <1>10, <1>13 DEF S, T

-----------------------------------------------------------------------------
\* andPF: what it keeps.

\* What andPF keeps: proper levels and end; it is unreachable only if an
\* argument is; it tells what the second does where the first holds, is undefined
\* where the first is, and does not hold where the first fails.
AndFFs(c) == FFsOk(c.x) /\ FFsOk(c.y) => FFsOk(andPF[c])
AndEnds(c) == Good(c.x) /\ Good(c.y) /\ (c.y = unreachablePF => "y" \notin c.late) => EndsCovered(andPF[c])
AndReached(c) == andPF[c] = unreachablePF => c.x = unreachablePF \/ c.y = unreachablePF
AndHolds(c) ==
    \A m \in Assignment, d \in Verdicts :
      /\ FFsOk(c.x) /\ FFsOk(c.y) /\ Tells(c.x, m, "holds") /\ Tells(c.y, m, d)
      => Tells(andPF[c], m, d)
AndUndefined(c) ==
    \A m \in Assignment :
      /\ FFsOk(c.x) /\ FFsOk(c.y) /\ Says(c.x, m) = "undefined" /\ Says(c.y, m) # "unreachable"
      => Says(andPF[c], m) = "undefined"
AndFails(c) ==
    \A m \in Assignment :
      /\ FFsOk(c.x) /\ FFsOk(c.y) /\ Says(c.x, m) = "fails" /\ Says(c.y, m) # "unreachable"
      => Says(andPF[c], m) \in {"fails", "undefined"}
AndShrinks(c) ==
    c.late = {} /\ FFsOk(c.x) /\ FFsOk(c.y) /\ Narrows(c.x) /\ Narrows(c.y) =>
      /\ Narrows(andPF[c])
      /\ c.y # unreachablePF => Cover(andPF[c]) \subseteq Cover(c.x)

AndFacts(c) == /\ AndFFs(c) /\ AndEnds(c) /\ AndReached(c)
               /\ AndHolds(c) /\ AndUndefined(c) /\ AndFails(c) /\ AndShrinks(c)

\* One call of andPF, if those it makes are right.
LEMMA AndStep ==
    ASSUME NEW c \in AndDom, \A d \in AndDom : Size(d.x) < Size(c.x) => AndFacts(d)
    PROVE  AndFacts(c)
<1> DEFINE x == c.x
           y == c.y
           r == andPF[c]
           v == AndSecond(c)
           ly == "y" \in c.late
<1>1. x \in PartialF /\ y \in PartialF /\ ly \in BOOLEAN
  BY DEF AndDom
<1>2. r = AndBody(andPF, c)
  BY AndEquation
<1> USE DEF AndFacts
<1>3. CASE ~IsLevel(x)
  <2>1. r = x
    BY <1>2, <1>3 DEF AndBody
  <2>2. AndHolds(c)
    <3> SUFFICES ASSUME NEW m \in Assignment, NEW d \in Verdicts, Tells(x, m, "holds")
                 PROVE  Tells(r, m, d)
      BY DEF AndHolds
    <3>1. x = Hangs
      BY <1>1, <1>3, TellsIs DEF Verdicts
    <3> QED BY <3>1, <2>1, TailTells
  <2>3. AndUndefined(c)
    BY <2>1 DEF AndUndefined
  <2>4. AndFails(c)
    <3>1. \A m : Says(x, m) # "fails"
      BY <1>1, <1>3, SaysTail
    <3> QED BY <3>1 DEF AndFails
  <2> QED BY <2>1, <2>2, <2>3, <2>4 DEF AndFFs, AndEnds, AndReached, AndShrinks, Good
<1>4. CASE IsLevel(x) /\ AndStuck(c)
  <2>1. r = Hangs
    BY <1>2, <1>4 DEF AndBody
  <2>2. FFsOk(Hangs) /\ EndsCovered(Hangs) /\ Narrows(Hangs) /\ Cover(Hangs) = {} /\ Hangs # unreachablePF
    BY TailProper, Tails, Covers
  <2>3. AndFFs(c) /\ AndEnds(c) /\ AndReached(c) /\ AndShrinks(c)
    BY <2>1, <2>2 DEF AndFFs, AndEnds, AndReached, AndShrinks
  <2>4. AndHolds(c)
    BY <2>1, TailTells DEF AndHolds
  <2>5. \A m : Says(Hangs, m) = "undefined"
    BY Tails, SaysTail
  <2>6. AndUndefined(c) /\ AndFails(c)
    BY <2>1, <2>5 DEF AndUndefined, AndFails
  <2> QED BY <2>3, <2>4, <2>6
<1>v. IsLevel(x) =>
      /\ v \in PartialF /\ v = approximated(y, ly) /\ ~AndRaised(c)
      /\ ~AndStuck(c) /\ v # unreachablePF => IsLevel(v)
  BY AndArgs
<1> HIDE DEF r, v, ly, x, y
<1>u. IsLevel(x) =>
      /\ v.end = y.end
      /\ \A m : Says(v, m) = Says(y, m)
      /\ v = unreachablePF => y = unreachablePF
      /\ FFsOk(y) => FFsOk(v)
      /\ EndsCovered(y) /\ (y = unreachablePF => ~ly) => EndsCovered(v)
      /\ ~ly => (Narrows(y) => Narrows(v)) /\ Cover(v) = Cover(y)
  BY <1>1, <1>v, Approximates
<1>5. CASE IsLevel(x) /\ ~AndStuck(c) /\ v = unreachablePF
  <2>1. y = unreachablePF
    BY <1>5, <1>u
  <2>2. r = unreachablePF \/ r = finitePF(FalseFF)
    BY <1>2, <1>5, <1>v DEF AndBody, v, x
  <2>3. FFsOk(unreachablePF) /\ EndsCovered(unreachablePF) /\ Narrows(unreachablePF) /\ Cover(unreachablePF) = Assignment
    BY TailProper, Tails, Covers
  <2>4. FFsOk(finitePF(FalseFF)) /\ EndsCovered(finitePF(FalseFF)) /\ Narrows(finitePF(FalseFF))
    <3> DEFINE f == PartialF_(TrueFF, FalseFF, unreachablePF)
    <3>1. f = PartialF_(TrueFF, FalseFF, unreachablePF)
      OBVIOUS
    <3> HIDE DEF f
    <3>2. FFsOk(f) /\ EndsCovered(f) /\ Narrows(f)
      BY <3>1, <2>3, BoolFFs, Tails, NewLevel
    <3> QED BY <3>1, <3>2 DEF finitePF
  <2>5. \A m : Says(y, m) = "unreachable" /\ ~Tells(y, m, "holds") /\ ~Tells(y, m, "fails") /\ ~Tells(y, m, "undefined")
    BY <2>1, Tails, SaysTail DEF Tells
  <2> QED BY <2>1, <2>2, <2>3, <2>4, <2>5
          DEF AndFFs, AndEnds, AndReached, AndHolds, AndUndefined, AndFails, AndShrinks, Verdicts, r, x, y
<1>6. CASE IsLevel(x) /\ ~AndStuck(c) /\ v # unreachablePF
  <2> DEFINE xp == hp(x)
             xa == ha(x)
             xr == Rest(x)
             vp == hp(v)
             va == ha(v)
             vr == Rest(v)
             iw == And(xr, vr, {})
             w == andPF[iw]
             B == andAll(va, xr)
             it == Ite_(vp, B, w, {})
             t == itePF_[it]
             A == andAll(xa, vr)
             is == Ite_(xp, A, t, {})
             s == itePF_[is]
             rp == andFF(xp, vp)
             ra == andFF(xa, va)
  <2>1. IsLevel(x) /\ IsLevel(v)
    BY <1>6, <1>v
  <2>2. /\ iw \in AndDom /\ Size(iw.x) < Size(c.x)
    BY <2>1, AndNext DEF x, v
  <2>3. w \in PartialF /\ AndFacts(iw)
    BY <2>2, AndEquation
  <2>4. /\ A \in PartialF /\ B \in PartialF /\ it \in IteDom_ /\ t = AndElse(andPF, c)
        /\ t \in PartialF /\ is \in IteDom_
    BY <2>1, <2>3, AndDoms DEF x, v, AndElse
  <2>5. s \in PartialF
    BY <2>4, IteEquation_
  <2>6. r = PartialF_(rp, ra, s)
    BY <1>2, <1>6, <1>v, <2>4 DEF AndBody, AndLevel, AndElse, v, x
  <2>7. /\ iw.x = xr /\ iw.y = vr /\ iw.late = {}
        /\ it.p = vp /\ it.x = B /\ it.y = w /\ it.late = {}
        /\ is.p = xp /\ is.x = A /\ is.y = t /\ is.late = {}
    BY DEF Ite_, And
  <2>x. /\ xp \in BoolFF /\ xa \in BoolFF /\ xr \in PartialF /\ xr.end = x.end
        /\ FFsOk(x) <=> /\ xp # Unreachable_BoolFF
                        /\ (xa = Unreachable_BoolFF => xp = FalseFF) /\ FFsOk(xr)
        /\ EndsCovered(x) <=> (xr = unreachablePF => xp.sat = Assignment) /\ EndsCovered(xr)
        /\ Narrows(x) <=> Cover(xr) \subseteq xp.sat /\ Narrows(xr)
        /\ Cover(x) = xp.sat
        /\ \A m : Says(x, m) = IF m \in xp.sat THEN IF m \in xa.sat THEN "holds" ELSE "fails"
                               ELSE Says(xr, m)
    BY <1>1, <2>1, LevelProper
  <2>v. /\ vp \in BoolFF /\ va \in BoolFF /\ vr \in PartialF /\ vr.end = v.end
        /\ FFsOk(v) <=> /\ vp # Unreachable_BoolFF
                        /\ (va = Unreachable_BoolFF => vp = FalseFF) /\ FFsOk(vr)
        /\ EndsCovered(v) <=> (vr = unreachablePF => vp.sat = Assignment) /\ EndsCovered(vr)
        /\ Narrows(v) <=> Cover(vr) \subseteq vp.sat /\ Narrows(vr)
        /\ Cover(v) = vp.sat
        /\ \A m : Says(v, m) = IF m \in vp.sat THEN IF m \in va.sat THEN "holds" ELSE "fails"
                               ELSE Says(vr, m)
    BY <1>v, <2>1, LevelProper
  <2>A. /\ A.end = vr.end /\ Cover(A) = Cover(vr) /\ (A = unreachablePF <=> vr = unreachablePF)
        /\ (EndsCovered(vr) => EndsCovered(A)) /\ (Narrows(vr) => Narrows(A))
        /\ xa # Unreachable_BoolFF /\ FFsOk(vr) => FFsOk(A)
        /\ \A m : Says(A, m) = IF Says(vr, m) = "holds" /\ m \notin xa.sat THEN "fails" ELSE Says(vr, m)
    BY <2>x, <2>v, AndAllIs
  <2>B. /\ B.end = xr.end /\ Cover(B) = Cover(xr) /\ (B = unreachablePF <=> xr = unreachablePF)
        /\ (EndsCovered(xr) => EndsCovered(B)) /\ (Narrows(xr) => Narrows(B))
        /\ va # Unreachable_BoolFF /\ FFsOk(xr) => FFsOk(B)
        /\ \A m : Says(B, m) = IF Says(xr, m) = "holds" /\ m \notin va.sat THEN "fails" ELSE Says(xr, m)
    BY <2>x, <2>v, AndAllIs
  <2>p. rp \in BoolFF /\ rp.sat = xp.sat \cap vp.sat
        /\ (rp = Unreachable_BoolFF => xp = Unreachable_BoolFF \/ vp = Unreachable_BoolFF)
        /\ (xp = FalseFF \/ vp = FalseFF => rp = FalseFF)
    BY <2>x, <2>v, AndFFIs
  <2>a. ra \in BoolFF /\ ra.sat = xa.sat \cap va.sat
        /\ (ra = Unreachable_BoolFF => xa = Unreachable_BoolFF \/ va = Unreachable_BoolFF)
    BY <2>x, <2>v, AndFFIs
  <2>s. s \in PartialF /\ rp \in BoolFF /\ ra \in BoolFF
    BY <2>5, <2>p, <2>a
  <2>F. FalseFF.sat = {} /\ FalseFF # Unreachable_BoolFF /\ FalseFF # TrueFF /\ TrueFF.sat = Assignment
        /\ xp.sat \in SUBSET Assignment /\ vp.sat \in SUBSET Assignment
    BY <2>x, <2>v, BoolFFs
  <2>c. Cover(xr) \in SUBSET Assignment /\ Cover(vr) \in SUBSET Assignment /\ Cover(w) \in SUBSET Assignment
        /\ Cover(t) \in SUBSET Assignment
    BY <2>x, <2>v, <2>3, <2>4, Covers
  <2> HIDE DEF s, A, B, w, t, iw, it, is, rp, ra, xp, xa, xr, vp, va, vr
  <2>r. /\ r \in PartialF /\ r # unreachablePF /\ r.end = s.end
        /\ FFsOk(r) <=> /\ rp # Unreachable_BoolFF
                        /\ (ra = Unreachable_BoolFF => rp = FalseFF) /\ FFsOk(s)
        /\ EndsCovered(r) <=> (s = unreachablePF => rp.sat = Assignment) /\ EndsCovered(s)
        /\ Narrows(r) <=> Cover(s) \subseteq rp.sat /\ Narrows(s)
        /\ Cover(r) = rp.sat
        /\ \A m : Says(r, m) = IF m \in rp.sat THEN IF m \in ra.sat THEN "holds" ELSE "fails"
                               ELSE Says(s, m)
    BY <2>6, <2>s, NewLevel
  \* A guard that is false drops its branch, whatever the branch is.
  <2>f. /\ xp = FalseFF => s = t
        /\ vp = FalseFF => t = w
    BY <2>4, <2>7, <2>F, IteEquation_ DEF IteBody_, s, t
  <2>T. vp # Unreachable_BoolFF =>
          IteFFs_(it) /\ IteEnds_(it) /\ IteReached_(it) /\ IteTells_(it) /\ IteShrinks_(it)
    BY <2>4, <2>7, IteIs_
  <2>S. xp # Unreachable_BoolFF =>
          IteFFs_(is) /\ IteEnds_(is) /\ IteReached_(is) /\ IteTells_(is) /\ IteShrinks_(is)
    BY <2>4, <2>7, IteIs_
  <2>o. LateHarmless(it) /\ LateHarmless(is) /\ Swallowed(B, w, {}) /\ Swallowed(A, t, {})
    BY <2>7 DEF LateHarmless, Swallowed
  <2>8. ASSUME FFsOk(x), FFsOk(y)
        PROVE  /\ FFsOk(v) /\ FFsOk(xr) /\ FFsOk(vr) /\ FFsOk(w) /\ FFsOk(t) /\ FFsOk(s)
               /\ xp # Unreachable_BoolFF /\ vp # Unreachable_BoolFF
               /\ xp # FalseFF => FFsOk(A) /\ xa # Unreachable_BoolFF
               /\ vp # FalseFF => FFsOk(B) /\ va # Unreachable_BoolFF
    <3>1. FFsOk(v) /\ FFsOk(xr) /\ FFsOk(vr)
      BY <2>8, <1>u, <2>1, <2>x, <2>v
    <3>2. FFsOk(w)
      BY <3>1, <2>3, <2>7 DEF AndFFs, w
    <3>3. xp # Unreachable_BoolFF /\ vp # Unreachable_BoolFF
      BY <3>1, <2>8, <2>x, <2>v
    <3>4. /\ xp # FalseFF => FFsOk(A) /\ xa # Unreachable_BoolFF
          /\ vp # FalseFF => FFsOk(B) /\ va # Unreachable_BoolFF
      BY <3>1, <2>8, <2>x, <2>v, <2>A, <2>B
    <3>5. FFsOk(t)
      BY <3>2, <3>3, <3>4, <2>f, <2>T, <2>7 DEF IteFFs_, t
    <3>6. FFsOk(s)
      BY <3>5, <3>3, <3>4, <2>f, <2>S, <2>7 DEF IteFFs_, s
    <3> QED BY <3>1, <3>2, <3>3, <3>4, <3>5, <3>6
  <2>9. AndFFs(c)
    <3> SUFFICES ASSUME FFsOk(x), FFsOk(y) PROVE FFsOk(r)
      BY DEF AndFFs, x, y, r
    <3> QED BY <2>8, <2>p, <2>a, <2>r
  <2>10. AndReached(c)
    BY <2>r DEF AndReached, r
  \* What t and s tell under one assignment.
  <2>11. ASSUME NEW m \in Assignment, NEW d \in Verdicts, FFsOk(x), FFsOk(y)
         PROVE  /\ m \in vp.sat /\ Tells(B, m, d) => Tells(t, m, d)
                /\ m \notin vp.sat /\ Tells(w, m, d) => Tells(t, m, d)
                /\ m \in xp.sat /\ Tells(A, m, d) => Tells(s, m, d)
                /\ m \notin xp.sat /\ Tells(t, m, d) => Tells(s, m, d)
    <3>1. m \in vp.sat /\ Tells(B, m, d) => Tells(t, m, d)
      BY <2>11, <2>8, <2>F, <2>T, <2>7, <2>o DEF IteTells_, t
    <3>2. m \notin vp.sat /\ Tells(w, m, d) => Tells(t, m, d)
      BY <2>11, <2>8, <2>F, <2>T, <2>7, <2>o DEF IteTells_, t
    <3>3. m \in xp.sat /\ Tells(A, m, d) => Tells(s, m, d)
      BY <2>11, <2>8, <2>F, <2>S, <2>7, <2>o DEF IteTells_, s
    <3>4. m \notin xp.sat /\ Tells(t, m, d) => Tells(s, m, d)
      BY <2>11, <2>8, <2>F, <2>S, <2>7, <2>o DEF IteTells_, s
    <3> QED BY <3>1, <3>2, <3>3, <3>4
  <2>12. AndHolds(c)
    <3> SUFFICES ASSUME NEW m \in Assignment, NEW d \in Verdicts, FFsOk(x), FFsOk(y),
                        Tells(x, m, "holds"), Tells(y, m, d)
                 PROVE  Tells(r, m, d)
      BY DEF AndHolds, x, y, r
    <3>1. Tells(v, m, d)
      BY <1>u, <2>1 DEF Tells
    <3>2. CASE m \in xp.sat
      <4>1. m \in xa.sat
        <5>1. Says(x, m) \in {"holds", "fails"}
          BY <3>2, <2>x
        <5>2. Says(x, m) = "holds"
          BY <5>1, <1>1, TellsIs DEF Verdicts
        <5> QED BY <5>2, <3>2, <2>x
      <4>2. CASE m \in vp.sat
        <5>1. Says(v, m) = IF m \in va.sat THEN "holds" ELSE "fails"
          BY <4>2, <2>v
        <5>2. Says(v, m) = d
          BY <5>1, <3>1 DEF Tells
        <5>3. Says(r, m) = d
          BY <5>1, <5>2, <4>1, <4>2, <3>2, <2>p, <2>a, <2>r
        <5> QED BY <5>3 DEF Tells
      <4>3. CASE m \notin vp.sat
        <5>1. Tells(vr, m, d)
          BY <4>3, <3>1, <2>v DEF Tells
        <5>2. Tells(A, m, d)
          BY <5>1, <4>1, <2>A DEF Tells
        <5>3. Tells(s, m, d)
          BY <5>2, <3>2, <2>11
        <5>4. Says(r, m) = Says(s, m)
          BY <4>3, <2>p, <2>r
        <5> QED BY <5>3, <5>4, <2>r DEF Tells
      <4> QED BY <4>2, <4>3
    <3>3. CASE m \notin xp.sat
      <4>1. Tells(xr, m, "holds") /\ Says(r, m) = Says(s, m)
        BY <3>3, <2>x, <2>p, <2>r DEF Tells
      <4>2. CASE m \in vp.sat
        <5>1. Says(v, m) = IF m \in va.sat THEN "holds" ELSE "fails"
          BY <4>2, <2>v
        <5>2. Says(v, m) = d
          BY <5>1, <3>1 DEF Tells
        <5>3. Tells(B, m, d)
          BY <5>1, <5>2, <4>1, <2>B DEF Tells
        <5>4. Tells(s, m, d)
          BY <5>3, <4>2, <3>3, <2>11
        <5> QED BY <5>4, <4>1, <2>r DEF Tells
      <4>3. CASE m \notin vp.sat
        <5>1. Tells(vr, m, d)
          BY <4>3, <3>1, <2>v DEF Tells
        <5>2. Tells(w, m, d)
          BY <5>1, <4>1, <2>3, <2>7, <2>8 DEF AndHolds, w
        <5>3. Tells(s, m, d)
          BY <5>2, <4>3, <3>3, <2>11
        <5> QED BY <5>3, <4>1, <2>r DEF Tells
      <4> QED BY <4>2, <4>3
    <3> QED BY <3>2, <3>3
  <2>n. "undefined" \in Verdicts /\ "fails" \in Verdicts
        /\ (\A f, m : Tells(f, m, "undefined") <=> Says(f, m) = "undefined")
        /\ (\A f, m : Tells(f, m, "fails") => Says(f, m) \in {"fails", "undefined"})
        /\ (\A f, m : Says(f, m) = "fails" => Tells(f, m, "fails"))
    BY DEF Verdicts, Tells
  <2>13. AndUndefined(c)
    <3> SUFFICES ASSUME NEW m \in Assignment, FFsOk(x), FFsOk(y),
                        Says(x, m) = "undefined", Says(y, m) # "unreachable"
                 PROVE  Says(r, m) = "undefined"
      BY DEF AndUndefined, x, y, r
    <3>1. m \notin xp.sat /\ Says(xr, m) = "undefined" /\ Says(r, m) = Says(s, m)
      BY <2>x, <2>p, <2>r
    <3>2. CASE m \in vp.sat
      <4>1. Tells(B, m, "undefined")
        BY <3>1, <2>B, <2>n
      <4> QED BY <4>1, <3>1, <3>2, <2>n, <2>11
    <3>3. CASE m \notin vp.sat
      <4>1. Says(vr, m) # "unreachable"
        BY <3>3, <2>v, <1>u, <2>1
      <4>2. Says(w, m) = "undefined"
        BY <4>1, <3>1, <2>3, <2>7, <2>8 DEF AndUndefined, w
      <4> QED BY <4>2, <3>1, <3>3, <2>n, <2>11
    <3> QED BY <3>2, <3>3
  <2>14. AndFails(c)
    <3> SUFFICES ASSUME NEW m \in Assignment, FFsOk(x), FFsOk(y),
                        Says(x, m) = "fails", Says(y, m) # "unreachable"
                 PROVE  Says(r, m) \in {"fails", "undefined"}
      BY DEF AndFails, x, y, r
    <3>0. \A f \in {A, B, w, t, s} : Says(f, m) \in {"fails", "undefined"} =>
             \E d \in {"fails", "undefined"} : Tells(f, m, d)
      BY <2>n
    <3>1. CASE m \in xp.sat
      <4>1. m \notin xa.sat
        BY <3>1, <2>x
      <4>2. CASE m \in vp.sat
        BY <4>1, <4>2, <3>1, <2>p, <2>a, <2>r
      <4>3. CASE m \notin vp.sat
        <5>1. Says(vr, m) # "unreachable" /\ Says(r, m) = Says(s, m)
          BY <4>3, <2>v, <1>u, <2>1, <2>p, <2>r
        <5>2. Says(vr, m) \in {"unreachable", "holds", "fails", "undefined"}
          BY DEF Says, Denotes
        <5>3. Says(A, m) \in {"fails", "undefined"}
          BY <5>1, <5>2, <4>1, <2>A
        <5>4. PICK d \in {"fails", "undefined"} : Tells(A, m, d)
          BY <5>3, <3>0
        <5>5. Tells(s, m, d)
          BY <5>4, <3>1, <2>n, <2>11
        <5> QED BY <5>1, <5>5, <2>n
      <4> QED BY <4>2, <4>3
    <3>2. CASE m \notin xp.sat
      <4>1. Says(xr, m) = "fails" /\ Says(r, m) = Says(s, m)
        BY <3>2, <2>x, <2>p, <2>r
      <4>2. CASE m \in vp.sat
        <5>1. Tells(B, m, "fails")
          BY <4>1, <2>B, <2>n
        <5>2. Tells(s, m, "fails")
          BY <5>1, <4>2, <3>2, <2>n, <2>11
        <5> QED BY <5>2, <4>1, <2>n
      <4>3. CASE m \notin vp.sat
        <5>1. Says(vr, m) # "unreachable"
          BY <4>3, <2>v, <1>u, <2>1
        <5>2. Says(w, m) \in {"fails", "undefined"}
          BY <5>1, <4>1, <2>3, <2>7, <2>8 DEF AndFails, w
        <5>3. PICK d \in {"fails", "undefined"} : Tells(w, m, d)
          BY <5>2, <3>0
        <5>4. Tells(s, m, d)
          BY <5>3, <4>3, <3>2, <2>n, <2>11
        <5> QED BY <5>4, <4>1, <2>n
      <4> QED BY <4>2, <4>3
    <3> QED BY <3>1, <3>2
  <2>15. AndEnds(c)
    <3> SUFFICES ASSUME Good(x), Good(y), y = unreachablePF => ~ly PROVE EndsCovered(r)
      BY DEF AndEnds, x, y, r, ly
    <3>1. /\ FFsOk(x) /\ FFsOk(y) /\ EndsCovered(v) /\ EndsCovered(x) /\ EndsCovered(xr) /\ EndsCovered(vr)
          /\ xr = unreachablePF => xp.sat = Assignment
          /\ vr = unreachablePF => vp.sat = Assignment
      BY <1>u, <2>1, <2>x, <2>v DEF Good
    <3>2. EndsCovered(w)
      BY <3>1, <2>8, <2>3, <2>7 DEF AndEnds, Good, w
    <3>3. EndsCovered(t)
      <4>1. vp # FalseFF => EndsCovered(t)
        BY <3>1, <3>2, <2>8, <2>B, <2>T, <2>7, <2>o DEF IteEnds_, Good, t
      <4> QED BY <4>1, <3>2, <2>f
    <3>4. EndsCovered(s)
      <4>1. xp # FalseFF => EndsCovered(s)
        BY <3>1, <3>3, <2>8, <2>A, <2>S, <2>7, <2>o DEF IteEnds_, Good, s
      <4> QED BY <4>1, <3>3, <2>f
    <3>5. w = unreachablePF => xr = unreachablePF \/ vr = unreachablePF
      BY <2>3, <2>7 DEF AndReached, w
    <3>6. t = unreachablePF => xp.sat = Assignment \/ (vp = FalseFF /\ vp.sat = Assignment)
      <4>1. vp # FalseFF /\ t = unreachablePF => B = unreachablePF
        BY <3>1, <2>8, <2>T, <2>7, <2>o DEF IteReached_, t
      <4> QED BY <4>1, <3>1, <3>5, <2>B, <2>f
    <3>7. t = unreachablePF => xp.sat = Assignment
      BY <3>6, <2>F, SearchAssumption
    <3>8. s = unreachablePF => rp.sat = Assignment
      <4> SUFFICES ASSUME s = unreachablePF PROVE xp.sat = Assignment /\ vp.sat = Assignment
        BY <2>p
      <4>1. xp # FalseFF
        BY <3>7, <2>f, <2>F, SearchAssumption
      <4>2. A = unreachablePF /\ (xp = TrueFF \/ t = unreachablePF)
        BY <4>1, <3>1, <2>8, <2>S, <2>7, <2>o DEF IteReached_, s
      <4> QED BY <4>2, <3>1, <3>7, <2>A, <2>F
    <3> QED BY <3>4, <3>8, <2>r
  <2>16. AndShrinks(c)
    <3> SUFFICES ASSUME c.late = {}, FFsOk(x), FFsOk(y), Narrows(x), Narrows(y)
                 PROVE  Narrows(r) /\ Cover(r) \subseteq Cover(x)
      BY DEF AndShrinks, x, y, r
    <3>1. ~ly
      BY DEF ly
    <3>2. /\ Narrows(v) /\ Narrows(xr) /\ Narrows(vr) /\ Cover(xr) \subseteq xp.sat /\ Cover(vr) \subseteq vp.sat
          /\ vr = unreachablePF => vp.sat = Assignment
      BY <3>1, <1>u, <2>1, <2>x, <2>v DEF Narrows
    <3>3. Narrows(w) /\ Cover(w) \subseteq xp.sat \cup vp.sat
      <4>1. Narrows(w) /\ (vr # unreachablePF => Cover(w) \subseteq Cover(xr))
        BY <3>2, <2>3, <2>7, <2>8 DEF AndShrinks, w
      <4> QED BY <4>1, <3>2, <2>c
    <3>4. Narrows(t) /\ Cover(t) \subseteq xp.sat
      <4>1. CASE vp = FalseFF
        BY <4>1, <3>3, <2>f, <2>F
      <4>2. CASE vp # FalseFF
        <5>1. Narrows(t) /\ Cover(t) \subseteq (vp.sat \cap Cover(B)) \cup (Cover(w) \ vp.sat)
          BY <4>2, <3>2, <3>3, <2>8, <2>B, <2>T, <2>7 DEF IteShrinks_, t
        <5> QED BY <5>1, <3>2, <3>3, <2>B
      <4> QED BY <4>1, <4>2
    <3>5. Narrows(s) /\ Cover(s) \subseteq rp.sat
      <4>1. CASE xp = FalseFF
        BY <4>1, <3>4, <2>f, <2>F, <2>p
      <4>2. CASE xp # FalseFF
        <5>1. Narrows(s) /\ Cover(s) \subseteq (xp.sat \cap Cover(A)) \cup (Cover(t) \ xp.sat)
          BY <4>2, <3>2, <3>4, <2>8, <2>A, <2>S, <2>7 DEF IteShrinks_, s
        <5> QED BY <5>1, <3>2, <3>4, <2>A, <2>p
      <4> QED BY <4>1, <4>2
    <3> QED BY <3>5, <2>r, <2>p, <2>x
  <2> QED BY <2>9, <2>10, <2>12, <2>13, <2>14, <2>15, <2>16
<1> QED BY <1>3, <1>4, <1>5, <1>6

\* andPF: the conjunction of partial formulas tells what the second does where
\* the first holds, does not hold where the first fails, and is undefined where
\* the first is.
THEOREM AndIs == \A c \in AndDom : andPF[c] \in PartialF /\ AndFacts(c)
<1> DEFINE S == AndDom
           rank == [d \in S |-> Size(d.x)]
           P == {d \in S : AndFacts(d)}
<1>1. rank \in [S -> Nat]
  <2> SUFFICES ASSUME NEW d \in S PROVE Size(d.x) \in Nat
    OBVIOUS
  <2> QED BY SizeNat DEF AndDom
<1>2. ASSUME NEW d \in S, \A b \in S : rank[b] < rank[d] => b \in P PROVE d \in P
  <2>1. \A b \in AndDom : Size(b.x) < Size(d.x) => AndFacts(b)
    BY <1>2
  <2>2. AndFacts(d)
    BY <2>1, AndStep
  <2> QED BY <2>2
<1>3. P \in SUBSET S
  OBVIOUS
<1> HIDE DEF rank, P
<1>4. Inductive(P, S, rank)
  BY <1>1, <1>2, <1>3 DEF Inductive
<1>5. P = S
  BY <1>4, RankInduction
<1> QED BY <1>5, AndEquation DEF P

-----------------------------------------------------------------------------
\* Literals and decision trees.

\* A good formula that is not unreachable itself is so under no assignment.
LEMMA Reached ==
    ASSUME NEW f \in PartialF, EndsCovered(f), f # unreachablePF, NEW m \in Assignment
    PROVE  Says(f, m) # "unreachable"
<1> DEFINE ok(x) == EndsCovered(x) /\ x # unreachablePF => Says(x, m) # "unreachable"
           P == {x \in PartialF : ok(x)}
<1>1. unreachablePF \in P /\ Errors \in P /\ Hangs \in P
  BY Tails, SaysTail
<1>2. ASSUME NEW p \in BoolFF, NEW a \in BoolFF, NEW r \in P PROVE PartialF_(p, a, r) \in P
  <2> DEFINE x == PartialF_(p, a, r)
  <2>1. r \in PartialF /\ ok(r) /\ x = PartialF_(p, a, r)
    OBVIOUS
  <2> HIDE DEF x
  <2>2. /\ x \in PartialF /\ (EndsCovered(x) <=> (r = unreachablePF => p.sat = Assignment) /\ EndsCovered(r))
        /\ Says(x, m) = IF m \in p.sat THEN IF m \in a.sat THEN "holds" ELSE "fails" ELSE Says(r, m)
    BY <2>1, NewLevel
  <2>3. ok(x)
    BY <2>1, <2>2
  <2> QED BY <2>2, <2>3 DEF x
<1>3. P \in SUBSET PartialF /\ \A p, a \in BoolFF : \A r \in P : PartialF_(p, a, r) \in P
  BY <1>2
<1> HIDE DEF P
<1>4. P = PartialF
  BY <1>1, <1>3, FormulaInduction
<1> QED BY <1>4 DEF P

\* A formula of one level that decides everything.
LEMMA Finite ==
    ASSUME NEW a \in BoolFF, a # Unreachable_BoolFF, NEW f, f = finitePF(a)
    PROVE  /\ f \in PartialF /\ f # unreachablePF /\ Good(f) /\ Narrows(f)
           /\ \A m \in Assignment : Says(f, m) = IF m \in a.sat THEN "holds" ELSE "fails"
<1>1. f = PartialF_(TrueFF, a, unreachablePF)
  BY DEF finitePF
<1>2. /\ TrueFF \in BoolFF /\ TrueFF.sat = Assignment /\ TrueFF # Unreachable_BoolFF
      /\ unreachablePF \in PartialF /\ FFsOk(unreachablePF) /\ EndsCovered(unreachablePF)
      /\ Narrows(unreachablePF) /\ Cover(unreachablePF) = Assignment
  BY BoolFFs, Tails, TailProper, Covers
<1>3. /\ f \in PartialF /\ f # unreachablePF
      /\ FFsOk(f) <=> /\ TrueFF # Unreachable_BoolFF
                      /\ (a = Unreachable_BoolFF => TrueFF = FalseFF) /\ FFsOk(unreachablePF)
      /\ EndsCovered(f) <=> (unreachablePF = unreachablePF => TrueFF.sat = Assignment) /\ EndsCovered(unreachablePF)
      /\ Narrows(f) <=> Cover(unreachablePF) \subseteq TrueFF.sat /\ Narrows(unreachablePF)
      /\ \A m : Says(f, m) = IF m \in TrueFF.sat THEN IF m \in a.sat THEN "holds" ELSE "fails"
                             ELSE Says(unreachablePF, m)
  BY <1>1, <1>2, NewLevel
<1> QED BY <1>2, <1>3 DEF Good

\* true, false and a free variable, as formulas.
LEMMA Literals ==
    /\ trueF \in PartialF /\ trueF # unreachablePF /\ Good(trueF) /\ Narrows(trueF)
    /\ \A m \in Assignment : Says(trueF, m) = "holds"
    /\ falseF \in PartialF /\ falseF # unreachablePF /\ Good(falseF) /\ Narrows(falseF)
    /\ \A m \in Assignment : Says(falseF, m) = "fails"
    /\ \A n : /\ lit(n) \in PartialF /\ lit(n) # unreachablePF /\ Good(lit(n)) /\ Narrows(lit(n))
              /\ \A m \in Assignment : Says(lit(n), m) = IF m[n] THEN "holds" ELSE "fails"
<1>1. /\ trueF \in PartialF /\ trueF # unreachablePF /\ Good(trueF) /\ Narrows(trueF)
      /\ \A m \in Assignment : Says(trueF, m) = "holds"
  <2>1. TrueFF \in BoolFF /\ TrueFF # Unreachable_BoolFF /\ TrueFF.sat = Assignment
    BY BoolFFs
  <2> QED BY <2>1, Finite DEF trueF
<1>2. /\ falseF \in PartialF /\ falseF # unreachablePF /\ Good(falseF) /\ Narrows(falseF)
      /\ \A m \in Assignment : Says(falseF, m) = "fails"
  <2>1. FalseFF \in BoolFF /\ FalseFF # Unreachable_BoolFF /\ FalseFF.sat = {}
    BY BoolFFs
  <2> QED BY <2>1, Finite DEF falseF
<1>3. ASSUME NEW n
      PROVE  /\ lit(n) \in PartialF /\ lit(n) # unreachablePF /\ Good(lit(n)) /\ Narrows(lit(n))
             /\ \A m \in Assignment : Says(lit(n), m) = IF m[n] THEN "holds" ELSE "fails"
  <2> DEFINE S == {m \in Assignment : m[n]}
             a == Symbolic(S)
             f == lit(n)
  <2>1. a \in BoolFF /\ a # Unreachable_BoolFF /\ a.sat = S
    <3>1. S \in SUBSET Assignment
      OBVIOUS
    <3> HIDE DEF S
    <3> QED BY <3>1, BoolFFs
  <2>2. f = finitePF(a)
    BY DEF lit, varF
  <2>3. \A m \in Assignment : m \in S <=> m[n]
    OBVIOUS
  <2> HIDE DEF S, a, f
  <2>4. /\ f \in PartialF /\ f # unreachablePF /\ Good(f) /\ Narrows(f)
        /\ \A m \in Assignment : Says(f, m) = IF m \in a.sat THEN "holds" ELSE "fails"
    BY <2>1, <2>2, Finite
  <2> QED BY <2>1, <2>3, <2>4 DEF f
<1> QED BY <1>1, <1>2, <1>3

-----------------------------------------------------------------------------
\* Decision trees.
Steps == {"x", "y"}

\* A step in front of a path.
LEMMA Paths ==
    ASSUME NEW b \in Steps, NEW s \in Seq(Steps), NEW t, t = <<b>> \o s
    PROVE  t \in Seq(Steps) /\ t # <<>> /\ Head(t) = b /\ Tail(t) = s
<1>1. <<b>> \in Seq(Steps) /\ Len(<<b>>) = 1 /\ <<b>>[1] = b
  OBVIOUS
<1>2. t \in Seq(Steps) /\ Len(t) = Len(s) + 1 /\ t[1] = b
  BY <1>1
<1>3. \A i \in 1..Len(s) : t[i + 1] = s[i]
  BY <1>1
<1>4. Head(t) = b /\ t # <<>>
  BY <1>2
<1>5. Tail(t) \in Seq(Steps) /\ Len(Tail(t)) = Len(s) /\ \A i \in 1..Len(s) : Tail(t)[i] = s[i]
  BY <1>2, <1>3
<1>6. Tail(t) = s
  BY <1>5
<1> QED BY <1>2, <1>4, <1>6

\* The parts of a decision tree are what it was made of.
LEMMA Trees ==
    ASSUME NEW x \in DT, NEW y \in DT
    PROVE  /\ {} \in DT /\ DTSplit(x, y) \in DT
           /\ Part(DTSplit(x, y), "x") = x /\ Part(DTSplit(x, y), "y") = y
           /\ \A n \in Nat : /\ DTChoice(n, x, y) \in DT /\ nm(DTChoice(n, x, y)) = n
                             /\ Part(DTChoice(n, x, y), "x") = x
                             /\ Part(DTChoice(n, x, y), "y") = y
           /\ \A b \in Steps : Part(x, b) \in DT
<1> DEFINE C == Seq(Steps) \X Nat
           put(b, c) == <<<<b>> \o c[1], c[2]>>
           cut(d) == <<Tail(d[1]), d[2]>>
<1>1. DT = SUBSET C
  BY DEF DT, Steps
<1>2. \A c \in C : c[1] \in Seq(Steps) /\ c[2] \in Nat /\ c = <<c[1], c[2]>>
  OBVIOUS
<1>3. \A b \in Steps : \A c \in C :
        /\ put(b, c) \in C /\ put(b, c)[1] # <<>> /\ Head(put(b, c)[1]) = b /\ cut(put(b, c)) = c
  <2> SUFFICES ASSUME NEW b \in Steps, NEW c \in C
               PROVE  /\ put(b, c) \in C /\ put(b, c)[1] # <<>> /\ Head(put(b, c)[1]) = b
                      /\ cut(put(b, c)) = c
    OBVIOUS
  <2>1. c[1] \in Seq(Steps) /\ c[2] \in Nat /\ c = <<c[1], c[2]>>
    BY <1>2
  <2>2. <<b>> \o c[1] \in Seq(Steps) /\ <<b>> \o c[1] # <<>> /\ Head(<<b>> \o c[1]) = b
        /\ Tail(<<b>> \o c[1]) = c[1]
    BY <2>1, Paths
  <2> QED BY <2>1, <2>2
<1>4. \A b \in Steps : \A t \in DT : Part(t, b) \in DT
  <2> SUFFICES ASSUME NEW b \in Steps, NEW t \in DT, NEW d \in t, d[1] # <<>>
               PROVE  cut(d) \in C
    BY <1>1 DEF Part
  <2>1. d[1] \in Seq(Steps) /\ d[2] \in Nat
    BY <1>1, <1>2
  <2>2. Tail(d[1]) \in Seq(Steps)
    BY <2>1
  <2> QED BY <2>1, <2>2
<1>5. \A t, b : Under(b, t) = {put(b, c) : c \in t}
  BY DEF Under
<1>6. \A t, b : Part(t, b) = {cut(d) : d \in {e \in t : e[1] # <<>> /\ Head(e[1]) = b}}
  BY DEF Part
<1>7. x \subseteq C /\ y \subseteq C /\ "x" \in Steps /\ "y" \in Steps /\ "x" # "y"
  BY <1>1 DEF Steps
<1>8. \A n \in Nat : <<<<>>, n>> \in C /\ <<<<>>, n>>[1] = <<>> /\ <<<<>>, n>>[2] = n
  <2>1. <<>> \in Seq(Steps)
    OBVIOUS
  <2> HIDE DEF Steps
  <2> QED BY <2>1
<1> HIDE DEF C, put, cut, Steps
<1>9. DTSplit(x, y) \in DT
  BY <1>1, <1>3, <1>5, <1>7 DEF DTSplit
<1>10. ASSUME NEW t, NEW n, t = DTSplit(x, y) \/ (n \in Nat /\ t = DTChoice(n, x, y))
       PROVE  Part(t, "x") = x /\ Part(t, "y") = y
  <2>1. \A e : e \in t /\ e[1] # <<>> <=>
            (\E c \in x : e = put("x", c)) \/ (\E c \in y : e = put("y", c))
    BY <1>3, <1>5, <1>7, <1>8, <1>10 DEF DTSplit, DTChoice
  <2>2. {e \in t : e[1] # <<>> /\ Head(e[1]) = "x"} = {put("x", c) : c \in x}
    BY <2>1, <1>3, <1>7
  <2>3. {e \in t : e[1] # <<>> /\ Head(e[1]) = "y"} = {put("y", c) : c \in y}
    BY <2>1, <1>3, <1>7
  <2>4. Part(t, "x") = {cut(d) : d \in {put("x", c) : c \in x}}
    BY <2>2, <1>6
  <2>5. Part(t, "y") = {cut(d) : d \in {put("y", c) : c \in y}}
    BY <2>3, <1>6
  <2>6. \A c \in x : cut(put("x", c)) = c
    BY <1>3, <1>7
  <2>7. \A c \in y : cut(put("y", c)) = c
    BY <1>3, <1>7
  <2>8. {cut(d) : d \in {put("x", c) : c \in x}} = x
    BY <2>6
  <2>9. {cut(d) : d \in {put("y", c) : c \in y}} = y
    BY <2>7
  <2> QED BY <2>4, <2>5, <2>8, <2>9
<1>11. ASSUME NEW n \in Nat
       PROVE  DTChoice(n, x, y) \in DT /\ nm(DTChoice(n, x, y)) = n
  <2> DEFINE t == DTChoice(n, x, y)
             c0 == <<<<>>, n>>
  <2>1. c0 \in t /\ c0[1] = <<>> /\ c0[2] = n /\ t \in DT
    BY <1>1, <1>8, <1>9 DEF DTChoice
  <2>2. \A c \in t : c[1] = <<>> => c = c0
    BY <1>3, <1>5, <1>7 DEF DTChoice, DTSplit
  <2> HIDE DEF t, c0
  <2>3. (CHOOSE c \in t : c[1] = <<>>) = c0
    BY <2>1, <2>2
  <2>4. nm(t) = c0[2]
    BY <2>3 DEF nm
  <2> QED BY <2>1, <2>4 DEF t
<1>12. {} \in DT
  BY <1>1
<1> QED BY <1>4, <1>9, <1>10, <1>11, <1>12

-----------------------------------------------------------------------------
\* Computations: definitions by recursion on the parts, and induction on them.
LEMMA NodeIs ==
    ASSUME NEW e \in Computation, ~IsLeaf(e)
    PROVE  /\ e.x \in Computation /\ e.y \in Computation /\ e.op \in NodeOps
           /\ e.same \in BOOLEAN /\ e.late \in Lates /\ Height[e] \in Nat
           /\ Height[e.x] \in Nat /\ Height[e.x] < Height[e]
           /\ Height[e.y] \in Nat /\ Height[e.y] < Height[e]
<1>1. /\ e \in [op : NodeOps, x : Computation, y : Computation, same : BOOLEAN, late : Lates]
      /\ Height[e.x] < Height[e] /\ Height[e.y] < Height[e] /\ Height \in [Computation -> Nat]
  BY SpaceAssumption
<1>2. /\ e.x \in Computation /\ e.y \in Computation /\ e.op \in NodeOps
      /\ e.same \in BOOLEAN /\ e.late \in Lates
  BY <1>1
<1> QED BY <1>1, <1>2

\* G defines a function by recursion on the parts of a computation.
FromParts(T, G) ==
    /\ G \in [Computation -> [[Computation -> T] -> T]]
    /\ \A e \in Computation : \A f, g \in [Computation -> T] :
         (~IsLeaf(e) => f[e.x] = g[e.x] /\ f[e.y] = g[e.y]) => G[e][f] = G[e][g]

\* Such a function exists: a computation is a finite term.
LEMMA ByParts ==
    ASSUME NEW T, T # {}, NEW G, FromParts(T, G)
    PROVE  \E f \in [Computation -> T] : Solves(f, Computation, G)
<1>1. Height \in [Computation -> Nat]
  BY SpaceAssumption
<1>2. ASSUME NEW e \in Computation, NEW f \in [Computation -> T], NEW g \in [Computation -> T],
             \A d \in Computation : Height[d] < Height[e] => f[d] = g[d]
      PROVE  G[e][f] = G[e][g]
  <2>1. ~IsLeaf(e) => f[e.x] = g[e.x] /\ f[e.y] = g[e.y]
    BY <1>2, NodeIs
  <2> QED BY <2>1, <1>2 DEF FromParts
<1>3. Descends(Computation, T, Height, G)
  BY <1>1, <1>2 DEF Descends, FromParts
<1> QED BY <1>3, Recursion

\* Induction on the parts of a computation.
LEMMA PartsInduction ==
    ASSUME NEW P \in SUBSET Computation,
           \A e \in Computation : (~IsLeaf(e) => e.x \in P /\ e.y \in P) => e \in P
    PROVE  P = Computation
<1>1. Height \in [Computation -> Nat]
  BY SpaceAssumption
<1>2. ASSUME NEW e \in Computation, \A d \in Computation : Height[d] < Height[e] => d \in P
      PROVE  e \in P
  <2>1. ~IsLeaf(e) => e.x \in P /\ e.y \in P
    BY <1>2, NodeIs
  <2> QED BY <2>1
<1>3. Inductive(P, Computation, Height)
  BY <1>1, <1>2 DEF Inductive
<1> QED BY <1>3, RankInduction

-----------------------------------------------------------------------------

\* Fresh: the identifiers a computation takes.
FreshBody(f, e) == IF IsLeaf(e) THEN 0 ELSE f[e.x] + f[e.y] + (IF e.op = "union" THEN 1 ELSE 0)

\* It is a function that satisfies its equation, if there is one.
LEMMA FreshUnfold == Fresh = CHOOSE f : f = [e \in Computation |-> FreshBody(f, e)]
BY DEF Fresh, FreshBody

\* Its values are numbers.
LEMMA FreshBodyType ==
    ASSUME NEW e \in Computation, NEW f, ~IsLeaf(e) => f[e.x] \in Nat /\ f[e.y] \in Nat
    PROVE  FreshBody(f, e) \in Nat
BY DEF FreshBody

\* There is such a function.
LEMMA FreshEquation ==
    Fresh \in [Computation -> Nat] /\ \A e \in Computation : Fresh[e] = FreshBody(Fresh, e)
<1> DEFINE S == Computation
           G == [e \in S |-> [f \in [S -> Nat] |-> FreshBody(f, e)]]
<1>1. G \in [S -> [[S -> Nat] -> Nat]]
  <2>1. \A e \in S : \A f \in [S -> Nat] : FreshBody(f, e) \in Nat
    BY NodeIs, FreshBodyType
  <2> QED BY <2>1
<1>2. ASSUME NEW e \in S, NEW f \in [S -> Nat], NEW g \in [S -> Nat],
             ~IsLeaf(e) => f[e.x] = g[e.x] /\ f[e.y] = g[e.y]
      PROVE  G[e][f] = G[e][g]
  <2>1. FreshBody(f, e) = FreshBody(g, e)
    BY <1>2 DEF FreshBody
  <2> QED BY <2>1
<1>3. \A f \in [S -> Nat] : [e \in S |-> G[e][f]] = [e \in S |-> FreshBody(f, e)]
  OBVIOUS
<1>4. Nat # {}
  OBVIOUS
<1> HIDE DEF G
<1>a. FromParts(Nat, G)
  BY <1>1, <1>2 DEF FromParts
<1>5. PICK f \in [S -> Nat] : Solves(f, S, G)
  BY <1>4, <1>a, ByParts
<1>6. f = [e \in S |-> FreshBody(f, e)]
  BY <1>3, <1>5 DEF Solves
<1>7. Fresh = [e \in S |-> FreshBody(Fresh, e)]
  BY <1>6, FreshUnfold
<1>8. \A e \in S : Fresh[e] = FreshBody(Fresh, e)
  BY <1>7
<1> DEFINE P == {e \in S : Fresh[e] \in Nat}
<1>9. ASSUME NEW e \in S, ~IsLeaf(e) => e.x \in P /\ e.y \in P PROVE e \in P
  <2>1. FreshBody(Fresh, e) \in Nat
    BY <1>9, FreshBodyType
  <2> QED BY <2>1, <1>8
<1>10. P \in SUBSET S
  OBVIOUS
<1> HIDE DEF P
<1>11. P = S
  BY <1>9, <1>10, PartsInduction
<1>12. \A e \in S : Fresh[e] \in Nat
  BY <1>11 DEF P
<1>13. Fresh \in [S -> Nat]
  <2> HIDE DEF S
  <2> QED BY <1>7, <1>12
<1> QED BY <1>8, <1>13

\* Identifiers are numbers.
LEMMA NextTypes ==
    ASSUME NEW e \in Computation, ~IsLeaf(e), NEW n \in Nat
    PROVE  NextX(e, n) \in Nat /\ NextY(e, n) \in Nat
<1>1. Fresh[e.x] \in Nat
  BY FreshEquation, NodeIs
<1> QED BY <1>1 DEF NextX, NextY

-----------------------------------------------------------------------------

\* runS: what a run gives.
Runs == [p : PartialF, v : PartialF, t : DT]
RunT == [PartialF -> [Nat -> Runs]]

\* As functions of the computation, with runS itself as a parameter.
RunAt(f, e, env, n) ==
    IF IsLeaf(e) THEN runLeaf(e.op, env)
    ELSE LET rx == f[e.x][env][NextX(e, n)]
         IN  runNode(e, env, n, rx, f[e.y][Bound(e, env, rx)][NextY(e, n)])
RunFn(f, e) == [env \in PartialF |-> [n \in Nat |-> RunAt(f, e, env, n)]]

\* A leaf runs.
LEMMA LeafTypes ==
    ASSUME NEW op \in LeafOps, NEW env \in PartialF PROVE runLeaf(op, env) \in Runs
<1>1. notF(env) \in PartialF
  BY UnaryIs, MapIs
<1>2. DTEmpty \in DT
  BY DEF DTEmpty, DT
<1>3. /\ trueF \in PartialF /\ falseF \in PartialF /\ Errors \in PartialF /\ Hangs \in PartialF
      /\ unreachablePF \in PartialF
  BY Literals, Tails
<1>4. \A p, v \in PartialF : Ran(p, v, DTEmpty) \in Runs
  BY <1>2 DEF Ran, Runs
<1> HIDE DEF Runs
<1> QED BY <1>1, <1>3, <1>4 DEF runLeaf, LeafOps

\* A node runs, if its parts do.
LEMMA NodeTypes ==
    ASSUME NEW e \in Computation, ~IsLeaf(e), NEW env \in PartialF, NEW n \in Nat,
           NEW rx \in Runs, NEW ry \in Runs
    PROVE  runNode(e, env, n, rx, ry) \in Runs /\ Bound(e, env, rx) \in PartialF
<1>1. /\ rx.p \in PartialF /\ rx.v \in PartialF /\ rx.t \in DT
      /\ ry.p \in PartialF /\ ry.v \in PartialF /\ ry.t \in DT
  BY DEF Runs
<1>2. e.late \in Lates /\ {} \in Lates /\ e.op \in NodeOps /\ e.same \in BOOLEAN
  BY NodeIs DEF Lates
<1>3. \A p, v \in PartialF : \A t \in DT : Ran(p, v, t) \in Runs
  BY DEF Ran, Runs
<1>4. DTSplit(rx.t, ry.t) \in DT /\ DTChoice(n, rx.t, ry.t) \in DT
  BY <1>1, Trees
<1>5. runBody(e, rx, ry) \in Runs
  <2>1. And(rx.p, ry.p, e.late) \in AndDom
    BY <1>1, <1>2 DEF And, AndDom
  <2>2. andPF[And(rx.p, ry.p, e.late)] \in PartialF
    BY <2>1, AndEquation
  <2> QED BY <2>2, <1>1, <1>3, <1>4 DEF runBody
<1>6. \A g \in PartialF : \A t \in DT : runChoice(e, g, rx, ry, t) \in Runs
  <2> SUFFICES ASSUME NEW g \in PartialF, NEW t \in DT PROVE runChoice(e, g, rx, ry, t) \in Runs
    OBVIOUS
  <2>1. Ite(g, rx.p, ry.p, e.same, e.late) \in IteDom /\ Ite(g, rx.v, ry.v, e.same, {}) \in IteDom
    BY <1>1, <1>2 DEF Ite, IteDom
  <2>2. /\ itePF[Ite(g, rx.p, ry.p, e.same, e.late)] \in PartialF
        /\ itePF[Ite(g, rx.v, ry.v, e.same, {})] \in PartialF
    BY <2>1, IteEquation
  <2> QED BY <2>2, <1>3 DEF runChoice
<1>7. lit(n) \in PartialF
  BY Literals
<1>8. runNode(e, env, n, rx, ry) \in Runs
  BY <1>2, <1>4, <1>5, <1>6, <1>7 DEF runNode, NodeOps
<1> QED BY <1>1, <1>8 DEF Bound

\* runS is a function that satisfies its equation, if there is one.
LEMMA runSUnfold == runS = CHOOSE f : f = [e \in Computation |-> RunFn(f, e)]
BY DEF runS, RunFn, RunAt

\* Its values are runs.
LEMMA runSBodyType ==
    ASSUME NEW e \in Computation, NEW f, ~IsLeaf(e) => f[e.x] \in RunT /\ f[e.y] \in RunT
    PROVE  RunFn(f, e) \in RunT
<1> SUFFICES ASSUME NEW env \in PartialF, NEW n \in Nat PROVE RunAt(f, e, env, n) \in Runs
  BY DEF RunFn, RunT
<1>1. CASE IsLeaf(e)
  BY <1>1, LeafTypes DEF RunAt, IsLeaf
<1>2. CASE ~IsLeaf(e)
  <2> DEFINE rx == f[e.x][env][NextX(e, n)]
             ry == f[e.y][Bound(e, env, rx)][NextY(e, n)]
  <2>1. NextX(e, n) \in Nat /\ NextY(e, n) \in Nat
    BY <1>2, NextTypes
  <2>2. rx \in Runs
    BY <1>2, <2>1 DEF RunT
  <2>3. Bound(e, env, rx) \in PartialF
    <3> HIDE DEF rx
    <3> QED BY <2>2, <1>2, NodeTypes
  <2>4. ry \in Runs
    <3> HIDE DEF rx
    <3> QED BY <1>2, <2>1, <2>3 DEF RunT
  <2>5. RunAt(f, e, env, n) = runNode(e, env, n, rx, ry)
    BY <1>2 DEF RunAt
  <2> HIDE DEF rx, ry
  <2> QED BY <2>2, <2>4, <2>5, <1>2, NodeTypes
<1> QED BY <1>1, <1>2

\* There is such a function: every computation runs.
LEMMA runSEquation ==
    runS \in [Computation -> RunT] /\ \A e \in Computation : runS[e] = RunFn(runS, e)
<1> DEFINE S == Computation
           G == [e \in S |-> [f \in [S -> RunT] |-> RunFn(f, e)]]
<1>1. G \in [S -> [[S -> RunT] -> RunT]]
  <2>1. \A e \in S : \A f \in [S -> RunT] : RunFn(f, e) \in RunT
    BY NodeIs, runSBodyType
  <2> QED BY <2>1
<1>2. ASSUME NEW e \in S, NEW f \in [S -> RunT], NEW g \in [S -> RunT],
             ~IsLeaf(e) => f[e.x] = g[e.x] /\ f[e.y] = g[e.y]
      PROVE  G[e][f] = G[e][g]
  <2>1. RunFn(f, e) = RunFn(g, e)
    BY <1>2 DEF RunFn, RunAt
  <2> QED BY <2>1
<1>3. \A f \in [S -> RunT] : [e \in S |-> G[e][f]] = [e \in S |-> RunFn(f, e)]
  OBVIOUS
<1>4. RunT # {}
  <2>1. Ran(Errors, Errors, DTEmpty) \in Runs
    BY Tails DEF Ran, Runs, DT, DTEmpty
  <2>2. [env \in PartialF |-> [n \in Nat |-> Ran(Errors, Errors, DTEmpty)]] \in RunT
    BY <2>1 DEF RunT
  <2> QED BY <2>2
<1> HIDE DEF G
<1>a. FromParts(RunT, G)
  BY <1>1, <1>2 DEF FromParts
<1>5. PICK f \in [S -> RunT] : Solves(f, S, G)
  BY <1>4, <1>a, ByParts
<1>6. f = [e \in S |-> RunFn(f, e)]
  BY <1>3, <1>5 DEF Solves
<1>7. runS = [e \in S |-> RunFn(runS, e)]
  BY <1>6, runSUnfold
<1>8. \A e \in S : runS[e] = RunFn(runS, e)
  BY <1>7
<1> DEFINE P == {e \in S : runS[e] \in RunT}
<1>9. ASSUME NEW e \in S, ~IsLeaf(e) => e.x \in P /\ e.y \in P PROVE e \in P
  <2>1. RunFn(runS, e) \in RunT
    BY <1>9, runSBodyType
  <2> QED BY <2>1, <1>8
<1>10. P \in SUBSET S
  OBVIOUS
<1> HIDE DEF P
<1>11. P = S
  BY <1>9, <1>10, PartsInduction
<1>12. \A e \in S : runS[e] \in RunT
  BY <1>11 DEF P
<1>13. runS \in [S -> RunT]
  <2> HIDE DEF S
  <2> QED BY <1>7, <1>12
<1> QED BY <1>8, <1>13

-----------------------------------------------------------------------------

\* relS: the element for a model and a decision tree.
RelT == [Element -> [Assignment -> [DT -> Element]]]

RelAt(f, e, env, m, t) ==
    LET x == f[e.x][env][m][Part(t, "x")]
        y(v) == f[e.y][v][m][Part(t, "y")]
    IN  IF IsLeaf(e) THEN relLeaf(e.op, env)
        ELSE IF e.op = "bind" THEN y(x)
        ELSE IF e.op = "union" THEN IF m[nm(t)] THEN x ELSE y(env)
        ELSE IF env = "T" THEN x
        ELSE IF env = "F" THEN y(env)
        ELSE env
RelFn(f, e) == [env \in Element |-> [m \in Assignment |-> [t \in DT |-> RelAt(f, e, env, m, t)]]]

\* A computation is a leaf or a node.
LEMMA LeafOrNode ==
    ASSUME NEW e \in Computation
    PROVE  /\ IsLeaf(e) => e.op \in LeafOps /\ e.op \notin NodeOps
           /\ ~IsLeaf(e) => e.op \in NodeOps /\ e.op \notin LeafOps
  BY NodeIs DEF IsLeaf, LeafOps, NodeOps

\* relS is a function that satisfies its equation, if there is one.
LEMMA relSUnfold == relS = CHOOSE f : f = [e \in Computation |-> RelFn(f, e)]
BY DEF relS, RelFn, RelAt

\* Its values are elements.
LEMMA relSBodyType ==
    ASSUME NEW e \in Computation, NEW f, ~IsLeaf(e) => f[e.x] \in RelT /\ f[e.y] \in RelT
    PROVE  RelFn(f, e) \in RelT
<1> SUFFICES ASSUME NEW env \in Element, NEW m \in Assignment, NEW t \in DT
             PROVE  RelAt(f, e, env, m, t) \in Element
  BY DEF RelFn, RelT
<1>1. CASE IsLeaf(e)
  BY <1>1, LeafOrNode DEF RelAt, relLeaf, LeafOps, Element, notElement
<1>2. CASE ~IsLeaf(e)
  <2>1. Part(t, "x") \in DT /\ Part(t, "y") \in DT
    BY Trees DEF Steps
  <2> DEFINE tx == Part(t, "x")
             ty == Part(t, "y")
             fx == f[e.x]
             fy == f[e.y]
  <2>3. tx \in DT /\ ty \in DT /\ fx \in RelT /\ fy \in RelT
    BY <1>2, <2>1
  <2> HIDE DEF tx, ty, fx, fy
  <2>4. \A v \in Element : fx[v][m][tx] \in Element /\ fy[v][m][ty] \in Element
    BY <2>3 DEF RelT
  <2>2. \A v \in Element : f[e.x][v][m][Part(t, "x")] \in Element /\ f[e.y][v][m][Part(t, "y")] \in Element
    BY <2>4 DEF tx, ty, fx, fy
  <2> QED BY <1>2, <2>2, LeafOrNode DEF RelAt, NodeOps
<1> QED BY <1>1, <1>2

\* There is such a function.
LEMMA relSEquation ==
    relS \in [Computation -> RelT] /\ \A e \in Computation : relS[e] = RelFn(relS, e)
<1> DEFINE S == Computation
           G == [e \in S |-> [f \in [S -> RelT] |-> RelFn(f, e)]]
<1>1. G \in [S -> [[S -> RelT] -> RelT]]
  <2>1. \A e \in S : \A f \in [S -> RelT] : RelFn(f, e) \in RelT
    BY NodeIs, relSBodyType
  <2> QED BY <2>1
<1>2. ASSUME NEW e \in S, NEW f \in [S -> RelT], NEW g \in [S -> RelT],
             ~IsLeaf(e) => f[e.x] = g[e.x] /\ f[e.y] = g[e.y]
      PROVE  G[e][f] = G[e][g]
  <2>1. RelFn(f, e) = RelFn(g, e)
    <3>1. CASE IsLeaf(e)
      BY <3>1, LeafOrNode DEF RelFn, RelAt, LeafOps, NodeOps
    <3>2. CASE ~IsLeaf(e)
      BY <3>2, <1>2 DEF RelFn, RelAt
    <3> QED BY <3>1, <3>2
  <2> QED BY <2>1
<1>3. \A f \in [S -> RelT] : [e \in S |-> G[e][f]] = [e \in S |-> RelFn(f, e)]
  OBVIOUS
<1>4. RelT # {}
  <2>1. [env \in Element |-> [m \in Assignment |-> [t \in DT |-> "raises"]]] \in RelT
    BY DEF RelT, Element
  <2> QED BY <2>1
<1> HIDE DEF G
<1>a. FromParts(RelT, G)
  BY <1>1, <1>2 DEF FromParts
<1>5. PICK f \in [S -> RelT] : Solves(f, S, G)
  BY <1>4, <1>a, ByParts
<1>6. f = [e \in S |-> RelFn(f, e)]
  BY <1>3, <1>5 DEF Solves
<1>7. relS = [e \in S |-> RelFn(relS, e)]
  BY <1>6, relSUnfold
<1>8. \A e \in S : relS[e] = RelFn(relS, e)
  BY <1>7
<1> DEFINE P == {e \in S : relS[e] \in RelT}
<1>9. ASSUME NEW e \in S, ~IsLeaf(e) => e.x \in P /\ e.y \in P PROVE e \in P
  <2>1. RelFn(relS, e) \in RelT
    BY <1>9, relSBodyType
  <2> QED BY <2>1, <1>8
<1>10. P \in SUBSET S
  OBVIOUS
<1> HIDE DEF P
<1>11. P = S
  BY <1>9, <1>10, PartsInduction
<1>12. \A e \in S : relS[e] \in RelT
  BY <1>11 DEF P
<1>13. relS \in [S -> RelT]
  <2> HIDE DEF S
  <2> QED BY <1>7, <1>12
<1> QED BY <1>8, <1>13

-----------------------------------------------------------------------------

\* What a computation means under an assignment.
Outcomes == Element \cup {"none", "undefined"}
MeaningT == [Element -> [Assignment -> [Nat -> Outcomes]]]

MeaningAt(f, e, env, m, n) ==
    LET x == f[e.x][env][m][NextX(e, n)]
        y(v) == f[e.y][v][m][NextY(e, n)]
    IN  IF IsLeaf(e) THEN leafMeaning(e.op, env)
        ELSE IF e.op = "bind" THEN IF x \in Element THEN y(x) ELSE x
        ELSE IF e.op = "union" THEN IF m[n] THEN x ELSE y(env)
        ELSE IF env = "T" THEN x
        ELSE IF env = "F" THEN y(env)
        ELSE "undefined"
MeaningFn(f, e) ==
    [env \in Element |-> [m \in Assignment |-> [n \in Nat |-> MeaningAt(f, e, env, m, n)]]]

\* Meaning is a function that satisfies its equation, if there is one.
LEMMA MeaningUnfold == Meaning = CHOOSE f : f = [e \in Computation |-> MeaningFn(f, e)]
BY DEF Meaning, MeaningFn, MeaningAt

\* Its values are outcomes.
LEMMA MeaningBodyType ==
    ASSUME NEW e \in Computation, NEW f, ~IsLeaf(e) => f[e.x] \in MeaningT /\ f[e.y] \in MeaningT
    PROVE  MeaningFn(f, e) \in MeaningT
<1> SUFFICES ASSUME NEW env \in Element, NEW m \in Assignment, NEW n \in Nat
             PROVE  MeaningAt(f, e, env, m, n) \in Outcomes
  BY DEF MeaningFn, MeaningT
<1>1. CASE IsLeaf(e)
  BY <1>1, LeafOrNode DEF MeaningAt, leafMeaning, LeafOps, Element, Outcomes, notElement
<1>2. CASE ~IsLeaf(e)
  <2>1. NextX(e, n) \in Nat /\ NextY(e, n) \in Nat
    BY <1>2, NextTypes
  <2> DEFINE fx == f[e.x]
             fy == f[e.y]
             j == NextX(e, n)
             k == NextY(e, n)
  <2>3. j \in Nat /\ k \in Nat /\ fx \in MeaningT /\ fy \in MeaningT
    BY <1>2, <2>1
  <2> HIDE DEF fx, fy, j, k
  <2>4. \A v \in Element : fx[v][m][j] \in Outcomes /\ fy[v][m][k] \in Outcomes
    BY <2>3 DEF MeaningT
  <2>5. "undefined" \in Outcomes
    BY DEF Outcomes
  <2>6. \A v \in Element : /\ f[e.x][v][m][NextX(e, n)] \in Outcomes
                           /\ f[e.y][v][m][NextY(e, n)] \in Outcomes
    BY <2>4 DEF fx, fy, j, k
  <2> QED BY <1>2, <2>5, <2>6 DEF MeaningAt
<1> QED BY <1>1, <1>2

\* There is such a function: every computation means something.
LEMMA MeaningEquation ==
    Meaning \in [Computation -> MeaningT] /\ \A e \in Computation : Meaning[e] = MeaningFn(Meaning, e)
<1> DEFINE S == Computation
           G == [e \in S |-> [f \in [S -> MeaningT] |-> MeaningFn(f, e)]]
<1>1. G \in [S -> [[S -> MeaningT] -> MeaningT]]
  <2>1. \A e \in S : \A f \in [S -> MeaningT] : MeaningFn(f, e) \in MeaningT
    BY NodeIs, MeaningBodyType
  <2> QED BY <2>1
<1>2. ASSUME NEW e \in S, NEW f \in [S -> MeaningT], NEW g \in [S -> MeaningT],
             ~IsLeaf(e) => f[e.x] = g[e.x] /\ f[e.y] = g[e.y]
      PROVE  G[e][f] = G[e][g]
  <2>1. MeaningFn(f, e) = MeaningFn(g, e)
    <3>1. CASE IsLeaf(e)
      BY <3>1, LeafOrNode DEF MeaningFn, MeaningAt, LeafOps, NodeOps
    <3>2. CASE ~IsLeaf(e)
      BY <3>2, <1>2 DEF MeaningFn, MeaningAt
    <3> QED BY <3>1, <3>2
  <2> QED BY <2>1
<1>3. \A f \in [S -> MeaningT] : [e \in S |-> G[e][f]] = [e \in S |-> MeaningFn(f, e)]
  OBVIOUS
<1>4. MeaningT # {}
  <2>1. [env \in Element |-> [m \in Assignment |-> [n \in Nat |-> "none"]]] \in MeaningT
    BY DEF MeaningT, Outcomes
  <2> QED BY <2>1
<1> HIDE DEF G
<1>a. FromParts(MeaningT, G)
  BY <1>1, <1>2 DEF FromParts
<1>5. PICK f \in [S -> MeaningT] : Solves(f, S, G)
  BY <1>4, <1>a, ByParts
<1>6. f = [e \in S |-> MeaningFn(f, e)]
  BY <1>3, <1>5 DEF Solves
<1>7. Meaning = [e \in S |-> MeaningFn(Meaning, e)]
  BY <1>6, MeaningUnfold
<1>8. \A e \in S : Meaning[e] = MeaningFn(Meaning, e)
  BY <1>7
<1> DEFINE P == {e \in S : Meaning[e] \in MeaningT}
<1>9. ASSUME NEW e \in S, ~IsLeaf(e) => e.x \in P /\ e.y \in P PROVE e \in P
  <2>1. MeaningFn(Meaning, e) \in MeaningT
    BY <1>9, MeaningBodyType
  <2> QED BY <2>1, <1>8
<1>10. P \in SUBSET S
  OBVIOUS
<1> HIDE DEF P
<1>11. P = S
  BY <1>9, <1>10, PartsInduction
<1>12. \A e \in S : Meaning[e] \in MeaningT
  BY <1>11 DEF P
<1>13. Meaning \in [S -> MeaningT]
  <2> HIDE DEF S
  <2> QED BY <1>7, <1>12
<1> QED BY <1>8, <1>13

-----------------------------------------------------------------------------
TimelyFn(f, e) == IsLeaf(e) \/ (e.late = {} /\ f[e.x] /\ f[e.y])

\* Timely is a function that satisfies its equation, if there is one.
LEMMA TimelyUnfold == Timely = CHOOSE f : f = [e \in Computation |-> TimelyFn(f, e)]
BY DEF Timely, TimelyFn

\* Its values are truth values.
LEMMA TimelyBodyType ==
    ASSUME NEW e \in Computation, NEW f, ~IsLeaf(e) => f[e.x] \in BOOLEAN /\ f[e.y] \in BOOLEAN
    PROVE  TimelyFn(f, e) \in BOOLEAN
BY DEF TimelyFn

\* There is such a function.
LEMMA TimelyEquation ==
    Timely \in [Computation -> BOOLEAN] /\ \A e \in Computation : Timely[e] = TimelyFn(Timely, e)
<1> DEFINE S == Computation
           G == [e \in S |-> [f \in [S -> BOOLEAN] |-> TimelyFn(f, e)]]
<1>1. G \in [S -> [[S -> BOOLEAN] -> BOOLEAN]]
  <2>1. \A e \in S : \A f \in [S -> BOOLEAN] : TimelyFn(f, e) \in BOOLEAN
    BY NodeIs, TimelyBodyType
  <2> QED BY <2>1
<1>2. ASSUME NEW e \in S, NEW f \in [S -> BOOLEAN], NEW g \in [S -> BOOLEAN],
             ~IsLeaf(e) => f[e.x] = g[e.x] /\ f[e.y] = g[e.y]
      PROVE  G[e][f] = G[e][g]
  <2>1. TimelyFn(f, e) = TimelyFn(g, e)
    BY <1>2 DEF TimelyFn
  <2> QED BY <2>1
<1>3. \A f \in [S -> BOOLEAN] : [e \in S |-> G[e][f]] = [e \in S |-> TimelyFn(f, e)]
  OBVIOUS
<1>4. BOOLEAN # {}
  OBVIOUS
<1> HIDE DEF G
<1>a. FromParts(BOOLEAN, G)
  BY <1>1, <1>2 DEF FromParts
<1>5. PICK f \in [S -> BOOLEAN] : Solves(f, S, G)
  BY <1>4, <1>a, ByParts
<1>6. f = [e \in S |-> TimelyFn(f, e)]
  BY <1>3, <1>5 DEF Solves
<1>7. Timely = [e \in S |-> TimelyFn(Timely, e)]
  BY <1>6, TimelyUnfold
<1>8. \A e \in S : Timely[e] = TimelyFn(Timely, e)
  BY <1>7
<1> DEFINE P == {e \in S : Timely[e] \in BOOLEAN}
<1>9. ASSUME NEW e \in S, ~IsLeaf(e) => e.x \in P /\ e.y \in P PROVE e \in P
  <2>1. TimelyFn(Timely, e) \in BOOLEAN
    BY <1>9, TimelyBodyType
  <2> QED BY <2>1, <1>8
<1>10. P \in SUBSET S
  OBVIOUS
<1> HIDE DEF P
<1>11. P = S
  BY <1>9, <1>10, PartsInduction
<1>12. \A e \in S : Timely[e] \in BOOLEAN
  BY <1>11 DEF P
<1>13. Timely \in [S -> BOOLEAN]
  <2> HIDE DEF S
  <2> QED BY <1>7, <1>12
<1> QED BY <1>8, <1>13

-----------------------------------------------------------------------------

\* Clear: no part runs to Unreachable_PartialF.
ClearT == [PartialF -> [Nat -> BOOLEAN]]

ClearAt(f, e, env, n) ==
    \/ IsLeaf(e)
    \/ LET rx == runS[e.x][env][NextX(e, n)]
           bound == Bound(e, env, rx)
           ry == runS[e.y][bound][NextY(e, n)]
       IN  /\ runS[e][env][n].p # unreachablePF
           /\ ~e.same
           /\ e.op # "bind" => Swallowed(rx.p, ry.p, e.late)
           /\ f[e.x][env][NextX(e, n)]
           /\ f[e.y][bound][NextY(e, n)]
ClearFn(f, e) == [env \in PartialF |-> [n \in Nat |-> ClearAt(f, e, env, n)]]

\* Clear is a function that satisfies its equation, if there is one.
LEMMA ClearUnfold == Clear = CHOOSE f : f = [e \in Computation |-> ClearFn(f, e)]
BY DEF Clear, ClearFn, ClearAt

\* Its values are truth values.
LEMMA ClearBodyType ==
    ASSUME NEW e \in Computation, NEW f, ~IsLeaf(e) => f[e.x] \in ClearT /\ f[e.y] \in ClearT
    PROVE  ClearFn(f, e) \in ClearT
<1> SUFFICES ASSUME NEW env \in PartialF, NEW n \in Nat PROVE ClearAt(f, e, env, n) \in BOOLEAN
  BY DEF ClearFn, ClearT
<1> QED BY DEF ClearAt

\* There is such a function.
LEMMA ClearEquation ==
    Clear \in [Computation -> ClearT] /\ \A e \in Computation : Clear[e] = ClearFn(Clear, e)
<1> DEFINE S == Computation
           G == [e \in S |-> [f \in [S -> ClearT] |-> ClearFn(f, e)]]
<1>1. G \in [S -> [[S -> ClearT] -> ClearT]]
  <2>1. \A e \in S : \A f \in [S -> ClearT] : ClearFn(f, e) \in ClearT
    BY NodeIs, ClearBodyType
  <2> QED BY <2>1
<1>2. ASSUME NEW e \in S, NEW f \in [S -> ClearT], NEW g \in [S -> ClearT],
             ~IsLeaf(e) => f[e.x] = g[e.x] /\ f[e.y] = g[e.y]
      PROVE  G[e][f] = G[e][g]
  <2>1. ClearFn(f, e) = ClearFn(g, e)
    BY <1>2 DEF ClearFn, ClearAt
  <2> QED BY <2>1
<1>3. \A f \in [S -> ClearT] : [e \in S |-> G[e][f]] = [e \in S |-> ClearFn(f, e)]
  OBVIOUS
<1>4. ClearT # {}
  <2>1. [env \in PartialF |-> [n \in Nat |-> TRUE]] \in ClearT
    BY DEF ClearT
  <2> QED BY <2>1
<1> HIDE DEF G
<1>a. FromParts(ClearT, G)
  BY <1>1, <1>2 DEF FromParts
<1>5. PICK f \in [S -> ClearT] : Solves(f, S, G)
  BY <1>4, <1>a, ByParts
<1>6. f = [e \in S |-> ClearFn(f, e)]
  BY <1>3, <1>5 DEF Solves
<1>7. Clear = [e \in S |-> ClearFn(Clear, e)]
  BY <1>6, ClearUnfold
<1>8. \A e \in S : Clear[e] = ClearFn(Clear, e)
  BY <1>7
<1> DEFINE P == {e \in S : Clear[e] \in ClearT}
<1>9. ASSUME NEW e \in S, ~IsLeaf(e) => e.x \in P /\ e.y \in P PROVE e \in P
  <2>1. ClearFn(Clear, e) \in ClearT
    BY <1>9, ClearBodyType
  <2> QED BY <2>1, <1>8
<1>10. P \in SUBSET S
  OBVIOUS
<1> HIDE DEF P
<1>11. P = S
  BY <1>9, <1>10, PartsInduction
<1>12. \A e \in S : Clear[e] \in ClearT
  BY <1>11 DEF P
<1>13. Clear \in [S -> ClearT]
  <2> HIDE DEF S
  <2> QED BY <1>7, <1>12
<1> QED BY <1>8, <1>13

-----------------------------------------------------------------------------
\* The recursive functions of Space, one computation at a time.

\* What the equations say of one call.
LEMMA RunIs ==
    ASSUME NEW e \in Computation, NEW env \in PartialF, NEW n \in Nat
    PROVE  /\ runS[e][env][n] \in Runs
           /\ IsLeaf(e) => runS[e][env][n] = runLeaf(e.op, env)
           /\ ~IsLeaf(e) =>
                LET rx == runS[e.x][env][NextX(e, n)]
                    ry == runS[e.y][Bound(e, env, rx)][NextY(e, n)]
                IN  /\ rx \in Runs /\ ry \in Runs /\ Bound(e, env, rx) \in PartialF
                    /\ runS[e][env][n] = runNode(e, env, n, rx, ry)
<1>1. runS[e] = RunFn(runS, e) /\ runS \in [Computation -> RunT]
  BY runSEquation
<1>2. runS[e][env][n] = RunAt(runS, e, env, n)
  BY <1>1 DEF RunFn
<1>3. \A d \in Computation : \A v \in PartialF : \A k \in Nat : runS[d][v][k] \in Runs
  BY <1>1 DEF RunT
<1>4. CASE IsLeaf(e)
  BY <1>2, <1>3, <1>4 DEF RunAt
<1>5. CASE ~IsLeaf(e)
  <2> DEFINE rx == runS[e.x][env][NextX(e, n)]
             b == Bound(e, env, rx)
             ry == runS[e.y][b][NextY(e, n)]
  <2>1. NextX(e, n) \in Nat /\ NextY(e, n) \in Nat /\ e.x \in Computation /\ e.y \in Computation
    BY <1>5, NextTypes, NodeIs
  <2>2. rx \in Runs
    BY <1>3, <2>1
  <2>3. b \in PartialF
    <3> HIDE DEF rx
    <3> QED BY <1>5, <2>2, NodeTypes
  <2>4. ry \in Runs
    <3> HIDE DEF b
    <3> QED BY <1>3, <2>1, <2>3
  <2>5. runS[e][env][n] = runNode(e, env, n, rx, ry)
    BY <1>2, <1>5 DEF RunAt
  <2>6. rx \in Runs /\ ry \in Runs /\ b \in PartialF /\ runS[e][env][n] = runNode(e, env, n, rx, ry)
    BY <2>2, <2>3, <2>4, <2>5
  <2> QED BY <1>3, <1>5, <2>6
<1> QED BY <1>4, <1>5

\* The equation of Meaning, for one computation.
LEMMA MeaningIs ==
    ASSUME NEW e \in Computation, NEW env \in Element, NEW m \in Assignment, NEW n \in Nat
    PROVE  /\ Meaning[e][env][m][n] \in Outcomes
           /\ IsLeaf(e) => Meaning[e][env][m][n] = leafMeaning(e.op, env)
           /\ ~IsLeaf(e) =>
                LET x == Meaning[e.x][env][m][NextX(e, n)]
                    y(v) == Meaning[e.y][v][m][NextY(e, n)]
                IN  /\ x \in Outcomes /\ \A v \in Element : y(v) \in Outcomes
                    /\ Meaning[e][env][m][n] =
                         IF e.op = "bind" THEN IF x \in Element THEN y(x) ELSE x
                         ELSE IF e.op = "union" THEN IF m[n] THEN x ELSE y(env)
                         ELSE IF env = "T" THEN x
                         ELSE IF env = "F" THEN y(env)
                         ELSE "undefined"
<1>1. Meaning[e] = MeaningFn(Meaning, e) /\ Meaning \in [Computation -> MeaningT]
  BY MeaningEquation
<1>2. Meaning[e][env][m][n] = MeaningAt(Meaning, e, env, m, n)
  BY <1>1 DEF MeaningFn
<1>3. \A d \in Computation : \A v \in Element : \A k \in Nat : Meaning[d][v][m][k] \in Outcomes
  BY <1>1 DEF MeaningT
<1>4. ~IsLeaf(e) =>
        NextX(e, n) \in Nat /\ NextY(e, n) \in Nat /\ e.x \in Computation /\ e.y \in Computation
  BY NextTypes, NodeIs
<1>5. CASE IsLeaf(e)
  BY <1>2, <1>3, <1>5 DEF MeaningAt
<1>6. CASE ~IsLeaf(e)
  BY <1>2, <1>3, <1>4, <1>6 DEF MeaningAt
<1> QED BY <1>5, <1>6

\* The equation of relS, for one computation.
LEMMA RelIs ==
    ASSUME NEW e \in Computation, NEW env \in Element, NEW m \in Assignment, NEW t \in DT
    PROVE  /\ IsLeaf(e) => relS[e][env][m][t] = relLeaf(e.op, env)
           /\ ~IsLeaf(e) =>
                LET x == relS[e.x][env][m][Part(t, "x")]
                    y(v) == relS[e.y][v][m][Part(t, "y")]
                IN  relS[e][env][m][t] =
                      IF e.op = "bind" THEN y(x)
                      ELSE IF e.op = "union" THEN IF m[nm(t)] THEN x ELSE y(env)
                      ELSE IF env = "T" THEN x
                      ELSE IF env = "F" THEN y(env)
                      ELSE env
<1>1. relS[e] = RelFn(relS, e)
  BY relSEquation
<1>2. relS[e][env][m][t] = RelAt(relS, e, env, m, t)
  BY <1>1 DEF RelFn
<1> QED BY <1>2 DEF RelAt

\* The equation of Clear, for one computation.
LEMMA ClearIs ==
    ASSUME NEW e \in Computation, NEW env \in PartialF, NEW n \in Nat, Clear[e][env][n]
    PROVE  /\ runS[e][env][n].p # unreachablePF
           /\ ~IsLeaf(e) =>
                LET rx == runS[e.x][env][NextX(e, n)]
                    b == Bound(e, env, rx)
                    ry == runS[e.y][b][NextY(e, n)]
                IN  /\ ~e.same
                    /\ e.op # "bind" => Swallowed(rx.p, ry.p, e.late)
                    /\ Clear[e.x][env][NextX(e, n)]
                    /\ Clear[e.y][b][NextY(e, n)]
<1>1. Clear[e] = ClearFn(Clear, e)
  BY ClearEquation
<1>2. Clear[e][env][n] = ClearAt(Clear, e, env, n)
  BY <1>1 DEF ClearFn
<1>3. ClearAt(Clear, e, env, n)
  BY <1>2
<1>4. CASE IsLeaf(e)
  <2>1. runS[e][env][n] = runLeaf(e.op, env)
    BY <1>4, RunIs
  <2>2. trueF # unreachablePF /\ falseF # unreachablePF /\ Errors # unreachablePF /\ Hangs # unreachablePF
    BY Literals, Tails
  <2> QED BY <1>4, <2>1, <2>2 DEF runLeaf, Ran, IsLeaf, LeafOps
<1>5. CASE ~IsLeaf(e)
  BY <1>3, <1>5 DEF ClearAt
<1> QED BY <1>4, <1>5

-----------------------------------------------------------------------------
\* relS reads off the tree of a run the element the computation has.
RelMeans(e) ==
    \A env \in PartialF, ev \in Element, m \in Assignment, n \in Nat :
      Meaning[e][ev][m][n] \in Element
        => relS[e][ev][m][runS[e][env][n].t] = Meaning[e][ev][m][n]

\* relS walks the tree the way Meaning walks the computation.
LEMMA RelMeansStep ==
    ASSUME NEW e \in Computation, ~IsLeaf(e) => RelMeans(e.x) /\ RelMeans(e.y)
    PROVE  RelMeans(e)
<1> SUFFICES ASSUME NEW env \in PartialF, NEW ev \in Element, NEW m \in Assignment, NEW n \in Nat,
                    Meaning[e][ev][m][n] \in Element
             PROVE  relS[e][ev][m][runS[e][env][n].t] = Meaning[e][ev][m][n]
  BY DEF RelMeans
<1>1. runS[e][env][n] \in Runs /\ runS[e][env][n].t \in DT
  BY RunIs DEF Runs
<1>2. CASE IsLeaf(e)
  <2>1. Meaning[e][ev][m][n] = leafMeaning(e.op, ev)
    BY <1>2, MeaningIs
  <2>2. relS[e][ev][m][runS[e][env][n].t] = relLeaf(e.op, ev)
    BY <1>1, <1>2, RelIs
  <2>3. leafMeaning(e.op, ev) \in Element
    BY <2>1
  <2>4. e.op \in LeafOps
    BY <1>2 DEF IsLeaf
  <2> QED BY <2>1, <2>2, <2>3, <2>4 DEF leafMeaning, relLeaf, LeafOps, Element
<1>3. CASE ~IsLeaf(e)
  <2> DEFINE rx == runS[e.x][env][NextX(e, n)]
             b == Bound(e, env, rx)
             ry == runS[e.y][b][NextY(e, n)]
             t == runS[e][env][n].t
             tx == Part(t, "x")
             ty == Part(t, "y")
             X == Meaning[e.x][ev][m][NextX(e, n)]
             Y(v) == Meaning[e.y][v][m][NextY(e, n)]
             M == Meaning[e][ev][m][n]
  <2>1. rx \in Runs /\ ry \in Runs /\ b \in PartialF /\ runS[e][env][n] = runNode(e, env, n, rx, ry)
    BY <1>3, RunIs
  <2>2. /\ NextX(e, n) \in Nat /\ NextY(e, n) \in Nat /\ e.op \in NodeOps
        /\ e.x \in Computation /\ e.y \in Computation
    BY <1>3, NextTypes, NodeIs
  <2>3. M = IF e.op = "bind" THEN IF X \in Element THEN Y(X) ELSE X
            ELSE IF e.op = "union" THEN IF m[n] THEN X ELSE Y(ev)
            ELSE IF ev = "T" THEN X
            ELSE IF ev = "F" THEN Y(ev)
            ELSE "undefined"
    BY <1>3, MeaningIs
  <2>4. relS[e][ev][m][t] =
            IF e.op = "bind" THEN relS[e.y][relS[e.x][ev][m][tx]][m][ty]
            ELSE IF e.op = "union" THEN IF m[nm(t)] THEN relS[e.x][ev][m][tx] ELSE relS[e.y][ev][m][ty]
            ELSE IF ev = "T" THEN relS[e.x][ev][m][tx]
            ELSE IF ev = "F" THEN relS[e.y][ev][m][ty]
            ELSE ev
    <3>1. t \in DT
      BY <1>1
    <3> HIDE DEF t
    <3> QED BY <1>3, <3>1, RelIs DEF tx, ty
  <2>5. /\ X \in Element => relS[e.x][ev][m][rx.t] = X
        /\ \A v \in Element : Y(v) \in Element => relS[e.y][v][m][ry.t] = Y(v)
    <3>1. RelMeans(e.x) /\ RelMeans(e.y)
      BY <1>3
    <3>2. X \in Element => relS[e.x][ev][m][rx.t] = X
      BY <3>1, <2>2 DEF RelMeans
    <3> HIDE DEF b
    <3>3. \A v \in Element : Y(v) \in Element => relS[e.y][v][m][ry.t] = Y(v)
      BY <3>1, <2>1, <2>2 DEF RelMeans
    <3> QED BY <3>2, <3>3
  <2>6. /\ tx = rx.t /\ ty = ry.t
        /\ e.op = "union" => nm(t) = n
    <3>1. rx.t \in DT /\ ry.t \in DT
      BY <2>1 DEF Runs
    <3>2. t = IF e.op = "union" THEN DTChoice(n, rx.t, ry.t) ELSE DTSplit(rx.t, ry.t)
      <4> HIDE DEF rx, ry
      <4> QED BY <2>1, <2>2 DEF runNode, runBody, runChoice, Ran, NodeOps
    <3>3. /\ Part(DTSplit(rx.t, ry.t), "x") = rx.t /\ Part(DTSplit(rx.t, ry.t), "y") = ry.t
          /\ Part(DTChoice(n, rx.t, ry.t), "x") = rx.t /\ Part(DTChoice(n, rx.t, ry.t), "y") = ry.t
          /\ nm(DTChoice(n, rx.t, ry.t)) = n
      <4> HIDE DEF rx, ry
      <4> QED BY <3>1, Trees
    <3> HIDE DEF rx, ry, t
    <3> QED BY <3>2, <3>3 DEF tx, ty
  <2>7. "undefined" \notin Element
    BY DEF Element
  <2> HIDE DEF rx, b, ry, t, tx, ty, X, Y
  <2>M. M \in Element
    OBVIOUS
  <2> HIDE DEF M
  <2>8. relS[e][ev][m][t] = M
    <3>1. CASE e.op = "bind"
      <4>1. X \in Element /\ M = Y(X)
        BY <2>3, <2>7, <2>M, <3>1
      <4>2. relS[e.x][ev][m][tx] = X /\ relS[e.y][X][m][ty] = M
        BY <4>1, <2>5, <2>6, <2>M
      <4> QED BY <4>2, <2>4, <3>1
    <3>2. CASE e.op # "bind"
      BY <2>3, <2>4, <2>5, <2>6, <2>7, <2>M, <3>2
    <3> QED BY <3>1, <3>2
  <2> QED BY <2>8 DEF t, M
<1> QED BY <1>2, <1>3

\* relS: read with the decision tree of the run, a model gives the element the
\* computation means under it.
THEOREM RelMeansAll == \A e \in Computation : RelMeans(e)
<1> DEFINE P == {e \in Computation : RelMeans(e)}
<1>1. ASSUME NEW e \in Computation, ~IsLeaf(e) => e.x \in P /\ e.y \in P PROVE e \in P
  BY <1>1, RelMeansStep
<1>2. P \in SUBSET Computation
  OBVIOUS
<1> HIDE DEF P
<1>3. P = Computation
  BY <1>1, <1>2, PartsInduction
<1> QED BY <1>3 DEF P

-----------------------------------------------------------------------------
\* A run agrees with what the computation means.

\* What a formula for the element says when the element is ev.
VerdictOf(ev) == IF ev = "T" THEN "holds" ELSE IF ev = "F" THEN "fails" ELSE "undefined"

\* A run says of m that the computation means M.
Agrees(r, m, M) ==
    /\ M \in Element => Tells(r.p, m, "holds") /\ Tells(r.v, m, VerdictOf(M))
    /\ M = "none" => Says(r.p, m) \in {"fails", "undefined"}
    /\ M = "undefined" => Says(r.p, m) = "undefined"

\* Both formulas of a run are proper.
GoodRun(r) == r \in Runs /\ Good(r.p) /\ Good(r.v)
RunNarrows(r) == Narrows(r.p) /\ Narrows(r.v)

\* Telling "undefined" and "fails".
LEMMA VerdictFacts ==
    /\ \A ev \in Element : VerdictOf(ev) \in Verdicts
    /\ "holds" \in Verdicts /\ "fails" \in Verdicts /\ "undefined" \in Verdicts
    /\ \A f, m : (Tells(f, m, "undefined") <=> Says(f, m) = "undefined")
                 /\ (Tells(f, m, "fails") => Says(f, m) \in {"fails", "undefined"})
                 /\ (Says(f, m) = "fails" => Tells(f, m, "fails"))
    /\ "none" \notin Element /\ "undefined" \notin Element
BY DEF VerdictOf, Verdicts, Tells, Element

\* x >>= f: the run of the body counts where that of x gives an element.
LEMMA BodyIs ==
    ASSUME NEW e \in Computation, ~IsLeaf(e), NEW rx, NEW ry, GoodRun(rx), GoodRun(ry),
           ry.p # unreachablePF, NEW r, r = runBody(e, rx, ry)
    PROVE  /\ Good(r.p) /\ Good(r.v)
           /\ \A m \in Assignment : \A X, Y \in Outcomes :
                Agrees(rx, m, X) /\ (X \in Element => Agrees(ry, m, Y))
                  => Agrees(r, m, IF X \in Element THEN Y ELSE X)
           /\ e.late = {} /\ RunNarrows(rx) /\ RunNarrows(ry) => RunNarrows(r)
<1> DEFINE c == And(rx.p, ry.p, e.late)
           p == andPF[c]
<1>1. /\ rx.p \in PartialF /\ ry.p \in PartialF /\ FFsOk(rx.p) /\ FFsOk(ry.p) /\ EndsCovered(ry.p)
      /\ Good(rx.p) /\ Good(ry.p) /\ Good(ry.v)
  BY DEF GoodRun, Runs, Good
<1>2. c \in AndDom /\ c.x = rx.p /\ c.y = ry.p /\ c.late = e.late
  BY <1>1, NodeIs DEF And, AndDom
<1>3. AndFacts(c)
  BY <1>2, AndIs
<1>4. r.p = p /\ r.v = ry.v
  BY DEF runBody, Ran
<1> HIDE DEF c, p
<1>5. Good(r.p) /\ Good(r.v)
  BY <1>1, <1>2, <1>3, <1>4 DEF AndFacts, AndFFs, AndEnds, Good, p
<1>6. ASSUME NEW m \in Assignment, NEW X \in Outcomes, NEW Y \in Outcomes,
             Agrees(rx, m, X), X \in Element => Agrees(ry, m, Y)
      PROVE  Agrees(r, m, IF X \in Element THEN Y ELSE X)
  <2>1. Says(ry.p, m) # "unreachable"
    BY <1>1, Reached
  <2>2. \A d \in Verdicts : Tells(rx.p, m, "holds") /\ Tells(ry.p, m, d) => Tells(p, m, d)
    BY <1>1, <1>2, <1>3 DEF AndFacts, AndHolds, p
  <2>3. CASE X \in Element
    <3>1. Tells(rx.p, m, "holds") /\ Agrees(ry, m, Y)
      BY <1>6, <2>3 DEF Agrees
    <3>2. Y \in Element => Tells(r.p, m, "holds") /\ Tells(r.v, m, VerdictOf(Y))
      BY <3>1, <2>2, <1>4, VerdictFacts DEF Agrees
    <3>3. Y = "none" => Says(r.p, m) \in {"fails", "undefined"}
      <4>1. CASE Says(ry.p, m) = "fails"
        BY <4>1, <3>1, <2>2, <1>4, VerdictFacts
      <4>2. CASE Says(ry.p, m) = "undefined"
        BY <4>2, <3>1, <2>2, <1>4, VerdictFacts
      <4> QED BY <4>1, <4>2, <3>1 DEF Agrees
    <3>4. Y = "undefined" => Says(r.p, m) = "undefined"
      BY <3>1, <2>2, <1>4, VerdictFacts DEF Agrees
    <3> QED BY <2>3, <3>2, <3>3, <3>4 DEF Agrees
  <2>4. CASE X = "none"
    <3>1. Says(rx.p, m) \in {"fails", "undefined"}
      BY <1>6, <2>4 DEF Agrees
    <3>2. Says(r.p, m) \in {"fails", "undefined"}
      BY <3>1, <2>1, <1>1, <1>2, <1>3, <1>4 DEF AndFacts, AndFails, AndUndefined, p
    <3> QED BY <3>2, <2>4, VerdictFacts DEF Agrees
  <2>5. CASE X = "undefined"
    <3>1. Says(rx.p, m) = "undefined"
      BY <1>6, <2>5 DEF Agrees
    <3>2. Says(r.p, m) = "undefined"
      BY <3>1, <2>1, <1>1, <1>2, <1>3, <1>4 DEF AndFacts, AndUndefined, p
    <3> QED BY <3>2, <2>5, VerdictFacts DEF Agrees
  <2> QED BY <2>3, <2>4, <2>5 DEF Outcomes
<1>7. e.late = {} /\ RunNarrows(rx) /\ RunNarrows(ry) => RunNarrows(r)
  BY <1>1, <1>2, <1>3, <1>4 DEF AndFacts, AndShrinks, RunNarrows, p
<1> QED BY <1>5, <1>6, <1>7

\* if g then x else y: the run of the branch g selects counts.
LEMMA ChoiceIs ==
    ASSUME NEW e \in Computation, ~IsLeaf(e), ~e.same, NEW rx, NEW ry, GoodRun(rx), GoodRun(ry),
           rx.p # unreachablePF, ry.p # unreachablePF, Swallowed(rx.p, ry.p, e.late),
           NEW g \in PartialF, Good(g), NEW t, NEW r, r = runChoice(e, g, rx, ry, t)
    PROVE  /\ Good(r.p) /\ Good(r.v)
           /\ \A m \in Assignment : \A M \in Outcomes :
                /\ Tells(g, m, "holds") /\ Agrees(rx, m, M) => Agrees(r, m, M)
                /\ Tells(g, m, "fails") /\ Agrees(ry, m, M) => Agrees(r, m, M)
           /\ \A m \in Assignment : Says(g, m) = "undefined" => Agrees(r, m, "undefined")
           /\ e.late = {} /\ Narrows(g) /\ RunNarrows(rx) /\ RunNarrows(ry) => RunNarrows(r)
<1> DEFINE c == Ite(g, rx.p, ry.p, e.same, e.late)
           p == itePF[c]
           d == Ite(g, rx.v, ry.v, e.same, {})
           v == itePF[d]
<1>1. /\ rx.p \in PartialF /\ ry.p \in PartialF /\ rx.v \in PartialF /\ ry.v \in PartialF
      /\ FFsOk(rx.p) /\ FFsOk(ry.p) /\ FFsOk(rx.v) /\ FFsOk(ry.v) /\ FFsOk(g)
      /\ Good(rx.p) /\ Good(ry.p) /\ Good(rx.v) /\ Good(ry.v)
  BY DEF GoodRun, Runs, Good
<1>2. /\ c \in IteDom /\ c.g = g /\ c.x = rx.p /\ c.y = ry.p /\ c.late = e.late /\ c.same = FALSE
      /\ d \in IteDom /\ d.g = g /\ d.x = rx.v /\ d.y = ry.v /\ d.late = {} /\ d.same = FALSE
  <2>1. e.late \in Lates /\ e.same = FALSE /\ {} \in Lates
    BY NodeIs DEF Lates
  <2> QED BY <1>1, <2>1 DEF Ite, IteDom
<1>3. IteFacts(c) /\ IteFacts(d)
  <2> HIDE DEF c, d
  <2>1. IteFacts(c)
    BY <1>2, IteIs DEF IteFacts
  <2>2. IteFacts(d)
    BY <1>2, IteIs DEF IteFacts
  <2> QED BY <2>1, <2>2
<1>4. r.p = p /\ r.v = v
  BY DEF runChoice, Ran
<1> HIDE DEF c, p, d, v
<1>5. LateHarmless(c) /\ LateHarmless(d) /\ Swallowed(d.x, d.y, d.late)
  BY <1>2 DEF LateHarmless, Swallowed
<1>6. FFsOk(r.p) /\ FFsOk(r.v)
  BY <1>1, <1>2, <1>3, <1>4 DEF IteFacts, IteFFs, p, v
<1>7. EndsCovered(r.p) /\ EndsCovered(r.v)
  BY <1>1, <1>2, <1>3, <1>4, <1>5 DEF IteFacts, IteEnds, p, v
<1>8. ASSUME NEW m \in Assignment, NEW b \in {"holds", "fails"}, NEW k, k = (IF b = "holds" THEN rx ELSE ry),
             Tells(g, m, b), NEW M \in Outcomes, Agrees(k, m, M)
      PROVE  Agrees(r, m, M)
  <2>1. \A z \in Verdicts : Tells(k.p, m, z) => Tells(p, m, z)
    <3>1. k.p = IF b = "holds" THEN c.x ELSE c.y
      BY <1>2, <1>8
    <3> QED BY <3>1, <1>1, <1>2, <1>3, <1>8 DEF IteFacts, IteTells, p
  <2>2. \A z \in Verdicts : Tells(k.v, m, z) => Tells(v, m, z)
    <3>1. k.v = IF b = "holds" THEN d.x ELSE d.y
      BY <1>2, <1>8
    <3> QED BY <3>1, <1>1, <1>2, <1>3, <1>5, <1>8 DEF IteFacts, IteTells, v
  <2>3. M \in Element => Tells(r.p, m, "holds") /\ Tells(r.v, m, VerdictOf(M))
    BY <2>1, <2>2, <1>4, <1>8, VerdictFacts DEF Agrees
  <2>4. M = "none" => Says(r.p, m) \in {"fails", "undefined"}
    <3>1. CASE Says(k.p, m) = "fails"
      BY <3>1, <2>1, <1>4, VerdictFacts
    <3>2. CASE Says(k.p, m) = "undefined"
      BY <3>2, <2>1, <1>4, VerdictFacts
    <3> QED BY <3>1, <3>2, <1>8 DEF Agrees
  <2>5. M = "undefined" => Says(r.p, m) = "undefined"
    BY <2>1, <1>4, <1>8, VerdictFacts DEF Agrees
  <2> QED BY <2>3, <2>4, <2>5 DEF Agrees
<1>9. ASSUME NEW m \in Assignment, Says(g, m) = "undefined" PROVE Agrees(r, m, "undefined")
  <2>1. Says(p, m) = "undefined"
    BY <1>1, <1>2, <1>3, <1>9 DEF IteFacts, IteUndefined, p
  <2> QED BY <2>1, <1>4, VerdictFacts DEF Agrees
<1>10. e.late = {} /\ Narrows(g) /\ RunNarrows(rx) /\ RunNarrows(ry) => RunNarrows(r)
  BY <1>1, <1>2, <1>3, <1>4 DEF IteFacts, IteShrinks, RunNarrows, p, v
<1>11. ASSUME NEW m \in Assignment, NEW M \in Outcomes
       PROVE  /\ Tells(g, m, "holds") /\ Agrees(rx, m, M) => Agrees(r, m, M)
              /\ Tells(g, m, "fails") /\ Agrees(ry, m, M) => Agrees(r, m, M)
  <2>1. Tells(g, m, "holds") /\ Agrees(rx, m, M) => Agrees(r, m, M)
    BY <1>8
  <2>2. Tells(g, m, "fails") /\ Agrees(ry, m, M) => Agrees(r, m, M)
    BY <1>8
  <2> QED BY <2>1, <2>2
<1> QED BY <1>6, <1>7, <1>9, <1>10, <1>11 DEF Good

-----------------------------------------------------------------------------
\* A run of e is good, and agrees with what e means.
RunGood(e) ==
    \A env \in PartialF, n \in Nat :
      Good(env) /\ Clear[e][env][n] =>
        LET r == runS[e][env][n]
        IN  /\ Good(r.p) /\ Good(r.v)
            /\ \A m \in Assignment, ev \in Element :
                 Tells(env, m, VerdictOf(ev)) => Agrees(r, m, Meaning[e][ev][m][n])
            /\ Timely[e] /\ Narrows(env) => RunNarrows(r)

\* A leaf runs to what it means.
LEMMA LeafGood ==
    ASSUME NEW e \in Computation, IsLeaf(e) PROVE RunGood(e)
<1> SUFFICES ASSUME NEW env \in PartialF, NEW n \in Nat, Good(env), NEW r, r = runS[e][env][n]
             PROVE  /\ Good(r.p) /\ Good(r.v)
                    /\ \A m \in Assignment, ev \in Element :
                         Tells(env, m, VerdictOf(ev)) => Agrees(r, m, Meaning[e][ev][m][n])
                    /\ Narrows(env) => RunNarrows(r)
  BY DEF RunGood
<1>1. r = runLeaf(e.op, env) /\ e.op \in LeafOps
  BY RunIs DEF IsLeaf
<1>2. \A m \in Assignment, ev \in Element : Meaning[e][ev][m][n] = leafMeaning(e.op, ev)
  BY MeaningIs
<1>3. /\ notF(env) \in PartialF /\ notF(env).end = env.end /\ Good(notF(env))
      /\ Narrows(env) => Narrows(notF(env))
      /\ \A m \in Assignment : Says(notF(env), m) = IF Says(env, m) = "holds" THEN "fails"
                                                    ELSE IF Says(env, m) = "fails" THEN "holds"
                                                    ELSE Says(env, m)
  BY NotFIs DEF Good
<1>4. /\ Good(unreachablePF) /\ Narrows(unreachablePF) /\ Good(Errors) /\ Narrows(Errors)
      /\ Good(Hangs) /\ Narrows(Hangs)
  BY Tails, TailProper DEF Good
<1>5. \A m : Says(Errors, m) = "undefined" /\ Says(Hangs, m) = "undefined"
  BY Tails, SaysTail
<1>6. /\ r.p = CASE e.op \in {"error"} -> Errors
                 [] e.op \in {"hang"} -> Hangs
                 [] e.op \in {"empty"} -> falseF
                 [] OTHER -> trueF
      /\ r.v = CASE e.op \in {"undefined", "error"} -> Errors
                 [] e.op = "hang" -> Hangs
                 [] e.op = "empty" -> unreachablePF
                 [] e.op = "true" -> trueF
                 [] e.op = "false" -> falseF
                 [] e.op = "var" -> env
                 [] e.op = "notvar" -> notF(env)
  BY <1>1 DEF runLeaf, Ran, LeafOps
<1>7. Good(r.p) /\ Good(r.v) /\ (Narrows(env) => RunNarrows(r))
  BY <1>1, <1>3, <1>4, <1>6, Literals DEF LeafOps, RunNarrows
<1>8. ASSUME NEW m \in Assignment, NEW ev \in Element, Tells(env, m, VerdictOf(ev))
      PROVE  Agrees(r, m, Meaning[e][ev][m][n])
  <2> DEFINE M == leafMeaning(e.op, ev)
  <2>1. Says(trueF, m) = "holds" /\ Says(falseF, m) = "fails"
    BY Literals
  <2>2. Tells(notF(env), m, VerdictOf(notElement(ev)))
    BY <1>3, <1>8 DEF Tells, VerdictOf, notElement, Element
  <2>3. M \in Element => Tells(r.p, m, "holds") /\ Tells(r.v, m, VerdictOf(M))
    BY <1>1, <1>5, <1>6, <1>8, <2>1, <2>2 DEF leafMeaning, LeafOps, Element, Tells, VerdictOf
  <2>4. M = "none" => Says(r.p, m) = "fails"
    BY <1>1, <1>6, <1>8, <2>1 DEF leafMeaning, LeafOps, Element, notElement
  <2>5. M = "undefined" => Says(r.p, m) = "undefined"
    BY <1>1, <1>5, <1>6, <1>8, <2>1 DEF leafMeaning, LeafOps, Element, notElement
  <2>6. M = Meaning[e][ev][m][n]
    BY <1>2
  <2> HIDE DEF M
  <2> QED BY <2>3, <2>4, <2>5, <2>6 DEF Agrees
<1> QED BY <1>7, <1>8

\* A node does if its parts do: BodyIs and ChoiceIs.
LEMMA NodeGood ==
    ASSUME NEW e \in Computation, ~IsLeaf(e), RunGood(e.x), RunGood(e.y) PROVE RunGood(e)
<1> SUFFICES ASSUME NEW env \in PartialF, NEW n \in Nat, Good(env), Clear[e][env][n],
                    NEW r, r = runS[e][env][n]
             PROVE  /\ Good(r.p) /\ Good(r.v)
                    /\ \A m \in Assignment, ev \in Element :
                         Tells(env, m, VerdictOf(ev)) => Agrees(r, m, Meaning[e][ev][m][n])
                    /\ Timely[e] /\ Narrows(env) => RunNarrows(r)
  BY DEF RunGood
<1> DEFINE nx == NextX(e, n)
           ny == NextY(e, n)
           rx == runS[e.x][env][nx]
           b == Bound(e, env, rx)
           ry == runS[e.y][b][ny]
           X(ev, m) == Meaning[e.x][ev][m][nx]
           Y(ev, m) == Meaning[e.y][ev][m][ny]
<1>1. rx \in Runs /\ ry \in Runs /\ b \in PartialF /\ r = runNode(e, env, n, rx, ry)
  BY RunIs
<1>2. /\ nx \in Nat /\ ny \in Nat /\ e.x \in Computation /\ e.y \in Computation /\ e.op \in NodeOps
  BY NextTypes, NodeIs
<1>3. /\ ~e.same /\ (e.op # "bind" => Swallowed(rx.p, ry.p, e.late))
      /\ Clear[e.x][env][nx] /\ Clear[e.y][b][ny]
  BY ClearIs
<1>4. \A ev \in Element : \A m \in Assignment :
        /\ X(ev, m) \in Outcomes /\ Y(ev, m) \in Outcomes
        /\ Meaning[e][ev][m][n] =
             IF e.op = "bind" THEN IF X(ev, m) \in Element THEN Y(X(ev, m), m) ELSE X(ev, m)
             ELSE IF e.op = "union" THEN IF m[n] THEN X(ev, m) ELSE Y(ev, m)
             ELSE IF ev = "T" THEN X(ev, m)
             ELSE IF ev = "F" THEN Y(ev, m)
             ELSE "undefined"
  <2> SUFFICES ASSUME NEW ev \in Element, NEW m \in Assignment
               PROVE  /\ X(ev, m) \in Outcomes /\ Y(ev, m) \in Outcomes
                      /\ Meaning[e][ev][m][n] =
                           IF e.op = "bind" THEN IF X(ev, m) \in Element THEN Y(X(ev, m), m) ELSE X(ev, m)
                           ELSE IF e.op = "union" THEN IF m[n] THEN X(ev, m) ELSE Y(ev, m)
                           ELSE IF ev = "T" THEN X(ev, m)
                           ELSE IF ev = "F" THEN Y(ev, m)
                           ELSE "undefined"
    OBVIOUS
  <2> QED BY MeaningIs
<1>5. Timely[e] => e.late = {} /\ Timely[e.x] /\ Timely[e.y]
  <2>1. Timely[e] = TimelyFn(Timely, e)
    BY TimelyEquation
  <2> QED BY <2>1 DEF TimelyFn
<1>6. /\ Good(rx.p) /\ Good(rx.v)
      /\ \A m \in Assignment, ev \in Element : Tells(env, m, VerdictOf(ev)) => Agrees(rx, m, X(ev, m))
      /\ Timely[e.x] /\ Narrows(env) => RunNarrows(rx)
      /\ rx.p # unreachablePF
  <2>1. rx.p # unreachablePF
    BY <1>2, <1>3, ClearIs
  <2> QED BY <1>2, <1>3, <2>1 DEF RunGood
<1>7. b = IF e.op = "bind" THEN rx.v ELSE env
  BY DEF Bound
<1> HIDE DEF nx, ny, rx, b
<1>8. Good(b)
  BY <1>6, <1>7
<1>9. /\ Good(ry.p) /\ Good(ry.v)
      /\ \A m \in Assignment, ev \in Element : Tells(b, m, VerdictOf(ev)) => Agrees(ry, m, Y(ev, m))
      /\ Timely[e.y] /\ Narrows(b) => RunNarrows(ry)
      /\ ry.p # unreachablePF
  <2>1. ry.p # unreachablePF
    BY <1>1, <1>2, <1>3, ClearIs
  <2> QED BY <1>1, <1>2, <1>3, <1>8, <2>1 DEF RunGood
<1> HIDE DEF ry, X, Y
<1>10. GoodRun(rx) /\ GoodRun(ry)
  BY <1>1, <1>6, <1>9 DEF GoodRun
<1>11. CASE e.op = "bind"
  <2>1. r = runBody(e, rx, ry) /\ b = rx.v
    BY <1>1, <1>7, <1>11 DEF runNode
  <2>2. /\ Good(r.p) /\ Good(r.v)
        /\ \A m \in Assignment : \A x, y \in Outcomes :
             Agrees(rx, m, x) /\ (x \in Element => Agrees(ry, m, y))
               => Agrees(r, m, IF x \in Element THEN y ELSE x)
        /\ e.late = {} /\ RunNarrows(rx) /\ RunNarrows(ry) => RunNarrows(r)
    BY <2>1, <1>9, <1>10, BodyIs
  <2>3. ASSUME NEW m \in Assignment, NEW ev \in Element, Tells(env, m, VerdictOf(ev))
        PROVE  Agrees(r, m, Meaning[e][ev][m][n])
    <3> DEFINE x == X(ev, m)
               y == IF x \in Element THEN Y(x, m) ELSE "none"
    <3>1. x \in Outcomes /\ Agrees(rx, m, x)
      BY <1>4, <1>6, <2>3
    <3>2. y \in Outcomes
      BY <1>4 DEF Outcomes
    <3>3. x \in Element => Agrees(ry, m, y)
      <4>1. x \in Element => Tells(b, m, VerdictOf(x))
        BY <2>1, <3>1 DEF Agrees
      <4> QED BY <4>1, <1>9
    <3>4. Agrees(r, m, IF x \in Element THEN y ELSE x)
      <4> HIDE DEF x, y
      <4> QED BY <2>2, <3>1, <3>2, <3>3
    <3>5. Meaning[e][ev][m][n] = IF x \in Element THEN y ELSE x
      BY <1>4, <1>11
    <3> QED BY <3>4, <3>5
  <2>4. Timely[e] /\ Narrows(env) => RunNarrows(r)
    BY <1>5, <1>6, <1>9, <2>1, <2>2 DEF RunNarrows
  <2> QED BY <2>2, <2>3, <2>4
<1>12. CASE e.op # "bind"
  <2> DEFINE g == IF e.op = "union" THEN lit(n) ELSE env
  <2>1. PICK t : r = runChoice(e, g, rx, ry, t)
    BY <1>1, <1>2, <1>12 DEF runNode, NodeOps
  <2>2. /\ g \in PartialF /\ Good(g) /\ (Narrows(env) => Narrows(g))
    BY Literals
  <2>3. /\ Good(r.p) /\ Good(r.v)
        /\ \A m \in Assignment : \A M \in Outcomes :
             /\ Tells(g, m, "holds") /\ Agrees(rx, m, M) => Agrees(r, m, M)
             /\ Tells(g, m, "fails") /\ Agrees(ry, m, M) => Agrees(r, m, M)
        /\ \A m \in Assignment : Says(g, m) = "undefined" => Agrees(r, m, "undefined")
        /\ e.late = {} /\ Narrows(g) /\ RunNarrows(rx) /\ RunNarrows(ry) => RunNarrows(r)
    <3> HIDE DEF g
    <3> QED BY <2>1, <2>2, <1>3, <1>6, <1>9, <1>10, <1>12, ChoiceIs
  <2>4. b = env
    BY <1>7, <1>12
  <2>5. ASSUME NEW m \in Assignment, NEW ev \in Element, Tells(env, m, VerdictOf(ev))
        PROVE  Agrees(r, m, Meaning[e][ev][m][n])
    <3>1. /\ X(ev, m) \in Outcomes /\ Agrees(rx, m, X(ev, m))
          /\ Y(ev, m) \in Outcomes /\ Agrees(ry, m, Y(ev, m))
      BY <1>4, <1>6, <1>9, <2>4, <2>5
    <3>2. CASE e.op = "union"
      <4>1. Says(g, m) = IF m[n] THEN "holds" ELSE "fails"
        BY <3>2, Literals
      <4>2. IF m[n] THEN Tells(g, m, "holds") ELSE Tells(g, m, "fails")
        BY <4>1 DEF Tells
      <4>3. Meaning[e][ev][m][n] = IF m[n] THEN X(ev, m) ELSE Y(ev, m)
        BY <1>4, <3>2
      <4> HIDE DEF g
      <4> QED BY <4>2, <4>3, <3>1, <2>3
    <3>3. CASE e.op # "union"
      <4>1. g = env
        BY <3>3
      <4> HIDE DEF g
      <4>2. CASE ev = "T"
        BY <4>1, <4>2, <3>1, <3>3, <2>3, <2>5, <1>4, <1>12 DEF VerdictOf
      <4>3. CASE ev = "F"
        BY <4>1, <4>3, <3>1, <3>3, <2>3, <2>5, <1>4, <1>12 DEF VerdictOf
      <4>4. CASE ev # "T" /\ ev # "F"
        <5>1. Says(g, m) = "undefined"
          BY <4>1, <4>4, <2>5, VerdictFacts DEF VerdictOf
        <5> QED BY <5>1, <4>4, <3>3, <2>3, <1>4, <1>12
      <4> QED BY <4>2, <4>3, <4>4
    <3> QED BY <3>2, <3>3
  <2>6. Timely[e] /\ Narrows(env) => RunNarrows(r)
    BY <1>5, <1>6, <1>9, <2>2, <2>3, <2>4
  <2> QED BY <2>3, <2>5, <2>6
<1> QED BY <1>11, <1>12

\* runS: whatever the environment and the next identifier, the formulas of a
\* run that stays clear say of every assignment what the computation means under
\* it, "holds" exactly of those that give an element.
THEOREM RunGoodAll == \A e \in Computation : RunGood(e)
<1> DEFINE P == {e \in Computation : RunGood(e)}
<1>1. ASSUME NEW e \in Computation, ~IsLeaf(e) => e.x \in P /\ e.y \in P PROVE e \in P
  BY <1>1, LeafGood, NodeGood
<1>2. P \in SUBSET Computation
  OBVIOUS
<1> HIDE DEF P
<1>3. P = Computation
  BY <1>1, <1>2, PartsInduction
<1> QED BY <1>3 DEF P

-----------------------------------------------------------------------------
\* The formula of a computation.

\* Levels that decide less than the one before decide less than all before.
LEMMA ShrinkAll ==
    ASSUME NEW f \in PartialF, Shrinks(f), NEW i \in 1..Len(f.levels), NEW j \in 1..Len(f.levels), i <= j
    PROVE  f.levels[j].p.sat \subseteq f.levels[i].p.sat
<1> DEFINE n == Len(f.levels)
           Bad == {k \in Nat : k \in i..n /\ ~(f.levels[k].p.sat \subseteq f.levels[i].p.sat)}
<1>1. n \in Nat
  BY LevelsTyped
<1> SUFFICES ASSUME j \in Bad PROVE FALSE
  BY <1>1
<1>2. PICK k \in Bad : \A l \in Bad : k <= l
  <2>1. Bad \subseteq Nat /\ Bad # {}
    OBVIOUS
  <2> HIDE DEF Bad
  <2> QED BY <2>1, NatMin
<1>3. k # i /\ k - 1 \in i..n /\ k - 1 \in Nat /\ k - 1 \in 1..n - 1 /\ (k - 1) + 1 = k
  BY <1>1, <1>2
<1>4. k - 1 \notin Bad
  BY <1>2, <1>3
<1>5. f.levels[k - 1].p.sat \subseteq f.levels[i].p.sat
  BY <1>3, <1>4
<1>6. f.levels[k].p.sat \subseteq f.levels[k - 1].p.sat
  <2>1. f.levels[(k - 1) + 1].p.sat \subseteq f.levels[k - 1].p.sat
    BY <1>3 DEF Shrinks
  <2> QED BY <2>1, <1>3
<1> QED BY <1>2, <1>5, <1>6

\* What the code of a computation gives is proper in the sense of Search.
LEMMA ProperIs ==
    ASSUME NEW f \in PartialF, f # unreachablePF
    PROVE  /\ EndsCovered(f) => EndsTotal(Levels[f])
           /\ Shrinks(f) => CoversShrink(Levels[f])
<1>1. /\ Levels[f].end = f.end /\ Len(Levels[f].levels) = Len(f.levels)
      /\ \A i \in 1..Len(f.levels) : Levels[f].levels[i].p = f.levels[i].p.sat
      /\ Len(f.levels) \in Nat
  BY LevelsIs, LevelsTyped
<1>2. ASSUME EndsCovered(f), f.end = "unreachable"
      PROVE  Len(f.levels) > 0 /\ Levels[f].levels[Len(f.levels)].p = Assignment
  <2>1. IsLevel(f)
    BY <1>2, TailIs, Tails
  <2>2. f.levels # <<>> /\ Len(f.levels) > 0
    <3>1. f.levels \in Seq(Level_)
      BY LevelsTyped
    <3> QED BY <2>1, <3>1 DEF IsLevel
  <2> QED BY <1>1, <1>2, <2>2 DEF EndsCovered
<1>3. ASSUME Shrinks(f), NEW i \in 1..Len(f.levels), NEW j \in 1..Len(f.levels), i <= j
      PROVE  Levels[f].levels[j].p \subseteq Levels[f].levels[i].p
  BY <1>1, <1>3, ShrinkAll
<1> QED BY <1>1, <1>2, <1>3 DEF EndsTotal, CoversShrink

-----------------------------------------------------------------------------
\* No computation searched runs to Unreachable_PartialF, nor a part of it.
AllClear == \A e \in Exprs : Clear[e][Errors][1]

\* The variables no step changes, and what their values have in common.
RunStarted == /\ expr \in Exprs
              /\ run = Run(expr)
              /\ form = Levels[run.p]

\* The run of the computation searched, and what the loop sees of it.
LEMMA RunFacts ==
    ASSUME RunStarted
    PROVE  /\ expr \in Computation /\ run \in Runs
           /\ \A m \in Assignment : /\ Means(expr, m) \in Outcomes
                                    /\ Denotes(form, m) = Says(run.p, m)
                                    /\ Means(expr, m) \in Element => Realized(m) = Means(expr, m)
           /\ form.end = run.p.end
<1>1. expr \in Computation /\ Errors \in PartialF /\ 1 \in Nat /\ "raises" \in Element
  BY SpaceAssumption, Tails DEF RunStarted, Element
<1>2. run = runS[expr][Errors][1]
  BY DEF RunStarted, Run
<1>3. run \in Runs
  BY <1>1, <1>2, RunIs
<1>4. \A m \in Assignment : Means(expr, m) \in Outcomes
  BY <1>1, MeaningIs DEF Means
<1>5. \A m \in Assignment : Means(expr, m) \in Element => Realized(m) = Means(expr, m)
  BY <1>1, <1>2, RelMeansAll DEF RelMeans, Means, Realized
<1>6. form.end = run.p.end
  <2>1. run.p \in PartialF
    BY <1>3 DEF Runs
  <2> QED BY <2>1, LevelsIs DEF RunStarted
<1>7. \A m : Denotes(form, m) = Says(run.p, m)
  BY DEF RunStarted, Says
<1> QED BY <1>1, <1>3, <1>4, <1>5, <1>6, <1>7

\* It is proper, and agrees with what the computation means.
LEMMA RunAgrees ==
    ASSUME AllClear, RunStarted
    PROVE  /\ Good(run.p) /\ Good(run.v) /\ run.p # unreachablePF
           /\ \A m \in Assignment : Agrees(run, m, Means(expr, m))
           /\ Timely[expr] => RunNarrows(run)
<1>1. expr \in Computation /\ Errors \in PartialF /\ 1 \in Nat /\ "raises" \in Element
  BY RunFacts, Tails DEF Element
<1>2. run = runS[expr][Errors][1] /\ Clear[expr][Errors][1]
  BY DEF RunStarted, Run, AllClear
<1>3. Good(Errors) /\ Narrows(Errors) /\ \A m : Tells(Errors, m, VerdictOf("raises"))
  BY Tails, TailProper, TailTells, VerdictFacts DEF Good, VerdictOf
<1>4. RunGood(expr)
  BY <1>1, RunGoodAll
<1>5. /\ Good(run.p) /\ Good(run.v)
      /\ \A m \in Assignment : Agrees(run, m, Means(expr, m))
      /\ Timely[expr] => RunNarrows(run)
  BY <1>1, <1>2, <1>3, <1>4 DEF RunGood, Means
<1>6. run.p # unreachablePF
  BY <1>1, <1>2, ClearIs
<1> QED BY <1>5, <1>6

\* The formula is faithful, and proper.
LEMMA FormulaFacts ==
    ASSUME AllClear, RunStarted PROVE Faithful /\ Proper /\ SolverSeesNoUnreachable
<1>1. /\ Good(run.p) /\ run.p # unreachablePF
      /\ \A m \in Assignment : Agrees(run, m, Means(expr, m))
      /\ Timely[expr] => RunNarrows(run)
  BY RunAgrees
<1>2. /\ run.p \in PartialF
      /\ \A m \in Assignment : Means(expr, m) \in Outcomes /\ Denotes(form, m) = Says(run.p, m)
      /\ form.end = run.p.end
  BY RunFacts DEF Runs
<1>3. Faithful
  <2> SUFFICES ASSUME NEW m \in Assignment
               PROVE  /\ Says(run.p, m) = "holds" => Means(expr, m) \in Element
                      /\ Says(run.p, m) = "fails" => Means(expr, m) = "none"
                      /\ Means(expr, m) = "undefined" => Says(run.p, m) = "undefined"
                      /\ Means(expr, m) \in Element /\ run.p.end # "hang" => Says(run.p, m) = "holds"
    BY <1>2 DEF Faithful
  <2>1. Agrees(run, m, Means(expr, m)) /\ Means(expr, m) \in Outcomes
    BY <1>1, <1>2
  <2>2. /\ Means(expr, m) \in Element => Says(run.p, m) = "holds"
                                         \/ (Says(run.p, m) = "undefined" /\ run.p.end = "hang")
        /\ Means(expr, m) = "none" => Says(run.p, m) \in {"fails", "undefined"}
        /\ Means(expr, m) = "undefined" => Says(run.p, m) = "undefined"
    BY <2>1 DEF Agrees, Tells
  <2> QED BY <2>1, <2>2 DEF Outcomes
<1>4. Proper
  <2>1. EndsCovered(run.p) /\ (Timely[expr] => Shrinks(run.p)) /\ form = Levels[run.p]
    BY <1>1 DEF Good, RunNarrows, Narrows, RunStarted
  <2>2. EndsTotal(form) /\ (Timely[expr] => CoversShrink(form))
    BY <1>1, <1>2, <2>1, ProperIs
  <2> QED BY <2>2 DEF Proper
<1>5. SolverSeesNoUnreachable
  <2> SUFFICES ASSUME NEW i \in 1..Len(run.p.levels)
               PROVE  /\ run.p.levels[i].p.class # "unreachable"
                      /\ run.p.levels[i].a.class = "unreachable" => run.p.levels[i].p = FalseFF
    BY DEF SolverSeesNoUnreachable
  <2>1. run.p.levels[i].p \in BoolFF /\ run.p.levels[i].a \in BoolFF
    BY <1>2, LevelsTyped
  <2>2. /\ run.p.levels[i].p # Unreachable_BoolFF
        /\ run.p.levels[i].a = Unreachable_BoolFF => run.p.levels[i].p = FalseFF
    BY <1>1 DEF Good, FFsOk
  <2>3. \A a \in BoolFF : a.class = "unreachable" <=> a = Unreachable_BoolFF
    BY DEF BoolFF, TrueFF, FalseFF, Unreachable_BoolFF
  <2> QED BY <2>1, <2>2, <2>3
<1> QED BY <1>3, <1>4, <1>5

-----------------------------------------------------------------------------
\* The temporal theorems.

\* SpaceSpec is Search's Spec, with two more variables that stay.
LEMMA SpaceIsSearch == SpaceSpec => Spec
<1>1. SpaceInit => Init
  <2> SUFFICES ASSUME SpaceInit PROVE Init
    OBVIOUS
  <2>1. form = FormulaOf(expr) /\ expr \in Exprs
    BY DEF SpaceInit, FormulaOf
  <2>2. form \in Formulas
    BY <2>1, SpaceSearchAssumption
  <2> QED BY <2>2 DEF SpaceInit, Init
<1>2. [SpaceNext]_spaceVars => [Next]_vars
  BY DEF SpaceNext, spaceVars, vars
<1> QED BY <1>1, <1>2, PTL DEF SpaceSpec, Spec

\* No step changes the computation, its run and its formula.
LEMMA RunStays == SpaceSpec => []RunStarted
<1>1. SpaceInit => RunStarted
  BY DEF SpaceInit, RunStarted
<1>2. RunStarted /\ [SpaceNext]_spaceVars => RunStarted'
  <2> SUFFICES ASSUME RunStarted, [SpaceNext]_spaceVars PROVE RunStarted'
    OBVIOUS
  <2>1. expr' = expr /\ run' = run
    BY DEF SpaceNext, spaceVars
  <2>2. form' = form
    BY DEF SpaceNext, spaceVars, vars, Next, DeBoolF, SolveFinite, SolveApprox, SolverFails,
           Interrupted, Finish
  <2> QED BY <2>1, <2>2 DEF RunStarted
<1> QED BY <1>1, <1>2, PTL DEF SpaceSpec

\* What every state of a search satisfies: the loop's invariant, and the run.
LEMMA SpaceInvariance == SpaceSpec => []IInv /\ []RunStarted
  BY SpaceIsSearch, RunStays, Invariance, PTL

-----------------------------------------------------------------------------
\* The formula runS builds is faithful: it holds only under assignments that
\* give an element, and under all of them unless its evaluation never ends.
THEOREM FaithfulThm == ASSUME AllClear PROVE SpaceSpec => []Faithful
<1>1. RunStarted => Faithful
  BY FormulaFacts
<1> QED BY <1>1, RunStays, PTL

\* The formula runS builds is one the loop of search can be given: it does not
\* run into its end, and without Timeouts its levels decide less and less.
THEOREM ProperThm == ASSUME AllClear PROVE SpaceSpec => []Proper
<1>1. RunStarted => Proper
  BY FormulaFacts
<1> QED BY <1>1, RunStays, PTL

\* No query of solve holds Unreachable_BoolFF, which build has no case for.
THEOREM SolverSeesNoUnreachableThm ==
    ASSUME AllClear PROVE SpaceSpec => []SolverSeesNoUnreachable
<1>1. RunStarted => SolverSeesNoUnreachable
  BY FormulaFacts
<1> QED BY <1>1, RunStays, PTL

\* An element returned is the one of the model.
LEMMA JustRealizesHolds == ASSUME AllClear PROVE IInv /\ RunStarted => JustRealizes
<1> SUFFICES ASSUME IInv, RunStarted, result.kind = "just" PROVE
             /\ Means(expr, result.model) \in Element
             /\ Realized(result.model) = Means(expr, result.model)
  BY DEF JustRealizes
<1>1. result.model \in Assignment
  <2>1. result \in [kind : {"just"}, model : Assignment] \cup [kind : Kinds, model : {NoAssignment}]
    BY DEF IInv, TypeOK
  <2> QED BY <2>1 DEF Kinds
<1>2. Denotes(form, result.model) = "holds"
  BY <1>1, JustIsElementHolds, HoldsMeans DEF JustIsElement
<1>3. Means(expr, result.model) \in Element
  BY <1>1, <1>2, FormulaFacts DEF Faithful
<1> QED BY <1>1, <1>3, RunFacts

\* Just v: the model search found satisfies the formula, the computation means
\* an element under it, and relS reads that element off the decision tree.
THEOREM JustRealizesThm == ASSUME AllClear PROVE SpaceSpec => []JustRealizes
  BY JustRealizesHolds, SpaceInvariance, PTL

\* Nothing is returned of a computation without elements.
LEMMA NothingHasNoneHolds == ASSUME AllClear PROVE IInv /\ RunStarted => NothingHasNone
  BY NothingIsEmptyHolds, FormulaFacts DEF NothingIsEmpty, Faithful, NothingHasNone

\* Nothing: under no assignment does the computation give an element, and under
\* none is it undefined.
THEOREM NothingHasNoneThm == ASSUME AllClear PROVE SpaceSpec => []NothingHasNone
  BY NothingHasNoneHolds, SpaceInvariance, PTL

\* An error is raised only of a computation without elements.
LEMMA ErrorsAreFairHolds == ASSUME AllClear PROVE IInv /\ RunStarted => ErrorsAreFair
<1> SUFFICES ASSUME IInv, RunStarted, result.kind \in {"raised", "no_match"}, NEW m \in Assignment
             PROVE  Means(expr, m) \notin Element
  BY DEF ErrorsAreFair
<1>1. result.kind = "raised"
  <2>1. EndsTotal(form)
    BY FormulaFacts DEF Proper
  <2> QED BY <2>1, NeverNoMatchHolds DEF NeverNoMatch
<1>2. form.end = "error" /\ ~Holds(form, m)
  BY <1>1, ErrorOnlyIfNoElementHolds DEF IInv, Answers, ErrorOnlyIfNoElement
<1>3. Denotes(form, m) # "holds"
  BY <1>2, HoldsMeans
<1> QED BY <1>2, <1>3, FormulaFacts DEF Faithful

\* search raises an error only if no choice gives an element, and never the
\* pattern failure of deBoolF.
THEOREM ErrorsAreFairThm == ASSUME AllClear PROVE SpaceSpec => []ErrorsAreFair
  BY ErrorsAreFairHolds, SpaceInvariance, PTL

-----------------------------------------------------------------------------
\* The formula of a computation that no Timeout cuts short decides less and less.
LEMMA FormulasProper ==
    ASSUME AllClear, NEW e \in Exprs, Timely[e]
    PROVE  EndsTotal(FormulaOf(e)) /\ CoversShrink(FormulaOf(e))
<1>1. e \in Computation /\ Errors \in PartialF /\ 1 \in Nat /\ "raises" \in Element
  BY SpaceAssumption, Tails DEF Element
<1>2. Good(Errors) /\ Narrows(Errors) /\ \A m : Tells(Errors, m, VerdictOf("raises"))
  BY Tails, TailProper, TailTells, VerdictFacts DEF Good, VerdictOf
<1>3. Run(e) = runS[e][Errors][1] /\ Clear[e][Errors][1]
  BY DEF Run, AllClear
<1>4. Good(Run(e).p) /\ RunNarrows(Run(e))
  BY <1>1, <1>2, <1>3, RunGoodAll DEF RunGood
<1>5. Run(e).p # unreachablePF /\ Run(e).p \in PartialF
  BY <1>1, <1>3, ClearIs, RunIs DEF Runs
<1> QED BY <1>4, <1>5, ProperIs DEF FormulaOf, Good, RunNarrows, Narrows

\* Searching computations that no Timeout cuts short keeps the documented
\* promise of search, and it is the result of every such call that is shown:
\* the whole of it implements SearchSpec.
THEOREM SpaceKeepsPromise ==
    ASSUME AllClear, \A e \in Exprs : Timely[e] PROVE SpaceSpec => Promise /\ [](Shown = result)
<1>1. \A f \in Formulas : WellFormed(f)
  BY FormulasProper, SpaceSearchAssumption DEF WellFormed
<1>2. IInv => Shown = result
  BY <1>1 DEF IInv, TypeOK, Shown
<1> QED BY <1>2, SpaceIsSearch, SpaceInvariance, Refinement, PTL
=============================================================================
