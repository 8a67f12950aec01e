------------------------------- MODULE Search -------------------------------
(***************************************************************************)
(* The loop of `search' (Smten/Compiled/Smten/Search/Prim.hs) over the     *)
(* partial boolean formula of a Space computation.                         *)
(*                                                                         *)
(* A partial formula (PartialF.hs) is a list of levels                     *)
(*     PartialF p1 a1 (PartialF p2 a2 (... end))                           *)
(* read "if p1 then a1 else if p2 then a2 else ... end".  The finite       *)
(* formulas p and a are abstracted to the set of assignments that satisfy  *)
(* them.  (a is Unreachable_BoolFF only where p is FalseFF, and andFF      *)
(* makes that FalseFF: {} stands for it.)  `end' is Unreachable_PartialF,  *)
(* or a tail whose evaluation raises an error, or one that never reaches   *)
(* weak head normal form.                                                  *)
(***************************************************************************)
EXTENDS Naturals, Sequences, Assignments

CONSTANTS NoAssignment, \* a value that is not an assignment
          Formulas      \* the partial formulas search is called with

Level == [p : SUBSET Assignment, a : SUBSET Assignment]
End == {"unreachable", "error", "hang"}
PartialSat == [levels : Seq(Level), end : End]

\* It is not itself unreachable, and ends in Unreachable_PartialF only after a
\* level that decides every assignment.
EndsTotal(f) == f.end = "unreachable" => /\ Len(f.levels) > 0
                                         /\ f.levels[Len(f.levels)].p = Assignment

\* Levels that decide no more than the one before them.  So they are unless an
\* asynchronous exception cut the evaluation of a branch short (Select.hs).
CoversShrink(f) == \A i, j \in 1..Len(f.levels) : i <= j => f.levels[j].p \subseteq f.levels[i].p

ASSUME SearchAssumption ==
    /\ Assignment # {} /\ NoAssignment \notin Assignment
    /\ Formulas \subseteq PartialSat

-----------------------------------------------------------------------------
\* What a partial formula denotes.

Decides(f, i, m) == /\ m \in f.levels[i].p
                    /\ \A j \in 1..(i - 1) : m \notin f.levels[j].p

Undecided(f, m) == \A i \in 1..Len(f.levels) : m \notin f.levels[i].p

Holds(f, m) == \E i \in 1..Len(f.levels) : Decides(f, i, m) /\ m \in f.levels[i].a

Denotes(f, m) ==
    IF Undecided(f, m) THEN IF f.end = "unreachable" THEN "unreachable" ELSE "undefined"
    ELSE IF Holds(f, m) THEN "holds" ELSE "fails"

-----------------------------------------------------------------------------
\* Finite.hs on sets of assignments, and the operations of BoolF.hs on levels.

andSat(x, y) == x \cap y

notSat(x) == Assignment \ x

\* Mutant of andF_: what the levels passed have decided is forgotten.
andF_Forgets(x, f) == f

\* andF_ x y = unaryPF (andFF x) y
andF_(x, f) ==
    [levels |-> [i \in 1..Len(f.levels) |->
                   [p |-> f.levels[i].p, a |-> andSat(x, f.levels[i].a)]],
     end |-> f.end]

\* The third component of deBoolF.
Behind(f) == [levels |-> Tail(f.levels), end |-> f.end]

-----------------------------------------------------------------------------
VARIABLES form,  \* the formula runS gave, which no step changes
          q,     \* the formula of the Space the loop is at
          pc,    \* "run", "solve" (finite part), "approx", "done"
          result \* what the call did, as in SearchSpec

vars == <<form, q, pc, result>>

None(kind) == [kind |-> kind, model |-> NoAssignment]
Pending == None("pending")

pp == Head(q.levels).p
pa == Head(q.levels).a

Finish(r) == /\ pc' = "done"
             /\ result' = r
             /\ UNCHANGED <<form, q>>

Init == /\ form \in Formulas
        /\ q = form
        /\ pc = "run"
        /\ result = Pending

\* Mutant of DeBoolF: the levels are passed over when an error lies behind them.
DeBoolFEager ==
    /\ pc = "run"
    /\ \/ /\ q.end # "error"
          /\ q.levels # <<>>
          /\ pc' = "solve"
          /\ UNCHANGED <<form, q, result>>
       \/ /\ q.end = "error"
          /\ Finish(None("raised"))

\* case runS q () of (p, x, t) | (pp, pa, pb) <- deBoolF p
DeBoolF ==
    /\ pc = "run"
    /\ \/ /\ q.levels # <<>>
          /\ pc' = "solve"
          /\ UNCHANGED <<form, q, result>>
       \/ /\ q.levels = <<>>
          /\ q.end = "error"
          /\ Finish(None("raised"))
       \/ /\ q.levels = <<>>
          /\ q.end = "unreachable"
          /\ Finish(None("no_match"))  \* deBoolF has no case for it

\* ares <- solve s (pp `andFF` pa)
SolveFinite ==
    /\ pc = "solve"
    /\ LET query == andSat(pp, pa)
       IN  \/ \E m \in query : Finish([kind |-> "just", model |-> m])
           \/ /\ query = {}
              /\ pc' = "approx"
              /\ UNCHANGED <<form, q, result>>

\* Mutants of SolveApprox: no second check, and Nothing; no second check, and
\* on to the tail; the same formula again.
SolveApproxStops == /\ pc = "approx"
                    /\ Finish(None("nothing"))

SolveApproxGoesOn == /\ pc = "approx"
                     /\ q' = andF_(notSat(pp), Behind(q))
                     /\ pc' = "run"
                     /\ UNCHANGED <<form, result>>

SolveApproxRepeats ==
    /\ pc = "approx"
    /\ \/ /\ notSat(pp) = {}
          /\ Finish(None("nothing"))
       \/ /\ notSat(pp) # {}
          /\ q' = andF_(notSat(pp), q)
          /\ pc' = "run"
          /\ UNCHANGED <<form, result>>

\* bres <- solve s (notFF pp)
SolveApprox ==
    /\ pc = "approx"
    /\ \/ /\ notSat(pp) = {}
          /\ Finish(None("nothing"))
       \/ /\ notSat(pp) # {}
          /\ q' = andF_(notSat(pp), Behind(q))
          /\ pc' = "run"
          /\ UNCHANGED <<form, result>>

\* solve raises: the solver answers unknown, rejects the formula, ...
SolverFails == /\ pc \in {"solve", "approx"}
               /\ Finish(None("solver_error"))

\* An asynchronous exception: System.Timeout around the call, Ctrl-C.
Interrupted == /\ pc # "done"
               /\ Finish(None("interrupted"))

Next == DeBoolF \/ SolveFinite \/ SolveApprox \/ SolverFails \/ Interrupted

Spec == Init /\ [][Next]_vars

\* The call's thread runs, and each solve answers or fails.
FairSpec == Spec /\ WF_vars(DeBoolF \/ SolveFinite \/ SolveApprox)

-----------------------------------------------------------------------------
Kinds == {"pending", "nothing", "raised", "no_match", "solver_error", "interrupted"}

\* The values the variables take.
TypeOK == /\ form \in Formulas
          /\ q \in PartialSat
          /\ pc \in {"run", "solve", "approx", "done"}
          /\ result \in [kind : {"just"}, model : Assignment]
                          \cup [kind : Kinds, model : {NoAssignment}]
          /\ pc \in {"solve", "approx"} => q.levels # <<>>

\* Just v: the model the solver gave at whatever depth the loop had reached
\* satisfies the formula the call started from, not only the rewritten one.
JustIsElement == result.kind = "just" => Holds(form, result.model)

\* Nothing is returned only when every assignment was decided, and decided
\* false, at one of the levels already passed: never because the last check
\* looked at one level's guard only.
NothingIsEmpty ==
    result.kind = "nothing" => \A m \in Assignment : Denotes(form, m) = "fails"

\* Fairness: an error is never reached if there is a satisfying assignment
\* (Tests/SMT/Error.hs), at any level and behind any tail.
ErrorOnlyIfNoElement ==
    result.kind = "raised" => \A m \in Assignment : ~Holds(form, m)

\* deBoolF, which has no case for Unreachable_PartialF, is never called on it:
\* the loop stops before the end of a formula that ends properly.
NeverNoMatch == EndsTotal(form) => result.kind # "no_match"

\* An error that is raised is one the computation has: some assignment is
\* undefined.  True of the formulas whose levels decide less and less.
ErrorIsReal ==
    (result.kind = "raised" /\ CoversShrink(form)) =>
        \E m \in Assignment : Denotes(form, m) = "undefined"

-----------------------------------------------------------------------------
\* The call ends unless the tail of the formula never evaluates.
Terminates == (form.end # "hang") ~> (pc = "done")

\* A satisfying assignment is found, or the call is cut short, even when what
\* lies behind the levels raises an error or never ends.
FindsElement ==
    (\E m \in Assignment : Holds(form, m))
        ~> (result.kind \in {"just", "solver_error", "interrupted"})

-----------------------------------------------------------------------------
\* The loop implements the promise of the interface, on the formulas that end
\* properly and whose levels decide less and less: of the others it promises
\* nothing, and they are shown as calls that go on.
WellFormed(f) == EndsTotal(f) /\ CoversShrink(f)
Shown == IF WellFormed(form) THEN result ELSE Pending

Abstract == INSTANCE SearchSpec
              WITH verdict <- [m \in Assignment |-> Denotes(form, m)], result <- Shown

Promise == Abstract!Spec
=============================================================================
