---------------------------- MODULE SpaceSearch ----------------------------
(***************************************************************************)
(* search applied to the computations of Space: the formula runS builds is *)
(* the one the loop of Search works on, and relS realizes the element from *)
(* the model it finds.                                                     *)
(***************************************************************************)
EXTENDS Space, Search

-----------------------------------------------------------------------------
\* A formula of module Formula, as the loop sees it.
Levels[f \in PartialF] ==
    [levels |-> [i \in 1..Len(f.levels) |->
                   [p |-> f.levels[i].p.sat, a |-> f.levels[i].a.sat]],
     end |-> f.end]

\* The computation at the top has no bound element.
Run(e) == runS[e][Errors][1]

FormulaOf(e) == Levels[Run(e).p]

ASSUME SpaceSearchAssumption ==
    /\ \A e \in Exprs : 1..Fresh[e] \subseteq Ids
    /\ Formulas = {FormulaOf(e) : e \in Exprs}

Means(e, m) == Meaning[e]["raises"][m][1]

-----------------------------------------------------------------------------
VARIABLES expr, \* the computation, and
          run   \* (p, x, t), what its first run gave: no step changes them

spaceVars == <<vars, expr, run>>

Realized(m) == relS[expr]["raises"][m][run.t]

SpaceInit == /\ expr \in Exprs
             /\ run = Run(expr)
             /\ form = Levels[run.p]
             /\ q = form
             /\ pc = "run"
             /\ result = Pending

SpaceNext == Next /\ UNCHANGED <<expr, run>>

SpaceSpec == SpaceInit /\ [][SpaceNext]_spaceVars

-----------------------------------------------------------------------------
\* The formula of a computation holds only under assignments that give an
\* element, is false only under those that give none, and is undefined under
\* every assignment under which the computation is.  It holds under all those
\* that give an element, unless its evaluation never ends.
Faithful ==
    \A m \in Assignment :
        /\ Denotes(form, m) = "holds" => Means(expr, m) \in Element
        /\ Denotes(form, m) = "fails" => Means(expr, m) = "none"
        /\ Means(expr, m) = "undefined" => Denotes(form, m) = "undefined"
        /\ Means(expr, m) \in Element /\ form.end # "hang" => Denotes(form, m) = "holds"

\* What the loop relies on: the formula ends in Unreachable_PartialF only
\* behind a level that decides everything, and its levels decide less and less
\* (unless a Timeout cut an evaluation short).
Proper == EndsTotal(form) /\ (Timely[expr] => CoversShrink(form))

\* Unreachable_BoolFF, which build has no case for, is no part of a query: it
\* is no guard, and stands at no level but one whose guard is FalseFF.
SolverSeesNoUnreachable ==
    \A i \in 1..Len(run.p.levels) :
        /\ run.p.levels[i].p.class # "unreachable"
        /\ run.p.levels[i].a.class = "unreachable" => run.p.levels[i].p = FalseFF

\* Just v: v is the element the computation has under the choices of the
\* model, the one relS reads off the decision tree of the first run.
JustRealizes ==
    result.kind = "just" => /\ Means(expr, result.model) \in Element
                            /\ Realized(result.model) = Means(expr, result.model)

\* Nothing: no choice gives an element, and none is undefined.
NothingHasNone == result.kind = "nothing" => \A m \in Assignment : Means(expr, m) = "none"

\* "An error should not be reached if there is a satisfying assignment"
\* (Tests/SMT/Error.hs).
ErrorsAreFair ==
    result.kind \in {"raised", "no_match"} => \A m \in Assignment : Means(expr, m) \notin Element

\* "Return Nothing if the given Space computation represents the empty set"
\* (Smten/Search/Prim.hs): a computation without elements, no choice of which
\* is undefined, makes search raise no error.
EmptyReturnsNothing ==
    (\A m \in Assignment : Means(expr, m) = "none") => result.kind \notin {"raised", "no_match"}

\* "if _|_ then x else x is _|_, not x" (PartialF.hs): an assignment under
\* which the computation is undefined is not taken for a solution.
UndefinedIsNoSolution == result.kind = "just" => Means(expr, result.model) # "undefined"
=============================================================================
