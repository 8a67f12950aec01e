----------------------------- MODULE SolveSpec -----------------------------
(***************************************************************************)
(* What calls of `solve' promise (Smten/Runtime/Solver.hs): Just a model   *)
(* if the query is satisfiable, Nothing if it is not.  A model is known    *)
(* here by the value a lookup gives for every variable of the program.     *)
(***************************************************************************)
CONSTANTS Call,   \* the calls
          Models, \* the values of all variables of the program
          NoModel \* none of them

VARIABLES solutions, \* of each call: the models that satisfy its query
          answers    \* what each call did: [kind, model]

vars == <<solutions, answers>>

None(kind) == [kind |-> kind, model |-> NoModel]

Init == /\ solutions \in [Call -> SUBSET Models]
        /\ answers = [c \in Call |-> None("pending")]

Answers(c, a) == /\ answers[c] = None("pending")
                 /\ answers' = [answers EXCEPT ![c] = a]
                 /\ UNCHANGED solutions

Sat(c) == \E m \in solutions[c] : Answers(c, [kind |-> "just", model |-> m])

Unsat(c) == solutions[c] = {} /\ Answers(c, None("nothing"))

\* The solver fails, or an exception ends the call.
Raised(c) == Answers(c, None("raised"))

Next == \E c \in Call : Sat(c) \/ Unsat(c) \/ Raised(c)

Spec == Init /\ [][Next]_vars
=============================================================================
