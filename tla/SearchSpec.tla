----------------------------- MODULE SearchSpec -----------------------------
(***************************************************************************)
(* What a call of `search' promises (Smten/Search/Prim.hs): Nothing if the *)
(* Space computation represents the empty set, otherwise Just an arbitrary *)
(* element of it.  A computation is known here only by its verdict under   *)
(* each assignment to the free variables:                                  *)
(*   "holds"        the assignment realizes an element of the set          *)
(*   "fails"        it realizes no element                                 *)
(*   "undefined"    deciding it raises an error or never ends              *)
(*   "unreachable"  it cannot be taken                                     *)
(***************************************************************************)
CONSTANTS Assignment,  \* the assignments to the free variables
          NoAssignment \* a value that is not one of them

Verdict == {"holds", "fails", "undefined", "unreachable"}

VARIABLES verdict, \* the computation searched
          result   \* what the call did: [kind, model]

vars == <<verdict, result>>

None(kind) == [kind |-> kind, model |-> NoAssignment]
Pending == None("pending")

Init == /\ verdict \in [Assignment -> Verdict]
        /\ result = Pending

\* Just an arbitrary element.
Found(m) == /\ result = Pending
            /\ verdict[m] = "holds"
            /\ result' = [kind |-> "just", model |-> m]
            /\ UNCHANGED verdict

\* Nothing, if the set is empty.
Empty == /\ result = Pending
         /\ \A m \in Assignment : verdict[m] \in {"fails", "unreachable"}
         /\ result' = None("nothing")
         /\ UNCHANGED verdict

\* An error of the program is raised only if it is there and no assignment
\* gives an element.
Raises == /\ result = Pending
          /\ \A m \in Assignment : verdict[m] # "holds"
          /\ \E m \in Assignment : verdict[m] = "undefined"
          /\ result' = None("raised")
          /\ UNCHANGED verdict

\* The solver fails, or an asynchronous exception ends the call.
Aborts == /\ result = Pending
          /\ result' \in {None("solver_error"), None("interrupted")}
          /\ UNCHANGED verdict

Next == (\E m \in Assignment : Found(m)) \/ Empty \/ Raises \/ Aborts

Spec == Init /\ [][Next]_vars
=============================================================================
