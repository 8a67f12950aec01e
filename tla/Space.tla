------------------------------- MODULE Space -------------------------------
(***************************************************************************)
(* The computations of Smten.Search.Prim over Bool elements, as            *)
(* Smten/Compiled/Smten/Search/Prim.hs runs them: runS gives a formula, a  *)
(* symbolic element and a decision tree DT, relS realizes the element a    *)
(* model stands for from the tree.                                         *)
(*                                                                         *)
(* A computation is the expression that makes it; x >>= f is               *)
(* [op |-> "bind"] whose y is the body of f, in which the bound element is *)
(*   "var"  single v          "notvar"  single (not v)                     *)
(*   "ite"  if v then x else y                                             *)
(***************************************************************************)
EXTENDS Formula

CONSTANTS Ids,         \* the identifiers withfresh gives out, from 1 on
          Computation, \* the computations there are, with their parts,
          Height,      \* how deep each is (a computation is a finite term), and
          Exprs        \* those that are searched

LeafOps == {"true", "false", "undefined", "var", "notvar", "empty", "error", "hang"}
NodeOps == {"union", "bind", "ite"}

IsLeaf(e) == e.op \in LeafOps

Leaf(op) == [op |-> op]
Node(op, x, y) == [op |-> op, x |-> x, y |-> y, same |-> FALSE, late |-> {}]

ASSUME SpaceAssumption ==
    /\ Assignment = [Ids -> BOOLEAN]
    /\ Exprs \subseteq Computation
    /\ Height \in [Computation -> Nat]
    /\ \A e \in Computation :
         \/ IsLeaf(e)
         \/ /\ e \in [op : NodeOps, x : Computation, y : Computation, same : BOOLEAN, late : Lates]
            /\ Height[e.x] < Height[e] /\ Height[e.y] < Height[e]

\* How many identifiers a run of it takes.
Fresh[e \in Computation] ==
    IF IsLeaf(e) THEN 0
    ELSE Fresh[e.x] + Fresh[e.y] + (IF e.op = "union" THEN 1 ELSE 0)

\* The next identifier for its parts, when n is that for the whole.
NextX(e, n) == IF e.op = "union" THEN n + 1 ELSE n
NextY(e, n) == NextX(e, n) + Fresh[e.x]

-----------------------------------------------------------------------------
\* Decision trees, as the set of their choices: the path to it and the
\* identifier.

DT == SUBSET (Seq({"x", "y"}) \X Nat)

DTEmpty == {}
Under(b, t) == {<<<<b>> \o c[1], c[2]>> : c \in t}
DTSplit(x, y) == Under("x", x) \cup Under("y", y)
DTChoice(n, x, y) == {<<<<>>, n>>} \cup DTSplit(x, y)

Part(t, b) == {<<Tail(c[1]), c[2]>> : c \in {d \in t : d[1] # <<>> /\ Head(d[1]) = b}}
nm(t) == (CHOOSE c \in t : c[1] = <<>>)[2]

-----------------------------------------------------------------------------
\* runS: p the formula, v the element, t the decision tree (that of an error
\* is never looked at).  n is the next fresh identifier and env the element
\* the innermost bind gave.

Ran(p, v, t) == [p |-> p, v |-> v, t |-> t]

\* Mutant of lit: the choice is read the other way round than relS does.
litNegated(n) == varF({m \in Assignment : ~m[n]})

\* varF nm
lit(n) == varF({m \in Assignment : m[n]})

runLeaf(op, env) ==
    CASE op = "true" -> Ran(trueF, trueF, DTEmpty)      \* single True
      [] op = "false" -> Ran(trueF, falseF, DTEmpty)
      [] op = "undefined" -> Ran(trueF, Errors, DTEmpty) \* single (error ..)
      [] op = "var" -> Ran(trueF, env, DTEmpty)
      [] op = "notvar" -> Ran(trueF, notF(env), DTEmpty)
      [] op = "empty" -> Ran(falseF, unreachablePF, DTEmpty)
      [] op = "error" -> Ran(Errors, Errors, DTEmpty)   \* error .. :: Space Bool
      [] op = "hang" -> Ran(Hangs, Hangs, DTEmpty)

\* After x, which ran as rx, the body ran as rf.
runBody(e, rx, rf) ==
    Ran(andPF[And(rx.p, rf.p, e.late)], rf.v, DTSplit(rx.t, rf.t))

runChoice(e, g, ra, rb, t) ==
    Ran(itePF[Ite(g, ra.p, rb.p, e.same, e.late)], itePF[Ite(g, ra.v, rb.v, e.same, {})], t)

runNode(e, env, n, rx, ry) ==
    CASE e.op = "bind" -> runBody(e, rx, ry)
      [] e.op = "ite" -> runChoice(e, env, rx, ry, DTSplit(rx.t, ry.t))
      [] e.op = "union" -> runChoice(e, lit(n), rx, ry, DTChoice(n, rx.t, ry.t))

\* The element in the second part.
Bound(e, env, rx) == IF e.op = "bind" THEN rx.v ELSE env

runS[e \in Computation] == [env \in PartialF |-> [n \in Nat |->
    IF IsLeaf(e) THEN runLeaf(e.op, env)
    ELSE LET rx == runS[e.x][env][NextX(e, n)]
         IN  runNode(e, env, n, rx, runS[e.y][Bound(e, env, rx)][NextY(e, n)])]]

-----------------------------------------------------------------------------
\* relS: the element under model m, "T" or "F", or "raises".  A model's value
\* of a variable is the one m gives it.

Element == {"T", "F", "raises"}

notElement(v) == IF v = "T" THEN "F" ELSE IF v = "F" THEN "T" ELSE v

relLeaf(op, env) ==
    CASE op = "true" -> "T"
      [] op = "false" -> "F"
      [] op = "var" -> env
      [] op = "notvar" -> notElement(env)
      [] op \in {"undefined", "error", "hang", "empty"} -> "raises"

relS[e \in Computation] == [env \in Element |-> [m \in Assignment |-> [t \in DT |->
    LET x == relS[e.x][env][m][Part(t, "x")]
        y(v) == relS[e.y][v][m][Part(t, "y")]
    IN  IF IsLeaf(e) THEN relLeaf(e.op, env)
        ELSE IF e.op = "bind" THEN y(x)
        ELSE IF e.op = "union" THEN IF m[nm(t)] THEN x ELSE y(env)
        ELSE IF env = "T" THEN x
        ELSE IF env = "F" THEN y(env)
        ELSE env]]]

-----------------------------------------------------------------------------
\* What the computation means, with the choices m makes: an element ("T", "F",
\* or "raises", an element that is undefined), "none", or "undefined".

leafMeaning(op, env) ==
    CASE op = "true" -> "T"
      [] op = "false" -> "F"
      [] op = "var" -> env
      [] op = "notvar" -> notElement(env)
      [] op = "undefined" -> "raises"
      [] op = "empty" -> "none"
      [] op \in {"error", "hang"} -> "undefined"

Meaning[e \in Computation] == [env \in Element |-> [m \in Assignment |-> [n \in Nat |->
    LET x == Meaning[e.x][env][m][NextX(e, n)]
        y(v) == Meaning[e.y][v][m][NextY(e, n)]
    IN  IF IsLeaf(e) THEN leafMeaning(e.op, env)
        ELSE IF e.op = "bind" THEN IF x \in Element THEN y(x) ELSE x
        ELSE IF e.op = "union" THEN IF m[n] THEN x ELSE y(env)
        ELSE IF env = "T" THEN x
        ELSE IF env = "F" THEN y(env)
        ELSE "undefined"]]]

-----------------------------------------------------------------------------
\* No Timeout fires while it is evaluated.
Timely[e \in Computation] == IsLeaf(e) \/ (e.late = {} /\ Timely[e.x] /\ Timely[e.y])

\* A Timeout that fires is swallowed: it does not leave the select without
\* either of its arguments.
Swallowed(x, y, late) == SelectRaises(x, y, late) => SelectRaises(x, y, {})

\* No part of the computation runs to Unreachable_PartialF, which it does when
\* it looks at the element of a computation that has none, or chooses between
\* branches that are one heap object; and Timeouts are swallowed.
Clear[e \in Computation] == [env \in PartialF |-> [n \in Nat |->
    \/ IsLeaf(e)
    \/ LET rx == runS[e.x][env][NextX(e, n)]
           bound == Bound(e, env, rx)
           ry == runS[e.y][bound][NextY(e, n)]
       IN  /\ runS[e][env][n].p # unreachablePF
           /\ ~e.same
           /\ e.op # "bind" => Swallowed(rx.p, ry.p, e.late)
           /\ Clear[e.x][env][NextX(e, n)]
           /\ Clear[e.y][bound][NextY(e, n)]]]
=============================================================================
