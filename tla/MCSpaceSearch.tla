--------------------------- MODULE MCSpaceSearch ---------------------------
(***************************************************************************)
(* Computations for TLC to search.                                         *)
(***************************************************************************)
EXTENDS SpaceSearch

CONSTANT MaxId

MCIds == 1..MaxId
MCAssignment == [MCIds -> BOOLEAN]

MCFormulas == {FormulaOf(e) : e \in Exprs}

Leaves(ops) == {Leaf(op) : op \in ops}
Variants(op, X, Y, same, late) == [op : {op}, x : X, y : Y, same : same, late : late]
Nodes(op, X, Y) == Variants(op, X, Y, {FALSE}, {{}})
Sized(E) == {e \in E : Fresh[e] <= MaxId}

Total == {"true", "false", "empty"}
Partial == Total \cup {"undefined", "error"}

bind(X, Y) == Nodes("bind", X, Y)
union(X, Y) == Nodes("union", X, Y)
ite(X, Y) == Nodes("ite", X, Y)

Free == Node("union", Leaf("true"), Leaf("false")) \* free_Bool

\* Bodies of a bind: what they do with the element.
Bodies(ops) == Leaves(ops \cup {"var", "notvar"}) \cup ite(Leaves(ops \cup {"notvar"}), Leaves(ops))

Sources(ops) == Leaves(ops) \cup union(Leaves(ops), Leaves(ops))

\* x >>= f with a leaf or a choice of two for x.
Binds(ops) == bind(Sources(ops), Bodies(ops))

\* Computations of several binds: nested on either side, under a choice, and
\* under a condition that is itself partly undefined.
Halves(ops) == bind({Free}, ite(Leaves(ops), Leaves(ops)))

DeepBinds(ops, bodies) ==
    bind(Halves(ops), Bodies(bodies))
      \cup bind({Free}, ite(Halves(ops), Leaves(bodies)))
      \cup bind(union(Halves(ops), Leaves({"true", "error"})), ite(Leaves(bodies), Leaves(bodies)))
      \cup bind({Free}, bind({Free}, ite(ite(Leaves(ops), Leaves(bodies)), Leaves(bodies))))

ShallowTerms == Binds(Partial \cup {"hang"})
DeepTerms == DeepBinds(Partial, Partial)

\* The same with both branches of a condition one heap object, or with a
\* Timeout during its select.
SharedTerms ==
    LET X == Halves(Partial) \cup union(Halves(Partial), Leaves({"true", "error"}))
        L == Leaves(Partial)
    IN  {e \in bind(X, Variants("ite", L, L, {TRUE}, {{}})) : e.y.x = e.y.y}
LateTerms ==
    LET ops == Partial \cup {"hang"}
    IN  bind(Sources(ops),
             Variants("ite", Leaves(ops \cup {"notvar"}), Leaves(ops), {FALSE}, {{"x"}, {"y"}}))
LateTotalTerms ==
    bind({Free}, Variants("ite", Leaves(Total), ite(Leaves({"error"}), Leaves(Total)),
                          {FALSE}, {{"x"}}))

\* The terms and their parts, down to the leaves.
PartsOf(E) == {e[b] : e \in {d \in E : ~IsLeaf(d)}, b \in {"x", "y"}}

Terms == ShallowTerms \cup DeepTerms \cup SharedTerms \cup LateTerms \cup LateTotalTerms
Parts1 == PartsOf(Terms)
Parts2 == PartsOf(Parts1)
Parts3 == PartsOf(Parts2)

MCComputation == Terms \cup Parts1 \cup Parts2 \cup Parts3 \cup PartsOf(Parts3)

RECURSIVE Depth(_)
Depth(e) == IF IsLeaf(e) THEN 0
            ELSE LET x == Depth(e.x) y == Depth(e.y) IN 1 + (IF x < y THEN y ELSE x)

MCHeight == [e \in Computation |-> Depth(e)]

-----------------------------------------------------------------------------
\* Those that stay clear of the element of an empty computation.
IsClear(e) == Clear[e][Errors][1]

AllExprs == {e \in Sized(ShallowTerms \cup DeepTerms \cup LateTerms) : IsClear(e)}

SharedExprs ==
    {e \in Sized(SharedTerms) : IsClear([e EXCEPT !.y.same = FALSE])}

\* For the runs that refute a documented claim: nothing undefined, and the
\* element of an empty computation looked at; and a branch cut short by a
\* Timeout in front of an error no assignment reaches.
TotalExprs == Sized(Binds(Total))

LateTotalExprs == LateTotalTerms
=============================================================================
