------------------------------- MODULE Build -------------------------------
(***************************************************************************)
(* build (Smten/Runtime/Build.hs): calls that translate finite formulas    *)
(* into expressions of a solver context, each with its own context, run by *)
(* the threads of the program over formulas that share nodes.              *)
(*                                                                         *)
(* Every node of a formula carries a cache of one entry (BuildCache.hs),   *)
(* in which a call leaves the expression it made under the key it drew.    *)
(* Calls overlap in any order and may be cut short by an exception.  A     *)
(* thunk that two threads evaluate at once makes two nodes of one          *)
(* variable: the nodes are distinct, their identifier is the same.         *)
(***************************************************************************)
EXTENDS Naturals, Sequences

CONSTANTS Node, \* the nodes of the formulas
          Id,   \* the identifiers of their variables (FreeID)
          Call, \* the calls of build
          Kids, \* the arguments of a node, in the order they are built
          IdOf, \* the identifier of a variable node
          Const, \* the nodes TrueFF, FalseFF, IntegerFF, BitFF: they have no cache
          Root, \* the formula of a call
          NoExpr \* no expression

VarNode == DOMAIN IdOf

ASSUME BuildAssumption ==
    /\ Kids \in [Node -> Seq(Node)]
    /\ VarNode \subseteq Node /\ IdOf \in [VarNode -> Id]
    /\ Const \subseteq Node /\ Const \cap VarNode = {}
    /\ \A n \in Const \cup VarNode : Kids[n] = <<>>
    /\ Root \in [Call -> Node]

\* The nodes of the formula at n: those in every set that has n and, with a
\* node, its arguments.
Closed(S) == \A n \in S : \A i \in 1..Len(Kids[n]) : Kids[n][i] \in S
Under(n) == {m \in Node : \A S \in SUBSET Node : n \in S /\ Closed(S) => m \in S}

\* The arguments are made before the node: a formula is not part of itself.
ASSUME AcyclicAssumption ==
    \A n \in Node : \A i \in 1..Len(Kids[n]) : n \notin Under(Kids[n][i])

\* The expression of node n in the context of call c.
Expr == [ctx : Call, node : Node]
ExprOf(c, n) == [ctx |-> c, node |-> n]

ASSUME NoExprAssumption == NoExpr \notin Expr

-----------------------------------------------------------------------------
VARIABLES keySource, \* the last key drawn
          cache,     \* of each node: [key, expr]
          status,    \* of each call: "idle", "running", "done", "aborted"
          key,       \* the key each call drew
          stack,     \* the activations of buildB, buildI and buildV, inmost last
          ret,       \* the expression the call returned
          vars,      \* the VarMap of each call
          declared,  \* how often a call has declared an identifier
          made,      \* history: how often a call has made a node's expression
          alone      \* history: no other call has run while this one did

buildVars == <<keySource, cache, status, key, stack, ret, vars, declared, made, alone>>

\* BuildCache.empty
empty == [key |-> 0, expr |-> NoExpr]

\* An activation has its node, what it is at ("enter", "args", "write"), the
\* arguments it has built, and the expression it has made of them.
Activation(n) == [node |-> n, at |-> "enter", args |-> <<>>, expr |-> NoExpr]

Init == /\ keySource = 1
        /\ cache = [n \in Node |-> empty]
        /\ status = [c \in Call |-> "idle"]
        /\ key = [c \in Call |-> 0]
        /\ stack = [c \in Call |-> <<>>]
        /\ ret = [c \in Call |-> NoExpr]
        /\ vars = [c \in Call |-> {}]
        /\ declared = [c \in Call |-> [x \in Id |-> 0]]
        /\ made = [c \in Call |-> [n \in Node |-> 0]]
        /\ alone = [c \in Call |-> TRUE]

-----------------------------------------------------------------------------
Depth(c) == Len(stack[c])
top(c) == stack[c][Depth(c)]
At(c, where) == status[c] = "running" /\ top(c).at = where

\* A stack with its top, or its two topmost activations, replaced by f.
Topped(s, f) == [i \in 1..Len(s) |-> IF i = Len(s) THEN f ELSE s[i]]
Popped(s, f) == [i \in 1..(Len(s) - 1) |-> IF i = Len(s) - 1 THEN f ELSE s[i]]

WithArg(f, e) == [node |-> f.node, at |-> f.at, args |-> Append(f.args, e), expr |-> f.expr]

\* Mutant of Return: the caller does not take the expression.
ReturnDropped(c, e) ==
    IF Depth(c) = 1
    THEN /\ stack' = [stack EXCEPT ![c] = <<>>]
         /\ status' = [status EXCEPT ![c] = "done"]
         /\ ret' = [ret EXCEPT ![c] = e]
    ELSE /\ stack' = [stack EXCEPT ![c] = Popped(@, stack[c][Depth(c) - 1])]
         /\ UNCHANGED <<status, ret>>

\* The inmost activation returns e, to the one that called it or as the result.
Return(c, e) ==
    IF Depth(c) = 1
    THEN /\ stack' = [stack EXCEPT ![c] = <<>>]
         /\ status' = [status EXCEPT ![c] = "done"]
         /\ ret' = [ret EXCEPT ![c] = e]
    ELSE /\ stack' = [stack EXCEPT ![c] = Popped(@, WithArg(stack[c][Depth(c) - 1], e))]
         /\ UNCHANGED <<status, ret>>

Become(c, f) == /\ stack' = [stack EXCEPT ![c] = Topped(@, f)]
                /\ UNCHANGED <<status, ret>>

\* Mutant of newKey: the source is read and not moved on.
newKeyStuck(c) == /\ key' = [key EXCEPT ![c] = keySource]
                  /\ UNCHANGED keySource

newKey(c) == /\ keySource' = keySource + 1
             /\ key' = [key EXCEPT ![c] = keySource + 1]

\* key <- newKey; vars <- H.new; buildB p
Start(c) ==
    /\ status[c] = "idle"
    /\ newKey(c)
    /\ status' = [status EXCEPT ![c] = "running"]
    /\ stack' = [stack EXCEPT ![c] = <<Activation(Root[c])>>]
    /\ alone' = [d \in Call |-> IF d = c THEN \A o \in Call : status[o] # "running"
                                ELSE alone[d] /\ status[d] # "running"]
    /\ UNCHANGED <<cache, ret, vars, declared, made>>

\* TrueFF -> bool ctx True, and the like.
Constant(c) ==
    /\ At(c, "enter") /\ top(c).node \in Const
    /\ Return(c, ExprOf(c, top(c).node))
    /\ UNCHANGED <<keySource, cache, key, vars, declared, made, alone>>

\* Mutant of Hit: any entry will do.
HitAny(c) ==
    /\ At(c, "enter") /\ top(c).node \notin Const
    /\ cache[top(c).node].key # 0
    /\ Return(c, cache[top(c).node].expr)
    /\ UNCHANGED <<keySource, cache, key, vars, declared, made, alone>>

\* cached: the entry has the key of this call.
Hit(c) ==
    /\ At(c, "enter") /\ top(c).node \notin Const
    /\ cache[top(c).node].key = key[c]
    /\ Return(c, cache[top(c).node].expr)
    /\ UNCHANGED <<keySource, cache, key, vars, declared, made, alone>>

\* cached: it has another one, and the action is run.
Miss(c) ==
    /\ At(c, "enter") /\ top(c).node \notin Const
    /\ cache[top(c).node].key # key[c]
    /\ Become(c, [top(c) EXCEPT !.at = "args"])
    /\ UNCHANGED <<keySource, cache, key, vars, declared, made, alone>>

\* a' <- buildB a
BuildKid(c) ==
    /\ At(c, "args")
    /\ Len(top(c).args) < Len(Kids[top(c).node])
    /\ stack' = [stack EXCEPT ![c] =
                    Append(@, Activation(Kids[top(c).node][Len(top(c).args) + 1]))]
    /\ UNCHANGED <<keySource, cache, status, key, ret, vars, declared, made, alone>>

\* The solver's operation on the arguments: the expression of the node, if they
\* are the expressions of its arguments in the same context.
Apply(c, n, args) ==
    IF args = [i \in 1..Len(Kids[n]) |-> ExprOf(c, Kids[n][i])] THEN ExprOf(c, n) ELSE NoExpr

\* and_bool ctx a' b'
Combine(c) ==
    /\ At(c, "args") /\ top(c).node \notin VarNode
    /\ Len(top(c).args) = Len(Kids[top(c).node])
    /\ Become(c, [top(c) EXCEPT !.at = "write",
                                !.expr = Apply(c, top(c).node, top(c).args)])
    /\ made' = [made EXCEPT ![c][top(c).node] = @ + 1]
    /\ UNCHANGED <<keySource, cache, key, vars, declared, alone>>

\* Mutants of Declare: the VarMap is not asked, or not told.
DeclareAgain(c, x) == /\ declared' = [declared EXCEPT ![c][x] = @ + 1]
                      /\ vars' = [vars EXCEPT ![c] = @ \cup {x}]

DeclareOnly(c, x) == /\ declared' = [declared EXCEPT ![c][x] = 1]
                     /\ UNCHANGED vars

\* m <- H.lookup vars id
Declare(c, x) == IF x \in vars[c]
                 THEN UNCHANGED <<vars, declared>>
                 ELSE /\ declared' = [declared EXCEPT ![c][x] = @ + 1]
                      /\ vars' = [vars EXCEPT ![c] = @ \cup {x}]

\* VarFF id c: declare_bool ctx id unless it is in vars; var_bool ctx id
Variable(c) ==
    /\ At(c, "args") /\ top(c).node \in VarNode
    /\ Declare(c, IdOf[top(c).node])
    /\ Become(c, [top(c) EXCEPT !.at = "write", !.expr = ExprOf(c, top(c).node)])
    /\ made' = [made EXCEPT ![c][top(c).node] = @ + 1]
    /\ UNCHANGED <<keySource, cache, key, alone>>

\* Mutant of Store: the entry is written only into an empty cache.
StoreFirst(c) == cache' = [cache EXCEPT ![top(c).node] =
                             IF @.key = 0 THEN [key |-> key[c], expr |-> top(c).expr] ELSE @]

\* writeIORef cache (Cached key v)
Store(c) == cache' = [cache EXCEPT ![top(c).node] = [key |-> key[c], expr |-> top(c).expr]]

\* ... and return v
Write(c) ==
    /\ At(c, "write")
    /\ Store(c)
    /\ Return(c, top(c).expr)
    /\ UNCHANGED <<keySource, key, vars, declared, made, alone>>

\* An operation of the solver fails, or an asynchronous exception arrives.
Raise(c) ==
    /\ status[c] = "running"
    /\ status' = [status EXCEPT ![c] = "aborted"]
    /\ stack' = [stack EXCEPT ![c] = <<>>]
    /\ UNCHANGED <<keySource, cache, key, ret, vars, declared, made, alone>>

Step(c) == \/ Constant(c) \/ Hit(c) \/ Miss(c) \/ BuildKid(c)
           \/ Combine(c) \/ Variable(c) \/ Write(c)

Next == \E c \in Call : Start(c) \/ Step(c) \/ Raise(c)

Spec == Init /\ [][Next]_buildVars

\* The thread of a call is scheduled, and the solver's operations return.
FairSpec == Spec /\ \A c \in Call : WF_buildVars(Step(c))

-----------------------------------------------------------------------------
Entry == [key : Nat, expr : Expr \cup {NoExpr}]
ActivationSet == [node : Node, at : {"enter", "args", "write"},
                  args : Seq(Expr \cup {NoExpr}), expr : Expr \cup {NoExpr}]

\* The values the variables take.
TypeOK ==
    /\ keySource \in Nat
    /\ cache \in [Node -> Entry]
    /\ status \in [Call -> {"idle", "running", "done", "aborted"}]
    /\ key \in [Call -> Nat]
    /\ stack \in [Call -> Seq(ActivationSet)]
    /\ ret \in [Call -> Expr \cup {NoExpr}]
    /\ vars \in [Call -> SUBSET Id]
    /\ declared \in [Call -> [Id -> Nat]]
    /\ made \in [Call -> [Node -> Nat]]
    /\ alone \in [Call -> BOOLEAN]
    /\ \A c \in Call : status[c] = "running" <=> stack[c] # <<>>

\* What an activation has built are the expressions of its arguments, in its
\* own call's context: never one that another call, finished, aborted or still
\* running, left in a cache.
OwnExpressions ==
    \A c \in Call : \A i \in 1..Depth(c) : \A j \in 1..Len(stack[c][i].args) :
        stack[c][i].args[j] = ExprOf(c, Kids[stack[c][i].node][j])

\* A call that returns has built its formula, whoever else built parts of it.
BuildsFormula == \A c \in Call : status[c] = "done" => ret[c] = ExprOf(c, Root[c])

\* No context is told of a variable twice, though two nodes may stand for it
\* and other calls may take a node's cache away.
DeclaredOnce == \A c \in Call : \A x \in Id : declared[c][x] <= 1

\* The identifiers of the variables of a formula.
IdsUnder(n) == {IdOf[m] : m \in VarNode \cap Under(n)}

\* "The model contains values for all user-level variables that appear in the
\* formula" (Solver.hs): they are the ones the call gives back, and declared.
VarsComplete ==
    \A c \in Call : status[c] = "done" =>
        /\ vars[c] = IdsUnder(Root[c])
        /\ \A x \in vars[c] : declared[c][x] = 1

\* A shared node is made once, unless another call runs at the same time.
MadeOnce == \A c \in Call : alone[c] => \A n \in Node : made[c][n] <= 1

-----------------------------------------------------------------------------
\* Every call ends: the nodes of a formula are finitely many and in no cycle.
Completes == \A c \in Call : (status[c] = "running") ~> (status[c] \in {"done", "aborted"})
=============================================================================
