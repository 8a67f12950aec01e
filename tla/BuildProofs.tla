---------------------------- MODULE BuildProofs ----------------------------
(***************************************************************************)
(* Build is correct for any formulas, any number of calls and any sharing. *)
(*                                                                         *)
(* The inductive invariant says who owns a cache entry: a key belongs to   *)
(* one call, and an entry with that key is the expression of its node in   *)
(* that call's context.  The stack of a call is a path from its root, each *)
(* activation waiting for the argument the next one builds.                *)
(*                                                                         *)
(* The second half is about what a call has made: the nodes are closed     *)
(* under arguments, and while the call is alone its entries are all of     *)
(* them.                                                                   *)
(***************************************************************************)
EXTENDS Build, TLAPS

\* An activation of call c has the expressions of its first arguments.
ActivationOk(c, f) ==
    /\ f \in ActivationSet
    /\ Len(f.args) <= Len(Kids[f.node])
    /\ \A j \in 1..Len(f.args) : f.args[j] = ExprOf(c, Kids[f.node][j])
    /\ f.at = "enter" => f.args = <<>>
    /\ f.at = "write" => f.expr = ExprOf(c, f.node)

\* f waits for the argument g builds.
Waits(f, g) == /\ f.at = "args"
               /\ Len(f.args) < Len(Kids[f.node])
               /\ g.node = Kids[f.node][Len(f.args) + 1]

StackOk(c, s) ==
    /\ s \in Seq(ActivationSet)
    /\ \A i \in 1..Len(s) : ActivationOk(c, s[i])
    /\ Len(s) > 0 => s[1].node = Root[c]
    /\ \A i \in 1..(Len(s) - 1) : Waits(s[i], s[i + 1])

Stacks == \A c \in Call : StackOk(c, stack[c])

\* A key is drawn once.
Keys == /\ \A c \in Call : /\ key[c] <= keySource
                           /\ status[c] = "idle" <=> key[c] = 0
        /\ \A c, d \in Call : key[c] = key[d] /\ key[c] # 0 => c = d

\* An entry belongs to the call whose key it has.
Owned == \A n \in Node : /\ cache[n].key <= keySource
                         /\ \A c \in Call : cache[n].key = key[c] /\ key[c] # 0 =>
                                               cache[n].expr = ExprOf(c, n)

\* What is declared is what is in the VarMap.
VarMap == \A c \in Call : \A x \in Id : declared[c][x] = IF x \in vars[c] THEN 1 ELSE 0

IInv == TypeOK /\ Stacks /\ Keys /\ Owned /\ VarMap /\ BuildsFormula

-----------------------------------------------------------------------------
\* Replacing the top activation by a sound one of the same node.
LEMMA ToppedOk ==
    ASSUME NEW c \in Call, NEW s, StackOk(c, s), Len(s) > 0,
           NEW f, ActivationOk(c, f), f.node = s[Len(s)].node
    PROVE  StackOk(c, Topped(s, f)) /\ Len(Topped(s, f)) = Len(s)
<1> DEFINE t == Topped(s, f)
<1>1. s \in Seq(ActivationSet) /\ f \in ActivationSet /\ Len(s) \in Nat
  BY DEF StackOk, ActivationOk
<1>2. /\ t \in Seq(ActivationSet) /\ Len(t) = Len(s)
      /\ \A i \in 1..Len(s) : t[i] = IF i = Len(s) THEN f ELSE s[i]
  BY <1>1 DEF Topped
<1> HIDE DEF t
<1>3. \A i \in 1..Len(t) : ActivationOk(c, t[i])
  BY <1>2 DEF StackOk
<1>4. t[1].node = Root[c]
  BY <1>1, <1>2 DEF StackOk
<1>5. ASSUME NEW i \in 1..(Len(t) - 1) PROVE Waits(t[i], t[i + 1])
  <2>1. i \in 1..(Len(s) - 1) /\ i # Len(s) /\ i \in 1..Len(s) /\ i + 1 \in 1..Len(s)
    BY <1>1, <1>2
  <2>2. Waits(s[i], s[i + 1])
    BY <2>1 DEF StackOk
  <2>3. t[i] = s[i] /\ t[i + 1].node = s[i + 1].node
    BY <1>2, <2>1
  <2> QED
    BY <2>2, <2>3 DEF Waits
<1> QED
  BY <1>2, <1>3, <1>4, <1>5 DEF StackOk, t

\* Pushing the activation of the argument the top waits for.
LEMMA PushedOk ==
    ASSUME NEW c \in Call, NEW s, StackOk(c, s), Len(s) > 0,
           NEW n \in Node, Waits(s[Len(s)], Activation(n))
    PROVE  StackOk(c, Append(s, Activation(n))) /\ Append(s, Activation(n)) # <<>>
<1> DEFINE f == Activation(n)
           t == Append(s, f)
<1>1. s \in Seq(ActivationSet) /\ Len(s) \in Nat
  BY DEF StackOk
<1>2. ActivationOk(c, f)
  <2>1. f \in ActivationSet
    BY NoExprAssumption DEF Activation, ActivationSet
  <2>2. Kids[n] \in Seq(Node)
    BY BuildAssumption
  <2> QED
    BY <2>1, <2>2 DEF ActivationOk, Activation
<1>3. /\ t \in Seq(ActivationSet) /\ Len(t) = Len(s) + 1 /\ t # <<>>
      /\ \A i \in 1..Len(t) : t[i] = IF i = Len(t) THEN f ELSE s[i]
  BY <1>1, <1>2 DEF ActivationOk
<1> HIDE DEF t, f
<1>4. \A i \in 1..Len(t) : ActivationOk(c, t[i])
  BY <1>1, <1>2, <1>3 DEF StackOk
<1>5. t[1].node = Root[c]
  BY <1>1, <1>3 DEF StackOk
<1>6. ASSUME NEW i \in 1..(Len(t) - 1) PROVE Waits(t[i], t[i + 1])
  <2>1. CASE i = Len(s)
    BY <2>1, <1>1, <1>3 DEF f
  <2>2. CASE i # Len(s)
    <3>1. i \in 1..(Len(s) - 1) /\ i \in 1..Len(t) /\ i + 1 \in 1..Len(t)
          /\ i # Len(t) /\ i + 1 # Len(t)
      BY <2>2, <1>1, <1>3
    <3> QED
      BY <3>1, <1>3 DEF StackOk
  <2> QED
    BY <2>1, <2>2
<1> QED
  BY <1>3, <1>4, <1>5, <1>6 DEF StackOk, t, f

\* Popping the top and handing its expression to the activation that waits.
LEMMA PoppedOk ==
    ASSUME NEW c \in Call, NEW s, StackOk(c, s), Len(s) > 1,
           NEW e, e = ExprOf(c, s[Len(s)].node)
    PROVE  /\ StackOk(c, Popped(s, WithArg(s[Len(s) - 1], e)))
           /\ Popped(s, WithArg(s[Len(s) - 1], e)) # <<>>
<1> DEFINE m == Len(s) - 1
           w == s[m]
           f == WithArg(w, e)
           t == Popped(s, f)
<1>1. s \in Seq(ActivationSet) /\ Len(s) \in Nat /\ m \in 1..Len(s) /\ m \in Nat /\ m > 0
  BY DEF StackOk
<1>2. ActivationOk(c, w) /\ Waits(w, s[m + 1]) /\ m + 1 = Len(s)
  BY <1>1 DEF StackOk
<1>3. /\ w \in ActivationSet /\ w.node \in Node /\ Kids[w.node] \in Seq(Node)
      /\ w.args \in Seq(Expr \cup {NoExpr})
      /\ s[Len(s)] \in ActivationSet /\ s[Len(s)].node \in Node
  <2>1. w \in ActivationSet /\ s[Len(s)] \in ActivationSet
    BY <1>1
  <2> QED
    BY <2>1, BuildAssumption DEF ActivationSet
<1>4. e = ExprOf(c, Kids[w.node][Len(w.args) + 1]) /\ e \in Expr
  BY <1>2, <1>3 DEF Waits, ExprOf, Expr
<1>5. ActivationOk(c, f)
  <2>1. /\ f.node = w.node /\ f.at = "args" /\ f.expr = w.expr
        /\ f.args = Append(w.args, e)
        /\ f \in ActivationSet
    BY <1>2, <1>3, <1>4 DEF WithArg, ActivationSet, Waits
  <2>2. /\ Len(f.args) = Len(w.args) + 1 /\ Len(w.args) \in Nat
        /\ \A j \in 1..Len(f.args) : f.args[j] = IF j = Len(w.args) + 1 THEN e ELSE w.args[j]
    <3> HIDE DEF f, w
    <3>1. f.args = Append(w.args, e) /\ w.args \in Seq(Expr \cup {NoExpr})
          /\ e \in Expr \cup {NoExpr}
      BY <2>1, <1>3, <1>4
    <3> QED
      BY <3>1
  <2>3. Len(f.args) <= Len(Kids[f.node])
    BY <2>1, <2>2, <1>2, <1>3 DEF Waits
  <2>4. \A j \in 1..Len(f.args) : f.args[j] = ExprOf(c, Kids[f.node][j])
    <3> HIDE DEF f, w
    <3>1. \A j \in 1..Len(w.args) : w.args[j] = ExprOf(c, Kids[w.node][j])
      BY <1>2 DEF ActivationOk
    <3>2. TAKE j \in 1..Len(f.args)
    <3>3. CASE j = Len(w.args) + 1
      BY <3>3, <2>1, <2>2, <1>4
    <3>4. CASE j # Len(w.args) + 1
      <4>1. j \in 1..Len(w.args)
        BY <3>2, <3>4, <2>2
      <4> QED
        BY <4>1, <3>1, <3>2, <3>4, <2>1, <2>2
    <3> QED
      BY <3>3, <3>4
  <2> QED
    BY <2>1, <2>3, <2>4 DEF ActivationOk
<1>6. f.node = w.node
  BY DEF WithArg
<1>7. /\ t \in Seq(ActivationSet) /\ Len(t) = m
      /\ \A i \in 1..m : t[i] = IF i = m THEN f ELSE s[i]
  <2>1. f \in ActivationSet
    BY <1>5 DEF ActivationOk
  <2>2. t = [i \in 1..m |-> IF i = m THEN f ELSE s[i]]
    BY DEF Popped
  <2> HIDE DEF f, t
  <2>3. \A i \in 1..m : (IF i = m THEN f ELSE s[i]) \in ActivationSet
    BY <1>1, <2>1
  <2> HIDE DEF m
  <2> QED
    BY <1>1, <2>2, <2>3
<1> HIDE DEF f, t
<1>8. \A i \in 1..Len(t) : ActivationOk(c, t[i])
  BY <1>1, <1>5, <1>7 DEF StackOk
<1>9. t[1].node = Root[c]
  BY <1>1, <1>6, <1>7 DEF StackOk
<1>10. ASSUME NEW i \in 1..(Len(t) - 1) PROVE Waits(t[i], t[i + 1])
  <2>1. i \in 1..(Len(s) - 1) /\ i \in 1..m /\ i + 1 \in 1..m /\ i # m
    BY <1>1, <1>7
  <2>2. Waits(s[i], s[i + 1])
    BY <2>1 DEF StackOk
  <2>3. t[i] = s[i] /\ t[i + 1].node = s[i + 1].node
    BY <1>6, <1>7, <2>1
  <2> QED
    BY <2>2, <2>3 DEF Waits
<1>11. t # <<>>
  BY <1>1, <1>7
<1> QED
  BY <1>7, <1>8, <1>9, <1>10, <1>11 DEF StackOk, t, f

-----------------------------------------------------------------------------
\* The part of the state the control moves through.
Control == /\ status \in [Call -> {"idle", "running", "done", "aborted"}]
           /\ ret \in [Call -> Expr \cup {NoExpr}]
           /\ stack \in [Call -> Seq(ActivationSet)]
           /\ \A c \in Call : status[c] = "running" <=> stack[c] # <<>>
           /\ Stacks
           /\ BuildsFormula

\* What is at the top of a running call.
LEMMA TopOk ==
    ASSUME Control, NEW c \in Call, status[c] = "running"
    PROVE  /\ Depth(c) \in Nat /\ Depth(c) > 0
           /\ ActivationOk(c, top(c)) /\ top(c) \in ActivationSet /\ top(c).node \in Node
<1>1. stack[c] \in Seq(ActivationSet) /\ stack[c] # <<>> /\ StackOk(c, stack[c])
  BY DEF Control, Stacks
<1>2. Depth(c) \in Nat /\ Depth(c) > 0
  BY <1>1 DEF Depth
<1>3. ActivationOk(c, top(c))
  BY <1>1, <1>2 DEF StackOk, top, Depth
<1>4. top(c) \in ActivationSet
  BY <1>3 DEF ActivationOk
<1> QED
  BY <1>2, <1>3, <1>4 DEF ActivationSet

\* An activation that returns its own expression leaves the control sound.
LEMMA ReturnOk ==
    ASSUME Control, NEW c \in Call, status[c] = "running",
           Return(c, ExprOf(c, top(c).node))
    PROVE  Control' /\ \A d \in Call : status'[d] = "idle" <=> status[d] = "idle"
<1> DEFINE e == ExprOf(c, top(c).node)
           s == stack[c]
<1>1. /\ Depth(c) \in Nat /\ Depth(c) > 0 /\ s \in Seq(ActivationSet)
      /\ StackOk(c, s) /\ top(c).node \in Node /\ e \in Expr
      /\ Depth(c) = Len(s) /\ top(c) = s[Len(s)]
  BY TopOk DEF Control, Stacks, Depth, top, ExprOf, Expr
<1>2. CASE Depth(c) = 1
  <2>1. /\ stack' = [stack EXCEPT ![c] = <<>>]
        /\ status' = [status EXCEPT ![c] = "done"]
        /\ ret' = [ret EXCEPT ![c] = e]
    BY <1>2 DEF Return
  <2>2. e = ExprOf(c, Root[c])
    BY <1>1, <1>2 DEF StackOk
  <2>3. StackOk(c, <<>>)
    BY DEF StackOk
  <2>4. Stacks'
    BY <2>1, <2>3 DEF Stacks, StackOk, Control
  <2>5. BuildsFormula'
    BY <2>1, <2>2 DEF BuildsFormula, Control
  <2>6. /\ status' \in [Call -> {"idle", "running", "done", "aborted"}]
        /\ ret' \in [Call -> Expr \cup {NoExpr}]
        /\ stack' \in [Call -> Seq(ActivationSet)]
        /\ \A d \in Call : status'[d] = "running" <=> stack'[d] # <<>>
    BY <1>1, <2>1 DEF Control
  <2>7. \A d \in Call : status'[d] = "idle" <=> status[d] = "idle"
    BY <2>1 DEF Control
  <2> QED
    BY <2>4, <2>5, <2>6, <2>7 DEF Control
<1>3. CASE Depth(c) # 1
  <2> DEFINE t == Popped(s, WithArg(s[Len(s) - 1], e))
  <2>1. Len(s) > 1
    <3> HIDE DEF s, e
    <3>1. Depth(c) > 1
      <4> DEFINE n == Depth(c)
      <4>1. n \in Nat /\ n > 0 /\ n # 1
        BY <1>1, <1>3
      <4> HIDE DEF n
      <4>2. n > 1
        BY <4>1
      <4> QED
        BY <4>2 DEF n
    <3> QED
      BY <3>1, <1>1
  <2>2. StackOk(c, t) /\ t # <<>>
    BY <1>1, <2>1, PoppedOk
  <2>3. stack' = [stack EXCEPT ![c] = t] /\ status' = status /\ ret' = ret
    BY <1>1, <1>3 DEF Return
  <2> HIDE DEF t
  <2>4. t \in Seq(ActivationSet)
    BY <2>2 DEF StackOk
  <2>5. Stacks'
    BY <2>2, <2>3 DEF Stacks, StackOk, Control
  <2>6. BuildsFormula'
    BY <2>3 DEF BuildsFormula, Control
  <2> QED
    BY <2>2, <2>3, <2>4, <2>5, <2>6 DEF Control
<1> QED
  BY <1>2, <1>3

\* So does one that becomes another sound activation of its node.
LEMMA BecomeOk ==
    ASSUME Control, NEW c \in Call, status[c] = "running",
           NEW f, ActivationOk(c, f), f.node = top(c).node, Become(c, f)
    PROVE  Control' /\ status' = status
<1> DEFINE t == Topped(stack[c], f)
<1>1. /\ StackOk(c, stack[c]) /\ Len(stack[c]) > 0 /\ Len(stack[c]) \in Nat
      /\ f.node = stack[c][Len(stack[c])].node
  BY TopOk DEF Control, Stacks, Depth, top
<1>2. StackOk(c, t) /\ Len(t) = Len(stack[c])
  BY <1>1, ToppedOk
<1>3. stack' = [stack EXCEPT ![c] = t] /\ status' = status /\ ret' = ret
  BY DEF Become
<1> HIDE DEF t
<1>4. t \in Seq(ActivationSet) /\ t # <<>>
  BY <1>1, <1>2 DEF StackOk
<1>5. Stacks'
  BY <1>2, <1>3 DEF Stacks, StackOk, Control
<1>6. BuildsFormula'
  BY <1>3 DEF BuildsFormula, Control
<1> QED
  BY <1>3, <1>4, <1>5, <1>6 DEF Control

\* The rest of the state.
Data == /\ keySource \in Nat
        /\ cache \in [Node -> Entry]
        /\ key \in [Call -> Nat]
        /\ vars \in [Call -> SUBSET Id]
        /\ declared \in [Call -> [Id -> Nat]]
        /\ made \in [Call -> [Node -> Nat]]
        /\ alone \in [Call -> BOOLEAN]
        /\ Keys /\ Owned /\ VarMap

LEMMA IInvSplit == IInv <=> Control /\ Data
BY DEF IInv, TypeOK, Control, Data

LEMMA InitIInv == Init => IInv
<1> SUFFICES ASSUME Init PROVE IInv
  OBVIOUS
<1>1. Control
  BY DEF Init, Control, Stacks, StackOk, BuildsFormula
<1>2. empty \in Entry
  BY DEF empty, Entry
<1>3. Owned
  <2>1. \A n \in Node : cache[n].key = 0
    BY DEF Init, empty
  <2>2. keySource = 1 /\ \A c \in Call : key[c] = 0
    BY DEF Init
  <2>3. ASSUME NEW n \in Node PROVE cache[n].key <= keySource
    <3> DEFINE k == cache[n].key
    <3>1. k = 0 /\ keySource = 1
      BY <2>1, <2>2
    <3> HIDE DEF k
    <3>2. k <= keySource
      BY <3>1
    <3> QED
      BY <3>2 DEF k
  <2>4. ASSUME NEW n \in Node, NEW c \in Call PROVE key[c] = 0
    BY <2>2
  <2> QED
    BY <2>3, <2>4, Zenon DEF Owned
<1>4. Keys /\ VarMap
  BY DEF Init, Keys, VarMap
<1>5. /\ keySource \in Nat /\ cache \in [Node -> Entry] /\ key \in [Call -> Nat]
      /\ vars \in [Call -> SUBSET Id]
      /\ declared \in [Call -> [Id -> Nat]]
      /\ made \in [Call -> [Node -> Nat]]
      /\ alone \in [Call -> BOOLEAN]
  BY <1>2 DEF Init
<1> QED
  BY <1>1, <1>3, <1>4, <1>5, IInvSplit DEF Data

-----------------------------------------------------------------------------
\* A new call has a key of its own, and no cache has an entry with it.
LEMMA StartStep == ASSUME IInv, NEW c \in Call, Start(c) PROVE IInv'
<1> DEFINE f == Activation(Root[c])
<1>1. Control /\ Data
  BY IInvSplit
<1>2. /\ keySource' = keySource + 1
      /\ key' = [key EXCEPT ![c] = keySource + 1]
      /\ status[c] = "idle" /\ status' = [status EXCEPT ![c] = "running"]
      /\ stack' = [stack EXCEPT ![c] = <<f>>]
      /\ UNCHANGED <<cache, ret, vars, declared, made>>
      /\ alone' \in [Call -> BOOLEAN]
  BY DEF Start, newKey
<1>3. StackOk(c, <<f>>)
  <2>1. f.node = Root[c] /\ f.at = "enter" /\ f.args = <<>> /\ f.expr = NoExpr
    BY DEF Activation
  <2>2. f \in ActivationSet
    BY BuildAssumption DEF Activation, ActivationSet
  <2>3. Kids[Root[c]] \in Seq(Node)
    BY BuildAssumption
  <2> HIDE DEF f
  <2>4. ActivationOk(c, f)
    BY <2>1, <2>2, <2>3 DEF ActivationOk
  <2> QED
    BY <2>1, <2>2, <2>4 DEF StackOk
<1> HIDE DEF f
<1>4. Control'
  <2>1. <<f>> \in Seq(ActivationSet) /\ <<f>> # <<>>
    BY <1>3 DEF StackOk
  <2>2. Stacks'
    BY <1>1, <1>2, <1>3 DEF Control, Stacks, StackOk
  <2>3. BuildsFormula'
    BY <1>1, <1>2 DEF Control, BuildsFormula
  <2> QED
    BY <1>1, <1>2, <2>1, <2>2, <2>3 DEF Control
<1>5. keySource \in Nat /\ key \in [Call -> Nat] /\ Keys /\ Owned
      /\ cache \in [Node -> Entry] /\ status \in [Call -> {"idle", "running", "done", "aborted"}]
  BY <1>1 DEF Data, Control
<1>6. Keys'
  <2>1. \A d \in Call : key[d] # keySource + 1 /\ key[d] <= keySource /\ key[d] \in Nat
    BY <1>5 DEF Keys
  <2> QED
    BY <1>2, <1>5, <2>1 DEF Keys
<1>7. Owned'
  <2>1. \A n \in Node : cache[n].key <= keySource /\ cache[n].key \in Nat
    BY <1>5 DEF Owned, Entry
  <2>2. ASSUME NEW n \in Node PROVE cache[n].key # keySource + 1 /\ cache[n].key <= keySource + 1
    <3> DEFINE k == cache[n].key
    <3>1. k \in Nat /\ k <= keySource /\ keySource \in Nat
      BY <1>5, <2>1
    <3> HIDE DEF k
    <3>2. k # keySource + 1 /\ k <= keySource + 1
      BY <3>1
    <3> QED
      BY <3>2 DEF k
  <2> QED
    BY <1>2, <1>5, <2>2 DEF Owned
<1>8. Data'
  BY <1>1, <1>2, <1>5, <1>6, <1>7 DEF Data, VarMap
<1> QED
  BY <1>4, <1>8, IInvSplit, PTL

\* Steps that leave keys and caches, the VarMap and the statuses that matter alone.
LEMMA DataKept ==
    ASSUME Data, UNCHANGED <<keySource, cache, key, vars, declared, alone>>,
           made' \in [Call -> [Node -> Nat]],
           \A d \in Call : status'[d] = "idle" <=> status[d] = "idle"
    PROVE  Data'
<1>1. Keys'
  BY DEF Data, Keys
<1>2. Owned' /\ VarMap'
  BY DEF Data, Owned, VarMap
<1> QED
  BY <1>1, <1>2 DEF Data

LEMMA ConstantStep == ASSUME IInv, NEW c \in Call, Constant(c) PROVE IInv'
<1>1. Control /\ Data
  BY IInvSplit
<1>2. Control' /\ \A d \in Call : status'[d] = "idle" <=> status[d] = "idle"
  BY <1>1, ReturnOk DEF Constant, At
<1>3. Data'
  BY <1>1, <1>2, DataKept DEF Constant, Data
<1> QED
  BY <1>2, <1>3, IInvSplit, PTL

\* An entry with the key of the call is the call's own.
LEMMA HitStep == ASSUME IInv, NEW c \in Call, Hit(c) PROVE IInv'
<1>1. Control /\ Data
  BY IInvSplit
<1>2. status[c] = "running" /\ top(c).node \in Node
  BY <1>1, TopOk DEF Hit, At
<1>3. key[c] # 0
  BY <1>1, <1>2 DEF Data, Keys
<1>4. cache[top(c).node].expr = ExprOf(c, top(c).node)
  BY <1>1, <1>2, <1>3 DEF Data, Owned, Hit
<1>5. Control' /\ \A d \in Call : status'[d] = "idle" <=> status[d] = "idle"
  BY <1>1, <1>2, <1>4, ReturnOk DEF Hit
<1>6. Data'
  BY <1>1, <1>5, DataKept DEF Hit, Data
<1> QED
  BY <1>5, <1>6, IInvSplit, PTL

LEMMA MissStep == ASSUME IInv, NEW c \in Call, Miss(c) PROVE IInv'
<1> DEFINE f == [top(c) EXCEPT !.at = "args"]
<1>1. Control /\ Data
  BY IInvSplit
<1>2. status[c] = "running" /\ top(c).at = "enter" /\ ActivationOk(c, top(c))
      /\ top(c) \in ActivationSet
  BY <1>1, TopOk DEF Miss, At
<1>3. f \in ActivationSet /\ f.node = top(c).node /\ f.at = "args" /\ f.args = top(c).args
  BY <1>2 DEF ActivationSet
<1>4. Become(c, f)
  BY DEF Miss
<1> HIDE DEF f
<1>5. ActivationOk(c, f)
  BY <1>2, <1>3 DEF ActivationOk
<1>6. Control' /\ status' = status
  BY <1>1, <1>2, <1>3, <1>4, <1>5, BecomeOk
<1>7. Data'
  BY <1>1, <1>6, DataKept DEF Miss, Data
<1> QED
  BY <1>6, <1>7, IInvSplit, PTL

LEMMA BuildKidStep == ASSUME IInv, NEW c \in Call, BuildKid(c) PROVE IInv'
<1> DEFINE m == Kids[top(c).node][Len(top(c).args) + 1]
           t == Append(stack[c], Activation(m))
<1>1. Control /\ Data
  BY IInvSplit
<1>2. /\ status[c] = "running" /\ top(c).at = "args" /\ ActivationOk(c, top(c))
      /\ top(c).node \in Node /\ top(c) \in ActivationSet
      /\ Len(top(c).args) < Len(Kids[top(c).node])
      /\ stack' = [stack EXCEPT ![c] = t]
      /\ UNCHANGED <<keySource, cache, status, key, ret, vars, declared, made, alone>>
  BY <1>1, TopOk DEF BuildKid, At
<1>3. m \in Node
  <2> DEFINE n == Len(top(c).args)
  <2>1. Kids[top(c).node] \in Seq(Node)
    BY <1>2, BuildAssumption
  <2>2. top(c).args \in Seq(Expr \cup {NoExpr})
    BY <1>2 DEF ActivationSet
  <2>3. n \in Nat /\ n < Len(Kids[top(c).node]) /\ Len(Kids[top(c).node]) \in Nat
    BY <1>2, <2>1, <2>2
  <2> HIDE DEF n
  <2>4. n + 1 \in 1..Len(Kids[top(c).node])
    BY <2>3
  <2> QED
    BY <2>1, <2>4 DEF n
<1>4. StackOk(c, stack[c]) /\ Len(stack[c]) > 0 /\ Waits(stack[c][Len(stack[c])], Activation(m))
  <2>1. Activation(m).node = m
    BY DEF Activation
  <2>2. Waits(top(c), Activation(m))
    BY <1>2, <2>1 DEF Waits
  <2>3. Depth(c) > 0 /\ StackOk(c, stack[c])
    BY <1>1, <1>2, TopOk DEF Control, Stacks
  <2> QED
    BY <2>2, <2>3 DEF top, Depth
<1>5. StackOk(c, t) /\ t # <<>>
  BY <1>3, <1>4, PushedOk
<1> HIDE DEF t, m
<1>6. Control'
  <2>1. t \in Seq(ActivationSet)
    BY <1>5 DEF StackOk
  <2>2. Stacks'
    BY <1>1, <1>2, <1>5 DEF Control, Stacks, StackOk
  <2>3. BuildsFormula'
    BY <1>1, <1>2 DEF Control, BuildsFormula
  <2> QED
    BY <1>1, <1>2, <1>5, <2>1, <2>2, <2>3 DEF Control
<1>7. Data'
  BY <1>1, <1>2, DataKept DEF Data
<1> QED
  BY <1>6, <1>7, IInvSplit, PTL

\* The arguments are the expressions of the node's arguments, so that the
\* solver's operation gives the expression of the node.
LEMMA ApplyOk ==
    ASSUME NEW c \in Call, NEW f, ActivationOk(c, f), Len(f.args) = Len(Kids[f.node])
    PROVE  Apply(c, f.node, f.args) = ExprOf(c, f.node)
<1> DEFINE a == f.args
           b == [i \in 1..Len(Kids[f.node]) |-> ExprOf(c, Kids[f.node][i])]
<1>1. a \in Seq(Expr \cup {NoExpr})
  BY DEF ActivationOk, ActivationSet
<1>2. Kids[f.node] \in Seq(Node) /\ Len(Kids[f.node]) \in Nat
  BY BuildAssumption DEF ActivationOk, ActivationSet
<1>3. a = [i \in 1..Len(a) |-> a[i]]
  BY <1>1
<1>4. \A i \in 1..Len(a) : a[i] = ExprOf(c, Kids[f.node][i])
  BY DEF ActivationOk
<1>5. Len(a) = Len(Kids[f.node])
  OBVIOUS
<1> HIDE DEF a
<1>6. a = b
  BY <1>3, <1>4, <1>5
<1> QED
  BY <1>6 DEF Apply, a

LEMMA CombineStep == ASSUME IInv, NEW c \in Call, Combine(c) PROVE IInv'
<1> DEFINE e == Apply(c, top(c).node, top(c).args)
           f == [top(c) EXCEPT !.at = "write", !.expr = e]
<1>1. Control /\ Data
  BY IInvSplit
<1>2. /\ status[c] = "running" /\ top(c).at = "args" /\ ActivationOk(c, top(c))
      /\ top(c) \in ActivationSet /\ top(c).node \in Node
      /\ Len(top(c).args) = Len(Kids[top(c).node])
  BY <1>1, TopOk DEF Combine, At
<1>3. e = ExprOf(c, top(c).node)
  BY <1>2, ApplyOk
<1>4. e \in Expr
  BY <1>2, <1>3 DEF ExprOf, Expr
<1>5. Become(c, f)
  BY DEF Combine
<1>6. made' \in [Call -> [Node -> Nat]]
  BY <1>1, <1>2 DEF Combine, Data
<1>7. UNCHANGED <<keySource, cache, key, vars, declared, alone>>
  BY DEF Combine
<1> HIDE DEF e
<1>8. f \in ActivationSet /\ f.node = top(c).node /\ f.at = "write" /\ f.args = top(c).args
      /\ f.expr = e
  BY <1>2, <1>4 DEF ActivationSet
<1> HIDE DEF f
<1>9. ActivationOk(c, f)
  BY <1>2, <1>3, <1>8 DEF ActivationOk
<1>10. Control' /\ status' = status
  BY <1>1, <1>2, <1>5, <1>8, <1>9, BecomeOk
<1>11. Data'
  BY <1>1, <1>6, <1>7, <1>10, DataKept DEF Data
<1> QED
  BY <1>10, <1>11, IInvSplit, PTL

LEMMA VariableStep == ASSUME IInv, NEW c \in Call, Variable(c) PROVE IInv'
<1> DEFINE e == ExprOf(c, top(c).node)
           f == [top(c) EXCEPT !.at = "write", !.expr = e]
           x == IdOf[top(c).node]
<1>1. Control /\ Data
  BY IInvSplit
<1>2. /\ status[c] = "running" /\ top(c).at = "args" /\ ActivationOk(c, top(c))
      /\ top(c) \in ActivationSet /\ top(c).node \in VarNode /\ top(c).node \in Node
      /\ Become(c, f)
      /\ Declare(c, x)
      /\ made' = [made EXCEPT ![c][top(c).node] = @ + 1]
      /\ UNCHANGED <<keySource, cache, key, alone>>
  BY <1>1, TopOk DEF Variable, At
<1>3. e \in Expr /\ x \in Id
  BY <1>2, BuildAssumption DEF ExprOf, Expr
<1>4. made' \in [Call -> [Node -> Nat]]
  BY <1>1, <1>2 DEF Data
<1>5. f \in ActivationSet /\ f.node = top(c).node /\ f.at = "write" /\ f.args = top(c).args
      /\ f.expr = e
  BY <1>2, <1>3 DEF ActivationSet
<1> HIDE DEF f, x
<1>6. ActivationOk(c, f)
  BY <1>2, <1>5 DEF ActivationOk
<1>7. Control' /\ status' = status
  BY <1>1, <1>2, <1>5, <1>6, BecomeOk
<1>8. /\ vars' \in [Call -> SUBSET Id] /\ declared' \in [Call -> [Id -> Nat]]
      /\ VarMap'
  <2>1. vars \in [Call -> SUBSET Id] /\ declared \in [Call -> [Id -> Nat]] /\ VarMap
    BY <1>1 DEF Data
  <2>2. CASE x \in vars[c]
    <3>1. vars' = vars /\ declared' = declared
      BY <1>2, <2>2 DEF Declare
    <3> QED
      BY <2>1, <3>1 DEF VarMap
  <2>3. CASE x \notin vars[c]
    <3>1. /\ declared' = [declared EXCEPT ![c][x] = @ + 1]
          /\ vars' = [vars EXCEPT ![c] = @ \cup {x}]
      BY <1>2, <2>3 DEF Declare
    <3>2. declared[c][x] = 0
      BY <1>3, <2>1, <2>3 DEF VarMap
    <3>3. declared' = [declared EXCEPT ![c][x] = 1]
      BY <3>1, <3>2
    <3> QED
      BY <1>3, <2>1, <3>1, <3>3 DEF VarMap
  <2> QED
    BY <2>2, <2>3
<1>9. Keys' /\ Owned'
  BY <1>1, <1>2, <1>7 DEF Data, Keys, Owned
<1> QED
  <2>1. Data'
    BY <1>1, <1>2, <1>4, <1>8, <1>9 DEF Data
  <2> QED
    BY <1>7, <2>1, IInvSplit, PTL

\* The entry written is the call's own, and no other call has its key.
LEMMA WriteStep == ASSUME IInv, NEW c \in Call, Write(c) PROVE IInv'
<1> DEFINE n == top(c).node
           e == ExprOf(c, n)
           w == [key |-> key[c], expr |-> e]
<1>1. Control /\ Data
  BY IInvSplit
<1>2. status[c] = "running" /\ n \in Node /\ top(c).expr = e
  BY <1>1, TopOk DEF Write, At, ActivationOk
<1>3. /\ cache' = [cache EXCEPT ![n] = w]
      /\ UNCHANGED <<keySource, key, vars, declared, made, alone>>
  BY <1>2 DEF Write, Store
<1>4. Control' /\ \A d \in Call : status'[d] = "idle" <=> status[d] = "idle"
  BY <1>1, <1>2, ReturnOk DEF Write
<1>5. w \in Entry /\ w.key = key[c] /\ w.expr = e /\ key[c] <= keySource
  BY <1>1, <1>2 DEF Data, Entry, Expr, ExprOf, Keys
<1>6. cache \in [Node -> Entry] /\ Owned /\ Keys
  BY <1>1 DEF Data
<1> HIDE DEF w
<1>7. \A m \in Node : cache'[m] = IF m = n THEN w ELSE cache[m]
  BY <1>2, <1>3, <1>6
<1>8. Owned'
  <2> SUFFICES ASSUME NEW m \in Node
               PROVE  /\ cache'[m].key <= keySource
                      /\ \A d \in Call : cache'[m].key = key[d] /\ key[d] # 0 =>
                                           cache'[m].expr = ExprOf(d, m)
    BY <1>3 DEF Owned
  <2>1. CASE m = n
    <3>1. cache'[m] = w
      BY <1>7, <2>1
    <3>2. ASSUME NEW d \in Call, cache'[m].key = key[d], key[d] # 0 PROVE d = c
      BY <1>5, <1>6, <3>1, <3>2 DEF Keys
    <3> QED
      BY <1>5, <2>1, <3>1, <3>2
  <2>2. CASE m # n
    BY <1>6, <1>7, <2>2 DEF Owned
  <2> QED
    BY <2>1, <2>2
<1>9. Keys'
  BY <1>3, <1>4, <1>6 DEF Keys
<1>10. Data'
  BY <1>1, <1>3, <1>5, <1>6, <1>8, <1>9 DEF Data, VarMap
<1> QED
  BY <1>4, <1>10, IInvSplit, PTL

\* A call that is cut short leaves its entries and its declarations, which are sound.
LEMMA RaiseStep == ASSUME IInv, NEW c \in Call, Raise(c) PROVE IInv'
<1>1. Control /\ Data
  BY IInvSplit
<1>2. /\ status[c] = "running" /\ status' = [status EXCEPT ![c] = "aborted"]
      /\ stack' = [stack EXCEPT ![c] = <<>>]
      /\ UNCHANGED <<keySource, cache, key, ret, vars, declared, made, alone>>
  BY DEF Raise
<1>3. Control'
  <2>1. StackOk(c, <<>>)
    BY DEF StackOk
  <2>2. Stacks'
    BY <1>1, <1>2, <2>1 DEF Control, Stacks, StackOk
  <2>3. BuildsFormula'
    BY <1>1, <1>2 DEF Control, BuildsFormula
  <2> QED
    BY <1>1, <1>2, <2>2, <2>3 DEF Control
<1>4. \A d \in Call : status'[d] = "idle" <=> status[d] = "idle"
  BY <1>1, <1>2 DEF Control
<1>5. Data'
  BY <1>1, <1>2, <1>4, DataKept DEF Data
<1> QED
  BY <1>3, <1>5, IInvSplit, PTL

LEMMA StutterStep == ASSUME IInv, UNCHANGED buildVars PROVE IInv'
BY DEF IInv, TypeOK, Stacks, Keys, Owned, VarMap, BuildsFormula, buildVars

-----------------------------------------------------------------------------
\* The inductive invariant: a key has one owner, an entry is its owner's, a
\* stack is a path of the formula, what is declared is what the VarMap has.
THEOREM Invariance == Spec => []IInv
<1>1. Init => IInv
  BY InitIInv
<1>2. IInv /\ [Next]_buildVars => IInv'
  <2> SUFFICES ASSUME IInv, [Next]_buildVars PROVE IInv'
    OBVIOUS
  <2>1. ASSUME NEW c \in Call, Start(c) PROVE IInv'
    BY <2>1, StartStep
  <2>2. ASSUME NEW c \in Call, Constant(c) PROVE IInv'
    BY <2>2, ConstantStep
  <2>3. ASSUME NEW c \in Call, Hit(c) PROVE IInv'
    BY <2>3, HitStep
  <2>4. ASSUME NEW c \in Call, Miss(c) PROVE IInv'
    BY <2>4, MissStep
  <2>5. ASSUME NEW c \in Call, BuildKid(c) PROVE IInv'
    BY <2>5, BuildKidStep
  <2>6. ASSUME NEW c \in Call, Combine(c) PROVE IInv'
    BY <2>6, CombineStep
  <2>7. ASSUME NEW c \in Call, Variable(c) PROVE IInv'
    BY <2>7, VariableStep
  <2>8. ASSUME NEW c \in Call, Write(c) PROVE IInv'
    BY <2>8, WriteStep
  <2>9. ASSUME NEW c \in Call, Raise(c) PROVE IInv'
    BY <2>9, RaiseStep
  <2>10. CASE UNCHANGED buildVars
    BY <2>10, StutterStep
  <2> QED
    BY <2>1, <2>2, <2>3, <2>4, <2>5, <2>6, <2>7, <2>8, <2>9, <2>10 DEF Next, Step
<1> QED
  BY <1>1, <1>2, PTL DEF Spec

\* The variables keep their types.
THEOREM TypeCorrect == Spec => []TypeOK
<1>1. IInv => TypeOK
  BY DEF IInv
<1> QED
  BY <1>1, Invariance, PTL

\* Whatever the other calls leave in the caches, whenever they do and however
\* they end, a call never takes an expression of another context.
THEOREM OwnExpressionsThm == Spec => []OwnExpressions
<1>1. IInv => OwnExpressions
  BY DEF IInv, Stacks, StackOk, ActivationOk, OwnExpressions, Depth
<1> QED
  BY <1>1, Invariance, PTL

\* A call that returns has built its own formula.
THEOREM BuildsFormulaThm == Spec => []BuildsFormula
<1>1. IInv => BuildsFormula
  BY DEF IInv
<1> QED
  BY <1>1, Invariance, PTL

\* No context is told of a variable twice.
THEOREM DeclaredOnceThm == Spec => []DeclaredOnce
<1>1. IInv => DeclaredOnce
  <2> SUFFICES ASSUME IInv, NEW c \in Call, NEW x \in Id PROVE declared[c][x] <= 1
    BY DEF DeclaredOnce
  <2>1. declared[c][x] = IF x \in vars[c] THEN 1 ELSE 0
    BY DEF IInv, VarMap
  <2> QED
    BY <2>1
<1> QED
  BY <1>1, Invariance, PTL

-----------------------------------------------------------------------------
(***************************************************************************)
(* What a call has made.  The nodes made, with the constants, are closed   *)
(* under arguments; every activation has made the arguments it has taken,  *)
(* and its node lies strictly below those of the activations that wait for *)
(* it.  So a call that returns has made the whole formula, and, as long as *)
(* it runs alone, its own entries tell it what it has made.                *)
(***************************************************************************)
Built(c) == Const \cup {n \in Node : made[c][n] > 0}

\* m is in an argument of n.
Below(m, n) == \E i \in 1..Len(Kids[n]) : m \in Under(Kids[n][i])

\* f works on a node of the formula r, and what it has taken or made is in B.
Sound(B, r, f) == /\ f.node \in Under(r)
                  /\ \A j \in 1..Len(f.args) : Kids[f.node][j] \in B
                  /\ f.at = "write" => f.node \in B

Path(B, r, s) == \A i \in 1..Len(s) :
                    /\ Sound(B, r, s[i])
                    /\ \A j \in 1..(i - 1) : Below(s[i].node, s[j].node)

\* What the data say of the nodes made.
Traces(c) == /\ Closed(Built(c))
             /\ \A n \in Node : key[c] # 0 /\ cache[n].key = key[c] => n \in Built(c)
             /\ status[c] = "idle" => \A n \in Node : made[c][n] = 0
             /\ \A n \in VarNode : made[c][n] > 0 => IdOf[n] \in vars[c]
             /\ vars[c] \subseteq IdsUnder(Root[c])

Covered(c) == /\ Traces(c)
              /\ Path(Built(c), Root[c], stack[c])
              /\ status[c] = "done" => Root[c] \in Built(c)

\* An activation about to make its node is the first to do so.
Fresh(M, s) == \A i \in 1..Len(s) : s[i].at = "args" => M[s[i].node] = 0

\* What a call that runs alone has made is in its cache, or about to be.
Kept(c) == /\ \A d \in Call : status[d] = "running" => d = c
           /\ \A n \in Node : made[c][n] = 1 =>
                 cache[n].key = key[c] \/ (top(c).at = "write" /\ top(c).node = n)
           /\ Fresh(made[c], stack[c])

Once(c) == alone[c] => /\ \A n \in Node : made[c][n] <= 1
                       /\ status[c] = "running" => Kept(c)

-----------------------------------------------------------------------------
\* A node is in its own formula, which has the arguments of its nodes and is
\* the least such set.
LEMMA UnderSelf == ASSUME NEW n \in Node PROVE n \in Under(n)
BY DEF Under

LEMMA UnderKid ==
    ASSUME NEW n \in Node, NEW m \in Under(n), NEW i \in 1..Len(Kids[m])
    PROVE  Kids[m][i] \in Under(n)
<1>1. m \in Node /\ Kids[m] \in Seq(Node)
  BY BuildAssumption DEF Under
<1>2. Kids[m][i] \in Node
  BY <1>1
<1>3. ASSUME NEW S \in SUBSET Node, n \in S, Closed(S) PROVE Kids[m][i] \in S
  <2>1. m \in S
    BY <1>3 DEF Under
  <2> QED
    BY <2>1, <1>3 DEF Closed
<1> QED
  BY <1>2, <1>3 DEF Under

LEMMA UnderLeast ==
    ASSUME NEW n \in Node, NEW S \in SUBSET Node, n \in S, Closed(S)
    PROVE  Under(n) \subseteq S
BY DEF Under

LEMMA UnderTransitive ==
    ASSUME NEW n \in Node, NEW m \in Under(n) PROVE Under(m) \subseteq Under(n)
<1>1. Under(n) \subseteq Node /\ m \in Node
  BY DEF Under
<1>2. Closed(Under(n))
  BY UnderKid DEF Closed
<1> QED
  BY <1>1, <1>2, UnderLeast

LEMMA BelowTransitive ==
    ASSUME NEW n \in Node, NEW m \in Node, NEW k \in Node, Below(m, n), Below(k, m)
    PROVE  Below(k, n)
<1>1. PICK i \in 1..Len(Kids[n]) : m \in Under(Kids[n][i])
  BY DEF Below
<1>2. PICK j \in 1..Len(Kids[m]) : k \in Under(Kids[m][j])
  BY DEF Below
<1>3. Kids[n][i] \in Node /\ Kids[m][j] \in Node
  BY BuildAssumption
<1>4. Kids[m][j] \in Under(Kids[n][i])
  BY <1>1, <1>3, UnderKid
<1>5. k \in Under(Kids[n][i])
  BY <1>2, <1>3, <1>4, UnderTransitive
<1> QED
  BY <1>5 DEF Below

\* The activations of a stack are of distinct nodes.
LEMMA NotBelowItself == ASSUME NEW n \in Node PROVE ~Below(n, n)
BY AcyclicAssumption DEF Below

LEMMA SoundGrows ==
    ASSUME NEW B, NEW C, B \subseteq C, NEW r, NEW f, Sound(B, r, f) PROVE Sound(C, r, f)
BY DEF Sound

\* The path while its top changes, grows and shrinks.
LEMMA PathTopped ==
    ASSUME NEW B, NEW C, B \subseteq C, NEW r, NEW s \in Seq(ActivationSet), Len(s) > 0,
           Path(B, r, s), NEW f, Sound(C, r, f), f.node = s[Len(s)].node
    PROVE  Path(C, r, Topped(s, f))
<1> DEFINE t == Topped(s, f)
<1>1. Len(s) \in Nat
  OBVIOUS
<1>2. Len(t) = Len(s) /\ \A i \in 1..Len(s) : t[i] = IF i = Len(s) THEN f ELSE s[i]
  BY <1>1 DEF Topped
<1>3. \A i \in 1..Len(s) : t[i].node = s[i].node
  BY <1>2
<1> HIDE DEF t
<1>4. ASSUME NEW i \in 1..Len(t)
      PROVE  Sound(C, r, t[i]) /\ \A j \in 1..(i - 1) : Below(t[i].node, t[j].node)
  <2>1. i \in 1..Len(s) /\ \A j \in 1..(i - 1) : j \in 1..Len(s)
    BY <1>1, <1>2
  <2>2. Sound(B, r, s[i]) /\ \A j \in 1..(i - 1) : Below(s[i].node, s[j].node)
    BY <2>1 DEF Path
  <2>3. Sound(C, r, s[i])
    BY <2>2, SoundGrows
  <2> QED
    BY <1>2, <1>3, <2>1, <2>2, <2>3
<1> QED
  BY <1>4 DEF Path, t

LEMMA PathPushed ==
    ASSUME NEW B, NEW r, NEW s \in Seq(ActivationSet), Len(s) > 0, Path(B, r, s),
           NEW f \in ActivationSet, Sound(B, r, f), Below(f.node, s[Len(s)].node)
    PROVE  Path(B, r, Append(s, f))
<1> DEFINE t == Append(s, f)
<1>1. Len(s) \in Nat
  OBVIOUS
<1>2. Len(t) = Len(s) + 1 /\ \A i \in 1..Len(t) : t[i] = IF i = Len(t) THEN f ELSE s[i]
  BY <1>1
<1>3. f.node \in Node /\ \A i \in 1..Len(s) : s[i].node \in Node
  <2>1. \A i \in 1..Len(s) : s[i] \in ActivationSet
    OBVIOUS
  <2> QED
    BY <2>1 DEF ActivationSet
<1> HIDE DEF t
<1>4. ASSUME NEW i \in 1..Len(t)
      PROVE  Sound(B, r, t[i]) /\ \A j \in 1..(i - 1) : Below(t[i].node, t[j].node)
  <2>1. CASE i = Len(t)
    <3>1. t[i] = f /\ Len(s) \in 1..Len(s) /\ i = Len(s) + 1
      BY <1>1, <1>2, <2>1
    <3>2. ASSUME NEW j \in 1..(i - 1) PROVE Below(f.node, t[j].node)
      <4>1. j \in 1..Len(s) /\ t[j] = s[j]
        BY <1>1, <1>2, <3>1
      <4>2. CASE j = Len(s)
        BY <4>1, <4>2
      <4>3. CASE j # Len(s)
        <5>1. j \in 1..(Len(s) - 1)
          BY <1>1, <4>1, <4>3
        <5>2. Below(s[Len(s)].node, s[j].node)
          BY <3>1, <5>1 DEF Path
        <5> QED
          BY <1>3, <3>1, <4>1, <5>2, BelowTransitive
      <4> QED
        BY <4>2, <4>3
    <3> QED
      BY <3>1, <3>2
  <2>2. CASE i # Len(t)
    <3>1. i \in 1..Len(s) /\ t[i] = s[i] /\ \A j \in 1..(i - 1) : t[j] = s[j]
      BY <1>1, <1>2, <2>2
    <3> QED
      BY <3>1 DEF Path
  <2> QED
    BY <2>1, <2>2
<1> QED
  BY <1>4 DEF Path, t

LEMMA PoppedElements ==
    ASSUME NEW s \in Seq(ActivationSet), Len(s) > 1, NEW f
    PROVE  LET t == Popped(s, f) IN
             /\ Len(t) = Len(s) - 1
             /\ \A i \in 1..Len(t) : t[i] = IF i = Len(t) THEN f ELSE s[i]
<1>1. Len(s) \in Nat
  OBVIOUS
<1> QED
  BY <1>1 DEF Popped

LEMMA PathPopped ==
    ASSUME NEW B, NEW r, NEW s \in Seq(ActivationSet), Len(s) > 1, Path(B, r, s),
           s[Len(s)].node \in B, Waits(s[Len(s) - 1], s[Len(s)]), NEW e
    PROVE  Path(B, r, Popped(s, WithArg(s[Len(s) - 1], e)))
<1> DEFINE w == s[Len(s) - 1]
           f == WithArg(w, e)
           t == Popped(s, f)
<1>1. Len(s) \in Nat /\ Len(s) - 1 \in 1..Len(s) /\ Len(s) - 1 \in Nat
  OBVIOUS
<1>2. /\ Len(t) = Len(s) - 1
      /\ \A i \in 1..Len(t) : t[i] = IF i = Len(t) THEN f ELSE s[i]
  BY PoppedElements
<1>3. f.node = w.node /\ f.at = w.at /\ f.args = Append(w.args, e)
  BY DEF WithArg
<1>4. Sound(B, r, w)
  BY <1>1 DEF Path
<1>5. w \in ActivationSet /\ w.args \in Seq(Expr \cup {NoExpr})
  <2>1. w \in ActivationSet
    BY <1>1
  <2> QED
    BY <2>1 DEF ActivationSet
<1>6. w.at = "args" /\ s[Len(s)].node = Kids[w.node][Len(w.args) + 1]
  BY DEF Waits
<1> HIDE DEF t, w, f
<1>7. Len(f.args) = Len(w.args) + 1 /\ Len(w.args) \in Nat
  <2>1. Len(Append(w.args, e)) = Len(w.args) + 1 /\ Len(w.args) \in Nat
    BY <1>5
  <2> QED
    BY <1>3, <2>1
<1>8. Sound(B, r, f)
  <2>1. ASSUME NEW j \in 1..Len(f.args) PROVE Kids[f.node][j] \in B
    <3>1. CASE j = Len(w.args) + 1
      BY <1>3, <1>6, <3>1
    <3>2. CASE j # Len(w.args) + 1
      <4>1. j \in 1..Len(w.args)
        BY <1>7, <3>2
      <4> QED
        BY <1>3, <1>4, <4>1 DEF Sound
    <3> QED
      BY <3>1, <3>2
  <2> QED
    BY <1>3, <1>4, <1>6, <2>1 DEF Sound
<1>9. ASSUME NEW i \in 1..Len(t)
      PROVE  Sound(B, r, t[i]) /\ \A j \in 1..(i - 1) : Below(t[i].node, t[j].node)
  <2>1. i \in 1..Len(s) /\ \A j \in 1..(i - 1) : t[j] = s[j]
    BY <1>1, <1>2
  <2>2. Sound(B, r, s[i]) /\ \A j \in 1..(i - 1) : Below(s[i].node, s[j].node)
    BY <2>1 DEF Path
  <2>3. t[i].node = s[i].node
    BY <1>2, <1>3 DEF w
  <2>4. Sound(B, r, t[i])
    BY <1>2, <1>8, <2>2
  <2> QED
    BY <2>1, <2>2, <2>3, <2>4
<1> QED
  BY <1>9 DEF Path, t, f, w

-----------------------------------------------------------------------------
LEMMA InitCovered == Init => \A c \in Call : Covered(c) /\ Once(c)
<1> SUFFICES ASSUME Init, NEW c \in Call PROVE Covered(c) /\ Once(c)
  OBVIOUS
<1>1. /\ status[c] = "idle" /\ key[c] = 0 /\ stack[c] = <<>> /\ vars[c] = {}
      /\ \A n \in Node : made[c][n] = 0
  BY DEF Init
<1>2. Built(c) = Const
  BY <1>1 DEF Built
<1>3. Closed(Const)
  BY BuildAssumption DEF Closed
<1>4. Traces(c)
  BY <1>1, <1>2, <1>3, BuildAssumption DEF Traces
<1>5. Path(Built(c), Root[c], stack[c])
  BY <1>1 DEF Path
<1> QED
  BY <1>1, <1>4, <1>5 DEF Covered, Once

\* A step that is not of c leaves c what it had made: it writes no entry with
\* the key of c.
LEMMA OtherCovered ==
    ASSUME NEW c \in Call, Covered(c), key'[c] = key[c], status'[c] = status[c],
           stack'[c] = stack[c], made'[c] = made[c], vars'[c] = vars[c],
           \A n \in Node : cache'[n] = cache[n] \/ cache'[n].key # key[c]
    PROVE  Covered(c)'
<1>1. Built(c)' = Built(c)
  BY DEF Built
<1>2. Traces(c)'
  <2>1. Closed(Built(c))' /\ IdsUnder(Root[c])' = IdsUnder(Root[c])
    BY <1>1 DEF Covered, Traces, Closed, IdsUnder, Under
  <2>2. \A n \in Node : key[c] # 0 /\ cache'[n].key = key[c] => n \in Built(c)
    BY DEF Covered, Traces
  <2> QED
    BY <1>1, <2>1, <2>2 DEF Covered, Traces
<1>3. Path(Built(c), Root[c], stack[c])'
  BY <1>1 DEF Covered, Path, Sound, Below, Under
<1> QED
  BY <1>1, <1>2, <1>3 DEF Covered

\* While c runs alone there is no such step.
LEMMA OtherOnce ==
    ASSUME NEW c \in Call, Once(c), NEW d \in Call, d # c, status[d] = "running",
           alone'[c] = alone[c], status'[c] = status[c], made'[c] = made[c]
    PROVE  Once(c)'
BY DEF Once, Kept

\* The inmost activation returns the expression of a node that is made.
LEMMA ReturnCovered ==
    ASSUME IInv, NEW c \in Call, status[c] = "running", Covered(c),
           top(c).node \in Built(c), NEW e, Return(c, e)
    PROVE  /\ Path(Built(c), Root[c], stack'[c])
           /\ status'[c] = "done" => Root[c] \in Built(c)
           /\ status'[c] \in {"running", "done"}
           /\ \A d \in Call \ {c} : stack'[d] = stack[d] /\ status'[d] = status[d]
           /\ status'[c] = "running" => /\ stack'[c] # <<>>
                                        /\ Fresh(made[c], stack[c]) => Fresh(made[c], stack'[c])
<1> DEFINE s == stack[c]
<1>1. Control
  BY IInvSplit
<1>2. s \in Seq(ActivationSet) /\ Len(s) \in Nat /\ Len(s) > 0 /\ StackOk(c, s)
  BY <1>1, TopOk DEF Control, Stacks, Depth
<1>3. Path(Built(c), Root[c], s)
  BY DEF Covered
<1>4. top(c) = s[Len(s)] /\ Depth(c) = Len(s)
  BY DEF top, Depth
<1>5. CASE Len(s) = 1
  <2>1. /\ stack' = [stack EXCEPT ![c] = <<>>]
        /\ status' = [status EXCEPT ![c] = "done"]
    BY <1>4, <1>5 DEF Return
  <2>2. stack'[c] = <<>> /\ status'[c] = "done"
        /\ \A d \in Call \ {c} : stack'[d] = stack[d] /\ status'[d] = status[d]
    BY <1>1, <2>1 DEF Control
  <2>3. Root[c] \in Built(c)
    BY <1>2, <1>4, <1>5 DEF StackOk
  <2> QED
    BY <2>2, <2>3 DEF Path
<1>6. CASE Len(s) # 1
  <2> DEFINE f == WithArg(s[Len(s) - 1], e)
             t == Popped(s, f)
  <2>1. Len(s) > 1 /\ Len(s) - 1 \in 1..(Len(s) - 1)
    <3> DEFINE k == Len(s)
    <3>1. k \in Nat /\ k > 0 /\ k # 1
      BY <1>2, <1>6
    <3> HIDE DEF k
    <3>2. k > 1 /\ k - 1 \in 1..(k - 1)
      BY <3>1
    <3> QED
      BY <3>2 DEF k
  <2>2. stack' = [stack EXCEPT ![c] = t] /\ status' = status
    BY <1>4, <1>6 DEF Return
  <2>3. stack'[c] = t /\ status'[c] = "running"
        /\ \A d \in Call \ {c} : stack'[d] = stack[d] /\ status'[d] = status[d]
    BY <1>1, <2>2 DEF Control
  <2>4. Waits(s[Len(s) - 1], s[Len(s)])
    BY <1>2, <2>1 DEF StackOk
  <2>5. Path(Built(c), Root[c], t)
    BY <1>2, <1>3, <1>4, <2>1, <2>4, PathPopped
  <2>6. Len(t) = Len(s) - 1 /\ \A i \in 1..Len(t) : t[i] = IF i = Len(t) THEN f ELSE s[i]
    BY <1>2, <2>1, PoppedElements
  <2>7. f.at = s[Len(s) - 1].at /\ f.node = s[Len(s) - 1].node
    BY DEF WithArg
  <2> HIDE DEF t, f
  <2>8. ASSUME Fresh(made[c], s) PROVE Fresh(made[c], t)
    BY <1>2, <2>1, <2>6, <2>7, <2>8 DEF Fresh
  <2>9. t # <<>>
    BY <2>1, <2>6
  <2> QED
    BY <2>3, <2>5, <2>8, <2>9
<1> QED
  BY <1>5, <1>6

\* What is on the stack of a running call: below the top, activations wait.
LEMMA OnlyTopWrites ==
    ASSUME IInv, NEW c \in Call, status[c] = "running",
           NEW i \in 1..Depth(c), i # Depth(c)
    PROVE  stack[c][i].at = "args"
<1>1. StackOk(c, stack[c]) /\ Depth(c) \in Nat
  BY IInvSplit, TopOk DEF Control, Stacks
<1>2. i \in 1..(Len(stack[c]) - 1)
  BY <1>1 DEF Depth
<1> QED
  BY <1>1, <1>2 DEF StackOk, Waits

\* A step of c in which its inmost activation returns.
LEMMA ReturningStep ==
    ASSUME IInv, NEW c \in Call, status[c] = "running", Covered(c), Once(c),
           top(c).node \in Built(c), NEW e, Return(c, e),
           UNCHANGED <<key, vars, made, alone>>,
           \A n \in Node : cache'[n] = cache[n] \/ (cache'[n].key = key[c] /\ n = top(c).node),
           top(c).at = "write" => cache'[top(c).node].key = key[c]
    PROVE  Covered(c)' /\ Once(c)'
<1>1. /\ Path(Built(c), Root[c], stack'[c])
      /\ status'[c] = "done" => Root[c] \in Built(c)
      /\ status'[c] \in {"running", "done"}
      /\ \A d \in Call \ {c} : status'[d] = status[d]
      /\ status'[c] = "running" => (Fresh(made[c], stack[c]) => Fresh(made[c], stack'[c]))
  BY ReturnCovered
<1>2. Built(c)' = Built(c)
  BY DEF Built
<1>3. Traces(c)'
  <2>1. Closed(Built(c))' /\ IdsUnder(Root[c])' = IdsUnder(Root[c])
    BY <1>2 DEF Covered, Traces, Closed, IdsUnder, Under
  <2>2. \A n \in Node : key[c] # 0 /\ cache'[n].key = key[c] => n \in Built(c)
    BY DEF Covered, Traces
  <2>3. status'[c] # "idle"
    BY <1>1
  <2> QED
    BY <1>2, <2>1, <2>2, <2>3 DEF Covered, Traces
<1>4. Path(Built(c), Root[c], stack[c])'
  BY <1>1, <1>2 DEF Path, Sound, Below, Under
<1>5. Covered(c)'
  BY <1>1, <1>2, <1>3, <1>4 DEF Covered
<1>6. ASSUME alone[c], status'[c] = "running" PROVE Kept(c)'
  <2>1. Kept(c)
    BY <1>6 DEF Once
  <2>2. \A d \in Call : status'[d] = "running" => d = c
    BY <1>1, <2>1 DEF Kept
  <2>3. ASSUME NEW n \in Node, made[c][n] = 1 PROVE cache'[n].key = key[c]
    BY <2>1, <2>3 DEF Kept
  <2>4. Fresh(made[c], stack'[c])
    BY <1>1, <1>6, <2>1 DEF Kept
  <2> QED
    BY <2>2, <2>3, <2>4 DEF Kept
<1>7. Once(c)'
  BY <1>6 DEF Once
<1> QED
  BY <1>5, <1>7

LEMMA ConstantCovered ==
    ASSUME IInv, NEW c \in Call, Covered(c), Once(c), Constant(c) PROVE Covered(c)' /\ Once(c)'
<1>1. status[c] = "running" /\ top(c).at = "enter" /\ top(c).node \in Built(c)
  BY DEF Constant, At, Built
<1> QED
  BY <1>1, ReturningStep DEF Constant

LEMMA HitCovered ==
    ASSUME IInv, NEW c \in Call, Covered(c), Once(c), Hit(c) PROVE Covered(c)' /\ Once(c)'
<1>1. status[c] = "running" /\ top(c).at = "enter" /\ top(c).node \in Node
  BY IInvSplit, TopOk DEF Hit, At
<1>2. key[c] # 0
  BY <1>1 DEF IInv, Keys
<1>3. top(c).node \in Built(c)
  BY <1>1, <1>2 DEF Covered, Traces, Hit
<1> QED
  BY <1>1, <1>3, ReturningStep DEF Hit

\* The node written is made: the call is at "write".
LEMMA WriteCovered ==
    ASSUME IInv, NEW c \in Call, Covered(c), Once(c), Write(c) PROVE Covered(c)' /\ Once(c)'
<1> DEFINE n == top(c).node
           w == [key |-> key[c], expr |-> top(c).expr]
<1>1. /\ status[c] = "running" /\ top(c).at = "write" /\ n \in Node
      /\ Depth(c) \in Nat /\ Depth(c) > 0
  BY IInvSplit, TopOk DEF Write, At
<1>2. n \in Built(c)
  <2>1. Depth(c) \in 1..Len(stack[c])
    BY <1>1 DEF Depth
  <2>2. Sound(Built(c), Root[c], top(c))
    BY <2>1 DEF Covered, Path, top
  <2> QED
    BY <1>1, <2>2 DEF Sound
<1>3. cache' = [cache EXCEPT ![n] = w] /\ w.key = key[c]
  BY DEF Write, Store
<1>4. cache \in [Node -> Entry]
  BY DEF IInv, TypeOK
<1> HIDE DEF w
<1>5. cache'[n].key = key[c] /\ \A m \in Node : m # n => cache'[m] = cache[m]
  BY <1>1, <1>3, <1>4
<1> HIDE DEF n
<1>6. \A m \in Node : cache'[m] = cache[m] \/ (cache'[m].key = key[c] /\ m = n)
  BY <1>5
<1>7. UNCHANGED <<key, vars, made, alone>> /\ Return(c, top(c).expr)
  BY DEF Write
<1> QED
  BY <1>1, <1>2, <1>5, <1>6, <1>7, ReturningStep DEF n

\* An entry with another key: a call that runs alone has not made the node.
LEMMA MissCovered ==
    ASSUME IInv, NEW c \in Call, Covered(c), Once(c), Miss(c) PROVE Covered(c)' /\ Once(c)'
<1> DEFINE f == [top(c) EXCEPT !.at = "args"]
           s == stack[c]
           t == Topped(s, f)
<1>1. /\ status[c] = "running" /\ top(c).at = "enter" /\ ActivationOk(c, top(c))
      /\ top(c) \in ActivationSet /\ top(c).node \in Node
      /\ Depth(c) \in Nat /\ Depth(c) > 0 /\ s \in Seq(ActivationSet)
      /\ cache[top(c).node].key # key[c]
  BY IInvSplit, TopOk DEF Miss, At, Control
<1>2. f \in ActivationSet /\ f.node = top(c).node /\ f.at = "args" /\ f.args = top(c).args
  BY <1>1 DEF ActivationSet
<1>3. /\ stack' = [stack EXCEPT ![c] = t] /\ stack \in [Call -> Seq(ActivationSet)]
      /\ UNCHANGED <<keySource, cache, key, vars, declared, made, alone, status>>
  BY IInvSplit DEF Miss, Become, Control
<1>4. top(c) = s[Len(s)] /\ Depth(c) = Len(s) /\ Len(s) \in 1..Len(s)
  BY <1>1 DEF top, Depth
<1>5. Path(Built(c), Root[c], s) /\ Traces(c)
  BY DEF Covered
<1>6. Sound(Built(c), Root[c], f)
  <2>1. Sound(Built(c), Root[c], top(c))
    BY <1>4, <1>5 DEF Path
  <2> HIDE DEF f
  <2> QED
    BY <1>2, <2>1 DEF Sound
<1>7. Len(t) = Len(s) /\ \A i \in 1..Len(s) : t[i] = IF i = Len(s) THEN f ELSE s[i]
  BY <1>1 DEF Topped
<1> HIDE DEF f
<1>8. Path(Built(c), Root[c], t)
  BY <1>1, <1>2, <1>4, <1>5, <1>6, PathTopped
<1> HIDE DEF t
<1>9. stack'[c] = t
  BY <1>3
<1>10. Covered(c)'
  <2>1. Built(c)' = Built(c)
    BY <1>3 DEF Built
  <2>2. Traces(c)'
    BY <1>3, <1>5, <2>1 DEF Traces, Closed, IdsUnder, Under
  <2>3. Path(Built(c), Root[c], stack[c])'
    BY <1>8, <1>9, <2>1
  <2> QED
    BY <1>1, <1>3, <2>2, <2>3 DEF Covered
<1>11. ASSUME alone[c] PROVE Kept(c)'
  <2>1. Kept(c) /\ \A n \in Node : made[c][n] <= 1
    BY <1>1, <1>11 DEF Once
  <2>2. \A d \in Call : status'[d] = "running" => d = c
    BY <1>3, <2>1 DEF Kept
  <2>3. \A n \in Node : made'[c][n] = 1 => cache'[n].key = key'[c]
    BY <1>1, <1>3, <2>1 DEF Kept
  <2>4. made[c][top(c).node] = 0
    <3>1. made[c][top(c).node] \in Nat
      BY <1>1 DEF IInv, TypeOK
    <3>2. made[c][top(c).node] <= 1 /\ made[c][top(c).node] # 1
      BY <1>1, <2>1 DEF Kept
    <3> DEFINE k == made[c][top(c).node]
    <3> HIDE DEF k
    <3>3. k \in Nat /\ k <= 1 /\ k # 1
      BY <3>1, <3>2 DEF k
    <3>4. k = 0
      BY <3>3
    <3> QED
      BY <3>4 DEF k
  <2>5. ASSUME NEW i \in 1..Len(t), t[i].at = "args" PROVE made[c][t[i].node] = 0
    <3>1. CASE i = Len(s)
      BY <1>2, <1>7, <2>4, <3>1
    <3>2. CASE i # Len(s)
      BY <1>7, <2>1, <2>5, <3>2 DEF Kept, Fresh
    <3> QED
      BY <3>1, <3>2
  <2>6. Fresh(made'[c], stack'[c])
    BY <1>3, <1>9, <2>5 DEF Fresh
  <2> QED
    BY <2>2, <2>3, <2>6 DEF Kept
<1>12. Once(c)'
  BY <1>3, <1>11 DEF Once
<1> QED
  BY <1>10, <1>12

LEMMA BuildKidCovered ==
    ASSUME IInv, NEW c \in Call, Covered(c), Once(c), BuildKid(c) PROVE Covered(c)' /\ Once(c)'
<1> DEFINE k == Len(top(c).args) + 1
           n == top(c).node
           m == Kids[n][k]
           f == Activation(m)
           s == stack[c]
           t == Append(s, f)
<1>1. /\ status[c] = "running" /\ top(c).at = "args" /\ top(c) \in ActivationSet
      /\ n \in Node /\ Depth(c) \in Nat /\ Depth(c) > 0 /\ s \in Seq(ActivationSet)
      /\ Len(top(c).args) < Len(Kids[n])
  BY IInvSplit, TopOk DEF BuildKid, At, Control
<1>2. /\ stack' = [stack EXCEPT ![c] = t] /\ stack \in [Call -> Seq(ActivationSet)]
      /\ UNCHANGED <<cache, key, vars, made, alone, status>>
  BY IInvSplit DEF BuildKid, Control
<1>3. top(c) = s[Len(s)] /\ Len(s) \in 1..Len(s)
  BY <1>1 DEF top, Depth
<1>4. k \in 1..Len(Kids[n])
  <2>1. Len(top(c).args) \in Nat /\ Len(Kids[n]) \in Nat
    BY <1>1, BuildAssumption DEF ActivationSet
  <2> DEFINE h == Len(top(c).args)
  <2>2. h \in Nat /\ Len(Kids[n]) \in Nat /\ h < Len(Kids[n])
    BY <1>1, <2>1
  <2> HIDE DEF h
  <2>3. h + 1 \in 1..Len(Kids[n])
    BY <2>2
  <2> QED
    BY <2>3 DEF h
<1> HIDE DEF k
<1>5. m \in Node
  BY <1>1, <1>4, BuildAssumption
<1>6. Path(Built(c), Root[c], s) /\ Traces(c)
  BY DEF Covered
<1>7. n \in Under(Root[c]) /\ Root[c] \in Node
  BY <1>3, <1>6, BuildAssumption DEF Path, Sound
<1>8. f.node = m /\ f.at = "enter" /\ f.args = <<>> /\ f \in ActivationSet
  BY <1>5 DEF Activation, ActivationSet
<1>9. m \in Under(Root[c]) /\ Below(m, n)
  BY <1>1, <1>4, <1>5, <1>7, UnderKid, UnderSelf DEF Below
<1> HIDE DEF m, f
<1>10. Sound(Built(c), Root[c], f)
  BY <1>8, <1>9 DEF Sound
<1>11. Path(Built(c), Root[c], t)
  BY <1>1, <1>3, <1>6, <1>8, <1>9, <1>10, PathPushed
<1>12. Len(t) = Len(s) + 1 /\ \A i \in 1..Len(t) : t[i] = IF i = Len(t) THEN f ELSE s[i]
  BY <1>1
<1> HIDE DEF t
<1>13. stack'[c] = t
  BY <1>2
<1>14. Covered(c)'
  <2>1. Built(c)' = Built(c)
    BY <1>2 DEF Built
  <2>2. Traces(c)'
    BY <1>2, <1>6, <2>1 DEF Traces, Closed, IdsUnder, Under
  <2>3. Path(Built(c), Root[c], stack[c])'
    BY <1>11, <1>13, <2>1
  <2> QED
    BY <1>1, <1>2, <2>2, <2>3 DEF Covered
<1>15. ASSUME alone[c] PROVE Kept(c)'
  <2>1. Kept(c)
    BY <1>1, <1>15 DEF Once
  <2>2. \A d \in Call : status'[d] = "running" => d = c
    BY <1>2, <2>1 DEF Kept
  <2>3. \A q \in Node : made'[c][q] = 1 => cache'[q].key = key'[c]
    BY <1>1, <1>2, <2>1 DEF Kept
  <2>4. Fresh(made'[c], stack'[c])
    BY <1>1, <1>2, <1>8, <1>12, <1>13, <2>1 DEF Kept, Fresh
  <2> QED
    BY <2>2, <2>3, <2>4 DEF Kept
<1>16. Once(c)'
  BY <1>2, <1>15 DEF Once
<1> QED
  BY <1>14, <1>16

\* A node is made when its arguments are, and, by a call that runs alone, for
\* the first time.
LEMMA MakingStep ==
    ASSUME IInv, NEW c \in Call, status[c] = "running", Covered(c), Once(c),
           top(c).at = "args", Len(top(c).args) = Len(Kids[top(c).node]),
           NEW f \in ActivationSet, f.node = top(c).node, f.at = "write", f.args = top(c).args,
           Become(c, f), UNCHANGED <<cache, key, alone>>,
           made' = [made EXCEPT ![c][top(c).node] = @ + 1],
           vars'[c] = IF top(c).node \in VarNode THEN vars[c] \cup {IdOf[top(c).node]}
                      ELSE vars[c]
    PROVE  Covered(c)' /\ Once(c)'
<1> DEFINE n == top(c).node
           s == stack[c]
           t == Topped(s, f)
<1>1. /\ n \in Node /\ Depth(c) \in Nat /\ Depth(c) > 0 /\ s \in Seq(ActivationSet)
  BY IInvSplit, TopOk DEF Control
<1>2. /\ stack'[c] = t /\ status' = status
  BY IInvSplit DEF Become, Control
<1>3. top(c) = s[Len(s)] /\ Len(s) \in 1..Len(s) /\ Depth(c) = Len(s)
  BY <1>1 DEF top, Depth
<1>4. made[c] \in [Node -> Nat] /\ made \in [Call -> [Node -> Nat]]
  BY DEF IInv, TypeOK
<1>5. made'[c][n] = made[c][n] + 1 /\ \A m \in Node \ {n} : made'[c][m] = made[c][m]
  BY <1>1, <1>4
<1>6. Path(Built(c), Root[c], s) /\ Traces(c)
  BY DEF Covered
<1> DEFINE B == Built(c)
           C == B \cup {n}
<1>7. Built(c)' = C
  BY <1>1, <1>4, <1>5 DEF Built
<1>8. Sound(B, Root[c], top(c))
  BY <1>3, <1>6 DEF Path
<1>9. \A j \in 1..Len(Kids[n]) : Kids[n][j] \in B
  BY <1>8 DEF Sound
<1>10. Closed(C)
  <2>1. Closed(B)
    BY <1>6 DEF Traces
  <2> QED
    BY <1>9, <2>1 DEF Closed
<1>11. Sound(C, Root[c], f)
  BY <1>8, <1>9 DEF Sound
<1>12. Len(t) = Len(s) /\ \A i \in 1..Len(s) : t[i] = IF i = Len(s) THEN f ELSE s[i]
  BY <1>1 DEF Topped
<1> HIDE DEF t
<1>13. Path(C, Root[c], t)
  BY <1>1, <1>3, <1>6, <1>11, PathTopped DEF t
<1>14. Covered(c)'
  <2>1. Path(Built(c), Root[c], stack[c])'
    BY <1>2, <1>7, <1>13
  <2>2. Closed(Built(c))'
    BY <1>7, <1>10
  <2>3. \A m \in Node : key'[c] # 0 /\ cache'[m].key = key'[c] => m \in Built(c)'
    BY <1>6, <1>7 DEF Traces
  <2>4. ASSUME NEW m \in VarNode, made'[c][m] > 0 PROVE IdOf[m] \in vars'[c]
    <3>1. CASE m = n
      BY <2>4, <3>1
    <3>2. CASE m # n
      <4>1. m \in Node \ {n}
        BY <3>2, BuildAssumption
      <4>2. made[c][m] > 0
        BY <1>5, <2>4, <4>1
      <4> QED
        BY <1>6, <2>4, <4>2 DEF Traces
    <3> QED
      BY <3>1, <3>2
  <2>5. vars'[c] \subseteq IdsUnder(Root[c])
    <3>1. n \in Under(Root[c])
      BY <1>8 DEF Sound
    <3>2. n \in VarNode => IdOf[n] \in IdsUnder(Root[c])
      BY <3>1 DEF IdsUnder
    <3> QED
      BY <1>6, <3>2 DEF Traces
  <2>6. Traces(c)'
    BY <1>2, <2>2, <2>3, <2>4, <2>5 DEF Traces
  <2> QED
    BY <1>2, <2>1, <2>6 DEF Covered
<1>15. ASSUME alone[c]
       PROVE  /\ \A m \in Node : made'[c][m] <= 1
              /\ Kept(c)'
  <2>1. Kept(c) /\ \A m \in Node : made[c][m] <= 1
    BY <1>15 DEF Once
  <2>2. made[c][n] = 0
    BY <1>3, <2>1 DEF Kept, Fresh
  <2>3. ASSUME NEW m \in Node PROVE made'[c][m] <= 1
    <3>1. CASE m = n
      BY <1>5, <2>2, <3>1
    <3>2. CASE m # n
      BY <1>5, <2>1, <3>2
    <3> QED
      BY <3>1, <3>2
  <2>4. \A d \in Call : status'[d] = "running" => d = c
    BY <1>2, <2>1 DEF Kept
  <2>5. top(c)' = f
    BY <1>2, <1>3, <1>12 DEF top, Depth
  <2>6. ASSUME NEW m \in Node, made'[c][m] = 1
        PROVE  cache'[m].key = key'[c] \/ (top(c)'.at = "write" /\ top(c)'.node = m)
    <3>1. CASE m = n
      BY <2>5, <3>1
    <3>2. CASE m # n
      BY <1>5, <2>1, <2>6, <3>2 DEF Kept
    <3> QED
      BY <3>1, <3>2
  <2>7. ASSUME NEW i \in 1..Len(t), t[i].at = "args" PROVE made'[c][t[i].node] = 0
    <3>1. i \in 1..Len(s) /\ i # Len(s) /\ t[i] = s[i]
      BY <1>12, <2>7
    <3>2. s[i].node \in Node
      <4>1. s[i] \in ActivationSet
        BY <1>1, <3>1
      <4> QED
        BY <4>1 DEF ActivationSet
    <3>3. Below(n, s[i].node)
      <4>1. i \in 1..(Len(s) - 1)
        BY <1>1, <3>1
      <4> QED
        BY <1>3, <1>6, <4>1 DEF Path
    <3>4. s[i].node # n
      BY <1>1, <3>3, NotBelowItself
    <3>5. made[c][s[i].node] = 0
      BY <2>1, <2>7, <3>1 DEF Kept, Fresh
    <3> QED
      BY <1>5, <3>1, <3>2, <3>4, <3>5
  <2>8. Fresh(made'[c], stack'[c])
    BY <1>2, <2>7 DEF Fresh
  <2> QED
    BY <2>3, <2>4, <2>6, <2>8 DEF Kept
<1>16. Once(c)'
  BY <1>15 DEF Once
<1> QED
  BY <1>14, <1>16

LEMMA CombineCovered ==
    ASSUME IInv, NEW c \in Call, Covered(c), Once(c), Combine(c) PROVE Covered(c)' /\ Once(c)'
<1> DEFINE e == Apply(c, top(c).node, top(c).args)
           f == [top(c) EXCEPT !.at = "write", !.expr = e]
<1>1. /\ status[c] = "running" /\ top(c).at = "args" /\ top(c) \in ActivationSet
      /\ top(c).node \in Node /\ top(c).node \notin VarNode /\ ActivationOk(c, top(c))
      /\ Len(top(c).args) = Len(Kids[top(c).node])
  BY IInvSplit, TopOk DEF Combine, At
<1>2. e \in Expr \cup {NoExpr}
  BY <1>1 DEF Apply, ExprOf, Expr
<1>3. Become(c, f) /\ UNCHANGED <<cache, key, vars, alone>>
      /\ made' = [made EXCEPT ![c][top(c).node] = @ + 1]
  BY DEF Combine
<1> HIDE DEF e
<1>4. f \in ActivationSet /\ f.node = top(c).node /\ f.at = "write" /\ f.args = top(c).args
  BY <1>1, <1>2 DEF ActivationSet
<1> HIDE DEF f
<1> QED
  BY <1>1, <1>3, <1>4, MakingStep

LEMMA VariableCovered ==
    ASSUME IInv, NEW c \in Call, Covered(c), Once(c), Variable(c) PROVE Covered(c)' /\ Once(c)'
<1> DEFINE e == ExprOf(c, top(c).node)
           f == [top(c) EXCEPT !.at = "write", !.expr = e]
<1>1. /\ status[c] = "running" /\ top(c).at = "args" /\ top(c) \in ActivationSet
      /\ top(c).node \in Node /\ top(c).node \in VarNode /\ ActivationOk(c, top(c))
  BY IInvSplit, TopOk DEF Variable, At
<1>2. Len(top(c).args) = Len(Kids[top(c).node])
  <2>1. Kids[top(c).node] = <<>>
    BY <1>1, BuildAssumption
  <2>2. top(c).args \in Seq(Expr \cup {NoExpr})
    BY <1>1 DEF ActivationSet
  <2>3. Len(top(c).args) <= Len(Kids[top(c).node])
    BY <1>1 DEF ActivationOk
  <2> DEFINE a == top(c).args
  <2>4. a \in Seq(Expr \cup {NoExpr}) /\ Len(a) <= Len(<<>>)
    BY <2>1, <2>2, <2>3
  <2> HIDE DEF a
  <2>5. Len(a) = 0
    BY <2>4
  <2> QED
    BY <2>1, <2>5 DEF a
<1>3. e \in Expr \cup {NoExpr}
  BY <1>1 DEF ExprOf, Expr
<1>4. Become(c, f) /\ UNCHANGED <<cache, key, alone>>
      /\ made' = [made EXCEPT ![c][top(c).node] = @ + 1]
      /\ Declare(c, IdOf[top(c).node])
  BY DEF Variable
<1>5. vars'[c] = vars[c] \cup {IdOf[top(c).node]}
  BY <1>4 DEF Declare, IInv, TypeOK
<1> HIDE DEF e
<1>6. f \in ActivationSet /\ f.node = top(c).node /\ f.at = "write" /\ f.args = top(c).args
  BY <1>1, <1>3 DEF ActivationSet
<1> HIDE DEF f
<1> QED
  BY <1>1, <1>2, <1>4, <1>5, <1>6, MakingStep

\* A call begins with nothing made, alone if no other runs.
LEMMA StartCovered ==
    ASSUME IInv, NEW c \in Call, Covered(c), Start(c) PROVE Covered(c)' /\ Once(c)'
<1> DEFINE f == Activation(Root[c])
<1>1. /\ key'[c] = keySource + 1 /\ status[c] = "idle" /\ status'[c] = "running"
      /\ \A d \in Call \ {c} : status'[d] = status[d]
      /\ stack'[c] = <<f>> /\ made' = made /\ vars' = vars /\ cache' = cache
      /\ alone'[c] = \A o \in Call : status[o] # "running"
  BY DEF Start, newKey, IInv, TypeOK
<1>2. \A n \in Node : made[c][n] = 0
  BY <1>1 DEF Covered, Traces
<1>3. Built(c)' = Built(c)
  BY <1>1 DEF Built
<1>4. \A n \in Node : cache'[n].key # key'[c]
  <2> SUFFICES ASSUME NEW n \in Node PROVE cache'[n].key # key'[c]
    OBVIOUS
  <2>1. cache[n] \in Entry /\ cache[n].key <= keySource /\ keySource \in Nat
    BY DEF IInv, TypeOK, Owned
  <2>2. cache[n].key \in Nat
    BY <2>1 DEF Entry
  <2> DEFINE k == cache[n].key
  <2>3. k \in Nat /\ k <= keySource /\ keySource \in Nat
    BY <2>1, <2>2
  <2> HIDE DEF k
  <2>4. k # keySource + 1
    BY <2>3
  <2> QED
    BY <1>1, <2>4 DEF k
<1>5. Root[c] \in Node /\ f.node = Root[c] /\ f.at = "enter" /\ f.args = <<>>
  BY BuildAssumption DEF Activation
<1> HIDE DEF f
<1>6. Sound(Built(c), Root[c], f)
  BY <1>5, UnderSelf DEF Sound
<1>7. Path(Built(c), Root[c], <<f>>)
  <2> SUFFICES ASSUME NEW i \in 1..Len(<<f>>)
               PROVE  /\ Sound(Built(c), Root[c], <<f>>[i])
                      /\ \A j \in 1..(i - 1) : Below(<<f>>[i].node, <<f>>[j].node)
    BY DEF Path
  <2>1. i = 1 /\ <<f>>[1] = f
    OBVIOUS
  <2> QED
    BY <1>6, <2>1
<1>8. Path(Built(c), Root[c], stack[c])'
  BY <1>1, <1>3, <1>7
<1>9. Traces(c)'
  BY <1>1, <1>3, <1>4 DEF Covered, Traces, Closed, IdsUnder, Under
<1>10. Covered(c)'
  BY <1>1, <1>8, <1>9 DEF Covered
<1>11. ASSUME alone'[c] PROVE Kept(c)'
  <2>1. \A d \in Call : status'[d] = "running" => d = c
    BY <1>1, <1>11
  <2>2. Fresh(made'[c], stack'[c])
    BY <1>1, <1>2, <1>5 DEF Fresh
  <2> QED
    BY <1>1, <1>2, <2>1, <2>2 DEF Kept
<1>12. \A n \in Node : made'[c][n] <= 1
  <2> SUFFICES ASSUME NEW n \in Node PROVE made'[c][n] <= 1
    OBVIOUS
  <2>1. made'[c][n] = 0
    BY <1>1, <1>2
  <2> QED
    BY <2>1
<1>13. Once(c)'
  BY <1>11, <1>12 DEF Once
<1> QED
  BY <1>10, <1>13

LEMMA RaiseCovered ==
    ASSUME IInv, NEW c \in Call, Covered(c), Once(c), Raise(c) PROVE Covered(c)' /\ Once(c)'
<1>1. /\ status'[c] = "aborted" /\ stack'[c] = <<>>
      /\ UNCHANGED <<cache, key, vars, made, alone>>
  BY DEF Raise, IInv, TypeOK
<1>2. Built(c)' = Built(c)
  BY <1>1 DEF Built
<1>3. Traces(c)'
  BY <1>1, <1>2 DEF Covered, Traces, Closed, IdsUnder, Under
<1>4. Path(Built(c), Root[c], stack[c])'
  BY <1>1 DEF Path
<1>5. Covered(c)' /\ Once(c)'
  BY <1>1, <1>3, <1>4 DEF Covered, Once
<1> QED
  BY <1>5

\* What a step of call d changes is d's own, but for one entry with d's key.
LEMMA StepOfOther ==
    ASSUME IInv, NEW d \in Call, Start(d) \/ Step(d) \/ Raise(d), NEW c \in Call, c # d
    PROVE  /\ key'[c] = key[c] /\ status'[c] = status[c] /\ stack'[c] = stack[c]
           /\ made'[c] = made[c] /\ vars'[c] = vars[c]
           /\ \A n \in Node : cache'[n] = cache[n] \/ cache'[n].key # key[c]
           /\ Start(d) \/ (status[d] = "running" /\ alone' = alone)
<1> USE DEF IInv, TypeOK
<1>1. CASE Start(d)
  BY <1>1 DEF Start, newKey
<1>2. CASE Constant(d) \/ Hit(d)
  <2>1. status[d] = "running" /\ UNCHANGED <<cache, key, vars, made, alone>>
    BY <1>2 DEF Constant, Hit, At
  <2>2. PICK e : Return(d, e)
    BY <1>2 DEF Constant, Hit
  <2> QED
    BY <2>1, <2>2 DEF Return
<1>3. CASE Miss(d)
  BY <1>3 DEF Miss, Become, At
<1>4. CASE BuildKid(d)
  BY <1>4 DEF BuildKid, At
<1>5. CASE Combine(d)
  BY <1>5 DEF Combine, Become, At
<1>6. CASE Variable(d)
  <2>1. vars'[c] = vars[c]
    BY <1>6 DEF Variable, Declare
  <2> QED
    BY <1>6, <2>1 DEF Variable, Become, At
<1>7. CASE Write(d)
  <2> DEFINE w == [key |-> key[d], expr |-> top(d).expr]
  <2>1. /\ status[d] = "running" /\ UNCHANGED <<key, vars, made, alone>>
        /\ Return(d, top(d).expr)
        /\ cache' = [cache EXCEPT ![top(d).node] = w] /\ w.key = key[d]
    BY <1>7 DEF Write, Store, At
  <2>2. key[d] # key[c]
    BY <2>1 DEF Keys
  <2> HIDE DEF w
  <2>3. \A n \in Node : cache'[n] = cache[n] \/ cache'[n] = w
    BY <2>1
  <2> QED
    BY <2>1, <2>2, <2>3 DEF Return
<1>8. CASE Raise(d)
  BY <1>8 DEF Raise
<1> QED
  BY <1>1, <1>2, <1>3, <1>4, <1>5, <1>6, <1>7, <1>8 DEF Step

Coverage == \A c \in Call : Covered(c) /\ Once(c)

\* What the calls have made is covered by their entries and their paths, and
\* those that have run alone have made each node once (buildB and cached).
THEOREM CoverageThm == Spec => []Coverage
<1>1. Init => Coverage
  BY InitCovered DEF Coverage
<1>2. IInv /\ Coverage /\ [Next]_buildVars => Coverage'
  <2> SUFFICES ASSUME IInv, Coverage, [Next]_buildVars PROVE Coverage'
    OBVIOUS
  <2>1. ASSUME NEW d \in Call, Start(d) \/ Step(d) \/ Raise(d), NEW c \in Call
        PROVE  Covered(c)' /\ Once(c)'
    <3>1. Covered(c) /\ Once(c)
      BY DEF Coverage
    <3>2. CASE c = d
      BY <2>1, <3>1, <3>2, StartCovered, ConstantCovered, HitCovered, MissCovered,
         BuildKidCovered, CombineCovered, VariableCovered, WriteCovered, RaiseCovered DEF Step
    <3>3. CASE c # d
      <4>1. /\ key'[c] = key[c] /\ status'[c] = status[c] /\ stack'[c] = stack[c]
            /\ made'[c] = made[c] /\ vars'[c] = vars[c]
            /\ \A n \in Node : cache'[n] = cache[n] \/ cache'[n].key # key[c]
            /\ Start(d) \/ (status[d] = "running" /\ alone' = alone)
        BY <2>1, <3>3, StepOfOther
      <4>2. Covered(c)'
        BY <3>1, <4>1, OtherCovered
      <4>3. CASE Start(d)
        <5>1. alone'[c] = (alone[c] /\ status[c] # "running")
          BY <3>3, <4>3 DEF Start
        <5> QED
          BY <3>1, <4>1, <4>2, <5>1 DEF Once
      <4>4. CASE status[d] = "running" /\ alone' = alone
        BY <3>1, <3>3, <4>1, <4>2, <4>4, OtherOnce
      <4> QED
        BY <4>1, <4>3, <4>4
    <3> QED
      BY <3>2, <3>3
  <2>2. CASE UNCHANGED buildVars
    <3>1. ASSUME NEW c \in Call PROVE Covered(c)' /\ Once(c)'
      <4>1. UNCHANGED buildVars /\ Covered(c) /\ Once(c)
        BY <2>2 DEF Coverage
      <4>2. Covered(c)'
        BY <4>1, OtherCovered DEF buildVars
      <4>3. top(c)' = top(c)
        BY <4>1 DEF buildVars, top, Depth
      <4>4. Once(c)'
        BY <4>1, <4>3 DEF buildVars, Once, Kept, Fresh
      <4> QED
        BY <4>2, <4>4
    <3> QED
      BY <3>1 DEF Coverage
  <2> QED
    BY <2>1, <2>2 DEF Next, Coverage
<1> QED
  BY <1>1, <1>2, Invariance, PTL DEF Spec

\* A call that returns gives back the identifiers of all the variables of its
\* formula and of no other, each declared in its context.
THEOREM VarsCompleteThm == Spec => []VarsComplete
<1>1. IInv /\ Coverage => VarsComplete
  <2> SUFFICES ASSUME IInv, Coverage, NEW c \in Call, status[c] = "done"
               PROVE  /\ vars[c] = IdsUnder(Root[c])
                      /\ \A x \in vars[c] : declared[c][x] = 1
    BY DEF VarsComplete
  <2>1. Covered(c) /\ Root[c] \in Node /\ Built(c) \subseteq Node
    BY BuildAssumption DEF Coverage, Built
  <2>2. Under(Root[c]) \subseteq Built(c)
    BY <2>1, UnderLeast DEF Covered, Traces
  <2>3. ASSUME NEW m \in VarNode \cap Under(Root[c]) PROVE IdOf[m] \in vars[c]
    <3>1. made[c][m] > 0
      BY <2>2, BuildAssumption DEF Built
    <3> QED
      BY <2>1, <3>1 DEF Covered, Traces
  <2>4. vars[c] = IdsUnder(Root[c])
    BY <2>1, <2>3 DEF Covered, Traces, IdsUnder
  <2>5. \A x \in vars[c] : declared[c][x] = 1
    BY DEF IInv, TypeOK, VarMap
  <2> QED
    BY <2>4, <2>5
<1> QED
  BY <1>1, Invariance, CoverageThm, PTL

\* A call that runs alone makes no node of its formula twice, however often the
\* formula has it.
THEOREM MadeOnceThm == Spec => []MadeOnce
<1>1. Coverage => MadeOnce
  BY DEF Coverage, Once, MadeOnce
<1> QED
  BY <1>1, CoverageThm, PTL
=============================================================================
