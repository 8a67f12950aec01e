---------------------------- MODULE SolverProofs ----------------------------
(***************************************************************************)
(* Calls of solve for any number of calls, variables and bits: contexts,   *)
(* identifiers and the variables of the model, and that they answer as     *)
(* SolveSpec says.                                                         *)
(***************************************************************************)
EXTENDS Solver, Recursion, TLAPS

Places == {"idle", "build", "check", "model", "cleanup", "done", "aborted"}

TypeOK ==
    /\ freshSource \in Nat
    /\ idOf \in [Var -> Nat]
    /\ \A c \in Call : query[c].vars \subseteq Var
    /\ pc \in [Call -> Places]
    /\ declared \in [Call -> SUBSET Var]
    /\ at \in [Call -> SUBSET Var]
    /\ drawn \in [Call -> Seq(Nat)]
    /\ bits = [c \in Call |-> bits[c]]
    /\ \A c \in Call : \A i \in DOMAIN bits[c] : bits[c][i] \in Seq(Nat)
    /\ answer = [c \in Call |-> answer[c]]

(***************************************************************************)
(* Where a cleanup ends the whole library, no other call is using it.      *)
(***************************************************************************)
Alone == backend.exits => \A c, d \in Call : Active(c) /\ Active(d) => c = d

(***************************************************************************)
(* What was drawn is at most freshSource, and drawn once: the identifiers  *)
(* of the variables, the booleans a call is drawing and those it has in    *)
(* its table are three kinds apart, and within each kind all different.    *)
(***************************************************************************)
VarIds == /\ \A v \in Var : idOf[v] <= freshSource
          /\ \A v, w \in Var : v # w /\ idOf[v] # 0 => idOf[v] # idOf[w]

DrawnIds == \A c \in Call : \A k \in 1..Len(drawn[c]) :
    /\ drawn[c][k] \in 1..freshSource
    /\ \A v \in Var : idOf[v] # drawn[c][k]
    /\ \A l \in 1..Len(drawn[c]) : drawn[c][k] = drawn[c][l] => k = l
    /\ \A i \in DOMAIN bits[c] : \A l \in 1..Len(bits[c][i]) : drawn[c][k] # bits[c][i][l]

BitIds == \A c \in Call : \A i \in DOMAIN bits[c] : \A k \in 1..Len(bits[c][i]) :
    /\ bits[c][i][k] \in 1..freshSource
    /\ \A v \in Var : idOf[v] # bits[c][i][k]
    /\ \A j \in DOMAIN bits[c] : \A l \in 1..Len(bits[c][j]) :
          bits[c][i][k] = bits[c][j][l] => i = j /\ k = l

(***************************************************************************)
(* What is declared is of the query and has its identifier; before the     *)
(* check all of the query is; and an answer is there only afterwards.      *)
(***************************************************************************)
Declarations == \A c \in Call :
    /\ declared[c] \cup at[c] \subseteq query[c].vars
    /\ \A v \in declared[c] \cup at[c] : idOf[v] # 0
    /\ pc[c] \in {"check", "model"} \/ answer[c].kind = "just" => declared[c] = query[c].vars
    /\ answer[c].kind = "just" => pc[c] \in {"cleanup", "done", "aborted"}

IInv == /\ TypeOK
        /\ Alone /\ ContextsRight
        /\ VarIds /\ DrawnIds /\ BitIds
        /\ Declarations /\ ModelIsUsers

-----------------------------------------------------------------------------
LEMMA QueryVars ==
  ASSUME NEW q \in Queries, NEW c \in Call
  PROVE  q[c].vars \subseteq Var
<1>1. q[c] \in Query
  BY SolverAssumption
<1>2. PICK V \in SUBSET Var : q[c] \in [vars : {V}, sat : SUBSET Values(V)]
  BY <1>1 DEF Query
<1>3. q[c].vars = V
  BY <1>2
<1>. QED  BY <1>3

LEMMA InitInv == Init => IInv
<1>. SUFFICES ASSUME Init PROVE IInv
  OBVIOUS
<1>1. TypeOK
  BY QueryVars DEF Init, TypeOK, Places, NoTable
<1>2. Alone /\ ContextsRight
  BY DEF Init, Alone, ContextsRight, Active
<1>3. VarIds /\ DrawnIds /\ BitIds
  BY DEF Init, VarIds, DrawnIds, BitIds, NoTable
<1>4. Declarations /\ ModelIsUsers
  BY DEF Init, Declarations, ModelIsUsers, None
<1>. QED  BY <1>1, <1>2, <1>3, <1>4 DEF IInv

(***************************************************************************)
(* The identifiers are as they were.                                       *)
(***************************************************************************)
LEMMA SameIds ==
  ASSUME VarIds, DrawnIds, BitIds, UNCHANGED <<freshSource, idOf, drawn, bits>>
  PROVE  VarIds' /\ DrawnIds' /\ BitIds'
BY DEF VarIds, DrawnIds, BitIds

(***************************************************************************)
(* A call goes on to another place: what an active call may rely on stays. *)
(***************************************************************************)
LEMMA GoesOn ==
  ASSUME IInv, NEW c \in Call, NEW where \in {"build", "check", "model", "cleanup"},
         Active(c), Goto(c, where), UNCHANGED <<backend, contexts>>
  PROVE  /\ pc' \in [Call -> Places]
         /\ Alone' /\ ContextsRight'
BY DEF IInv, TypeOK, Places, Goto, Alone, ContextsRight, Active

LEMMA SameContexts ==
  ASSUME Alone, ContextsRight, UNCHANGED <<backend, contexts, pc>>
  PROVE  Alone' /\ ContextsRight'
BY DEF Alone, ContextsRight, Active

LEMMA MakeInv ==
  ASSUME IInv, NEW c \in Call, Make(c)
  PROVE  IInv'
<1>1. TypeOK'
  BY DEF IInv, TypeOK, Make, Goto, Places
<1>2. Alone' /\ ContextsRight'
  BY DEF IInv, TypeOK, Make, Goto, Places, Alone, ContextsRight, Active
<1>3. VarIds' /\ DrawnIds' /\ BitIds'
  BY SameIds DEF IInv, Make
<1>4. Declarations' /\ ModelIsUsers'
  BY DEF IInv, TypeOK, Make, Goto, Declarations, ModelIsUsers
<1>. QED  BY <1>1, <1>2, <1>3, <1>4 DEF IInv

LEMMA ForceVarInv ==
  ASSUME IInv, NEW v \in Var, ForceVar(v)
  PROVE  IInv'
<1>1. /\ TypeOK'
      /\ freshSource' = freshSource + 1 /\ freshSource \in Nat
      /\ \A w \in Var : idOf[w] \in Nat /\ idOf'[w] = IF w = v THEN freshSource + 1 ELSE idOf[w]
  BY DEF IInv, TypeOK, ForceVar
<1>2. Alone' /\ ContextsRight'
  BY SameContexts DEF IInv, ForceVar
<1>3. VarIds'
  BY <1>1 DEF IInv, VarIds
<1>4. DrawnIds' /\ BitIds'
  <2>1. \A c \in Call : drawn'[c] = drawn[c] /\ bits'[c] = bits[c] /\ drawn[c] \in Seq(Nat)
    BY DEF ForceVar, IInv, TypeOK
  <2>2. \A n \in 1..freshSource : n \in 1..freshSource' /\ n # freshSource + 1
    BY <1>1
  <2>3. DrawnIds'
    BY <1>1, <2>1, <2>2 DEF IInv, DrawnIds
  <2>4. BitIds'
    BY <1>1, <2>1, <2>2 DEF IInv, BitIds
  <2>. QED  BY <2>3, <2>4
<1>5. Declarations' /\ ModelIsUsers'
  <2>1. \A w \in Var : idOf[w] # 0 => idOf'[w] = idOf[w]
    BY <1>1 DEF ForceVar
  <2>2. \A w \in Var : idOf[w] # 0 => idOf'[w] # 0
    BY <2>1
  <2>3. Declarations'
    BY <2>2 DEF IInv, TypeOK, Declarations, ForceVar
  <2>4. ASSUME NEW c \in Call, answer[c].kind = "just"
        PROVE  {idOf'[w] : w \in query[c].vars} = {idOf[w] : w \in query[c].vars}
    <3>1. \A w \in query[c].vars : w \in Var /\ idOf[w] # 0
      BY <2>4 DEF IInv, TypeOK, Declarations
    <3>2. \A w \in query[c].vars : idOf'[w] = idOf[w]
      BY <2>1, <3>1
    <3>. QED  BY <3>2
  <2>5. ModelIsUsers'
    BY <2>4 DEF IInv, ModelIsUsers, ForceVar
  <2>. QED  BY <2>3, <2>5
<1>. QED  BY <1>1, <1>2, <1>3, <1>4, <1>5 DEF IInv

LEMMA DeclareInv ==
  ASSUME IInv, NEW c \in Call, NEW v \in Var, DeclareNative(c, v) \/ DeclareBits(c, v)
  PROVE  IInv'
<1>1. /\ pc[c] = "build" /\ v \in query[c].vars /\ idOf[v] # 0
      /\ \/ declared' = [declared EXCEPT ![c] = @ \cup {v}] /\ at' = at
         \/ at' = [at EXCEPT ![c] = {v}] /\ declared' = declared
      /\ UNCHANGED <<freshSource, idOf, backend, query, contexts, pc, drawn, bits, answer>>
  BY DEF DeclareNative, DeclareBits, Declares
<1>2. TypeOK'
  <2>1. v \in Var
    OBVIOUS
  <2>2. declared' \in [Call -> SUBSET Var] /\ at' \in [Call -> SUBSET Var]
    <3>1. declared \in [Call -> SUBSET Var] /\ at \in [Call -> SUBSET Var]
      BY DEF IInv, TypeOK
    <3>2. declared[c] \cup {v} \in SUBSET Var /\ {v} \in SUBSET Var
      BY <3>1
    <3>3. /\ [declared EXCEPT ![c] = @ \cup {v}] \in [Call -> SUBSET Var]
          /\ [at EXCEPT ![c] = {v}] \in [Call -> SUBSET Var]
      BY <3>1, <3>2
    <3>. QED  BY <1>1, <3>1, <3>3
  <2>. QED  BY <1>1, <2>2 DEF IInv, TypeOK
<1>3. Alone' /\ ContextsRight'
  BY <1>1, SameContexts DEF IInv
<1>4. VarIds' /\ DrawnIds' /\ BitIds'
  BY <1>1, SameIds DEF IInv
<1>5. Declarations'
  <2>1. \A d \in Call : d # c => declared'[d] = declared[d] /\ at'[d] = at[d]
    BY <1>1 DEF IInv, TypeOK
  <2>2. declared'[c] \cup at'[c] \subseteq declared[c] \cup at[c] \cup {v}
    BY <1>1 DEF IInv, TypeOK
  <2>3. pc[c] \notin {"check", "model"} /\ answer[c].kind # "just"
    BY <1>1 DEF IInv, Declarations
  <2>. QED  BY <1>1, <2>1, <2>2, <2>3 DEF IInv, Declarations
<1>6. ModelIsUsers'
  BY <1>1 DEF IInv, ModelIsUsers
<1>. QED  BY <1>2, <1>3, <1>4, <1>5, <1>6 DEF IInv

LEMMA DrawInv ==
  ASSUME IInv, NEW c \in Call, DrawBit(c)
  PROVE  IInv'
<1>1. /\ freshSource' = freshSource + 1 /\ freshSource \in Nat
      /\ drawn' = [drawn EXCEPT ![c] = Append(@, freshSource + 1)]
      /\ drawn \in [Call -> Seq(Nat)]
      /\ UNCHANGED <<idOf, backend, query, contexts, pc, declared, at, bits, answer>>
  BY DEF DrawBit, fresh, IInv, TypeOK
<1>2. TypeOK'
  <2>1. Append(drawn[c], freshSource + 1) \in Seq(Nat)
    BY <1>1
  <2>. QED  BY <1>1, <2>1 DEF IInv, TypeOK
<1>3. Alone' /\ ContextsRight'
  BY <1>1, SameContexts DEF IInv
<1>4. /\ \A n \in 1..freshSource : n \in 1..freshSource' /\ n # freshSource + 1
      /\ freshSource + 1 \in 1..freshSource'
      /\ \A v \in Var : idOf[v] <= freshSource /\ idOf[v] # freshSource + 1
  BY <1>1 DEF IInv, TypeOK, VarIds
<1>5. VarIds'
  BY <1>1, <1>4 DEF IInv, TypeOK, VarIds
<1>6. BitIds'
  BY <1>1, <1>4 DEF IInv, BitIds
<1>7. DrawnIds'
  <2>. SUFFICES ASSUME NEW d \in Call, NEW k \in 1..Len(drawn'[d])
                PROVE  /\ drawn'[d][k] \in 1..freshSource'
                       /\ \A v \in Var : idOf[v] # drawn'[d][k]
                       /\ \A l \in 1..Len(drawn'[d]) : drawn'[d][k] = drawn'[d][l] => k = l
                       /\ \A i \in DOMAIN bits[d] : \A l \in 1..Len(bits[d][i]) :
                             drawn'[d][k] # bits[d][i][l]
    BY <1>1 DEF DrawnIds
  <2>1. CASE d # c
    <3>1. drawn'[d] = drawn[d]
      BY <1>1, <2>1
    <3>. QED  BY <3>1, <1>4 DEF IInv, DrawnIds
  <2>2. CASE d = c
    <3>1. /\ Len(drawn'[c]) = Len(drawn[c]) + 1
          /\ \A l \in 1..Len(drawn[c]) : drawn'[c][l] = drawn[c][l]
          /\ drawn'[c][Len(drawn[c]) + 1] = freshSource + 1
          /\ Len(drawn[c]) \in Nat
      BY <1>1
    <3>2. \A l \in 1..Len(drawn'[c]) : l \in 1..Len(drawn[c]) \/ l = Len(drawn[c]) + 1
      BY <3>1
    <3>3. \A l \in 1..Len(drawn[c]) : drawn[c][l] \in 1..freshSource
      BY DEF IInv, DrawnIds
    <3>4. \A i \in DOMAIN bits[c] : \A l \in 1..Len(bits[c][i]) : bits[c][i][l] \in 1..freshSource
      BY DEF IInv, BitIds
    <3>5. CASE k \in 1..Len(drawn[c])
      BY <2>2, <3>1, <3>2, <3>3, <3>5, <1>4 DEF IInv, DrawnIds
    <3>6. CASE k = Len(drawn[c]) + 1
      BY <2>2, <3>1, <3>2, <3>3, <3>4, <3>6, <1>4
    <3>. QED  BY <2>2, <3>2, <3>5, <3>6
  <2>. QED  BY <2>1, <2>2
<1>8. Declarations' /\ ModelIsUsers'
  BY <1>1 DEF IInv, Declarations, ModelIsUsers
<1>. QED  BY <1>2, <1>3, <1>5, <1>6, <1>7, <1>8 DEF IInv

LEMMA InsertInv ==
  ASSUME IInv, NEW c \in Call, InsertBits(c)
  PROVE  IInv'
<1>1. PICK v \in at[c] :
        /\ bits' = [bits EXCEPT ![c] = Put(@, [i \in {idOf[v]} |-> drawn[c]])]
        /\ declared' = [declared EXCEPT ![c] = @ \cup {v}]
  BY DEF InsertBits
<1>2. /\ at' = [at EXCEPT ![c] = {}]
      /\ drawn' = [drawn EXCEPT ![c] = <<>>]
      /\ pc[c] = "build"
      /\ UNCHANGED <<freshSource, idOf, backend, query, contexts, pc, answer>>
  BY DEF InsertBits
<1>3. v \in Var /\ idOf[v] \in Nat /\ drawn[c] \in Seq(Nat)
  BY DEF IInv, TypeOK
<1>4. /\ DOMAIN bits'[c] = DOMAIN bits[c] \cup {idOf[v]}
      /\ bits'[c][idOf[v]] = drawn[c]
      /\ \A i \in DOMAIN bits[c] : i # idOf[v] => bits'[c][i] = bits[c][i]
      /\ \A d \in Call : d # c => bits'[d] = bits[d]
      /\ bits' = [d \in Call |-> bits'[d]]
  BY <1>1 DEF Put, IInv, TypeOK
<1>5. drawn'[c] = <<>> /\ \A d \in Call : d # c => drawn'[d] = drawn[d]
  BY <1>2 DEF IInv, TypeOK
<1>6. TypeOK'
  <2>1. \A d \in Call : \A i \in DOMAIN bits'[d] : bits'[d][i] \in Seq(Nat)
    BY <1>3, <1>4 DEF IInv, TypeOK
  <2>2. /\ drawn' \in [Call -> Seq(Nat)] /\ at' \in [Call -> SUBSET Var]
        /\ declared' \in [Call -> SUBSET Var]
    BY <1>1, <1>2, <1>3 DEF IInv, TypeOK
  <2>. QED  BY <1>2, <1>4, <2>1, <2>2 DEF IInv, TypeOK
<1>7. Alone' /\ ContextsRight'
  BY <1>2, SameContexts DEF IInv
<1>8. VarIds'
  BY <1>2 DEF IInv, VarIds
<1>9. DrawnIds'
  BY <1>2, <1>4, <1>5 DEF IInv, DrawnIds
<1>10. BitIds'
  <2>. SUFFICES ASSUME NEW d \in Call, NEW i \in DOMAIN bits'[d], NEW k \in 1..Len(bits'[d][i])
                PROVE  /\ bits'[d][i][k] \in 1..freshSource
                       /\ \A w \in Var : idOf[w] # bits'[d][i][k]
                       /\ \A j \in DOMAIN bits'[d] : \A l \in 1..Len(bits'[d][j]) :
                             bits'[d][i][k] = bits'[d][j][l] => i = j /\ k = l
    BY <1>2 DEF BitIds
  <2>1. CASE d # c
    BY <1>4, <2>1 DEF IInv, BitIds
  <2>2. CASE d = c /\ i = idOf[v]
    BY <1>4, <2>2 DEF IInv, DrawnIds
  <2>3. CASE d = c /\ i # idOf[v]
    <3>1. i \in DOMAIN bits[c] /\ bits'[c][i] = bits[c][i]
      BY <1>4, <2>3
    <3>2. ASSUME NEW j \in DOMAIN bits'[c], NEW l \in 1..Len(bits'[c][j]),
                 bits'[c][i][k] = bits'[c][j][l]
          PROVE  i = j /\ k = l
      <4>1. CASE j = idOf[v]
        BY <1>4, <2>3, <3>1, <3>2, <4>1 DEF IInv, DrawnIds
      <4>2. CASE j # idOf[v]
        BY <1>4, <2>3, <3>1, <3>2, <4>2 DEF IInv, BitIds
      <4>. QED  BY <4>1, <4>2
    <3>. QED  BY <2>3, <3>1, <3>2 DEF IInv, BitIds
  <2>. QED  BY <2>1, <2>2, <2>3
<1>11. Declarations' /\ ModelIsUsers'
  BY <1>1, <1>2 DEF IInv, TypeOK, Declarations, ModelIsUsers
<1>. QED  BY <1>6, <1>7, <1>8, <1>9, <1>10, <1>11 DEF IInv

(***************************************************************************)
(* From the end of build to the model.                                     *)
(***************************************************************************)
LEMMA CheckInv ==
  ASSUME IInv, NEW c \in Call,
         AssertQuery(c) \/ CheckUnsat(c) \/ CheckSat(c) \/ GetModel(c)
  PROVE  IInv'
<1>1. PICK where \in {"check", "model", "cleanup"} :
        /\ Active(c) /\ Goto(c, where)
        /\ UNCHANGED <<freshSource, idOf, backend, query, contexts, declared, at, drawn, bits>>
        /\ where \in {"check", "model"} => answer' = answer /\ pc[c] # "cleanup"
        /\ where = "check" => declared[c] = query[c].vars
        /\ where # "check" => pc[c] \in {"check", "model"}
        /\ where = "cleanup" =>
             \/ answer' = [answer EXCEPT ![c] = None("nothing")]
             \/ answer' = [answer EXCEPT ![c] =
                   [kind |-> "just", model |-> [i \in UserIds(c) |-> getValue(c, i)]]]
  BY DEF AssertQuery, CheckUnsat, CheckSat, GetModel, Active
<1>2. TypeOK' /\ Alone' /\ ContextsRight'
  <2>1. pc' \in [Call -> Places] /\ Alone' /\ ContextsRight'
    BY <1>1, GoesOn
  <2>2. answer' = [d \in Call |-> answer'[d]]
    BY <1>1 DEF IInv, TypeOK
  <2>. QED  BY <1>1, <2>1, <2>2 DEF IInv, TypeOK
<1>3. VarIds' /\ DrawnIds' /\ BitIds'
  BY <1>1, SameIds DEF IInv
<1>4. /\ pc'[c] = where /\ \A d \in Call : d # c => pc'[d] = pc[d] /\ answer'[d] = answer[d]
      /\ pc[c] \in {"build", "check", "model", "cleanup"}
  BY <1>1 DEF IInv, TypeOK, Goto, Active
<1>5. Declarations' /\ ModelIsUsers'
  <2>1. CASE where \in {"check", "model"}
    <3>1. answer' = answer /\ pc[c] \in {"build", "check", "model"}
      BY <1>1, <1>4, <2>1
    <3>2. declared[c] = query[c].vars
      BY <1>1, <2>1 DEF IInv, Declarations
    <3>3. Declarations'
      BY <1>1, <1>4, <3>1, <3>2 DEF IInv, Declarations
    <3>4. ModelIsUsers'
      BY <1>1, <3>1 DEF IInv, ModelIsUsers
    <3>. QED  BY <3>3, <3>4
  <2>2. CASE where = "cleanup"
    <3>1. declared[c] = query[c].vars
      BY <1>1, <2>2 DEF IInv, Declarations
    <3>2. answer'[c].kind = "just" => DOMAIN answer'[c].model = {idOf[v] : v \in declared[c]}
      BY <1>1, <2>2 DEF IInv, TypeOK, None, UserIds
    <3>3. Declarations'
      BY <1>1, <1>4, <2>2, <3>1 DEF IInv, Declarations
    <3>4. ModelIsUsers'
      BY <1>1, <1>4, <3>1, <3>2 DEF IInv, ModelIsUsers
    <3>. QED  BY <3>3, <3>4
  <2>. QED  BY <2>1, <2>2
<1>. QED  BY <1>2, <1>3, <1>5 DEF IInv

(***************************************************************************)
(* The end of a call.                                                      *)
(***************************************************************************)
LEMMA EndInv ==
  ASSUME IInv, NEW c \in Call, Cleanup(c) \/ Raise(c)
  PROVE  IInv'
<1>1. /\ pc' \in [Call -> Places]
      /\ pc'[c] \in {"done", "aborted"} /\ \A d \in Call : d # c => pc'[d] = pc[d]
      /\ UNCHANGED <<freshSource, idOf, backend, query, declared, at, drawn, bits, answer>>
  BY DEF IInv, TypeOK, Cleanup, Raise, Goto, Places
<1>2. TypeOK'
  BY <1>1 DEF IInv, TypeOK
<1>3. Alone'
  BY <1>1 DEF IInv, Alone, Active
<1>4. ContextsRight'
  <2>1. CASE Cleanup(c)
    <3>1. /\ pc[c] = "cleanup" /\ pc'[c] = "done"
          /\ contexts' = IF backend.exits THEN {} ELSE contexts \ {c}
      BY <2>1 DEF IInv, TypeOK, Cleanup, Goto
    <3>2. backend.exits => \A d \in Call : d # c => ~Active(d)
      BY <3>1 DEF IInv, Alone, Active
    <3>. QED  BY <1>1, <3>1, <3>2 DEF IInv, ContextsRight, Active
  <2>2. CASE Raise(c)
    <3>1. pc'[c] = "aborted" /\ contexts' = contexts
      BY <2>2 DEF IInv, TypeOK, Raise, Goto
    <3>. QED  BY <1>1, <3>1 DEF IInv, ContextsRight, Active
  <2>. QED  BY <2>1, <2>2
<1>5. VarIds' /\ DrawnIds' /\ BitIds'
  BY <1>1, SameIds DEF IInv
<1>6. Declarations' /\ ModelIsUsers'
  BY <1>1 DEF IInv, Declarations, ModelIsUsers
<1>. QED  BY <1>2, <1>3, <1>4, <1>5, <1>6 DEF IInv

LEMMA NextInv == IInv /\ [Next]_solverVars => IInv'
<1>. SUFFICES ASSUME IInv, [Next]_solverVars PROVE IInv'
  OBVIOUS
<1>1. ASSUME NEW c \in Call, Make(c) PROVE IInv'
  BY <1>1, MakeInv
<1>2. ASSUME NEW c \in Call, Step(c) PROVE IInv'
  <2>1. CASE BuildForces(c)
    <3>1. PICK v \in Var : ForceVar(v)
      BY <2>1 DEF BuildForces, IInv, TypeOK
    <3>. QED  BY <3>1, ForceVarInv
  <2>2. CASE \E v \in Var : DeclareNative(c, v) \/ DeclareBits(c, v)
    BY <2>2, DeclareInv
  <2>3. CASE DrawBit(c)
    BY <2>3, DrawInv
  <2>4. CASE InsertBits(c)
    BY <2>4, InsertInv
  <2>5. CASE AssertQuery(c) \/ CheckUnsat(c) \/ CheckSat(c) \/ GetModel(c)
    BY <2>5, CheckInv
  <2>6. CASE Cleanup(c)
    BY <2>6, EndInv
  <2>. QED  BY <1>2, <2>1, <2>2, <2>3, <2>4, <2>5, <2>6 DEF Step
<1>3. ASSUME NEW c \in Call, Raise(c) PROVE IInv'
  BY <1>3, EndInv
<1>4. ASSUME NEW v \in Var, ForceVar(v) PROVE IInv'
  BY <1>4, ForceVarInv
<1>5. CASE UNCHANGED solverVars
  BY <1>5 DEF solverVars, IInv, TypeOK, Alone, ContextsRight, Active, VarIds, DrawnIds, BitIds,
              Declarations, ModelIsUsers
<1>. QED  BY <1>1, <1>2, <1>3, <1>4, <1>5 DEF Next

(***************************************************************************)
(* The inductive invariant: identifiers are drawn once, a backend whose    *)
(* cleanup ends the library has one call at a time, and what is declared   *)
(* is what the query has.                                                  *)
(***************************************************************************)
THEOREM Invariance == Spec => []IInv
BY InitInv, NextInv, PTL DEF Spec

(***************************************************************************)
(* A call has its context as long as it may use it, though others end or   *)
(* are cut short, and a call that returns leaves none (solverFromAST).     *)
(***************************************************************************)
THEOREM ContextsRightThm == Spec => []ContextsRight
<1>1. IInv => ContextsRight
  BY DEF IInv
<1>. QED  BY <1>1, Invariance, PTL

(***************************************************************************)
(* No boolean that Bits makes up is a variable of the program or another   *)
(* bit of the call (declare_bit of Bits.hs, fresh).                        *)
(***************************************************************************)
THEOREM IdsApartThm == Spec => []IdsApart
<1>1. IInv => IdsApart
  <2>. SUFFICES ASSUME IInv PROVE IdsApart
    OBVIOUS
  <2>1. \A v, w \in Var : v # w /\ idOf[v] # 0 => idOf[v] # idOf[w]
    BY DEF IInv, VarIds
  <2>2. ASSUME NEW c \in Call PROVE BitsOf(c) \cap {idOf[v] : v \in Var} = {}
    BY DEF BitsOf, IInv, BitIds
  <2>3. \A c \in Call : \A i, j \in DOMAIN bits[c] :
          \A k \in 1..Len(bits[c][i]) : \A l \in 1..Len(bits[c][j]) :
             bits[c][i][k] = bits[c][j][l] => i = j /\ k = l
    BY DEF IInv, BitIds
  <2>. QED  BY <2>1, <2>2, <2>3 DEF IdsApart
<1>. QED  BY <1>1, Invariance, PTL

(***************************************************************************)
(* The model has the variables of the query and nothing else, also after   *)
(* more of the program's variables are forced (getModel, model).           *)
(***************************************************************************)
THEOREM ModelIsUsersThm == Spec => []ModelIsUsers
<1>1. IInv => ModelIsUsers
  BY DEF IInv
<1>. QED  BY <1>1, Invariance, PTL

-----------------------------------------------------------------------------
\* The equation of power2, and its values.
LEMMA Power2 ==
  /\ power2 \in [Nat -> Nat \ {0}]
  /\ \A n \in Nat : power2[n] = IF n = 0 THEN 1 ELSE 2 * power2[n - 1]
<1> DEFINE G == [n \in Nat |-> [f \in [Nat -> Nat] |-> IF n = 0 THEN 1 ELSE 2 * f[n - 1]]]
           rank == [n \in Nat |-> n]
<1>1. G \in [Nat -> [[Nat -> Nat] -> Nat]]
  <2> SUFFICES ASSUME NEW n \in Nat, NEW f \in [Nat -> Nat] PROVE (IF n = 0 THEN 1 ELSE 2 * f[n - 1]) \in Nat
    OBVIOUS
  <2> QED OBVIOUS
<1>2. ASSUME NEW x \in Nat, NEW f \in [Nat -> Nat], NEW g \in [Nat -> Nat],
         \A y \in Nat : rank[y] < rank[x] => f[y] = g[y] PROVE G[x][f] = G[x][g]
  <2>1. \A y \in Nat : y < x => f[y] = g[y]
    BY <1>2
  <2> QED BY <2>1
<1>3. rank \in [Nat -> Nat]
  OBVIOUS
<1>4. PICK f \in [Nat -> Nat] : f = [n \in Nat |-> G[n][f]]
  <2> HIDE DEF G, rank
  <2>1. Descends(Nat, Nat, rank, G)
    BY <1>1, <1>2, <1>3 DEF Descends
  <2>2. Nat # {}
    OBVIOUS
  <2>3. PICK f \in [Nat -> Nat] : Solves(f, Nat, G)
    BY <2>1, <2>2, Recursion
  <2> QED BY <2>3 DEF Solves
<1>5. f = [n \in Nat |-> IF n = 0 THEN 1 ELSE 2 * f[n - 1]]
  <2>1. \A n \in Nat : G[n][f] = IF n = 0 THEN 1 ELSE 2 * f[n - 1]
    OBVIOUS
  <2> QED BY <1>4, <2>1
<1>6. power2 = [n \in Nat |-> IF n = 0 THEN 1 ELSE 2 * power2[n - 1]]
  BY <1>5 DEF power2
<1>7. \A n \in Nat : power2[n] = IF n = 0 THEN 1 ELSE 2 * power2[n - 1]
  BY <1>6
<1>8. \A n \in Nat : power2[n] \in Nat \ {0}
  <2> DEFINE P == {n \in Nat : power2[n] \in Nat \ {0}}
  <2>1. ASSUME NEW n \in Nat, \A m \in Nat : rank[m] < rank[n] => m \in P PROVE n \in P
    <3>1. n # 0 => n - 1 \in Nat /\ n - 1 < n
      OBVIOUS
    <3>2. n # 0 => n - 1 \in P
      BY <2>1, <3>1
    <3> QED BY <3>2, <1>7
  <2>2. P = Nat
    <3>1. P \subseteq Nat
      OBVIOUS
    <3> HIDE DEF P, rank
    <3>2. Inductive(P, Nat, rank)
      BY <1>3, <2>1, <3>1 DEF Inductive
    <3> QED BY <3>2, RankInduction
  <2> QED BY <2>2
<1> HIDE DEF G
<1>9. power2 \in [Nat -> Nat \ {0}]
  <2> DEFINE Body == [n \in Nat |-> IF n = 0 THEN 1 ELSE 2 * power2[n - 1]]
  <2>1. power2 = [n \in Nat |-> power2[n]]
    BY <1>6
  <2> QED BY <1>8, <2>1
<1> QED BY <1>7, <1>9

\* The equation of valB: the number of a sequence of bits, the lowest first.
LEMMA ValBIs ==
  /\ valB \in [Seq({0, 1}) -> Nat]
  /\ \A bs \in Seq({0, 1}) : valB[bs] = IF bs = <<>> THEN 0 ELSE Head(bs) + 2 * valB[Tail(bs)]
<1> DEFINE S == Seq({0, 1})
           G == [bs \in S |-> [f \in [S -> Nat] |-> IF bs = <<>> THEN 0 ELSE Head(bs) + 2 * f[Tail(bs)]]]
           rank == [bs \in S |-> Len(bs)]
<1>0. \A bs \in S : bs # <<>> => Head(bs) \in Nat /\ Tail(bs) \in S /\ Len(Tail(bs)) < Len(bs)
  OBVIOUS
<1>1. G \in [S -> [[S -> Nat] -> Nat]]
  <2> SUFFICES ASSUME NEW bs \in S, NEW f \in [S -> Nat]
               PROVE (IF bs = <<>> THEN 0 ELSE Head(bs) + 2 * f[Tail(bs)]) \in Nat
    OBVIOUS
  <2>1. bs # <<>> => Head(bs) \in Nat /\ f[Tail(bs)] \in Nat
    BY <1>0
  <2> QED BY <2>1
<1>2. ASSUME NEW x \in S, NEW f \in [S -> Nat], NEW g \in [S -> Nat],
         \A y \in S : rank[y] < rank[x] => f[y] = g[y] PROVE G[x][f] = G[x][g]
  <2>1. \A y \in S : Len(y) < Len(x) => f[y] = g[y]
    BY <1>2
  <2>2. x # <<>> => f[Tail(x)] = g[Tail(x)]
    BY <2>1, <1>0
  <2>3. /\ G[x][f] = IF x = <<>> THEN 0 ELSE Head(x) + 2 * f[Tail(x)]
        /\ G[x][g] = IF x = <<>> THEN 0 ELSE Head(x) + 2 * g[Tail(x)]
    OBVIOUS
  <2> HIDE DEF G
  <2> QED BY <2>2, <2>3
<1>3. rank \in [S -> Nat]
  OBVIOUS
<1>4. PICK f \in [S -> Nat] : f = [n \in S |-> G[n][f]]
  <2> HIDE DEF G, rank, S
  <2>1. Descends(S, Nat, rank, G)
    BY <1>1, <1>2, <1>3 DEF Descends
  <2>2. Nat # {}
    OBVIOUS
  <2>3. PICK f \in [S -> Nat] : Solves(f, S, G)
    BY <2>1, <2>2, Recursion
  <2> QED BY <2>3 DEF Solves
<1>5. f = [bs \in S |-> IF bs = <<>> THEN 0 ELSE Head(bs) + 2 * f[Tail(bs)]]
  <2>1. \A bs \in S : G[bs][f] = IF bs = <<>> THEN 0 ELSE Head(bs) + 2 * f[Tail(bs)]
    OBVIOUS
  <2> QED BY <1>4, <2>1
<1>6. valB = [bs \in S |-> IF bs = <<>> THEN 0 ELSE Head(bs) + 2 * valB[Tail(bs)]]
  BY <1>5 DEF valB
<1>7. \A bs \in S : valB[bs] = IF bs = <<>> THEN 0 ELSE Head(bs) + 2 * valB[Tail(bs)]
  BY <1>6
<1>8. \A bs \in S : valB[bs] \in Nat
  <2> DEFINE P == {bs \in S : valB[bs] \in Nat}
  <2>1. ASSUME NEW n \in S, \A m \in S : rank[m] < rank[n] => m \in P PROVE n \in P
    <3>1. n # <<>> => Tail(n) \in P
      BY <2>1, <1>0
    <3> QED BY <3>1, <1>7, <1>0
  <2>2. P = S
    <3>1. P \subseteq S
      OBVIOUS
    <3> HIDE DEF P, rank, S
    <3>2. Inductive(P, S, rank)
      BY <1>3, <2>1, <3>1 DEF Inductive
    <3> QED BY <3>2, RankInduction
  <2> QED BY <2>2
<1>9. valB \in [S -> Nat]
  <2>1. valB = [n \in S |-> valB[n]]
    BY <1>6
  <2> QED BY <1>8, <2>1
<1> QED BY <1>7, <1>9

\* The equation of intB: the lowest bits of a number.
LEMMA IntBIs ==
  /\ \A w \in Nat : intB[w] \in [Nat -> Seq({0, 1})]
  /\ \A w, n \in Nat : intB[w][n] = IF w = 0 THEN <<>> ELSE <<n % 2>> \o intB[w - 1][n \div 2]
<1> DEFINE T == [Nat -> Seq({0, 1})]
           Row(w, r) == [n \in Nat |-> IF w = 0 THEN <<>> ELSE <<n % 2>> \o r[n \div 2]]
           G == [w \in Nat |-> [f \in [Nat -> T] |-> Row(w, f[w - 1])]]
           rank == [w \in Nat |-> w]
<1>0. \A n \in Nat : n % 2 \in {0, 1} /\ n \div 2 \in Nat
  OBVIOUS
<1>a. ASSUME NEW w \in Nat, NEW r, w # 0 => r \in T PROVE Row(w, r) \in T
  <2> SUFFICES ASSUME NEW n \in Nat
               PROVE (IF w = 0 THEN <<>> ELSE <<n % 2>> \o r[n \div 2]) \in Seq({0, 1})
    OBVIOUS
  <2>1. CASE w = 0
    BY <2>1
  <2>2. CASE w # 0
    <3>1. r[n \div 2] \in Seq({0, 1}) /\ <<n % 2>> \in Seq({0, 1})
      BY <2>2, <1>0, <1>a
    <3>2. <<n % 2>> \o r[n \div 2] \in Seq({0, 1})
      BY <3>1
    <3> QED BY <3>2, <2>2
  <2> QED BY <2>1, <2>2
<1>b. \A w \in Nat : w # 0 => w - 1 \in Nat /\ w - 1 < w
  OBVIOUS
<1>1. G \in [Nat -> [[Nat -> T] -> T]]
  <2> SUFFICES ASSUME NEW w \in Nat, NEW f \in [Nat -> T] PROVE Row(w, f[w - 1]) \in T
    BY Zenon
  <2>1. w # 0 => f[w - 1] \in T
    <3> HIDE DEF T
    <3> QED BY <1>b
  <2> HIDE DEF T, Row
  <2> QED BY <2>1, <1>a
<1>c. \A w \in Nat : \A r, q : (w # 0 => r = q) => Row(w, r) = Row(w, q)
  OBVIOUS
<1>2. ASSUME NEW x \in Nat, NEW f \in [Nat -> T], NEW g \in [Nat -> T],
         \A y \in Nat : rank[y] < rank[x] => f[y] = g[y] PROVE G[x][f] = G[x][g]
  <2>1. \A y \in Nat : y < x => f[y] = g[y]
    BY <1>2
  <2>2. x # 0 => f[x - 1] = g[x - 1]
    BY <2>1, <1>b
  <2> HIDE DEF T, Row
  <2> QED BY <2>2, <1>c
<1>3. rank \in [Nat -> Nat]
  OBVIOUS
<1>4. PICK f \in [Nat -> T] : f = [w \in Nat |-> G[w][f]]
  <2>2. T # {}
    <3>1. [n \in Nat |-> <<>>] \in T
      OBVIOUS
    <3> QED BY <3>1
  <2> HIDE DEF G, rank, T
  <2>1. Descends(Nat, T, rank, G)
    BY <1>1, <1>2, <1>3 DEF Descends
  <2>3. PICK f \in [Nat -> T] : Solves(f, Nat, G)
    BY <2>1, <2>2, Recursion
  <2> QED BY <2>3 DEF Solves
<1>5. f = [w \in Nat |-> Row(w, f[w - 1])]
  <2> HIDE DEF T, Row
  <2>1. \A w \in Nat : G[w][f] = Row(w, f[w - 1])
    OBVIOUS
  <2> HIDE DEF G
  <2> QED BY <1>4, <2>1
<1>6. intB = [w \in Nat |-> Row(w, intB[w - 1])]
  BY <1>5 DEF intB
<1>7. \A w \in Nat : intB[w] = Row(w, intB[w - 1])
  <2> HIDE DEF Row
  <2> QED BY <1>6
<1>8. \A w \in Nat : intB[w] \in T
  <2> DEFINE P == {w \in Nat : intB[w] \in T}
  <2>1. ASSUME NEW w \in Nat, \A y \in Nat : rank[y] < rank[w] => y \in P PROVE w \in P
    <3> HIDE DEF T, Row
    <3>1. w # 0 => intB[w - 1] \in T
      BY <2>1, <1>b
    <3> QED BY <3>1, <1>7, <1>a
  <2>2. P = Nat
    <3>1. P \subseteq Nat
      OBVIOUS
    <3> HIDE DEF P, rank
    <3>2. Inductive(P, Nat, rank)
      BY <1>3, <2>1, <3>1 DEF Inductive
    <3> QED BY <3>2, RankInduction
  <2> HIDE DEF T
  <2> QED BY <2>2
<1>9. \A w, n \in Nat : intB[w][n] = IF w = 0 THEN <<>> ELSE <<n % 2>> \o intB[w - 1][n \div 2]
  <2> SUFFICES ASSUME NEW w \in Nat, NEW n \in Nat
               PROVE intB[w][n] = IF w = 0 THEN <<>> ELSE <<n % 2>> \o intB[w - 1][n \div 2]
    OBVIOUS
  <2>1. intB[w] = Row(w, intB[w - 1])
    BY <1>7
  <2> QED BY <2>1
<1> QED BY <1>8, <1>9

\* The booleans of a number are as many as asked, and their number is the number.
LEMMA OfNumber ==
  \A w, n \in Nat : /\ Len(intB[w][n]) = w
                    /\ n < power2[w] => valB[intB[w][n]] = n
<1> DEFINE Right(w) == \A n \in Nat : /\ Len(intB[w][n]) = w
                                      /\ n < power2[w] => valB[intB[w][n]] = n
           P == {w \in Nat : Right(w)}
           rank == [w \in Nat |-> w]
<1>1. ASSUME NEW w \in Nat, \A y \in Nat : rank[y] < rank[w] => y \in P PROVE Right(w)
  <2> SUFFICES ASSUME NEW n \in Nat
               PROVE /\ Len(intB[w][n]) = w
                     /\ n < power2[w] => valB[intB[w][n]] = n
    OBVIOUS
  <2>1. CASE w = 0
    <3>1. intB[w][n] = <<>> /\ power2[w] = 1
      BY <2>1, IntBIs, Power2
    <3>2. valB[<<>>] = 0
      <4>1. <<>> \in Seq({0, 1})
        OBVIOUS
      <4> QED BY <4>1, ValBIs
    <3> QED BY <3>1, <3>2, <2>1
  <2>2. CASE w # 0
    <3> DEFINE r == intB[w - 1][n \div 2]
    <3>1. w - 1 \in Nat /\ w - 1 < w /\ n \div 2 \in Nat /\ n % 2 \in {0, 1} /\ n = (n % 2) + 2 * (n \div 2)
      BY <2>2
    <3>2. Right(w - 1)
      BY <1>1, <3>1
    <3>3. Len(r) = w - 1 /\ (n \div 2 < power2[w - 1] => valB[r] = n \div 2)
      BY <3>1, <3>2
    <3>4. r \in Seq({0, 1}) /\ intB[w][n] = <<n % 2>> \o r /\ power2[w] = 2 * power2[w - 1] /\ power2[w - 1] \in Nat
      BY <3>1, <2>2, IntBIs, Power2
    <3> HIDE DEF r, P
    <3>5. DEFINE bs == <<n % 2>> \o r
    <3>6. bs \in Seq({0, 1}) /\ bs # <<>> /\ Head(bs) = n % 2 /\ Tail(bs) = r /\ Len(bs) = Len(r) + 1
      <4>1. <<n % 2>> \in Seq({0, 1})
        BY <3>1
      <4> QED BY <4>1, <3>4
    <3> HIDE DEF bs
    <3>7. valB[bs] = (n % 2) + 2 * valB[r]
      BY <3>6, ValBIs
    <3>8. Len(bs) = w
      BY <3>6, <3>3
    <3>9. n < power2[w] => n \div 2 < power2[w - 1]
      BY <3>4, <3>1
    <3>10. n < power2[w] => valB[bs] = n
      BY <3>9, <3>7, <3>3, <3>1
    <3> QED BY <3>8, <3>10, <3>4 DEF bs
  <2> QED BY <2>1, <2>2
<1>2. P = Nat
  <2>0. rank \in [Nat -> Nat]
    OBVIOUS
  <2>1. P \subseteq Nat
    OBVIOUS
  <2>2. \A w \in Nat : (\A y \in Nat : rank[y] < rank[w] => y \in P) => w \in P
    <3> HIDE DEF Right, rank
    <3> QED BY <1>1
  <2> HIDE DEF P, rank
  <2>3. Inductive(P, Nat, rank)
    BY <2>0, <2>1, <2>2 DEF Inductive
  <2> QED BY <2>3, RankInduction
<1> QED BY <1>2

\* The number of so many booleans is below the power of two, and they are its
\* booleans.
LEMMA OfBooleans ==
  \A bs \in Seq({0, 1}) : valB[bs] < power2[Len(bs)] /\ intB[Len(bs)][valB[bs]] = bs
<1> DEFINE S == Seq({0, 1})
           Right(bs) == valB[bs] < power2[Len(bs)] /\ intB[Len(bs)][valB[bs]] = bs
           P == {bs \in S : Right(bs)}
           rank == [bs \in S |-> Len(bs)]
<1>1. ASSUME NEW bs \in S, \A y \in S : rank[y] < rank[bs] => y \in P PROVE Right(bs)
  <2>1. CASE bs = <<>>
    <3>1. Len(bs) = 0 /\ valB[bs] = 0 /\ power2[0] = 1
      BY <2>1, ValBIs, Power2
    <3>2. intB[0][0] = <<>>
      BY IntBIs
    <3> QED BY <3>1, <3>2, <2>1
  <2>2. CASE bs # <<>>
    <3>1. Tail(bs) \in S /\ Len(Tail(bs)) = Len(bs) - 1 /\ Head(bs) \in {0, 1} /\ bs = <<Head(bs)>> \o Tail(bs)
          /\ Len(bs) \in Nat /\ Len(bs) # 0
      BY <2>2
    <3>2. Right(Tail(bs))
      <4>1. rank[Tail(bs)] < rank[bs]
        BY <3>1
      <4> HIDE DEF Right, rank
      <4> QED BY <1>1, <3>1, <4>1
    <3>3. valB[bs] = Head(bs) + 2 * valB[Tail(bs)] /\ valB[Tail(bs)] \in Nat
      BY <2>2, <3>1, ValBIs
    <3>4. power2[Len(bs)] = 2 * power2[Len(bs) - 1] /\ power2[Len(bs) - 1] \in Nat
      BY <3>1, Power2
    <3>5. valB[bs] < power2[Len(bs)]
      BY <3>1, <3>2, <3>3, <3>4
    <3>6. valB[bs] \in Nat /\ valB[bs] % 2 = Head(bs) /\ valB[bs] \div 2 = valB[Tail(bs)]
      <4>1. \A t \in Nat : (0 + 2 * t) % 2 = 0 /\ (0 + 2 * t) \div 2 = t
        OBVIOUS
      <4>3. \A t \in Nat : (1 + 2 * t) % 2 = 1 /\ (1 + 2 * t) \div 2 = t
        OBVIOUS
      <4>2. Head(bs) + 2 * valB[Tail(bs)] \in Nat
        BY <3>1, <3>3
      <4> QED BY <4>1, <4>2, <4>3, <3>1, <3>3
    <3>7. intB[Len(bs)][valB[bs]] = <<Head(bs)>> \o intB[Len(bs) - 1][valB[Tail(bs)]]
      BY <3>6, <3>1, IntBIs
    <3> QED BY <3>1, <3>2, <3>5, <3>7
  <2> QED BY <2>1, <2>2
<1>2. P = S
  <2>0. rank \in [S -> Nat]
    OBVIOUS
  <2>1. P \subseteq S
    OBVIOUS
  <2>2. \A w \in S : (\A y \in S : rank[y] < rank[w] => y \in P) => w \in P
    <3> HIDE DEF Right, rank, S
    <3> QED BY <1>1
  <2> HIDE DEF P, rank, S
  <2>3. Inductive(P, S, rank)
    BY <2>0, <2>1, <2>2 DEF Inductive
  <2> QED BY <2>3, RankInduction
<1> QED BY <1>2

(***************************************************************************)
(* What the tables of a call mean.  The library was told of each variable  *)
(* of the query that Bits does not blast, under its identifier and with    *)
(* its sort, and of Width[v] booleans for each that it does; what it found *)
(* satisfies the query, whatever it left open; and the answer shows the    *)
(* program a solution, or says nothing when there is none.                 *)
(***************************************************************************)
BlastedVars(c) == {v \in declared[c] : Blasted(v)}

Tables == /\ query \in Queries
          /\ sorts = [c \in Call |-> sorts[c]]
          /\ found = [c \in Call |-> found[c]]

Told == \A c \in Call :
    /\ at[c] \cap declared[c] = {} /\ \A v \in at[c] : Blasted(v)
    /\ DOMAIN bits[c] = {idOf[v] : v \in BlastedVars(c)}
    /\ \A v \in BlastedVars(c) : Len(bits[c][idOf[v]]) = Width[v]
    /\ DOMAIN sorts[c] = {idOf[v] : v \in declared[c] \ BlastedVars(c)} \cup BitsOf(c)
    /\ \A v \in declared[c] \ BlastedVars(c) : sorts[c][idOf[v]] = Sort(v)
    /\ \A i \in BitsOf(c) : sorts[c][i] = 2

\* The solutions of the query, with any value for the variables it does not have.
Solutions(c) == {m \in Values(Var) : [v \in query[c].vars |-> m[v]] \in query[c].sat}

FoundOf(c) == \E a \in Satisfying(c) : \E O \in Opens(c, a) :
       found[c] = [i \in DOMAIN a |-> IF i \in O THEN Open ELSE a[i]]

Found == \A c \in Call : pc[c] = "model" => FoundOf(c)

\* What the program reads in the model of its answer.
Shown(c) == [v \in Var |-> Lookup(c, v)]

AnswerOf(c) == \/ answer[c] = None("nothing") /\ Solutions(c) = {}
               \/ answer[c].kind = "just" /\ Shown(c) \in Solutions(c)

Answered == \A c \in Call : pc[c] \in {"cleanup", "done"} => AnswerOf(c)

Meaning == Tables /\ Told /\ Found /\ Answered

\* A sort is the number of its values.
LEMMA Sorts == \A v \in Var : Sort(v) \in Nat \ {0} /\ (v \in DOMAIN Width => Width[v] \in Nat)
<1>1. \A v \in DOMAIN Width : Width[v] \in Nat
  BY SolverAssumption
<1> QED  BY <1>1, Power2 DEF Sort

\* The valuations of D: each value below its sort.
LEMMA InValuations ==
  ASSUME NEW D, NEW sort, \A d \in D : sort[d] \in Nat, NEW a
  PROVE  a \in Valuations(D, sort) <=> a \in [D -> Nat] /\ \A d \in D : a[d] < sort[d]
<1>1. ASSUME a \in Valuations(D, sort) PROVE a \in [D -> Nat] /\ \A d \in D : a[d] < sort[d]
  <2>1. UNION {0..(sort[d] - 1) : d \in D} \subseteq Nat
    OBVIOUS
  <2> QED  BY <1>1, <2>1 DEF Valuations
<1>2. ASSUME a \in [D -> Nat], \A d \in D : a[d] < sort[d] PROVE a \in Valuations(D, sort)
  <2>1. \A d \in D : a[d] \in 0..(sort[d] - 1)
    BY <1>2
  <2>2. \A d \in D : a[d] \in UNION {0..(sort[e] - 1) : e \in D}
    BY <2>1
  <2>3. a \in [D -> UNION {0..(sort[e] - 1) : e \in D}]
    BY <1>2, <2>2
  <2> QED  BY <1>2, <2>3 DEF Valuations
<1> QED  BY <1>1, <1>2

\* The same of the variables of the program.
LEMMA InValues ==
  ASSUME NEW V \in SUBSET Var, NEW m
  PROVE  m \in Values(V) <=> m \in [V -> Nat] /\ \A v \in V : m[v] < Sort(v)
<1> DEFINE sort == [v \in V |-> Sort(v)]
<1>1. \A v \in V : sort[v] = Sort(v) /\ sort[v] \in Nat
  BY Sorts
<1>2. m \in Valuations(V, sort) <=> m \in [V -> Nat] /\ \A v \in V : m[v] < sort[v]
  <2> HIDE DEF sort
  <2> QED  BY <1>1, InValuations
<1> QED  BY <1>1, <1>2 DEF Values

\* A query has variables of the program, and its solutions are values of them.
LEMMA QueryOf ==
  ASSUME Tables, NEW c \in Call
  PROVE  query[c].vars \in SUBSET Var /\ query[c].sat \subseteq Values(query[c].vars)
<1>1. query[c] \in Query
  BY SolverAssumption DEF Tables
<1>2. PICK V \in SUBSET Var : query[c] \in [vars : {V}, sat : SUBSET Values(V)]
  BY <1>1 DEF Query
<1>3. query[c].vars = V /\ query[c].sat \in SUBSET Values(V)
  <2> DEFINE S == SUBSET Values(V)
  <2>1. query[c] \in [vars : {V}, sat : S]
    BY <1>2
  <2> HIDE DEF S
  <2>2. query[c].vars = V /\ query[c].sat \in S
    BY <2>1
  <2> QED BY <2>2 DEF S
<1>. QED  BY <1>3

\* One number below the power has the bits bs.
LEMMA NumberOf ==
  ASSUME NEW w \in Nat, NEW bs \in Seq({0, 1}), Len(bs) = w
  PROVE  /\ valB[bs] \in 0..(power2[w] - 1) /\ intB[w][valB[bs]] = bs
         /\ \A n \in 0..(power2[w] - 1) : intB[w][n] = bs => n = valB[bs]
<1>1. valB[bs] < power2[w] /\ intB[w][valB[bs]] = bs
  BY OfBooleans
<1>2. valB[bs] \in Nat /\ power2[w] \in Nat
  BY ValBIs, Power2
<1>3. ASSUME NEW n \in 0..(power2[w] - 1), intB[w][n] = bs PROVE n = valB[bs]
  <2>1. n \in Nat /\ n < power2[w]
    BY <1>2
  <2>. QED  BY <2>1, <1>3, OfNumber
<1>. QED  BY <1>1, <1>2, <1>3

\* So the value of a blasted variable is the number of its booleans.
LEMMA ValueIsNumber ==
  ASSUME NEW c \in Call, NEW v \in Var, NEW a, Blasted(v),
         [k \in 1..Width[v] |-> a[bits[c][idOf[v]][k]]] \in Seq({0, 1})
  PROVE  ValueOf(c, v, a) = valB[[k \in 1..Width[v] |-> a[bits[c][idOf[v]][k]]]]
<1>. DEFINE bs == [k \in 1..Width[v] |-> a[bits[c][idOf[v]][k]]]
<1>1. Width[v] \in Nat /\ Sort(v) = power2[Width[v]]
  BY Sorts DEF Blasted, Sort
<1>2. Len(bs) = Width[v] /\ bs \in Seq({0, 1})
  BY <1>1
<1>3. ValueOf(c, v, a) = CHOOSE n \in 0..(power2[Width[v]] - 1) : intB[Width[v]][n] = bs
  BY <1>1 DEF ValueOf
<1>. HIDE DEF bs
<1>4. /\ valB[bs] \in 0..(power2[Width[v]] - 1) /\ intB[Width[v]][valB[bs]] = bs
      /\ \A n \in 0..(power2[Width[v]] - 1) : intB[Width[v]][n] = bs => n = valB[bs]
  BY <1>1, <1>2, NumberOf
<1>5. ValueOf(c, v, a) = valB[bs]
  BY <1>3, <1>4
<1>. QED  BY <1>5 DEF bs

-----------------------------------------------------------------------------
\* What the tables of a call say of the query's variables.
LEMMA TableOf ==
  ASSUME IInv, Meaning, NEW c \in Call, declared[c] = query[c].vars
  PROVE  /\ \A v \in query[c].vars : Blasted(v) =>
              /\ idOf[v] \in DOMAIN bits[c] /\ bits[c][idOf[v]] \in Seq(Nat)
              /\ Len(bits[c][idOf[v]]) = Width[v] /\ Width[v] \in Nat
              /\ \A k \in 1..Width[v] : /\ bits[c][idOf[v]][k] \in DOMAIN sorts[c]
                                        /\ sorts[c][bits[c][idOf[v]][k]] = 2
         /\ \A v \in query[c].vars : ~Blasted(v) =>
              /\ idOf[v] \notin DOMAIN bits[c]
              /\ idOf[v] \in DOMAIN sorts[c] /\ sorts[c][idOf[v]] = Sort(v)
         /\ \A i \in DOMAIN sorts[c] : sorts[c][i] \in Nat
<1>. USE DEF IInv, Meaning
<1>1. query[c].vars \in SUBSET Var
  BY QueryOf
<1>2. ASSUME NEW v \in query[c].vars, Blasted(v)
      PROVE  /\ idOf[v] \in DOMAIN bits[c] /\ bits[c][idOf[v]] \in Seq(Nat)
             /\ Len(bits[c][idOf[v]]) = Width[v] /\ Width[v] \in Nat
             /\ \A k \in 1..Width[v] : /\ bits[c][idOf[v]][k] \in DOMAIN sorts[c]
                                        /\ sorts[c][bits[c][idOf[v]][k]] = 2
  <2>1. v \in BlastedVars(c)
    BY <1>2 DEF BlastedVars
  <2>2. idOf[v] \in DOMAIN bits[c] /\ Len(bits[c][idOf[v]]) = Width[v]
    BY <2>1 DEF Told
  <2>3. bits[c][idOf[v]] \in Seq(Nat)
    BY <2>2 DEF TypeOK
  <2>4. Width[v] \in Nat
    BY <1>1, <1>2, Sorts DEF Blasted
  <2>5. \A k \in 1..Width[v] : bits[c][idOf[v]][k] \in BitsOf(c)
    BY <2>2 DEF BitsOf
  <2>6. BitsOf(c) \subseteq DOMAIN sorts[c] /\ \A i \in BitsOf(c) : sorts[c][i] = 2
    BY DEF Told
  <2>. QED  BY <2>2, <2>3, <2>4, <2>5, <2>6
<1>3. ASSUME NEW v \in query[c].vars, ~Blasted(v)
      PROVE  /\ idOf[v] \notin DOMAIN bits[c]
             /\ idOf[v] \in DOMAIN sorts[c] /\ sorts[c][idOf[v]] = Sort(v)
  <2>1. v \in declared[c] \ BlastedVars(c)
    BY <1>3 DEF BlastedVars
  <2>2. idOf[v] \in DOMAIN sorts[c] /\ sorts[c][idOf[v]] = Sort(v)
    BY <2>1 DEF Told
  <2>3. ASSUME idOf[v] \in DOMAIN bits[c] PROVE FALSE
    <3>1. PICK w \in BlastedVars(c) : idOf[w] = idOf[v]
      BY <2>3 DEF Told
    <3>2. v \in Var /\ w \in Var /\ v # w /\ idOf[v] # 0
      BY <3>1, <1>1, <1>3, <2>1 DEF BlastedVars, Declarations
    <3>. QED  BY <3>1, <3>2 DEF VarIds
  <2>. QED  BY <2>2, <2>3
<1>4. ASSUME NEW i \in DOMAIN sorts[c] PROVE sorts[c][i] \in Nat
  <2>1. CASE i \in BitsOf(c)
    BY <2>1 DEF Told
  <2>2. CASE i \notin BitsOf(c)
    <3>1. PICK v \in declared[c] \ BlastedVars(c) : i = idOf[v]
      BY <2>2 DEF Told
    <3>2. v \in Var
      BY <1>1
    <3>. QED  BY <3>1, <3>2, Sorts DEF Told
  <2>. QED  BY <2>1, <2>2
<1>. QED  BY <1>2, <1>3, <1>4

\* The booleans an assignment gives a blasted variable.
Numeral(c, v, a) == [k \in 1..Width[v] |-> a[bits[c][idOf[v]][k]]]

\* The value an assignment of the library gives a variable of the query.
LEMMA Booleans2 ==
  ASSUME IInv, Meaning, NEW c \in Call, declared[c] = query[c].vars,
         NEW a \in Assignments(c), NEW v \in query[c].vars
  PROVE  ValueOf(c, v, a) = IF Blasted(v) THEN valB[Numeral(c, v, a)] ELSE a[idOf[v]]
<1>1. CASE ~Blasted(v)
  BY <1>1 DEF ValueOf
<1>2. CASE Blasted(v)
  <2>1. /\ bits[c][idOf[v]] \in Seq(Nat)
        /\ Len(bits[c][idOf[v]]) = Width[v] /\ Width[v] \in Nat
        /\ \A k \in 1..Width[v] : /\ bits[c][idOf[v]][k] \in DOMAIN sorts[c]
                                   /\ sorts[c][bits[c][idOf[v]][k]] = 2
        /\ \A i \in DOMAIN sorts[c] : sorts[c][i] \in Nat
    BY <1>2, TableOf
  <2>2. a \in [DOMAIN sorts[c] -> Nat] /\ \A i \in DOMAIN sorts[c] : a[i] < sorts[c][i]
    BY <2>1, InValuations DEF Assignments
  <2>3. \A k \in 1..Width[v] : a[bits[c][idOf[v]][k]] \in {0, 1}
    BY <2>1, <2>2
  <2>4. Numeral(c, v, a) \in Seq({0, 1})
    <3>1. Numeral(c, v, a) \in [1..Width[v] -> {0, 1}]
      BY <2>3 DEF Numeral
    <3>. QED  BY <2>1, <3>1
  <2>5. v \in Var
    BY QueryOf DEF Meaning
  <2>6. ValueOf(c, v, a) = valB[Numeral(c, v, a)]
    BY <1>2, <2>1, <2>4, <2>5, ValueIsNumber DEF Numeral
  <2>. QED  BY <1>2, <2>6
<1>. QED  BY <1>1, <1>2

-----------------------------------------------------------------------------
\* An assignment for which all booleans left open are 0 satisfies the query.
LEMMA FoundValue ==
  ASSUME IInv, Meaning, NEW c \in Call, declared[c] = query[c].vars, FoundOf(c)
  PROVE  /\ [i \in DOMAIN sorts[c] |-> getBoolValue(c, i)] \in Satisfying(c)
<1>. DEFINE z == [i \in DOMAIN sorts[c] |-> getBoolValue(c, i)]
<1>1. PICK a \in Satisfying(c) : \E O \in Opens(c, a) :
         found[c] = [i \in DOMAIN a |-> IF i \in O THEN Open ELSE a[i]]
  BY DEF FoundOf
<1>2. PICK O \in Opens(c, a) : found[c] = [i \in DOMAIN a |-> IF i \in O THEN Open ELSE a[i]]
  BY <1>1
<1>3. \A i \in DOMAIN sorts[c] : sorts[c][i] \in Nat
  BY TableOf
<1>4. a \in Assignments(c)
  BY DEF Satisfying
<1>5. a \in [DOMAIN sorts[c] -> Nat] /\ \A i \in DOMAIN sorts[c] : a[i] < sorts[c][i]
  BY <1>3, <1>4, InValuations DEF Assignments
<1>6. O \subseteq Booleans(c)
      /\ \A b \in Assignments(c) : (\A i \in DOMAIN a \ O : b[i] = a[i]) => b \in Satisfying(c)
  BY DEF Opens
<1>7. \A i \in DOMAIN sorts[c] : z[i] = IF i \in O THEN 0 ELSE a[i]
  BY <1>2, <1>5, SolverAssumption DEF getBoolValue
<1>8. z \in [DOMAIN sorts[c] -> Nat] /\ \A i \in DOMAIN sorts[c] : z[i] < sorts[c][i]
  <2>1. \A i \in DOMAIN sorts[c] : z[i] \in Nat /\ z[i] < sorts[c][i]
    BY <1>3, <1>5, <1>6, <1>7 DEF Booleans
  <2>2. z = [i \in DOMAIN sorts[c] |-> z[i]]
    OBVIOUS
  <2>. HIDE DEF z
  <2>. QED  BY <2>1, <2>2
<1>9. z \in Assignments(c)
  <2>. HIDE DEF z
  <2>. QED  BY <1>3, <1>8, InValuations DEF Assignments
<1>10. \A i \in DOMAIN a \ O : z[i] = a[i]
  BY <1>5, <1>7
<1>. HIDE DEF z
<1>11. z \in Satisfying(c)
  BY <1>6, <1>9, <1>10
<1>. QED  BY <1>11 DEF z

\* The value the model has for a variable is the one the query knows.
LEMMA GetValue ==
  ASSUME IInv, Meaning, NEW c \in Call, declared[c] = query[c].vars, FoundOf(c),
         NEW v \in query[c].vars
  PROVE  getValue(c, idOf[v]) = ValueOf(c, v, [i \in DOMAIN sorts[c] |-> getBoolValue(c, i)])
<1>. DEFINE z == [i \in DOMAIN sorts[c] |-> getBoolValue(c, i)]
<1>1. z \in Assignments(c)
  BY FoundValue DEF Satisfying
<1>2. ValueOf(c, v, z) = IF Blasted(v) THEN valB[Numeral(c, v, z)] ELSE z[idOf[v]]
  <2>. HIDE DEF z
  <2>. QED  BY <1>1, Booleans2
<1>3. CASE ~Blasted(v)
  <2>1. idOf[v] \notin DOMAIN bits[c] /\ idOf[v] \in DOMAIN sorts[c]
    BY <1>3, TableOf
  <2>. QED  BY <1>2, <1>3, <2>1 DEF getValue
<1>4. CASE Blasted(v)
  <2>1. /\ idOf[v] \in DOMAIN bits[c]
        /\ Len(bits[c][idOf[v]]) = Width[v]
        /\ \A k \in 1..Width[v] : bits[c][idOf[v]][k] \in DOMAIN sorts[c]
    BY <1>4, TableOf
  <2>2. getBits(c, idOf[v]) = Numeral(c, v, z)
    BY <2>1 DEF getBits, Numeral
  <2>. QED  BY <1>2, <1>4, <2>1, <2>2 DEF getValue
<1>. QED  BY <1>3, <1>4

\* The answer of a model: found is right, so what is looked up is a solution.
LEMMA ModelRight ==
  ASSUME IInv, Meaning, NEW c \in Call, declared[c] = query[c].vars, FoundOf(c)
  PROVE  [v \in Var |-> IF v \in query[c].vars THEN getValue(c, idOf[v]) ELSE 0] \in Solutions(c)
<1>. DEFINE z == [i \in DOMAIN sorts[c] |-> getBoolValue(c, i)]
            V == query[c].vars
            m == [v \in Var |-> IF v \in V THEN getValue(c, idOf[v]) ELSE 0]
<1>0. V \in SUBSET Var /\ query[c].sat \subseteq Values(V)
  BY QueryOf DEF Meaning
<1>1. [v \in V |-> ValueOf(c, v, z)] \in query[c].sat
  <2>1. z \in Satisfying(c)
    BY FoundValue
  <2>. HIDE DEF z
  <2>. QED  BY <2>1 DEF Satisfying
<1>2. \A v \in V : m[v] = ValueOf(c, v, z)
  BY <1>0, GetValue
<1>. HIDE DEF z
<1>3. [v \in V |-> m[v]] = [v \in V |-> ValueOf(c, v, z)]
  BY <1>2
<1>4. [v \in V |-> m[v]] \in query[c].sat
  BY <1>1, <1>3
<1>5. [v \in V |-> m[v]] \in Values(V)
  BY <1>0, <1>4
<1>6. \A v \in V : m[v] \in Nat /\ m[v] < Sort(v)
  <2>. HIDE DEF m, V
  <2>1. [v \in V |-> m[v]] \in [V -> Nat] /\ \A v \in V : [w \in V |-> m[w]][v] < Sort(v)
    BY <1>0, <1>5, InValues
  <2>. QED  BY <2>1
<1>7. \A v \in Var : v \notin V => m[v] = 0
  OBVIOUS
<1>8. m = [v \in Var |-> m[v]]
  OBVIOUS
<1>. HIDE DEF m
<1>9. m \in Values(Var)
  <2>1. \A v \in Var : m[v] \in Nat /\ m[v] < Sort(v)
    BY <1>6, <1>7, Sorts
  <2>2. m \in [Var -> Nat]
    BY <1>8, <2>1
  <2>. QED  BY <2>1, <2>2, InValues
<1>10. m \in Solutions(c)
  BY <1>4, <1>9 DEF Solutions
<1>. QED  BY <1>10 DEF m

\* A solution of the query is an assignment that satisfies what the library
\* was told.
LEMMA NothingRight ==
  ASSUME IInv, Meaning, NEW c \in Call, declared[c] = query[c].vars, Satisfying(c) = {}
  PROVE  Solutions(c) = {}
<1>. SUFFICES ASSUME NEW m \in Solutions(c) PROVE FALSE
  OBVIOUS
<1>. DEFINE V == query[c].vars
            Bit(i) == CHOOSE n \in {0, 1} : \E v \in V : \E k \in 1..Width[v] :
                         Blasted(v) /\ bits[c][idOf[v]][k] = i /\ n = intB[Width[v]][m[v]][k]
            Whole(i) == CHOOSE n \in Nat : \E v \in V : ~Blasted(v) /\ idOf[v] = i /\ n = m[v]
            a == [i \in DOMAIN sorts[c] |-> IF i \in BitsOf(c) THEN Bit(i) ELSE Whole(i)]
<1>0. V \in SUBSET Var
  BY QueryOf DEF Meaning
<1>1. /\ [v \in V |-> m[v]] \in query[c].sat
      /\ m \in [Var -> Nat] /\ \A v \in Var : m[v] < Sort(v)
  BY InValues DEF Solutions
<1>2. ASSUME NEW v \in V, Blasted(v)
      PROVE  /\ intB[Width[v]][m[v]] \in Seq({0, 1}) /\ Len(intB[Width[v]][m[v]]) = Width[v]
             /\ valB[intB[Width[v]][m[v]]] = m[v] /\ Width[v] \in Nat
  <2>1. v \in Var /\ Width[v] \in Nat /\ Sort(v) = power2[Width[v]]
    BY <1>0, <1>2, Sorts DEF Blasted, Sort
  <2>2. m[v] \in Nat /\ m[v] < power2[Width[v]]
    BY <1>1, <2>1
  <2>. QED  BY <2>1, <2>2, OfNumber, IntBIs
<1>3. ASSUME NEW v \in V, Blasted(v), NEW k \in 1..Width[v]
      PROVE  /\ bits[c][idOf[v]][k] \in DOMAIN sorts[c] \cap BitsOf(c)
             /\ a[bits[c][idOf[v]][k]] = intB[Width[v]][m[v]][k]
             /\ intB[Width[v]][m[v]][k] \in {0, 1}
  <2>. DEFINE i == bits[c][idOf[v]][k]  n == intB[Width[v]][m[v]][k]
  <2>1. /\ idOf[v] \in DOMAIN bits[c] /\ Len(bits[c][idOf[v]]) = Width[v]
        /\ i \in DOMAIN sorts[c]
    BY <1>3, TableOf
  <2>2. i \in BitsOf(c)
    BY <2>1, <1>3 DEF BitsOf
  <2>3. n \in {0, 1}
    <3>1. intB[Width[v]][m[v]] \in [1..Width[v] -> {0, 1}]
      BY <1>2, <1>3
    <3>. QED  BY <3>1
  <2>4. ASSUME NEW w \in V, NEW l \in 1..Width[w], Blasted(w), bits[c][idOf[w]][l] = i
        PROVE  intB[Width[w]][m[w]][l] = n
    <3>1. idOf[w] \in DOMAIN bits[c] /\ Len(bits[c][idOf[w]]) = Width[w]
      BY <2>4, TableOf
    <3>2. idOf[w] = idOf[v] /\ k = l
      BY <2>1, <2>4, <3>1 DEF IInv, BitIds
    <3>3. w = v
      BY <3>2, <1>0 DEF IInv, VarIds, Declarations
    <3>. QED  BY <3>2, <3>3
  <2>5. Bit(i) = n
    BY <1>3, <2>3, <2>4
  <2>. HIDE DEF Bit, Whole, i
  <2>6. a[i] = n
    BY <2>1, <2>2, <2>5
  <2>. QED  BY <2>1, <2>2, <2>3, <2>6 DEF i
<1>4. ASSUME NEW v \in V, ~Blasted(v)
      PROVE  /\ idOf[v] \in DOMAIN sorts[c] /\ idOf[v] \notin BitsOf(c)
             /\ a[idOf[v]] = m[v]
  <2>1. idOf[v] \in DOMAIN sorts[c] /\ v \in Var
    BY <1>0, <1>4, TableOf
  <2>2. idOf[v] \notin BitsOf(c)
    BY <2>1 DEF BitsOf, IInv, BitIds
  <2>3. \A w \in V : ~Blasted(w) /\ idOf[w] = idOf[v] => w = v
    BY <1>0, <1>4 DEF IInv, VarIds, Declarations
  <2>4. Whole(idOf[v]) = m[v]
    BY <1>1, <1>4, <2>1, <2>3
  <2>. HIDE DEF Bit, Whole
  <2>. QED  BY <2>1, <2>2, <2>4
<1>. HIDE DEF Bit, Whole
<1>5. a \in Assignments(c)
  <2>1. ASSUME NEW i \in DOMAIN sorts[c] PROVE a[i] \in Nat /\ a[i] < sorts[c][i]
    <3>1. CASE i \in BitsOf(c)
      <4>1. PICK j \in DOMAIN bits[c] : \E k \in 1..Len(bits[c][j]) : i = bits[c][j][k]
        BY <3>1 DEF BitsOf
      <4>2. PICK v \in BlastedVars(c) : j = idOf[v]
        BY <4>1 DEF Meaning, Told
      <4>3. v \in V /\ Blasted(v) /\ Len(bits[c][j]) = Width[v]
        BY <4>2, TableOf DEF BlastedVars
      <4>4. PICK k \in 1..Width[v] : i = bits[c][idOf[v]][k]
        BY <4>1, <4>2, <4>3
      <4>5. sorts[c][i] = 2
        BY <3>1 DEF Meaning, Told
      <4>6. a[i] \in {0, 1}
        BY <4>3, <4>4, <1>3
      <4>. QED  BY <4>5, <4>6
    <3>2. CASE i \notin BitsOf(c)
      <4>1. PICK v \in declared[c] \ BlastedVars(c) : i = idOf[v]
        BY <3>2 DEF Meaning, Told
      <4>2. v \in V /\ ~Blasted(v)
        BY <4>1 DEF BlastedVars
      <4>3. a[i] = m[v] /\ sorts[c][i] = Sort(v)
        BY <4>1, <4>2, <1>4, TableOf
      <4>. QED  BY <4>3, <4>2, <1>0, <1>1
    <3>. QED  BY <3>1, <3>2
  <2>2. a = [i \in DOMAIN sorts[c] |-> a[i]]
    OBVIOUS
  <2>3. \A i \in DOMAIN sorts[c] : sorts[c][i] \in Nat
    BY TableOf
  <2>. HIDE DEF a
  <2>4. a \in [DOMAIN sorts[c] -> Nat]
    BY <2>1, <2>2
  <2>. QED  BY <2>1, <2>3, <2>4, InValuations DEF Assignments
<1>. HIDE DEF a
<1>6. ASSUME NEW v \in V PROVE ValueOf(c, v, a) = m[v]
  <2>1. ValueOf(c, v, a) = IF Blasted(v) THEN valB[Numeral(c, v, a)] ELSE a[idOf[v]]
    BY <1>5, Booleans2
  <2>2. CASE Blasted(v)
    <3>1. Numeral(c, v, a) = [k \in 1..Width[v] |-> intB[Width[v]][m[v]][k]]
      BY <2>2, <1>3 DEF Numeral
    <3>2. intB[Width[v]][m[v]] = [k \in 1..Width[v] |-> intB[Width[v]][m[v]][k]]
      <4>1. intB[Width[v]][m[v]] \in [1..Width[v] -> {0, 1}]
        BY <1>2, <2>2
      <4>. QED  BY <4>1
    <3>. QED  BY <1>2, <2>1, <2>2, <3>1, <3>2
  <2>3. CASE ~Blasted(v)
    BY <2>1, <2>3, <1>4
  <2>. QED  BY <2>2, <2>3
<1>7. [v \in V |-> ValueOf(c, v, a)] = [v \in V |-> m[v]]
  BY <1>6
<1>8. a \in Satisfying(c)
  BY <1>1, <1>5, <1>7 DEF Satisfying
<1>. QED  BY <1>8

-----------------------------------------------------------------------------
\* An identifier once drawn stays.
IdsStay == \A v \in Var : idOf[v] # 0 => idOf'[v] = idOf[v]

\* A step that leaves the tables of a call leaves what satisfies its query,
LEMMA SameSatisfying ==
  ASSUME NEW c \in Call, query'[c] = query[c], backend' = backend,
         sorts'[c] = sorts[c], bits'[c] = bits[c],
         \A v \in query[c].vars : idOf'[v] = idOf[v]
  PROVE  /\ Satisfying(c)' = Satisfying(c)
         /\ \A a : Opens(c, a)' = Opens(c, a)
<1>1. Assignments(c)' = Assignments(c) /\ Booleans(c)' = Booleans(c)
  BY DEF Assignments, Booleans, Valuations
<1>2. ASSUME NEW v \in query[c].vars, NEW a PROVE ValueOf(c, v, a)' = ValueOf(c, v, a)
  <2>1. idOf'[v] = idOf[v] /\ bits'[c][idOf'[v]] = bits[c][idOf[v]] /\ Blasted(v)' = Blasted(v)
    BY <1>2 DEF Blasted
  <2>2. (CHOOSE n \in 0..(Sort(v) - 1) :
            intB[Width[v]][n] = [k \in 1..Width[v] |-> a[bits'[c][idOf'[v]][k]]])
        = CHOOSE n \in 0..(Sort(v) - 1) :
            intB[Width[v]][n] = [k \in 1..Width[v] |-> a[bits[c][idOf[v]][k]]]
    BY <2>1
  <2>. QED  BY <2>1, <2>2 DEF ValueOf
<1>3. \A a : [v \in query[c].vars |-> ValueOf(c, v, a)]' = [v \in query[c].vars |-> ValueOf(c, v, a)]
  BY <1>2
<1>4. Satisfying(c)' = Satisfying(c)
  BY <1>1, <1>3 DEF Satisfying
<1>5. \A a : Opens(c, a)' = Opens(c, a)
  BY <1>1, <1>4 DEF Opens
<1>. QED  BY <1>4, <1>5

\* and what was found,
LEMMA SameFound ==
  ASSUME NEW c \in Call, query'[c] = query[c], backend' = backend,
         sorts'[c] = sorts[c], bits'[c] = bits[c], found'[c] = found[c],
         \A v \in query[c].vars : idOf'[v] = idOf[v],
         FoundOf(c)
  PROVE  FoundOf(c)'
<1>1. Satisfying(c)' = Satisfying(c) /\ \A a : Opens(c, a)' = Opens(c, a)
  BY SameSatisfying
<1>. QED  BY <1>1 DEF FoundOf

\* and what its model shows: a variable forced later draws an identifier that
\* is not in the model.
LEMMA SameShown ==
  ASSUME IInv, IInv', NEW c \in Call, query' = query, answer'[c] = answer[c],
         IdsStay, Tables, answer[c].kind = "just"
  PROVE  Shown(c)' = Shown(c)
<1>. DEFINE V == query[c].vars
<1>1. V \in SUBSET Var
  BY QueryOf
<1>2. DOMAIN answer[c].model = {idOf[v] : v \in V} /\ \A v \in V : idOf[v] # 0
  BY DEF IInv, ModelIsUsers, Declarations
<1>3. \A v \in V : idOf'[v] = idOf[v]
  BY <1>1, <1>2 DEF IdsStay
<1>4. \A v \in Var : idOf[v] \in DOMAIN answer[c].model <=> v \in V
  BY <1>1, <1>2 DEF IInv, VarIds
<1>5. \A v \in Var : idOf'[v] \in DOMAIN answer[c].model <=> v \in V
  BY <1>1, <1>2, <1>3 DEF IInv, VarIds
<1>6. \A v \in Var : Lookup(c, v)' = Lookup(c, v)
  BY <1>3, <1>4, <1>5 DEF Lookup
<1>. QED  BY <1>6 DEF Shown

\* So the answer stays right,
LEMMA SameAnswer ==
  ASSUME IInv, IInv', NEW c \in Call, query' = query, answer'[c] = answer[c],
         IdsStay, Tables, AnswerOf(c)
  PROVE  AnswerOf(c)'
<1>1. Solutions(c)' = Solutions(c)
  BY DEF Solutions
<1>2. CASE answer[c] = None("nothing")
  <2>1. answer[c].kind # "just"
    BY <1>2 DEF None
  <2>. QED  BY <1>1, <1>2, <2>1 DEF AnswerOf
<1>3. CASE answer[c].kind = "just"
  <2>1. Shown(c)' = Shown(c)
    BY <1>3, SameShown
  <2>2. answer[c] # None("nothing")
    BY <1>3 DEF None
  <2>. QED  BY <1>1, <1>3, <2>1, <2>2 DEF AnswerOf
<1>. QED  BY <1>2, <1>3, Zenon DEF AnswerOf

\* and what the library was told.
LEMMA SameTold ==
  ASSUME IInv, Told, UNCHANGED <<backend, declared, at, bits, sorts>>, IdsStay, Tables
  PROVE  Told'
<1>1. \A c \in Call : BlastedVars(c)' = BlastedVars(c) /\ BitsOf(c)' = BitsOf(c)
  BY DEF BlastedVars, Blasted, BitsOf
<1>2. \A c \in Call : \A v \in declared[c] : idOf'[v] = idOf[v]
  BY QueryOf DEF IdsStay, IInv, Declarations
<1>3. ASSUME NEW c \in Call
      PROVE  /\ at'[c] \cap declared'[c] = {} /\ \A v \in at'[c] : Blasted(v)'
             /\ \A v \in BlastedVars(c)' : Len(bits'[c][idOf'[v]]) = Width[v]
             /\ \A v \in (declared[c] \ BlastedVars(c))' : sorts'[c][idOf'[v]] = Sort(v)
             /\ \A i \in BitsOf(c)' : sorts'[c][i] = 2
  BY <1>1, <1>2 DEF Told, BlastedVars, Blasted
<1>4. ASSUME NEW c \in Call
      PROVE  /\ DOMAIN bits'[c] = {idOf'[v] : v \in BlastedVars(c)'}
             /\ DOMAIN sorts'[c] = {idOf'[v] : v \in (declared[c] \ BlastedVars(c))'} \cup BitsOf(c)'
  <2>1. {idOf'[v] : v \in BlastedVars(c)} = {idOf[v] : v \in BlastedVars(c)}
    BY <1>2 DEF BlastedVars
  <2>2. {idOf'[v] : v \in declared[c] \ BlastedVars(c)} = {idOf[v] : v \in declared[c] \ BlastedVars(c)}
    BY <1>2
  <2>. QED  BY <1>1, <2>1, <2>2 DEF Told
<1>. QED  BY <1>3, <1>4 DEF Told

\* A step that changes no table of any call, nor brings one to its model.
LEMMA QuietMeaning ==
  ASSUME IInv, IInv', Meaning, IdsStay,
         UNCHANGED <<backend, query, declared, at, bits, sorts, found, answer>>,
         \A c \in Call : /\ pc'[c] = "model" => pc[c] = "model"
                         /\ pc'[c] \in {"cleanup", "done"} => pc[c] \in {"cleanup", "done"}
  PROVE  Meaning'
<1>1. Tables'
  BY DEF Meaning, Tables
<1>2. Told'
  BY SameTold DEF Meaning
<1>3. ASSUME NEW c \in Call, pc'[c] = "model" PROVE FoundOf(c)'
  <2>1. FoundOf(c)
    BY <1>3 DEF Meaning, Found
  <2>2. \A v \in query[c].vars : idOf'[v] = idOf[v]
    BY <1>3, QueryOf DEF IInv, Declarations, IdsStay, Meaning
  <2>. QED  BY <2>1, <2>2, SameFound
<1>4. ASSUME NEW c \in Call, pc'[c] \in {"cleanup", "done"} PROVE AnswerOf(c)'
  <2>1. AnswerOf(c)
    BY <1>4 DEF Meaning, Answered
  <2>. QED  BY <2>1, SameAnswer DEF Meaning
<1>. QED  BY <1>1, <1>2, <1>3, <1>4 DEF Meaning, Found, Answered

-----------------------------------------------------------------------------
\* A step of the declarations of a call.
LEMMA DeclareMeaning ==
  ASSUME IInv, IInv', Meaning, NEW c \in Call, pc[c] = "build",
         UNCHANGED <<backend, query, idOf, pc, found, answer>>,
         \A d \in Call \ {c} : bits'[d] = bits[d] /\ sorts'[d] = sorts[d],
         Tables', Told'
  PROVE  Meaning'
<1>1. ASSUME NEW d \in Call, pc'[d] = "model" PROVE FoundOf(d)'
  <2>1. FoundOf(d) /\ d # c
    BY <1>1 DEF Meaning, Found
  <2>. QED  BY <2>1, SameFound
<1>2. ASSUME NEW d \in Call, pc'[d] \in {"cleanup", "done"} PROVE AnswerOf(d)'
  <2>1. AnswerOf(d)
    BY <1>2 DEF Meaning, Answered
  <2>. QED  BY <2>1, SameAnswer DEF Meaning, IdsStay
<1>. QED  BY <1>1, <1>2 DEF Meaning, Found, Answered

\* The identifiers and bits of a call whose tables stay.
LEMMA SameToldOf ==
  ASSUME NEW d \in Call, UNCHANGED <<backend, idOf>>,
         at'[d] = at[d], declared'[d] = declared[d], bits'[d] = bits[d], sorts'[d] = sorts[d]
  PROVE  BlastedVars(d)' = BlastedVars(d) /\ BitsOf(d)' = BitsOf(d)
BY DEF BlastedVars, Blasted, BitsOf

\* Told, of one call.
ToldOf(c) ==
    /\ at[c] \cap declared[c] = {} /\ \A v \in at[c] : Blasted(v)
    /\ DOMAIN bits[c] = {idOf[v] : v \in BlastedVars(c)}
    /\ \A v \in BlastedVars(c) : Len(bits[c][idOf[v]]) = Width[v]
    /\ DOMAIN sorts[c] = {idOf[v] : v \in declared[c] \ BlastedVars(c)} \cup BitsOf(c)
    /\ \A v \in declared[c] \ BlastedVars(c) : sorts[c][idOf[v]] = Sort(v)
    /\ \A i \in BitsOf(c) : sorts[c][i] = 2

\* Only the call that steps has to be looked at.
LEMMA OthersTold ==
  ASSUME Told, NEW c \in Call, UNCHANGED <<backend, idOf>>,
         \A d \in Call \ {c} : /\ at'[d] = at[d] /\ declared'[d] = declared[d]
                               /\ bits'[d] = bits[d] /\ sorts'[d] = sorts[d],
         ToldOf(c)'
  PROVE  Told'
<1>1. ASSUME NEW d \in Call, d # c PROVE ToldOf(d)'
  <2>1. BlastedVars(d)' = BlastedVars(d) /\ BitsOf(d)' = BitsOf(d)
    BY <1>1, SameToldOf
  <2>2. ToldOf(d)
    BY DEF Told, ToldOf
  <2>3. \A v : Blasted(v)' = Blasted(v)
    BY DEF Blasted
  <2>. QED  BY <1>1, <2>1, <2>2, <2>3 DEF ToldOf
<1>2. \A d \in Call : ToldOf(d)'
  BY <1>1
<1>. QED  BY <1>2 DEF Told, ToldOf

\* Declaring a variable that will be blasted tells the library nothing yet.
LEMMA DeclareBitsMeaning ==
  ASSUME IInv, IInv', Meaning, NEW c \in Call, NEW v \in Var, DeclareBits(c, v)
  PROVE  Meaning'
<1>1. pc[c] = "build" /\ UNCHANGED <<backend, query, idOf, pc, found, answer, declared, bits, sorts>>
  BY DEF DeclareBits, Declares
<1>2. at'[c] = {v} /\ Blasted(v) /\ v \notin declared[c] /\ \A d \in Call \ {c} : at'[d] = at[d]
  BY DEF DeclareBits, Declares, IInv, TypeOK
<1>3. Tables'
  BY <1>1 DEF Meaning, Tables
<1>4. ToldOf(c)'
  <2>1. BlastedVars(c)' = BlastedVars(c) /\ BitsOf(c)' = BitsOf(c) /\ \A w : Blasted(w)' = Blasted(w)
    BY <1>1 DEF BlastedVars, Blasted, BitsOf
  <2>2. ToldOf(c)
    BY DEF Meaning, Told, ToldOf
  <2>. QED  BY <1>1, <1>2, <2>1, <2>2 DEF ToldOf
<1>5. Told'
  BY <1>1, <1>2, <1>4, OthersTold DEF Meaning
<1>. QED  BY <1>1, <1>3, <1>5, DeclareMeaning

\* Declaring one with its own sort (declare).
LEMMA DeclareNativeMeaning ==
  ASSUME IInv, IInv', Meaning, NEW c \in Call, NEW v \in Var, DeclareNative(c, v)
  PROVE  Meaning'
<1>1. pc[c] = "build" /\ UNCHANGED <<backend, query, idOf, pc, found, answer, at, bits>>
  BY DEF DeclareNative, Declares
<1>2. /\ at[c] = {} /\ ~Blasted(v) /\ v \notin declared[c] /\ idOf[v] # 0
      /\ declared'[c] = declared[c] \cup {v}
      /\ sorts'[c] = Put(sorts[c], [i \in {idOf[v]} |-> Sort(v)])
      /\ \A d \in Call \ {c} : declared'[d] = declared[d] /\ sorts'[d] = sorts[d]
  BY DEF DeclareNative, Declares, IInv, TypeOK, Meaning, Tables
<1>3. Tables'
  BY <1>1 DEF Meaning, Tables, DeclareNative
<1>4. ToldOf(c)'
  <2>1. BitsOf(c)' = BitsOf(c) /\ \A w : Blasted(w)' = Blasted(w)
    BY <1>1 DEF Blasted, BitsOf
  <2>2. ToldOf(c)
    BY DEF Meaning, Told, ToldOf
  <2>3. BlastedVars(c)' = BlastedVars(c)
    BY <1>2, <2>1 DEF BlastedVars
  <2>4. (declared[c] \ BlastedVars(c))' = (declared[c] \ BlastedVars(c)) \cup {v}
    BY <1>2, <2>3 DEF BlastedVars
  <2>5. /\ DOMAIN sorts'[c] = DOMAIN sorts[c] \cup {idOf[v]}
        /\ sorts'[c][idOf[v]] = Sort(v)
        /\ \A i \in DOMAIN sorts[c] : i # idOf[v] => sorts'[c][i] = sorts[c][i]
    BY <1>2 DEF Put
  <2>6. idOf[v] \notin BitsOf(c)
    BY DEF BitsOf, IInv, BitIds
  <2>7. \A w \in declared[c] : w \in Var /\ idOf[w] # idOf[v]
    BY <1>2 DEF IInv, VarIds, TypeOK
  <2>8. \A w \in (declared[c] \ BlastedVars(c))' : sorts'[c][idOf[w]] = Sort(w)
    BY <2>2, <2>4, <2>5, <2>7 DEF ToldOf
  <2>9. \A i \in BitsOf(c) : sorts'[c][i] = 2
    BY <2>2, <2>5, <2>6 DEF ToldOf
  <2>10. DOMAIN sorts'[c] = {idOf[w] : w \in (declared[c] \ BlastedVars(c))'} \cup BitsOf(c)
    BY <2>2, <2>4, <2>5 DEF ToldOf
  <2>. QED  BY <1>1, <1>2, <2>1, <2>2, <2>3, <2>8, <2>9, <2>10 DEF ToldOf
<1>5. Told'
  BY <1>1, <1>2, <1>4, OthersTold DEF Meaning
<1>. QED  BY <1>1, <1>2, <1>3, <1>5, DeclareMeaning

\* The booleans drawn for a blasted variable go to its entry (declare_bit).
LEMMA InsertBitsMeaning ==
  ASSUME IInv, IInv', Meaning, NEW c \in Call, InsertBits(c)
  PROVE  Meaning'
<1>1. pc[c] = "build" /\ UNCHANGED <<backend, query, idOf, pc, found, answer>>
  BY DEF InsertBits
<1>2. PICK v \in at[c] :
          /\ Len(drawn[c]) = Width[v]
          /\ sorts' = [sorts EXCEPT ![c] =
                         Put(@, [i \in {drawn[c][k] : k \in 1..Width[v]} |-> 2])]
          /\ bits' = [bits EXCEPT ![c] = Put(@, [i \in {idOf[v]} |-> drawn[c]])]
          /\ declared' = [declared EXCEPT ![c] = @ \cup {v}]
  BY DEF InsertBits
<1>. DEFINE new == {drawn[c][k] : k \in 1..Width[v]}
<1>3. /\ v \in Var /\ Blasted(v) /\ v \notin declared[c] /\ idOf[v] # 0
      /\ at'[c] = {} /\ declared'[c] = declared[c] \cup {v}
      /\ bits'[c] = Put(bits[c], [i \in {idOf[v]} |-> drawn[c]])
      /\ sorts'[c] = Put(sorts[c], [i \in new |-> 2])
  BY <1>2 DEF InsertBits, IInv, TypeOK, Meaning, Tables, Told, Declarations
<1>4. \A d \in Call \ {c} : /\ at'[d] = at[d] /\ declared'[d] = declared[d]
                            /\ bits'[d] = bits[d] /\ sorts'[d] = sorts[d]
  BY <1>2 DEF InsertBits, IInv, TypeOK, Meaning, Tables
<1>5. Tables'
  BY <1>1, <1>2 DEF Meaning, Tables
<1>6. ToldOf(c)'
  <2>1. \A w : Blasted(w)' = Blasted(w)
    BY <1>1 DEF Blasted
  <2>2. ToldOf(c)
    BY DEF Meaning, Told, ToldOf
  <2>3. BlastedVars(c)' = BlastedVars(c) \cup {v}
    BY <1>3, <2>1 DEF BlastedVars
  <2>4. (declared[c] \ BlastedVars(c))' = declared[c] \ BlastedVars(c)
    BY <1>3, <2>3 DEF BlastedVars
  <2>5. /\ DOMAIN bits'[c] = DOMAIN bits[c] \cup {idOf[v]}
        /\ bits'[c][idOf[v]] = drawn[c]
        /\ \A i \in DOMAIN bits[c] : i # idOf[v] => bits'[c][i] = bits[c][i]
    BY <1>3 DEF Put
  <2>6. \A w \in declared[c] : w \in Var /\ idOf[w] # idOf[v]
    BY <1>3 DEF IInv, VarIds, TypeOK
  <2>7. idOf[v] \notin DOMAIN bits[c]
    BY <2>2, <2>6 DEF ToldOf, BlastedVars
  <2>8. BitsOf(c)' = BitsOf(c) \cup new
    <3>1. \A i \in DOMAIN bits[c] : bits'[c][i] = bits[c][i]
      BY <2>5, <2>7
    <3>2. {bits'[c][idOf[v]][k] : k \in 1..Len(bits'[c][idOf[v]])} = new
      BY <1>2, <2>5
    <3>3. BitsOf(c)' = UNION {{bits'[c][i][k] : k \in 1..Len(bits'[c][i])} : i \in DOMAIN bits'[c]}
      BY DEF BitsOf
    <3>. HIDE DEF new
    <3>. QED  BY <3>1, <3>2, <3>3, <2>5 DEF BitsOf
  <2>. HIDE DEF new
  <2>9. /\ DOMAIN sorts'[c] = DOMAIN sorts[c] \cup new
        /\ \A i \in new : sorts'[c][i] = 2
        /\ \A i \in DOMAIN sorts[c] : i \notin new => sorts'[c][i] = sorts[c][i]
    BY <1>3 DEF Put
  <2>10. \A w \in Var : idOf[w] \notin new
    BY <1>2 DEF IInv, DrawnIds, new
  <2>11. \A w \in (declared[c] \ BlastedVars(c))' : sorts'[c][idOf[w]] = Sort(w)
    BY <2>2, <2>4, <2>6, <2>9, <2>10 DEF ToldOf
  <2>12. \A i \in BitsOf(c)' : sorts'[c][i] = 2
    BY <2>2, <2>8, <2>9 DEF ToldOf
  <2>13. DOMAIN sorts'[c] = {idOf[w] : w \in (declared[c] \ BlastedVars(c))'} \cup BitsOf(c)'
    BY <2>2, <2>4, <2>8, <2>9 DEF ToldOf
  <2>14. DOMAIN bits'[c] = {idOf[w] : w \in BlastedVars(c)'}
    BY <2>2, <2>3, <2>5 DEF ToldOf
  <2>15. \A w \in BlastedVars(c)' : Len(bits'[c][idOf[w]]) = Width[w]
    <3>1. \A w \in BlastedVars(c) : idOf[w] \in DOMAIN bits[c] /\ bits'[c][idOf[w]] = bits[c][idOf[w]]
      BY <2>2, <2>5, <2>7 DEF ToldOf
    <3>. QED  BY <1>2, <2>2, <2>3, <2>5, <3>1 DEF ToldOf
  <2>. QED  BY <1>1, <1>3, <2>11, <2>12, <2>13, <2>14, <2>15 DEF ToldOf
<1>7. Told'
  BY <1>1, <1>4, <1>6, OthersTold DEF Meaning
<1>. QED  BY <1>1, <1>4, <1>5, <1>7, DeclareMeaning

-----------------------------------------------------------------------------
\* A step after the declarations: the tables stay, the call goes on.
LEMMA AfterMeaning ==
  ASSUME IInv, IInv', Meaning, NEW c \in Call,
         UNCHANGED <<backend, query, idOf, declared, at, bits, sorts>>,
         Tables',
         \A d \in Call \ {c} : pc'[d] = pc[d] /\ found'[d] = found[d] /\ answer'[d] = answer[d],
         pc'[c] = "model" => FoundOf(c)',
         pc'[c] \in {"cleanup", "done"} => AnswerOf(c)'
  PROVE  Meaning'
<1>1. IdsStay
  BY DEF IdsStay
<1>2. Told'
  BY <1>1, SameTold DEF Meaning
<1>3. ASSUME NEW d \in Call, pc'[d] = "model" PROVE FoundOf(d)'
  <2>1. CASE d # c
    <3>1. FoundOf(d)
      BY <1>3, <2>1 DEF Meaning, Found
    <3>. QED  BY <3>1, <2>1, SameFound
  <2>. QED  BY <1>3, <2>1
<1>4. ASSUME NEW d \in Call, pc'[d] \in {"cleanup", "done"} PROVE AnswerOf(d)'
  <2>1. CASE d # c
    <3>1. AnswerOf(d)
      BY <1>4, <2>1 DEF Meaning, Answered
    <3>. QED  BY <3>1, <2>1, <1>1, SameAnswer DEF Meaning
  <2>. QED  BY <1>4, <2>1
<1>. QED  BY <1>2, <1>3, <1>4 DEF Meaning, Found, Answered

\* Unsatisfiable: no solution of the query, else its bits would satisfy.
LEMMA CheckUnsatMeaning ==
  ASSUME IInv, IInv', Meaning, NEW c \in Call, CheckUnsat(c)
  PROVE  Meaning'
<1>1. /\ UNCHANGED <<backend, query, idOf, declared, at, bits, sorts, found>>
      /\ \A d \in Call \ {c} : pc'[d] = pc[d] /\ answer'[d] = answer[d]
      /\ pc'[c] = "cleanup" /\ answer'[c] = None("nothing")
      /\ declared[c] = query[c].vars /\ Satisfying(c) = {}
  BY DEF CheckUnsat, Goto, IInv, TypeOK, Declarations
<1>2. Tables'
  BY <1>1 DEF Meaning, Tables
<1>3. Solutions(c)' = {}
  <2>1. Solutions(c) = {}
    BY <1>1, NothingRight
  <2>. QED  BY <2>1, <1>1 DEF Solutions
<1>4. AnswerOf(c)'
  <2>1. None("nothing")' = None("nothing")
    BY DEF None, NoTable
  <2>. QED  BY <1>1, <1>3, <2>1 DEF AnswerOf
<1>. QED  BY <1>1, <1>2, <1>4, AfterMeaning

\* Satisfiable: the library picks an assignment, and may leave booleans open.
LEMMA CheckSatMeaning ==
  ASSUME IInv, IInv', Meaning, NEW c \in Call, CheckSat(c)
  PROVE  Meaning'
<1>1. /\ UNCHANGED <<backend, query, idOf, declared, at, bits, sorts, answer>>
      /\ pc'[c] = "model" /\ \A d \in Call \ {c} : pc'[d] = pc[d]
  BY DEF CheckSat, Goto, IInv, TypeOK
<1>2. PICK a \in Satisfying(c) : \E O \in Opens(c, a) :
          found' = [found EXCEPT ![c] = [i \in DOMAIN a |-> IF i \in O THEN Open ELSE a[i]]]
  BY DEF CheckSat
<1>3. PICK O \in Opens(c, a) :
          found' = [found EXCEPT ![c] = [i \in DOMAIN a |-> IF i \in O THEN Open ELSE a[i]]]
  BY <1>2
<1>4. /\ found'[c] = [i \in DOMAIN a |-> IF i \in O THEN Open ELSE a[i]]
      /\ \A d \in Call \ {c} : found'[d] = found[d]
  BY <1>3 DEF Meaning, Tables
<1>5. Tables'
  BY <1>1, <1>3 DEF Meaning, Tables
<1>6. FoundOf(c)'
  <2>1. Satisfying(c)' = Satisfying(c) /\ \A b : Opens(c, b)' = Opens(c, b)
    BY <1>1, SameSatisfying
  <2>. QED  BY <2>1, <1>4 DEF FoundOf
<1>. QED  BY <1>1, <1>4, <1>5, <1>6, AfterMeaning

\* The model is read back, open booleans as false and numbers from their bits.
LEMMA GetModelMeaning ==
  ASSUME IInv, IInv', Meaning, NEW c \in Call, GetModel(c)
  PROVE  Meaning'
<1>1. /\ UNCHANGED <<backend, query, idOf, declared, at, bits, sorts, found>>
      /\ \A d \in Call \ {c} : pc'[d] = pc[d] /\ answer'[d] = answer[d]
      /\ pc'[c] = "cleanup" /\ pc[c] = "model" /\ declared[c] = query[c].vars
      /\ answer'[c] = [kind |-> "just", model |-> [i \in UserIds(c) |-> getValue(c, i)]]
  BY DEF GetModel, Goto, IInv, TypeOK, Declarations
<1>2. Tables'
  BY <1>1 DEF Meaning, Tables
<1>. DEFINE V == query[c].vars
            m == [v \in Var |-> IF v \in V THEN getValue(c, idOf[v]) ELSE 0]
<1>3. m \in Solutions(c)
  BY <1>1, ModelRight DEF Meaning, Found
<1>4. V \in SUBSET Var /\ \A v \in V : idOf[v] # 0
  BY <1>1, QueryOf DEF Meaning, IInv, Declarations
<1>5. \A v \in Var : idOf[v] \in UserIds(c) <=> v \in V
  BY <1>1, <1>4 DEF UserIds, IInv, VarIds
<1>6. \A v \in Var : Lookup(c, v)' = m[v]
  <2>. SUFFICES ASSUME NEW v \in Var PROVE Lookup(c, v)' = m[v]
    OBVIOUS
  <2>1. Lookup(c, v)' = IF idOf[v] \in DOMAIN answer'[c].model THEN answer'[c].model[idOf[v]] ELSE 0
    BY <1>1 DEF Lookup
  <2>2. answer'[c].model = [i \in UserIds(c) |-> getValue(c, i)]
    BY <1>1
  <2>. QED  BY <2>1, <2>2, <1>5
<1>7. Shown(c)' = m
  <2>1. Shown(c)' = [v \in Var |-> Lookup(c, v)']
    BY DEF Shown
  <2>2. m = [v \in Var |-> m[v]]
    OBVIOUS
  <2>. HIDE DEF m
  <2>. QED  BY <2>1, <2>2, <1>6
<1>8. Solutions(c)' = Solutions(c)
  BY <1>1 DEF Solutions
<1>9. AnswerOf(c)'
  <2>. HIDE DEF m
  <2>. QED  BY <1>1, <1>3, <1>7, <1>8 DEF AnswerOf
<1>. QED  BY <1>1, <1>2, <1>9, AfterMeaning

\* It is so at the start,
LEMMA InitMeaning == Init => Meaning
<1>. SUFFICES ASSUME Init PROVE Meaning
  OBVIOUS
<1>1. Tables
  BY DEF Init, Tables
<1>2. Told
  <2>1. DOMAIN <<>> = {}
    OBVIOUS
  <2>2. \A c \in Call : at[c] = {} /\ declared[c] = {} /\ DOMAIN bits[c] = {} /\ DOMAIN sorts[c] = {}
    BY <2>1 DEF Init, NoTable
  <2>3. \A c \in Call : BlastedVars(c) = {} /\ BitsOf(c) = {}
    BY <2>2 DEF BlastedVars, BitsOf
  <2>. QED  BY <2>2, <2>3 DEF Told
<1>3. Found /\ Answered
  BY DEF Init, Found, Answered
<1>. QED  BY <1>1, <1>2, <1>3 DEF Meaning

\* and every step keeps it.
LEMMA NextMeaning == IInv /\ IInv' /\ Meaning /\ [Next]_solverVars => Meaning'
<1>. SUFFICES ASSUME IInv, IInv', Meaning, [Next]_solverVars PROVE Meaning'
  OBVIOUS
<1>0. ASSUME UNCHANGED <<idOf, backend, query, declared, at, bits, sorts, found, answer>>,
             NEW c \in Call, NEW where, Goto(c, where),
             where \notin {"model", "cleanup", "done"} \/ (where = "done" /\ pc[c] = "cleanup")
      PROVE  Meaning'
  <2>1. \A d \in Call : /\ pc'[d] = "model" => pc[d] = "model"
                        /\ pc'[d] \in {"cleanup", "done"} => pc[d] \in {"cleanup", "done"}
    BY <1>0 DEF Goto, IInv, TypeOK
  <2>2. IdsStay
    BY <1>0 DEF IdsStay
  <2>. QED  BY <1>0, <2>1, <2>2, QuietMeaning
<1>1. ASSUME NEW c \in Call, Make(c) PROVE Meaning'
  BY <1>0, <1>1 DEF Make
<1>2. ASSUME NEW v \in Var, ForceVar(v) PROVE Meaning'
  <2>1. IdsStay
    BY <1>2 DEF ForceVar, IdsStay, IInv, TypeOK
  <2>. QED  BY <1>2, <2>1, QuietMeaning DEF ForceVar
<1>3. ASSUME NEW c \in Call, Step(c) PROVE Meaning'
  <2>1. CASE BuildForces(c)
    <3>1. PICK v \in query[c].vars : ForceVar(v)
      BY <2>1 DEF BuildForces
    <3>2. v \in Var
      BY QueryOf DEF Meaning
    <3>. QED  BY <3>1, <3>2, <1>2
  <2>2. CASE \E v \in Var : DeclareNative(c, v) \/ DeclareBits(c, v)
    BY <2>2, DeclareNativeMeaning, DeclareBitsMeaning
  <2>3. CASE DrawBit(c)
    <3>1. IdsStay
      BY <2>3 DEF DrawBit, IdsStay
    <3>. QED  BY <2>3, <3>1, QuietMeaning DEF DrawBit
  <2>4. CASE InsertBits(c)
    BY <2>4, InsertBitsMeaning
  <2>5. CASE AssertQuery(c)
    BY <1>0, <2>5 DEF AssertQuery
  <2>6. CASE CheckUnsat(c)
    BY <2>6, CheckUnsatMeaning
  <2>7. CASE CheckSat(c)
    BY <2>7, CheckSatMeaning
  <2>8. CASE GetModel(c)
    BY <2>8, GetModelMeaning
  <2>9. CASE Cleanup(c)
    BY <1>0, <2>9 DEF Cleanup
  <2>. QED  BY <1>3, <2>1, <2>2, <2>3, <2>4, <2>5, <2>6, <2>7, <2>8, <2>9 DEF Step
<1>4. ASSUME NEW c \in Call, Raise(c) PROVE Meaning'
  BY <1>0, <1>4 DEF Raise
<1>5. CASE UNCHANGED solverVars
  <2>1. IdsStay
    BY <1>5 DEF IdsStay, solverVars
  <2>. QED  BY <1>5, <2>1, QuietMeaning DEF solverVars
<1>. QED  BY <1>1, <1>2, <1>3, <1>4, <1>5 DEF Next

(***************************************************************************)
(* What is told, found and answered in any state of the driver means what  *)
(* the query does (declare, getModel, solve; Bits, fresh, getIntegerVar).  *)
(***************************************************************************)
THEOREM MeaningThm == Spec => []Meaning
BY InitMeaning, NextMeaning, Invariance, PTL DEF Spec
-----------------------------------------------------------------------------
\* The state of SolveSpec that a state of the driver stands for.
SolutionsBar == [c \in Call |->
                    {m \in Values(Var) : [v \in query[c].vars |-> m[v]] \in query[c].sat}]

AnswerBar(c) == [kind |-> CASE pc[c] = "done" -> answer[c].kind
                              [] pc[c] = "aborted" -> "raised"
                              [] OTHER -> "pending",
                   model |-> IF pc[c] = "done" /\ answer[c].kind = "just"
                             THEN [v \in Var |-> Lookup(c, v)]
                             ELSE NoTable]

AnswersBar == [c \in Call |-> AnswerBar(c)]

\* Nothing is answered at first.
LEMMA RefinementInit == Init => Abstract!Init
<1>. SUFFICES ASSUME Init PROVE Abstract!Init
  OBVIOUS
<1>1. \A c \in Call : AnswerBar(c) = [kind |-> "pending", model |-> NoTable]
  BY DEF AnswerBar, Init
<1>2. AnswersBar = [c \in Call |-> [kind |-> "pending", model |-> NoTable]]
  BY <1>1 DEF AnswersBar
<1>3. SolutionsBar \in [Call -> SUBSET Values(Var)]
  BY DEF SolutionsBar
<1>. QED  BY <1>2, <1>3 DEF Abstract!Init, Abstract!None, SolutionsBar, AnswersBar, AnswerBar

\* Where a call has its answer.
Over == {"done", "aborted"}

\* Before, its answer is pending.
LEMMA PendingBar ==
  ASSUME NEW c \in Call, pc[c] \notin Over
  PROVE  AnswerBar(c) = [kind |-> "pending", model |-> NoTable]
BY DEF AnswerBar, Over

\* The step to done is the answer of the abstract call, a raise its failure;
\* every other step stutters.
LEMMA RefinementStep ==
  IInv /\ IInv' /\ Meaning /\ Meaning' /\ [Next]_solverVars => [Abstract!Next]_(Abstract!vars)
<1>. SUFFICES ASSUME IInv, IInv', Meaning, Meaning', [Next]_solverVars
     PROVE  [Abstract!Next]_(Abstract!vars)
  OBVIOUS
<1>. USE DEF Meaning
<1>0. ASSUME SolutionsBar' = SolutionsBar, AnswersBar' = AnswersBar
      PROVE  [Abstract!Next]_(Abstract!vars)
  BY <1>0 DEF Abstract!vars, SolutionsBar, AnswersBar, AnswerBar
<1>a. ASSUME query' = query PROVE SolutionsBar' = SolutionsBar
  BY <1>a DEF SolutionsBar
<1>b. ASSUME NEW c \in Call, query' = query, pc'[c] = pc[c], answer'[c] = answer[c], IdsStay
      PROVE  AnswerBar(c)' = AnswerBar(c)
  <2>1. CASE answer[c].kind = "just"
    <3>1. Shown(c)' = Shown(c)
      BY <1>b, <2>1, SameShown
    <3>. QED  BY <1>b, <3>1 DEF AnswerBar, Shown, NoTable
  <2>2. CASE answer[c].kind # "just"
    BY <1>b, <2>2 DEF AnswerBar, NoTable
  <2>. QED  BY <2>1, <2>2
<1>c. ASSUME NEW c \in Call, query' = query, IdsStay, pc[c] \notin Over, pc'[c] \notin Over,
             \A d \in Call \ {c} : pc'[d] = pc[d] /\ answer'[d] = answer[d]
      PROVE  [Abstract!Next]_(Abstract!vars)
  <2>1. AnswerBar(c)' = AnswerBar(c)
    BY <1>c DEF AnswerBar, Over, NoTable
  <2>2. \A d \in Call : AnswerBar(d)' = AnswerBar(d)
    BY <1>b, <1>c, <2>1
  <2>3. AnswersBar' = AnswersBar
    BY <2>2 DEF AnswersBar
  <2>. QED  BY <1>0, <1>a, <1>c, <2>3
<1>d. ASSUME NEW c \in Call, query' = query, IdsStay, pc[c] \notin Over,
             \A d \in Call \ {c} : pc'[d] = pc[d] /\ answer'[d] = answer[d],
             NEW r, AnswerBar(c)' = r
      PROVE  /\ AnswersBar[c] = [kind |-> "pending", model |-> NoTable]
             /\ AnswersBar' = [AnswersBar EXCEPT ![c] = r]
             /\ SolutionsBar' = SolutionsBar
  <2>1. \A d \in Call \ {c} : AnswerBar(d)' = AnswerBar(d)
    BY <1>b, <1>d
  <2>2. AnswersBar' = [AnswersBar EXCEPT ![c] = r]
    BY <1>d, <2>1 DEF AnswersBar
  <2>3. AnswersBar[c] = [kind |-> "pending", model |-> NoTable]
    BY <1>d, PendingBar DEF AnswersBar
  <2>. QED  BY <1>a, <1>d, <2>2, <2>3
<1>1. ASSUME NEW c \in Call, Make(c) PROVE [Abstract!Next]_(Abstract!vars)
  <2>1. pc[c] \notin Over /\ pc'[c] \notin Over /\ \A d \in Call \ {c} : pc'[d] = pc[d]
    BY <1>1 DEF Make, Goto, IInv, TypeOK, Over
  <2>2. query' = query /\ answer' = answer /\ IdsStay
    BY <1>1 DEF Make, IdsStay
  <2>. QED  BY <1>c, <2>1, <2>2
<1>2. ASSUME NEW v \in Var, ForceVar(v) PROVE [Abstract!Next]_(Abstract!vars)
  <2>1. query' = query /\ answer' = answer /\ pc' = pc
    BY <1>2 DEF ForceVar
  <2>2. IdsStay
    BY <1>2 DEF ForceVar, IdsStay, IInv, TypeOK
  <2>3. \A d \in Call : AnswerBar(d)' = AnswerBar(d)
    BY <1>b, <2>1, <2>2
  <2>4. AnswersBar' = AnswersBar
    BY <2>3 DEF AnswersBar
  <2>. QED  BY <1>0, <1>a, <2>1, <2>4
<1>3. ASSUME NEW c \in Call, Step(c) PROVE [Abstract!Next]_(Abstract!vars)
  <2>1. CASE BuildForces(c)
    <3>1. PICK v \in query[c].vars : ForceVar(v)
      BY <2>1 DEF BuildForces
    <3>2. v \in Var
      BY QueryOf
    <3>. QED  BY <3>1, <3>2, <1>2
  <2>2. CASE \/ \E v \in Var : DeclareNative(c, v) \/ DeclareBits(c, v)
             \/ DrawBit(c) \/ InsertBits(c)
    <3>1. pc[c] = "build" /\ pc' = pc /\ query' = query /\ answer' = answer /\ IdsStay
      BY <2>2 DEF DeclareNative, DeclareBits, Declares, DrawBit, InsertBits, IdsStay
    <3>2. pc[c] \notin Over /\ pc'[c] \notin Over
      BY <3>1 DEF Over
    <3>. QED  BY <1>c, <3>1, <3>2
  <2>3. CASE AssertQuery(c) \/ CheckUnsat(c) \/ CheckSat(c) \/ GetModel(c)
    <3>1. query' = query /\ IdsStay
      BY <2>3 DEF AssertQuery, CheckUnsat, CheckSat, GetModel, IdsStay
    <3>2. /\ pc[c] \notin Over /\ pc'[c] \notin Over
          /\ \A d \in Call \ {c} : pc'[d] = pc[d] /\ answer'[d] = answer[d]
      BY <2>3 DEF AssertQuery, CheckUnsat, CheckSat, GetModel, Goto, IInv, TypeOK, Over
    <3>. QED  BY <1>c, <3>1, <3>2
  <2>4. CASE Cleanup(c)
    <3>1. query' = query /\ answer' = answer /\ IdsStay
      BY <2>4 DEF Cleanup, IdsStay
    <3>2. /\ pc[c] = "cleanup" /\ pc'[c] = "done"
          /\ \A d \in Call \ {c} : pc'[d] = pc[d]
      BY <2>4 DEF Cleanup, Goto, IInv, TypeOK
    <3>3. pc[c] \notin Over
      BY <3>2 DEF Over
    <3>4. AnswerOf(c)'
      BY <3>2 DEF Answered
    <3>5. CASE answer'[c] = None("nothing") /\ Solutions(c)' = {}
      <4>1. Solutions(c) = {} /\ SolutionsBar[c] = {}
        BY <3>1, <3>5 DEF Solutions, SolutionsBar
      <4>2. AnswerBar(c)' = [kind |-> "nothing", model |-> NoTable]
        BY <3>2, <3>5 DEF AnswerBar, None, NoTable
      <4>3. /\ AnswersBar[c] = [kind |-> "pending", model |-> NoTable]
            /\ AnswersBar' = [AnswersBar EXCEPT ![c] = [kind |-> "nothing", model |-> NoTable]]
            /\ SolutionsBar' = SolutionsBar
        BY <1>d, <3>1, <3>2, <3>3, <4>2
      <4>4. Abstract!Unsat(c)
        BY <4>1, <4>3 DEF Abstract!Unsat, Abstract!Answers, Abstract!None, SolutionsBar, AnswersBar, AnswerBar
      <4>. QED  BY <4>4 DEF Abstract!Next
    <3>6. CASE answer'[c].kind = "just" /\ Shown(c)' \in Solutions(c)'
      <4>1. Shown(c)' \in SolutionsBar[c]
        BY <3>1, <3>6 DEF Solutions, SolutionsBar
      <4>2. AnswerBar(c)' = [kind |-> "just", model |-> Shown(c)']
        BY <3>2, <3>6 DEF AnswerBar, Shown
      <4>3. /\ AnswersBar[c] = [kind |-> "pending", model |-> NoTable]
            /\ AnswersBar' = [AnswersBar EXCEPT ![c] = [kind |-> "just", model |-> Shown(c)']]
            /\ SolutionsBar' = SolutionsBar
        BY <1>d, <3>1, <3>2, <3>3, <4>2
      <4>4. PICK m : m = Shown(c)'
        OBVIOUS
      <4>5. /\ m \in SolutionsBar[c]
            /\ AnswersBar' = [AnswersBar EXCEPT ![c] = [kind |-> "just", model |-> m]]
        BY <4>1, <4>3, <4>4
      <4>6. Abstract!Sat(c)
        BY <4>3, <4>5 DEF Abstract!Sat, Abstract!Answers, Abstract!None, SolutionsBar, AnswersBar, AnswerBar
      <4>. QED  BY <4>6 DEF Abstract!Next
    <3>. QED  BY <3>4, <3>5, <3>6 DEF AnswerOf
  <2>. QED  BY <1>3, <2>1, <2>2, <2>3, <2>4 DEF Step
<1>4. ASSUME NEW c \in Call, Raise(c) PROVE [Abstract!Next]_(Abstract!vars)
  <2>1. query' = query /\ answer' = answer /\ IdsStay
    BY <1>4 DEF Raise, IdsStay
  <2>2. /\ pc[c] \notin Over /\ pc'[c] = "aborted"
        /\ \A d \in Call \ {c} : pc'[d] = pc[d]
    BY <1>4 DEF Raise, Goto, Active, IInv, TypeOK, Over
  <2>3. AnswerBar(c)' = [kind |-> "raised", model |-> NoTable]
    BY <2>2 DEF AnswerBar, NoTable
  <2>4. /\ AnswersBar[c] = [kind |-> "pending", model |-> NoTable]
        /\ AnswersBar' = [AnswersBar EXCEPT ![c] = [kind |-> "raised", model |-> NoTable]]
        /\ SolutionsBar' = SolutionsBar
    BY <1>d, <2>1, <2>2, <2>3
  <2>5. Abstract!Raised(c)
    BY <2>4 DEF Abstract!Raised, Abstract!Answers, Abstract!None, SolutionsBar, AnswersBar, AnswerBar
  <2>. QED  BY <2>5 DEF Abstract!Next
<1>5. CASE UNCHANGED solverVars
  <2>1. query' = query /\ answer' = answer /\ pc' = pc /\ IdsStay
    BY <1>5 DEF solverVars, IdsStay
  <2>2. \A d \in Call : AnswerBar(d)' = AnswerBar(d)
    BY <1>b, <2>1
  <2>3. AnswersBar' = AnswersBar
    BY <2>2 DEF AnswersBar
  <2>. QED  BY <1>0, <1>a, <2>1, <2>3
<1>. QED  BY <1>1, <1>2, <1>3, <1>4, <1>5 DEF Next

(***************************************************************************)
(* The driver answers as SolveSpec says: nothing only of a query without a *)
(* solution, just only with a solution of it, whatever is blasted, left    *)
(* open, forced late or going on in other calls (solve, getModel, model).  *)
(***************************************************************************)
THEOREM ImplementsThm == Spec => Implements
BY InitMeaning, RefinementInit, RefinementStep, Invariance, MeaningThm, PTL DEF Spec, Implements, Abstract!Spec
=============================================================================
