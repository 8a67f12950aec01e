------------------------------- MODULE Solver -------------------------------
(***************************************************************************)
(* Calls of solve (Smten/Runtime/Solver.hs): make a context, build the     *)
(* query in it, assert, check, read the model, clean up, with nothing to   *)
(* undo them when an exception comes in between; the adapter Bits          *)
(* (Bits.hs), which stands for a bit vector of w bits with w booleans of   *)
(* its own; and the identifiers (FreeID.hs), which the variables of the    *)
(* program draw when they are first forced and Bits draws as it declares,  *)
(* all from one source.                                                    *)
(*                                                                         *)
(* The build of the query is what module Build promises: each variable of  *)
(* the query is declared once, in any order.  The foreign library answers  *)
(* as the constraint it was given demands; it may leave open a boolean     *)
(* that does not matter, and it may fail.                                  *)
(***************************************************************************)
EXTENDS Naturals, Sequences

CONSTANTS Call,     \* the calls
          Var,      \* the variables of the program
          Width,    \* the number of bits of its bit-vector variables
          Queries,  \* what the calls are asked: a query for each call
          Backends, \* [blast: bit vectors go through Bits,
                    \*  exits: cleanup ends the library, with every context]
          Open      \* what the library says of a boolean it leaves open

power2[n \in Nat] == IF n = 0 THEN 1 ELSE 2 * power2[n - 1]

\* A variable's values are 0..(Sort(v) - 1): 0 and 1 for a boolean.
Sort(v) == IF v \in DOMAIN Width THEN power2[Width[v]] ELSE 2

Valuations(D, sort) == {a \in [D -> UNION {0..(sort[d] - 1) : d \in D}] :
                          \A d \in D : a[d] < sort[d]}

Values(V) == Valuations(V, [v \in V |-> Sort(v)])

\* A query has its variables, and the values of them that satisfy it.
Query == UNION {[vars : {V}, sat : SUBSET Values(V)] : V \in SUBSET Var}

ASSUME SolverAssumption ==
    /\ DOMAIN Width \subseteq Var /\ Width \in [DOMAIN Width -> Nat]
    /\ Queries \subseteq [Call -> Query]
    /\ Backends \subseteq [blast : BOOLEAN, exits : BOOLEAN]
    /\ Open \notin Nat

-----------------------------------------------------------------------------
VARIABLES freshSource, \* the last identifier drawn
          idOf,        \* of each variable of the program: 0 until it is forced
          backend,     \* the solver in use, and
          query,       \* the query of each call: no step changes them
          contexts,    \* the calls whose context is allocated
          pc,          \* "idle", "build", "check", "model", "cleanup", "done", "aborted"
          declared,    \* the variables a call has declared
          at,          \* those it is declaring through Bits: one, or none
          drawn,       \* the booleans drawn for it so far
          bits,        \* BitVarMap: identifier -> the booleans that stand for it
          sorts,       \* what the library was told of: identifier -> its sort
          found,       \* the assignment the library found
          answer       \* what solve is to return: [kind, model: identifier -> value]

solverVars == <<freshSource, idOf, backend, query, contexts, pc,
                declared, at, drawn, bits, sorts, found, answer>>

NoTable == <<>>

None(kind) == [kind |-> kind, model |-> NoTable]

Init == /\ freshSource = 0
        /\ idOf = [v \in Var |-> 0]
        /\ backend \in Backends
        /\ query \in Queries
        /\ contexts = {}
        /\ pc = [c \in Call |-> "idle"]
        /\ declared = [c \in Call |-> {}]
        /\ at = [c \in Call |-> {}]
        /\ drawn = [c \in Call |-> <<>>]
        /\ bits = [c \in Call |-> NoTable]
        /\ sorts = [c \in Call |-> NoTable]
        /\ found = [c \in Call |-> NoTable]
        /\ answer = [c \in Call |-> None("pending")]

-----------------------------------------------------------------------------
Active(c) == pc[c] \in {"build", "check", "model", "cleanup"}

Goto(c, where) == pc' = [pc EXCEPT ![c] = where]

\* A table with the entries of new put in (H.insert).
Put(table, new) == [i \in DOMAIN table \cup DOMAIN new |->
                      IF i \in DOMAIN new THEN new[i] ELSE table[i]]

Blasted(v) == backend.blast /\ v \in DOMAIN Width

\* solver <- mksolver: load and start the library, make the context.  Calls
\* that overlap are for threads of the linking program, and only on a backend
\* whose cleanup leaves the other contexts alone.
Make(c) ==
    /\ pc[c] = "idle"
    /\ backend.exits => \A d \in Call : ~Active(d)
    /\ contexts' = contexts \cup {c}
    /\ Goto(c, "build")
    /\ UNCHANGED <<freshSource, idOf, backend, query, declared, at, drawn, bits, sorts, found, answer>>

\* withfresh: the thunk that holds a variable's identifier is forced, by the
\* build of a query or by whatever else the program evaluates.
ForceVar(v) ==
    /\ idOf[v] = 0
    /\ freshSource' = freshSource + 1
    /\ idOf' = [idOf EXCEPT ![v] = freshSource + 1]
    /\ UNCHANGED <<backend, query, contexts, pc, declared, at, drawn, bits, sorts, found, answer>>

BuildForces(c) == pc[c] = "build" /\ \E v \in query[c].vars : ForceVar(v)

\* The next variable that build declares.
Declares(c, v) == /\ pc[c] = "build" /\ at[c] = {}
                  /\ v \in query[c].vars \ declared[c]
                  /\ idOf[v] # 0

\* declare_bool, declare_bit of the library
DeclareNative(c, v) ==
    /\ Declares(c, v) /\ ~Blasted(v)
    /\ sorts' = [sorts EXCEPT ![c] = Put(@, [i \in {idOf[v]} |-> Sort(v)])]
    /\ declared' = [declared EXCEPT ![c] = @ \cup {v}]
    /\ UNCHANGED <<freshSource, idOf, backend, query, contexts, pc, at, drawn, bits, found, answer>>

\* declare_bit of Bits
DeclareBits(c, v) ==
    /\ Declares(c, v) /\ Blasted(v)
    /\ at' = [at EXCEPT ![c] = {v}]
    /\ UNCHANGED <<freshSource, idOf, backend, query, contexts, pc, declared, drawn, bits, sorts, found, answer>>

\* Mutant of fresh: the booleans of a call are numbered by a counter of its own.
freshOwn(c) == /\ drawn' = [drawn EXCEPT ![c] = Append(@, Len(@) + 1)]
               /\ UNCHANGED freshSource

fresh(c) == /\ freshSource' = freshSource + 1
            /\ drawn' = [drawn EXCEPT ![c] = Append(@, freshSource + 1)]

\* nms <- replicateM w fresh
DrawBit(c) ==
    /\ \E v \in at[c] : Len(drawn[c]) < Width[v]
    /\ pc[c] = "build"
    /\ fresh(c)
    /\ UNCHANGED <<idOf, backend, query, contexts, pc, declared, at, bits, sorts, found, answer>>

\* mapM (declare_bool s) nms; H.insert m nm nms
InsertBits(c) ==
    /\ pc[c] = "build"
    /\ \E v \in at[c] :
          /\ Len(drawn[c]) = Width[v]
          /\ sorts' = [sorts EXCEPT ![c] =
                         Put(@, [i \in {drawn[c][k] : k \in 1..Width[v]} |-> 2])]
          /\ bits' = [bits EXCEPT ![c] = Put(@, [i \in {idOf[v]} |-> drawn[c]])]
          /\ declared' = [declared EXCEPT ![c] = @ \cup {v}]
    /\ at' = [at EXCEPT ![c] = {}]
    /\ drawn' = [drawn EXCEPT ![c] = <<>>]
    /\ UNCHANGED <<freshSource, idOf, backend, query, contexts, pc, found, answer>>

\* assert solver p
AssertQuery(c) ==
    /\ pc[c] = "build" /\ declared[c] = query[c].vars
    /\ Goto(c, "check")
    /\ UNCHANGED <<freshSource, idOf, backend, query, contexts, declared, at, drawn, bits, sorts, found, answer>>

-----------------------------------------------------------------------------
\* The booleans of a number, and the number of booleans: least significant
\* first.
intB[w \in Nat] ==
    [n \in Nat |-> IF w = 0 THEN <<>> ELSE <<n % 2>> \o intB[w - 1][n \div 2]]

valB[bs \in Seq({0, 1})] == IF bs = <<>> THEN 0 ELSE Head(bs) + 2 * valB[Tail(bs)]

\* The value a variable of the query has under an assignment to what the
\* library knows: for the query, a bit vector is the number that intB gives
\* its booleans for.
ValueOf(c, v, a) ==
    IF Blasted(v)
    THEN CHOOSE n \in 0..(Sort(v) - 1) :
            intB[Width[v]][n] = [k \in 1..Width[v] |-> a[bits[c][idOf[v]][k]]]
    ELSE a[idOf[v]]

Assignments(c) == Valuations(DOMAIN sorts[c], sorts[c])

Satisfying(c) == {a \in Assignments(c) :
                    [v \in query[c].vars |-> ValueOf(c, v, a)] \in query[c].sat}

Booleans(c) == {i \in DOMAIN sorts[c] : sorts[c][i] = 2}

\* Booleans an assignment may leave open: it satisfies the query whatever they are.
Opens(c, a) == {O \in SUBSET Booleans(c) :
                  \A b \in Assignments(c) :
                     (\A i \in DOMAIN a \ O : b[i] = a[i]) => b \in Satisfying(c)}

CheckUnsat(c) ==
    /\ pc[c] = "check" /\ Satisfying(c) = {}
    /\ Goto(c, "cleanup")
    /\ answer' = [answer EXCEPT ![c] = None("nothing")]
    /\ UNCHANGED <<freshSource, idOf, backend, query, contexts, declared, at, drawn, bits, sorts, found>>

\* res <- check solver
CheckSat(c) ==
    /\ pc[c] = "check"
    /\ \E a \in Satisfying(c) : \E O \in Opens(c, a) :
          found' = [found EXCEPT ![c] = [i \in DOMAIN a |-> IF i \in O THEN Open ELSE a[i]]]
    /\ Goto(c, "model")
    /\ UNCHANGED <<freshSource, idOf, backend, query, contexts, declared, at, drawn, bits, sorts, answer>>

\* "-1 means we don't care, so just return the equivalent of False."
getBoolValue(c, i) == IF found[c][i] = Open THEN 0 ELSE found[c][i]

\* The booleans of a bit vector: nms <- H.lookup m nm; mapM (getBoolValue s) nms
getBits(c, i) == [k \in 1..Len(bits[c][i]) |-> getBoolValue(c, bits[c][i][k])]

\* Mutant of getValue: the most significant boolean is taken for the first.
getValueMsb(c, i) ==
    IF i \in DOMAIN bits[c]
    THEN valB[[k \in 1..Len(bits[c][i]) |-> getBits(c, i)[Len(bits[c][i]) + 1 - k]]]
    ELSE getBoolValue(c, i)

\* The value of one of the identifiers that build gave back.
getValue(c, i) == IF i \in DOMAIN bits[c] THEN valB[getBits(c, i)] ELSE getBoolValue(c, i)

\* Mutant of UserIds: everything the library knows.
UserIdsAll(c) == DOMAIN sorts[c]

UserIds(c) == {idOf[v] : v \in declared[c]}

\* vals <- getModel solver vars; m <- model (zip (map fst vars) vals)
GetModel(c) ==
    /\ pc[c] = "model"
    /\ answer' = [answer EXCEPT ![c] =
                    [kind |-> "just", model |-> [i \in UserIds(c) |-> getValue(c, i)]]]
    /\ Goto(c, "cleanup")
    /\ UNCHANGED <<freshSource, idOf, backend, query, contexts, declared, at, drawn, bits, sorts, found>>

\* Mutant of Cleanup: the branch without a model does not free the context.
CleanupIfSat(c) ==
    /\ pc[c] = "cleanup"
    /\ contexts' = IF answer[c].kind # "just" THEN contexts ELSE contexts \ {c}
    /\ Goto(c, "done")
    /\ UNCHANGED <<freshSource, idOf, backend, query, declared, at, drawn, bits, sorts, found, answer>>

\* cleanup solver, and return
Cleanup(c) ==
    /\ pc[c] = "cleanup"
    /\ contexts' = IF backend.exits THEN {} ELSE contexts \ {c}
    /\ Goto(c, "done")
    /\ UNCHANGED <<freshSource, idOf, backend, query, declared, at, drawn, bits, sorts, found, answer>>

\* The library is not found or fails, or an asynchronous exception arrives.
Raise(c) ==
    /\ pc[c] = "idle" \/ Active(c)
    /\ Goto(c, "aborted")
    /\ UNCHANGED <<freshSource, idOf, backend, query, contexts, declared, at, drawn, bits, sorts, found, answer>>

Step(c) == \/ BuildForces(c)
           \/ \E v \in Var : DeclareNative(c, v) \/ DeclareBits(c, v)
           \/ DrawBit(c) \/ InsertBits(c) \/ AssertQuery(c)
           \/ CheckUnsat(c) \/ CheckSat(c) \/ GetModel(c) \/ Cleanup(c)

Next == \/ \E c \in Call : Make(c) \/ Step(c) \/ Raise(c)
        \/ \E v \in Var : ForceVar(v)

Spec == Init /\ [][Next]_solverVars

-----------------------------------------------------------------------------
\* The booleans that Bits has made up for a call.
BitsOf(c) == UNION {{bits[c][i][k] : k \in 1..Len(bits[c][i])} : i \in DOMAIN bits[c]}

\* No boolean that Bits makes up is a variable of the program, forced before it
\* or after, or stands for two bits: in the one name space of the library they
\* are all different.
IdsApart ==
    /\ \A v, w \in Var : v # w /\ idOf[v] # 0 => idOf[v] # idOf[w]
    /\ \A c \in Call : BitsOf(c) \cap {idOf[v] : v \in Var} = {}
    /\ \A c \in Call : \A i, j \in DOMAIN bits[c] :
          \A k \in 1..Len(bits[c][i]) : \A l \in 1..Len(bits[c][j]) :
             bits[c][i][k] = bits[c][j][l] => i = j /\ k = l

\* A call's context is there as long as the call may use it, though calls that
\* were cut short left theirs behind and a cleanup may end the whole library; and
\* a call that returns, with a model or without, leaves none allocated.
ContextsRight == \A c \in Call : /\ Active(c) => c \in contexts
                                 /\ pc[c] = "done" => c \notin contexts

\* "The model contains values for all user-level variables that appear in the
\* formula" (Solver.hs), and for nothing else: none of the adapter's booleans.
ModelIsUsers ==
    \A c \in Call : answer[c].kind = "just" =>
        DOMAIN answer[c].model = {idOf[v] : v \in query[c].vars}

-----------------------------------------------------------------------------
\* lookupBool, lookupBit of Model.hs: a variable without a value has the default.
Lookup(c, v) == IF idOf[v] \in DOMAIN answer[c].model THEN answer[c].model[idOf[v]] ELSE 0

\* solve does what it promises: the model, read back with these lookups while
\* more variables may be forced, satisfies the query, and Nothing is returned
\* only for a query that nothing satisfies.
Abstract == INSTANCE SolveSpec WITH
    Models <- Values(Var), NoModel <- NoTable,
    solutions <- [c \in Call |->
                    {m \in Values(Var) : [v \in query[c].vars |-> m[v]] \in query[c].sat}],
    answers <- [c \in Call |->
                  [kind |-> CASE pc[c] = "done" -> answer[c].kind
                              [] pc[c] = "aborted" -> "raised"
                              [] OTHER -> "pending",
                   model |-> IF pc[c] = "done" /\ answer[c].kind = "just"
                             THEN [v \in Var |-> Lookup(c, v)]
                             ELSE NoTable]]

Implements == Abstract!Spec
=============================================================================
