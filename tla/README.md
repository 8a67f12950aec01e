# smten in TLA+

smten is a Haskell compiler plugin and runtime for searching with SMT solvers.
A program describes a set with the monad `Space` (`empty`, `single`, `union`,
`>>=`, ordinary Haskell code in between, conditions on symbolic values
included), and `search` returns an element of the set or `Nothing`, asking a
solver as often as it needs to. This directory holds a formal model of the
runtime: TLA+ modules translated from the code, TLC configurations that check
them on small instances, and TLAPS proofs of the main results for every
instance. Paths below are relative to `src/`.

Contents: 1. the system · 2. the modules and the code · 3. the runs · 4. bounds
· 5. fairness · 6. proofs · 7. where code and documentation disagree · 8. what
is not modelled · 9. plan · 10. running it.

## 1. The system

### Components

| component | code | state | operations |
|---|---|---|---|
| Search and Space | `smten-lib/Smten/Compiled/Smten/Search/Prim.hs` | none of its own; a `Space` is a pair of functions `runS`, `relS`, a run gives a formula, a symbolic element and a decision tree `DT` | `single`, `empty`, `union`, `bind`, `ite1`, `free_*`, `search` |
| Partial formulas | `smten-base/Smten/Runtime/Formula/PartialF.hs`, `BoolF.hs`, `IntegerF.hs`, `BitF.hs`, `Select.hs`, `StableNameEq.hs` | lazy, possibly infinite lists of levels; thunks that raise or never end | `itePF`, `itePF_`, `andPF`, `unaryPF`, `binaryPF`, `select` |
| Finite formulas | `smten-base/Smten/Runtime/Formula/Finite.hs` | DAGs; a cache reference in each node | smart constructors `andFF`, `orFF`, `notFF`, `iteFF`, ... |
| Build and its cache | `smten-lib/Smten/Runtime/Build.hs`, `smten-base/Smten/Runtime/BuildCache.hs` | one cache entry per node, the global `keySource`, a `VarMap` per call | `build`, `cached`, `newKey` |
| Fresh identifiers | `smten-base/Smten/Runtime/FreeID.hs` | the global `freshSource` | `fresh`, `withfresh` |
| Solver driver, model | `smten-lib/Smten/Runtime/Solver.hs`, `Model.hs`, `HashTable.hs`, `Result.hs` | the context of a call, the table of a model | `solverFromAST`, `model`, `lookup*` |
| SolverAST and adapters | `smten-lib/Smten/Runtime/SolverAST.hs`, `Bits.hs`, `Integers.hs` | `Bits`: the map from a bit vector's identifier to its booleans | declarations, bit-vector and integer operations by booleans, `getModel` |
| Solver `smten` (BDDs) | `smten-lib/Smten/Compiled/Smten/Search/Solver/Smten.hs` | a decision diagram | `orBDD`, `andBDD`, `lookupBDD` |
| Backend bindings | `.../Solver/{Z3,Yices2,STP,MiniSat,Yices1,Debug}.hs`, `Yices2/AST.hs`, `FFI.hs` | contexts of foreign libraries | one foreign call per operation |
| C shims | `smten-lib/Smten/Runtime/Yices2/y2.c`, `.../Z3/z3.c`, `smten-stp/Smten/Runtime/STP/stp.cc` | function pointers looked up once; STP's list of expressions to free | `y2_load`, `z3_load`, one function per library function |
| MiniSat gates | `smten-minisat/minisat.cc` | the solver, the names of variables | `minisat_and`, `_or`, `_ite`, `_assert`, `_check`, `_getvar` |
| MiniSat solver | `smten-minisat/minisat/core/Solver.cc`, `Solver.h`, `SolverTypes.h` | clauses, watchers, trail, limits | `newVar`, `addClause`, `simplify`, `solve` |
| MiniSat data structures | `minisat/mtl/Heap.h`, `Sort.h`, `Alloc.h` | decision heap, clause memory | `insert`, `removeMin`, `decrease`, `build`, `sort`, `alloc` |
| Symbolic `Int`, `Char`, `Integer`, `Bit` | `smten-base/Smten/Runtime/{IntFF,Int,Char,Integer,Bit}.hs` | maps from values to guards | arithmetic, comparisons, `ite` |
| Debug printing | `smten-base/Smten/Runtime/Debug.hs`, `Debug/` | sharing by stable names | `dbgShare` and the printers |
| Compiler plugin | `smten/Smten/Plugin/` | none | GHC core to Haskell text |
| Libraries | `smten-base/Smten/`, `smten-lib/Smten/{Data,Control,System}/` | none | base library copies, monad transformers, `Data.Map` |
| MiniSat outside the build | `minisat/simp/`, option and input readers | | not compiled |
| Tests, tutorials | `smten-lib/Smten/Tests/`, `tutorials/` | | |

### How they interact

`search` runs the computation with `runS`, which builds a partial formula with
the operations of PartialF and draws variables with `withfresh`. It takes the
formula apart level by level (`deBoolF`) and calls `solve` on the finite formula
of a level. `solve` makes a solver context, has `build` walk the DAG with the
caches, asserts, checks, reads the values of the variables in the VarMap and
frees the context. With a model, `search` calls `relS`, which walks the decision
tree of the first run with lookups in the model.

Components share three pieces of global mutable state: `keySource`,
`freshSource`, and the cache reference in every formula node. Laziness is the
callback mechanism: forcing a thunk while a query is built may draw identifiers,
raise or never return.

### What is hard

The runtime forks no threads; its hard behaviours come from elsewhere:

* *Laziness and partiality.* A formula may end in an error or an endless
  evaluation. `search` promises to find an element in front of either, so what
  is forced and when is part of its correctness. `select` catches the exception
  of one branch and approximates it.
* *Exceptions.* `System.Timeout`, Ctrl-C and failing solvers may interrupt
  anything between two steps. Nothing is bracketed: contexts, VarMaps and cache
  entries stay as they are and later calls start from there.
* *Caches that outlive calls.* A node is shared by queries to several contexts;
  its one entry may hold the expression of a context that no longer exists.
* *Threads of the linking program.* The sources of keys and identifiers use
  `atomicModifyIORef` and so are meant to be safe under threads, and Haskell
  programs that link the runtime may call it from several. The models let calls
  overlap; sequences of calls are the special case.
* *One name space* for the variables of the program and those `Bits` makes up.
* *Numbers.* Widths, order of bits, `maxBound` and `minBound`.
* *Handles.* The foreign calls of a backend make, count and free handles in an
  order the libraries insist on; a call may stop between any two of them, and
  STP's list of expressions and the loaded libraries outlive it.
* *The SAT solver.* The bundled MiniSat is an imperative program whose data
  structures refer to each other (watchers, reasons, the trail, positions in the
  heap) and are mended lazily.

### What makes each component correct

* Search: `Just` an element, `Nothing` only for the empty set, an error only if
  no assignment satisfies; it ends unless the formula never evaluates.
* Formulas: the formula of a computation means what the computation means under
  every assignment; levels decide less and less and the last one decides all.
* Build: an expression is used only in the context that made it; a call builds
  its own formula, declares each variable once, makes a shared node once, ends.
* Driver: no use of a context that is gone; none left by a call that returns;
  the model has exactly the user's variables and satisfies the query.
* Adapters, symbolic numbers, BDDs: agreement with arithmetic and truth tables.
* Gates: the clauses say what the expressions mean and forbid nothing else.
* SAT solver: "sat" comes with a model of all clauses, "unsat" only without one;
  learnt clauses follow from the others; every check is answered.
* C shims: no NULL pointer called, no dead handle passed, every function given the
  handles it reads, nothing left by a call that returns.

`PROJECT.json` lists the components with their status, and every hazard at the
line where it bites with the properties that would catch it.

## 2. The modules and the code

```
SearchSpec  <--refines--  Search  <--EXTENDS--  SpaceSearch  --EXTENDS-->  Space --EXTENDS--> Formula
Search, Formula --EXTENDS--> Assignments
SolveSpec   <--refines--  Solver                Build        Native
SatSpec     <--refines--  Cdcl --EXTENDS--> Luby
SatSpec     <--INSTANCE-- Gates
OrderSpec   <--refines--  Heap
Algorithms --INSTANCE--> Bits, IntFF, GuardedIntegers, Sort, Region        Bdd
SearchProofs, BuildProofs, GatesProofs, SolverProofs, NativeProofs EXTEND
  SpaceSearch, Build, Gates, Solver, Native
SearchProofs, SolverProofs --EXTENDS--> Recursion
CdclSound --EXTENDS--> CdclProofs --EXTENDS--> CdclInv --EXTENDS--> Cdcl
MCSearch, MCSpaceSearch, MCBuild, MCSolver, MCCdcl, MCGates, MCNative: instances for TLC
MCData EXTENDS Heap, Algorithms, Bdd
```

The chain of promises goes from the interface down to the SAT solver: SpaceSearch
relies on a solver that answers right, Solver shows that `solverFromAST` is one
if the walk and the library keep their word, Build does so for the walk, Gates
for the MiniSat binding over SatSpec, and Cdcl implements SatSpec.

**SearchSpec** is the promise of the interface (`smten-lib/Smten/Search/Prim.hs`):
a computation is a verdict for each assignment (holds, fails, undefined,
unreachable), and a call gives an element, gives Nothing if all verdicts are
negative, raises if nothing holds and something is undefined, or is cut short by
the solver or an exception.

**Search** is the loop of `search` (Prim.hs:114-128). `q` is the formula the
loop is at, `form` the one it started from. A partial formula is a sequence of
levels `[p, a]`, "if p then a else ...", and an end: `Unreachable_PartialF`, an
error, or an endless evaluation. A finite formula is the set of assignments that
satisfy it. `DeBoolF` is the pattern match that forces the next level,
`SolveFinite` and `SolveApprox` are the two queries (for an element; whether
anything is undecided), the latter with the rewritten Space the loop recurses
on. `SolverFails` may end either query, `Interrupted` the call at any time. The
refinement shows SearchSpec the result of a call whose formula is `WellFormed`
(it ends properly and its levels decide less and less), and no end of the others.

**Assignments** declares the assignments, which both Search and Formula are about.

**Formula** is Finite.hs, PartialF.hs, BoolF.hs and Select.hs as functions; the
arguments of the recursive ones come as a record (`Ite`, `Ite_`, `And`). Here
a finite formula has its constructor class besides its satisfying assignments,
because the smart constructors branch on it (an `andFF` of a formula that is
false everywhere is still "symbolic" to them). `selectPF` models what `select`
does with two thunks: waits for both, approximates the one that raised, raises
again if both did. The set `late` names the arguments during which a Timeout
fires; `same` says that two branches are one heap object, which `itePF` tests
with `stableNameEq`.

**Space** is `runS` and `relS` for `Space Bool` computations given as
expressions, and `Meaning`, the reference: what the computation is under given
choices, written without formulas. `Computation` is any set of such expressions
with their parts, and `Height` says that each is a finite term, so that the
functions are defined by recursion on it. A decision tree is the set of its
choices, each with the path to it. `Clear` says of a computation that no part of
it runs to `Unreachable_PartialF`, that no condition has one heap object for
both branches, and that a Timeout which fires is swallowed.

**SpaceSearch** puts them together: the formulas of Search are those that `runS`
makes, and the element is the one `relS` reads off the tree.

**Build** is Build.hs and BuildCache.hs. A call has a stack of activations of
`buildB`/`buildI`/`buildV`; every read and write of a cache, every declaration
and every return is a step of its own, so calls interleave between the read of
an entry (`Hit`, `Miss`) and its write (`Write`). An expression is its node and
the context it belongs to; `Apply`, which stands for every operation of a
solver, gives it only for arguments of that context and those nodes. `made` and
`alone` are history variables.

**SolveSpec** is the promise of `solve` (the comment in Solver.hs), and
**Solver** is `solverFromAST` with what it calls except the walk over the DAG:
contexts, the declaration of variables in the library or through `Bits`, the
identifiers both draw from `freshSource`, the check, and the model on its way
back from the library through `getBoolValueWithModel`, `valB`, and the lookups
of Model.hs. The walk is replaced by what Build promises: each variable is
declared once, in any order. The library is external: it returns any assignment
to what was declared that satisfies the query, may leave open a boolean that
does not matter, and may fail. `ValueOf`, through which the query reads the
library's booleans, uses `intB`, the direction in which `Bits` takes literals
apart; the model uses `valB`, the direction in which it puts values together.

**Gates** is minisat.cc. An expression is a literal, a gate makes a variable,
its clauses and the negated literal of the variable. The history variable
`meaning` keeps what each expression stands for, as the set of worlds (sets of
true names) in which it holds. `minisat_check` is what SatSpec promises. The
constants 0 and 1 of `toInt` are lbool's, by which `minisat_getvar` returns the
value of the variable, not of the literal.

**SatSpec** is the promise of the SAT solver, **Cdcl** is the solver. An action
is one turn of a loop or one piece of straight code: `propagate` takes the next
fact, `watcher` looks at one watcher, `analyze` resolves one literal,
`litRedundant` looks at one entry of its stack, `learn` jumps back and
attaches. `pc` says where the program is and `stack` to whom `propagate`
returns (`addClause`, `simplify`, `search`). Clauses are records in `ca` under
addresses, so that `garbageCollect` moves them and the references in `watches`,
`vardata` and the lists have to follow; `dirty` is the set of lists that
`removeClause` has smudged. Activities are left to Heap: `decide` takes any
unassigned variable of `order_heap`, and `reduceDB` removes any clauses its sort
and bound could. **Luby** is the restart sequence. **CdclInv** states the inductive
invariant of Cdcl in named parts; it adds nothing to the model.

**Heap** is Heap.h with its table of positions and the five places of Solver.cc
that use it, over **OrderSpec**, which has activities and no heap.

**Native** is y2.c, z3.c and stp.cc, driven by the call sequences of the
backends. A handle is a record of what it is and of the call that made it;
`live` are those the library knows, `held` those the call may still pass,
`counted` the Z3 solvers with a reference of their own. One foreign call is one
step, `Raise` may end the call before any. What a library frees with a context
is external, read off the calls the backends make. `fault` is the set of those
whose call went wrong: a backend, for a NULL pointer called or a dead handle
passed, or a function whose binding in `FFI.hs` has other parameters
(`Misbound`). Such a call is modelled by what the C function reads: the
checker for `stp_getBVLength`, which `blprim` calls before every operation that
has a width; for `stp_bvOrExpr` and `stp_bvAndExpr` the second operand as the
left one and as the right one any handle at all; for `z3_mk_app` a handle more
than it is passed. Being undefined, it may end the
program, or return an expression, which `gc` puts on the list.

**Bits** and **GuardedIntegers** are the operations of the adapters on values,
**IntFF** the symbolic `Int`, **Sort** and **Region** the sort and the memory of
the SAT solver's clauses. They are pure, so they are operators; under one fixed
assignment every formula is a boolean, as the operations are pointwise.
**Algorithms** calls each on every small input (an action per kind of call) and
states what must come back, against `Bit.hs`, integer arithmetic modulo 2^w, and
the definition of sorted. **Bdd** is Solver/Smten.hs: expressions are pairs of
diagrams, for the ways to be true and the ways to be false, and its state is
that of one solver. **MCData** puts Heap, Algorithms and Bdd, which share no
state, side by side in one run.

## 3. The runs

| run | states | question and answer |
|---|---|---|
| `search` | 91 thousand | Every formula of up to three levels over two kinds of assignments, with every end. `JustIsElement`, `NothingIsEmpty`, `ErrorOnlyIfNoElement`, `ErrorIsReal`, `NeverNoMatch` say what each outcome means for the formula the call *started* with; `Terminates`: it ends unless the tail never evaluates; `FindsElement`: an element in front of an error or an endless tail is found; `Promise`: also over three assignments, on formulas that end properly and whose levels decide less and less, the loop implements SearchSpec. |
| `space_search` | 44 thousand | 7331 computations with undefined and endless parts and swallowed Timeouts. `Faithful`: the formula means what the computation means; `Proper`: it is of the kind the loop relies on; `SolverSeesNoUnreachable`: no query has the constructor `build` has no case for; `JustRealizes`, `NothingHasNone`, `ErrorsAreFair`: the outcomes in terms of the computation. |
| `build` | 130 thousand | Three calls over a shared DAG, overlapping or cut short anywhere: `OwnExpressions`, `BuildsFormula`, `DeclaredOnce`, `VarsComplete`, `MadeOnce`, `Completes`. |
| `solver` | 95 thousand | Two calls on three kinds of backend: `IdsApart`, `ContextsRight` (a live context while a call uses it, none left by a call that returns), `ModelIsUsers`, and `Implements`: the calls refine SolveSpec. |
| `cdcl` | 225 thousand | Scripts of calls to the SAT solver, under every order of decisions and three settings of minimization and phases. `ReasonsOk`, `WatchesOk`, `PropagationComplete`: the data structures, also inside `propagate` and `analyze`; `Entailed`: all that was learnt or concluded follows; `Implements`: the solver refines SatSpec; `Answers`: every check is answered. |
| `gates` | 71 thousand | Every sequence of operations of minisat.cc on two names. `GatesSound`: expressions have their meaning in every assignment of the clauses; `GatesConservative`: the clauses exclude no world the assertions allow; `AnswerRight`: Sat, its values, and Unsat. |
| `native` | 974 thousand | Two calls over three backends, ending anywhere, libraries appearing between tries. `CallsAreSafe`: no call goes wrong but those of the misbound functions, and nothing held is dead; `EndsClean`: a call that returns leaves nothing, STP's list is what STP holds. |
| `data` | 373 thousand | `DecidesMostActive`: the heap refines OrderSpec; `NumbersRight`: Bits, Integers and IntFF compute numbers; `StorageRight`: the sort stays in its array and sorts, the memory makes room or says it cannot; `BddAnswerRight`: the built-in solver's answers. |
| `space_empty`, `space_shared`, `space_late`, `native_misbound` | | Refute statements of the documentation and the tests, see section 7. |

Every property of a passing run comes with a mutant in `PROJECT.json`: a change
to the code's definition, such as a plausible bug would make, under which TLC
finds the property violated. The type invariants of Search and Build are not run:
they are proved (`TypeCorrect`). The inductive invariants of section 6 were checked
as invariants of the same instances before they were proved; those of Cdcl
(`Structure`, `TwoWatched`, `Soundness`, `Answering`) on all 225 thousand states
of `cdcl`. They are not in the runs, where they would say nothing that the
theorems do not.

No run checks for deadlock except `data`, which never stops: elsewhere calls
end, and a model in which all have ended, or a bound is reached, has no next
state.

## 4. Bounds

* *Search*: up to three levels. The loop has no memory of levels but `q`; three
  levels have one that decides, one after it and one that is reached by a
  rewritten formula twice. Two kinds of assignments (`Twins` are one kind) tell a
  level that decides all from one that decides some; the well-formed formulas, of
  which the promise is, are over three. The invariants and
  the promise are proved for all.
* *SpaceSearch*: two identifiers (four assignments). The computations are
  binds of a leaf or choice with every body of one condition, and several shapes
  of two binds, each with leaves that are elements, empty, undefined or errors;
  only the shallow ones have an endless leaf. Two nested choices make partial
  formulas of several levels, which all paths of `itePF` and `andPF` need.
  Computations that look at the element of an empty computation are left out of
  the passing run (`Clear`); they are the finding `space_empty`. The six
  invariants are proved for computations of any size.
* *Build*: six nodes, with two shared nodes, two nodes of one variable and a
  literal; three calls, two of which overlap in most of the DAG.
* *Solver*: a boolean and a vector of two bits (the least that has an order),
  two calls, queries that are valid, unsatisfiable, have one model, several, or
  models in which the boolean may be left open. Backends: bit vectors native
  with a cleanup that ends the library (Yices2), split by `Bits` (MiniSat,
  smten), native otherwise (Z3, STP, Yices1). The last two lines stand for more
  code than they show: a backend here is only what its life cycle and its
  variables do. The three invariants are proved for any number of calls,
  variables and bits.
* *Cdcl*: the scripts of MCCdcl, each for a case: all eight clauses over three
  variables (unsatisfiable by several conflicts), a chain and a wide clause for
  the two minimizations, clauses to forget and collect, a search that starts
  over, repeated and opposite literals and clauses added between checks. `LevelBits` is 2 for 32, so that
  abstract levels collide; `restart_first` is 1, the learnt limit and the
  garbage fraction 1/8, so that restarts, `reduceDB` and collections happen.
  `MaxRestarts` stands for the growth of the Luby intervals: after that many a
  search runs to its end, as an interval longer than the search does. So `Answers`
  says that the loop of `search` gets to an answer, with the restarts there are,
  and not that the intervals and the limit of learnt clauses grow. Everything but `Answers` is proved for all clauses, calls and parameters.
* *Gates*: two names, three variables, two assertions: a gate over a gate, with
  the same name or the constant on any side. Proved for all.
* *Native*: two calls, the second starting in what the first left; four terms,
  enough for a comparison of two and a value; one call for `native_misbound`. Proved
  for any number of both.
* *Algorithms*: bit vectors of width 0 to 3; `Int`s of two bits, where every
  `x + 1` and `y - 1` reaches an end of the range; arrays to six elements with a
  selection sort up to two (15 in the code), so that partitions nest; sizes of
  8 bits for 32 and a first capacity of 4 words. That `capacity` notices an
  overflow depends on what it has to reach being close to what it had, which is
  so for a clause of `MaxSize` 5 as for any clause in the code. `alloc` has a test
  of its own for `sz + size` wrapping, which no input here reaches: `capacity`
  raises first, as the largest capacity is 80 words short of 2^8. In the code it is
  14.7 million short of 2^32, so that a clause of as many words is what the test
  is for.
* *Heap*: four variables for a third level, activities 0 to 2 for ties, strict
  order and a rescaling that rounds to equal. Five variables exceed TLC's time.
* *Bdd*: three variables, five expressions, two assertions per call.

The counters `keySource` and `freshSource` are unbounded `Integer`s in the code
and in the model; what bounds them in TLC is that each call starts once and each
variable is forced once.

## 5. Fairness

`Search`: weak fairness of the loop's own steps: the thread that called `search`
runs, and `solve` returns or raises. An endless evaluation is not a step, so
nothing is assumed to get past it. `Build`: weak fairness of the steps of each
call: its thread is scheduled and the solver's operations return. No step that
starts a call or interrupts one is fair. `Solver`, `Native` and the others are
checked for safety only and assume none. `Cdcl`: weak fairness of the whole next-state
relation: it is a sequential program, which keeps running as long as it has a
next instruction. No choice is fair: `Answers` holds for every order of
decisions and every choice of clauses to forget.

## 6. Proofs

`SearchProofs`, `BuildProofs`, `GatesProofs`, `SolverProofs` (with `Recursion`),
`NativeProofs`, `CdclProofs` and `CdclSound` are checked by TLAPS. Their only
assumptions say what the constants are, and TLC evaluates them in the runs:

* `SearchAssumption`, `GatesAssumption`, `SolverAssumption`, `NativeAssumption`
  and, of Build, `BuildAssumption` and `NoExprAssumption`: the types of the
  constants and values that are apart.
* `SpaceAssumption`: a computation is a leaf or has its parts among the
  computations, with less height: it is a finite expression. (A program that
  recurses for ever is a leaf "hang".) `SpaceSearchAssumption`: there are
  identifiers enough, and the formulas of Search are those of the computations.
* `AcyclicAssumption` (Build): a formula is not part of itself. The constructors
  of Finite.hs are applied to formulas that exist, and the recursion of `build`
  would not end otherwise.
* `CdclAssumption`: the options have one of their three values and the limits are
  positive, as the ranges of the options in Solver.cc:36-46 require.

**SearchProofs**, the loop, for every set of assignments and formulas of any
length: `TypeCorrect`; `Invariance`; from it `JustIsElementThm`, `NothingIsEmptyThm`,
`ErrorOnlyIfNoElementThm`, `NeverNoMatchThm`, `ErrorIsRealThm`; and `Refinement`:
`Spec` implements SearchSpec, to which it shows the calls on `WellFormed` formulas. The properties
speak of `form` while the loop looks at `q`, so they are not inductive. `IInv`
adds the relation of the two: `q`'s levels are the last ones of `form`, with
everything the levels passed decided taken out of their values (`Remaining`);
no level passed decided everything (`NotTotal`); what was passed is false, and
in `approx` what the current level decides is false too, and whatever a level
passed decides was decided by a first one (`Progress`, with `Refuted` and
`HasFirst`: the loop's own steps supply the induction over levels). Lemma
`QueryMeans` then gives that a model of the rewritten query is one that `form`
decides true at this level, and `FirstNext`, `RefuteNext` carry the facts over a
level.

**SearchProofs**, the whole of `search`, for any number of identifiers and
computations of any size: `FaithfulThm`, `ProperThm`,
`SolverSeesNoUnreachableThm`, `JustRealizesThm`, `NothingHasNoneThm`,
`ErrorsAreFairThm`, and `SpaceKeepsPromise`: where no Timeout fires, `SpaceSpec`
implements SearchSpec and shows the result of every call. They hold under `AllClear`: each computation searched is
`Clear`. This is the set the run `space_search` checks, and the three findings
of section 7 about formulas are what happens outside of it, so it cannot be
dropped; the theorems show that inside it nothing of this kind goes wrong.

The argument goes from the formulas to the runs to the loop. In it `Says(f, m)`
is what the loop sees of formula `f` under assignment `m`, and `Tells(f, m, d)`
that this is `d`, unless `f` never ends.

1. *The functions exist.* A recursive function is, to the provers, any solution of
   its equation, if there is one; `Recursion` gives one (`IteEquation_`,
   `IteEquation`, `AndEquation`, by the lengths of the formulas; `runSEquation`
   and its like, by `Height`).
2. *The operations of PartialF.hs* (`IteIs_`, `IteIs`, `AndIs`), by induction on
   the levels. To be inductive the claim has five parts: the levels are proper
   (`FFsOk`: no guard is `Unreachable_BoolFF`, and no value but behind FalseFF),
   the end is behind a level that decides everything (`EndsCovered`), the result
   is `Unreachable_PartialF` only if the arguments are, it tells what the branch
   taken tells, and it decides no more than its arguments (`Narrows`, `Cover`).
   That the result of `andPF` is not yet decided where its first argument fails
   and its second is undefined is why `Faithful` allows "undefined" for "none".
3. *A run agrees with its computation* (`RunGoodAll`), by induction on the parts,
   for every environment that tells an element and every next identifier; `relS`
   by the same induction over the tree (`RelMeansAll`).
4. *The loop.* `SpaceSpec` is `Spec` with two variables that stay
   (`SpaceIsSearch`, `RunStays`), so `Invariance` holds; with `FormulaFacts` what
   the loop says of the formula becomes what `search` says of the computation.

**BuildProofs**, for every DAG, any number of calls, overlapping or interrupted:
`TypeCorrect`, `Invariance`, `OwnExpressionsThm`, `BuildsFormulaThm`,
`DeclaredOnceThm`. That no foreign expression is used depends on who may have
written an entry, so `IInv` says that keys of different calls are different and
no larger than `keySource` (`Keys`), that an entry with the key of a call has
that call's expression of that node (`Owned`), that a stack is a path of the
formula, each activation holding the expressions of its own arguments
(`Stacks`), and that what was declared is what the VarMap has (`VarMap`). Key 0,
that of the empty entry, is no call's key because `keySource` starts at 1.

`VarsCompleteThm` and `MadeOnceThm` speak of all nodes below the root, and rest on
`CoverageThm`: the nodes a call has made, with the constants, are closed under
arguments, since a node is made after its arguments; each activation lies
strictly below the ones that wait for it; and while a call runs alone its own
entries say exactly what it has made. That a node made twice would be below
itself, which `AcyclicAssumption` excludes, gives the second theorem. The nodes
below a node are defined as the least closed set, not by recursion, so that no
induction over the DAG is needed.

**GatesProofs**, for any set of names and any number of gates: `GatesAreSound`,
`GatesExcludeNothing` and `AnswersAreRight`. The clauses of a gate are inspected
case by case; the rest is that a new variable disturbs no earlier gate, that
each world has its *one* assignment of the gates' variables, and that clauses
over old variables do not see a new one. The invariant
`GatesInv` adds to the properties that literals are of variables that exist
(`LiteralsOk`) and what the last answer was read from (`AnswerOk`).

**SolverProofs**, for any number of calls, variables and bits: `ContextsRightThm`,
`IdsApartThm`, `ModelIsUsersThm`. `IdsApart` compares identifiers in use, and
nothing in it says that the next one is new: `IInv` adds that whatever was drawn,
for a variable, for the bits in a call's table or for the bits it is drawing, is at
most `freshSource` and drawn once (`VarIds`, `DrawnIds`, `BitIds`). For the
contexts it adds that where a cleanup ends the library no other call is in
progress (`Alone`), and for the model what a call has declared (`Declarations`).

`ImplementsThm`: the driver implements SolveSpec. `Meaning` (`MeaningThm`) is
inductive with `IInv`: the library was told of each variable of the query under its
identifier, or of as many booleans as it has bits (`Told`); what it found, whatever
it left open, satisfies the query (`Found`); and what the program reads in an
answer is a solution, or there is none (`Answered`). That nothing is answered
rightly needs an assignment of the booleans for each solution of the query
(`NothingRight`); that the model is right, a solution for each assignment
(`ModelRight`). Both read a number as its bits: `OfNumber` and `OfBooleans` say
that `intB` and `valB` are inverse to each other. A variable forced after the
answer draws an identifier the model does not have, so an answer stays what it
was (`SameShown`).

**Recursion**: `intB`, `valB` and `power2` are recursive functions. The library's
theorems about recursion and induction take operators, which the provers cannot
instantiate; `Recursion` and `RankInduction` say the same of sets and functions,
from the least element of a set of numbers: a definition whose right side looks
only at arguments of less rank has a solution, and a set that has an argument
when it has all of less rank has them all.

**NativeProofs**, for any number of calls and terms, each call cut short anywhere:
`CallsAreSafeThm`, `EndsCleanThm`. A call that is cut short leaves handles behind,
so `IInv` tells the call in progress apart from the earlier ones: what is alive
and of this call it still holds, nothing alive is of a later call or one that
returned (`HandlesOk`); the list of `stp.cc` has each expression alive once, with
its checker alive (`ListOk`); and each place of a backend has the handles that
it means its next foreign call to pass, and for Z3 a solver with a reference and,
at the end, no configuration or solver left (`Flow`). The misbound functions
are in the model as the code calls them, so the first theorem says that
no *other* call goes wrong, and the second that the list is right whatever
operands they were given.

**CdclProofs**, **CdclSound**, for any clauses, any sequence of
calls, every order of decisions and all settings. The four properties of the run
`cdcl` and the refinement follow from four invariants, each inductive with the
ones before it.

* `Structure` (`StructureThm`) is what the data structures rely on in the middle
  of their repairs. `ReasonsOk` and `WatchesOk` are parts of it, but `propagate`
  rewrites the very list it reads, so the watch lists are described as they will
  be when the loop is done (`Lists`: what it has kept, then what it has not looked
  at); and that the invariant survives a turn of `analyze` needs what the
  analysis counts (`Analysis`: `pathC` is the number of marked facts of the
  current level not yet passed, so that the scan down the trail never leaves it)
  and what minimization has kept (`Minimization`). A reason is a clause whose other literals
  are false by facts *earlier on the trail* (`Reasoned`); this is what survives
  `garbageCollect`, which renames every clause (`WatchesRename`), and a jump back,
  which cuts the trail (`ReasonedCancel`). One lemma per action; the consequences
  are `ReasonsThm` and `WatchesThm`.
* `TwoWatched` (`TwoWatchedThm`) is the invariant MiniSat is named after: a
  watched literal that is false has been made good by a literal true at its
  level or below, unless it is still to be looked at (`Due`: in the queue, or in
  the rest of the list in work). The level matters: a jump back must not undo
  the true literal and leave the false one. With it `PropagationCompleteThm`:
  where the solver goes on after `propagate`, no clause is false and none has a
  single literal left.
* `Soundness` (`SoundnessThm`): under every assignment that satisfies what was
  added, the clauses and the facts of level 0 hold, the clause being resolved is a
  consequence (`Resolvent`), and each literal `litRedundant` has marked is
  explained by others that are marked or stay (`Redundancy`; the marks it makes for the literal it is at
  are `Tentative` until it has succeeded). That the minimized clause follows is by the
  earliest marked fact that would not hold (`MarkedHold`). `EntailedThm`.
* `Answering` (`AnsweringThm`): whatever was added is represented by a clause of the
  program, true for good, or a tautology (`Adds`); clauses learnt are none of the
  program's, so that `reduceDB` takes only those (`Apart`); no unassigned
  variable is missing from the heap (`Heap`).

`ImplementsThm`: the solver implements SatSpec under the mapping that shows a
caller the model of the last answer. When nothing is left to decide, every
variable has a value, and a clause added that it did not satisfy would be false,
which `TwoWatched` excludes; "unsat" is said in a conflict at level 0, where
`Soundness` leaves no assignment.

Only model-checked:

* liveness (`Terminates`, `FindsElement`, `Completes`, `Answers`): the
  prover does not handle fairness and ENABLED;
* Bits, IntFF, GuardedIntegers, Sort, Region, Bdd and Heap: their RECURSIVE
  operators are beyond the provers.

## 7. Where code and documentation disagree

Four runs show a statement in the repository that the code does not keep; they
are `findings` in `PROJECT.json`, with quotations.

* `space_empty`: for `empty >>= \v -> if v then .. else ..`, `search` fails a
  pattern match instead of returning Nothing. `andPF` yields
  `Unreachable_PartialF` when the second formula is unreachable and the first
  one's *guard* is True (PartialF.hs:94); its comment speaks of the first
  formula itself, here False.
* `space_shared`: "if _|_ then x else x is _|_, not x" says the comment of
  `itePF` (PartialF.hs:98-100), which looks at pointer equality of the branches
  before it looks at what is undefined in the condition.
* `space_late`: `select` is documented to catch synchronous exceptions only,
  but that of `System.Timeout` is no `AsyncException` and is caught. The level
  approximated then decides less than the one behind it, and `search`, which
  tests the guard of the current level only, goes on into an error that no
  assignment reaches.
* `native_misbound`: `FFI.hs:136-140` binds `stp_bvOrExpr` and `stp_bvAndExpr` with three
  parameters, `stp.cc:187-197` defines them with four (the second is `n_bits`);
  `FFI.hs:169-170` binds `stp_getBVLength` with a checker and an expression,
  `stp.cc:253-257` takes the expression only. The bit-vector operations of the
  backend (STP.hs:161-173) go through one or the other but for `concat`, and the
  tests that are said to pass with STP (`SMT.Bit.Add`, `SMT.Bit.And`) need them.
  `z3_mk_app` has a fifth parameter (z3.c:25, 145) that its binding
  (`Z3/FFI.hs:73-74`) does not pass; z3.c hands it on to the library. If the compiled shims leave
  the argument registers as they are, and the libraries have parameters other
  than `stp.cc` and `z3.c` declare, the calls may still do what is meant; nothing in the
  repository says so.

Met while reading, about comments and declarations, not shown by a run:

* `minisat/core/Solver.h:129` gives 1.5 as the default of `restart_inc`; the
  option's default is 2. Solver.h:131 says `learntsize_inc` applies "each
  restart"; it does at every adjustment of a count of conflicts of its own.
* The comments above `y2_load` and `z3_load` (y2.c:60, z3.c:73) promise "non-zero
  if there is some sort of error"; the results of `dlsym` are not looked at.
  Native assumes a library that is found to have all its functions. y2.c:127, 128
  and 164 end functions with a result without `return`.

Met while reading, about behaviour: `empty >> error ..` raises, since
`select` in `andPF` evaluates the second formula (`Faithful` allows it: the
formula is undefined there); a branch that never ends blocks `select`, as its TODO says
(Select.hs:12-15), hence the exemption of `hang` in `Faithful` and `Terminates`.

## 8. What is not modelled, and why

* Elements other than Bool, `fmap`, `free_Integer`, `free_Bit`, `binaryPF` and
  the integer and bit formulas: the same recursion over other leaves.
* Duplicated `withfresh` thunks (`unsafeDupablePerformIO`): only threads of the
  linking program can bring them about, and which copy the update keeps is GHC's
  affair. Build has two nodes of one variable, which is one of the effects.
* `select` on a branch that never ends: the exemption in `Faithful`.
* `quot minBound (-1)` of symbolic Ints: the machine's outcome is undefined, the
  inputs leave it out. `mul`, division and shifts of `Bits`, free integers of
  `Integers`: errors in the code.
* In the SAT solver what minisat.cc does not use: assumptions and
  `analyzeFinal`, budgets, interrupts, random decisions (the frequency is 0),
  `toDimacs`, progress estimates, statistics; the schedule by which the limits
  grow. In the heap `update`, `increase` and `clear`, which have no caller. The
  preprocessor (`simp/`), the option parser, the readers and `Main`:
  smten-minisat.cabal compiles minisat.cc and core/Solver.cc only.
* Foreign calls of two threads at once: the head of stp.cc (9-12) asks for one
  user, and a foreign call of these bindings blocks the runtime that makes it.
* Numbers on their way through the foreign interface (`fromInteger` to int64).
* Calls of Yices2 that overlap: its cleanup calls `yices_exit`, which ends every
  context of the process. The guard of `Make` keeps them apart; nothing in
  Solver.hs:36 does, so for a program that overlaps them on threads of its own
  `ContextsRight` and the theorems about Solver say nothing. A context left by an
  interrupted call is in the model, and dies with the next cleanup.
* The libraries Yices, Z3 and STP: external, by what the bindings rely on.
* The memory a leaked context takes, the speed of anything, stack depth.
* `HashTable.hs` and the tables of `base` are functions.
* Debug printing, the plugin's translation, the copies of `base`: output, or a
  compiler out of reach of a model checker.

## 9. Plan

Done, in this order: SearchSpec and Search; their proofs; Formula, Space,
SpaceSearch; Build and its proofs; SolveSpec and Solver; SatSpec and Cdcl; Gates
and its proofs; Native; the proofs of Solver and Native; Heap over OrderSpec; the
pure algorithms; Bdd; the coverage of Build; the proofs of Cdcl, up to its
refinement of SatSpec; the refinement of SolveSpec by Solver; the proofs of
Formula, Space and SpaceSearch.

What could follow:

1. *Formula* and *Space*: `binaryPF`, integer elements, `fmap`, `free_*`.
2. Proofs about the modules with RECURSIVE operators, which would become
   recursive functions first, as Formula and Space did.
3. The representation of data types by the plugin; `Data.Map`.

## 10. Running it

    tlc -config MCSearch.cfg MCSearch
    tlc -config MCSpaceSearch.cfg MCSpaceSearch          # half a minute
    tlc -config MCSpaceSearchEmpty.cfg MCSpaceSearch     # violation expected
    tlc -config MCSpaceSearchShared.cfg MCSpaceSearch    # violation expected
    tlc -config MCSpaceSearchLate.cfg MCSpaceSearch      # violation expected
    tlc -config MCBuild.cfg MCBuild
    tlc -config MCSolver.cfg MCSolver
    tlc -config MCCdcl.cfg MCCdcl
    tlc -config MCGates.cfg MCGates
    tlc -config MCNative.cfg MCNative                    # half a minute
    tlc -config MCNativeMisbound.cfg MCNative            # violation expected
    tlc -config MCData.cfg MCData
    tlapm SearchProofs.tla                               # minutes
    tlapm BuildProofs.tla
    tlapm GatesProofs.tla
    tlapm Recursion.tla
    tlapm SolverProofs.tla
    tlapm NativeProofs.tla
    tlapm CdclProofs.tla                                 # minutes
    tlapm CdclSound.tla                                  # minutes

The modules use the standard modules, the community modules `SequencesExt`,
`FiniteSetsExt` and `Bitwise`, and `TLAPS`,
`FiniteSetTheorems` and `WellFoundedInduction` for the proofs.
