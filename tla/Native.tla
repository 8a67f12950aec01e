------------------------------- MODULE Native -------------------------------
(***************************************************************************)
(* The native side of the solver backends: y2.c and z3.c, which look up a  *)
(* library's functions the first time a solver is made, and stp.cc, which  *)
(* keeps a list of the expressions it has to delete.  A call of solve      *)
(* (module Solver) is here the sequence of foreign calls its backend       *)
(* makes; between any two of them an exception may end it, and nothing is  *)
(* undone then: what it made is still there when the next call begins.     *)
(*                                                                         *)
(* One foreign call is one step.  Only one call is in progress at a time,  *)
(* as the head of stp.cc asks for.  A handle is a record of what it is     *)
(* and of the call it was made in; `live' are those the library still      *)
(* knows.  What the libraries free by themselves is external: it is read   *)
(* off the way the backends use them.                                      *)
(*                                                                         *)
(* Four functions have other parameters than their bindings in FFI.hs: to  *)
(* stp_bvOrExpr and stp_bvAndExpr, which read four, three are passed, to   *)
(* z3_mk_app, which reads five, four, and stp_getBVLength is passed the    *)
(* checker where it reads an expression.  What such a call does is         *)
(* undefined: the program may end there (no step is ever promised), or an  *)
(* expression comes back.                                                  *)
(***************************************************************************)
EXTENDS Naturals, Sequences, FiniteSets, SequencesExt

CONSTANTS
  MaxCalls,  \* bound: calls of solve
  MaxTerms   \* bound: types, declarations and terms made in a call

ASSUME NativeAssumption == MaxCalls \in Nat /\ MaxTerms \in Nat

Libraries == {"yices2", "z3"}
Backends == Libraries \cup {"stp"}

VARIABLES
  installed,   \* the libraries dlopen finds
  y2_f, z3_f,  \* whether the function pointers are set: NULL before
  running,     \* between yices_init and yices_exit
  live,        \* the handles the libraries know
  counted,     \* those with a reference of their own (z3_solver_inc_ref)
  freelist,    \* stp.cc: the expressions to delete, newest first
  backend, call, pc,  \* the call in progress
  held,        \* the handles it may pass
  made,        \* how many terms it has made
  returned,    \* the calls that returned a result
  fault        \* whose calls went wrong: a backend's, or a misbound function's

vars == <<installed, y2_f, z3_f, running, live, counted, freelist,
          backend, call, pc, held, made, returned, fault>>
libraries == <<installed, y2_f, z3_f, running>>
calls == <<backend, call, returned>>

Handle(kind, n) == [lib |-> backend, call |-> call, kind |-> kind, n |-> n]
Config == Handle("config", 0)
Context == Handle("context", 0)
Solver == Handle("solver", 0)
Model == Handle("model", 0)
Held(kind) == {h \in held : h.kind = kind}

Init ==
  /\ installed = {}
  /\ y2_f = FALSE /\ z3_f = FALSE /\ running = FALSE
  /\ live = {} /\ counted = {} /\ freelist = <<>>
  /\ backend = "stp" /\ call = 0 /\ pc = "idle" /\ held = {} /\ made = 0
  /\ returned = {} /\ fault = {}

-----------------------------------------------------------------------------
(***************************************************************************)
(* A foreign call goes wrong if the pointer is NULL, or the library has    *)
(* been left, or a handle passed is dead; one of a misbound function also  *)
(* if the other handles it reads are not those meant.                      *)
(***************************************************************************)
Wrong(caller, right) == IF right THEN {} ELSE {caller}
Passes(ready, handles) == fault' = fault \cup Wrong(backend, ready /\ handles \subseteq live)

Misbound == {"stp_bvOrExpr, stp_bvAndExpr", "stp_getBVLength", "z3_mk_app"}
Misreads(function, ready, handles, read, meant) ==
  fault' = fault \cup Wrong(backend, ready /\ handles \subseteq live)
                 \cup Wrong(function, read = meant)

\* What a register holds that nothing was put into: some handle, or none.
Registers == live \cup {Handle("none", 0)}

Goto(p, q) == pc = p /\ pc' = q

Makes(h) == live' = live \cup {h} /\ held' = held \cup {h}
Frees(h) == live' = live \ {h} /\ held' = held \ {h}

\* A new type, declaration or term, the next one made.
New(kind) == Handle(kind, made + 1)
MakesTerm(kind) == made < MaxTerms /\ made' = made + 1 /\ Makes(New(kind))

Returns(p) ==
  /\ Goto(p, "idle")
  /\ returned' = returned \cup {call}
  /\ held' = {}

-----------------------------------------------------------------------------
(***************************************************************************)
(* A call begins, whatever became of the one before.  A library that was   *)
(* not there may have been installed meanwhile.                            *)
(***************************************************************************)
Start(b) ==
  /\ call < MaxCalls
  /\ Goto("idle", IF b \in Libraries THEN "load" ELSE "create")
  /\ backend' = b /\ call' = call + 1 /\ made' = 0 /\ held' = {}
  /\ UNCHANGED <<libraries, live, counted, freelist, returned, fault>>

Install(l) ==
  /\ pc = "idle" /\ l \notin installed
  /\ installed' = installed \cup {l}
  /\ UNCHANGED <<y2_f, z3_f, running, live, counted, freelist, calls, pc, held, made, fault>>

(***************************************************************************)
(* An exception: of the library, of the formula, or asynchronous.          *)
(***************************************************************************)
Raise ==
  /\ pc # "idle" /\ pc' = "idle" /\ held' = {}
  /\ UNCHANGED <<libraries, live, counted, freelist, calls, made, fault>>

-----------------------------------------------------------------------------
(***************************************************************************)
(* y2.c.  y2_load leaves the pointers alone when they are set; when the    *)
(* library is not found the backend raises an error.                       *)
(***************************************************************************)
y2_load ==
  /\ backend = "yices2"
  /\ y2_f' = (y2_f \/ "yices2" \in installed)
  /\ IF y2_f' THEN Goto("load", "init") ELSE Goto("load", "idle")
  /\ UNCHANGED <<installed, z3_f, running, live, counted, freelist, calls, held, made, fault>>

y2_init ==
  /\ Goto("init", "context")
  /\ Passes(y2_f, {}) /\ running' = TRUE
  /\ UNCHANGED <<installed, y2_f, z3_f, live, counted, freelist, calls, held, made>>

Y2Call(handles) ==
  /\ backend = "yices2" /\ Passes(y2_f /\ running, handles)
  /\ UNCHANGED <<libraries, counted, freelist, calls>>

y2_new_context == Goto("context", "build") /\ Y2Call({}) /\ Makes(Context) /\ UNCHANGED made

y2_term(args) ==
  /\ pc = "build" /\ Y2Call(args) /\ MakesTerm("term")
  /\ UNCHANGED pc

y2_assert_formula(e) ==
  Goto("build", "check") /\ Y2Call({Context, e}) /\ UNCHANGED <<live, held, made>>

y2_check_context ==
  /\ Goto("check", "model") \/ Goto("check", "cleanup")
  /\ Y2Call({Context}) /\ UNCHANGED <<live, held, made>>

y2_get_model == Goto("model", "values") /\ Y2Call({Context}) /\ Makes(Model) /\ UNCHANGED made

y2_get_value(e) ==
  pc = "values" /\ Y2Call({Model, e}) /\ UNCHANGED <<pc, live, held, made>>

y2_free_model == Goto("values", "cleanup") /\ Y2Call({Model}) /\ Frees(Model) /\ UNCHANGED made

y2_free_context == Goto("cleanup", "exit") /\ Y2Call({Context}) /\ Frees(Context) /\ UNCHANGED made

(***************************************************************************)
(* yices_exit: everything made since yices_init is gone.                   *)
(***************************************************************************)
y2_exit ==
  /\ backend = "yices2" /\ Returns("exit") /\ Passes(y2_f /\ running, {})
  /\ running' = FALSE
  /\ live' = {h \in live : h.lib # "yices2"}
  /\ UNCHANGED <<installed, y2_f, z3_f, counted, freelist, backend, call, made>>

-----------------------------------------------------------------------------
(***************************************************************************)
(* z3.c and the backend that makes a context by way of a configuration.    *)
(***************************************************************************)
z3_load ==
  /\ backend = "z3"
  /\ z3_f' = (z3_f \/ "z3" \in installed)
  /\ IF z3_f' THEN Goto("load", "config") ELSE Goto("load", "idle")
  /\ UNCHANGED <<installed, y2_f, running, live, counted, freelist, calls, held, made, fault>>

Z3Call(handles) ==
  /\ backend = "z3" /\ Passes(z3_f, handles)
  /\ UNCHANGED <<libraries, freelist, calls>>

z3_mk_config == Goto("config", "context") /\ Z3Call({}) /\ Makes(Config) /\ UNCHANGED <<counted, made>>

z3_mk_context ==
  Goto("context", "solver") /\ Z3Call({Config}) /\ Makes(Context) /\ UNCHANGED <<counted, made>>

z3_mk_solver ==
  Goto("solver", "inc_ref") /\ Z3Call({Context}) /\ Makes(Solver) /\ UNCHANGED <<counted, made>>

z3_solver_inc_ref ==
  /\ Goto("inc_ref", "del_config") /\ Z3Call({Context, Solver})
  /\ counted' = counted \cup {Solver}
  /\ UNCHANGED <<live, held, made>>

z3_del_config ==
  Goto("del_config", "build") /\ Z3Call({Config}) /\ Frees(Config) /\ UNCHANGED <<counted, made>>

z3_declare ==
  /\ pc = "build" /\ Z3Call({Context}) /\ MakesTerm("decl")
  /\ UNCHANGED <<pc, counted>>

z3_term(args) ==
  /\ pc = "build" /\ Z3Call({Context} \cup args) /\ MakesTerm("term")
  /\ UNCHANGED <<pc, counted>>

\* The constant of a declaration: a handle that is not passed is handed on.
z3_mk_app(d, e) ==
  /\ pc = "build" /\ backend = "z3" /\ MakesTerm("term")
  /\ Misreads("z3_mk_app", z3_f, {Context, d}, <<e>>, <<>>)
  /\ UNCHANGED <<libraries, freelist, calls, pc, counted>>

z3_solver_assert(e) ==
  Goto("build", "check") /\ Z3Call({Context, Solver, e}) /\ UNCHANGED <<live, held, counted, made>>

z3_solver_check ==
  /\ Goto("check", "model") \/ Goto("check", "cleanup")
  /\ Z3Call({Context, Solver}) /\ UNCHANGED <<live, held, counted, made>>

(***************************************************************************)
(* A model, like a solver, is kept by the context only until the next such *)
(* object is made, unless it has a reference of its own.                   *)
(***************************************************************************)
z3_solver_get_model ==
  /\ Goto("model", "values") /\ Z3Call({Context, Solver})
  /\ live' = (live \ ({Solver} \ counted)) \cup {Model} /\ held' = held \cup {Model}
  /\ UNCHANGED <<counted, made>>

z3_model_eval(d) ==
  /\ pc = "values" /\ Z3Call({Context, Model, d}) /\ MakesTerm("value")
  /\ UNCHANGED <<pc, counted>>

z3_get_value(v) ==
  pc = "values" /\ Z3Call({Context, v}) /\ UNCHANGED <<pc, live, held, counted, made>>

z3_solver_dec_ref ==
  /\ Goto("values", "del") \/ Goto("cleanup", "del")
  /\ Z3Call({Context, Solver}) /\ Frees(Solver)
  /\ counted' = counted \ {Solver}
  /\ UNCHANGED made

(***************************************************************************)
(* Z3_del_context: what was made in the context goes with it.              *)
(***************************************************************************)
z3_del_context ==
  /\ backend = "z3" /\ Returns("del") /\ Passes(z3_f, {Context})
  /\ live' = {h \in live : h.call # call \/ h.kind \in {"config", "solver"}}
  /\ UNCHANGED <<libraries, counted, freelist, backend, call, made>>

-----------------------------------------------------------------------------
(***************************************************************************)
(* stp.cc.  Every expression STP returns is put on the list, wherever it   *)
(* comes from; types are STP's own to free.                                *)
(***************************************************************************)
gc(e) == freelist' = <<e>> \o freelist

StpCall(handles) == /\ backend = "stp" /\ Passes(TRUE, handles)
                /\ UNCHANGED <<libraries, counted, calls>>

stp_createValidityChecker ==
  Goto("create", "build") /\ StpCall({}) /\ Makes(Context) /\ UNCHANGED <<freelist, made>>

\* Mutant of stp_type: the type is put on the list as well.
stp_type_gc ==
  pc = "build" /\ StpCall({Context}) /\ MakesTerm("type") /\ gc(New("type")) /\ UNCHANGED pc

stp_type ==
  pc = "build" /\ StpCall({Context}) /\ MakesTerm("type") /\ UNCHANGED <<pc, freelist>>

StpMakes(kind) == MakesTerm(kind) /\ gc(New(kind))

stp_varExpr(type) ==
  pc = "build" /\ StpCall({Context, type}) /\ StpMakes("term") /\ UNCHANGED pc

MakesExpr(p, args) == Goto(p, "build") /\ StpCall({Context} \cup args) /\ StpMakes("term")
stp_boolExpr(args) == MakesExpr("build", args)
stp_bvNotExpr(e) == MakesExpr("build", {e})
stp_bvExpr(args) == Cardinality(args) \in 1 .. 2 /\ MakesExpr("build", args)
stp_bvConst == MakesExpr("build", {})
stp_bvCompare(l, r) == MakesExpr("build", {l, r})

(***************************************************************************)
(* The or and the and of two vectors: the first one is read as n_bits, the *)
(* second as left, and right is what its register holds, a handle or none. *)
(* Of what is read the handles are compared, not the number n_bits.        *)
(***************************************************************************)
stp_bvOrAndExpr(l, r, right) ==
  /\ Goto("build", "build") /\ backend = "stp" /\ StpMakes("term")
  /\ Misreads("stp_bvOrExpr, stp_bvAndExpr", TRUE, {Context}, <<r, right>>, <<l, r>>)
  /\ UNCHANGED <<libraries, counted, calls>>

(***************************************************************************)
(* Arithmetic and shifts (blprim of the backend): the width is asked of    *)
(* the checker in place of the first operand, and passed on.               *)
(***************************************************************************)
stp_getBVLength(l) ==
  /\ Goto("build", "operands") /\ backend = "stp"
  /\ Misreads("stp_getBVLength", TRUE, {}, Context, l)
  /\ UNCHANGED <<libraries, counted, calls, live, held, freelist, made>>

stp_bvSizedExpr(l, r) == MakesExpr("operands", {l, r})

stp_assertFormula(e) ==
  Goto("build", "check") /\ StpCall({Context, e}) /\ UNCHANGED <<live, held, freelist, made>>

(***************************************************************************)
(* check makes the expression False and asks whether it is valid.          *)
(***************************************************************************)
stp_falseExpr ==
  /\ Goto("check", "query") /\ StpCall({Context})
  /\ Makes(Handle("false", 0)) /\ gc(Handle("false", 0))
  /\ UNCHANGED made

stp_query ==
  /\ Goto("query", "values") \/ Goto("query", "cleanup")
  /\ StpCall({Context, Handle("false", 0)}) /\ UNCHANGED <<live, held, freelist, made>>

\* Mutant of stp_getCounterExample: the value is not put on the list.
stp_getCounterExample_lost(e) ==
  /\ pc = "values" /\ StpCall({Context, e}) /\ MakesTerm("value")
  /\ UNCHANGED <<pc, freelist>>

stp_getCounterExample(e) ==
  pc = "values" /\ StpCall({Context, e}) /\ StpMakes("value") /\ UNCHANGED pc

\* A value of more than 64 bits is read in parts, expressions themselves.
stp_split(v) ==
  pc = "values" /\ StpCall({Context, v}) /\ StpMakes("value") /\ UNCHANGED pc

stp_get_value(v) ==
  pc = "values" /\ StpCall({v}) /\ UNCHANGED <<pc, live, held, freelist, made>>

(***************************************************************************)
(* stp_Destroy: the whole list, also what calls that ended early have      *)
(* left on it, then the checker.  An expression can be deleted once, while *)
(* its checker exists; vc_Destroy frees the types of the checker.          *)
(***************************************************************************)
Deletable(list, handles) ==
  /\ \A i, j \in DOMAIN list : i # j => list[i] # list[j]
  /\ \A e \in ToSet(list) : e \in handles /\ [e EXCEPT !.kind = "context", !.n = 0] \in handles

vc_Destroy(handles) == handles \ ({Context} \cup Held("type"))

stp_Destroy ==
  /\ backend = "stp" /\ (Returns("values") \/ Returns("cleanup"))
  /\ fault' = fault \cup Wrong(backend,
       /\ Deletable(freelist, live)
       /\ {Context} \cup Held("type") \subseteq live \ ToSet(freelist))
  /\ live' = vc_Destroy(live \ ToSet(freelist))
  /\ freelist' = <<>>
  /\ UNCHANGED <<libraries, counted, backend, call, made>>

-----------------------------------------------------------------------------
Arguments == {args \in SUBSET Held("term") : Cardinality(args) <= 3}

Yices2Next ==
  \/ y2_load \/ y2_init \/ y2_new_context
  \/ \E args \in Arguments : y2_term(args)
  \/ \E e \in Held("term") : y2_assert_formula(e)
  \/ y2_check_context \/ y2_get_model
  \/ \E e \in Held("term") : y2_get_value(e)
  \/ y2_free_model
  \/ y2_free_context \/ y2_exit

Z3Next ==
  \/ z3_load \/ z3_mk_config \/ z3_mk_context \/ z3_mk_solver
  \/ z3_solver_inc_ref \/ z3_del_config
  \/ z3_declare
  \/ \E args \in Arguments : z3_term(args)
  \/ \E d \in Held("decl"), e \in Registers : z3_mk_app(d, e)
  \/ \E e \in Held("term") : z3_solver_assert(e)
  \/ z3_solver_check \/ z3_solver_get_model
  \/ \E d \in Held("term") : z3_model_eval(d)
  \/ \E v \in Held("value") : z3_get_value(v)
  \/ z3_solver_dec_ref \/ z3_del_context

StpNext ==
  \/ stp_createValidityChecker \/ stp_type
  \/ \E t \in Held("type") : stp_varExpr(t)
  \/ \E args \in Arguments : stp_boolExpr(args) \/ stp_bvExpr(args)
  \/ stp_bvConst
  \/ \E l, r \in Held("term") : stp_bvCompare(l, r) \/ stp_bvSizedExpr(l, r)
  \/ \E l, r \in Held("term"), right \in Registers : stp_bvOrAndExpr(l, r, right)
  \/ \E e \in Held("term") : stp_bvNotExpr(e) \/ stp_getBVLength(e)
  \/ \E e \in Held("term") : stp_assertFormula(e)
  \/ stp_falseExpr \/ stp_query
  \/ \E e \in Held("term") : stp_getCounterExample(e)
  \/ \E v \in Held("value") : stp_split(v) \/ stp_get_value(v)
  \/ stp_Destroy

Next ==
  \/ \E b \in Backends : Start(b)
  \/ \E l \in Libraries : Install(l)
  \/ Raise
  \/ Yices2Next \/ Z3Next \/ StpNext

Spec == Init /\ [][Next]_vars

-----------------------------------------------------------------------------
(***************************************************************************)
(* But for the calls of the misbound functions, no foreign call goes       *)
(* through a pointer that is NULL and none is passed or frees a handle     *)
(* that is dead, and whatever the call in progress may still pass is       *)
(* alive: also when earlier calls ended anywhere and left handles, list    *)
(* entries and a started library behind.                                   *)
(***************************************************************************)
CallsAreSafe == fault \subseteq Misbound /\ held \subseteq live

(***************************************************************************)
(* No call goes wrong at all, also of those functions: the or of two       *)
(* vectors is the or of these two, and the width asked for is that of an   *)
(* operand, as the tests of SMT.Bit, which the STP backend is said to      *)
(* pass, expect.                                                           *)
(***************************************************************************)
OperandsRight == fault = {}

(***************************************************************************)
(* A call that returns leaves nothing behind, and what STP still holds     *)
(* (after calls that ended early) is on the list exactly once, to be       *)
(* deleted by the next call that returns.                                  *)
(***************************************************************************)
EndsClean ==
  /\ \A h \in live : h.call \notin returned
  /\ ToSet(freelist) = {h \in live : h.lib = "stp" /\ h.kind \notin {"context", "type"}}
  /\ Cardinality(ToSet(freelist)) = Len(freelist)
=============================================================================
