---------------------------- MODULE NativeProofs ----------------------------
(***************************************************************************)
(* The foreign calls of the backends, for any number of calls of solve and *)
(* of terms in them, each of which may be cut short anywhere.              *)
(***************************************************************************)
EXTENDS Native, FiniteSetTheorems, TLAPS

Singles == {"config", "context", "solver", "model", "false"}
Kinds == Singles \cup {"type", "decl", "term", "value"}
Handles == [lib : Backends, call : Nat, kind : Kinds, n : Nat]
Own(h) == /\ h.lib = backend /\ h.call = call
          /\ h.n <= made /\ (h.kind \in Singles => h.n = 0)

(***************************************************************************)
(* What the call in progress has made and not freed, it holds; nothing     *)
(* that is alive is of a call to come or of one that returned.             *)
(***************************************************************************)
HandlesOk ==
  /\ backend \in Backends /\ call \in Nat /\ made \in Nat
  /\ live \subseteq Handles /\ held \subseteq live
  /\ \A h \in held : Own(h)
  /\ \A h \in live : h.call <= call /\ (h.call = call /\ pc # "idle" => h \in held)
  /\ \A r \in returned : r \in Nat /\ r <= call /\ (r = call => pc = "idle")
  /\ \A h \in live : h.call \notin returned

(***************************************************************************)
(* stp.cc's list has each expression that is alive once, and the checker   *)
(* of each is alive.                                                       *)
(***************************************************************************)
Expressions == {h \in live : h.lib = "stp" /\ h.kind \notin {"context", "type"}}
CheckerOf(e) == [e EXCEPT !.kind = "context", !.n = 0]

ListOk ==
  /\ freelist \in Seq(Handles)
  /\ ToSet(freelist) = Expressions
  /\ \A i, j \in DOMAIN freelist : i # j => freelist[i] # freelist[j]
  /\ \A e \in Expressions : CheckerOf(e) \in live

(***************************************************************************)
(* What each place of a backend may rely on.                               *)
(***************************************************************************)
Start_ == {"idle", "load", "init", "create", "config"}
Y2Places == {"build", "check", "model", "values", "cleanup", "exit"}
Z3Places == {"build", "check", "model", "values", "cleanup"}
StpPlaces == {"build", "operands", "check", "query", "values", "cleanup"}

Y2Flow == backend = "yices2" =>
  /\ pc \in {"idle", "load", "init", "context"} \cup Y2Places
  /\ pc \in {"init", "context"} \cup Y2Places => y2_f
  /\ pc \in {"context"} \cup Y2Places => running
  /\ pc = "context" => held = {}
  /\ pc \in Y2Places \ {"exit"} => Context \in held
  /\ pc = "values" => Model \in held

Z3Flow == backend = "z3" =>
  /\ pc \in {"idle", "load", "config", "context", "solver", "inc_ref", "del_config", "del"} \cup Z3Places
  /\ pc \notin {"idle", "load"} => z3_f
  /\ pc \in {"context", "solver", "inc_ref", "del_config"} => Config \in held
  /\ pc \in {"solver", "inc_ref", "del_config", "del"} \cup Z3Places => Context \in held
  /\ pc \in {"inc_ref", "del_config"} \cup Z3Places => Solver \in held
  /\ pc \in {"del_config"} \cup Z3Places => Solver \in counted
  /\ pc = "values" => Model \in held
  /\ pc \in {"del"} \cup Z3Places => Config \notin held
  /\ pc = "del" => Solver \notin held

StpFlow == backend = "stp" =>
  /\ pc \in {"idle", "create"} \cup StpPlaces
  /\ pc \in StpPlaces => Context \in held
  /\ pc = "query" => Handle("false", 0) \in held
  /\ pc \in {"build", "operands", "check"} => Handle("false", 0) \notin held

Flow == /\ pc \in Start_ => held = {}
        /\ Y2Flow /\ Z3Flow /\ StpFlow

\* No call has gone wrong but those of the misbound functions.
CallsRight == fault \subseteq Misbound

IInv == HandlesOk /\ ListOk /\ Flow /\ CallsRight

-----------------------------------------------------------------------------
LEMMA InitInv == Init => IInv
<1>. SUFFICES ASSUME Init PROVE IInv
  OBVIOUS
<1>1. HandlesOk
  BY DEF Init, HandlesOk, Backends, Libraries
<1>2. ListOk
  BY DEF Init, ListOk, Expressions, ToSet
<1>3. Flow /\ CallsRight
  BY DEF Init, CallsRight, Flow, Start_, Y2Flow, Z3Flow, StpFlow, StpPlaces
<1>. QED  BY <1>1, <1>2, <1>3 DEF IInv

(***************************************************************************)
(* A handle of the call in progress is made, used or freed.                *)
(***************************************************************************)
Fixed(h, kind) ==
  h \in Handles /\ h.lib = backend /\ h.call = call /\ h.kind = kind /\ h.n = 0

LEMMA HandleFacts ==
  ASSUME HandlesOk
  PROVE  /\ Fixed(Config, "config") /\ Fixed(Context, "context") /\ Fixed(Solver, "solver")
         /\ Fixed(Model, "model") /\ Fixed(Handle("false", 0), "false")
         /\ \A h \in Handles : h.lib = backend /\ h.call = call /\ h.n = 0 =>
              /\ h.kind = "config" => h = Config
              /\ h.kind = "context" => h = Context
              /\ h.kind = "solver" => h = Solver
              /\ h.kind = "false" => h = Handle("false", 0)
<1>0. backend \in Backends /\ call \in Nat
  BY DEF HandlesOk
<1>1. ASSUME NEW kind \in Singles
      PROVE  Fixed(Handle(kind, 0), kind)
  BY <1>0 DEF Handle, Handles, Fixed, Kinds
<1>2. ASSUME NEW h \in Handles, h.lib = backend, h.call = call, h.n = 0
      PROVE  h = Handle(h.kind, 0)
  BY <1>2 DEF Handle, Handles
<1>3. Fixed(Handle("config", 0), "config") /\ Fixed(Handle("context", 0), "context")
      /\ Fixed(Handle("solver", 0), "solver") /\ Fixed(Handle("model", 0), "model")
      /\ Fixed(Handle("false", 0), "false")
  BY <1>1 DEF Singles
<1>. QED  BY <1>2, <1>3 DEF Config, Context, Solver, Model

LEMMA NewFacts ==
  ASSUME HandlesOk, NEW kind \in Kinds
  PROVE  \E h \in Handles :
           h = New(kind) /\ h.lib = backend /\ h.call = call /\ h.kind = kind /\ h.n = made + 1
<1>1. backend \in Backends /\ call \in Nat /\ made + 1 \in Nat
  BY DEF HandlesOk
<1>2. PICK h : h = [lib |-> backend, call |-> call, kind |-> kind, n |-> made + 1]
  OBVIOUS
<1>3. h \in Handles /\ h.lib = backend /\ h.call = call /\ h.kind = kind /\ h.n = made + 1
  BY <1>1, <1>2 DEF Handles
<1>. QED  BY <1>2, <1>3 DEF New, Handle

LEMMA MakesKeeps ==
  ASSUME HandlesOk, NEW h \in Handles, h.lib = backend, h.call = call, h.n <= made',
         h.kind \in Singles => h.n = 0, made' \in Nat, made <= made',
         live' = live \cup {h}, held' = held \cup {h}, pc # "idle", pc' # "idle",
         UNCHANGED <<backend, call, returned>>
  PROVE  HandlesOk'
<1>1. \A g \in held' : Own(g)'
  BY DEF HandlesOk, Own, Handles
<1>2. \A r \in returned' : r \in Nat /\ r <= call /\ r # call
  BY DEF HandlesOk
<1>. QED  BY <1>1, <1>2 DEF HandlesOk

LEMMA SameKeeps ==
  ASSUME HandlesOk, UNCHANGED <<live, held, made, backend, call, returned>>, pc # "idle", pc' # "idle"
  PROVE  HandlesOk'
BY DEF HandlesOk, Own

LEMMA FreesKeeps ==
  ASSUME HandlesOk, NEW h, Frees(h), UNCHANGED <<made, backend, call, returned>>,
         pc # "idle", pc' # "idle"
  PROVE  HandlesOk'
BY DEF HandlesOk, Own, Frees

(***************************************************************************)
(* The list: nothing it is about changes, or an expression is added.       *)
(***************************************************************************)
LEMMA ListKept ==
  ASSUME ListOk, UNCHANGED freelist,
         \A h : h \in live' /\ h.lib = "stp" /\ h.kind # "type" /\ h.kind # "context"
                <=> h \in live /\ h.lib = "stp" /\ h.kind # "type" /\ h.kind # "context",
         \A h \in live : h.lib = "stp" /\ h.kind = "context" => h \in live',
         live \subseteq Handles
  PROVE  ListOk'
<1>1. Expressions' = Expressions
  BY DEF Expressions
<1>2. ASSUME NEW e \in Expressions PROVE CheckerOf(e) \in live'
  <2>1. CheckerOf(e) \in live /\ CheckerOf(e).lib = "stp" /\ CheckerOf(e).kind = "context"
    BY DEF ListOk, Expressions, CheckerOf, Handles
  <2>. QED  BY <2>1
<1>3. \A e : CheckerOf(e)' = CheckerOf(e)
  BY DEF CheckerOf
<1>. QED  BY <1>1, <1>2, <1>3 DEF ListOk

LEMMA ListGrows ==
  ASSUME ListOk, NEW h \in Handles, h \notin live, h.lib = "stp", h.kind \notin {"context", "type"},
         CheckerOf(h) \in live, live' = live \cup {h}, gc(h)
  PROVE  ListOk'
<1>1. /\ freelist' \in Seq(Handles) /\ Len(freelist') = Len(freelist) + 1
      /\ freelist'[1] = h /\ Len(freelist) \in Nat
      /\ \A i \in 2 .. Len(freelist) + 1 : freelist'[i] = freelist[i - 1]
      /\ DOMAIN freelist = 1 .. Len(freelist) /\ DOMAIN freelist' = 1 .. Len(freelist) + 1
  BY DEF ListOk, gc
<1>2. Expressions' = Expressions \cup {h}
  BY DEF Expressions
<1>3. \A i \in DOMAIN freelist : freelist[i] \in Expressions /\ freelist[i] # h
  BY DEF ListOk, ToSet, Expressions
<1>4. ToSet(freelist') = {h} \cup ToSet(freelist)
  <2>1. ASSUME NEW i \in DOMAIN freelist' PROVE freelist'[i] \in {h} \cup ToSet(freelist)
    <3>1. CASE i = 1
      BY <1>1, <3>1
    <3>2. CASE i # 1
      <4>1. i - 1 \in DOMAIN freelist /\ freelist'[i] = freelist[i - 1]
        BY <1>1, <3>2
      <4>. QED  BY <4>1 DEF ToSet
    <3>. QED  BY <3>1, <3>2
  <2>2. ASSUME NEW i \in DOMAIN freelist PROVE freelist[i] \in ToSet(freelist')
    <3>1. i + 1 \in DOMAIN freelist' /\ freelist'[i + 1] = freelist[i]
      BY <1>1
    <3>. QED  BY <3>1 DEF ToSet
  <2>3. h \in ToSet(freelist')
    BY <1>1 DEF ToSet
  <2>. QED  BY <2>1, <2>2, <2>3 DEF ToSet
<1>5. ASSUME NEW i \in DOMAIN freelist', NEW j \in DOMAIN freelist', i # j
      PROVE  freelist'[i] # freelist'[j]
  <2>1. i # 1 => i - 1 \in DOMAIN freelist /\ freelist'[i] = freelist[i - 1]
    BY <1>1
  <2>2. j # 1 => j - 1 \in DOMAIN freelist /\ freelist'[j] = freelist[j - 1]
    BY <1>1
  <2>3. CASE i # 1 /\ j # 1
    <3>1. i - 1 # j - 1
      BY <1>1, <1>5
    <3>. QED  BY <2>1, <2>2, <2>3, <3>1 DEF ListOk
  <2>4. CASE i = 1 \/ j = 1
    BY <1>1, <1>3, <1>5, <2>1, <2>2, <2>4
  <2>. QED  BY <2>3, <2>4
<1>6. \A e \in Expressions' : CheckerOf(e) \in live'
  BY <1>2 DEF ListOk
<1>7. \A e : CheckerOf(e)' = CheckerOf(e)
  BY DEF CheckerOf
<1>. QED  BY <1>1, <1>2, <1>4, <1>5, <1>6, <1>7 DEF ListOk

-----------------------------------------------------------------------------
(***************************************************************************)
(* Between calls.                                                          *)
(***************************************************************************)
LEMMA BetweenInv ==
  ASSUME IInv, Raise \/ (\E b \in Backends : Start(b)) \/ (\E l \in Libraries : Install(l))
  PROVE  IInv'
<1>1. CASE Raise
  <2>1. HandlesOk'
    BY <1>1 DEF IInv, HandlesOk, Raise, calls
  <2>2. ListOk'
    BY <1>1, ListKept DEF IInv, HandlesOk, Raise
  <2>3. Flow' /\ CallsRight'
    BY <1>1 DEF IInv, CallsRight, Raise, calls, Flow, Start_, Y2Flow, Z3Flow, StpFlow, Y2Places, Z3Places, StpPlaces
  <2>. QED  BY <2>1, <2>2, <2>3 DEF IInv
<1>2. ASSUME NEW b \in Backends, Start(b) PROVE IInv'
  <2>1. HandlesOk'
    BY <1>2 DEF IInv, HandlesOk, Handles, Own, Start, Goto
  <2>2. ListOk'
    BY <1>2, ListKept DEF IInv, HandlesOk, Start
  <2>3. Flow' /\ CallsRight'
    BY <1>2 DEF IInv, CallsRight, Start, Goto, Backends, Libraries, Flow, Start_, Y2Flow, Z3Flow, StpFlow,
                Y2Places, Z3Places, StpPlaces
  <2>. QED  BY <2>1, <2>2, <2>3 DEF IInv
<1>3. ASSUME NEW l \in Libraries, Install(l) PROVE IInv'
  <2>1. HandlesOk'
    BY <1>3 DEF IInv, HandlesOk, Own, Install, calls
  <2>2. ListOk'
    BY <1>3, ListKept DEF IInv, HandlesOk, Install
  <2>3. Flow' /\ CallsRight'
    BY <1>3 DEF IInv, CallsRight, Install, calls, Flow, Start_, Y2Flow, Z3Flow, StpFlow, Y2Places, Z3Places,
                StpPlaces, Context, Model, Config, Solver, Handle
  <2>. QED  BY <2>1, <2>2, <2>3 DEF IInv
<1>. QED  BY <1>1, <1>2, <1>3

(***************************************************************************)
(* Yices2 and Z3 make handles of their own only: the list of STP does not  *)
(* notice.                                                                 *)
(***************************************************************************)
LEMMA MakesElsewhere ==
  ASSUME HandlesOk, ListOk, NEW h, h.lib # "stp", live' = live \cup {h}, UNCHANGED freelist
  PROVE  ListOk'
BY ListKept DEF HandlesOk

LEMMA FreesElsewhere ==
  ASSUME HandlesOk, ListOk, backend # "stp", NEW h, h.lib = backend,
         Frees(h), UNCHANGED freelist
  PROVE  ListOk'
BY ListKept DEF HandlesOk, Frees

LEMMA Yices2Inv ==
  ASSUME IInv, Yices2Next
  PROVE  IInv'
<1>. USE DEF IInv, CallsRight, Wrong
<1>0. /\ UNCHANGED <<backend, call>> => Context' = Context /\ Model' = Model
      /\ Context # Model /\ held \subseteq live /\ made \in Nat
      /\ \A h \in {Context, Model} :
           h \in Handles /\ h.lib = backend /\ h.call = call /\ h.n = 0
  <2>1. UNCHANGED <<backend, call>> => Context' = Context /\ Model' = Model
    BY DEF Handle, Context, Model
  <2>2. held \subseteq live /\ made \in Nat
    BY DEF HandlesOk
  <2>3. Fixed(Context, "context") /\ Fixed(Model, "model")
    BY HandleFacts
  <2>. QED  BY <2>1, <2>2, <2>3 DEF Fixed
<1>1. CASE y2_load
  <2>1. HandlesOk'
    BY <1>1 DEF y2_load, Goto, HandlesOk, Own, calls, Flow, Start_
  <2>2. ListOk'
    BY <1>1, ListKept DEF y2_load, HandlesOk
  <2>3. Flow' /\ CallsRight'
    BY <1>1 DEF y2_load, Goto, calls, Flow, Start_, Y2Flow, Z3Flow, StpFlow, Y2Places
  <2>. QED  BY <2>1, <2>2, <2>3
<1>2. CASE y2_init
  <2>1. pc = "init" /\ backend = "yices2" /\ y2_f /\ held = {}
    BY <1>2 DEF y2_init, Goto, Flow, Start_, Y2Flow, Z3Flow, StpFlow, StpPlaces, Z3Places, HandlesOk,
                Backends, Libraries
  <2>2. HandlesOk'
    BY <1>2, <2>1, SameKeeps DEF y2_init, Goto, calls
  <2>3. ListOk'
    BY <1>2, ListKept DEF y2_init, HandlesOk
  <2>4. Flow' /\ CallsRight'
    BY <1>2, <2>1 DEF y2_init, Goto, Passes, calls, Flow, Start_, Y2Flow, Z3Flow, StpFlow, Y2Places
  <2>. QED  BY <2>2, <2>3, <2>4
<1>3. CASE y2_new_context
  <2>1. backend = "yices2" /\ pc = "context" /\ pc' = "build" 
        /\ live' = live \cup {Context} /\ held' = held \cup {Context}
        /\ UNCHANGED <<libraries, counted, freelist, backend, call, returned, made>>
    BY <1>0, <1>3 DEF y2_new_context, Y2Call, Goto, Makes, calls
  <2>2. HandlesOk'
    BY <1>0, <2>1, MakesKeeps
  <2>3. ListOk'
    BY <1>0, <2>1, MakesElsewhere
  <2>4. CallsRight'
    BY <1>0, <1>3, <2>1 DEF y2_new_context, Y2Call, Passes, Flow, Y2Flow, Y2Places
  <2>5. Flow'
    BY <1>0, <2>1 DEF libraries, Flow, Start_, Y2Flow, Z3Flow, StpFlow, Y2Places
  <2>. QED  BY <2>2, <2>3, <2>4, <2>5
<1>4. ASSUME NEW args \in Arguments, y2_term(args) PROVE IInv'
  <2>1. /\ backend = "yices2" /\ pc = "build" /\ pc' = "build" /\ args \subseteq live
        /\ live' = live \cup {New("term")} /\ held' = held \cup {New("term")} /\ made' = made + 1
        /\ UNCHANGED <<libraries, counted, freelist, backend, call, returned>>
    BY <1>0, <1>4 DEF y2_term, Y2Call, MakesTerm, Makes, calls, Arguments, Held
  <2>2. PICK h \in Handles : /\ h = New("term") /\ h.lib = backend /\ h.call = call
                             /\ h.n = made + 1 /\ h.kind \notin Singles
    BY NewFacts DEF Singles, Kinds
  <2>3. HandlesOk'
    BY <1>0, <2>1, <2>2, MakesKeeps
  <2>4. ListOk'
    BY <2>1, <2>2, MakesElsewhere
  <2>5. CallsRight'
    BY <1>4, <2>1 DEF y2_term, Y2Call, Passes, Flow, Y2Flow, Y2Places
  <2>6. Flow'
    BY <1>0, <2>1 DEF libraries, Flow, Start_, Y2Flow, Z3Flow, StpFlow, Y2Places
  <2>. QED  BY <2>3, <2>4, <2>5, <2>6
<1>5. ASSUME \/ \E e \in Held("term") : y2_assert_formula(e) \/ y2_get_value(e)
             \/ y2_check_context
      PROVE  IInv'
  <2>1. /\ backend = "yices2" /\ Context \in live /\ (pc = "values" => Model \in live)
        /\ Held("term") \subseteq live /\ running /\ y2_f
        /\ pc \in {"build", "check", "values"} /\ pc' \in {"check", "model", "cleanup", "values"}
        /\ pc' = "values" => pc = "values"
        /\ UNCHANGED <<libraries, counted, freelist, backend, call, returned, live, held, made>>
    BY <1>0, <1>5 DEF y2_assert_formula, y2_check_context, y2_get_value, Y2Call, Goto, calls, Held,
                      Flow, Y2Flow, Y2Places
  <2>2. HandlesOk'
    BY <2>1, SameKeeps
  <2>3. ListOk'
    BY <2>1, ListKept DEF HandlesOk
  <2>4. CallsRight'
    BY <1>5, <2>1 DEF y2_assert_formula, y2_check_context, y2_get_value, Y2Call, Passes, Goto
  <2>5. Flow'
    BY <1>0, <2>1 DEF libraries, Flow, Start_, Y2Flow, Z3Flow, StpFlow, Y2Places
  <2>. QED  BY <2>2, <2>3, <2>4, <2>5
<1>6. CASE y2_get_model
  <2>1. backend = "yices2" /\ pc = "model" /\ pc' = "values" 
        /\ live' = live \cup {Model} /\ held' = held \cup {Model}
        /\ UNCHANGED <<libraries, counted, freelist, backend, call, returned, made>>
    BY <1>0, <1>6 DEF y2_get_model, Y2Call, Goto, Makes, calls
  <2>2. HandlesOk'
    BY <1>0, <2>1, MakesKeeps
  <2>3. ListOk'
    BY <1>0, <2>1, MakesElsewhere
  <2>4. CallsRight'
    BY <1>0, <1>6, <2>1 DEF y2_get_model, Y2Call, Passes, Flow, Y2Flow, Y2Places
  <2>5. Flow'
    BY <1>0, <2>1 DEF libraries, Flow, Start_, Y2Flow, Z3Flow, StpFlow, Y2Places
  <2>. QED  BY <2>2, <2>3, <2>4, <2>5
<1>7. CASE y2_free_model \/ y2_free_context
  <2>1. PICK h \in {Model, Context} :
          /\ backend = "yices2" /\ Frees(h) /\ h \in live
          /\ \/ h = Model /\ pc = "values" /\ pc' = "cleanup"
             \/ h = Context /\ pc = "cleanup" /\ pc' = "exit"
          /\ UNCHANGED <<libraries, counted, freelist, backend, call, returned, made>>
    BY <1>0, <1>7 DEF y2_free_model, y2_free_context, Y2Call, Goto, calls, Flow, Y2Flow, Y2Places
  <2>2. HandlesOk'
    BY <2>1, FreesKeeps
  <2>3. ListOk'
    BY <1>0, <2>1, FreesElsewhere
  <2>4. CallsRight'
    BY <1>0, <1>7, <2>1 DEF y2_free_model, y2_free_context, Y2Call, Passes, Goto, Flow, Y2Flow, Y2Places
  <2>5. Flow'
    BY <1>0, <2>1 DEF Frees, libraries, Flow, Start_, Y2Flow, Z3Flow, StpFlow, Y2Places
  <2>. QED  BY <2>2, <2>3, <2>4, <2>5
<1>8. CASE y2_exit
  <2>1. /\ backend = "yices2" /\ pc = "exit" /\ pc' = "idle" /\ held' = {}
        /\ live' = {h \in live : h.lib # "yices2"}
        /\ returned' = returned \cup {call}
        /\ UNCHANGED <<freelist, backend, call, made>>
    BY <1>8 DEF y2_exit, Returns, Goto
  <2>2. HandlesOk'
    BY <2>1 DEF HandlesOk, Own
  <2>3. ListOk'
    BY <2>1, ListKept DEF HandlesOk
  <2>4. Flow' /\ CallsRight'
    BY <1>8, <2>1 DEF y2_exit, Passes, Flow, Start_, Y2Flow, Z3Flow, StpFlow, Y2Places
  <2>. QED  BY <2>2, <2>3, <2>4
<1>. QED  BY <1>1, <1>2, <1>3, <1>4, <1>5, <1>6, <1>7, <1>8 DEF Yices2Next

LEMMA Z3Inv ==
  ASSUME IInv, Z3Next
  PROVE  IInv'
<1>. USE DEF IInv, CallsRight, Wrong
<1>0. /\ UNCHANGED <<backend, call>> => Config' = Config /\ Context' = Context
                                        /\ Solver' = Solver /\ Model' = Model
      /\ Fixed(Config, "config") /\ Fixed(Context, "context")
      /\ Fixed(Solver, "solver") /\ Fixed(Model, "model")
      /\ held \subseteq live /\ made \in Nat
  <2>1. UNCHANGED <<backend, call>> => Config' = Config /\ Context' = Context
                                      /\ Solver' = Solver /\ Model' = Model
    BY DEF Handle, Config, Context, Solver, Model
  <2>. QED  BY <2>1, HandleFacts DEF HandlesOk
<1>1. CASE z3_load
  <2>1. HandlesOk'
    BY <1>1 DEF z3_load, Goto, HandlesOk, Own, calls, Flow, Start_
  <2>2. ListOk'
    BY <1>1, ListKept DEF z3_load, HandlesOk
  <2>3. Flow' /\ CallsRight'
    BY <1>1 DEF z3_load, Goto, calls, Flow, Start_, Y2Flow, Z3Flow, StpFlow, Z3Places
  <2>. QED  BY <2>1, <2>2, <2>3
<1>2. CASE z3_mk_config \/ z3_mk_context \/ z3_mk_solver
  <2>1. PICK h \in {Config, Context, Solver} :
          /\ backend = "z3" /\ live' = live \cup {h} /\ held' = held \cup {h}
          /\ \/ h = Config /\ pc = "config" /\ pc' = "context"
             \/ h = Context /\ pc = "context" /\ pc' = "solver" /\ Config \in held
             \/ h = Solver /\ pc = "solver" /\ pc' = "inc_ref" /\ {Config, Context} \subseteq held
          /\ UNCHANGED <<libraries, counted, freelist, backend, call, returned, made>>
    BY <1>2 DEF z3_mk_config, z3_mk_context, z3_mk_solver, Z3Call, Goto, Makes, calls,
                Flow, Z3Flow, Z3Places
  <2>2. Fixed(h, h.kind)
    BY <1>0, <2>1 DEF Fixed
  <2>3. HandlesOk'
    <3>1. h \in Handles /\ h.lib = backend /\ h.call = call /\ h.n = 0
      BY <2>2 DEF Fixed
    <3>. QED  BY <1>0, <2>1, <3>1, MakesKeeps
  <2>4. ListOk'
    BY <2>1, <2>2, MakesElsewhere DEF Fixed
  <2>5. CallsRight'
    BY <1>0, <1>2, <2>1 DEF z3_mk_config, z3_mk_context, z3_mk_solver, Z3Call, Goto, Passes,
                            Flow, Z3Flow, Z3Places
  <2>6. Flow'
    BY <1>0, <2>1 DEF libraries, Flow, Start_, Y2Flow, Z3Flow, StpFlow, Z3Places
  <2>. QED  BY <2>3, <2>4, <2>5, <2>6
<1>3. CASE z3_solver_inc_ref
  <2>1. /\ backend = "z3" /\ pc = "inc_ref" /\ pc' = "del_config" /\ z3_f
        /\ {Config, Context, Solver} \subseteq held /\ counted' = counted \cup {Solver}
        /\ UNCHANGED <<libraries, freelist, backend, call, returned, live, held, made>>
    BY <1>3 DEF z3_solver_inc_ref, Z3Call, Goto, calls, Flow, Z3Flow, Z3Places
  <2>2. HandlesOk'
    BY <2>1, SameKeeps
  <2>3. ListOk'
    BY <2>1, ListKept DEF HandlesOk
  <2>4. CallsRight'
    BY <1>0, <1>3, <2>1 DEF z3_solver_inc_ref, Z3Call, Passes
  <2>5. Flow'
    BY <1>0, <2>1 DEF libraries, Flow, Start_, Y2Flow, Z3Flow, StpFlow, Z3Places
  <2>. QED  BY <2>2, <2>3, <2>4, <2>5
<1>4. CASE z3_del_config
  <2>1. /\ backend = "z3" /\ pc = "del_config" /\ pc' = "build" /\ z3_f
        /\ {Config, Context, Solver} \subseteq held /\ Solver \in counted /\ Frees(Config)
        /\ UNCHANGED <<libraries, counted, freelist, backend, call, returned, made>>
    BY <1>4 DEF z3_del_config, Z3Call, Goto, calls, Flow, Z3Flow, Z3Places
  <2>2. HandlesOk'
    BY <2>1, FreesKeeps
  <2>3. ListOk'
    BY <1>0, <2>1, FreesElsewhere DEF Fixed
  <2>4. CallsRight'
    BY <1>0, <1>4, <2>1 DEF z3_del_config, Z3Call, Passes
  <2>5. {Context, Solver} \subseteq held' /\ Config \notin held'
    BY <1>0, <2>1 DEF Frees, Fixed
  <2>6. Flow'
    BY <1>0, <2>1, <2>5 DEF libraries, Flow, Start_, Y2Flow, Z3Flow, StpFlow, Z3Places
  <2>. QED  BY <2>2, <2>3, <2>4, <2>6
<1>5. ASSUME \/ z3_declare
             \/ \E args \in Arguments : z3_term(args)
             \/ \E d \in Held("decl"), e \in Registers : z3_mk_app(d, e)
             \/ \E d \in Held("term") : z3_model_eval(d)
      PROVE  IInv'
  <2>0. /\ \A args \in Arguments : args \subseteq live
        /\ Held("term") \subseteq live /\ Held("decl") \subseteq live
    BY <1>0 DEF Arguments, Held
  <2>1. PICK kind \in {"decl", "term", "value"} :
          /\ backend = "z3" /\ pc \in {"build", "values"} /\ pc' = pc /\ z3_f
          /\ Context \in live /\ (pc = "values" => Model \in live)
          /\ live' = live \cup {New(kind)} /\ held' = held \cup {New(kind)} /\ made' = made + 1
          /\ UNCHANGED <<libraries, counted, freelist, backend, call, returned>>
    BY <1>0, <1>5 DEF z3_declare, z3_term, z3_mk_app, z3_model_eval, Z3Call, MakesTerm, Makes,
                      calls, Flow, Z3Flow, Z3Places
  <2>2. PICK h \in Handles : /\ h = New(kind) /\ h.lib = backend /\ h.call = call
                             /\ h.n = made + 1 /\ h.kind \notin Singles
    BY NewFacts DEF Singles, Kinds
  <2>3. HandlesOk'
    BY <1>0, <2>1, <2>2, MakesKeeps
  <2>4. ListOk'
    BY <2>1, <2>2, MakesElsewhere
  <2>5. CallsRight'
    <3>1. CASE \E d \in Held("decl"), e \in Registers : z3_mk_app(d, e)
      BY <2>0, <2>1, <3>1 DEF z3_mk_app, Misreads, Misbound
    <3>2. CASE ~\E d \in Held("decl"), e \in Registers : z3_mk_app(d, e)
      BY <1>5, <2>0, <2>1, <3>2 DEF z3_declare, z3_term, z3_model_eval, Z3Call, Passes
    <3>. QED  BY <3>1, <3>2
  <2>6. h # Config /\ h # Solver /\ held' = held \cup {h}
    BY <1>0, <2>1, <2>2 DEF Fixed, Singles
  <2>7. Flow'
    BY <1>0, <2>1, <2>6 DEF libraries, Flow, Start_, Y2Flow, Z3Flow, StpFlow, Z3Places
  <2>. QED  BY <2>3, <2>4, <2>5, <2>7
<1>6. ASSUME \/ \E e \in Held("term") : z3_solver_assert(e)
             \/ \E v \in Held("value") : z3_get_value(v)
             \/ z3_solver_check
      PROVE  IInv'
  <2>1. /\ backend = "z3" /\ Context \in live /\ Solver \in live /\ z3_f
        /\ Held("term") \subseteq live /\ Held("value") \subseteq live
        /\ pc \in {"build", "check", "values"} /\ pc' \in {"check", "model", "cleanup", "values"}
        /\ pc' = "values" => pc = "values"
        /\ UNCHANGED <<libraries, counted, freelist, backend, call, returned, live, held, made>>
    BY <1>0, <1>6 DEF z3_solver_assert, z3_solver_check, z3_get_value, Z3Call, Goto, calls, Held,
                      Flow, Z3Flow, Z3Places
  <2>2. HandlesOk'
    BY <2>1, SameKeeps
  <2>3. ListOk'
    BY <2>1, ListKept DEF HandlesOk
  <2>4. CallsRight'
    BY <1>6, <2>1 DEF z3_solver_assert, z3_solver_check, z3_get_value, Z3Call, Passes
  <2>5. Flow'
    BY <1>0, <2>1 DEF libraries, Flow, Start_, Y2Flow, Z3Flow, StpFlow, Z3Places
  <2>. QED  BY <2>2, <2>3, <2>4, <2>5
<1>7. CASE z3_solver_get_model
  <2>1. /\ backend = "z3" /\ pc = "model" /\ pc' = "values" /\ z3_f
        /\ {Context, Solver} \subseteq held /\ Solver \in counted
        /\ live' = live \cup {Model} /\ held' = held \cup {Model}
        /\ UNCHANGED <<libraries, counted, freelist, backend, call, returned, made>>
    BY <1>7 DEF z3_solver_get_model, Z3Call, Goto, calls, Flow, Z3Flow, Z3Places
  <2>2. HandlesOk'
    BY <1>0, <2>1, MakesKeeps DEF Fixed
  <2>3. ListOk'
    BY <1>0, <2>1, MakesElsewhere DEF Fixed
  <2>4. CallsRight'
    BY <1>0, <1>7, <2>1 DEF z3_solver_get_model, Z3Call, Passes
  <2>5. Model # Config
    BY <1>0 DEF Fixed
  <2>6. Flow'
    BY <1>0, <2>1, <2>5 DEF libraries, Flow, Start_, Y2Flow, Z3Flow, StpFlow, Z3Places
  <2>. QED  BY <2>2, <2>3, <2>4, <2>6
<1>8. CASE z3_solver_dec_ref
  <2>1. /\ backend = "z3" /\ pc \in {"values", "cleanup"} /\ pc' = "del" /\ z3_f
        /\ {Context, Solver} \subseteq held /\ Config \notin held /\ Frees(Solver)
        /\ UNCHANGED <<libraries, freelist, backend, call, returned, made>>
    BY <1>8 DEF z3_solver_dec_ref, Z3Call, Goto, calls, Flow, Z3Flow, Z3Places
  <2>2. HandlesOk'
    BY <2>1, FreesKeeps
  <2>3. ListOk'
    BY <1>0, <2>1, FreesElsewhere DEF Fixed
  <2>4. CallsRight'
    BY <1>0, <1>8, <2>1 DEF z3_solver_dec_ref, Z3Call, Passes
  <2>5. Context \in held' /\ Solver \notin held' /\ Config \notin held'
    BY <1>0, <2>1 DEF Frees, Fixed
  <2>6. Flow'
    BY <1>0, <2>1, <2>5 DEF libraries, Flow, Start_, Y2Flow, Z3Flow, StpFlow, Z3Places
  <2>. QED  BY <2>2, <2>3, <2>4, <2>6
<1>9. CASE z3_del_context
  <2>1. /\ backend = "z3" /\ pc = "del" /\ pc' = "idle" /\ held' = {} /\ z3_f
        /\ Context \in held /\ Config \notin held /\ Solver \notin held
        /\ live' = {h \in live : h.call # call \/ h.kind \in {"config", "solver"}}
        /\ returned' = returned \cup {call}
        /\ UNCHANGED <<libraries, freelist, backend, call, made>>
    BY <1>9 DEF z3_del_context, Returns, Goto, Flow, Z3Flow, Z3Places
  <2>2. \A h \in live : h.call = call => h \in held /\ h.lib = "z3"
    BY <2>1 DEF HandlesOk, Own
  <2>3. ASSUME NEW h \in live' PROVE h.call # call
    <3>1. SUFFICES ASSUME h.call = call PROVE FALSE
      OBVIOUS
    <3>2. h \in held /\ h \in Handles /\ h.lib = backend /\ h.kind \in {"config", "solver"}
      BY <2>1, <2>2, <2>3, <3>1 DEF HandlesOk
    <3>3. h.n = 0
      BY <3>2 DEF HandlesOk, Own, Singles
    <3>. QED  BY <2>1, <3>1, <3>2, <3>3, HandleFacts
  <2>4. HandlesOk'
    BY <2>1, <2>3 DEF HandlesOk, Own
  <2>5. ListOk'
    BY <2>1, <2>2, ListKept DEF HandlesOk
  <2>6. Flow' /\ CallsRight'
    BY <1>0, <1>9, <2>1 DEF z3_del_context, Passes, libraries, Flow, Start_, Y2Flow, Z3Flow, StpFlow,
                            Z3Places
  <2>. QED  BY <2>4, <2>5, <2>6
<1>. QED  BY <1>1, <1>2, <1>3, <1>4, <1>5, <1>6, <1>7, <1>8, <1>9 DEF Z3Next

LEMMA CheckerFacts ==
  ASSUME HandlesOk, NEW h \in Handles, h.lib = backend, h.call = call
  PROVE  CheckerOf(h) = Context
<1>1. CheckerOf(h) \in Handles /\ CheckerOf(h).kind = "context" /\ CheckerOf(h).n = 0
      /\ CheckerOf(h).lib = backend /\ CheckerOf(h).call = call
  BY DEF CheckerOf, Handles, Kinds, Singles
<1>. QED  BY <1>1, HandleFacts

LEMMA StpInv ==
  ASSUME IInv, StpNext
  PROVE  IInv'
<1>. USE DEF IInv, CallsRight, Wrong
<1>. DEFINE False == Handle("false", 0)
<1>0. /\ UNCHANGED <<backend, call>> => Context' = Context /\ False' = False
      /\ Fixed(Context, "context") /\ Fixed(False, "false")
      /\ held \subseteq live /\ made \in Nat
  <2>1. UNCHANGED <<backend, call>> => Context' = Context /\ False' = False
    BY DEF Handle, Context
  <2>. QED  BY <2>1, HandleFacts DEF HandlesOk
<1>. HIDE DEF False
<1>1. CASE stp_createValidityChecker
  <2>1. /\ backend = "stp" /\ pc = "create" /\ pc' = "build" /\ held = {}
        /\ live' = live \cup {Context} /\ held' = held \cup {Context}
        /\ UNCHANGED <<libraries, counted, freelist, backend, call, returned, made>>
    BY <1>1 DEF stp_createValidityChecker, StpCall, Goto, Makes, calls, Flow, Start_
  <2>2. HandlesOk'
    BY <1>0, <2>1, MakesKeeps DEF Fixed
  <2>3. ListOk'
    BY <1>0, <2>1, ListKept DEF Fixed, HandlesOk
  <2>4. CallsRight'
    BY <1>1 DEF stp_createValidityChecker, StpCall, Passes
  <2>5. Context # False
    BY <1>0 DEF Fixed
  <2>6. Flow'
    BY <1>0, <2>1, <2>5 DEF libraries, Flow, Start_, Y2Flow, Z3Flow, StpFlow, StpPlaces, False
  <2>. QED  BY <2>2, <2>3, <2>4, <2>6
<1>2. CASE stp_type
  <2>1. /\ backend = "stp" /\ pc = "build" /\ pc' = pc /\ Context \in held
        /\ live' = live \cup {New("type")} /\ held' = held \cup {New("type")} /\ made' = made + 1
        /\ UNCHANGED <<libraries, counted, freelist, backend, call, returned>>
    BY <1>2 DEF stp_type, StpCall, MakesTerm, Makes, calls, Flow, StpFlow, StpPlaces
  <2>2. PICK h \in Handles : /\ h = New("type") /\ h.lib = backend /\ h.call = call
                             /\ h.n = made + 1 /\ h.kind = "type"
    BY NewFacts DEF Singles, Kinds
  <2>3. HandlesOk'
    BY <1>0, <2>1, <2>2, MakesKeeps DEF Singles
  <2>4. ListOk'
    BY <2>1, <2>2, ListKept DEF HandlesOk
  <2>5. CallsRight'
    BY <1>0, <1>2, <2>1 DEF stp_type, StpCall, Passes
  <2>6. h # False /\ held' = held \cup {h}
    BY <1>0, <2>1, <2>2 DEF Fixed
  <2>7. Flow'
    BY <1>0, <2>1, <2>6 DEF libraries, Flow, Start_, Y2Flow, Z3Flow, StpFlow, StpPlaces, False
  <2>. QED  BY <2>3, <2>4, <2>5, <2>7
<1>3. ASSUME \/ \E t \in Held("type") : stp_varExpr(t)
             \/ \E args \in Arguments : stp_boolExpr(args) \/ stp_bvExpr(args)
             \/ stp_bvConst
             \/ \E l, r \in Held("term") : stp_bvCompare(l, r) \/ stp_bvSizedExpr(l, r)
             \/ \E l, r \in Held("term"), right \in Registers : stp_bvOrAndExpr(l, r, right)
             \/ \E e \in Held("term") : stp_bvNotExpr(e) \/ stp_getCounterExample(e)
             \/ \E v \in Held("value") : stp_split(v)
      PROVE  IInv'
  <2>0. /\ \A args \in Arguments : args \subseteq live
        /\ Held("term") \subseteq live /\ Held("type") \subseteq live /\ Held("value") \subseteq live
    BY <1>0 DEF Arguments, Held
  <2>1. PICK kind \in {"term", "value"} :
          /\ backend = "stp" /\ Context \in held
          /\ pc \in {"build", "operands", "values"} /\ pc' \in {"build", "values"}
          /\ pc' = "build" => pc \in {"build", "operands"}
          /\ live' = live \cup {New(kind)} /\ held' = held \cup {New(kind)} /\ made' = made + 1
          /\ gc(New(kind))
          /\ UNCHANGED <<libraries, counted, backend, call, returned>>
    BY <1>3 DEF stp_varExpr, stp_boolExpr, stp_bvNotExpr, stp_bvExpr, stp_bvConst, stp_bvCompare, stp_bvSizedExpr,
                stp_bvOrAndExpr, stp_getCounterExample, stp_split, MakesExpr, StpMakes, StpCall,
                MakesTerm, Makes, Goto, calls, Flow, StpFlow, StpPlaces
  <2>2. PICK h \in Handles : /\ h = New(kind) /\ h.lib = backend /\ h.call = call
                             /\ h.n = made + 1 /\ h.kind = kind
    BY NewFacts DEF Singles, Kinds
  <2>3. HandlesOk'
    BY <1>0, <2>1, <2>2, MakesKeeps DEF Singles
  <2>4. ListOk'
    <3>1. h \notin live
      BY <1>0, <2>1, <2>2 DEF HandlesOk, Own
    <3>2. CheckerOf(h) = Context
      BY <2>2, CheckerFacts
    <3>. QED  BY <1>0, <2>1, <2>2, <3>1, <3>2, ListGrows
  <2>5. CallsRight'
    <3>1. CASE \E l, r \in Held("term"), right \in Registers : stp_bvOrAndExpr(l, r, right)
      BY <1>0, <2>1, <3>1 DEF stp_bvOrAndExpr, Misreads, Misbound
    <3>2. CASE ~\E l, r \in Held("term"), right \in Registers : stp_bvOrAndExpr(l, r, right)
      BY <1>0, <1>3, <2>0, <2>1, <3>2
         DEF stp_varExpr, stp_boolExpr, stp_bvNotExpr, stp_bvExpr, stp_bvConst, stp_bvCompare, stp_bvSizedExpr,
             stp_getCounterExample, stp_split, MakesExpr, StpCall, Passes
    <3>. QED  BY <3>1, <3>2
  <2>6. h # False /\ held' = held \cup {h}
    BY <1>0, <2>1, <2>2 DEF Fixed
  <2>7. Flow'
    BY <1>0, <2>1, <2>6 DEF libraries, Flow, Start_, Y2Flow, Z3Flow, StpFlow, StpPlaces, False
  <2>. QED  BY <2>3, <2>4, <2>5, <2>7
<1>4. ASSUME \/ \E e \in Held("term") : stp_assertFormula(e)
             \/ \E v \in Held("value") : stp_get_value(v)
             \/ stp_query
      PROVE  IInv'
  <2>1. /\ backend = "stp" /\ Context \in held
        /\ Held("term") \subseteq live /\ Held("value") \subseteq live
        /\ pc \in {"build", "query", "values"} /\ pc' \in {"check", "cleanup", "values"}
        /\ pc = "query" => False \in held
        /\ pc' = "check" => pc = "build"
        /\ UNCHANGED <<libraries, counted, freelist, backend, call, returned, live, held, made>>
    BY <1>0, <1>4 DEF stp_assertFormula, stp_query, stp_get_value, StpCall, Goto, calls, Held,
                      Flow, StpFlow, StpPlaces, False
  <2>2. HandlesOk'
    BY <2>1, SameKeeps
  <2>3. ListOk'
    BY <2>1, ListKept DEF HandlesOk
  <2>4. CallsRight'
    BY <1>0, <1>4, <2>1 DEF stp_assertFormula, stp_query, stp_get_value, StpCall, Passes, Goto, False
  <2>5. Flow'
    BY <1>0, <2>1 DEF libraries, Flow, Start_, Y2Flow, Z3Flow, StpFlow, StpPlaces, False
  <2>. QED  BY <2>2, <2>3, <2>4, <2>5
<1>5. CASE stp_falseExpr
  <2>1. /\ backend = "stp" /\ pc = "check" /\ pc' = "query" /\ Context \in held /\ False \notin held
        /\ live' = live \cup {False} /\ held' = held \cup {False} /\ gc(False)
        /\ UNCHANGED <<libraries, counted, backend, call, returned, made>>
    BY <1>5 DEF stp_falseExpr, StpCall, Goto, Makes, calls, Flow, StpFlow, StpPlaces, False
  <2>2. HandlesOk'
    BY <1>0, <2>1, MakesKeeps DEF Fixed
  <2>3. ListOk'
    <3>1. False \notin live
      BY <1>0, <2>1 DEF HandlesOk, Fixed
    <3>2. CheckerOf(False) = Context
      BY <1>0, <2>1, CheckerFacts DEF Fixed
    <3>. QED  BY <1>0, <2>1, <3>1, <3>2, ListGrows DEF Fixed
  <2>4. CallsRight'
    BY <1>0, <1>5, <2>1 DEF stp_falseExpr, StpCall, Passes
  <2>5. Flow'
    BY <1>0, <2>1 DEF libraries, Flow, Start_, Y2Flow, Z3Flow, StpFlow, StpPlaces, False
  <2>. QED  BY <2>2, <2>3, <2>4, <2>5
<1>6. CASE stp_Destroy
  <2>1. /\ backend = "stp" /\ pc \in {"values", "cleanup"} /\ pc' = "idle" /\ held' = {}
        /\ Context \in held /\ freelist' = <<>>
        /\ live' = (live \ ToSet(freelist)) \ ({Context} \cup Held("type"))
        /\ returned' = returned \cup {call}
        /\ UNCHANGED <<libraries, counted, backend, call, made>>
    BY <1>6 DEF stp_Destroy, vc_Destroy, Returns, Goto, Flow, StpFlow, StpPlaces
  <2>2. \A h \in live' : h.call # call
    <3>1. SUFFICES ASSUME NEW h \in live', h.call = call PROVE FALSE
      OBVIOUS
    <3>2. h \in live /\ h \in held /\ h \in Handles /\ h.lib = "stp" /\ h \notin Expressions
      BY <2>1, <3>1 DEF HandlesOk, Own, ListOk
    <3>3. h.kind = "context"
      BY <2>1, <3>1, <3>2 DEF Held, Expressions
    <3>4. h.n = 0
      BY <3>2, <3>3 DEF HandlesOk, Own, Singles
    <3>. QED  BY <2>1, <3>1, <3>2, <3>3, <3>4, HandleFacts
  <2>3. HandlesOk'
    BY <2>1, <2>2 DEF HandlesOk, Own
  <2>4. ListOk'
    <3>1. Expressions' = {}
      BY <2>1 DEF ListOk, Expressions
    <3>. QED  BY <2>1, <3>1 DEF ListOk, ToSet
  <2>5. CallsRight'
    <3>1. Deletable(freelist, live)
      BY DEF Deletable, ListOk, CheckerOf, Expressions
    <3>2. {Context} \cup Held("type") \subseteq live \ ToSet(freelist)
      BY <1>0, <2>1 DEF ListOk, Expressions, Held, Fixed
    <3>. QED  BY <1>6, <3>1, <3>2 DEF stp_Destroy
  <2>6. Flow'
    BY <2>1 DEF Flow, Start_, Y2Flow, Z3Flow, StpFlow, StpPlaces
  <2>. QED  BY <2>3, <2>4, <2>5, <2>6
<1>7. ASSUME NEW l \in Held("term"), stp_getBVLength(l) PROVE IInv'
  <2>1. /\ backend = "stp" /\ pc = "build" /\ pc' = "operands" /\ Context \in held
        /\ UNCHANGED <<libraries, counted, freelist, backend, call, returned, live, held, made>>
    BY <1>7 DEF stp_getBVLength, Goto, calls, Flow, StpFlow, StpPlaces
  <2>2. HandlesOk'
    BY <2>1, SameKeeps
  <2>3. ListOk'
    BY <2>1, ListKept DEF HandlesOk
  <2>4. CallsRight'
    BY <1>7 DEF stp_getBVLength, Misreads, Misbound
  <2>5. Flow'
    BY <1>0, <2>1 DEF libraries, Flow, Start_, Y2Flow, Z3Flow, StpFlow, StpPlaces, False
  <2>. QED  BY <2>2, <2>3, <2>4, <2>5
<1>. QED  BY <1>1, <1>2, <1>3, <1>4, <1>5, <1>6, <1>7 DEF StpNext

-----------------------------------------------------------------------------
LEMMA StutterInv ==
  ASSUME IInv, UNCHANGED vars
  PROVE  IInv'
<1>1. HandlesOk'
  BY DEF IInv, HandlesOk, Own, vars
<1>2. ListOk'
  BY ListKept DEF IInv, HandlesOk, vars
<1>3. Flow' /\ CallsRight'
  BY DEF IInv, CallsRight, vars, Flow, Start_, Y2Flow, Z3Flow, StpFlow, Y2Places, Z3Places, StpPlaces,
         Config, Context, Solver, Model, Handle
<1>. QED  BY <1>1, <1>2, <1>3 DEF IInv

(***************************************************************************)
(* Every call holds what it made, every place has the handles the backend  *)
(* means to pass, no call went wrong but those of the misbound functions,  *)
(* and the list is that of the expressions: whatever the backends of       *)
(* earlier calls were and wherever they were cut short (y2.c, z3.c,        *)
(* stp.cc and the backends that call them).                                *)
(***************************************************************************)
THEOREM Invariance == Spec => []IInv
<1>1. IInv /\ [Next]_vars => IInv'
  BY BetweenInv, Yices2Inv, Z3Inv, StpInv, StutterInv DEF Next
<1>. QED  BY InitInv, <1>1, PTL DEF Spec

(***************************************************************************)
(* But for the calls of the misbound functions: no call through            *)
(* a NULL pointer, none that passes or frees a dead handle, for any number *)
(* of calls and terms, also after calls that went wrong that way.          *)
(***************************************************************************)
THEOREM CallsAreSafeThm == Spec => []CallsAreSafe
<1>1. IInv => CallsAreSafe
  BY DEF IInv, HandlesOk, CallsRight, CallsAreSafe
<1>. QED  BY Invariance, <1>1, PTL

(***************************************************************************)
(* A call that returned left nothing, and STP's list holds each expression *)
(* that earlier calls left behind once.                                    *)
(***************************************************************************)
THEOREM EndsCleanThm == Spec => []EndsClean
<1>1. ASSUME IInv PROVE EndsClean
  <2>1. /\ freelist \in [1 .. Len(freelist) -> ToSet(freelist)] /\ Len(freelist) \in Nat
        /\ DOMAIN freelist = 1 .. Len(freelist)
    BY <1>1 DEF IInv, ListOk, ToSet
  <2>2. freelist \in Bijection(1 .. Len(freelist), ToSet(freelist))
    <3>1. IsInjective(freelist)
      BY <1>1, <2>1 DEF IInv, ListOk, IsInjective
    <3>2. \A e \in ToSet(freelist) : \E i \in 1 .. Len(freelist) : freelist[i] = e
      BY <2>1 DEF ToSet
    <3>. QED  BY <2>1, <3>1, <3>2 DEF Bijection, Injection, Surjection
  <2>3. Cardinality(ToSet(freelist)) = Len(freelist)
    BY <2>1, <2>2, FS_CountingElements DEF ExistsBijection
  <2>. QED  BY <1>1, <2>3 DEF IInv, HandlesOk, ListOk, Expressions, EndsClean
<1>. QED  BY Invariance, <1>1, PTL
=============================================================================
