----------------------------- MODULE Algorithms -----------------------------
(***************************************************************************)
(* Calls of the pure algorithms on every small input, one call at a time,  *)
(* and what each must return: the bit vectors and integers made of         *)
(* booleans (Bits.tla, GuardedIntegers.tla), the symbolic Int (IntFF.tla), *)
(* the sort of the SAT solver (Sort.tla) and its clause memory             *)
(* (Region.tla).                                                           *)
(***************************************************************************)
EXTENDS Integers, Sequences, FiniteSets

CONSTANTS
  Width,      \* bits of an Int
  Cutoff,     \* arrays this short are sorted by selection
  WordBits,   \* bits of a size of the clause memory
  StartCap,   \* its first capacity (1024 * 1024)
  MaxWidth,   \* bound: bits of a bit vector
  MaxTerms,   \* bound: values a guarded Integer may have
  MaxLength,  \* bound: elements of an array
  MaxSize     \* bound: words of one clause

ASSUME AlgorithmsAssumption ==
  /\ Width \in Nat \ {0} /\ Cutoff \in Nat \ {0} /\ WordBits \in Nat \ {0} /\ StartCap \in Nat
  /\ MaxWidth \in Nat \ {0} /\ MaxTerms \in Nat \ {0}
  /\ MaxLength \in Nat \ {0} /\ MaxSize \in Nat \ {0}

B == INSTANCE Bits
F == INSTANCE IntFF
G == INSTANCE GuardedIntegers
S == INSTANCE Sort
R == INSTANCE Region

VARIABLE call       \* what was called, its arguments and its result

Idle == [alg |-> "none"]

-----------------------------------------------------------------------------
\* Inputs

\* Exactly one guard of m holds.
One(m) == \E k \in DOMAIN m : m[k] /\ \A j \in DOMAIN m \ {k} : ~m[j]

Ints ==
  {F!Concrete(v) : v \in F!Int_} \cup {F!Unreachable_IntFF}
  \cup {F!Symbolic_IntFF(m) : m \in UNION {{g \in [D -> BOOLEAN] : One(g)} : D \in SUBSET F!Int_}}

Guards ==
  {[class |-> "true", holds |-> TRUE], [class |-> "false", holds |-> FALSE],
   [class |-> "unreachable", holds |-> FALSE]}
  \cup [class : {"symbolic"}, holds : BOOLEAN]

\* minBound quot -1 and minBound rem -1 are undefined.
Defined(op, a, b) ==
  op \in {"quot", "rem"} => ~(F!minBound \in DOMAIN a.map /\ -1 \in DOMAIN b.map)

Terms ==
  {t \in UNION {[1 .. n -> [guard : BOOLEAN, value : {-1, 0, 2}]] : n \in 1 .. MaxTerms} :
     One([k \in DOMAIN t |-> t[k].guard])}

Clauses == {[size |-> 2, activity |-> 1]} \cup [size : {3}, activity : 0 .. 2]
Arrays == UNION {[0 .. n - 1 -> Clauses] : n \in 1 .. MaxLength}

\* The capacities a region can have: those reached from none at all.
RECURSIVE Chain(_)
Chain(cap) ==
  {cap} \cup (IF cap + R!delta(cap) < 2^WordBits THEN Chain(cap + R!delta(cap)) ELSE {})
Largest == CHOOSE cap \in Chain(0) : \A other \in Chain(0) : other <= cap

-----------------------------------------------------------------------------
\* The operations by name

BitOp(op, a, b) ==
  CASE op = "eq" -> B!eq_bit(a, b)
    [] op = "leq" -> B!leq_bit(a, b)
    [] op = "add" -> B!valB(B!add_bit(a, b))
    [] op = "sub" -> B!valB(B!sub_bit(a, b))
    [] op = "or" -> B!valB(B!or_bit(a, b))
    [] op = "and" -> B!valB(B!and_bit(a, b))
    [] op = "not" -> B!valB(B!not_bit(a))
    [] op = "ite" -> <<B!valB(B!ite_bit(TRUE, a, b)), B!valB(B!ite_bit(FALSE, a, b))>>
BitOps == {"eq", "leq", "add", "sub", "or", "and", "not", "ite"}

Number(op, w, a, b) ==
  CASE op = "eq" -> a = b
    [] op = "leq" -> a <= b
    [] op = "add" -> B!bv_make(w, a + b)
    [] op = "sub" -> B!bv_make(w, a - b)
    [] op = "or" -> B!bv_or(w, a, b)
    [] op = "and" -> B!bv_and(w, a, b)
    [] op = "not" -> B!bv_complement(w, a)
    [] op = "ite" -> <<a, b>>

IntOp(op, a, b) ==
  CASE op = "eq" -> F!eq_IntFF(a, b)
    [] op = "leq" -> F!leq_IntFF(a, b)
    [] op = "geq" -> F!geq_IntFF(a, b)
    [] op = "lt" -> F!lt_IntFF(a, b)
    [] op = "gt" -> F!gt_IntFF(a, b)
IntOps == {"eq", "leq", "geq", "lt", "gt"}

Compared(op, a, b) ==
  CASE op = "eq" -> a = b [] op = "leq" -> a <= b [] op = "geq" -> a >= b
    [] op = "lt" -> a < b [] op = "gt" -> a > b

Arithmetic == {"add", "sub", "mul", "quot", "rem"}

-----------------------------------------------------------------------------
\* Calls

CallBits ==
  /\ call = Idle
  /\ \E w \in 0 .. MaxWidth, op \in BitOps : \E a, b \in 0 .. 2^w - 1 :
       call' = [alg |-> "bits", op |-> op, w |-> w, a |-> a, b |-> b,
                out |-> BitOp(op, B!intB(w, a), B!intB(w, b))]

CallConcat ==
  /\ call = Idle
  /\ \E u, w \in 0 .. MaxWidth : \E a \in 0 .. 2^u - 1, b \in 0 .. 2^w - 1 :
       call' = [alg |-> "concat", u |-> u, w |-> w, a |-> a, b |-> b,
                out |-> B!valB(B!concat_bit(B!intB(u, a), B!intB(w, b)))]

CallExtend ==
  /\ call = Idle
  /\ \E w \in 1 .. MaxWidth : \E by \in 0 .. MaxWidth, a \in 0 .. 2^w - 1 :
       call' = [alg |-> "extend", w |-> w, by |-> by, a |-> a,
                out |-> B!valB(B!sign_extend_bit(w, w + by, B!intB(w, a)))]

CallExtract ==
  /\ call = Idle
  /\ \E w \in 1 .. MaxWidth : \E hi \in 0 .. w - 1 : \E lo \in 0 .. hi, a \in 0 .. 2^w - 1 :
       call' = [alg |-> "extract", w |-> w, hi |-> hi, lo |-> lo, a |-> a,
                out |-> B!valB(B!extract_bit(hi, lo, B!intB(w, a)))]

CallCompare ==
  /\ call = Idle
  /\ \E op \in IntOps, a, b \in Ints :
       call' = [alg |-> "compare", op |-> op, a |-> a, b |-> b, out |-> IntOp(op, a, b)]

CallArithmetic ==
  /\ call = Idle
  /\ \E op \in Arithmetic, a, b \in Ints :
       /\ Defined(op, a, b)
       /\ call' = [alg |-> "arithmetic", op |-> op, a |-> a, b |-> b, out |-> F!iii(op, a, b)]

CallNegate ==
  /\ call = Idle
  /\ \E a \in Ints : call' = [alg |-> "negate", a |-> a, out |-> F!negate_IntFF(a)]

CallIte ==
  /\ call = Idle
  /\ \E p \in Guards, a, b \in Ints :
       call' = [alg |-> "ite", p |-> p, a |-> a, b |-> b, out |-> F!ite_IntFF(p, a, b)]

CallIntegers ==
  /\ call = Idle
  /\ \E p \in BOOLEAN, a, b \in Terms :
       call' = [alg |-> "integers", p |-> p, a |-> a, b |-> b,
                ite |-> G!ite_integer(p, a, b), add |-> G!add_integer(a, b),
                sub |-> G!sub_integer(a, b), eq |-> G!eq_integer(a, b),
                leq |-> G!leq_integer(a, b)]

CallSort ==
  /\ call = Idle
  /\ \E a \in Arrays :
       call' = [alg |-> "sort", a |-> a, out |-> S!sort(a, 0, Cardinality(DOMAIN a))]

CallAlloc ==
  /\ call = Idle
  /\ \E cap \in {c \in Chain(0) : c >= StartCap}, size \in 1 .. MaxSize : \E sz \in 0 .. cap :
       call' = [alg |-> "alloc", sz |-> sz, size |-> size,
                out |-> R!alloc([sz |-> sz, cap |-> cap], size)]

\* The region the collector copies to is made for the words in use.
CallCopy ==
  /\ call = Idle
  /\ \E live \in 0 .. Largest :
       call' = [alg |-> "copy", live |-> live, out |-> R!capacity(0, live)]

Return == call # Idle /\ call' = Idle

CallInit == call = Idle
CallNext ==
  \/ CallBits \/ CallConcat \/ CallExtend \/ CallExtract
  \/ CallCompare \/ CallArithmetic \/ CallNegate \/ CallIte
  \/ CallIntegers \/ CallSort \/ CallAlloc \/ CallCopy \/ Return

-----------------------------------------------------------------------------
\* Properties

\* Bit-blasted vectors against the concrete ones.
BitsRight ==
  CASE call.alg = "bits" -> call.out = Number(call.op, call.w, call.a, call.b)
    [] call.alg = "concat" -> call.out = B!bv_concat(call.u, call.a, call.w, call.b)
    [] call.alg = "extend" -> call.out = B!bv_sign_extend(call.by, call.w, call.a)
    [] call.alg = "extract" -> call.out = B!bv_extract(call.hi, call.lo, call.a)
    [] OTHER -> TRUE

\* The values an Int has under the assignment: one, or none if unreachable.
Values(x) == {k \in DOMAIN x.map : x.map[k]}

\* The value a guarded Integer has.
Term(t) == {t[k].value : k \in {j \in DOMAIN t : t[j].guard}}

\* Symbolic integers against integers; if chooses freely only where the chosen
\* branch is unreachable.
IntsRight ==
  CASE call.alg = "compare" ->
         call.out = {Compared(call.op, x, y) : x \in Values(call.a), y \in Values(call.b)}
    [] call.alg = "arithmetic" ->
         Values(call.out) =
           {F!Primitive(call.op, x, y) : x \in Values(call.a), y \in Values(call.b)}
    [] call.alg = "negate" -> Values(call.out) = {F!Wrap(-x) : x \in Values(call.a)}
    [] call.alg = "ite" ->
         LET chosen == Values(IF call.p.holds THEN call.a ELSE call.b)
         IN IF call.p.class = "unreachable" THEN Values(call.out) = {}
            ELSE chosen # {} => Values(call.out) = chosen
    [] call.alg = "integers" ->
         \A x \in Term(call.a), y \in Term(call.b) :
           /\ Term(call.ite) = {IF call.p THEN x ELSE y}
           /\ Term(call.add) = {x + y} /\ Term(call.sub) = {x - y}
           /\ call.eq = (x = y) /\ call.leq = (x <= y)
    [] OTHER -> TRUE

(***************************************************************************)
(* Numbers made of formulas are numbers under every assignment.  What the  *)
(* solver is told of a bit vector is what Bit.hs computes when the same    *)
(* operation is folded instead, at every width from 0, through the carry   *)
(* chain, the comparison from the other end of the list and the sign bit   *)
(* (Bits.hs); symbolic integers compute what integers do, through the      *)
(* comparisons that split or merge their lists of values, the shortcuts    *)
(* for concrete arguments and the ends of the range, and keep exactly one  *)
(* guard that holds (IntFF.hs, Integers.hs).                               *)
(***************************************************************************)
NumbersRight == BitsRight /\ IntsRight

\* Long clauses by activity, then the binary ones.
Place(c) == IF c.size = 2 THEN 3 ELSE c.activity
Occurrences(a, c) == Cardinality({k \in DOMAIN a : a[k] = c})

\* reduceDB's sort returns its array complete and in order.
SortRight ==
  call.alg = "sort" =>
    /\ DOMAIN call.out = DOMAIN call.a
    /\ \A c \in Clauses : Occurrences(call.out, c) = Occurrences(call.a, c)
    /\ \A k \in DOMAIN call.a \ {0} : Place(call.out[k - 1]) <= Place(call.out[k])

\* A region makes room, unless no capacity has it.
RegionRight ==
  CASE call.alg = "alloc" ->
         IF call.out.cap = R!OutOfMemory THEN call.sz + call.size > Largest
         ELSE call.out.sz = call.sz + call.size /\ call.out.sz <= call.out.cap
    [] call.alg = "copy" -> call.live <= call.out /\ call.out \in Chain(0)
    [] OTHER -> TRUE

(***************************************************************************)
(* The solver's clauses stay within their memory: no scan of the sort      *)
(* leaves the array, for which the order it is given must be strict        *)
(* (Sort.h sort, Solver.cc reduceDB_lt), and the region hands out no word  *)
(* twice or beyond its end, also where the sizes are about to overflow     *)
(* (Alloc.h capacity, alloc).                                              *)
(***************************************************************************)
StorageRight == SortRight /\ RegionRight
=============================================================================
