-------------------------------- MODULE Bits --------------------------------
(***************************************************************************)
(* Bit vectors for a backend that has none (Smten.Runtime.Bits): a list of *)
(* boolean formulas, least significant first.  Every formula is made with  *)
(* the pointwise operations of SolverAST, so one assignment is fixed here  *)
(* and a formula is its value under it.  Below, the concrete bit vectors   *)
(* of Smten.Runtime.Bit, which the compiler's own folding uses, as numbers *)
(* with a width.                                                           *)
(*                                                                         *)
(* mul, the divisions and the shifts are errors in Bits.hs.                *)
(***************************************************************************)
EXTENDS Integers, Sequences

LOCAL INSTANCE Bitwise

eq_bool(a, b) == IF a THEN b ELSE ~b
xor_bool(a, b) == IF a THEN ~b ELSE b
and_bools(xs) == \A k \in DOMAIN xs : xs[k]
or_bools(xs) == \E k \in DOMAIN xs : xs[k]

Zip(Op(_, _), a, b) == [k \in DOMAIN a |-> Op(a[k], b[k])]

RECURSIVE valB(_)
valB(x) == IF x = <<>> THEN 0 ELSE (IF Head(x) THEN 1 ELSE 0) + 2 * valB(Tail(x))
intB(w, v) == [k \in 1 .. w |-> (v \div 2^(k - 1)) % 2 = 1]

ite_bit(p, a, b) == Zip(LAMBDA x, y : IF p THEN x ELSE y, a, b)
eq_bit(a, b) == and_bools(Zip(eq_bool, a, b))

RECURSIVE msbleq(_, _)
msbleq(a, b) ==
  IF a = <<>> THEN TRUE
  ELSE IF eq_bool(Head(a), Head(b)) THEN msbleq(Tail(a), Tail(b)) ELSE Head(b)

msbFirst(x) == [k \in DOMAIN x |-> x[Len(x) + 1 - k]]

leq_bit(a, b) == msbleq(msbFirst(a), msbFirst(b))

RECURSIVE add(_, _, _)
add(c, a, b) ==
  IF a = <<>> THEN <<>>
  ELSE <<xor_bool(c, xor_bool(Head(a), Head(b)))>>
       \o add(or_bools(<<c /\ Head(a), c /\ Head(b), Head(a) /\ Head(b)>>), Tail(a), Tail(b))

add_bit(a, b) == add(FALSE, a, b)
not_bit(x) == [k \in DOMAIN x |-> ~x[k]]
sub_bit(a, b) == add(TRUE, a, not_bit(b))
or_bit(a, b) == Zip(LAMBDA x, y : x \/ y, a, b)
and_bit(a, b) == Zip(LAMBDA x, y : x /\ y, a, b)
concat_bit(a, b) == b \o a
sign_extend_bit(fr, to, x) == x \o [k \in 1 .. to - fr |-> x[Len(x)]]
extract_bit(hi, lo, x) == SubSeq(x, lo + 1, hi + 1)

-----------------------------------------------------------------------------
\* Bit.hs: a number v of width w

bv_make(w, v) == v % 2^w
bv_and(w, a, b) == bv_make(w, a & b)
bv_or(w, a, b) == bv_make(w, a | b)
bv_complement(w, a) == bv_make(w, -a - 1)
bv_signed_value(w, a) == IF (a \div 2^(w - 1)) % 2 = 1 THEN a - 2^w ELSE a
bv_sign_extend(n, w, a) == bv_make(w + n, bv_signed_value(w, a))
bv_concat(aw, a, bw, b) == bv_or(aw + bw, bv_make(aw + bw, a * 2^bw), b)
bv_extract(hi, lo, a) == bv_make(hi - lo + 1, a \div 2^lo)
=============================================================================
