------------------------------- MODULE Region -------------------------------
(***************************************************************************)
(* The region all clauses live in (minisat/mtl/Alloc.h): sz words are in   *)
(* use of the cap words allocated, both unsigned of WordBits bits.  The    *)
(* capacity grows by a factor of about 13/8 until it is enough; one that   *)
(* is no more than it was before has overflown.                            *)
(***************************************************************************)
EXTENDS Integers

CONSTANT WordBits     \* bits of a size (32)

Unsigned(n) == n % 2^WordBits
OutOfMemory == -1

\* ((cap >> 1) + (cap >> 3) + 2) & ~1
delta(cap) == 2 * ((cap \div 2 + cap \div 8 + 2) \div 2)

RECURSIVE Grown(_, _, _)
Grown(cap, prev_cap, min_cap) ==
  IF cap >= min_cap THEN cap
  ELSE IF Unsigned(cap + delta(cap)) <= prev_cap THEN OutOfMemory
  ELSE Grown(Unsigned(cap + delta(cap)), prev_cap, min_cap)
capacity(cap, min_cap) == Grown(cap, cap, min_cap)

(***************************************************************************)
(* The words from sz on are the caller's.                                  *)
(***************************************************************************)
alloc(r, size) ==
  LET cap == capacity(r.cap, Unsigned(r.sz + size))
      sz == Unsigned(r.sz + size)
  IN IF cap = OutOfMemory \/ sz < r.sz THEN [sz |-> r.sz, cap |-> OutOfMemory]
     ELSE [sz |-> sz, cap |-> cap]
=============================================================================
