----------------------------- MODULE CdclProofs -----------------------------
(***************************************************************************)
(* The structure of the SAT solver is invariant: trail, levels, reasons,   *)
(* clauses and watch lists, one lemma per action.                          *)
(* First what the operators of Cdcl compute: literals and their values,    *)
(* least elements, the enumeration of a finite set of numbers, selections  *)
(* from a sequence, and the addresses the garbage collector gives.  Then   *)
(* what the actions of analyze, minimize and litRedundant make of a        *)
(* clause, turn by turn; the collector renames the clauses one to one.     *)
(***************************************************************************)
EXTENDS CdclInv, FiniteSetTheorems, WellFoundedInduction, TLAPS

-----------------------------------------------------------------------------
(***************************************************************************)
(* Literals.                                                               *)
(***************************************************************************)
LEMMA LitFacts ==
  ASSUME NEW p \in Nat
  PROVE  /\ var(p) \in Nat /\ sign(p) \in 0 .. 1 /\ p = 2 * var(p) + sign(p)
         /\ neg(p) \in Nat /\ var(neg(p)) = var(p) /\ neg(neg(p)) = p /\ neg(p) # p
         /\ sign(neg(p)) = 1 - sign(p)
BY DEF var, sign, neg

LEMMA SameVar ==
  ASSUME NEW p \in Nat, NEW q \in Nat, var(p) = var(q) PROVE p = q \/ p = neg(q)
BY DEF var, sign, neg

LEMMA LitMade ==
  ASSUME NEW v \in Nat, NEW s \in 0 .. 1 PROVE var(2 * v + s) = v /\ sign(2 * v + s) = s
BY DEF var, sign

LEMMA Literals ==
  ASSUME VarsType
  PROVE  /\ Var = 0 .. nVars - 1 /\ Lit = 0 .. 2 * nVars - 1 /\ nVars \in Nat
         /\ \A v \in Var : v \in Nat
         /\ \A v \in Nat : v \in Var <=> v < nVars
         /\ \A p \in Lit : p \in Nat /\ var(p) \in Var /\ neg(p) \in Lit
         /\ \A p \in Nat : var(p) \in Var => p \in Lit
<1>1. nVars \in Nat /\ Var = 0 .. nVars - 1 /\ Lit = 0 .. 2 * nVars - 1
  BY DEF VarsType, Var, Lit
<1>2. ASSUME NEW p \in Lit PROVE p \in Nat /\ var(p) \in Var /\ neg(p) \in Lit
  <2> DEFINE v == var(p)
             s == sign(p)
  <2>1. p \in Nat
    BY <1>1
  <2>2. v \in Nat /\ s \in 0 .. 1 /\ p = 2 * v + s /\ p <= 2 * nVars - 1
    <3>1. v \in Nat /\ s \in 0 .. 1 /\ p = 2 * v + s
      BY <2>1, LitFacts
    <3> HIDE DEF v, s
    <3> QED
      BY <1>1, <3>1
  <2>3. v < nVars
    <3> HIDE DEF v, s
    <3> QED
      BY <1>1, <2>2
  <2>4. var(neg(p)) = v /\ neg(p) \in Nat /\ sign(neg(p)) \in 0 .. 1
        /\ neg(p) = 2 * var(neg(p)) + sign(neg(p))
    BY <2>1, LitFacts
  <2> DEFINE t == sign(neg(p))
             r == neg(p)
  <2>5. r = 2 * v + t /\ t \in 0 .. 1 /\ r \in Nat
    BY <2>4
  <2>6. r \in 0 .. 2 * nVars - 1
    <3> HIDE DEF v, t, r
    <3> QED
      BY <1>1, <2>2, <2>3, <2>5
  <2>7. v \in 0 .. nVars - 1
    <3> HIDE DEF v
    <3> QED
      BY <1>1, <2>2, <2>3
  <2> QED
    BY <1>1, <2>1, <2>6, <2>7
<1>3. ASSUME NEW p \in Nat, var(p) \in Var PROVE p \in Lit
  <2> DEFINE v == var(p)
             s == sign(p)
  <2>1. v \in 0 .. nVars - 1 /\ s \in 0 .. 1 /\ p = 2 * v + s
    BY <1>1, <1>3, LitFacts
  <2> HIDE DEF v, s
  <2> QED
    BY <1>1, <2>1
<1> QED
  BY <1>1, <1>2, <1>3

(***************************************************************************)
(* Values under an assignment.                                             *)
(***************************************************************************)
LEMMA ValueIs ==
  ASSUME NEW p \in Nat, assigns[var(p)] \in 0 .. 2
  PROVE  /\ value(p) = l_True <=> assigns[var(p)] = sign(p)
         /\ value(p) = l_False <=> assigns[var(p)] = 1 - sign(p)
         /\ value(p) = l_Undef <=> assigns[var(p)] = l_Undef
         /\ value(p) \in {l_True, l_False, l_Undef}
<1> DEFINE a == assigns[var(p)]
           s == sign(p)
<1>1. a \in {0, 1, 2} /\ s \in {0, 1}
  BY LitFacts
<1>2. value(p) = IF a = 2 THEN 2 ELSE (a + s) % 2
  BY DEF value, l_Undef
<1>3. /\ value(p) = l_True <=> a = s
      /\ value(p) = l_False <=> a = 1 - s
      /\ value(p) = l_Undef <=> a = l_Undef
      /\ value(p) \in {l_True, l_False, l_Undef}
  <2> DEFINE x == value(p)
  <2>1. x = IF a = 2 THEN 2 ELSE (a + s) % 2
    BY <1>2
  <2> HIDE DEF a, s, x
  <2>2. /\ x = l_True <=> a = s
        /\ x = l_False <=> a = 1 - s
        /\ x = l_Undef <=> a = l_Undef
        /\ x \in {l_True, l_False, l_Undef}
    <3>1. CASE a = 2
      BY <1>1, <2>1, <3>1 DEF l_Undef, l_True, l_False
    <3>2. CASE a = 0
      BY <1>1, <2>1, <3>2 DEF l_Undef, l_True, l_False
    <3>3. CASE a = 1
      BY <1>1, <2>1, <3>3 DEF l_Undef, l_True, l_False
    <3> QED
      BY <1>1, <3>1, <3>2, <3>3
  <2> QED
    BY <2>2 DEF x
<1> QED
  BY <1>3

LEMMA ValueNeg ==
  ASSUME NEW p \in Nat, assigns[var(p)] \in 0 .. 2
  PROVE  /\ value(neg(p)) = l_True <=> value(p) = l_False
         /\ value(neg(p)) = l_False <=> value(p) = l_True
         /\ value(neg(p)) = l_Undef <=> value(p) = l_Undef
<1> DEFINE a == assigns[var(p)]
<1>1. neg(p) \in Nat /\ var(neg(p)) = var(p) /\ sign(neg(p)) = 1 - sign(p) /\ sign(p) \in 0 .. 1
  BY LitFacts
<1>2. /\ value(p) = l_True <=> a = sign(p)
      /\ value(p) = l_False <=> a = 1 - sign(p)
      /\ value(p) = l_Undef <=> a = l_Undef
  BY ValueIs
<1>3. /\ value(neg(p)) = l_True <=> a = sign(neg(p))
      /\ value(neg(p)) = l_False <=> a = 1 - sign(neg(p))
      /\ value(neg(p)) = l_Undef <=> a = l_Undef
  BY <1>1, ValueIs
<1> HIDE DEF a
<1> QED
  BY <1>1, <1>2, <1>3

LEMMA TruthValues == l_True # l_False /\ l_True # l_Undef /\ l_False # l_Undef
BY DEF l_True, l_False, l_Undef

-----------------------------------------------------------------------------
(***************************************************************************)
(* Least and greatest elements.                                            *)
(***************************************************************************)
LEMMA NatMin ==
  ASSUME NEW T, T \subseteq Nat, T # {} PROVE \E x \in T : \A y \in T : x <= y
<1>1. PICK R : R = OpToRel(<, Nat)
  OBVIOUS
<1>2. IsWellFoundedOn(R, Nat)
  BY <1>1, NatLessThanWellFounded, Zenon
<1>3. \A x, y \in Nat : y < x => <<y, x>> \in R
  BY <1>1 DEF OpToRel
<1>4. PICK x \in T : \A y \in T : ~(<<y, x>> \in R)
  BY <1>2, WFMin
<1>5. ASSUME NEW y \in T PROVE x <= y
  <2>1. ~(y < x)
    BY <1>3, <1>4
  <2> QED
    BY <2>1
<1> QED
  BY <1>5

LEMMA NatMax ==
  ASSUME NEW T, T \subseteq Nat, T # {}, NEW n \in Nat, \A y \in T : y <= n
  PROVE  \E x \in T : \A y \in T : y <= x
<1> DEFINE U == {n - y : y \in T}
<1>1. U \subseteq Nat /\ U # {}
  <2>1. ASSUME NEW y \in T PROVE n - y \in Nat
    <3>1. y \in Nat /\ y <= n
      OBVIOUS
    <3> QED
      BY <3>1
  <2> QED
    BY <2>1
<1> HIDE DEF U
<1>2. PICK u \in U : \A w \in U : u <= w
  BY <1>1, NatMin
<1>3. PICK x \in T : u = n - x
  BY DEF U
<1>4. ASSUME NEW y \in T PROVE y <= x
  <2>1. n - y \in U
    BY DEF U
  <2>2. n - x <= n - y
    BY <1>2, <1>3, <2>1
  <2>3. x \in Nat /\ y \in Nat
    OBVIOUS
  <2> QED
    BY <2>2, <2>3
<1> QED
  BY <1>4

LEMMA MaxIs ==
  ASSUME NEW T, T \subseteq Nat, T # {}, NEW n \in Nat, \A y \in T : y <= n
  PROVE  Max(T) \in T /\ \A y \in T : y <= Max(T)
<1>1. PICK x \in T : \A y \in T : y <= x
  BY NatMax
<1>2. \E z \in T : \A y \in T : z >= y
  BY <1>1
<1>3. Max(T) \in T /\ \A y \in T : Max(T) >= y
  BY <1>2 DEF Max
<1> QED
  BY <1>3

LEMMA MinIs ==
  ASSUME NEW T, T \subseteq Nat, T # {} PROVE Min(T) \in T /\ \A y \in T : Min(T) <= y
<1>1. \E x \in T : \A y \in T : x =< y
  BY NatMin
<1> QED
  BY <1>1 DEF Min

-----------------------------------------------------------------------------
(***************************************************************************)
(* A finite set whose elements have growing sets D[x] of elements up to x: *)
(* the size of D[x] numbers them.                                          *)
(***************************************************************************)
LEMMA Numbering ==
  ASSUME NEW S, IsFiniteSet(S), NEW D \in [S -> SUBSET S], \A x \in S : x \in D[x],
         \A x, y \in S : x # y => \/ D[x] \subseteq D[y] /\ y \notin D[x]
                                  \/ D[y] \subseteq D[x] /\ x \notin D[y]
  PROVE  /\ Cardinality(S) \in Nat
         /\ \A x \in S : Cardinality(D[x]) \in 1 .. Cardinality(S)
         /\ \A x, y \in S : Cardinality(D[x]) = Cardinality(D[y]) => x = y
         /\ \A k \in 1 .. Cardinality(S) : \E x \in S : Cardinality(D[x]) = k
<1> DEFINE n == Cardinality(S)
           r == [x \in S |-> Cardinality(D[x])]
<1>1. n \in Nat
  BY FS_CardinalityType
<1>2. ASSUME NEW x \in S
      PROVE  IsFiniteSet(D[x]) /\ Cardinality(D[x]) \in Nat /\ Cardinality(D[x]) \in 1 .. n
  <2> DEFINE m == Cardinality(D[x])
  <2>1. IsFiniteSet(D[x]) /\ m <= n
    BY FS_Subset
  <2>2. m \in Nat /\ m # 0
    BY <2>1, FS_CardinalityType, FS_EmptySet
  <2>3. m \in 1 .. n
    <3> HIDE DEF m, n
    <3> QED
      BY <1>1, <2>1, <2>2
  <2> QED
    BY <2>1, <2>2, <2>3
<1>3. ASSUME NEW x \in S, NEW y \in S, D[x] \subseteq D[y], y \notin D[x]
      PROVE  Cardinality(D[x]) # Cardinality(D[y])
  <2>1. D[x] # D[y] /\ IsFiniteSet(D[y])
    BY <1>2, <1>3
  <2>2. Cardinality(D[y]) = Cardinality(D[x]) => D[y] = D[x]
    BY <1>3, <2>1, FS_Subset
  <2> QED
    BY <2>1, <2>2
<1>4. \A x, y \in S : Cardinality(D[x]) = Cardinality(D[y]) => x = y
  BY <1>3
<1>5. r \in [S -> 1 .. n] /\ \A x \in S : r[x] = Cardinality(D[x])
  BY <1>2
<1> HIDE DEF r, n
<1>6. r \in Injection(S, 1 .. n)
  BY <1>4, <1>5 DEF Injection, IsInjective
<1>7. IsFiniteSet(1 .. n) /\ Cardinality(1 .. n) = n
  BY <1>1, FS_Interval
<1>8. r \in Surjection(S, 1 .. n)
  BY <1>6, <1>7, FS_Injection DEF n
<1>9. \A k \in 1 .. n : \E x \in S : r[x] = k
  BY <1>8 DEF Surjection
<1> QED
  BY <1>1, <1>2, <1>4, <1>5, <1>9 DEF n

(***************************************************************************)
(* Ascending lists each element of a finite set of numbers once.           *)
(***************************************************************************)
LEMMA AscendingIs ==
  ASSUME NEW S, S \subseteq Nat, IsFiniteSet(S), NEW a, a = Ascending(S)
  PROVE  /\ Cardinality(S) \in Nat /\ a \in Seq(S) /\ Len(a) = Cardinality(S)
         /\ \A j, k \in 1 .. Cardinality(S) : a[j] = a[k] => j = k
         /\ \A x \in S : \E k \in 1 .. Cardinality(S) : a[k] = x
<1> DEFINE n == Cardinality(S)
<1>a. PICK D : D = [x \in S |-> {y \in S : y <= x}]
  OBVIOUS
<1>b. /\ D \in [S -> SUBSET S] /\ \A x \in S : x \in Nat
      /\ \A x, z \in S : z \in D[x] <=> z <= x
  BY <1>a
<1>1. \A x \in S : x \in D[x]
  BY <1>b
<1>2. ASSUME NEW x \in S, NEW y \in S, x # y
      PROVE  \/ D[x] \subseteq D[y] /\ y \notin D[x]
             \/ D[y] \subseteq D[x] /\ x \notin D[y]
  <2>1. x \in Nat /\ y \in Nat /\ D[x] \subseteq S /\ D[y] \subseteq S
    BY <1>b
  <2>2. CASE x < y
    <3>1. \A z \in D[x] : z <= y
      BY <1>b, <2>1, <2>2
    <3>2. ~(y <= x)
      BY <2>1, <2>2
    <3> QED
      BY <1>b, <2>1, <3>1, <3>2
  <2>3. CASE y < x
    <3>1. \A z \in D[y] : z <= x
      BY <1>b, <2>1, <2>3
    <3>2. ~(x <= y)
      BY <2>1, <2>3
    <3> QED
      BY <1>b, <2>1, <3>1, <3>2
  <2>4. x < y \/ y < x
    BY <1>2, <2>1
  <2> QED
    BY <2>2, <2>3, <2>4
<1>3. /\ n \in Nat
      /\ \A x \in S : Cardinality(D[x]) \in 1 .. n
      /\ \A x, y \in S : Cardinality(D[x]) = Cardinality(D[y]) => x = y
      /\ \A k \in 1 .. n : \E x \in S : Cardinality(D[x]) = k
  <2>1. IsFiniteSet(S) /\ D \in [S -> SUBSET S]
    BY <1>b
  <2>2. \A x, y \in S : x # y => \/ D[x] \subseteq D[y] /\ y \notin D[x]
                                 \/ D[y] \subseteq D[x] /\ x \notin D[y]
    BY <1>2
  <2> QED
    BY <1>1, <2>1, <2>2, Numbering, Zenon
<1>4. ASSUME NEW x \in S PROVE Cardinality({y \in S : y < x}) = Cardinality(D[x]) - 1
  <2>1. PICK E : E = {y \in S : y < x}
    OBVIOUS
  <2>2. E \in SUBSET S /\ x \notin E
    BY <1>b, <2>1
  <2>3. IsFiniteSet(E)
    BY <2>2, FS_Subset, Zenon
  <2>4. D[x] = E \cup {x}
    <3>1. D[x] \subseteq S
      BY <1>b
    <3>2. \A z \in S : z <= x <=> z < x \/ z = x
      BY <1>b
    <3>3. \A z \in S : z \in D[x] <=> z \in E \cup {x}
      BY <1>b, <2>1, <3>2
    <3> QED
      BY <2>2, <3>1, <3>3
  <2>5. Cardinality(D[x]) = Cardinality(E) + 1 /\ Cardinality(E) \in Nat
    BY <2>2, <2>3, <2>4, FS_AddElement, FS_CardinalityType
  <2>6. Cardinality(E) = Cardinality(D[x]) - 1
    BY <2>5
  <2> QED
    BY <2>1, <2>6
<1> HIDE DEF n
<1>5. a = [k \in 1 .. n |-> CHOOSE x \in S : Cardinality({y \in S : y < x}) = k - 1]
  BY DEF Ascending, n
<1>6. ASSUME NEW k \in 1 .. n PROVE a[k] \in S /\ Cardinality(D[a[k]]) = k
  <2>1. PICK x \in S : Cardinality(D[x]) = k
    BY <1>3
  <2>2. \E z \in S : Cardinality({y \in S : y < z}) = k - 1
    BY <1>4, <2>1
  <2>3. a[k] \in S /\ Cardinality({y \in S : y < a[k]}) = k - 1
    BY <1>5, <2>2
  <2>4. Cardinality(D[a[k]]) - 1 = k - 1 /\ Cardinality(D[a[k]]) \in 1 .. n
    BY <1>3, <1>4, <2>3
  <2> DEFINE m == Cardinality(D[a[k]])
  <2>5. m - 1 = k - 1 /\ m \in 1 .. n
    BY <2>4
  <2> HIDE DEF m
  <2>6. m = k
    BY <1>3, <2>5
  <2> QED
    BY <2>3, <2>6 DEF m
<1>7. a \in Seq(S) /\ Len(a) = n
  <2>1. a \in [1 .. n -> S]
    BY <1>5, <1>6
  <2> QED
    BY <1>3, <2>1
<1>8. \A j, k \in 1 .. n : a[j] = a[k] => j = k
  BY <1>6
<1>9. ASSUME NEW x \in S PROVE \E k \in 1 .. n : a[k] = x
  <2>1. Cardinality(D[x]) \in 1 .. n
    BY <1>3
  <2>2. PICK k \in 1 .. n : k = Cardinality(D[x])
    BY <2>1
  <2>3. a[k] = x
    BY <1>3, <1>6, <2>2
  <2> QED
    BY <2>3
<1> QED
  BY <1>3, <1>7, <1>8, <1>9 DEF n

(***************************************************************************)
(* Selected keeps the chosen places of a sequence, each once.              *)
(***************************************************************************)
Picks(s, I, t, a) ==
  /\ a \in [DOMAIN t -> I]
  /\ \A k \in DOMAIN t : t[k] = s[a[k]]
  /\ \A j, k \in DOMAIN t : a[j] = a[k] => j = k
  /\ \A i \in I : \E k \in DOMAIN t : a[k] = i

LEMMA SelectedIs ==
  ASSUME NEW T, NEW s \in Seq(T), NEW I, I \subseteq DOMAIN s, NEW t, t = Selected(s, I)
  PROVE  /\ t \in Seq(T) /\ Len(t) = Cardinality(I) /\ Cardinality(I) \in Nat /\ IsFiniteSet(I)
         /\ \E a : Picks(s, I, t, a)
<1> DEFINE n == Cardinality(I)
<1>1. I \subseteq Nat /\ IsFiniteSet(I)
  <2>1. Len(s) \in Nat /\ DOMAIN s = 1 .. Len(s)
    OBVIOUS
  <2>2. IsFiniteSet(1 .. Len(s))
    BY <2>1, FS_Interval
  <2> QED
    BY <2>1, <2>2, FS_Subset
<1>2. PICK a : a = Ascending(I)
  OBVIOUS
<1>3. /\ n \in Nat /\ a \in Seq(I) /\ Len(a) = n
      /\ \A j, k \in 1 .. n : a[j] = a[k] => j = k
      /\ \A x \in I : \E k \in 1 .. n : a[k] = x
  BY <1>1, <1>2, AscendingIs
<1>4. t = [k \in 1 .. n |-> s[a[k]]]
  BY <1>2 DEF Selected
<1> HIDE DEF n
<1>5. a \in [1 .. n -> I]
  BY <1>3
<1>6. t \in [1 .. n -> T]
  <2> SUFFICES ASSUME NEW k \in 1 .. n PROVE s[a[k]] \in T
    BY <1>4
  <2>1. a[k] \in DOMAIN s
    BY <1>5
  <2> QED
    BY <2>1
<1>7. t \in Seq(T) /\ Len(t) = n /\ DOMAIN t = 1 .. n
  BY <1>3, <1>6
<1>8. Picks(s, I, t, a)
  BY <1>3, <1>4, <1>5, <1>7 DEF Picks
<1> QED
  BY <1>1, <1>3, <1>7, <1>8 DEF n

-----------------------------------------------------------------------------
(***************************************************************************)
(* Sequences put together and taken apart, by their elements.              *)
(***************************************************************************)
LEMMA AppendIs ==
  ASSUME NEW T, NEW s \in Seq(T), NEW e \in T, NEW t, t = Append(s, e)
  PROVE  /\ t \in Seq(T) /\ Len(s) \in Nat /\ Len(t) = Len(s) + 1 /\ DOMAIN t = 1 .. Len(s) + 1
         /\ t[Len(s) + 1] = e /\ \A k \in 1 .. Len(s) : t[k] = s[k]
         /\ DOMAIN s = 1 .. Len(s) /\ \A k \in 1 .. Len(s) : s[k] \in T
OBVIOUS

LEMMA SeqFacts ==
  ASSUME NEW T, NEW s \in Seq(T)
  PROVE  Len(s) \in Nat /\ DOMAIN s = 1 .. Len(s) /\ \A k \in 1 .. Len(s) : s[k] \in T
OBVIOUS

LEMMA ConcatIs ==
  ASSUME NEW T, NEW s \in Seq(T), NEW u \in Seq(T), NEW t, t = s \o u
  PROVE  /\ t \in Seq(T) /\ Len(t) = Len(s) + Len(u)
         /\ \A k \in 1 .. Len(s) : t[k] = s[k]
         /\ \A k \in 1 .. Len(u) : t[Len(s) + k] = u[k]
         /\ \A k \in DOMAIN t : k > Len(s) => k - Len(s) \in 1 .. Len(u) /\ t[k] = u[k - Len(s)]
         /\ \A k \in DOMAIN t : (k \in DOMAIN s /\ t[k] = s[k]) \/ \E j \in DOMAIN u : t[k] = u[j]
         /\ \A k \in DOMAIN s : k \in DOMAIN t
         /\ \A j \in DOMAIN u : \E k \in DOMAIN t : k > Len(s) /\ t[k] = u[j]
<1>1. Len(s) \in Nat /\ Len(u) \in Nat /\ DOMAIN s = 1 .. Len(s) /\ DOMAIN u = 1 .. Len(u)
  OBVIOUS
<1>2. t \in Seq(T) /\ Len(t) = Len(s) + Len(u) /\ DOMAIN t = 1 .. Len(s) + Len(u)
  OBVIOUS
<1>3. \A k \in 1 .. Len(s) : t[k] = s[k]
  BY <1>1
<1>4. \A k \in 1 .. Len(u) : t[Len(s) + k] = u[k] /\ Len(s) + k \in DOMAIN t /\ Len(s) + k > Len(s)
  BY <1>1, <1>2
<1>5. ASSUME NEW k \in DOMAIN t, k > Len(s) PROVE k - Len(s) \in 1 .. Len(u) /\ t[k] = u[k - Len(s)]
  BY <1>1, <1>2, <1>5
<1>6. \A k \in DOMAIN t : (k \in DOMAIN s /\ t[k] = s[k]) \/ \E j \in DOMAIN u : t[k] = u[j]
  <2> SUFFICES ASSUME NEW k \in DOMAIN t
               PROVE (k \in DOMAIN s /\ t[k] = s[k]) \/ \E j \in DOMAIN u : t[k] = u[j]
    OBVIOUS
  <2>1. CASE k > Len(s)
    BY <1>1, <1>5, <2>1
  <2>2. CASE ~(k > Len(s))
    BY <1>1, <1>2, <1>3, <2>2
  <2> QED
    BY <2>1, <2>2
<1>7. \A k \in DOMAIN s : k \in DOMAIN t
  BY <1>1, <1>2
<1>8. \A j \in DOMAIN u : \E k \in DOMAIN t : k > Len(s) /\ t[k] = u[j]
  BY <1>1, <1>4
<1> QED
  BY <1>2, <1>3, <1>4, <1>5, <1>6, <1>7, <1>8

(***************************************************************************)
(* The list propagate rewrites: what is kept, and what is still to come.   *)
(***************************************************************************)
LEMMA RestIs ==
  ASSUME NEW T, NEW s \in Seq(T), NEW u \in Seq(T), NEW i \in 1 .. Len(u) + 1,
         NEW t, t = s \o SubSeq(u, i, Len(u))
  PROVE  /\ t \in Seq(T) /\ Len(s) \in Nat /\ Len(u) \in Nat /\ Len(t) = Len(s) + Len(u) - i + 1
         /\ DOMAIN t = 1 .. Len(s) + Len(u) - i + 1
         /\ \A k \in 1 .. Len(s) : t[k] = s[k]
         /\ \A k \in DOMAIN t : k > Len(s) => t[k] = u[k - Len(s) + i - 1]
<1>1. Len(s) \in Nat /\ Len(u) \in Nat /\ i \in Nat /\ DOMAIN s = 1 .. Len(s)
  OBVIOUS
<1>2. PICK r : r = SubSeq(u, i, Len(u))
  OBVIOUS
<1>3. /\ r \in Seq(T) /\ Len(r) = Len(u) - i + 1 /\ DOMAIN r = 1 .. Len(u) - i + 1
      /\ \A k \in 1 .. Len(u) - i + 1 : r[k] = u[k + i - 1]
  BY <1>1, <1>2
<1>4. /\ t \in Seq(T) /\ Len(t) = Len(s) + Len(r)
      /\ \A k \in 1 .. Len(s) : t[k] = s[k]
      /\ \A k \in DOMAIN t : k > Len(s) => k - Len(s) \in 1 .. Len(r) /\ t[k] = r[k - Len(s)]
  <2>1. r \in Seq(T) /\ t = s \o r
    BY <1>2, <1>3
  <2> QED
    BY <2>1, ConcatIs
<1>5. Len(t) = Len(s) + Len(u) - i + 1 /\ DOMAIN t = 1 .. Len(s) + Len(u) - i + 1
  BY <1>1, <1>3, <1>4
<1>6. ASSUME NEW k \in DOMAIN t, k > Len(s) PROVE t[k] = u[k - Len(s) + i - 1]
  <2>1. k - Len(s) \in 1 .. Len(r) /\ t[k] = r[k - Len(s)]
    BY <1>4, <1>6
  <2> QED
    BY <1>1, <1>3, <2>1
<1> QED
  BY <1>1, <1>4, <1>5, <1>6

(***************************************************************************)
(* A sequence with two places exchanged.                                   *)
(***************************************************************************)
Exchanged(c, i, j) == [c EXCEPT ![i] = c[j], ![j] = c[i]]

LEMMA ExchangedIs ==
  ASSUME NEW T, NEW c \in Seq(T), NEW i \in DOMAIN c, NEW j \in DOMAIN c, NEW d, d = Exchanged(c, i, j)
  PROVE  /\ d \in Seq(T) /\ Len(d) = Len(c) /\ DOMAIN d = DOMAIN c
         /\ d[i] = c[j] /\ d[j] = c[i] /\ \A k \in DOMAIN c : k # i /\ k # j => d[k] = c[k]
         /\ \A k \in DOMAIN d : \E m \in DOMAIN c : d[k] = c[m]
         /\ \A k \in DOMAIN c : \E m \in DOMAIN d : d[m] = c[k]
         /\ Distinct(c) => Distinct(d)
<1>1. Len(c) \in Nat /\ DOMAIN c = 1 .. Len(c) /\ \A k \in DOMAIN c : c[k] \in T
  OBVIOUS
<1>2. /\ DOMAIN d = DOMAIN c /\ d[i] = c[j] /\ d[j] = c[i]
      /\ \A k \in DOMAIN c : k # i /\ k # j => d[k] = c[k]
  BY DEF Exchanged
<1>3. d \in [1 .. Len(c) -> T]
  <2>1. d = [k \in 1 .. Len(c) |-> d[k]]
    BY <1>1 DEF Exchanged
  <2> QED
    BY <1>1, <1>2, <2>1
<1>4. d \in Seq(T) /\ Len(d) = Len(c)
  BY <1>1, <1>2, <1>3
<1>5. \A k \in DOMAIN d : \E m \in DOMAIN c : d[k] = c[m]
  BY <1>2
<1>6. \A k \in DOMAIN c : \E m \in DOMAIN d : d[m] = c[k]
  BY <1>2
<1>7. ASSUME Distinct(c) PROVE Distinct(d)
  BY <1>2, <1>7 DEF Distinct
<1> QED
  BY <1>2, <1>4, <1>5, <1>6, <1>7

(***************************************************************************)
(* The tables of an assignment to the variables V with literals P.         *)
(***************************************************************************)
DataSet == [reason : Nat, level : Nat]
Tables(V, P, A, D, T, L) ==
  /\ P \subseteq Nat /\ \A p \in P : var(p) \in V
  /\ A \in [V -> 0 .. 2] /\ D \in [V -> DataSet] /\ T \in Seq(P) /\ L \in Seq(Nat)

LEMMA TableFacts ==
  ASSUME NEW V, NEW P, NEW A, NEW D, NEW T, NEW L, Tables(V, P, A, D, T, L)
  PROVE  /\ Len(T) \in Nat /\ DOMAIN T = 1 .. Len(T)
         /\ \A k \in 1 .. Len(T) : /\ T[k] \in P /\ T[k] \in Nat /\ var(T[k]) \in V
                                   /\ D[var(T[k])].level \in Nat /\ D[var(T[k])].reason \in Nat
         /\ Len(L) \in Nat /\ DOMAIN L = 1 .. Len(L) /\ \A l \in 1 .. Len(L) : L[l] \in Nat
<1>1. T \in Seq(P) /\ L \in Seq(Nat) /\ P \subseteq Nat /\ (\A p \in P : var(p) \in V) /\ D \in [V -> DataSet]
  BY DEF Tables
<1>a. \A k \in 1 .. Len(T) : T[k] \in P
  BY <1>1
<1>2. \A k \in 1 .. Len(T) : T[k] \in P /\ T[k] \in Nat /\ var(T[k]) \in V
  BY <1>1, <1>a
<1>3. \A v \in V : D[v] \in DataSet
  BY <1>1
<1>4. \A v \in V : D[v].level \in Nat /\ D[v].reason \in Nat
  BY <1>3 DEF DataSet
<1> QED
  BY <1>1, <1>2, <1>4

(***************************************************************************)
(* A fact is enqueued, at the current level or as the decision of a new    *)
(* one.                                                                    *)
(***************************************************************************)
LEMMA EnqueuedIs ==
  ASSUME NEW V, NEW P, NEW A, NEW D, NEW T, NEW L, Tables(V, P, A, D, T, L),
         NEW p \in P, NEW from \in Nat, NEW lvl \in Nat,
         NEW e, e = Enqueued(p, from, lvl, A, D, T)
  PROVE  /\ Tables(V, P, e.assigns, e.vardata, e.trail, L)
         /\ Len(e.trail) = Len(T) + 1 /\ e.trail[Len(T) + 1] = p /\ \A k \in 1 .. Len(T) : e.trail[k] = T[k]
         /\ e.assigns[var(p)] = sign(p) /\ \A v \in V : v # var(p) => e.assigns[v] = A[v]
         /\ e.vardata[var(p)].reason = from /\ e.vardata[var(p)].level = lvl
         /\ \A v \in V : v # var(p) => e.vardata[v] = D[v]
<1>1. /\ T \in Seq(P) /\ L \in Seq(Nat) /\ P \subseteq Nat /\ (\A q \in P : var(q) \in V)
      /\ A \in [V -> 0 .. 2] /\ D \in [V -> DataSet]
  BY DEF Tables
<1>2. /\ e.assigns = [A EXCEPT ![var(p)] = sign(p)]
      /\ e.vardata = [D EXCEPT ![var(p)] = [reason |-> from, level |-> lvl]]
      /\ e.trail = Append(T, p)
  BY DEF Enqueued
<1>3. var(p) \in V /\ sign(p) \in 0 .. 2
  <2>1. p \in Nat /\ var(p) \in V
    BY <1>1
  <2>2. sign(p) \in 0 .. 1
    BY <2>1, LitFacts
  <2> QED
    BY <2>1, <2>2
<1>4. /\ e.trail \in Seq(P) /\ Len(e.trail) = Len(T) + 1 /\ e.trail[Len(T) + 1] = p
      /\ \A k \in 1 .. Len(T) : e.trail[k] = T[k]
  BY <1>1, <1>2
<1>5. /\ e.assigns \in [V -> 0 .. 2] /\ e.assigns[var(p)] = sign(p)
      /\ \A v \in V : v # var(p) => e.assigns[v] = A[v]
  BY <1>1, <1>2, <1>3
<1>6. [reason |-> from, level |-> lvl] \in DataSet
  BY DEF DataSet
<1>7. /\ e.vardata \in [V -> DataSet] /\ e.vardata[var(p)] = [reason |-> from, level |-> lvl]
      /\ \A v \in V : v # var(p) => e.vardata[v] = D[v]
  BY <1>1, <1>2, <1>3, <1>6
<1> QED
  BY <1>1, <1>4, <1>5, <1>7 DEF Tables

LEMMA TrailEnqueue ==
  ASSUME NEW V, NEW P, NEW A, NEW D, NEW T, NEW L, Tables(V, P, A, D, T, L), TrailIn(A, D, T, L),
         NEW p \in P, A[var(p)] = l_Undef, NEW from \in Nat, NEW M, M = L \/ M = Append(L, Len(T)),
         NEW e, e = Enqueued(p, from, Len(M), A, D, T)
  PROVE  Tables(V, P, e.assigns, e.vardata, e.trail, M) /\ TrailIn(e.assigns, e.vardata, e.trail, M)
<1> DEFINE n == Len(T)
           v == var(p)
           B == e.assigns
           E == e.vardata
           U == e.trail
           a == Len(L)
           b == Len(M)
           c == Len(U)
<1>1. /\ n \in Nat /\ DOMAIN T = 1 .. n
      /\ \A k \in 1 .. n : /\ T[k] \in P /\ T[k] \in Nat /\ var(T[k]) \in V
                           /\ D[var(T[k])].level \in Nat /\ D[var(T[k])].reason \in Nat
      /\ a \in Nat /\ DOMAIN L = 1 .. a /\ \A l \in 1 .. a : L[l] \in Nat
  BY TableFacts
<1> HIDE DEF a
<1>2. /\ b \in Nat /\ DOMAIN M = 1 .. b /\ b >= a /\ M \in Seq(Nat)
      /\ \A l \in 1 .. a : M[l] = L[l]
      /\ \A l \in 1 .. b : l > a => M[l] = n
      /\ b = a \/ b = a + 1
  <2>1. L \in Seq(Nat)
    BY DEF Tables
  <2>2. CASE M = L
    BY <1>1, <2>1, <2>2 DEF a
  <2>3. CASE M = Append(L, n)
    BY <1>1, <2>1, <2>3 DEF a
  <2> QED
    BY <2>2, <2>3
<1>3. /\ Tables(V, P, B, E, U, L)
      /\ c = n + 1 /\ U[n + 1] = p /\ \A k \in 1 .. n : U[k] = T[k]
      /\ B[v] = sign(p) /\ \A x \in V : x # v => B[x] = A[x]
      /\ E[v].level = b
      /\ \A x \in V : x # v => E[x] = D[x]
  <2>1. b \in Nat /\ e = Enqueued(p, from, b, A, D, T)
    BY <1>2
  <2> QED
    BY <2>1, EnqueuedIs
<1>4. Tables(V, P, B, E, U, M) /\ DOMAIN U = 1 .. n + 1 /\ DOMAIN A = V /\ DOMAIN B = V /\ v \in V /\ p \in Nat
  <2>1. U \in Seq(P) /\ L \in Seq(Nat) /\ M \in Seq(Nat) /\ Tables(V, P, B, E, U, M)
    BY <1>2, <1>3 DEF Tables
  <2>2. DOMAIN U = 1 .. n + 1
    BY <1>3, <2>1
  <2>3. DOMAIN A = V /\ DOMAIN B = V /\ P \subseteq Nat /\ \A q \in P : var(q) \in V
    BY <2>1 DEF Tables
  <2> QED
    BY <2>1, <2>2, <2>3
<1>5. A[v] = l_Undef /\ \A k \in 1 .. n : A[var(T[k])] # l_Undef
  <2> SUFFICES ASSUME NEW k \in 1 .. n PROVE A[var(T[k])] # l_Undef
    OBVIOUS
  <2>1. A[var(T[k])] = sign(T[k])
    BY <1>1 DEF TrailIn
  <2>2. sign(T[k]) \in 0 .. 1
    BY <1>1, LitFacts
  <2> QED
    BY <2>1, <2>2 DEF l_Undef
<1>6. \A k \in 1 .. n : var(T[k]) # v
  BY <1>5
<1> HIDE DEF n, v, b, c, B, E, U
<1>7. \A k \in DOMAIN U : k \in 1 .. n \/ k = n + 1
  BY <1>1, <1>4
<1>8. \A k \in 1 .. n : U[k] = T[k] /\ var(U[k]) # v /\ B[var(U[k])] = A[var(T[k])] /\ E[var(U[k])] = D[var(T[k])]
  BY <1>1, <1>3, <1>6
<1>9. U[n + 1] = p /\ var(U[n + 1]) = v
  BY <1>3 DEF v
<1>10. \A k \in DOMAIN U : B[var(U[k])] = sign(U[k])
  BY <1>1, <1>3, <1>7, <1>8, <1>9 DEF TrailIn
<1>11. \A j, k \in DOMAIN U : var(U[j]) = var(U[k]) => j = k
  BY <1>1, <1>7, <1>8, <1>9 DEF TrailIn
<1>12. \A x \in DOMAIN B : B[x] # l_Undef => \E k \in DOMAIN U : var(U[k]) = x
  <2> SUFFICES ASSUME NEW x \in V, B[x] # l_Undef PROVE \E k \in DOMAIN U : var(U[k]) = x
    BY <1>4
  <2>1. CASE x = v
    BY <1>1, <1>4, <1>9, <2>1
  <2>2. CASE x # v
    <3>1. A[x] # l_Undef
      BY <1>3, <2>2
    <3>2. PICK k \in 1 .. n : var(T[k]) = x
      BY <1>1, <1>4, <3>1 DEF TrailIn
    <3>3. k \in DOMAIN U /\ var(U[k]) = x
      BY <1>1, <1>4, <1>8, <3>2
    <3> QED
      BY <3>3
  <2> QED
    BY <2>1, <2>2
<1>13. \A l \in DOMAIN L : L[l] < n
  BY DEF TrailIn, n
<1>14. \A l \in DOMAIN M : M[l] < c /\ M[l] \in Nat
  BY <1>1, <1>2, <1>3, <1>13
<1>15. \A l, m \in DOMAIN M : l < m => M[l] < M[m]
  <2> SUFFICES ASSUME NEW l \in 1 .. b, NEW m \in 1 .. b, l < m PROVE M[l] < M[m]
    BY <1>2
  <2>1. l \in 1 .. a
    BY <1>1, <1>2
  <2>2. CASE m > a
    BY <1>1, <1>2, <1>13, <2>1, <2>2
  <2>3. CASE ~(m > a)
    <3>1. m \in 1 .. a
      BY <1>1, <1>2, <2>3
    <3>2. L[l] < L[m]
      BY <1>1, <2>1, <3>1 DEF TrailIn
    <3> QED
      BY <1>2, <2>1, <3>1, <3>2
  <2> QED
    BY <2>2, <2>3
<1>16. ASSUME NEW k \in DOMAIN U
       PROVE /\ E[var(U[k])].level <= b
             /\ \A l \in DOMAIN M : l <= E[var(U[k])].level <=> M[l] < k
  <2>1. CASE k = n + 1
    <3>1. E[var(U[k])].level = b
      BY <1>3, <1>9, <2>1
    <3>2. \A l \in DOMAIN M : l <= b /\ M[l] < n + 1
      BY <1>1, <1>2, <1>3, <1>14
    <3> QED
      BY <1>2, <2>1, <3>1, <3>2
  <2>2. CASE k \in 1 .. n
    <3> DEFINE d == D[var(T[k])].level
    <3>1. d \in Nat /\ d <= a /\ \A l \in DOMAIN L : l <= d <=> L[l] < k
      BY <1>1, <2>2 DEF TrailIn, a
    <3>2. E[var(U[k])].level = d
      BY <1>8, <2>2
    <3> HIDE DEF d
    <3>3. d <= b
      BY <1>1, <1>2, <3>1
    <3>4. ASSUME NEW l \in DOMAIN M PROVE l <= d <=> M[l] < k
      <4>1. CASE l \in DOMAIN L
        BY <1>1, <1>2, <3>1, <4>1
      <4>2. CASE l \notin DOMAIN L
        <5>1. M[l] = n /\ l > a /\ l \in Nat
          BY <1>1, <1>2, <4>2
        <5> QED
          BY <1>1, <2>2, <3>1, <5>1
      <4> QED
        BY <4>1, <4>2
    <3> QED
      BY <3>2, <3>3, <3>4
  <2> QED
    BY <1>7, <2>1, <2>2
<1>17. TrailIn(B, E, U, M)
  BY <1>10, <1>11, <1>12, <1>14, <1>15, <1>16 DEF TrailIn, b, c
<1> QED
  BY <1>4, <1>17 DEF B, E, U

(***************************************************************************)
(* Levels grow along the trail, and a false literal is on it, negated.     *)
(***************************************************************************)
LEMMA LevelsGrow ==
  ASSUME NEW V, NEW P, NEW A, NEW D, NEW T, NEW L, Tables(V, P, A, D, T, L), TrailIn(A, D, T, L),
         NEW j \in DOMAIN T, NEW k \in DOMAIN T, j <= k
  PROVE  D[var(T[j])].level <= D[var(T[k])].level
<1> DEFINE d == D[var(T[j])].level
           f == D[var(T[k])].level
           a == Len(L)
<1>1. /\ j \in Nat /\ k \in Nat /\ d \in Nat /\ f \in Nat
      /\ a \in Nat /\ DOMAIN L = 1 .. a /\ \A l \in 1 .. a : L[l] \in Nat
  BY TableFacts
<1>2. /\ d <= a /\ \A l \in DOMAIN L : l <= d <=> L[l] < j
      /\ f <= a /\ \A l \in DOMAIN L : l <= f <=> L[l] < k
  BY DEF TrailIn
<1> HIDE DEF d, f, a
<1>3. d <= f
  <2>1. CASE d = 0
    BY <1>1, <2>1
  <2>2. CASE d # 0
    <3>1. d \in DOMAIN L
      BY <1>1, <1>2, <2>2
    <3>2. L[d] < j /\ L[d] \in Nat
      BY <1>1, <1>2, <3>1
    <3>3. L[d] < k
      BY <1>1, <3>2
    <3> QED
      BY <1>2, <3>1, <3>3
  <2> QED
    BY <2>1, <2>2
<1> QED
  BY <1>3 DEF d, f

LEMMA OnTrail ==
  ASSUME NEW V, NEW P, NEW A, NEW D, NEW T, NEW L, Tables(V, P, A, D, T, L), TrailIn(A, D, T, L),
         NEW q \in P
  PROVE  /\ A[var(q)] = sign(q) <=> \E k \in DOMAIN T : T[k] = q
         /\ A[var(q)] = 1 - sign(q) <=> \E k \in DOMAIN T : T[k] = neg(q)
         /\ A[var(q)] \in 0 .. 2
<1>1. /\ Len(T) \in Nat /\ DOMAIN T = 1 .. Len(T)
      /\ \A k \in 1 .. Len(T) : T[k] \in P /\ T[k] \in Nat /\ var(T[k]) \in V
      /\ q \in Nat /\ var(q) \in V /\ DOMAIN A = V /\ A[var(q)] \in 0 .. 2
  <2>1. /\ Len(T) \in Nat /\ DOMAIN T = 1 .. Len(T)
        /\ \A k \in 1 .. Len(T) : T[k] \in P /\ T[k] \in Nat /\ var(T[k]) \in V
    BY TableFacts
  <2> QED
    BY <2>1 DEF Tables
<1>2. /\ sign(q) \in 0 .. 1 /\ sign(neg(q)) = 1 - sign(q) /\ var(neg(q)) = var(q) /\ neg(q) \in Nat
      /\ neg(q) # q
  BY <1>1, LitFacts
<1>3. \A k \in DOMAIN T : A[var(T[k])] = sign(T[k])
  BY DEF TrailIn
<1>4. ASSUME A[var(q)] # l_Undef PROVE \E k \in DOMAIN T : T[k] = q \/ T[k] = neg(q)
  <2>1. PICK k \in DOMAIN T : var(T[k]) = var(q)
    BY <1>1, <1>4 DEF TrailIn
  <2>2. T[k] = q \/ T[k] = neg(q)
    BY <1>1, <2>1, SameVar
  <2> QED
    BY <2>2
<1>5. \A k \in DOMAIN T : T[k] = q => A[var(q)] = sign(q)
  BY <1>3
<1>6. \A k \in DOMAIN T : T[k] = neg(q) => A[var(q)] = 1 - sign(q)
  BY <1>2, <1>3
<1>7. sign(q) # 1 - sign(q) /\ sign(q) # 2 /\ 1 - sign(q) # 2
  BY <1>2
<1> QED
  BY <1>1, <1>4, <1>5, <1>6, <1>7 DEF l_Undef

(***************************************************************************)
(* The levels beyond lvl are undone.                                       *)
(***************************************************************************)
Undo(T, L, lvl, n, U, M) ==
  /\ n = IF Len(L) > lvl THEN L[lvl + 1] ELSE Len(T)
  /\ U = SubSeq(T, 1, n) /\ M = SubSeq(L, 1, lvl)

LEMMA CancelIs ==
  ASSUME NEW V, NEW P, NEW A, NEW D, NEW T, NEW L, Tables(V, P, A, D, T, L), TrailIn(A, D, T, L),
         NEW lvl \in Nat, lvl <= Len(L), NEW n, NEW U, NEW M, Undo(T, L, lvl, n, U, M)
  PROVE  /\ n \in 0 .. Len(T)
         /\ U \in Seq(P) /\ Len(U) = n /\ DOMAIN U = 1 .. n /\ (\A k \in 1 .. n : U[k] = T[k])
         /\ M \in Seq(Nat) /\ Len(M) = lvl /\ DOMAIN M = 1 .. lvl /\ (\A l \in 1 .. lvl : M[l] = L[l])
         /\ \A k \in 1 .. Len(T) : k <= n <=> D[var(T[k])].level <= lvl
<1>0. n = (IF Len(L) > lvl THEN L[lvl + 1] ELSE Len(T)) /\ U = SubSeq(T, 1, n) /\ M = SubSeq(L, 1, lvl)
  BY DEF Undo
<1> DEFINE c == Len(T)
           a == Len(L)
<1>1. /\ c \in Nat /\ DOMAIN T = 1 .. c
      /\ \A k \in 1 .. c : /\ T[k] \in P /\ T[k] \in Nat /\ var(T[k]) \in V
                           /\ D[var(T[k])].level \in Nat /\ D[var(T[k])].reason \in Nat
      /\ a \in Nat /\ DOMAIN L = 1 .. a /\ \A l \in 1 .. a : L[l] \in Nat
  BY TableFacts
<1>2. /\ T \in Seq(P) /\ L \in Seq(Nat) /\ P \subseteq Nat /\ (\A q \in P : var(q) \in V)
      /\ A \in [V -> 0 .. 2] /\ D \in [V -> DataSet]
  BY DEF Tables
<1>3. n \in 0 .. c
  <2> HIDE DEF a, c
  <2>1. CASE a > lvl
    <3>1. lvl + 1 \in 1 .. a
      BY <1>0, <1>1, <2>1
    <3>2. n = L[lvl + 1] /\ L[lvl + 1] \in Nat /\ L[lvl + 1] < c
      BY <1>0, <1>1, <2>1, <3>1 DEF TrailIn, a, c
    <3> QED
      BY <1>0, <1>1, <3>2
  <2>2. CASE ~(a > lvl)
    BY <1>0, <1>1, <2>2 DEF a, c
  <2> QED
    BY <2>1, <2>2
<1>4. /\ U \in Seq(P) /\ Len(U) = n /\ DOMAIN U = 1 .. n /\ \A k \in 1 .. n : U[k] = T[k]
  BY <1>0, <1>1, <1>2, <1>3
<1>5. /\ M \in Seq(Nat) /\ Len(M) = lvl /\ DOMAIN M = 1 .. lvl /\ \A l \in 1 .. lvl : M[l] = L[l]
  BY <1>0, <1>1, <1>2
<1> HIDE DEF a, c
<1>6. ASSUME NEW k \in 1 .. c PROVE k <= n <=> D[var(T[k])].level <= lvl
  <2> DEFINE d == D[var(T[k])].level
  <2>1. d \in Nat /\ d <= a /\ \A l \in DOMAIN L : l <= d <=> L[l] < k
    BY <1>0, <1>1 DEF TrailIn, a
  <2> HIDE DEF d
  <2>2. CASE a > lvl
    <3>1. n = L[lvl + 1] /\ lvl + 1 \in DOMAIN L
      BY <1>0, <1>1, <2>2 DEF a
    <3>2. lvl + 1 <= d <=> n < k
      BY <2>1, <3>1
    <3>3. k <= n <=> d <= lvl
      BY <1>0, <1>1, <1>3, <2>1, <3>2
    <3> QED
      BY <3>3 DEF d
  <2>3. CASE ~(a > lvl)
    <3>1. n = c /\ a = lvl
      BY <1>0, <1>1, <2>3 DEF a, c
    <3>2. k <= n <=> d <= lvl
      BY <1>0, <1>1, <2>1, <3>1
    <3> QED
      BY <3>2 DEF d
  <2> QED
    BY <2>2, <2>3
<1> QED
  BY <1>3, <1>4, <1>5, <1>6 DEF c

LEMMA TrailCancel ==
  ASSUME NEW V, NEW P, NEW A, NEW D, NEW T, NEW L, Tables(V, P, A, D, T, L), TrailIn(A, D, T, L),
         NEW lvl \in Nat, lvl <= Len(L), NEW n, NEW U, NEW M, Undo(T, L, lvl, n, U, M),
         NEW B, B = [v \in V |-> IF v \in {var(T[k]) : k \in n + 1 .. Len(T)} THEN l_Undef ELSE A[v]]
  PROVE  /\ Tables(V, P, B, D, U, M) /\ TrailIn(B, D, U, M)
         /\ n \in 0 .. Len(T) /\ Len(U) = n /\ (\A k \in 1 .. n : U[k] = T[k])
         /\ Len(M) = lvl /\ (\A l \in 1 .. lvl : M[l] = L[l])
         /\ \A k \in 1 .. Len(T) : k <= n <=> D[var(T[k])].level <= lvl
         /\ \A k \in 1 .. n : B[var(T[k])] = A[var(T[k])]
         /\ \A k \in 1 .. Len(T) : k > n => B[var(T[k])] = l_Undef
         /\ \A v \in V : B[v] # l_Undef => B[v] = A[v]
<1> DEFINE c == Len(T)
           a == Len(L)
<1>0. n = (IF Len(L) > lvl THEN L[lvl + 1] ELSE Len(T)) /\ U = SubSeq(T, 1, n) /\ M = SubSeq(L, 1, lvl)
  BY DEF Undo
<1>1. /\ c \in Nat /\ DOMAIN T = 1 .. c
      /\ \A k \in 1 .. c : /\ T[k] \in P /\ T[k] \in Nat /\ var(T[k]) \in V
                           /\ D[var(T[k])].level \in Nat /\ D[var(T[k])].reason \in Nat
      /\ a \in Nat /\ DOMAIN L = 1 .. a /\ \A l \in 1 .. a : L[l] \in Nat
  BY TableFacts
<1>2. /\ T \in Seq(P) /\ L \in Seq(Nat) /\ P \subseteq Nat /\ (\A q \in P : var(q) \in V)
      /\ A \in [V -> 0 .. 2] /\ D \in [V -> DataSet]
  BY DEF Tables
<1>3. /\ n \in 0 .. c
      /\ U \in Seq(P) /\ Len(U) = n /\ DOMAIN U = 1 .. n /\ (\A k \in 1 .. n : U[k] = T[k])
      /\ M \in Seq(Nat) /\ Len(M) = lvl /\ DOMAIN M = 1 .. lvl /\ (\A l \in 1 .. lvl : M[l] = L[l])
      /\ \A k \in 1 .. c : k <= n <=> D[var(T[k])].level <= lvl
  BY CancelIs
<1>4. /\ U \in Seq(P) /\ Len(U) = n /\ DOMAIN U = 1 .. n /\ \A k \in 1 .. n : U[k] = T[k]
  BY <1>3
<1>5. /\ M \in Seq(Nat) /\ Len(M) = lvl /\ DOMAIN M = 1 .. lvl /\ \A l \in 1 .. lvl : M[l] = L[l]
  BY <1>3
<1>6. B \in [V -> 0 .. 2] /\ DOMAIN B = V /\ \A v \in V : B[v] # l_Undef => B[v] = A[v]
  BY <1>2 DEF l_Undef
<1>7. Tables(V, P, B, D, U, M)
  BY <1>2, <1>4, <1>5, <1>6 DEF Tables
<1> HIDE DEF a, c
<1>8. \A k \in 1 .. c : k > n => B[var(T[k])] = l_Undef
  <2> SUFFICES ASSUME NEW k \in 1 .. c, k > n PROVE B[var(T[k])] = l_Undef
    OBVIOUS
  <2>1. k \in n + 1 .. c
    BY <1>1, <1>3
  <2>2. var(T[k]) \in {var(T[j]) : j \in n + 1 .. c}
    BY <2>1
  <2>3. var(T[k]) \in V
    BY <1>1
  <2> QED
    BY <2>2, <2>3 DEF c
<1>9. \A k \in 1 .. n : B[var(T[k])] = A[var(T[k])]
  <2> SUFFICES ASSUME NEW k \in 1 .. n PROVE B[var(T[k])] = A[var(T[k])]
    OBVIOUS
  <2>1. k \in 1 .. c /\ var(T[k]) \in V
    BY <1>1, <1>3
  <2>2. ASSUME NEW j \in n + 1 .. c PROVE var(T[j]) # var(T[k])
    <3>1. j \in 1 .. c /\ j # k
      BY <1>1, <1>3
    <3> QED
      BY <1>1, <2>1, <3>1 DEF TrailIn
  <2>3. var(T[k]) \notin {var(T[j]) : j \in n + 1 .. c}
    BY <2>2
  <2> QED
    BY <2>1, <2>3 DEF c
<1>10. \A k \in 1 .. c : k <= n <=> D[var(T[k])].level <= lvl
  BY <1>3
<1>11. \A k \in DOMAIN U : B[var(U[k])] = sign(U[k])
  <2> SUFFICES ASSUME NEW k \in 1 .. n PROVE B[var(U[k])] = sign(U[k])
    BY <1>4
  <2>1. k \in DOMAIN T
    BY <1>1, <1>3
  <2>2. A[var(T[k])] = sign(T[k])
    BY <2>1 DEF TrailIn
  <2> QED
    BY <1>4, <1>9, <2>2
<1>12. \A j, k \in DOMAIN U : var(U[j]) = var(U[k]) => j = k
  <2>1. \A k \in 1 .. n : k \in DOMAIN T
    BY <1>1, <1>3
  <2> QED
    BY <1>4, <2>1 DEF TrailIn
<1>13. \A v \in DOMAIN B : B[v] # l_Undef => \E k \in DOMAIN U : var(U[k]) = v
  <2> SUFFICES ASSUME NEW v \in V, B[v] # l_Undef PROVE \E k \in DOMAIN U : var(U[k]) = v
    BY <1>6
  <2>1. A[v] # l_Undef /\ v \in DOMAIN A
    BY <1>2, <1>6
  <2>2. PICK k \in DOMAIN T : var(T[k]) = v
    BY <2>1 DEF TrailIn
  <2>3. k \in 1 .. n
    <3>1. k \in 1 .. c /\ ~(k > n) /\ n \in Nat
      BY <1>1, <1>3, <1>8, <2>2
    <3> QED
      BY <1>1, <3>1
  <2> QED
    BY <1>4, <2>2, <2>3
<1>14. \A l, m \in DOMAIN M : l < m => M[l] < M[m]
  <2>1. \A l \in DOMAIN M : l \in DOMAIN L
    BY <1>1, <1>5 DEF a
  <2>2. \A l, m \in DOMAIN L : l < m => L[l] < L[m]
    BY DEF TrailIn
  <2> QED
    BY <1>5, <2>1, <2>2
<1>15. ASSUME NEW l \in DOMAIN M PROVE M[l] < Len(U)
  <2>1. l \in DOMAIN L /\ l \in Nat /\ l <= lvl /\ M[l] = L[l] /\ L[l] < c
    BY <1>1, <1>5 DEF TrailIn, a, c
  <2>2. CASE a > lvl
    <3>1. lvl + 1 \in DOMAIN L /\ l < lvl + 1 /\ n = L[lvl + 1]
      BY <1>0, <1>1, <2>1, <2>2 DEF a
    <3>2. L[l] < L[lvl + 1]
      BY <2>1, <3>1 DEF TrailIn
    <3> QED
      BY <1>4, <2>1, <3>1, <3>2
  <2>3. CASE ~(a > lvl)
    BY <1>0, <1>4, <2>1, <2>3 DEF a, c
  <2> QED
    BY <2>2, <2>3
<1>16. ASSUME NEW k \in DOMAIN U
       PROVE /\ D[var(U[k])].level <= Len(M)
             /\ \A l \in DOMAIN M : l <= D[var(U[k])].level <=> M[l] < k
  <2>1. k \in 1 .. c /\ k <= n /\ U[k] = T[k]
    BY <1>1, <1>3, <1>4
  <2>2. D[var(U[k])].level <= lvl
    BY <1>10, <2>1
  <2>3. ASSUME NEW l \in DOMAIN M PROVE l <= D[var(U[k])].level <=> M[l] < k
    <3>1. l \in DOMAIN L /\ M[l] = L[l]
      BY <1>1, <1>5 DEF a
    <3> QED
      BY <1>1, <2>1, <3>1 DEF TrailIn
  <2> QED
    BY <1>5, <2>2, <2>3
<1>17. TrailIn(B, D, U, M)
  BY <1>11, <1>12, <1>13, <1>14, <1>15, <1>16 DEF TrailIn
<1> QED
  BY <1>3, <1>4, <1>5, <1>6, <1>7, <1>8, <1>9, <1>10, <1>17 DEF c

(***************************************************************************)
(* Reasons, when a fact is enqueued, when levels are undone, and when the  *)
(* database changes.                                                       *)
(***************************************************************************)
LEMMA ReasonedEnqueue ==
  ASSUME NEW V, NEW P, NEW A, NEW D, NEW T, NEW L, Tables(V, P, A, D, T, L), TrailIn(A, D, T, L),
         NEW C, NEW S, ReasonedIn(C, S, D, T, L),
         NEW p \in P, A[var(p)] = l_Undef, NEW from \in Nat, NEW M,
         \/ M = L /\ from = CRef_Undef /\ Len(L) = 0
         \/ M = L /\ from \in S /\ from # CRef_Undef /\ C[from].lits[1] = p
            /\ \A j \in 2 .. Len(C[from].lits) : \E m \in DOMAIN T : T[m] = neg(C[from].lits[j])
         \/ M = Append(L, Len(T)) /\ from = CRef_Undef,
         NEW e, e = Enqueued(p, from, Len(M), A, D, T)
  PROVE  ReasonedIn(C, S, e.vardata, e.trail, M)
<1> DEFINE n == Len(T)
           a == Len(L)
<1>1. /\ n \in Nat /\ DOMAIN T = 1 .. n /\ a \in Nat /\ DOMAIN L = 1 .. a /\ L \in Seq(Nat)
      /\ \A k \in 1 .. n : var(T[k]) \in V /\ D[var(T[k])].level \in Nat /\ D[var(T[k])].level <= a
  <2>1. /\ n \in Nat /\ DOMAIN T = 1 .. n /\ a \in Nat /\ DOMAIN L = 1 .. a
        /\ \A k \in 1 .. n : var(T[k]) \in V /\ D[var(T[k])].level \in Nat
    BY TableFacts
  <2> QED
    BY <2>1 DEF TrailIn, Tables
<1>2. Len(M) \in Nat /\ \A l \in 1 .. a : M[l] = L[l]
  BY <1>1
<1>3. /\ Tables(V, P, e.assigns, e.vardata, e.trail, L)
      /\ Len(e.trail) = n + 1 /\ e.trail[n + 1] = p /\ \A k \in 1 .. n : e.trail[k] = T[k]
      /\ e.vardata[var(p)].reason = from /\ e.vardata[var(p)].level = Len(M)
      /\ \A v \in V : v # var(p) => e.vardata[v] = D[v]
  <2>1. PICK lvl \in Nat : lvl = Len(M)
    BY <1>2
  <2>2. e = Enqueued(p, from, lvl, A, D, T)
    BY <2>1
  <2>3. /\ Tables(V, P, e.assigns, e.vardata, e.trail, L)
        /\ Len(e.trail) = n + 1 /\ e.trail[n + 1] = p /\ \A k \in 1 .. n : e.trail[k] = T[k]
        /\ e.vardata[var(p)].reason = from /\ e.vardata[var(p)].level = lvl
        /\ \A v \in V : v # var(p) => e.vardata[v] = D[v]
    BY <2>2, EnqueuedIs
  <2> QED
    BY <2>1, <2>3
<1>4. ASSUME NEW k \in 1 .. n PROVE var(T[k]) # var(p)
  <2>1. A[var(T[k])] = sign(T[k]) /\ T[k] \in Nat
    BY <1>1, TableFacts DEF TrailIn
  <2>2. sign(T[k]) \in 0 .. 1
    BY <2>1, LitFacts
  <2> QED
    BY <2>1, <2>2 DEF l_Undef
<1> DEFINE E == e.vardata
           U == e.trail
<1>5. DOMAIN U = 1 .. n + 1
  <2>1. U \in Seq(P)
    BY <1>3 DEF Tables
  <2> QED
    BY <1>3, <2>1
<1> HIDE DEF n, a, E, U
<1>6. ASSUME NEW k \in DOMAIN U
      PROVE  LET d == E[var(U[k])]
             IN IF d.reason = CRef_Undef THEN d.level = 0 \/ M[d.level] = k - 1
                ELSE d.reason \in S /\ Implies(C[d.reason].lits, U, k)
  <2>1. CASE k \in 1 .. n
    <3>1. PICK d : d = D[var(T[k])]
      OBVIOUS
    <3>2. E[var(U[k])] = d /\ U[k] = T[k]
      BY <1>1, <1>3, <1>4, <2>1, <3>1 DEF E, U
    <3>3. IF d.reason = CRef_Undef THEN d.level = 0 \/ L[d.level] = k - 1
          ELSE d.reason \in S /\ Implies(C[d.reason].lits, T, k)
      BY <1>1, <2>1, <3>1 DEF ReasonedIn
    <3>4. CASE d.reason = CRef_Undef
      <4>1. d.level = 0 \/ M[d.level] = k - 1
        BY <1>1, <1>2, <2>1, <3>1, <3>3, <3>4
      <4> QED
        BY <3>2, <3>4, <4>1
    <3>5. CASE d.reason # CRef_Undef
      <4>1. d.reason \in S /\ Implies(C[d.reason].lits, T, k)
        BY <3>3, <3>5
      <4>2. \A m \in 1 .. k - 1 : U[m] = T[m]
        BY <1>1, <1>3, <2>1 DEF U
      <4>3. Implies(C[d.reason].lits, U, k)
        BY <3>2, <4>1, <4>2 DEF Implies
      <4> QED
        BY <3>2, <3>5, <4>1, <4>3
    <3> QED
      BY <3>4, <3>5
  <2>2. CASE k = n + 1
    <3>1. U[k] = p /\ E[var(U[k])].reason = from /\ E[var(U[k])].level = Len(M)
      BY <1>3, <2>2 DEF E, U
    <3>2. CASE from = CRef_Undef /\ Len(M) = 0
      BY <3>1, <3>2
    <3>3. CASE M = Append(L, n) /\ from = CRef_Undef
      <4>1. Len(M) = a + 1 /\ M[a + 1] = n /\ n = k - 1
        BY <1>1, <2>2, <3>3 DEF a, n
      <4> QED
        BY <3>1, <3>3, <4>1
    <3>4. CASE from \in S /\ from # CRef_Undef /\ C[from].lits[1] = p
               /\ \A j \in 2 .. Len(C[from].lits) : \E m \in DOMAIN T : T[m] = neg(C[from].lits[j])
      <4>1. \A m \in DOMAIN T : m \in 1 .. k - 1 /\ U[m] = T[m]
        BY <1>1, <1>3, <2>2 DEF U
      <4>2. Implies(C[from].lits, U, k)
        BY <3>1, <3>4, <4>1 DEF Implies
      <4> QED
        BY <3>1, <3>4, <4>2
    <3> QED
      BY <3>2, <3>3, <3>4 DEF n
  <2> QED
    BY <1>1, <1>5, <2>1, <2>2
<1> QED
  BY <1>6 DEF ReasonedIn, E, U

LEMMA ReasonedCancel ==
  ASSUME NEW V, NEW P, NEW A, NEW D, NEW T, NEW L, Tables(V, P, A, D, T, L), TrailIn(A, D, T, L),
         NEW C, NEW S, ReasonedIn(C, S, D, T, L),
         NEW lvl \in Nat, lvl <= Len(L), NEW n, NEW U, NEW M, Undo(T, L, lvl, n, U, M)
  PROVE  ReasonedIn(C, S, D, U, M)
<1>1. /\ U \in Seq(P) /\ n \in 0 .. Len(T) /\ Len(U) = n /\ (\A k \in 1 .. n : U[k] = T[k])
      /\ Len(M) = lvl /\ (\A l \in 1 .. lvl : M[l] = L[l])
      /\ \A k \in 1 .. Len(T) : k <= n <=> D[var(T[k])].level <= lvl
  BY CancelIs
<1>2. /\ Len(T) \in Nat /\ DOMAIN T = 1 .. Len(T)
      /\ \A k \in 1 .. Len(T) : D[var(T[k])].level \in Nat
  BY TableFacts
<1>3. DOMAIN U = 1 .. n
  BY <1>1
<1>4. ASSUME NEW k \in DOMAIN U
      PROVE  LET d == D[var(U[k])]
             IN IF d.reason = CRef_Undef THEN d.level = 0 \/ M[d.level] = k - 1
                ELSE d.reason \in S /\ Implies(C[d.reason].lits, U, k)
  <2>1. k \in 1 .. Len(T) /\ k <= n /\ U[k] = T[k] /\ \A m \in 1 .. k - 1 : U[m] = T[m]
    BY <1>1, <1>2, <1>3
  <2>2. PICK d : d = D[var(T[k])]
    OBVIOUS
  <2>3. d = D[var(U[k])] /\ d.level \in Nat /\ d.level <= lvl
    BY <1>1, <1>2, <2>1, <2>2
  <2>4. IF d.reason = CRef_Undef THEN d.level = 0 \/ L[d.level] = k - 1
        ELSE d.reason \in S /\ Implies(C[d.reason].lits, T, k)
    BY <1>2, <2>1, <2>2 DEF ReasonedIn
  <2>5. CASE d.reason = CRef_Undef
    <3>1. d.level = 0 \/ M[d.level] = k - 1
      BY <1>1, <2>3, <2>4, <2>5
    <3> QED
      BY <2>3, <2>5, <3>1
  <2>6. CASE d.reason # CRef_Undef
    <3>1. Implies(C[d.reason].lits, U, k)
      BY <2>1, <2>4, <2>6 DEF Implies
    <3> QED
      BY <2>3, <2>4, <2>6, <3>1
  <2> QED
    BY <2>5, <2>6
<1> QED
  BY <1>4 DEF ReasonedIn

LEMMA ReasonedClauses ==
  ASSUME NEW C, NEW S, NEW D, NEW T, NEW L, ReasonedIn(C, S, D, T, L), NEW B, NEW R, NEW E,
         \A k \in DOMAIN T :
           LET d == D[var(T[k])]
               e == E[var(T[k])]
           IN /\ e.level = d.level
              /\ \/ e.reason = CRef_Undef /\ (d.level = 0 \/ d.reason = CRef_Undef)
                 \/ /\ d.reason # CRef_Undef /\ e.reason # CRef_Undef
                    /\ d.reason \in S => e.reason \in R /\ B[e.reason].lits = C[d.reason].lits
  PROVE  ReasonedIn(B, R, E, T, L)
<1> SUFFICES ASSUME NEW k \in DOMAIN T
             PROVE  LET d == E[var(T[k])]
                    IN IF d.reason = CRef_Undef THEN d.level = 0 \/ L[d.level] = k - 1
                       ELSE d.reason \in R /\ Implies(B[d.reason].lits, T, k)
  BY DEF ReasonedIn
<1>1. LET d == D[var(T[k])]
      IN IF d.reason = CRef_Undef THEN d.level = 0 \/ L[d.level] = k - 1
         ELSE d.reason \in S /\ Implies(C[d.reason].lits, T, k)
  BY DEF ReasonedIn
<1> QED
  BY <1>1

(***************************************************************************)
(* Watch lists.  The parts of WatchesIn for one list.                      *)
(***************************************************************************)
Once(l) == \A j, k \in DOMAIN l : l[j].cref = l[k].cref => j = k
Wants(c, p) == p \in {neg(c[1]), neg(c[2])}
Has(c, q) == \E j \in DOMAIN c : c[j] = q
Good(w, p, C, S, dirt) ==
  /\ w.cref \in DOMAIN C /\ Has(C[w.cref].lits, w.blocker)
  /\ w.cref \in S \/ (C[w.cref].mark = 1 /\ p \in dirt)

LEMMA WatchesSplit ==
  ASSUME NEW W, NEW C, NEW S, NEW dirt
  PROVE  WatchesIn(W, C, S, dirt) <=>
           \A p \in DOMAIN W :
             /\ Once(W[p])
             /\ \A cr \in S : Watched(W[p], cr) <=> Wants(C[cr].lits, p)
             /\ \A k \in DOMAIN W[p] : Good(W[p][k], p, C, S, dirt)
BY DEF WatchesIn, Once, Wants, Has, Good

(***************************************************************************)
(* Clauses may be reordered, but for the set of their first two literals,  *)
(* and blockers replaced.                                                  *)
(***************************************************************************)
Reorders(C, S, B) ==
  /\ DOMAIN B = DOMAIN C
  /\ \A cr \in DOMAIN C : B[cr].mark = C[cr].mark /\ \A q : Has(C[cr].lits, q) <=> Has(B[cr].lits, q)
  /\ \A cr \in S : \A p : Wants(C[cr].lits, p) <=> Wants(B[cr].lits, p)
Relists(W, C, X) ==
  /\ DOMAIN X = DOMAIN W
  /\ \A p \in DOMAIN W : /\ DOMAIN X[p] = DOMAIN W[p]
                          /\ \A k \in DOMAIN W[p] : /\ X[p][k].cref = W[p][k].cref
                                                    /\ Has(C[X[p][k].cref].lits, X[p][k].blocker)

LEMMA WatchesSame ==
  ASSUME NEW W, NEW C, NEW S, NEW dirt, WatchesIn(W, C, S, dirt), NEW X, NEW B,
         Relists(W, C, X), Reorders(C, S, B)
  PROVE  WatchesIn(X, B, S, dirt)
<1>5. DOMAIN X = DOMAIN W /\ DOMAIN B = DOMAIN C
  BY DEF Relists, Reorders
<1>6. \A cr \in DOMAIN C : B[cr].mark = C[cr].mark /\ \A q : Has(C[cr].lits, q) <=> Has(B[cr].lits, q)
  BY DEF Reorders
<1>7. \A cr \in S : \A p : Wants(C[cr].lits, p) <=> Wants(B[cr].lits, p)
  BY DEF Reorders
<1> SUFFICES ASSUME NEW p \in DOMAIN W
             PROVE  /\ Once(X[p])
                    /\ \A cr \in S : Watched(X[p], cr) <=> Wants(B[cr].lits, p)
                    /\ \A k \in DOMAIN X[p] : Good(X[p][k], p, B, S, dirt)
  BY <1>5, WatchesSplit
<1>8. DOMAIN X[p] = DOMAIN W[p] /\ \A k \in DOMAIN W[p] : /\ X[p][k].cref = W[p][k].cref
                                                         /\ Has(C[X[p][k].cref].lits, X[p][k].blocker)
  BY DEF Relists
<1>1. /\ Once(W[p])
      /\ \A cr \in S : Watched(W[p], cr) <=> Wants(C[cr].lits, p)
      /\ \A k \in DOMAIN W[p] : Good(W[p][k], p, C, S, dirt)
  BY WatchesSplit
<1>2. Once(X[p])
  BY <1>1, <1>8 DEF Once
<1>3. \A cr \in S : Watched(X[p], cr) <=> Wants(B[cr].lits, p)
  BY <1>1, <1>7, <1>8 DEF Watched
<1>4. \A k \in DOMAIN X[p] : Good(X[p][k], p, B, S, dirt)
  BY <1>1, <1>5, <1>6, <1>8 DEF Good
<1> QED
  BY <1>2, <1>3, <1>4

(***************************************************************************)
(* The watcher of the clause cr moves from the list of p to that of q.     *)
(***************************************************************************)
MovesTo(W, X, p, q, i, w) ==
  /\ DOMAIN X = DOMAIN W /\ \A r \in DOMAIN W : r # p /\ r # q => X[r] = W[r]
  /\ W[p] \in Seq(WatcherSet) /\ W[q] \in Seq(WatcherSet) /\ w \in WatcherSet
  /\ X[q] = Append(W[q], w)
  /\ X[p] \in Seq(WatcherSet) /\ Len(X[p]) = Len(W[p]) - 1
  /\ \A k \in DOMAIN X[p] : X[p][k] = IF k < i THEN W[p][k] ELSE W[p][k + 1]
Rewatches(C, S, B, cr, p, q) ==
  /\ DOMAIN B = DOMAIN C
  /\ \A x \in DOMAIN C : B[x].mark = C[x].mark /\ \A y : Has(C[x].lits, y) <=> Has(B[x].lits, y)
  /\ \A x \in S : x # cr => \A y : Wants(C[x].lits, y) <=> Wants(B[x].lits, y)
  /\ ~Wants(C[cr].lits, q) /\ Wants(B[cr].lits, q) /\ ~Wants(B[cr].lits, p)
  /\ \A y : y # p /\ y # q => (Wants(C[cr].lits, y) <=> Wants(B[cr].lits, y))

LEMMA WatchesMove ==
  ASSUME NEW W, NEW C, NEW S, NEW dirt, WatchesIn(W, C, S, dirt), NEW X, NEW B,
         NEW p \in DOMAIN W, NEW q \in DOMAIN W, p # q, NEW i \in DOMAIN W[p], NEW w, w.cref = W[p][i].cref,
         NEW cr \in S, cr = w.cref, cr \in DOMAIN C, Has(C[cr].lits, w.blocker),
         MovesTo(W, X, p, q, i, w), Rewatches(C, S, B, cr, p, q)
  PROVE  WatchesIn(X, B, S, dirt)
<1> USE DEF MovesTo, Rewatches
<1> SUFFICES ASSUME NEW r \in DOMAIN W
             PROVE  /\ Once(X[r])
                    /\ \A x \in S : Watched(X[r], x) <=> Wants(B[x].lits, r)
                    /\ \A k \in DOMAIN X[r] : Good(X[r][k], r, B, S, dirt)
  BY WatchesSplit
<1>1. \A s \in DOMAIN W :
        /\ Once(W[s])
        /\ \A x \in S : Watched(W[s], x) <=> Wants(C[x].lits, s)
        /\ \A k \in DOMAIN W[s] : Good(W[s][k], s, C, S, dirt)
  BY WatchesSplit
<1>2. \A v, s : Good(v, s, C, S, dirt) => Good(v, s, B, S, dirt)
  BY DEF Good
<1>3. CASE r # p /\ r # q
  BY <1>1, <1>2, <1>3
<1>4. CASE r = q
  <2> DEFINE n == Len(W[q])
  <2>1. /\ n \in Nat /\ DOMAIN W[q] = 1 .. n /\ DOMAIN X[q] = 1 .. n + 1
        /\ X[q][n + 1] = w /\ \A k \in 1 .. n : X[q][k] = W[q][k]
    BY AppendIs
  <2>2. \A k \in DOMAIN W[q] : W[q][k].cref # cr
    BY <1>1 DEF Watched
  <2> HIDE DEF n
  <2>3. \A k \in DOMAIN X[q] : k \in DOMAIN W[q] \/ k = n + 1
    BY <2>1
  <2>4. Once(X[q])
    <3> SUFFICES ASSUME NEW j \in DOMAIN X[q], NEW k \in DOMAIN X[q], X[q][j].cref = X[q][k].cref PROVE j = k
      BY DEF Once
    <3>1. \A m \in DOMAIN W[q] : X[q][m] = W[q][m] /\ X[q][m].cref # X[q][n + 1].cref
      BY <2>1, <2>2
    <3>2. j \in DOMAIN W[q] => k \in DOMAIN W[q]
      BY <2>3, <3>1
    <3>3. k \in DOMAIN W[q] => j \in DOMAIN W[q]
      BY <2>3, <3>1
    <3>4. CASE j \in DOMAIN W[q]
      BY <1>1, <3>1, <3>2, <3>4 DEF Once
    <3>5. CASE j \notin DOMAIN W[q]
      BY <2>3, <3>3, <3>5
    <3> QED
      BY <3>4, <3>5
  <2>5. ASSUME NEW x \in S PROVE Watched(X[q], x) <=> Wants(B[x].lits, q)
    <3>1. CASE x = cr
      <4>1. n + 1 \in DOMAIN X[q] /\ X[q][n + 1].cref = cr
        BY <2>1
      <4>2. Watched(X[q], cr)
        BY <4>1 DEF Watched
      <4> QED
        BY <3>1, <4>2
    <3>2. CASE x # cr
      <4>1. Watched(X[q], x) <=> Watched(W[q], x)
        BY <2>1, <2>3, <3>2 DEF Watched
      <4> QED
        BY <1>1, <3>2, <4>1
    <3> QED
      BY <3>1, <3>2
  <2>6. Good(w, q, C, S, dirt)
    BY DEF Good
  <2>7. \A k \in DOMAIN X[q] : Good(X[q][k], q, B, S, dirt)
    BY <1>1, <1>2, <2>1, <2>3, <2>6
  <2> QED
    BY <1>4, <2>4, <2>5, <2>7
<1>5. CASE r = p
  <2> DEFINE n == Len(W[p])
  <2>1. /\ n \in Nat /\ DOMAIN W[p] = 1 .. n /\ DOMAIN X[p] = 1 .. n - 1 /\ i \in 1 .. n
    <3>1. W[p] \in Seq(WatcherSet) /\ X[p] \in Seq(WatcherSet) /\ Len(X[p]) = n - 1
      OBVIOUS
    <3> QED
      BY <3>1
  <2> HIDE DEF n
  <2>2. \A k \in DOMAIN X[p] : k \in Nat /\ k \in DOMAIN W[p] /\ k + 1 \in DOMAIN W[p]
    BY <2>1
  <2>3. ASSUME NEW k \in DOMAIN X[p] PROVE \E m \in DOMAIN W[p] : m # i /\ X[p][k] = W[p][m]
    <3>1. CASE k < i
      BY <2>1, <2>2, <3>1
    <3>2. CASE ~(k < i)
      BY <2>1, <2>2, <3>2
    <3> QED
      BY <3>1, <3>2
  <2>4. ASSUME NEW m \in DOMAIN W[p], m # i PROVE \E k \in DOMAIN X[p] : X[p][k] = W[p][m]
    <3>1. CASE m < i
      <4>1. m \in DOMAIN X[p]
        BY <2>1, <3>1
      <4> QED
        BY <3>1, <4>1
    <3>2. CASE ~(m < i)
      <4>1. m - 1 \in DOMAIN X[p] /\ ~(m - 1 < i) /\ m - 1 + 1 = m
        BY <2>1, <2>4, <3>2
      <4> QED
        BY <4>1
    <3> QED
      BY <3>1, <3>2
  <2>5. Once(X[p])
    <3> SUFFICES ASSUME NEW j \in DOMAIN X[p], NEW k \in DOMAIN X[p], X[p][j].cref = X[p][k].cref PROVE j = k
      BY DEF Once
    <3>1. (IF j < i THEN j ELSE j + 1) = (IF k < i THEN k ELSE k + 1)
      <4>1. PICK m : m = IF j < i THEN j ELSE j + 1
        OBVIOUS
      <4>2. PICK o : o = IF k < i THEN k ELSE k + 1
        OBVIOUS
      <4>3. X[p][j] = W[p][m] /\ m \in DOMAIN W[p]
        BY <2>2, <4>1
      <4>4. X[p][k] = W[p][o] /\ o \in DOMAIN W[p]
        BY <2>2, <4>2
      <4>5. m = o
        BY <1>1, <4>3, <4>4 DEF Once
      <4> QED
        BY <4>1, <4>2, <4>5
    <3>2. j \in Nat /\ k \in Nat /\ i \in Nat
      BY <2>1, <2>2
    <3> QED
      BY <3>1, <3>2
  <2>6. \A k \in DOMAIN X[p] : X[p][k].cref # cr
    <3>1. \A m \in DOMAIN W[p] : m # i => W[p][m].cref # W[p][i].cref
      BY <1>1 DEF Once
    <3> QED
      BY <2>3, <3>1
  <2>7. ASSUME NEW x \in S PROVE Watched(X[p], x) <=> Wants(B[x].lits, p)
    <3>1. CASE x = cr
      BY <2>6, <3>1 DEF Watched
    <3>2. CASE x # cr
      <4>1. Watched(X[p], x) <=> Watched(W[p], x)
        <5>1. ASSUME Watched(X[p], x) PROVE Watched(W[p], x)
          BY <2>3, <5>1 DEF Watched
        <5>2. ASSUME Watched(W[p], x) PROVE Watched(X[p], x)
          <6>1. PICK m \in DOMAIN W[p] : W[p][m].cref = x
            BY <5>2 DEF Watched
          <6>2. m # i
            BY <3>2, <6>1
          <6> QED
            BY <2>4, <6>1, <6>2 DEF Watched
        <5> QED
          BY <5>1, <5>2
      <4> QED
        BY <1>1, <3>2, <4>1
    <3> QED
      BY <3>1, <3>2
  <2>8. \A k \in DOMAIN X[p] : Good(X[p][k], p, B, S, dirt)
    BY <1>1, <1>2, <2>3
  <2> QED
    BY <1>5, <2>5, <2>7, <2>8
<1> QED
  BY <1>3, <1>4, <1>5

(***************************************************************************)
(* A new clause is watched from its first two literals.                    *)
(***************************************************************************)
LEMMA OneMore ==
  ASSUME NEW l \in Seq(WatcherSet), NEW w \in WatcherSet, NEW m, m = Append(l, w)
  PROVE  /\ \A x : Watched(m, x) <=> Watched(l, x) \/ x = w.cref
         /\ Once(l) /\ ~Watched(l, w.cref) => Once(m)
         /\ \A k \in DOMAIN m : m[k] = w \/ \E j \in DOMAIN l : m[k] = l[j]
         /\ m \in Seq(WatcherSet)
<1> DEFINE n == Len(l)
<1>1. /\ n \in Nat /\ DOMAIN l = 1 .. n /\ DOMAIN m = 1 .. n + 1 /\ m \in Seq(WatcherSet)
      /\ m[n + 1] = w /\ \A k \in 1 .. n : m[k] = l[k]
  BY AppendIs
<1> HIDE DEF n
<1>2. \A k \in DOMAIN m : k \in DOMAIN l \/ k = n + 1
  BY <1>1
<1>3. n + 1 \in DOMAIN m /\ \A k \in DOMAIN l : k \in DOMAIN m /\ m[k] = l[k]
  BY <1>1
<1>4. ASSUME NEW x PROVE Watched(m, x) <=> Watched(l, x) \/ x = w.cref
  BY <1>1, <1>2, <1>3 DEF Watched
<1>5. ASSUME Once(l), ~Watched(l, w.cref) PROVE Once(m)
  <2> SUFFICES ASSUME NEW j \in DOMAIN m, NEW k \in DOMAIN m, m[j].cref = m[k].cref PROVE j = k
    BY DEF Once
  <2>1. \A i \in DOMAIN l : m[i].cref # m[n + 1].cref
    BY <1>1, <1>3, <1>5 DEF Watched
  <2>2. CASE j \in DOMAIN l /\ k \in DOMAIN l
    BY <1>3, <1>5, <2>2 DEF Once
  <2>3. CASE ~(j \in DOMAIN l /\ k \in DOMAIN l)
    BY <1>2, <2>1, <2>3
  <2> QED
    BY <2>2, <2>3
<1> QED
  BY <1>1, <1>2, <1>3, <1>4, <1>5

Attaches(W, c, n, X) ==
  X = [W EXCEPT ![neg(c[1])] = Append(@, [cref |-> n, blocker |-> c[2]]),
                ![neg(c[2])] = Append(@, [cref |-> n, blocker |-> c[1]])]

LEMMA WatchesAttach ==
  ASSUME NEW W, NEW C, NEW S, NEW dirt, WatchesIn(W, C, S, dirt), W \in [Lit -> Seq(WatcherSet)],
         C \in Seq(ClauseSet), NEW n, n = Len(C), S \subseteq 1 .. n,
         NEW e \in ClauseSet, NEW c, c = e.lits, Len(c) >= 2, c \in Seq(Lit), neg(c[1]) # neg(c[2]),
         neg(c[1]) \in Lit, neg(c[2]) \in Lit,
         NEW B, B = Append(C, e), NEW R, R = S \cup {n + 1},
         NEW X, Attaches(W, c, n + 1, X)
  PROVE  X \in [Lit -> Seq(WatcherSet)] /\ WatchesIn(X, B, R, dirt)
<1>1. n \in Nat /\ DOMAIN C = 1 .. n /\ DOMAIN B = 1 .. n + 1 /\ B[n + 1] = e /\ \A k \in 1 .. n : B[k] = C[k]
  BY AppendIs
<1>2. c[1] \in Lit /\ c[2] \in Lit /\ 1 \in DOMAIN c /\ 2 \in DOMAIN c
  BY SeqFacts
<1>3. PICK v : v = [cref |-> n + 1, blocker |-> c[2]]
  OBVIOUS
<1>4. PICK w : w = [cref |-> n + 1, blocker |-> c[1]]
  OBVIOUS
<1>5. /\ v \in WatcherSet /\ v.cref = n + 1 /\ Has(c, v.blocker)
      /\ w \in WatcherSet /\ w.cref = n + 1 /\ Has(c, w.blocker)
  BY <1>1, <1>2, <1>3, <1>4 DEF WatcherSet, Has
<1>6. PICK a \in Lit : a = neg(c[1])
  OBVIOUS
<1>7. PICK b \in Lit : b = neg(c[2])
  OBVIOUS
<1>8. /\ a # b /\ X[a] = Append(W[a], v) /\ X[b] = Append(W[b], w)
      /\ DOMAIN X = DOMAIN W /\ DOMAIN W = Lit
      /\ \A p \in Lit : p # a /\ p # b => X[p] = W[p]
  BY <1>3, <1>4, <1>6, <1>7 DEF Attaches
<1>9. \A p \in Lit : W[p] \in Seq(WatcherSet)
  OBVIOUS
<1>10. \A p \in Lit :
        /\ Once(W[p])
        /\ \A x \in S : Watched(W[p], x) <=> Wants(C[x].lits, p)
        /\ \A k \in DOMAIN W[p] : Good(W[p][k], p, C, S, dirt)
  BY <1>8, WatchesSplit
<1>11. \A p \in Lit : ~Watched(W[p], n + 1)
  BY <1>1, <1>10 DEF Watched, Good
<1>12. \A u, p : Good(u, p, C, S, dirt) => Good(u, p, B, R, dirt)
  <2>1. \A x \in DOMAIN C : x \in DOMAIN B /\ B[x] = C[x]
    BY <1>1
  <2> QED
    BY <2>1 DEF Good
<1>13. \A p : Good(v, p, B, R, dirt) /\ Good(w, p, B, R, dirt)
  BY <1>1, <1>5 DEF Good
<1>14. \A x \in S : x # n + 1 /\ B[x] = C[x]
  <2> SUFFICES ASSUME NEW x \in S PROVE x # n + 1 /\ B[x] = C[x]
    OBVIOUS
  <2>1. x \in 1 .. n
    OBVIOUS
  <2> QED
    BY <1>1, <2>1
<1>15. ASSUME NEW p \in Lit, NEW u \in {v, w}, X[p] = Append(W[p], u), Wants(c, p)
       PROVE  /\ X[p] \in Seq(WatcherSet) /\ Once(X[p])
              /\ \A x \in R : Watched(X[p], x) <=> Wants(B[x].lits, p)
              /\ \A k \in DOMAIN X[p] : Good(X[p][k], p, B, R, dirt)
  <2>1. u \in WatcherSet /\ u.cref = n + 1 /\ Good(u, p, B, R, dirt) /\ W[p] \in Seq(WatcherSet)
    BY <1>5, <1>9, <1>13
  <2>2. /\ \A x : Watched(X[p], x) <=> Watched(W[p], x) \/ x = u.cref
        /\ Once(W[p]) /\ ~Watched(W[p], u.cref) => Once(X[p])
        /\ \A k \in DOMAIN X[p] : X[p][k] = u \/ \E j \in DOMAIN W[p] : X[p][k] = W[p][j]
        /\ X[p] \in Seq(WatcherSet)
    BY <1>15, <2>1, OneMore
  <2>3. \A k \in DOMAIN X[p] : Good(X[p][k], p, B, R, dirt)
    <3> SUFFICES ASSUME NEW k \in DOMAIN X[p] PROVE Good(X[p][k], p, B, R, dirt)
      OBVIOUS
    <3>1. CASE X[p][k] = u
      BY <2>1, <3>1
    <3>2. ASSUME NEW j \in DOMAIN W[p], X[p][k] = W[p][j] PROVE Good(X[p][k], p, B, R, dirt)
      <4>1. Good(W[p][j], p, C, S, dirt)
        BY <1>10
      <4> QED
        BY <1>12, <3>2, <4>1
    <3> QED
      BY <2>2, <3>1, <3>2
  <2>4. \A x \in S : Watched(X[p], x) <=> Wants(B[x].lits, p)
    BY <1>10, <1>14, <2>1, <2>2
  <2>5. Watched(X[p], n + 1) /\ Wants(B[n + 1].lits, p)
    BY <1>1, <1>15, <2>1, <2>2
  <2> QED
    BY <1>10, <1>11, <2>1, <2>2, <2>3, <2>4, <2>5
<1>16. Wants(c, a) /\ Wants(c, b) /\ \A p : Wants(c, p) => p = a \/ p = b
  BY <1>6, <1>7 DEF Wants
<1>17. ASSUME NEW p \in Lit, p # a, p # b
       PROVE  /\ X[p] \in Seq(WatcherSet) /\ Once(X[p])
              /\ \A x \in R : Watched(X[p], x) <=> Wants(B[x].lits, p)
              /\ \A k \in DOMAIN X[p] : Good(X[p][k], p, B, R, dirt)
  <2>1. X[p] = W[p]
    BY <1>8, <1>17
  <2>2. \A x \in S : Watched(X[p], x) <=> Wants(B[x].lits, p)
    BY <1>10, <1>14, <2>1
  <2>3. ~Watched(X[p], n + 1) /\ ~Wants(B[n + 1].lits, p)
    BY <1>1, <1>11, <1>16, <1>17, <2>1
  <2> QED
    BY <1>9, <1>10, <1>12, <2>1, <2>2, <2>3
<1>18. \A p \in Lit : /\ X[p] \in Seq(WatcherSet) /\ Once(X[p])
                      /\ \A x \in R : Watched(X[p], x) <=> Wants(B[x].lits, p)
                      /\ \A k \in DOMAIN X[p] : Good(X[p][k], p, B, R, dirt)
  <2>1. a \in Lit /\ v \in {v, w} /\ X[a] = Append(W[a], v) /\ Wants(c, a)
    BY <1>8, <1>16
  <2>2. b \in Lit /\ w \in {v, w} /\ X[b] = Append(W[b], w) /\ Wants(c, b)
    BY <1>8, <1>16
  <2> SUFFICES ASSUME NEW p \in Lit
               PROVE  /\ X[p] \in Seq(WatcherSet) /\ Once(X[p])
                      /\ \A x \in R : Watched(X[p], x) <=> Wants(B[x].lits, p)
                      /\ \A k \in DOMAIN X[p] : Good(X[p][k], p, B, R, dirt)
    OBVIOUS
  <2>3. CASE p = a
    BY <1>15, <2>1, <2>3
  <2>4. CASE p = b
    BY <1>15, <2>2, <2>4
  <2> QED
    BY <1>17, <2>3, <2>4
<1>19. X \in [Lit -> Seq(WatcherSet)]
  <2>1. \A p \in Lit : X[p] \in Seq(WatcherSet)
    BY <1>18
  <2>2. X = [p \in Lit |-> X[p]]
    BY <1>8 DEF Attaches
  <2> QED
    BY <2>1, <2>2
<1>20. WatchesIn(X, B, R, dirt)
  <2>1. DOMAIN X = Lit
    BY <1>8
  <2>2. \A p \in DOMAIN X : /\ Once(X[p])
                            /\ \A x \in R : Watched(X[p], x) <=> Wants(B[x].lits, p)
                            /\ \A k \in DOMAIN X[p] : Good(X[p][k], p, B, R, dirt)
    BY <1>18, <2>1
  <2> QED
    BY <2>2, WatchesSplit
<1> QED
  BY <1>19, <1>20

(***************************************************************************)
(* Clauses are removed: their watchers are left in lists marked dirty.     *)
(***************************************************************************)
LEMMA WatchesRemove ==
  ASSUME NEW W, NEW C, NEW S, NEW dirt, WatchesIn(W, C, S, dirt), NEW R, R \subseteq S, S \subseteq DOMAIN C,
         NEW B, DOMAIN B = DOMAIN C,
         \A cr \in DOMAIN C : B[cr].lits = C[cr].lits /\ B[cr].mark = IF cr \in R THEN 1 ELSE C[cr].mark,
         NEW d, dirt \subseteq d, \A cr \in R : neg(C[cr].lits[1]) \in d /\ neg(C[cr].lits[2]) \in d
  PROVE  WatchesIn(W, B, S \ R, d)
<1> SUFFICES ASSUME NEW p \in DOMAIN W
             PROVE  /\ Once(W[p])
                    /\ \A x \in S \ R : Watched(W[p], x) <=> Wants(B[x].lits, p)
                    /\ \A k \in DOMAIN W[p] : Good(W[p][k], p, B, S \ R, d)
  BY WatchesSplit
<1>1. /\ Once(W[p])
      /\ \A x \in S : Watched(W[p], x) <=> Wants(C[x].lits, p)
      /\ \A k \in DOMAIN W[p] : Good(W[p][k], p, C, S, dirt)
  BY WatchesSplit
<1>2. \A k \in DOMAIN W[p] : W[p][k].cref \in DOMAIN C
  BY <1>1 DEF Good
<1>3. \A x \in S \ R : Watched(W[p], x) <=> Wants(B[x].lits, p)
  <2> SUFFICES ASSUME NEW x \in S \ R PROVE Watched(W[p], x) <=> Wants(B[x].lits, p)
    OBVIOUS
  <2>1. B[x].lits = C[x].lits
    OBVIOUS
  <2> QED
    BY <1>1, <2>1
<1>4. ASSUME NEW k \in DOMAIN W[p] PROVE Good(W[p][k], p, B, S \ R, d)
  <2> DEFINE x == W[p][k].cref
  <2>1. Good(W[p][k], p, C, S, dirt) /\ x \in DOMAIN C
    BY <1>1, <1>2
  <2>2. CASE x \in R
    <3>1. Wants(C[x].lits, p)
      BY <1>1, <2>2 DEF Watched
    <3>2. p \in d
      BY <2>2, <3>1 DEF Wants
    <3> QED
      BY <2>1, <2>2, <3>2 DEF Good
  <2>3. CASE x \notin R
    BY <2>1, <2>3 DEF Good
  <2> QED
    BY <2>2, <2>3
<1> QED
  BY <1>1, <1>3, <1>4

(***************************************************************************)
(* The dirty lists are cleaned: only live clauses are watched.             *)
(***************************************************************************)
LEMMA WatchesClean ==
  ASSUME NEW W, NEW C, NEW S, NEW dirt, WatchesIn(W, C, S, dirt), W \in [Lit -> Seq(WatcherSet)],
         \A cr \in S : C[cr].mark = 0, NEW X, X = CleanAll(W, C, dirt)
  PROVE  X \in [Lit -> Seq(WatcherSet)] /\ WatchesIn(X, C, S, {})
<1> DEFINE Is(p) == {j \in DOMAIN W[p] : C[W[p][j].cref].mark # 1}
<1>1. \A p \in Lit :
        /\ Once(W[p])
        /\ \A x \in S : Watched(W[p], x) <=> Wants(C[x].lits, p)
        /\ \A k \in DOMAIN W[p] : Good(W[p][k], p, C, S, dirt)
  <2>1. DOMAIN W = Lit
    OBVIOUS
  <2> QED
    BY <2>1, WatchesSplit
<1>2. /\ DOMAIN X = Lit
      /\ \A p \in Lit : X[p] = IF p \in dirt THEN Selected(W[p], Is(p)) ELSE W[p]
  BY DEF CleanAll
<1> HIDE DEF Is
<1>3. ASSUME NEW p \in Lit
      PROVE  /\ X[p] \in Seq(WatcherSet) /\ Once(X[p])
             /\ \A x \in S : Watched(X[p], x) <=> Wants(C[x].lits, p)
             /\ \A k \in DOMAIN X[p] : Good(X[p][k], p, C, S, {})
  <2>1. W[p] \in Seq(WatcherSet)
    OBVIOUS
  <2>2. CASE p \notin dirt
    <3>1. X[p] = W[p]
      BY <1>2, <2>2
    <3>2. \A k \in DOMAIN W[p] : Good(W[p][k], p, C, S, {})
      BY <1>1, <2>2 DEF Good
    <3> QED
      BY <1>1, <2>1, <3>1, <3>2
  <2>3. CASE p \in dirt
    <3>1. PICK I : I = Is(p)
      OBVIOUS
    <3>2. I \subseteq DOMAIN W[p] /\ \A j \in DOMAIN W[p] : j \in I <=> C[W[p][j].cref].mark # 1
      BY <3>1 DEF Is
    <3>3. X[p] = Selected(W[p], I)
      BY <1>2, <2>3, <3>1
    <3>4. X[p] \in Seq(WatcherSet) /\ \E a : Picks(W[p], I, X[p], a)
      <4>1. PICK s : s = W[p]
        OBVIOUS
      <4>2. PICK t : t = X[p]
        OBVIOUS
      <4>3. s \in Seq(WatcherSet) /\ I \subseteq DOMAIN s /\ t = Selected(s, I)
        BY <2>1, <3>2, <3>3, <4>1, <4>2
      <4>4. t \in Seq(WatcherSet) /\ \E a : Picks(s, I, t, a)
        BY <4>3, SelectedIs
      <4> QED
        BY <4>1, <4>2, <4>4
    <3>a. PICK a : Picks(W[p], I, X[p], a)
      BY <3>4
    <3>5. /\ a \in [DOMAIN X[p] -> I]
          /\ \A k \in DOMAIN X[p] : X[p][k] = W[p][a[k]]
          /\ \A j, k \in DOMAIN X[p] : a[j] = a[k] => j = k
          /\ \A i \in I : \E k \in DOMAIN X[p] : a[k] = i
      BY <3>a DEF Picks
    <3>6. \A k \in DOMAIN X[p] : a[k] \in I /\ a[k] \in DOMAIN W[p]
      BY <3>2, <3>5
    <3>7. Once(X[p])
      BY <1>1, <3>5, <3>6 DEF Once
    <3>8. \A k \in DOMAIN X[p] : Good(X[p][k], p, C, S, {})
      <4> SUFFICES ASSUME NEW k \in DOMAIN X[p] PROVE Good(X[p][k], p, C, S, {})
        OBVIOUS
      <4>1. X[p][k] = W[p][a[k]] /\ a[k] \in DOMAIN W[p] /\ C[W[p][a[k]].cref].mark # 1
        BY <3>2, <3>5, <3>6
      <4>2. Good(W[p][a[k]], p, C, S, dirt)
        BY <1>1, <4>1
      <4> QED
        BY <4>1, <4>2 DEF Good
    <3>9. ASSUME NEW x \in S PROVE Watched(X[p], x) <=> Wants(C[x].lits, p)
      <4>1. ASSUME Watched(X[p], x) PROVE Watched(W[p], x)
        BY <3>5, <3>6, <4>1 DEF Watched
      <4>2. ASSUME Watched(W[p], x) PROVE Watched(X[p], x)
        <5>1. PICK j \in DOMAIN W[p] : W[p][j].cref = x
          BY <4>2 DEF Watched
        <5>2. j \in I
          BY <3>2, <5>1
        <5>3. PICK k \in DOMAIN X[p] : a[k] = j
          BY <3>5, <5>2
        <5> QED
          BY <3>5, <5>1, <5>3 DEF Watched
      <4> QED
        BY <1>1, <4>1, <4>2
    <3> QED
      BY <3>4, <3>7, <3>8, <3>9
  <2> QED
    BY <2>2, <2>3
<1>4. X \in [Lit -> Seq(WatcherSet)]
  <2>1. X = [p \in Lit |-> X[p]]
    BY <1>2 DEF CleanAll
  <2> QED
    BY <1>3, <2>1
<1>5. WatchesIn(X, C, S, {})
  BY <1>2, <1>3, WatchesSplit
<1> QED
  BY <1>4, <1>5

(***************************************************************************)
(* The clauses move to new addresses.                                      *)
(***************************************************************************)
Renames(W, C, S, new, R, B, X) ==
  /\ \A x \in S : new[x] \in Nat /\ new[x] \in R /\ B[new[x]] = C[x]
  /\ \A x, y \in S : new[x] = new[y] => x = y
  /\ \A k \in R : \E x \in S : new[x] = k
  /\ DOMAIN B = R
  /\ X = [p \in DOMAIN W |-> [j \in DOMAIN W[p] |-> [W[p][j] EXCEPT !.cref = new[@]]]]

LEMMA WatchesRename ==
  ASSUME NEW W, NEW C, NEW S, WatchesIn(W, C, S, {}), W \in [Lit -> Seq(WatcherSet)],
         NEW new, NEW R, NEW B, NEW X, Renames(W, C, S, new, R, B, X)
  PROVE  X \in [Lit -> Seq(WatcherSet)] /\ WatchesIn(X, B, R, {})
<1>0. /\ \A x \in S : new[x] \in Nat /\ new[x] \in R /\ B[new[x]] = C[x]
      /\ \A x, y \in S : new[x] = new[y] => x = y
      /\ \A k \in R : \E x \in S : new[x] = k
      /\ DOMAIN B = R
  BY DEF Renames
<1>1. \A p \in Lit :
        /\ Once(W[p])
        /\ \A x \in S : Watched(W[p], x) <=> Wants(C[x].lits, p)
        /\ \A k \in DOMAIN W[p] : Good(W[p][k], p, C, S, {})
  <2>1. DOMAIN W = Lit
    OBVIOUS
  <2> QED
    BY <2>1, WatchesSplit
<1>2. DOMAIN X = Lit /\ \A p \in Lit : X[p] = [j \in DOMAIN W[p] |-> [W[p][j] EXCEPT !.cref = new[@]]]
  BY DEF Renames
<1>3. ASSUME NEW p \in Lit
      PROVE  /\ X[p] \in Seq(WatcherSet) /\ Once(X[p])
             /\ \A x \in R : Watched(X[p], x) <=> Wants(B[x].lits, p)
             /\ \A k \in DOMAIN X[p] : Good(X[p][k], p, B, R, {})
  <2> DEFINE n == Len(W[p])
  <2>1. W[p] \in Seq(WatcherSet) /\ n \in Nat /\ DOMAIN W[p] = 1 .. n
    OBVIOUS
  <2>2. ASSUME NEW j \in DOMAIN W[p]
        PROVE  /\ W[p][j].cref \in S /\ X[p][j] \in WatcherSet
               /\ X[p][j].cref = new[W[p][j].cref] /\ X[p][j].blocker = W[p][j].blocker
    <3>1. PICK w : w = W[p][j]
      OBVIOUS
    <3>2. w \in WatcherSet
      BY <2>1, <3>1
    <3>3. Good(w, p, C, S, {})
      BY <1>1, <3>1
    <3>4. w.cref \in S
      BY <3>3 DEF Good
    <3>5. new[w.cref] \in Nat
      BY <1>0, <3>4
    <3>6. X[p][j] = [w EXCEPT !.cref = new[w.cref]]
      BY <1>2, <3>1
    <3> QED
      BY <3>1, <3>2, <3>4, <3>5, <3>6 DEF WatcherSet
  <2>3. DOMAIN X[p] = DOMAIN W[p]
    BY <1>2
  <2>4. X[p] \in Seq(WatcherSet)
    <3>1. X[p] = [j \in 1 .. n |-> X[p][j]]
      BY <1>2, <2>1
    <3>2. \A j \in 1 .. n : X[p][j] \in WatcherSet
      BY <2>1, <2>2
    <3>3. X[p] \in [1 .. n -> WatcherSet]
      BY <3>1, <3>2
    <3> QED
      BY <1>2, <2>1, <3>1, <3>2, <3>3
  <2>5. Once(X[p])
    BY <1>0, <1>1, <2>2, <2>3 DEF Once
  <2>6. ASSUME NEW y \in R PROVE Watched(X[p], y) <=> Wants(B[y].lits, p)
    <3>1. PICK x \in S : y = new[x]
      BY <1>0
    <3>2. Watched(X[p], y) <=> Watched(W[p], x)
      <4>1. \A k \in DOMAIN W[p] : X[p][k].cref = y <=> W[p][k].cref = x
        BY <1>0, <2>2, <3>1
      <4> QED
        BY <2>3, <4>1 DEF Watched
    <3>3. B[y] = C[x]
      BY <1>0, <3>1
    <3> QED
      BY <1>1, <3>2, <3>3
  <2>7. ASSUME NEW k \in DOMAIN X[p] PROVE Good(X[p][k], p, B, R, {})
    <3>1. PICK x : x = W[p][k].cref
      OBVIOUS
    <3>2. x \in S /\ X[p][k].cref = new[x] /\ new[x] \in R /\ B[new[x]] = C[x]
      BY <1>0, <2>2, <2>3, <3>1
    <3>3. Has(C[x].lits, W[p][k].blocker)
      BY <1>1, <2>3, <3>1 DEF Good
    <3> QED
      BY <1>0, <2>2, <2>3, <3>2, <3>3 DEF Good
  <2> QED
    BY <2>4, <2>5, <2>6, <2>7
<1>4. X \in [Lit -> Seq(WatcherSet)]
  <2>1. X = [p \in Lit |-> X[p]]
    BY <1>2 DEF Renames
  <2> QED
    BY <1>3, <2>1
<1>5. WatchesIn(X, B, R, {})
  BY <1>2, <1>3, WatchesSplit
<1> QED
  BY <1>4, <1>5

(***************************************************************************)
(* The places of the collector are ordered, and no place is of two         *)
(* clauses: the addresses number the clauses found.                        *)
(***************************************************************************)
LEMMA BeforeOrder ==
  ASSUME NEW q \in Nat \X Nat, NEW r \in Nat \X Nat, NEW s \in Nat \X Nat
  PROVE  /\ q = r \/ Before(q, r) \/ Before(r, q)
         /\ ~(Before(q, r) /\ Before(r, q)) /\ ~Before(q, q)
         /\ Before(q, r) /\ Before(r, s) => Before(q, s)
<1> DEFINE q1 == q[1]
           q2 == q[2]
           r1 == r[1]
           r2 == r[2]
           s1 == s[1]
           s2 == s[2]
<1>1. q1 \in Nat /\ q2 \in Nat /\ r1 \in Nat /\ r2 \in Nat /\ s1 \in Nat /\ s2 \in Nat
  OBVIOUS
<1>2. /\ Before(q, r) <=> q1 < r1 \/ (q1 = r1 /\ q2 < r2)
      /\ Before(r, q) <=> r1 < q1 \/ (r1 = q1 /\ r2 < q2)
      /\ Before(r, s) <=> r1 < s1 \/ (r1 = s1 /\ r2 < s2)
      /\ Before(q, s) <=> q1 < s1 \/ (q1 = s1 /\ q2 < s2)
      /\ Before(q, q) <=> q1 < q1 \/ (q1 = q1 /\ q2 < q2)
  BY DEF Before
<1>3. q1 = r1 /\ q2 = r2 => q = r
  OBVIOUS
<1> HIDE DEF q1, q2, r1, r2, s1, s2
<1>4. q = r \/ Before(q, r) \/ Before(r, q)
  BY <1>1, <1>2, <1>3
<1>5. ~(Before(q, r) /\ Before(r, q)) /\ ~Before(q, q)
  BY <1>1, <1>2
<1>6. Before(q, r) /\ Before(r, s) => Before(q, s)
  BY <1>1, <1>2
<1> QED
  BY <1>4, <1>5, <1>6

LEMMA FirstPlace ==
  ASSUME NEW Q, Q \subseteq Nat \X Nat, Q # {}
  PROVE  \E m \in Q : \A r \in Q : r = m \/ Before(m, r)
<1> DEFINE A == {q[1] : q \in Q}
<1>1. A \subseteq Nat /\ A # {}
  OBVIOUS
<1>2. PICK a \in A : \A b \in A : a <= b
  BY <1>1, NatMin
<1> DEFINE B == {q[2] : q \in {r \in Q : r[1] = a}}
<1>3. B \subseteq Nat /\ B # {}
  BY <1>2
<1>4. PICK b \in B : \A c \in B : b <= c
  BY <1>3, NatMin
<1>5. PICK m \in Q : m[1] = a /\ m[2] = b
  BY <1>4
<1>6. ASSUME NEW r \in Q PROVE r = m \/ Before(m, r)
  <2>1. m \in Nat \X Nat /\ r \in Nat \X Nat
    OBVIOUS
  <2>2. ~Before(r, m)
    <3>1. r[1] \in A /\ r[1] \in Nat /\ r[2] \in Nat /\ a \in Nat /\ b \in Nat
      BY <1>1, <1>2, <1>3, <1>4, <2>1
    <3>2. a <= r[1]
      BY <1>2, <3>1
    <3>3. r[1] = a => b <= r[2]
      BY <1>4
    <3> DEFINE x == r[1]
               y == r[2]
    <3>4. x \in Nat /\ y \in Nat /\ a <= x /\ (x = a => b <= y)
      BY <3>1, <3>2, <3>3
    <3>5. Before(r, m) <=> x < a \/ (x = a /\ y < b)
      BY <1>5 DEF Before
    <3> HIDE DEF x, y
    <3> QED
      BY <3>1, <3>4, <3>5
  <2> QED
    BY <2>1, <2>2, BeforeOrder
<1> QED
  BY <1>6

LEMMA Addresses ==
  ASSUME NEW places, IsFiniteSet(DOMAIN places), \A x \in DOMAIN places : places[x] \subseteq Nat \X Nat,
         \A x, y \in DOMAIN places : x # y => places[x] \cap places[y] = {},
         NEW F, F = Found(places), NEW new, new = Address(places)
  PROVE  /\ F \subseteq DOMAIN places /\ IsFiniteSet(F) /\ Cardinality(F) \in Nat /\ DOMAIN new = F
         /\ \A x \in F : new[x] \in 1 .. Cardinality(F)
         /\ \A x, y \in F : new[x] = new[y] => x = y
         /\ \A k \in 1 .. Cardinality(F) : \E x \in F : new[x] = k
<1>1. F \subseteq DOMAIN places /\ \A x \in F : places[x] \subseteq Nat \X Nat /\ places[x] # {}
  BY DEF Found
<1>2. IsFiniteSet(F)
  BY <1>1, FS_Subset, Zenon
<1>3. PICK m : m = [x \in F |-> CHOOSE q \in places[x] : \A r \in places[x] : r = q \/ Before(q, r)]
  OBVIOUS
<1>4. ASSUME NEW x \in F
      PROVE m[x] \in places[x] /\ m[x] \in Nat \X Nat /\ \A r \in places[x] : r = m[x] \/ Before(m[x], r)
  <2>1. \E q \in places[x] : \A r \in places[x] : r = q \/ Before(q, r)
    BY <1>1, FirstPlace
  <2> QED
    BY <1>1, <1>3, <2>1
<1>5. \A x, y \in F : x # y => m[x] # m[y]
  BY <1>1, <1>4
<1>6. ASSUME NEW x \in F, NEW y \in F PROVE FoundBefore(places, x, y) <=> Before(m[x], m[y])
  <2>1. ASSUME FoundBefore(places, x, y) PROVE Before(m[x], m[y])
    <3>1. PICK q \in places[x] : Before(q, m[y])
      BY <1>4, <2>1 DEF FoundBefore
    <3>2. q = m[x] \/ Before(m[x], q)
      BY <1>4
    <3>3. q \in Nat \X Nat
      BY <1>1
    <3> QED
      BY <1>4, <3>1, <3>2, <3>3, BeforeOrder
  <2>2. ASSUME Before(m[x], m[y]) PROVE FoundBefore(places, x, y)
    <3>1. \A r \in places[y] : Before(m[x], r)
      <4> SUFFICES ASSUME NEW r \in places[y] PROVE Before(m[x], r)
        OBVIOUS
      <4>1. r = m[y] \/ Before(m[y], r)
        BY <1>4
      <4>2. r \in Nat \X Nat
        BY <1>1
      <4> QED
        BY <1>4, <2>2, <4>1, <4>2, BeforeOrder
    <3> QED
      BY <1>4, <3>1 DEF FoundBefore
  <2> QED
    BY <2>1, <2>2
<1>7. PICK D : D = [x \in F |-> {c \in F : c = x \/ FoundBefore(places, c, x)}]
  OBVIOUS
<1>8. /\ D \in [F -> SUBSET F] /\ \A x \in F : x \in D[x]
      /\ \A x, c \in F : c \in D[x] <=> c = x \/ FoundBefore(places, c, x)
  BY <1>7
<1>9. ASSUME NEW x \in F, NEW y \in F, Before(m[x], m[y])
      PROVE  D[x] \subseteq D[y] /\ y \notin D[x]
  <2>1. ASSUME NEW c \in D[x] PROVE c \in D[y]
    <3>1. c \in F
      BY <1>8
    <3>2. c = x \/ Before(m[c], m[x])
      BY <1>6, <1>8, <3>1
    <3>3. Before(m[c], m[y])
      <4>1. m[c] \in Nat \X Nat /\ m[x] \in Nat \X Nat /\ m[y] \in Nat \X Nat
        BY <1>4, <3>1
      <4> QED
        BY <1>9, <3>2, <4>1, BeforeOrder
    <3> QED
      BY <1>6, <1>8, <3>1, <3>3
  <2>2. x # y /\ ~Before(m[y], m[x])
    BY <1>4, <1>9, BeforeOrder
  <2> QED
    BY <1>6, <1>8, <2>1, <2>2
<1>10. \A x, y \in F : x # y => \/ D[x] \subseteq D[y] /\ y \notin D[x]
                                \/ D[y] \subseteq D[x] /\ x \notin D[y]
  <2> SUFFICES ASSUME NEW x \in F, NEW y \in F, x # y
               PROVE \/ D[x] \subseteq D[y] /\ y \notin D[x]
                     \/ D[y] \subseteq D[x] /\ x \notin D[y]
    OBVIOUS
  <2>1. Before(m[x], m[y]) \/ Before(m[y], m[x])
    BY <1>4, <1>5, BeforeOrder
  <2> QED
    BY <1>9, <2>1
<1>11. /\ Cardinality(F) \in Nat
       /\ \A x \in F : Cardinality(D[x]) \in 1 .. Cardinality(F)
       /\ \A x, y \in F : Cardinality(D[x]) = Cardinality(D[y]) => x = y
       /\ \A k \in 1 .. Cardinality(F) : \E x \in F : Cardinality(D[x]) = k
  <2>1. D \in [F -> SUBSET F]
    BY <1>8
  <2>2. \A x \in F : x \in D[x]
    BY <1>8
  <2> QED
    BY <1>2, <1>10, <2>1, <2>2, Numbering
<1>12. DOMAIN new = F /\ \A x \in F : new[x] = Cardinality(D[x])
  BY <1>7 DEF Address
<1> QED
  BY <1>1, <1>2, <1>11, <1>12

(***************************************************************************)
(* The lists, when none is being rewritten, and when one is.               *)
(***************************************************************************)
LEMMA ListsIdle ==
  ASSUME NEW P, P \subseteq Nat, NEW T, NEW W \in [P -> T], NEW w, w = NoList PROVE ListsOf(P, W, w) = W
<1>1. w.p = -1
  BY DEF NoList
<1>2. \A p \in P : w.p # p
  BY <1>1
<1> QED
  BY <1>2 DEF ListsOf

LEMMA ListsAre ==
  ASSUME NEW P, NEW T, NEW W \in [P -> Seq(T)], NEW w, w.p \in P, w.i \in Nat, w.i > 0,
         w.i <= Len(W[w.p]) + 1, w.kept \in Seq(T), NEW X, X = ListsOf(P, W, w)
  PROVE  /\ X \in [P -> Seq(T)]
         /\ \A p \in P : p # w.p => X[p] = W[p]
         /\ X[w.p] = w.kept \o SubSeq(W[w.p], w.i, Len(W[w.p]))
         /\ Len(w.kept) \in Nat /\ Len(W[w.p]) \in Nat
         /\ Len(X[w.p]) = Len(w.kept) + Len(W[w.p]) - w.i + 1
         /\ DOMAIN X[w.p] = 1 .. Len(w.kept) + Len(W[w.p]) - w.i + 1
         /\ \A k \in 1 .. Len(w.kept) : X[w.p][k] = w.kept[k]
         /\ \A k \in DOMAIN X[w.p] : k > Len(w.kept) => X[w.p][k] = W[w.p][k - Len(w.kept) + w.i - 1]
<1>1. PICK u : u = W[w.p]
  OBVIOUS
<1>2. PICK s : s = w.kept
  OBVIOUS
<1>3. PICK i : i = w.i
  OBVIOUS
<1>4. PICK t : t = s \o SubSeq(u, i, Len(u))
  OBVIOUS
<1>5. u \in Seq(T) /\ s \in Seq(T) /\ i \in 1 .. Len(u) + 1
  <2>1. u \in Seq(T) /\ s \in Seq(T)
    BY <1>1, <1>2
  <2>2. i \in Nat /\ i > 0 /\ i <= Len(u) + 1 /\ Len(u) \in Nat
    BY <1>1, <1>3, <2>1
  <2> QED
    BY <2>1, <2>2
<1>6. /\ t \in Seq(T) /\ Len(s) \in Nat /\ Len(u) \in Nat /\ Len(t) = Len(s) + Len(u) - i + 1
      /\ DOMAIN t = 1 .. Len(s) + Len(u) - i + 1
      /\ \A k \in 1 .. Len(s) : t[k] = s[k]
      /\ \A k \in DOMAIN t : k > Len(s) => t[k] = u[k - Len(s) + i - 1]
  <2>1. t \in Seq(T) /\ Len(s) \in Nat /\ Len(u) \in Nat /\ Len(t) = Len(s) + Len(u) - i + 1
    BY <1>4, <1>5, RestIs
  <2>2. DOMAIN t = 1 .. Len(s) + Len(u) - i + 1
    BY <1>4, <1>5, RestIs
  <2>3. \A k \in 1 .. Len(s) : t[k] = s[k]
    BY <1>4, <1>5, RestIs
  <2>4. \A k \in DOMAIN t : k > Len(s) => t[k] = u[k - Len(s) + i - 1]
    BY <1>4, <1>5, RestIs
  <2> QED
    BY <2>1, <2>2, <2>3, <2>4
<1>7. DOMAIN X = P /\ X[w.p] = t /\ \A p \in P : p # w.p => X[p] = W[p]
  BY <1>1, <1>2, <1>3, <1>4 DEF ListsOf
<1>8. \A p \in P : X[p] \in Seq(T)
  BY <1>6, <1>7
<1>9. X \in [P -> Seq(T)]
  <2>1. X = [p \in P |-> X[p]]
    BY DEF ListsOf
  <2> QED
    BY <1>8, <2>1
<1> QED
  BY <1>1, <1>2, <1>3, <1>4, <1>6, <1>7, <1>9

(***************************************************************************)
(* One watcher of the list being rewritten is kept, perhaps with another   *)
(* blocker, or is dropped.  The list is s and what is left of a from i on. *)
(***************************************************************************)
Rest(s, a, i) == s \o SubSeq(a, i, Len(a))
KeptOn(s, a, i, e, r, j) ==
  \/ j = i + 1 /\ r = Append(s, e)
  \/ j = Len(a) + 1 /\ r = Append(s, e) \o SubSeq(a, i + 1, Len(a))

IsRest(T, t, m, l, s, u, i) ==
  /\ t \in Seq(T) /\ Len(t) = m + l - i + 1 /\ DOMAIN t = 1 .. m + l - i + 1
  /\ \A k \in 1 .. m : t[k] = s[k]
  /\ \A k \in DOMAIN t : k > m => t[k] = u[k - m + i - 1]

LEMMA RestElements ==
  ASSUME NEW T, NEW s \in Seq(T), NEW u \in Seq(T), NEW m \in Nat, m = Len(s), NEW l \in Nat, l = Len(u),
         NEW i \in 1 .. l + 1, NEW t, t = Rest(s, u, i)
  PROVE  IsRest(T, t, m, l, s, u, i)
<1>1. t = s \o SubSeq(u, i, Len(u)) /\ i \in 1 .. Len(u) + 1
  BY DEF Rest
<1>2. /\ t \in Seq(T) /\ Len(t) = Len(s) + Len(u) - i + 1
      /\ DOMAIN t = 1 .. Len(s) + Len(u) - i + 1
      /\ \A k \in 1 .. Len(s) : t[k] = s[k]
  BY <1>1, RestIs
<1>3. \A k \in DOMAIN t : k > Len(s) => t[k] = u[k - Len(s) + i - 1]
  BY <1>1, RestIs
<1> QED
  BY <1>2, <1>3 DEF IsRest

LEMMA RestKept ==
  ASSUME NEW T, NEW s \in Seq(T), NEW a \in Seq(T), NEW i \in Nat, i \in 1 .. Len(a), NEW e \in T,
         NEW r, NEW j, KeptOn(s, a, i, e, r, j)
  PROVE  /\ r \in Seq(T) /\ j \in 1 .. Len(a) + 1 /\ Rest(r, a, j) = Rest(Append(s, e), a, i + 1)
<1>1. PICK t : t = Append(s, e)
  OBVIOUS
<1>2. t \in Seq(T) /\ Len(a) \in Nat
  BY <1>1
<1>3. CASE j = i + 1 /\ r = t
  BY <1>1, <1>2, <1>3
<1>4. CASE j = Len(a) + 1 /\ r = t \o SubSeq(a, i + 1, Len(a))
  <2>1. r \in Seq(T)
    <3>1. i + 1 \in 1 .. Len(a) + 1
      BY <1>2
    <3> QED
      BY <1>2, <1>4, <3>1, RestIs
  <2>2. SubSeq(a, j, Len(a)) = <<>>
    BY <1>2, <1>4
  <2>3. r \o <<>> = r
    BY <2>1
  <2>4. Rest(r, a, j) = r /\ r = Rest(t, a, i + 1)
    BY <1>4, <2>2, <2>3 DEF Rest
  <2>5. j \in 1 .. Len(a) + 1
    BY <1>2, <1>4
  <2> QED
    BY <1>1, <2>1, <2>4, <2>5
<1> QED
  BY <1>1, <1>3, <1>4 DEF KeptOn

LEMMA RestChanged ==
  ASSUME NEW T, NEW s \in Seq(T), NEW a \in Seq(T), NEW i \in Nat, i \in 1 .. Len(a), NEW e \in T,
         NEW x, x = Rest(s, a, i), NEW y, y = Rest(Append(s, e), a, i + 1), NEW n \in Nat, n = Len(s) + 1
  PROVE  /\ x \in Seq(T) /\ y \in Seq(T) /\ DOMAIN y = DOMAIN x /\ n \in DOMAIN x /\ x[n] = a[i] /\ y[n] = e
         /\ \A k \in DOMAIN x : k # n => y[k] = x[k]
<1>1. PICK m \in Nat : m = Len(s)
  OBVIOUS
<1>2. PICK l \in Nat : l = Len(a)
  OBVIOUS
<1>3. PICK t : t = Append(s, e)
  OBVIOUS
<1>4. i <= l /\ i >= 1 /\ n = m + 1
  BY <1>1, <1>2
<1>5. PICK o \in 1 .. l + 1 : o = i + 1
  BY <1>2, <1>4
<1>6. t \in Seq(T) /\ Len(t) = n /\ t[n] = e /\ (\A k \in 1 .. m : t[k] = s[k])
  BY <1>1, <1>3, <1>4, AppendIs
<1>7. IsRest(T, x, m, l, s, a, i)
  <2>1. i \in 1 .. l + 1
    BY <1>4
  <2> QED
    BY <1>1, <1>2, <2>1, RestElements
<1>8. IsRest(T, y, n, l, t, a, o)
  <2>1. y = Rest(t, a, o)
    BY <1>3, <1>5
  <2> QED
    BY <1>2, <1>6, <2>1, RestElements
<1>9. /\ x \in Seq(T) /\ DOMAIN x = 1 .. m + l - i + 1
      /\ \A k \in 1 .. m : x[k] = s[k]
      /\ \A k \in DOMAIN x : k > m => x[k] = a[k - m + i - 1]
  BY <1>7 DEF IsRest
<1>10. /\ y \in Seq(T) /\ DOMAIN y = 1 .. n + l - o + 1
       /\ \A k \in 1 .. n : y[k] = t[k]
       /\ \A k \in DOMAIN y : k > n => y[k] = a[k - n + o - 1]
  BY <1>8 DEF IsRest
<1>11. m + l - i + 1 = n + l - o + 1 /\ n \in 1 .. m + l - i + 1 /\ n > m /\ n - m + i - 1 = i /\ n \in 1 .. n
  BY <1>4, <1>5
<1>12. x[n] = a[i]
  <2>1. x[n] = a[n - m + i - 1]
    BY <1>9, <1>11
  <2> QED
    BY <1>11, <2>1
<1>13. ASSUME NEW k \in DOMAIN x, k # n PROVE y[k] = x[k]
  <2>1. k \in 1 .. m + l - i + 1 /\ k \in DOMAIN y
    BY <1>9, <1>10, <1>11
  <2>2. CASE k <= m
    <3>1. k \in 1 .. m /\ k \in 1 .. n
      BY <1>4, <2>1, <2>2
    <3> QED
      BY <1>6, <1>9, <1>10, <3>1
  <2>3. CASE k > m
    <3>1. k > n /\ k - n + o - 1 = k - m + i - 1
      BY <1>4, <1>5, <1>13, <2>1, <2>3
    <3>2. y[k] = a[k - n + o - 1] /\ x[k] = a[k - m + i - 1]
      BY <1>9, <1>10, <2>1, <2>3, <3>1
    <3> QED
      BY <3>1, <3>2
  <2> QED
    BY <2>1, <2>2, <2>3
<1> QED
  BY <1>6, <1>9, <1>10, <1>11, <1>12, <1>13

LEMMA RestDropped ==
  ASSUME NEW T, NEW s \in Seq(T), NEW a \in Seq(T), NEW i \in Nat, i \in 1 .. Len(a),
         NEW x, x = Rest(s, a, i), NEW y, y = Rest(s, a, i + 1), NEW n \in Nat, n = Len(s) + 1
  PROVE  /\ x \in Seq(T) /\ y \in Seq(T) /\ n \in DOMAIN x /\ x[n] = a[i] /\ Len(y) = Len(x) - 1
         /\ \A k \in DOMAIN y : y[k] = IF k < n THEN x[k] ELSE x[k + 1]
<1>1. PICK m \in Nat : m = Len(s)
  OBVIOUS
<1>2. PICK l \in Nat : l = Len(a)
  OBVIOUS
<1>4. i <= l /\ i >= 1 /\ n = m + 1
  BY <1>1, <1>2
<1>5. PICK o \in 1 .. l + 1 : o = i + 1
  BY <1>2, <1>4
<1>7. IsRest(T, x, m, l, s, a, i)
  <2>1. i \in 1 .. l + 1
    BY <1>4
  <2> QED
    BY <1>1, <1>2, <2>1, RestElements
<1>8. IsRest(T, y, m, l, s, a, o)
  <2>1. y = Rest(s, a, o)
    BY <1>5
  <2> QED
    BY <1>1, <1>2, <2>1, RestElements
<1>9. /\ x \in Seq(T) /\ Len(x) = m + l - i + 1 /\ DOMAIN x = 1 .. m + l - i + 1
      /\ \A k \in 1 .. m : x[k] = s[k]
      /\ \A k \in DOMAIN x : k > m => x[k] = a[k - m + i - 1]
  BY <1>7 DEF IsRest
<1>10. /\ y \in Seq(T) /\ Len(y) = m + l - o + 1 /\ DOMAIN y = 1 .. m + l - o + 1
       /\ \A k \in 1 .. m : y[k] = s[k]
       /\ \A k \in DOMAIN y : k > m => y[k] = a[k - m + o - 1]
  BY <1>8 DEF IsRest
<1>11. m + l - o + 1 = m + l - i + 1 - 1 /\ n \in 1 .. m + l - i + 1 /\ n > m /\ n - m + i - 1 = i
  BY <1>4, <1>5
<1>12. x[n] = a[i]
  <2>1. x[n] = a[n - m + i - 1]
    BY <1>9, <1>11
  <2> QED
    BY <1>11, <2>1
<1>13. ASSUME NEW k \in DOMAIN y PROVE y[k] = IF k < n THEN x[k] ELSE x[k + 1]
  <2>1. k \in 1 .. m + l - o + 1
    BY <1>10
  <2>2. CASE k < n
    <3>1. k \in 1 .. m
      BY <1>4, <2>1, <2>2
    <3> QED
      BY <1>9, <1>10, <2>2, <3>1
  <2>3. CASE ~(k < n)
    <3>1. PICK j \in 1 .. m + l - i + 1 : j = k + 1
      BY <1>4, <1>5, <2>1
    <3>2. k > m /\ j > m /\ j - m + i - 1 = k - m + o - 1
      BY <1>4, <1>5, <2>1, <2>3, <3>1
    <3>3. y[k] = a[k - m + o - 1]
      BY <1>10, <3>2
    <3>4. x[j] = a[j - m + i - 1]
      BY <1>9, <3>2
    <3> QED
      BY <2>3, <3>1, <3>2, <3>3, <3>4
  <2> QED
    BY <2>2, <2>3
<1>14. Len(y) = Len(x) - 1
  <2>1. Len(x) = m + l - i + 1
    BY <1>9
  <2>2. Len(y) = m + l - o + 1
    BY <1>10
  <2> QED
    BY <1>11, <2>1, <2>2
<1>15. x \in Seq(T) /\ y \in Seq(T) /\ n \in DOMAIN x
  BY <1>9, <1>10, <1>11
<1> QED
  BY <1>12, <1>13, <1>14, <1>15

(***************************************************************************)
(* The same of the lists.                                                  *)
(***************************************************************************)
LEMMA ListsRest ==
  ASSUME NEW P, NEW T, NEW W \in [P -> Seq(T)], NEW w, w.p \in P, w.i \in 1 .. Len(W[w.p]) + 1,
         w.kept \in Seq(T), NEW X, X = ListsOf(P, W, w)
  PROVE  /\ X \in [P -> Seq(T)] /\ X[w.p] = Rest(w.kept, W[w.p], w.i) /\ \A q \in P : q # w.p => X[q] = W[q]
<1>1. W[w.p] \in Seq(T) /\ Len(W[w.p]) \in Nat
  OBVIOUS
<1>2. w.i \in Nat /\ w.i > 0 /\ w.i <= Len(W[w.p]) + 1
  BY <1>1
<1>3. X \in [P -> Seq(T)]
  BY <1>2, ListsAre
<1> QED
  BY <1>3 DEF ListsOf, Rest

-----------------------------------------------------------------------------
(***************************************************************************)
(* What a step leaves alone.                                               *)
(***************************************************************************)
LEMMA SameVars ==
  ASSUME VarsType, DOMAIN assigns' = DOMAIN assigns
  PROVE  VarsType' /\ nVars' = nVars /\ Var' = Var /\ Lit' = Lit
BY DEF VarsType, nVars, Var, Lit

LEMMA SameTypes ==
  ASSUME Lit' = Lit
  PROVE  ClauseSet' = ClauseSet /\ WatcherSet' = WatcherSet /\ ListSet' = ListSet /\ AnalysisSet' = AnalysisSet
BY DEF ClauseSet, WatcherSet, ListSet, AnalysisSet

LEMMA Assigned ==
  ASSUME VarsType, AssignmentType PROVE Tables(Var, Lit, assigns, vardata, trail, trail_lim)
BY Literals DEF AssignmentType, Tables, DataSet

LEMMA SameAssignment ==
  ASSUME VarsType, AssignmentType, UNCHANGED assignment, qhead' \in Nat PROVE VarsType' /\ AssignmentType'
BY SameVars DEF VarsType, AssignmentType, assignment

LEMMA SameDatabase ==
  ASSUME DatabaseType, UNCHANGED <<clauses, learnts, ca, dirty>>, UNCHANGED watches, Lit' = Lit
  PROVE  DatabaseType'
BY SameTypes DEF DatabaseType

LEMMA SameScratch ==
  ASSUME ScratchType, UNCHANGED scratch, ws' = ws, ok' \in BOOLEAN, confl' \in Nat, Lit' = Lit, Var' = Var
  PROVE  ScratchType'
BY SameTypes DEF ScratchType, scratch

LEMMA SameTrail ==
  ASSUME Trail, assigns' = assigns, vardata' = vardata, trail' = trail, trail_lim' = trail_lim
  PROVE  Trail'
BY DEF Trail

LEMMA SameClauses ==
  ASSUME Clauses, UNCHANGED <<clauses, learnts, ca>> PROVE Clauses'
BY DEF Clauses, Live

LEMMA SameReasoned ==
  ASSUME Reasoned, vardata' = vardata, trail' = trail, trail_lim' = trail_lim, UNCHANGED <<clauses, learnts, ca>>
  PROVE  Reasoned'
BY DEF Reasoned, Live

LEMMA SameWatches ==
  ASSUME Watches, Lit' = Lit, watches' = watches, ws' = ws, UNCHANGED <<clauses, learnts, ca, dirty>>
  PROVE  Watches'
BY DEF Watches, Live, Lists

LEMMA SameConflicting ==
  ASSUME NEW cr, Conflicting(cr), assigns' = assigns, vardata' = vardata, trail_lim' = trail_lim,
         UNCHANGED <<clauses, learnts, ca>>
  PROVE  Conflicting(cr)'
BY DEF Conflicting, Live, lits, value, level, decisionLevel

(***************************************************************************)
(* A step that changes nothing but where the program is, ok, confl and the *)
(* counters.                                                               *)
(***************************************************************************)
Plain == {"idle", "propagate", "facts", "addClause", "simplify", "garbage", "solve",
          "search", "reduce", "decide", "l_False", "unsat"}

LEMMA QuietStep ==
  ASSUME Structure, pc \in Plain, pc' \in Plain, ok' \in BOOLEAN, confl' = confl \/ confl' = CRef_Undef,
         UNCHANGED assignment, UNCHANGED <<clauses, learnts, ca, dirty>>, UNCHANGED watches,
         UNCHANGED scratch, qhead' = qhead, ws' = ws, Control'
  PROVE  Structure'
<1>1. /\ VarsType /\ AssignmentType /\ DatabaseType /\ ScratchType /\ Control /\ Working /\ Trail
      /\ Clauses /\ Conflict /\ Reasoned /\ Watches /\ Analysis /\ Minimization /\ Cleared
  BY DEF Structure, TypeOK
<1>2. /\ assigns' = assigns /\ vardata' = vardata /\ trail' = trail /\ trail_lim' = trail_lim
      /\ order_heap' = order_heap /\ polarity' = polarity
      /\ clauses' = clauses /\ learnts' = learnts /\ ca' = ca /\ dirty' = dirty /\ watches' = watches
  BY DEF assignment
<1>3. /\ pc \notin {"watches", "analyze", "minimize", "litRedundant"}
      /\ pc' \notin {"watches", "analyze", "minimize", "litRedundant"}
  BY DEF Plain
<1>4. VarsType' /\ Var' = Var /\ Lit' = Lit
  BY <1>1, <1>2, SameVars
<1>5. AssignmentType'
  BY <1>1, SameAssignment DEF AssignmentType
<1>6. DatabaseType'
  BY <1>1, <1>4, SameDatabase
<1>7. ScratchType'
  <2>1. confl' \in Nat
    BY <1>1 DEF ScratchType, CRef_Undef
  <2> QED
    BY <1>1, <1>4, <2>1, SameScratch
<1>8. Trail' /\ Clauses' /\ Reasoned' /\ Watches'
  BY <1>1, <1>2, <1>4, SameTrail, SameClauses, SameReasoned, SameWatches
<1>9. Conflict'
  <2> SUFFICES ASSUME confl' # CRef_Undef PROVE Conflicting(confl)' 
    BY DEF Conflict, CRef_Undef
  <2>1. confl' = confl /\ Conflicting(confl)
    BY <1>1, <1>3 DEF Conflict
  <2>2. PICK cr : cr = confl
    OBVIOUS
  <2>3. Conflicting(cr)'
    BY <1>2, <2>1, <2>2, SameConflicting
  <2> QED
    BY <2>1, <2>2, <2>3
<1>10. Working'
  BY <1>1, <1>3 DEF Working
<1>11. Analysis' /\ Minimization'
  BY <1>3 DEF Analysis, Minimization, InMinimize
<1>12. Cleared'
  BY <1>1, <1>3 DEF Cleared, scratch
<1> QED
  BY <1>4, <1>5, <1>6, <1>7, <1>8, <1>9, <1>10, <1>11, <1>12 DEF Structure, TypeOK

LEMMA OneFrame == \A x : Head(<<x>>) = x /\ Tail(<<x>>) = <<>>
OBVIOUS

LEMMA TwoFrames == \A x, y : Head(<<x, y>>) = x /\ Tail(<<x, y>>) = <<y>>
OBVIOUS

LEMMA NoGarbageStep == ASSUME Structure, noGarbage PROVE Structure'
<1>1. /\ pc = "garbage" /\ pc' = Head(stack) /\ stack' = Tail(stack)
      /\ UNCHANGED assignment /\ UNCHANGED <<clauses, learnts, ca, dirty>> /\ UNCHANGED watches
      /\ UNCHANGED scratch /\ qhead' = qhead /\ ws' = ws /\ ok' = ok /\ confl' = confl
  BY DEF noGarbage, db
<1>2. Control /\ ok \in BOOLEAN
  BY DEF Structure, TypeOK, ScratchType
<1>3. \/ pc' = "solve" /\ stack = <<"solve">> /\ stack' = <<>>
      \/ pc' = "reduce" /\ stack = <<"reduce">> /\ stack' = <<>>
      \/ pc' = "decide" /\ stack = <<"decide">> /\ stack' = <<>>
  <2>1. stack \in {<<"solve">>, <<"reduce">>, <<"decide">>}
    BY <1>1, <1>2 DEF Control, Returns, InPropagate
  <2> QED
    BY <1>1, <2>1, OneFrame, TwoFrames
<1>4. Control'
  BY <1>1, <1>2, <1>3 DEF Control, Returns, AtRoot, InPropagate, decisionLevel, nAssigns, assignment, CRef_Undef
<1>5. pc \in Plain /\ pc' \in Plain /\ ok' \in BOOLEAN
  BY <1>1, <1>2, <1>3 DEF Plain
<1> QED
  BY <1>1, <1>4, <1>5, QuietStep

LEMMA ClauseAddedStep == ASSUME Structure, clauseAdded PROVE Structure'
<1>1. /\ pc = "addClause"
      /\ pc' = "idle" /\ stack' = <<>> /\ ok' = (confl = CRef_Undef) /\ confl' = CRef_Undef
      /\ UNCHANGED assignment /\ UNCHANGED <<clauses, learnts, ca, dirty>> /\ UNCHANGED watches
      /\ UNCHANGED scratch /\ qhead' = qhead /\ ws' = ws
  BY DEF clauseAdded, db
<1>2. Control /\ ok \in BOOLEAN
  BY DEF Structure, TypeOK, ScratchType
<1>4. Control'
  BY <1>1, <1>2 DEF Control, Returns, AtRoot, InPropagate, decisionLevel, nAssigns, assignment, CRef_Undef
<1>5. pc \in Plain /\ pc' \in Plain /\ ok' \in BOOLEAN
  BY <1>1, <1>2 DEF Plain
<1> QED
  BY <1>1, <1>4, <1>5, QuietStep

LEMMA CheckStep == ASSUME Structure, check PROVE Structure'
<1>1. /\ pc = "idle"
      /\ \/ ok /\ pc' = "propagate" /\ stack' = <<"simplify", "solve">>
         \/ ~ok /\ pc' = "unsat" /\ stack' = <<>>
      /\ UNCHANGED assignment /\ UNCHANGED <<clauses, learnts, ca, dirty>> /\ UNCHANGED watches
      /\ UNCHANGED scratch /\ qhead' = qhead /\ ws' = ws /\ ok' = ok /\ confl' = confl
  BY DEF check, db, Call
<1>2. Control /\ ok \in BOOLEAN
  BY DEF Structure, TypeOK, ScratchType
<1>4. Control'
  BY <1>1, <1>2 DEF Control, Returns, AtRoot, InPropagate, decisionLevel, nAssigns, assignment, CRef_Undef
<1>5. pc \in Plain /\ pc' \in Plain /\ ok' \in BOOLEAN
  BY <1>1, <1>2 DEF Plain
<1> QED
  BY <1>1, <1>4, <1>5, QuietStep

LEMMA CheckFailsStep == ASSUME Structure, checkFails PROVE Structure'
<1>1. /\ pc = "unsat"
      /\ pc' = "idle" /\ stack' = stack
      /\ UNCHANGED assignment /\ UNCHANGED <<clauses, learnts, ca, dirty>> /\ UNCHANGED watches
      /\ UNCHANGED scratch /\ qhead' = qhead /\ ws' = ws /\ ok' = ok /\ confl' = confl
  BY DEF checkFails, db
<1>2. Control /\ ok \in BOOLEAN
  BY DEF Structure, TypeOK, ScratchType
<1>4. Control'
  BY <1>1, <1>2 DEF Control, Returns, AtRoot, InPropagate, decisionLevel, nAssigns, assignment, CRef_Undef
<1>5. pc \in Plain /\ pc' \in Plain /\ ok' \in BOOLEAN
  BY <1>1, <1>2 DEF Plain
<1> QED
  BY <1>1, <1>4, <1>5, QuietStep

LEMMA SolveStep == ASSUME Structure, solve PROVE Structure'
<1>1. /\ pc = "solve"
      /\ pc' = "propagate" /\ stack' = <<"search">>
      /\ UNCHANGED assignment /\ UNCHANGED <<clauses, learnts, ca, dirty>> /\ UNCHANGED watches
      /\ UNCHANGED scratch /\ qhead' = qhead /\ ws' = ws /\ ok' = ok /\ confl' = confl
  BY DEF solve, db
<1>2. Control /\ ok \in BOOLEAN
  BY DEF Structure, TypeOK, ScratchType
<1>4. Control'
  BY <1>1, <1>2 DEF Control, Returns, AtRoot, InPropagate, decisionLevel, nAssigns, assignment, CRef_Undef
<1>5. pc \in Plain /\ pc' \in Plain /\ ok' \in BOOLEAN
  BY <1>1, <1>2 DEF Plain
<1> QED
  BY <1>1, <1>4, <1>5, QuietStep

LEMMA PropagatedStep == ASSUME Structure, propagated PROVE Structure'
<1>1. /\ pc = "facts" /\ qhead = nAssigns /\ pc' = Head(stack) /\ stack' = Tail(stack)
      /\ UNCHANGED assignment /\ UNCHANGED <<clauses, learnts, ca, dirty>> /\ UNCHANGED watches
      /\ UNCHANGED scratch /\ qhead' = qhead /\ ws' = ws /\ ok' = ok /\ confl' = confl
  BY DEF propagated, db
<1>2. Control /\ ok \in BOOLEAN
  BY DEF Structure, TypeOK, ScratchType
<1>3. \/ pc' = "addClause" /\ stack = <<"addClause">> /\ stack' = <<>>
      \/ pc' = "simplify" /\ stack = <<"simplify", "solve">> /\ stack' = <<"solve">>
      \/ pc' = "search" /\ stack = <<"search">> /\ stack' = <<>>
      \/ pc' = "simplify" /\ stack = <<"simplify", "reduce">> /\ stack' = <<"reduce">>
  <2>1. stack \in {<<"addClause">>, <<"simplify", "solve">>, <<"search">>, <<"simplify", "reduce">>}
    BY <1>1, <1>2 DEF Control, Returns, InPropagate
  <2> QED
    BY <1>1, <2>1, OneFrame, TwoFrames
<1>4. Control'
  BY <1>1, <1>2, <1>3 DEF Control, Returns, AtRoot, InPropagate, decisionLevel, nAssigns, assignment, CRef_Undef
<1>5. pc \in Plain /\ pc' \in Plain /\ ok' \in BOOLEAN
  BY <1>1, <1>2, <1>3 DEF Plain
<1> QED
  BY <1>1, <1>4, <1>5, QuietStep

LEMMA ConflictAtRootStep == ASSUME Structure, conflictAtRoot PROVE Structure'
<1>1. /\ pc = "search"
      /\ pc' = "l_False" /\ stack' = stack /\ confl' = CRef_Undef /\ decisionLevel = 0
      /\ UNCHANGED assignment /\ UNCHANGED <<clauses, learnts, ca, dirty>> /\ UNCHANGED watches
      /\ UNCHANGED scratch /\ qhead' = qhead /\ ws' = ws /\ ok' = ok
  BY DEF conflictAtRoot, db
<1>2. Control /\ ok \in BOOLEAN
  BY DEF Structure, TypeOK, ScratchType
<1>4. Control'
  BY <1>1, <1>2 DEF Control, Returns, AtRoot, InPropagate, decisionLevel, nAssigns, assignment, CRef_Undef
<1>5. pc \in Plain /\ pc' \in Plain /\ ok' \in BOOLEAN
  BY <1>1, <1>2 DEF Plain
<1> QED
  BY <1>1, <1>4, <1>5, QuietStep

LEMMA NoConflictStep == ASSUME Structure, noConflict PROVE Structure'
<1>1. /\ pc = "search"
      /\ confl = CRef_Undef
      /\ \/ decisionLevel = 0 /\ pc' = "propagate" /\ stack' = <<"simplify", "reduce">>
         \/ decisionLevel # 0 /\ pc' = "reduce" /\ stack' = stack
      /\ UNCHANGED assignment /\ UNCHANGED <<clauses, learnts, ca, dirty>> /\ UNCHANGED watches
      /\ UNCHANGED scratch /\ qhead' = qhead /\ ws' = ws /\ ok' = ok /\ confl' = confl
  BY DEF noConflict, db
<1>2. Control /\ ok \in BOOLEAN
  BY DEF Structure, TypeOK, ScratchType
<1>4. Control'
  BY <1>1, <1>2 DEF Control, Returns, AtRoot, InPropagate, decisionLevel, nAssigns, assignment, CRef_Undef
<1>5. pc \in Plain /\ pc' \in Plain /\ ok' \in BOOLEAN
  BY <1>1, <1>2 DEF Plain
<1> QED
  BY <1>1, <1>4, <1>5, QuietStep

LEMMA NoReduceStep == ASSUME Structure, noReduce PROVE Structure'
<1>1. /\ pc = "reduce"
      /\ pc' = "decide" /\ stack' = stack
      /\ UNCHANGED assignment /\ UNCHANGED <<clauses, learnts, ca, dirty>> /\ UNCHANGED watches
      /\ UNCHANGED scratch /\ qhead' = qhead /\ ws' = ws /\ ok' = ok /\ confl' = confl
  BY DEF noReduce, db
<1>2. Control /\ ok \in BOOLEAN
  BY DEF Structure, TypeOK, ScratchType
<1>4. Control'
  BY <1>1, <1>2 DEF Control, Returns, AtRoot, InPropagate, decisionLevel, nAssigns, assignment, CRef_Undef
<1>5. pc \in Plain /\ pc' \in Plain /\ ok' \in BOOLEAN
  BY <1>1, <1>2 DEF Plain
<1> QED
  BY <1>1, <1>4, <1>5, QuietStep

LEMMA SimplifyEndsStep == ASSUME Structure, simplifyEnds PROVE Structure'
<1>1. /\ pc = "simplify"
      /\ \/ /\ confl # CRef_Undef /\ ok' = FALSE /\ confl' = CRef_Undef /\ stack' = <<>>
            /\ pc' = IF Head(stack) = "solve" THEN "unsat" ELSE "l_False"
         \/ confl = CRef_Undef /\ pc' = Head(stack) /\ stack' = Tail(stack) /\ ok' = ok /\ confl' = confl
      /\ UNCHANGED assignment /\ UNCHANGED <<clauses, learnts, ca, dirty>> /\ UNCHANGED watches
      /\ UNCHANGED scratch /\ qhead' = qhead /\ ws' = ws
  BY DEF simplifyEnds
<1>2. Control /\ ok \in BOOLEAN
  BY DEF Structure, TypeOK, ScratchType
<1>3. \/ /\ confl # CRef_Undef /\ ok' = FALSE /\ confl' = CRef_Undef /\ stack' = <<>> /\ pc' \in {"unsat", "l_False"}
      \/ confl = CRef_Undef /\ pc' \in {"solve", "reduce"} /\ stack' = <<>> /\ ok' = ok /\ confl' = confl
  <2>1. stack \in {<<"solve">>, <<"reduce">>}
    BY <1>1, <1>2 DEF Control, Returns, InPropagate
  <2> QED
    BY <1>1, <2>1, OneFrame
<1>4. Control'
  BY <1>1, <1>2, <1>3 DEF Control, Returns, AtRoot, InPropagate, decisionLevel, nAssigns, assignment, CRef_Undef
<1>5. pc \in Plain /\ pc' \in Plain /\ ok' \in BOOLEAN
  BY <1>1, <1>2, <1>3 DEF Plain
<1> QED
  BY <1>1, <1>3, <1>4, <1>5, QuietStep

(***************************************************************************)
(* propagate starts: the lists are cleaned.                                *)
(***************************************************************************)
LEMMA PropagateStep == ASSUME Structure, propagate PROVE Structure'
<1>1. /\ VarsType /\ AssignmentType /\ DatabaseType /\ ScratchType /\ Control /\ Working /\ Trail
      /\ Clauses /\ Conflict /\ Reasoned /\ Watches /\ Analysis /\ Minimization /\ Cleared
  BY DEF Structure, TypeOK
<1>2. /\ pc = "propagate" /\ pc' = "facts" /\ watches' = CleanAll(watches, ca, dirty) /\ dirty' = {}
      /\ confl' = CRef_Undef /\ ok' = ok /\ stack' = stack /\ qhead' = qhead /\ ws' = ws
      /\ UNCHANGED assignment /\ UNCHANGED scratch
      /\ clauses' = clauses /\ learnts' = learnts /\ ca' = ca
      /\ assigns' = assigns /\ vardata' = vardata /\ trail' = trail /\ trail_lim' = trail_lim
  BY DEF propagate, assignment
<1>3. VarsType' /\ Var' = Var /\ Lit' = Lit
  BY <1>1, <1>2, SameVars
<1>4. ws = NoList /\ watches \in [Lit -> Seq(WatcherSet)] /\ qhead \in Nat
  BY <1>1, <1>2 DEF Working, DatabaseType, AssignmentType
<1>5. Lists = watches
  <2>1. Lit \subseteq Nat
    BY <1>1, Literals
  <2> QED
    BY <1>4, <2>1, ListsIdle DEF Lists
<1>6. watches' \in [Lit -> Seq(WatcherSet)] /\ WatchesIn(watches', ca, Live, {})
  <2>1. \A cr \in Live : ca[cr].mark = 0
    BY <1>1 DEF Clauses, ClausesIn
  <2>2. WatchesIn(watches, ca, Live, dirty)
    BY <1>1, <1>5 DEF Watches
  <2>3. PICK X : X = CleanAll(watches, ca, dirty)
    OBVIOUS
  <2>4. X \in [Lit -> Seq(WatcherSet)] /\ WatchesIn(X, ca, Live, {})
    BY <1>4, <2>1, <2>2, <2>3, WatchesClean
  <2> QED
    BY <1>2, <2>3, <2>4
<1>7. AssignmentType'
  BY <1>1, <1>2, <1>4, SameAssignment
<1>8. DatabaseType'
  BY <1>1, <1>2, <1>3, <1>6, SameTypes DEF DatabaseType
<1>9. ScratchType'
  BY <1>1, <1>2, <1>3, SameScratch DEF ScratchType, CRef_Undef
<1>10. Trail' /\ Clauses' /\ Reasoned'
  BY <1>1, <1>2, SameTrail, SameClauses, SameReasoned
<1>11. Watches'
  <2>1. (Lists = watches)'
    <3>1. Lit' \subseteq Nat /\ watches' \in [Lit' -> Seq(WatcherSet)] /\ ws' = NoList
      BY <1>1, <1>2, <1>3, <1>4, <1>6, Literals DEF NoList
    <3> QED
      BY <3>1, ListsIdle DEF Lists
  <2> QED
    BY <1>2, <1>6, <2>1 DEF Watches, Live
<1>12. Control'
  BY <1>1, <1>2 DEF Control, Returns, AtRoot, InPropagate, decisionLevel, nAssigns, CRef_Undef
<1>13. Working' /\ Conflict' /\ Analysis' /\ Minimization' /\ Cleared'
  BY <1>1, <1>2, <1>4 DEF Working, Conflict, Analysis, Minimization, InMinimize, Cleared, CRef_Undef, NoList, scratch
<1> QED
  BY <1>3, <1>7, <1>8, <1>9, <1>10, <1>11, <1>12, <1>13 DEF Structure, TypeOK

(***************************************************************************)
(* The next fact is taken: its list is still as it was.                    *)
(***************************************************************************)
LEMMA NextFactStep == ASSUME Structure, nextFact PROVE Structure'
<1>1. /\ VarsType /\ AssignmentType /\ DatabaseType /\ ScratchType /\ Control /\ Working /\ Trail
      /\ Clauses /\ Conflict /\ Reasoned /\ Watches /\ Analysis /\ Minimization /\ Cleared
  BY DEF Structure, TypeOK
<1>2. /\ pc = "facts" /\ pc' = "watches" /\ qhead < nAssigns /\ qhead' = qhead + 1
      /\ ws' = [p |-> trail[qhead + 1], i |-> 1, kept |-> <<>>]
      /\ confl' = confl /\ ok' = ok /\ stack' = stack
      /\ UNCHANGED assignment /\ UNCHANGED scratch /\ UNCHANGED <<clauses, learnts, ca, dirty>> /\ UNCHANGED watches
      /\ assigns' = assigns /\ vardata' = vardata /\ trail' = trail /\ trail_lim' = trail_lim
  BY DEF nextFact, assignment, db
<1>3. VarsType' /\ Var' = Var /\ Lit' = Lit
  BY <1>1, <1>2, SameVars
<1>4. /\ ws = NoList /\ watches \in [Lit -> Seq(WatcherSet)] /\ qhead \in Nat
      /\ trail \in Seq(Lit) /\ trail_lim \in Seq(Nat) /\ Lit \subseteq Nat
  BY <1>1, <1>2, Literals DEF Working, DatabaseType, AssignmentType
<1>5. /\ nAssigns = Len(trail) /\ Len(trail) \in Nat /\ DOMAIN trail = 1 .. Len(trail)
      /\ qhead + 1 \in DOMAIN trail /\ qhead + 1 <= Len(trail)
  BY <1>2, <1>4 DEF nAssigns
<1>6. PICK p \in Lit : p = trail[qhead + 1]
  BY <1>4, <1>5
<1>7. ws' = [p |-> p, i |-> 1, kept |-> <<>>]
  BY <1>2, <1>6
<1>8. Lists' = Lists
  <2>1. PICK w : w = ws'
    OBVIOUS
  <2>2. w.p = p /\ w.i = 1 /\ w.kept = <<>> /\ w.p # -1
    BY <1>4, <1>7, <2>1
  <2>3. \A s \in Seq(WatcherSet) : <<>> \o SubSeq(s, 1, Len(s)) = s
    OBVIOUS
  <2>4. \A q \in Lit : watches[q] \in Seq(WatcherSet)
    BY <1>4
  <2>5. ListsOf(Lit, watches, w) = watches
    BY <1>4, <2>2, <2>3, <2>4 DEF ListsOf
  <2>6. ListsOf(Lit, watches, ws) = watches
    BY <1>4, ListsIdle
  <2> QED
    BY <1>2, <1>3, <2>1, <2>5, <2>6 DEF Lists
<1>9. AssignmentType'
  BY <1>1, <1>2, <1>4, SameAssignment
<1>10. DatabaseType'
  BY <1>1, <1>2, <1>3, SameDatabase
<1>11. ScratchType'
  <2>1. ws' \in ListSet
    BY <1>7 DEF ListSet
  <2> QED
    BY <1>1, <1>2, <1>3, <2>1, SameTypes DEF ScratchType, scratch
<1>12. Trail' /\ Clauses' /\ Reasoned'
  BY <1>1, <1>2, SameTrail, SameClauses, SameReasoned
<1>13. Watches'
  BY <1>1, <1>2, <1>8 DEF Watches, Live
<1>14. \A v \in Var : vardata[v].level \in Nat
  BY <1>1 DEF AssignmentType
<1>15. level(var(p)) = decisionLevel
  <2>1. decisionLevel \in Nat /\ (decisionLevel > 0 => trail_lim[decisionLevel] <= qhead)
    BY <1>1, <1>4 DEF Control, decisionLevel
  <2> DEFINE d == vardata[var(p)].level
             a == Len(trail_lim)
  <2>2. d <= a /\ \A l \in DOMAIN trail_lim : l <= d <=> trail_lim[l] < qhead + 1
    BY <1>1, <1>5, <1>6 DEF Trail, TrailIn
  <2>3. a \in Nat /\ DOMAIN trail_lim = 1 .. a /\ (\A l \in 1 .. a : trail_lim[l] \in Nat) /\ a = decisionLevel
    BY <1>4 DEF decisionLevel
  <2>4. d \in Nat
    BY <1>1, <1>6, <1>14, Literals
  <2> HIDE DEF d, a
  <2>5. d = a
    <3>1. CASE a = 0
      BY <2>2, <2>3, <2>4, <3>1
    <3>2. CASE a # 0
      <4>1. a \in DOMAIN trail_lim /\ trail_lim[a] <= qhead /\ trail_lim[a] \in Nat
        BY <2>1, <2>3, <3>2
      <4>2. a <= d
        BY <1>4, <2>2, <4>1
      <4> QED
        BY <2>2, <2>3, <2>4, <4>2
    <3> QED
      BY <3>1, <3>2
  <2> QED
    BY <2>3, <2>5 DEF level, d
<1>16. confl = CRef_Undef
  BY <1>1, <1>2, <1>4, <1>5 DEF Control
<1>17. Working'
  <2>1. ws'.i = 1 /\ ws'.p = p
    BY <1>7
  <2>2. qhead + 1 \in 1 .. qhead + 1
    BY <1>4
  <2> QED
    BY <1>2, <1>6, <1>15, <1>16, <2>1, <2>2 DEF Working, level, decisionLevel
<1>18. Control'
  BY <1>1, <1>2, <1>4, <1>5, <1>16 DEF Control, Returns, AtRoot, InPropagate, decisionLevel, nAssigns, CRef_Undef
<1>19. Conflict' /\ Analysis' /\ Minimization' /\ Cleared'
  BY <1>1, <1>2, <1>16 DEF Conflict, Analysis, Minimization, InMinimize, Cleared, CRef_Undef, scratch
<1> QED
  BY <1>3, <1>9, <1>10, <1>11, <1>12, <1>13, <1>17, <1>18, <1>19 DEF Structure, TypeOK

(***************************************************************************)
(* The list is written back.                                               *)
(***************************************************************************)
LEMMA EndOfListStep == ASSUME Structure, endOfList PROVE Structure'
<1>1. /\ VarsType /\ AssignmentType /\ DatabaseType /\ ScratchType /\ Control /\ Working /\ Trail
      /\ Clauses /\ Conflict /\ Reasoned /\ Watches /\ Analysis /\ Minimization /\ Cleared
  BY DEF Structure, TypeOK
<1>2. /\ pc = "watches" /\ pc' = "facts" /\ ws.i > Len(watches[ws.p])
      /\ watches' = [watches EXCEPT ![ws.p] = ws.kept] /\ ws' = NoList
      /\ confl' = confl /\ ok' = ok /\ stack' = stack /\ qhead' = qhead
      /\ UNCHANGED assignment /\ UNCHANGED scratch /\ UNCHANGED <<clauses, learnts, ca, dirty>>
      /\ assigns' = assigns /\ vardata' = vardata /\ trail' = trail /\ trail_lim' = trail_lim
  BY DEF endOfList, assignment, db
<1>3. VarsType' /\ Var' = Var /\ Lit' = Lit
  BY <1>1, <1>2, SameVars
<1>4. /\ watches \in [Lit -> Seq(WatcherSet)] /\ Lit \subseteq Nat /\ trail \in Seq(Lit)
      /\ ws.kept \in Seq(WatcherSet) /\ ws.i \in Nat /\ qhead \in Nat /\ qhead <= Len(trail)
  BY <1>1, Literals DEF DatabaseType, AssignmentType, ScratchType, ListSet, Control, nAssigns
<1>5. PICK p \in Lit : p = ws.p
  <2>1. PICK k \in 1 .. qhead : trail[k] = ws.p
    BY <1>1, <1>2 DEF Working
  <2>2. k \in 1 .. Len(trail)
    BY <1>4
  <2>3. trail[k] \in Lit
    BY <1>4, <2>2
  <2> QED
    BY <2>1, <2>3
<1>6. watches' \in [Lit -> Seq(WatcherSet)]
  BY <1>2, <1>4, <1>5
<1>7. Lists' = Lists
  <2>1. PICK i : i = ws.i
    OBVIOUS
  <2>2. PICK s : s = ws.kept
    OBVIOUS
  <2>3. PICK u : u = watches[p]
    OBVIOUS
  <2>4. s \in Seq(WatcherSet) /\ u \in Seq(WatcherSet) /\ i \in Nat /\ i > Len(u)
    BY <1>2, <1>4, <1>5, <2>1, <2>2, <2>3
  <2>5. s \o SubSeq(u, i, Len(u)) = s
    BY <2>4
  <2>6. ListsOf(Lit, watches, ws) = [watches EXCEPT ![p] = s]
    BY <1>4, <1>5, <2>1, <2>2, <2>3, <2>5 DEF ListsOf
  <2>7. ListsOf(Lit', watches', ws') = watches'
    <3>1. PICK w : w = ws'
      OBVIOUS
    <3>2. PICK X : X = watches'
      OBVIOUS
    <3>3. X \in [Lit -> Seq(WatcherSet)] /\ w = NoList
      BY <1>2, <1>6, <3>1, <3>2
    <3>4. ListsOf(Lit, X, w) = X
      BY <1>4, <3>3, ListsIdle
    <3> QED
      BY <1>3, <3>1, <3>2, <3>4
  <2> QED
    BY <1>2, <1>5, <2>2, <2>6, <2>7 DEF Lists
<1>8. AssignmentType'
  BY <1>1, <1>2, <1>4, SameAssignment
<1>9. DatabaseType'
  BY <1>1, <1>2, <1>3, <1>6, SameTypes DEF DatabaseType
<1>10. ScratchType'
  <2>1. NoList \in ListSet
    BY DEF NoList, ListSet
  <2> QED
    BY <1>1, <1>2, <1>3, <2>1, SameTypes DEF ScratchType, scratch
<1>11. Trail' /\ Clauses' /\ Reasoned'
  BY <1>1, <1>2, SameTrail, SameClauses, SameReasoned
<1>12. Watches'
  BY <1>1, <1>2, <1>7 DEF Watches, Live
<1>13. confl # CRef_Undef => qhead = nAssigns
  BY <1>1, <1>2 DEF Working
<1>14. Control'
  BY <1>1, <1>2, <1>13 DEF Control, Returns, AtRoot, InPropagate, decisionLevel, nAssigns, CRef_Undef
<1>15. Conflict'
  <2> SUFFICES ASSUME confl' # CRef_Undef PROVE Conflicting(confl)'
    BY DEF Conflict, CRef_Undef
  <2>1. confl' = confl /\ Conflicting(confl)
    BY <1>1, <1>2 DEF Conflict
  <2>2. PICK cr : cr = confl
    OBVIOUS
  <2>3. Conflicting(cr)'
    BY <1>2, <2>1, <2>2, SameConflicting
  <2> QED
    BY <2>1, <2>2, <2>3
<1>16. Working' /\ Analysis' /\ Minimization' /\ Cleared'
  BY <1>1, <1>2 DEF Working, Analysis, Minimization, InMinimize, Cleared, scratch
<1> QED
  BY <1>3, <1>8, <1>9, <1>10, <1>11, <1>12, <1>14, <1>15, <1>16 DEF Structure, TypeOK

(***************************************************************************)
(* A decision opens a level.                                               *)
(***************************************************************************)
LEMMA DecideStep == ASSUME Structure, decide PROVE Structure'
<1>1. /\ VarsType /\ AssignmentType /\ DatabaseType /\ ScratchType /\ Control /\ Working /\ Trail
      /\ Clauses /\ Conflict /\ Reasoned /\ Watches /\ Analysis /\ Minimization /\ Cleared
  BY DEF Structure, TypeOK
<1>2. PICK v \in order_heap, skipped \in SUBSET {x \in order_heap : assigns[x] # l_Undef} :
        /\ assigns[v] = l_Undef
        /\ order_heap' = order_heap \ (skipped \cup {v})
        /\ trail_lim' = Append(trail_lim, nAssigns)
        /\ uncheckedEnqueue(2 * v + polarity[v], CRef_Undef, decisionLevel + 1, assigns, vardata, trail)
  BY DEF decide
<1>3. /\ pc = "decide" /\ pc' = "propagate" /\ stack' = <<"search">>
      /\ confl' = confl /\ ok' = ok /\ qhead' = qhead /\ polarity' = polarity /\ ws' = ws
      /\ UNCHANGED scratch /\ UNCHANGED <<clauses, learnts, ca, dirty>> /\ UNCHANGED watches
  BY DEF decide, db
<1>4. PICK p : p = 2 * v + polarity[v]
  OBVIOUS
<1>5. PICK e : e = Enqueued(p, CRef_Undef, decisionLevel + 1, assigns, vardata, trail)
  OBVIOUS
<1>6. assigns' = e.assigns /\ vardata' = e.vardata /\ trail' = e.trail
  BY <1>2, <1>4, <1>5 DEF uncheckedEnqueue
<1>7. p \in Lit /\ var(p) = v /\ v \in Var
  <2>1. v \in Var /\ v \in Nat /\ polarity[v] \in 0 .. 1
    BY <1>1, <1>2, Literals DEF AssignmentType
  <2>2. p \in Nat /\ var(p) = v
    BY <1>4, <2>1, LitMade
  <2> QED
    BY <1>1, <2>1, <2>2, Literals
<1>8. PICK M : M = Append(trail_lim, Len(trail))
  OBVIOUS
<1>9. trail_lim' = M /\ Len(M) = decisionLevel + 1 /\ decisionLevel \in Nat /\ M[Len(M)] = Len(trail)
  BY <1>1, <1>2, <1>8 DEF nAssigns, decisionLevel, AssignmentType
<1>10. Tables(Var, Lit, assigns, vardata, trail, trail_lim) /\ TrailIn(assigns, vardata, trail, trail_lim)
       /\ ReasonedIn(ca, Live, vardata, trail, trail_lim)
  BY <1>1, Assigned DEF Trail, Reasoned
<1>11. assigns[var(p)] = l_Undef /\ CRef_Undef \in Nat /\ e = Enqueued(p, CRef_Undef, Len(M), assigns, vardata, trail)
  BY <1>2, <1>5, <1>7, <1>9 DEF CRef_Undef
<1>12. Tables(Var, Lit, e.assigns, e.vardata, e.trail, M) /\ TrailIn(e.assigns, e.vardata, e.trail, M)
  BY <1>7, <1>8, <1>10, <1>11, TrailEnqueue
<1>13. ReasonedIn(ca, Live, e.vardata, e.trail, M)
  BY <1>7, <1>8, <1>10, <1>11, ReasonedEnqueue
<1>14. Len(e.trail) = Len(trail) + 1 /\ Len(trail) \in Nat
  <2>1. decisionLevel + 1 \in Nat
    BY <1>9
  <2> QED
    BY <1>5, <1>7, <1>10, <1>11, <2>1, EnqueuedIs, TableFacts
<1>15. DOMAIN assigns' = DOMAIN assigns
  BY <1>6, <1>10, <1>12 DEF Tables
<1>16. VarsType' /\ Var' = Var /\ Lit' = Lit
  BY <1>1, <1>15, SameVars
<1>17. AssignmentType'
  BY <1>1, <1>2, <1>3, <1>6, <1>9, <1>12, <1>16 DEF Tables, DataSet, AssignmentType
<1>18. Trail' /\ Reasoned'
  BY <1>3, <1>6, <1>9, <1>12, <1>13 DEF Trail, Reasoned, Live
<1>19. DatabaseType' /\ ScratchType' /\ Clauses' /\ Watches'
  BY <1>1, <1>3, <1>16, SameDatabase, SameScratch, SameClauses, SameWatches DEF ScratchType
<1>20. Control'
  <2>1. qhead = Len(trail) /\ ok /\ confl = CRef_Undef
    BY <1>1, <1>3 DEF Control, InPropagate, nAssigns, Returns
  <2>2. trail_lim'[decisionLevel'] = Len(trail) /\ Len(trail') = Len(trail) + 1 /\ decisionLevel' = decisionLevel + 1
    BY <1>6, <1>9, <1>14 DEF decisionLevel
  <2> QED
    BY <1>1, <1>3, <1>9, <1>14, <2>1, <2>2
       DEF Control, Returns, AtRoot, InPropagate, nAssigns, CRef_Undef
<1>21. Working' /\ Conflict' /\ Analysis' /\ Minimization' /\ Cleared'
  BY <1>1, <1>3 DEF Control, Working, Conflict, Analysis, Minimization, InMinimize, Cleared, scratch, CRef_Undef
<1> QED
  BY <1>16, <1>17, <1>18, <1>19, <1>20, <1>21 DEF Structure, TypeOK

(***************************************************************************)
(* Levels are undone.                                                      *)
(***************************************************************************)
Phases(lvl) ==
  [v \in Var |-> IF \E k \in Kept(lvl) + 1 .. nAssigns : var(trail[k]) = v /\ SavedPhase(k)
                 THEN assigns[v] ELSE polarity[v]]

LEMMA UndoState ==
  ASSUME VarsType, AssignmentType, Trail, Reasoned, NEW lvl \in Nat, lvl <= decisionLevel,
         NEW A, A = AssignsAt(lvl), NEW U, U = TrailAt(lvl), NEW M, M = SubSeq(trail_lim, 1, lvl)
  PROVE  /\ Tables(Var, Lit, A, vardata, U, M) /\ TrailIn(A, vardata, U, M)
         /\ ReasonedIn(ca, Live, vardata, U, M)
         /\ Kept(lvl) \in 0 .. Len(trail) /\ Len(U) = Kept(lvl) /\ (\A k \in 1 .. Kept(lvl) : U[k] = trail[k])
         /\ Len(M) = lvl /\ (\A l \in 1 .. lvl : M[l] = trail_lim[l])
         /\ \A k \in 1 .. Len(trail) : k <= Kept(lvl) <=> level(var(trail[k])) <= lvl
         /\ \A k \in 1 .. Kept(lvl) : A[var(trail[k])] = assigns[var(trail[k])]
         /\ \A k \in 1 .. Len(trail) : k > Kept(lvl) => A[var(trail[k])] = l_Undef
         /\ \A v \in Var : A[v] # l_Undef => A[v] = assigns[v]
         /\ Undone(lvl) \subseteq Var
<1>1. /\ Tables(Var, Lit, assigns, vardata, trail, trail_lim) /\ TrailIn(assigns, vardata, trail, trail_lim)
      /\ ReasonedIn(ca, Live, vardata, trail, trail_lim)
  BY Assigned DEF Trail, Reasoned
<1>2. PICK n : n = Kept(lvl)
  OBVIOUS
<1>3. Undo(trail, trail_lim, lvl, n, U, M) /\ lvl <= Len(trail_lim)
  BY <1>2 DEF Undo, Kept, TrailAt, decisionLevel, nAssigns
<1>4. A = [v \in Var |-> IF v \in {var(trail[k]) : k \in n + 1 .. Len(trail)} THEN l_Undef ELSE assigns[v]]
  BY <1>2 DEF AssignsAt, Undone, nAssigns
<1>5. PICK B : B = [v \in Var |-> IF v \in {var(trail[k]) : k \in n + 1 .. Len(trail)} THEN l_Undef ELSE assigns[v]]
  OBVIOUS
<1>8. A = B /\ Tables(Var, Lit, B, vardata, U, M) /\ TrailIn(B, vardata, U, M)
  BY <1>1, <1>3, <1>4, <1>5, TrailCancel
<1>9. n \in 0 .. Len(trail) /\ Len(U) = n /\ (\A k \in 1 .. n : U[k] = trail[k])
  BY <1>1, <1>3, <1>5, TrailCancel
<1>10. Len(M) = lvl /\ (\A l \in 1 .. lvl : M[l] = trail_lim[l])
  BY <1>1, <1>3, <1>5, TrailCancel
<1>11. \A k \in 1 .. Len(trail) : k <= n <=> vardata[var(trail[k])].level <= lvl
  BY <1>1, <1>3, <1>5, CancelIs
<1>12. \A k \in 1 .. n : B[var(trail[k])] = assigns[var(trail[k])]
  BY <1>1, <1>3, <1>5, TrailCancel
<1>13. \A k \in 1 .. Len(trail) : k > n => B[var(trail[k])] = l_Undef
  BY <1>1, <1>3, <1>5, TrailCancel
<1>14. \A v \in Var : B[v] # l_Undef => B[v] = assigns[v]
  BY <1>1, <1>3, <1>5, TrailCancel
<1>6. ReasonedIn(ca, Live, vardata, U, M)
  BY <1>1, <1>3, ReasonedCancel
<1>7. Undone(lvl) \subseteq Var
  <2>1. Len(trail) \in Nat /\ \A k \in 1 .. Len(trail) : var(trail[k]) \in Var
    BY <1>1, TableFacts
  <2>2. \A k \in n + 1 .. Len(trail) : k \in 1 .. Len(trail)
    BY <1>9, <2>1
  <2> QED
    BY <1>2, <2>1, <2>2 DEF Undone, nAssigns
<1> QED
  BY <1>2, <1>6, <1>7, <1>8, <1>9, <1>10, <1>11, <1>12, <1>13, <1>14 DEF level

LEMMA PhasesType ==
  ASSUME VarsType, AssignmentType, Trail, Reasoned, NEW lvl \in Nat, lvl <= decisionLevel
  PROVE  Phases(lvl) \in [Var -> 0 .. 1]
<1> SUFFICES ASSUME NEW v \in Var, \E k \in Kept(lvl) + 1 .. nAssigns : var(trail[k]) = v
             PROVE  assigns[v] \in 0 .. 1
  BY DEF Phases, AssignmentType
<1>1. PICK k \in Kept(lvl) + 1 .. nAssigns : var(trail[k]) = v
  OBVIOUS
<1>2. Kept(lvl) \in 0 .. Len(trail)
  BY UndoState
<1>3. Len(trail) \in Nat /\ DOMAIN trail = 1 .. Len(trail) /\ trail \in Seq(Lit)
  BY DEF AssignmentType
<1>4. k \in DOMAIN trail
  BY <1>1, <1>2, <1>3 DEF nAssigns
<1>5. trail[k] \in Nat /\ assigns[var(trail[k])] = sign(trail[k])
  BY <1>3, <1>4, Literals DEF Trail, TrailIn
<1> QED
  BY <1>1, <1>5, LitFacts

(***************************************************************************)
(* A jump back to level 0.                                                 *)
(***************************************************************************)
LEMMA RootStep ==
  ASSUME Structure, pc \in Plain, pc' \in Plain, confl = CRef_Undef, confl' = CRef_Undef, ok' \in BOOLEAN,
         assigns' = AssignsAt(0), trail' = TrailAt(0), vardata' = vardata, trail_lim' = SubSeq(trail_lim, 1, 0),
         polarity' = Phases(0), order_heap' = Undone(0) \/ order_heap' = order_heap \cup Undone(0), qhead' \in Nat,
         UNCHANGED <<clauses, learnts, ca, dirty>>, UNCHANGED watches, UNCHANGED scratch, ws' = ws, Control'
  PROVE  Structure'
<1>1. /\ VarsType /\ AssignmentType /\ DatabaseType /\ ScratchType /\ Control /\ Working /\ Trail
      /\ Clauses /\ Conflict /\ Reasoned /\ Watches /\ Analysis /\ Minimization /\ Cleared
  BY DEF Structure, TypeOK
<1>2. 0 \in Nat /\ 0 <= decisionLevel
  BY <1>1 DEF decisionLevel, AssignmentType
<1>3. PICK A : A = AssignsAt(0)
  OBVIOUS
<1>4. PICK U : U = TrailAt(0)
  OBVIOUS
<1>5. PICK M : M = SubSeq(trail_lim, 1, 0)
  OBVIOUS
<1>6. /\ Tables(Var, Lit, A, vardata, U, M) /\ TrailIn(A, vardata, U, M)
      /\ ReasonedIn(ca, Live, vardata, U, M) /\ Undone(0) \subseteq Var
  BY <1>1, <1>2, <1>3, <1>4, <1>5, UndoState
<1>7. polarity' \in [Var -> 0 .. 1]
  BY <1>1, <1>2, PhasesType
<1>8. DOMAIN assigns' = DOMAIN assigns
  BY <1>1, <1>3, <1>6 DEF Tables, AssignmentType
<1>9. VarsType' /\ Var' = Var /\ Lit' = Lit
  BY <1>1, <1>8, SameVars
<1>10. AssignmentType'
  <2>1. order_heap' \subseteq Var
    BY <1>1, <1>6 DEF AssignmentType
  <2> QED
    BY <1>3, <1>4, <1>5, <1>6, <1>7, <1>9, <2>1 DEF Tables, DataSet, AssignmentType
<1>11. Trail' /\ Reasoned'
  BY <1>3, <1>4, <1>5, <1>6 DEF Trail, Reasoned, Live
<1>12. DatabaseType' /\ ScratchType' /\ Clauses' /\ Watches'
  BY <1>1, <1>9, SameDatabase, SameScratch, SameClauses, SameWatches DEF CRef_Undef
<1>13. Working' /\ Conflict' /\ Analysis' /\ Minimization' /\ Cleared'
  BY <1>1 DEF Plain, Working, Conflict, Analysis, Minimization, InMinimize, Cleared, scratch, CRef_Undef
<1> QED
  BY <1>9, <1>10, <1>11, <1>12, <1>13 DEF Structure, TypeOK

LEMMA RootFacts ==
  ASSUME Structure
  PROVE  /\ Kept(0) \in Nat /\ Len(TrailAt(0)) = Kept(0) /\ Len(SubSeq(trail_lim, 1, 0)) = 0
         /\ SubSeq(trail_lim, 1, 0) = <<>> /\ decisionLevel \in Nat /\ qhead \in Nat /\ qhead <= nAssigns
         /\ decisionLevel = 0 => Kept(0) = nAssigns
<1>1. VarsType /\ AssignmentType /\ Trail /\ Reasoned /\ Control
  BY DEF Structure, TypeOK
<1>2. 0 \in Nat /\ 0 <= decisionLevel
  BY <1>1 DEF decisionLevel, AssignmentType
<1>3. Kept(0) \in 0 .. Len(trail) /\ Len(TrailAt(0)) = Kept(0)
  BY <1>1, <1>2, UndoState
<1>4. trail_lim \in Seq(Nat) /\ trail \in Seq(Lit)
  BY <1>1 DEF AssignmentType
<1>5. SubSeq(trail_lim, 1, 0) = <<>>
  BY <1>4
<1> QED
  BY <1>1, <1>3, <1>4, <1>5 DEF decisionLevel, Control, Kept, nAssigns, AssignmentType

LEMMA RestartStep == ASSUME Structure, restart PROVE Structure'
<1>1. /\ pc = "search" /\ pc' = "propagate" /\ stack' = <<"search">> /\ confl = CRef_Undef
      /\ UNCHANGED <<clauses, learnts, ca, dirty>> /\ UNCHANGED watches /\ UNCHANGED scratch
      /\ ws' = ws /\ ok' = ok /\ confl' = confl
      /\ assigns' = AssignsAt(0) /\ trail' = TrailAt(0) /\ vardata' = vardata
      /\ polarity' = Phases(0) /\ order_heap' = order_heap \cup Undone(0)
      /\ qhead' = (IF decisionLevel > 0 THEN Kept(0) ELSE qhead)
      /\ trail_lim' = SubSeq(trail_lim, 1, IF decisionLevel > 0 THEN 0 ELSE decisionLevel)
  BY DEF restart, cancelUntil, cancelUntilRest, Phases, db
<1>2. Control /\ ok \in BOOLEAN /\ dirty' = dirty
  BY <1>1 DEF Structure, TypeOK, ScratchType
<1>3. /\ Kept(0) \in Nat /\ Len(TrailAt(0)) = Kept(0) /\ Len(SubSeq(trail_lim, 1, 0)) = 0
      /\ decisionLevel \in Nat /\ qhead \in Nat /\ qhead <= nAssigns
      /\ decisionLevel = 0 => Kept(0) = nAssigns
  BY RootFacts
<1>4. trail_lim' = SubSeq(trail_lim, 1, 0) /\ decisionLevel' = 0 /\ nAssigns' = Kept(0) /\ qhead' \in Nat /\ qhead' <= nAssigns'
  <2>1. trail_lim' = SubSeq(trail_lim, 1, 0)
    BY <1>1, <1>3
  <2>2. decisionLevel' = 0 /\ nAssigns' = Kept(0)
    BY <1>1, <1>3, <2>1 DEF decisionLevel, nAssigns
  <2> QED
    BY <1>1, <1>3, <2>1, <2>2
<1>5. Control'
  BY <1>1, <1>2, <1>4 DEF Control, Returns, AtRoot, InPropagate, CRef_Undef
<1>6. pc \in Plain /\ pc' \in Plain
  BY <1>1 DEF Plain
<1> QED
  BY <1>1, <1>2, <1>4, <1>5, <1>6, RootStep

LEMMA SolveFailsStep == ASSUME Structure, solveFails PROVE Structure'
<1>1. /\ pc = "l_False" /\ pc' = "idle" /\ stack' = <<>> /\ ok' = FALSE
      /\ UNCHANGED <<clauses, learnts, ca, dirty>> /\ UNCHANGED watches /\ UNCHANGED scratch
      /\ ws' = ws /\ confl' = confl
      /\ assigns' = AssignsAt(0) /\ trail' = TrailAt(0) /\ vardata' = vardata
      /\ polarity' = Phases(0) /\ order_heap' = order_heap \cup Undone(0)
      /\ qhead' = (IF decisionLevel > 0 THEN Kept(0) ELSE qhead)
      /\ trail_lim' = SubSeq(trail_lim, 1, IF decisionLevel > 0 THEN 0 ELSE decisionLevel)
  BY DEF solveFails, cancelUntil, cancelUntilRest, Phases
<1>2. Control
  BY DEF Structure
<1>3. /\ Kept(0) \in Nat /\ Len(TrailAt(0)) = Kept(0) /\ Len(SubSeq(trail_lim, 1, 0)) = 0
      /\ decisionLevel \in Nat /\ qhead \in Nat /\ qhead <= nAssigns
      /\ decisionLevel = 0 => Kept(0) = nAssigns
  BY RootFacts
<1>4. trail_lim' = SubSeq(trail_lim, 1, 0) /\ decisionLevel' = 0 /\ nAssigns' = Kept(0) /\ qhead' \in Nat /\ qhead' <= nAssigns'
  <2>1. trail_lim' = SubSeq(trail_lim, 1, 0)
    BY <1>1, <1>3
  <2>2. decisionLevel' = 0 /\ nAssigns' = Kept(0)
    BY <1>1, <1>3, <2>1 DEF decisionLevel, nAssigns
  <2> QED
    BY <1>1, <1>3, <2>1, <2>2
<1>5. Control' /\ confl = CRef_Undef
  BY <1>1, <1>2, <1>4 DEF Control, Returns, AtRoot, InPropagate, CRef_Undef
<1>6. pc \in Plain /\ pc' \in Plain /\ ok' \in BOOLEAN
  BY <1>1 DEF Plain
<1> QED
  BY <1>1, <1>4, <1>5, <1>6, RootStep

LEMMA ModelFoundStep == ASSUME Structure, modelFound PROVE Structure'
<1>1. /\ pc = "decide" /\ pc' = "idle" /\ stack' = stack
      /\ UNCHANGED <<clauses, learnts, ca, dirty>> /\ UNCHANGED watches /\ UNCHANGED scratch
      /\ ws' = ws /\ confl' = confl /\ ok' = ok
      /\ assigns' = AssignsAt(0) /\ trail' = TrailAt(0) /\ vardata' = vardata
      /\ polarity' = Phases(0) /\ order_heap' = Undone(0)
      /\ qhead' = Kept(0) /\ trail_lim' = <<>>
  BY DEF modelFound, Phases, db
<1>2. Control /\ ok \in BOOLEAN
  BY DEF Structure, TypeOK, ScratchType
<1>3. /\ Kept(0) \in Nat /\ Len(TrailAt(0)) = Kept(0) /\ Len(SubSeq(trail_lim, 1, 0)) = 0
      /\ SubSeq(trail_lim, 1, 0) = <<>>
  BY RootFacts
<1>4. trail_lim' = SubSeq(trail_lim, 1, 0) /\ decisionLevel' = 0 /\ nAssigns' = Kept(0) /\ qhead' \in Nat /\ qhead' = nAssigns'
  BY <1>1, <1>3 DEF decisionLevel, nAssigns
<1>5. Control' /\ confl = CRef_Undef
  BY <1>1, <1>2, <1>4 DEF Control, Returns, AtRoot, InPropagate, CRef_Undef
<1>6. pc \in Plain /\ pc' \in Plain
  BY <1>1 DEF Plain
<1> QED
  BY <1>1, <1>2, <1>4, <1>5, <1>6, RootStep

(***************************************************************************)
(* A conflict starts its analysis: nothing is marked yet.                  *)
(***************************************************************************)
LEMMA ConflictStep == ASSUME Structure, conflict PROVE Structure'
<1>1. /\ VarsType /\ AssignmentType /\ DatabaseType /\ ScratchType /\ Control /\ Working /\ Trail
      /\ Clauses /\ Conflict /\ Reasoned /\ Watches /\ Analysis /\ Minimization /\ Cleared
  BY DEF Structure, TypeOK
<1>2. /\ pc = "search" /\ pc' = "analyze" /\ confl # CRef_Undef /\ decisionLevel > 0
      /\ an' = [NoAnalysis EXCEPT !.index = nAssigns, !.out = <<-1>>]
      /\ seen' = seen /\ confl' = confl /\ ok' = ok /\ stack' = stack /\ qhead' = qhead /\ ws' = ws
      /\ UNCHANGED assignment /\ UNCHANGED <<clauses, learnts, ca, dirty>> /\ UNCHANGED watches
      /\ assigns' = assigns /\ vardata' = vardata /\ trail' = trail /\ trail_lim' = trail_lim
  BY DEF conflict, assignment, db
<1>3. VarsType' /\ Var' = Var /\ Lit' = Lit
  BY <1>1, <1>2, SameVars
<1>4. qhead \in Nat /\ trail \in Seq(Lit) /\ Len(trail) \in Nat /\ nAssigns' = nAssigns /\ nAssigns \in Nat
  BY <1>1, <1>2 DEF AssignmentType, nAssigns
<1>5. /\ an' \in AnalysisSet /\ an'.p = -1 /\ an'.index = nAssigns /\ an'.pathC = 0 /\ an'.out = <<-1>>
  <2>1. PICK n \in Nat : n = nAssigns
    BY <1>4
  <2>2. an' = [p |-> -1, index |-> n, pathC |-> 0, out |-> <<-1>>, kept |-> <<>>, i |-> 0,
               toclear |-> <<>>, stack |-> <<>>, top |-> 0, levels |-> {}]
    BY <1>2, <2>1 DEF NoAnalysis
  <2>3. <<-1>> \in Seq(Lit \cup {-1}) /\ <<>> \in Seq(Lit \cup {-1})
    OBVIOUS
  <2> QED
    BY <2>1, <2>2, <2>3 DEF AnalysisSet
<1>6. AssignmentType' /\ DatabaseType' /\ Trail' /\ Clauses' /\ Reasoned' /\ Watches'
  BY <1>1, <1>2, <1>3, <1>4, SameAssignment, SameDatabase, SameTrail, SameClauses, SameReasoned, SameWatches
<1>7. ScratchType'
  BY <1>1, <1>2, <1>3, <1>5, SameTypes DEF ScratchType
<1>8. Control'
  BY <1>1, <1>2 DEF Control, Returns, AtRoot, InPropagate, decisionLevel, nAssigns, CRef_Undef
<1>9. Analysis'
  <2>1. seen' = {}
    BY <1>1, <1>2 DEF Cleared
  <2>2. Here' = {} /\ Cardinality(Here') = 0
    BY <2>1, FS_EmptySet DEF Here
  <2>3. PICK cr : cr = confl
    OBVIOUS
  <2>4. Conflicting(cr) 
    BY <1>1, <1>2, <2>3 DEF Conflict
  <2>5. Conflicting(cr)'
    BY <1>2, <2>4, SameConflicting
  <2>6. Below(an.out)'
    BY <1>5 DEF Below
  <2>7. Conflicting(confl)'
    BY <1>2, <2>3, <2>5
  <2>8. an'.index = nAssigns'
    BY <1>5, <1>4
  <2>9. \A k : k \notin 2 .. Len(an'.out)
    BY <1>5
  <2> QED
    BY <1>5, <2>1, <2>2, <2>6, <2>7, <2>8, <2>9 DEF Analysis
<1>10. Working' /\ Conflict' /\ Minimization' /\ Cleared'
  BY <1>1, <1>2 DEF Working, Conflict, Minimization, InMinimize, Cleared
<1> QED
  BY <1>3, <1>6, <1>7, <1>8, <1>9, <1>10 DEF Structure, TypeOK

(***************************************************************************)
(* A variable is made: it is unassigned and its literals are in no clause. *)
(***************************************************************************)
LEMMA SeqGrows ==
  ASSUME NEW S, NEW T, S \subseteq T PROVE Seq(S) \subseteq Seq(T)
<1> SUFFICES ASSUME NEW s \in Seq(S) PROVE s \in Seq(T)
  OBVIOUS
<1>1. Len(s) \in Nat /\ s = [k \in 1 .. Len(s) |-> s[k]] /\ \A k \in 1 .. Len(s) : s[k] \in T
  OBVIOUS
<1> QED
  BY <1>1

LEMMA NewVarStep == ASSUME Structure, newVar PROVE Structure'
<1>1. /\ VarsType /\ AssignmentType /\ DatabaseType /\ ScratchType /\ Control /\ Working /\ Trail
      /\ Clauses /\ Conflict /\ Reasoned /\ Watches /\ Analysis /\ Minimization /\ Cleared
  BY DEF Structure, TypeOK
<1>2. PICK n : n = nVars
  OBVIOUS
<1>3. /\ pc = "idle" /\ pc' = pc /\ stack' = stack /\ confl' = confl /\ ok' = ok /\ ws' = ws /\ qhead' = qhead
      /\ trail' = trail /\ trail_lim' = trail_lim /\ seen' = seen /\ an' = an
      /\ clauses' = clauses /\ learnts' = learnts /\ ca' = ca /\ dirty' = dirty
      /\ watches' = [p \in 0 .. 2 * n + 1 |-> IF p \in Lit THEN watches[p] ELSE <<>>]
      /\ assigns' = [x \in 0 .. n |-> IF x = n THEN l_Undef ELSE assigns[x]]
      /\ vardata' = [x \in 0 .. n |-> IF x = n THEN [reason |-> CRef_Undef, level |-> 0] ELSE vardata[x]]
      /\ polarity' = [x \in 0 .. n |-> IF x = n THEN 1 ELSE polarity[x]]
      /\ order_heap' = order_heap \cup {n}
  BY <1>2 DEF newVar, Call, db, scratch
<1>4. n \in Nat /\ Var = 0 .. n - 1 /\ Lit = 0 .. 2 * n - 1
  BY <1>1, <1>2, Literals
<1>5. nVars' = n + 1 /\ Var' = 0 .. n /\ Lit' = 0 .. 2 * n + 1 /\ VarsType'
  <2>1. DOMAIN assigns' = 0 .. n
    BY <1>3
  <2>2. Cardinality(0 .. n) = n - 0 + 1
    BY <1>4, FS_Interval
  <2>3. nVars' = n + 1
    BY <1>4, <2>1, <2>2 DEF nVars
  <2> QED
    BY <1>4, <2>1, <2>3 DEF Var, Lit, VarsType
<1>6. Var \subseteq Var' /\ Lit \subseteq Lit' /\ \A v \in Var : v # n
  BY <1>4, <1>5
<1>7. \A v \in Var : assigns'[v] = assigns[v] /\ vardata'[v] = vardata[v] /\ polarity'[v] = polarity[v]
  BY <1>3, <1>5, <1>6
<1>8. AssignmentType'
  <2>1. assigns' \in [Var' -> 0 .. 2]
    BY <1>1, <1>3, <1>4, <1>5 DEF AssignmentType, l_Undef
  <2>2. polarity' \in [Var' -> 0 .. 1]
    BY <1>1, <1>3, <1>4, <1>5 DEF AssignmentType
  <2>3. vardata' \in [Var' -> [reason : Nat, level : Nat]]
    BY <1>1, <1>3, <1>4, <1>5 DEF AssignmentType, CRef_Undef
  <2>4. trail' \in Seq(Lit')
    BY <1>1, <1>3, <1>6, SeqGrows DEF AssignmentType
  <2>5. order_heap' \subseteq Var'
    BY <1>1, <1>3, <1>4, <1>5, <1>6 DEF AssignmentType
  <2> QED
    BY <1>1, <1>3, <2>1, <2>2, <2>3, <2>4, <2>5 DEF AssignmentType
<1>9. ClauseSet \subseteq ClauseSet' /\ WatcherSet \subseteq WatcherSet'
  BY <1>6, SeqGrows DEF ClauseSet, WatcherSet
<1>10. /\ watches \in [Lit -> Seq(WatcherSet)] /\ ca \in Seq(ClauseSet) /\ clauses \subseteq DOMAIN ca
       /\ learnts \subseteq DOMAIN ca /\ dirty \subseteq Lit
  BY <1>1 DEF DatabaseType
<1>11. watches' \in [Lit' -> Seq(WatcherSet')] /\ DOMAIN watches' = Lit' /\ DOMAIN watches = Lit
       /\ \A p \in Lit' : watches'[p] = IF p \in Lit THEN watches[p] ELSE <<>>
  <2>1. Seq(WatcherSet) \subseteq Seq(WatcherSet')
    BY <1>9, SeqGrows
  <2>2. <<>> \in Seq(WatcherSet')
    OBVIOUS
  <2> QED
    BY <1>3, <1>5, <1>10, <2>1, <2>2
<1>12. DatabaseType'
  <2>1. ca' \in Seq(ClauseSet')
    BY <1>3, <1>9, <1>10, SeqGrows
  <2> QED
    BY <1>3, <1>6, <1>10, <1>11, <2>1 DEF DatabaseType
<1>13. ScratchType'
  <2>1. ListSet \subseteq ListSet'
    <3>1. Seq(WatcherSet) \subseteq Seq(WatcherSet')
      BY <1>9, SeqGrows
    <3> QED
      BY <1>6, <3>1 DEF ListSet
  <2>2. AnalysisSet \subseteq AnalysisSet'
    <3>1. Seq(Lit \cup {-1}) \subseteq Seq(Lit' \cup {-1})
      BY <1>6, SeqGrows
    <3> QED
      BY <1>6, <3>1 DEF AnalysisSet
  <2> QED
    BY <1>1, <1>3, <1>6, <2>1, <2>2 DEF ScratchType
<1>14. \A k \in DOMAIN trail : var(trail[k]) \in Var
  <2>1. Tables(Var, Lit, assigns, vardata, trail, trail_lim)
    BY <1>1, Assigned
  <2> QED
    BY <2>1, TableFacts
<1>15. Trail'
  <2>1. DOMAIN assigns' = 0 .. n /\ DOMAIN assigns = Var /\ assigns'[n] = l_Undef
    BY <1>1, <1>3, <1>4 DEF VarsType
  <2>2. \A v \in 0 .. n : v = n \/ v \in Var
    BY <1>4
  <2>3. PICK A : A = assigns'
    OBVIOUS
  <2>4. PICK D : D = vardata'
    OBVIOUS
  <2>5. TrailIn(A, D, trail, trail_lim)
    BY <1>1, <1>7, <1>14, <2>1, <2>2, <2>3, <2>4 DEF Trail, TrailIn
  <2> QED
    BY <1>3, <2>3, <2>4, <2>5 DEF Trail
<1>16. Reasoned'
  <2>1. PICK D : D = vardata'
    OBVIOUS
  <2>2. ReasonedIn(ca, Live, D, trail, trail_lim)
    BY <1>1, <1>7, <1>14, <2>1 DEF Reasoned, ReasonedIn
  <2> QED
    BY <1>3, <2>1, <2>2 DEF Reasoned, Live
<1>17. Clauses'
  BY <1>1, <1>3, SameClauses
<1>18. Watches'
  <2>1. ws = NoList /\ Lit \subseteq Nat /\ Lit' \subseteq Nat
    BY <1>1, <1>3, <1>4, <1>5 DEF Working
  <2>2. Lists = watches
    BY <1>10, <2>1, ListsIdle DEF Lists
  <2>3. (Lists = watches)'
    <3>1. PICK X : X = watches'
      OBVIOUS
    <3>2. PICK P : P = Lit'
      OBVIOUS
    <3>3. PICK w : w = ws'
      OBVIOUS
    <3>4. PICK T : T = Seq(WatcherSet')
      OBVIOUS
    <3>5. X \in [P -> T] /\ P \subseteq Nat /\ w = NoList
      BY <1>3, <1>11, <2>1, <3>1, <3>2, <3>3, <3>4
    <3>6. ListsOf(P, X, w) = X
      BY <3>5, ListsIdle
    <3> QED
      BY <3>1, <3>2, <3>3, <3>6 DEF Lists
  <2>4. WatchesIn(watches, ca, Live, dirty)
    BY <1>1, <2>2 DEF Watches
  <2>5. \A cr \in Live : neg(lits(cr)[1]) \in Lit /\ neg(lits(cr)[2]) \in Lit
    <3> SUFFICES ASSUME NEW cr \in Live PROVE neg(lits(cr)[1]) \in Lit /\ neg(lits(cr)[2]) \in Lit
      OBVIOUS
    <3>1. lits(cr) \in Seq(Lit) /\ Len(lits(cr)) >= 2
      <4>1. cr \in DOMAIN ca /\ Len(ca[cr].lits) >= 2
        BY <1>1, <1>10 DEF Live, Clauses, ClausesIn
      <4>2. ca[cr] \in ClauseSet
        BY <1>10, <4>1
      <4> QED
        BY <4>1, <4>2 DEF lits, ClauseSet
    <3>2. lits(cr)[1] \in Lit /\ lits(cr)[2] \in Lit
      BY <3>1
    <3> QED
      BY <1>1, <3>2, Literals
  <2>6. WatchesIn(watches', ca, Live, dirty)
    <3>1. PICK X : X = watches'
      OBVIOUS
    <3>2. \A p \in DOMAIN watches :
             /\ Once(watches[p])
             /\ \A cr \in Live : Watched(watches[p], cr) <=> Wants(ca[cr].lits, p)
             /\ \A k \in DOMAIN watches[p] : Good(watches[p][k], p, ca, Live, dirty)
      BY <2>4, WatchesSplit
    <3>3. \A p \in DOMAIN X :
             /\ Once(X[p])
             /\ \A cr \in Live : Watched(X[p], cr) <=> Wants(ca[cr].lits, p)
             /\ \A k \in DOMAIN X[p] : Good(X[p][k], p, ca, Live, dirty)
      <4> SUFFICES ASSUME NEW p \in DOMAIN X
                   PROVE  /\ Once(X[p])
                          /\ \A cr \in Live : Watched(X[p], cr) <=> Wants(ca[cr].lits, p)
                          /\ \A k \in DOMAIN X[p] : Good(X[p][k], p, ca, Live, dirty)
        OBVIOUS
      <4>1. CASE p \in Lit
        BY <1>11, <3>1, <3>2, <4>1
      <4>2. CASE p \notin Lit
        <5>1. X[p] = <<>>
          BY <1>11, <3>1, <4>2
        <5> QED
          BY <2>5, <4>2, <5>1 DEF Once, Watched, Wants, lits
      <4> QED
        BY <4>1, <4>2
    <3> QED
      BY <3>1, <3>3, WatchesSplit
  <2> QED
    BY <1>3, <2>3, <2>6 DEF Watches, Live
<1>19. Control'
  BY <1>1, <1>3 DEF Control, Returns, AtRoot, InPropagate, decisionLevel, nAssigns, CRef_Undef
<1>20. Working' /\ Conflict' /\ Analysis' /\ Minimization' /\ Cleared'
  BY <1>1, <1>3 DEF Control, Working, Conflict, Analysis, Minimization, InMinimize, Cleared, CRef_Undef, NoList
<1> QED
  BY <1>5, <1>8, <1>12, <1>13, <1>15, <1>16, <1>17, <1>18, <1>19, <1>20 DEF Structure, TypeOK

(***************************************************************************)
(* A clause is allocated and attached.                                     *)
(***************************************************************************)
Attached(c, n) ==
  [watches EXCEPT ![neg(c[1])] = Append(@, [cref |-> n, blocker |-> c[2]]),
                  ![neg(c[2])] = Append(@, [cref |-> n, blocker |-> c[1]])]

LEMMA NewClause ==
  ASSUME VarsType, DatabaseType, Clauses, WatchesIn(watches, ca, Live, dirty),
         NEW c \in Seq(Lit), Len(c) >= 2, Distinct(c), NEW b \in BOOLEAN, NEW B, B = Alloc(c, b),
         NEW n, n = Len(ca) + 1, NEW X, X = Attached(c, n), NEW R, R = Live \cup {n}
  PROVE  /\ n \in Nat /\ n # CRef_Undef /\ n \in DOMAIN B /\ DOMAIN ca \subseteq DOMAIN B
         /\ B \in Seq(ClauseSet) /\ (\A cr \in Live : B[cr] = ca[cr]) /\ B[n].lits = c
         /\ X \in [Lit -> Seq(WatcherSet)] /\ WatchesIn(X, B, R, dirty) /\ ClausesIn(B, R)
         /\ \A D, T, L : ReasonedIn(ca, Live, D, T, L) => ReasonedIn(B, R, D, T, L)
<1>1. /\ ca \in Seq(ClauseSet) /\ clauses \subseteq DOMAIN ca /\ learnts \subseteq DOMAIN ca
      /\ watches \in [Lit -> Seq(WatcherSet)]
  BY DEF DatabaseType
<1>2. PICK m : m = Len(ca)
  OBVIOUS
<1>3. m \in Nat /\ DOMAIN ca = 1 .. m /\ Live \subseteq 1 .. m
  BY <1>1, <1>2 DEF Live
<1>4. PICK e : e = [lits |-> c, learnt |-> b, mark |-> 0]
  OBVIOUS
<1>5. e \in ClauseSet /\ e.lits = c /\ e.mark = 0
  BY <1>4 DEF ClauseSet
<1>6. B = Append(ca, e)
  BY <1>4 DEF Alloc
<1>7. B \in Seq(ClauseSet) /\ DOMAIN B = 1 .. m + 1 /\ B[m + 1] = e /\ \A k \in 1 .. m : B[k] = ca[k]
  BY <1>1, <1>2, <1>5, <1>6, AppendIs
<1>8. n = m + 1 /\ n \in Nat /\ n # CRef_Undef /\ n \in DOMAIN B /\ DOMAIN ca \subseteq DOMAIN B
  BY <1>2, <1>3, <1>7 DEF CRef_Undef
<1>9. \A cr \in Live : B[cr] = ca[cr]
  BY <1>3, <1>7
<1>10. c[1] \in Lit /\ c[2] \in Lit /\ c[1] \in Nat /\ c[2] \in Nat /\ var(c[1]) # var(c[2])
  <2>1. 1 \in DOMAIN c /\ 2 \in DOMAIN c
    OBVIOUS
  <2>2. c[1] \in Lit /\ c[2] \in Lit
    BY <2>1
  <2> QED
    BY <2>1, <2>2, Literals DEF Distinct
<1>11. neg(c[1]) \in Lit /\ neg(c[2]) \in Lit /\ neg(c[1]) # neg(c[2])
  BY <1>10, Literals, LitFacts
<1>12. Attaches(watches, c, m + 1, X)
  BY <1>8 DEF Attached, Attaches
<1>13. R = Live \cup {m + 1}
  BY <1>8
<1>14. X \in [Lit -> Seq(WatcherSet)] /\ WatchesIn(X, B, R, dirty)
  <2>1. PICK S : S = Live
    OBVIOUS
  <2>2. WatchesIn(watches, ca, S, dirty) /\ S \subseteq 1 .. m /\ R = S \cup {m + 1}
    BY <1>3, <1>13, <2>1
  <2>3. c = e.lits
    BY <1>5
  <2>4. X \in [Lit -> Seq(WatcherSet)]
    BY <1>1, <1>2, <1>5, <1>6, <1>11, <1>12, <2>2, <2>3, WatchesAttach
  <2>5. WatchesIn(X, B, R, dirty)
    BY <1>1, <1>2, <1>5, <1>6, <1>11, <1>12, <2>2, <2>3, WatchesAttach
  <2> QED
    BY <2>4, <2>5
<1>15. ClausesIn(B, R)
  <2>1. \A cr \in Live : B[cr].mark = 0 /\ Len(B[cr].lits) >= 2 /\ Distinct(B[cr].lits)
    BY <1>9 DEF Clauses, ClausesIn
  <2>2. B[n].mark = 0 /\ Len(B[n].lits) >= 2 /\ Distinct(B[n].lits)
    BY <1>5, <1>7, <1>8
  <2> QED
    BY <2>1, <2>2 DEF ClausesIn
<1>16. ASSUME NEW D, NEW T, NEW L, ReasonedIn(ca, Live, D, T, L) PROVE ReasonedIn(B, R, D, T, L)
  BY <1>9, <1>16 DEF ReasonedIn
<1> QED
  BY <1>5, <1>7, <1>8, <1>9, <1>14, <1>15, <1>16

(***************************************************************************)
(* What remains of a clause that is added: unassigned literals of distinct *)
(* variables.                                                              *)
(***************************************************************************)
LEMMA RemainingIs ==
  ASSUME VarsType, AssignmentType, NEW S, S \subseteq Lit, ~Redundant(S), NEW c, c = Remaining(S)
  PROVE  /\ c \in Seq(Lit) /\ Len(c) \in Nat /\ Distinct(c)
         /\ \A k \in DOMAIN c : c[k] \in S /\ assigns[var(c[k])] = l_Undef
         /\ \A p \in S : value(p) # l_False => \E k \in DOMAIN c : c[k] = p
<1>1. PICK Q : Q = {p \in S : value(p) # l_False}
  OBVIOUS
<1>2. Lit = 0 .. 2 * nVars - 1 /\ nVars \in Nat
  BY Literals
<1>3. Q \subseteq Nat /\ IsFiniteSet(Q) /\ Q \subseteq Lit
  <2>1. IsFiniteSet(0 .. 2 * nVars - 1)
    BY <1>2, FS_Interval
  <2>2. Q \subseteq 0 .. 2 * nVars - 1
    BY <1>1, <1>2
  <2>3. IsFiniteSet(Q)
    BY <2>1, <2>2, FS_Subset
  <2> QED
    BY <1>2, <2>2, <2>3
<1>4. c = Ascending(Q)
  BY <1>1 DEF Remaining
<1>5. /\ Cardinality(Q) \in Nat /\ c \in Seq(Q) /\ Len(c) = Cardinality(Q)
      /\ \A j, k \in 1 .. Cardinality(Q) : c[j] = c[k] => j = k
      /\ \A x \in Q : \E k \in 1 .. Cardinality(Q) : c[k] = x
  BY <1>3, <1>4, AscendingIs
<1>6. c \in Seq(Lit) /\ Len(c) \in Nat /\ DOMAIN c = 1 .. Len(c) /\ \A k \in DOMAIN c : c[k] \in Q
  <2>1. c \in Seq(Lit)
    BY <1>3, <1>5, SeqGrows
  <2> QED
    BY <1>5, <2>1
<1>7. \A p \in Q : p \in S /\ p \in Nat /\ neg(p) \in Lit /\ assigns[var(p)] = l_Undef /\ value(p) = l_Undef
  <2> SUFFICES ASSUME NEW p \in Q
               PROVE p \in S /\ p \in Nat /\ neg(p) \in Lit /\ assigns[var(p)] = l_Undef /\ value(p) = l_Undef
    OBVIOUS
  <2>1. p \in S /\ value(p) # l_False /\ value(p) # l_True
    BY <1>1 DEF Redundant
  <2>2. p \in Lit /\ p \in Nat /\ neg(p) \in Lit /\ var(p) \in Var
    BY <1>3, Literals
  <2>3. assigns[var(p)] \in 0 .. 2
    BY <2>2 DEF AssignmentType
  <2>4. value(p) = l_Undef
    BY <2>1, <2>2, <2>3, ValueIs
  <2>5. assigns[var(p)] = l_Undef
    BY <2>2, <2>3, <2>4, ValueIs
  <2> QED
    BY <2>1, <2>2, <2>4, <2>5
<1>8. Distinct(c)
  <2> SUFFICES ASSUME NEW i \in DOMAIN c, NEW j \in DOMAIN c, var(c[i]) = var(c[j]) PROVE i = j
    BY DEF Distinct
  <2>1. c[i] \in Q /\ c[j] \in Q
    BY <1>6
  <2>2. c[i] = c[j] \/ c[i] = neg(c[j])
    BY <1>7, <2>1, SameVar
  <2>3. c[i] # neg(c[j])
    BY <1>7, <2>1 DEF Redundant
  <2> QED
    BY <1>5, <1>6, <2>2, <2>3
<1>9. \A p \in S : value(p) # l_False => \E k \in DOMAIN c : c[k] = p
  BY <1>1, <1>5, <1>6
<1> QED
  BY <1>6, <1>7, <1>8, <1>9

LEMMA AddClauseStep == ASSUME Structure, addClause PROVE Structure'
<1>1. /\ VarsType /\ AssignmentType /\ DatabaseType /\ ScratchType /\ Control /\ Working /\ Trail
      /\ Clauses /\ Conflict /\ Reasoned /\ Watches /\ Analysis /\ Minimization /\ Cleared
  BY DEF Structure, TypeOK
<1>2. PICK S : S = ToSet(Head(calls).ps)
  OBVIOUS
<1>3. PICK c : c = Remaining(S)
  OBVIOUS
<1>4. /\ pc = "idle" /\ S \subseteq Lit /\ qhead' = qhead /\ confl' = confl /\ ws' = ws /\ UNCHANGED scratch
      /\ \/ UNCHANGED <<db, watches, assignment, pc, stack>>
         \/ ok' = FALSE /\ UNCHANGED <<clauses, learnts, ca, dirty, watches, assignment, pc, stack>>
         \/ /\ ok /\ ~Redundant(S) /\ Len(c) = 1
            /\ uncheckedEnqueue(c[1], CRef_Undef, decisionLevel, assigns, vardata, trail)
            /\ pc' = "propagate" /\ stack' = <<"addClause">>
            /\ UNCHANGED <<db, watches, trail_lim, order_heap, polarity>>
         \/ /\ ok /\ ~Redundant(S) /\ Len(c) # 0 /\ Len(c) # 1
            /\ ca' = Alloc(c, FALSE) /\ clauses' = clauses \cup {Len(ca) + 1}
            /\ watches' = Attached(c, Len(ca) + 1)
            /\ UNCHANGED <<ok, learnts, dirty, assignment, pc, stack>>
  BY <1>2, <1>3 DEF addClause, Call, attachClause, Attached
<1>5. /\ confl = CRef_Undef /\ decisionLevel = 0 /\ (ok => qhead = nAssigns) /\ ok \in BOOLEAN
      /\ qhead \in Nat /\ trail \in Seq(Lit) /\ trail_lim \in Seq(Nat)
  BY <1>1, <1>4 DEF Control, AtRoot, ScratchType, AssignmentType, InPropagate
<1>6. CASE UNCHANGED <<db, watches, assignment, pc, stack>>
  <2>1. Control' /\ pc \in Plain /\ pc' \in Plain /\ ok' \in BOOLEAN
    BY <1>1, <1>4, <1>5, <1>6
       DEF Control, Returns, AtRoot, InPropagate, decisionLevel, nAssigns, assignment, CRef_Undef, db, Plain
  <2> QED
    BY <1>4, <1>6, <2>1, QuietStep DEF db
<1>7. CASE ok' = FALSE /\ UNCHANGED <<clauses, learnts, ca, dirty, watches, assignment, pc, stack>>
  <2>1. Control' /\ pc \in Plain /\ pc' \in Plain /\ ok' \in BOOLEAN
    BY <1>1, <1>4, <1>5, <1>7
       DEF Control, Returns, AtRoot, InPropagate, decisionLevel, nAssigns, assignment, CRef_Undef, db, Plain
  <2> QED
    BY <1>4, <1>7, <2>1, QuietStep
<1>8. CASE /\ ok /\ ~Redundant(S) /\ Len(c) = 1
           /\ uncheckedEnqueue(c[1], CRef_Undef, decisionLevel, assigns, vardata, trail)
           /\ pc' = "propagate" /\ stack' = <<"addClause">>
           /\ UNCHANGED <<db, watches, trail_lim, order_heap, polarity>>
  <2>1. c \in Seq(Lit) /\ \A k \in DOMAIN c : assigns[var(c[k])] = l_Undef
    BY <1>1, <1>3, <1>4, <1>8, RemainingIs
  <2>2. PICK p : p = c[1]
    OBVIOUS
  <2>3. p \in Lit /\ assigns[var(p)] = l_Undef
    BY <1>8, <2>1, <2>2
  <2>4. PICK e : e = Enqueued(p, CRef_Undef, decisionLevel, assigns, vardata, trail)
    OBVIOUS
  <2>5. assigns' = e.assigns /\ vardata' = e.vardata /\ trail' = e.trail
    BY <1>8, <2>2, <2>4 DEF uncheckedEnqueue
  <2>6. /\ clauses' = clauses /\ learnts' = learnts /\ ca' = ca /\ dirty' = dirty /\ watches' = watches /\ ok' = ok
        /\ trail_lim' = trail_lim /\ order_heap' = order_heap /\ polarity' = polarity
    BY <1>8 DEF db
  <2>7. Tables(Var, Lit, assigns, vardata, trail, trail_lim) /\ TrailIn(assigns, vardata, trail, trail_lim)
        /\ ReasonedIn(ca, Live, vardata, trail, trail_lim)
    BY <1>1, Assigned DEF Trail, Reasoned
  <2>8. CRef_Undef \in Nat /\ Len(trail_lim) = 0 /\ e = Enqueued(p, CRef_Undef, Len(trail_lim), assigns, vardata, trail)
    BY <1>5, <2>4 DEF CRef_Undef, decisionLevel
  <2>9. Tables(Var, Lit, e.assigns, e.vardata, e.trail, trail_lim) /\ TrailIn(e.assigns, e.vardata, e.trail, trail_lim)
    BY <2>3, <2>7, <2>8, TrailEnqueue
  <2>10. ReasonedIn(ca, Live, e.vardata, e.trail, trail_lim)
    BY <2>3, <2>7, <2>8, ReasonedEnqueue
  <2>11. Len(e.trail) = Len(trail) + 1 /\ Len(trail) \in Nat
    <3>1. decisionLevel \in Nat
      BY <1>5
    <3> QED
      BY <2>3, <2>4, <2>7, <2>8, <3>1, EnqueuedIs, TableFacts
  <2>12. DOMAIN assigns' = DOMAIN assigns
    BY <2>5, <2>7, <2>9 DEF Tables
  <2>13. VarsType' /\ Var' = Var /\ Lit' = Lit
    BY <1>1, <2>12, SameVars
  <2>14. AssignmentType'
    BY <1>1, <1>4, <2>5, <2>6, <2>9, <2>13 DEF Tables, DataSet, AssignmentType
  <2>15. Trail' /\ Reasoned'
    BY <2>5, <2>6, <2>9, <2>10 DEF Trail, Reasoned, Live
  <2>16. DatabaseType' /\ ScratchType' /\ Clauses' /\ Watches'
    BY <1>1, <1>4, <2>6, <2>13, SameDatabase, SameScratch, SameClauses, SameWatches DEF ScratchType
  <2>17. Control'
    BY <1>1, <1>4, <1>5, <1>8, <2>5, <2>6, <2>11
       DEF Control, Returns, AtRoot, InPropagate, nAssigns, CRef_Undef, decisionLevel
  <2>18. Working' /\ Conflict' /\ Analysis' /\ Minimization' /\ Cleared'
    BY <1>1, <1>4, <1>5, <1>8 DEF Control, Working, Conflict, Analysis, Minimization, InMinimize, Cleared, scratch, CRef_Undef
  <2> QED
    BY <2>13, <2>14, <2>15, <2>16, <2>17, <2>18 DEF Structure, TypeOK
<1>9. CASE /\ ok /\ ~Redundant(S) /\ Len(c) # 0 /\ Len(c) # 1
           /\ ca' = Alloc(c, FALSE) /\ clauses' = clauses \cup {Len(ca) + 1}
           /\ watches' = Attached(c, Len(ca) + 1)
           /\ UNCHANGED <<ok, learnts, dirty, assignment, pc, stack>>
  <2>1. c \in Seq(Lit) /\ Len(c) >= 2 /\ Distinct(c)
    <3>1. c \in Seq(Lit) /\ Len(c) \in Nat /\ Distinct(c)
      BY <1>1, <1>3, <1>4, <1>9, RemainingIs
    <3>2. PICK l : l = Len(c)
      OBVIOUS
    <3>3. l # 0 /\ l # 1 /\ l \in Nat
      BY <1>9, <3>1, <3>2
    <3>4. l >= 2
      BY <3>3
    <3> QED
      BY <3>1, <3>2, <3>4
  <2>2. /\ ok' = ok /\ learnts' = learnts /\ dirty' = dirty /\ pc' = pc /\ stack' = stack /\ UNCHANGED assignment
        /\ assigns' = assigns /\ vardata' = vardata /\ trail' = trail /\ trail_lim' = trail_lim
    BY <1>9 DEF assignment
  <2>3. VarsType' /\ Var' = Var /\ Lit' = Lit
    BY <1>1, <2>2, SameVars
  <2>4. ws = NoList /\ watches \in [Lit -> Seq(WatcherSet)] /\ Lit \subseteq Nat
    BY <1>1, <1>4, Literals DEF Working, DatabaseType
  <2>5. Lists = watches
    BY <2>4, ListsIdle DEF Lists
  <2>6. WatchesIn(watches, ca, Live, dirty)
    BY <1>1, <2>5 DEF Watches
  <2>7. PICK B : B = Alloc(c, FALSE)
    OBVIOUS
  <2>8. PICK n : n = Len(ca) + 1
    OBVIOUS
  <2>9. PICK X : X = Attached(c, n)
    OBVIOUS
  <2>10. PICK R : R = Live \cup {n}
    OBVIOUS
  <2>11. /\ n \in DOMAIN B /\ DOMAIN ca \subseteq DOMAIN B
         /\ B \in Seq(ClauseSet)
         /\ X \in [Lit -> Seq(WatcherSet)] /\ WatchesIn(X, B, R, dirty) /\ ClausesIn(B, R)
    BY <1>1, <2>1, <2>6, <2>7, <2>8, <2>9, <2>10, NewClause
  <2>12. ReasonedIn(ca, Live, vardata, trail, trail_lim) => ReasonedIn(B, R, vardata, trail, trail_lim)
    BY <1>1, <2>1, <2>6, <2>7, <2>8, <2>9, <2>10, NewClause
  <2>13. ca' = B /\ watches' = X /\ clauses' = clauses \cup {n} /\ Live' = R
    BY <1>9, <2>2, <2>7, <2>8, <2>9, <2>10 DEF Live
  <2>14. DatabaseType'
    BY <1>1, <2>2, <2>3, <2>11, <2>13, SameTypes DEF DatabaseType
  <2>15. AssignmentType' /\ ScratchType' /\ Trail'
    BY <1>1, <1>4, <1>5, <2>2, <2>3, SameAssignment, SameScratch, SameTrail DEF ScratchType
  <2>16. Clauses' /\ Reasoned'
    BY <1>1, <2>2, <2>11, <2>12, <2>13 DEF Clauses, Reasoned
  <2>17. Watches'
    <3>1. ListsOf(Lit, X, ws) = X
      BY <2>4, <2>11, ListsIdle
    <3>2. Lists' = X
      BY <1>4, <2>3, <2>13, <3>1 DEF Lists
    <3> QED
      BY <2>2, <2>11, <2>13, <3>2 DEF Watches
  <2>18. Control'
    BY <1>1, <1>4, <2>2 DEF Control, Returns, AtRoot, InPropagate, decisionLevel, nAssigns, CRef_Undef
  <2>19. Working' /\ Conflict' /\ Analysis' /\ Minimization' /\ Cleared'
    BY <1>1, <1>4, <1>5, <2>2 DEF Working, Conflict, Analysis, Minimization, InMinimize, Cleared, scratch, CRef_Undef
  <2> QED
    BY <2>3, <2>14, <2>15, <2>16, <2>17, <2>18, <2>19 DEF Structure, TypeOK
<1> QED
  BY <1>4, <1>6, <1>7, <1>8, <1>9

(***************************************************************************)
(* Clauses are removed: none that is a reason, unless at level 0.          *)
(***************************************************************************)
LEMMA RemoveStep ==
  ASSUME Structure, NEW R, R \subseteq Live, \A cr \in R : locked(cr) => decisionLevel = 0, RemoveClauses(R),
         pc \in Plain, pc' \in Plain, ok' = ok, confl = CRef_Undef, confl' = confl, qhead' = qhead, ws' = ws,
         assigns' = assigns, trail' = trail, trail_lim' = trail_lim, polarity' = polarity,
         order_heap' \subseteq Var, watches' = watches, UNCHANGED scratch, Control'
  PROVE  Structure'
<1>1. /\ VarsType /\ AssignmentType /\ DatabaseType /\ ScratchType /\ Control /\ Working /\ Trail
      /\ Clauses /\ Conflict /\ Reasoned /\ Watches /\ Analysis /\ Minimization /\ Cleared
  BY DEF Structure, TypeOK
<1>2. /\ pc \notin {"watches", "analyze", "minimize", "litRedundant"}
      /\ pc' \notin {"watches", "analyze", "minimize", "litRedundant"}
  BY DEF Plain
<1>3. /\ ca \in Seq(ClauseSet) /\ clauses \subseteq DOMAIN ca /\ learnts \subseteq DOMAIN ca
      /\ watches \in [Lit -> Seq(WatcherSet)] /\ dirty \subseteq Lit /\ Live \subseteq DOMAIN ca
      /\ vardata \in [Var -> DataSet] /\ DataSet = [reason : Nat, level : Nat]
      /\ trail \in Seq(Lit) /\ qhead \in Nat /\ trail_lim \in Seq(Nat)
  BY <1>1 DEF DatabaseType, AssignmentType, Live, DataSet
<1> DEFINE d == dirty \cup {neg(ca[cr].lits[j]) : cr \in R, j \in 1 .. 2}
<1>4. dirty \subseteq d /\ \A cr \in R : neg(ca[cr].lits[1]) \in d /\ neg(ca[cr].lits[2]) \in d
  OBVIOUS
<1>5. PICK E : E = [v \in Var |-> IF \E cr \in R : locked(cr) /\ var(lits(cr)[1]) = v
                                  THEN [vardata[v] EXCEPT !.reason = CRef_Undef] ELSE vardata[v]]
  OBVIOUS
<1>6. PICK B : B = [cr \in DOMAIN ca |-> IF cr \in R THEN [ca[cr] EXCEPT !.mark = 1] ELSE ca[cr]]
  OBVIOUS
<1>7. dirty' = d /\ vardata' = E /\ ca' = B /\ clauses' = clauses \ R /\ learnts' = learnts \ R /\ Live' = Live \ R
  BY <1>5, <1>6 DEF RemoveClauses, Live, lits
<1>8. VarsType' /\ Var' = Var /\ Lit' = Lit
  BY <1>1, SameVars
<1>9. PICK m \in Nat : DOMAIN ca = 1 .. m
  BY <1>3
<1>10. \A cr \in DOMAIN ca : ca[cr] \in ClauseSet /\ ca[cr].lits \in Seq(Lit)
  <2>1. \A cr \in DOMAIN ca : ca[cr] \in ClauseSet
    BY <1>3
  <2> QED
    BY <2>1 DEF ClauseSet
<1>11. /\ B \in Seq(ClauseSet) /\ DOMAIN B = DOMAIN ca
       /\ \A cr \in DOMAIN ca : B[cr].lits = ca[cr].lits /\ B[cr].mark = IF cr \in R THEN 1 ELSE ca[cr].mark
  <2>1. \A cr \in DOMAIN ca : B[cr] \in ClauseSet /\ B[cr].lits = ca[cr].lits
                              /\ B[cr].mark = IF cr \in R THEN 1 ELSE ca[cr].mark
    BY <1>6, <1>10 DEF ClauseSet
  <2>2. B = [cr \in 1 .. m |-> B[cr]]
    BY <1>6, <1>9
  <2>3. B \in Seq(ClauseSet)
    BY <1>9, <2>1, <2>2
  <2> QED
    BY <1>6, <2>1, <2>3
<1>12. E \in [Var -> DataSet] /\ \A v \in Var : E[v].level = vardata[v].level
  BY <1>3, <1>5 DEF CRef_Undef
<1>13. d \subseteq Lit
  <2> SUFFICES ASSUME NEW cr \in R, NEW j \in 1 .. 2 PROVE neg(ca[cr].lits[j]) \in Lit
    BY <1>3
  <2>1. cr \in DOMAIN ca /\ Len(ca[cr].lits) >= 2
    BY <1>1, <1>3 DEF Clauses, ClausesIn
  <2>2. ca[cr].lits[j] \in Lit
    BY <1>10, <2>1
  <2> QED
    BY <1>1, <2>2, Literals
<1> HIDE DEF d
<1>14. AssignmentType'
  BY <1>1, <1>3, <1>7, <1>8, <1>12 DEF AssignmentType
<1>15. DatabaseType'
  <2>1. clauses' \subseteq DOMAIN B /\ learnts' \subseteq DOMAIN B
    BY <1>3, <1>7, <1>11
  <2> QED
    BY <1>3, <1>7, <1>8, <1>11, <1>13, <2>1, SameTypes DEF DatabaseType
<1>16. ScratchType'
  BY <1>1, <1>8, SameScratch DEF ScratchType
<1>17. PICK T : T = trail
  OBVIOUS
<1>18. Tables(Var, Lit, assigns, vardata, trail, trail_lim)
  BY <1>1, Assigned
<1>19. \A k \in DOMAIN trail : var(trail[k]) \in Var /\ trail[k] \in Nat
  BY <1>18, TableFacts
<1>20. Trail'
  <2>1. TrailIn(assigns, E, trail, trail_lim)
    BY <1>1, <1>12, <1>19 DEF Trail, TrailIn
  <2> QED
    BY <1>7, <2>1 DEF Trail
<1>21. Clauses'
  <2>1. ClausesIn(B, Live \ R)
    BY <1>1, <1>3, <1>11 DEF Clauses, ClausesIn
  <2> QED
    BY <1>7, <2>1 DEF Clauses
<1>22. Reasoned'
  <2>1. ASSUME NEW k \in DOMAIN trail
        PROVE  LET x == vardata[var(trail[k])]
                   e == E[var(trail[k])]
               IN /\ e.level = x.level
                  /\ \/ e.reason = CRef_Undef /\ (x.level = 0 \/ x.reason = CRef_Undef)
                     \/ /\ x.reason # CRef_Undef /\ e.reason # CRef_Undef
                        /\ x.reason \in Live => e.reason \in Live \ R /\ B[e.reason].lits = ca[x.reason].lits
    <3>1. PICK v \in Var : v = var(trail[k])
      BY <1>19
    <3>2. CASE \E cr \in R : locked(cr) /\ var(lits(cr)[1]) = v
      <4>1. E[v].reason = CRef_Undef /\ decisionLevel = 0
        BY <1>3, <1>5, <3>2
      <4>2. vardata[v].level <= Len(trail_lim) /\ vardata[v].level \in Nat
        BY <1>1, <1>3, <3>1 DEF Trail, TrailIn
      <4>3. vardata[v].level = 0
        BY <1>3, <4>1, <4>2 DEF decisionLevel
      <4> QED
        BY <1>12, <3>1, <4>1, <4>3
    <3>3. CASE ~\E cr \in R : locked(cr) /\ var(lits(cr)[1]) = v
      <4>1. E[v] = vardata[v]
        BY <1>5, <3>3
      <4>2. ASSUME vardata[v].reason # CRef_Undef PROVE vardata[v].reason \notin R
        <5> SUFFICES ASSUME vardata[v].reason \in R PROVE FALSE
          OBVIOUS
        <5>1. PICK r \in R : r = vardata[v].reason
          OBVIOUS
        <5>2. Implies(ca[r].lits, trail, k)
          BY <1>1, <3>1, <4>2, <5>1 DEF Reasoned, ReasonedIn
        <5>3. lits(r)[1] = trail[k]
          BY <5>2 DEF Implies, lits
        <5>4. value(trail[k]) = l_True
          <6>1. assigns[v] = sign(trail[k]) /\ trail[k] \in Nat /\ assigns[v] \in 0 .. 2
            BY <1>1, <1>19, <3>1 DEF Trail, TrailIn, AssignmentType
          <6> QED
            BY <3>1, <6>1, ValueIs
        <5>5. locked(r) /\ var(lits(r)[1]) = v
          BY <3>1, <5>1, <5>3, <5>4 DEF locked, reason
        <5> QED
          BY <3>3, <5>5
      <4>3. CASE vardata[v].reason = CRef_Undef
        BY <3>1, <4>1, <4>3
      <4>4. CASE vardata[v].reason # CRef_Undef
        <5>1. vardata[v].reason \in Live => vardata[v].reason \in DOMAIN ca
          BY <1>3
        <5> QED
          BY <1>11, <3>1, <4>1, <4>2, <4>4, <5>1
      <4> QED
        BY <4>3, <4>4
    <3> QED
      BY <3>2, <3>3
  <2>2. ReasonedIn(ca, Live, vardata, trail, trail_lim)
    BY <1>1 DEF Reasoned
  <2>3. ReasonedIn(B, Live \ R, E, trail, trail_lim)
    BY <2>1, <2>2, ReasonedClauses
  <2> QED
    BY <1>7, <2>3 DEF Reasoned
<1>23. Watches'
  <2>1. ws = NoList /\ Lit \subseteq Nat
    BY <1>1, <1>2, Literals DEF Working
  <2>2. Lists = watches
    BY <1>3, <2>1, ListsIdle DEF Lists
  <2>3. Lists' = watches
    BY <1>8, <2>2 DEF Lists
  <2>4. WatchesIn(watches, ca, Live, dirty)
    BY <1>1, <2>2 DEF Watches
  <2>5. WatchesIn(watches, B, Live \ R, d)
    BY <1>3, <1>4, <1>11, <2>4, WatchesRemove
  <2> QED
    BY <1>7, <2>3, <2>5 DEF Watches
<1>24. Working' /\ Conflict' /\ Analysis' /\ Minimization' /\ Cleared'
  BY <1>1, <1>2 DEF Working, Conflict, Analysis, Minimization, InMinimize, Cleared, scratch, CRef_Undef
<1> QED
  BY <1>8, <1>14, <1>15, <1>16, <1>20, <1>21, <1>22, <1>23, <1>24 DEF Structure, TypeOK

LEMMA SimplifyStep == ASSUME Structure, simplify PROVE Structure'
<1>1. PICK R : R = {cr \in Live : satisfied(lits(cr))}
  OBVIOUS
<1>2. /\ pc = "simplify" /\ pc' = "garbage" /\ RemoveClauses(R) /\ confl = CRef_Undef
      /\ order_heap' = {v \in Var : assigns[v] = l_Undef} /\ stack' = stack
      /\ ok' = ok /\ confl' = confl /\ qhead' = qhead /\ ws' = ws
      /\ assigns' = assigns /\ trail' = trail /\ trail_lim' = trail_lim /\ polarity' = polarity
      /\ watches' = watches /\ UNCHANGED scratch
  BY <1>1 DEF simplify
<1>3. Control
  BY DEF Structure
<1>4. decisionLevel = 0
  BY <1>2, <1>3 DEF Control, AtRoot
<1>5. Control' /\ pc \in Plain /\ pc' \in Plain
  BY <1>2, <1>3, <1>4 DEF Control, Returns, AtRoot, InPropagate, decisionLevel, nAssigns, CRef_Undef, Plain
<1>6. R \subseteq Live /\ order_heap' \subseteq Var
  BY <1>1, <1>2
<1> QED
  BY <1>2, <1>4, <1>5, <1>6, RemoveStep

LEMMA ReduceDBStep == ASSUME Structure, reduceDB PROVE Structure'
<1>1. PICK R \in SUBSET Removable : RemoveClauses(R)
  BY DEF reduceDB
<1>2. /\ pc = "reduce" /\ pc' = "garbage" /\ order_heap' = order_heap /\ stack' = <<"decide">>
      /\ ok' = ok /\ confl' = confl /\ qhead' = qhead /\ ws' = ws
      /\ assigns' = assigns /\ trail' = trail /\ trail_lim' = trail_lim /\ polarity' = polarity
      /\ watches' = watches /\ UNCHANGED scratch
  BY DEF reduceDB
<1>3. Control /\ order_heap \subseteq Var
  BY DEF Structure, TypeOK, AssignmentType
<1>4. confl = CRef_Undef
  BY <1>2, <1>3 DEF Control
<1>5. Control' /\ pc \in Plain /\ pc' \in Plain
  BY <1>2, <1>3, <1>4 DEF Control, Returns, AtRoot, InPropagate, decisionLevel, nAssigns, CRef_Undef, Plain
<1>6. R \subseteq Live /\ \A cr \in R : ~locked(cr)
  BY DEF Removable, Live
<1> QED
  BY <1>1, <1>2, <1>3, <1>4, <1>5, <1>6, RemoveStep

(***************************************************************************)
(* The collector finds the live clauses, and every reason on the trail.    *)
(***************************************************************************)
LEMMA WatchPlacesAre ==
  ASSUME NEW W, NEW cr, NEW q
  PROVE  q \in WatchPlaces(W, cr) <=> \E p \in Lit : \E j \in DOMAIN W[p] : q = <<p, j>> /\ W[p][j].cref = cr
<1>1. q \in WatchPlaces(W, cr) <=> \E p \in Lit : q \in {p} \X {j \in DOMAIN W[p] : W[p][j].cref = cr}
  BY DEF WatchPlaces
<1>2. \A p \in Lit : q \in {p} \X {j \in DOMAIN W[p] : W[p][j].cref = cr}
        <=> \E j \in DOMAIN W[p] : q = <<p, j>> /\ W[p][j].cref = cr
  OBVIOUS
<1> QED
  BY <1>1, <1>2

LEMMA ReasonLocked ==
  ASSUME Structure, NEW k \in DOMAIN trail, NEW r, r = reason(var(trail[k])), r # CRef_Undef
  PROVE  r \in Live /\ lits(r)[1] = trail[k] /\ value(trail[k]) = l_True /\ locked(r)
<1>1. VarsType /\ AssignmentType /\ Trail /\ Reasoned
  BY DEF Structure, TypeOK
<1>2. trail[k] \in Nat /\ var(trail[k]) \in Var
  <2>1. Tables(Var, Lit, assigns, vardata, trail, trail_lim)
    BY <1>1, Assigned
  <2> QED
    BY <2>1, TableFacts
<1>3. r \in Live /\ Implies(ca[r].lits, trail, k)
  BY <1>1 DEF Reasoned, ReasonedIn, reason
<1>4. lits(r)[1] = trail[k]
  BY <1>3 DEF Implies, lits
<1>5. value(trail[k]) = l_True
  <2>1. assigns[var(trail[k])] = sign(trail[k]) /\ assigns[var(trail[k])] \in 0 .. 2
    BY <1>1, <1>2 DEF Trail, TrailIn, AssignmentType
  <2> QED
    BY <1>2, <2>1, ValueIs
<1> QED
  BY <1>3, <1>4, <1>5 DEF locked

LEMMA CollectorFinds ==
  ASSUME Structure, NEW W, W \in [Lit -> Seq(WatcherSet)], WatchesIn(W, ca, Live, {}),
         NEW P, P = [cr \in DOMAIN ca |-> Places(W, cr)]
  PROVE  /\ Found(P) = Live /\ IsFiniteSet(DOMAIN P) /\ DOMAIN P = DOMAIN ca
         /\ \A x \in DOMAIN P : P[x] \subseteq Nat \X Nat
         /\ \A x, y \in DOMAIN P : x # y => P[x] \cap P[y] = {}
         /\ \A k \in DOMAIN trail : k \in Reached(W) <=> reason(var(trail[k])) # CRef_Undef
<1>1. VarsType /\ DatabaseType /\ AssignmentType
  BY DEF Structure, TypeOK
<1>2. /\ ca \in Seq(ClauseSet) /\ clauses \subseteq DOMAIN ca /\ learnts \subseteq DOMAIN ca
      /\ Live = clauses \cup learnts /\ trail \in Seq(Lit)
  BY <1>1 DEF DatabaseType, Live, AssignmentType
<1>3. DOMAIN ca = 1 .. Len(ca) /\ Len(ca) \in Nat /\ DOMAIN ca \subseteq Nat /\ DOMAIN P = DOMAIN ca
      /\ DOMAIN trail \subseteq Nat
  BY <1>2
<1>4. IsFiniteSet(DOMAIN P)
  BY <1>3, FS_Interval
<1>5. PICK n \in Nat : n = nVars /\ Lit = 0 .. 2 * n - 1
  BY <1>1, Literals
<1>6. \A k \in DOMAIN trail : k \in Reached(W) <=> reason(var(trail[k])) # CRef_Undef
  <2> SUFFICES ASSUME NEW k \in DOMAIN trail PROVE k \in Reached(W) <=> reason(var(trail[k])) # CRef_Undef
    OBVIOUS
  <2>1. PICK r : r = reason(var(trail[k]))
    OBVIOUS
  <2>2. r # CRef_Undef => locked(r)
    BY <2>1, ReasonLocked
  <2> QED
    BY <2>1, <2>2 DEF Reached
<1>7. \A k \in Reached(W) : k \in DOMAIN trail /\ k \in Nat /\ reason(var(trail[k])) \in Live
  <2> SUFFICES ASSUME NEW k \in Reached(W)
               PROVE k \in DOMAIN trail /\ k \in Nat /\ reason(var(trail[k])) \in Live
    OBVIOUS
  <2>1. k \in DOMAIN trail
    BY DEF Reached
  <2>2. PICK r : r = reason(var(trail[k]))
    OBVIOUS
  <2>3. r \in Live
    BY <1>6, <2>1, <2>2, ReasonLocked
  <2> QED
    BY <1>3, <2>1, <2>2, <2>3
<1>8. \A cr \in DOMAIN ca : \A q : q \in P[cr] <=>
         \/ \E p \in Lit : \E j \in DOMAIN W[p] : q = <<p, j>> /\ W[p][j].cref = cr
         \/ \E k \in Reached(W) : q = <<2 * n, k>> /\ reason(var(trail[k])) = cr
         \/ cr \in learnts /\ q = <<2 * n + 1, cr>>
         \/ cr \in clauses /\ q = <<2 * n + 2, cr>>
  <2> SUFFICES ASSUME NEW cr \in DOMAIN ca, NEW q
               PROVE q \in P[cr] <=>
                       \/ \E p \in Lit : \E j \in DOMAIN W[p] : q = <<p, j>> /\ W[p][j].cref = cr
                       \/ \E k \in Reached(W) : q = <<2 * n, k>> /\ reason(var(trail[k])) = cr
                       \/ cr \in learnts /\ q = <<2 * n + 1, cr>>
                       \/ cr \in clauses /\ q = <<2 * n + 2, cr>>
    OBVIOUS
  <2>1. P[cr] = Places(W, cr)
    OBVIOUS
  <2>2. q \in {<<2 * n, k>> : k \in {j \in Reached(W) : reason(var(trail[j])) = cr}}
          <=> \E k \in Reached(W) : q = <<2 * n, k>> /\ reason(var(trail[k])) = cr
    OBVIOUS
  <2>3. q \in {<<2 * n + 1, c>> : c \in learnts \cap {cr}} <=> cr \in learnts /\ q = <<2 * n + 1, cr>>
    OBVIOUS
  <2>4. q \in {<<2 * n + 2, c>> : c \in clauses \cap {cr}} <=> cr \in clauses /\ q = <<2 * n + 2, cr>>
    OBVIOUS
  <2>5. q \in P[cr] <=> \/ q \in WatchPlaces(W, cr)
                        \/ q \in {<<2 * n, k>> : k \in {j \in Reached(W) : reason(var(trail[j])) = cr}}
                        \/ q \in {<<2 * n + 1, c>> : c \in learnts \cap {cr}}
                        \/ q \in {<<2 * n + 2, c>> : c \in clauses \cap {cr}}
    BY <1>5, <2>1 DEF Places
  <2> QED
    BY <2>2, <2>3, <2>4, <2>5, WatchPlacesAre
<1>9. \A p \in Lit : DOMAIN W[p] \subseteq Nat /\ p \in Nat /\ p < 2 * n /\ \A j \in DOMAIN W[p] : W[p][j].cref \in Live
  <2> SUFFICES ASSUME NEW p \in Lit
               PROVE  DOMAIN W[p] \subseteq Nat /\ p \in Nat /\ p < 2 * n /\ \A j \in DOMAIN W[p] : W[p][j].cref \in Live
    OBVIOUS
  <2>1. W[p] \in Seq(WatcherSet) /\ p \in DOMAIN W
    OBVIOUS
  <2>2. \A j \in DOMAIN W[p] : Good(W[p][j], p, ca, Live, {})
    BY <2>1, WatchesSplit
  <2>3. \A j \in DOMAIN W[p] : W[p][j].cref \in Live
    BY <2>2 DEF Good
  <2> QED
    BY <1>5, <2>1, <2>3
<1>10. ASSUME NEW x \in DOMAIN ca PROVE P[x] \subseteq Nat \X Nat
  <2> SUFFICES ASSUME NEW q \in P[x] PROVE q \in Nat \X Nat
    OBVIOUS
  <2>1. x \in Nat /\ 2 * n \in Nat /\ 2 * n + 1 \in Nat /\ 2 * n + 2 \in Nat
    BY <1>3
  <2>2. CASE \E p \in Lit : \E j \in DOMAIN W[p] : q = <<p, j>> /\ W[p][j].cref = x
    BY <1>9, <2>2
  <2>3. CASE \E k \in Reached(W) : q = <<2 * n, k>> /\ reason(var(trail[k])) = x
    BY <1>7, <2>1, <2>3
  <2>4. CASE x \in learnts /\ q = <<2 * n + 1, x>>
    BY <2>1, <2>4
  <2>5. CASE x \in clauses /\ q = <<2 * n + 2, x>>
    BY <2>1, <2>5
  <2> QED
    BY <1>8, <2>2, <2>3, <2>4, <2>5
<1>11. ASSUME NEW x \in DOMAIN ca, NEW y \in DOMAIN ca, NEW q, q \in P[x], q \in P[y] PROVE x = y
  <2>1. \A z \in {x, y} :
         \/ q[1] < 2 * n /\ W[q[1]][q[2]].cref = z
         \/ q[1] = 2 * n /\ reason(var(trail[q[2]])) = z
         \/ q[1] = 2 * n + 1 /\ q[2] = z
         \/ q[1] = 2 * n + 2 /\ q[2] = z
    <3> SUFFICES ASSUME NEW z \in DOMAIN ca, q \in P[z]
                 PROVE  \/ q[1] < 2 * n /\ W[q[1]][q[2]].cref = z
                        \/ q[1] = 2 * n /\ reason(var(trail[q[2]])) = z
                        \/ q[1] = 2 * n + 1 /\ q[2] = z
                        \/ q[1] = 2 * n + 2 /\ q[2] = z
      BY <1>11
    <3>1. CASE \E p \in Lit : \E j \in DOMAIN W[p] : q = <<p, j>> /\ W[p][j].cref = z
      BY <1>9, <3>1
    <3>2. CASE \E k \in Reached(W) : q = <<2 * n, k>> /\ reason(var(trail[k])) = z
      BY <3>2
    <3>3. CASE z \in learnts /\ q = <<2 * n + 1, z>>
      BY <3>3
    <3>4. CASE z \in clauses /\ q = <<2 * n + 2, z>>
      BY <3>4
    <3> QED
      BY <1>8, <3>1, <3>2, <3>3, <3>4
  <2> QED
    BY <1>11, <2>1
<1>12. Found(P) = Live
  <2>1. ASSUME NEW x \in Live PROVE x \in Found(P)
    <3>1. x \in DOMAIN ca /\ (x \in learnts \/ x \in clauses)
      BY <1>2
    <3>2. \E q : q \in P[x]
      <4>1. CASE x \in learnts
        <5>1. <<2 * n + 1, x>> \in P[x]
          BY <1>8, <3>1, <4>1
        <5> QED
          BY <5>1
      <4>2. CASE x \in clauses
        <5>1. <<2 * n + 2, x>> \in P[x]
          BY <1>8, <3>1, <4>2
        <5> QED
          BY <5>1
      <4> QED
        BY <3>1, <4>1, <4>2
    <3> QED
      BY <1>3, <3>1, <3>2 DEF Found
  <2>2. ASSUME NEW x \in Found(P) PROVE x \in Live
    <3>1. x \in DOMAIN ca /\ P[x] # {}
      BY <1>3 DEF Found
    <3>2. PICK q : q \in P[x]
      BY <3>1
    <3>3. CASE \E p \in Lit : \E j \in DOMAIN W[p] : q = <<p, j>> /\ W[p][j].cref = x
      BY <1>9, <3>3
    <3>4. CASE \E k \in Reached(W) : q = <<2 * n, k>> /\ reason(var(trail[k])) = x
      BY <1>7, <3>4
    <3>5. CASE x \in learnts \/ x \in clauses
      BY <1>2, <3>5
    <3> QED
      BY <1>8, <3>1, <3>2, <3>3, <3>4, <3>5
  <2> QED
    BY <2>1, <2>2
<1> QED
  BY <1>3, <1>4, <1>6, <1>10, <1>11, <1>12

(***************************************************************************)
(* The collector gives the live clauses new numbers, one to one, and W are *)
(* the watch lists it starts from.                                         *)
(***************************************************************************)
Collected(W, new) ==
  LET m == Cardinality(Live)
  IN /\ W \in [Lit -> Seq(WatcherSet)] /\ WatchesIn(W, ca, Live, {})
     /\ \A k \in DOMAIN trail : k \in Reached(W) <=> reason(var(trail[k])) # CRef_Undef
     /\ m \in Nat /\ DOMAIN new = Live
     /\ \A x \in Live : new[x] \in 1 .. m
     /\ \A x, y \in Live : new[x] = new[y] => x = y
     /\ \A k \in 1 .. m : \E x \in Live : new[x] = k
     /\ \A x \in Live : ca'[new[x]] = ca[x]
     /\ ca' \in Seq(ClauseSet) /\ DOMAIN ca' = 1 .. m
     /\ Live' = 1 .. m /\ clauses' = {new[cr] : cr \in clauses} /\ learnts' = {new[cr] : cr \in learnts}
     /\ watches' = [p \in DOMAIN W |-> [j \in DOMAIN W[p] |-> [W[p][j] EXCEPT !.cref = new[@]]]]
     /\ vardata' = [v \in Var |-> IF v \in {var(trail[k]) : k \in Reached(W)}
                                   THEN [vardata[v] EXCEPT !.reason = new[@]] ELSE vardata[v]]

LEMMA CollectorMoves == ASSUME Structure, garbageCollect PROVE \E W, new : Collected(W, new)
<1>1. /\ VarsType /\ AssignmentType /\ DatabaseType /\ ScratchType /\ Control /\ Working /\ Trail
      /\ Clauses /\ Conflict /\ Reasoned /\ Watches /\ Analysis /\ Minimization /\ Cleared
  BY DEF Structure, TypeOK
<1>2. PICK W : W = CleanAll(watches, ca, dirty)
  OBVIOUS
<1>3. PICK P : P = [cr \in DOMAIN ca |-> Places(W, cr)]
  OBVIOUS
<1>4. PICK new : new = Address(P)
  OBVIOUS
<1>5. /\ pc = "garbage" /\ pc' = Head(stack) /\ stack' = Tail(stack)
      /\ ca' = [k \in 1 .. Cardinality(DOMAIN new) |-> ca[CHOOSE cr \in DOMAIN new : new[cr] = k]]
      /\ watches' = [p \in DOMAIN W |-> [j \in DOMAIN W[p] |-> [W[p][j] EXCEPT !.cref = new[@]]]]
      /\ dirty' = {}
      /\ vardata' = [v \in Var |-> IF v \in {var(trail[k]) : k \in Reached(W)}
                                   THEN [vardata[v] EXCEPT !.reason = new[@]] ELSE vardata[v]]
      /\ clauses' = {new[cr] : cr \in clauses} /\ learnts' = {new[cr] : cr \in learnts}
  BY <1>2, <1>3, <1>4 DEF garbageCollect
<1>8. /\ ca \in Seq(ClauseSet) /\ clauses \subseteq DOMAIN ca /\ learnts \subseteq DOMAIN ca
      /\ watches \in [Lit -> Seq(WatcherSet)] /\ Live = clauses \cup learnts /\ Lit \subseteq Nat
      /\ vardata \in [Var -> DataSet] /\ DataSet = [reason : Nat, level : Nat]
      /\ \A cr \in Live : ca[cr] \in ClauseSet
  BY <1>1, Literals DEF DatabaseType, AssignmentType, Live, DataSet
<1>9. ws = NoList /\ confl = CRef_Undef /\ Lists = watches
  BY <1>1, <1>5, <1>8, ListsIdle DEF Working, Control, Lists
<1>10. W \in [Lit -> Seq(WatcherSet)] /\ WatchesIn(W, ca, Live, {})
  <2>1. \A cr \in Live : ca[cr].mark = 0
    BY <1>1 DEF Clauses, ClausesIn
  <2>2. WatchesIn(watches, ca, Live, dirty)
    BY <1>1, <1>9 DEF Watches
  <2> QED
    BY <1>2, <1>8, <2>1, <2>2, WatchesClean
<1>11. /\ Found(P) = Live /\ IsFiniteSet(DOMAIN P)
       /\ \A x \in DOMAIN P : P[x] \subseteq Nat \X Nat
       /\ \A x, y \in DOMAIN P : x # y => P[x] \cap P[y] = {}
       /\ \A k \in DOMAIN trail : k \in Reached(W) <=> reason(var(trail[k])) # CRef_Undef
  BY <1>3, <1>10, CollectorFinds
<1>12. PICK m : m = Cardinality(Live)
  OBVIOUS
<1>13. /\ m \in Nat /\ DOMAIN new = Live /\ Cardinality(DOMAIN new) = m
       /\ \A x \in Live : new[x] \in 1 .. m
       /\ \A x, y \in Live : new[x] = new[y] => x = y
       /\ \A k \in 1 .. m : \E x \in Live : new[x] = k
  <2>1. PICK F : F = Found(P)
    OBVIOUS
  <2>2. /\ Cardinality(F) \in Nat /\ DOMAIN new = F
        /\ \A x \in F : new[x] \in 1 .. Cardinality(F)
        /\ \A x, y \in F : new[x] = new[y] => x = y
        /\ \A k \in 1 .. Cardinality(F) : \E x \in F : new[x] = k
    BY <1>4, <1>11, <2>1, Addresses
  <2> QED
    BY <1>11, <1>12, <2>1, <2>2
<1>14. PICK B : B = ca'
  OBVIOUS
<1>15. \A x \in Live : B[new[x]] = ca[x]
  <2> SUFFICES ASSUME NEW x \in Live PROVE B[new[x]] = ca[x]
    OBVIOUS
  <2>1. PICK k \in 1 .. m : k = new[x]
    BY <1>13
  <2>2. B[k] = ca[CHOOSE cr \in DOMAIN new : new[cr] = k]
    BY <1>5, <1>13, <1>14
  <2>3. \A y \in DOMAIN new : new[y] = k <=> y = x
    BY <1>13, <2>1
  <2>4. (CHOOSE cr \in DOMAIN new : new[cr] = k) = x
    BY <1>13, <2>3
  <2> QED
    BY <2>1, <2>2, <2>4
<1>16. B \in Seq(ClauseSet) /\ DOMAIN B = 1 .. m
  <2>1. DOMAIN B = 1 .. m /\ B = [k \in 1 .. m |-> B[k]]
    BY <1>5, <1>13, <1>14
  <2>2. \A k \in 1 .. m : B[k] \in ClauseSet
    BY <1>8, <1>13, <1>15
  <2> QED
    BY <1>13, <2>1, <2>2
<1>17. PICK R : R = {new[x] : x \in Live}
  OBVIOUS
<1>18. R = 1 .. m /\ Live' = R /\ clauses' \subseteq R /\ learnts' \subseteq R
  BY <1>5, <1>8, <1>13, <1>17 DEF Live
<1>19. \A x \in Live : ca'[new[x]] = ca[x]
  BY <1>14, <1>15
<1>20. ca' \in Seq(ClauseSet) /\ DOMAIN ca' = 1 .. m /\ Live' = 1 .. m
  BY <1>14, <1>16, <1>18
<1>21. /\ watches' = [p \in DOMAIN W |-> [j \in DOMAIN W[p] |-> [W[p][j] EXCEPT !.cref = new[@]]]]
       /\ vardata' = [v \in Var |-> IF v \in {var(trail[k]) : k \in Reached(W)}
                                    THEN [vardata[v] EXCEPT !.reason = new[@]] ELSE vardata[v]]
       /\ clauses' = {new[cr] : cr \in clauses} /\ learnts' = {new[cr] : cr \in learnts}
  BY <1>5
<1>22. Collected(W, new)
  BY <1>10, <1>11, <1>12, <1>13, <1>19, <1>20, <1>21 DEF Collected
<1> QED
  BY <1>22

(***************************************************************************)
(* Garbage is collected: clauses, watchers and reasons move together.      *)
(***************************************************************************)
LEMMA GarbageCollectStep == ASSUME Structure, garbageCollect PROVE Structure'
<1>1. /\ VarsType /\ AssignmentType /\ DatabaseType /\ ScratchType /\ Control /\ Working /\ Trail
      /\ Clauses /\ Conflict /\ Reasoned /\ Watches /\ Analysis /\ Minimization /\ Cleared
  BY DEF Structure, TypeOK
<1>2. PICK W, new : Collected(W, new)
  BY CollectorMoves
<1>3. PICK m : m = Cardinality(Live)
  OBVIOUS
<1>5. /\ watches' = [p \in DOMAIN W |-> [j \in DOMAIN W[p] |-> [W[p][j] EXCEPT !.cref = new[@]]]]
      /\ vardata' = [v \in Var |-> IF v \in {var(trail[k]) : k \in Reached(W)}
                                   THEN [vardata[v] EXCEPT !.reason = new[@]] ELSE vardata[v]]
      /\ clauses' = {new[cr] : cr \in clauses} /\ learnts' = {new[cr] : cr \in learnts}
  BY <1>2 DEF Collected
<1>6. /\ ok' = ok /\ assigns' = assigns /\ trail' = trail /\ trail_lim' = trail_lim
      /\ order_heap' = order_heap /\ polarity' = polarity /\ qhead' = qhead
      /\ UNCHANGED scratch /\ confl' = confl /\ ws' = ws
      /\ pc = "garbage" /\ pc' = Head(stack) /\ stack' = Tail(stack) /\ dirty' = {}
  BY DEF garbageCollect
<1>7. VarsType' /\ Var' = Var /\ Lit' = Lit
  BY <1>1, <1>6, SameVars
<1>8. /\ ca \in Seq(ClauseSet) /\ clauses \subseteq DOMAIN ca /\ learnts \subseteq DOMAIN ca
      /\ watches \in [Lit -> Seq(WatcherSet)] /\ Live = clauses \cup learnts /\ Lit \subseteq Nat
      /\ vardata \in [Var -> DataSet] /\ DataSet = [reason : Nat, level : Nat]
      /\ \A cr \in Live : ca[cr] \in ClauseSet
  BY <1>1, Literals DEF DatabaseType, AssignmentType, Live, DataSet
<1>9. ws = NoList /\ confl = CRef_Undef
  BY <1>1, <1>6 DEF Working, Control
<1>10. W \in [Lit -> Seq(WatcherSet)] /\ WatchesIn(W, ca, Live, {})
  BY <1>2 DEF Collected
<1>11. \A k \in DOMAIN trail : k \in Reached(W) <=> reason(var(trail[k])) # CRef_Undef
  BY <1>2 DEF Collected
<1>13. /\ m \in Nat /\ DOMAIN new = Live
       /\ \A x \in Live : new[x] \in 1 .. m
       /\ \A x, y \in Live : new[x] = new[y] => x = y
       /\ \A k \in 1 .. m : \E x \in Live : new[x] = k
  BY <1>2, <1>3 DEF Collected
<1>14. PICK B : B = ca'
  OBVIOUS
<1>15. \A x \in Live : B[new[x]] = ca[x]
  BY <1>2, <1>14 DEF Collected
<1>16. B \in Seq(ClauseSet) /\ DOMAIN B = 1 .. m
  BY <1>2, <1>3, <1>14 DEF Collected
<1>17. PICK R : R = {new[x] : x \in Live}
  OBVIOUS
<1>18. R = 1 .. m /\ Live' = R /\ clauses' \subseteq R /\ learnts' \subseteq R
  <2>1. Live' = 1 .. m
    BY <1>2, <1>3 DEF Collected
  <2>2. R = 1 .. m
    BY <1>13, <1>17
  <2> QED
    BY <1>5, <1>8, <1>17, <2>1, <2>2
<1>19. PICK X : X = watches'
  OBVIOUS
<1>20. Renames(W, ca, Live, new, R, B, X)
  <2>1. \A x \in Live : new[x] \in Nat /\ new[x] \in R /\ B[new[x]] = ca[x]
    BY <1>13, <1>15, <1>18
  <2>2. \A k \in R : \E x \in Live : new[x] = k
    BY <1>13, <1>18
  <2>3. DOMAIN B = R
    BY <1>16, <1>18
  <2> QED
    BY <1>5, <1>13, <1>19, <2>1, <2>2, <2>3 DEF Renames
<1>21. X \in [Lit -> Seq(WatcherSet)] /\ WatchesIn(X, B, R, {})
  BY <1>10, <1>20, WatchesRename
<1>22. PICK E : E = vardata'
  OBVIOUS
<1>23. Tables(Var, Lit, assigns, vardata, trail, trail_lim)
  BY <1>1, Assigned
<1>24. \A k \in DOMAIN trail : var(trail[k]) \in Var /\ trail[k] \in Nat
  BY <1>23, TableFacts
<1>25. \A k \in DOMAIN trail :
         LET v == var(trail[k])
         IN /\ E[v].level = vardata[v].level
            /\ E[v].reason = IF vardata[v].reason = CRef_Undef THEN CRef_Undef ELSE new[vardata[v].reason]
            /\ vardata[v].reason # CRef_Undef => vardata[v].reason \in Live
  <2> SUFFICES ASSUME NEW k \in DOMAIN trail, NEW v \in Var, v = var(trail[k])
               PROVE  /\ E[v].level = vardata[v].level
                      /\ E[v].reason = IF vardata[v].reason = CRef_Undef THEN CRef_Undef ELSE new[vardata[v].reason]
                      /\ vardata[v].reason # CRef_Undef => vardata[v].reason \in Live
    BY <1>24
  <2>1. vardata[v] \in DataSet
    BY <1>8
  <2>2. CASE vardata[v].reason = CRef_Undef
    <3>1. v \notin {var(trail[j]) : j \in Reached(W)}
      <4> SUFFICES ASSUME NEW j \in Reached(W), var(trail[j]) = v PROVE FALSE
        OBVIOUS
      <4>1. j \in DOMAIN trail
        BY DEF Reached
      <4>2. j = k
        BY <1>1, <4>1 DEF Trail, TrailIn
      <4> QED
        BY <1>11, <2>2, <4>2 DEF reason
    <3>2. E[v] = vardata[v]
      BY <1>5, <1>22, <3>1
    <3> QED
      BY <2>2, <3>2
  <2>3. CASE vardata[v].reason # CRef_Undef
    <3>1. k \in Reached(W)
      BY <1>11, <2>3 DEF reason
    <3>2. E[v] = [vardata[v] EXCEPT !.reason = new[@]]
      BY <1>5, <1>22, <3>1
    <3>3. PICK r : r = vardata[v].reason
      OBVIOUS
    <3>4. r \in Live
      BY <2>3, <3>3, ReasonLocked DEF reason
    <3> QED
      BY <1>8, <2>1, <2>3, <3>2, <3>3, <3>4
  <2> QED
    BY <2>2, <2>3
<1>26. E \in [Var -> DataSet]
  <2>1. E = [v \in Var |-> E[v]]
    BY <1>5, <1>22
  <2>2. ASSUME NEW v \in Var PROVE E[v] \in DataSet
    <3>1. CASE v \in {var(trail[k]) : k \in Reached(W)}
      <4>1. PICK k \in Reached(W) : v = var(trail[k])
        BY <3>1
      <4>2. k \in DOMAIN trail
        BY DEF Reached
      <4>3. E[v] = [vardata[v] EXCEPT !.reason = new[@]] /\ vardata[v] \in DataSet
        BY <1>5, <1>8, <1>22, <3>1
      <4>4. vardata[v].reason # CRef_Undef
        BY <1>11, <4>1, <4>2 DEF reason
      <4>5. PICK r : r = vardata[v].reason
        OBVIOUS
      <4>6. r \in Live /\ new[r] \in Nat
        BY <1>13, <4>1, <4>2, <4>4, <4>5, ReasonLocked DEF reason
      <4> QED
        BY <1>8, <4>3, <4>5, <4>6
    <3>2. CASE v \notin {var(trail[k]) : k \in Reached(W)}
      BY <1>5, <1>8, <1>22, <3>2
    <3> QED
      BY <3>1, <3>2
  <2> QED
    BY <2>1, <2>2
<1>27. AssignmentType'
  BY <1>1, <1>6, <1>7, <1>8, <1>22, <1>26 DEF AssignmentType
<1>28. DatabaseType'
  BY <1>5, <1>6, <1>7, <1>14, <1>16, <1>18, <1>19, <1>21, SameTypes DEF DatabaseType
<1>29. ScratchType'
  BY <1>1, <1>6, <1>7, SameScratch DEF ScratchType
<1>30. Trail'
  <2>1. TrailIn(assigns, E, trail, trail_lim)
    BY <1>1, <1>24, <1>25 DEF Trail, TrailIn
  <2> QED
    BY <1>6, <1>22, <2>1 DEF Trail
<1>31. Clauses'
  <2>1. ClausesIn(B, R)
    BY <1>1, <1>15, <1>17 DEF Clauses, ClausesIn
  <2> QED
    BY <1>14, <1>18, <2>1 DEF Clauses
<1>32. Reasoned'
  <2>1. ASSUME NEW k \in DOMAIN trail
        PROVE  LET x == vardata[var(trail[k])]
                   e == E[var(trail[k])]
               IN /\ e.level = x.level
                  /\ \/ e.reason = CRef_Undef /\ (x.level = 0 \/ x.reason = CRef_Undef)
                     \/ /\ x.reason # CRef_Undef /\ e.reason # CRef_Undef
                        /\ x.reason \in Live => e.reason \in R /\ B[e.reason].lits = ca[x.reason].lits
    <3>1. PICK v \in Var : v = var(trail[k])
      BY <1>24
    <3>2. /\ E[v].level = vardata[v].level
          /\ E[v].reason = IF vardata[v].reason = CRef_Undef THEN CRef_Undef ELSE new[vardata[v].reason]
          /\ vardata[v].reason # CRef_Undef => vardata[v].reason \in Live
      BY <1>25, <3>1
    <3>3. \A r \in Live : new[r] # CRef_Undef /\ new[r] \in R
      BY <1>13, <1>18 DEF CRef_Undef
    <3>4. CASE vardata[v].reason = CRef_Undef
      BY <3>1, <3>2, <3>4
    <3>5. CASE vardata[v].reason # CRef_Undef
      <4>1. PICK r \in Live : r = vardata[v].reason
        BY <3>2, <3>5
      <4>2. E[v].reason = new[r]
        BY <3>2, <3>5, <4>1
      <4> QED
        BY <1>15, <3>1, <3>2, <3>3, <3>5, <4>1, <4>2
    <3> QED
      BY <3>4, <3>5
  <2>2. ReasonedIn(ca, Live, vardata, trail, trail_lim)
    BY <1>1 DEF Reasoned
  <2>3. ReasonedIn(B, R, E, trail, trail_lim)
    BY <2>1, <2>2, ReasonedClauses
  <2> QED
    BY <1>6, <1>14, <1>18, <1>22, <2>3 DEF Reasoned
<1>33. Watches'
  <2>1. ListsOf(Lit, X, ws) = X
    BY <1>8, <1>9, <1>21, ListsIdle
  <2>2. Lists' = X
    BY <1>6, <1>7, <1>19, <2>1 DEF Lists
  <2> QED
    BY <1>5, <1>6, <1>14, <1>18, <1>21, <2>2 DEF Watches
<1>34. \/ pc' = "solve" /\ stack = <<"solve">> /\ stack' = <<>>
       \/ pc' = "reduce" /\ stack = <<"reduce">> /\ stack' = <<>>
       \/ pc' = "decide" /\ stack = <<"decide">> /\ stack' = <<>>
  <2>1. stack \in {<<"solve">>, <<"reduce">>, <<"decide">>}
    BY <1>1, <1>6 DEF Control, Returns, InPropagate
  <2> QED
    BY <1>6, <2>1, OneFrame, TwoFrames
<1>35. Control'
  BY <1>1, <1>5, <1>6, <1>34 DEF Control, Returns, AtRoot, InPropagate, decisionLevel, nAssigns, CRef_Undef
<1>36. Working' /\ Conflict' /\ Analysis' /\ Minimization' /\ Cleared'
  BY <1>1, <1>5, <1>6, <1>9, <1>34
     DEF Working, Conflict, Analysis, Minimization, InMinimize, Cleared, scratch, CRef_Undef
<1> QED
  BY <1>7, <1>27, <1>28, <1>29, <1>30, <1>31, <1>32, <1>33, <1>35, <1>36 DEF Structure, TypeOK

(***************************************************************************)
(* One turn of the watcher loop ends in a state of the same kind: what the *)
(* four cases have in common.                                              *)
(***************************************************************************)
LEMMA WatcherEnds ==
  ASSUME Structure, pc = "watches", pc' = pc, stack' = stack, ok' = ok, dirty' = dirty, trail_lim' = trail_lim,
         UNCHANGED scratch, VarsType', Var' = Var, Lit' = Lit, AssignmentType', DatabaseType', confl' \in Nat,
         ws' \in ListSet, ws'.p = ws.p, ws'.i > 0, Trail', Clauses', Reasoned', Watches',
         qhead <= qhead', qhead' <= nAssigns', \A k \in 1 .. qhead : trail'[k] = trail[k],
         vardata'[var(ws.p)] = vardata[var(ws.p)], Conflict',
         confl' # CRef_Undef => qhead' = nAssigns' /\ ws'.i > Len(watches'[ws.p])
  PROVE  Structure'
<1>1. VarsType /\ AssignmentType /\ ScratchType /\ Control /\ Working /\ Analysis /\ Minimization /\ Cleared
  BY DEF Structure, TypeOK
<1>2. qhead \in Nat /\ qhead' \in Nat /\ decisionLevel \in Nat /\ decisionLevel' = decisionLevel
      /\ DOMAIN trail_lim = 1 .. decisionLevel /\ \A l \in 1 .. decisionLevel : trail_lim[l] \in Nat
  BY <1>1 DEF AssignmentType, decisionLevel
<1>3. ScratchType'
  BY <1>1, SameTypes DEF ScratchType, scratch
<1>4. Control'
  <2>1. decisionLevel > 0 => trail_lim[decisionLevel] <= qhead'
    <3> SUFFICES ASSUME decisionLevel > 0 PROVE trail_lim[decisionLevel] <= qhead'
      OBVIOUS
    <3>1. trail_lim[decisionLevel] <= qhead /\ trail_lim[decisionLevel] \in Nat
      BY <1>1, <1>2 DEF Control
    <3> QED
      BY <1>2, <3>1
  <2> QED
    BY <1>1, <1>2, <2>1 DEF Control, Returns, AtRoot, InPropagate, CRef_Undef
<1>5. Working'
  <2>1. PICK k \in 1 .. qhead : trail[k] = ws.p
    BY <1>1 DEF Working
  <2>2. k \in 1 .. qhead' /\ trail'[k] = ws.p
    BY <1>2, <2>1
  <2>3. level(var(ws.p)) = decisionLevel
    BY <1>1 DEF Working
  <2> QED
    BY <1>2, <2>2, <2>3 DEF Working, level
<1>6. Analysis' /\ Minimization' /\ Cleared'
  BY <1>1 DEF Analysis, Minimization, InMinimize, Cleared, scratch
<1> QED
  BY <1>3, <1>4, <1>5, <1>6 DEF Structure, TypeOK

(***************************************************************************)
(* A clause gets its literals in another order, which a reason keeps.      *)
(***************************************************************************)
Rewritten(C, cr, d) == [C EXCEPT ![cr].lits = d]

LEMMA RewrittenClause ==
  ASSUME VarsType, DatabaseType, Clauses, Reasoned, NEW cr \in Live, NEW d \in Seq(Lit), Len(d) >= 2, Distinct(d),
         \A k \in DOMAIN trail : reason(var(trail[k])) = cr => d = lits(cr),
         NEW B, B = Rewritten(ca, cr, d)
  PROVE  /\ B \in Seq(ClauseSet) /\ DOMAIN B = DOMAIN ca /\ cr \in DOMAIN ca /\ B[cr].lits = d
         /\ \A x \in DOMAIN ca : B[x].mark = ca[x].mark /\ (x # cr => B[x] = ca[x])
         /\ ClausesIn(B, Live) /\ ReasonedIn(B, Live, vardata, trail, trail_lim)
<1>1. ca \in Seq(ClauseSet) /\ cr \in DOMAIN ca /\ Live \subseteq DOMAIN ca
  BY DEF DatabaseType, Live
<1>2. ca[cr] \in ClauseSet
  BY <1>1
<1>3. PICK e : e = [ca[cr] EXCEPT !.lits = d]
  OBVIOUS
<1>4. e \in ClauseSet /\ e.lits = d /\ e.mark = ca[cr].mark
  BY <1>2, <1>3 DEF ClauseSet
<1>5. B = [ca EXCEPT ![cr] = e]
  BY <1>1, <1>3 DEF Rewritten
<1>6. /\ B \in Seq(ClauseSet) /\ DOMAIN B = DOMAIN ca /\ B[cr] = e
      /\ \A x \in DOMAIN ca : x # cr => B[x] = ca[x]
  BY <1>1, <1>4, <1>5
<1>7. ClausesIn(B, Live)
  BY <1>1, <1>4, <1>6 DEF Clauses, ClausesIn
<1>8. ReasonedIn(B, Live, vardata, trail, trail_lim)
  <2>1. ReasonedIn(ca, Live, vardata, trail, trail_lim)
    BY DEF Reasoned
  <2> SUFFICES \A k \in DOMAIN trail :
           LET d1 == vardata[var(trail[k])]
               e1 == vardata[var(trail[k])]
           IN /\ e1.level = d1.level
              /\ \/ e1.reason = CRef_Undef /\ (d1.level = 0 \/ d1.reason = CRef_Undef)
                 \/ /\ d1.reason # CRef_Undef /\ e1.reason # CRef_Undef
                    /\ d1.reason \in Live => e1.reason \in Live /\ B[e1.reason].lits = ca[d1.reason].lits
    BY <2>1, ReasonedClauses
  <2> SUFFICES ASSUME NEW k \in DOMAIN trail, NEW r, r = reason(var(trail[k])), r \in Live
               PROVE  B[r].lits = ca[r].lits
    BY DEF reason
  <2>2. CASE r = cr
    BY <1>4, <1>6, <2>2 DEF lits
  <2>3. CASE r # cr
    BY <1>1, <1>6, <2>3
  <2> QED
    BY <2>2, <2>3
<1> QED
  BY <1>1, <1>4, <1>6, <1>7, <1>8

(***************************************************************************)
(* Where the loop is: at the i-th watcher w of the list l of the true      *)
(* literal p, having kept s; a is the false literal, d the clause's        *)
(* literals and c the same with a second.                                  *)
(***************************************************************************)
AtWatcher(p, a, i, l, s, w, cr, d, c) ==
  /\ pc = "watches" /\ p = ws.p /\ a = neg(p) /\ i = ws.i /\ l = watches[p] /\ s = ws.kept /\ i <= Len(l)
  /\ w = l[i] /\ cr = w.cref /\ d = lits(cr) /\ c = Swapped(d, a)

LEMMA WatcherList ==
  ASSUME Structure, NEW p, NEW a, NEW i, NEW l, NEW s, NEW w, NEW cr, NEW d, NEW c,
         AtWatcher(p, a, i, l, s, w, cr, d, c)
  PROVE  /\ p \in Lit /\ p \in Nat /\ var(p) \in Var /\ a \in Lit /\ a \in Nat /\ var(a) = var(p)
         /\ a # p /\ neg(a) = p
         /\ value(p) = l_True /\ value(a) = l_False /\ level(var(p)) = decisionLevel
         /\ confl = CRef_Undef /\ dirty = {} /\ ok
         /\ l \in Seq(WatcherSet) /\ s \in Seq(WatcherSet) /\ i \in Nat /\ i \in 1 .. Len(l) /\ w \in WatcherSet
         /\ Lists \in [Lit -> Seq(WatcherSet)] /\ Lists[p] = Rest(s, l, i)
         /\ (\A q \in Lit : q # p => Lists[q] = watches[q])
<1>1. /\ VarsType /\ AssignmentType /\ DatabaseType /\ ScratchType /\ Control /\ Working /\ Trail
  BY DEF Structure, TypeOK
<1>2. /\ pc = "watches" /\ p = ws.p /\ a = neg(p) /\ i = ws.i /\ l = watches[p] /\ s = ws.kept /\ i <= Len(l)
      /\ w = l[i]
  BY DEF AtWatcher
<1>3. /\ watches \in [Lit -> Seq(WatcherSet)] /\ Lit \subseteq Nat /\ trail \in Seq(Lit) /\ ws.i \in Nat
      /\ ws.kept \in Seq(WatcherSet) /\ qhead \in Nat /\ qhead <= Len(trail) /\ assigns \in [Var -> 0 .. 2]
  BY <1>1, Literals DEF DatabaseType, AssignmentType, ScratchType, ListSet, Control, nAssigns
<1>4. PICK k \in 1 .. qhead : trail[k] = p
  BY <1>1, <1>2 DEF Working
<1>5. k \in 1 .. Len(trail)
  BY <1>3
<1>6. p \in Lit
  BY <1>3, <1>4, <1>5
<1>7. /\ p \in Nat /\ var(p) \in Var /\ a \in Lit /\ a \in Nat /\ var(a) = var(p) /\ a # p /\ neg(a) = p
  BY <1>1, <1>2, <1>6, Literals, LitFacts
<1>8. assigns[var(p)] = sign(p) /\ assigns[var(p)] \in 0 .. 2
  BY <1>1, <1>3, <1>4, <1>5, <1>7 DEF Trail, TrailIn
<1>9. value(p) = l_True
  BY <1>7, <1>8, ValueIs
<1>10. value(a) = l_False
  BY <1>2, <1>7, <1>8, <1>9, ValueNeg
<1>11. level(var(p)) = decisionLevel /\ ws.i > 0
  BY <1>1, <1>2 DEF Working
<1>12. l \in Seq(WatcherSet) /\ s \in Seq(WatcherSet) /\ i \in Nat
  BY <1>2, <1>3, <1>6
<1>13. i \in 1 .. Len(l) /\ Len(l) \in Nat
  BY <1>2, <1>11, <1>12
<1>14. w \in WatcherSet
  BY <1>2, <1>12, <1>13
<1>15. confl = CRef_Undef
  BY <1>1, <1>2, <1>12, <1>13 DEF Working
<1>16. dirty = {} /\ ok
  BY <1>1, <1>2 DEF Control
<1>17. PICK x : x = ws
  OBVIOUS
<1>18. x.p \in Lit /\ x.i \in 1 .. Len(watches[x.p]) + 1 /\ x.kept \in Seq(WatcherSet)
  BY <1>2, <1>3, <1>6, <1>12, <1>13, <1>17
<1>19. Lists = ListsOf(Lit, watches, x)
  BY <1>17 DEF Lists
<1>20. /\ Lists \in [Lit -> Seq(WatcherSet)] /\ Lists[x.p] = Rest(x.kept, watches[x.p], x.i)
       /\ \A q \in Lit : q # x.p => Lists[q] = watches[q]
  <2>1. PICK X : X = Lists
    OBVIOUS
  <2>2. X = ListsOf(Lit, watches, x)
    BY <1>19, <2>1
  <2>3. X \in [Lit -> Seq(WatcherSet)]
    BY <1>3, <1>18, <2>2, ListsRest
  <2>4. X[x.p] = Rest(x.kept, watches[x.p], x.i)
    BY <1>18, <2>2 DEF ListsOf, Rest
  <2>5. \A q \in Lit : q # x.p => X[q] = watches[q]
    BY <2>2 DEF ListsOf
  <2> QED
    BY <2>1, <2>3, <2>4, <2>5
<1> QED
  BY <1>2, <1>6, <1>7, <1>9, <1>10, <1>11, <1>12, <1>13, <1>14, <1>15, <1>16, <1>17, <1>20

(***************************************************************************)
(* The watcher is at place n of the list, its clause is in the database    *)
(* and a is one of the clause's first two literals.                        *)
(***************************************************************************)
LEMMA SwappedIs ==
  ASSUME NEW d \in Seq(Nat), Len(d) >= 2, Distinct(d), NEW a \in Nat, Wants(d, neg(a)), NEW c, c = Swapped(d, a)
  PROVE  /\ c \in Seq(Nat) /\ Len(c) = Len(d) /\ DOMAIN c = DOMAIN d /\ Distinct(c)
         /\ c[2] = a /\ var(c[1]) # var(a) /\ (d[1] # a => c = d)
         /\ (d[1] = a => c[1] = d[2])
         /\ (\A q : Has(d, q) <=> Has(c, q)) /\ (\A q : Wants(d, q) <=> Wants(c, q))
         /\ \A k \in DOMAIN d : k > 2 => c[k] = d[k]
         /\ \A T : d \in Seq(T) => c \in Seq(T)
<1>1. /\ Len(d) \in Nat /\ DOMAIN d = 1 .. Len(d) /\ 1 \in DOMAIN d /\ 2 \in DOMAIN d
      /\ d[1] \in Nat /\ d[2] \in Nat
  OBVIOUS
<1>2. d[1] = a \/ d[2] = a
  BY <1>1, LitFacts DEF Wants
<1>3. var(d[1]) # var(d[2])
  BY <1>1 DEF Distinct
<1>4. CASE d[1] # a
  BY <1>1, <1>2, <1>3, <1>4 DEF Swapped
<1>5. CASE d[1] = a
  <2>0. 1 \in DOMAIN d /\ 2 \in DOMAIN d
    BY <1>1
  <2>1. c = Exchanged(d, 1, 2)
    BY <1>1, <1>5 DEF Exchanged, Swapped
  <2>2. /\ Len(c) = Len(d) /\ DOMAIN c = DOMAIN d
        /\ c[1] = d[2] /\ c[2] = d[1] /\ \A k \in DOMAIN d : k # 1 /\ k # 2 => c[k] = d[k]
    BY <2>0, <2>1, ExchangedIs
  <2>7. Distinct(c)
    BY <2>0, <2>1, ExchangedIs
  <2>8. \A k \in DOMAIN c : \E m \in DOMAIN d : c[k] = d[m]
    BY <2>0, <2>1, ExchangedIs
  <2>9. \A k \in DOMAIN d : \E m \in DOMAIN c : c[m] = d[k]
    BY <2>2
  <2>3. \A q : Has(d, q) <=> Has(c, q)
    BY <2>8, <2>9 DEF Has
  <2>4. \A q : Wants(d, q) <=> Wants(c, q)
    BY <2>2 DEF Wants
  <2>5. ASSUME NEW T, d \in Seq(T) PROVE c \in Seq(T)
    BY <2>0, <2>1, <2>5, ExchangedIs
  <2>6. ASSUME NEW k \in DOMAIN d, k > 2 PROVE c[k] = d[k]
    <3>1. k # 1 /\ k # 2
      BY <1>1, <2>6
    <3> QED
      BY <2>2, <3>1
  <2> QED
    BY <1>1, <1>3, <1>5, <2>2, <2>3, <2>4, <2>5, <2>6, <2>7
<1> QED
  BY <1>4, <1>5

LEMMA WatcherClause ==
  ASSUME Structure, NEW p, NEW a, NEW i, NEW l, NEW s, NEW w, NEW cr, NEW d, NEW c,
         AtWatcher(p, a, i, l, s, w, cr, d, c)
  PROVE  /\ cr \in Live /\ cr \in DOMAIN ca /\ d = ca[cr].lits /\ d \in Seq(Lit) /\ d \in Seq(Nat) /\ Len(d) >= 2
         /\ Distinct(d) /\ Wants(d, p) /\ Has(d, w.blocker) /\ cr # CRef_Undef
         /\ cr = w.cref /\ w.blocker \in Lit
<1>1. /\ p \in Lit /\ l \in Seq(WatcherSet) /\ s \in Seq(WatcherSet) /\ i \in Nat /\ i \in 1 .. Len(l)
      /\ w \in WatcherSet /\ Lists \in [Lit -> Seq(WatcherSet)] /\ Lists[p] = Rest(s, l, i) /\ dirty = {}
  BY WatcherList
<1>2. VarsType /\ DatabaseType /\ Watches /\ Clauses
  BY DEF Structure, TypeOK
<1>3. w = l[i] /\ cr = w.cref /\ d = lits(cr)
  BY DEF AtWatcher
<1>4. PICK n \in Nat : n = Len(s) + 1
  BY <1>1
<1>5. PICK x : x = Lists[p]
  OBVIOUS
<1>6. n \in DOMAIN x /\ x[n] = w
  <2>1. PICK y : y = Rest(s, l, i + 1)
    OBVIOUS
  <2> QED
    BY <1>1, <1>3, <1>4, <1>5, <2>1, RestDropped
<1>7. WatchesIn(Lists, ca, Live, {})
  BY <1>1, <1>2 DEF Watches
<1>8. DOMAIN Lists = Lit
  BY <1>1
<1>9. Good(w, p, ca, Live, {}) /\ (\A y \in Live : Watched(Lists[p], y) <=> Wants(ca[y].lits, p))
  BY <1>1, <1>5, <1>6, <1>7, <1>8, WatchesSplit
<1>10. cr \in Live /\ Has(ca[cr].lits, w.blocker) /\ cr \in DOMAIN ca
  BY <1>3, <1>9 DEF Good
<1>11. Wants(ca[cr].lits, p)
  BY <1>3, <1>5, <1>6, <1>9, <1>10 DEF Watched
<1>12. Len(ca[cr].lits) >= 2 /\ Distinct(ca[cr].lits)
  BY <1>2, <1>10 DEF Clauses, ClausesIn
<1>13. ca[cr] \in ClauseSet /\ cr # CRef_Undef
  BY <1>2, <1>10 DEF DatabaseType, CRef_Undef
<1>14. ca[cr].lits \in Seq(Lit)
  BY <1>13 DEF ClauseSet
<1>15. Lit \subseteq Nat
  BY <1>2, Literals
<1>16. ca[cr].lits \in Seq(Nat)
  BY <1>14, <1>15, SeqGrows
<1> QED
  BY <1>1, <1>3, <1>10, <1>11, <1>12, <1>13, <1>14, <1>16 DEF lits, WatcherSet

(***************************************************************************)
(* A reason clause is in the database; its other literals were false when  *)
(* it implied its first one.                                               *)
(***************************************************************************)
LEMMA ReasonFalse ==
  ASSUME Structure, NEW k \in DOMAIN trail, NEW r, r = reason(var(trail[k])), r # CRef_Undef,
         NEW j \in 2 .. Len(lits(r))
  PROVE  /\ r \in Live /\ lits(r) \in Seq(Lit) /\ lits(r)[j] \in Lit /\ value(lits(r)[j]) = l_False
         /\ \E m \in 1 .. k - 1 : trail[m] = neg(lits(r)[j])
         /\ level(var(lits(r)[j])) <= level(var(trail[k]))
<1>1. VarsType /\ AssignmentType /\ DatabaseType /\ Trail /\ Reasoned
  BY DEF Structure, TypeOK
<1>2. Tables(Var, Lit, assigns, vardata, trail, trail_lim) /\ TrailIn(assigns, vardata, trail, trail_lim)
  BY <1>1, Assigned DEF Trail
<1>3. r \in Live /\ Implies(ca[r].lits, trail, k)
  BY <1>1 DEF Reasoned, ReasonedIn, reason
<1>4. lits(r) \in Seq(Lit)
  <2>1. r \in DOMAIN ca /\ ca \in Seq(ClauseSet)
    BY <1>1, <1>3 DEF DatabaseType, Live
  <2>2. ca[r] \in ClauseSet
    BY <2>1
  <2> QED
    BY <2>2 DEF ClauseSet, lits
<1>5. PICK q : q = lits(r)[j]
  OBVIOUS
<1>6. q \in Lit /\ q \in Nat /\ neg(q) \in Lit /\ var(q) \in Var /\ var(neg(q)) = var(q) /\ neg(q) \in Nat
      /\ neg(neg(q)) = q
  <2>1. q \in Lit
    BY <1>4, <1>5
  <2> QED
    BY <1>1, <2>1, Literals, LitFacts
<1>7. PICK m \in 1 .. k - 1 : trail[m] = neg(q)
  BY <1>3, <1>5 DEF Implies, lits
<1>8. Len(trail) \in Nat /\ DOMAIN trail = 1 .. Len(trail)
  BY <1>2, TableFacts
<1>9. m \in DOMAIN trail /\ m <= k
  BY <1>7, <1>8
<1>10. level(var(trail[m])) <= level(var(trail[k]))
  BY <1>2, <1>9, LevelsGrow DEF level
<1>11. value(q) = l_False
  <2>1. assigns[var(q)] = sign(neg(q)) /\ assigns[var(q)] \in 0 .. 2
    BY <1>1, <1>6, <1>7, <1>9 DEF Trail, TrailIn, AssignmentType
  <2>2. value(neg(q)) = l_True
    BY <1>6, <2>1, ValueIs
  <2> QED
    BY <1>6, <2>1, <2>2, ValueNeg
<1> QED
  BY <1>3, <1>4, <1>5, <1>6, <1>7, <1>10, <1>11

LEMMA WatcherReason ==
  ASSUME Structure, NEW p, NEW a, NEW i, NEW l, NEW s, NEW w, NEW cr, NEW d, NEW c,
         AtWatcher(p, a, i, l, s, w, cr, d, c), NEW k \in DOMAIN trail, reason(var(trail[k])) = cr
  PROVE  c = d /\ NewWatch(c) = {}
<1>1. cr # CRef_Undef /\ d \in Seq(Lit) /\ Len(d) >= 2
  BY WatcherClause
<1>2. value(a) = l_False
  BY WatcherList
<1>3. d = lits(cr) /\ c = Swapped(d, a)
  BY DEF AtWatcher
<1>4. value(d[1]) = l_True
  BY <1>1, <1>3, ReasonLocked
<1>5. c = d
  BY <1>2, <1>3, <1>4, TruthValues DEF Swapped
<1>6. \A j \in 2 .. Len(d) : value(d[j]) = l_False
  BY <1>1, <1>3, ReasonFalse
<1> QED
  BY <1>1, <1>5, <1>6 DEF NewWatch

(***************************************************************************)
(* The lists when the watcher stays, with blocker e.blocker: the clause    *)
(* has either order.                                                       *)
(***************************************************************************)
LEMMA ListKept ==
  ASSUME Structure, NEW p, NEW a, NEW i, NEW l, NEW s, NEW w, NEW cr, NEW d, NEW c,
         AtWatcher(p, a, i, l, s, w, cr, d, c),
         NEW e \in WatcherSet, e.cref = cr, Has(d, e.blocker), NEW r, NEW j, KeptOn(s, l, i, e, r, j),
         NEW B, DOMAIN B = DOMAIN ca, B[cr].lits \in {c, d},
         \A x \in DOMAIN ca : B[x].mark = ca[x].mark /\ (x # cr => B[x] = ca[x]),
         NEW v, v.p = p, v.i = j, v.kept = r, NEW X, X = ListsOf(Lit, watches, v)
  PROVE  /\ r \in Seq(WatcherSet) /\ j \in Nat /\ j > 0 /\ j <= Len(l) + 1
         /\ X \in [Lit -> Seq(WatcherSet)] /\ WatchesIn(X, B, Live, {})
<1>1. /\ p \in Lit /\ l \in Seq(WatcherSet) /\ s \in Seq(WatcherSet) /\ i \in Nat /\ i \in 1 .. Len(l)
      /\ Lists \in [Lit -> Seq(WatcherSet)] /\ Lists[p] = Rest(s, l, i) /\ dirty = {} /\ a \in Nat /\ neg(a) = p
      /\ \A q \in Lit : q # p => Lists[q] = watches[q]
  BY WatcherList
<1>2. VarsType /\ DatabaseType /\ Watches /\ l = watches[p] /\ c = Swapped(d, a)
  BY DEF Structure, TypeOK, AtWatcher
<1>3. watches \in [Lit -> Seq(WatcherSet)] /\ WatchesIn(Lists, ca, Live, {}) /\ DOMAIN Lists = Lit
  BY <1>1, <1>2 DEF DatabaseType, Watches
<1>4. /\ cr \in Live /\ cr \in DOMAIN ca /\ d = ca[cr].lits /\ d \in Seq(Nat) /\ Len(d) >= 2 /\ Distinct(d)
      /\ Wants(d, p)
  BY WatcherClause
<1>5. (\A q : Has(d, q) <=> Has(c, q)) /\ (\A q : Wants(d, q) <=> Wants(c, q))
  <2>1. Wants(d, neg(a))
    BY <1>1, <1>4
  <2>2. \A q : Has(d, q) <=> Has(c, q)
    BY <1>1, <1>2, <1>4, <2>1, SwappedIs
  <2>3. \A q : Wants(d, q) <=> Wants(c, q)
    BY <1>1, <1>2, <1>4, <2>1, SwappedIs
  <2> QED
    BY <2>2, <2>3
<1>6. r \in Seq(WatcherSet) /\ j \in 1 .. Len(l) + 1 /\ Rest(r, l, j) = Rest(Append(s, e), l, i + 1)
  BY <1>1, RestKept
<1>7. Len(l) \in Nat /\ j \in Nat /\ j > 0 /\ j <= Len(l) + 1
  BY <1>1, <1>6
<1>8. v.p \in Lit /\ v.i \in 1 .. Len(watches[v.p]) + 1 /\ v.kept \in Seq(WatcherSet)
  BY <1>1, <1>2, <1>6
<1>9. X \in [Lit -> Seq(WatcherSet)]
  BY <1>3, <1>8, ListsRest
<1>10. PICK x : x = Lists[p]
  OBVIOUS
<1>11. PICK y : y = X[p]
  OBVIOUS
<1>12. y = Rest(Append(s, e), l, i + 1) /\ \A q \in Lit : q # p => X[q] = Lists[q]
  BY <1>1, <1>2, <1>6, <1>11 DEF ListsOf, Rest
<1>13. PICK n \in Nat : n = Len(s) + 1
  BY <1>1
<1>14. /\ DOMAIN y = DOMAIN x /\ n \in DOMAIN x /\ x[n] = l[i] /\ y[n] = e
       /\ \A k \in DOMAIN x : k # n => y[k] = x[k]
  BY <1>1, <1>10, <1>12, <1>13, RestChanged
<1>15. l[i].cref = cr
  BY DEF AtWatcher
<1>16. ASSUME NEW q \in Lit
       PROVE  /\ DOMAIN X[q] = DOMAIN Lists[q]
              /\ \A k \in DOMAIN Lists[q] : /\ X[q][k].cref = Lists[q][k].cref
                                            /\ Has(ca[X[q][k].cref].lits, X[q][k].blocker)
  <2>1. \A k \in DOMAIN Lists[q] : Good(Lists[q][k], q, ca, Live, {})
    BY <1>3, WatchesSplit
  <2>2. \A k \in DOMAIN Lists[q] : Has(ca[Lists[q][k].cref].lits, Lists[q][k].blocker)
    BY <2>1 DEF Good
  <2>3. CASE q # p
    BY <1>12, <2>2, <2>3
  <2>4. CASE q = p
    BY <1>4, <1>10, <1>11, <1>14, <1>15, <2>2, <2>4
  <2> QED
    BY <2>3, <2>4
<1>17. ASSUME NEW z \in DOMAIN ca
       PROVE  /\ B[z].mark = ca[z].mark
              /\ \A q : Has(ca[z].lits, q) <=> Has(B[z].lits, q)
              /\ \A q : Wants(ca[z].lits, q) <=> Wants(B[z].lits, q)
  BY <1>4, <1>5
<1>18. Live \subseteq DOMAIN ca
  BY <1>2 DEF DatabaseType, Live
<1>19. DOMAIN X = DOMAIN Lists
  BY <1>3, <1>9
<1>20. WatchesIn(X, B, Live, {})
  <2>1. Relists(Lists, ca, X)
    BY <1>3, <1>16, <1>19 DEF Relists
  <2>2. Reorders(ca, Live, B)
    BY <1>17, <1>18 DEF Reorders
  <2> QED
    BY <1>3, <2>1, <2>2, WatchesSame
<1> QED
  BY <1>6, <1>7, <1>9, <1>20

(***************************************************************************)
(* The clause with the false literal second.                               *)
(***************************************************************************)
LEMMA WatcherSwaps ==
  ASSUME Structure, NEW p, NEW a, NEW i, NEW l, NEW s, NEW w, NEW cr, NEW d, NEW c,
         AtWatcher(p, a, i, l, s, w, cr, d, c)
  PROVE  /\ c \in Seq(Lit) /\ c \in Seq(Nat) /\ Len(c) = Len(d) /\ Len(c) >= 2 /\ Distinct(c)
         /\ c[2] = a /\ var(c[1]) # var(a) /\ c[1] \in Lit /\ c[1] \in Nat /\ var(c[1]) \in Var
         /\ (\A q : Has(d, q) <=> Has(c, q)) /\ (\A q : Wants(d, q) <=> Wants(c, q))
<1>1. d \in Seq(Lit) /\ d \in Seq(Nat) /\ Len(d) >= 2 /\ Distinct(d) /\ Wants(d, p)
  BY WatcherClause
<1>2. a \in Nat /\ neg(a) = p /\ c = Swapped(d, a) /\ VarsType
  BY WatcherList DEF AtWatcher, Structure, TypeOK
<1>3. Wants(d, neg(a))
  BY <1>1, <1>2
<1>4. c \in Seq(Nat) /\ Len(c) = Len(d) /\ Distinct(c)
  BY <1>1, <1>2, <1>3, SwappedIs
<1>5. c[2] = a /\ var(c[1]) # var(a)
  BY <1>1, <1>2, <1>3, SwappedIs
<1>6. \A q : Has(d, q) <=> Has(c, q)
  BY <1>1, <1>2, <1>3, SwappedIs
<1>7. \A q : Wants(d, q) <=> Wants(c, q)
  BY <1>1, <1>2, <1>3, SwappedIs
<1>8. c \in Seq(Lit)
  <2>1. \A T : d \in Seq(T) => c \in Seq(T)
    BY <1>1, <1>2, <1>3, SwappedIs
  <2> QED
    BY <1>1, <2>1
<1>9. c[1] \in Lit
  <2>1. Len(c) \in Nat /\ Len(c) >= 2
    BY <1>1, <1>4
  <2> QED
    BY <1>8, <2>1
<1>10. c[1] \in Nat /\ var(c[1]) \in Var
  BY <1>2, <1>9, Literals
<1> QED
  BY <1>1, <1>4, <1>5, <1>6, <1>7, <1>8, <1>9, <1>10

(***************************************************************************)
(* The watcher stays and the assignment is the same.                       *)
(***************************************************************************)
LEMMA WatcherStays ==
  ASSUME Structure, watcher, NEW p, NEW a, NEW i, NEW l, NEW s, NEW w, NEW cr, NEW d, NEW c,
         AtWatcher(p, a, i, l, s, w, cr, d, c),
         NEW e \in WatcherSet, e.cref = cr, Has(d, e.blocker), NEW r, NEW j, KeptOn(s, l, i, e, r, j),
         ws' = [ws EXCEPT !.i = j, !.kept = r], watches' = watches,
         assigns' = assigns, vardata' = vardata, trail' = trail, ca' = ca \/ ca' = Rewritten(ca, cr, c),
         \/ qhead' = qhead /\ confl' = confl
         \/ /\ qhead' = nAssigns /\ confl' = cr /\ j = Len(l) + 1 /\ value(c[1]) = l_False /\ NewWatch(c) = {}
            /\ ca' = Rewritten(ca, cr, c)
  PROVE  Structure'
<1>1. /\ VarsType /\ AssignmentType /\ DatabaseType /\ ScratchType /\ Control /\ Working /\ Trail
      /\ Clauses /\ Conflict /\ Reasoned /\ Watches
  BY DEF Structure, TypeOK
<1>2. /\ pc = "watches" /\ pc' = pc /\ stack' = stack /\ ok' = ok /\ dirty' = dirty /\ clauses' = clauses
      /\ learnts' = learnts /\ trail_lim' = trail_lim /\ order_heap' = order_heap /\ polarity' = polarity
      /\ UNCHANGED scratch
  BY DEF watcher
<1>3. VarsType' /\ Var' = Var /\ Lit' = Lit
  BY <1>1, SameVars
<1>4. /\ p \in Lit /\ p = ws.p /\ l \in Seq(WatcherSet) /\ i \in Nat /\ i \in 1 .. Len(l) /\ confl = CRef_Undef
      /\ dirty = {} /\ value(a) = l_False /\ var(a) = var(p) /\ level(var(p)) = decisionLevel /\ l = watches[p]
  BY WatcherList DEF AtWatcher
<1>5. /\ cr \in Live /\ cr \in DOMAIN ca /\ d = ca[cr].lits /\ d \in Seq(Lit) /\ Len(d) >= 2 /\ Distinct(d)
      /\ cr # CRef_Undef /\ d = lits(cr)
  BY WatcherClause DEF lits
<1>6. c \in Seq(Lit) /\ Len(c) >= 2 /\ Distinct(c) /\ c[2] = a
  BY WatcherSwaps
<1>7. /\ ca' \in Seq(ClauseSet) /\ DOMAIN ca' = DOMAIN ca /\ ca'[cr].lits \in {c, d}
      /\ (ca' = Rewritten(ca, cr, c) => ca'[cr].lits = c)
      /\ \A x \in DOMAIN ca : ca'[x].mark = ca[x].mark /\ (x # cr => ca'[x] = ca[x])
      /\ ClausesIn(ca', Live) /\ ReasonedIn(ca', Live, vardata, trail, trail_lim)
  <2>1. CASE ca' = Rewritten(ca, cr, c)
    <3>1. \A k \in DOMAIN trail : reason(var(trail[k])) = cr => c = lits(cr)
      BY <1>5, WatcherReason
    <3>2. PICK B : B = Rewritten(ca, cr, c)
      OBVIOUS
    <3>3. /\ B \in Seq(ClauseSet) /\ DOMAIN B = DOMAIN ca /\ B[cr].lits = c
          /\ \A x \in DOMAIN ca : B[x].mark = ca[x].mark /\ (x # cr => B[x] = ca[x])
      BY <1>1, <1>5, <1>6, <3>1, <3>2, RewrittenClause
    <3>4. ClausesIn(B, Live) /\ ReasonedIn(B, Live, vardata, trail, trail_lim)
      BY <1>1, <1>5, <1>6, <3>1, <3>2, RewrittenClause
    <3> QED
      BY <2>1, <3>2, <3>3, <3>4
  <2>2. CASE ca' = ca /\ ca' # Rewritten(ca, cr, c)
    BY <1>1, <1>5, <2>2 DEF DatabaseType, Clauses, Reasoned
  <2> QED
    BY <2>1, <2>2
<1>8. PICK v : v = ws'
  OBVIOUS
<1>9. v.p = p /\ v.i = j /\ v.kept = r
  BY <1>1, <1>4, <1>8 DEF ScratchType, ListSet
<1>10. PICK X : X = ListsOf(Lit, watches, v)
  OBVIOUS
<1>11. PICK B : B = ca'
  OBVIOUS
<1>12. /\ DOMAIN B = DOMAIN ca /\ B[cr].lits \in {c, d}
       /\ \A x \in DOMAIN ca : B[x].mark = ca[x].mark /\ (x # cr => B[x] = ca[x])
  BY <1>7, <1>11
<1>13. r \in Seq(WatcherSet) /\ j \in Nat /\ j > 0
  BY <1>9, <1>10, <1>12, ListKept
<1>14. WatchesIn(X, B, Live, {})
  BY <1>9, <1>10, <1>12, ListKept
<1>15. Lists' = X
  BY <1>3, <1>8, <1>10 DEF Lists
<1>16. Live' = Live
  BY <1>2 DEF Live
<1>17. Watches'
  BY <1>2, <1>4, <1>11, <1>14, <1>15, <1>16 DEF Watches
<1>18. Clauses' /\ Reasoned' /\ Trail'
  BY <1>1, <1>2, <1>7, <1>16, SameTrail DEF Clauses, Reasoned
<1>19. ws' \in ListSet /\ ws'.p = ws.p /\ ws'.i > 0 /\ ws'.i = j
  <2>1. ws \in ListSet
    BY <1>1 DEF ScratchType
  <2> QED
    BY <1>4, <1>8, <1>9, <1>13, <2>1 DEF ListSet
<1>20. qhead \in Nat /\ nAssigns \in Nat /\ qhead <= nAssigns /\ nAssigns' = nAssigns /\ qhead' \in Nat
  BY <1>1 DEF AssignmentType, Control, nAssigns
<1>21. AssignmentType'
  BY <1>1, <1>2, <1>20, SameAssignment DEF assignment
<1>22. DatabaseType'
  BY <1>1, <1>2, <1>3, <1>7, SameTypes DEF DatabaseType
<1>23. CASE qhead' = qhead /\ confl' = confl
  <2>1. Conflict' /\ confl' = CRef_Undef /\ confl' \in Nat
    BY <1>4, <1>23 DEF Conflict, CRef_Undef
  <2> QED
    BY <1>2, <1>3, <1>17, <1>18, <1>19, <1>20, <1>21, <1>22, <1>23, <2>1, WatcherEnds
<1>24. CASE /\ qhead' = nAssigns /\ confl' = cr /\ j = Len(l) + 1 /\ value(c[1]) = l_False /\ NewWatch(c) = {}
            /\ ca' = Rewritten(ca, cr, c)
  <2>1. lits(cr)' = c
    BY <1>7, <1>24 DEF lits
  <2>2. \A k \in DOMAIN c : value(c[k]) = l_False
    <3> SUFFICES ASSUME NEW k \in DOMAIN c PROVE value(c[k]) = l_False
      OBVIOUS
    <3>1. Len(c) \in Nat /\ k \in 1 .. Len(c)
      BY <1>6
    <3>2. k = 1 \/ k = 2 \/ k \in 3 .. Len(c)
      BY <3>1
    <3> QED
      BY <1>4, <1>6, <1>24, <3>2 DEF NewWatch
  <2>3. Conflicting(cr)'
    <3>1. 2 \in DOMAIN c
      BY <1>6
    <3>2. level(var(c[2])) = decisionLevel
      BY <1>4, <1>6
    <3> QED
      BY <1>2, <1>5, <1>16, <2>1, <2>2, <3>1, <3>2 DEF Conflicting, value, level, decisionLevel
  <2>4. Conflict'
    BY <1>24, <2>3 DEF Conflict
  <2>5. confl' \in Nat
    BY <1>1, <1>5, <1>24 DEF DatabaseType
  <2>6. ws'.i > Len(watches'[ws.p])
    <3>1. Len(l) \in Nat
      BY <1>4
    <3> QED
      BY <1>4, <1>19, <1>24, <3>1
  <2> QED
    BY <1>2, <1>3, <1>17, <1>18, <1>19, <1>20, <1>21, <1>22, <1>24, <2>4, <2>5, <2>6, WatcherEnds
<1> QED
  BY <1>23, <1>24

(***************************************************************************)
(* The clause implies its first literal.                                   *)
(***************************************************************************)
LEMMA WatcherImplies ==
  ASSUME Structure, watcher, NEW p, NEW a, NEW i, NEW l, NEW s, NEW w, NEW cr, NEW d, NEW c,
         AtWatcher(p, a, i, l, s, w, cr, d, c),
         NEW e \in WatcherSet, e.cref = cr, Has(d, e.blocker), NEW r, NEW j, KeptOn(s, l, i, e, r, j),
         ws' = [ws EXCEPT !.i = j, !.kept = r], watches' = watches, ca' = Rewritten(ca, cr, c),
         value(c[1]) = l_Undef, NewWatch(c) = {}, qhead' = qhead, confl' = confl,
         uncheckedEnqueue(c[1], cr, decisionLevel, assigns, vardata, trail)
  PROVE  Structure'
<1>1. /\ VarsType /\ AssignmentType /\ DatabaseType /\ ScratchType /\ Control /\ Working /\ Trail
      /\ Clauses /\ Conflict /\ Reasoned /\ Watches
  BY DEF Structure, TypeOK
<1>2. /\ pc = "watches" /\ pc' = pc /\ stack' = stack /\ ok' = ok /\ dirty' = dirty /\ clauses' = clauses
      /\ learnts' = learnts /\ trail_lim' = trail_lim /\ order_heap' = order_heap /\ polarity' = polarity
      /\ UNCHANGED scratch
  BY DEF watcher
<1>4. /\ p \in Lit /\ p = ws.p /\ l \in Seq(WatcherSet) /\ i \in Nat /\ i \in 1 .. Len(l) /\ confl = CRef_Undef
      /\ dirty = {} /\ value(a) = l_False /\ var(a) = var(p) /\ level(var(p)) = decisionLevel /\ l = watches[p]
      /\ value(p) = l_True /\ var(p) \in Var /\ p \in Nat
  BY WatcherList DEF AtWatcher
<1>5. /\ cr \in Live /\ cr \in DOMAIN ca /\ d = ca[cr].lits /\ d \in Seq(Lit) /\ Len(d) >= 2 /\ Distinct(d)
      /\ cr # CRef_Undef /\ d = lits(cr)
  BY WatcherClause DEF lits
<1>6. c \in Seq(Lit) /\ Len(c) >= 2 /\ Distinct(c) /\ c[2] = a /\ c[1] \in Lit /\ c[1] \in Nat /\ var(c[1]) \in Var
      /\ var(c[1]) # var(a)
  BY WatcherSwaps
<1>7. PICK B : B = Rewritten(ca, cr, c)
  OBVIOUS
<1>8. \A k \in DOMAIN trail : reason(var(trail[k])) = cr => c = lits(cr)
  BY <1>5, WatcherReason
<1>9. /\ B \in Seq(ClauseSet) /\ DOMAIN B = DOMAIN ca /\ B[cr].lits = c
      /\ \A x \in DOMAIN ca : B[x].mark = ca[x].mark /\ (x # cr => B[x] = ca[x])
  BY <1>1, <1>5, <1>6, <1>7, <1>8, RewrittenClause
<1>10. ClausesIn(B, Live) /\ ReasonedIn(B, Live, vardata, trail, trail_lim)
  BY <1>1, <1>5, <1>6, <1>7, <1>8, RewrittenClause
<1>11. Tables(Var, Lit, assigns, vardata, trail, trail_lim) /\ TrailIn(assigns, vardata, trail, trail_lim)
  BY <1>1, Assigned DEF Trail
<1>12. PICK q \in Lit : q = c[1]
  BY <1>6
<1>13. q \in Nat /\ var(q) \in Var /\ assigns[var(q)] = l_Undef
  <2>1. assigns[var(q)] \in 0 .. 2 /\ value(q) = l_Undef
    BY <1>1, <1>6, <1>12 DEF AssignmentType
  <2> QED
    BY <1>6, <1>12, <2>1, ValueIs
<1>14. cr \in Nat /\ decisionLevel \in Nat
  BY <1>1, <1>5 DEF DatabaseType, decisionLevel, AssignmentType
<1>15. PICK g : g = Enqueued(q, cr, Len(trail_lim), assigns, vardata, trail)
  OBVIOUS
<1>16. assigns' = g.assigns /\ vardata' = g.vardata /\ trail' = g.trail
  BY <1>12, <1>15 DEF uncheckedEnqueue, decisionLevel
<1>17. \A k \in 2 .. Len(c) : \E m \in DOMAIN trail : trail[m] = neg(c[k])
  <2> SUFFICES ASSUME NEW k \in 2 .. Len(c) PROVE \E m \in DOMAIN trail : trail[m] = neg(c[k])
    OBVIOUS
  <2>1. Len(c) \in Nat /\ k \in DOMAIN c /\ (k = 2 \/ k \in 3 .. Len(c))
    BY <1>6
  <2>2. value(c[k]) = l_False
    BY <1>4, <1>6, <2>1 DEF NewWatch
  <2>3. PICK y \in Lit : y = c[k]
    BY <1>6, <2>1
  <2>4. y \in Nat /\ var(y) \in Var
    BY <1>1, <2>3, Literals
  <2>5. assigns[var(y)] = 1 - sign(y)
    <3>1. assigns[var(y)] \in 0 .. 2
      BY <1>1, <2>4 DEF AssignmentType
    <3> QED
      BY <2>2, <2>3, <2>4, <3>1, ValueIs
  <2> QED
    BY <1>11, <2>3, <2>5, OnTrail
<1>18. Tables(Var, Lit, g.assigns, g.vardata, g.trail, trail_lim) /\ TrailIn(g.assigns, g.vardata, g.trail, trail_lim)
  BY <1>11, <1>12, <1>13, <1>14, <1>15, TrailEnqueue
<1>19. ReasonedIn(B, Live, g.vardata, g.trail, trail_lim)
  <2>1. PICK M : M = trail_lim
    OBVIOUS
  <2>2. \/ M = trail_lim /\ cr = CRef_Undef /\ Len(trail_lim) = 0
        \/ M = trail_lim /\ cr \in Live /\ cr # CRef_Undef /\ B[cr].lits[1] = q
           /\ \A y \in 2 .. Len(B[cr].lits) : \E m \in DOMAIN trail : trail[m] = neg(B[cr].lits[y])
        \/ M = Append(trail_lim, Len(trail)) /\ cr = CRef_Undef
    BY <1>5, <1>9, <1>12, <1>17, <2>1
  <2>3. g = Enqueued(q, cr, Len(M), assigns, vardata, trail)
    BY <1>15, <2>1
  <2>4. ReasonedIn(B, Live, g.vardata, g.trail, M)
    BY <1>10, <1>11, <1>13, <1>14, <2>2, <2>3, ReasonedEnqueue
  <2> QED
    BY <2>1, <2>4
<1>20. /\ Len(g.trail) = Len(trail) + 1 /\ (\A k \in 1 .. Len(trail) : g.trail[k] = trail[k])
       /\ \A v \in Var : v # var(q) => g.vardata[v] = vardata[v]
  <2>1. Len(trail_lim) \in Nat
    BY <1>14 DEF decisionLevel
  <2> QED
    BY <1>11, <1>12, <1>14, <1>15, <2>1, EnqueuedIs
<1>21. DOMAIN assigns' = DOMAIN assigns
  BY <1>11, <1>16, <1>18 DEF Tables
<1>22. VarsType' /\ Var' = Var /\ Lit' = Lit
  BY <1>1, <1>21, SameVars
<1>23. qhead \in Nat /\ Len(trail) \in Nat /\ nAssigns = Len(trail) /\ qhead <= Len(trail)
       /\ nAssigns' = Len(trail) + 1 /\ Len(trail) + 1 \in Nat
  BY <1>1, <1>16, <1>20 DEF AssignmentType, Control, nAssigns
<1>24. AssignmentType'
  BY <1>1, <1>2, <1>16, <1>18, <1>22, <1>23 DEF Tables, DataSet, AssignmentType
<1>25. Live' = Live
  BY <1>2 DEF Live
<1>26. Trail' /\ Reasoned' /\ Clauses'
  BY <1>2, <1>7, <1>10, <1>16, <1>18, <1>19, <1>25 DEF Trail, Reasoned, Clauses
<1>27. DatabaseType'
  BY <1>1, <1>2, <1>7, <1>9, <1>22, SameTypes DEF DatabaseType
<1>28. PICK v : v = ws'
  OBVIOUS
<1>29. v.p = p /\ v.i = j /\ v.kept = r
  BY <1>1, <1>4, <1>28 DEF ScratchType, ListSet
<1>30. PICK X : X = ListsOf(Lit, watches, v)
  OBVIOUS
<1>31. B[cr].lits \in {c, d}
  BY <1>9
<1>32. r \in Seq(WatcherSet) /\ j \in Nat /\ j > 0
  BY <1>9, <1>29, <1>30, <1>31, ListKept
<1>33. WatchesIn(X, B, Live, {})
  BY <1>9, <1>29, <1>30, <1>31, ListKept
<1>34. Lists' = X
  BY <1>22, <1>28, <1>30 DEF Lists
<1>35. Watches'
  BY <1>2, <1>4, <1>7, <1>25, <1>33, <1>34 DEF Watches
<1>36. ws' \in ListSet /\ ws'.p = ws.p /\ ws'.i > 0 /\ ws'.i = j
  <2>1. ws \in ListSet
    BY <1>1 DEF ScratchType
  <2> QED
    BY <1>4, <1>28, <1>29, <1>32, <2>1 DEF ListSet
<1>37. Conflict' /\ confl' = CRef_Undef /\ confl' \in Nat
  BY <1>4 DEF Conflict, CRef_Undef
<1>38. \A k \in 1 .. qhead : trail'[k] = trail[k]
  BY <1>16, <1>20, <1>23
<1>39. vardata'[var(ws.p)] = vardata[var(ws.p)]
  BY <1>4, <1>6, <1>12, <1>16, <1>20
<1>40. qhead <= qhead' /\ qhead' <= nAssigns'
  BY <1>23
<1> QED
  BY <1>2, <1>22, <1>24, <1>26, <1>27, <1>35, <1>36, <1>37, <1>38, <1>39, <1>40, WatcherEnds

(***************************************************************************)
(* The clause is watched from another literal: the watcher moves to its    *)
(* list.                                                                   *)
(***************************************************************************)
LEMMA MovedIs ==
  ASSUME Structure, NEW p, NEW a, NEW i, NEW l, NEW s, NEW w, NEW cr, NEW d, NEW c,
         AtWatcher(p, a, i, l, s, w, cr, d, c), NEW k \in DOMAIN c, k > 2, value(c[k]) # l_False,
         NEW m, m = Exchanged(c, 2, k), NEW q, q = neg(m[2]), NEW B, B = Rewritten(ca, cr, m)
  PROVE  /\ m \in Seq(Lit) /\ Len(m) >= 2 /\ Distinct(m) /\ q \in Lit /\ q # p
         /\ (B[cr].lits = m /\ DOMAIN B = DOMAIN ca
             /\ (\A x \in DOMAIN ca : B[x].mark = ca[x].mark /\ (x # cr => B[x] = ca[x]))
             => Rewatches(ca, Live, B, cr, p, q))
<1>1. /\ d \in Seq(Lit) /\ d \in Seq(Nat) /\ Len(d) >= 2 /\ Distinct(d) /\ Wants(d, p) /\ d = ca[cr].lits
      /\ cr \in DOMAIN ca /\ cr \in Live
  BY WatcherClause
<1>2. /\ c \in Seq(Lit) /\ c \in Seq(Nat) /\ Len(c) = Len(d) /\ Len(c) >= 2 /\ Distinct(c)
      /\ c[2] = a /\ var(c[1]) # var(a) /\ c[1] \in Lit /\ c[1] \in Nat
  BY WatcherSwaps
<1>3. (\A y : Has(d, y) <=> Has(c, y)) /\ (\A y : Wants(d, y) <=> Wants(c, y))
  BY WatcherSwaps
<1>4. a \in Nat /\ neg(a) = p /\ value(p) = l_True /\ p \in Nat /\ var(a) = var(p) /\ value(a) = l_False
  BY WatcherList
<1>5. VarsType /\ AssignmentType /\ DatabaseType
  BY DEF Structure, TypeOK
<1>6. Len(c) \in Nat /\ DOMAIN c = 1 .. Len(c) /\ 1 \in DOMAIN c /\ 2 \in DOMAIN c
  BY <1>2
<1>7. m \in Seq(Lit) /\ Len(m) = Len(c) /\ DOMAIN m = DOMAIN c
  <2>1. c \in Seq(Lit) /\ 2 \in DOMAIN c
    BY <1>2, <1>6
  <2> QED
    BY <2>1, ExchangedIs
<1>8. m[2] = c[k] /\ m[k] = c[2] /\ \A y \in DOMAIN c : y # 2 /\ y # k => m[y] = c[y]
  BY <1>6 DEF Exchanged
<1>9. Distinct(m)
  <2>1. c \in Seq(Lit) /\ 2 \in DOMAIN c
    BY <1>2, <1>6
  <2>2. Distinct(c) => Distinct(m)
    BY <2>1, ExchangedIs
  <2> QED
    BY <1>2, <2>2
<1>10. (\A y \in DOMAIN m : \E z \in DOMAIN c : m[y] = c[z]) /\ (\A y \in DOMAIN c : \E z \in DOMAIN m : m[z] = c[y])
  BY <1>6, <1>7, <1>8
<1>11. m[1] = c[1]
  BY <1>6, <1>8
<1>12. /\ c[k] \in Lit /\ c[k] \in Nat /\ q \in Lit /\ q \in Nat /\ neg(q) = c[k] /\ var(q) = var(c[k])
  <2>1. c[k] \in Lit
    BY <1>2
  <2> QED
    BY <1>5, <1>8, <2>1, Literals, LitFacts
<1>13. q # p
  <2>1. assigns[var(c[k])] \in 0 .. 2
    BY <1>5, <1>12, Literals DEF AssignmentType
  <2>2. ASSUME q = p PROVE FALSE
    <3>1. value(neg(c[k])) = l_True
      BY <1>4, <1>8, <2>2
    <3> QED
      BY <1>12, <2>1, <3>1, ValueNeg
  <2> QED
    BY <2>2
<1>14. \A y : Has(c, y) <=> Has(m, y)
  BY <1>10 DEF Has
<1>15. var(c[k]) # var(c[1]) /\ var(c[k]) # var(c[2])
  BY <1>2, <1>6 DEF Distinct
<1>16. var(neg(c[1])) = var(c[1]) /\ var(neg(c[2])) = var(c[2])
  BY <1>2, <1>4, LitFacts
<1>17. ~Wants(c, q) /\ Wants(m, q) /\ ~Wants(m, p)
  <2>1. ~Wants(c, q)
    BY <1>12, <1>15, <1>16 DEF Wants
  <2>2. Wants(m, q)
    BY DEF Wants
  <2>3. p # neg(m[1])
    BY <1>2, <1>4, <1>11, <1>16
  <2> QED
    BY <1>13, <2>1, <2>2, <2>3 DEF Wants
<1>18. \A y : y # p /\ y # q => (Wants(c, y) <=> Wants(m, y))
  BY <1>2, <1>4, <1>11 DEF Wants
<1>19. ASSUME B[cr].lits = m, DOMAIN B = DOMAIN ca,
              \A x \in DOMAIN ca : B[x].mark = ca[x].mark /\ (x # cr => B[x] = ca[x])
       PROVE  Rewatches(ca, Live, B, cr, p, q)
  <2>1. ASSUME NEW x \in DOMAIN ca PROVE B[x].mark = ca[x].mark /\ \A y : Has(ca[x].lits, y) <=> Has(B[x].lits, y)
    BY <1>1, <1>3, <1>14, <1>19
  <2>2. \A x \in Live : x # cr => \A y : Wants(ca[x].lits, y) <=> Wants(B[x].lits, y)
    BY <1>5, <1>19 DEF DatabaseType, Live
  <2>3. ~Wants(ca[cr].lits, q) /\ Wants(B[cr].lits, q) /\ ~Wants(B[cr].lits, p)
    BY <1>1, <1>3, <1>17, <1>19
  <2>4. \A y : y # p /\ y # q => (Wants(ca[cr].lits, y) <=> Wants(B[cr].lits, y))
    BY <1>1, <1>3, <1>18, <1>19
  <2> QED
    BY <1>19, <2>1, <2>2, <2>3, <2>4 DEF Rewatches
<1> QED
  BY <1>2, <1>7, <1>9, <1>12, <1>13, <1>19

LEMMA WatcherMoves ==
  ASSUME Structure, watcher, NEW p, NEW a, NEW i, NEW l, NEW s, NEW w, NEW cr, NEW d, NEW c,
         AtWatcher(p, a, i, l, s, w, cr, d, c), NEW k \in DOMAIN c, k > 2, value(c[k]) # l_False,
         NEW m, m = Exchanged(c, 2, k), NEW q, q = neg(m[2]), ca' = Rewritten(ca, cr, m),
         NEW e \in WatcherSet, e.cref = cr, Has(d, e.blocker), watches' = [watches EXCEPT ![q] = Append(@, e)],
         ws' = [ws EXCEPT !.i = i + 1],
         assigns' = assigns, vardata' = vardata, trail' = trail, qhead' = qhead, confl' = confl
  PROVE  Structure'
<1>1. /\ VarsType /\ AssignmentType /\ DatabaseType /\ ScratchType /\ Control /\ Working /\ Trail
      /\ Clauses /\ Conflict /\ Reasoned /\ Watches
  BY DEF Structure, TypeOK
<1>2. /\ pc = "watches" /\ pc' = pc /\ stack' = stack /\ ok' = ok /\ dirty' = dirty /\ clauses' = clauses
      /\ learnts' = learnts /\ trail_lim' = trail_lim /\ order_heap' = order_heap /\ polarity' = polarity
      /\ UNCHANGED scratch
  BY DEF watcher
<1>3. VarsType' /\ Var' = Var /\ Lit' = Lit
  BY <1>1, SameVars
<1>4. /\ p \in Lit /\ p = ws.p /\ l \in Seq(WatcherSet) /\ s \in Seq(WatcherSet) /\ i \in Nat /\ i \in 1 .. Len(l)
      /\ confl = CRef_Undef /\ dirty = {} /\ l = watches[p] /\ s = ws.kept /\ i = ws.i
  <2>1. p = ws.p /\ l = watches[p] /\ s = ws.kept /\ i = ws.i
    BY DEF AtWatcher
  <2>2. /\ p \in Lit /\ l \in Seq(WatcherSet) /\ s \in Seq(WatcherSet) /\ i \in Nat /\ i \in 1 .. Len(l)
        /\ confl = CRef_Undef /\ dirty = {}
    BY WatcherList
  <2> QED
    BY <2>1, <2>2
<1>5. Lists \in [Lit -> Seq(WatcherSet)] /\ Lists[p] = Rest(s, l, i) /\ \A y \in Lit : y # p => Lists[y] = watches[y]
  BY WatcherList
<1>6. cr \in Live /\ cr \in DOMAIN ca /\ d = ca[cr].lits /\ d = lits(cr)
  BY WatcherClause DEF lits
<1>7. PICK B : B = ca'
  OBVIOUS
<1>8. m \in Seq(Lit) /\ Len(m) >= 2 /\ Distinct(m) /\ q \in Lit /\ q # p
  BY MovedIs
<1>9. \A y \in DOMAIN trail : reason(var(trail[y])) = cr => m = lits(cr)
  <2>1. k \in 3 .. Len(c)
    BY WatcherSwaps
  <2>2. NewWatch(c) # {}
    BY <2>1 DEF NewWatch
  <2> QED
    BY <2>2, WatcherReason
<1>10. /\ B \in Seq(ClauseSet) /\ DOMAIN B = DOMAIN ca /\ B[cr].lits = m
       /\ \A x \in DOMAIN ca : B[x].mark = ca[x].mark /\ (x # cr => B[x] = ca[x])
  BY <1>1, <1>6, <1>7, <1>8, <1>9, RewrittenClause
<1>11. ClausesIn(B, Live) /\ ReasonedIn(B, Live, vardata, trail, trail_lim)
  BY <1>1, <1>6, <1>7, <1>8, <1>9, RewrittenClause
<1>12. Rewatches(ca, Live, B, cr, p, q)
  BY <1>7, <1>10, MovedIs
<1>13. watches' \in [Lit -> Seq(WatcherSet)] /\ watches'[q] = Append(watches[q], e) /\ watches'[p] = l
       /\ \A y \in Lit : y # q => watches'[y] = watches[y]
  BY <1>1, <1>4, <1>8 DEF DatabaseType
<1>14. PICK v : v = ws'
  OBVIOUS
<1>15. v \in ListSet /\ v.p = p /\ v.i = i + 1 /\ v.kept = s
  BY <1>1, <1>4, <1>14 DEF ScratchType, ListSet
<1>16. PICK V : V = watches'
  OBVIOUS
<1>17. PICK X : X = ListsOf(Lit, V, v)
  OBVIOUS
<1>18. Lists' = X
  BY <1>3, <1>14, <1>16, <1>17 DEF Lists
<1>19. X[p] = Rest(s, l, i + 1) /\ DOMAIN X = Lit /\ \A y \in Lit : y # p => X[y] = V[y]
  BY <1>4, <1>13, <1>15, <1>16, <1>17 DEF ListsOf, Rest
<1>20. PICK n \in Nat : n = Len(s) + 1
  BY <1>4
<1>21. PICK x : x = Lists[p]
  OBVIOUS
<1>22. PICK y : y = X[p]
  OBVIOUS
<1>23. /\ x \in Seq(WatcherSet) /\ y \in Seq(WatcherSet) /\ n \in DOMAIN x /\ x[n] = l[i] /\ Len(y) = Len(x) - 1
       /\ \A z \in DOMAIN y : y[z] = IF z < n THEN x[z] ELSE x[z + 1]
  <2>1. x = Rest(s, l, i) /\ y = Rest(s, l, i + 1)
    BY <1>5, <1>19, <1>21, <1>22
  <2>4. l \in Seq(WatcherSet) /\ s \in Seq(WatcherSet) /\ i \in Nat /\ i \in 1 .. Len(l)
    BY <1>4
  <2>2. x \in Seq(WatcherSet) /\ y \in Seq(WatcherSet) /\ n \in DOMAIN x /\ x[n] = l[i] /\ Len(y) = Len(x) - 1
    BY <1>20, <2>1, <2>4, RestDropped
  <2>3. \A z \in DOMAIN y : y[z] = IF z < n THEN x[z] ELSE x[z + 1]
    BY <1>20, <2>1, <2>4, RestDropped
  <2> QED
    BY <2>2, <2>3
<1>24. MovesTo(Lists, X, p, q, n, e)
  <2>1. DOMAIN X = DOMAIN Lists /\ \A r \in DOMAIN Lists : r # p /\ r # q => X[r] = Lists[r]
    BY <1>5, <1>13, <1>16, <1>19
  <2>2. Lists[q] \in Seq(WatcherSet) /\ X[q] = Append(Lists[q], e)
    BY <1>5, <1>8, <1>13, <1>16, <1>19
  <2> QED
    BY <1>21, <1>22, <1>23, <2>1, <2>2 DEF MovesTo
<1>25. WatchesIn(Lists, ca, Live, {})
  BY <1>1, <1>4 DEF Watches
<1>26. WatchesIn(X, B, Live, {})
  <2>1. l[i].cref = cr
    BY DEF AtWatcher
  <2>2. p \in DOMAIN Lists /\ q \in DOMAIN Lists /\ n \in DOMAIN Lists[p] /\ e.cref = Lists[p][n].cref
    BY <1>4, <1>5, <1>8, <1>21, <1>23, <2>1
  <2> QED
    BY <1>6, <1>8, <1>12, <1>24, <1>25, <2>2, WatchesMove
<1>27. Live' = Live
  BY <1>2 DEF Live
<1>28. Watches'
  BY <1>2, <1>4, <1>7, <1>18, <1>26, <1>27 DEF Watches
<1>29. Clauses' /\ Reasoned' /\ Trail'
  BY <1>1, <1>2, <1>7, <1>11, <1>27, SameTrail DEF Clauses, Reasoned
<1>30. qhead \in Nat /\ nAssigns \in Nat /\ qhead <= nAssigns /\ nAssigns' = nAssigns /\ qhead' \in Nat
  BY <1>1 DEF AssignmentType, Control, nAssigns
<1>31. AssignmentType'
  BY <1>1, <1>2, <1>30, SameAssignment DEF assignment
<1>32. DatabaseType'
  BY <1>1, <1>2, <1>3, <1>7, <1>10, <1>13, SameTypes DEF DatabaseType
<1>33. Conflict' /\ confl' = CRef_Undef /\ confl' \in Nat
  BY <1>4 DEF Conflict, CRef_Undef
<1>34. ws' \in ListSet /\ ws'.p = ws.p /\ ws'.i > 0
  BY <1>4, <1>14, <1>15
<1> QED
  BY <1>2, <1>3, <1>28, <1>29, <1>30, <1>31, <1>32, <1>33, <1>34, WatcherEnds

(***************************************************************************)
(* One watcher of the list propagate is at.                                *)
(***************************************************************************)
LEMMA WatcherStep == ASSUME Structure, watcher PROVE Structure'
<1>1. PICK p, a : p = ws.p /\ a = neg(p)
  OBVIOUS
<1>2. PICK i, l, s : i = ws.i /\ l = watches[p] /\ s = ws.kept
  OBVIOUS
<1>3. PICK w : w = l[i]
  OBVIOUS
<1>4. PICK cr : cr = w.cref
  OBVIOUS
<1>5. PICK d : d = lits(cr)
  OBVIOUS
<1>6. PICK c : c = Swapped(d, a)
  OBVIOUS
<1>7. pc = "watches" /\ i <= Len(l)
  BY <1>1, <1>2 DEF watcher
<1>8. AtWatcher(p, a, i, l, s, w, cr, d, c)
  BY <1>1, <1>2, <1>3, <1>4, <1>5, <1>6, <1>7 DEF AtWatcher
<1>9. w = watches[ws.p][ws.i] /\ c = Swapped(lits(w.cref), neg(ws.p))
  BY <1>1, <1>2, <1>3, <1>4, <1>5, <1>6
<1>10. \/ SkipWatcher(w)
       \/ value(w.blocker) # l_True /\ (KeepWatcher(w, c) \/ MoveWatcher(w, c) \/ UnitOrConflict(w, c))
  BY <1>9 DEF watcher
<1>11. /\ l \in Seq(WatcherSet) /\ s \in Seq(WatcherSet) /\ i \in Nat /\ i \in 1 .. Len(l) /\ w \in WatcherSet
       /\ confl = CRef_Undef /\ value(a) = l_False
  BY <1>8, WatcherList
<1>12. Has(d, w.blocker) /\ w.blocker \in Lit
  BY <1>8, WatcherClause
<1>13. c \in Seq(Lit) /\ Len(c) >= 2 /\ c[1] \in Lit /\ c[1] \in Nat /\ var(c[1]) \in Var
  BY <1>8, WatcherSwaps
<1>14. \A q : Has(d, q) <=> Has(c, q)
  BY <1>8, WatcherSwaps
<1>15. PICK e : e = [w EXCEPT !.blocker = c[1]]
  OBVIOUS
<1>16. e \in WatcherSet /\ e.cref = cr /\ Has(d, e.blocker)
  <2>1. e \in WatcherSet /\ e.cref = cr /\ e.blocker = c[1]
    BY <1>4, <1>11, <1>13, <1>15 DEF WatcherSet
  <2>2. 1 \in DOMAIN c
    BY <1>13
  <2>3. Has(c, e.blocker)
    BY <2>1, <2>2 DEF Has
  <2> QED
    BY <1>14, <2>1, <2>3
<1>17. KeptOn(s, l, i, w, Append(s, w), i + 1) /\ KeptOn(s, l, i, e, Append(s, e), i + 1)
  BY DEF KeptOn
<1>18. ScratchType /\ VarsType /\ AssignmentType
  BY DEF Structure, TypeOK
<1>19. PICK x : x = ws
  OBVIOUS
<1>20. x \in ListSet /\ x.i = i /\ x.kept = s
  BY <1>2, <1>18, <1>19 DEF ScratchType
<1>21. \A z : [x EXCEPT !.i = @ + 1, !.kept = Append(@, z)] = [x EXCEPT !.i = i + 1, !.kept = Append(s, z)]
  BY <1>20 DEF ListSet
<1>22. CASE SkipWatcher(w)
  <2>1. /\ ws' = [ws EXCEPT !.i = i + 1, !.kept = Append(s, w)] /\ watches' = watches /\ ca' = ca
        /\ assigns' = assigns /\ vardata' = vardata /\ trail' = trail /\ qhead' = qhead /\ confl' = confl
    BY <1>19, <1>21, <1>22 DEF SkipWatcher
  <2> QED
    BY <1>4, <1>8, <1>11, <1>12, <1>17, <2>1, WatcherStays
<1>23. CASE KeepWatcher(w, c)
  <2>1. /\ ws' = [ws EXCEPT !.i = i + 1, !.kept = Append(s, e)] /\ watches' = watches /\ ca' = Rewritten(ca, cr, c)
        /\ assigns' = assigns /\ vardata' = vardata /\ trail' = trail /\ qhead' = qhead /\ confl' = confl
    BY <1>4, <1>15, <1>19, <1>21, <1>23 DEF KeepWatcher, Rewritten
  <2> QED
    BY <1>8, <1>16, <1>17, <2>1, WatcherStays
<1>24. CASE MoveWatcher(w, c)
  <2>1. PICK k : k = Min(NewWatch(c))
    OBVIOUS
  <2>2. PICK m : m = Exchanged(c, 2, k)
    OBVIOUS
  <2>3. PICK q : q = neg(m[2])
    OBVIOUS
  <2>4. k \in NewWatch(c)
    <3>1. NewWatch(c) \subseteq Nat /\ NewWatch(c) # {}
      BY <1>13, <1>24 DEF NewWatch, MoveWatcher
    <3> QED
      BY <2>1, <3>1, MinIs
  <2>5. k \in DOMAIN c /\ k > 2 /\ value(c[k]) # l_False
    BY <1>13, <2>4 DEF NewWatch
  <2>6. /\ ca' = Rewritten(ca, cr, m) /\ watches' = [watches EXCEPT ![q] = Append(@, e)]
        /\ assigns' = assigns /\ vardata' = vardata /\ trail' = trail /\ qhead' = qhead /\ confl' = confl
    BY <1>4, <1>15, <1>24, <2>1, <2>2, <2>3 DEF MoveWatcher, Exchanged, Rewritten
  <2>7. ws' = [ws EXCEPT !.i = i + 1]
    <3>1. ws' = [x EXCEPT !.i = @ + 1]
      BY <1>19, <1>24 DEF MoveWatcher
    <3>2. [x EXCEPT !.i = @ + 1] = [x EXCEPT !.i = i + 1]
      BY <1>20 DEF ListSet
    <3> QED
      BY <1>19, <3>1, <3>2
  <2> QED
    BY <1>8, <1>16, <2>2, <2>3, <2>5, <2>6, <2>7, WatcherMoves
<1>25. CASE value(w.blocker) # l_True /\ UnitOrConflict(w, c)
  <2>1. /\ ~(c[1] # w.blocker /\ value(c[1]) = l_True) /\ NewWatch(c) = {} /\ ca' = Rewritten(ca, cr, c)
        /\ watches' = watches
    BY <1>4, <1>25 DEF UnitOrConflict, Rewritten
  <2>2. CASE value(c[1]) = l_False
    <3>1. PICK r : r = Append(s, e) \o SubSeq(l, i + 1, Len(l))
      OBVIOUS
    <3>2. /\ confl' = cr /\ qhead' = nAssigns /\ assigns' = assigns /\ vardata' = vardata /\ trail' = trail
          /\ ws' = [ws EXCEPT !.i = Len(l) + 1, !.kept = r]
      BY <1>1, <1>2, <1>4, <1>15, <1>25, <2>2, <3>1 DEF UnitOrConflict
    <3>3. KeptOn(s, l, i, e, r, Len(l) + 1)
      BY <3>1 DEF KeptOn
    <3> QED
      BY <1>8, <1>16, <2>1, <2>2, <3>2, <3>3, WatcherStays
  <2>3. CASE value(c[1]) # l_False
    <3>1. ws' = [ws EXCEPT !.i = @ + 1, !.kept = Append(s, e)] /\ qhead' = qhead /\ confl' = confl
          /\ uncheckedEnqueue(c[1], cr, decisionLevel, assigns, vardata, trail)
      BY <1>2, <1>4, <1>15, <1>25, <2>3 DEF UnitOrConflict
    <3>2. ws' = [ws EXCEPT !.i = i + 1, !.kept = Append(s, e)]
      <4>1. [x EXCEPT !.i = @ + 1, !.kept = Append(s, e)] = [x EXCEPT !.i = i + 1, !.kept = Append(s, e)]
        BY <1>20 DEF ListSet
      <4> QED
        BY <1>19, <3>1, <4>1
    <3>3. value(c[1]) # l_True
      BY <1>25, <2>1
    <3>4. assigns[var(c[1])] \in 0 .. 2
      BY <1>13, <1>18 DEF AssignmentType
    <3>5. value(c[1]) = l_Undef
      BY <1>13, <2>3, <3>3, <3>4, ValueIs
    <3> QED
      <4>1. PICK r : r = Append(s, e)
        OBVIOUS
      <4>2. KeptOn(s, l, i, e, r, i + 1) /\ ws' = [ws EXCEPT !.i = i + 1, !.kept = r]
        BY <1>17, <3>2, <4>1
      <4>3. qhead' = qhead /\ confl' = confl /\ uncheckedEnqueue(c[1], cr, decisionLevel, assigns, vardata, trail)
        BY <3>1
      <4>4. watches' = watches /\ ca' = Rewritten(ca, cr, c) /\ NewWatch(c) = {}
        BY <2>1
      <4> QED
        BY <1>8, <1>16, <3>5, <4>2, <4>3, <4>4, WatcherImplies
  <2> QED
    BY <2>2, <2>3
<1> QED
  BY <1>10, <1>22, <1>23, <1>24, <1>25

(***************************************************************************)
(* A one-to-one correspondence keeps the count.                            *)
(***************************************************************************)
LEMMA MatchCount ==
  ASSUME NEW S, IsFiniteSet(S), NEW T, NEW f \in [S -> T],
         \A x, y \in S : f[x] = f[y] => x = y, \A t \in T : \E x \in S : f[x] = t
  PROVE  IsFiniteSet(T) /\ Cardinality(T) = Cardinality(S)
<1>1. f \in Surjection(S, T) /\ f \in Injection(S, T)
  BY DEF Surjection, Injection, IsInjective
<1>2. IsFiniteSet(T) /\ (Cardinality(T) = Cardinality(S) <=> f \in Injection(S, T))
  BY <1>1, FS_Surjection
<1> QED
  BY <1>1, <1>2

(***************************************************************************)
(* One turn of analyze: the literals of the clause c from the from-th on,  *)
(* those that are new, those of them of the current level, the marked      *)
(* variables, and the literal p to resolve on next, at its place.          *)
(***************************************************************************)
AtAnalysis(c, from, new, here, marked, next, p) ==
  /\ pc = "analyze" /\ c = lits(confl) /\ from = (IF an.p = -1 THEN 1 ELSE 2) /\ new = Unseen(c, from)
  /\ here = {k \in new : level(var(c[k])) >= decisionLevel}
  /\ marked = seen \cup {var(c[k]) : k \in new}
  /\ next = Max({k \in 1 .. an.index : var(trail[k]) \in marked}) /\ p = trail[next]

(***************************************************************************)
(* The clause is in the database, and its literals in question are false   *)
(* because of facts the analysis has not reached yet.                      *)
(***************************************************************************)
LEMMA AnalysisClause ==
  ASSUME Structure, NEW c, NEW from, NEW new, NEW here, NEW marked, NEW next, NEW p,
         AtAnalysis(c, from, new, here, marked, next, p)
  PROVE  /\ confl \in Live /\ confl # CRef_Undef /\ c \in Seq(Lit) /\ Distinct(c) /\ Len(c) >= 2 /\ from \in 1 .. 2
         /\ decisionLevel \in Nat /\ decisionLevel > 0 /\ an.index \in Nat /\ an.index <= Len(trail)
         /\ \A k \in from .. Len(c) :
              /\ c[k] \in Lit /\ value(c[k]) = l_False
              /\ level(var(c[k])) \in Nat /\ level(var(c[k])) <= decisionLevel
              /\ \E m \in 1 .. an.index : trail[m] = neg(c[k])
<1>1. /\ VarsType /\ AssignmentType /\ DatabaseType /\ ScratchType /\ Control /\ Trail
      /\ Clauses /\ Conflict /\ Reasoned /\ Analysis
  BY DEF Structure, TypeOK
<1>2. Tables(Var, Lit, assigns, vardata, trail, trail_lim) /\ TrailIn(assigns, vardata, trail, trail_lim)
  BY <1>1, Assigned DEF Trail
<1>3. pc = "analyze" /\ c = lits(confl) /\ from = (IF an.p = -1 THEN 1 ELSE 2)
  BY DEF AtAnalysis
<1>4. decisionLevel \in Nat /\ decisionLevel > 0 /\ an.index \in Nat /\ Len(trail) \in Nat /\ DOMAIN trail = 1 .. Len(trail)
  BY <1>1, <1>3 DEF Control, ScratchType, AnalysisSet, AssignmentType, decisionLevel
<1>5. \A k \in 1 .. Len(trail) : level(var(trail[k])) <= decisionLevel /\ level(var(trail[k])) \in Nat
  BY <1>2, <1>4, TableFacts DEF TrailIn, level, decisionLevel
<1>6. CASE an.p = -1
  <2>1. an.index = nAssigns /\ Conflicting(confl)
    BY <1>1, <1>3, <1>6 DEF Analysis
  <2>2. confl \in Live /\ confl # CRef_Undef /\ confl \in DOMAIN ca
    BY <1>1, <2>1 DEF Conflicting, DatabaseType, Live, CRef_Undef
  <2>3. ca[confl] \in ClauseSet
    BY <1>1, <2>2 DEF DatabaseType
  <2>4. c \in Seq(Lit) /\ Distinct(c) /\ Len(c) >= 2
    BY <1>1, <1>3, <2>2, <2>3 DEF Clauses, ClausesIn, ClauseSet, lits
  <2>5. ASSUME NEW k \in 1 .. Len(c)
        PROVE  /\ c[k] \in Lit /\ value(c[k]) = l_False
               /\ level(var(c[k])) \in Nat /\ level(var(c[k])) <= decisionLevel
               /\ \E m \in 1 .. an.index : trail[m] = neg(c[k])
    <3>1. PICK q \in Lit : q = c[k]
      BY <2>4
    <3>2. q \in Nat /\ var(q) \in Var /\ var(neg(q)) = var(q)
      BY <1>1, Literals, LitFacts
    <3>3. value(q) = l_False
      BY <1>3, <2>1, <2>4, <3>1 DEF Conflicting
    <3>4. assigns[var(q)] = 1 - sign(q)
      <4>1. assigns[var(q)] \in 0 .. 2
        BY <1>1, <3>2 DEF AssignmentType
      <4> QED
        BY <3>2, <3>3, <4>1, ValueIs
    <3>5. PICK m \in DOMAIN trail : trail[m] = neg(q)
      BY <1>2, <3>4, OnTrail
    <3>6. m \in 1 .. an.index
      BY <1>4, <2>1 DEF nAssigns
    <3> QED
      BY <1>4, <1>5, <3>1, <3>2, <3>3, <3>5, <3>6
  <2> QED
    BY <1>3, <1>4, <1>6, <2>1, <2>2, <2>4, <2>5 DEF nAssigns
<1>7. CASE an.p # -1
  <2>1. /\ an.index < nAssigns /\ an.p = trail[an.index + 1] /\ confl = reason(var(an.p)) /\ confl # CRef_Undef
        /\ level(var(an.p)) = decisionLevel
    BY <1>1, <1>3, <1>7 DEF Analysis
  <2>2. PICK n \in 1 .. Len(trail) : n = an.index + 1
    BY <1>4, <2>1 DEF nAssigns
  <2>3. n \in DOMAIN trail /\ confl = reason(var(trail[n]))
    BY <1>4, <2>1, <2>2
  <2>4. confl \in Live
    BY <2>1, <2>3, ReasonLocked
  <2>5. confl \in DOMAIN ca
    BY <1>1, <2>4 DEF DatabaseType, Live
  <2>6. ca[confl] \in ClauseSet
    BY <1>1, <2>5 DEF DatabaseType
  <2>7. c \in Seq(Lit) /\ Distinct(c) /\ Len(c) >= 2
    BY <1>1, <1>3, <2>4, <2>6 DEF Clauses, ClausesIn, ClauseSet, lits
  <2>8. ASSUME NEW k \in 2 .. Len(c)
        PROVE  /\ c[k] \in Lit /\ value(c[k]) = l_False
               /\ level(var(c[k])) \in Nat /\ level(var(c[k])) <= decisionLevel
               /\ \E m \in 1 .. an.index : trail[m] = neg(c[k])
    <3>1. PICK q \in Lit : q = c[k]
      BY <2>7
    <3>2. q \in Nat /\ var(q) \in Var /\ var(neg(q)) = var(q)
      BY <1>1, Literals, LitFacts
    <3>3. value(q) = l_False
      BY <1>3, <2>1, <2>3, <3>1, ReasonFalse
    <3>4. PICK m \in 1 .. n - 1 : trail[m] = neg(q)
      BY <1>3, <2>1, <2>3, <3>1, ReasonFalse
    <3>5. m \in 1 .. an.index /\ m \in 1 .. Len(trail)
      BY <1>4, <2>2
    <3> QED
      BY <1>5, <3>1, <3>2, <3>3, <3>4, <3>5
  <2> QED
    BY <1>3, <1>4, <1>7, <2>1, <2>4, <2>7, <2>8 DEF nAssigns
<1> QED
  BY <1>6, <1>7

(***************************************************************************)
(* The marked facts of the current level: the counter counts them, and the *)
(* last marked fact of all is one of them.                                 *)
(***************************************************************************)
HereOf(M) == {k \in 1 .. an.index : var(trail[k]) \in M /\ level(var(trail[k])) = decisionLevel}

LEMMA AnalysisCount ==
  ASSUME Structure, NEW c, NEW from, NEW new, NEW here, NEW marked, NEW next, NEW p,
         AtAnalysis(c, from, new, here, marked, next, p), NEW M, M = HereOf(marked)
  PROVE  /\ new \subseteq from .. Len(c) /\ IsFiniteSet(here) /\ Cardinality(here) \in Nat /\ an.pathC \in Nat
         /\ IsFiniteSet(M) /\ Cardinality(M) = an.pathC + Cardinality(here) /\ next \in M
         /\ \A k \in 1 .. an.index : var(trail[k]) \in marked => k <= next
<1>1. /\ VarsType /\ AssignmentType /\ ScratchType /\ Control /\ Trail /\ Analysis
  BY DEF Structure, TypeOK
<1>2. Tables(Var, Lit, assigns, vardata, trail, trail_lim) /\ TrailIn(assigns, vardata, trail, trail_lim)
  BY <1>1, Assigned DEF Trail
<1>3. /\ pc = "analyze" /\ c = lits(confl) /\ from = (IF an.p = -1 THEN 1 ELSE 2) /\ new = Unseen(c, from)
      /\ here = {k \in new : level(var(c[k])) >= decisionLevel}
      /\ marked = seen \cup {var(c[k]) : k \in new}
      /\ next = Max({k \in 1 .. an.index : var(trail[k]) \in marked})
  BY DEF AtAnalysis
<1>4. /\ confl \in Live /\ c \in Seq(Lit) /\ Distinct(c) /\ Len(c) >= 2 /\ from \in 1 .. 2
      /\ decisionLevel \in Nat /\ decisionLevel > 0 /\ an.index \in Nat /\ an.index <= Len(trail)
  BY AnalysisClause
<1>5. \A k \in from .. Len(c) :
        /\ c[k] \in Lit /\ value(c[k]) = l_False
        /\ level(var(c[k])) \in Nat /\ level(var(c[k])) <= decisionLevel
        /\ \E m \in 1 .. an.index : trail[m] = neg(c[k])
  BY AnalysisClause
<1>6. Len(c) \in Nat /\ DOMAIN c = 1 .. Len(c) /\ from .. Len(c) \subseteq DOMAIN c /\ IsFiniteSet(DOMAIN c)
  <2>1. Len(c) \in Nat /\ DOMAIN c = 1 .. Len(c) /\ from .. Len(c) \subseteq DOMAIN c
    BY <1>4
  <2> QED
    BY <2>1, FS_Interval
<1>7. new \subseteq from .. Len(c)
  BY <1>3 DEF Unseen
<1>8. \A k \in here : k \in new /\ level(var(c[k])) = decisionLevel /\ var(c[k]) \notin seen
  BY <1>3, <1>4, <1>5, <1>7 DEF Unseen
<1>9. IsFiniteSet(here) /\ Cardinality(here) \in Nat
  <2>1. here \in SUBSET DOMAIN c
    BY <1>3, <1>6, <1>7
  <2> QED
    BY <1>6, <2>1, FS_Subset, FS_CardinalityType
<1>10. \A k \in from .. Len(c) : \E m \in 1 .. an.index : trail[m] = neg(c[k]) /\ var(trail[m]) = var(c[k])
  <2>1. \A q \in Lit : var(neg(q)) = var(q)
    BY <1>1, Literals, LitFacts
  <2> QED
    BY <1>5, <2>1
<1>11. PICK P : P = {m \in 1 .. an.index : \E k \in here : var(trail[m]) = var(c[k])}
  OBVIOUS
<1>12. Len(trail) \in Nat /\ DOMAIN trail = 1 .. Len(trail) /\ 1 .. an.index \subseteq DOMAIN trail
  BY <1>2, <1>4, TableFacts
<1>13. \A j, k \in 1 .. an.index : var(trail[j]) = var(trail[k]) => j = k
  BY <1>2, <1>12 DEF TrailIn
<1>14. IsFiniteSet(P) /\ Cardinality(P) = Cardinality(here)
  <2>1. PICK f : f = [k \in here |-> CHOOSE m \in 1 .. an.index : var(trail[m]) = var(c[k])]
    OBVIOUS
  <2>2. \A k \in here : f[k] \in 1 .. an.index /\ var(trail[f[k]]) = var(c[k])
    BY <1>3, <1>7, <1>10, <2>1
  <2>3. f \in [here -> P]
    BY <1>11, <2>1, <2>2
  <2>4. \A x, y \in here : f[x] = f[y] => x = y
    <3>1. \A x, y \in here : var(c[x]) = var(c[y]) => x = y
      BY <1>4, <1>6, <1>7, <1>8 DEF Distinct
    <3> QED
      BY <2>2, <3>1
  <2>5. \A t \in P : \E x \in here : f[x] = t
    BY <1>11, <1>13, <2>2
  <2> QED
    BY <1>9, <2>3, <2>4, <2>5, MatchCount
<1>15. IsFiniteSet(Here) /\ an.pathC = Cardinality(Here) /\ an.pathC \in Nat
  <2>0. an.index \in Nat
    BY <1>4
  <2>1. IsFiniteSet(1 .. an.index) /\ Here \in SUBSET (1 .. an.index)
    BY <2>0, FS_Interval DEF Here
  <2>2. IsFiniteSet(Here)
    BY <2>1, FS_Subset
  <2> QED
    BY <1>1, <1>3, <2>2, FS_CardinalityType DEF Analysis
<1>16. Here \cap P = {}
  BY <1>8, <1>11 DEF Here
<1>17. M = Here \cup P
  <2>1. ASSUME NEW m \in M PROVE m \in Here \cup P
    <3>1. m \in 1 .. an.index /\ var(trail[m]) \in marked /\ level(var(trail[m])) = decisionLevel
      BY DEF HereOf
    <3>2. CASE var(trail[m]) \in seen
      BY <3>1, <3>2 DEF Here
    <3>3. CASE var(trail[m]) \notin seen
      <4>1. PICK k \in new : var(trail[m]) = var(c[k])
        BY <1>3, <3>1, <3>3
      <4>2. k \in here
        BY <1>3, <1>4, <3>1, <4>1
      <4> QED
        BY <1>11, <3>1, <4>1, <4>2
    <3> QED
      BY <3>2, <3>3
  <2>2. ASSUME NEW m \in Here PROVE m \in M
    BY <1>3 DEF Here, HereOf
  <2>3. ASSUME NEW m \in P PROVE m \in M
    BY <1>3, <1>8, <1>11 DEF HereOf
  <2> QED
    BY <2>1, <2>2, <2>3
<1>18. IsFiniteSet(M) /\ Cardinality(M) = an.pathC + Cardinality(here)
  <2>1. /\ IsFiniteSet(Here \cup P)
        /\ Cardinality(Here \cup P) = Cardinality(Here) + Cardinality(P) - Cardinality(Here \cap P)
    BY <1>14, <1>15, FS_Union
  <2>2. Cardinality(Here \cap P) = 0
    BY <1>16, FS_EmptySet
  <2> QED
    BY <1>9, <1>14, <1>15, <1>17, <2>1, <2>2
<1>19. M # {}
  <2>1. CASE an.p = -1
    <3>1. seen = {} /\ Conflicting(confl)
      BY <1>1, <1>3, <2>1 DEF Analysis
    <3>2. PICK j \in DOMAIN c : level(var(c[j])) = decisionLevel
      BY <1>3, <1>4, <3>1 DEF Conflicting
    <3>3. j \in new /\ j \in from .. Len(c)
      BY <1>3, <1>4, <1>6, <2>1, <3>1, <3>2 DEF Unseen
    <3>4. j \in here
      BY <1>3, <1>4, <3>2, <3>3
    <3>5. P # {}
      BY <1>10, <1>11, <3>3, <3>4
    <3> QED
      BY <1>17, <3>5
  <2>2. CASE an.p # -1
    <3>1. Cardinality(Here) > 0
      BY <1>1, <1>3, <1>15, <2>2 DEF Analysis
    <3>2. Here # {}
      BY <3>1, FS_EmptySet
    <3> QED
      BY <1>17, <3>2
  <2> QED
    BY <2>1, <2>2
<1>20. PICK T : T = {k \in 1 .. an.index : var(trail[k]) \in marked}
  OBVIOUS
<1>21. T \subseteq Nat /\ (\A k \in T : k <= an.index) /\ M \subseteq T /\ T # {}
  BY <1>4, <1>19, <1>20 DEF HereOf
<1>22. next \in T /\ \A k \in T : k <= next
  BY <1>3, <1>4, <1>20, <1>21, MaxIs
<1>23. next \in M
  <2>1. PICK h \in M : h \in T /\ h <= next /\ h \in DOMAIN trail /\ next \in DOMAIN trail
                       /\ level(var(trail[h])) = decisionLevel
    BY <1>12, <1>19, <1>20, <1>21, <1>22 DEF HereOf
  <2>2. level(var(trail[h])) <= level(var(trail[next]))
    BY <1>2, <2>1, LevelsGrow DEF level
  <2>3. level(var(trail[next])) <= decisionLevel /\ level(var(trail[next])) \in Nat
    BY <1>2, <1>12, <2>1, TableFacts DEF TrailIn, level, decisionLevel
  <2>4. level(var(trail[next])) = decisionLevel
    BY <1>4, <2>1, <2>2, <2>3
  <2> QED
    BY <1>20, <1>22, <2>4 DEF HereOf
<1> QED
  BY <1>7, <1>9, <1>15, <1>18, <1>20, <1>22, <1>23

(***************************************************************************)
(* The literals below the current level are added to the clause.           *)
(***************************************************************************)
OutIs(c, new, here, marked, p, out, S) == out = an.out \o Selected(c, new \ here) /\ S = marked \ {var(p)}

LEMMA AnalysisOut ==
  ASSUME Structure, NEW c, NEW from, NEW new, NEW here, NEW marked, NEW next, NEW p,
         AtAnalysis(c, from, new, here, marked, next, p),
         NEW out, NEW S, OutIs(c, new, here, marked, p, out, S)
  PROVE  /\ out \in Seq(Lit \cup {-1}) /\ Below(out) /\ (\A k \in 2 .. Len(out) : var(out[k]) \in S)
         /\ \A v \in S : (\E k \in 2 .. Len(out) : var(out[k]) = v) \/ (\E k \in HereOf(S) : var(trail[k]) = v)
         /\ \A k \in new \ here : \E j \in 2 .. Len(out) : out[j] = c[k]
         /\ \A k \in 2 .. Len(an.out) : \E j \in 2 .. Len(out) : out[j] = an.out[k]
         /\ \A j \in 2 .. Len(out) : \/ \E k \in 2 .. Len(an.out) : out[j] = an.out[k]
                                     \/ \E k \in new \ here : out[j] = c[k]
<1>42. out = an.out \o Selected(c, new \ here) /\ S = marked \ {var(p)}
  BY DEF OutIs
<1>1. VarsType /\ ScratchType /\ Analysis
  BY DEF Structure, TypeOK
<1>2. /\ pc = "analyze" /\ new = Unseen(c, from) /\ here = {k \in new : level(var(c[k])) >= decisionLevel}
      /\ marked = seen \cup {var(c[k]) : k \in new} /\ p = trail[next]
  BY DEF AtAnalysis
<1>3. c \in Seq(Lit) /\ Distinct(c) /\ from \in 1 .. 2 /\ decisionLevel \in Nat /\ decisionLevel > 0
  BY AnalysisClause
<1>4. \A k \in from .. Len(c) :
        /\ c[k] \in Lit /\ value(c[k]) = l_False
        /\ level(var(c[k])) \in Nat /\ level(var(c[k])) <= decisionLevel
        /\ \E m \in 1 .. an.index : trail[m] = neg(c[k])
  BY AnalysisClause
<1>5. PICK M : M = HereOf(marked)
  OBVIOUS
<1>6. new \subseteq from .. Len(c) /\ next \in M /\ \A k \in 1 .. an.index : var(trail[k]) \in marked => k <= next
  BY <1>5, AnalysisCount
<1>7. level(var(p)) = decisionLevel
  BY <1>2, <1>5, <1>6 DEF HereOf
<1>8. Below(an.out) /\ (\A k \in 2 .. Len(an.out) : var(an.out[k]) \in seen)
      /\ (\A v \in seen : \/ \E k \in 2 .. Len(an.out) : var(an.out[k]) = v
                          \/ \E k \in Here : var(trail[k]) = v)
  BY <1>1, <1>2 DEF Analysis
<1>9. PICK o : o = an.out
  OBVIOUS
<1>10. o \in Seq(Lit \cup {-1}) /\ Len(o) \in Nat /\ DOMAIN o = 1 .. Len(o) /\ Len(o) > 0
  BY <1>1, <1>8, <1>9 DEF ScratchType, AnalysisSet, Below
<1>11. PICK t : t = Selected(c, new \ here)
  OBVIOUS
<1>12. Len(c) \in Nat /\ DOMAIN c = 1 .. Len(c)
  BY <1>3
<1>13. new \ here \subseteq DOMAIN c
  <2>1. from .. Len(c) \subseteq DOMAIN c
    BY <1>3, <1>12
  <2> QED
    BY <1>6, <2>1
<1>14. t \in Seq(Lit)
  BY <1>3, <1>11, <1>13, SelectedIs
<1>15. PICK a : Picks(c, new \ here, t, a)
  BY <1>3, <1>11, <1>13, SelectedIs
<1>16. t \in Seq(Lit \cup {-1}) /\ Len(t) \in Nat /\ DOMAIN t = 1 .. Len(t)
  <2>1. Seq(Lit) \subseteq Seq(Lit \cup {-1})
    BY SeqGrows
  <2> QED
    BY <1>14, <2>1
<1>17. out = o \o t
  BY <1>9, <1>11, <1>42
<1>34. PICK T : T = Lit \cup {-1}
  OBVIOUS
<1>35. o \in Seq(T) /\ t \in Seq(T)
  BY <1>10, <1>16, <1>34
<1>36. PICK z : z = o \o t
  OBVIOUS
<1>37. z \in Seq(T) /\ Len(z) = Len(o) + Len(t)
  BY <1>35, <1>36, ConcatIs
<1>38. \A k \in 1 .. Len(o) : z[k] = o[k]
  BY <1>35, <1>36, ConcatIs
<1>39. \A k \in 1 .. Len(t) : z[Len(o) + k] = t[k]
  BY <1>35, <1>36, ConcatIs
<1>40. \A k \in DOMAIN z : k > Len(o) => k - Len(o) \in 1 .. Len(t) /\ z[k] = t[k - Len(o)]
  BY <1>35, <1>36, ConcatIs
<1>41. z = out
  BY <1>17, <1>36
<1>18. out \in Seq(Lit \cup {-1}) /\ Len(out) = Len(o) + Len(t)
  BY <1>34, <1>37, <1>41
<1>19. \A k \in 1 .. Len(o) : out[k] = o[k]
  BY <1>38, <1>41
<1>20. \A k \in 1 .. Len(t) : out[Len(o) + k] = t[k]
  BY <1>39, <1>41
<1>21. \A k \in DOMAIN out : k > Len(o) => k - Len(o) \in 1 .. Len(t) /\ out[k] = t[k - Len(o)]
  BY <1>40, <1>41
<1>22. Len(out) \in Nat /\ DOMAIN out = 1 .. Len(out) /\ Len(out) > 0
  BY <1>10, <1>16, <1>18
<1>23. ASSUME NEW k \in 2 .. Len(out), k > Len(o)
       PROVE  k - Len(o) \in DOMAIN t /\ a[k - Len(o)] \in new \ here /\ out[k] = c[a[k - Len(o)]]
  <2>1. k \in DOMAIN out
    BY <1>22
  <2>2. k - Len(o) \in DOMAIN t /\ out[k] = t[k - Len(o)]
    BY <1>16, <1>21, <1>23, <2>1
  <2> QED
    BY <1>15, <2>2 DEF Picks
<1>24. ASSUME NEW k \in 2 .. Len(out), ~(k > Len(o))
       PROVE  k \in 2 .. Len(o) /\ out[k] = o[k]
  <2>1. k \in 2 .. Len(o) /\ k \in 1 .. Len(o)
    BY <1>10, <1>22, <1>24
  <2> QED
    BY <1>19, <2>1
<1>25. \A k \in new \ here :
         /\ c[k] \in Lit /\ FalseBelow(c[k]) /\ var(c[k]) \in marked \ seen /\ var(c[k]) # var(p)
  <2> SUFFICES ASSUME NEW k \in new \ here
               PROVE  c[k] \in Lit /\ FalseBelow(c[k]) /\ var(c[k]) \in marked \ seen /\ var(c[k]) # var(p)
    OBVIOUS
  <2>1. k \in from .. Len(c)
    BY <1>6
  <2>2. /\ c[k] \in Lit /\ value(c[k]) = l_False
        /\ level(var(c[k])) \in Nat /\ level(var(c[k])) <= decisionLevel
    BY <1>4, <2>1
  <2>3. level(var(c[k])) > 0 /\ var(c[k]) \notin seen
    BY <1>2 DEF Unseen
  <2>4. level(var(c[k])) < decisionLevel
    BY <1>2, <1>3, <2>2
  <2> QED
    BY <1>2, <1>3, <1>7, <2>2, <2>3, <2>4 DEF FalseBelow
<1>26. \A k \in 2 .. Len(o) : o[k] \in Lit /\ FalseBelow(o[k]) /\ var(o[k]) \in seen /\ var(o[k]) # var(p)
  <2> SUFFICES ASSUME NEW k \in 2 .. Len(o)
               PROVE  o[k] \in Lit /\ FalseBelow(o[k]) /\ var(o[k]) \in seen /\ var(o[k]) # var(p)
    OBVIOUS
  <2>1. o[k] \in Lit /\ FalseBelow(o[k]) /\ var(o[k]) \in seen
    BY <1>8, <1>9 DEF Below
  <2> QED
    BY <1>3, <1>7, <2>1 DEF FalseBelow
<1>27. ASSUME NEW k \in 2 .. Len(out) PROVE out[k] \in Lit /\ FalseBelow(out[k]) /\ var(out[k]) \in S
  <2>1. CASE k > Len(o)
    BY <1>23, <1>25, <1>42, <2>1
  <2>2. CASE ~(k > Len(o))
    BY <1>2, <1>24, <1>26, <1>42, <2>2
  <2> QED
    BY <2>1, <2>2
<1>28. ASSUME NEW j \in 2 .. Len(out), NEW k \in 2 .. Len(out), var(out[j]) = var(out[k]) PROVE j = k
  <2>1. CASE j > Len(o) /\ k > Len(o)
    <3>1. PICK x, y : x = j - Len(o) /\ y = k - Len(o)
      OBVIOUS
    <3>2. x \in DOMAIN t /\ y \in DOMAIN t /\ a[x] \in new \ here /\ a[y] \in new \ here
          /\ out[j] = c[a[x]] /\ out[k] = c[a[y]]
      BY <1>23, <2>1, <3>1
    <3>3. a[x] = a[y]
      BY <1>3, <1>13, <1>28, <3>2 DEF Distinct
    <3>4. x = y
      BY <1>15, <3>2, <3>3 DEF Picks
    <3> QED
      BY <1>10, <3>1, <3>4
  <2>2. CASE ~(j > Len(o)) /\ ~(k > Len(o))
    <3>1. j \in 2 .. Len(o) /\ k \in 2 .. Len(o) /\ var(o[j]) = var(o[k])
      BY <1>24, <1>28, <2>2
    <3> QED
      BY <1>8, <1>9, <3>1 DEF Below
  <2>3. CASE j > Len(o) /\ ~(k > Len(o))
    BY <1>23, <1>24, <1>25, <1>26, <1>28, <2>3
  <2>4. CASE ~(j > Len(o)) /\ k > Len(o)
    BY <1>23, <1>24, <1>25, <1>26, <1>28, <2>4
  <2> QED
    BY <2>1, <2>2, <2>3, <2>4
<1>29. Below(out)
  BY <1>22, <1>27, <1>28 DEF Below
<1>30. ASSUME NEW k \in new \ here PROVE \E j \in 2 .. Len(out) : out[j] = c[k]
  <2>1. PICK x \in DOMAIN t : t[x] = c[k]
    BY <1>15 DEF Picks
  <2>2. Len(o) + x \in 2 .. Len(out)
    BY <1>10, <1>16, <1>18
  <2> QED
    BY <1>16, <1>20, <2>1, <2>2
<1>31. ASSUME NEW k \in 2 .. Len(o) PROVE \E j \in 2 .. Len(out) : out[j] = o[k]
  <2>1. k \in 2 .. Len(out) /\ k \in 1 .. Len(o)
    BY <1>10, <1>16, <1>18
  <2> QED
    BY <1>19, <2>1
<1>32. ASSUME NEW v \in S PROVE (\E k \in 2 .. Len(out) : var(out[k]) = v) \/ (\E k \in HereOf(S) : var(trail[k]) = v)
  <2>1. \A m \in 1 .. an.index : var(trail[m]) = v /\ level(var(trail[m])) = decisionLevel => m \in HereOf(S)
    BY DEF HereOf
  <2>2. CASE v \in seen
    <3>1. CASE \E k \in 2 .. Len(o) : var(o[k]) = v
      BY <1>31, <3>1
    <3>2. CASE \E k \in Here : var(trail[k]) = v
      BY <2>1, <3>2 DEF Here
    <3> QED
      BY <1>8, <1>9, <2>2, <3>1, <3>2
  <2>3. CASE v \notin seen
    <3>1. PICK k \in new : v = var(c[k])
      BY <1>2, <1>42, <2>3
    <3>2. CASE k \in here
      <4>1. k \in from .. Len(c)
        BY <1>6
      <4>2. PICK m \in 1 .. an.index : trail[m] = neg(c[k])
        BY <1>4, <4>1
      <4>3. c[k] \in Lit /\ level(var(c[k])) = decisionLevel
        BY <1>2, <1>3, <1>4, <3>2, <4>1
      <4>4. var(trail[m]) = v
        BY <1>1, <3>1, <4>2, <4>3, Literals, LitFacts
      <4> QED
        BY <2>1, <3>1, <4>3, <4>4
    <3>3. CASE k \notin here
      BY <1>30, <3>1, <3>3
    <3> QED
      BY <3>2, <3>3
  <2> QED
    BY <2>2, <2>3
<1>33. ASSUME NEW j \in 2 .. Len(out)
       PROVE  \/ \E k \in 2 .. Len(o) : out[j] = o[k]
              \/ \E k \in new \ here : out[j] = c[k]
  BY <1>23, <1>24
<1> QED
  BY <1>9, <1>18, <1>27, <1>29, <1>30, <1>31, <1>32, <1>33

(***************************************************************************)
(* What analyze leaves alone.                                              *)
(***************************************************************************)
LEMMA AnalysisFrame ==
  ASSUME Structure, pc \in {"analyze", "minimize", "litRedundant"}, pc' \in {"analyze", "minimize", "litRedundant"},
         UNCHANGED <<input, db, watches, assignment, qhead, stack, ws>>, seen' \subseteq Var, an' \in AnalysisSet,
         confl' \in Nat, pc' # "analyze" => confl' = CRef_Undef, Analysis', Minimization'
  PROVE  Structure'
<1>1. /\ VarsType /\ AssignmentType /\ DatabaseType /\ ScratchType /\ Control /\ Working /\ Trail
      /\ Clauses /\ Conflict /\ Reasoned /\ Watches /\ Analysis /\ Minimization /\ Cleared
  BY DEF Structure, TypeOK
<1>2. /\ ok' = ok /\ stack' = stack /\ qhead' = qhead /\ ws' = ws /\ clauses' = clauses /\ learnts' = learnts
      /\ ca' = ca /\ dirty' = dirty /\ watches' = watches /\ UNCHANGED assignment
      /\ assigns' = assigns /\ vardata' = vardata /\ trail' = trail /\ trail_lim' = trail_lim
  BY DEF assignment, db
<1>3. VarsType' /\ Var' = Var /\ Lit' = Lit
  BY <1>1, <1>2, SameVars
<1>4. AssignmentType'
  BY <1>1, <1>2, SameAssignment DEF AssignmentType
<1>5. DatabaseType'
  BY <1>1, <1>2, <1>3, SameDatabase
<1>6. ScratchType'
  BY <1>1, <1>2, <1>3, SameTypes DEF ScratchType
<1>7. Trail' /\ Clauses' /\ Reasoned' /\ Watches'
  BY <1>1, <1>2, <1>3, SameTrail, SameClauses, SameReasoned, SameWatches
<1>8. Control'
  BY <1>1, <1>2 DEF Control, Returns, AtRoot, InPropagate, decisionLevel, nAssigns, CRef_Undef
<1>9. Working' /\ Conflict' /\ Cleared'
  BY <1>1, <1>2 DEF Working, Conflict, Cleared
<1> QED
  BY <1>3, <1>4, <1>5, <1>6, <1>7, <1>8, <1>9 DEF Structure, TypeOK

(***************************************************************************)
(* A fact of the current level that is not its first one has a reason.     *)
(***************************************************************************)
LEMMA NotDecided ==
  ASSUME Structure, NEW j \in DOMAIN trail, NEW k \in DOMAIN trail, j < k, decisionLevel > 0,
         level(var(trail[j])) = decisionLevel, level(var(trail[k])) = decisionLevel
  PROVE  reason(var(trail[k])) # CRef_Undef
<1>1. VarsType /\ AssignmentType /\ Trail /\ Reasoned
  BY DEF Structure, TypeOK
<1>2. TrailIn(assigns, vardata, trail, trail_lim) /\ trail_lim \in Seq(Nat) /\ trail \in Seq(Lit)
  BY <1>1 DEF Trail, AssignmentType
<1>3. /\ j \in Nat /\ k \in Nat /\ decisionLevel \in Nat /\ decisionLevel \in DOMAIN trail_lim
      /\ trail_lim[decisionLevel] \in Nat
  BY <1>2 DEF decisionLevel
<1>4. trail_lim[decisionLevel] < j
  <2>1. \A l \in DOMAIN trail_lim : l <= vardata[var(trail[j])].level <=> trail_lim[l] < j
    BY <1>2 DEF TrailIn
  <2>2. vardata[var(trail[j])].level = decisionLevel
    BY DEF level
  <2> QED
    BY <1>3, <2>1, <2>2
<1>5. ASSUME reason(var(trail[k])) = CRef_Undef PROVE FALSE
  <2>1. trail_lim[decisionLevel] = k - 1
    BY <1>1, <1>3, <1>5 DEF Reasoned, ReasonedIn, reason, level
  <2> QED
    BY <1>3, <1>4, <2>1
<1> QED
  BY <1>5

(***************************************************************************)
(* A turn of analyze.                                                      *)
(***************************************************************************)
LEMMA AnalyzeStep == ASSUME Structure, analyze PROVE Structure'
<1>1. VarsType /\ AssignmentType /\ ScratchType /\ Control /\ Trail /\ Analysis /\ Reasoned
  BY DEF Structure, TypeOK
<1>2. PICK c, from : c = lits(confl) /\ from = (IF an.p = -1 THEN 1 ELSE 2)
  OBVIOUS
<1>3. PICK new : new = Unseen(c, from)
  OBVIOUS
<1>4. PICK here : here = {k \in new : level(var(c[k])) >= decisionLevel}
  OBVIOUS
<1>5. PICK marked : marked = seen \cup {var(c[k]) : k \in new}
  OBVIOUS
<1>6. PICK next : next = Max({k \in 1 .. an.index : var(trail[k]) \in marked})
  OBVIOUS
<1>7. PICK p : p = trail[next]
  OBVIOUS
<1>8. pc = "analyze"
  BY DEF analyze
<1>9. AtAnalysis(c, from, new, here, marked, next, p)
  BY <1>2, <1>3, <1>4, <1>5, <1>6, <1>7, <1>8 DEF AtAnalysis
<1>10. PICK out : out = an.out \o Selected(c, new \ here)
  OBVIOUS
<1>11. PICK S : S = marked \ {var(p)}
  OBVIOUS
<1>12. PICK n : n = an.pathC + Cardinality(here) - 1
  OBVIOUS
<1>13. /\ seen' = S
       /\ IF n > 0
          THEN /\ an' = [an EXCEPT !.p = p, !.index = next - 1, !.pathC = n, !.out = out]
               /\ confl' = reason(var(p))
               /\ pc' = "analyze"
          ELSE LET learnt == [out EXCEPT ![1] = neg(p)]
               IN /\ an' = [NoAnalysis EXCEPT !.out = learnt, !.kept = <<learnt[1]>>, !.i = 2, !.toclear = learnt,
                              !.levels = {abstractLevel(var(learnt[k])) : k \in 2 .. Len(learnt)}]
                  /\ confl' = CRef_Undef
                  /\ pc' = "minimize"
       /\ UNCHANGED <<input, db, watches, assignment, qhead, limits, simpDB_props, model, stack, ws>>
  BY <1>2, <1>3, <1>4, <1>5, <1>6, <1>7, <1>10, <1>11, <1>12 DEF analyze
<1>14. PICK M : M = HereOf(marked)
  OBVIOUS
<1>15. /\ new \subseteq from .. Len(c) /\ Cardinality(here) \in Nat /\ an.pathC \in Nat
       /\ IsFiniteSet(M) /\ Cardinality(M) = an.pathC + Cardinality(here) /\ next \in M
       /\ \A k \in 1 .. an.index : var(trail[k]) \in marked => k <= next
  BY <1>9, <1>14, AnalysisCount
<1>16. c \in Seq(Lit) /\ from \in 1 .. 2 /\ decisionLevel \in Nat /\ decisionLevel > 0 /\ an.index \in Nat
       /\ an.index <= Len(trail) /\ Len(c) >= 2
  BY <1>9, AnalysisClause
<1>17. out \in Seq(Lit \cup {-1}) /\ Below(out) /\ (\A k \in 2 .. Len(out) : var(out[k]) \in S)
       /\ \A v \in S : (\E k \in 2 .. Len(out) : var(out[k]) = v) \/ (\E k \in HereOf(S) : var(trail[k]) = v)
  <2>0. OutIs(c, new, here, marked, p, out, S)
    BY <1>10, <1>11 DEF OutIs
  <2>1. out \in Seq(Lit \cup {-1}) /\ Below(out)
    BY <1>9, <2>0, AnalysisOut
  <2>2. \A k \in 2 .. Len(out) : var(out[k]) \in S
    BY <1>9, <2>0, AnalysisOut
  <2>3. \A v \in S : (\E k \in 2 .. Len(out) : var(out[k]) = v) \/ (\E k \in HereOf(S) : var(trail[k]) = v)
    BY <1>9, <2>0, AnalysisOut
  <2> QED
    BY <2>1, <2>2, <2>3
<1>18. Len(trail) \in Nat /\ DOMAIN trail = 1 .. Len(trail) /\ \A k \in 1 .. Len(trail) : trail[k] \in Lit
  BY <1>1 DEF AssignmentType
<1>19. /\ next \in 1 .. an.index /\ next \in DOMAIN trail /\ next \in Nat /\ level(var(p)) = decisionLevel
       /\ p \in Lit /\ next - 1 \in Nat
  BY <1>7, <1>14, <1>15, <1>16, <1>18 DEF HereOf
<1>20. p \in Nat /\ var(p) \in Var /\ neg(p) \in Lit /\ var(neg(p)) = var(p)
  BY <1>1, <1>19, Literals, LitFacts
<1>21. S \subseteq Var
  <2>1. \A k \in new : c[k] \in Lit
    <3>1. \A k \in from .. Len(c) : k \in 1 .. Len(c)
      BY <1>16
    <3> QED
      BY <1>15, <1>16, <3>1
  <2> QED
    BY <1>1, <1>5, <1>11, <2>1, Literals DEF ScratchType
<1>22. PICK P : P = {k \in 1 .. next - 1 : var(trail[k]) \in S /\ level(var(trail[k])) = decisionLevel}
  OBVIOUS
<1>23. P = M \ {next}
  <2>1. \A k \in 1 .. an.index : var(trail[k]) = var(p) => k = next
    BY <1>1, <1>7, <1>16, <1>18, <1>19 DEF Trail, TrailIn
  <2>2. ASSUME NEW k \in P PROVE k \in M \ {next}
    <3>1. k \in 1 .. an.index /\ k # next
      BY <1>16, <1>19, <1>22
    <3> QED
      BY <1>11, <1>14, <1>22, <3>1 DEF HereOf
  <2>3. ASSUME NEW k \in M \ {next} PROVE k \in P
    <3>1. k \in 1 .. an.index /\ k <= next /\ k # next /\ var(trail[k]) \in marked
          /\ level(var(trail[k])) = decisionLevel
      BY <1>14, <1>15 DEF HereOf
    <3>2. k \in 1 .. next - 1
      BY <1>19, <3>1
    <3> QED
      BY <1>11, <1>22, <2>1, <3>1, <3>2
  <2> QED
    BY <2>2, <2>3
<1>24. HereOf(S) = P
  <2>1. \A k \in HereOf(S) : k \in M \ {next}
    BY <1>7, <1>11, <1>14 DEF HereOf
  <2>2. \A k \in P : k \in HereOf(S)
    BY <1>14, <1>22, <1>23 DEF HereOf
  <2> QED
    BY <1>23, <2>1, <2>2
<1>25. IsFiniteSet(P) /\ Cardinality(P) = n /\ n \in Nat
  <2>1. IsFiniteSet(M \ {next}) /\ Cardinality(M \ {next}) = Cardinality(M) - 1
    BY <1>15, FS_RemoveElement
  <2>2. Cardinality(P) \in Nat
    BY <1>23, <2>1, FS_CardinalityType
  <2> QED
    BY <1>12, <1>15, <1>23, <2>1, <2>2
<1>26. /\ assigns' = assigns /\ vardata' = vardata /\ trail' = trail /\ trail_lim' = trail_lim /\ ca' = ca
       /\ UNCHANGED <<input, db, watches, assignment, qhead, stack, ws>>
  BY <1>13 DEF assignment, db
<1>27. Var' = Var /\ Lit' = Lit
  BY <1>1, <1>26, SameVars
<1>28. an \in AnalysisSet
  BY <1>1 DEF ScratchType
<1>29. CASE n > 0
  <2>1. PICK b : b = an'
    OBVIOUS
  <2>2. b \in AnalysisSet /\ b.p = p /\ b.index = next - 1 /\ b.pathC = n /\ b.out = out
    <3>1. b = [an EXCEPT !.p = p, !.index = next - 1, !.pathC = n, !.out = out]
      BY <1>13, <1>29, <2>1
    <3> QED
      BY <1>17, <1>19, <1>25, <1>28, <3>1 DEF AnalysisSet
  <2>3. pc' = "analyze" /\ confl' = reason(var(p)) /\ seen' = S
    BY <1>13, <1>29
  <2>4. Here' = P
    BY <1>22, <1>26, <2>1, <2>2, <2>3 DEF Here, level, decisionLevel
  <2>5. Below(b.out)'
    BY <1>17, <1>26, <1>27, <2>1, <2>2 DEF Below, FalseBelow, value, level, decisionLevel
  <2>6. confl' # CRef_Undef
    <3>1. PICK j \in P : TRUE
      BY <1>25, <1>29, FS_EmptySet
    <3>2. j \in DOMAIN trail /\ j < next /\ level(var(trail[j])) = decisionLevel
      BY <1>16, <1>18, <1>19, <1>22
    <3> QED
      BY <1>7, <1>16, <1>19, <2>3, <3>2, NotDecided
  <2>7. p # -1 /\ next - 1 + 1 = next
    BY <1>19, <1>20
  <2>8. Analysis'
    <3>1. an'.p # -1 /\ an'.pathC > 0 /\ an'.index < nAssigns'
      BY <1>16, <1>18, <1>19, <1>26, <1>29, <2>1, <2>2, <2>7 DEF nAssigns
    <3>2. an'.p = trail'[an'.index + 1] /\ level(var(an.p))' = decisionLevel'
      BY <1>7, <1>19, <1>26, <2>1, <2>2, <2>7 DEF level, decisionLevel
    <3>3. confl' = reason(var(an.p))'
      BY <1>26, <2>1, <2>2, <2>3 DEF reason
    <3>4. Below(an.out)'
      BY <2>1, <2>5 DEF Below, FalseBelow, value, level, decisionLevel
    <3>5. an'.pathC = Cardinality(Here')
      BY <1>25, <2>1, <2>2, <2>4
    <3>6. \A k \in 2 .. Len(an'.out) : var(an'.out[k]) \in seen'
      BY <1>17, <2>1, <2>2, <2>3
    <3>7. \A v \in seen' : \/ \E k \in 2 .. Len(an'.out) : var(an'.out[k]) = v
                           \/ \E k \in Here' : var(trail'[k]) = v
      BY <1>17, <1>24, <1>26, <2>1, <2>2, <2>3, <2>4
    <3> QED
      BY <2>6, <3>1, <3>2, <3>3, <3>4, <3>5, <3>6, <3>7 DEF Analysis
  <2>9. confl' \in Nat
    BY <1>1, <1>20, <2>3 DEF reason, AssignmentType
  <2>10. Minimization'
    BY <2>3 DEF Minimization, InMinimize
  <2> QED
    BY <1>8, <1>21, <1>26, <2>1, <2>2, <2>3, <2>8, <2>9, <2>10, AnalysisFrame
<1>30. CASE ~(n > 0)
  <2>1. PICK b : b = an'
    OBVIOUS
  <2>2. PICK g : g = [out EXCEPT ![1] = neg(p)]
    OBVIOUS
  <2>3. PICK L : L = {abstractLevel(var(g[k])) : k \in 2 .. Len(g)}
    OBVIOUS
  <2>4. b = [NoAnalysis EXCEPT !.out = g, !.kept = <<g[1]>>, !.i = 2, !.toclear = g, !.levels = L]
        /\ confl' = CRef_Undef /\ pc' = "minimize" /\ seen' = S
    BY <1>13, <1>30, <2>1, <2>2, <2>3
  <2>5. Len(out) \in Nat /\ DOMAIN out = 1 .. Len(out) /\ Len(out) > 0
    BY <1>17 DEF Below
  <2>6. g \in Seq(Lit \cup {-1}) /\ Len(g) = Len(out) /\ g[1] = neg(p) /\ \A k \in 2 .. Len(g) : g[k] = out[k]
    BY <1>17, <1>20, <2>2, <2>5
  <2>7. \A k \in 2 .. Len(g) : g[k] \in Lit /\ FalseBelow(g[k]) /\ var(g[k]) \in S
    BY <1>17, <2>6 DEF Below
  <2>8. L \subseteq Nat
    <3>1. \A k \in 2 .. Len(g) : level(var(g[k])) \in Nat
      BY <1>1, <2>7, Literals DEF level, AssignmentType
    <3>2. \A x \in Nat : x % LevelBits \in Nat
      BY CdclAssumption
    <3> QED
      BY <2>3, <3>1, <3>2 DEF abstractLevel
  <2>9. /\ b.p = -1 /\ b.index = 0 /\ b.pathC = 0 /\ b.out = g /\ b.kept = <<neg(p)>> /\ b.i = 2 /\ b.toclear = g
        /\ b.stack = <<>> /\ b.top = 0 /\ b.levels = L
    BY <2>4, <2>6 DEF NoAnalysis
  <2>10. b \in AnalysisSet
    <3>1. b = [p |-> -1, index |-> 0, pathC |-> 0, out |-> g, kept |-> <<neg(p)>>, i |-> 2,
               toclear |-> g, stack |-> <<>>, top |-> 0, levels |-> L]
      BY <2>4, <2>6 DEF NoAnalysis
    <3>2. <<neg(p)>> \in Seq(Lit \cup {-1}) /\ <<>> \in Seq(Lit \cup {-1})
      BY <1>20
    <3> QED
      BY <2>6, <2>8, <3>1, <3>2 DEF AnalysisSet
  <2>11. Below(g)
    <3>1. \A j, k \in 2 .. Len(g) : var(g[j]) = var(g[k]) => j = k
      BY <1>17, <2>6 DEF Below
    <3> QED
      BY <2>5, <2>6, <2>7, <3>1 DEF Below
  <2>12. Below(b.out)'
    BY <1>26, <1>27, <2>1, <2>9, <2>11 DEF Below, FalseBelow, value, level, decisionLevel
  <2>13. value(neg(p)) = l_False
    <3>1. assigns[var(p)] = sign(p) /\ assigns[var(p)] \in 0 .. 2
      BY <1>1, <1>7, <1>19, <1>20 DEF Trail, TrailIn, AssignmentType
    <3>2. value(p) = l_True
      BY <1>20, <3>1, ValueIs
    <3> QED
      BY <1>20, <3>1, <3>2, ValueNeg
  <2>14. n = 0
    BY <1>25, <1>30
  <2>15. P = {}
    BY <1>25, <2>14, FS_EmptySet
  <2>16. Minimization'
    <3>1. Below(an.out)'
      BY <2>1, <2>12 DEF Below, FalseBelow, value, level, decisionLevel
    <3>2. an'.out[1] = neg(p) /\ neg(p) \in Lit' /\ value(neg(p))' = l_False /\ level(var(neg(p)))' = decisionLevel'
      BY <1>19, <1>20, <1>26, <1>27, <2>1, <2>6, <2>9, <2>13 DEF value, level, decisionLevel
    <3>3. an'.i = 2 /\ Len(an'.out) \in Nat /\ Len(an'.out) > 0 /\ an'.i > 1 /\ an'.i <= Len(an'.out) + 1
      BY <2>1, <2>5, <2>6, <2>9
    <3>4. Len(an'.kept) = 1 /\ an'.kept[1] = an'.out[1]
      BY <2>1, <2>6, <2>9
    <3>5. an'.top <= Len(an'.toclear)
      BY <2>1, <2>5, <2>6, <2>9
    <3>6. \A v \in seen' : \E j \in DOMAIN an'.toclear : var(an'.toclear[j]) = v
      <4> SUFFICES ASSUME NEW v \in S PROVE \E j \in DOMAIN g : var(g[j]) = v
        BY <2>1, <2>4, <2>9
      <4>1. PICK k \in 2 .. Len(out) : var(out[k]) = v
        BY <1>17, <1>24, <2>15
      <4>2. k \in DOMAIN g /\ g[k] = out[k]
        BY <2>5, <2>6
      <4> QED
        BY <4>1, <4>2
    <3>7. 2 .. Len(an'.kept) = {}
      BY <3>4
    <3> QED
      BY <2>4, <3>1, <3>2, <3>3, <3>4, <3>5, <3>6, <3>7 DEF Minimization, InMinimize, value, level, decisionLevel
  <2>17. Analysis'
    BY <2>4 DEF Analysis
  <2>18. confl' \in Nat
    BY <2>4 DEF CRef_Undef
  <2> QED
    BY <1>8, <1>21, <1>26, <2>1, <2>4, <2>10, <2>16, <2>17, <2>18, AnalysisFrame
<1> QED
  BY <1>29, <1>30

(***************************************************************************)
(* The part of the clause that is kept: its first literal and some of the  *)
(* literals before the i-th, each once.                                    *)
(***************************************************************************)
KeptPart(a) ==
  /\ Len(a.kept) > 0 /\ a.kept[1] = a.out[1]
  /\ \A j \in 2 .. Len(a.kept) : \E k \in 2 .. a.i - 1 : a.kept[j] = a.out[k]
  /\ \A j, k \in 2 .. Len(a.kept) : var(a.kept[j]) = var(a.kept[k]) => j = k

LEMMA MinimizeFacts ==
  ASSUME Structure, pc \in {"minimize", "litRedundant"}
  PROVE  /\ an \in AnalysisSet /\ Below(an.out) /\ an.out[1] \in Lit /\ value(an.out[1]) = l_False
         /\ level(var(an.out[1])) = decisionLevel /\ an.i \in Nat /\ an.i > 1 /\ an.i <= Len(an.out) + 1
         /\ Len(an.out) \in Nat /\ KeptPart(an) /\ an.top <= Len(an.toclear)
         /\ (\A v \in seen : \E j \in DOMAIN an.toclear : var(an.toclear[j]) = v)
         /\ pc = "litRedundant" =>
              /\ an.i <= Len(an.out)
              /\ \A j \in DOMAIN an.stack :
                   an.stack[j] \in Lit /\ value(an.stack[j]) = l_False /\ reason(var(an.stack[j])) # CRef_Undef
         /\ confl = CRef_Undef /\ decisionLevel > 0
<1>1. ScratchType /\ Minimization /\ Control
  BY DEF Structure, TypeOK
<1>2. an \in AnalysisSet /\ an.i \in Nat /\ Len(an.out) \in Nat
  BY <1>1 DEF ScratchType, AnalysisSet
<1> QED
  BY <1>1, <1>2 DEF Minimization, InMinimize, KeptPart, Control

(***************************************************************************)
(* The fields of a record of analyze's locals, and the records a step      *)
(* makes of it.                                                            *)
(***************************************************************************)
Fields(b, out, n, kept, toclear, stk, top) ==
  b.out = out /\ b.i = n /\ b.kept = kept /\ b.toclear = toclear /\ b.stack = stk /\ b.top = top
WithI(a, n, b) == b = [a EXCEPT !.i = n]
WithKept(a, t, n, b) == b = [a EXCEPT !.kept = t, !.i = n]
WithStack(a, t, n, b) == b = [a EXCEPT !.stack = t, !.top = n]
WithToclear(a, s, t, b) == b = [a EXCEPT !.stack = s, !.toclear = t]
LEMMA FieldI ==
  ASSUME NEW a \in AnalysisSet, NEW n \in Nat, NEW b, WithI(a, n, b)
  PROVE  b \in AnalysisSet /\ Fields(b, a.out, n, a.kept, a.toclear, a.stack, a.top)
BY DEF AnalysisSet, WithI, Fields

LEMMA FieldKept ==
  ASSUME NEW a \in AnalysisSet, NEW n \in Nat, NEW t \in Seq(Lit \cup {-1}), NEW b, WithKept(a, t, n, b)
  PROVE  b \in AnalysisSet /\ Fields(b, a.out, n, t, a.toclear, a.stack, a.top)
BY DEF AnalysisSet, WithKept, Fields

LEMMA FieldStack ==
  ASSUME NEW a \in AnalysisSet, NEW n \in Nat, NEW t \in Seq(Lit \cup {-1}), NEW b, WithStack(a, t, n, b)
  PROVE  b \in AnalysisSet /\ Fields(b, a.out, a.i, a.kept, a.toclear, t, n)
BY DEF AnalysisSet, WithStack, Fields

LEMMA FieldToclear ==
  ASSUME NEW a \in AnalysisSet, NEW s \in Seq(Lit \cup {-1}), NEW t \in Seq(Lit \cup {-1}),
         NEW b, WithToclear(a, s, t, b)
  PROVE  b \in AnalysisSet /\ Fields(b, a.out, a.i, a.kept, t, s, a.top)
BY DEF AnalysisSet, WithToclear, Fields

LEMMA KeepOrDrop ==
  ASSUME Structure, pc \in {"minimize", "litRedundant"}, an.i <= Len(an.out),
         NEW a \in AnalysisSet, a.out = an.out, a.kept = an.kept, a.i = an.i, NEW b, b = Keep(a) \/ b = Drop(a)
  PROVE  /\ b \in AnalysisSet /\ KeptPart(b)
         /\ \E n \in Nat : n = an.i + 1 /\ Fields(b, an.out, n, b.kept, a.toclear, a.stack, a.top)
<1>1. /\ Below(an.out) /\ an.i \in Nat /\ an.i > 1 /\ Len(an.out) \in Nat /\ KeptPart(an)
  BY MinimizeFacts
<1>2. PICK i \in Nat : i = an.i
  BY <1>1
<1>3. PICK o, s : o = an.out /\ s = an.kept
  OBVIOUS
<1>4. /\ o \in Seq(Lit \cup {-1}) /\ s \in Seq(Lit \cup {-1}) /\ DOMAIN o = 1 .. Len(o) /\ Len(o) \in Nat
      /\ Len(s) \in Nat /\ DOMAIN s = 1 .. Len(s)
  BY <1>3 DEF AnalysisSet
<1>5. PICK q \in Lit \cup {-1} : q = o[i]
  BY <1>1, <1>2, <1>3, <1>4
<1>6. /\ Len(s) > 0 /\ s[1] = o[1]
      /\ \A j \in 2 .. Len(s) : \E k \in 2 .. i - 1 : s[j] = o[k]
      /\ \A j, k \in 2 .. Len(s) : var(s[j]) = var(s[k]) => j = k
  BY <1>1, <1>2, <1>3 DEF KeptPart
<1>7. \A j \in 2 .. Len(s) : \E k \in 2 .. i + 1 - 1 : s[j] = o[k]
  BY <1>6
<1>8. PICK n \in Nat : n = i + 1
  BY <1>2
<1>9. a.i = i /\ a.out = o /\ a.kept = s
  BY <1>2, <1>3
<1>10. CASE b = Drop(a)
  <2>1. WithI(a, n, b)
    BY <1>8, <1>9, <1>10 DEF Drop, WithI, AnalysisSet
  <2>2. b \in AnalysisSet /\ Fields(b, a.out, n, a.kept, a.toclear, a.stack, a.top)
    BY <2>1, FieldI
  <2>3. b.out = o /\ b.kept = s /\ b.i = n
    BY <1>9, <2>2 DEF Fields
  <2>4. KeptPart(b)
    <3>1. Len(b.kept) > 0 /\ b.kept[1] = b.out[1]
      BY <1>6, <2>3
    <3>2. \A j \in 2 .. Len(b.kept) : \E k \in 2 .. b.i - 1 : b.kept[j] = b.out[k]
      BY <1>7, <1>8, <2>3
    <3>3. \A j, k \in 2 .. Len(b.kept) : var(b.kept[j]) = var(b.kept[k]) => j = k
      BY <1>6, <2>3
    <3> QED
      BY <3>1, <3>2, <3>3 DEF KeptPart
  <2>5. Fields(b, an.out, n, b.kept, a.toclear, a.stack, a.top)
    BY <1>3, <1>9, <2>2 DEF Fields
  <2> QED
    BY <1>2, <1>8, <2>2, <2>4, <2>5
<1>11. CASE b = Keep(a)
  <2>1. PICK t : t = Append(s, q)
    OBVIOUS
  <2>2. t \in Seq(Lit \cup {-1}) /\ Len(t) = Len(s) + 1 /\ t[Len(s) + 1] = q /\ \A k \in 1 .. Len(s) : t[k] = s[k]
    BY <1>4, <2>1, AppendIs
  <2>3. WithKept(a, t, n, b)
    <3>1. b = [a EXCEPT !.kept = Append(a.kept, a.out[a.i]), !.i = a.i + 1]
      BY <1>11 DEF Keep, AnalysisSet
    <3> QED
      BY <1>5, <1>8, <1>9, <2>1, <3>1 DEF WithKept
  <2>4. b \in AnalysisSet /\ Fields(b, a.out, n, t, a.toclear, a.stack, a.top)
    BY <2>2, <2>3, FieldKept
  <2>5. b.out = o /\ b.kept = t /\ b.i = n
    BY <1>9, <2>4 DEF Fields
  <2>6. ASSUME NEW j \in 2 .. Len(t) PROVE (j \in 2 .. Len(s) /\ t[j] = s[j]) \/ (j = Len(s) + 1 /\ t[j] = o[i])
    <3>1. j = Len(s) + 1 \/ (j \in 1 .. Len(s) /\ j \in 2 .. Len(s))
      BY <1>4, <2>2
    <3> QED
      BY <1>5, <2>2, <3>1
  <2>7. ASSUME NEW j \in 2 .. Len(s) PROVE var(s[j]) # var(o[i])
    <3>1. PICK k \in 2 .. i - 1 : s[j] = o[k]
      BY <1>6
    <3>2. k \in 2 .. Len(o) /\ i \in 2 .. Len(o) /\ k # i
      BY <1>1, <1>2, <1>3, <1>4
    <3> QED
      BY <1>1, <1>3, <3>1, <3>2 DEF Below
  <2>8. \A j, k \in 2 .. Len(t) : var(t[j]) = var(t[k]) => j = k
    BY <1>6, <2>6, <2>7
  <2>9. \A j \in 2 .. Len(t) : \E k \in 2 .. i + 1 - 1 : t[j] = o[k]
    <3>1. i \in 2 .. i + 1 - 1
      BY <1>1, <1>2
    <3> QED
      BY <1>7, <2>6, <3>1
  <2>10. Len(t) > 0 /\ t[1] = o[1]
    <3>1. 1 \in 1 .. Len(s)
      BY <1>4, <1>6
    <3> QED
      BY <1>4, <1>6, <2>2, <3>1
  <2>11. KeptPart(b)
    BY <1>8, <2>5, <2>8, <2>9, <2>10 DEF KeptPart
  <2>12. Fields(b, an.out, n, b.kept, a.toclear, a.stack, a.top)
    BY <1>3, <1>9, <2>4 DEF Fields
  <2> QED
    BY <1>2, <1>8, <2>4, <2>11, <2>12
<1> QED
  BY <1>10, <1>11

LEMMA MinimizeEnds ==
  ASSUME Structure, pc \in {"minimize", "litRedundant"}, pc' \in {"minimize", "litRedundant"},
         UNCHANGED <<input, db, watches, assignment, qhead, stack, ws>>, confl' = confl,
         NEW b \in AnalysisSet, an' = b,
         seen' \subseteq Var, b.out = an.out, KeptPart(b),
         b.i > 1, b.i <= Len(an.out) + 1, b.top <= Len(b.toclear),
         \A v \in seen' : \E j \in DOMAIN b.toclear : var(b.toclear[j]) = v,
         pc' = "litRedundant" =>
           /\ b.i <= Len(an.out)
           /\ \A j \in DOMAIN b.stack :
                b.stack[j] \in Lit /\ value(b.stack[j]) = l_False /\ reason(var(b.stack[j])) # CRef_Undef
  PROVE  Structure'
<1>1. /\ Below(an.out) /\ an.out[1] \in Lit /\ value(an.out[1]) = l_False
      /\ level(var(an.out[1])) = decisionLevel /\ confl = CRef_Undef
  BY MinimizeFacts
<1>2. /\ assigns' = assigns /\ vardata' = vardata /\ trail' = trail /\ trail_lim' = trail_lim
  BY DEF assignment
<1>3. VarsType
  BY DEF Structure, TypeOK
<1>4. Var' = Var /\ Lit' = Lit
  BY <1>2, <1>3, SameVars
<1>5. Below(b.out)'
  BY <1>1, <1>2, <1>4 DEF Below, FalseBelow, value, level, decisionLevel
<1>6. b.out[1] \in Lit' /\ value(b.out[1])' = l_False /\ level(var(b.out[1]))' = decisionLevel'
  BY <1>1, <1>2, <1>4 DEF value, level, decisionLevel
<1>7. /\ Len(b.kept) > 0 /\ b.kept[1] = b.out[1]
      /\ \A j \in 2 .. Len(b.kept) : \E k \in 2 .. b.i - 1 : b.kept[j] = b.out[k]
      /\ \A j, k \in 2 .. Len(b.kept) : var(b.kept[j]) = var(b.kept[k]) => j = k
  BY DEF KeptPart
<1>8. pc' = "litRedundant" =>
        \A j \in DOMAIN b.stack :
          b.stack[j] \in Lit' /\ value(b.stack[j])' = l_False /\ reason(var(b.stack[j]))' # CRef_Undef
  BY <1>2, <1>4 DEF value, reason
<1>9. Minimization'
  <2>1. Below(an.out)'
    BY <1>5 DEF Below, FalseBelow, value, level, decisionLevel
  <2>2. an'.out[1] \in Lit' /\ value(an.out[1])' = l_False /\ level(var(an.out[1]))' = decisionLevel'
    BY <1>6 DEF value, level, decisionLevel
  <2>3. /\ Len(an'.kept) > 0 /\ an'.kept[1] = an'.out[1]
        /\ \A j \in 2 .. Len(an'.kept) : \E k \in 2 .. an'.i - 1 : an'.kept[j] = an'.out[k]
        /\ \A j, k \in 2 .. Len(an'.kept) : var(an'.kept[j]) = var(an'.kept[k]) => j = k
    BY <1>7
  <2>4. /\ an'.i > 1 /\ an'.i <= Len(an'.out) + 1 /\ an'.top <= Len(an'.toclear)
        /\ pc' = "litRedundant" => an'.i <= Len(an'.out)
    OBVIOUS
  <2>5. \A v \in seen' : \E j \in DOMAIN an'.toclear : var(an'.toclear[j]) = v
    OBVIOUS
  <2>6. pc' = "litRedundant" =>
        \A j \in DOMAIN b.stack :
          LET q == b.stack[j]
          IN q \in Lit' /\ (IF assigns'[var(q)] = l_Undef THEN l_Undef ELSE (assigns'[var(q)] + sign(q)) % 2) = l_False
             /\ vardata'[var(q)].reason # CRef_Undef
    BY <1>8 DEF value, reason
  <2>7. (pc = "litRedundant" =>
         \A j \in DOMAIN an.stack : LET q == an.stack[j]
                                    IN q \in Lit /\ value(q) = l_False /\ reason(var(q)) # CRef_Undef)'
    BY <2>6 DEF value, reason
  <2> QED
    BY <2>1, <2>2, <2>3, <2>4, <2>5, <2>7 DEF Minimization
<1>10. Analysis' /\ confl' \in Nat /\ confl' = CRef_Undef
  BY <1>1 DEF Analysis, CRef_Undef
<1> QED
  BY <1>9, <1>10, AnalysisFrame
(***************************************************************************)
(* A turn of minimize.                                                     *)
(***************************************************************************)
LEMMA MinimizeStep == ASSUME Structure, minimize PROVE Structure'
<1>1. PICK q : q = an.out[an.i]
  OBVIOUS
<1>2. PICK b : b = an'
  OBVIOUS
<1>3. /\ pc = "minimize" /\ an.i <= Len(an.out)
      /\ UNCHANGED <<input, db, watches, assignment, qhead, stack, ws>> /\ confl' = confl /\ seen' = seen
  BY DEF minimize
<1>4. \/ b \in {Keep(an), Drop(an)} /\ pc' = "minimize"
      \/ reason(var(q)) # CRef_Undef /\ b = [an EXCEPT !.stack = <<q>>, !.top = Len(an.toclear)] /\ pc' = "litRedundant"
  BY <1>1, <1>2, <1>3 DEF minimize
<1>5. /\ an \in AnalysisSet /\ Below(an.out) /\ an.i \in Nat /\ an.i > 1 /\ Len(an.out) \in Nat /\ KeptPart(an)
      /\ an.top <= Len(an.toclear) /\ (\A v \in seen : \E j \in DOMAIN an.toclear : var(an.toclear[j]) = v)
  BY <1>3, MinimizeFacts
<1>6. seen \subseteq Var
  BY DEF Structure, TypeOK, ScratchType
<1>7. CASE b \in {Keep(an), Drop(an)} /\ pc' = "minimize"
  <2>1. b = Keep(an) \/ b = Drop(an)
    BY <1>7
  <2>2. b \in AnalysisSet /\ KeptPart(b)
        /\ \E n \in Nat : n = an.i + 1 /\ Fields(b, an.out, n, b.kept, an.toclear, an.stack, an.top)
    BY <1>3, <1>5, <2>1, KeepOrDrop
  <2>3. PICK n \in Nat : n = an.i + 1 /\ Fields(b, an.out, n, b.kept, an.toclear, an.stack, an.top)
    BY <2>2
  <2>4. b.out = an.out /\ b.i = n /\ b.toclear = an.toclear /\ b.top = an.top
    BY <2>3 DEF Fields
  <2>5. b.i > 1 /\ b.i <= Len(an.out) + 1
    BY <1>3, <1>5, <2>3, <2>4
  <2>6. b.top <= Len(b.toclear) /\ \A v \in seen' : \E j \in DOMAIN b.toclear : var(b.toclear[j]) = v
    BY <1>3, <1>5, <2>4
  <2> QED
    BY <1>2, <1>3, <1>6, <1>7, <2>2, <2>4, <2>5, <2>6, MinimizeEnds
<1>8. CASE reason(var(q)) # CRef_Undef /\ b = [an EXCEPT !.stack = <<q>>, !.top = Len(an.toclear)] /\ pc' = "litRedundant"
  <2>1. q \in Lit /\ value(q) = l_False
    <3>1. an.i \in 2 .. Len(an.out)
      BY <1>3, <1>5
    <3> QED
      BY <1>1, <1>5, <3>1 DEF Below, FalseBelow
  <2>2. PICK s : s = <<q>>
    OBVIOUS
  <2>3. PICK n \in Nat : n = Len(an.toclear)
    BY <1>5 DEF AnalysisSet
  <2>4. s \in Seq(Lit \cup {-1}) /\ \A j \in DOMAIN s : s[j] = q
    BY <2>1, <2>2
  <2>5. WithStack(an, s, n, b)
    BY <1>8, <2>2, <2>3 DEF WithStack
  <2>6. b \in AnalysisSet /\ Fields(b, an.out, an.i, an.kept, an.toclear, s, n)
    BY <1>5, <2>4, <2>5, FieldStack
  <2>7. b.out = an.out /\ b.i = an.i /\ b.kept = an.kept /\ b.toclear = an.toclear /\ b.top = n /\ b.stack = s
    BY <2>6 DEF Fields
  <2>8. KeptPart(b)
    BY <1>5, <2>7 DEF KeptPart
  <2>9. b.i > 1 /\ b.i <= Len(an.out) + 1 /\ b.i <= Len(an.out)
    BY <1>3, <1>5, <2>7
  <2>10. b.top <= Len(b.toclear) /\ \A v \in seen' : \E j \in DOMAIN b.toclear : var(b.toclear[j]) = v
    BY <1>3, <1>5, <2>3, <2>7
  <2>11. \A j \in DOMAIN b.stack :
           b.stack[j] \in Lit /\ value(b.stack[j]) = l_False /\ reason(var(b.stack[j])) # CRef_Undef
    BY <1>8, <2>1, <2>4, <2>7
  <2> QED
    BY <1>2, <1>3, <1>6, <1>8, <2>6, <2>7, <2>8, <2>9, <2>10, <2>11, MinimizeEnds
<1> QED
  BY <1>4, <1>7, <1>8

(***************************************************************************)
(* litRedundant looks at a literal: the literals of its reason are false.  *)
(***************************************************************************)
AtLiteral(c, new, u) ==
  /\ pc = "litRedundant" /\ an.stack # <<>>
  /\ c = lits(reason(var(Last(an.stack)))) /\ new = Unseen(c, 2) /\ u = Selected(c, new)

LEMMA LiteralClause ==
  ASSUME Structure, NEW c, NEW new, NEW u, AtLiteral(c, new, u)
  PROVE  /\ u \in Seq(Lit)
         /\ \A j \in DOMAIN u : value(u[j]) = l_False /\ \E k \in new : u[j] = c[k]
         /\ \A k \in new : var(c[k]) \in Var /\ \E j \in DOMAIN u : u[j] = c[k]
<1>1. VarsType /\ AssignmentType /\ ScratchType /\ Trail
  BY DEF Structure, TypeOK
<1>2. Tables(Var, Lit, assigns, vardata, trail, trail_lim) /\ TrailIn(assigns, vardata, trail, trail_lim)
  BY <1>1, Assigned DEF Trail
<1>3. pc = "litRedundant" /\ an.stack # <<>> /\ new = Unseen(c, 2) /\ u = Selected(c, new)
  BY DEF AtLiteral
<1>4. PICK q : q = Last(an.stack)
  OBVIOUS
<1>5. c = lits(reason(var(q)))
  BY <1>4 DEF AtLiteral
<1>6. q \in Lit /\ value(q) = l_False /\ reason(var(q)) # CRef_Undef
  <2>1. PICK s : s = an.stack
    OBVIOUS
  <2>2. s \in Seq(Lit \cup {-1}) /\ s # <<>>
    BY <1>1, <1>3, <2>1 DEF ScratchType, AnalysisSet
  <2>3. Len(s) \in DOMAIN s /\ q = s[Len(s)]
    BY <1>4, <2>1, <2>2 DEF Last
  <2> QED
    BY <1>3, <2>1, <2>3, MinimizeFacts
<1>7. q \in Nat /\ neg(q) \in Lit /\ neg(q) \in Nat /\ var(neg(q)) = var(q) /\ sign(neg(q)) = 1 - sign(q)
  BY <1>1, <1>6, Literals, LitFacts
<1>8. assigns[var(q)] \in 0 .. 2 /\ assigns[var(q)] = 1 - sign(q)
  <2>1. assigns[var(q)] \in 0 .. 2
    BY <1>2, <1>6, OnTrail
  <2> QED
    BY <1>6, <1>7, <2>1, ValueIs
<1>9. PICK k \in DOMAIN trail : trail[k] = neg(q)
  BY <1>2, <1>6, <1>8, OnTrail
<1>10. PICK r : r = reason(var(q))
  OBVIOUS
<1>11. r = reason(var(trail[k])) /\ r # CRef_Undef /\ c = lits(r)
  BY <1>5, <1>6, <1>7, <1>9, <1>10
<1>12. \A j \in 2 .. Len(c) : value(c[j]) = l_False
  BY <1>11, ReasonFalse
<1>13. c \in Seq(Lit)
  <2>1. Len(c) >= 2 /\ r \in Live
    BY <1>1, <1>11 DEF Structure, Reasoned, ReasonedIn, Clauses, ClausesIn, reason, lits
  <2>2. r \in DOMAIN ca /\ ca \in Seq(ClauseSet)
    BY <2>1 DEF Structure, TypeOK, DatabaseType, Live
  <2>3. ca[r] \in ClauseSet
    BY <2>2
  <2> QED
    BY <1>11, <2>3 DEF ClauseSet, lits
<1>14. new \subseteq DOMAIN c /\ \A i \in new : i \in 2 .. Len(c)
  BY <1>3, <1>13 DEF Unseen
<1>15. u \in Seq(Lit) /\ \E a : Picks(c, new, u, a)
  BY <1>3, <1>13, <1>14, SelectedIs
<1>16. PICK a : Picks(c, new, u, a)
  BY <1>15
<1>17. \A j \in DOMAIN u : \E i \in new : u[j] = c[i]
  BY <1>16 DEF Picks
<1>18. \A i \in new : \E j \in DOMAIN u : u[j] = c[i]
  BY <1>16 DEF Picks
<1>19. \A i \in new : value(c[i]) = l_False
  BY <1>12, <1>14
<1>20. \A j \in DOMAIN u : value(u[j]) = l_False
  BY <1>17, <1>19
<1>21. \A i \in new : var(c[i]) \in Var
  <2>1. \A i \in new : c[i] \in Lit
    BY <1>13, <1>14
  <2> QED
    BY <1>1, <2>1, Literals
<1> QED
  BY <1>15, <1>17, <1>18, <1>20, <1>21

LEMMA PrefixIs ==
  ASSUME NEW T, NEW s \in Seq(T), NEW m \in Nat, m <= Len(s), NEW t, t = SubSeq(s, 1, m)
  PROVE  t \in Seq(T) /\ Len(t) = m /\ (\A k \in DOMAIN t : k \in DOMAIN s /\ k <= m /\ t[k] = s[k])
         /\ \A k \in DOMAIN s : k <= m => k \in DOMAIN t
OBVIOUS

(***************************************************************************)
(* A turn of litRedundant.                                                 *)
(***************************************************************************)
LEMMA LitRedundantStep == ASSUME Structure, litRedundant PROVE Structure'
<1>1. PICK b : b = an'
  OBVIOUS
<1>2. PICK c : c = lits(reason(var(Last(an.stack))))
  OBVIOUS
<1>3. PICK new : new = Unseen(c, 2)
  OBVIOUS
<1>4. PICK u : u = Selected(c, new)
  OBVIOUS
<1>5. PICK t : t = an.toclear
  OBVIOUS
<1>6. /\ pc = "litRedundant" /\ pc \in {"minimize", "litRedundant"}
      /\ UNCHANGED <<input, db, watches, assignment, qhead, stack, ws>> /\ confl' = confl
  BY DEF litRedundant
<1>7. /\ an \in AnalysisSet /\ an.i \in Nat /\ an.i > 1 /\ an.i <= Len(an.out) /\ Len(an.out) \in Nat /\ KeptPart(an)
      /\ an.top <= Len(t) /\ (\A v \in seen : \E j \in DOMAIN t : var(t[j]) = v)
      /\ \A j \in DOMAIN an.stack :
           an.stack[j] \in Lit /\ value(an.stack[j]) = l_False /\ reason(var(an.stack[j])) # CRef_Undef
  BY <1>5, <1>6, MinimizeFacts
<1>8. seen \subseteq Var /\ t \in Seq(Lit \cup {-1}) /\ an.top \in Nat /\ an.stack \in Seq(Lit \cup {-1})
  BY <1>5, <1>7 DEF Structure, TypeOK, ScratchType, AnalysisSet
<1>9. CASE an.stack = <<>>
  <2>1. b = Drop(an) /\ pc' = "minimize" /\ seen' = seen
    BY <1>1, <1>9 DEF litRedundant
  <2>2. b \in AnalysisSet /\ KeptPart(b)
        /\ \E n \in Nat : n = an.i + 1 /\ Fields(b, an.out, n, b.kept, an.toclear, an.stack, an.top)
    BY <1>6, <1>7, <2>1, KeepOrDrop
  <2>3. PICK n \in Nat : n = an.i + 1 /\ Fields(b, an.out, n, b.kept, an.toclear, an.stack, an.top)
    BY <2>2
  <2>4. b.out = an.out /\ b.i = n /\ b.toclear = t /\ b.top = an.top
    BY <1>5, <2>3 DEF Fields
  <2>5. b.i > 1 /\ b.i <= Len(an.out) + 1
    BY <1>7, <2>3, <2>4
  <2>6. b.top <= Len(b.toclear) /\ \A v \in seen' : \E j \in DOMAIN b.toclear : var(b.toclear[j]) = v
    BY <1>7, <2>1, <2>4
  <2> QED
    BY <1>1, <1>6, <1>8, <2>1, <2>2, <2>4, <2>5, <2>6, MinimizeEnds
<1>10. CASE an.stack # <<>>
  <2> DEFINE stuck(q) == reason(var(q)) = CRef_Undef \/ abstractLevel(var(q)) \notin an.levels
  <2>0. AtLiteral(c, new, u)
    BY <1>2, <1>3, <1>4, <1>6, <1>10 DEF AtLiteral
  <2>1. /\ u \in Seq(Lit)
        /\ \A j \in DOMAIN u : value(u[j]) = l_False /\ \E k \in new : u[j] = c[k]
        /\ \A k \in new : var(c[k]) \in Var /\ \E j \in DOMAIN u : u[j] = c[k]
    BY <2>0, LiteralClause
  <2>2. IF \E k \in new : stuck(c[k])
        THEN /\ seen' = seen \ {var(t[j]) : j \in an.top + 1 .. Len(t)}
             /\ b = Keep([an EXCEPT !.toclear = SubSeq(@, 1, an.top), !.stack = <<>>])
             /\ pc' = "minimize"
        ELSE /\ seen' = seen \cup {var(c[k]) : k \in new}
             /\ b = [an EXCEPT !.stack = Front(@) \o u, !.toclear = @ \o u]
             /\ pc' = pc
    BY <1>1, <1>2, <1>3, <1>4, <1>5, <1>10 DEF litRedundant
  <2> HIDE DEF stuck
  <2>3. CASE \E k \in new : stuck(c[k])
    <3>1. PICK z, e : z = SubSeq(t, 1, an.top) /\ e = <<>>
      OBVIOUS
    <3>2. z \in Seq(Lit \cup {-1}) /\ Len(z) = an.top /\ \A k \in DOMAIN t : k <= an.top => k \in DOMAIN z /\ z[k] = t[k]
      BY <1>7, <1>8, <3>1, PrefixIs
    <3>3. PICK a : a = [an EXCEPT !.stack = e, !.toclear = z]
      OBVIOUS
    <3>4. b = Keep(a) /\ pc' = "minimize" /\ seen' = seen \ {var(t[j]) : j \in an.top + 1 .. Len(t)}
      <4>1. [an EXCEPT !.toclear = z, !.stack = e] = a
        BY <1>7, <3>3 DEF AnalysisSet
      <4> QED
        BY <1>5, <2>2, <2>3, <3>1, <4>1
    <3>5. WithToclear(an, e, z, a)
      BY <3>3 DEF WithToclear
    <3>6. a \in AnalysisSet /\ Fields(a, an.out, an.i, an.kept, z, e, an.top)
      <4>1. e \in Seq(Lit \cup {-1})
        BY <3>1
      <4> QED
        BY <1>7, <3>2, <3>5, <4>1, FieldToclear
    <3>7. a.out = an.out /\ a.kept = an.kept /\ a.i = an.i /\ a.toclear = z /\ a.top = an.top
      BY <3>6 DEF Fields
    <3>8. b \in AnalysisSet /\ KeptPart(b)
          /\ \E n \in Nat : n = an.i + 1 /\ Fields(b, an.out, n, b.kept, a.toclear, a.stack, a.top)
      BY <1>6, <1>7, <3>4, <3>6, <3>7, KeepOrDrop
    <3>9. PICK n \in Nat : n = an.i + 1 /\ Fields(b, an.out, n, b.kept, a.toclear, a.stack, a.top)
      BY <3>8
    <3>10. b.out = an.out /\ b.i = n /\ b.toclear = z /\ b.top = an.top
      BY <3>7, <3>9 DEF Fields
    <3>11. b.i > 1 /\ b.i <= Len(an.out) + 1
      BY <1>7, <3>9, <3>10
    <3>12. b.top <= Len(b.toclear)
      BY <1>8, <3>2, <3>10
    <3>13. \A v \in seen' : \E j \in DOMAIN b.toclear : var(b.toclear[j]) = v
      <4> SUFFICES ASSUME NEW v \in seen' PROVE \E j \in DOMAIN z : var(z[j]) = v
        BY <3>10
      <4>1. v \in seen /\ \A j \in an.top + 1 .. Len(t) : var(t[j]) # v
        BY <3>4
      <4>2. PICK j \in DOMAIN t : var(t[j]) = v
        BY <1>7, <4>1
      <4>3. j <= an.top
        <5>1. j \in Nat /\ j <= Len(t) /\ Len(t) \in Nat
          BY <1>8
        <5>2. j \notin an.top + 1 .. Len(t)
          BY <4>1, <4>2
        <5> QED
          BY <1>8, <5>1, <5>2
      <4> QED
        BY <3>2, <4>2, <4>3
    <3>14. seen' \subseteq Var
      BY <1>8, <3>4
    <3> QED
      BY <1>1, <1>6, <3>4, <3>8, <3>10, <3>11, <3>12, <3>13, <3>14, MinimizeEnds
  <2>4. CASE ~ \E k \in new : stuck(c[k])
    <3>1. PICK f : f = Front(an.stack)
      OBVIOUS
    <3>2. PICK T : T = Lit \cup {-1}
      OBVIOUS
    <3>3. u \in Seq(T) /\ t \in Seq(T) /\ an.stack \in Seq(T)
      BY <1>8, <2>1, <3>2
    <3>4. f \in Seq(T) /\ \A k \in DOMAIN f : k \in DOMAIN an.stack /\ f[k] = an.stack[k]
      <4>1. PICK m \in Nat : m = Len(an.stack) - 1
        <5>1. PICK s : s = an.stack
          OBVIOUS
        <5>2. s \in Seq(T) /\ s # <<>>
          BY <1>10, <3>3, <5>1
        <5>3. Len(s) \in Nat /\ Len(s) > 0
          BY <5>2
        <5> QED
          BY <5>1, <5>3
      <4>2. f = SubSeq(an.stack, 1, m) /\ m <= Len(an.stack)
        BY <3>1, <3>3, <4>1 DEF Front
      <4> QED
        BY <3>3, <4>2, PrefixIs
    <3>5. PICK y, z : y = f \o u /\ z = t \o u
      OBVIOUS
    <3>6. y \in Seq(T) /\ \A k \in DOMAIN y : (k \in DOMAIN f /\ y[k] = f[k]) \/ \E j \in DOMAIN u : y[k] = u[j]
      BY <3>3, <3>4, <3>5, ConcatIs
    <3>7. /\ z \in Seq(T) /\ Len(z) = Len(t) + Len(u) /\ (\A k \in DOMAIN t : k \in DOMAIN z)
          /\ (\A k \in 1 .. Len(t) : z[k] = t[k])
          /\ \A j \in DOMAIN u : \E k \in DOMAIN z : z[k] = u[j]
      <4>1. z \in Seq(T) /\ Len(z) = Len(t) + Len(u)
        BY <3>3, <3>5, ConcatIs
      <4>2. \A k \in 1 .. Len(t) : z[k] = t[k]
        BY <3>3, <3>5, ConcatIs
      <4>4. \A k \in DOMAIN t : k \in DOMAIN z
        <5>1. Len(t) \in Nat /\ DOMAIN t = 1 .. Len(t) /\ Len(u) \in Nat
          BY <3>3
        <5>2. DOMAIN z = 1 .. Len(z)
          BY <4>1
        <5> QED
          BY <4>1, <5>1, <5>2
      <4>3. \A j \in DOMAIN u : \E k \in DOMAIN z : z[k] = u[j]
        <5>1. \A j \in 1 .. Len(u) : z[Len(t) + j] = u[j]
          BY <3>3, <3>5, ConcatIs
        <5>2. Len(t) \in Nat /\ DOMAIN u = 1 .. Len(u) /\ Len(u) \in Nat
          BY <3>3
        <5>3. DOMAIN z = 1 .. Len(z)
          BY <4>1
        <5>4. \A j \in DOMAIN u : Len(t) + j \in DOMAIN z
          BY <4>1, <5>2, <5>3
        <5> QED
          BY <5>1, <5>2, <5>4
      <4> QED
        BY <4>1, <4>2, <4>3, <4>4
    <3>8. Len(t) \in Nat /\ DOMAIN t = 1 .. Len(t) /\ Len(u) \in Nat
      BY <3>3
    <3>9. WithToclear(an, y, z, b) /\ pc' = "litRedundant" /\ seen' = seen \cup {var(c[k]) : k \in new}
      BY <1>5, <1>6, <2>2, <2>4, <3>1, <3>5 DEF WithToclear
    <3>10. b \in AnalysisSet /\ Fields(b, an.out, an.i, an.kept, z, y, an.top)
      <4>1. y \in Seq(Lit \cup {-1}) /\ z \in Seq(Lit \cup {-1})
        BY <3>2, <3>6, <3>7
      <4> QED
        BY <1>7, <3>9, <4>1, FieldToclear
    <3>11. b.out = an.out /\ b.kept = an.kept /\ b.i = an.i /\ b.toclear = z /\ b.stack = y /\ b.top = an.top
      BY <3>10 DEF Fields
    <3>12. KeptPart(b)
      BY <1>7, <3>11 DEF KeptPart
    <3>13. b.i > 1 /\ b.i <= Len(an.out) + 1 /\ b.i <= Len(an.out)
      BY <1>7, <3>11
    <3>14. b.top <= Len(b.toclear)
      BY <1>7, <1>8, <3>7, <3>8, <3>11
    <3>15. \A v \in seen' : \E j \in DOMAIN b.toclear : var(b.toclear[j]) = v
      <4> SUFFICES ASSUME NEW v \in seen' PROVE \E j \in DOMAIN z : var(z[j]) = v
        BY <3>11
      <4>1. CASE v \in seen
        BY <1>7, <3>7, <3>8, <4>1
      <4>2. CASE \E k \in new : v = var(c[k])
        <5>1. PICK k \in new : v = var(c[k])
          BY <4>2
        <5>2. PICK j \in DOMAIN u : u[j] = c[k]
          BY <2>1
        <5>3. PICK l \in DOMAIN z : z[l] = u[j]
          BY <3>7
        <5> QED
          BY <5>1, <5>2, <5>3
      <4> QED
        BY <3>9, <4>1, <4>2
    <3>16. seen' \subseteq Var
      BY <1>8, <2>1, <3>9
    <3>17. \A j \in DOMAIN u : u[j] \in Lit /\ value(u[j]) = l_False /\ reason(var(u[j])) # CRef_Undef
      <4> SUFFICES ASSUME NEW j \in DOMAIN u
                   PROVE u[j] \in Lit /\ value(u[j]) = l_False /\ reason(var(u[j])) # CRef_Undef
        OBVIOUS
      <4>1. PICK k \in new : u[j] = c[k]
        BY <2>1
      <4>2. reason(var(c[k])) # CRef_Undef
        BY <2>4 DEF stuck
      <4>3. u[j] \in Lit /\ value(u[j]) = l_False
        BY <2>1
      <4> QED
        BY <4>1, <4>2, <4>3
    <3>18. \A j \in DOMAIN b.stack :
             b.stack[j] \in Lit /\ value(b.stack[j]) = l_False /\ reason(var(b.stack[j])) # CRef_Undef
      <4> SUFFICES ASSUME NEW j \in DOMAIN y
                   PROVE y[j] \in Lit /\ value(y[j]) = l_False /\ reason(var(y[j])) # CRef_Undef
        BY <3>11
      <4>1. CASE j \in DOMAIN f /\ y[j] = f[j]
        BY <1>7, <3>4, <4>1
      <4>2. CASE \E k \in DOMAIN u : y[j] = u[k]
        BY <3>17, <4>2
      <4> QED
        BY <3>6, <4>1, <4>2
    <3> QED
      BY <1>1, <1>6, <3>9, <3>10, <3>11, <3>12, <3>13, <3>14, <3>15, <3>16, <3>18, MinimizeEnds
  <2> QED
    BY <2>3, <2>4
<1> QED
  BY <1>9, <1>10

(***************************************************************************)
(* learn: the clause o of the literals s kept, with a literal of the       *)
(* highest of their other levels, bt, in position 2.                       *)
(***************************************************************************)
AtLearn(s, o, bt) ==
  /\ pc = "minimize" /\ an.i > Len(an.out) /\ s = an.kept
  /\ o = IF Len(s) = 1 THEN s ELSE Exchanged(s, 2, Highest(s))
  /\ bt = IF Len(s) = 1 THEN 0 ELSE level(var(o[2]))

LEMMA KeptLiterals ==
  ASSUME Structure, NEW s, NEW o, NEW bt, AtLearn(s, o, bt)
  PROVE  /\ s \in Seq(Lit) /\ Len(s) >= 1 /\ Len(s) \in Nat /\ DOMAIN s = 1 .. Len(s) /\ Distinct(s)
         /\ \A j \in 1 .. Len(s) : s[j] \in Lit /\ value(s[j]) = l_False /\ level(var(s[j])) \in Nat
         /\ \A j \in 2 .. Len(s) : level(var(s[j])) < decisionLevel
         /\ level(var(s[1])) = decisionLevel /\ decisionLevel > 0 /\ decisionLevel \in Nat
<1>1. VarsType /\ AssignmentType /\ ScratchType
  BY DEF Structure, TypeOK
<1>2. pc = "minimize" /\ an.i > Len(an.out) /\ s = an.kept
  BY DEF AtLearn
<1>3. /\ an \in AnalysisSet /\ Below(an.out) /\ an.out[1] \in Lit /\ value(an.out[1]) = l_False
      /\ level(var(an.out[1])) = decisionLevel /\ an.i \in Nat /\ an.i <= Len(an.out) + 1
      /\ Len(an.out) \in Nat /\ KeptPart(an) /\ decisionLevel > 0
  BY <1>2, MinimizeFacts
<1>4. s \in Seq(Lit \cup {-1}) /\ Len(s) \in Nat /\ DOMAIN s = 1 .. Len(s) /\ decisionLevel \in Nat
  BY <1>1, <1>2, <1>3 DEF AnalysisSet, decisionLevel, AssignmentType
<1>5. /\ Len(s) > 0 /\ s[1] = an.out[1]
      /\ \A j \in 2 .. Len(s) : \E k \in 2 .. an.i - 1 : s[j] = an.out[k]
      /\ \A j, k \in 2 .. Len(s) : var(s[j]) = var(s[k]) => j = k
  BY <1>2, <1>3 DEF KeptPart
<1>6. ASSUME NEW j \in 2 .. Len(s)
      PROVE s[j] \in Lit /\ value(s[j]) = l_False /\ level(var(s[j])) < decisionLevel
  <2>1. PICK k \in 2 .. an.i - 1 : s[j] = an.out[k]
    BY <1>5
  <2>2. k \in 2 .. Len(an.out)
    BY <1>3, <2>1
  <2> QED
    BY <1>3, <2>1, <2>2 DEF Below, FalseBelow
<1>7. \A j \in 1 .. Len(s) : j = 1 \/ j \in 2 .. Len(s)
  BY <1>4
<1>8. \A j \in 1 .. Len(s) : s[j] \in Lit /\ value(s[j]) = l_False
  BY <1>3, <1>5, <1>6, <1>7
<1>9. \A j \in 1 .. Len(s) : level(var(s[j])) \in Nat
  BY <1>1, <1>8, Literals DEF level, AssignmentType
<1>10. s \in Seq(Lit)
  BY <1>4, <1>8
<1>11. \A j \in 2 .. Len(s) : var(s[j]) # var(s[1])
  <2>1. level(var(s[1])) = decisionLevel
    BY <1>3, <1>5
  <2> QED
    BY <1>4, <1>6, <2>1
<1>12. Distinct(s)
  <2> SUFFICES ASSUME NEW j \in 1 .. Len(s), NEW k \in 1 .. Len(s), var(s[j]) = var(s[k]) PROVE j = k
    BY <1>4 DEF Distinct
  <2> QED
    BY <1>5, <1>7, <1>11
<1> QED
  BY <1>3, <1>4, <1>5, <1>6, <1>8, <1>9, <1>10, <1>12

LEMMA HighestIs ==
  ASSUME NEW s, Len(s) \in Nat, Len(s) >= 2, \A j \in 1 .. Len(s) : level(var(s[j])) \in Nat,
         NEW d \in Nat, \A j \in 2 .. Len(s) : level(var(s[j])) <= d
  PROVE  /\ Highest(s) \in 2 .. Len(s)
         /\ \A j \in 2 .. Len(s) : level(var(s[j])) <= level(var(s[Highest(s)]))
<1> DEFINE f(k) == level(var(s[k]))
           I == 2 .. Len(s)
           T == {f(k) : k \in I}
           B == {k \in I : \A j \in I : f(j) <= f(k)}
<1>1. I \subseteq Nat /\ I # {} /\ \A k \in I : f(k) \in Nat /\ f(k) <= d
  <2>1. \A k \in I : k \in 1 .. Len(s)
    OBVIOUS
  <2>2. 2 \in I /\ I \subseteq Nat
    OBVIOUS
  <2> QED
    BY <2>1, <2>2
<1> HIDE DEF f, I
<1>2. T \subseteq Nat /\ T # {} /\ \A y \in T : y <= d
  BY <1>1
<1>3. \E k \in I : \A j \in I : f(j) <= f(k)
  <2>1. PICK x \in T : \A y \in T : y <= x
    BY <1>2, NatMax
  <2>2. PICK k \in I : x = f(k)
    OBVIOUS
  <2> QED
    BY <2>1, <2>2
<1>4. B \subseteq Nat /\ B # {}
  BY <1>1, <1>3
<1>5. Min(B) \in B
  BY <1>4, MinIs
<1>6. Highest(s) = Min(B)
  BY DEF Highest, f, I
<1> QED
  BY <1>5, <1>6 DEF f, I

LEMMA LearntClause ==
  ASSUME Structure, NEW s, NEW o, NEW bt, AtLearn(s, o, bt)
  PROVE  /\ o \in Seq(Lit) /\ Len(o) >= 1 /\ Len(o) \in Nat /\ DOMAIN o = 1 .. Len(o) /\ Distinct(o)
         /\ Len(o) = Len(s) /\ bt \in Nat /\ bt < decisionLevel /\ (Len(s) = 1 => bt = 0)
         /\ o[1] \in Lit /\ value(o[1]) = l_False /\ level(var(o[1])) = decisionLevel
         /\ \A j \in 2 .. Len(o) : o[j] \in Lit /\ value(o[j]) = l_False /\ level(var(o[j])) <= bt
<1>1. /\ s \in Seq(Lit) /\ Len(s) >= 1 /\ Len(s) \in Nat /\ DOMAIN s = 1 .. Len(s) /\ Distinct(s)
      /\ \A j \in 1 .. Len(s) : s[j] \in Lit /\ value(s[j]) = l_False /\ level(var(s[j])) \in Nat
      /\ \A j \in 2 .. Len(s) : level(var(s[j])) < decisionLevel
      /\ level(var(s[1])) = decisionLevel /\ decisionLevel > 0 /\ decisionLevel \in Nat
  BY KeptLiterals
<1>2. PICK n \in Nat : n = Len(s)
  BY <1>1
<1>3. CASE Len(s) = 1
  <2>1. o = s /\ bt = 0
    BY <1>3 DEF AtLearn
  <2>5. Len(o) = 1
    BY <1>3, <2>1
  <2>2. (\A j \in 2 .. Len(o) : FALSE) /\ 1 \in 1 .. Len(s)
    BY <1>3, <2>5
  <2>3. s[1] \in Lit /\ value(s[1]) = l_False
    BY <1>1, <2>2
  <2>4. 0 \in Nat /\ 0 < decisionLevel
    BY <1>1
  <2> QED
    BY <1>1, <1>3, <2>1, <2>2, <2>3, <2>4
<1>4. CASE Len(s) # 1
  <2>1. PICK m : m = Highest(s)
    OBVIOUS
  <2>2. n >= 2
    BY <1>1, <1>2, <1>4
  <2>3. m \in 2 .. n /\ \A j \in 2 .. n : level(var(s[j])) <= level(var(s[m]))
    <3>1. \A j \in 2 .. Len(s) : j \in 1 .. Len(s)
      BY <1>1
    <3>2. \A j \in 2 .. Len(s) : level(var(s[j])) <= decisionLevel
      BY <1>1, <3>1
    <3> QED
      BY <1>1, <1>2, <2>1, <2>2, <3>2, HighestIs
  <2>4. o = Exchanged(s, 2, m) /\ bt = level(var(o[2]))
    BY <1>4, <2>1 DEF AtLearn
  <2>5. 2 \in DOMAIN s /\ m \in DOMAIN s /\ 1 \in DOMAIN s /\ 1 # 2 /\ 1 # m /\ 2 \in 2 .. n
    BY <1>1, <1>2, <2>2, <2>3
  <2>11. s \in Seq(Lit) /\ Distinct(s) /\ o = Exchanged(s, 2, m) /\ 2 \in DOMAIN s /\ m \in DOMAIN s
    BY <1>1, <2>4, <2>5
  <2>12. o \in Seq(Lit) /\ Len(o) = Len(s) /\ DOMAIN o = DOMAIN s
    BY <2>11, ExchangedIs
  <2>13. o[2] = s[m] /\ o[m] = s[2] /\ \A k \in DOMAIN s : k # 2 /\ k # m => o[k] = s[k]
    BY <2>11, ExchangedIs
  <2>6. /\ o \in Seq(Lit) /\ Len(o) = Len(s) /\ DOMAIN o = DOMAIN s /\ o[2] = s[m] /\ o[m] = s[2]
        /\ \A k \in DOMAIN s : k # 2 /\ k # m => o[k] = s[k]
    BY <2>12, <2>13
  <2>7. Distinct(o)
    BY <2>11, ExchangedIs
  <2>8. o[1] = s[1] /\ bt = level(var(s[m])) /\ 1 \in 1 .. Len(s)
    BY <1>1, <1>2, <2>4, <2>5, <2>6
  <2>9. \A j \in 2 .. n : o[j] \in Lit /\ value(o[j]) = l_False /\ level(var(o[j])) <= bt
    <3>2. \A k \in 2 .. n : s[k] \in Lit /\ value(s[k]) = l_False /\ level(var(s[k])) <= bt
      <4>1. \A k \in 2 .. n : k \in 1 .. Len(s)
        BY <1>2
      <4> QED
        BY <1>1, <2>3, <2>8, <4>1
    <3> SUFFICES ASSUME NEW j \in 2 .. n PROVE \E k \in 2 .. n : o[j] = s[k]
      BY <3>2
    <3>1. j \in DOMAIN s
      BY <1>1, <1>2
    <3> QED
      BY <2>3, <2>5, <2>6, <3>1
  <2>10. bt \in Nat /\ bt < decisionLevel
    BY <1>1, <1>2, <2>3, <2>5, <2>8
  <2> QED
    BY <1>1, <1>2, <1>4, <2>6, <2>7, <2>8, <2>9, <2>10
<1> QED
  BY <1>3, <1>4

(***************************************************************************)
(* After the jump back to bt the first literal is unassigned, the others   *)
(* are still false.                                                        *)
(***************************************************************************)
LEMMA LearntUnit ==
  ASSUME Structure, NEW s, NEW o, NEW bt, AtLearn(s, o, bt)
  PROVE  /\ AssignsAt(bt)[var(o[1])] = l_Undef
         /\ \A j \in 2 .. Len(o) : \E m \in DOMAIN TrailAt(bt) : TrailAt(bt)[m] = neg(o[j])
<1>1. VarsType /\ AssignmentType /\ Trail /\ Reasoned
  BY DEF Structure, TypeOK
<1>2. Tables(Var, Lit, assigns, vardata, trail, trail_lim) /\ TrailIn(assigns, vardata, trail, trail_lim)
  BY <1>1, Assigned DEF Trail
<1>3. /\ bt \in Nat /\ bt < decisionLevel /\ decisionLevel \in Nat
      /\ o[1] \in Lit /\ value(o[1]) = l_False /\ level(var(o[1])) = decisionLevel
      /\ \A j \in 2 .. Len(o) : o[j] \in Lit /\ value(o[j]) = l_False /\ level(var(o[j])) <= bt
  BY LearntClause, KeptLiterals
<1>4. ASSUME NEW q \in Lit, value(q) = l_False
      PROVE \E k \in 1 .. Len(trail) : trail[k] = neg(q) /\ var(trail[k]) = var(q)
  <2>1. q \in Nat /\ var(neg(q)) = var(q)
    BY <1>1, Literals, LitFacts
  <2>2. assigns[var(q)] \in 0 .. 2
    BY <1>2, OnTrail
  <2>3. assigns[var(q)] = 1 - sign(q)
    BY <1>4, <2>1, <2>2, ValueIs
  <2>4. PICK k \in DOMAIN trail : trail[k] = neg(q)
    BY <1>2, <2>3, OnTrail
  <2>5. DOMAIN trail = 1 .. Len(trail)
    BY <1>1 DEF AssignmentType
  <2> QED
    BY <2>1, <2>4, <2>5
<1>5. PICK A, U, M : A = AssignsAt(bt) /\ U = TrailAt(bt) /\ M = SubSeq(trail_lim, 1, bt)
  OBVIOUS
<1>6. bt <= decisionLevel
  BY <1>3
<1>7. /\ Kept(bt) \in 0 .. Len(trail) /\ Len(U) = Kept(bt) /\ (\A k \in 1 .. Kept(bt) : U[k] = trail[k])
      /\ (\A k \in 1 .. Len(trail) : k <= Kept(bt) <=> level(var(trail[k])) <= bt)
      /\ (\A k \in 1 .. Len(trail) : k > Kept(bt) => A[var(trail[k])] = l_Undef)
  BY <1>1, <1>3, <1>5, <1>6, UndoState
<1>8. Tables(Var, Lit, A, vardata, U, M)
  BY <1>1, <1>3, <1>5, <1>6, UndoState
<1>9. Len(trail) \in Nat /\ DOMAIN U = 1 .. Len(U)
  BY <1>2, <1>8, TableFacts
<1>10. A[var(o[1])] = l_Undef
  <2>1. PICK k \in 1 .. Len(trail) : var(trail[k]) = var(o[1])
    BY <1>3, <1>4
  <2>2. ~(level(var(trail[k])) <= bt)
    BY <1>3, <2>1
  <2>3. k > Kept(bt)
    BY <1>7, <1>9, <2>2
  <2> QED
    BY <1>7, <2>1, <2>3
<1>11. ASSUME NEW j \in 2 .. Len(o) PROVE \E m \in DOMAIN U : U[m] = neg(o[j])
  <2>1. PICK k \in 1 .. Len(trail) : trail[k] = neg(o[j]) /\ var(trail[k]) = var(o[j])
    BY <1>3, <1>4
  <2>2. level(var(trail[k])) <= bt
    BY <1>3, <2>1
  <2>3. k \in 1 .. Kept(bt)
    BY <1>7, <1>9, <2>2
  <2> QED
    BY <1>7, <1>9, <2>1, <2>3
<1> QED
  BY <1>5, <1>10, <1>11
(***************************************************************************)
(* The learnt clause is recorded, and implies its first literal.           *)
(***************************************************************************)
LEMMA LearnStep == ASSUME Structure, learn PROVE Structure'
<1>1. /\ VarsType /\ AssignmentType /\ DatabaseType /\ ScratchType /\ Control /\ Working /\ Trail
      /\ Clauses /\ Conflict /\ Reasoned /\ Watches /\ Analysis /\ Minimization /\ Cleared
  BY DEF Structure, TypeOK
<1>2. PICK s : s = an.kept
  OBVIOUS
<1>3. PICK o : o = IF Len(an.kept) = 1 THEN an.kept
                   ELSE [an.kept EXCEPT ![2] = an.kept[Highest(an.kept)], ![Highest(an.kept)] = an.kept[2]]
  OBVIOUS
<1>4. PICK bt : bt = IF Len(an.kept) = 1 THEN 0 ELSE level(var(o[2]))
  OBVIOUS
<1>5. PICK n : n = Len(ca) + 1
  OBVIOUS
<1>6. PICK from : from = IF Len(an.kept) = 1 THEN CRef_Undef ELSE n
  OBVIOUS
<1>7. PICK A : A = AssignsAt(bt)
  OBVIOUS
<1>8. PICK U : U = TrailAt(bt)
  OBVIOUS
<1>9. PICK M : M = SubSeq(trail_lim, 1, bt)
  OBVIOUS
<1>10. PICK e : e = Enqueued(o[1], from, bt, A, vardata, U)
  OBVIOUS
<1>11. /\ pc = "minimize" /\ an.i > Len(an.out)
       /\ polarity' = Phases(bt) /\ order_heap' = order_heap \cup Undone(bt)
       /\ qhead' = (IF decisionLevel > bt THEN Kept(bt) ELSE qhead)
       /\ trail_lim' = SubSeq(trail_lim, 1, IF decisionLevel > bt THEN bt ELSE decisionLevel)
       /\ assigns' = e.assigns /\ vardata' = e.vardata /\ trail' = e.trail
       /\ IF Len(s) = 1 THEN UNCHANGED <<ca, learnts, watches>>
          ELSE ca' = Alloc(o, TRUE) /\ learnts' = learnts \cup {n} /\ watches' = Attached(o, n)
       /\ seen' = seen \ {var(an.toclear[j]) : j \in DOMAIN an.toclear}
       /\ an' = NoAnalysis /\ pc' = "propagate" /\ stack' = <<"search">>
       /\ ok' = ok /\ clauses' = clauses /\ dirty' = dirty /\ confl' = confl /\ ws' = ws
  <2>1. /\ pc = "minimize" /\ an.i > Len(an.out)
        /\ seen' = seen \ {var(an.toclear[j]) : j \in DOMAIN an.toclear}
        /\ an' = NoAnalysis /\ pc' = "propagate" /\ stack' = <<"search">>
        /\ ok' = ok /\ clauses' = clauses /\ dirty' = dirty /\ confl' = confl /\ ws' = ws
    BY DEF learn
  <2>2. cancelUntilRest(bt)
    BY <1>3, <1>4 DEF learn
  <2>3. uncheckedEnqueue(o[1], from, bt, AssignsAt(bt), vardata, TrailAt(bt))
    BY <1>3, <1>4, <1>5, <1>6 DEF learn
  <2>4. IF Len(an.kept) = 1 THEN UNCHANGED <<ca, learnts, watches>>
        ELSE ca' = Alloc(o, TRUE) /\ learnts' = learnts \cup {n} /\ attachClause(n, o)
    BY <1>3, <1>5 DEF learn
  <2>5. assigns' = e.assigns /\ vardata' = e.vardata /\ trail' = e.trail
    BY <1>7, <1>8, <1>10, <2>3 DEF uncheckedEnqueue
  <2>6. /\ polarity' = Phases(bt) /\ order_heap' = order_heap \cup Undone(bt)
        /\ qhead' = (IF decisionLevel > bt THEN Kept(bt) ELSE qhead)
        /\ trail_lim' = SubSeq(trail_lim, 1, IF decisionLevel > bt THEN bt ELSE decisionLevel)
    BY <2>2 DEF cancelUntilRest, Phases
  <2>7. IF Len(s) = 1 THEN UNCHANGED <<ca, learnts, watches>>
        ELSE ca' = Alloc(o, TRUE) /\ learnts' = learnts \cup {n} /\ watches' = Attached(o, n)
    BY <1>2, <2>4 DEF attachClause, Attached
  <2> QED
    BY <2>1, <2>5, <2>6, <2>7
<1>12. AtLearn(s, o, bt)
  BY <1>2, <1>3, <1>4, <1>11 DEF AtLearn, Exchanged
<1>13. /\ o \in Seq(Lit) /\ Len(o) >= 1 /\ Len(o) \in Nat /\ DOMAIN o = 1 .. Len(o) /\ Distinct(o)
       /\ Len(o) = Len(s) /\ bt \in Nat /\ bt < decisionLevel /\ (Len(s) = 1 => bt = 0) /\ o[1] \in Lit
  BY <1>12, LearntClause
<1>14. A[var(o[1])] = l_Undef /\ \A j \in 2 .. Len(o) : \E m \in DOMAIN U : U[m] = neg(o[j])
  BY <1>7, <1>8, <1>12, LearntUnit
<1>15. bt <= decisionLevel /\ decisionLevel > bt /\ decisionLevel \in Nat /\ trail_lim \in Seq(Nat)
  BY <1>1, <1>13 DEF decisionLevel, AssignmentType
<1>16. /\ Tables(Var, Lit, A, vardata, U, M) /\ TrailIn(A, vardata, U, M) /\ ReasonedIn(ca, Live, vardata, U, M)
       /\ Len(M) = bt /\ (\A l \in 1 .. bt : M[l] = trail_lim[l])
  BY <1>1, <1>7, <1>8, <1>9, <1>13, <1>15, UndoState
<1>17. Kept(bt) \in Nat /\ Len(U) = Kept(bt) /\ Undone(bt) \subseteq Var
  <2>1. Kept(bt) \in 0 .. Len(trail) /\ Len(U) = Kept(bt) /\ Undone(bt) \subseteq Var
    BY <1>1, <1>7, <1>8, <1>9, <1>13, <1>15, UndoState
  <2>2. Len(trail) \in Nat
    BY <1>1 DEF AssignmentType
  <2> QED
    BY <2>1, <2>2
<1>18. Phases(bt) \in [Var -> 0 .. 1]
  BY <1>1, <1>13, <1>15, PhasesType
<1>19. ca \in Seq(ClauseSet) /\ n \in Nat /\ n # CRef_Undef /\ from \in Nat
  BY <1>1, <1>5, <1>6 DEF DatabaseType, CRef_Undef
<1>20. ws = NoList /\ watches \in [Lit -> Seq(WatcherSet)] /\ Lit \subseteq Nat
  BY <1>1, <1>11, Literals DEF Working, DatabaseType
<1>21. WatchesIn(watches, ca, Live, dirty)
  <2>1. Lists = watches
    BY <1>20, ListsIdle DEF Lists
  <2> QED
    BY <1>1, <2>1 DEF Watches
<1>22. /\ ca' \in Seq(ClauseSet) /\ DOMAIN ca \subseteq DOMAIN ca' /\ learnts' \subseteq DOMAIN ca'
       /\ watches' \in [Lit -> Seq(WatcherSet)] /\ WatchesIn(watches', ca', Live', dirty) /\ ClausesIn(ca', Live')
       /\ ReasonedIn(ca', Live', vardata, U, M)
       /\ Len(s) # 1 => from \in Live' /\ ca'[from].lits = o
  <2>1. CASE Len(s) = 1
    <3>1. ca' = ca /\ watches' = watches /\ learnts' = learnts /\ Live' = Live
      BY <1>11, <2>1 DEF Live
    <3> QED
      BY <1>1, <1>16, <1>21, <2>1, <3>1 DEF DatabaseType, Clauses
  <2>2. CASE Len(s) # 1
    <3>1. Len(o) >= 2
      <4>1. PICK l \in Nat : l = Len(o)
        BY <1>13
      <4>2. l >= 1 /\ l # 1
        BY <1>13, <2>2, <4>1
      <4> QED
        BY <4>1, <4>2
    <3>0. o \in Seq(Lit) /\ Len(o) >= 2 /\ Distinct(o) /\ VarsType /\ DatabaseType /\ Clauses
          /\ WatchesIn(watches, ca, Live, dirty) /\ TRUE \in BOOLEAN
      BY <1>1, <1>13, <1>21, <3>1
    <3>2. PICK B : B = Alloc(o, TRUE)
      OBVIOUS
    <3>3. PICK X : X = Attached(o, n)
      OBVIOUS
    <3>4. PICK R : R = Live \cup {n}
      OBVIOUS
    <3>5. /\ n \in DOMAIN B /\ DOMAIN ca \subseteq DOMAIN B /\ B \in Seq(ClauseSet) /\ B[n].lits = o
          /\ X \in [Lit -> Seq(WatcherSet)] /\ WatchesIn(X, B, R, dirty) /\ ClausesIn(B, R)
      <4>1. /\ n \in DOMAIN B /\ DOMAIN ca \subseteq DOMAIN B /\ B \in Seq(ClauseSet)
            /\ X \in [Lit -> Seq(WatcherSet)] /\ WatchesIn(X, B, R, dirty) /\ ClausesIn(B, R)
        BY <1>5, <3>0, <3>2, <3>3, <3>4, NewClause
      <4>2. PICK x : x = [lits |-> o, learnt |-> TRUE, mark |-> 0]
        OBVIOUS
      <4>3. B = Append(ca, x) /\ n = Len(ca) + 1
        BY <1>5, <3>2, <4>2 DEF Alloc
      <4>4. B[n] = x
        BY <1>19, <4>3
      <4> QED
        BY <4>1, <4>2, <4>4
    <3>6. ReasonedIn(ca, Live, vardata, U, M) => ReasonedIn(B, R, vardata, U, M)
      BY <1>5, <3>0, <3>2, <3>3, <3>4, NewClause
    <3>7. ca' = B /\ watches' = X /\ learnts' = learnts \cup {n} /\ Live' = R
      BY <1>11, <2>2, <3>2, <3>3, <3>4 DEF Live
    <3>8. learnts \subseteq DOMAIN ca
      BY <1>1 DEF DatabaseType
    <3>9. learnts' \subseteq DOMAIN B /\ from = n /\ n \in R
      BY <1>2, <1>6, <2>2, <3>4, <3>5, <3>7, <3>8
    <3> QED
      BY <1>16, <3>5, <3>6, <3>7, <3>9
  <2> QED
    BY <2>1, <2>2
<1>23. PICK p : p = o[1]
  OBVIOUS
<1>24. PICK C, S : C = ca' /\ S = Live'
  OBVIOUS
<1>25. e = Enqueued(p, from, Len(M), A, vardata, U) /\ p \in Lit /\ A[var(p)] = l_Undef
  BY <1>10, <1>13, <1>14, <1>16, <1>23
<1>26. Tables(Var, Lit, e.assigns, e.vardata, e.trail, M) /\ TrailIn(e.assigns, e.vardata, e.trail, M)
  BY <1>16, <1>19, <1>25, TrailEnqueue
<1>27. \/ from = CRef_Undef /\ Len(M) = 0
       \/ from \in S /\ from # CRef_Undef /\ C[from].lits[1] = p
          /\ \A j \in 2 .. Len(C[from].lits) : \E m \in DOMAIN U : U[m] = neg(C[from].lits[j])
  <2>1. CASE Len(s) = 1
    BY <1>2, <1>6, <1>13, <1>16, <2>1
  <2>2. CASE Len(s) # 1
    BY <1>2, <1>6, <1>14, <1>19, <1>22, <1>23, <1>24, <2>2
  <2> QED
    BY <2>1, <2>2
<1>28. ReasonedIn(C, S, e.vardata, e.trail, M)
  <2>1. ReasonedIn(C, S, vardata, U, M)
    BY <1>22, <1>24
  <2> QED
    BY <1>16, <1>19, <1>25, <1>27, <2>1, ReasonedEnqueue
<1>29. Len(e.trail) = Len(U) + 1
  BY <1>13, <1>16, <1>19, <1>23, <1>25, EnqueuedIs
<1>30. trail_lim' = M /\ qhead' = Kept(bt) /\ decisionLevel' = bt /\ nAssigns' = Kept(bt) + 1
  BY <1>9, <1>11, <1>15, <1>16, <1>17, <1>29 DEF decisionLevel, nAssigns
<1>31. DOMAIN assigns' = DOMAIN assigns
  BY <1>1, <1>11, <1>26 DEF Tables, AssignmentType
<1>32. VarsType' /\ Var' = Var /\ Lit' = Lit
  BY <1>1, <1>31, SameVars
<1>33. AssignmentType'
  <2>1. order_heap' \subseteq Var
    BY <1>1, <1>11, <1>17 DEF AssignmentType
  <2> QED
    BY <1>11, <1>17, <1>18, <1>26, <1>30, <1>32, <2>1 DEF Tables, DataSet, AssignmentType
<1>34. Trail' /\ Reasoned'
  BY <1>11, <1>24, <1>26, <1>28, <1>30 DEF Trail, Reasoned
<1>35. DatabaseType'
  <2>1. clauses' \subseteq DOMAIN ca' /\ dirty' \subseteq Lit
    BY <1>1, <1>11, <1>22 DEF DatabaseType
  <2> QED
    BY <1>22, <1>32, <2>1, SameTypes DEF DatabaseType
<1>36. Clauses' /\ Watches'
  <2>1. ListsOf(Lit, watches', ws) = watches'
    BY <1>20, <1>22, ListsIdle
  <2>2. Lists' = watches'
    BY <1>11, <1>32, <2>1 DEF Lists
  <2> QED
    BY <1>11, <1>22, <2>2 DEF Clauses, Watches
<1>37. seen' = {}
  <2>1. \A v \in seen : \E j \in DOMAIN an.toclear : var(an.toclear[j]) = v
    BY <1>11, MinimizeFacts
  <2> QED
    BY <1>11, <2>1
<1>38. ScratchType'
  <2>1. NoAnalysis \in AnalysisSet'
    BY DEF NoAnalysis, AnalysisSet
  <2>2. ws' \in ListSet' /\ ok' \in BOOLEAN /\ confl' \in Nat
    BY <1>1, <1>11, <1>32, SameTypes DEF ScratchType
  <2> QED
    BY <1>11, <1>37, <2>1, <2>2 DEF ScratchType
<1>39. confl = CRef_Undef /\ ok
  BY <1>1, <1>11 DEF Control
<1>40. bt > 0 => M[bt] <= Kept(bt)
  <2> SUFFICES ASSUME bt > 0 PROVE M[bt] <= Kept(bt)
    OBVIOUS
  <2>1. bt \in DOMAIN trail_lim /\ bt + 1 \in DOMAIN trail_lim /\ bt < bt + 1 /\ bt \in 1 .. bt
    BY <1>13, <1>15 DEF decisionLevel
  <2>2. trail_lim[bt] < trail_lim[bt + 1]
    BY <1>1, <2>1 DEF Trail, TrailIn
  <2>3. Kept(bt) = trail_lim[bt + 1] /\ M[bt] = trail_lim[bt]
    BY <1>15, <1>16, <2>1 DEF Kept
  <2>4. trail_lim[bt] \in Nat /\ trail_lim[bt + 1] \in Nat
    BY <1>15, <2>1
  <2> QED
    BY <2>2, <2>3, <2>4
<1>41. Control'
  <2>1. decisionLevel' > 0 => trail_lim'[decisionLevel'] <= qhead'
    BY <1>30, <1>40
  <2>2. qhead' <= nAssigns'
    BY <1>17, <1>30
  <2> QED
    BY <1>11, <1>39, <2>1, <2>2 DEF Control, Returns, AtRoot, InPropagate, CRef_Undef
<1>42. Working' /\ Conflict' /\ Analysis' /\ Minimization' /\ Cleared'
  BY <1>11, <1>20, <1>37, <1>39 DEF Working, Conflict, Analysis, Minimization, InMinimize, Cleared, CRef_Undef, NoList
<1> QED
  BY <1>32, <1>33, <1>34, <1>35, <1>36, <1>38, <1>41, <1>42 DEF Structure, TypeOK

(***************************************************************************)
(* The solver starts empty.                                                *)
(***************************************************************************)
LEMMA StructureInit == ASSUME Init PROVE Structure
<1>1. /\ nVars = 0 /\ Var = {} /\ Lit = {}
  <2>1. DOMAIN assigns = {}
    BY DEF Init
  <2>2. nVars = 0
    BY <2>1, FS_EmptySet DEF nVars
  <2> QED
    BY <2>2 DEF Var, Lit
<1>2. VarsType
  BY <1>1 DEF VarsType, Init
<1>3. AssignmentType
  BY <1>1 DEF AssignmentType, Init
<1>4. DatabaseType
  <2>1. ca \in Seq(ClauseSet) /\ DOMAIN ca = {}
    BY DEF Init
  <2>2. watches \in [Lit -> Seq(WatcherSet)]
    BY <1>1 DEF Init
  <2> QED
    BY <2>1, <2>2 DEF DatabaseType, Init
<1>5. NoAnalysis \in AnalysisSet /\ NoList \in ListSet
  BY DEF NoAnalysis, AnalysisSet, NoList, ListSet
<1>6. ScratchType
  BY <1>5 DEF ScratchType, Init, CRef_Undef
<1>7. decisionLevel = 0 /\ nAssigns = 0 /\ DOMAIN trail = {} /\ DOMAIN trail_lim = {} /\ Live = {}
  BY DEF Init, decisionLevel, nAssigns, Live
<1>8. Control
  BY <1>7 DEF Control, Returns, AtRoot, InPropagate, Init
<1>9. Working /\ Conflict /\ Analysis /\ Minimization /\ Cleared
  BY DEF Working, Conflict, Analysis, Minimization, InMinimize, Cleared, Init
<1>10. Trail /\ Reasoned
  BY <1>7 DEF Trail, TrailIn, Reasoned, ReasonedIn, Init
<1>11. Clauses
  BY <1>7 DEF Clauses, ClausesIn
<1>12. Watches
  <2>1. Lists = [p \in {} |-> <<>>]
    BY <1>1 DEF Lists, ListsOf
  <2> QED
    BY <1>7, <2>1 DEF Watches, WatchesIn
<1> QED
  BY <1>2, <1>3, <1>4, <1>6, <1>8, <1>9, <1>10, <1>11, <1>12 DEF Structure, TypeOK

(***************************************************************************)
(* Every step keeps the invariant.                                         *)
(***************************************************************************)
LEMMA StructureNext == ASSUME Structure, [Next]_vars PROVE Structure'
<1>1. CASE UNCHANGED vars
  <2>1. /\ UNCHANGED input /\ UNCHANGED db /\ UNCHANGED watches /\ UNCHANGED assignment /\ qhead' = qhead
        /\ UNCHANGED scratch /\ pc' = pc /\ stack' = stack /\ confl' = confl /\ ws' = ws
    BY <1>1 DEF vars
  <2>2. /\ ok' = ok /\ clauses' = clauses /\ learnts' = learnts /\ ca' = ca /\ dirty' = dirty /\ watches' = watches
        /\ assigns' = assigns /\ vardata' = vardata /\ trail' = trail /\ trail_lim' = trail_lim
        /\ order_heap' = order_heap /\ polarity' = polarity /\ seen' = seen /\ an' = an
    BY <2>1 DEF db, assignment, scratch
  <2>3. /\ VarsType /\ AssignmentType /\ DatabaseType /\ ScratchType /\ Control /\ Working /\ Trail
        /\ Clauses /\ Conflict /\ Reasoned /\ Watches /\ Analysis /\ Minimization /\ Cleared
    BY DEF Structure, TypeOK
  <2>4. VarsType' /\ Var' = Var /\ Lit' = Lit
    BY <2>2, <2>3, SameVars
  <2>5. AssignmentType' /\ DatabaseType'
    BY <2>1, <2>2, <2>3, <2>4, SameAssignment, SameDatabase DEF AssignmentType
  <2>6. ScratchType'
    BY <2>1, <2>2, <2>3, <2>4, SameScratch DEF ScratchType
  <2>7. Trail' /\ Clauses' /\ Reasoned' /\ Watches'
    BY <2>1, <2>2, <2>3, <2>4, SameTrail, SameClauses, SameReasoned, SameWatches
  <2>8. Control'
    BY <2>1, <2>2, <2>3 DEF Control, Returns, AtRoot, InPropagate, decisionLevel, nAssigns
  <2>9. Working'
    BY <2>1, <2>2, <2>3 DEF Working, level, decisionLevel, nAssigns
  <2>10. Conflict'
    BY <2>1, <2>2, <2>3 DEF Conflict, Conflicting, Live, lits, value, level, decisionLevel
  <2>11. Analysis'
    BY <2>1, <2>2, <2>3, <2>4
       DEF Analysis, Conflicting, Live, lits, value, level, reason, decisionLevel, nAssigns, Below, FalseBelow, Here
  <2>12. Minimization'
    BY <2>1, <2>2, <2>3, <2>4
       DEF Minimization, InMinimize, value, level, reason, decisionLevel, Below, FalseBelow
  <2>13. Cleared'
    BY <2>1, <2>2, <2>3 DEF Cleared
  <2> QED
    BY <2>4, <2>5, <2>6, <2>7, <2>8, <2>9, <2>10, <2>11, <2>12, <2>13 DEF Structure, TypeOK
<1>2. CASE newVar \/ addClause \/ clauseAdded \/ check \/ checkFails \/ solve
  BY <1>2, NewVarStep, AddClauseStep, ClauseAddedStep, CheckStep, CheckFailsStep, SolveStep
<1>3. CASE propagate \/ nextFact \/ watcher \/ endOfList \/ propagated
  BY <1>3, PropagateStep, NextFactStep, WatcherStep, EndOfListStep, PropagatedStep
<1>4. CASE simplifyEnds \/ simplify \/ garbageCollect \/ noGarbage
  BY <1>4, SimplifyEndsStep, SimplifyStep, GarbageCollectStep, NoGarbageStep
<1>5. CASE conflictAtRoot \/ conflict \/ analyze \/ minimize \/ litRedundant \/ learn
  BY <1>5, ConflictAtRootStep, ConflictStep, AnalyzeStep, MinimizeStep, LitRedundantStep, LearnStep
<1>6. CASE restart \/ noConflict \/ reduceDB \/ noReduce \/ decide \/ modelFound \/ solveFails
  BY <1>6, RestartStep, NoConflictStep, ReduceDBStep, NoReduceStep, DecideStep, ModelFoundStep, SolveFailsStep
<1> QED
  BY <1>1, <1>2, <1>3, <1>4, <1>5, <1>6 DEF Next

(***************************************************************************)
(* The invariant holds of every state of the solver, for any calls.        *)
(***************************************************************************)
THEOREM StructureThm == Spec => []Structure
<1>1. Init => Structure
  BY StructureInit
<1>2. Structure /\ [Next]_vars => Structure'
  BY StructureNext
<1> QED
  BY <1>1, <1>2, PTL DEF Spec

-----------------------------------------------------------------------------
(***************************************************************************)
(* The trail says of each of its facts its position and its level.         *)
(***************************************************************************)
LEMMA TrailSays ==
  ASSUME Structure, NEW k \in DOMAIN trail, NEW v, v = var(trail[k])
  PROVE  Position(v) = k /\ value(trail[k]) = l_True /\ level(v) = LevelAt(k) /\ v \in Var /\ assigns[v] # l_Undef
<1>1. VarsType /\ AssignmentType /\ Trail
  BY DEF Structure, TypeOK
<1>2. Tables(Var, Lit, assigns, vardata, trail, trail_lim) /\ TrailIn(assigns, vardata, trail, trail_lim)
  BY <1>1, Assigned DEF Trail
<1>3. /\ Len(trail) \in Nat /\ DOMAIN trail = 1 .. Len(trail) /\ k \in Nat
      /\ trail[k] \in Lit /\ trail[k] \in Nat /\ v \in Var /\ vardata[v].level \in Nat
      /\ Len(trail_lim) \in Nat /\ DOMAIN trail_lim = 1 .. Len(trail_lim)
  BY <1>2, TableFacts
<1>4. Position(v) = k
  <2>1. \A j \in DOMAIN trail : var(trail[j]) = v => j = k
    BY <1>2 DEF TrailIn
  <2> QED
    BY <2>1 DEF Position
<1>5. value(trail[k]) = l_True /\ assigns[v] # l_Undef
  <2>1. assigns[v] = sign(trail[k]) /\ assigns[v] \in 0 .. 2 /\ sign(trail[k]) \in 0 .. 1
    BY <1>1, <1>2, <1>3, LitFacts DEF TrailIn, AssignmentType
  <2>2. value(trail[k]) = l_True
    BY <1>3, <2>1, ValueIs
  <2> QED
    BY <2>1, <2>2 DEF l_Undef
<1>6. PICK d \in Nat : d = vardata[v].level
  BY <1>3
<1>7. {l \in DOMAIN trail_lim : trail_lim[l] < k} = 1 .. d
  <2>1. d <= Len(trail_lim) /\ \A l \in DOMAIN trail_lim : l <= d <=> trail_lim[l] < k
    BY <1>2, <1>6 DEF TrailIn
  <2>2. \A l \in 1 .. d : l \in DOMAIN trail_lim /\ l <= d
    BY <1>3, <2>1
  <2>3. \A l \in DOMAIN trail_lim : l <= d => l \in 1 .. d
    BY <1>3
  <2> QED
    BY <2>1, <2>2, <2>3
<1>8. Cardinality(1 .. d) = d
  BY <1>6, FS_Interval
<1>9. level(v) = LevelAt(k)
  BY <1>6, <1>7, <1>8 DEF level, LevelAt
<1> QED
  BY <1>3, <1>4, <1>5, <1>9

(***************************************************************************)
(* ReasonsOk: the trail is the assignment in order, and every reason is a  *)
(* clause of the database that implied its literal when it was enqueued.   *)
(***************************************************************************)
LEMMA StructureReasons == ASSUME Structure PROVE ReasonsOk
<1>1. VarsType /\ AssignmentType /\ Trail /\ Reasoned
  BY DEF Structure, TypeOK
<1>2. \A v \in Var : assigns[v] # l_Undef <=> \E k \in DOMAIN trail : var(trail[k]) = v
  <2> SUFFICES ASSUME NEW v \in Var
               PROVE  assigns[v] # l_Undef <=> \E k \in DOMAIN trail : var(trail[k]) = v
    OBVIOUS
  <2>1. assigns[v] # l_Undef => \E k \in DOMAIN trail : var(trail[k]) = v
    BY <1>1 DEF Trail, TrailIn, AssignmentType
  <2>2. \A k \in DOMAIN trail : var(trail[k]) = v => assigns[v] # l_Undef
    BY TrailSays
  <2> QED
    BY <2>1, <2>2
<1>3. ASSUME NEW k \in DOMAIN trail, NEW v, v = var(trail[k]), NEW r, r = reason(v)
      PROVE  /\ Position(v) = k /\ value(trail[k]) = l_True /\ level(v) = LevelAt(k)
             /\ r = CRef_Undef => level(v) = 0 \/ trail_lim[level(v)] = k - 1
             /\ r # CRef_Undef =>
                  /\ r \in Live /\ lits(r)[1] = trail[k]
                  /\ \A j \in 2 .. Len(lits(r)) :
                       value(lits(r)[j]) = l_False /\ Position(var(lits(r)[j])) < k
  <2>1. Position(v) = k /\ value(trail[k]) = l_True /\ level(v) = LevelAt(k)
    BY <1>3, TrailSays
  <2>2. r = CRef_Undef => level(v) = 0 \/ trail_lim[level(v)] = k - 1
    BY <1>1, <1>3 DEF Reasoned, ReasonedIn, reason, level
  <2>3. r # CRef_Undef => r \in Live /\ lits(r)[1] = trail[k]
    BY <1>1, <1>3 DEF Reasoned, ReasonedIn, reason, Implies, lits
  <2>4. ASSUME r # CRef_Undef, NEW j \in 2 .. Len(lits(r))
        PROVE  value(lits(r)[j]) = l_False /\ Position(var(lits(r)[j])) < k
    <3>1. PICK q : q = lits(r)[j]
      OBVIOUS
    <3>2. q \in Lit /\ value(q) = l_False /\ \E m \in 1 .. k - 1 : trail[m] = neg(q)
      BY <1>3, <2>4, <3>1, ReasonFalse
    <3>3. PICK m \in 1 .. k - 1 : trail[m] = neg(q)
      BY <3>2
    <3>4. Len(trail) \in Nat /\ DOMAIN trail = 1 .. Len(trail)
      BY <1>1 DEF AssignmentType
    <3>5. m \in DOMAIN trail /\ m < k
      BY <3>3, <3>4
    <3>6. q \in Nat /\ var(neg(q)) = var(q)
      BY <1>1, <3>2, Literals, LitFacts
    <3>7. PICK u : u = var(trail[m])
      OBVIOUS
    <3>8. Position(u) = m
      BY <3>5, <3>7, TrailSays
    <3> QED
      BY <3>1, <3>2, <3>3, <3>5, <3>6, <3>7, <3>8
  <2> QED
    BY <2>1, <2>2, <2>3, <2>4
<1> QED
  BY <1>2, <1>3 DEF ReasonsOk

THEOREM ReasonsThm == Spec => []ReasonsOk
<1>1. Structure => ReasonsOk
  BY StructureReasons
<1> QED
  BY <1>1, StructureThm, PTL

(***************************************************************************)
(* WatchesOk: each clause of the database is watched once from each of its *)
(* first two literals and from no other, also in the list propagate is     *)
(* rewriting; watchers of removed clauses are in dirty lists only.         *)
(***************************************************************************)
LEMMA StructureWatches == ASSUME Structure PROVE WatchesOk
<1>1. VarsType /\ AssignmentType /\ DatabaseType /\ Watches
  BY DEF Structure, TypeOK
<1>2. PICK W : W = Lists
  OBVIOUS
<1>3. DOMAIN W = Lit /\ \A p \in Lit : W[p] = List(p)
  BY <1>2 DEF Lists, ListsOf, List
<1>4. WatchesIn(W, ca, Live, dirty)
  BY <1>1, <1>2 DEF Watches
<1>5. ASSUME NEW cr \in Live, NEW p \in Lit
      PROVE  Cardinality(WatchersIn(p, cr)) = IF p \in {neg(lits(cr)[1]), neg(lits(cr)[2])} THEN 1 ELSE 0
  <2>1. PICK l : l = W[p]
    OBVIOUS
  <2>2. WatchersIn(p, cr) = {k \in DOMAIN l : l[k].cref = cr}
    BY <1>3, <2>1 DEF WatchersIn
  <2>3. /\ \A j, k \in DOMAIN l : l[j].cref = l[k].cref => j = k
        /\ (\E k \in DOMAIN l : l[k].cref = cr) <=> p \in {neg(lits(cr)[1]), neg(lits(cr)[2])}
    BY <1>3, <1>4, <2>1 DEF WatchesIn, Watched, lits
  <2>4. CASE p \in {neg(lits(cr)[1]), neg(lits(cr)[2])}
    <3>1. PICK k \in DOMAIN l : l[k].cref = cr
      BY <2>3, <2>4
    <3>2. WatchersIn(p, cr) = {k}
      BY <2>2, <2>3, <3>1
    <3> QED
      BY <2>4, <3>2, FS_Singleton
  <2>5. CASE p \notin {neg(lits(cr)[1]), neg(lits(cr)[2])}
    <3>1. WatchersIn(p, cr) = {}
      BY <2>2, <2>3, <2>5
    <3> QED
      BY <2>5, <3>1, FS_EmptySet
  <2> QED
    BY <2>4, <2>5
<1>6. ASSUME NEW p \in Lit, NEW k \in DOMAIN List(p), NEW w, w = List(p)[k]
      PROVE  /\ w.cref \in DOMAIN ca /\ w.blocker \in ToSet(lits(w.cref))
             /\ w.cref \in Live \/ (ca[w.cref].mark = 1 /\ p \in dirty)
  <2>1. k \in DOMAIN W[p] /\ w = W[p][k]
    BY <1>3, <1>6
  <2>2. /\ w.cref \in DOMAIN ca /\ \E j \in DOMAIN ca[w.cref].lits : ca[w.cref].lits[j] = w.blocker
        /\ w.cref \in Live \/ (ca[w.cref].mark = 1 /\ p \in dirty)
    BY <1>3, <1>4, <2>1 DEF WatchesIn
  <2>3. w.blocker \in ToSet(lits(w.cref))
    BY <2>2 DEF ToSet, lits
  <2> QED
    BY <2>2, <2>3
<1> QED
  BY <1>5, <1>6 DEF WatchesOk

THEOREM WatchesThm == Spec => []WatchesOk
<1>1. Structure => WatchesOk
  BY StructureWatches
<1> QED
  BY <1>1, StructureThm, PTL
=============================================================================
