----------------------------- MODULE Recursion -----------------------------
(***************************************************************************)
(* Recursive functions have the equation of their definition, and what     *)
(* holds of an argument when it does of the smaller ones holds of all: the *)
(* facts the proofs about f[x \in S] == ... f[...] need.  They speak of    *)
(* sets and functions, where the library's theorems take operators.        *)
(***************************************************************************)
EXTENDS Naturals, WellFoundedInduction, TLAPS

\* A set of numbers has a least one.
LEMMA NatMin ==
  ASSUME NEW T, T \subseteq Nat, T # {} PROVE \E x \in T : \A y \in T : x <= y
<1>1. PICK R : R = OpToRel(<, Nat)
  OBVIOUS
<1>2. IsWellFoundedOn(R, Nat)
  BY <1>1, NatLessThanWellFounded, Zenon
<1>3. \A x, y \in Nat : y < x => <<y, x>> \in R
  BY <1>1 DEF OpToRel
<1>4. PICK x \in T : \A y \in T : ~(<<y, x>> \in R)
  BY <1>2, WFMin
<1>5. ASSUME NEW y \in T PROVE x <= y
  <2>1. ~(y < x)
    BY <1>3, <1>4
  <2> QED
    BY <2>1
<1> QED
  BY <1>5

(***************************************************************************)
(* G gives each x the value of a function at x from the function; it looks *)
(* at the function only where the rank is less.                            *)
(***************************************************************************)
Descends(S, T, rank, G) ==
  /\ rank \in [S -> Nat] /\ G \in [S -> [[S -> T] -> T]]
  /\ \A x \in S : \A f, g \in [S -> T] :
            (\A y \in S : rank[y] < rank[x] => f[y] = g[y]) => G[x][f] = G[x][g]
\* f is as G says everywhere.
Solves(f, S, G) == f = [x \in S |-> G[x][f]]
\* P has x when it has all of less rank.
Inductive(P, S, rank) ==
  /\ rank \in [S -> Nat] /\ P \subseteq S
  /\ \A x \in S : (\A y \in S : rank[y] < rank[x] => y \in P) => x \in P

\* A recursive definition that descends has a solution: the functions that
\* are right below n, put together.
LEMMA Recursion ==
  ASSUME NEW S, NEW T, T # {}, NEW rank, NEW G, Descends(S, T, rank, G)
  PROVE  \E f \in [S -> T] : Solves(f, S, G)
<1> USE DEF Descends, Solves
<1>0. PICK t \in T : TRUE
  OBVIOUS
<1> DEFINE Good(n, f) == f \in [S -> T] /\ \A x \in S : rank[x] < n => f[x] = G[x][f]
           F(n) == CHOOSE f : Good(n, f)
           h == [x \in S |-> F(rank[x] + 1)[x]]
<1>1. ASSUME NEW n \in Nat, NEW f, Good(n, f)
      PROVE  \E g : Good(n + 1, g)
  <2> DEFINE g == [x \in S |-> G[x][f]]
  <2>1. g \in [S -> T]
    BY <1>1
  <2>2. \A y \in S : rank[y] < n => f[y] = g[y]
    BY <1>1
  <2>3. ASSUME NEW x \in S, rank[x] < n + 1 PROVE G[x][f] = G[x][g]
    <3>1. \A y \in S : rank[y] < rank[x] => f[y] = g[y]
      BY <2>2, <2>3
    <3> HIDE DEF g
    <3> QED BY <3>1, <2>1, <1>1
  <2> QED BY <2>1, <2>3
<1>2. \A n \in Nat : \E f : Good(n, f)
  <2> DEFINE Bad == {n \in Nat : ~\E f : Good(n, f)}
  <2> SUFFICES ASSUME NEW n \in Bad PROVE FALSE
    OBVIOUS
  <2>1. PICK m \in Bad : \A k \in Bad : m <= k
    BY NatMin, Bad \subseteq Nat, Bad # {}
  <2>2. CASE m = 0
    <3>1. Good(0, [x \in S |-> t])
      OBVIOUS
    <3> QED BY <3>1, <2>2
  <2>3. CASE m # 0
    <3>1. m - 1 \in Nat /\ m - 1 \notin Bad /\ m = (m - 1) + 1
      BY <2>1, <2>3
    <3>2. \E f : Good(m - 1, f)
      BY <3>1
    <3> HIDE DEF Good
    <3>3. \E f : Good((m - 1) + 1, f)
      BY <3>1, <3>2, <1>1
    <3> QED BY <3>1, <3>3
  <2> QED BY <2>2, <2>3
<1>3. ASSUME NEW n \in Nat, NEW m \in Nat, NEW f, NEW g, Good(n, f), Good(m, g),
             NEW x \in S, rank[x] < n, rank[x] < m
      PROVE  f[x] = g[x]
  <2> DEFINE Bad == {k \in Nat : \E y \in S : rank[y] = k /\ k < n /\ k < m /\ f[y] # g[y]}
  <2>1. ASSUME NEW k \in Bad PROVE FALSE
    <3>1. PICK l \in Bad : \A j \in Bad : l <= j
      BY NatMin, Bad \subseteq Nat, Bad # {}
    <3>2. PICK y \in S : rank[y] = l /\ l < n /\ l < m /\ f[y] # g[y]
      BY <3>1
    <3>3. \A z \in S : rank[z] < rank[y] => f[z] = g[z]
      <4> SUFFICES ASSUME NEW z \in S, rank[z] < rank[y], f[z] # g[z] PROVE FALSE
        OBVIOUS
      <4>1. rank[z] \in Bad
        BY <3>2
      <4> QED BY <4>1, <3>1, <3>2
    <3>4. f[y] = G[y][f] /\ g[y] = G[y][g]
      BY <3>2, <1>3
    <3> QED BY <3>2, <3>3, <3>4, <1>3
  <2> QED BY <2>1, <1>3
<1>4. \A n \in Nat : Good(n, F(n))
  <2> HIDE DEF Good
  <2> QED BY <1>2
<1>5. h \in [S -> T]
  <2> SUFFICES ASSUME NEW x \in S PROVE F(rank[x] + 1)[x] \in T
    OBVIOUS
  <2>1. rank[x] + 1 \in Nat
    OBVIOUS
  <2>2. F(rank[x] + 1) \in [S -> T]
    BY <1>4, <2>1
  <2> QED BY <2>2
<1>6. ASSUME NEW x \in S PROVE h[x] = G[x][h]
  <2> DEFINE f == F(rank[x] + 1)
  <2>1. rank[x] + 1 \in Nat /\ Good(rank[x] + 1, f)
    <3>1. rank[x] + 1 \in Nat
      OBVIOUS
    <3> HIDE DEF Good, F
    <3> QED BY <1>4, <3>1 DEF f
  <2>2. ASSUME NEW y \in S, rank[y] < rank[x] PROVE f[y] = h[y]
    <3>1. rank[y] + 1 \in Nat /\ Good(rank[y] + 1, F(rank[y] + 1))
      <4>1. rank[y] + 1 \in Nat
        OBVIOUS
      <4> HIDE DEF Good, F
      <4> QED BY <1>4, <4>1
    <3>2. h[y] = F(rank[y] + 1)[y]
      OBVIOUS
    <3> HIDE DEF F, h, Good
    <3> QED BY <3>1, <3>2, <2>1, <2>2, <1>3
  <2>3. f[x] = G[x][f] /\ f \in [S -> T]
    <3> HIDE DEF f
    <3> QED BY <2>1
  <2>4. h[x] = f[x]
    OBVIOUS
  <2> HIDE DEF f, h
  <2> QED BY <2>2, <2>3, <2>4, <1>5
<1>7. h = [x \in S |-> G[x][h]]
  <2>1. h = [x \in S |-> h[x]]
    OBVIOUS
  <2> HIDE DEF h
  <2> QED BY <2>1, <1>6
<1> HIDE DEF h
<1> QED BY <1>5, <1>7

\* What holds of x when it does of all of less rank holds of all.
LEMMA RankInduction ==
  ASSUME NEW S, NEW rank, NEW P, Inductive(P, S, rank)
  PROVE  P = S
<1> USE DEF Inductive
<1> DEFINE Bad == {rank[x] : x \in S \ P}
<1> SUFFICES ASSUME S \ P # {} PROVE FALSE
  OBVIOUS
<1>1. Bad \subseteq Nat /\ Bad # {}
  OBVIOUS
<1>2. PICK m \in Bad : \A k \in Bad : m <= k
  <2> HIDE DEF Bad
  <2> QED BY <1>1, NatMin
<1>3. PICK x \in S \ P : rank[x] = m
  BY <1>2
<1>4. ASSUME NEW y \in S, rank[y] < rank[x] PROVE y \in P
  <2>1. CASE y \notin P
    <3>1. rank[y] \in Bad
      BY <2>1
    <3>2. m <= rank[y] /\ m \in Nat /\ rank[y] \in Nat
      BY <1>1, <1>2, <3>1
    <3> QED BY <3>2, <1>3, <1>4
  <2> QED BY <2>1
<1> QED BY <1>3, <1>4
=============================================================================
