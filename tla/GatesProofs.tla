---------------------------- MODULE GatesProofs -----------------------------
(***************************************************************************)
(* The gates of minisat.cc are right for any number of names, variables    *)
(* and gates, given what SatSpec promises of the SAT solver.               *)
(***************************************************************************)
EXTENDS Gates, TLAPS

(***************************************************************************)
(* Literals: the two of a variable, and truth under an assignment.         *)
(***************************************************************************)
LEMMA LiteralFacts ==
  ASSUME NEW n \in Nat, NEW p \in 0 .. 2 * n - 1
  PROVE  /\ p \div 2 \in 0 .. n - 1
         /\ p % 2 \in {0, 1}
         /\ minisat_not(p) \in 0 .. 2 * n - 1
         /\ minisat_not(p) \div 2 = p \div 2
         /\ minisat_not(p) % 2 = 1 - (p % 2)
<1>1. PICK q \in Int, r \in {0, 1} : p = 2 * q + r /\ q = p \div 2 /\ r = p % 2
  OBVIOUS
<1>. QED  BY <1>1 DEF minisat_not

LEMMA NewFacts ==
  ASSUME NEW n \in Nat
  PROVE  /\ mkLit(n, TRUE) \in 0 .. 2 * (n + 1) - 1
         /\ mkLit(n, TRUE) \div 2 = n
         /\ mkLit(n, TRUE) % 2 = 1
BY DEF mkLit

(***************************************************************************)
(* An assignment seen through a literal: the negation is the other value,  *)
(* and a variable more or less changes nothing for the old literals.       *)
(***************************************************************************)
LEMMA HoldsIs ==
  ASSUME NEW p, NEW A, A[p \div 2] \in BOOLEAN, p % 2 \in {0, 1}
  PROVE  /\ p % 2 = 0 => (Sat!Holds(p, A) <=> A[p \div 2])
         /\ p % 2 = 1 => (Sat!Holds(p, A) <=> ~A[p \div 2])
         /\ Sat!Holds(p, A) \in BOOLEAN
<1>1. Sat!Holds(p, A) = (A[p \div 2] = (p % 2 = 0))
  BY DEF Sat!Holds, Sat!var, Sat!sign
<1>2. CASE p % 2 = 0
  <2>1. (p % 2 = 0) = TRUE /\ p % 2 # 1
    BY <1>2
  <2>2. Sat!Holds(p, A) <=> A[p \div 2]
    BY <1>1, <2>1, Zenon
  <2>. QED  BY <1>1, <2>1, <2>2
<1>3. CASE p % 2 = 1
  <2>1. (p % 2 = 0) = FALSE /\ p % 2 # 0
    BY <1>3
  <2>2. Sat!Holds(p, A) <=> ~A[p \div 2]
    BY <1>1, <2>1, Zenon
  <2>. QED  BY <1>1, <2>1, <2>2
<1>. QED  BY <1>2, <1>3

LEMMA HoldsNot ==
  ASSUME NEW n \in Nat, NEW p \in 0 .. 2 * n - 1, NEW A \in Sat!Assignments(n)
  PROVE  /\ Sat!Holds(p, A) \in BOOLEAN
         /\ Sat!Holds(minisat_not(p), A) <=> ~Sat!Holds(p, A)
<1>1. /\ p \div 2 \in 0 .. n - 1 /\ p % 2 \in {0, 1}
      /\ minisat_not(p) \div 2 = p \div 2 /\ minisat_not(p) % 2 = 1 - (p % 2)
  BY LiteralFacts
<1>2. A[p \div 2] \in BOOLEAN
  BY <1>1 DEF Sat!Assignments
<1>. DEFINE q == minisat_not(p)
<1>3. q % 2 \in {0, 1} /\ A[q \div 2] \in BOOLEAN /\ q \div 2 = p \div 2
  BY <1>1, <1>2
<1>4. /\ q % 2 = 0 => (Sat!Holds(q, A) <=> A[p \div 2])
      /\ q % 2 = 1 => (Sat!Holds(q, A) <=> ~A[p \div 2])
  <2>. HIDE DEF q
  <2>. QED  BY <1>3, HoldsIs
<1>5. /\ p % 2 = 0 => (Sat!Holds(p, A) <=> A[p \div 2])
      /\ p % 2 = 1 => (Sat!Holds(p, A) <=> ~A[p \div 2])
      /\ Sat!Holds(p, A) \in BOOLEAN
  BY <1>1, <1>2, HoldsIs
<1>. QED  BY <1>1, <1>4, <1>5

Shorter(n, A) == [v \in 0 .. n - 1 |-> A[v]]
Longer(n, B, b) == [v \in 0 .. n |-> IF v = n THEN b ELSE B[v]]

LEMMA ShorterHolds ==
  ASSUME NEW n \in Nat, NEW A \in Sat!Assignments(n + 1)
  PROVE  /\ Shorter(n, A) \in Sat!Assignments(n)
         /\ \A p \in 0 .. 2 * n - 1 : Sat!Holds(p, Shorter(n, A)) <=> Sat!Holds(p, A)
<1>1. Shorter(n, A) \in Sat!Assignments(n)
  BY DEF Shorter, Sat!Assignments
<1>2. ASSUME NEW p \in 0 .. 2 * n - 1
      PROVE  Sat!Holds(p, Shorter(n, A)) <=> Sat!Holds(p, A)
  <2>1. p \div 2 \in 0 .. n - 1
    BY LiteralFacts
  <2>. QED  BY <2>1 DEF Shorter, Sat!Holds, Sat!var
<1>. QED  BY <1>1, <1>2

LEMMA LongerHolds ==
  ASSUME NEW n \in Nat, NEW B \in Sat!Assignments(n), NEW b \in BOOLEAN
  PROVE  /\ Longer(n, B, b) \in Sat!Assignments(n + 1)
         /\ \A p \in 0 .. 2 * n - 1 : Sat!Holds(p, Longer(n, B, b)) <=> Sat!Holds(p, B)
         /\ Sat!Holds(mkLit(n, TRUE), Longer(n, B, b)) <=> ~b
<1>1. Longer(n, B, b) \in Sat!Assignments(n + 1)
  BY DEF Longer, Sat!Assignments
<1>2. ASSUME NEW p \in 0 .. 2 * n - 1
      PROVE  Sat!Holds(p, Longer(n, B, b)) <=> Sat!Holds(p, B)
  <2>1. p \div 2 \in 0 .. n - 1
    BY LiteralFacts
  <2>2. p \div 2 \in 0 .. n /\ p \div 2 # n
    BY <2>1
  <2>. QED  BY <2>2 DEF Longer, Sat!Holds, Sat!var
<1>3. Sat!Holds(mkLit(n, TRUE), Longer(n, B, b)) <=> ~b
  <2>. DEFINE p == mkLit(n, TRUE)
  <2>1. p \div 2 = n /\ p % 2 = 1
    BY NewFacts
  <2>. HIDE DEF p
  <2>2. Longer(n, B, b)[p \div 2] = b
    BY <2>1 DEF Longer
  <2>3. Sat!Holds(p, Longer(n, B, b)) <=> ~Longer(n, B, b)[p \div 2]
    BY <2>1, <2>2, HoldsIs
  <2>. QED  BY <2>2, <2>3 DEF p
<1>. QED  BY <1>1, <1>2, <1>3

(***************************************************************************)
(* Clause sets that satisfy and are satisfied.                             *)
(***************************************************************************)
LEMMA SatisfiesUnion ==
  ASSUME NEW A, NEW cs, NEW ds
  PROVE  Sat!Satisfies(A, cs \cup ds) <=> Sat!Satisfies(A, cs) /\ Sat!Satisfies(A, ds)
BY DEF Sat!Satisfies

LEMMA SatisfiesSame ==
  ASSUME NEW n \in Nat, NEW A, NEW B, NEW cs \in SUBSET SUBSET (0 .. 2 * n - 1),
         \A p \in 0 .. 2 * n - 1 : Sat!Holds(p, A) <=> Sat!Holds(p, B)
  PROVE  Sat!Satisfies(A, cs) <=> Sat!Satisfies(B, cs)
BY DEF Sat!Satisfies

-----------------------------------------------------------------------------
(***************************************************************************)
(* The inductive invariant: every literal in the state is one of the       *)
(* solver's, a declared name has a negated literal, and an answer is about *)
(* the clauses as they are.                                                *)
(***************************************************************************)
LiteralsOk ==
  /\ nVars \in Nat
  /\ meaning \in [0 .. nVars - 1 -> SUBSET Worlds]
  /\ added \in SUBSET SUBSET Exprs
  /\ asserted \in SUBSET Exprs
  /\ DOMAIN declared \subseteq Names
  /\ \A n \in DOMAIN declared : declared[n] \in Exprs /\ declared[n] % 2 = 1

AnswerOk ==
  /\ answer = "sat" =>
       /\ model \in Sat!Assignments(nVars) /\ Sat!Satisfies(model, added)
       /\ DOMAIN values \subseteq DOMAIN declared
       /\ \A n \in DOMAIN values : values[n] <=> Sat!Holds(declared[n], model)
  /\ answer = "unsat" => ~Sat!Satisfiable(nVars, added)

GatesInv == LiteralsOk /\ AnswerOk /\ GatesSound /\ GatesConservative

Means(A, W) == \A p \in Exprs : Sat!Holds(p, A) <=> W \in Makes(p)

LEMMA GatesInit == Init => GatesInv
<1>. SUFFICES ASSUME Init PROVE GatesInv
  OBVIOUS
<1>1. LiteralsOk /\ AnswerOk
  BY DEF Init, LiteralsOk, AnswerOk, Exprs
<1>2. Exprs = {} /\ Allowed = Worlds /\ \A A : Sat!Satisfies(A, added)
  BY DEF Init, Exprs, Allowed, Sat!Satisfies
<1>3. \A A, W : Shows(A, W)
  BY DEF Init, Shows
<1>4. GatesSound
  BY <1>2 DEF GatesSound
<1>5. GatesConservative
  <2>1. [v \in 0 .. nVars - 1 |-> TRUE] \in Sat!Assignments(nVars)
    BY DEF Sat!Assignments
  <2>. QED  BY <1>2, <1>3, <2>1 DEF GatesConservative
<1>. QED  BY <1>1, <1>4, <1>5 DEF GatesInv

(***************************************************************************)
(* What a gate does to the literals: the old expressions stand for what    *)
(* they stood for, the new one for the worlds of the gate.                 *)
(***************************************************************************)
LEMMA GateTypes ==
  ASSUME LiteralsOk, NEW x, x = new, NEW cs, NEW ws \in SUBSET Worlds, Gate(cs, ws),
         cs \in SUBSET SUBSET (0 .. 2 * (nVars + 1) - 1)
  PROVE  /\ nVars' \in Nat /\ nVars' = nVars + 1
         /\ meaning' \in [0 .. nVars' - 1 -> SUBSET Worlds]
         /\ added' \in SUBSET SUBSET Exprs'
         /\ asserted' \in SUBSET Exprs'
         /\ Exprs \subseteq Exprs' /\ x \in Exprs' /\ x % 2 = 1
         /\ Exprs' = Exprs \cup {x, minisat_not(x)}
<1>1. nVars' \in Nat /\ nVars' = nVars + 1
  BY DEF LiteralsOk, Gate
<1>2. Exprs \subseteq Exprs' /\ Exprs' = 0 .. 2 * (nVars + 1) - 1
  BY <1>1 DEF Exprs, LiteralsOk
<1>3. x \in Exprs' /\ x % 2 = 1 /\ x = 2 * nVars + 1
  BY <1>2, NewFacts DEF new, LiteralsOk, mkLit
<1>4. minisat_not(x) = 2 * nVars
  BY <1>3 DEF minisat_not, LiteralsOk
<1>5. Exprs' = Exprs \cup {x, minisat_not(x)}
  <2>1. \A p : p \in 0 .. 2 * (nVars + 1) - 1 <=>
               p \in 0 .. 2 * nVars - 1 \/ p = 2 * nVars + 1 \/ p = 2 * nVars
    BY DEF LiteralsOk
  <2>. QED  BY <1>2, <1>3, <1>4, <2>1 DEF Exprs
<1>6. meaning' \in [0 .. nVars' - 1 -> SUBSET Worlds]
  BY <1>1 DEF Gate, LiteralsOk
<1>. QED  BY <1>1, <1>2, <1>3, <1>5, <1>6 DEF Gate, LiteralsOk

LEMMA GateMeaning ==
  ASSUME LiteralsOk, NEW x, x = new, NEW cs, NEW ws \in SUBSET Worlds, Gate(cs, ws)
  PROVE  /\ \A p \in Exprs : Makes(p)' = Makes(p)
         /\ Makes(x)' = ws
         /\ Makes(minisat_not(x))' = Worlds \ ws
         /\ Allowed' = Allowed
<1>1. ASSUME NEW p \in Exprs PROVE Makes(p)' = Makes(p)
  <2>1. p \div 2 \in 0 .. nVars - 1
    BY LiteralFacts DEF Exprs, LiteralsOk
  <2>2. p \div 2 \in 0 .. nVars /\ p \div 2 # nVars
    BY <2>1 DEF LiteralsOk
  <2>3. meaning'[p \div 2] = meaning[p \div 2]
    BY <2>2 DEF Gate
  <2>. QED  BY <2>3 DEF Makes
<1>2. meaning'[nVars] = ws
  <2>1. nVars \in 0 .. nVars
    BY DEF LiteralsOk
  <2>. QED  BY <2>1 DEF Gate
<1>3. x \in 0 .. 2 * (nVars + 1) - 1 /\ x \div 2 = nVars /\ x % 2 = 1
  BY NewFacts DEF new, LiteralsOk
<1>4. minisat_not(x) \div 2 = nVars /\ minisat_not(x) % 2 = 0
  <2>1. nVars + 1 \in Nat
    BY DEF LiteralsOk
  <2>2. /\ minisat_not(x) \div 2 = x \div 2
        /\ minisat_not(x) % 2 = 1 - (x % 2)
    BY <1>3, <2>1, LiteralFacts
  <2>. QED  BY <1>3, <2>2
<1>5. Makes(x)' = ws
  <2>. DEFINE p == x
  <2>. HIDE DEF p
  <2>1. p \div 2 = nVars /\ p % 2 = 1
    BY <1>3 DEF p
  <2>2. (IF p % 2 = 1 THEN meaning'[p \div 2] ELSE Worlds \ meaning'[p \div 2]) = ws
    BY <1>2, <2>1
  <2>. QED  BY <2>2 DEF Makes, p
<1>6. Makes(minisat_not(x))' = Worlds \ ws
  <2>. DEFINE p == minisat_not(x)
  <2>. HIDE DEF p
  <2>1. p \div 2 = nVars /\ p % 2 = 0
    BY <1>4 DEF p
  <2>2. (IF p % 2 = 1 THEN meaning'[p \div 2] ELSE Worlds \ meaning'[p \div 2])
          = Worlds \ ws
    BY <1>2, <2>1
  <2>. QED  BY <2>2 DEF Makes, p
<1>7. Allowed' = Allowed
  BY <1>1 DEF Allowed, Gate, LiteralsOk
<1>. QED  BY <1>1, <1>5, <1>6, <1>7

(***************************************************************************)
(* A gate keeps both directions of the correspondence, if its clauses hold *)
(* exactly when its literal has the truth value it is to stand for.  Only  *)
(* minisat_var declares a name, by the new literal.                        *)
(***************************************************************************)
Declares(x, ws) ==
  /\ DOMAIN declared' \subseteq Names
  /\ DOMAIN declared \subseteq DOMAIN declared'
  /\ \A n \in DOMAIN declared : declared'[n] = declared[n]
  /\ \A n \in DOMAIN declared' \ DOMAIN declared :
       declared'[n] = x /\ \A W \in Worlds : n \in W <=> W \in ws

LEMMA GateShows ==
  ASSUME LiteralsOk, NEW x, NEW cs, NEW ws \in SUBSET Worlds,
         Gate(cs, ws), Declares(x, ws),
         NEW A, NEW B, NEW W \in Worlds,
         \A p \in Exprs : Sat!Holds(p, B) <=> Sat!Holds(p, A)
  PROVE  /\ Shows(A, W)' => Shows(B, W)
         /\ Shows(B, W) /\ (Sat!Holds(x, A) <=> W \in ws) => Shows(A, W)'
<1>1. \A n \in DOMAIN declared : Sat!Holds(declared[n], B) <=> Sat!Holds(declared[n], A)
  BY DEF LiteralsOk
<1>2. Shows(A, W)' <=> \A n \in DOMAIN declared' : Sat!Holds(declared'[n], A) <=> n \in W
  BY DEF Shows, Sat!Holds, Sat!var, Sat!sign
<1>. QED  BY <1>1, <1>2 DEF Declares, Shows

LEMMA GateSound ==
  ASSUME GatesInv, NEW x, x = new, NEW cs, NEW ws \in SUBSET Worlds,
         Gate(cs, ws), Declares(x, ws), cs \in SUBSET SUBSET (0 .. 2 * (nVars + 1) - 1),
         \A A \in Sat!Assignments(nVars + 1), W \in Worlds :
           Means(A, W) /\ Sat!Satisfies(A, cs) /\ Shows(A, W)'
             => (Sat!Holds(x, A) <=> W \in ws)
  PROVE  GatesSound'
<1>1. /\ nVars' = nVars + 1 /\ nVars \in Nat /\ added' = added \cup cs
      /\ Exprs' = Exprs \cup {x, minisat_not(x)} /\ x \in 0 .. 2 * (nVars + 1) - 1
  <2>1. x \in 0 .. 2 * (nVars + 1) - 1
    BY NewFacts DEF new, GatesInv, LiteralsOk
  <2>. QED  BY <2>1, GateTypes DEF Gate, GatesInv, LiteralsOk
<1>2. /\ \A p \in Exprs : Makes(p)' = Makes(p)
      /\ Makes(x)' = ws /\ Makes(minisat_not(x))' = Worlds \ ws /\ Allowed' = Allowed
  BY GateMeaning DEF GatesInv
<1>. SUFFICES ASSUME NEW A \in Sat!Assignments(nVars + 1),
                     Sat!Satisfies(A, added \cup cs),
                     NEW W \in Worlds, Shows(A, W)'
              PROVE  /\ W \in Allowed'
                     /\ \A p \in Exprs' : Sat!Holds(p, A) <=> W \in Makes(p)'
  BY <1>1 DEF GatesSound, Worlds, Sat!Satisfies, Sat!Holds, Sat!var, Sat!sign, Sat!Assignments
<1>. DEFINE B == Shorter(nVars, A)
<1>3. /\ B \in Sat!Assignments(nVars)
      /\ \A p \in Exprs : Sat!Holds(p, B) <=> Sat!Holds(p, A)
  BY <1>1, ShorterHolds DEF Exprs
<1>. HIDE DEF B
<1>4. Sat!Satisfies(B, added) /\ Sat!Satisfies(A, cs)
  <2>1. Sat!Satisfies(A, added) /\ Sat!Satisfies(A, cs)
    BY SatisfiesUnion
  <2>2. Sat!Satisfies(B, added) <=> Sat!Satisfies(A, added)
    BY <1>1, <1>3, SatisfiesSame DEF GatesInv, LiteralsOk, Exprs
  <2>. QED  BY <2>1, <2>2
<1>5. Shows(B, W)
  BY <1>3, GateShows DEF GatesInv
<1>6. W \in Allowed /\ Means(A, W)
  BY <1>3, <1>4, <1>5 DEF GatesInv, GatesSound, Means
<1>7. Sat!Holds(x, A) <=> W \in ws
  BY <1>4, <1>6
<1>8. Sat!Holds(minisat_not(x), A) <=> W \in Worlds \ ws
  <2>1. Sat!Holds(minisat_not(x), A) <=> ~Sat!Holds(x, A)
    <3>1. nVars + 1 \in Nat
      BY <1>1
    <3>. QED  BY <1>1, <3>1, HoldsNot
  <2>. QED  BY <1>7, <2>1
<1>9. ASSUME NEW p \in Exprs' PROVE Sat!Holds(p, A) <=> W \in Makes(p)'
  <2>1. CASE p \in Exprs
    <3>1. (Sat!Holds(p, A) <=> W \in Makes(p)) /\ Makes(p)' = Makes(p)
      BY <1>2, <1>6, <2>1 DEF Means
    <3>. QED  BY <3>1
  <2>2. CASE p = x
    BY <1>2, <1>7, <2>2
  <2>3. CASE p = minisat_not(x)
    BY <1>2, <1>8, <2>3
  <2>. QED  BY <1>1, <2>1, <2>2, <2>3
<1>. QED  BY <1>2, <1>6, <1>9

LEMMA GateConservative ==
  ASSUME GatesInv, NEW x, x = new, NEW cs, NEW ws \in SUBSET Worlds,
         Gate(cs, ws), Declares(x, ws), cs \in SUBSET SUBSET (0 .. 2 * (nVars + 1) - 1),
         \A A \in Sat!Assignments(nVars + 1), W \in Worlds :
           Means(A, W) /\ (Sat!Holds(x, A) <=> W \in ws) => Sat!Satisfies(A, cs)
  PROVE  GatesConservative'
<1>1. nVars' = nVars + 1 /\ nVars \in Nat /\ added' = added \cup cs
  BY DEF Gate, GatesInv, LiteralsOk
<1>2. Allowed' = Allowed
  BY GateMeaning DEF GatesInv
<1>. SUFFICES ASSUME NEW W \in Allowed
              PROVE  \E A \in Sat!Assignments(nVars + 1) :
                       Sat!Satisfies(A, added \cup cs) /\ Shows(A, W)'
  BY <1>1, <1>2 DEF GatesConservative, Sat!Satisfies, Sat!Holds, Sat!var, Sat!sign, Sat!Assignments
<1>3. W \in Worlds
  BY DEF Allowed
<1>4. PICK B \in Sat!Assignments(nVars) : Sat!Satisfies(B, added) /\ Shows(B, W)
  BY DEF GatesInv, GatesConservative
<1>5. Means(B, W)
  BY <1>3, <1>4 DEF GatesInv, GatesSound, Means
<1>6. PICK A \in Sat!Assignments(nVars + 1) :
        /\ \A p \in Exprs : Sat!Holds(p, A) <=> Sat!Holds(p, B)
        /\ Sat!Holds(x, A) <=> W \in ws
  <2>. DEFINE L == Longer(nVars, B, W \notin ws)
  <2>1. (W \notin ws) \in BOOLEAN
    OBVIOUS
  <2>2. /\ L \in Sat!Assignments(nVars + 1)
        /\ \A p \in 0 .. 2 * nVars - 1 : Sat!Holds(p, L) <=> Sat!Holds(p, B)
        /\ Sat!Holds(mkLit(nVars, TRUE), L) <=> ~(W \notin ws)
    BY <1>1, <2>1, LongerHolds
  <2>. HIDE DEF L
  <2>. QED  BY <2>2 DEF new, Exprs
<1>7. Means(A, W)
  BY <1>5, <1>6 DEF Means
<1>8. Sat!Satisfies(A, cs)
  BY <1>3, <1>6, <1>7
<1>9. Sat!Satisfies(A, added)
  BY <1>1, <1>4, <1>6, SatisfiesSame DEF GatesInv, LiteralsOk, Exprs
<1>10. Sat!Satisfies(A, added \cup cs)
  BY <1>8, <1>9, SatisfiesUnion
<1>11. Shows(A, W)'
  <2>1. /\ \A p \in Exprs : Sat!Holds(p, B) <=> Sat!Holds(p, A)
        /\ LiteralsOk
    BY <1>6 DEF GatesInv
  <2>. QED  BY <1>3, <1>4, <1>6, <2>1, GateShows
<1>. QED  BY <1>6, <1>10, <1>11

LEMMA GateStep ==
  ASSUME GatesInv, NEW n, n = nVars + 1,
         NEW x, x = new, NEW cs, NEW ws \in SUBSET Worlds,
         Gate(cs, ws), Declares(x, ws), cs \in SUBSET SUBSET (0 .. 2 * n - 1),
         \A A \in Sat!Assignments(n), W \in Worlds : Means(A, W) =>
           /\ Sat!Satisfies(A, cs) /\ Shows(A, W)' => (Sat!Holds(x, A) <=> W \in ws)
           /\ (Sat!Holds(x, A) <=> W \in ws) => Sat!Satisfies(A, cs)
  PROVE  GatesInv'
<1>1. LiteralsOk'
  <2>1. /\ nVars' \in Nat
        /\ meaning' \in [0 .. nVars' - 1 -> SUBSET Worlds]
        /\ added' \in SUBSET SUBSET Exprs'
        /\ asserted' \in SUBSET Exprs'
        /\ Exprs \subseteq Exprs' /\ x \in Exprs' /\ x % 2 = 1
    BY GateTypes DEF GatesInv
  <2>2. \A m \in DOMAIN declared' : declared'[m] \in Exprs' /\ declared'[m] % 2 = 1
    BY <2>1 DEF Declares, GatesInv, LiteralsOk
  <2>3. Worlds' = Worlds
    BY DEF Worlds
  <2>. QED  BY <2>1, <2>2, <2>3 DEF LiteralsOk, Declares
<1>2. AnswerOk'
  BY DEF Gate, AnswerOk
<1>3. GatesSound'
  BY GateSound
<1>4. GatesConservative'
  BY GateConservative
<1>. QED  BY <1>1, <1>2, <1>3, <1>4 DEF GatesInv

(***************************************************************************)
(* The clauses of each gate.                                               *)
(***************************************************************************)
LEMMA ClauseTypes ==
  ASSUME NEW n \in Nat, NEW x \in 0 .. 2 * n - 1, NEW p \in 0 .. 2 * n - 1,
         NEW a \in 0 .. 2 * n - 1, NEW b \in 0 .. 2 * n - 1
  PROVE  /\ AndClauses(x, a, b) \in SUBSET SUBSET (0 .. 2 * n - 1)
         /\ OrClauses(x, a, b) \in SUBSET SUBSET (0 .. 2 * n - 1)
         /\ IteClauses(x, p, a, b) \in SUBSET SUBSET (0 .. 2 * n - 1)
<1>1. \A q \in 0 .. 2 * n - 1 : minisat_not(q) \in 0 .. 2 * n - 1
  BY LiteralFacts
<1>. QED  BY <1>1 DEF AndClauses, OrClauses, IteClauses

LEMMA AndHolds ==
  ASSUME NEW n \in Nat, NEW A \in Sat!Assignments(n), NEW x \in 0 .. 2 * n - 1,
         NEW a \in 0 .. 2 * n - 1, NEW b \in 0 .. 2 * n - 1
  PROVE  Sat!Satisfies(A, AndClauses(x, a, b)) <=>
              (Sat!Holds(x, A) <=> Sat!Holds(a, A) /\ Sat!Holds(b, A))
<1>1. \A p \in 0 .. 2 * n - 1 : /\ Sat!Holds(minisat_not(p), A) <=> ~Sat!Holds(p, A)
                                /\ minisat_not(p) \in 0 .. 2 * n - 1
  BY HoldsNot, LiteralFacts
<1>. QED  BY <1>1 DEF AndClauses, Sat!Satisfies

LEMMA OrHolds ==
  ASSUME NEW n \in Nat, NEW A \in Sat!Assignments(n), NEW x \in 0 .. 2 * n - 1,
         NEW a \in 0 .. 2 * n - 1, NEW b \in 0 .. 2 * n - 1
  PROVE  Sat!Satisfies(A, OrClauses(x, a, b)) <=>
              (Sat!Holds(x, A) <=> Sat!Holds(a, A) \/ Sat!Holds(b, A))
<1>1. \A p \in 0 .. 2 * n - 1 : /\ Sat!Holds(minisat_not(p), A) <=> ~Sat!Holds(p, A)
                                /\ minisat_not(p) \in 0 .. 2 * n - 1
  BY HoldsNot, LiteralFacts
<1>. QED  BY <1>1 DEF OrClauses, Sat!Satisfies

LEMMA IteHolds ==
  ASSUME NEW n \in Nat, NEW A \in Sat!Assignments(n), NEW x \in 0 .. 2 * n - 1,
         NEW p \in 0 .. 2 * n - 1, NEW a \in 0 .. 2 * n - 1, NEW b \in 0 .. 2 * n - 1
  PROVE  Sat!Satisfies(A, IteClauses(x, p, a, b)) <=>
              (Sat!Holds(x, A) <=> IF Sat!Holds(p, A) THEN Sat!Holds(a, A)
                                                      ELSE Sat!Holds(b, A))
<1>1. \A q \in 0 .. 2 * n - 1 : /\ Sat!Holds(minisat_not(q), A) <=> ~Sat!Holds(q, A)
                                /\ minisat_not(q) \in 0 .. 2 * n - 1
  BY HoldsNot, LiteralFacts
<1>. QED  BY <1>1 DEF IteClauses, Sat!Satisfies

-----------------------------------------------------------------------------
(***************************************************************************)
(* Every operation keeps the invariant.                                    *)
(***************************************************************************)
LEMMA GatesNext == GatesInv /\ [Next]_vars => GatesInv'
<1>. SUFFICES ASSUME GatesInv, [Next]_vars PROVE GatesInv'
  OBVIOUS
<1>2. PICK x, n : x = new /\ n = nVars + 1
  OBVIOUS
<1>. DEFINE top == 0 .. 2 * n - 1
<1>1. /\ nVars \in Nat /\ n \in Nat /\ x \in top /\ Exprs \subseteq top
      /\ \A p \in Exprs : Makes(p) \in SUBSET Worlds
  <2>1. nVars \in Nat /\ n \in Nat
    BY <1>2 DEF GatesInv, LiteralsOk
  <2>2. \A p \in Exprs : p \div 2 \in 0 .. nVars - 1
    BY <2>1, LiteralFacts DEF Exprs
  <2>3. \A p \in Exprs : meaning[p \div 2] \in SUBSET Worlds
    BY <2>2 DEF GatesInv, LiteralsOk
  <2>4. \A p \in Exprs : Makes(p) \in SUBSET Worlds
    BY <2>3 DEF Makes
  <2>5. x \in top
    BY <1>2, <2>1, NewFacts DEF new
  <2>6. Exprs \subseteq top
    BY <1>2, <2>1 DEF Exprs
  <2>. QED  BY <2>1, <2>4, <2>5, <2>6
<1>. HIDE DEF top
<1>3. ASSUME UNCHANGED declared, NEW ws PROVE Declares(x, ws)
  BY <1>3 DEF Declares, GatesInv, LiteralsOk
<1>4. CASE minisat_true
  <2>1. Gate({{x}}, Worlds) /\ Declares(x, Worlds)
    BY <1>2, <1>3, <1>4 DEF minisat_true
  <2>2. \A A : Sat!Satisfies(A, {{x}}) <=> Sat!Holds(x, A)
    BY DEF Sat!Satisfies
  <2>3. {{x}} \in SUBSET SUBSET top /\ Worlds \in SUBSET Worlds
    BY <1>1, <1>2
  <2>4. Worlds \in SUBSET Worlds
    OBVIOUS
  <2>5. \A A \in Sat!Assignments(n), W \in Worlds : Means(A, W) =>
          /\ Sat!Satisfies(A, {{x}}) /\ Shows(A, W)' => (Sat!Holds(x, A) <=> W \in Worlds)
          /\ (Sat!Holds(x, A) <=> W \in Worlds) => Sat!Satisfies(A, {{x}})
    BY <2>2, <2>3
  <2>. QED  BY <1>2, <2>1, <2>2, <2>3, <2>4, <2>5, GateStep DEF top
<1>5. ASSUME NEW m \in Names, minisat_var(m) PROVE GatesInv'
  <2>. DEFINE ws == {W \in Worlds : m \in W}
  <2>1. Gate({}, ws) /\ Declares(x, ws)
    BY <1>2, <1>5 DEF minisat_var, Declares, GatesInv, LiteralsOk
  <2>2. \A A : Sat!Satisfies(A, {})
    BY DEF Sat!Satisfies
  <2>3. \A A : \A W \in Worlds : Shows(A, W)' => (Sat!Holds(x, A) <=> W \in ws)
    <3>1. m \in DOMAIN declared' /\ declared'[m] = x
      BY <1>2, <1>5 DEF minisat_var
    <3>2. \A A : \A W \in Worlds :
            Shows(A, W)' <=> \A k \in DOMAIN declared' : Sat!Holds(declared'[k], A) <=> k \in W
      BY DEF Shows, Sat!Holds, Sat!var, Sat!sign
    <3>. QED  BY <3>1, <3>2
  <2>4. {} \in SUBSET SUBSET top /\ ws \in SUBSET Worlds
    OBVIOUS
  <2>. HIDE DEF ws
  <2>5. \A A \in Sat!Assignments(n), W \in Worlds : Means(A, W) =>
          /\ Sat!Satisfies(A, {}) /\ Shows(A, W)' => (Sat!Holds(x, A) <=> W \in ws)
          /\ (Sat!Holds(x, A) <=> W \in ws) => Sat!Satisfies(A, {})
    BY <2>2, <2>3
  <2>. QED  BY <1>2, <2>1, <2>2, <2>3, <2>4, <2>5, GateStep DEF top
<1>6. ASSUME NEW a \in Exprs, NEW b \in Exprs, minisat_and(a, b) PROVE GatesInv'
  <2>. DEFINE ws == Makes(a) \cap Makes(b)
  <2>1. Gate(AndClauses(x, a, b), ws) /\ Declares(x, ws)
    BY <1>2, <1>3, <1>6 DEF minisat_and
  <2>2. /\ AndClauses(x, a, b) \in SUBSET SUBSET top
        /\ \A A \in Sat!Assignments(n) : Sat!Satisfies(A, AndClauses(x, a, b)) <=>
             (Sat!Holds(x, A) <=> Sat!Holds(a, A) /\ Sat!Holds(b, A))
    <3>1. n \in Nat /\ x \in top /\ a \in top /\ b \in top
      BY <1>1
    <3>. QED  BY <3>1, AndHolds, ClauseTypes DEF top
  <2>3. \A A : \A W \in Worlds : Means(A, W) =>
          (Sat!Holds(a, A) /\ Sat!Holds(b, A) <=> W \in ws)
    BY DEF Means
  <2>4. ws \in SUBSET Worlds
    BY <1>1
  <2>. HIDE DEF ws
  <2>5. \A A \in Sat!Assignments(n), W \in Worlds : Means(A, W) =>
          /\ Sat!Satisfies(A, AndClauses(x, a, b)) /\ Shows(A, W)' => (Sat!Holds(x, A) <=> W \in ws)
          /\ (Sat!Holds(x, A) <=> W \in ws) => Sat!Satisfies(A, AndClauses(x, a, b))
    BY <2>2, <2>3
  <2>. QED  BY <1>2, <2>1, <2>2, <2>3, <2>4, <2>5, GateStep DEF top
<1>7. ASSUME NEW a \in Exprs, NEW b \in Exprs, minisat_or(a, b) PROVE GatesInv'
  <2>. DEFINE ws == Makes(a) \cup Makes(b)
  <2>1. Gate(OrClauses(x, a, b), ws) /\ Declares(x, ws)
    BY <1>2, <1>3, <1>7 DEF minisat_or
  <2>2. /\ OrClauses(x, a, b) \in SUBSET SUBSET top
        /\ \A A \in Sat!Assignments(n) : Sat!Satisfies(A, OrClauses(x, a, b)) <=>
             (Sat!Holds(x, A) <=> Sat!Holds(a, A) \/ Sat!Holds(b, A))
    <3>1. n \in Nat /\ x \in top /\ a \in top /\ b \in top
      BY <1>1
    <3>. QED  BY <3>1, OrHolds, ClauseTypes DEF top
  <2>3. \A A : \A W \in Worlds : Means(A, W) =>
          (Sat!Holds(a, A) \/ Sat!Holds(b, A) <=> W \in ws)
    BY DEF Means
  <2>4. ws \in SUBSET Worlds
    BY <1>1
  <2>. HIDE DEF ws
  <2>5. \A A \in Sat!Assignments(n), W \in Worlds : Means(A, W) =>
          /\ Sat!Satisfies(A, OrClauses(x, a, b)) /\ Shows(A, W)' => (Sat!Holds(x, A) <=> W \in ws)
          /\ (Sat!Holds(x, A) <=> W \in ws) => Sat!Satisfies(A, OrClauses(x, a, b))
    BY <2>2, <2>3
  <2>. QED  BY <1>2, <2>1, <2>2, <2>3, <2>4, <2>5, GateStep DEF top
<1>8. ASSUME NEW p \in Exprs, NEW a \in Exprs, NEW b \in Exprs, minisat_ite(p, a, b)
      PROVE  GatesInv'
  <2>. DEFINE ws == (Makes(p) \cap Makes(a)) \cup (Makes(b) \ Makes(p))
  <2>1. Gate(IteClauses(x, p, a, b), ws) /\ Declares(x, ws)
    BY <1>2, <1>3, <1>8 DEF minisat_ite
  <2>2. /\ IteClauses(x, p, a, b) \in SUBSET SUBSET top
        /\ \A A \in Sat!Assignments(n) : Sat!Satisfies(A, IteClauses(x, p, a, b)) <=>
             (Sat!Holds(x, A) <=> IF Sat!Holds(p, A) THEN Sat!Holds(a, A)
                                                     ELSE Sat!Holds(b, A))
    <3>1. n \in Nat /\ x \in top /\ p \in top /\ a \in top /\ b \in top
      BY <1>1
    <3>. QED  BY <3>1, IteHolds, ClauseTypes DEF top
  <2>3. \A A : \A W \in Worlds : Means(A, W) =>
          ((IF Sat!Holds(p, A) THEN Sat!Holds(a, A) ELSE Sat!Holds(b, A)) <=> W \in ws)
    BY DEF Means
  <2>4. ws \in SUBSET Worlds
    BY <1>1
  <2>. HIDE DEF ws
  <2>5. \A A \in Sat!Assignments(n), W \in Worlds : Means(A, W) =>
          /\ Sat!Satisfies(A, IteClauses(x, p, a, b)) /\ Shows(A, W)' => (Sat!Holds(x, A) <=> W \in ws)
          /\ (Sat!Holds(x, A) <=> W \in ws) => Sat!Satisfies(A, IteClauses(x, p, a, b))
    BY <2>2, <2>3
  <2>. QED  BY <1>2, <2>1, <2>2, <2>3, <2>4, <2>5, GateStep DEF top
<1>9. ASSUME NEW a \in Exprs, minisat_assert(a) PROVE GatesInv'
  <2>1. /\ added' = added \cup {{a}} /\ asserted' = asserted \cup {a} /\ answer' = "none"
        /\ nVars' = nVars /\ declared' = declared /\ meaning' = meaning
    BY <1>9 DEF minisat_assert
  <2>2. /\ Exprs' = Exprs /\ Allowed' = {W \in Allowed : W \in Makes(a)}
        /\ Allowed \subseteq Worlds
        /\ \A p \in Exprs : Makes(p)' = Makes(p)
        /\ \A A, W : Shows(A, W)' <=> Shows(A, W)
    BY <2>1 DEF Exprs, Allowed, Makes, Worlds, Shows, Sat!Holds, Sat!var, Sat!sign
  <2>3. \A A : Sat!Satisfies(A, added') <=> Sat!Satisfies(A, added) /\ Sat!Holds(a, A)
    <3>1. \A A : Sat!Satisfies(A, {{a}}) <=> Sat!Holds(a, A)
      BY DEF Sat!Satisfies
    <3>2. \A A : Sat!Satisfies(A, added \cup {{a}}) <=>
                  Sat!Satisfies(A, added) /\ Sat!Satisfies(A, {{a}})
      BY SatisfiesUnion
    <3>. QED  BY <2>1, <3>1, <3>2
  <2>4. LiteralsOk' /\ AnswerOk'
    BY <2>1, <2>2 DEF GatesInv, LiteralsOk, AnswerOk, Worlds
  <2>5. GatesSound'
    <3>. SUFFICES ASSUME NEW A \in Sat!Assignments(nVars), Sat!Satisfies(A, added'),
                         NEW W \in Worlds, Shows(A, W)'
                  PROVE  /\ W \in Allowed'
                         /\ \A p \in Exprs' : Sat!Holds(p, A) <=> W \in Makes(p)'
      <4>1. nVars' = nVars
        BY <2>1
      <4>. QED  BY <4>1 DEF GatesSound, Worlds, Sat!Satisfies, Sat!Holds, Sat!var, Sat!sign,
                            Sat!Assignments
    <3>1. /\ W \in Allowed /\ Sat!Holds(a, A)
          /\ \A p \in Exprs : Sat!Holds(p, A) <=> W \in Makes(p)
      BY <2>2, <2>3 DEF GatesInv, GatesSound
    <3>2. W \in Allowed'
      BY <2>2, <3>1
    <3>3. ASSUME NEW p \in Exprs PROVE Sat!Holds(p, A) <=> W \in Makes(p)'
      BY <2>2, <3>1
    <3>. QED  BY <2>2, <3>2, <3>3
  <2>6. GatesConservative'
    <3>1. ASSUME NEW W \in Allowed, W \in Makes(a)
          PROVE  \E A \in Sat!Assignments(nVars) : Sat!Satisfies(A, added') /\ Shows(A, W)
      <4>1. PICK A \in Sat!Assignments(nVars) : Sat!Satisfies(A, added) /\ Shows(A, W)
        BY DEF GatesInv, GatesConservative
      <4>2. Sat!Holds(a, A)
        BY <2>2, <3>1, <4>1 DEF GatesInv, GatesSound
      <4>. QED  BY <2>3, <4>1, <4>2
    <3>. SUFFICES ASSUME NEW W \in Allowed'
                  PROVE  \E A \in Sat!Assignments(nVars) :
                           Sat!Satisfies(A, added') /\ Shows(A, W)'
      <4>1. nVars' = nVars
        BY <2>1
      <4>. QED  BY <4>1 DEF GatesConservative, Sat!Satisfies, Sat!Holds, Sat!var, Sat!sign,
                            Sat!Assignments
    <3>. QED  BY <2>2, <3>1
  <2>. QED  BY <2>4, <2>5, <2>6 DEF GatesInv
<1>10. ASSUME UNCHANGED <<nVars, added, declared, meaning, asserted>>, AnswerOk'
       PROVE  GatesInv'
  <2>1. LiteralsOk'
    BY <1>10 DEF GatesInv, LiteralsOk, Exprs, Worlds
  <2>2. /\ Exprs' = Exprs /\ Allowed' = Allowed
        /\ \A p : Makes(p)' = Makes(p)
        /\ \A A, W : Shows(A, W)' <=> Shows(A, W)
    BY <1>10 DEF Exprs, Allowed, Makes, Worlds, Shows, Sat!Holds, Sat!var, Sat!sign
  <2>3. \A A : Sat!Satisfies(A, added)' <=> Sat!Satisfies(A, added)
    BY <1>10 DEF Sat!Satisfies, Sat!Holds, Sat!var, Sat!sign
  <2>4. Worlds' = Worlds /\ Sat!Assignments(nVars)' = Sat!Assignments(nVars)
    BY <1>10 DEF Worlds, Sat!Assignments
  <2>5. \A p, A : Sat!Holds(p, A)' <=> Sat!Holds(p, A)
    BY DEF Sat!Holds, Sat!var, Sat!sign
  <2>6. GatesSound' /\ GatesConservative'
    BY <2>2, <2>3, <2>4, <2>5 DEF GatesInv, GatesSound, GatesConservative
  <2>. QED  BY <1>10, <2>1, <2>6 DEF GatesInv
<1>11. CASE minisat_check
  <2>1. UNCHANGED <<nVars, added, declared, meaning, asserted>> /\ DOMAIN values' = {}
    BY <1>11 DEF minisat_check, NoValues
  <2>2. AnswerOk'
    BY <1>11, <2>1 DEF minisat_check, AnswerOk, Sat!Assignments, Sat!Satisfies,
                       Sat!Satisfiable, Sat!Holds, Sat!var, Sat!sign
  <2>. QED  BY <1>10, <2>1, <2>2
<1>12. ASSUME NEW k \in DOMAIN declared, minisat_getvar(k) PROVE GatesInv'
  <2>1. /\ UNCHANGED <<nVars, added, declared, meaning, asserted, answer, model>>
        /\ answer = "sat"
        /\ values' = [m \in DOMAIN values \cup {k} |->
                        IF m = k THEN toInt(model[declared[k] \div 2]) = 1 ELSE values[m]]
    BY <1>12 DEF minisat_getvar
  <2>2. toInt(model[declared[k] \div 2]) = 1 <=> Sat!Holds(declared[k], model)
    <3>. DEFINE p == declared[k]
    <3>1. p \in Exprs /\ p % 2 = 1
      BY DEF GatesInv, LiteralsOk
    <3>. HIDE DEF p
    <3>2. p \div 2 \in 0 .. nVars - 1
      BY <1>1, <3>1, LiteralFacts DEF Exprs
    <3>3. model[p \div 2] \in BOOLEAN
      BY <2>1, <3>2 DEF GatesInv, AnswerOk, Sat!Assignments
    <3>4. Sat!Holds(p, model) <=> ~model[p \div 2]
      BY <3>1, <3>3, HoldsIs
    <3>. QED  BY <3>3, <3>4 DEF toInt, p
  <2>3. AnswerOk'
    <3>1. DOMAIN values' \subseteq DOMAIN declared'
      BY <2>1 DEF GatesInv, AnswerOk
    <3>2. \A m \in DOMAIN values' : values'[m] <=> Sat!Holds(declared[m], model)
      BY <2>1, <2>2 DEF GatesInv, AnswerOk
    <3>3. \A m \in DOMAIN values' : values'[m] <=> Sat!Holds(declared[m], model)'
      BY <2>1, <3>2 DEF Sat!Holds, Sat!var, Sat!sign
    <3>4. (model \in Sat!Assignments(nVars) /\ Sat!Satisfies(model, added))'
      BY <2>1 DEF GatesInv, AnswerOk, Sat!Assignments, Sat!Satisfies,
                  Sat!Holds, Sat!var, Sat!sign
    <3>. QED  BY <2>1, <3>1, <3>3, <3>4 DEF AnswerOk
  <2>. QED  BY <1>10, <2>1, <2>3
<1>13. CASE UNCHANGED vars
  <2>1. AnswerOk'
    BY <1>13 DEF vars, GatesInv, AnswerOk, Sat!Assignments, Sat!Satisfies,
                 Sat!Satisfiable, Sat!Holds, Sat!var, Sat!sign
  <2>. QED  BY <1>10, <1>13, <2>1 DEF vars
<1>. QED
  BY <1>4, <1>5, <1>6, <1>7, <1>8, <1>9, <1>11, <1>12, <1>13 DEF Next

-----------------------------------------------------------------------------
LEMMA GatesAlways == Spec => []GatesInv
BY GatesInit, GatesNext, PTL DEF Spec

(***************************************************************************)
(* For any number of variables and gates, every expression has, in every   *)
(* assignment that satisfies the clauses, the truth value it stands for.   *)
(***************************************************************************)
THEOREM GatesAreSound == Spec => []GatesSound
<1>1. GatesInv => GatesSound
  BY DEF GatesInv
<1>. QED  BY GatesAlways, <1>1, PTL

(***************************************************************************)
(* No gate excludes a world that the assertions allow.                     *)
(***************************************************************************)
THEOREM GatesExcludeNothing == Spec => []GatesConservative
<1>1. GatesInv => GatesConservative
  BY DEF GatesInv
<1>. QED  BY GatesAlways, <1>1, PTL

(***************************************************************************)
(* The values returned after Sat belong to a solution of the assertions,   *)
(* and after Unsat they have none: the world the model shows is allowed    *)
(* by soundness, and an allowed world would have a model.                  *)
(***************************************************************************)
THEOREM AnswersAreRight == Spec => []AnswerRight
<1>1. ASSUME GatesInv PROVE AnswerRight
  <2>1. ASSUME answer = "sat"
        PROVE  \E W \in Allowed : \A n \in DOMAIN values : values[n] <=> n \in W
    <3>. DEFINE W == {n \in DOMAIN declared : Sat!Holds(declared[n], model)}
    <3>1. W \in Worlds
      BY <1>1 DEF GatesInv, LiteralsOk, Worlds
    <3>2. Shows(model, W)
      BY DEF Shows
    <3>3. W \in Allowed
      BY <1>1, <2>1, <3>1, <3>2 DEF GatesInv, AnswerOk, GatesSound
    <3>4. \A n \in DOMAIN values : values[n] <=> n \in W
      BY <1>1, <2>1 DEF GatesInv, AnswerOk
    <3>. QED  BY <3>3, <3>4
  <2>2. ASSUME answer = "unsat" PROVE Allowed = {}
    BY <1>1, <2>2 DEF GatesInv, AnswerOk, GatesConservative, Sat!Satisfiable
  <2>. QED  BY <2>1, <2>2 DEF AnswerRight
<1>. QED  BY GatesAlways, <1>1, PTL
=============================================================================
