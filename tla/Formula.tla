------------------------------ MODULE Formula ------------------------------
(***************************************************************************)
(* The formulas of Smten.Runtime.Formula: finite boolean formulas          *)
(* (Finite.hs), partial formulas over them (PartialF.hs, BoolF.hs) and the *)
(* select that decides how far each argument evaluates (Select.hs).        *)
(*                                                                         *)
(* A finite formula is its constructor class and the set of assignments    *)
(* that satisfy it: the smart constructors look at no more than TrueFF,    *)
(* FalseFF, Unreachable_BoolFF or anything else ("symbolic", which may     *)
(* still hold everywhere or nowhere).  A partial formula is a lazy list:   *)
(* its levels, then Unreachable_PartialF ("unreachable"), or a thunk whose *)
(* evaluation raises ("error") or never ends ("hang").                     *)
(*                                                                         *)
(* The rules of a function are in the order of its patterns.               *)
(***************************************************************************)
EXTENDS Naturals, Sequences, Assignments

-----------------------------------------------------------------------------
\* Finite.hs

TrueFF == [class |-> "true", sat |-> Assignment]
FalseFF == [class |-> "false", sat |-> {}]
Unreachable_BoolFF == [class |-> "unreachable", sat |-> {}]
Symbolic(s) == [class |-> "symbolic", sat |-> s]

BoolFF == {TrueFF, FalseFF, Unreachable_BoolFF}
            \cup [class : {"symbolic"}, sat : SUBSET Assignment]

andFF(a, b) ==
    IF a = TrueFF THEN b
    ELSE IF b = TrueFF THEN a
    ELSE IF FalseFF \in {a, b} THEN FalseFF
    ELSE IF {a, b} = {Unreachable_BoolFF} THEN Unreachable_BoolFF
    ELSE IF Unreachable_BoolFF \in {a, b} THEN FalseFF
    ELSE Symbolic(a.sat \cap b.sat)

notFF(a) ==
    IF a = TrueFF THEN FalseFF
    ELSE IF a = FalseFF THEN TrueFF
    ELSE IF a = Unreachable_BoolFF THEN Unreachable_BoolFF
    ELSE Symbolic(Assignment \ a.sat)

orFF(a, b) ==
    IF TrueFF \in {a, b} THEN TrueFF
    ELSE IF a = FalseFF THEN b
    ELSE IF b = FalseFF THEN a
    ELSE IF {a, b} = {Unreachable_BoolFF} THEN Unreachable_BoolFF
    ELSE IF Unreachable_BoolFF \in {a, b} THEN TrueFF
    ELSE Symbolic(a.sat \cup b.sat)

\* Mutant of iteFF: the branches change places under a symbolic guard.
iteFFSwapped(p, a, b) ==
    IF p = TrueFF THEN a
    ELSE IF p = FalseFF THEN b
    ELSE IF p = Unreachable_BoolFF THEN p
    ELSE Symbolic((p.sat \cap b.sat) \cup (a.sat \ p.sat))

iteFF(p, a, b) ==
    IF p = TrueFF THEN a
    ELSE IF p = FalseFF THEN b
    ELSE IF p = Unreachable_BoolFF THEN p
    ELSE IF a = TrueFF THEN orFF(p, b)
    ELSE IF b = FalseFF THEN andFF(p, a)
    ELSE IF b = TrueFF THEN orFF(notFF(p), a)
    ELSE IF a = FalseFF THEN andFF(notFF(p), b)
    ELSE IF a = Unreachable_BoolFF THEN b
    ELSE IF b = Unreachable_BoolFF THEN a
    ELSE Symbolic((p.sat \cap a.sat) \cup (b.sat \ p.sat))

-----------------------------------------------------------------------------
\* PartialF.hs: the data type

Ends == {"unreachable", "error", "hang"}
PartialF == [levels : Seq([p : BoolFF, a : BoolFF]), end : Ends]

Tail_(end) == [levels |-> <<>>, end |-> end]
unreachablePF == Tail_("unreachable")
Errors == Tail_("error")
Hangs == Tail_("hang")

PartialF_(p, a, rest) == [levels |-> <<[p |-> p, a |-> a]>> \o rest.levels, end |-> rest.end]

finitePF(x) == PartialF_(TrueFF, x, unreachablePF)

\* Mutant of approxPF: the unknown part counts as decided.
approxPFDecided(x) == PartialF_(TrueFF, Unreachable_BoolFF, x)

approxPF(x) == PartialF_(FalseFF, Unreachable_BoolFF, x)

IsLevel(x) == x.levels # <<>>
hp(x) == Head(x.levels).p
ha(x) == Head(x.levels).a

\* Mutant of Rest: what is behind the first level is lost.
RestLost(x) == unreachablePF

Rest(x) == [levels |-> Tail(x.levels), end |-> x.end]

unaryPF(F(_), x) ==
    [levels |-> [i \in 1..Len(x.levels) |-> [p |-> x.levels[i].p, a |-> F(x.levels[i].a)]],
     end |-> x.end]

\* unaryPF (andFF g) x
andAll(g, x) == unaryPF(LAMBDA a : andFF(g, a), x)

-----------------------------------------------------------------------------
\* Select.hs.  Both arguments are evaluated to weak head normal form: one that
\* never ends blocks the call, and one that raises is approximated unless both
\* do, when the exception of x is raised again.  `late' names the arguments a
\* Timeout exception interrupts: it is not of type AsyncException, so notAsync
\* lets trysync catch it, and the thunk goes on when it is forced again.

Lates == SUBSET {"x", "y"}

Fails(x, late) == late \/ x = Errors
Blocks(x, late) == ~late /\ x = Hangs

approximated(x, late) == IF Fails(x, late) THEN approxPF(x) ELSE x

\* Mutant of SelectRaises: an argument that raises makes the whole raise.
SelectRaisesEither(x, y, late) == Fails(x, "x" \in late) \/ Fails(y, "y" \in late)

SelectRaises(x, y, late) == Fails(x, "x" \in late) /\ Fails(y, "y" \in late)

\* Use(u, v) is what the caller makes of the two results.
selectPF(x, y, late, Use(_, _)) ==
    IF Blocks(x, "x" \in late) \/ Blocks(y, "y" \in late) THEN Hangs
    ELSE IF SelectRaises(x, y, late) THEN Errors
    ELSE Use(approximated(x, "x" \in late), approximated(y, "y" \in late))

-----------------------------------------------------------------------------
\* PartialF.hs: the operations.  The functions have the arguments of a call as
\* a record; `same' tells that both branches are one heap object, and `late' is
\* for the outermost select of the call.

Ite_(p, x, y, late) == [p |-> p, x |-> x, y |-> y, late |-> late]
Ite(g, x, y, same, late) == [g |-> g, x |-> x, y |-> y, same |-> same, late |-> late]
And(x, y, late) == [x |-> x, y |-> y, late |-> late]

IteDom_ == [p : BoolFF, x : PartialF, y : PartialF, late : Lates]
IteDom == [g : PartialF, x : PartialF, y : PartialF, same : BOOLEAN, late : Lates]
AndDom == [x : PartialF, y : PartialF, late : Lates]

\* (Its own test for one heap object changes no value.)
itePF_[c \in IteDom_] ==
    LET level(u, v) ==
          IF u = unreachablePF THEN c.y
          ELSE IF v = unreachablePF THEN c.x
          ELSE PartialF_(iteFF(c.p, hp(u), hp(v)), iteFF(c.p, ha(u), ha(v)),
                         itePF_[Ite_(c.p, Rest(u), Rest(v), {})])
    IN  IF c.p = TrueFF THEN c.x
        ELSE IF c.p = FalseFF THEN c.y
        ELSE selectPF(c.x, c.y, c.late, level)

itePF[c \in IteDom] ==
    LET level(u, v) ==
          IF u = unreachablePF THEN c.y
          ELSE IF v = unreachablePF THEN c.x
          ELSE PartialF_(andFF(hp(c.g), iteFF(ha(c.g), hp(u), hp(v))),
                         iteFF(ha(c.g), ha(u), ha(v)),
                         itePF_[Ite_(hp(c.g), itePF_[Ite_(ha(c.g), c.x, c.y, {})],
                                              itePF[Ite(Rest(c.g), c.x, c.y, FALSE, {})], {})])
    IN  IF ~IsLevel(c.g) THEN c.g
        ELSE IF hp(c.g) = TrueFF THEN itePF_[Ite_(ha(c.g), c.x, c.y, c.late)]
        ELSE IF c.same /\ c.x = c.y THEN c.x
        ELSE selectPF(c.x, c.y, c.late, level)

andPF[c \in AndDom] ==
    LET x == c.x
        level(u, v) ==
          IF v # unreachablePF
          THEN PartialF_(andFF(hp(x), hp(v)), andFF(ha(x), ha(v)),
                         itePF_[Ite_(hp(x), andAll(ha(x), Rest(v)),
                           itePF_[Ite_(hp(v), andAll(ha(v), Rest(x)),
                             andPF[And(Rest(x), Rest(v), {})], {})], {})])
          ELSE IF hp(x) = TrueFF THEN unreachablePF
          ELSE finitePF(FalseFF)
    IN  IF IsLevel(x) THEN selectPF(x, c.y, c.late \cap {"y"}, level) ELSE x

-----------------------------------------------------------------------------
\* BoolF.hs

trueF == finitePF(TrueFF)
falseF == finitePF(FalseFF)
varF(s) == finitePF(Symbolic(s))
notF(x) == unaryPF(notFF, x)
=============================================================================
