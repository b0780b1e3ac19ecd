------------------------------- MODULE KExpr -------------------------------
(***************************************************************************)
(* The dependency expressions of the configuration tool, config/expr.c:    *)
(* their value, and the rewriting menu.c does with them.  An expression is *)
(* a tuple whose first component is its type; the right of a comparison is *)
(* a constant or a symbol.  A slot, which the code has as struct expr **,  *)
(* is a path from the root.                                                *)
(***************************************************************************)
EXTENDS Naturals, Sequences, SequencesExt

CONSTANTS
    Bools,      \* boolean symbols
    Tris        \* tristate symbols

Consts == {"n", "m", "y"}
Sym(s) == <<"sym", s>>
No == Sym("n")
Mod == Sym("m")
Yes == Sym("y")
Not(a) == <<"not", a>>
None == <<"none">>
IsSym(e) == e[1] = "sym"
IsTwo(e) == e[1] \in {"and", "or"}
IsComp(e) == e[1] \in {"eq", "ne"}

\* expr_alloc_and and expr_alloc_or.
And(a, b) == IF a = None THEN b ELSE IF b = None THEN a ELSE <<"and", a, b>>
Or(a, b) == IF a = None THEN b ELSE IF b = None THEN a ELSE <<"or", a, b>>

\* A tree's part at a path, and the tree with another part there.
RECURSIVE At(_, _), Put(_, _, _)
At(e, p) == IF p = <<>> THEN e ELSE At(e[Head(p)], Tail(p))
Put(e, p, x) == IF p = <<>> THEN x ELSE [e EXCEPT ![Head(p)] = Put(e[Head(p)], Tail(p), x)]

(***************************************************************************)
(* expr_calc_value.  val gives each symbol's value, 0 (n), 1 (m) or 2 (y). *)
(***************************************************************************)
Least(a, b) == IF a < b THEN a ELSE b
Most(a, b) == IF a > b THEN a ELSE b

RECURSIVE Calc(_, _)
Calc(e, val) ==
    CASE e = None -> 2
      [] IsSym(e) -> val[e[2]]
      [] e[1] = "and" -> Least(Calc(e[2], val), Calc(e[3], val))
      [] e[1] = "or" -> Most(Calc(e[2], val), Calc(e[3], val))
      [] e[1] = "not" -> 2 - Calc(e[2], val)
      [] e[1] = "eq" -> IF val[e[2]] = val[e[3]] THEN 2 ELSE 0
      [] e[1] = "ne" -> IF val[e[2]] = val[e[3]] THEN 0 ELSE 2

\* Which symbols have which values: without modules none is m.
ValuesWith[modules \in BOOLEAN] ==
    {[s \in Bools \cup Tris \cup Consts |->
        CASE s = "n" -> 0 [] s = "m" -> 1 [] s = "y" -> 2
          [] s \in Bools -> bool[s] [] s \in Tris -> tri[s]] :
       bool \in [Bools -> {0, 2}], tri \in [Tris -> IF modules THEN 0 .. 2 ELSE {0, 2}]}
Values(modules) == ValuesWith[modules]

-----------------------------------------------------------------------------
\* expr_eliminate_yn: constants y and n below and, or.
Unit(t) == IF t = "and" THEN Yes ELSE No
Zero(t) == IF t = "and" THEN No ELSE Yes

RECURSIVE EliminateYn(_)
EliminateYn(e) ==
    IF ~IsTwo(e) THEN e
    ELSE LET l == EliminateYn(e[2])
             r == EliminateYn(e[3]) IN
         CASE Zero(e[1]) \in {l, r} -> Zero(e[1])
           [] l = Unit(e[1]) -> r
           [] r = Unit(e[1]) -> l
           [] OTHER -> <<e[1], l, r>>

(***************************************************************************)
(* Four functions visit each pair of operands of two chains of type t; the *)
(* chain itself does not change on the way.                                *)
(***************************************************************************)
RECURSIVE Leaves(_, _), Nodes(_, _)
Below(i, ps) == [k \in DOMAIN ps |-> <<i>> \o ps[k]]
Leaves(t, e) ==
    IF e[1] = t THEN Below(2, Leaves(t, e[2])) \o Below(3, Leaves(t, e[3])) ELSE <<<<>>>>
\* Operands and then the chains they belong to.
Nodes(t, e) ==
    IF e[1] = t THEN Below(2, Nodes(t, e[2])) \o Below(3, Nodes(t, e[3])) \o <<<<>>>> ELSE <<<<>>>>

Under(p, ps) == [k \in DOMAIN ps |-> p \o ps[k]]
\* F of v, which TLC then calculates first and only once.
With(v, F(_)) == CHOOSE r \in {F(x) : x \in {v}} : TRUE
ForPairs(Op(_, _, _), d, P, Q) ==
    FoldLeft(LAMBDA x, p : With(x, LAMBDA y : FoldLeft(LAMBDA z, q : Op(z, p, q), y, Q)), d, P)

(***************************************************************************)
(* expr_eq compares conjunctions and disjunctions by removing the operands *)
(* they share (expr_eliminate_eq); d is the pair of both.                  *)
(***************************************************************************)
RECURSIVE ExprEq(_, _)
ElimPair(t, d, p, q) ==
    LET a == At(d, p)
        b == At(d, q) IN
    IF (a = b /\ a \in {Yes, No}) \/ ~ExprEq(a, b) THEN d
    ELSE Put(Put(d, p, Unit(t)), q, Unit(t))
ElimEqChains(t, d) ==
    ForPairs(LAMBDA x, p, q : ElimPair(t, x, p, q), d,
             Under(<<1>>, Leaves(t, d[1])), Under(<<2>>, Leaves(t, d[2])))
ElimLeft(d) == IF IsTwo(d[1]) THEN ElimEqChains(d[1][1], d) ELSE d
ElimRight(d) == IF d[1][1] # d[2][1] /\ IsTwo(d[2]) THEN ElimEqChains(d[2][1], d) ELSE d
BothYn(d) == <<EliminateYn(d[1]), EliminateYn(d[2])>>
EliminateEq(e1, e2) == BothYn(ElimRight(ElimLeft(<<e1, e2>>)))
AreSym(d) == IsSym(d[1]) /\ d[1] = d[2]

ExprEq(e1, e2) ==
    CASE e1[1] # e2[1] -> FALSE
      [] IsSym(e1) \/ IsComp(e1) -> e1 = e2
      [] e1[1] = "not" -> ExprEq(e1[2], e2[2])
      [] IsTwo(e1) -> AreSym(EliminateEq(e1, e2))

\* expr_extract_eq_and, expr_extract_eq_or: what two chains share, and their rests.
ExtractPair(t, d, p, q) ==
    IF ExprEq(At(d, p), At(d, q))
    THEN <<Put(d, p, Unit(t))[1], Put(d, q, Unit(t))[2],
           IF d[3] = None THEN At(d, p) ELSE <<t, d[3], At(d, p)>>>>
    ELSE d
Extracted(d) == IF d[3] = None THEN d ELSE Append(BothYn(d), d[3])
ExtractEq(t, e1, e2) ==
    Extracted(ForPairs(LAMBDA x, p, q : ExtractPair(t, x, p, q), <<e1, e2, None>>,
                       Under(<<1>>, Leaves(t, e1)), Under(<<2>>, Leaves(t, e2))))

-----------------------------------------------------------------------------
(***************************************************************************)
(* expr_transform: comparisons of booleans and negations go away.          *)
(***************************************************************************)
BoolComp(e) ==
    LET s == Sym(e[2]) IN
    CASE e[3] = "n" -> IF e[1] = "eq" THEN Not(s) ELSE s
      [] e[3] = "m" -> IF e[1] = "eq" THEN No ELSE Yes
      [] e[3] = "y" -> IF e[1] = "eq" THEN s ELSE Not(s)
      [] OTHER -> e

RECURSIVE Transform(_)
TransNot(a) ==
    CASE a[1] = "not" -> Transform(a[2])
      [] a[1] = "eq" -> <<"ne", a[2], a[3]>>
      [] a[1] = "ne" -> <<"eq", a[2], a[3]>>
      [] a[1] = "or" -> Transform(<<"and", Not(a[2]), Not(a[3])>>)
      [] a[1] = "and" -> Transform(<<"or", Not(a[2]), Not(a[3])>>)
      [] a = Yes -> No
      [] a = No -> Yes
      [] a = Mod -> Mod
      [] OTHER -> Not(a)

Transform(e) ==
    CASE e = None \/ IsSym(e) -> e
      [] IsComp(e) -> IF e[2] \in Bools THEN BoolComp(e) ELSE e
      [] e[1] = "not" -> TransNot(Transform(e[2]))
      [] IsTwo(e) -> <<e[1], Transform(e[2]), Transform(e[3])>>

\* expr_trans_bool: a tristate's FOO!=n becomes FOO.
RECURSIVE TransBool(_)
TransBool(e) ==
    CASE e = None -> None
      [] IsTwo(e) -> <<e[1], TransBool(e[2]), TransBool(e[3])>>
      [] e[1] = "not" -> Not(TransBool(e[2]))
      [] e[1] = "ne" /\ e[2] \in Tris /\ e[3] = "n" -> Sym(e[2])
      [] OTHER -> e

RECURSIVE TransCompare(_, _, _)
(***************************************************************************)
(* expr_trans_compare: an expression for e = c (or e # c); menu.c asks for *)
(* # n only.                                                               *)
(***************************************************************************)
TransCompare(e, t, c) ==
    LET neg(x) == IF t = "ne" THEN Not(x) ELSE x
        both(k) == <<k, TransCompare(e[2], "eq", c), TransCompare(e[3], "eq", c)>> IN
    CASE e = None -> neg(Sym(c))
      [] IsTwo(e) -> neg(IF c = "m" THEN e
                         ELSE both(IF c = "y" THEN e[1] ELSE IF e[1] = "and" THEN "or" ELSE "and"))
      [] e[1] = "not" -> TransCompare(e[2], IF t = "eq" THEN "ne" ELSE "eq", c)
      [] IsComp(e) -> IF c = "m" THEN IF t = "eq" THEN No ELSE Yes
                      ELSE IF (c = "y") = (t = "eq") THEN e ELSE Not(e)
      [] IsSym(e) -> <<t, e[2], c>>

-----------------------------------------------------------------------------
(***************************************************************************)
(* expr_join_or, expr_join_and: one expression for two operands that are   *)
(* about the same symbol, or None.                                         *)
(***************************************************************************)
Core(e) == IF e[1] = "not" THEN e[2] ELSE e
Joinable(e1, e2) ==
    /\ \A e \in {e1, e2} : e[1] \in {"eq", "ne", "sym", "not"}
    /\ Core(e1)[1] \in {"eq", "ne", "sym"}
    /\ e2[1] = "not" => IsSym(e2[2])
    /\ Core(e1)[2] = Core(e2)[2] /\ Core(e1)[2] \in Bools \cup Tris
\* Both are comparisons t with two different constants; the third constant.
TwoOf(t, e1, e2) ==
    /\ e1[1] = t /\ e2[1] = t /\ e1[3] # e2[3] /\ {e1[3], e2[3]} \subseteq Consts
\* Slip: (a != b) && (a != c) becomes a = b.
FirstOf(e1, e2) == e1[3]

Third(e1, e2) == CHOOSE c \in Consts : c \notin {e1[3], e2[3]}

JoinOr(e1, e2) ==
    LET s == Core(e1)[2] IN
    IF ExprEq(e1, e2) THEN e1
    ELSE IF ~Joinable(e1, e2) THEN None
    ELSE CASE s \in Tris /\ TwoOf("eq", e1, e2) -> <<"ne", s, Third(e1, e2)>>
           [] s \in Bools /\ {e1, e2} = {Sym(s), Not(Sym(s))} -> Yes
           [] OTHER -> None

JoinAnd(e1, e2) ==
    LET s == Core(e1)[2]
        with(t, c) == {e1, e2} = {Sym(s), <<t, s, c>>} IN
    IF ExprEq(e1, e2) THEN e1
    ELSE IF ~Joinable(e1, e2) THEN None
    ELSE CASE with("eq", "y") -> <<"eq", s, "y">>
           [] with("ne", "n") -> Sym(s)
           [] with("ne", "m") -> <<"eq", s, "y">>
           [] s \in Tris /\ {e1[1], e2[1]} = {"eq", "ne"} /\ {e1[3], e2[3]} \subseteq Consts ->
                IF e1[3] = e2[3] THEN No ELSE IF e1[1] = "eq" THEN e1 ELSE e2
           [] s \in Tris /\ TwoOf("ne", e1, e2) -> <<"eq", s, Third(e1, e2)>>
           [] OTHER -> None

(***************************************************************************)
(* expr_eliminate_dups1: operands that say the same or can be joined.  d   *)
(* is the expression and trans_count; p and q are slots in it.             *)
(***************************************************************************)
RECURSIVE Dups1(_, _)
Join(t, e1, e2) == IF t = "or" THEN JoinOr(e1, e2) ELSE JoinAnd(e1, e2)
Joined(t, d, p, q, j) == IF j = None THEN d ELSE [Put(Put(d, p, Unit(t)), q, j) EXCEPT ![2] = @ + 1]
JoinAt(t, d, p, q) == Joined(t, d, p, q, Join(t, At(d, p), At(d, q)))
Dup1Pair(t, d, p, q) ==
    IF p = q THEN d ELSE JoinAt(t, IF IsTwo(At(d, p)) THEN Dups1(d, p) ELSE d, p, q)
Dups1(d, r) ==
    LET t == At(d, r)[1]
        ps == Under(r, Leaves(t, At(d, r))) IN
    ForPairs(LAMBDA x, p, q : Dup1Pair(t, x, p, q), d, ps, ps)

(***************************************************************************)
(* expr_eliminate_dups2: an operand (a or b) of a conjunction that also    *)
(* has !a and !b is n, and the dual.  The second slot is also, unlike in   *)
(* the other three functions, that of each chain.                          *)
(***************************************************************************)
RECURSIVE Dups2(_, _)
Dual(t) == IF t = "or" THEN "and" ELSE "or"
ClashAt(u, d, p, q) ==
    IF ExtractEq(u, Transform(Not(At(d, p))), At(d, q))[1] = Unit(u)
    THEN [Put(d, p, Zero(u)) EXCEPT ![2] = @ + 1] ELSE d
Dup2Pair(d, p, q) ==
    IF p = q \/ ~IsTwo(At(d, p)) THEN d ELSE ClashAt(Dual(At(d, p)[1]), Dups2(d, p), p, q)
Dups2(d, r) ==
    LET t == At(d, r)[1] IN
    ForPairs(LAMBDA x, p, q : Dup2Pair(x, p, q), d,
             Under(r, Leaves(t, At(d, r))), Under(r, Nodes(t, At(d, r))))

RECURSIVE EliminateDups(_)
UntilNone(d) == IF d[2] = 0 THEN d[1] ELSE EliminateDups(EliminateYn(d[1]))
EliminateDups(e) == IF ~IsTwo(e) THEN e ELSE UntilNone(Dups2(Dups1(<<e, 0>>, <<1>>), <<1>>))

-----------------------------------------------------------------------------
(***************************************************************************)
(* Questions about an expression.                                          *)
(***************************************************************************)
RECURSIVE ContainsSymbol(_, _), DependsSymbol(_, _)
ContainsSymbol(e, s) ==
    CASE e = None -> FALSE
      [] IsTwo(e) -> ContainsSymbol(e[2], s) \/ ContainsSymbol(e[3], s)
      [] e[1] = "not" -> ContainsSymbol(e[2], s)
      [] IsSym(e) -> e[2] = s
      [] IsComp(e) -> s \in {e[2], e[3]}

\* expr_depends_symbol: e is n while s is n.
DependsSymbol(e, s) ==
    CASE e = None -> FALSE
      [] e[1] = "and" -> DependsSymbol(e[2], s) \/ DependsSymbol(e[3], s)
      [] OTHER -> e \in {Sym(s), <<"eq", s, "y">>, <<"eq", s, "m">>, <<"ne", s, "n">>}

(***************************************************************************)
(* expr_print writes tokens; expr_compare_type says when an operand of     *)
(* type t2 below t1 needs parentheses (0 below any operand, here "top").   *)
(***************************************************************************)
Rank == [top |-> 0, or |-> 1, and |-> 2, not |-> 3, eq |-> 4, ne |-> 4, sym |-> 5]

Needs(t1, t2) == t1 # "top" /\ Rank[t2] < Rank[t1] /\ t2 \in {"or", "and", "not"}

RECURSIVE Show(_, _)
Show(e, prev) ==
    LET body == CASE IsSym(e) -> <<e[2]>>
                  [] e[1] = "not" -> <<"!">> \o Show(e[2], "not")
                  [] IsComp(e) -> <<e[2], IF e[1] = "eq" THEN "=" ELSE "!=", e[3]>>
                  [] IsTwo(e) -> Show(e[2], e[1]) \o <<IF e[1] = "or" THEN "||" ELSE "&&">> \o Show(e[3], e[1]) IN
    IF Needs(prev, e[1]) THEN <<"(">> \o body \o <<")">> ELSE body

(***************************************************************************)
(* The grammar of expressions in config/zconf.y; each reader returns the   *)
(* expression and the tokens that are left.  || binds least, && more, both *)
(* to the left; the operand of ! may be a comparison.                      *)
(***************************************************************************)
RECURSIVE ReadOr(_), ReadAnd(_), ReadNot(_), MoreOr(_), MoreAnd(_)
Starts(ts, t) == ts # <<>> /\ ts[1] = t
Negated(r) == <<Not(r[1]), r[2]>>
Closed(r) == <<r[1], Tail(r[2])>>
Binary(t, e, r) == <<<<t, e, r[1]>>, r[2]>>
ReadNot(ts) ==
    CASE ts[1] = "!" -> Negated(ReadNot(Tail(ts)))
      [] ts[1] = "(" -> Closed(ReadOr(Tail(ts)))
      [] Starts(Tail(ts), "=") -> <<<<"eq", ts[1], ts[3]>>, SubSeq(ts, 4, Len(ts))>>
      [] Starts(Tail(ts), "!=") -> <<<<"ne", ts[1], ts[3]>>, SubSeq(ts, 4, Len(ts))>>
      [] OTHER -> <<Sym(ts[1]), Tail(ts)>>
MoreAnd(r) == IF Starts(r[2], "&&") THEN MoreAnd(Binary("and", r[1], ReadNot(Tail(r[2])))) ELSE r
ReadAnd(ts) == MoreAnd(ReadNot(ts))
MoreOr(r) == IF Starts(r[2], "||") THEN MoreOr(Binary("or", r[1], ReadAnd(Tail(r[2])))) ELSE r
ReadOr(ts) == MoreOr(ReadAnd(ts))
=============================================================================
