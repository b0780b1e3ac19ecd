------------------------------ MODULE KRewrite ------------------------------
(***************************************************************************)
(* Any sequence of the rewritings of KExpr, as menu_finalize applies them  *)
(* to the condition of a menu entry and then to those of its properties.   *)
(***************************************************************************)
EXTENDS KExpr

CONSTANTS
    Conditions,     \* conditions as they are written
    Parents,        \* conditions of the surrounding menu, as they are written
    MaxConj         \* menus around menus

VARIABLES
    e,          \* the condition, rewritten
    orig,       \* what it was written as
    parent,     \* the surrounding condition
    conj        \* surrounding conditions added so far

vars == <<e, orig, parent, conj>>

Init ==
    /\ e \in Conditions /\ orig = e /\ conj = 0
    /\ parent \in Parents

Rewrite(F(_)) == e' = F(e) /\ UNCHANGED <<orig, parent, conj>>

\* basedep = expr_eliminate_dups(parentdep && expr_transform(dep)).
AddParent ==
    /\ conj < MaxConj /\ conj' = conj + 1
    /\ e' = EliminateDups(And(parent, Transform(e)))
    /\ orig' = And(parent, orig)
    /\ UNCHANGED parent

Next == Rewrite(Transform) \/ Rewrite(EliminateDups) \/ Rewrite(EliminateYn) \/ AddParent

Spec == Init /\ [][Next]_vars

-----------------------------------------------------------------------------
Same(a, b, modules) == \A v \in Values(modules) : Calc(a, v) = Calc(b, v)

\* Without modules no rewriting changes the value of a condition, whatever the
\* symbols in it are set to.
ValueKept == Same(e, orig, FALSE)

\* With modules the rewriting of negations and constants alone does not either.
NegationKept == Same(e, Transform(e), TRUE) /\ Same(e, EliminateYn(e), TRUE)

\* expr_eq: what counts as equal has the same value.
EqualIsSame == ExprEq(e, parent) => Same(e, parent, TRUE)

\* expr_extract_eq: what both share, joined with what each has left, is each again.
ExtractedJoins ==
    \A t \in {"and", "or"} :
        LET d == ExtractEq(t, e, parent) IN
        d[3] # None => Same(<<t, d[3], d[1]>>, e, TRUE) /\ Same(<<t, d[3], d[2]>>, parent, TRUE)

\* expr_depends_symbol: the condition is n whenever the symbol is.
DependsMeansNo ==
    \A s \in Bools \cup Tris : DependsSymbol(e, s) =>
        \A v \in Values(TRUE) : v[s] = 0 => Calc(e, v) = 0

\* expr_trans_compare as menu.c uses it: the comparison with n is y when the
\* condition is not n.
CompareMeansValue ==
    LET c == TransCompare(e, "ne", "n") IN
    \A v \in Values(FALSE) : Calc(c, v) = 2 <=> Calc(e, v) # 0

\* expr_trans_bool, on a rewritten condition: the prompt of a boolean symbol is
\* visible as before.
VisibleKept ==
    LET b == TransBool(EliminateDups(Transform(e))) IN
    \A v \in Values(FALSE) : Calc(b, v) = 0 <=> Calc(e, v) = 0

\* "bool FOO!=n => FOO": what expr_trans_bool rewrites has the same value.
TransBoolSame == Same(TransBool(e), e, TRUE)

\* A condition printed by expr_print reads as a condition of the same value.
PrintReads ==
    LET r == ReadOr(Show(e, "top")) IN r[2] = <<>> /\ Same(r[1], e, TRUE)
=============================================================================
