-------------------------------- MODULE KDeps --------------------------------
(***************************************************************************)
(* The search for recursive dependencies, sym_check_deps of                *)
(* config/symbol.c, which conf_parse runs over all symbols once the menus  *)
(* are read.  The C call stack and the dep_stack entries on it are one     *)
(* stack of frames; check and checked are the two flag bits.  The symbols  *)
(* named in a symbol's rev_dep, prompts and defaults, in the order the     *)
(* code walks them, are one list.                                          *)
(***************************************************************************)
EXTENDS Naturals, Sequences

CONSTANTS
    Syms,       \* the symbols
    Choice,     \* the symbol of a choice
    ValueList,  \* the choice's values, in order
    NoSym,      \* NULL
    MaxDeps     \* symbols in one list

Values == {ValueList[i] : i \in DOMAIN ValueList}

\* What the constants are: a choice is a symbol of its own, and so are its values.
Sizes ==
    /\ Choice \in Syms /\ NoSym \notin Syms
    /\ ValueList \in Seq(Syms) /\ Choice \notin Values

VARIABLES
    deps,       \* symbol -> the symbols it depends on
    pending,    \* symbols the loop of conf_parse has not seen
    stack,      \* calls in progress, the innermost first
    ret,        \* the symbol a call in progress has to return
    check,      \* SYMBOL_CHECK
    checked,    \* SYMBOL_CHECKED
    paths,      \* the dependencies printed
    zconfnerrs

vars == <<deps, pending, stack, ret, check, checked, paths, zconfnerrs>>

Kinds == {"symbol", "value", "choice", "values", "member"}
Records == [kind : Kinds, sym : Syms, todo : Seq(Syms)]
Frame(k, s, t) == [kind |-> k, sym |-> s, todo |-> t]

Lists == UNION {[1 .. n -> Syms] : n \in 0 .. MaxDeps}

\* menu_finalize puts the choice in front of what its values depend on.
Init ==
    /\ deps \in [Syms -> {l \in Lists : \A i, j \in DOMAIN l : l[i] = l[j] => i = j}]
    /\ \A v \in Values : deps[v] # <<>> /\ deps[v][1] = Choice
    /\ pending = Syms /\ stack = <<>> /\ ret = NoSym
    /\ check = {} /\ checked = {} /\ paths = {} /\ zconfnerrs = 0

-----------------------------------------------------------------------------
Group(s) == IF s = Choice THEN {s} \cup Values ELSE {s}
Kind(s) == IF s \in Values THEN "value" ELSE IF s = Choice THEN "choice" ELSE "symbol"

\* The symbols flagged on entry; a value leaves that to its choice.
Marks(s) == Group(s) \ (IF s \in Values THEN {s} ELSE {})

\* sym_check_deps of an unchecked symbol, called with below on the stack.
Call(s, below) ==
    /\ stack' = <<Frame(Kind(s), s, IF s \in Values THEN <<Choice>> ELSE deps[s])>> \o below
    /\ check' = check \cup Marks(s) /\ checked' = checked \cup Marks(s)

\* The loop of conf_parse.
Parse ==
    /\ stack = <<>>
    /\ \E s \in pending :
         /\ pending' = pending \ {s}
         /\ IF s \in checked THEN UNCHANGED <<stack, check, checked>> ELSE Call(s, <<>>)
    /\ UNCHANGED <<deps, ret, paths, zconfnerrs>>

-----------------------------------------------------------------------------
Top == stack[1]
Rest == Tail(stack)
Caller == [Top EXCEPT !.todo = Tail(@)]
Working == stack # <<>> /\ ret = NoSym /\ Top.todo # <<>>
Dep == Head(Top.todo)

\* Slip: flags only of symbols without a choice stop the search.
StopsPlain(s) == s \in check \ Values

Stops(s) == s \in check

\* sym_check_print_recursive: from the innermost frame of last_sym.
Printed(s) ==
    LET last == IF s \in Values THEN Choice ELSE s
        n == CHOOSE i \in DOMAIN stack :
                 stack[i].sym = last /\ \A j \in 1 .. i - 1 : stack[j].sym # last
        path == [i \in 1 .. n |-> stack[n + 1 - i].sym]
    IN  IF s \in Values THEN Append(path, s) ELSE path

Recursive ==
    /\ Working /\ Top.kind # "values" /\ Stops(Dep)
    /\ paths' = paths \cup {Printed(Dep)} /\ ret' = Dep
    /\ stack' = <<Caller>> \o Rest
    /\ UNCHANGED <<deps, pending, check, checked, zconfnerrs>>

Known ==
    /\ Working /\ Top.kind # "values" /\ ~Stops(Dep) /\ Dep \in checked
    /\ stack' = <<Caller>> \o Rest
    /\ UNCHANGED <<deps, pending, ret, check, checked, paths, zconfnerrs>>

Descend ==
    /\ Working /\ Top.kind # "values" /\ ~Stops(Dep) /\ Dep \notin checked
    /\ Call(Dep, <<Caller>> \o Rest)
    /\ UNCHANGED <<deps, pending, ret, paths, zconfnerrs>>

\* The loop over the values of sym_check_choice_deps calls sym_check_sym_deps.
Member ==
    /\ Working /\ Top.kind = "values"
    /\ stack' = <<Frame("member", Dep, deps[Dep]), Caller>> \o Rest
    /\ UNCHANGED <<deps, pending, ret, check, checked, paths, zconfnerrs>>

-----------------------------------------------------------------------------
\* What the call of frame f returns to its caller.
Returns(f, r) ==
    IF \/ f.kind # "member" /\ r = f.sym
       \/ f.kind \in {"choice", "values"} /\ r \in Values
    THEN NoSym ELSE r

\* The flags its end takes back.
Clears(f) ==
    CASE f.kind = "symbol" -> {f.sym}
      [] f.kind = "choice" -> {f.sym} \cup IF ret = NoSym THEN {} ELSE Values
      [] f.kind = "values" -> Values
      [] OTHER -> {}

Leaving == stack # <<>> /\ (ret # NoSym \/ Top.todo = <<>>)

\* The choice's own dependencies are fine: on to its values.
Proceed ==
    /\ Leaving /\ Top.kind = "choice" /\ ret = NoSym
    /\ stack' = <<Frame("values", Top.sym, ValueList)>> \o Rest
    /\ check' = check \ Clears(Top)
    /\ UNCHANGED <<deps, pending, ret, checked, paths, zconfnerrs>>

Leave ==
    /\ Leaving /\ ~(Top.kind = "choice" /\ ret = NoSym)
    /\ check' = check \ Clears(Top) /\ stack' = Rest
    /\ LET r == Returns(Top, ret) IN
         IF Rest # <<>> THEN ret' = r /\ UNCHANGED zconfnerrs
         ELSE ret' = NoSym /\ zconfnerrs' = zconfnerrs + IF r = NoSym THEN 0 ELSE 1
    /\ UNCHANGED <<deps, pending, checked, paths>>

Done == stack = <<>> /\ pending = {}
Stay == Done /\ UNCHANGED vars

Next == Parse \/ Recursive \/ Known \/ Descend \/ Member \/ Proceed \/ Leave \/ Stay

Spec == Init /\ [][Next]_vars

-----------------------------------------------------------------------------
\* The flags and the stack belong together: a flagged symbol has a call in progress
\* or is a value of the choice being checked, so sym_check_print_recursive always
\* finds the symbol it looks for ("unexpected recursive dependency error").
FlagsOnStack ==
    \A s \in check : \E i \in DOMAIN stack : stack[i].kind # "value" /\ s \in Group(stack[i].sym)

\* Types; and what is being checked (SYMBOL_CHECK) is always marked SYMBOL_CHECKED too.
TypeOK ==
    /\ deps \in [Syms -> Seq(Syms)] /\ pending \subseteq Syms
    /\ stack \in Seq(Records) /\ ret \in Syms \cup {NoSym}
    /\ check \subseteq checked /\ checked \subseteq Syms /\ zconfnerrs \in Nat

\* What follows a symbol in the printed list: a dependency, the choice a value is
\* part of, or a value a choice contains.
Edge(s, t) ==
    \/ \E i \in DOMAIN deps[s] : deps[s][i] = t
    \/ s \in Values /\ t = Choice
    \/ s = Choice /\ t \in Values

\* Every list printed is a cycle of dependencies.
PrintedIsCycle ==
    \A p \in paths : \A i \in 1 .. Len(p) : Edge(p[i], p[IF i = Len(p) THEN 1 ELSE i + 1])

\* The values of a choice count as one.
Same(s) == IF s \in Values THEN Values ELSE {s}
Depends(s, t) == \E a \in Same(s), b \in Same(t) : \E i \in DOMAIN deps[a] : deps[a][i] = b

\* A choice is taken away with its values: they are not searched once it failed.
Whole(s) == IF s \in Values \cup {Choice} THEN Values \cup {Choice} ELSE {s}

\* A cycle among some of the symbols: each depends on one of them.
Cyclic(S) == \E T \in SUBSET S : T # {} /\ \A s \in T : \E t \in T : Depends(s, t)

\* When the search is over no recursive dependency is left among the symbols that
\* are not in a printed one: in particular one is printed if there is any, and an
\* error is not hidden behind another one.
BreakingIsEnough ==
    Done => ~Cyclic(Syms \ UNION {UNION {Whole(p[i]) : i \in DOMAIN p} : p \in paths})

\* The code counts no error however many recursive dependencies it printed: each
\* is returned to the call it began with, which drops it.
NeverCounted == zconfnerrs = 0

\* "return NULL when dependencies are OK" and "error: recursive dependency
\* detected!", with conf_parse counting what is not NULL and leaving: a recursive
\* dependency ends the tool.
ErrorEndsTool == Done /\ paths # {} => zconfnerrs > 0
=============================================================================
