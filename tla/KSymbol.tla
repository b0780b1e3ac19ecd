------------------------------ MODULE KSymbol ------------------------------
(***************************************************************************)
(* The values of boolean and tristate configuration symbols,               *)
(* config/symbol.c: sym_calc_value and what it calls, with the cached      *)
(* results and flags it leaves behind, and sym_set_tristate_value.         *)
(*                                                                         *)
(* Conf says what the Kconfig files say of each symbol, after menu_finalize*)
(* has put the conditions of menus into those of prompts and defaults:     *)
(*   type      "bool" or "tri"                                             *)
(*   prompts   the conditions of its prompts, a set                        *)
(*   defaults  its defaults, a sequence of pairs <<value, condition>>      *)
(*   rev       by what it is selected, or None                             *)
(*   choice    the choice it belongs to, or "none"                         *)
(*   members   for a choice its values in order, otherwise <<>>            *)
(*   below     the entries of the menu below it, in order                  *)
(* Symbols that depend on themselves are refused by sym_check_deps.        *)
(***************************************************************************)
EXTENDS KExpr, FiniteSets

CONSTANTS
    Conf,       \* the configuration
    Modules     \* modules_sym, which has a default and no prompt

Symbols == DOMAIN Conf
IsChoice(s) == Conf[s].members # <<>>
IsValue(s) == Conf[s].choice # "none"

(***************************************************************************)
(* What is kept of each symbol:                                            *)
(*   valid  SYMBOL_VALID       cur   curr.tri          val  a choice's     *)
(*   write  SYMBOL_WRITE       vis   visible                curr.val       *)
(*   has    SYMBOL_DEF_USER    rev   rev_dep.tri       sel  a choice's     *)
(*   def    def[S_DEF_USER].tri                             def[..].val    *)
(* mod, modules_val, and chg, that sym_change_count is not 0.               *)
(***************************************************************************)
Fresh ==
    LET zero == [s \in Symbols |-> 0]
        none == [s \in {c \in Symbols : IsChoice(c)} |-> "none"] IN
    [valid |-> {}, write |-> {}, has |-> {}, def |-> zero, cur |-> zero, vis |-> zero,
     rev |-> zero, val |-> none, sel |-> none, mod |-> 0, chg |-> TRUE]

Env(k) == [s \in Symbols \cup Consts |->
             CASE s = "n" -> 0 [] s = "m" -> 1 [] s = "y" -> 2 [] OTHER -> k.cur[s]]
RECURSIVE SymbolsIn(_)
SymbolsIn(e) ==
    CASE e = None -> {}
      [] IsSym(e) -> {e[2]} \ Consts
      [] IsComp(e) -> {e[2], e[3]} \ Consts
      [] e[1] = "not" -> SymbolsIn(e[2])
      [] IsTwo(e) -> SymbolsIn(e[2]) \cup SymbolsIn(e[3])

\* sym_get_type.
Type(k, s) ==
    IF Conf[s].type = "tri" /\ ((IsValue(s) /\ k.vis[s] = 2) \/ k.mod = 0) THEN "bool" ELSE Conf[s].type
\* For a boolean m is y.
ToYes(v, bool) == IF v = 1 /\ bool THEN 2 ELSE v

-----------------------------------------------------------------------------
RECURSIVE CalcValue(_, _), CalcAll(_, _)
\* The order in which symbols are calculated makes no difference.
CalcAll(k, S) ==
    IF S = {} THEN k
    ELSE LET s == CHOOSE s \in S : TRUE IN CalcAll(CalcValue(k, s), S \ {s})

\* sym_calc_visibility: an m is a y where there can be no m.
Visible(s, k, v) == ToYes(v, Conf[s].type # "tri" \/ k.mod = 0)

\* sym_calc_visibility: by prompts, then by what selects it.
SetVisible(k, s) ==
    LET vs == {Calc(e, Env(k)) : e \in Conf[s].prompts} \cup {0} IN
    [k EXCEPT !.vis[s] = Visible(s, k, CHOOSE v \in vs : \A w \in vs : w <= v)]
SetRev(k, s) ==
    LET r == IF Conf[s].rev = None THEN 0 ELSE Calc(Conf[s].rev, Env(k)) IN
    [k EXCEPT !.rev[s] = ToYes(r, Type(k, s) = "bool")]
CalcRev(k, s) ==
    IF IsValue(s) THEN k ELSE With(CalcAll(k, SymbolsIn(Conf[s].rev)), LAMBDA q : SetRev(q, s))
CalcVisibility(k, s) ==
    With(CalcAll(k, UNION {SymbolsIn(e) : e \in Conf[s].prompts}), LAMBDA q : CalcRev(SetVisible(q, s), s))

\* sym_get_default_prop: the first default whose condition is not n, or 0;
\* the symbols in later conditions are calculated here too, sooner than needed.
CalcDefaults(k, s) == CalcAll(k, UNION {SymbolsIn(Conf[s].defaults[i][2]) : i \in DOMAIN Conf[s].defaults})
DefaultOf(k, s) ==
    LET ds == Conf[s].defaults IN
    SelectInSeq(ds, LAMBDA d : Calc(d[2], Env(k)) # 0)

(***************************************************************************)
(* sym_calc_choice: the user's choice if it is visible, or the first       *)
(* visible default (sym_choice_default), or the first visible value.  A    *)
(* choice counts as made by the user only if all its visible values do.    *)
(***************************************************************************)
ChoiceDefault(k, s) ==
    LET ds == SelectSeq(Conf[s].defaults, LAMBDA d : Calc(d[2], Env(k)) # 0 /\ k.vis[d[1][2]] # 0)
        ms == SelectSeq(Conf[s].members, LAMBDA v : k.vis[v] # 0) IN
    IF ds # <<>> THEN ds[1][1][2] ELSE IF ms # <<>> THEN ms[1] ELSE "none"
Picked(k, s, seen) == k.sel[s] \in seen

Seen(k, s) == {v \in ToSet(Conf[s].members) : k.vis[v] # 0}
Made(k, s) == IF Seen(k, s) \subseteq k.has THEN k ELSE [k EXCEPT !.has = @ \ {s}]
PickFor(k, s, seen) == IF Picked(k, s, seen) THEN k.sel[s] ELSE ChoiceDefault(k, s)
SetPick(k, s, pick) == [k EXCEPT !.val[s] = pick, !.cur[s] = IF pick = "none" THEN 0 ELSE @]
CalcChoice(k, s) ==
    With(FoldLeft(CalcVisibility, k, Conf[s].members), LAMBDA k1 :
    With(CalcDefaults(Made(k1, s), s), LAMBDA k2 : SetPick(k2, s, PickFor(k2, s, Seen(k1, s)))))

\* Slip: a selected symbol takes the value of the selection only if it has none.
SelectWeak(v, rev) == IF v = 0 THEN rev ELSE v
Selected(v, rev) == Most(v, rev)

\* The value of a symbol that is not the value of a choice set to y, and
\* whether it is worth writing.
OwnValue(k, s) ==
    LET vis == k.vis[s]
        wr == vis # 0 \/ k.rev[s] # 0
        done(v, w) == [v |-> Selected(v, k.rev[s]), w |-> w, k |-> k] IN
    IF vis # 0 /\ s \in k.has THEN done(Least(k.def[s], vis), TRUE)
    ELSE IF IsChoice(s) \/ DefaultOf(k, s) = 0 THEN done(0, wr)
    ELSE LET d == Conf[s].defaults[DefaultOf(k, s)] IN
         done(Least(Calc(d[1], Env(k)), Calc(d[2], Env(k))), TRUE)

\* The symbols whose values OwnValue looks at, calculated.
CalcDefault(k, s) ==
    IF DefaultOf(k, s) = 0 THEN k ELSE CalcAll(k, SymbolsIn(Conf[s].defaults[DefaultOf(k, s)][1]))
CalcOwn(k, s) ==
    IF IsChoice(s) \/ (k.vis[s] # 0 /\ s \in k.has) THEN k ELSE CalcDefault(CalcDefaults(k, s), s)

\* The end of sym_calc_value.
FinishChoice(k, s) == IF IsChoice(s) /\ k.cur[s] = 2 THEN CalcChoice(k, s) ELSE k
FinishModules(k, s) == IF s = Modules THEN [k EXCEPT !.mod = k.cur[s], !.write = @ \ {s}] ELSE k
FinishValues(k, s) == IF IsChoice(s) /\ s \in k.write THEN [k EXCEPT !.write = @ \cup Seen(k, s)] ELSE k
Finish(k, s) == FinishValues(FinishModules(FinishChoice(k, s), s), s)

CalcValue(k, s) ==
    IF s \in k.valid THEN k
    ELSE With(CalcVisibility([k EXCEPT !.valid = @ \cup {s},
                                      !.write = IF IsValue(s) THEN @ ELSE @ \ {s}], s), LAMBDA k1 :
         LET k2 == [k1 EXCEPT !.cur[s] = 0] IN
         IF IsValue(s) /\ k2.vis[s] = 2
         THEN [k2 EXCEPT !.cur[s] = IF k2.val[Conf[s].choice] = s THEN 2 ELSE 0]
         ELSE With(OwnValue(CalcOwn(k2, s), s), LAMBDA own :
              Finish([own.k EXCEPT !.cur[s] = ToYes(own.v, Type(own.k, s) = "bool"),
                                   !.write = IF own.w THEN @ \cup {s} ELSE @], s)))

-----------------------------------------------------------------------------
\* sym_clear_all_valid.
ClearAllValid(k) == CalcValue([k EXCEPT !.valid = {}, !.chg = TRUE], Modules)

Changable(k, s) == k.vis[s] > k.rev[s]

\* sym_tristate_within_range.
WithinRange(k, s, v) ==
    /\ k.vis[s] # 0
    /\ ~(Type(k, s) = "bool" /\ v = 1)
    /\ k.vis[s] > k.rev[s]
    /\ IF IsValue(s) /\ k.vis[s] = 2 THEN v = 2 ELSE k.rev[s] <= v /\ v <= k.vis[s]

\* A value of a choice set to y: the choice and its visible values are not new.
MarkChoice(k, s) ==
    LET c == Conf[s].choice IN
    [k EXCEPT !.sel[c] = s,
              !.has = @ \cup {s, c} \cup {v \in ToSet(Conf[c].members) : k.vis[v] # 0}]

Recalc(k) == ClearAllValid(k)

\* sym_set_tristate_value, when it succeeds.
Settable(k, s, v) == v = k.cur[s] \/ WithinRange(k, s, v)
SetTristate(k, s, v) ==
    LET k1 == [k EXCEPT !.has = @ \cup {s}]
        k2 == IF IsValue(s) /\ v = 2 THEN MarkChoice(k1, s) ELSE k1
        k3 == [k2 EXCEPT !.def[s] = v] IN
    IF v = k.cur[s] THEN k3 ELSE Recalc(k3)
=============================================================================
