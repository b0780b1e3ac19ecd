------------------------------ MODULE MCConfig ------------------------------
(* The configuration language: how conditions are rewritten, how symbols   *)
(* get their values, what conf asks and writes, the text of numbers and    *)
(* strings, and the tree of menus.  The parts share no state in these      *)
(* models, so only one of them moves in a behaviour.                       *)
EXTENDS Naturals, Sequences, SequencesExt, FiniteSets, FiniteSetsExt, TLC

CONSTANTS
  IntBits, LongBits, MaxConj, MaxEntries

VARIABLES
  part,     \* the part that moves
  k, mode, phase, asks, checks, again, file,                         \* KConf
  kind, low, high, has, def,                                         \* KText
  menus, current, final, calls,                                      \* KMenu
  e, orig, parent, conj                                              \* KRewrite

confVars == <<k, mode, phase, asks, checks, again, file>>
textVars == <<kind, low, high, has, def>>
menuVars == <<menus, current, final, calls>>
rewriteVars == <<e, orig, parent, conj>>

X == INSTANCE KExpr WITH Bools <- {}, Tris <- {}
-----------------------------------------------------------------------------
(* Symbols: the kind, the conditions of the prompts, the defaults, what    *)
(* selects it, and the symbols that are below it in the menus.             *)
Symbol(type, prompts, defaults, rev, below) ==
  [type |-> type, prompts |-> prompts, defaults |-> defaults, rev |-> rev,
   choice |-> "none", members |-> <<>>, below |-> below]
ValueOf(type, choice, cond) ==
  [Symbol(type, {X!And(X!Sym(choice), cond)}, <<>>, X!None, <<>>) EXCEPT !.choice = choice]
Base == [modules |-> Symbol("bool", {}, <<<<X!Sym("MODULES"), X!Yes>>>>, X!None, <<>>),
         MODULES |-> Symbol("bool", {X!Yes}, <<>>, X!None, <<>>)]

(* B can be seen if A is set; B selects C, which can be seen with modules. *)
SelectConf == Base @@
  [A |-> Symbol("tri", {X!Yes}, <<<<X!Mod, X!Yes>>>>, X!None, <<"B">>),
   B |-> Symbol("tri", {X!Sym("A")}, <<<<X!Yes, X!Sym("A")>>>>, X!None, <<>>),
   C |-> Symbol("tri", {X!Sym("MODULES")}, <<>>, X!Sym("B"), <<>>)]

(* A tristate choice between X and Y, Y only with A.                       *)
ChoiceConf == Base @@
  [A |-> Symbol("bool", {X!Yes}, <<>>, X!None, <<>>),
   CH |-> [Symbol("tri", {X!Yes}, <<<<X!Sym("Y"), X!Yes>>>>, X!Mod, <<"X", "Y">>)
             EXCEPT !.members = <<"X", "Y">>],
   X |-> ValueOf("tri", "CH", X!Yes),
   Y |-> ValueOf("tri", "CH", X!Sym("A"))]

(* The files with lines for the symbols of order, in that order; 3 is for  *)
(* no line.                                                                *)
Files(order, values) ==
  {FlattenSeq([i \in DOMAIN order |-> IF f[i] = 3 THEN <<>> ELSE <<<<order[i], f[i]>>>>]) :
     f \in {g \in [DOMAIN order -> 0 .. 3] : \A i \in DOMAIN order : g[i] \in values[i]}}
SelectFiles == Files(<<"MODULES", "A", "B", "C">>, <<{0, 2, 3}, 0 .. 3, 0 .. 3, {1, 3}>>)
ChoiceFiles == Files(<<"MODULES", "A", "X", "Y">>, <<{0, 2, 3}, {0, 2}, 0 .. 3, 0 .. 3>>)

Select == INSTANCE KConf WITH
  Bools <- {"MODULES", "modules"}, Tris <- {"A", "B", "C"}, Conf <- SelectConf,
  Modules <- "modules", Top <- <<"MODULES", "A", "C">>, Inputs <- SelectFiles
Choose == INSTANCE KConf WITH
  Bools <- {"MODULES", "modules", "A"}, Tris <- {"CH", "X", "Y"}, Conf <- ChoiceConf,
  Modules <- "modules", Top <- <<"MODULES", "A", "CH">>, Inputs <- ChoiceFiles

(* Numbers typed in decimal and in hexadecimal, and strings to be quoted.  *)
(* Many do not fit an int of 4 bits, some (50, 128, 0xff, -50) not even a  *)
(* long of 6.  Of 16, 20, 0x12 and -50 the int is in one of the ranges.    *)
SeqsUpTo(S, n) == UNION {[1 .. m -> S] : m \in 0 .. n}
Numbers == SeqsUpTo({"-", "0", "1", "2", "5"}, 2)
             \cup {<<"1", "6">>, <<"f">>, <<"1", "2", "8">>, <<"-", "5", "0">>}
             \cup {<<"0", "x">> \o s : s \in SeqsUpTo({"0", "2", "5", "f"}, 2)}
Quoted == SeqsUpTo({"quote", "back", "a"}, 3)
Text == INSTANCE KText WITH Texts <- Numbers, Strings <- Quoted, Bounds <- {0, 2, 5}

MenuConds == {X!None, X!And(X!Sym("A"), X!Mod), X!Not(X!Sym("B"))}
Menu == INSTANCE KMenu WITH
  Bools <- {"A", "B", "MODULES"}, Tris <- {"X"}, Names <- <<"A", "B">>, ChoiceSym <- "X",
  Conds <- MenuConds, Statements <- {"if", "menu", "choice"}

(* Operands on which every rule of the rewriting bears, and few conditions *)
(* of menus around, (!A && !T) and (!A || !T) among them.                  *)
A == X!Sym("A")
T == X!Sym("T")
Operands == {A, X!Not(A), T, X!Not(T), <<"eq", "A", "n">>, <<"eq", "T", "y">>,
             <<"ne", "T", "y">>, <<"ne", "T", "n">>, X!Yes}
Pairs2 == {<<t, x, y>> : t \in {"and", "or"}, x \in Operands, y \in Operands}
Few == {X!Not(T), <<"ne", "T", "n">>}
RewriteConds ==
  Operands \cup Pairs2 \cup {X!Not(x) : x \in Pairs2}
    \cup {<<t, x, y>> : t \in {"and", "or"}, x \in Pairs2, y \in Few}
RewriteParents ==
  {A, T, <<"and", X!Not(A), X!Not(T)>>, <<"or", X!Not(A), X!Not(T)>>,
   <<"and", <<"or", A, T>>, <<"ne", "T", "n">>>>}
Rewrite == INSTANCE KRewrite WITH
  Bools <- {"A"}, Tris <- {"T"}, Conditions <- RewriteConds, Parents <- RewriteParents
-----------------------------------------------------------------------------
(* Only the part that moves is there; the others' variables have no value. *)
AllInit ==
  /\ part \in {"select", "choose", "text", "menu", "rewrite"}
  /\ CASE part = "select" -> Select!Init
       [] part = "choose" -> Choose!Init
       [] OTHER -> k = 0 /\ mode = 0 /\ phase = 0 /\ asks = 0 /\ checks = 0 /\ again = 0 /\ file = 0
  /\ IF part = "text" THEN Text!Init
     ELSE kind = 0 /\ low = 0 /\ high = 0 /\ has = 0 /\ def = 0
  /\ IF part = "menu" THEN Menu!Init ELSE menus = 0 /\ current = 0 /\ final = 0 /\ calls = 0
  /\ IF part = "rewrite" THEN Rewrite!Init ELSE e = 0 /\ orig = 0 /\ parent = 0 /\ conj = 0

OnlyConf == UNCHANGED <<part, textVars, menuVars, rewriteVars>>
SelectStep == part = "select" /\ Select!Next /\ OnlyConf
ChooseStep == part = "choose" /\ Choose!Next /\ OnlyConf
TextStep ==
  part = "text" /\ Text!Next /\ UNCHANGED <<part, confVars, menuVars, rewriteVars>>
MenuStep ==
  part = "menu" /\ Menu!Next /\ UNCHANGED <<part, confVars, textVars, rewriteVars>>
RewriteStep ==
  part = "rewrite" /\ Rewrite!Next /\ UNCHANGED <<part, confVars, textVars, menuVars>>

AllNext == SelectStep \/ ChooseStep \/ TextStep \/ MenuStep \/ RewriteStep

AllSpec ==
  AllInit /\ [][AllNext]_<<part, confVars, textVars, menuVars, rewriteVars>>
-----------------------------------------------------------------------------
(* The properties of the parts, as their modules state them.               *)
(* expr.c: no rewriting changes what a condition means where no symbol is  *)
(* m, that of negations and constants none at all; what counts as equal    *)
(* means the same, what is extracted joins up again, and a printed         *)
(* condition reads as it was.                                              *)
RewritesKeepMeaning ==
  part = "rewrite" =>
    /\ Rewrite!ValueKept /\ Rewrite!NegationKept /\ Rewrite!EqualIsSame
    /\ Rewrite!ExtractedJoins /\ Rewrite!DependsMeansNo /\ Rewrite!CompareMeansValue
    /\ Rewrite!VisibleKept /\ Rewrite!PrintReads

(* sym_calc_value: a symbol has no less than what selects it, and no more  *)
(* than its prompts allow beyond that; what is cached is what would be     *)
(* calculated anew, and conf has asked for all there is to ask.            *)
SelectHonoured ==
  part = "select" =>
    /\ Select!SelectHonoured /\ Select!CacheFresh
    /\ Select!NothingNew /\ Select!HiddenIsNew /\ Select!AllAnswered

(* conf_write, conf_read: the file written, and the minimal one, is read   *)
(* as the configuration it was written from, with one value of a choice.   *)
RoundTrip == part = "choose" => Choose!RoundTrip /\ Choose!ChoiceOne /\ Choose!MinimalEnough

(* sym_set_string_value, conf_write, conf_read: strings and numbers are    *)
(* read back as they were; what the code reads a number as is in its       *)
(* range, and so is the number itself when it fits an int.                 *)
TextSurvives ==
  /\ [](part = "text" => Text!LimitedValue)
  /\ [][part = "text" /\ Text!Reload => Text!Cur' = Text!Cur]_textVars

(* menu_finalize: a prompt is visible, and a symbol selected, exactly when *)
(* the file says so; moving entries keeps their order and hides none; the  *)
(* values of a choice are found, and hidden when it is m.  All this of a   *)
(* file where rewriting the condition of a prompt leaves the "visible if"  *)
(* of the menus around, which the code shares, untouched.                  *)
MenusAsSaid ==
  part = "menu" =>
    /\ Menu!VisibleAsSaid /\ Menu!SelectedAsSaid /\ Menu!Reachable
    /\ Menu!OrderKept /\ Menu!ValuesOrBelow /\ Menu!HiddenAtM
=============================================================================
