------------------------------- MODULE KConf -------------------------------
(***************************************************************************)
(* The line-oriented front end config/conf.c with the configuration files  *)
(* of config/confdata.c, over the symbols of KSymbol: a configuration is   *)
(* read, what is new in it is asked for or set, and it is written.  A file *)
(* is a sequence of lines <<symbol, value>>; "# CONFIG_X is not set" is    *)
(* the line <<X, 0>>.                                                      *)
(***************************************************************************)
EXTENDS KSymbol

CONSTANTS
    Top,        \* the entries of the root menu, in order
    Inputs      \* configuration files, as somebody wrote them

Modes == {"config", "askconfig", "noconfig", "defconfig", "allyes", "allmod", "allno", "alldef"}
NoFile == <<<<"nofile">>>>
Groups == {s \in Symbols : IsChoice(s)}

VARIABLES
    k,          \* the symbols
    mode,       \* input_mode
    phase,      \* what main does
    asks,       \* menu entries conf has still to visit
    checks,     \* menu entries check_conf has still to visit
    again,      \* conf_cnt: this pass of check_conf called conf
    file        \* the file read, later the file written

vars == <<k, mode, phase, asks, checks, again, file>>

-----------------------------------------------------------------------------
(***************************************************************************)
(* conf_read_simple.                                                       *)
(***************************************************************************)
\* Slip: a line of a choice's value says nothing about the choice.
LoneLine(q, l) == [q EXCEPT !.def[l[1]] = l[2], !.has = @ \cup {l[1]}]

Line(q, l) ==
    LET s == l[1]
        v == l[2]
        c == Conf[s].choice
        q1 == [q EXCEPT !.def[s] = v, !.has = @ \cup {s}] IN
    IF Conf[s].type = "bool" /\ v = 1 THEN q
    ELSE IF ~IsValue(s) THEN q1
    ELSE [q1 EXCEPT !.has = IF v = 1 /\ q.def[c] = 2 THEN @ \ {c} ELSE @,
                    !.sel[c] = IF v = 2 THEN s ELSE @,
                    !.def[c] = Most(@, v)]
ReadSimple(q, f) ==
    LET q0 == [q EXCEPT !.valid = {}, !.has = Groups, !.def = Fresh.def, !.sel = Fresh.sel] IN
    CalcValue(FoldLeft(Line, q0, f), Modules)

(***************************************************************************)
(* conf_read: symbols that cannot be seen are made new again, but only if  *)
(* the file agrees with the Kconfig files.                                 *)
(***************************************************************************)
Unsaved(q) ==
    \E s \in Symbols \ (Groups \cup {Modules}) :
        IF s \in q.has /\ s \in q.write THEN q.def[s] # q.cur[s] ELSE s \in q.has \cup q.write

ForgetHidden(q) ==
    IF Unsaved(q) THEN q
    ELSE [q EXCEPT !.has = {s \in @ : IsValue(s) \/ q.vis[s] # 0}]

Warned(f) == \E i \in DOMAIN f : Conf[f[i][1]].type = "bool" /\ f[i][2] = 1
Compared(q, f) == [ForgetHidden(q) EXCEPT !.chg = Unsaved(q) \/ Warned(f)]
Read(q, f) == Compared(CalcAll(ReadSimple(q, f), Symbols), f)

-----------------------------------------------------------------------------
(***************************************************************************)
(* conf_set_all_new_symbols, for the modes that do not draw at random.     *)
(***************************************************************************)
NewSymbols(q) == Symbols \ q.has

ValueOf == [allyes |-> 2, allmod |-> 1, allno |-> 0]
SetChoices(q) ==
    LET new == Groups \ q.has IN
    [CalcAll(q, new) EXCEPT !.has = @ \cup new, !.valid = @ \ new]
SetAllNew(q, m) ==
    LET new == NewSymbols(q) IN
    SetChoices(ClearAllValid(
        IF m \in DOMAIN ValueOf
        THEN [q EXCEPT !.has = @ \cup new, !.def = [s \in Symbols |-> IF s \in new THEN ValueOf[m] ELSE @[s]]]
        ELSE q))

-----------------------------------------------------------------------------
(***************************************************************************)
(* menu_is_visible: an entry with no visible prompt is still visible if it *)
(* is set and one below it is visible, and then counts as set by the user. *)
(***************************************************************************)
RECURSIVE Shown(_, _)
Marked(r, s) == IF r.yes THEN [r EXCEPT !.k.has = @ \cup {s}] ELSE r
ShownIn(q, s) ==
    IF q.vis[s] # 0 \/ q.cur[s] = 0 THEN [k |-> q, yes |-> q.vis[s] # 0]
    ELSE Marked(FoldLeft(LAMBDA a, c : IF a.yes THEN a ELSE Shown(a.k, c),
                         [k |-> q, yes |-> FALSE], Conf[s].below), s)
Shown(q, s) ==
    IF Conf[s].prompts = {} THEN [k |-> q, yes |-> FALSE]
    ELSE With(CalcValue(q, s), LAMBDA x : ShownIn(x, s))

\* conf_write: whatever is worth writing, in the order of the menu.
RECURSIVE Entries(_)
Entries(es) ==
    IF es = <<>> THEN <<>> ELSE <<Head(es)>> \o Entries(Conf[Head(es)].below) \o Entries(Tail(es))

\* sym_get_string_value: without modules, m is written as n.
StringValue(q, s) == IF q.cur[s] = 1 /\ q.cur[Modules] = 0 THEN 0 ELSE q.cur[s]

\* What is written at one entry of the menu.
WriteLine(q, f, s) ==
    IF IsChoice(s) \/ s \notin q.write THEN [k |-> q, f |-> f]
    ELSE [k |-> [q EXCEPT !.write = @ \ {s}], f |-> Append(f, <<s, StringValue(q, s)>>)]
WriteEntry(a, s) == With(CalcValue(a.k, s), LAMBDA q : WriteLine(q, a.f, s))
Written(q) ==
    FoldLeft(WriteEntry, [k |-> IF q.chg THEN q ELSE ClearAllValid(q), f |-> <<>>], Entries(Top))

(***************************************************************************)
(* conf_write_defconfig: what differs from its default and can be changed. *)
(***************************************************************************)
StringDefault(q, s) ==
    LET i == DefaultOf(q, s)
        d == Conf[s].defaults[i]
        v == Most(IF i = 0 THEN 0 ELSE Least(Calc(d[1], Env(q)), Calc(d[2], Env(q))), q.rev[s]) IN
    ToYes(v, Conf[s].type = "bool" \/ (~IsValue(s) /\ q.cur[Modules] = 0))

\* The value of a choice that the choice has anyhow.
ChosenAnyhow(q, s) ==
    /\ IsValue(s) /\ Conf[Conf[s].choice].rev # None
    /\ s = ChoiceDefault(q, Conf[s].choice)
    /\ Conf[s].type = "bool" /\ q.cur[s] = 2

MinimalLines(q) ==
    SelectSeq([i \in DOMAIN Entries(Top) |-> <<Entries(Top)[i], StringValue(q, Entries(Top)[i])>>],
              LAMBDA l : /\ ~IsChoice(l[1]) /\ l[1] \in q.write /\ Changable(q, l[1])
                         /\ l[2] # StringDefault(q, l[1])
                         /\ ~ChosenAnyhow(q, l[1]))
Minimal(q) == With(CalcAll(ClearAllValid(q), Symbols), LAMBDA r : MinimalLines(r))

-----------------------------------------------------------------------------
Init ==
    /\ mode \in Modes /\ file \in Inputs \cup {NoFile} /\ phase = "start"
    /\ k = Fresh /\ asks = <<>> /\ checks = <<>> /\ again = FALSE

(***************************************************************************)
(* main, up to the question what is new.  Without a file conf_read leaves  *)
(* the symbols as they are, and a default configuration ends the program.  *)
(***************************************************************************)
AllModes == {"allyes", "allmod", "allno", "alldef"}
Load ==
    /\ phase = "start"
    /\ file = NoFile => mode # "defconfig"
    /\ \E r \in {CASE file = NoFile -> IF mode \in AllModes THEN k ELSE CalcValue(k, Modules)
                   [] mode \in AllModes -> ReadSimple(k, file)
                   [] OTHER -> Read(k, file)} :
       IF mode \in AllModes \cup {"defconfig"}
       THEN k' = SetAllNew(r, mode) /\ phase' = "write" /\ UNCHANGED <<asks, checks>>
       ELSE /\ k' = r /\ phase' = "ask"
            /\ asks' = IF mode = "askconfig" THEN Top ELSE <<>>
            /\ checks' = Top
    /\ UNCHANGED <<mode, again, file>>

\* conf_askvalue asks for nothing that is set, once every symbol was offered.
Quiet(q, s) == ~Changable(q, s) \/ (mode # "askconfig" /\ s \in q.has)
Asked(q, s) ==
    IF Quiet(q, s) THEN {q} ELSE {SetTristate(q, s, v) : v \in {w \in 0 .. 2 : Settable(q, s, w)}}

AskSymbol(q, s) ==
    /\ ~IsChoice(s)
    /\ k' \in Asked(q, s)
    /\ asks' = Conf[s].below \o Tail(asks)

\* conf_choice asks for the choice and then, if it is y, for one of its values.
ShowAll(q, es) == FoldLeft(LAMBDA a, c : Shown(a, c).k, q, es)
Offered(q, c) == {v \in ToSet(Conf[c].members) : q.vis[v] # 0}
Picks(q, c, new) ==
    IF Cardinality(Offered(q, c)) = 1 \/ mode = "askconfig" \/ new
    THEN Offered(q, c) ELSE Offered(q, c) \cap {q.val[c]}
AskChoice(q, c) ==
    /\ IsChoice(c)
    /\ \E q1 \in {CalcValue(x, c) : x \in Asked(q, c)} :
         CASE q1.cur[c] = 0 -> k' = q1 /\ asks' = Tail(asks)
           [] q1.cur[c] = 1 -> k' = q1 /\ asks' = Conf[c].below \o Tail(asks)
           [] q1.cur[c] = 2 ->
                \E q2 \in {ShowAll(q1, Conf[c].members)} :
                \E v \in Picks(q2, c, c \notin q.has) :
                    /\ k' = IF Settable(q2, v, 2) THEN SetTristate(q2, v, 2) ELSE q2
                    /\ asks' = Conf[v].below \o Tail(asks)

\* conf.
Ask ==
    /\ phase = "ask" /\ asks # <<>>
    /\ \E s \in {Head(asks)} : \E r \in {Shown(k, s)} :
       IF ~r.yes THEN k' = r.k /\ asks' = Tail(asks) ELSE AskSymbol(r.k, s) \/ AskChoice(r.k, s)
    /\ mode' = IF asks' = <<>> /\ mode = "askconfig" THEN "config" ELSE mode
    /\ UNCHANGED <<phase, checks, again, file>>

\* What check_conf asks for.
IsNew(q, s) == s \notin q.has /\ (Changable(q, s) \/ (IsChoice(s) /\ q.cur[s] = 2))

\* check_conf: something new makes it ask for everything from the top.
Check ==
    /\ phase = "ask" /\ asks = <<>> /\ checks # <<>>
    /\ \E s \in {Head(checks)} : \E r \in {Shown(k, s)} :
       LET ask == r.yes /\ mode # "noconfig" /\ IsNew(r.k, s) IN
       /\ k' = r.k
       /\ checks' = IF r.yes THEN Conf[s].below \o Tail(checks) ELSE Tail(checks)
       /\ asks' = IF ask THEN Top ELSE <<>>
       /\ again' = (again \/ ask)
    /\ UNCHANGED <<mode, phase, file>>

Checked ==
    /\ phase = "ask" /\ asks = <<>> /\ checks = <<>>
    /\ checks' = IF again THEN Top ELSE <<>>
    /\ phase' = IF again THEN "ask" ELSE "write"
    /\ again' = FALSE
    /\ UNCHANGED <<k, mode, asks, file>>

Write ==
    /\ phase = "write"
    /\ \E w \in {Written(k)} : k' = [w.k EXCEPT !.chg = FALSE] /\ file' = w.f
    /\ phase' = "done"
    /\ UNCHANGED <<mode, asks, checks, again>>

\* The program has ended.
Ended == phase = "done" \/ (mode = "defconfig" /\ file = NoFile)
Rest == Ended /\ UNCHANGED vars

Next == Load \/ Ask \/ Check \/ Checked \/ Write \/ Rest

\* The user answers, and the program goes on until it has ended.  This is
\* WF_vars(Next), as there is always a next step; TLC checks that too.
Spec == Init /\ [][Next]_vars /\ ([]<><<TRUE>>_vars \/ []<>Ended)

-----------------------------------------------------------------------------
\* Types of what is cached of the symbols (struct symbol).
TypeOK ==
    /\ mode \in Modes /\ phase \in {"start", "ask", "write", "done"}
    /\ k.valid \cup k.write \cup k.has \subseteq Symbols
    /\ \A f \in {k.cur, k.def, k.vis, k.rev} : f \in [Symbols -> 0 .. 2]
    /\ k.val \in [Groups -> Symbols \cup {"none"}] /\ k.sel \in [Groups -> Symbols \cup {"none"}]

Final == CalcAll(ClearAllValid(k), Symbols)

\* What is cached of a symbol (SYMBOL_VALID) is what calculating it anew gives.
CacheFresh ==
    phase # "start" =>
        \A f \in {Final} : \A s \in k.valid : k.cur[s] = f.cur[s] /\ k.vis[s] = f.vis[s]

\* Of a choice that is y exactly one visible value is y, and of any other none;
\* as it is cached and as it is calculated anew.
ChoiceOne ==
    phase # "start" =>
        \A q \in {k, Final} : \A c \in Groups :
            {c} \cup ToSet(Conf[c].members) \subseteq q.valid =>
                Cardinality({v \in Offered(q, c) : q.cur[v] = 2}) = IF q.cur[c] = 2 THEN 1 ELSE 0

\* No symbol has less than what selects it, nor more than its prompts allow beyond that.
SelectHonoured ==
    phase # "start" =>
        \A f \in {Final} :
        \A s \in Symbols : (f.rev[s] <= f.cur[s] /\ (s \in f.has /\ f.vis[s] # 0 => f.cur[s] <= Most(f.vis[s], f.rev[s])))

\* When the configuration is written, every visible symbol that could be changed
\* was set by the user.
NothingNew ==
    phase = "write" /\ mode = "config" =>
        \A f \in {Final} : \A s \in Symbols \ {Modules} : Changable(f, s) => s \in f.has

\* The file written gives, when read, the configuration it was written from, and
\* nothing is new in it.
RoundTrip ==
    phase = "done" =>
        \A r \in {Read(Fresh, file)} :
        /\ \A s \in Symbols : r.cur[s] = k.cur[s]
        /\ mode = "config" => \A s \in Symbols \ {Modules} : Changable(r, s) => s \in r.has

\* A symbol that cannot be seen has no user's value after a written file is read.
HiddenIsNew ==
    phase = "done" => \A r \in {Read(Fresh, file)} : \A s \in r.has : IsValue(s) \/ r.vis[s] # 0

\* "Write out a minimal config. All values that has default values are skipped as
\* this is redundant": the minimal file, read as defaults, gives the configuration.
MinimalEnough ==
    phase = "done" =>
        \A r \in {CalcAll(SetAllNew(Read(Fresh, Minimal(k)), "defconfig"), Symbols)}, f \in {Final} :
            r.cur = f.cur

\* "New config where all options are answered with" yes, mod or no: from nothing,
\* every symbol that is not part of a choice is what the answer can make of it.
AllAnswered ==
    phase = "write" /\ mode \in DOMAIN ValueOf /\ file = NoFile =>
        \A f \in {Final} :
        \A s \in {x \in Symbols \ Groups : ~IsValue(x) /\ f.vis[x] # 0} :
            f.cur[s] = ToYes(Most(Least(ValueOf[mode], f.vis[s]), f.rev[s]), Type(f, s) = "bool")

\* "Same as silentconfig but set new symbols to no": what the file does not set is
\* n, or what selects it.
NewAreNo ==
    phase = "write" /\ mode = "noconfig" =>
        \A f \in {Final}, s \in {x \in Symbols \ Groups : ~IsValue(x) /\ Changable(k, x)} :
            s \in {file[i][1] : i \in DOMAIN file} \/ f.cur[s] = f.rev[s]

\* The program ends, however the user answers.
Ends == <>Ended
=============================================================================
