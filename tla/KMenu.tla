-------------------------------- MODULE KMenu --------------------------------
(***************************************************************************)
(* The menus of the configuration tool: what the statements of a Kconfig   *)
(* file do (the actions of config/zconf.y, menu_add_entry and the rest of  *)
(* config/menu.c) and menu_finalize, which carries the conditions of menus *)
(* and ifs down to what is in them, collects the values of choices and     *)
(* moves entries below the symbol they depend on.                          *)
(*                                                                         *)
(* T is the tree: of each entry, numbered as read,                         *)
(*   kind   "menu", "if", "config" or "choice"                             *)
(*   sym    its symbol or "none"                tri   which is tristate    *)
(*   up     its parent                          kids  what is below        *)
(*   dep    its condition                       visib "visible if"         *)
(*   prompt the condition of its prompt         said  as read              *)
(*   bare   it has no prompt                                               *)
(*   sels   <<>> or a symbol it selects and the condition for that         *)
(* and of each symbol rev (rev_dep), dir (dir_dep); members of a choice;   *)
(* and spoiled, that a "visible if" others use has been rewritten.         *)
(***************************************************************************)
EXTENDS KExpr, FiniteSets

CONSTANTS
    Names,      \* the symbols configs define, in order
    ChoiceSym,  \* the symbol of the choice
    Conds,      \* conditions a statement may have
    Statements, \* the statements of the files, some of "if", "menu", "choice" beside config
    MaxEntries

Root == 0
Entry(kind, sym, tri, up) ==
    [kind |-> kind, sym |-> sym, tri |-> tri, up |-> up, kids |-> <<>>, dep |-> None,
     visib |-> None, said |-> None, prompt |-> None, bare |-> FALSE, sels |-> <<>>]

VARIABLES
    menus,      \* the tree as read, a function on 0 .. the last entry
    current,    \* current_menu
    final,      \* the tree menu_finalize works on, or <<>>
    calls       \* its calls in progress, the innermost first: entry, stage and index

vars == <<menus, current, final, calls>>

Init ==
    /\ menus = [i \in {Root} |-> Entry("menu", "none", FALSE, Root)]
    /\ current = Root /\ final = <<>> /\ calls = <<>>

-----------------------------------------------------------------------------
Size == Cardinality(DOMAIN menus)
Reading == final = <<>>
Defined == Cardinality({i \in DOMAIN menus : menus[i].kind = "config"})

\* menu_check_dep: "change 'm' into 'm' && MODULES".
RECURSIVE CheckDep(_)
CheckDep(e) ==
    CASE e[1] = "not" -> Not(CheckDep(e[2]))
      [] IsTwo(e) -> <<e[1], CheckDep(e[2]), CheckDep(e[3])>>
      [] e = Mod -> And(Mod, Sym("MODULES"))
      [] OTHER -> e

RECURSIVE Uppers(_, _)
Uppers(t, i) == IF i = Root THEN <<>> ELSE <<t[i].up>> \o Uppers(t, t[i].up)

\* Slip: only the menu the prompt is in.
VisibleNear(t, up, e) == And(e, t[up].visib)

\* menu_add_prop: "Apply all upper menus' visibilities to actual prompts".  The code does
\* not copy them: the menu and all prompts in it have one tree, see Spoils.
VisibleAll(t, up, e) == FoldLeft(LAMBDA x, j : And(x, t[j].visib), e, <<up>> \o Uppers(t, up))

\* menu_add_entry: at the end of the current menu.
Add(e) ==
    menus' = [i \in DOMAIN menus \cup {Size} |->
                IF i = Size THEN e
                ELSE IF i = current THEN [menus[i] EXCEPT !.kids = Append(@, Size)] ELSE menus[i]]

\* config NAME, with or without a prompt and a select.
Config ==
    /\ Reading /\ Size <= MaxEntries /\ Defined < Len(Names)
    /\ \E dep, pr \in Conds, bare \in BOOLEAN, sel \in {<<>>} \cup {<<Names[k], None>> : k \in DOMAIN Names} :
         /\ bare => pr = None
         /\ dep = None \/ pr = None
         /\ sel # <<>> => sel[1] # Names[Defined + 1]
         /\ Add([Entry("config", Names[Defined + 1], FALSE, current) EXCEPT
                    !.dep = CheckDep(dep), !.bare = bare, !.sels = sel, !.said = pr,
                    !.prompt = VisibleAll(menus, current, CheckDep(pr))])
    /\ UNCHANGED <<current, final, calls>>

OpenIf ==
    /\ Reading /\ "if" \in Statements /\ Size <= MaxEntries
    /\ \E dep \in Conds \ {None} :
         Add([Entry("if", "none", FALSE, current) EXCEPT !.dep = CheckDep(dep), !.bare = TRUE])
    /\ current' = Size /\ UNCHANGED <<final, calls>>

OpenMenu ==
    /\ Reading /\ "menu" \in Statements /\ Size <= MaxEntries /\ menus[current].kind # "choice"
    /\ \E dep, vis \in Conds : (dep = None \/ vis = None) /\
         Add([Entry("menu", "none", FALSE, current) EXCEPT !.dep = CheckDep(dep), !.visib = vis])
    /\ current' = Size /\ UNCHANGED <<final, calls>>

OpenChoice ==
    /\ Reading /\ "choice" \in Statements /\ Size <= MaxEntries /\ menus[current].kind # "choice"
    /\ \A i \in DOMAIN menus : menus[i].kind # "choice"
    /\ \E dep \in Conds, tri \in {ChoiceSym \in Tris} :
         Add([Entry("choice", ChoiceSym, tri, current) EXCEPT
                !.dep = CheckDep(dep), !.prompt = VisibleAll(menus, current, None)])
    /\ current' = Size /\ UNCHANGED <<final, calls>>

\* menu_end_menu.
End ==
    /\ Reading /\ current # Root
    /\ current' = menus[current].up /\ UNCHANGED <<menus, final, calls>>

-----------------------------------------------------------------------------
(***************************************************************************)
(* menu_finalize                                                           *)
(***************************************************************************)
IndexOf(s, x) == CHOOSE i \in DOMAIN s : s[i] = x
From(s, i) == SubSeq(s, i, Len(s))

ParentDep(T, p) ==
    IF T.m[p].kind = "choice" THEN Sym(T.m[p].sym)
    ELSE IF ~T.m[p].bare THEN T.m[p].prompt ELSE T.m[p].dep

\* A condition below one that was carried down.
Carry(base, e, bool) ==
    LET d == EliminateDups(And(base, Transform(e))) IN IF bool THEN TransBool(d) ELSE d

\* The condition of the prompt has the trees of the menus around in it, which the code
\* rewrites in place, and of which it frees what it drops.  What the menus and the other
\* prompts then have is what is left of the tree, if anything.  A rewriting that comes to
\* the condition as it was has touched none of them.
Spoils(m, base, e, bool) ==
    /\ ~e.bare /\ e.sym # "none" /\ \E j \in Range(Uppers(menus, m)) : menus[j].visib # None
    /\ Carry(base, e.prompt, bool) # And(base, e.prompt)

\* "for (menu = parent->list; ...)": the parent's condition, for one entry.
Propagate(T, p, m) ==
    LET e == T.m[m]
        base == EliminateDups(And(ParentDep(T, p), Transform(e.dep)))
        bool == e.sym # "none" /\ ~e.tri
        sel == IF e.sels = <<>> THEN <<>> ELSE <<e.sels[1], Carry(base, e.sels[2], bool)>> IN
    [T EXCEPT !.m[m] = [e EXCEPT !.dep = base, !.sels = sel,
                                 !.prompt = IF e.bare THEN None ELSE Carry(base, e.prompt, bool)],
              !.spoiled = @ \/ Spoils(m, base, e, bool),
              !.rev = IF sel = <<>> THEN @
                      ELSE [@ EXCEPT ![sel[1]] = Or(@, And(Sym(e.sym), sel[2]))]]

Shown(e) == IF e.bare THEN e.dep ELSE e.prompt

\* An entry that is n when the symbol is, or that has the conditions of its prompt.
Belongs(base, dep, s) ==
    /\ ContainsSymbol(dep, s)
    /\ \/ DependsSymbol(dep, s)
       \/ EliminateEq(EliminateDups(Transform(TransCompare(dep, "ne", "n"))), base)[2] \in {None, Yes}

\* The entry after p in its list, or Root.
After(T, p) ==
    LET list == T.m[T.m[p].up].kids
        i == IndexOf(list, p) IN
    IF i = Len(list) THEN Root ELSE list[i + 1]

Moved(T, m, p) ==
    [T EXCEPT !.m[T.m[m].up].kids = SelectSeq(@, LAMBDA j : j # m),
              !.m[p].kids = Append(@, m), !.m[m].up = p]

\* An entry of a choice that is not one of its values yet.
IsNewValue(T, p, m) ==
    /\ T.m[p].kind = "choice" /\ T.m[m].sym # "none"
    /\ m \notin Range(T.members)

OnlyAtY(T, p, m) == T.m[p].tri /\ ~T.m[m].tri

\* "Non-tristate choice values of tristate choices must depend on the choice being
\* set to Y".
AddValue(T, p, m) ==
    LET is == <<"eq", T.m[p].sym, "y">>
        T1 == [T EXCEPT !.members = Append(@, m)] IN
    IF OnlyAtY(T, p, m)
    THEN [T1 EXCEPT !.m[m] = [@ EXCEPT !.dep = And(is, @), !.prompt = IF T.m[m].bare THEN None ELSE And(is, @),
                                       !.sels = IF @ = <<>> THEN @ ELSE <<@[1], And(is, @[2])>>]]
    ELSE T1

Spliced(kids, i, inner) == SubSeq(kids, 1, i) \o inner \o From(kids, i + 1)

\* The last loop over what is below p; what is in an entry without a prompt comes up.
Settled(T, p, m, i) ==
    LET inner == T.m[m].kids IN
    IF inner = <<>> \/ ~T.m[m].bare THEN T
    ELSE FoldLeft(LAMBDA x, j : [x EXCEPT !.m[j].up = p],
                  [T EXCEPT !.m[p].kids = Spliced(@, i, inner), !.m[m].kids = <<>>], inner)
RECURSIVE Settle(_, _, _)
Settle(T, p, i) ==
    IF i > Len(T.m[p].kids) THEN T
    ELSE LET m == T.m[p].kids[i] IN
         Settle(Settled(IF IsNewValue(T, p, m) THEN AddValue(T, p, m) ELSE T, p, m, i), p, i + 1)

Tree ==
    LET none == [s \in {Names[k] : k \in DOMAIN Names} \cup {ChoiceSym} |-> None] IN
    [m |-> menus, rev |-> none, dir |-> none, members |-> <<>>, spoiled |-> FALSE]

\* The end of the files.
Finish ==
    /\ Reading /\ current = Root /\ Size > 1
    /\ final' = Tree /\ calls' = <<<<Root, "enter", 1>>>> /\ UNCHANGED <<menus, current>>

At1 == calls[1][1]
Stage(st) == calls # <<>> /\ calls[1][2] = st
Back == Tail(calls)
Goto(st, i) == <<<<At1, st, i>>>> \o Back
Kids == final.m[At1].kids
Here == final.m[At1]

\* The last loop and what follows it.
Return(T) ==
    LET S == Settle(T, At1, 1) IN
    /\ final' = IF Here.kind = "choice" THEN [S EXCEPT !.rev[Here.sym] = Or(@, And(Here.prompt, Mod))] ELSE S
    /\ calls' = Back

Enter ==
    /\ Stage("enter")
    /\ \/ /\ Kids # <<>>
          /\ final' = FoldLeft(LAMBDA x, m : Propagate(x, At1, m), final, Kids)
          /\ calls' = Goto("kids", 1)
       \/ Kids = <<>> /\ Here.sym # "none" /\ calls' = Goto("steal", 1) /\ UNCHANGED final
       \/ Kids = <<>> /\ Here.sym = "none" /\ Return(final)
    /\ UNCHANGED <<menus, current>>

FinalizeKids ==
    /\ Stage("kids")
    /\ LET i == calls[1][3] IN
         IF i > Len(Kids) THEN Return(final)
         ELSE calls' = <<<<Kids[i], "enter", 1>>>> \o Goto("kids", i + 1) /\ UNCHANGED final
    /\ UNCHANGED <<menus, current>>

\* The condition of the prompt, or y.
BaseDep == EliminateDups(Transform(TransCompare(IF Here.bare THEN None ELSE Here.prompt, "ne", "n")))

\* The entries that follow and depend on the symbol move below it.
Steal ==
    /\ Stage("steal")
    /\ LET m == After(final, At1) IN
         IF m # Root /\ Belongs(BaseDep, Shown(final.m[m]), Here.sym)
         THEN calls' = <<<<m, "enter", 1>>>> \o Goto("move", m) /\ UNCHANGED final
         ELSE Return([final EXCEPT !.dir[Here.sym] = Or(@, Here.dep)])
    /\ UNCHANGED <<menus, current>>

Move ==
    /\ Stage("move")
    /\ final' = Moved(final, calls[1][3], At1) /\ calls' = Goto("steal", 1)
    /\ UNCHANGED <<menus, current>>

Done == ~Reading /\ calls = <<>> /\ UNCHANGED vars

Next ==
    \/ Config \/ OpenIf \/ OpenMenu \/ OpenChoice \/ End \/ Finish
    \/ Enter \/ FinalizeKids \/ Steal \/ Move \/ Done

Spec == Init /\ [][Next]_vars

-----------------------------------------------------------------------------
Min2(a, b) == IF a < b THEN a ELSE b

(***************************************************************************)
(* What the file says, read off the tree as it was read: an entry depends  *)
(* on its own condition and on everything around it; inside a choice on    *)
(* the choice.                                                             *)
(***************************************************************************)
RECURSIVE SaidDep(_, _)
SaidDep(i, v) ==
    LET p == menus[i].up IN
    CASE i = Root -> 2
      [] i # Root /\ menus[p].kind = "choice" -> Min2(Calc(menus[i].dep, v), v[menus[p].sym])
      [] OTHER -> Min2(Calc(menus[i].dep, v), SaidDep(p, v))
SaidVisible(i, v) ==
    /\ ~menus[i].bare /\ SaidDep(i, v) # 0 /\ Calc(CheckDep(menus[i].said), v) # 0
    /\ menus[i].sym # "none" => \A j \in Range(Uppers(menus, i)) : Calc(menus[j].visib, v) # 0

M == final.m
Visible(i, v) == ~M[i].bare /\ Calc(M[i].prompt, v) # 0

\* menu_finalize is through and has read no tree that is not there any more: of a file
\* where it has, nothing can be said.
Ended(P) == Reading \/ calls # <<>> \/ final.spoiled \/ P

\* "Apply all upper menus' visibilities to actual prompts": what one prompt makes of them
\* leaves them as they are for the others.
VisibilitiesKept == Reading \/ ~final.spoiled

\* After all rewriting, carrying down and moving, a prompt is visible exactly when
\* the file says so.
VisibleAsSaid ==
    Ended(\A i \in DOMAIN menus, v \in Values(FALSE) : Visible(i, v) <=> SaidVisible(i, v))

\* A symbol is selected exactly when a set symbol whose conditions, with those of
\* the menus around it, hold names it.
SelectedAsSaid ==
    Ended(\A s \in DOMAIN final.rev \ {ChoiceSym}, v \in Values(FALSE) :
            (final.rev[s] # None /\ Calc(final.rev[s], v) # 0) <=>
            \E i \in DOMAIN menus : /\ menus[i].sels # <<>> /\ menus[i].sels[1] = s
                                    /\ v[menus[i].sym] # 0 /\ SaidDep(i, v) # 0)

\* menu_is_visible.
RECURSIVE MenuVisible(_, _)
MenuVisible(i, v) ==
    /\ ~M[i].bare /\ Calc(M[i].visib, v) # 0
    /\ \/ Calc(M[i].prompt, v) # 0
       \/ M[i].sym # "none" /\ v[M[i].sym] # 0 /\ \E k \in Range(M[i].kids) : MenuVisible(k, v)

\* Every entry the prompt i is below in the menus is shown with it.
CanBeReached(i, v) == \A j \in Range(Uppers(M, i)) : j = Root \/ MenuVisible(j, v)

\* Values the symbols can have: one that is not n can be seen or is selected.
Possible(v) ==
    \A s \in DOMAIN final.rev : v[s] # 0 =>
        \/ \E i \in DOMAIN menus : M[i].sym = s /\ Visible(i, v)
        \/ final.rev[s] # None /\ Calc(final.rev[s], v) # 0

AllReachable ==
    \A v \in {x \in Values(FALSE) : Possible(x)}, i \in DOMAIN menus :
        M[i].sym # "none" /\ Visible(i, v) => CanBeReached(i, v)

\* Moving entries below the symbols they depend on hides no visible prompt, as long
\* as the symbols have prompts themselves.
Reachable ==
    Ended((\E i \in DOMAIN menus : menus[i].kind = "config" /\ menus[i].bare) \/ AllReachable)

\* "--listnewconfig   List new options", for which conf.c goes down from what
\* menu_is_visible shows: whatever is visible can be got at.
ListsAll == Ended(AllReachable)

RECURSIVE Walk(_)
Walk(i) == <<i>> \o FoldLeft(LAMBDA w, k : w \o Walk(k), <<>>, M[i].kids)
\* Moving entries about loses none and keeps their order.
OrderKept == Ended(Walk(Root) = [k \in 1 .. Size |-> k - 1])

RECURSIVE InChoice(_)
InChoice(i) == i # Root /\ (menus[menus[i].up].kind = "choice" \/
                            (menus[menus[i].up].kind = "if" /\ InChoice(menus[i].up)))
\* Every entry with a prompt inside a choice, in an if or not, is one of its values
\* or cannot be seen unless a value is set.
ValuesOrBelow ==
    Ended(\A i \in DOMAIN menus : menus[i].kind = "config" /\ InChoice(i) =>
            \/ i \in Range(final.members)
            \/ \E j \in Range(final.members) : j \in Range(Uppers(M, i)))

\* The values of a choice set to m that cannot be m cannot be seen.
HiddenAtM ==
    Ended(\A j \in Range(final.members), v \in Values(TRUE) :
            v[ChoiceSym] = 1 => ~Visible(j, v))
=============================================================================
