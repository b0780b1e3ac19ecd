------------------------------- MODULE KAuto -------------------------------
(***************************************************************************)
(* The files the configuration tool leaves for the build, conf_write,      *)
(* conf_split_config and conf_write_autoconf of config/confdata.c.  Every  *)
(* step may be the last one: the tool is interrupted, or a call fails and  *)
(* it returns 1.  A configuration gives each symbol 0, 1 or 2, or 3 when   *)
(* it is not worth writing (no SYMBOL_WRITE); none is the empty one.       *)
(* With KCONFIG_OVERWRITECONFIG set .config is written in place.           *)
(*                                                                         *)
(* The build is external, as the comments say: it uses the generated files *)
(* once auto.conf is newer than .config, and compiles again what depends   *)
(* on a symbol if the symbol's own header was touched.                     *)
(***************************************************************************)
EXTENDS Naturals, FiniteSets

CONSTANTS
    Syms,       \* symbols with a name
    MaxRuns     \* runs of the tool

Missing == [s \in Syms |-> 9]
Torn == [s \in Syms |-> 8]      \* the beginning of a configuration
Empty == [s \in Syms |-> 3]
Configs == [Syms -> 0 .. 3]
Outputs == {"header", "tristate", "cmake", "auto"}

VARIABLES
    cur,        \* what the tool was asked to save
    config,     \* .config
    old,        \* .config.old
    out,        \* the generated files
    fresh,      \* auto.conf is newer than .config
    touched,    \* symbols whose header is newer than what was built
    built,      \* the value each symbol had when what depends on it was built
    pc,         \* the tool's next step
    todo,       \* symbols conf_split_config has still to compare
    runs

vars == <<cur, config, old, out, fresh, touched, built, pc, todo, runs>>

\* n is not saved in auto.conf nor defined in the header.
Saved(v) == IF v = 0 THEN 3 ELSE v
Generated(c) == [s \in Syms |-> Saved(c[s])]

Init ==
    /\ cur = Empty /\ config = Missing /\ old = Missing /\ fresh = FALSE
    /\ out = [f \in Outputs |-> Empty] /\ touched = {} /\ built = Empty
    /\ pc = "idle" /\ todo = {} /\ runs = 0

Start ==
    /\ pc = "idle" /\ runs < MaxRuns /\ runs' = runs + 1
    /\ cur' \in Configs /\ pc' = "backup"
    /\ UNCHANGED <<config, old, out, fresh, touched, built, todo>>

\* rename(newname, dirname): its result is ignored.
Backup == \/ config # Missing /\ old' = config /\ config' = Missing
          \/ UNCHANGED <<old, config>>

SaveOld ==
    /\ pc = "backup" /\ pc' = "save"
    /\ Backup
    /\ UNCHANGED <<cur, out, fresh, touched, built, todo, runs>>

\* KCONFIG_OVERWRITECONFIG: fopen(newname, "w"), without a copy.
Truncate ==
    /\ pc = "backup" /\ pc' = "fill"
    /\ config' = Torn /\ fresh' = FALSE
    /\ UNCHANGED <<cur, old, out, touched, built, todo, runs>>

Fill ==
    /\ pc = "fill" /\ pc' = "split"
    /\ config' = cur /\ fresh' = FALSE /\ todo' = Syms
    /\ UNCHANGED <<cur, old, out, touched, built, runs>>

Save ==
    /\ pc = "save" /\ pc' = "split"
    /\ config' = cur /\ fresh' = FALSE /\ todo' = Syms
    /\ UNCHANGED <<cur, old, out, touched, built, runs>>

-----------------------------------------------------------------------------
\* Slip: a symbol that is no longer written is not compared.
ChangedWritten(new, was) == new # 3 /\ Saved(new) # was

\* The new value against the one in auto.conf.
Changed(new, was) ==
    IF new # 3
    THEN IF was # 3 THEN new # was ELSE new # 0
    ELSE was # 3

Split ==
    /\ pc = "split" /\ todo # {}
    /\ \E s \in todo :
         /\ todo' = todo \ {s}
         /\ touched' = IF Changed(cur[s], out["auto"][s]) THEN touched \cup {s} ELSE touched
    /\ UNCHANGED <<cur, config, old, out, fresh, built, pc, runs>>

\* The printer for cmake aborts on m.
Print4 ==
    /\ pc = "split" /\ todo = {}
    /\ pc' = IF \E s \in Syms : cur[s] = 1 THEN "idle" ELSE "header"
    /\ UNCHANGED <<cur, config, old, out, fresh, touched, built, todo, runs>>

Follows(f) ==
    CASE f = "header" -> "tristate" [] f = "tristate" -> "cmake" [] f = "cmake" -> "auto" [] f = "auto" -> "idle"

\* rename of a generated file; "This must be the last step" for auto.conf.
Rename ==
    /\ pc \in Outputs
    /\ out' = [out EXCEPT ![pc] = Generated(cur)]
    /\ fresh' = (fresh \/ pc = "auto")
    /\ pc' = Follows(pc)
    /\ UNCHANGED <<cur, config, old, touched, built, todo, runs>>

Stop ==
    /\ pc # "idle" /\ pc' = "idle"
    /\ UNCHANGED <<cur, config, old, out, fresh, touched, built, todo, runs>>

\* The build.
Build ==
    /\ pc = "idle" /\ fresh /\ config # Missing
    /\ built' = [s \in Syms |-> IF s \in touched THEN out["header"][s] ELSE built[s]]
    /\ touched' = {}
    /\ UNCHANGED <<cur, config, old, out, fresh, pc, todo, runs>>

Next == Start \/ SaveOld \/ Save \/ Truncate \/ Fill \/ Split \/ Print4 \/ Rename \/ Stop \/ Build

Spec == Init /\ [][Next]_vars

-----------------------------------------------------------------------------
\* "This must be the last step, kbuild has a dependency on auto.conf and this marks
\* the successful completion of the previous steps": when auto.conf is newer than
\* a .config that is there, all generated files say what .config says.
FreshMeansAgree ==
    fresh /\ config # Missing => \A f \in Outputs : out[f] = Generated(config)

\* What depends on a symbol is compiled again whenever the symbol's value in the
\* header is another than when it was built, however many runs were cut short.
NothingStale ==
    fresh /\ pc = "idle" => \A s \in Syms : built[s] # out["header"][s] => s \in touched

Whole(c) == c \notin {Missing, Torn}

\* Once a configuration was saved there is always a complete one under one of the
\* two names.  Only overwriting it in place may lose it, and taking what is left of a
\* .config that was being overwritten for a backup.
ConfigKept ==
    [][(Whole(config) \/ Whole(old)) /\ ~(Whole(config') \/ Whole(old')) =>
         Truncate \/ (SaveOld /\ config = Torn)]_vars
=============================================================================
