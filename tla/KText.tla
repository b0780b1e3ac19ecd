------------------------------- MODULE KText -------------------------------
(***************************************************************************)
(* Symbols whose value is a text, config/symbol.c and config/confdata.c:   *)
(* a number with a range, set by the user, limited, written and read, and  *)
(* the quoting of strings.  A text is a sequence of characters.            *)
(***************************************************************************)
EXTENDS Integers, Sequences, SequencesExt

CONSTANTS
    Texts,      \* what a user may type for a number
    Strings,    \* values of string symbols, over the quote, the backslash and "a"
    IntBits,    \* bits of int, few of them so that numbers of them do not fit
    LongBits,   \* bits of long
    Bounds      \* numbers the symbols of a range may have, which fit an int

VARIABLES
    kind,       \* "int", "hex" or "string"
    low, high,  \* values of the symbols of the range
    has,        \* SYMBOL_DEF_USER
    def         \* def[S_DEF_USER].val

vars == <<kind, low, high, has, def>>

Digits == <<"0", "1", "2", "3", "4", "5", "6", "7", "8", "9">>
IsDigit(c) == c \in ToSet(Digits)
DigitOf(c) == IF c = "f" THEN 15 ELSE (CHOOSE n \in 1 .. 10 : Digits[n] = c) - 1
IsXDigit(c) == IsDigit(c) \/ c = "f"
Base == IF kind = "hex" THEN 16 ELSE 10
Prefixed(t) == Len(t) > 1 /\ t[1] = "0" /\ t[2] = "x"
Bare(t) == IF kind = "hex" /\ Prefixed(t) THEN SubSeq(t, 3, Len(t)) ELSE t

\* The number a valid text stands for.
Number(t) ==
    LET neg == kind = "int" /\ t # <<>> /\ t[1] = "-"
        n == FoldLeft(LAMBDA a, c : a * Base + DigitOf(c), 0, IF neg THEN Tail(t) ELSE Bare(t)) IN
    IF neg THEN -n ELSE n

\* Of what is out of range strtol makes the largest or the smallest long, and the int
\* its result is assigned to keeps the low bits.
Wrap(n) == ((n + 2 ^ (IntBits - 1)) % 2 ^ IntBits) - 2 ^ (IntBits - 1)
Saturate(n) == IF n >= 2 ^ (LongBits - 1) THEN 2 ^ (LongBits - 1) - 1
               ELSE IF n < -(2 ^ (LongBits - 1)) THEN -(2 ^ (LongBits - 1)) ELSE n
Strtol(t) == Wrap(Saturate(Number(t)))

\* sym_string_valid.
ValidNumber(t) ==
    LET d == IF kind = "int" /\ t # <<>> /\ t[1] = "-" THEN Tail(t) ELSE Bare(t) IN
    /\ d # <<>>
    /\ \A i \in DOMAIN d : IF kind = "hex" THEN IsXDigit(d[i]) ELSE IsDigit(d[i])
    /\ kind = "int" /\ d[1] = "0" => Len(d) = 1
Valid(t) == IF kind = "string" THEN TRUE ELSE ValidNumber(t)

\* sym_string_within_range.
WithinRange(t) == IF kind = "string" THEN TRUE ELSE (ValidNumber(t) /\ low <= Strtol(t) /\ Strtol(t) <= high)

\* sprintf of a bound, %d or 0x%x.
ToText(n) == CHOOSE t \in Texts : Valid(t) /\ Number(t) = n /\ (kind = "hex" => Prefixed(t))

\* sym_validate_range.
Limit(t) ==
    IF kind = "string" \/ (low <= Strtol(t) /\ Strtol(t) <= high) THEN t
    ELSE ToText(IF Strtol(t) < low THEN low ELSE high)

\* sym_calc_value of a number: the user's, limited; there is no default.
Cur == Limit(IF has THEN def ELSE <<>>)

\* The prefix sym_set_string_value gives a hexadecimal number.
WithPrefix(t) == IF kind = "hex" /\ ~Prefixed(t) THEN <<"0", "x">> \o t ELSE t

-----------------------------------------------------------------------------
(***************************************************************************)
(* sym_escape_string_value, and conf_set_sym_val of what it gives.         *)
(***************************************************************************)
\* Slip: backslashes are not escaped.
EscapeQuote(c) == IF c = "quote" THEN <<"back", c>> ELSE <<c>>
EscapeOne(c) == IF c \in {"quote", "back"} THEN <<"back", c>> ELSE <<c>>
Escape(s) == <<"quote">> \o FlattenSeq([i \in DOMAIN s |-> EscapeOne(s[i])]) \o <<"quote">>

\* A quote ends the string, a backslash goes and what follows it stays.
Unescape(t) ==
    LET step(a, c) ==
            CASE a.at = "end" -> a
              [] a.at = "any" -> [s |-> Append(a.s, c), at |-> "in"]
              [] c = "quote" -> [a EXCEPT !.at = "end"]
              [] c = "back" -> [a EXCEPT !.at = "any"]
              [] OTHER -> [a EXCEPT !.s = Append(@, c)] IN
    FoldLeft(step, [s |-> <<>>, at |-> "in"], Tail(t)).s

-----------------------------------------------------------------------------
Init ==
    /\ kind \in {"int", "hex", "string"}
    /\ low \in Bounds /\ high \in {b \in Bounds : low <= b}
    /\ has = FALSE /\ def = <<>>

\* sym_set_string_value.
Set(t) ==
    /\ WithinRange(t)
    /\ has' = TRUE /\ def' = WithPrefix(t)
    /\ UNCHANGED <<kind, low, high>>

\* The symbols of the range get other values.
SetRange ==
    /\ low' \in Bounds /\ high' \in {b \in Bounds : low' <= b}
    /\ UNCHANGED <<kind, has, def>>

\* conf_read: a value out of the range is not the user's.
KeptWhenRead(t) == WithinRange(t)

\* The configuration is written and read again.
Reload ==
    /\ LET t == IF kind = "string" THEN Unescape(Escape(Cur)) ELSE Cur IN
       has' = (Valid(t) /\ KeptWhenRead(t)) /\ def' = IF Valid(t) THEN t ELSE <<>>
    /\ UNCHANGED <<kind, low, high>>

\* A line a user wrote is read.
Read(t) ==
    /\ has' = (Valid(t) /\ KeptWhenRead(t)) /\ def' = IF Valid(t) THEN t ELSE <<>>
    /\ UNCHANGED <<kind, low, high>>

Inputs == IF kind = "string" THEN Strings ELSE Texts
Next == (\E t \in Inputs : Set(t) \/ Read(t)) \/ SetRange \/ Reload

Spec == Init /\ [][Next]_vars

-----------------------------------------------------------------------------
InRange(n) == low <= n /\ n <= high
FitsInt(n) == -(2 ^ (IntBits - 1)) <= n /\ n < 2 ^ (IntBits - 1)

\* The value of a number is one its kind allows, or there is none at all and 0 is in the
\* range; the code takes it to be in the range, and rightly so when it fits an int.
\* Of a number that does not, only what strtol and the int leave of it is in the range.
LimitedValue ==
    kind = "string" \/
    /\ Cur = <<>> \/ Valid(Cur)
    /\ InRange(Strtol(Cur))
    /\ FitsInt(Number(Cur)) => InRange(Number(Cur))

\* What is typed for a hexadecimal symbol gets the prefix and denotes the same number.
TypedHasPrefix ==
    [][kind # "string" => \A t \in Texts : Set(t) => (kind = "hex" => Prefixed(def')) /\ Number(def') = Number(t)]_vars

\* Writing the configuration and reading it back gives the same value, of strings too,
\* which are written with quotes.
ReloadSame == [][Reload => Cur' = Cur]_vars

\* "Reset a string value if it's out of range": the number that stays the user's when
\* a file is read is in the range.
ReadInRange == [][kind # "string" => \A t \in Texts : Read(t) /\ has' => InRange(Number(def'))]_vars

=============================================================================
