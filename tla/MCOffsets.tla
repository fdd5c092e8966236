----------------------------- MODULE MCOffsets -----------------------------
(***************************************************************************)
(* Offsets written component by component, in any order, in a build with   *)
(* and one without overflow checks, and what from_now makes of them.       *)
(***************************************************************************)
EXTENDS Offsets, FiniteSets

CONSTANTS MaxComponents

VARIABLES sign, components, wide, checked
vars == << sign, components, wide, checked >>

MCDigitValue == [c \in { "0", "1", "2", "5" } |->
                    CASE c = "0" -> 0 [] c = "1" -> 1 [] c = "2" -> 2 [] c = "5" -> 5]
MCBlanks == { " ", "\t" }

(* Scaled: eight bits for 64, and seconds that still tell units apart.     *)
MCSecondsIn == [u \in { "weeks", "days", "hours", "minutes", "seconds" } |->
    CASE u = "weeks" -> 21 [] u = "days" -> 9 [] u = "hours" -> 4 [] u = "minutes" -> 2 [] u = "seconds" -> 1]
MCDaysIn == [u \in { "years", "months" } |-> IF u = "years" THEN 5 ELSE 3]
MCTimes == -60..60
MCParseTime(s) == [ok |-> s = "T0", time |-> 20]

(* A number, too large a number for i64, one whose product with DaysIn is. *)
Numbers == { "1", "200", "51" }
ValueOf(number) == CASE number = "1" -> 1 [] number = "200" -> 200 [] number = "51" -> 51
(* The ways to write a unit that docs/src/operators.md lists under "The    *)
(* available units, including useful shorthands", as << unit, name >>, and *)
(* those that are tried together with others.                              *)
Documented ==
    UNION { { "years" }   \X { "years", "year", "yr", "y" },
            { "months" }  \X { "months", "month", "mo" },
            { "weeks" }   \X { "weeks", "week", "wk", "w" },
            { "days" }    \X { "days", "day", "d" },
            { "hours" }   \X { "hours", "hour", "hr", "h" },
            { "minutes" } \X { "minutes", "minute", "min", "m" },
            { "seconds" } \X { "seconds", "second", "sec", "s" } }
Combined == { << "years", "y" >>, << "years", "years" >>, << "months", "mo" >>, << "weeks", "wk" >>, << "days", "d" >>,
              << "hours", "hour" >>, << "hours", "hr" >>, << "minutes", "m" >>, << "minutes", "min" >>,
              << "seconds", "s" >> }

Init == /\ sign \in { "", "-", "+" } /\ components = <<>>
        /\ wide \in BOOLEAN /\ checked \in BOOLEAN
Write ==
    /\ Len(components) < MaxComponents
    /\ \A i \in DOMAIN components : << components[i][2], components[i][3] >> \in Combined
    /\ \E n \in Numbers, w \in IF components = <<>> THEN Documented ELSE Combined :
           components' = Append(components, << n, w[1], w[2] >>)
    /\ UNCHANGED << sign, wide, checked >>
Spec == Init /\ [][Write]_vars

Blank == IF wide THEN " " ELSE ""
Text ==
    LET upTo[i \in 0..Len(components)] ==
            IF i = 0 THEN Blank \o sign \o Blank
            ELSE upTo[i - 1] \o components[i][1] \o Blank \o components[i][3] \o Blank
    IN  upTo[Len(components)]

-----------------------------------------------------------------------------
Rank(unit) == CHOOSE k \in DOMAIN Units : Units[k] = unit
InOrder == \A i, j \in DOMAIN components : i < j => Rank(components[i][2]) < Rank(components[j][2])
Fit == \A i \in DOMAIN components : ValueOf(components[i][1]) <= MaxInt
Abbreviated == \E i \in DOMAIN components : components[i][3] = "hr"
Answered == ParseDuration(Text, checked).st

(* fromnow.rs: "this enforces that each component appears once and in the  *)
(* proper order".  Any other offset is refused, and one that keeps to it   *)
(* is not, as long as its numbers are integers of the crate's width.  The  *)
(* one exception: hours written "hr" are refused wherever they stand, for  *)
(* hours() takes the h and leaves an r, although docs/src/operators.md has *)
(* them among the available units.                                         *)
OnceAndInOrder ==
    /\ Answered = "ok" => InOrder /\ Fit /\ ~Abbreviated
    /\ InOrder /\ Fit /\ ~Abbreviated => Answered # "err"

(* The exact offset, in integers without a bound. *)
DaysOf(unit) == IF unit \in DOMAIN DaysIn THEN DaysIn[unit] ELSE 1
LengthOf(unit) == DaysOf(unit) * SecondsIn[IF unit \in DOMAIN DaysIn THEN "days" ELSE unit]
Exact ==
    LET upTo[i \in 0..Len(components)] ==
            IF i = 0 THEN 0 ELSE upTo[i - 1] + ValueOf(components[i][1]) * LengthOf(components[i][2])
    IN  IF sign = "-" THEN -upTo[Len(components)] ELSE upTo[Len(components)]
Overflows == \E i \in DOMAIN components :
                components[i][2] \in DOMAIN DaysIn /\ ValueOf(components[i][1]) * DaysOf(components[i][2]) > MaxInt

(* What comes out is the exact time; a time or a duration that does not    *)
(* exist, also on the way, is a panic.  The one exception: without         *)
(* overflow checks a product of years or months may wrap around.           *)
OffsetIsExact ==
    LET answer == FromNowAt(Text, "T0", checked)
    IN  checked \/ ~Overflows =>
            /\ answer.st = "ok" => answer.secs = 20 + Exact
            /\ answer.st = "panic" => \/ Exact \notin -MaxSeconds..MaxSeconds
                                      \/ 20 + Exact \notin Times
                                      \/ ~InOrder \/ ~Fit \/ Overflows
=============================================================================
