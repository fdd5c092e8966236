---------------------------- MODULE Interpolate ----------------------------
(***************************************************************************)
(* The loop of interpolate() in rs/src/render.rs, one action per branch.   *)
(* It does not read a string character by character: it searches the next  *)
(* $, cuts the source there and goes on with what is left.                 *)
(***************************************************************************)
EXTENDS Texts

CONSTANTS
    Sources,     \* the strings to interpolate
    Partial(_),  \* parse_partial: string -> Result of Syntax
    Show(_)      \* node -> [st, s]: its value's text, or why there is none

VARIABLES text, source, result, status
vars == << text, source, result, status >>

Dollars == { i \in 1..Len(source) : At(source, i, "$") }
Offset == (CHOOSE i \in Dollars : \A j \in Dollars : i <= j) - 1
Here(s) == Dollars # {} /\ At(source, Offset + 1, s)

Init == text \in Sources /\ source = text /\ result = "" /\ status = "running"

Continue(out, rest) ==
    result' = result \o out /\ source' = rest /\ UNCHANGED << text, status >>
Stop(st) == status' = st /\ UNCHANGED << text, source, result >>

(* Altered: evaluated before the brace is asked for. *)
ExpandEager ==
    /\ Here("${")
    /\ LET expr == After(source, Offset + 2)
           parsed == Partial(expr)
           shown == Show(parsed.node)
       IN  IF ~parsed.ok THEN Stop("err")
           ELSE IF shown.st # "ok" THEN Stop(shown.st)
           ELSE IF ~At(expr, parsed.at, "}") THEN Stop("err")
           ELSE Continue(Upto(source, Offset) \o shown.s, After(expr, parsed.at))

(* `${`: the longest expression, a brace, and only then its evaluation.    *)
Expand ==
    /\ Here("${")
    /\ LET expr == After(source, Offset + 2)
           parsed == Partial(expr)
           shown == Show(parsed.node)
       IN  IF ~parsed.ok \/ ~At(expr, parsed.at, "}") THEN Stop("err")
           ELSE IF shown.st # "ok" THEN Stop(shown.st)
           ELSE Continue(Upto(source, Offset) \o shown.s, After(expr, parsed.at))

(* Altered: both $ are copied. *)
UnescapeBoth == Here("$${") /\ Continue(Upto(source, Offset + 2), After(source, Offset + 2))

(* `$${`: one $ is copied, the other one dropped, the brace comes next.    *)
Unescape == Here("$${") /\ Continue(Upto(source, Offset + 1), After(source, Offset + 2))

(* Altered: goes on at the $ instead of behind it. *)
CarryOnHere ==
    /\ Dollars # {} /\ ~Here("${") /\ ~Here("$${")
    /\ Continue(Upto(source, Offset), After(source, Offset))

CarryOn ==
    /\ Dollars # {} /\ ~Here("${") /\ ~Here("$${")
    /\ Continue(Upto(source, Offset + 1), After(source, Offset + 1))

(* No $ at all, at the start or in what is left.                           *)
CopyRest == source # "" /\ Dollars = {} /\ Continue(source, "")
Finish == source = "" /\ Stop("ok")

Next == status = "running" /\ (Expand \/ Unescape \/ CarryOn \/ CopyRest \/ Finish)
Spec == Init /\ [][Next]_vars /\ WF_vars(Next)
=============================================================================
