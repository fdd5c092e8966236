--------------------------- MODULE MCInterpreter ---------------------------
(***************************************************************************)
(* Syntax trees of two levels over every kind of value, among them names   *)
(* that are not bound, NaN, functions, and a call that panics.             *)
(***************************************************************************)
EXTENDS Interpreter, Evaluation, TLC

(* Every string that a tree or a result can hold, in byte order. *)
Ordered == << "", " ", " a", " a a", " aa", " aab", " ab", "1", "1 a2", "112", "12", "142", "1NaN2",
              "1a2", "1ab2", "2", "4", "9y", "NaN", "a", "a a", "a ab", "aa", "aab", "ab", "ab a",
              "aba", "abab", "abs", "array", "b", "boolean", "ceil", "defined", "false", "floor",
              "fromNow", "function", "join", "k", "len", "lowercase", "lstrip", "max", "min", "nope",
              "now", "null", "number", "object", "range", "rstrip", "split", "sqrt", "str", "string",
              "strip", "true", "typeof", "uppercase", "x" >>
Texts == { Ordered[i] : i \in DOMAIN Ordered }
MCStr == Texts
Ranks == [s \in Texts |-> CHOOSE i \in DOMAIN Ordered : Ordered[i] = s]
MCKeyRank == Ranks
Spelled == [s \in Texts |-> [i \in 1..Len(s) |-> SubSeq(s, i, i)]]
MCChars == Spelled
MCSpell(cs) == LET upTo[i \in 0..Len(cs)] == IF i = 0 THEN "" ELSE upTo[i - 1] \o cs[i]
               IN  upTo[Len(cs)]

MCParse(s) == << "invalid" >>
MCNumText(n) == ToString(n)
MCParseNumber(s) == CASE s = "NaN" -> Ok(NaN) [] s = "1" -> Ok(Num(1)) [] s = "4" -> Ok(Num(4)) [] OTHER -> Err
MCFromNow(offset, reference) == IF offset = "9y" THEN Panic ELSE Err
MCRecase(f, s) == IF f = "lowercase" THEN s ELSE "x"

MCFnName == { "abs", "str", "len", "min", "max", "sqrt", "ceil", "floor", "lowercase", "uppercase", "number",
              "strip", "range", "rstrip", "lstrip", "join", "split", "fromNow", "typeof", "defined" }
Globals == ObjOf([f \in MCFnName |-> Fn(f)])
List == ArrOf(<< Num(1), Num(2) >>)
Object == ObjOf("a" :> Num(1) @@ "k" :> Text("ab"))
Locals == ObjOf("now" :> Text("") @@ "x" :> Text("ab") @@ "k" :> List @@ "b" :> Object @@ "NaN" :> NaN)
MCContexts == { << Globals, Locals >> }

-----------------------------------------------------------------------------
Id(n) == << "ident", n >>
Lit(s) == << "str", s >>
Minus(n) == << "un", "-", n >>
CallOf(f, args) == << "func", Id(f), args >>
Unit == << "num", "1" >>
Panicking == CallOf("fromNow", << Lit("9y"), Lit("") >>)

Atoms == { << "null" >>, << "bool", TRUE >>, Unit, << "num", "4" >>, Id("x"), Id("k"), Id("b"), Id("NaN"),
           Id("len"), Id("nope"), Lit(" a"), Lit(""), Panicking }
Limits == { << "absent" >>, Unit, Minus(Unit), Id("nope"), Panicking, Lit("a") }

Calls ==
    { CallOf(f, << v >>) : f \in MCFnName, v \in Atoms } \cup { CallOf(f, <<>>) : f \in MCFnName }
    \cup { CallOf(f, << v, w >>) : f \in { "min", "max", "range", "join", "split" }, v, w \in Atoms \ { << "null" >>, << "bool", TRUE >> } }
    \cup { CallOf("range", << Unit, << "num", "4" >>, s >>) : s \in { Unit, Minus(Unit), Id("NaN"), Id("nope") } }
    \cup { << "func", v, << w >> >> : v, w \in { Unit, Id("nope"), Panicking } }

Small ==
    Atoms \cup { << "op", v, o, w >> : v, w \in Atoms, o \in BinaryOps \ { "/", "**" } }
    \cup { << "op", v, "/", w >> : v \in Atoms, w \in Atoms \ { << "num", "4" >> } }
    \cup { << "op", v, "**", w >> : v, w \in { Unit, << "num", "4" >>, Id("NaN"), Id("x") } }
    \cup { << "un", o, v >> : o \in { "!", "-", "+" }, v \in Atoms }
    \cup { << "index", v, i >> : v \in Atoms, i \in (Limits \ { << "absent" >> }) \cup { Id("x"), Lit("k") } }
    \cup { << "slice", v, i, j >> : v \in Atoms, i, j \in Limits }
    \cup { << "dot", v, p >> : v \in Atoms, p \in { "a", "x" } }
    \cup { << "array", << v, w >> >> : v, w \in Atoms }
    \cup { << "object", << << "a", v >>, << k, w >> >> >> : v, w \in Atoms, k \in { "a", "b" } }
    \cup Calls

(* Around the trees that fail, panic, decide early or bind differently.    *)
Inner == { Id("nope"), Panicking, << "op", Id("k"), "||", Panicking >>, << "op", Id("nope"), "||", Unit >>,
           << "op", << "null" >>, "&&", Id("nope") >>, << "slice", Unit, Panicking, Unit >>,
           << "slice", Id("k"), Lit("a"), Panicking >>, << "slice", Id("k"), Minus(Unit), << "absent" >> >>,
           << "op", Id("NaN"), "==", Id("NaN") >>, << "array", << Id("x"), Id("nope") >> >> }
Large ==
    { << "op", v, o, w >> : v, w \in Inner, o \in { "||", "&&", "==" } }
    \cup { << "slice", Id("k"), v, w >> : v, w \in Inner } \cup { << "index", v, w >> : v, w \in Inner }
    \cup { << "array", << v, w, u >> >> : v, w, u \in Inner }
    \cup { CallOf("min", << v, w >>) : v, w \in Inner }
MCTrees == Small \cup Large

(* The trees with all their parts, down to the atoms. *)
Below(S) == S \cup UNION { { Operands(n)[k] : k \in DOMAIN Operands(n) } : n \in S }
MCNodes == Below(Below(Below(MCTrees)))
MCDenoted(n, c) == Eval(n, c)
=============================================================================
