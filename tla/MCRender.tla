------------------------------ MODULE MCRender ------------------------------
(***************************************************************************)
(* Finite instances of Render: a table of strings in byte order, and the   *)
(* templates and contexts that the runs enumerate.  Strings are parsed by  *)
(* Syntax, OpProps, Pieces and Offsets, expressions evaluated by Evaluation. *)
(***************************************************************************)
EXTENDS Render, TLC

(* Every string that an input or a result can hold, in byte order. *)
Ordered == <<
    "", "!x", "$$a", "$${x}", "$a", "$default", "$eval", "$find", "$flatten",
    "$flattenDeep", "$fromNow", "$if", "$json", "$let", "$map", "$match",
    "$merge", "$mergeDeep", "$reduce", "$reverse", "$sort", "$switch",
    "${fromNow('9y')}", "${nope}", "${x}", "-x", "0", "0/0", "1", "11", "12",
    "1h", "1x", "2", "9y", "NaN", "T0", "T0+1h", "T1", "T1+1h", "Tt", "Tt+1h",
    "[x,y]", "a", "a${x}", "a1", "aNaN", "aa", "acc", "acc+x", "b", "bad key",
    "by(x)", "by(y)", "defined", "defined('y')", "each(a,x)", "each(acc,x)",
    "each(acc,x,i)", "each(x)", "each(x,i)", "each(x,x)", "else", "false",
    "from", "fromNow", "fromNow('')", "fromNow('9y')", "i", "i==1", "in",
    "initial", "json", "k", "key", "len", "len(x)", "nope", "now", "null",
    "then", "true", "val", "x", "x.a", "x.val", "x==1", "x[-1]", "x[0]",
    "x[1:]", "y"
    >>
AllIn(list) == { list[i] : i \in DOMAIN list }
MCStr == AllIn(Ordered)
Places(list) == [s \in AllIn(list) |-> CHOOSE i \in DOMAIN list : list[i] = s]
MCKeyRank == Places(Ordered)
Starts(s, p) == Len(s) >= Len(p) /\ SubSeq(s, 1, Len(p)) = p
MCSingleDollar == { s \in MCStr : Starts(s, "$") /\ ~Starts(s, "$$") }
MCUnescape == [s \in MCStr |-> IF Starts(s, "$$") THEN SubSeq(s, 2, Len(s)) ELSE s]
MCChars == [s \in STRING |-> [i \in 1..Len(s) |-> SubSeq(s, i, i)]]
MCSpell(cs) == LET upTo[i \in 0..Len(cs)] == IF i = 0 THEN "" ELSE upTo[i - 1] \o cs[i]
               IN  upTo[Len(cs)]

-----------------------------------------------------------------------------
(* What the parsers of the crate make of these strings, each parsed once.  *)

MCDigits == { "0", "1", "2", "9" }
MCBlanks == { " " }
MCLetters == { "N", "T", "a", "b", "c", "d", "e", "f", "h", "i", "j", "k", "l", "m", "n", "o", "p", "r",
               "s", "t", "u", "v", "w", "x", "y" }
Grammar == INSTANCE OpProps WITH Letters <- MCLetters, Digits <- MCDigits, Blanks <- MCBlanks
Cutting == INSTANCE Pieces WITH Letters <- MCLetters, Digits <- MCDigits, Blanks <- MCBlanks

Parsed == [s \in MCStr |-> Grammar!ParseAll(s)]
MCParse(s) == Parsed[s]
Cut == [s \in MCStr |-> Cutting!PiecesOf(s)]

Names == { s \in MCStr : Grammar!IsIdentifier(s) }
InEach == [s \in { t \in MCStr : Grammar!ParseEach(t) # <<>> } |-> Grammar!ParseEach(s)]
InEachThree == [s \in { t \in MCStr : Grammar!ParseEachThree(t) # <<>> } |-> Grammar!ParseEachThree(s)]
InBy == [s \in { t \in MCStr : Grammar!ParseBy(t) # <<>> } |-> Grammar!ParseBy(s)[1]]

(* TLC computes a definition once, but what a .cfg substitutes every time. *)
MCIdentifiers == Names
MCEachVars == InEach
MCEachThreeVars == InEachThree
MCByVar == InBy

MCNumText(n) == ToString(n)
MCParseNumber(s) ==
    CASE s = "NaN" -> Ok(NaN) [] s = "0" -> Ok(Num(0)) [] s = "1" -> Ok(Num(1)) [] s = "2" -> Ok(Num(2))
      [] OTHER -> Err

(* Three times, in hours: two readings of the clock and the test time.  An *)
(* offset of nine years does not fit the durations of this scale.          *)
Hours == "T0" :> 0 @@ "T1" :> 10 @@ "Tt" :> 20
Named == Hours @@ "T0+1h" :> 1 @@ "T1+1h" :> 11 @@ "Tt+1h" :> 21
Time == INSTANCE Offsets WITH
    DigitValue <- "0" :> 0 @@ "1" :> 1 @@ "2" :> 2 @@ "9" :> 9, Blanks <- MCBlanks,
    MaxInt <- 63, MaxSeconds <- 1000, Times <- 0..2000,
    SecondsIn <- "weeks" :> 168 @@ "days" :> 24 @@ "hours" :> 1 @@ "minutes" :> 0 @@ "seconds" :> 0,
    DaysIn <- "years" :> 365 @@ "months" :> 30,
    ParseTime <- LAMBDA s : [ok |-> s \in DOMAIN Hours, time |-> IF s \in DOMAIN Hours THEN Hours[s] ELSE 0]
Later == [offset \in MCStr, reference \in DOMAIN Hours \cup { "" } |-> Time!FromNowAt(offset, reference, TRUE)]
Written(o) ==
    CASE o.st = "ok" -> Ok(Text(CHOOSE s \in DOMAIN Named : Named[s] = o.secs))
      [] o.st = "panic" -> Panic
      [] OTHER -> Err
MCFromNow(offset, reference) ==
    Written(Later[offset, IF reference \in DOMAIN Hours THEN reference ELSE ""])
MCStamp == [n \in 0..MaxClock |-> IF n = 0 THEN "T0" ELSE "T1"]
MCTimes == { "T0", "T1", "Tt" }

MCFnName == { "len", "fromNow", "defined" }
MCBuiltins == ObjOf([f \in MCFnName |-> Fn(f)])
MCJsonText(v) == "json"
MCRecase(f, s) == s             \* no template here changes case

Language == INSTANCE Evaluation WITH
    Parse <- MCParse, NumText <- MCNumText, ParseNumber <- MCParseNumber, FromNow <- MCFromNow,
    Chars <- MCChars, Spell <- MCSpell, White <- MCBlanks, Recase <- MCRecase
MCEvaluate(s, ctx) == Language!EvaluateText(s, ctx)
MCInterpolate(s, ctx) == Language!InterpolatePieces(Cut[s], ctx)

-----------------------------------------------------------------------------
(* Templates. *)

O(k, v) == ObjOf(k :> v)
O2(k, v, l, w) == ObjOf(k :> v @@ l :> w)
O3(k, v, l, w, m, u) == ObjOf(k :> v @@ l :> w @@ m :> u)
A(s) == ArrOf(s)
Ev(e) == O("$eval", Text(e))
Gone == O("$if", Text("false"))             \* renders to a deletion marker

Basic == { Null, Num(1), Text("a"), Text("${x}"), Ev("x"), Ev("nope"), Gone }

PlainTemplates ==
    Basic \cup { A(<<>>), Text("a${x}"), Text("$${x}"), Text("${fromNow('9y')}"), Ev("0/0"), Ev("len") }
    \cup { A(<<v, w>>) : v, w \in Basic }
    \cup { O2("a", v, k, w) : v, w \in { Num(1), Ev("x"), Ev("nope"), Gone },
                              k \in { "b", "$$a", "$a", "$${x}", "${x}", "${nope}", "${fromNow('9y')}" } }

(* Arguments for the operators that take one, and arrays for the loops.    *)
Lists == { A(<<>>), A(<<Num(2), Num(1)>>), A(<<Text("b"), Text("a"), Text("b")>>), A(<<Num(1), Text("a")>>),
           A(<<Ev("0/0"), Num(1)>>), A(<<Ev("0/0")>>),
           A(<<A(<<Num(1), A(<<Text("a"), Null>>)>>), Gone, Num(2)>>),
           A(<<O("a", O("b", A(<<Num(1)>>))), O2("a", O("b", A(<<Num(2)>>)), "b", Null), O("a", O("k", Num(1)))>>),
           Ev("x"), Ev("len"), Ev("nope"), Num(1), Gone, O2("a", Num(1), "b", Num(2)), O("b", O("k", Num(1))) }

Unary == { O(op, v) : v \in Lists, op \in
             { "$flatten", "$flattenDeep", "$json", "$merge", "$mergeDeep", "$reverse", "$sort" } }
          \cup { O2(op, Num(1), "b", Num(1)) : op \in Operators }
          \cup { O(op, Null) : op \in Operators }

Conditionals ==
    { O3("$if", Text(e), "then", v, "else", w) : e \in { "x", "x==1", "nope", "fromNow('9y')" },
          v, w \in { Num(1), Ev("nope"), Gone } }
    \cup { O2("$if", Text(e), "then", Ev("x")) : e \in { "true", "false" } }
    \cup { O(op, ObjOf("x==1" :> v @@ "true" :> w @@ d :> Num(2))) : op \in { "$match", "$switch" },
          v, w \in { Num(1), Ev("nope"), Gone }, d \in { "false", "nope", "$default", "fromNow('9y')" } }
    \cup { O(op, O2("false", Num(1), d, Gone)) : op \in { "$match", "$switch" }, d \in { "0", "$default" } }
    \cup { O2("$switch", O("true", Num(1)), "b", Num(1)) }

LoopTemplates ==
    { O2(op, v, p, t) : op \in { "$map", "$find" }, v \in Lists, p \in { "each(x)", "each(x,i)", "each(x,x)" },
          t \in { Text("x"), Text("x==1"), Text("${x}"), Ev("x"), Text("fromNow('9y')"), Gone } }
    \cup { O2("$map", v, p, t) : v \in { O2("a", Num(1), "b", Gone), O2("a", Num(1), "b", Num(2)), A(<<Num(1), Num(2)>>) },
          p \in { "each(x)", "each(a,x)", "each(x,x)" }, t \in { O("${x}", Ev("x")), O("a", Ev("x")), Ev("x.val"), Ev("[x,y]") } }
    \cup { O3("$reduce", v, p, t, q, Num(1)) : v \in Lists, p \in { "each(acc,x)", "each(acc,x,i)" }, q \in { "initial" },
          t \in { Ev("acc+x"), Gone, Ev("x"), Text("fromNow('9y')"), O("$if", Text("i==1")) } }
    \cup { O3("$reduce", A(<<Num(1)>>), "each(acc,x)", Ev("x"), "each(x,i)", Num(1)) }
    \cup { O2("$sort", v, p, t) : v \in Lists, p \in { "by(x)" },
          t \in { Text("-x"), Text("x"), Text("x.a"), Text("0/0"), Num(1), Text("fromNow('9y')") } }
    \cup { O3("$sort", A(<<Num(1)>>), "by(x)", Text("x"), "by(y)", Text("x")) }

Scoped ==
    { O2("$let", v, "in", t) : v \in { O("x", Ev("x")), O2("a", Gone, "y", Num(2)), O("y", Ev("len")), O("bad key", Num(1)),
                                       Ev("x"), Gone, Text("a"), O("now", Num(1)), O("now", Text("T1")), O("${x}", Num(1)) },
          t \in { Ev("y"), Ev("now"), Ev("defined('y')"), A(<<Ev("x"), Ev("a")>>), O("$fromNow", Text("1h")) } }
    \cup { O("$let", O("x", Num(1))) }
    \cup { O2("$fromNow", v, "from", w) : v \in { Text(""), Text("1h"), Num(1), Text("9y"), Text("a"), Ev("nope") },
          w \in { Text("T0"), Ev("now"), Num(1), Text("a"), Ev("nope") } }
    \cup { O("$fromNow", v) : v \in { Text(""), Text("1h"), Num(1), Text("9y"), Text("a") } }
    \cup { A(<<Ev("now"), Ev("fromNow('')"), O("$fromNow", Text(""))>>) }

Single == PlainTemplates \cup Unary \cup Conditionals \cup LoopTemplates \cup Scoped

(* Three levels: each wrapper around the wrappers that bind names, choose  *)
(* or collect, around each core.                                           *)
Cores == { Ev("x"), Ev("nope"), Ev("len"), Gone, A(<<Gone, Ev("x")>>), O2("a", Gone, "b", Ev("now")) }
Collecting(t) ==
    { A(<<t, t>>), O2("a", t, "b", Ev("x")), O2("$let", O("y", t), "in", A(<<Ev("y"), Ev("x")>>)),
      O2("$let", O("x", Num(2)), "in", t), O("$match", O2("true", t, "x==1", t)),
      O2("$find", A(<<Num(1), t>>), "each(x,i)", Text("i==1")),
      O2("$map", A(<<Num(1), Num(2)>>), "each(x)", t),
      O3("$reduce", A(<<Num(1), Num(2)>>), "each(acc,x)", t, "initial", Num(1)) }
Around(t) == Collecting(t) \cup
    { O2("$if", Text("true"), "then", t), O("$switch", O("true", t)),
      O2("$map", A(<<t, t>>), "each(x)", Ev("x")), O2("$map", O2("a", t, "b", t), "each(x)", O("k", Ev("x.val"))),
      O("$flatten", A(<<t, A(<<t>>)>>)), O("$mergeDeep", A(<<O("a", t), O("a", t)>>)),
      O2("$sort", A(<<t, Num(2)>>), "by(x)", Text("x")), O("$json", t) }
Nested == UNION { Around(v) : v \in UNION { Collecting(t) : t \in Cores } }

ContextX == { O("x", Num(1)), O2("x", A(<<Num(1), Text("a")>>), "y", O("a", Num(1))) }
NoContext == { Num(1), O("bad key", Num(1)) }       \* from_value refuses these

NestedInputs == Nested \X { O("x", Num(1)) }
SingleInputs == Single \X ContextX \cup { Num(1), Gone } \X NoContext

(* Loops and branches of every operator, also on what is no list and with  *)
(* conditions that fail half-way, and data that $find renders.             *)
LoopInputs == (LoopTemplates \cup Conditionals) \X { O("x", A(<<Num(1), Text("a")>>)) }
NestedAndLoopInputs == NestedInputs \cup LoopInputs

ASSUME MCContract ==
    Contract({ << MCBuiltins, c, O("now", Text("T0")) >> : c \in ContextX }, { Null, Num(1) })

(* Nothing outside the renderer makes a deletion marker, and nothing makes *)
(* one clock reading out of another.                                       *)
ASSUME MCClosed ==
    LET contexts == { << MCBuiltins, c, O("now", Text(now)) >> :
                          c \in ContextX \cup { O2("x", Text("1"), "acc", Text("a")) }, now \in MCTimes }
    IN  /\ Closed(Unmarked, contexts, { Null, Num(1) })
        /\ Separate([t \in MCTimes |-> MCStr \ (MCTimes \ {t})], contexts, { Null, Num(1) })

-----------------------------------------------------------------------------
(* The renderer implements Semantics: at every moment the verdict is still *)
(* pending or the one Semantics gives for some single reading of the       *)
(* clock, and it is never revised.                                         *)
VerdictNow ==
    IF status \in { "ready", "running" } THEN [status |-> "pending", v |-> Null]
    ELSE [status |-> status, v |-> IF status = "done" THEN ret.v ELSE Null]
Promised == INSTANCE Semantics WITH
    Parse <- MCParse, NumText <- MCNumText, ParseNumber <- MCParseNumber,
    Chars <- MCChars, Spell <- MCSpell, White <- MCBlanks, Recase <- MCRecase,
    Times <- MCTimes, verdict <- VerdictNow

(* Every render delivers exactly what Semantics promises for its template  *)
(* and context: scopes, laziness, order of errors and markers included.    *)
ImplementsSemantics == Promised!Spec
=============================================================================
