------------------------------ MODULE MCSyntax ------------------------------
(***************************************************************************)
(* Texts for the parsers.  Some are syntax trees, grown constructor by     *)
(* constructor and printed with as few parentheses as the grammar needs;   *)
(* the others are typed token by token, so most of them make no sense:     *)
(* what might be an expression, or a property that binds names.            *)
(***************************************************************************)
EXTENDS OpProps, SequencesExt

CONSTANTS MaxConstructors, MaxTokens

VARIABLES
    origin,   \* of the text: "tree", "expression" or "names"
    tree,     \* whose printed form it is
    wide,     \* whether it is printed with blanks between all tokens
    text,     \* printed or typed
    size      \* how many constructors or tokens that is
vars == << origin, tree, wide, text, size >>

MCLetters == { "a", "b", "c", "e", "f", "h", "i", "l", "n", "r", "s", "t", "u", "x", "y" }
MCDigits == { "0", "1" }
MCBlanks == { " ", "\t" }

ExpressionTokens == { "x", "1", "(", ")", "[", "]", ":", "-", "*" }
NameTokens == { "each(", "by(", "x", "x,", ",", "1", " ", ")", "true" }

Id(n) == << "ident", n >>
One == << "num", "1" >>
Absent == << "absent" >>
Atoms == { Id("x"), Id("in"), << "num", "1.0" >>, << "str", "}" >> }
Operators == { "||", "&&", "in", "==", "<", "<=", "+", "*", "/", "**" }

(* Every constructor around a tree, in each of its places. *)
Around(t) ==
    { << "op", t, o, Id("in") >> : o \in Operators } \cup { << "op", One, o, t >> : o \in Operators }
    \cup { << "un", o, t >> : o \in { "!", "-", "+" } }
    \cup { << "index", t, One >>, << "index", Id("x"), t >>, << "dot", t, "a" >>,
           << "slice", t, Absent, Absent >>, << "slice", Id("x"), t, Absent >>, << "slice", Id("x"), Absent, t >>,
           << "slice", Id("in"), t, t >>, << "func", t, <<>> >>, << "func", Id("f"), << t >> >>,
           << "func", Id("f"), << One, t >> >>, << "array", << t >> >>, << "array", << t, Id("x"), t >> >>,
           << "object", << << "a", t >> >> >>, << "object", << << "in", One >>, << "true", t >> >> >> }

-----------------------------------------------------------------------------
(* Printing. *)

LevelOf(o) == CHOOSE l \in DOMAIN Levels : o \in Levels[l]
Binding(n) ==
    CASE n[1] = "op" -> IF n[3] = "**" THEN 8 ELSE LevelOf(n[3])
      [] n[1] \in { "un", "index", "slice", "dot", "func" } -> 9
      [] OTHER -> 10

Joined(ss) == FoldLeft(LAMBDA all, s : IF all = <<>> THEN s ELSE all \o << "," >> \o s, <<>>, ss)

RECURSIVE Tokens(_)
Tokens(n) ==
    LET as(m, least) == IF Binding(m) < least THEN << "(" >> \o Tokens(m) \o << ")" >> ELSE Tokens(m)
        all(ms) == Joined([i \in DOMAIN ms |-> Tokens(ms[i])])
        limit(m) == IF m = Absent THEN <<>> ELSE Tokens(m)
    IN  CASE n[1] \in { "ident", "num" } -> << n[2] >>
          [] n[1] = "str" -> << "'" \o n[2] \o "'" >>
          [] n[1] = "op" -> IF n[3] = "**" THEN as(n[2], 9) \o << "**" >> \o as(n[4], 8)
                            ELSE as(n[2], Binding(n)) \o << n[3] >> \o as(n[4], Binding(n) + 1)
          [] n[1] = "un" -> << n[2] >> \o as(n[3], 10)
          [] n[1] = "index" -> as(n[2], 9) \o << "[" >> \o Tokens(n[3]) \o << "]" >>
          [] n[1] = "slice" -> as(n[2], 9) \o << "[" >> \o limit(n[3]) \o << ":" >> \o limit(n[4]) \o << "]" >>
          [] n[1] = "dot" -> as(n[2], 9) \o << ".", n[3] >>
          [] n[1] = "func" -> as(n[2], 9) \o << "(" >> \o all(n[3]) \o << ")" >>
          [] n[1] = "array" -> << "[" >> \o all(n[2]) \o << "]" >>
          [] n[1] = "object" ->
                << "{" >> \o Joined([i \in DOMAIN n[2] |-> << n[2][i][1], ":" >> \o Tokens(n[2][i][2])]) \o << "}" >>

(* Blanks between all tokens, or only where two words would become one.    *)
(* Where a list or a limit is empty, no blank may stand in its place.      *)
EndsInWord(s) == s # "" /\ In(s, Len(s), WordChars)
Blank(s, t) ==
    IF wide THEN s # "" /\ ~(SubSeq(s, Len(s), Len(s)) \in { "[", "(", "{", ":" } /\ t \in { "]", ")", "}", ":" })
    ELSE EndsInWord(s) /\ In(t, 1, WordChars)
Printed(n) == FoldLeft(LAMBDA s, t : s \o (IF Blank(s, t) THEN " " ELSE "") \o t, "", Tokens(n))

-----------------------------------------------------------------------------
Init ==
    /\ size = 0
    /\ \/ /\ origin = "tree" /\ wide \in BOOLEAN
          /\ tree \in Atoms \cup { << "array", <<>> >>, << "object", <<>> >> }
          /\ text = Printed(tree)
       \/ origin \in { "expression", "names" } /\ wide = FALSE /\ tree = Absent /\ text = ""
Grow ==
    /\ origin = "tree" /\ size < MaxConstructors /\ size' = size + 1
    /\ tree' \in Around(tree) /\ text' = Printed(tree')
    /\ UNCHANGED << origin, wide >>
Type ==
    /\ origin # "tree" /\ size < MaxTokens /\ size' = size + 1
    /\ \E s \in IF origin = "names" THEN NameTokens ELSE ExpressionTokens : text' = text \o s
    /\ UNCHANGED << origin, tree, wide >>
Spec == Init /\ [][Grow \/ Type]_vars

-----------------------------------------------------------------------------
(* Precedence and associativity: no parenthesis is needed that Tokens does *)
(* not write, and blanks do not matter where words stay apart.  The one    *)
(* place where the grammar wants more than others do: an operator in front *)
(* of an operator, !!x, is refused.                                        *)
TreesSurvive ==
    origin = "tree" =>
        /\ ParseAll(text) = tree
        /\ tree[1] = "un" => ParseAll("!" \o text) = << "invalid" >>

(* interpolate() relies on parse_partial to find the end of an expression  *)
(* in the middle of a text.  What it finds is, by itself, the expression   *)
(* that parse_all accepts with the same meaning; and an expression that    *)
(* parse_all accepts is found whole in front of a closing brace.           *)
EmbedsUnchanged ==
    origin # "names" =>
        LET found == ParsePartial(text)
            all == ParseAll(text)
            inside == ParsePartial(text \o "}")
        IN  IF all # << "invalid" >> THEN inside.at = Len(text) + 1 /\ inside.node = all /\ found.node = all
            ELSE found.ok => ParseAll(Upto(text, found.at - 1)) = found.node

(* The cost of backtracking: what is not in brackets is parsed a bounded   *)
(* number of times, and each bracket around it multiplies that number.     *)
Open(t, i, chars) == Cardinality({ j \in 1..i : In(t, j, chars) })
Nesting(t) == Max({ Open(t, i, { "(", "[" }) - Open(t, i, { ")", "]" }) : i \in 0..Len(t) })
WorkBounded ==
    origin = "expression" =>
        LET found == ParsePartial(text)
        IN  /\ found.work <= (Len(text) + 1) * 4 ^ (Nesting(text) + 1)
            /\ found.ok => found.work >= 2 ^ (Nesting(Upto(text, found.at - 1)) + 1)

(* The crate has the grammar of identifiers three times: for expressions,  *)
(* for each(..) and by(..), for the keys of $let and of the context.  What *)
(* one binds, the others can name: a bound name, read as an expression, is *)
(* that identifier, unless it is a literal; and $map and $reduce read two  *)
(* names the same way.                                                     *)
Readable(name) == ParseAll(name) = IF name = "true" THEN << "bool", TRUE >> ELSE << "ident", name >>
NamesAgree ==
    origin = "names" =>
        /\ \A names \in { ParseEach(text), ParseEachThree(text), ParseBy(text) } :
              \A i \in DOMAIN names : IsIdentifier(names[i]) /\ Readable(names[i])
        /\ IsIdentifier(text) => Readable(text)
        /\ ParseAll(text)[1] = "ident" => IsIdentifier(ParseAll(text)[2])
        /\ Counted(ParseEach(text), {2}) = Counted(ParseEachThree(text), {2})
=============================================================================
