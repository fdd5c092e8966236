------------------------------- MODULE Syntax -------------------------------
(***************************************************************************)
(* The grammar of expressions as rs/src/interpreter/parser.rs parses it:   *)
(* a parsing expression grammar, ordered choice with backtracking, and no  *)
(* memory of what was parsed before.                                       *)
(*                                                                         *)
(* A parser takes a text and a position and gives a Result: whether it     *)
(* succeeded, the node, the position after it, and the work it took: how   *)
(* often value() was entered, on alternatives that were given up as well.  *)
(***************************************************************************)
EXTENDS Texts

CONSTANTS Letters, Digits, Blanks   \* sets of characters: strings of length 1

Skip(t, p) == Run(t, p, Blanks)                 \* multispace0
WordChars == Letters \cup Digits \cup {"_"}
EndOfWord(t, p) == IF In(t, p, Letters \cup {"_"}) THEN Run(t, p, WordChars) ELSE p

Yes(node, at, work) == [ok |-> TRUE, node |-> node, at |-> at, work |-> work]
No(work) == [ok |-> FALSE, node |-> <<"invalid">>, at |-> 0, work |-> work]
Costs(work, r) == [r EXCEPT !.work = @ + work]

(* r, and then what F parses behind it; the first of two that succeeds.    *)
Then(r, F(_)) == IF r.ok THEN Costs(r.work, F(r)) ELSE r
Else(r, s) == IF r.ok THEN r ELSE Costs(r.work, s)
(* r, or, when more of it was parsed, what F makes of that. *)
Repeat(r, more, F(_)) == IF more.ok THEN F(Costs(r.work, more)) ELSE Costs(more.work, r)
Token(t, p, s) == IF At(t, p, s) THEN Yes(s, p + Len(s), 0) ELSE No(0)

(* What a parser has found, with the blanks around it: ws(..). *)
Found(t, from, to) == IF to > from THEN Yes(SubSeq(t, from, to - 1), Skip(t, to), 0) ELSE No(0)

-----------------------------------------------------------------------------
(* Atoms. *)

As(r, Node(_)) == IF r.ok THEN [r EXCEPT !.node = Node(@)] ELSE r

Fraction(t, p) == IF At(t, p, ".") THEN Run(t, p + 1, Digits) ELSE p
WithFraction(whole, all) == IF all > whole + 1 THEN all ELSE whole
EndOfNumber(t, whole) == WithFraction(whole, Fraction(t, whole))
NumberAt(t, q) == As(Found(t, q, EndOfNumber(t, Run(t, q, Digits))), LAMBDA s : << "num", s >>)
Number(t, p) == NumberAt(t, Skip(t, p))

WordAt(t, q) == Found(t, q, EndOfWord(t, q))
Word(t, p) == WordAt(t, Skip(t, p))             \* ident_str

UptoQuote(t, q, ends) ==
    LET end == CHOOSE e \in ends : \A f \in ends : e <= f
    IN  IF ends = {} THEN No(0) ELSE Yes(SubSeq(t, q + 1, end - 1), Skip(t, end + 1), 0)
QuotedAt(t, q) ==
    IF In(t, q, {"'", "\""}) THEN UptoQuote(t, q, { e \in (q + 1)..Len(t) : At(t, e, SubSeq(t, q, q)) }) ELSE No(0)
Quoted(t, p) == QuotedAt(t, Skip(t, p))         \* string_str

(* A literal is a whole word, so "falsey" is an identifier. *)
Named(w) == CASE w = "true" -> << "bool", TRUE >> [] w = "false" -> << "bool", FALSE >>
              [] w = "null" -> << "null" >> [] OTHER -> << "ident", w >>
Atom(t, p) == Else(Number(t, p), Else(As(Word(t, p), Named), As(Quoted(t, p), LAMBDA s : << "str", s >>)))

-----------------------------------------------------------------------------
(* Operators, from those that bind least.  Those that are prefixes of      *)
(* other tokens look ahead.                                                *)

Levels == << {"||"}, {"&&"}, {"in"}, {"==", "!="}, {"<=", ">=", "<", ">"}, {"+", "-"}, {"*", "/"} >>
(* Altered: no looking ahead, so the < of <= and the * of ** are taken.    *)
NotLookingAhead(o) == {}

NotBefore(o) == CASE o = "in" -> WordChars [] o \in {"<", ">", "!"} -> {"="} [] o = "*" -> {"*"} [] OTHER -> {}
OperatorAt(t, p, o) == At(t, p, o) /\ ~In(t, p + Len(o), NotBefore(o))

(* The first operator of a set, of which at most one can be there. *)
OneOf(t, p, os) ==
    LET here == { o \in os : OperatorAt(t, p, o) }
        op == CHOOSE o \in here : TRUE
    IN  IF here = {} THEN No(0) ELSE Yes(op, p + Len(op), 0)

RECURSIVE Expression(_, _), Level(_, _, _), Chain(_, _, _), Exp(_, _), Unary(_, _), Postfix(_, _), Value(_, _),
          Member(_, _), List(_, _, _)

Expression(t, p) == Else(Level(t, p, 1), Value(t, p))

(* Altered: an operand that no operator follows is parsed twice at each    *)
(* level, as exp_expr does for **.                                         *)
LevelTwice(t, p, l) ==
    IF l > Len(Levels) THEN Exp(t, p)
    ELSE Then(Costs(Level(t, p, l + 1).work, Level(t, p, l + 1)), LAMBDA r : Chain(t, [r EXCEPT !.work = 0], l))

(* binop!: operators of one level, from left to right. *)
Level(t, p, l) ==
    IF l > Len(Levels) THEN Exp(t, p) ELSE Then(Level(t, p, l + 1), LAMBDA r : Chain(t, [r EXCEPT !.work = 0], l))
Chain(t, r, l) ==
    Repeat(r, Then(OneOf(t, r.at, Levels[l]), LAMBDA o :
                  As(Level(t, o.at, l + 1), LAMBDA n : << "op", r.node, o.node, n >>)),
           LAMBDA s : Chain(t, s, l))

Unary(t, p) ==
    Else(Then(OneOf(t, Skip(t, p), {"!", "-", "+"}), LAMBDA o :
             As(Value(t, o.at), LAMBDA n : << "un", o.node, n >>)),
         Value(t, p))

(* Right-associative.  Without ** the left operand is parsed twice.        *)
Raised(t, operand) ==
    Else(Then(operand, LAMBDA l :
             Then(Token(t, l.at, "**"), LAMBDA o :
                 As(Exp(t, o.at), LAMBDA n : << "op", l.node, "**", n >>))),
         operand)
Exp(t, p) == Raised(t, Then(Unary(t, p), LAMBDA r : Postfix(t, [r EXCEPT !.work = 0])))

(* Expressions or, in an object, key: expression, separated by commas.     *)
Member(t, p) ==
    Then(Else(Quoted(t, p), Word(t, p)), LAMBDA k :
        Then(Token(t, k.at, ":"), LAMBDA c : As(Expression(t, c.at), LAMBDA n : << k.node, n >>)))
Comma(t, p) == Then(Token(t, Skip(t, p), ","), LAMBDA c : Yes(",", Skip(t, c.at), 0))
List(t, r, keyed) ==
    Repeat(r, Then(IF r.node = <<>> THEN Yes("", r.at, 0) ELSE Comma(t, r.at), LAMBDA c :
                  As(IF keyed THEN Member(t, c.at) ELSE Expression(t, c.at), LAMBDA n : Append(r.node, n))),
           LAMBDA s : List(t, s, keyed))
Expressions(t, p) == List(t, Yes(<<>>, p, 0), FALSE)
Members(t, p) == List(t, Yes(<<>>, p, 0), TRUE)

Enclosed(t, r, close, Node(_)) ==
    Then(r, LAMBDA n : As(Then(Token(t, n.at, close), LAMBDA c : Yes(n.node, Skip(t, c.at), 0)), Node))
Same(n) == n

(* Index, slice, property and call, from left to right.  A slice is only   *)
(* looked for when [..] was no index, and its start is then parsed again.  *)
Limit(r, p) == IF r.ok THEN r ELSE Yes(<< "absent" >>, p, r.work)
InBrackets(t, n, p, first) ==
    Else(Enclosed(t, first, "]", LAMBDA i : << "index", n, i >>),
         Then(Limit(first, p), LAMBDA a :
             Then(Token(t, a.at, ":"), LAMBDA c :
                 Enclosed(t, Limit(Expression(t, c.at), c.at), "]", LAMBDA b : << "slice", n, a.node, b >>))))
Suffix(t, n, q) ==
    CASE At(t, q, "[") -> InBrackets(t, n, q + 1, Expression(t, q + 1))
      [] At(t, q, ".") -> As(Word(t, q + 1), LAMBDA w : << "dot", n, w >>)
      [] At(t, q, "(") -> Enclosed(t, Expressions(t, q + 1), ")", LAMBDA args : << "func", n, args >>)
      [] OTHER -> No(0)
Postfix(t, r) == Repeat(r, Suffix(t, r.node, Skip(t, r.at)), LAMBDA s : Postfix(t, s))

Value(t, p) ==
    LET q == Skip(t, p)
    IN  Costs(1, Else(Atom(t, p),
            CASE At(t, q, "(") -> Enclosed(t, Expression(t, q + 1), ")", Same)
              [] At(t, q, "[") -> Enclosed(t, Expressions(t, q + 1), "]", LAMBDA ns : << "array", ns >>)
              [] At(t, q, "{") -> Enclosed(t, Members(t, q + 1), "}", LAMBDA ms : << "object", ms >>)
              [] OTHER -> No(0)))

-----------------------------------------------------------------------------
(* parse_partial leaves the rest of the text, parse_all must use all of it. *)
ParsePartial(t) == Expression(t, 1)
(* Altered: whatever is left of the text is ignored. *)
ParseFront(t) == IF ParsePartial(t).ok THEN ParsePartial(t).node ELSE << "invalid" >>

Whole(t, r) == IF r.ok /\ r.at = Len(t) + 1 THEN r.node ELSE << "invalid" >>
ParseAll(t) == Whole(t, Expression(t, 1))
=============================================================================
