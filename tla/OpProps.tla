------------------------------ MODULE OpProps ------------------------------
(***************************************************************************)
(* The names inside the properties that bind names, each(..) and by(..),   *)
(* as rs/src/op_props.rs parses them, and the test for an identifier of    *)
(* rs/src/render.rs.  Unlike expressions, they allow blanks only in front  *)
(* of a name.                                                              *)
(***************************************************************************)
EXTENDS Syntax

(* Altered: a name may start with a digit. *)
IdentOfWordChars(t, p) ==
    LET q == Skip(t, p)
        end == Run(t, q, WordChars)
    IN  IF end > q THEN Yes(SubSeq(t, q, end - 1), end, 0) ELSE No(0)

Ident(t, p) ==
    LET q == Skip(t, p)
        end == EndOfWord(t, q)
    IN  IF end > q THEN Yes(SubSeq(t, q, end - 1), end, 0) ELSE No(0)

(* Further names, each behind a comma, and the end of the property.        *)
RECURSIVE More(_, _, _)
More(t, p, names) ==
    LET name == Then(Token(t, p, ","), LAMBDA c : Ident(t, c.at))
    IN  IF name.ok THEN More(t, name.at, Append(names, name.node))
        ELSE IF At(t, p, ")") /\ p = Len(t) THEN names ELSE <<>>
Names(t, opening) ==
    LET first == Then(Token(t, 1, opening), LAMBDA o : Ident(t, o.at))
    IN  IF first.ok THEN More(t, first.at, << first.node >>) ELSE <<>>

Counted(names, counts) == IF Len(names) \in counts THEN names ELSE <<>>
ParseEach(t)      == Counted(Names(t, "each("), {1, 2})
ParseEachThree(t) == Counted(Names(t, "each("), {2, 3})
ParseBy(t)        == Counted(Names(t, "by("), {1})

IsIdentifier(t) == Len(t) > 0 /\ EndOfWord(t, 1) = Len(t) + 1
=============================================================================
