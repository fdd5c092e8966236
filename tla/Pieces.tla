------------------------------- MODULE Pieces -------------------------------
(***************************************************************************)
(* What an interpolated string means (interpolate of rs/src/render.rs),    *)
(* read from left to right: $${ stands for ${, a ${ opens an expression    *)
(* that ends in front of }, everything else stands for itself.             *)
(***************************************************************************)
EXTENDS Syntax

Literal(s) == << "lit", s >>    \* a part that stands for itself
Expr(node) == << "expr", node >>
Unterminated == << "bad" >>     \* no expression after ${, or no } after it

(* The position of the next $ after p, or of the end. *)
NextDollar(t, p) == CHOOSE q \in (p + 1)..(Len(t) + 1) :
                        (q > Len(t) \/ At(t, q, "$")) /\ \A i \in (p + 1)..(q - 1) : ~At(t, i, "$")

RECURSIVE PiecesFrom(_, _), ExpressionFirst(_, _)
ExpressionFirst(t, inside) ==
    IF inside.ok /\ At(t, inside.at, "}") THEN << Expr(inside.node) >> \o PiecesFrom(t, inside.at + 1)
    ELSE << Unterminated >>
PiecesFrom(t, p) ==
    LET next == NextDollar(t, p)
    IN  CASE p > Len(t) -> <<>>
          [] At(t, p, "$${") -> << Literal("${") >> \o PiecesFrom(t, p + 3)
          [] At(t, p, "${") -> ExpressionFirst(t, Expression(t, p + 2))
          [] OTHER -> << Literal(SubSeq(t, p, next - 1)) >> \o PiecesFrom(t, next)
PiecesOf(t) == PiecesFrom(t, 1)
=============================================================================
