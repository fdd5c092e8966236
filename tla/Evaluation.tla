----------------------------- MODULE Evaluation -----------------------------
(***************************************************************************)
(* evaluate() of rs/src/interpreter/evaluator.rs as a recursive operator,  *)
(* and what rs/src/render.rs makes of it.                                  *)
(***************************************************************************)
EXTENDS Evaluator

RECURSIVE Eval(_, _)
Eval(node, ctx) == Meaning(node, ctx, LAMBDA n : Eval(n, ctx))

EvaluateText(s, ctx) == Eval(Parse(s), ctx)

(* interpolate(), for the pieces that the module Pieces cuts a string into: *)
(* literal parts, expressions, and an expression that does not end.        *)
Shown(v) == IF Kind(v) = "null" THEN "" ELSE Stringify(v)
InterpolatePieces(pieces, ctx) ==
    LET outcome(p) ==
            CASE p[1] = "lit" -> Ok(Text(p[2]))
              [] p[1] = "bad" -> Err
              [] OTHER -> Then(<< Eval(p[2], ctx) >>, LAMBDA vs : IF Kind(vs[1]) \in Scalars THEN Ok(vs[1]) ELSE Err)
    IN  Then([i \in DOMAIN pieces |-> outcome(pieces[i])],
             LAMBDA vs : Ok(Text(Spell([i \in DOMAIN vs |-> Shown(vs[i])]))))
=============================================================================
