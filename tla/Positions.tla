----------------------------- MODULE Positions -----------------------------
(***************************************************************************)
(* Positions in an array or a string, as index and slice of                *)
(* rs/src/interpreter/evaluator.rs compute them.  A negative index counts  *)
(* from the end; past the front an array has nothing there, a string its   *)
(* first character.                                                        *)
(***************************************************************************)
EXTENDS Integers

FromEnd(i, len) == IF i < 0 THEN i + len ELSE i
StringIndex(i, len) == IF FromEnd(i, len) < 0 THEN 0 ELSE FromEnd(i, len)

(* Altered: not limited at the end. *)
WrapAtFront(x, len) == StringIndex(x, len)

(* wrap(): an index of a slice, brought into 0..len. *)
Wrap(x, len) ==
    LET y == FromEnd(x, len)
    IN  IF y < 0 THEN 0 ELSE IF y > len THEN len ELSE y
=============================================================================
