------------------------------ MODULE ExprOps ------------------------------
(***************************************************************************)
(* The operators of the expression language on values that are already     *)
(* computed: un, op, index, slice and dot of                               *)
(* rs/src/interpreter/evaluator.rs.  Division and powers are taken where   *)
(* the result is an integer.                                               *)
(***************************************************************************)
EXTENDS Values, Positions

CONSTANTS
    Chars,     \* a string's characters: string -> sequence of strings
    Spell(_)   \* strings put together, as characters are

ASSUME CharsAssumption == \A s \in Str : Len(Chars[s]) \in Nat

StringOf(v) == Root(v)[2]
Numeric(v) == Kind(v) \in {"num", "nan"}
IsText(v) == Kind(v) = "str"
Glue(s, t) == Spell(Chars[s] \o Chars[t])

Un(o, v) ==
    CASE o = "!" -> Ok(Bool(~Truthy(v)))
      [] o # "!" /\ v = NaN -> Ok(v)
      [] o = "-" /\ Kind(v) = "num" -> Ok(Num(-Root(v)[2]))
      [] o = "+" /\ Kind(v) = "num" -> Ok(v)
      [] OTHER -> Err

(* NaN absorbs everything but 1 ** NaN and NaN ** 0; x / 0 is an error     *)
(* unless x is 0 or NaN.                                                   *)
Power(a, b) == IF b = 0 \/ a = 1 THEN 1 ELSE a ^ b
Arithmetic(o, l, r) ==
    LET a == Root(l)[2]
        b == Root(r)[2]
    IN  CASE o = "**" /\ (l = Num(1) \/ r = Num(0)) -> Ok(Num(1))
          [] o = "/" /\ r = Num(0) /\ l \notin { Num(0), NaN } -> Err
          [] l = NaN \/ r = NaN \/ (o = "/" /\ r = Num(0)) -> Ok(NaN)
          [] o = "**" -> Ok(Num(Power(a, b)))
          [] o = "*"  -> Ok(Num(a * b))
          [] o = "/"  -> Ok(Num(a \div b))
          [] o = "+"  -> Ok(Num(a + b))
          [] o = "-"  -> Ok(Num(a - b))

(* Comparisons with NaN are false, whichever way round.                    *)
LessThan(l, r) ==
    IF IsText(l) THEN KeyRank[StringOf(l)] < KeyRank[StringOf(r)]
    ELSE l # NaN /\ r # NaN /\ Root(l)[2] < Root(r)[2]

(* The derived PartialEq: NaN makes any value that holds it differ from    *)
(* itself.                                                                 *)
Equal(l, r) == l = r /\ \A n \in l : n[2] # <<"nan">>

Substring(s, t) ==
    \E i \in 0..(Len(Chars[t]) - Len(Chars[s])) :
        SubSeq(Chars[t], i + 1, i + Len(Chars[s])) = Chars[s]

In(l, r) ==
    CASE IsText(l) /\ IsText(r) -> Ok(Bool(Substring(StringOf(l), StringOf(r))))
      [] Kind(r) = "arr" -> Ok(Bool(\E e \in Steps(r) : Equal(l, Child(r, e))))
      [] IsText(l) /\ Kind(r) = "obj" -> Ok(Bool(Has(r, StringOf(l))))
      [] OTHER -> Err

Comparable(l, r) == (IsText(l) /\ IsText(r)) \/ (Numeric(l) /\ Numeric(r))

(* A binary operator whose right operand has been evaluated too.           *)
Binary(o, l, r) ==
    CASE o = "+" /\ IsText(l) /\ IsText(r) -> Ok(Text(Glue(StringOf(l), StringOf(r))))
      [] o \in {"**", "*", "/", "+", "-"} /\ Numeric(l) /\ Numeric(r) -> Arithmetic(o, l, r)
      [] o = "<"  /\ Comparable(l, r) -> Ok(Bool(LessThan(l, r)))
      [] o = ">"  /\ Comparable(l, r) -> Ok(Bool(LessThan(r, l)))
      [] o = "<=" /\ Comparable(l, r) -> Ok(Bool(LessThan(l, r) \/ Equal(l, r)))
      [] o = ">=" /\ Comparable(l, r) -> Ok(Bool(LessThan(r, l) \/ Equal(l, r)))
      [] o = "==" -> Ok(Bool(Equal(l, r)))
      [] o = "!=" -> Ok(Bool(~Equal(l, r)))
      [] o = "in" -> In(l, r)
      [] o \in {"&&", "||"} -> Ok(Bool(Truthy(r)))
      [] OTHER -> Err

(* What the left operand of && and || settles by itself. *)
ShortCircuits(o, l) == (o = "||" /\ Truthy(l)) \/ (o = "&&" /\ ~Truthy(l))

-----------------------------------------------------------------------------
(* Indexing and slicing. *)

Index(v, i) ==
    LET n == Root(i)[2]
    IN  CASE Kind(v) = "arr" /\ Kind(i) = "num" ->
                 LET j == FromEnd(n, Length(v))
                 IN  IF Elem(j) \in Steps(v) THEN Ok(Child(v, Elem(j))) ELSE Err
          [] IsText(v) /\ Kind(i) = "num" ->
                 LET c == Chars[StringOf(v)]
                     j == StringIndex(n, Len(c))
                 IN  IF j < Len(c) THEN Ok(Text(c[j + 1])) ELSE Err
          [] Kind(v) = "obj" /\ IsText(i) -> Ok(IF Has(v, n) THEN Field(v, n) ELSE Null)
          [] OTHER -> Err

(* v.drain(a..b) *)
Cut(v, a, b) ==
    { << << Elem(Head(n[1])[2] - a) >> \o Tail(n[1]), n[2] >> :
          n \in { m \in v : m[1] # <<>> /\ Head(m[1])[2] \in a..(b - 1) } }
Slice(v, a, b) ==
    IF IsText(v) THEN Text(Spell(SubSeq(Chars[StringOf(v)], a + 1, b)))
    ELSE NoElems \cup Cut(v, a, b)

Dot(v, p) == IF Kind(v) = "obj" /\ Has(v, p) THEN Ok(Field(v, p)) ELSE Err
=============================================================================
