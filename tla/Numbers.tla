------------------------------ MODULE Numbers ------------------------------
(***************************************************************************)
(* Where the numbers of an expression, f64, meet integers: indices and     *)
(* slices (evaluator.rs), range (builtins.rs) and JSON (value.rs).         *)
(*                                                                         *)
(* A number is finite, counted in halves so that fractions exist, or not   *)
(* finite.  Finite numbers are a mantissa below MaxMantissa + 1 times one  *)
(* of the powers of two, so large integers are rounded.                    *)
(***************************************************************************)
EXTENDS Positions, Sequences

CONSTANTS
    MaxMantissa,   \* 2^53 - 1
    Ulps,          \* 1, 2, 4, ..: the distances between neighbouring numbers
    MaxInt,        \* i64::MAX
    MaxShort,      \* u32::MAX
    MaxSize        \* usize::MAX

MinInt == -MaxInt - 1

Finite(h) == [kind |-> "finite", halves |-> h]
Special(kind) == [kind |-> kind, halves |-> 0]
NotFinite == { Special(kind) : kind \in { "nan", "inf", "-inf" } }
Whole(v) == v.kind = "finite" /\ v.halves % 2 = 0        \* fract() == 0.0

(* n as f64: the nearest number, and of two the one with an even mantissa. *)
Size(h) == IF h < 0 THEN -h ELSE h
Exponents(h) == { u \in Ulps : Size(h) < u * (MaxMantissa + 1) }
Spacing(h) == CHOOSE u \in Exponents(h) : \A w \in Exponents(h) : u <= w
Nearest(h) ==
    LET u == Spacing(h)
        low == (h \div u) * u
        up == 2 * (h - low) > u \/ (2 * (h - low) = u /\ (low \div u) % 2 = 1)
    IN  IF up THEN low + u ELSE low
ToFloat(n) == Finite(Nearest(2 * n))

(* v as i64: towards zero, to the nearest limit, NaN to 0. *)
Clamped(n) == IF n > MaxInt THEN MaxInt ELSE IF n < MinInt THEN MinInt ELSE n
AsInt(v) ==
    CASE v.kind = "finite" -> Clamped(IF v.halves < 0 THEN -(-v.halves \div 2) ELSE v.halves \div 2)
      [] v.kind = "inf" -> MaxInt
      [] v.kind = "-inf" -> MinInt
      [] OTHER -> 0
AsSize(n) == n % (MaxSize + 1)                          \* n as usize

(* Altered: fractions are rounded towards zero. *)
IsFinite(v) == v.kind = "finite"

(* number_to_i64: numbers that survive the way to i64 and back.            *)
IsInteger(v) == ToFloat(AsInt(v)) = v

(* Mantissas are of a whole number of bits; each Ulp is twice the one      *)
(* before it, and one is large enough to count any integer in; there are   *)
(* as many sizes as integers; the smallest integer is a number.            *)
ASSUME WidthsAssumption ==
    /\ { MaxMantissa, MaxInt, MaxShort, MaxSize } \subseteq Nat /\ MaxSize = 2 * MaxInt + 1
    /\ MaxMantissa % 2 = 1
    /\ Ulps \subseteq Nat /\ 1 \in Ulps /\ \A u \in Ulps \ {1} : u > 1 /\ u % 2 = 0
    /\ \A u \in Ulps \ {1} : u \div 2 \in Ulps /\ \A w \in Ulps : w < u => 2 * w <= u
    /\ \E u \in Ulps : 4 * MaxInt + 4 < u * (MaxMantissa + 1)
    /\ Nearest(2 * MinInt) = 2 * MinInt

Ok(v) == [st |-> "ok", v |-> v]
Err == [st |-> "err", v |-> <<>>]
Panic == [st |-> "panic", v |-> <<>>]

-----------------------------------------------------------------------------
(* v[i], v[a:b] for a value of a length: the positions that are read.      *)

IndexOf(v, len, isText) ==
    LET i == AsInt(v)
        j == AsSize(IF isText THEN StringIndex(i, len) ELSE FromEnd(i, len))
    IN  IF IsInteger(v) /\ j < len THEN Ok(<< j >>) ELSE Err

Omitted == Special("omitted")
SliceOf(a, b, len) ==
    LET from == IF a = Omitted THEN 0 ELSE Wrap(AsInt(a), len)
        to == IF b = Omitted THEN len ELSE Wrap(AsInt(b), len)
    IN  IF \E v \in { a, b } \ { Omitted } : ~IsInteger(v) THEN Err
        ELSE Ok([k \in 1..(to - from) |-> from + k - 1])

-----------------------------------------------------------------------------
(* range(start, stop, step).  Going down, the code counts from start to    *)
(* stop + 1.  checked: the crate is built with overflow checks.            *)

Up(start, stop, step) == [k \in 1..((stop - start + step - 1) \div step) |-> ToFloat(start + (k - 1) * step)]
(* Altered: `last` itself is left out. *)
DownBefore(start, last, step) == [k \in 1..((start - last) \div step) |-> ToFloat(start - (k - 1) * step)]

Down(start, last, step) == [k \in 1..((start - last + step) \div step) |-> ToFloat(start - (k - 1) * step)]

RangeOf(from, to, by, checked) ==
    LET start == AsInt(from)
        stop == AsInt(to)
        step == AsInt(by)
    IN  CASE \E v \in { from, to, by } : ~Whole(v) -> Err
          [] step > 0 -> IF step > MaxSize THEN Err ELSE Ok(Up(start, stop, step))
          [] step < 0 -> IF step = MinInt THEN (IF checked THEN Panic ELSE Err)
                         ELSE IF -step > MaxSize THEN Err
                         ELSE IF stop = MaxInt THEN (IF checked THEN Panic ELSE Ok(Down(start, MinInt, -step)))
                         ELSE Ok(Down(start, stop + 1, -step))
          [] OTHER -> Err

-----------------------------------------------------------------------------
(* serde_json numbers: an integer of i64 or u64, or a float.               *)

JsonInt(n) == [kind |-> "int", int |-> n]
JsonFloat(v) == [kind |-> "float", float |-> v]
FromJson(n) == IF n.kind = "int" THEN ToFloat(n.int) ELSE n.float       \* as_f64

(* Altered: a small number becomes an integer, whatever its fraction. *)
ToJsonRounded(v) ==
    CASE v.kind = "finite" /\ v.halves \in (1 - 2 * MaxShort)..(2 * MaxShort - 1) -> Ok(JsonInt(v.halves \div 2))
      [] v \in NotFinite -> Err
      [] OTHER -> Ok(JsonFloat(v))

(* f64_to_serde_number *)
ToJson(v) ==
    CASE Whole(v) /\ v.halves \in (1 - 2 * MaxShort)..(2 * MaxShort - 1) -> Ok(JsonInt(v.halves \div 2))
      [] v \in NotFinite -> Err
      [] OTHER -> Ok(JsonFloat(v))
=============================================================================
