---------------------------- MODULE MCPrimitives ----------------------------
(***************************************************************************)
(* Every call of what computes with numbers, positions and characters, for *)
(* the numbers of a small width and short strings.  A call is chosen, then *)
(* answered.                                                               *)
(***************************************************************************)
EXTENDS Numbers, Strings

CONSTANTS MaxHalves,       \* the largest finite number of the instance, in halves
          MaxLength,       \* of an array or a string
          Alphabet, MaxText, MaxSeparator   \* characters, and how many of them

ASSUME LengthAssumption == MaxHalves \in Nat /\ MaxLength \in Nat /\ MaxLength <= MaxInt
ASSUME CharacterAssumption ==
    MaxText \in Nat /\ MaxSeparator \in Nat /\ \A c \in Alphabet : Width(c) \in Nat \ {0}

VARIABLES call, answer
vars == << call, answer >>

Finites == { Finite(h) : h \in { k \in -MaxHalves..MaxHalves : Nearest(k) = k } }
Floats == Finites \cup NotFinite
Integral == { v \in Finites : Whole(v) }
Bounds == { v \in Integral : v.halves \div 2 \in {-2, -1, 0, 1, 2, 3} \/ Size(v.halves) > MaxInt }

(* A blank and a letter of one byte, a letter of two, a clef of four.      *)
MCWidth(c) == CASE c = "e'" -> 2 [] c = "clef" -> 4 [] OTHER -> 1
TextsOf(most) == UNION { [1..n -> Alphabet] : n \in 0..most }

Calls ==
    [op : {"index"}, v : Floats, len : 0..MaxLength, isText : BOOLEAN]
    \cup [op : {"slice"}, a : Floats \cup { Omitted }, b : Floats \cup { Omitted }, len : 0..MaxLength]
    \cup [op : {"range"}, start : Integral \cup NotFinite, stop : Integral \cup { Finite(3) },
          step : Bounds \cup NotFinite, checked : BOOLEAN]
    \cup [op : {"toJson"}, v : Floats]
    \cup [op : {"json"}, n : { JsonInt(n) : n \in MinInt..(2 * MaxInt + 1) } \cup { JsonFloat(v) : v \in Finites }]
    \cup [op : {"substring"}, s : TextsOf(MaxText - 1), a : (-MaxText - 1)..(MaxText + 1), b : (-MaxText - 1)..(MaxText + 1)]
    \cup [op : {"split"}, s : TextsOf(MaxText), sep : TextsOf(MaxSeparator)]

Answer(c) ==
    CASE c.op = "index" -> IndexOf(c.v, c.len, c.isText)
      [] c.op = "slice" -> SliceOf(c.a, c.b, c.len)
      [] c.op = "range" -> RangeOf(c.start, c.stop, c.step, c.checked)
      [] c.op = "toJson" -> ToJson(c.v)
      [] c.op = "json" -> ToJson(FromJson(c.n))
      [] c.op = "substring" -> SliceText(c.s, Wrap(c.a, Len(c.s)), Wrap(c.b, Len(c.s)))
      [] c.op = "split" -> Ok(Split(c.s, c.sep))
Pending == [st |-> "pending", v |-> <<>>]

Init == call \in Calls /\ answer = Pending
Reply == answer = Pending /\ answer' = Answer(call) /\ UNCHANGED call
Spec == Init /\ [][Reply]_vars

Answered(op) == call.op = op /\ answer # Pending
Value(v) == v.halves \div 2

-----------------------------------------------------------------------------
(* An index reads the position that counting from the front or from the    *)
(* back reaches, and nothing else: no rounding and no cast makes a number  *)
(* that is too large, too small or no integer point into the value.  Past  *)
(* the front, as far as i64 goes, a string has its first character.        *)
Reached(v, len, isText) ==
    { i \in 0..(len - 1) : Value(v) \in { i, i - len } \/ (isText /\ i = 0 /\ Value(v) \in MinInt..-len) }
IndexIsExact ==
    Answered("index") =>
        LET reached == Reached(call.v, call.len, call.isText)
        IN  answer = IF Whole(call.v) /\ reached # {} THEN Ok(<< CHOOSE i \in reached : TRUE >>) ELSE Err

(* A slice reads, in order, the positions from its start up to its end,    *)
(* both counted from the back when negative, whatever their size.          *)
Limit(v, default, len) ==
    IF v = Omitted THEN default ELSE IF Value(v) < 0 THEN Value(v) + len ELSE Value(v)
Inside(a, b, len) == { i \in 0..(len - 1) : Limit(a, 0, len) <= i /\ i < Limit(b, len, len) }
Ascending(list, set) ==
    /\ Len(list) = Cardinality(set)
    /\ \A k \in DOMAIN list : list[k] \in set /\ (k > 1 => list[k - 1] < list[k])
SliceIsExact ==
    Answered("slice") =>
        IF \A v \in { call.a, call.b } : v = Omitted \/ Whole(v)
        THEN \/ answer.st = "ok" /\ Ascending(answer.v, Inside(call.a, call.b, call.len))
             \/ answer.st = "err" /\ \E v \in { call.a, call.b } : v # Omitted /\ Value(v) \notin MinInt..MaxInt
        ELSE answer = Err

(* docs/src/built-ins.md: r(i) = start, start + step, ... as long as it is *)
(* before stop, for all that i64 has room for.  Counting down, a stop at   *)
(* the largest i64 or past it is not survived.                             *)
Fits(n) == MinInt <= n /\ n <= MaxInt
PastTheEnd == Value(call.step) < 0 /\ Value(call.stop) >= MaxInt
Listed(list, start, stop, step) ==
    LET before(n) == IF step > 0 THEN n < stop ELSE n > stop
        r(k) == start + (k - 1) * step
    IN  /\ \A k \in DOMAIN list : before(r(k)) /\ list[k] = ToFloat(r(k))
        /\ ~before(r(Len(list) + 1))
RangeIsDocumented ==
    /\ Answered("range")
    /\ \A v \in { call.start, call.stop, call.step } : Whole(v)
    /\ Fits(Value(call.start)) /\ Size(Value(call.step)) <= MaxInt /\ (Fits(Value(call.stop)) \/ PastTheEnd)
    => IF Value(call.step) = 0 THEN answer = Err
       ELSE IF PastTheEnd THEN call.checked => answer = Panic
       ELSE answer.st = "ok" /\ Listed(answer.v, Value(call.start), Value(call.stop), Value(call.step))

(* What is written as JSON is the number that it was, in whichever of the  *)
(* two forms.  So a JSON number is rendered unchanged if it is one of the  *)
(* numbers of the crate, and otherwise as one that is next to it.          *)
Halves(n) == IF n.kind = "int" THEN 2 * n.int ELSE n.float.halves
Between(a, b, v) == (a < v.halves /\ v.halves < b) \/ (b < v.halves /\ v.halves < a)
JsonKeepsNumbers ==
    /\ Answered("toJson") => /\ answer.st = (IF call.v \in Finites THEN "ok" ELSE "err")
                             /\ answer.st = "ok" => FromJson(answer.v) = call.v
    /\ Answered("json") => /\ answer.st = "ok"
                           /\ Finite(Halves(call.n)) \in Finites => Halves(answer.v) = Halves(call.n)
                           /\ \A v \in Finites : ~Between(Halves(call.n), Halves(answer.v), v)

(* A slice consists of the characters from the first position up to the    *)
(* second, of which negative ones count from the end: bytes never show,    *)
(* and the code's expect("invalid string slice indices") never panics.     *)
SlicesByCharacter ==
    Answered("substring") =>
        LET from == FromEnd(call.a, Len(call.s))
            to == FromEnd(call.b, Len(call.s))
            inside == { i \in DOMAIN call.s : from < i /\ i <= to }
        IN  /\ answer.st = "ok" /\ Len(answer.v) = Cardinality(inside)
            /\ \A i \in inside : answer.v[i - (CHOOSE j \in inside : \A k \in inside : j <= k) + 1] = call.s[i]

Total(parts) ==
    LET length[n \in 0..Len(parts)] == IF n = 0 THEN 0 ELSE length[n - 1] + Len(parts[n])
    IN  length[Len(parts)]

(* Splitting loses nothing but separators and empty parts: no part has a   *)
(* separator left in it, and the parts, joined, split into the same parts. *)
SplitSettles ==
    Answered("split") =>
        LET parts == answer.v
            dropped == Len(call.s) - Total(parts)
        IN  /\ Split(Join(parts, call.sep), call.sep) = (IF parts = <<>> THEN << <<>> >> ELSE parts)
            /\ IF call.sep = <<>> THEN dropped = 0 ELSE dropped % Len(call.sep) = 0
            /\ call.sep # <<>> => \A n \in DOMAIN parts : Hits(parts[n], call.sep, 1) = {}
=============================================================================
