-------------------------- MODULE PrimitiveProofs ---------------------------
(***************************************************************************)
(* Indices, slices, ranges and JSON are exact for every width of mantissa  *)
(* and integers, every set of numbers and every length; substrings and the *)
(* parts of a split are so for every alphabet, every way of writing its    *)
(* characters as bytes and every length of a text.                         *)
(***************************************************************************)
EXTENDS MCPrimitives, FiniteSetTheorems, SequenceTheorems, WellFoundedInduction, TLAPS

(* What has been answered is the answer of the call. *)
Replied == call \in Calls /\ (answer = Pending \/ answer = Answer(call))

LEMMA RepliedInvariant == Spec => []Replied
<1>1. Init => Replied
    BY DEF Init, Replied
<1>2. Replied /\ [Reply]_vars => Replied'
    BY DEF Replied, Reply, vars
<1> QED BY <1>1, <1>2, PTL DEF Spec

-----------------------------------------------------------------------------
(* Rounding. *)

LEMMA Widths ==
    /\ MaxMantissa \in Nat /\ MaxInt \in Nat /\ MaxShort \in Nat /\ MaxSize \in Nat
    /\ MinInt \in Int /\ MinInt = -MaxInt - 1 /\ MaxSize = 2 * MaxInt + 1
BY WidthsAssumption DEF MinInt

LEMMA LeastUlp ==
    ASSUME NEW S \in SUBSET Nat, S # {}
    PROVE  \E u \in S : \A w \in S : u <= w
<1>1. PICK u \in S : \A w \in S : << w, u >> \notin OpToRel(<, Nat)
    BY WFMin, NatLessThanWellFounded
<1>2. \A w \in S : ~(w < u)
    BY <1>1 DEF OpToRel
<1> QED BY <1>2

LEMMA SpacingIsUlp ==
    ASSUME NEW h \in Int, Size(h) <= 4 * MaxInt + 4
    PROVE  Spacing(h) \in Ulps
<1>1. Exponents(h) # {}
    <2>1. PICK u \in Ulps : 4 * MaxInt + 4 < u * (MaxMantissa + 1)
        BY WidthsAssumption
    <2>2. u * (MaxMantissa + 1) \in Int /\ Size(h) \in Int
        BY Widths, WidthsAssumption DEF Size
    <2>3. Size(h) < u * (MaxMantissa + 1)
        BY <2>1, <2>2, Widths
    <2> QED BY <2>3 DEF Exponents
<1>2. Exponents(h) \in SUBSET Nat
    BY WidthsAssumption DEF Exponents
<1>3. \E u \in Exponents(h) : \A w \in Exponents(h) : u <= w
    BY <1>1, <1>2, LeastUlp
<1> QED BY <1>3 DEF Spacing, Exponents

(* An integer is rounded to an integer. *)
LEMMA NearestWhole ==
    ASSUME NEW n \in Int, -2 * MaxInt - 2 <= n, n <= 2 * MaxInt + 2
    PROVE  Nearest(2 * n) \in Int /\ Nearest(2 * n) % 2 = 0
<1> DEFINE u == Spacing(2 * n)
           q == (2 * n) \div u
           low == q * u
<1>1. u \in Ulps
    BY SpacingIsUlp, Widths DEF Size
<1>2. u \in Nat /\ u >= 1 /\ (u = 1 \/ u % 2 = 0)
    <2> HIDE DEF u
    <2>1. u = 1 \/ (u > 1 /\ u % 2 = 0)
        BY <1>1, WidthsAssumption
    <2> QED BY <1>1, <2>1, WidthsAssumption
<1>3. q \in Int
    <2> HIDE DEF u
    <2> QED BY <1>2
<1>4. Nearest(2 * n) = IF 2 * (2 * n - low) > u \/ (2 * (2 * n - low) = u /\ (low \div u) % 2 = 1) THEN low + u ELSE low
    BY DEF Nearest
<1> HIDE DEF u, q
<1>5. CASE u = 1
    <2>1. low = 2 * n
        BY <1>5, <1>3 DEF q
    <2>2. Nearest(2 * n) = 2 * n
        <3> HIDE DEF low
        <3> QED BY <1>4, <1>5, <2>1
    <2> QED BY <2>2
<1>6. CASE u % 2 = 0
    <2>1. PICK k \in Nat : u = 2 * k
        BY <1>2, <1>6
    <2>2. q * k \in Int /\ low = 2 * (q * k)
        BY <2>1, <1>3
    <2>3. low \in Int /\ low % 2 = 0 /\ (low + u) % 2 = 0
        <3> DEFINE m == q * k
        <3> HIDE DEF low, m
        <3> QED BY <2>1, <2>2 DEF m
    <2> HIDE DEF low
    <2> QED BY <1>4, <2>3, <1>2
<1> QED BY <1>2, <1>5, <1>6

-----------------------------------------------------------------------------
(* What number_to_i64 accepts. *)

LEMMA FloatType ==
    ASSUME NEW v \in Floats
    PROVE  \/ v.kind = "finite" /\ v.halves \in Int /\ v = Finite(v.halves) /\ Nearest(v.halves) = v.halves
           \/ v.kind \in { "nan", "inf", "-inf" }
<1>1. CASE v \in Finites
    BY <1>1, LengthAssumption DEF Finites, Finite
<1>2. CASE v \in NotFinite
    BY <1>2 DEF NotFinite, Special
<1> QED BY <1>1, <1>2 DEF Floats

LEMMA AsIntType ==
    ASSUME NEW v \in Floats
    PROVE  AsInt(v) \in Int /\ MinInt <= AsInt(v) /\ AsInt(v) <= MaxInt
<1>1. \A n \in Int : Clamped(n) \in Int /\ MinInt <= Clamped(n) /\ Clamped(n) <= MaxInt
    BY Widths DEF Clamped
<1>2. CASE v.kind = "finite"
    <2>1. v.halves \in Int
        BY <1>2, FloatType
    <2> QED BY <1>1, <1>2, <2>1 DEF AsInt
<1>3. CASE v.kind \in { "nan", "inf", "-inf" }
    BY <1>3, Widths DEF AsInt
<1> QED BY <1>2, <1>3, FloatType

(* A whole number within i64 is the integer that it is. *)
LEMMA AsIntExact ==
    ASSUME NEW v \in Floats, Whole(v)
    PROVE  Value(v) \in Int /\ v = Finite(2 * Value(v)) /\ AsInt(v) = Clamped(Value(v))
<1>1. v.kind = "finite" /\ v.halves \in Int /\ v = Finite(v.halves) /\ v.halves % 2 = 0
    BY FloatType DEF Whole
<1>2. Value(v) \in Int /\ v.halves = 2 * Value(v)
    BY <1>1 DEF Value
<1>3. (IF v.halves < 0 THEN -(-v.halves \div 2) ELSE v.halves \div 2) = Value(v)
    BY <1>2
<1> QED BY <1>1, <1>2, <1>3 DEF AsInt

(* number_to_i64 accepts whole numbers only, and every one within i64. *)
LEMMA IntegersAreWhole ==
    ASSUME NEW v \in Floats, IsInteger(v)
    PROVE  Whole(v)
<1>1. AsInt(v) \in Int /\ -2 * MaxInt - 2 <= AsInt(v) /\ AsInt(v) <= 2 * MaxInt + 2
    BY AsIntType, Widths
<1>2. v = Finite(Nearest(2 * AsInt(v))) /\ Nearest(2 * AsInt(v)) % 2 = 0
    BY <1>1, NearestWhole DEF IsInteger, ToFloat
<1> QED BY <1>2 DEF Whole, Finite

LEMMA WholeAreIntegers ==
    ASSUME NEW v \in Floats, Whole(v), Fits(Value(v))
    PROVE  IsInteger(v) /\ AsInt(v) = Value(v)
<1>1. AsInt(v) = Value(v)
    BY AsIntExact, Widths DEF Clamped, Fits
<1>2. v.halves = 2 * Value(v) /\ Nearest(v.halves) = v.halves
    BY AsIntExact, FloatType DEF Finite, Whole
<1> QED BY <1>1, <1>2, AsIntExact DEF IsInteger, ToFloat

-----------------------------------------------------------------------------
(* Positions. *)

(* The code's way of counting an index from the end. *)
LEMMA SizeOfIndex ==
    ASSUME NEW n \in Int, -2 * MaxInt - 2 < n, n <= MaxInt
    PROVE  AsSize(n) = IF n < 0 THEN n + 2 * MaxInt + 2 ELSE n
BY Widths DEF AsSize

(* wrap(), as a limit of the positions of a value, is what FromEnd is. *)
LEMMA WrapLimits ==
    ASSUME NEW x \in Int, NEW len \in Nat
    PROVE  /\ Wrap(x, len) \in 0..len
           /\ \A i \in 0..(len - 1) : (Wrap(x, len) <= i) = (FromEnd(x, len) <= i)
BY DEF Wrap, FromEnd

(* A list of integers as long as its domain says. *)
LEMMA ListLength ==
    ASSUME NEW n \in Int, NEW S, NEW s \in [1..n -> S]
    PROVE  Len(s) = (IF n < 0 THEN 0 ELSE n) /\ DOMAIN s = 1..n
<1>1. CASE n < 0
    <2>1. 1..n = {}
        BY <1>1
    <2>2. s = <<>>
        BY <2>1
    <2> QED BY <1>1, <2>1, <2>2
<1>2. CASE n >= 0
    <2>1. n \in Nat /\ s \in Seq(S)
        BY <1>2, SeqDef
    <2>2. Len(s) \in Nat /\ DOMAIN s = 1..Len(s) /\ DOMAIN s = 1..n
        BY <2>1, LenProperties
    <2>3. 1..Len(s) = 1..n
        BY <2>2
    <2>4. ~(Len(s) < n) /\ ~(n < Len(s))
        <3>1. \A k \in Int : (1 <= k /\ k <= Len(s)) = (1 <= k /\ k <= n)
            BY <2>1, <2>2, <2>3
        <3> QED BY <3>1, <2>1, <2>2
    <2> QED BY <1>2, <2>1, <2>2, <2>4
<1> QED BY <1>1, <1>2

(* Consecutive integers from a up to b. *)
LEMMA Consecutive ==
    ASSUME NEW a \in Int, NEW b \in Int,
           NEW s, s = [k \in 1..(b - a) |-> a + k - 1],
           NEW inside, inside = { i \in Int : a <= i /\ i < b }
    PROVE  /\ Len(s) = Cardinality(inside)
           /\ \A k \in DOMAIN s : s[k] \in inside /\ (k > 1 => s[k - 1] < s[k])
<1>1. inside = a..(b - 1)
    OBVIOUS
<1>2. Cardinality(a..(b - 1)) = IF a > b - 1 THEN 0 ELSE b - a
    <2>1. b - 1 \in Int /\ b - 1 - a + 1 = b - a
        OBVIOUS
    <2> QED BY <2>1, FS_Interval
<1>3. b - a \in Int /\ s \in [1..(b - a) -> Int]
    OBVIOUS
<1>4. Len(s) = (IF b - a < 0 THEN 0 ELSE b - a) /\ DOMAIN s = 1..(b - a)
    BY <1>3, ListLength
<1>5. Len(s) = Cardinality(inside)
    <2>1. Cardinality(inside) = IF a > b - 1 THEN 0 ELSE b - a
        BY <1>1, <1>2
    <2>2. CASE b - a < 0
        <3>1. a > b - 1
            BY <2>2
        <3> QED BY <2>1, <2>2, <3>1, <1>4
    <2>3. CASE b - a = 0
        <3>1. a > b - 1 /\ ~(b - a < 0)
            BY <2>3
        <3> QED BY <2>1, <2>3, <3>1, <1>4
    <2>4. CASE b - a > 0
        <3>1. ~(a > b - 1) /\ ~(b - a < 0)
            BY <2>4
        <3>2. Len(s) = b - a /\ Cardinality(inside) = b - a
            BY <2>1, <3>1, <1>4, Zenon
        <3> QED BY <3>2
    <2>5. b - a < 0 \/ b - a = 0 \/ b - a > 0
        OBVIOUS
    <2> QED BY <2>2, <2>3, <2>4, <2>5, Zenon
<1>6. ASSUME NEW k \in DOMAIN s PROVE s[k] \in inside /\ (k > 1 => s[k - 1] < s[k])
    BY <1>4
<1> QED BY <1>5, <1>6

-----------------------------------------------------------------------------
(* Indices. *)

LEMMA IndexExact ==
    ASSUME NEW v \in Floats, NEW len \in 0..MaxLength, NEW isText \in BOOLEAN,
           NEW reached, reached = Reached(v, len, isText)
    PROVE  IndexOf(v, len, isText) = IF Whole(v) /\ reached # {} THEN Ok(<< CHOOSE i \in reached : TRUE >>) ELSE Err
<1> DEFINE i == AsInt(v)
           f == IF isText THEN StringIndex(i, len) ELSE FromEnd(i, len)
           n == Value(v)
<1>0. len \in Nat /\ len <= MaxInt
    BY LengthAssumption, Widths
<1>1. i \in Int /\ MinInt <= i /\ i <= MaxInt
    BY AsIntType
<1>2. f \in Int /\ MinInt <= f /\ f <= MaxInt
    <2> HIDE DEF i
    <2> QED BY <1>0, <1>1, Widths DEF StringIndex, FromEnd
<1>3. AsSize(f) \in Int /\ (AsSize(f) < len) = (0 <= f /\ f < len) /\ (f >= 0 => AsSize(f) = f)
    <2> HIDE DEF f
    <2>1. AsSize(f) = IF f < 0 THEN f + 2 * MaxInt + 2 ELSE f
        BY <1>2, SizeOfIndex, Widths
    <2> QED BY <2>1, <1>0, <1>2, Widths
<1>4. IndexOf(v, len, isText) = IF IsInteger(v) /\ 0 <= f /\ f < len THEN Ok(<< f >>) ELSE Err
    <2>1. IndexOf(v, len, isText) = IF IsInteger(v) /\ AsSize(f) < len THEN Ok(<< AsSize(f) >>) ELSE Err
        BY DEF IndexOf
    <2> HIDE DEF f
    <2> QED BY <2>1, <1>3
<1>5. CASE ~Whole(v)
    BY <1>4, <1>5, IntegersAreWhole
<1>6. CASE Whole(v) /\ ~Fits(n)
    <2>1. n \in Int /\ v = Finite(2 * n) /\ i = Clamped(n)
        BY <1>6, AsIntExact
    <2>2. reached = {}
        BY <1>0, <1>6, <2>1, Widths DEF Fits, Reached
    <2>3. CASE n > MaxInt
        <3>1. i = MaxInt
            BY <2>1, <2>3, Widths DEF Clamped
        <3>2. f = MaxInt
            <4> HIDE DEF i
            <4> QED BY <3>1, Widths DEF StringIndex, FromEnd
        <3>3. ~(f < len)
            BY <3>2, <1>0, Widths
        <3> QED BY <1>4, <2>2, <3>3
    <2>4. CASE n < MinInt
        <3>1. i = MinInt
            BY <2>1, <2>4, Widths DEF Clamped
        <3>2. ToFloat(i) = Finite(2 * MinInt)
            BY <3>1, WidthsAssumption DEF ToFloat
        <3>3. 2 * MinInt # 2 * n
            BY <2>1, <2>4, Widths
        <3>4. ~IsInteger(v)
            BY <2>1, <3>2, <3>3 DEF IsInteger, Finite
        <3> QED BY <1>4, <2>2, <3>4
    <2> QED BY <1>6, <2>1, <2>3, <2>4, Widths DEF Fits
<1>7. CASE Whole(v) /\ Fits(n)
    <2>1. IsInteger(v) /\ i = n /\ n \in Int
        BY <1>7, WholeAreIntegers, AsIntExact
    <2>2. \A k \in 0..(len - 1) : k \in reached <=> k = f
        <3> HIDE DEF n, i
        <3>1. f = IF isText /\ FromEnd(n, len) < 0 THEN 0 ELSE FromEnd(n, len)
            BY <2>1 DEF StringIndex
        <3>2. FromEnd(n, len) = IF n < 0 THEN n + len ELSE n
            BY DEF FromEnd
        <3>3. MinInt <= n
            BY <1>7 DEF Fits
        <3> HIDE DEF f
        <3>4. ASSUME NEW k \in 0..(len - 1)
              PROVE  k \in reached <=> (n = k \/ n = k - len \/ (isText /\ k = 0 /\ MinInt <= n /\ n <= -len))
            BY <1>0, <2>1, Widths DEF n, Reached
        <3>5. ASSUME NEW k \in 0..(len - 1)
              PROVE  (n = k \/ n = k - len \/ (isText /\ k = 0 /\ MinInt <= n /\ n <= -len)) <=> k = f
            BY <1>0, <2>1, <3>1, <3>2, <3>3
        <3> QED BY <3>4, <3>5
    <2>3. reached \subseteq 0..(len - 1)
        BY DEF Reached
    <2>4. CASE 0 <= f /\ f < len
        <3> HIDE DEF f, n, i
        <3>1. reached = { f }
            BY <1>0, <1>2, <2>2, <2>4, <2>3
        <3>2. (CHOOSE k \in reached : TRUE) = f
            BY <3>1
        <3> QED BY <1>4, <1>7, <2>1, <2>4, <3>1, <3>2
    <2>5. CASE ~(0 <= f /\ f < len)
        <3> HIDE DEF f, n, i
        <3>1. reached = {}
            BY <1>0, <1>2, <2>2, <2>5, <2>3
        <3> QED BY <1>4, <2>5, <3>1
    <2> QED BY <2>4, <2>5
<1> QED BY <1>5, <1>6, <1>7

(* IndexIsExact: number_to_i64, the cast to usize and the two ways of      *)
(* counting from the end read the position asked for or fail.              *)
THEOREM IndexTheorem == Spec => []IndexIsExact
<1>1. Replied => IndexIsExact
    <2> SUFFICES ASSUME Replied, Answered("index") PROVE IndexIsExact
        BY DEF IndexIsExact
    <2> DEFINE reached == Reached(call.v, call.len, call.isText)
    <2>1. call.op = "index" /\ call \in Calls /\ answer = Answer(call)
        BY DEF Replied, Answered
    <2>2. call.v \in Floats /\ call.len \in 0..MaxLength /\ call.isText \in BOOLEAN
        BY <2>1 DEF Calls
    <2>3. answer = IndexOf(call.v, call.len, call.isText)
        BY <2>1 DEF Answer
    <2>4. answer = IF Whole(call.v) /\ reached # {} THEN Ok(<< CHOOSE i \in reached : TRUE >>) ELSE Err
        BY <2>2, <2>3, IndexExact
    <2> QED BY <2>4 DEF IndexIsExact
<1> QED BY <1>1, RepliedInvariant, PTL

-----------------------------------------------------------------------------
(* Slices. *)

LEMMA LimitKept ==
    ASSUME NEW v \in Floats, Whole(v), NEW len \in 0..MaxLength
    PROVE  /\ Wrap(AsInt(v), len) \in 0..len
           /\ \A i \in 0..(len - 1) : (Wrap(AsInt(v), len) <= i) = (Limit(v, 0, len) <= i)
           /\ \A i \in 0..(len - 1) : (Wrap(AsInt(v), len) <= i) = (Limit(v, len, len) <= i)
<1>0. len \in Nat /\ len <= MaxInt
    BY LengthAssumption, Widths
<1>1. Value(v) \in Int /\ AsInt(v) \in Int /\ AsInt(v) = Clamped(Value(v))
    BY AsIntExact, AsIntType
<1>2. v # Omitted
    BY <1>1 DEF Omitted, Special, Whole
<1>3. \A d : Limit(v, d, len) = IF Value(v) < 0 THEN Value(v) + len ELSE Value(v)
    BY <1>2 DEF Limit
<1>4. ASSUME NEW i \in 0..(len - 1)
      PROVE  (FromEnd(AsInt(v), len) <= i) = ((IF Value(v) < 0 THEN Value(v) + len ELSE Value(v)) <= i)
    <2> DEFINE n == Value(v)
               m == AsInt(v)
    <2>1. n \in Int /\ m = IF n > MaxInt THEN MaxInt ELSE IF n < MinInt THEN MinInt ELSE n
        BY <1>1 DEF Clamped
    <2>2. FromEnd(m, len) = IF m < 0 THEN m + len ELSE m
        BY DEF FromEnd
    <2> HIDE DEF n, m
    <2>3. (FromEnd(m, len) <= i) = ((IF n < 0 THEN n + len ELSE n) <= i)
        BY <1>0, <2>1, <2>2, Widths
    <2> QED BY <2>3 DEF n, m
<1> QED BY <1>0, <1>1, <1>3, <1>4, WrapLimits

LEMMA SliceExact ==
    ASSUME NEW a \in Floats \cup { Omitted }, NEW b \in Floats \cup { Omitted }, NEW len \in 0..MaxLength,
           \A v \in { a, b } \ { Omitted } : IsInteger(v)
    PROVE  SliceOf(a, b, len).st = "ok" /\ Ascending(SliceOf(a, b, len).v, Inside(a, b, len))
<1> DEFINE from == IF a = Omitted THEN 0 ELSE Wrap(AsInt(a), len)
           to == IF b = Omitted THEN len ELSE Wrap(AsInt(b), len)
           s == [k \in 1..(to - from) |-> from + k - 1]
           inside == { i \in Int : from <= i /\ i < to }
<1>0. len \in Nat
    BY LengthAssumption, Widths
<1>1. from \in 0..len /\ \A i \in 0..(len - 1) : (from <= i) = (Limit(a, 0, len) <= i)
    <2>1. CASE a = Omitted
        BY <1>0, <2>1 DEF Limit
    <2>2. CASE a # Omitted
        <3>1. a \in Floats /\ Whole(a)
            BY <2>2, IntegersAreWhole
        <3> QED BY <2>2, <3>1, LimitKept
    <2> QED BY <2>1, <2>2
<1>2. to \in 0..len /\ \A i \in 0..(len - 1) : (to <= i) = (Limit(b, len, len) <= i)
    <2>1. CASE b = Omitted
        BY <1>0, <2>1 DEF Limit
    <2>2. CASE b # Omitted
        <3>1. b \in Floats /\ Whole(b)
            BY <2>2, IntegersAreWhole
        <3> QED BY <2>2, <3>1, LimitKept
    <2> QED BY <2>1, <2>2
<1>3. ASSUME NEW v \in { a, b }, v # Omitted
      PROVE  Limit(v, 0, len) \in Int /\ Limit(v, len, len) \in Int
    <2>1. v \in Floats /\ Whole(v)
        BY <1>3, IntegersAreWhole
    <2>2. Value(v) \in Int
        BY <2>1, AsIntExact
    <2> QED BY <1>0, <1>3, <2>2 DEF Limit
<1>4. Limit(a, 0, len) \in Int /\ Limit(b, len, len) \in Int
    BY <1>0, <1>3 DEF Limit
<1>5. SliceOf(a, b, len) = Ok(s)
    BY DEF SliceOf
<1>6. Inside(a, b, len) = inside
    <2> HIDE DEF from, to
    <2>1. ASSUME NEW i \in 0..(len - 1)
          PROVE  (Limit(a, 0, len) <= i /\ i < Limit(b, len, len)) <=> (from <= i /\ i < to)
        BY <1>0, <1>1, <1>2, <1>4
    <2>2. \A i \in Int : from <= i /\ i < to => i \in 0..(len - 1)
        BY <1>0, <1>1, <1>2
    <2> QED BY <1>0, <2>1, <2>2 DEF Inside
<1>7. Ascending(s, inside)
    <2> HIDE DEF from, to
    <2>1. from \in Int /\ to \in Int
        BY <1>0, <1>1, <1>2
    <2> QED BY <2>1, Consecutive DEF Ascending
<1> HIDE DEF s, inside
<1> QED BY <1>5, <1>6, <1>7 DEF Ok

(* SliceIsExact: wrap() limits what is counted from the end to the value,  *)
(* and so reads the positions of a slice without a limit.                  *)
THEOREM SliceTheorem == Spec => []SliceIsExact
<1>1. Replied => SliceIsExact
    <2> SUFFICES ASSUME Replied, Answered("slice") PROVE SliceIsExact
        BY DEF SliceIsExact
    <2>1. call.op = "slice" /\ call \in Calls /\ answer = Answer(call)
        BY DEF Replied, Answered
    <2>2. call.a \in Floats \cup { Omitted } /\ call.b \in Floats \cup { Omitted } /\ call.len \in 0..MaxLength
        BY <2>1 DEF Calls
    <2>3. answer = SliceOf(call.a, call.b, call.len)
        BY <2>1 DEF Answer
    <2>4. CASE \A v \in { call.a, call.b } \ { Omitted } : IsInteger(v)
        <3>1. answer.st = "ok" /\ Ascending(answer.v, Inside(call.a, call.b, call.len))
            BY <2>2, <2>3, <2>4, SliceExact
        <3>2. \A v \in { call.a, call.b } : v = Omitted \/ Whole(v)
            BY <2>2, <2>4, IntegersAreWhole
        <3> QED BY <3>1, <3>2 DEF SliceIsExact
    <2>5. CASE \E v \in { call.a, call.b } \ { Omitted } : ~IsInteger(v)
        <3>1. answer = Err
            BY <2>3, <2>5 DEF SliceOf
        <3>2. PICK v \in { call.a, call.b } : v # Omitted /\ ~IsInteger(v)
            BY <2>5
        <3>3. CASE Whole(v)
            <4>1. Value(v) \in Int /\ ~Fits(Value(v))
                BY <2>2, <3>2, <3>3, WholeAreIntegers, AsIntExact
            <4>2. Value(v) \notin MinInt..MaxInt
                BY <4>1, Widths DEF Fits
            <4> QED BY <3>1, <3>2, <4>2 DEF SliceIsExact, Err
        <3>4. CASE ~Whole(v)
            BY <3>1, <3>2, <3>4 DEF SliceIsExact
        <3> QED BY <3>3, <3>4
    <2> QED BY <2>4, <2>5
<1> QED BY <1>1, RepliedInvariant, PTL

-----------------------------------------------------------------------------
(* Ranges. *)

LEMMA Euclid ==
    ASSUME NEW x \in Int, NEW d \in Nat, d > 0
    PROVE  x \div d \in Int /\ (x \div d) * d <= x /\ x < (x \div d) * d + d
<1>1. x \div d \in Int /\ x % d \in 0..(d - 1) /\ x = d * (x \div d) + (x % d)
    OBVIOUS
<1> QED BY <1>1

LEMMA ProductsAscend ==
    ASSUME NEW k \in Int, NEW q \in Int, k <= q, NEW d \in Nat
    PROVE  k * d \in Int /\ q * d \in Int /\ (k - 1) * d = k * d - d /\ k * d <= q * d
<1>1. k * d \in Int /\ q * d \in Int /\ (k - 1) * d = k * d - d
    OBVIOUS
<1>2. (q - k) * d >= 0 /\ (q - k) * d = q * d - k * d
    OBVIOUS
<1> QED BY <1>1, <1>2

(* How many steps of size d stay within a gap. *)
LEMMA StepsWithin ==
    ASSUME NEW gap \in Int, NEW d \in Nat, d > 0,
           NEW q, q = (gap + d - 1) \div d,
           NEW len, len = IF q < 0 THEN 0 ELSE q
    PROVE  /\ q \in Int /\ len \in Nat /\ gap <= len * d
           /\ \A k \in 1..q : (k - 1) * d \in Int /\ (k - 1) * d < gap
<1>1. q \in Int /\ q * d <= gap + d - 1 /\ gap + d - 1 < q * d + d
    <2>1. gap + d - 1 \in Int
        OBVIOUS
    <2> QED BY <2>1, Euclid
<1>2. \A k \in 1..q : (k - 1) * d \in Int /\ (k - 1) * d < gap
    <2> TAKE k \in 1..q
    <2>1. k * d \in Int /\ q * d \in Int /\ (k - 1) * d = k * d - d /\ k * d <= q * d
        BY <1>1, ProductsAscend
    <2> DEFINE kd == k * d
               qd == q * d
    <2> HIDE DEF kd, qd
    <2>2. kd \in Int /\ qd \in Int /\ kd <= qd /\ qd <= gap + d - 1
        BY <1>1, <2>1 DEF kd, qd
    <2>3. kd - d \in Int /\ kd - d < gap
        BY <2>2
    <2> QED BY <2>1, <2>3 DEF kd
<1>3. gap <= len * d
    <2>1. CASE q < 0
        <3>1. q * d <= 0 * d
            <4>1. q <= 0 /\ 0 \in Int
                BY <1>1, <2>1
            <4> QED BY <4>1, <1>1, ProductsAscend
        <3>2. q * d + d <= 0
            <4>1. (q + 1) * d <= 0 * d /\ (q + 1) * d = q * d + d
                <5>1. q + 1 \in Int /\ q + 1 <= 0 /\ 0 \in Int /\ (q + 1) - 1 = q
                    BY <1>1, <2>1
                <5>2. (q + 1) * d \in Int /\ (q + 1) * d <= 0 * d
                    BY <5>1, ProductsAscend
                <5> QED BY <5>2, <1>1
            <4> QED BY <4>1
        <3>3. gap + d - 1 < 0 /\ gap <= 0
            <4> DEFINE qd == q * d
            <4>1. qd \in Int
                BY <1>1
            <4> HIDE DEF qd
            <4>2. qd + d <= 0 /\ gap + d - 1 < qd + d
                BY <1>1, <3>2 DEF qd
            <4> QED BY <4>1, <4>2
        <3> QED BY <2>1, <3>3
    <2>2. CASE q >= 0
        <3> DEFINE qd == q * d
        <3>1. qd \in Int /\ len * d = qd
            BY <1>1, <2>2
        <3>2. gap + d - 1 < qd + d
            BY <1>1
        <3> HIDE DEF qd
        <3>3. gap <= qd
            BY <3>1, <3>2
        <3> QED BY <3>1, <3>3
    <2> QED BY <1>1, <2>1, <2>2
<1> QED BY <1>1, <1>2, <1>3

LEMMA UpExact ==
    ASSUME NEW start \in Int, NEW stop \in Int, NEW step \in Nat, step > 0
    PROVE  Listed(Up(start, stop, step), start, stop, step)
<1> DEFINE gap == stop - start
           q == (gap + step - 1) \div step
           list == Up(start, stop, step)
           S == { ToFloat(start + (k - 1) * step) : k \in 1..q }
<1>1. list = [k \in 1..q |-> ToFloat(start + (k - 1) * step)]
    BY DEF Up
<1>2. gap \in Int /\ list \in [1..q -> S]
    BY <1>1
<1> HIDE DEF gap, list
<1>3. q \in Int /\ gap <= (IF q < 0 THEN 0 ELSE q) * step /\ \A k \in 1..q : (k - 1) * step \in Int /\ (k - 1) * step < gap
    BY <1>2, StepsWithin
<1> HIDE DEF q, S
<1>4. Len(list) = (IF q < 0 THEN 0 ELSE q) /\ DOMAIN list = 1..q
    BY <1>2, <1>3, ListLength
<1>5. ASSUME NEW k \in DOMAIN list
      PROVE  start + (k - 1) * step < stop /\ list[k] = ToFloat(start + (k - 1) * step)
    <2> DEFINE p == (k - 1) * step
    <2>1. p \in Int /\ p < gap
        BY <1>3, <1>4
    <2> HIDE DEF p
    <2>2. start + p < stop
        BY <2>1 DEF gap
    <2> QED BY <1>1, <1>4, <2>2 DEF p
<1>6. ~(start + (Len(list) + 1 - 1) * step < stop)
    <2> DEFINE n == Len(list)
               p == n * step
    <2>1. n \in Nat /\ p \in Int /\ gap <= p /\ n + 1 - 1 = n
        BY <1>3, <1>4
    <2>2. (Len(list) + 1 - 1) * step = p
        BY <2>1
    <2> HIDE DEF n, p
    <2>3. ~(start + p < stop)
        BY <2>1 DEF gap
    <2> QED BY <2>2, <2>3
<1> HIDE DEF list
<1> QED BY <1>5, <1>6 DEF Listed, list

LEMMA DownExact ==
    ASSUME NEW start \in Int, NEW stop \in Int, NEW step \in Int, step < 0
    PROVE  Listed(Down(start, stop + 1, -step), start, stop, step)
<1> DEFINE gap == start - stop
           d == -step
           q == (gap + d - 1) \div d
           list == Down(start, stop + 1, d)
           S == { ToFloat(start - (k - 1) * d) : k \in 1..q }
<1>1. list = [k \in 1..q |-> ToFloat(start - (k - 1) * d)]
    <2>1. start - (stop + 1) + d = gap + d - 1
        OBVIOUS
    <2> QED BY <2>1 DEF Down
<1>2. gap \in Int /\ d \in Nat /\ d > 0 /\ list \in [1..q -> S]
    <2>1. gap \in Int /\ d \in Nat /\ d > 0
        OBVIOUS
    <2>2. list \in [1..q -> S]
        <3> HIDE DEF q, d
        <3> QED BY <1>1
    <2> QED BY <2>1, <2>2
<1> HIDE DEF gap, list
<1>3. q \in Int /\ gap <= (IF q < 0 THEN 0 ELSE q) * d /\ \A k \in 1..q : (k - 1) * d \in Int /\ (k - 1) * d < gap
    <2> HIDE DEF d
    <2> QED BY <1>2, StepsWithin
<1> HIDE DEF q, S
<1>4. Len(list) = (IF q < 0 THEN 0 ELSE q) /\ DOMAIN list = 1..q
    BY <1>2, <1>3, ListLength
<1>5. ASSUME NEW j \in Int PROVE start + j * step = start - j * d
    OBVIOUS
<1> HIDE DEF d
<1>6. ASSUME NEW k \in DOMAIN list
      PROVE  start + (k - 1) * step > stop /\ list[k] = ToFloat(start + (k - 1) * step)
    <2> DEFINE p == (k - 1) * d
    <2>1. p \in Int /\ p < gap /\ k \in 1..q /\ k - 1 \in Int
        BY <1>3, <1>4
    <2> HIDE DEF p
    <2>2. start - p > stop
        BY <2>1 DEF gap
    <2>3. start + (k - 1) * step = start - p
        BY <1>5, <2>1 DEF p
    <2>4. list[k] = ToFloat(start - p)
        BY <1>1, <2>1 DEF p
    <2> QED BY <2>2, <2>3, <2>4
<1>7. ~(start + (Len(list) + 1 - 1) * step > stop)
    <2> DEFINE n == Len(list)
               p == n * d
    <2>1. n \in Nat /\ p \in Int /\ gap <= p /\ n \in Int /\ n + 1 - 1 = n
        BY <1>2, <1>3, <1>4
    <2>2. start + (Len(list) + 1 - 1) * step = start - p
        <3>1. start + n * step = start - n * d
            BY <1>5, <2>1
        <3> QED BY <2>1, <3>1
    <2> HIDE DEF n, p
    <2>3. ~(start - p > stop)
        BY <2>1 DEF gap
    <2> QED BY <2>2, <2>3
<1>8. Listed(list, start, stop, step)
    BY <1>6, <1>7 DEF Listed
<1> QED BY <1>8 DEF list, d

(* RangeIsDocumented: the casts, the saturated step and counting down by   *)
(* way of stop + 1 list the numbers that the documentation describes.      *)
THEOREM RangeTheorem == Spec => []RangeIsDocumented
<1>1. Replied => RangeIsDocumented
    <2> DEFINE start == Value(call.start)
               stop == Value(call.stop)
               step == Value(call.step)
    <2> SUFFICES ASSUME Replied, Answered("range"),
                        \A v \in { call.start, call.stop, call.step } : Whole(v),
                        Fits(start), Size(step) <= MaxInt, Fits(stop) \/ PastTheEnd
                 PROVE  IF step = 0 THEN answer = Err
                        ELSE IF PastTheEnd THEN call.checked => answer = Panic
                        ELSE answer.st = "ok" /\ Listed(answer.v, start, stop, step)
        BY DEF RangeIsDocumented, Listed
    <2>1. call.op = "range" /\ call \in Calls /\ answer = Answer(call)
        BY DEF Replied, Answered
    <2>2. call.start \in Floats /\ call.stop \in Floats /\ call.step \in Floats
        <3>1. Finite(3) \in Floats \/ call.stop # Finite(3)
            <4>1. ~Whole(Finite(3))
                BY DEF Whole, Finite
            <4> QED BY <4>1
        <3> QED BY <2>1, <3>1 DEF Calls, Bounds, Integral, Floats
    <2>3. answer = RangeOf(call.start, call.stop, call.step, call.checked)
        BY <2>1 DEF Answer
    <2>4. start \in Int /\ stop \in Int /\ step \in Int
        BY <2>2, AsIntExact
    <2>5. MinInt < step /\ step <= MaxInt /\ Fits(step)
        <3> HIDE DEF step
        <3> QED BY <2>4, Widths DEF Size, Fits
    <2>6. AsInt(call.start) = start /\ AsInt(call.step) = step /\ AsInt(call.stop) = Clamped(stop)
        BY <2>2, <2>5, WholeAreIntegers, AsIntExact
    <2>7. CASE step = 0
        <3>1. answer = Err
            BY <2>3, <2>6, <2>7 DEF RangeOf
        <3> QED BY <2>7, <3>1
    <2>8. CASE step > 0
        <3>1. ~PastTheEnd /\ Fits(stop)
            BY <2>4, <2>8 DEF PastTheEnd
        <3>2. Clamped(stop) = stop
            <4> HIDE DEF stop
            <4> QED BY <2>4, <3>1, Widths DEF Clamped, Fits
        <3>3. ~(step > MaxSize) /\ ~(step < 0) /\ step # 0
            <4> HIDE DEF step
            <4> QED BY <2>4, <2>5, <2>8, Widths
        <3>4. answer = Ok(Up(start, stop, step))
            BY <2>3, <2>6, <2>8, <3>2, <3>3 DEF RangeOf
        <3>5. Listed(Up(start, stop, step), start, stop, step)
            BY <2>4, <2>8, UpExact
        <3> QED BY <3>1, <3>3, <3>4, <3>5 DEF Ok
    <2>9. CASE step < 0
        <3>1. step # MinInt /\ ~(-step > MaxSize) /\ ~(step > 0) /\ step # 0
            <4> HIDE DEF step
            <4> QED BY <2>4, <2>5, <2>9, Widths
        <3>2. answer = IF Clamped(stop) = MaxInt THEN (IF call.checked THEN Panic ELSE Ok(Down(start, MinInt, -step)))
                       ELSE Ok(Down(start, Clamped(stop) + 1, -step))
            BY <2>3, <2>6, <2>9, <3>1 DEF RangeOf
        <3>3. CASE PastTheEnd
            <4>1. stop >= MaxInt
                BY <3>3 DEF PastTheEnd
            <4>2. Clamped(stop) = MaxInt
                <5> HIDE DEF stop
                <5> QED BY <2>4, <4>1, Widths DEF Clamped
            <4> QED BY <3>1, <3>2, <3>3, <4>2
        <3>4. CASE ~PastTheEnd
            <4>1. Fits(stop) /\ ~(stop >= MaxInt)
                BY <2>9, <3>4 DEF PastTheEnd
            <4>2. Clamped(stop) = stop /\ stop # MaxInt
                <5> HIDE DEF stop
                <5> QED BY <2>4, <4>1, Widths DEF Clamped, Fits
            <4>3. Listed(Down(start, stop + 1, -step), start, stop, step)
                BY <2>4, <2>9, DownExact
            <4> QED BY <3>1, <3>2, <3>4, <4>2, <4>3 DEF Ok
        <3> QED BY <3>3, <3>4
    <2> QED BY <2>4, <2>7, <2>8, <2>9
<1> QED BY <1>1, RepliedInvariant, PTL

-----------------------------------------------------------------------------
(* JSON. *)

(* The distance to the neighbours of h is the least Ulp that counts h. *)
LEMMA SpacingIsLeast ==
    ASSUME NEW h \in Int, Exponents(h) # {}
    PROVE  Spacing(h) \in Exponents(h) /\ \A w \in Exponents(h) : Spacing(h) <= w
<1>1. Exponents(h) \in SUBSET Nat
    BY WidthsAssumption DEF Exponents
<1>2. \E u \in Exponents(h) : \A w \in Exponents(h) : u <= w
    BY <1>1, LeastUlp
<1> QED BY <1>2 DEF Spacing

LEMMA UlpType ==
    ASSUME NEW u \in Ulps
    PROVE  u \in Nat /\ u >= 1 /\ (u = 1 \/ (u > 1 /\ u % 2 = 0 /\ u \div 2 \in Ulps /\ u \div 2 < u))
<1>1. u \in Nat /\ (u = 1 \/ (u > 1 /\ u % 2 = 0 /\ u \div 2 \in Ulps))
    BY WidthsAssumption
<1>2. u > 1 => u \div 2 < u
    BY <1>1
<1> QED BY <1>1, <1>2

(* Nothing lies between neighbouring multiples. *)
LEMMA NoMultipleBetween ==
    ASSUME NEW d \in Nat, NEW p \in Int, NEW q \in Int
    PROVE  ~(q * d < p * d /\ p * d < q * d + d)
<1>1. CASE p <= q
    <2>1. p * d <= q * d /\ p * d \in Int /\ q * d \in Int
        BY <1>1, ProductsAscend
    <2> QED BY <2>1
<1>2. CASE q + 1 <= p
    <2>1. (q + 1) * d <= p * d /\ q * d \in Int /\ p * d \in Int /\ (q + 1) * d = q * d + d
        BY <1>2, ProductsAscend
    <2> QED BY <2>1
<1> QED BY <1>1, <1>2

(* A number that rounds to itself is a multiple of its distance. *)
LEMMA NumbersAreMultiples ==
    ASSUME NEW k \in Int, Exponents(k) # {}, Nearest(k) = k
    PROVE  \E p \in Int : k = p * Spacing(k)
<1> DEFINE u == Spacing(k)
           q == k \div u
           low == q * u
           up == 2 * (k - low) > u \/ (2 * (k - low) = u /\ (low \div u) % 2 = 1)
<1>1. u \in Nat /\ u >= 1
    <2>1. u \in Ulps
        BY SpacingIsLeast DEF Exponents
    <2> HIDE DEF u
    <2> QED BY <2>1, UlpType
<1>2. Nearest(k) = IF up THEN low + u ELSE low
    BY DEF Nearest
<1>3. q \in Int /\ low <= k /\ k < low + u
    <2> HIDE DEF u
    <2> QED BY <1>1, Euclid
<1>4. k = low
    <2> HIDE DEF low, up
    <2>1. k = low \/ k = low + u
        BY <1>2
    <2>2. low \in Int
        BY <1>1, <1>3 DEF low
    <2> HIDE DEF u
    <2> QED BY <1>1, <1>3, <2>1, <2>2
<1> QED BY <1>3, <1>4

(* Rounding an integer passes no number. *)
LEMMA RoundingPassesNothing ==
    ASSUME NEW n \in Int, -2 * MaxInt - 2 <= n, n <= 2 * MaxInt + 2,
           NEW k \in Int, Nearest(k) = k
    PROVE  ~(2 * n < k /\ k < Nearest(2 * n)) /\ ~(Nearest(2 * n) < k /\ k < 2 * n)
<1> SUFFICES ASSUME (2 * n < k /\ k < Nearest(2 * n)) \/ (Nearest(2 * n) < k /\ k < 2 * n)
             PROVE  FALSE
    OBVIOUS
<1> DEFINE h == 2 * n
           u == Spacing(h)
           q == h \div u
           low == q * u
           m == MaxMantissa + 1
           s == Spacing(k)
<1>1. h \in Int /\ m \in Nat /\ m >= 1
    BY Widths
<1>2. u \in Ulps /\ u \in Exponents(h) /\ \A w \in Exponents(h) : u <= w
    <2>1. Exponents(h) # {}
        <3>1. PICK w \in Ulps : 4 * MaxInt + 4 < w * m
            BY WidthsAssumption
        <3>2. w * m \in Int /\ Size(h) <= 4 * MaxInt + 4 /\ Size(h) \in Int
            <4>1. w \in Nat
                BY UlpType
            <4> HIDE DEF m
            <4> QED BY <1>1, <4>1, Widths DEF Size
        <3>3. Size(h) < w * m
            <4> DEFINE l == w * m
            <4> HIDE DEF l, h, m
            <4> QED BY <3>1, <3>2, Widths DEF l
        <3> QED BY <3>3 DEF Exponents
    <2> HIDE DEF h
    <2> QED BY <1>1, <2>1, SpacingIsLeast DEF Exponents
<1>3. u \in Nat /\ u >= 1 /\ (u = 1 \/ (u > 1 /\ u % 2 = 0 /\ u \div 2 \in Ulps /\ u \div 2 < u))
    <2> HIDE DEF u
    <2> QED BY <1>2, UlpType
<1>4. Nearest(h) = low \/ Nearest(h) = low + u
    BY DEF Nearest
<1>5. q \in Int /\ low \in Int /\ low <= h /\ h < low + u
    <2> HIDE DEF u, h
    <2> QED BY <1>1, <1>3, Euclid
<1>6. low < k /\ k < low + u
    <2>1. (h < k /\ k < Nearest(h)) \/ (Nearest(h) < k /\ k < h)
        OBVIOUS
    <2> HIDE DEF low, u, h
    <2> QED BY <1>1, <1>3, <1>4, <1>5, <2>1
<1>7. Size(h) < u * m
    BY <1>2 DEF Exponents
<1>8. -(m * u) < h /\ h < m * u /\ m * u = u * m /\ m * u \in Int
    <2>1. m * u = u * m /\ m * u \in Int
        <3> HIDE DEF m, u
        <3> QED BY <1>1, <1>3
    <2> DEFINE l == m * u
    <2> HIDE DEF l, h, u, m
    <2> QED BY <2>1, <1>1, <1>7 DEF Size, l
(* The limits of the mantissa are multiples of u themselves. *)
<1>9. -(m * u) <= low /\ low + u <= m * u
    <2> HIDE DEF h, u, q, m
    <2>1. ~(q + 1 <= -m)
        <3> SUFFICES ASSUME q + 1 <= -m PROVE FALSE
            OBVIOUS
        <3>1. (q + 1) * u <= (-m) * u /\ (q + 1) * u = q * u + u
            BY <1>1, <1>3, <1>5, ProductsAscend
        <3>2. (-m) * u = -(m * u)
            BY <1>1, <1>3
        <3> DEFINE l == m * u
        <3> HIDE DEF l, low
        <3> QED BY <1>3, <1>5, <1>8, <3>1, <3>2, <1>1 DEF l, low
    <2>2. ~(m <= q)
        <3> SUFFICES ASSUME m <= q PROVE FALSE
            OBVIOUS
        <3>1. m * u <= q * u
            BY <1>1, <1>3, <1>5, ProductsAscend
        <3> DEFINE l == m * u
        <3> HIDE DEF l, low
        <3> QED BY <1>3, <1>5, <1>8, <3>1, <1>1 DEF l, low
    <2>3. -m <= q /\ q + 1 <= m
        BY <1>1, <1>5, <2>1, <2>2
    <2>4. (-m) * u <= q * u /\ (q + 1) * u <= m * u /\ (q + 1) * u = q * u + u /\ (-m) * u = -(m * u)
        BY <1>1, <1>3, <1>5, <2>3, ProductsAscend
    <2> QED BY <2>4
<1>10. Size(k) < u * m
    <2> DEFINE l == m * u
    <2>1. l \in Int /\ -l <= low /\ low + u <= l /\ l = u * m
        BY <1>8, <1>9
    <2> HIDE DEF l, low, u
    <2> QED BY <1>3, <1>5, <1>6, <2>1 DEF Size
<1>11. s \in Ulps /\ s \in Exponents(k) /\ s <= u
    <2>1. u \in Exponents(k)
        BY <1>2, <1>10 DEF Exponents
    <2> HIDE DEF u
    <2> QED BY <2>1, SpacingIsLeast DEF Exponents
<1>12. PICK p \in Int : k = p * s
    BY <1>11, NumbersAreMultiples
<1>13. s \in Nat /\ s >= 1
    <2> HIDE DEF s
    <2> QED BY <1>11, UlpType
<1>14. CASE s = u
    <2>1. q * u < p * u /\ p * u < q * u + u
        BY <1>6, <1>12, <1>14
    <2> HIDE DEF u, q
    <2> QED BY <1>3, <1>5, <2>1, NoMultipleBetween
(* Of a lower number, the limit is half of that of h, and h is past it. *)
<1>15. CASE s # u
    <2> DEFINE w == u \div 2
               e == m \div 2
    <2>1. s < u
        <3> HIDE DEF s, u
        <3> QED BY <1>3, <1>11, <1>13, <1>15
    <2>2. u > 1 /\ u % 2 = 0 /\ w \in Ulps /\ w < u /\ w \in Nat /\ u = 2 * w
        <3> HIDE DEF s, u
        <3>1. u # 1
            BY <1>3, <1>13, <2>1
        <3> QED BY <1>3, <3>1
    <2>3. s <= w
        <3>1. 2 * s <= u
            <4> HIDE DEF s, u, w
            <4>1. u \in Ulps \ {1}
                BY <1>2, <2>2
            <4> QED BY <2>1, <1>11, <4>1, WidthsAssumption
        <3> HIDE DEF s, u
        <3> QED BY <3>1, <1>3, <1>13, <2>2
    <2>4. e \in Nat /\ m = 2 * e
        BY Widths, WidthsAssumption
    <2>5. w * m = e * u /\ e * u \in Int
        <3> HIDE DEF w, e, m, u
        <3> QED BY <2>2, <2>4
    <2>6. Size(h) >= e * u
        <3>1. w \notin Exponents(h)
            <4> HIDE DEF w, u, h
            <4> QED BY <1>2, <1>3, <2>2
        <3>2. ~(Size(h) < w * m)
            BY <2>2, <3>1 DEF Exponents
        <3> DEFINE l == w * m
        <3>3. l \in Int /\ Size(h) \in Int
            <4> HIDE DEF w, m, h
            <4> QED BY <1>1, <2>2 DEF Size
        <3> HIDE DEF w, m, h, u, e
        <3> QED BY <2>5, <3>2, <3>3
    <2>7. Size(k) < e * u
        <3>1. Size(k) < s * m
            BY <1>11 DEF Exponents
        <3>2. s * m <= w * m /\ s * m \in Int
            <4> HIDE DEF s, m, w
            <4> QED BY <1>1, <1>13, <2>2, <2>3, ProductsAscend
        <3> HIDE DEF s, m, w, e, u
        <3> DEFINE a == s * m
                   b == e * u
        <3>3. Size(k) < a /\ a <= b /\ a \in Int /\ b \in Int
            BY <2>5, <3>1, <3>2
        <3> HIDE DEF a, b
        <3> QED BY <3>3 DEF Size, b
    <2> DEFINE b == e * u
    <2>8. b \in Int /\ Size(h) >= b /\ Size(k) < b
        BY <2>5, <2>6, <2>7
    <2>9. h >= b \/ h <= -b
        <3> HIDE DEF b, h
        <3> QED BY <1>1, <2>8 DEF Size
    <2>10. -b < k /\ k < b
        <3> HIDE DEF b
        <3> QED BY <2>8 DEF Size
    <2>11. CASE h >= b
        <3>1. ~(q + 1 <= e)
            <4> SUFFICES ASSUME q + 1 <= e PROVE FALSE
                OBVIOUS
            <4> HIDE DEF q, e, u, h
            <4>1. (q + 1) * u <= e * u /\ (q + 1) * u = q * u + u
                BY <1>3, <1>5, <2>4, ProductsAscend
            <4>2. h < low + u
                BY <1>5
            <4> QED BY <1>1, <1>3, <1>5, <2>8, <2>11, <4>1, <4>2
        <3>2. e <= q
            <4> HIDE DEF q, e
            <4> QED BY <1>5, <2>4, <3>1
        <3>3. e * u <= q * u
            <4> HIDE DEF q, e, u
            <4> QED BY <1>3, <1>5, <2>4, <3>2, ProductsAscend
        <3>4. b <= low
            BY <3>3
        <3> HIDE DEF b, low
        <3> QED BY <1>5, <1>6, <2>8, <2>10, <3>4
    <2>12. CASE h <= -b
        <3>1. (-e) * u = -b
            <4> HIDE DEF e, u
            <4> QED BY <1>3, <2>4 DEF b
        <3>2. q <= -e
            <4> SUFFICES ASSUME -e <= q - 1 PROVE FALSE
                <5> HIDE DEF q, e
                <5> QED BY <1>5, <2>4
            <4> HIDE DEF q, e, u, h
            <4>1. (-e) * u <= (q - 1) * u /\ (q - 1) * u = q * u - u
                BY <1>3, <1>5, <2>4, ProductsAscend
            <4> HIDE DEF b, low
            <4> QED BY <1>1, <1>3, <1>5, <2>8, <2>12, <3>1, <4>1 DEF low
        <3>3. CASE q = -e
            <4>1. low = -b /\ h = low
                <5>1. low = -b
                    BY <3>1, <3>3
                <5> HIDE DEF b, low
                <5> QED BY <5>1, <1>1, <1>5, <2>12
            <4>2. Nearest(h) = h
                <5>1. Nearest(h) = IF 2 * (h - low) > u \/ (2 * (h - low) = u /\ (low \div u) % 2 = 1) THEN low + u ELSE low
                    BY DEF Nearest
                <5> HIDE DEF b, low, h, u
                <5> QED BY <5>1, <4>1, <1>1, <1>3
            <4>3. (h < k /\ k < Nearest(h)) \/ (Nearest(h) < k /\ k < h)
                OBVIOUS
            <4> HIDE DEF h
            <4> QED BY <1>1, <4>2, <4>3
        <3>4. CASE q + 1 <= -e
            <4>1. (q + 1) * u <= (-e) * u /\ (q + 1) * u = q * u + u
                <5> HIDE DEF q, e, u
                <5> QED BY <1>3, <1>5, <2>4, <3>4, ProductsAscend
            <4>2. low + u <= -b
                BY <3>1, <4>1
            <4> HIDE DEF b, low, u
            <4> QED BY <1>3, <1>5, <1>6, <2>8, <2>10, <4>2
        <3> HIDE DEF q, e
        <3> QED BY <1>5, <2>4, <3>2, <3>3, <3>4
    <2> QED BY <2>9, <2>11, <2>12
<1> QED BY <1>14, <1>15

(* What f64_to_serde_number writes is read as the number that it was. *)
LEMMA WrittenExact ==
    ASSUME NEW h \in Int
    PROVE  LET j == ToJson(Finite(h)) IN
           /\ j.st = "ok" /\ Halves(j.v) = h
           /\ Nearest(h) = h => FromJson(j.v) = Finite(h)
<1> DEFINE v == Finite(h)
           j == ToJson(v)
<1>1. v.kind = "finite" /\ v.halves = h /\ v \notin NotFinite
    BY DEF Finite, NotFinite, Special
<1>2. CASE Whole(v) /\ h \in (1 - 2 * MaxShort)..(2 * MaxShort - 1)
    <2>1. j = Ok(JsonInt(h \div 2))
        BY <1>1, <1>2 DEF ToJson
    <2>2. h = 2 * (h \div 2)
        BY <1>1, <1>2 DEF Whole
    <2>3. j.st = "ok" /\ j.v = JsonInt(h \div 2)
        BY <2>1 DEF Ok
    <2>4. Halves(j.v) = 2 * (h \div 2) /\ FromJson(j.v) = Finite(Nearest(2 * (h \div 2)))
        BY <2>3 DEF Halves, FromJson, JsonInt, ToFloat
    <2> HIDE DEF j, v
    <2> QED BY <2>2, <2>3, <2>4 DEF j, v
<1>3. CASE ~(Whole(v) /\ h \in (1 - 2 * MaxShort)..(2 * MaxShort - 1))
    <2>1. j = Ok(JsonFloat(v))
        BY <1>1, <1>3 DEF ToJson
    <2>2. j.st = "ok" /\ j.v = JsonFloat(v)
        BY <2>1 DEF Ok
    <2>3. Halves(j.v) = h /\ FromJson(j.v) = v
        BY <1>1, <2>2 DEF Halves, FromJson, JsonFloat
    <2> QED BY <2>2, <2>3
<1> QED BY <1>2, <1>3

(* JsonKeepsNumbers: whichever way f64_to_serde_number writes a number, it *)
(* is read as the same one, and a number of JSON that is none of the crate *)
(* becomes one of its two neighbours.                                      *)
THEOREM JsonTheorem == Spec => []JsonKeepsNumbers
<1>1. ASSUME Replied, Answered("toJson")
      PROVE  /\ answer.st = (IF call.v \in Finites THEN "ok" ELSE "err")
             /\ answer.st = "ok" => FromJson(answer.v) = call.v
    <2>1. call.op = "toJson" /\ call \in Calls /\ answer = Answer(call)
        BY <1>1 DEF Replied, Answered
    <2>2. call.v \in Floats /\ answer = ToJson(call.v)
        BY <2>1 DEF Calls, Answer
    <2>3. CASE call.v \in Finites
        <3>1. PICK h \in Int : call.v = Finite(h) /\ Nearest(h) = h
            BY <2>3, LengthAssumption DEF Finites
        <3> QED BY <2>2, <2>3, <3>1, WrittenExact
    <2>4. CASE call.v \notin Finites
        <3>1. call.v \in NotFinite /\ ~Whole(call.v)
            BY <2>2, <2>4 DEF Floats, NotFinite, Special, Whole
        <3> QED BY <2>2, <2>4, <3>1 DEF ToJson, Err
    <2> QED BY <2>3, <2>4
<1>2. ASSUME Replied, Answered("json")
      PROVE  /\ answer.st = "ok"
             /\ Finite(Halves(call.n)) \in Finites => Halves(answer.v) = Halves(call.n)
             /\ \A v \in Finites : ~Between(Halves(call.n), Halves(answer.v), v)
    <2> DEFINE g == Halves(call.n)
    <2>1. call.op = "json" /\ call \in Calls /\ answer = Answer(call)
        BY <1>2 DEF Replied, Answered
    <2>2. answer = ToJson(FromJson(call.n))
        BY <2>1 DEF Answer
    <2>3. \A v \in Finites : v.halves \in Int /\ v = Finite(v.halves) /\ Nearest(v.halves) = v.halves
        BY LengthAssumption DEF Finites, Finite
    <2>4. CASE \E n \in MinInt..(2 * MaxInt + 1) : call.n = JsonInt(n)
        <3>1. PICK n \in MinInt..(2 * MaxInt + 1) : call.n = JsonInt(n)
            BY <2>4
        <3>2. n \in Int /\ -2 * MaxInt - 2 <= n /\ n <= 2 * MaxInt + 2
            BY Widths
        <3>3. g = 2 * n /\ FromJson(call.n) = Finite(Nearest(2 * n))
            BY <3>1 DEF Halves, FromJson, JsonInt, ToFloat
        <3>4. Nearest(2 * n) \in Int
            BY <3>2, NearestWhole
        <3>5. answer.st = "ok" /\ Halves(answer.v) = Nearest(2 * n)
            BY <2>2, <3>3, <3>4, WrittenExact
        <3>6. Finite(g) \in Finites => Nearest(2 * n) = 2 * n
            BY <2>3, <3>3 DEF Finite
        <3>7. \A v \in Finites : ~Between(g, Halves(answer.v), v)
            BY <2>3, <3>2, <3>3, <3>5, RoundingPassesNothing DEF Between
        <3> QED BY <3>3, <3>5, <3>6, <3>7
    <2>5. CASE \E f \in Finites : call.n = JsonFloat(f)
        <3>1. PICK f \in Finites : call.n = JsonFloat(f)
            BY <2>5
        <3>2. g = f.halves /\ FromJson(call.n) = f
            BY <3>1 DEF Halves, FromJson, JsonFloat
        <3>3. g \in Int /\ f = Finite(g)
            BY <2>3, <3>2
        <3>4. answer.st = "ok" /\ Halves(answer.v) = g
            BY <2>2, <3>2, <3>3, WrittenExact
        <3>5. \A v \in Finites : ~Between(g, g, v)
            BY <2>3, <3>3 DEF Between
        <3> QED BY <3>4, <3>5
    <2> QED BY <2>1, <2>4, <2>5 DEF Calls
<1>3. Replied => JsonKeepsNumbers
    BY <1>1, <1>2 DEF JsonKeepsNumbers
<1> QED BY <1>3, RepliedInvariant, PTL

-----------------------------------------------------------------------------
(* Texts. *)

LEMMA CountUp ==
    ASSUME NEW n \in Nat, NEW G, 0 \in G, \A i \in 0..n : i < n /\ i \in G => i + 1 \in G
    PROVE  \A i \in 0..n : i \in G
<1> DEFINE S == { i \in 0..n : i \notin G }
<1> SUFFICES ASSUME S # {} PROVE FALSE
    OBVIOUS
<1>1. PICK i \in S : \A j \in S : i <= j
    <2>1. S \in SUBSET Nat
        OBVIOUS
    <2> HIDE DEF S
    <2> QED BY <2>1, LeastUlp
<1>2. i \in 1..n /\ i - 1 \in 0..n /\ i - 1 < n /\ (i - 1) + 1 = i
    <2>1. i # 0 /\ i \in 0..n
        OBVIOUS
    <2> QED BY <2>1
<1>3. i - 1 \in G
    <2>1. i - 1 \notin S
        BY <1>1, <1>2
    <2> QED BY <1>2, <2>1
<1> QED BY <1>2, <1>3

(* Where the characters of s start, and where the last one ends. *)
Starting(f, s, n) ==
    /\ f \in [1..(n + 1) -> Nat] /\ f[1] = 0
    /\ \A i \in 1..n : f[i + 1] = f[i] + Width(s[i])

LEMMA StartingExists ==
    ASSUME NEW s \in Seq(Alphabet), NEW m \in 0..Len(s)
    PROVE  \E f : Starting(f, s, m)
<1> DEFINE n == Len(s)
           G == { k \in 0..n : \E f : Starting(f, s, k) }
<1>0. n \in Nat /\ \A i \in 1..n : s[i] \in Alphabet
    BY LenProperties
<1>1. 0 \in G
    <2> DEFINE f == [i \in 1..(0 + 1) |-> 0]
    <2>1. f \in [1..(0 + 1) -> Nat] /\ f[1] = 0
        OBVIOUS
    <2> HIDE DEF f
    <2>2. Starting(f, s, 0)
        BY <2>1 DEF Starting
    <2> QED BY <1>0, <2>2
<1>2. ASSUME NEW k \in 0..n, k < n, k \in G PROVE k + 1 \in G
    <2>1. PICK f : Starting(f, s, k)
        BY <1>2
    <2> DEFINE j == k + 1
               h == [i \in 1..(j + 1) |-> IF i = j + 1 THEN f[j] + Width(s[j]) ELSE f[i]]
    <2>2. /\ f \in [1..j -> Nat] /\ f[1] = 0 /\ j \in 1..n /\ j \in Nat /\ j \in 0..n
          /\ \A i \in 1..k : f[i + 1] = f[i] + Width(s[i])
        BY <1>0, <1>2, <2>1 DEF Starting
    <2>3. Width(s[j]) \in Nat
        <3>1. s[j] \in Alphabet
            BY <1>0, <2>2
        <3> QED BY <3>1, CharacterAssumption
    <2>4. f[j] + Width(s[j]) \in Nat
        <3>1. f[j] \in Nat
            BY <2>2
        <3> QED BY <2>3, <3>1
    <2>5. h \in [1..(j + 1) -> Nat] /\ h[j + 1] = f[j] + Width(s[j]) /\ \A i \in 1..j : h[i] = f[i]
        <3> HIDE DEF j
        <3>1. \A i \in 1..(j + 1) : i # j + 1 => i \in 1..j
            BY <2>2
        <3>2. \A i \in 1..(j + 1) : h[i] \in Nat
            BY <2>2, <2>4, <3>1
        <3>3. j + 1 \in 1..(j + 1) /\ \A i \in 1..j : i \in 1..(j + 1) /\ i # j + 1
            BY <2>2
        <3> QED BY <3>2, <3>3
    <2> HIDE DEF h
    <2>6. ASSUME NEW i \in 1..j PROVE h[i + 1] = h[i] + Width(s[i])
        <3>1. CASE i = j
            BY <2>5, <3>1
        <3>2. CASE i # j
            <4>1. i \in 1..k /\ i + 1 \in 1..j
                BY <1>2, <3>2
            <4> QED BY <2>2, <2>5, <4>1
        <3> QED BY <3>1, <3>2
    <2>7. h[1] = 0
        <3>1. 1 \in 1..j
            BY <2>2
        <3> QED BY <2>2, <2>5, <3>1
    <2>8. Starting(h, s, j)
        <3> HIDE DEF j
        <3> QED BY <2>5, <2>6, <2>7 DEF Starting
    <2> QED BY <2>2, <2>8
<1>3. \A k \in 0..n : k \in G
    <2> HIDE DEF G, n
    <2> QED BY <1>0, <1>1, <1>2, CountUp
<1> QED BY <1>3

LEMMA OffsetsStart ==
    ASSUME NEW s \in Seq(Alphabet)
    PROVE  Starting(Offsets(s), s, Len(s))
<1> DEFINE n == Len(s)
           m == CHOOSE from : from = [i \in 1..(n + 1) |-> IF i = 1 THEN 0 ELSE from[i - 1] + Width(s[i - 1])]
<1>0. n \in Nat
    BY LenProperties
<1>1. PICK f : Starting(f, s, n)
    BY <1>0, StartingExists
<1>2. f = [i \in 1..(n + 1) |-> IF i = 1 THEN 0 ELSE f[i - 1] + Width(s[i - 1])]
    <2>1. f = [i \in 1..(n + 1) |-> f[i]] /\ f[1] = 0
        BY <1>1 DEF Starting
    <2>2. ASSUME NEW i \in 1..(n + 1), i # 1 PROVE f[i] = f[i - 1] + Width(s[i - 1])
        <3>1. i - 1 \in 1..n /\ (i - 1) + 1 = i
            BY <1>0, <2>2
        <3>2. f[(i - 1) + 1] = f[i - 1] + Width(s[i - 1])
            BY <1>1, <3>1 DEF Starting
        <3> QED BY <3>1, <3>2
    <2>3. \A i \in 1..(n + 1) : f[i] = IF i = 1 THEN 0 ELSE f[i - 1] + Width(s[i - 1])
        BY <2>1, <2>2
    <2> HIDE DEF n
    <2> QED BY <2>1, <2>3, Zenon
<1>3. m = [i \in 1..(n + 1) |-> IF i = 1 THEN 0 ELSE m[i - 1] + Width(s[i - 1])]
    BY <1>2
<1>4. Offsets(s) = m
    BY DEF Offsets
<1> HIDE DEF m, n
<1>5. \A i \in 1..(n + 1) : m[i] = IF i = 1 THEN 0 ELSE m[i - 1] + Width(s[i - 1])
    BY <1>3
<1> DEFINE G == { k \in 0..n : m[k + 1] = f[k + 1] }
<1>6. 0 \in G
    <2>1. 0 \in 0..n /\ 1 \in 1..(n + 1) /\ 0 + 1 = 1
        BY <1>0
    <2>2. f[1] = 0
        BY <1>1 DEF Starting
    <2> QED BY <1>5, <2>1, <2>2
<1>7. ASSUME NEW k \in 0..n, k < n, k \in G PROVE k + 1 \in G
    <2> DEFINE j == k + 1
    <2>1. j \in 1..n /\ j \in 0..n /\ j + 1 \in 1..(n + 1) /\ j + 1 # 1 /\ (j + 1) - 1 = j
        BY <1>0, <1>7
    <2>2. m[j] = f[j]
        BY <1>7
    <2> HIDE DEF j
    <2>3. m[j + 1] = m[j] + Width(s[j])
        BY <1>5, <2>1
    <2>4. f[j + 1] = f[j] + Width(s[j])
        BY <1>1, <2>1 DEF Starting
    <2>5. j \in G
        BY <2>1, <2>2, <2>3, <2>4
    <2> QED BY <2>5 DEF j
<1>8. \A k \in 0..n : k \in G
    <2> HIDE DEF G
    <2> QED BY <1>0, <1>6, <1>7, CountUp
<1>9. m = f
    <2>1. \A i \in 1..(n + 1) : i - 1 \in 0..n /\ (i - 1) + 1 = i
        BY <1>0
    <2>2. \A i \in 1..(n + 1) : m[i] = f[i]
        BY <1>8, <2>1
    <2>3. m = [i \in 1..(n + 1) |-> m[i]] /\ f = [i \in 1..(n + 1) |-> f[i]]
        BY <1>1, <1>3 DEF Starting
    <2> QED BY <2>2, <2>3
<1> QED BY <1>1, <1>4, <1>9 DEF n

(* Every character takes room, so no two start at one offset. *)
LEMMA OffsetsRise ==
    ASSUME NEW s \in Seq(Alphabet), NEW i \in 1..(Len(s) + 1), NEW j \in 1..(Len(s) + 1), i < j
    PROVE  Offsets(s)[i] < Offsets(s)[j]
<1> DEFINE n == Len(s)
           o == Offsets(s)
           G == { k \in 0..n : i < k + 1 => o[i] < o[k + 1] }
<1>0. n \in Nat /\ o \in [1..(n + 1) -> Nat] /\ \A k \in 1..n : o[k + 1] = o[k] + Width(s[k]) /\ Width(s[k]) \in Nat \ {0}
    BY OffsetsStart, LenProperties, CharacterAssumption DEF Starting
<1> HIDE DEF o, n
<1>1. 0 \in G
    BY <1>0 DEF n
<1>2. ASSUME NEW k \in 0..n, k < n, k \in G PROVE k + 1 \in G
    <2> DEFINE l == k + 1
    <2>1. l \in 1..n /\ l \in 0..n /\ l \in 1..(n + 1)
        BY <1>0, <1>2
    <2>2. i < l => o[i] < o[l]
        BY <1>2
    <2> HIDE DEF l
    <2>3. o[l + 1] = o[l] + Width(s[l]) /\ Width(s[l]) \in Nat \ {0} /\ o[l] \in Nat /\ o[i] \in Nat
        BY <1>0, <2>1 DEF n
    <2>4. i < l + 1 => o[i] < o[l + 1]
        <3> SUFFICES ASSUME i < l + 1 PROVE o[i] < o[l + 1]
            OBVIOUS
        <3>1. i = l \/ i < l
            BY <1>0, <2>1 DEF n
        <3>2. CASE i = l
            BY <2>3, <3>2
        <3>3. CASE i < l
            BY <2>2, <2>3, <3>3
        <3> QED BY <3>1, <3>2, <3>3
    <2>5. l \in G
        BY <2>1, <2>4
    <2> QED BY <2>5 DEF l
<1>3. \A k \in 0..n : k \in G
    <2> HIDE DEF G
    <2> QED BY <1>0, <1>1, <1>2, CountUp
<1>4. j - 1 \in 0..n /\ (j - 1) + 1 = j
    BY <1>0 DEF n
<1> QED BY <1>3, <1>4 DEF o

(* The bytes between two characters are those between their positions.     *)
LEMMA BytesBetween ==
    ASSUME NEW s \in Seq(Alphabet), NEW i \in 1..(Len(s) + 1), NEW j \in 1..(Len(s) + 1), i <= j
    PROVE  Bytes(s, Offsets(s)[i], Offsets(s)[j]) = [st |-> "ok", v |-> SubSeq(s, i, j - 1)]
<1> DEFINE n == Len(s)
           o == Offsets(s)
           at(x) == CHOOSE k \in DOMAIN o : o[k] = x
<1>0. n \in Nat /\ DOMAIN o = 1..(n + 1) /\ o \in [1..(n + 1) -> Nat]
    BY OffsetsStart, LenProperties DEF Starting
<1>1. ASSUME NEW k \in 1..(n + 1), NEW l \in 1..(n + 1), o[k] = o[l] PROVE k = l
    <2>1. ~(k < l)
        <3> SUFFICES ASSUME k < l PROVE FALSE
            OBVIOUS
        <3>1. o[k] < o[l]
            BY OffsetsRise
        <3> HIDE DEF o, n
        <3> QED BY <1>0, <1>1, <3>1
    <2>2. ~(l < k)
        <3> SUFFICES ASSUME l < k PROVE FALSE
            OBVIOUS
        <3>1. o[l] < o[k]
            BY OffsetsRise
        <3> HIDE DEF o, n
        <3> QED BY <1>0, <1>1, <3>1
    <2> QED BY <1>0, <2>1, <2>2
<1>2. ASSUME NEW k \in 1..(n + 1) PROVE at(o[k]) = k
    <2>1. at(o[k]) \in DOMAIN o /\ o[at(o[k])] = o[k]
        BY <1>0
    <2> HIDE DEF at, o
    <2> QED BY <1>0, <1>1, <2>1
<1>3. o[i] <= o[j]
    <2>1. CASE i = j
        <3> HIDE DEF o
        <3> QED BY <1>0, <2>1
    <2>2. CASE i < j
        <3>1. o[i] < o[j]
            BY <2>2, OffsetsRise
        <3> HIDE DEF o
        <3> QED BY <1>0, <3>1
    <2> QED BY <1>0, <2>1, <2>2
<1>4. \A x \in { o[i], o[j] } : \E k \in DOMAIN o : o[k] = x
    BY <1>0
<1>5. Bytes(s, o[i], o[j]) = [st |-> "ok", v |-> SubSeq(s, at(o[i]), at(o[j]) - 1)]
    BY <1>3, <1>4 DEF Bytes
<1> HIDE DEF at
<1> QED BY <1>2, <1>5

LEMMA SliceIsSubSeq ==
    ASSUME NEW s \in Seq(Alphabet), NEW a \in 0..Len(s), NEW b \in 0..Len(s)
    PROVE  SliceText(s, a, b) = [st |-> "ok", v |-> IF a < b THEN SubSeq(s, a + 1, b) ELSE <<>>]
<1> DEFINE n == Len(s)
           o == Offsets(s)
<1>0. n \in Nat
    BY LenProperties
<1>1. CASE a < b
    <2>1. AfterSkip(s, 1, a) = [offset |-> o[a + 1], next |-> a + 2]
        <3>1. Smallest(1 + a, n + 1) = a + 1 /\ Smallest((a + 1) + 1, n + 1) = a + 2
            BY <1>0, <1>1 DEF Smallest
        <3> HIDE DEF o
        <3> QED BY <3>1 DEF AfterSkip, o
    <2>2. AfterSkip(s, a + 2, b - a - 1) = [offset |-> o[b + 1], next |-> Smallest((b + 1) + 1, n + 1)]
        <3>1. Smallest((a + 2) + (b - a - 1), n + 1) = b + 1
            BY <1>0, <1>1 DEF Smallest
        <3> HIDE DEF o
        <3> QED BY <3>1 DEF AfterSkip, o
    <2>3. SliceText(s, a, b) = Bytes(s, o[a + 1], o[b + 1])
        <3> HIDE DEF o
        <3> QED BY <1>1, <2>1, <2>2 DEF SliceText
    <2>4. a + 1 \in 1..(n + 1) /\ b + 1 \in 1..(n + 1) /\ a + 1 <= b + 1 /\ (b + 1) - 1 = b
        BY <1>0, <1>1
    <2>5. Bytes(s, o[a + 1], o[b + 1]) = [st |-> "ok", v |-> SubSeq(s, a + 1, (b + 1) - 1)]
        BY <2>4, BytesBetween
    <2> QED BY <1>1, <2>3, <2>4, <2>5
<1>2. CASE ~(a < b)
    BY <1>2 DEF SliceText
<1> QED BY <1>1, <1>2

(* SlicesByCharacter: a byte offset is only ever taken where a character   *)
(* starts, so str::get is never refused.                                   *)
THEOREM SubstringTheorem == Spec => []SlicesByCharacter
<1>1. Replied => SlicesByCharacter
    <2> DEFINE s == call.s
               n == Len(s)
               from == FromEnd(call.a, n)
               to == FromEnd(call.b, n)
               inside == { i \in DOMAIN s : from < i /\ i <= to }
               a == Wrap(call.a, n)
               b == Wrap(call.b, n)
    <2> SUFFICES ASSUME Replied, Answered("substring")
                 PROVE  /\ answer.st = "ok" /\ Len(answer.v) = Cardinality(inside)
                        /\ \A i \in inside : answer.v[i - (CHOOSE j \in inside : \A k \in inside : j <= k) + 1] = s[i]
        BY DEF SlicesByCharacter
    <2>1. call.op = "substring" /\ call \in Calls /\ answer = Answer(call)
        BY DEF Replied, Answered
    <2>2. s \in Seq(Alphabet) /\ call.a \in Int /\ call.b \in Int
        <3>1. /\ s \in TextsOf(MaxText - 1) /\ call.a \in (-MaxText - 1)..(MaxText + 1)
              /\ call.b \in (-MaxText - 1)..(MaxText + 1)
            BY <2>1 DEF Calls
        <3>2. PICK m \in 0..(MaxText - 1) : s \in [1..m -> Alphabet]
            BY <3>1 DEF TextsOf
        <3>3. m \in Nat
            BY CharacterAssumption
        <3> HIDE DEF s
        <3> QED BY <3>1, <3>2, <3>3, CharacterAssumption
    <2>3. answer = SliceText(s, a, b)
        BY <2>1 DEF Answer
    <2> HIDE DEF s
    <2>4. n \in Nat /\ DOMAIN s = 1..n
        BY <2>2, LenProperties
    <2>5. /\ a \in 0..n /\ \A i \in 0..(n - 1) : (a <= i) = (from <= i)
          /\ b \in 0..n /\ \A i \in 0..(n - 1) : (b <= i) = (to <= i)
        BY <2>2, <2>4, WrapLimits
    <2>6. answer = [st |-> "ok", v |-> IF a < b THEN SubSeq(s, a + 1, b) ELSE <<>>]
        BY <2>2, <2>3, <2>5, SliceIsSubSeq
    <2>7. from \in Int /\ to \in Int
        BY <2>2, <2>4 DEF FromEnd
    <2> HIDE DEF a, b, from, to, n
    <2>8. inside = (a + 1)..b
        <3>1. ASSUME NEW i \in 1..n PROVE (from < i /\ i <= to) <=> (a < i /\ i <= b)
            <4>1. i - 1 \in 0..(n - 1)
                BY <2>4
            <4>2. (a <= i - 1) = (from <= i - 1) /\ (b <= i - 1) = (to <= i - 1)
                BY <2>5, <4>1
            <4> QED BY <2>4, <2>5, <2>7, <4>2
        <3> QED BY <2>4, <2>5, <3>1
    <2> HIDE DEF inside
    <2>9. CASE a < b
        <3>1. answer.st = "ok" /\ answer.v = SubSeq(s, a + 1, b)
            BY <2>6, <2>9
        <3>2. a + 1 \in 1..n /\ b \in 1..n /\ a \in Int /\ b \in Int
            BY <2>4, <2>5, <2>9
        <3>3. Len(answer.v) = b - a /\ \A k \in 1..(b - a) : answer.v[k] = s[a + k]
            <4>1. Len(SubSeq(s, a + 1, b)) = b - (a + 1) + 1
                BY <2>2, <2>4, <2>9, <3>2, SubSeqProperties DEF n
            <4>2. \A k \in 1..(b - a) : SubSeq(s, a + 1, b)[k] = s[(a + 1) + k - 1]
                BY <2>2, <2>4, <2>9, <3>2, SubSeqProperties DEF n
            <4>3. b - (a + 1) + 1 = b - a /\ \A k \in 1..(b - a) : (a + 1) + k - 1 = a + k
                BY <3>2
            <4> QED BY <3>1, <4>1, <4>2, <4>3
        <3>4. Cardinality(inside) = b - a
            <4>1. Cardinality((a + 1)..b) = IF a + 1 > b THEN 0 ELSE b - (a + 1) + 1
                <5>1. a + 1 \in Int
                    BY <3>2
                <5> QED BY <3>2, <5>1, FS_Interval
            <4>2. ~(a + 1 > b) /\ b - (a + 1) + 1 = b - a
                BY <2>9, <3>2
            <4> QED BY <2>8, <4>1, <4>2
        <3>5. (CHOOSE j \in inside : \A k \in inside : j <= k) = a + 1
            <4>1. a + 1 \in inside /\ \A k \in inside : a + 1 <= k
                BY <2>8, <2>9, <3>2
            <4>2. \A j \in inside : (\A k \in inside : j <= k) => j = a + 1
                BY <2>8, <3>2, <4>1
            <4> QED BY <4>1, <4>2
        <3>6. ASSUME NEW i \in inside PROVE answer.v[i - (a + 1) + 1] = s[i]
            <4>1. i - (a + 1) + 1 \in 1..(b - a) /\ a + (i - (a + 1) + 1) = i
                BY <2>8, <3>2
            <4> QED BY <3>3, <4>1
        <3> QED BY <3>1, <3>3, <3>4, <3>5, <3>6
    <2>10. CASE ~(a < b)
        <3>1. inside = {}
            BY <2>4, <2>5, <2>8, <2>10
        <3>2. answer.st = "ok" /\ answer.v = <<>>
            BY <2>6, <2>10
        <3> QED BY <3>1, <3>2, FS_EmptySet
    <2> QED BY <2>9, <2>10
<1> QED BY <1>1, RepliedInvariant, PTL

-----------------------------------------------------------------------------
(* Lists of texts. *)

Texts == Seq(Alphabet)

(* A list folded from the left, and that it can be.                        *)
Folded(f, D, z, n) ==
    /\ f = [i \in 0..n |-> f[i]] /\ f[0] = z
    /\ \A i \in 1..n : f[i] = D[<< f[i - 1], i >>]

LEMMA FoldExists ==
    ASSUME NEW X, NEW n \in Nat, NEW z \in X, NEW D, \A x \in X : \A i \in 1..n : D[<< x, i >>] \in X
    PROVE  \E f \in [0..n -> X] : Folded(f, D, z, n)
<1> DEFINE G == { k \in 0..n : \E f \in [0..k -> X] : Folded(f, D, z, k) }
<1>1. 0 \in G
    <2> DEFINE f == [i \in 0..0 |-> z]
    <2>1. f \in [0..0 -> X] /\ f[0] = z
        OBVIOUS
    <2> HIDE DEF f
    <2>2. Folded(f, D, z, 0)
        BY <2>1 DEF Folded
    <2> QED BY <2>1, <2>2
<1>2. ASSUME NEW k \in 0..n, k < n, k \in G PROVE k + 1 \in G
    <2>1. PICK f \in [0..k -> X] : Folded(f, D, z, k)
        BY <1>2
    <2> DEFINE j == k + 1
               x == D[<< f[k], j >>]
               h == [i \in 0..j |-> IF i = j THEN x ELSE f[i]]
    <2>2. f[0] = z /\ \A i \in 1..k : f[i] = D[<< f[i - 1], i >>]
        BY <2>1 DEF Folded
    <2>3. j \in Nat /\ j \in 0..n /\ j \in 1..n /\ k \in 0..k /\ 0 \in 0..k /\ j - 1 = k /\ \A i \in 0..j : i = j \/ i \in 0..k
        BY <1>2
    <2>4. f[k] \in X
        BY <2>1, <2>3
    <2>5. x \in X
        <3> HIDE DEF j
        <3> QED BY <2>3, <2>4
    <2> HIDE DEF x
    <2>6. h \in [0..j -> X] /\ h[j] = x /\ \A i \in 0..k : h[i] = f[i]
        <3>1. \A i \in 0..j : h[i] \in X
            BY <2>1, <2>3, <2>5
        <3>2. \A i \in 0..k : i \in 0..j /\ i # j
            BY <1>2
        <3>3. j \in 0..j
            BY <1>2
        <3> HIDE DEF j
        <3> QED BY <3>1, <3>2, <3>3
    <2> HIDE DEF h
    <2>7. ASSUME NEW i \in 1..j PROVE h[i] = D[<< h[i - 1], i >>]
        <3>1. CASE i = j
            <4>1. h[i - 1] = f[k]
                BY <2>3, <2>6, <3>1
            <4> QED BY <2>6, <3>1, <4>1 DEF x
        <3>2. CASE i # j
            <4>1. i \in 1..k /\ i \in 0..k /\ i - 1 \in 0..k
                BY <1>2, <3>2
            <4>2. h[i] = f[i] /\ h[i - 1] = f[i - 1]
                BY <2>6, <4>1
            <4> QED BY <2>2, <4>1, <4>2
        <3> QED BY <3>1, <3>2
    <2>8. h[0] = z
        BY <2>2, <2>3, <2>6
    <2>9. Folded(h, D, z, j)
        <3> HIDE DEF j
        <3> QED BY <2>6, <2>7, <2>8 DEF Folded
    <2> HIDE DEF j
    <2>10. j \in G
        BY <2>3, <2>6, <2>9
    <2> QED BY <2>10 DEF j
<1>3. \A k \in 0..n : k \in G
    <2> HIDE DEF G
    <2> QED BY <1>1, <1>2, CountUp
<1>4. n \in 0..n
    OBVIOUS
<1> QED BY <1>3, <1>4

(* The recursions over a list of texts. *)
FilledTo(f, parts) ==
    /\ f[0] = <<>>
    /\ \A i \in 1..Len(parts) : f[i] = IF parts[i] = <<>> THEN f[i - 1] ELSE Append(f[i - 1], parts[i])
JoinedTo(f, parts, sep) ==
    /\ f[0] = <<>>
    /\ \A i \in 1..Len(parts) : f[i] = IF i = 1 THEN parts[1] ELSE f[i - 1] \o sep \o parts[i]
TotalTo(f, parts) ==
    /\ f[0] = 0
    /\ \A i \in 1..Len(parts) : f[i] = f[i - 1] + Len(parts[i])

LEMMA FilledIs ==
    ASSUME NEW parts \in Seq(Texts)
    PROVE  \E f \in [0..Len(parts) -> Seq(Texts)] : FilledTo(f, parts) /\ Filled(parts) = f[Len(parts)]
<1> DEFINE n == Len(parts)
           D == [p \in Seq(Texts) \X (1..n) |-> IF parts[p[2]] = <<>> THEN p[1] ELSE Append(p[1], parts[p[2]])]
           m == CHOOSE upTo : upTo = [i \in 0..n |-> IF i = 0 THEN <<>>
                                                     ELSE IF parts[i] = <<>> THEN upTo[i - 1]
                                                     ELSE Append(upTo[i - 1], parts[i])]
<1>0. n \in Nat /\ \A i \in 1..n : parts[i] \in Texts
    BY LenProperties
<1>1. \A x \in Seq(Texts) : \A i \in 1..n :
          D[<< x, i >>] = (IF parts[i] = <<>> THEN x ELSE Append(x, parts[i])) /\ D[<< x, i >>] \in Seq(Texts)
    BY <1>0
<1> HIDE DEF D
<1>2. PICK f \in [0..n -> Seq(Texts)] : Folded(f, D, <<>>, n)
    <2>1. <<>> \in Seq(Texts) /\ \A x \in Seq(Texts) : \A i \in 1..n : D[<< x, i >>] \in Seq(Texts)
        BY <1>1, EmptySeq
    <2> HIDE DEF n
    <2> QED BY <1>0, <2>1, FoldExists
<1>3. ASSUME NEW i \in 1..n PROVE f[i] = IF parts[i] = <<>> THEN f[i - 1] ELSE Append(f[i - 1], parts[i])
    <2>1. f[i - 1] \in Seq(Texts)
        BY <1>0, <1>2
    <2>2. f[i] = D[<< f[i - 1], i >>]
        BY <1>2 DEF Folded
    <2> QED BY <1>1, <2>1, <2>2
<1>4. f[0] = <<>> /\ f = [i \in 0..n |-> f[i]]
    BY <1>2 DEF Folded
<1>5. f = [i \in 0..n |-> IF i = 0 THEN <<>> ELSE IF parts[i] = <<>> THEN f[i - 1] ELSE Append(f[i - 1], parts[i])]
    <2>1. \A i \in 0..n : f[i] = IF i = 0 THEN <<>> ELSE IF parts[i] = <<>> THEN f[i - 1] ELSE Append(f[i - 1], parts[i])
        <3>1. \A i \in 0..n : i = 0 \/ i \in 1..n
            BY <1>0
        <3>2. \A i \in 1..n : i # 0 /\ f[i] = IF parts[i] = <<>> THEN f[i - 1] ELSE Append(f[i - 1], parts[i])
            BY <1>0, <1>3
        <3> HIDE DEF n
        <3> QED BY <1>4, <3>1, <3>2
    <2> HIDE DEF n
    <2> QED BY <1>4, <2>1, Zenon
<1>6. m = [i \in 0..n |-> IF i = 0 THEN <<>> ELSE IF parts[i] = <<>> THEN m[i - 1] ELSE Append(m[i - 1], parts[i])]
    BY <1>5
<1>7. Filled(parts) = m[n]
    BY DEF Filled
<1> HIDE DEF m, n
<1>8. m[0] = <<>> /\ \A i \in 1..n : m[i] = IF parts[i] = <<>> THEN m[i - 1] ELSE Append(m[i - 1], parts[i])
    <2>1. \A i \in 0..n : m[i] = IF i = 0 THEN <<>> ELSE IF parts[i] = <<>> THEN m[i - 1] ELSE Append(m[i - 1], parts[i])
        BY <1>6
    <2>2. 0 \in 0..n /\ \A i \in 1..n : i \in 0..n /\ i # 0
        BY <1>0
    <2> QED BY <2>1, <2>2
<1> DEFINE G == { i \in 0..n : m[i] = f[i] }
<1>9. 0 \in G
    BY <1>0, <1>4, <1>8
<1>10. ASSUME NEW k \in 0..n, k < n, k \in G PROVE k + 1 \in G
    <2>1. k + 1 \in 1..n /\ k + 1 \in 0..n /\ (k + 1) - 1 = k
        BY <1>0, <1>10
    <2>2. m[k] = f[k]
        BY <1>10
    <2>3. f[k + 1] = IF parts[k + 1] = <<>> THEN f[k] ELSE Append(f[k], parts[k + 1])
        BY <1>3, <2>1
    <2>4. m[k + 1] = IF parts[k + 1] = <<>> THEN m[k] ELSE Append(m[k], parts[k + 1])
        BY <1>8, <2>1
    <2> QED BY <2>1, <2>2, <2>3, <2>4
<1>11. \A k \in 0..n : k \in G
    <2> HIDE DEF G
    <2> QED BY <1>0, <1>9, <1>10, CountUp
<1>12. Filled(parts) = f[n]
    <2>1. n \in G
        BY <1>0, <1>11
    <2> QED BY <1>7, <2>1
<1>13. FilledTo(f, parts)
    BY <1>3, <1>4 DEF FilledTo, n
<1> QED BY <1>2, <1>12, <1>13 DEF n

LEMMA TextsJoin ==
    ASSUME NEW x \in Texts, NEW y \in Texts
    PROVE  x \o y \in Texts /\ Len(x \o y) = Len(x) + Len(y)
BY ConcatProperties DEF Texts

LEMMA JoinedIs ==
    ASSUME NEW parts \in Seq(Texts), NEW sep \in Texts
    PROVE  \E f \in [0..Len(parts) -> Texts] : JoinedTo(f, parts, sep) /\ Join(parts, sep) = f[Len(parts)]
<1> DEFINE n == Len(parts)
           D == [p \in Texts \X (1..n) |-> IF p[2] = 1 THEN parts[1] ELSE p[1] \o sep \o parts[p[2]]]
           m == CHOOSE upTo : upTo = [i \in 0..n |-> IF i = 0 THEN <<>>
                                                     ELSE IF i = 1 THEN parts[1]
                                                     ELSE upTo[i - 1] \o sep \o parts[i]]
<1>0. n \in Nat /\ \A i \in 1..n : parts[i] \in Texts
    BY LenProperties
<1>1. \A x \in Texts : \A i \in 1..n :
          D[<< x, i >>] = (IF i = 1 THEN parts[1] ELSE x \o sep \o parts[i]) /\ D[<< x, i >>] \in Texts
    <2>1. ASSUME NEW x \in Texts, NEW i \in 1..n PROVE parts[1] \in Texts /\ x \o sep \o parts[i] \in Texts
        <3>1. parts[1] \in Texts /\ parts[i] \in Texts
            BY <1>0
        <3>2. x \o sep \in Texts
            BY TextsJoin
        <3> QED BY <3>1, <3>2, TextsJoin
    <2> HIDE DEF n
    <2> QED BY <2>1
<1> HIDE DEF D
<1>2. PICK f \in [0..n -> Texts] : Folded(f, D, <<>>, n)
    <2>1. <<>> \in Texts /\ \A x \in Texts : \A i \in 1..n : D[<< x, i >>] \in Texts
        BY <1>1, EmptySeq DEF Texts
    <2> HIDE DEF n
    <2> QED BY <1>0, <2>1, FoldExists
<1>3. ASSUME NEW i \in 1..n PROVE f[i] = IF i = 1 THEN parts[1] ELSE f[i - 1] \o sep \o parts[i]
    <2>1. f[i - 1] \in Texts
        BY <1>0, <1>2
    <2>2. f[i] = D[<< f[i - 1], i >>]
        BY <1>2 DEF Folded
    <2> QED BY <1>1, <2>1, <2>2
<1>4. f[0] = <<>> /\ f = [i \in 0..n |-> f[i]]
    BY <1>2 DEF Folded
<1>5. f = [i \in 0..n |-> IF i = 0 THEN <<>> ELSE IF i = 1 THEN parts[1] ELSE f[i - 1] \o sep \o parts[i]]
    <2>1. \A i \in 0..n : f[i] = IF i = 0 THEN <<>> ELSE IF i = 1 THEN parts[1] ELSE f[i - 1] \o sep \o parts[i]
        <3>1. \A i \in 0..n : i = 0 \/ i \in 1..n
            BY <1>0
        <3>2. \A i \in 1..n : i # 0 /\ f[i] = IF i = 1 THEN parts[1] ELSE f[i - 1] \o sep \o parts[i]
            BY <1>0, <1>3
        <3> HIDE DEF n
        <3> QED BY <1>4, <3>1, <3>2
    <2> HIDE DEF n
    <2> QED BY <1>4, <2>1, Zenon
<1>6. m = [i \in 0..n |-> IF i = 0 THEN <<>> ELSE IF i = 1 THEN parts[1] ELSE m[i - 1] \o sep \o parts[i]]
    BY <1>5
<1>7. Join(parts, sep) = m[n]
    BY DEF Join
<1> HIDE DEF m, n
<1>8. m[0] = <<>> /\ \A i \in 1..n : m[i] = IF i = 1 THEN parts[1] ELSE m[i - 1] \o sep \o parts[i]
    <2>1. \A i \in 0..n : m[i] = IF i = 0 THEN <<>> ELSE IF i = 1 THEN parts[1] ELSE m[i - 1] \o sep \o parts[i]
        BY <1>6
    <2>2. 0 \in 0..n /\ \A i \in 1..n : i \in 0..n /\ i # 0
        BY <1>0
    <2> QED BY <2>1, <2>2
<1> DEFINE G == { i \in 0..n : m[i] = f[i] }
<1>9. 0 \in G
    BY <1>0, <1>4, <1>8
<1>10. ASSUME NEW k \in 0..n, k < n, k \in G PROVE k + 1 \in G
    <2>1. k + 1 \in 1..n /\ k + 1 \in 0..n /\ (k + 1) - 1 = k
        BY <1>0, <1>10
    <2>2. m[k] = f[k]
        BY <1>10
    <2>3. f[k + 1] = IF k + 1 = 1 THEN parts[1] ELSE f[k] \o sep \o parts[k + 1]
        BY <1>3, <2>1
    <2>4. m[k + 1] = IF k + 1 = 1 THEN parts[1] ELSE m[k] \o sep \o parts[k + 1]
        BY <1>8, <2>1
    <2> QED BY <2>1, <2>2, <2>3, <2>4
<1>11. \A k \in 0..n : k \in G
    <2> HIDE DEF G
    <2> QED BY <1>0, <1>9, <1>10, CountUp
<1>12. Join(parts, sep) = f[n]
    <2>1. n \in G
        BY <1>0, <1>11
    <2> QED BY <1>7, <2>1
<1>13. JoinedTo(f, parts, sep)
    BY <1>3, <1>4 DEF JoinedTo, n
<1> QED BY <1>2, <1>12, <1>13 DEF n

LEMMA TotalIs ==
    ASSUME NEW parts \in Seq(Texts)
    PROVE  \E f \in [0..Len(parts) -> Nat] : TotalTo(f, parts) /\ Total(parts) = f[Len(parts)]
<1> DEFINE n == Len(parts)
           D == [p \in Nat \X (1..n) |-> p[1] + Len(parts[p[2]])]
           m == CHOOSE upTo : upTo = [i \in 0..n |-> IF i = 0 THEN 0
                                                     ELSE upTo[i - 1] + Len(parts[i])]
<1>0. n \in Nat /\ \A i \in 1..n : parts[i] \in Texts /\ Len(parts[i]) \in Nat
    BY LenProperties DEF Texts
<1>1. \A x \in Nat : \A i \in 1..n :
          D[<< x, i >>] = (x + Len(parts[i])) /\ D[<< x, i >>] \in Nat
    BY <1>0
<1> HIDE DEF D
<1>2. PICK f \in [0..n -> Nat] : Folded(f, D, 0, n)
    <2>1. 0 \in Nat /\ \A x \in Nat : \A i \in 1..n : D[<< x, i >>] \in Nat
        BY <1>1
    <2> HIDE DEF n
    <2> QED BY <1>0, <2>1, FoldExists
<1>3. ASSUME NEW i \in 1..n PROVE f[i] = f[i - 1] + Len(parts[i])
    <2>1. f[i - 1] \in Nat
        BY <1>0, <1>2
    <2>2. f[i] = D[<< f[i - 1], i >>]
        BY <1>2 DEF Folded
    <2> QED BY <1>1, <2>1, <2>2
<1>4. f[0] = 0 /\ f = [i \in 0..n |-> f[i]]
    BY <1>2 DEF Folded
<1>5. f = [i \in 0..n |-> IF i = 0 THEN 0 ELSE f[i - 1] + Len(parts[i])]
    <2>1. \A i \in 0..n : f[i] = IF i = 0 THEN 0 ELSE f[i - 1] + Len(parts[i])
        <3>1. \A i \in 0..n : i = 0 \/ i \in 1..n
            BY <1>0
        <3>2. \A i \in 1..n : i # 0 /\ f[i] = f[i - 1] + Len(parts[i])
            BY <1>0, <1>3
        <3> HIDE DEF n
        <3> QED BY <1>4, <3>1, <3>2
    <2> HIDE DEF n
    <2> QED BY <1>4, <2>1, Zenon
<1>6. m = [i \in 0..n |-> IF i = 0 THEN 0 ELSE m[i - 1] + Len(parts[i])]
    BY <1>5
<1>7. Total(parts) = m[n]
    BY DEF Total
<1> HIDE DEF m, n
<1>8. m[0] = 0 /\ \A i \in 1..n : m[i] = m[i - 1] + Len(parts[i])
    <2>1. \A i \in 0..n : m[i] = IF i = 0 THEN 0 ELSE m[i - 1] + Len(parts[i])
        BY <1>6
    <2>2. 0 \in 0..n /\ \A i \in 1..n : i \in 0..n /\ i # 0
        BY <1>0
    <2> QED BY <2>1, <2>2
<1> DEFINE G == { i \in 0..n : m[i] = f[i] }
<1>9. 0 \in G
    BY <1>0, <1>4, <1>8
<1>10. ASSUME NEW k \in 0..n, k < n, k \in G PROVE k + 1 \in G
    <2>1. k + 1 \in 1..n /\ k + 1 \in 0..n /\ (k + 1) - 1 = k
        BY <1>0, <1>10
    <2>2. m[k] = f[k]
        BY <1>10
    <2>3. f[k + 1] = f[k] + Len(parts[k + 1])
        BY <1>3, <2>1
    <2>4. m[k + 1] = m[k] + Len(parts[k + 1])
        BY <1>8, <2>1
    <2> QED BY <2>1, <2>2, <2>3, <2>4
<1>11. \A k \in 0..n : k \in G
    <2> HIDE DEF G
    <2> QED BY <1>0, <1>9, <1>10, CountUp
<1>12. Total(parts) = f[n]
    <2>1. n \in G
        BY <1>0, <1>11
    <2> QED BY <1>7, <2>1
<1>13. TotalTo(f, parts)
    BY <1>3, <1>4 DEF TotalTo, n
<1> QED BY <1>2, <1>12, <1>13 DEF n

-----------------------------------------------------------------------------
(* Where a separator stands, and the parts it cuts a text into. *)

(* sep stands at i in t; where it does first, from p on.                   *)
Stands(t, sep, i) ==
    i \in 1..(Len(t) - Len(sep) + 1) /\ \A j \in 1..Len(sep) : t[i + j - 1] = sep[j]
FirstAt(t, sep, p, i) == i >= p /\ Stands(t, sep, i) /\ \A j \in p..(i - 1) : ~Stands(t, sep, j)
Nowhere(t, sep, p) == \A i \in p..(Len(t) + 1) : ~Stands(t, sep, i)

(* A separator that is not empty, and a text.                              *)
Splits(t, sep) == t \in Texts /\ sep \in Texts /\ sep # <<>>

LEMMA SplitType ==
    ASSUME NEW t, NEW sep, Splits(t, sep)
    PROVE  /\ t \in Seq(Alphabet) /\ sep \in Seq(Alphabet)
           /\ Len(t) \in Nat /\ DOMAIN t = 1..Len(t) /\ Len(sep) \in Nat \ {0}
           /\ \A i \in 1..Len(t) : t[i] \in Alphabet
<1>1. t \in Seq(Alphabet) /\ sep \in Seq(Alphabet) /\ sep # <<>>
    BY DEF Splits, Texts
<1>2. Len(sep) \in Nat \ {0}
    BY <1>1, EmptySeq
<1> QED BY <1>1, <1>2, LenProperties

LEMMA PieceType ==
    ASSUME NEW t \in Texts, NEW i \in 1..(Len(t) + 1), NEW j \in 0..Len(t), i <= j + 1
    PROVE  /\ SubSeq(t, i, j) \in Texts /\ Len(SubSeq(t, i, j)) = j - i + 1
           /\ \A k \in 1..(j - i + 1) : SubSeq(t, i, j)[k] = t[i + k - 1]
<1>1. t \in Seq(Alphabet) /\ Len(t) \in Nat
    BY LenProperties DEF Texts
<1>2. \A k \in i..j : t[k] \in Alphabet
    <2>1. \A k \in i..j : k \in 1..Len(t)
        BY <1>1
    <2> QED BY <1>1, <2>1, ElementOfSeq
<1>3. i \in Int /\ j \in Int
    BY <1>1
<1>4. /\ SubSeq(t, i, j) \in Seq(Alphabet)
      /\ Len(SubSeq(t, i, j)) = IF i <= j THEN j - i + 1 ELSE 0
      /\ \A k \in 1..(j - i + 1) : SubSeq(t, i, j)[k] = t[i + k - 1]
    BY <1>2, <1>3, SubSeqProperties
<1> QED BY <1>1, <1>3, <1>4 DEF Texts

LEMMA HitsStand ==
    ASSUME NEW t, NEW sep, Splits(t, sep), NEW p \in 1..(Len(t) + 1), NEW i \in Int
    PROVE  i \in Hits(t, sep, p) <=> i >= p /\ Stands(t, sep, i)
<1> DEFINE n == Len(t)
           m == Len(sep)
<1>1. n \in Nat /\ m \in Nat \ {0} /\ t \in Texts /\ sep \in Seq(Alphabet)
    BY SplitType DEF Texts
<1>2. i \in p..(n - m + 1) <=> i >= p /\ i \in 1..(n - m + 1)
    BY <1>1
<1>3. ASSUME i \in 1..(n - m + 1), i >= p
      PROVE  SubSeq(t, i, i + m - 1) = sep <=> \A j \in 1..m : t[i + j - 1] = sep[j]
    <2> DEFINE w == SubSeq(t, i, i + m - 1)
    <2>1. i \in 1..(n + 1) /\ i + m - 1 \in 0..n /\ i <= (i + m - 1) + 1 /\ (i + m - 1) - i + 1 = m
        BY <1>1, <1>3
    <2>2. w \in Texts /\ Len(w) = m /\ \A k \in 1..m : w[k] = t[i + k - 1]
        BY <1>1, <2>1, PieceType
    <2> HIDE DEF w
    <2>3. w = sep <=> \A j \in 1..m : w[j] = sep[j]
        <3>1. w \in Seq(Alphabet) /\ Len(w) = Len(sep)
            BY <2>2 DEF Texts
        <3> QED BY <1>1, <3>1, SeqEqual
    <2> QED BY <2>2, <2>3 DEF w
<1> QED BY <1>2, <1>3 DEF Hits, Stands

LEMMA HitsFirst ==
    ASSUME NEW t, NEW sep, Splits(t, sep), NEW p \in 1..(Len(t) + 1)
    PROVE  /\ Hits(t, sep, p) = {} <=> Nowhere(t, sep, p)
           /\ Hits(t, sep, p) # {} =>
                  \E i : /\ i = (CHOOSE k \in Hits(t, sep, p) : \A j \in Hits(t, sep, p) : k <= j)
                         /\ FirstAt(t, sep, p, i)
<1> DEFINE n == Len(t)
           m == Len(sep)
           H == Hits(t, sep, p)
<1>1. n \in Nat /\ m \in Nat \ {0} /\ p \in Nat
    BY SplitType
<1>2. H \subseteq Int
    BY <1>1 DEF Hits
<1>3. \A i \in Int : i \in H <=> i >= p /\ Stands(t, sep, i)
    BY HitsStand
<1>4. H = {} <=> Nowhere(t, sep, p)
    <2>1. ASSUME NEW i \in Int, i >= p, Stands(t, sep, i) PROVE i \in p..(n + 1)
        BY <1>1, <2>1 DEF Stands
    <2>2. \A i \in p..(n + 1) : i \in Int /\ i >= p
        BY <1>1
    <2> HIDE DEF H
    <2> QED BY <1>2, <1>3, <2>1, <2>2 DEF Nowhere
<1>5. ASSUME H # {} PROVE \E i : i = (CHOOSE k \in H : \A j \in H : k <= j) /\ FirstAt(t, sep, p, i)
    <2>1. H \in SUBSET Nat
        <3>1. \A i \in H : i \in Int /\ i >= p
            BY <1>2, <1>3
        <3> HIDE DEF H
        <3> QED BY <1>1, <3>1
    <2> HIDE DEF H
    <2>2. \E u \in H : \A w \in H : u <= w
        BY <1>5, <2>1, LeastUlp
    <2>3. PICK i \in H : i = (CHOOSE k \in H : \A j \in H : k <= j) /\ \A j \in H : i <= j
        BY <2>2
    <2>4. i \in Nat /\ i >= p /\ Stands(t, sep, i)
        BY <1>2, <1>3, <2>1
    <2>5. ASSUME NEW j \in p..(i - 1), Stands(t, sep, j) PROVE FALSE
        <3>1. j \in Int /\ j >= p /\ ~(i <= j)
            BY <1>1, <2>4
        <3> QED BY <1>3, <2>3, <2>5, <3>1
    <2> QED BY <2>3, <2>4, <2>5 DEF FirstAt
<1> QED BY <1>4, <1>5

(* What stands somewhere has room there, and one place is the first.       *)
LEMMA FirstRoom ==
    ASSUME NEW t, NEW sep, Splits(t, sep), NEW p \in 1..(Len(t) + 1), NEW i, FirstAt(t, sep, p, i)
    PROVE  /\ i \in p..Len(t) /\ i + Len(sep) \in (p + 1)..(Len(t) + 1)
           /\ ~Nowhere(t, sep, p)
           /\ \A k : FirstAt(t, sep, p, k) => k = i
<1> DEFINE n == Len(t)
           m == Len(sep)
<1>1. n \in Nat /\ m \in Nat \ {0} /\ p \in Nat
    BY SplitType
<1>2. i \in 1..(n - m + 1) /\ i >= p /\ Stands(t, sep, i)
    BY DEF FirstAt, Stands
<1>3. i \in p..n /\ i + m \in (p + 1)..(n + 1) /\ i \in p..(n + 1)
    BY <1>1, <1>2
<1>4. ASSUME NEW k, FirstAt(t, sep, p, k) PROVE k = i
    <2>1. k \in Int /\ k >= p /\ Stands(t, sep, k) /\ \A j \in p..(k - 1) : ~Stands(t, sep, j)
        <3>1. k >= p /\ Stands(t, sep, k) /\ \A j \in p..(k - 1) : ~Stands(t, sep, j)
            BY <1>4, Zenon DEF FirstAt
        <3>2. k \in 1..(n - m + 1)
            BY <3>1, Zenon DEF Stands
        <3>3. k \in Int
            BY <1>1, <3>2
        <3> QED BY <3>1, <3>3
    <2>2. ~(i < k)
        <3> SUFFICES ASSUME i < k PROVE FALSE
            OBVIOUS
        <3>1. i \in p..(k - 1)
            BY <1>1, <1>2, <2>1
        <3> QED BY <1>2, <2>1, <3>1
    <2>3. ~(k < i)
        <3> SUFFICES ASSUME k < i PROVE FALSE
            OBVIOUS
        <3>1. k \in p..(i - 1)
            BY <1>1, <1>2, <2>1
        <3> QED BY <2>1, <3>1 DEF FirstAt
    <2> QED BY <1>2, <2>1, <2>2, <2>3
<1> QED BY <1>2, <1>3, <1>4 DEF Nowhere

(* f has, at p, the parts of t from p on.                                  *)
CutsAt(f, t, sep, p) ==
    /\ Nowhere(t, sep, p) => f[p] = << SubSeq(t, p, Len(t)) >>
    /\ \A i : FirstAt(t, sep, p, i) => f[p] = << SubSeq(t, p, i - 1) >> \o f[i + Len(sep)]
CutsFrom(f, t, sep, q) ==
    /\ f \in [q..(Len(t) + 1) -> Seq(Texts)]
    /\ \A p \in q..(Len(t) + 1) : CutsAt(f, t, sep, p)

LEMMA FirstOrNowhere ==
    ASSUME NEW t, NEW sep, Splits(t, sep), NEW p \in 1..(Len(t) + 1)
    PROVE  Nowhere(t, sep, p) \/ \E i : FirstAt(t, sep, p, i)
BY HitsFirst

LEMMA OnePart ==
    ASSUME NEW x \in Texts
    PROVE  << x >> \in Seq(Texts) /\ Len(<< x >>) = 1 /\ << x >>[1] = x
OBVIOUS

LEMMA PartsJoin ==
    ASSUME NEW x \in Texts, NEW ps \in Seq(Texts)
    PROVE  /\ << x >> \o ps \in Seq(Texts) /\ Len(<< x >> \o ps) = Len(ps) + 1
           /\ (<< x >> \o ps)[1] = x /\ \A i \in 1..Len(ps) : (<< x >> \o ps)[i + 1] = ps[i]
<1> DEFINE a == << x >>
<1>1. a \in Seq(Texts) /\ Len(a) = 1 /\ a[1] = x
    BY OnePart
<1> HIDE DEF a
<1>2. Len(ps) \in Nat
    BY LenProperties
<1>3. /\ a \o ps \in Seq(Texts) /\ Len(a \o ps) = 1 + Len(ps)
      /\ \A i \in 1..(1 + Len(ps)) : (a \o ps)[i] = IF i <= 1 THEN a[i] ELSE ps[i - 1]
    <2>1. /\ a \o ps \in Seq(Texts) /\ Len(a \o ps) = Len(a) + Len(ps)
          /\ \A i \in 1..(Len(a) + Len(ps)) : (a \o ps)[i] = IF i <= Len(a) THEN a[i] ELSE ps[i - Len(a)]
        BY <1>1, ConcatProperties
    <2> QED BY <1>1, <2>1
<1>4. (a \o ps)[1] = x
    BY <1>1, <1>2, <1>3
<1>5. ASSUME NEW i \in 1..Len(ps) PROVE (a \o ps)[i + 1] = ps[i]
    <2>1. i + 1 \in 1..(1 + Len(ps)) /\ ~(i + 1 <= 1) /\ (i + 1) - 1 = i
        BY <1>2
    <2> QED BY <1>3, <2>1
<1>6. Len(a \o ps) = Len(ps) + 1
    BY <1>2, <1>3
<1> QED BY <1>3, <1>4, <1>5, <1>6 DEF a

LEMMA CutsExist ==
    ASSUME NEW t, NEW sep, Splits(t, sep)
    PROVE  \E f : CutsFrom(f, t, sep, 1)
<1> DEFINE n == Len(t)
           m == Len(sep)
           G == { k \in 0..n : \E f : CutsFrom(f, t, sep, n + 1 - k) }
<1>0. n \in Nat /\ m \in Nat \ {0} /\ t \in Texts
    BY SplitType DEF Splits
<1>1. 0 \in G
    <2> DEFINE q == n + 1
               x == SubSeq(t, q, n)
               f == [p \in q..(n + 1) |-> << x >>]
    <2>1. q \in 1..(n + 1) /\ q \in Int /\ \A p \in q..(n + 1) : p = q
        BY <1>0
    <2>2. x \in Texts
        <3>1. n \in 0..n /\ q <= n + 1
            BY <1>0
        <3> QED BY <1>0, <2>1, <3>1, PieceType
    <2>3. \A i : ~FirstAt(t, sep, q, i)
        <3> SUFFICES ASSUME NEW i, FirstAt(t, sep, q, i) PROVE FALSE
            OBVIOUS
        <3>1. i \in q..n
            BY <2>1, FirstRoom
        <3> QED BY <1>0, <3>1
    <2> HIDE DEF x
    <2>4. << x >> \in Seq(Texts)
        BY <2>2
    <2>5. f \in [q..(n + 1) -> Seq(Texts)] /\ f[q] = << x >>
        <3> HIDE DEF q
        <3>1. q \in q..(n + 1)
            BY <1>0, <2>1
        <3> QED BY <2>4, <3>1
    <2> HIDE DEF f
    <2>6. CutsAt(f, t, sep, q)
        BY <2>3, <2>5 DEF CutsAt, x
    <2>7. CutsFrom(f, t, sep, q)
        BY <2>1, <2>5, <2>6 DEF CutsFrom
    <2>8. n + 1 - 0 = q /\ 0 \in 0..n
        BY <1>0
    <2> HIDE DEF q
    <2> QED BY <2>7, <2>8
<1>2. ASSUME NEW k \in 0..n, k < n, k \in G PROVE k + 1 \in G
    <2> DEFINE q == n + 1 - k
               o == n + 1 - (k + 1)
    <2>1. PICK f : CutsFrom(f, t, sep, q)
        BY <1>2
    <2>2. q \in 1..(n + 1) /\ o \in 1..(n + 1) /\ o \in Nat /\ q = o + 1 /\ \A p \in o..(n + 1) : p = o \/ p \in q..(n + 1)
        BY <1>0, <1>2
    <2> HIDE DEF q, o
    <2>3. PICK x \in Seq(Texts) : /\ Nowhere(t, sep, o) => x = << SubSeq(t, o, n) >>
                                  /\ \A i : FirstAt(t, sep, o, i) => x = << SubSeq(t, o, i - 1) >> \o f[i + m]
        <3>1. CASE Nowhere(t, sep, o)
            <4> DEFINE x == SubSeq(t, o, n)
            <4>1. x \in Texts
                <5>1. n \in 0..n /\ o <= n + 1
                    BY <1>0, <2>2
                <5> QED BY <1>0, <2>2, <5>1, PieceType
            <4>2. \A i : ~FirstAt(t, sep, o, i)
                BY <2>2, <3>1, FirstRoom
            <4> HIDE DEF x
            <4>3. << x >> \in Seq(Texts)
                BY <4>1
            <4> QED BY <4>2, <4>3 DEF x
        <3>2. ASSUME NEW i, FirstAt(t, sep, o, i)
              PROVE  \E x \in Seq(Texts) : /\ Nowhere(t, sep, o) => x = << SubSeq(t, o, n) >>
                                           /\ \A j : FirstAt(t, sep, o, j) => x = << SubSeq(t, o, j - 1) >> \o f[j + m]
            <4>1. i \in o..n /\ i + m \in (o + 1)..(n + 1) /\ ~Nowhere(t, sep, o) /\ \A j : FirstAt(t, sep, o, j) => j = i
                BY <2>2, <3>2, FirstRoom
            <4>2. f[i + m] \in Seq(Texts)
                BY <2>1, <2>2, <4>1 DEF CutsFrom
            <4> DEFINE w == SubSeq(t, o, i - 1)
            <4>3. w \in Texts
                <5>1. i - 1 \in 0..n /\ o <= (i - 1) + 1
                    BY <1>0, <2>2, <4>1
                <5> QED BY <1>0, <2>2, <5>1, PieceType
            <4> HIDE DEF w
            <4>4. << w >> \o f[i + m] \in Seq(Texts)
                BY <4>2, <4>3, PartsJoin
            <4> DEFINE x == << w >> \o f[i + m]
            <4>5. x \in Seq(Texts) /\ \A j : FirstAt(t, sep, o, j) => x = << SubSeq(t, o, j - 1) >> \o f[j + m]
                BY <4>1, <4>4 DEF w
            <4> HIDE DEF x
            <4> QED BY <4>1, <4>5
        <3> QED BY <2>2, <3>1, <3>2, FirstOrNowhere
    <2> DEFINE h == [p \in o..(n + 1) |-> IF p = o THEN x ELSE f[p]]
    <2>4. h \in [o..(n + 1) -> Seq(Texts)] /\ h[o] = x /\ \A p \in q..(n + 1) : h[p] = f[p]
        <3>1. \A p \in o..(n + 1) : h[p] \in Seq(Texts)
            BY <2>1, <2>2, <2>3 DEF CutsFrom
        <3>2. o \in o..(n + 1) /\ \A p \in q..(n + 1) : p \in o..(n + 1) /\ p # o
            BY <1>0, <2>2
        <3> QED BY <3>1, <3>2
    <2> HIDE DEF h
    <2>5. ASSUME NEW p \in o..(n + 1), NEW i, FirstAt(t, sep, p, i) PROVE h[i + m] = f[i + m]
        <3>1. p \in 1..(n + 1)
            BY <1>0, <2>2
        <3>2. i + m \in (p + 1)..(n + 1)
            BY <2>5, <3>1, FirstRoom
        <3>3. i + m \in q..(n + 1)
            BY <1>0, <2>2, <3>1, <3>2
        <3> QED BY <2>4, <3>3
    <2>6. ASSUME NEW p \in o..(n + 1) PROVE CutsAt(h, t, sep, p)
        <3>1. CASE p = o
            <4>1. Nowhere(t, sep, p) => h[p] = << SubSeq(t, p, n) >>
                BY <2>3, <2>4, <3>1
            <4>2. ASSUME NEW i, FirstAt(t, sep, p, i) PROVE h[p] = << SubSeq(t, p, i - 1) >> \o h[i + m]
                BY <2>3, <2>4, <2>5, <3>1, <4>2
            <4> QED BY <4>1, <4>2 DEF CutsAt
        <3>2. CASE p \in q..(n + 1)
            <4>1. CutsAt(f, t, sep, p) /\ h[p] = f[p]
                BY <2>1, <2>4, <3>2 DEF CutsFrom
            <4>2. ASSUME NEW i, FirstAt(t, sep, p, i) PROVE h[p] = << SubSeq(t, p, i - 1) >> \o h[i + m]
                BY <2>5, <4>1, <4>2 DEF CutsAt
            <4> QED BY <4>1, <4>2 DEF CutsAt
        <3> QED BY <2>2, <3>1, <3>2
    <2>7. CutsFrom(h, t, sep, o)
        BY <2>4, <2>6 DEF CutsFrom
    <2>8. k + 1 \in 0..n
        BY <1>0, <1>2
    <2> QED BY <2>7, <2>8 DEF o
<1>3. \A k \in 0..n : k \in G
    <2> HIDE DEF G
    <2> QED BY <1>0, <1>1, <1>2, CountUp
<1>4. n \in 0..n /\ n + 1 - n = 1
    BY <1>0
<1> QED BY <1>3, <1>4

LEMMA CutsUnique ==
    ASSUME NEW t, NEW sep, Splits(t, sep), NEW f, NEW g,
           \A p \in 1..(Len(t) + 1) : CutsAt(f, t, sep, p) /\ CutsAt(g, t, sep, p)
    PROVE  \A p \in 1..(Len(t) + 1) : f[p] = g[p]
<1> DEFINE n == Len(t)
           m == Len(sep)
           G == { k \in 0..n : \A p \in (n + 1 - k)..(n + 1) : f[p] = g[p] }
<1>0. n \in Nat /\ m \in Nat \ {0}
    BY SplitType
<1>1. ASSUME NEW p \in 1..(n + 1), \A j \in (p + 1)..(n + 1) : f[j] = g[j] PROVE f[p] = g[p]
    <2>1. CASE Nowhere(t, sep, p)
        BY <2>1 DEF CutsAt
    <2>2. ASSUME NEW i, FirstAt(t, sep, p, i) PROVE f[p] = g[p]
        <3>1. i + m \in (p + 1)..(n + 1)
            BY <2>2, FirstRoom
        <3>2. f[i + m] = g[i + m]
            BY <1>1, <3>1
        <3>3. /\ f[p] = << SubSeq(t, p, i - 1) >> \o f[i + m]
              /\ g[p] = << SubSeq(t, p, i - 1) >> \o g[i + m]
            BY <2>2, Zenon DEF CutsAt
        <3> QED BY <3>2, <3>3, Zenon
    <2> QED BY <2>1, <2>2, FirstOrNowhere
<1>2. 0 \in G
    <2>1. n + 1 \in 1..(n + 1) /\ (\A j \in ((n + 1) + 1)..(n + 1) : FALSE)
        BY <1>0
    <2>2. f[n + 1] = g[n + 1]
        BY <1>1, <2>1
    <2>3. 0 \in 0..n /\ \A p \in (n + 1 - 0)..(n + 1) : p = n + 1
        BY <1>0
    <2> QED BY <2>2, <2>3
<1>3. ASSUME NEW k \in 0..n, k < n, k \in G PROVE k + 1 \in G
    <2> DEFINE o == n + 1 - (k + 1)
    <2>1. o \in 1..(n + 1) /\ o + 1 = n + 1 - k /\ k + 1 \in 0..n /\ \A p \in o..(n + 1) : p = o \/ p \in (o + 1)..(n + 1)
        BY <1>0, <1>3
    <2> HIDE DEF o
    <2>2. \A j \in (o + 1)..(n + 1) : f[j] = g[j]
        BY <1>3, <2>1
    <2>3. f[o] = g[o]
        BY <1>1, <2>1, <2>2
    <2>4. \A p \in o..(n + 1) : f[p] = g[p]
        BY <2>1, <2>2, <2>3
    <2> QED BY <2>1, <2>4 DEF o
<1>4. \A k \in 0..n : k \in G
    <2> HIDE DEF G
    <2> QED BY <1>0, <1>2, <1>3, CountUp
<1>5. n \in 0..n /\ n + 1 - n = 1
    BY <1>0
<1> QED BY <1>4, <1>5

LEMMA SplitAtIs ==
    ASSUME NEW t, NEW sep, Splits(t, sep)
    PROVE  \E f : CutsFrom(f, t, sep, 1) /\ SplitAt(t, sep) = f[1]
<1> DEFINE n == Len(t)
           m == Len(sep)
           hit(p) == CHOOSE i \in Hits(t, sep, p) : \A j \in Hits(t, sep, p) : i <= j
           body(f, p) == IF Hits(t, sep, p) = {} THEN << SubSeq(t, p, n) >>
                         ELSE << SubSeq(t, p, hit(p) - 1) >> \o f[hit(p) + m]
           c == CHOOSE from : from = [p \in 1..(n + 1) |-> body(from, p)]
<1>0. n \in Nat /\ 1 \in 1..(n + 1)
    BY SplitType
<1>1. PICK f : CutsFrom(f, t, sep, 1)
    BY CutsExist
<1>2. ASSUME NEW g, NEW p \in 1..(n + 1) PROVE CutsAt(g, t, sep, p) <=> g[p] = body(g, p)
    <2>1. CASE Hits(t, sep, p) = {}
        <3>1. Nowhere(t, sep, p) /\ \A i : ~FirstAt(t, sep, p, i)
            BY <2>1, HitsFirst, FirstRoom
        <3> QED BY <2>1, <3>1 DEF CutsAt
    <2>2. CASE Hits(t, sep, p) # {}
        <3>1. FirstAt(t, sep, p, hit(p))
            BY <2>2, HitsFirst
        <3>2. ~Nowhere(t, sep, p) /\ \A i : FirstAt(t, sep, p, i) => i = hit(p)
            BY <3>1, FirstRoom
        <3> DEFINE i == hit(p)
        <3>3. body(g, p) = << SubSeq(t, p, i - 1) >> \o g[i + m]
            BY <2>2
        <3> HIDE DEF hit, body
        <3> QED BY <3>1, <3>2, <3>3 DEF CutsAt
    <2> QED BY <2>1, <2>2
<1>3. SplitAt(t, sep) = c[1]
    BY DEF SplitAt
<1>4. f = [p \in 1..(n + 1) |-> body(f, p)]
    <2>1. f = [p \in 1..(n + 1) |-> f[p]]
        BY <1>1 DEF CutsFrom
    <2>2. \A p \in 1..(n + 1) : f[p] = body(f, p)
        BY <1>1, <1>2 DEF CutsFrom
    <2> HIDE DEF body, n
    <2> QED BY <2>1, <2>2, Zenon
<1>5. c = [p \in 1..(n + 1) |-> body(c, p)]
    <2> HIDE DEF body
    <2> QED BY <1>4
<1> HIDE DEF c, body
<1>6. \A p \in 1..(n + 1) : c[p] = body(c, p)
    BY <1>5
<1>7. \A p \in 1..(n + 1) : CutsAt(f, t, sep, p) /\ CutsAt(c, t, sep, p)
    BY <1>1, <1>2, <1>6 DEF CutsFrom
<1>8. c[1] = f[1]
    BY <1>0, <1>7, CutsUnique
<1> QED BY <1>1, <1>3, <1>8

(* ps are the parts of t from p on, and each one starts where h says.      *)
Chain(t, sep, ps, h, p) ==
    /\ ps \in Seq(Texts) /\ ps # <<>>
    /\ h \in [1..Len(ps) -> 1..(Len(t) + 1)] /\ h[1] = p
    /\ \A i \in 1..(Len(ps) - 1) : /\ FirstAt(t, sep, h[i], h[i + 1] - Len(sep))
                                   /\ ps[i] = SubSeq(t, h[i], h[i + 1] - Len(sep) - 1)
    /\ Nowhere(t, sep, h[Len(ps)]) /\ ps[Len(ps)] = SubSeq(t, h[Len(ps)], Len(t))

LEMMA ChainMore ==
    ASSUME NEW t, NEW sep, Splits(t, sep), NEW p \in 1..(Len(t) + 1), NEW i, FirstAt(t, sep, p, i),
           NEW ps, NEW h, Chain(t, sep, ps, h, i + Len(sep))
    PROVE  \E g : Chain(t, sep, << SubSeq(t, p, i - 1) >> \o ps, g, p)
<1> DEFINE n == Len(t)
           m == Len(sep)
           K == Len(ps)
           x == SubSeq(t, p, i - 1)
           qs == << x >> \o ps
           g == [j \in 1..(K + 1) |-> IF j = 1 THEN p ELSE h[j - 1]]
<1>0. n \in Nat /\ m \in Nat \ {0} /\ t \in Texts
    BY SplitType DEF Splits
<1>1. i \in p..n /\ i + m \in (p + 1)..(n + 1)
    BY FirstRoom
<1>2. ps \in Seq(Texts) /\ K \in Nat \ {0}
    BY EmptySeq DEF Chain
<1>3. h \in [1..K -> 1..(n + 1)] /\ h[1] = i + m
    BY DEF Chain
<1>4. x \in Texts
    <2>1. i - 1 \in 0..n /\ p <= (i - 1) + 1
        BY <1>0, <1>1
    <2> QED BY <1>0, <2>1, PieceType
<1> HIDE DEF x
<1>5. qs \in Seq(Texts) /\ Len(qs) = K + 1 /\ qs[1] = x /\ \A j \in 1..K : qs[j + 1] = ps[j]
    BY <1>2, <1>4, PartsJoin
<1>6. g \in [1..(K + 1) -> 1..(n + 1)] /\ g[1] = p /\ \A j \in 1..K : g[j + 1] = h[j]
    <2> HIDE DEF K, n
    <2>1. ASSUME NEW j \in 1..(K + 1), j # 1 PROVE h[j - 1] \in 1..(n + 1)
        <3>1. j - 1 \in 1..K
            BY <1>2, <2>1
        <3> QED BY <1>3, <3>1
    <2>2. 1 \in 1..(K + 1) /\ \A j \in 1..K : j + 1 \in 1..(K + 1) /\ j + 1 # 1 /\ (j + 1) - 1 = j
        BY <1>2
    <2>3. p \in 1..(n + 1)
        BY DEF n
    <2>4. \A j \in 1..(K + 1) : g[j] \in 1..(n + 1)
        BY <2>1, <2>3
    <2>5. \A j \in 1..K : g[j + 1] = h[(j + 1) - 1]
        BY <2>2
    <2> QED BY <2>2, <2>4, <2>5
<1> HIDE DEF qs, g
<1>7. ASSUME NEW j \in 1..K
      PROVE  FirstAt(t, sep, g[j], g[j + 1] - m) /\ qs[j] = SubSeq(t, g[j], g[j + 1] - m - 1)
    <2>1. CASE j = 1
        <3>1. g[j] = p /\ g[j + 1] = i + m
            BY <1>2, <1>3, <1>6, <2>1
        <3>2. g[j + 1] - m = i
            BY <1>0, <1>1, <3>1
        <3> QED BY <1>5, <2>1, <3>1, <3>2 DEF x
    <2>2. CASE j # 1
        <3> DEFINE k == j - 1
        <3>1. k \in 1..(K - 1) /\ k \in 1..K /\ k + 1 \in 1..K /\ j = k + 1
            BY <1>2, <2>2
        <3> HIDE DEF k
        <3>2. g[j] = h[k] /\ g[j + 1] = h[k + 1] /\ qs[j] = ps[k]
            BY <1>5, <1>6, <3>1
        <3>3. FirstAt(t, sep, h[k], h[k + 1] - m) /\ ps[k] = SubSeq(t, h[k], h[k + 1] - m - 1)
            BY <3>1 DEF Chain
        <3> QED BY <3>2, <3>3
    <2> QED BY <2>1, <2>2
<1>8. Nowhere(t, sep, g[K + 1]) /\ qs[K + 1] = SubSeq(t, g[K + 1], n)
    <2>1. K \in 1..K
        BY <1>2
    <2>2. g[K + 1] = h[K] /\ qs[K + 1] = ps[K]
        BY <1>5, <1>6, <2>1
    <2> QED BY <2>2 DEF Chain
<1>9. qs # <<>> /\ (K + 1) - 1 = K
    BY <1>2, <1>5, EmptySeq
<1>10. Chain(t, sep, qs, g, p)
    <2> HIDE DEF K
    <2> QED BY <1>5, <1>6, <1>7, <1>8, <1>9 DEF Chain
<1> QED BY <1>10 DEF qs, x

LEMMA ChainExists ==
    ASSUME NEW t, NEW sep, Splits(t, sep), NEW f, CutsFrom(f, t, sep, 1)
    PROVE  \A p \in 1..(Len(t) + 1) : \E h : Chain(t, sep, f[p], h, p)
<1> DEFINE n == Len(t)
           m == Len(sep)
           G == { k \in 0..n : \A p \in (n + 1 - k)..(n + 1) : \E h : Chain(t, sep, f[p], h, p) }
<1>0. n \in Nat /\ m \in Nat \ {0} /\ t \in Texts
    BY SplitType DEF Splits
<1>1. ASSUME NEW p \in 1..(n + 1), \A j \in (p + 1)..(n + 1) : \E h : Chain(t, sep, f[j], h, j)
      PROVE  \E h : Chain(t, sep, f[p], h, p)
    <2>0. CutsAt(f, t, sep, p)
        BY DEF CutsFrom
    <2>1. CASE Nowhere(t, sep, p)
        <3> DEFINE x == SubSeq(t, p, n)
                   h == [j \in 1..1 |-> p]
        <3>1. x \in Texts
            <4>1. n \in 0..n /\ p <= n + 1
                BY <1>0
            <4> QED BY <1>0, <4>1, PieceType
        <3>2. f[p] = << x >>
            BY <2>0, <2>1 DEF CutsAt
        <3>3. h \in [1..1 -> 1..(n + 1)] /\ h[1] = p
            OBVIOUS
        <3> HIDE DEF x, h
        <3>4. f[p] \in Seq(Texts) /\ Len(f[p]) = 1 /\ f[p][1] = x /\ f[p] # <<>>
            BY <3>1, <3>2, OnePart
        <3>5. 1..(1 - 1) = {}
            OBVIOUS
        <3>6. Chain(t, sep, f[p], h, p)
            BY <2>1, <3>3, <3>4, <3>5 DEF Chain, x
        <3> QED BY <3>6
    <2>2. ASSUME NEW i, FirstAt(t, sep, p, i) PROVE \E h : Chain(t, sep, f[p], h, p)
        <3>1. i + m \in (p + 1)..(n + 1)
            BY <2>2, FirstRoom
        <3>2. PICK h : Chain(t, sep, f[i + m], h, i + m)
            BY <1>1, <3>1
        <3>3. f[p] = << SubSeq(t, p, i - 1) >> \o f[i + m]
            BY <2>0, <2>2 DEF CutsAt
        <3>4. \E g : Chain(t, sep, << SubSeq(t, p, i - 1) >> \o f[i + m], g, p)
            BY <2>2, <3>2, ChainMore
        <3> QED BY <3>3, <3>4
    <2> QED BY <2>1, <2>2, FirstOrNowhere
<1>2. 0 \in G
    <2>1. n + 1 \in 1..(n + 1) /\ (\A j \in ((n + 1) + 1)..(n + 1) : FALSE)
        BY <1>0
    <2>2. \E h : Chain(t, sep, f[n + 1], h, n + 1)
        BY <1>1, <2>1
    <2>3. 0 \in 0..n /\ \A p \in (n + 1 - 0)..(n + 1) : p = n + 1
        BY <1>0
    <2> QED BY <2>2, <2>3
<1>3. ASSUME NEW k \in 0..n, k < n, k \in G PROVE k + 1 \in G
    <2> DEFINE o == n + 1 - (k + 1)
    <2>1. o \in 1..(n + 1) /\ o + 1 = n + 1 - k /\ k + 1 \in 0..n /\ \A p \in o..(n + 1) : p = o \/ p \in (o + 1)..(n + 1)
        BY <1>0, <1>3
    <2> HIDE DEF o
    <2>2. \A j \in (o + 1)..(n + 1) : \E h : Chain(t, sep, f[j], h, j)
        BY <1>3, <2>1
    <2>3. \E h : Chain(t, sep, f[o], h, o)
        BY <1>1, <2>1, <2>2
    <2>4. \A p \in o..(n + 1) : \E h : Chain(t, sep, f[p], h, p)
        BY <2>1, <2>2, <2>3
    <2> QED BY <2>1, <2>4 DEF o
<1>4. \A k \in 0..n : k \in G
    <2> HIDE DEF G
    <2> QED BY <1>0, <1>2, <1>3, CountUp
<1>5. n \in 0..n /\ n + 1 - n = 1
    BY <1>0
<1> QED BY <1>4, <1>5

LEMMA ChainOnly ==
    ASSUME NEW t, NEW sep, Splits(t, sep), NEW f, CutsFrom(f, t, sep, 1),
           NEW ps, NEW h, NEW p, Chain(t, sep, ps, h, p)
    PROVE  f[p] = ps
<1> DEFINE n == Len(t)
           m == Len(sep)
           K == Len(ps)
           G == { k \in 0..(K - 1) : f[h[K - k]] = SubSeq(ps, K - k, K) }
<1>0. n \in Nat /\ m \in Nat \ {0} /\ t \in Texts
    BY SplitType DEF Splits
<1>1. ps \in Seq(Texts) /\ K \in Nat \ {0}
    BY EmptySeq DEF Chain
<1>2. h \in [1..K -> 1..(n + 1)] /\ h[1] = p
    BY DEF Chain
<1>3. ASSUME NEW k \in 1..K PROVE h[k] \in 1..(n + 1) /\ CutsAt(f, t, sep, h[k])
    BY <1>2 DEF CutsFrom
<1>4. 0 \in G
    <2>1. K \in 1..K /\ K - 0 = K /\ 0 \in 0..(K - 1)
        BY <1>1
    <2>2. f[h[K]] = << ps[K] >>
        BY <1>3, <2>1 DEF Chain, CutsAt
    <2>3. SubSeq(ps, K, K) = << ps[K] >>
        <3>1. SubSeq(ps, K, K) = << ps[K] >> \o SubSeq(ps, K + 1, K)
            BY <1>1, <2>1, SubSeqRecursiveFirst
        <3>2. SubSeq(ps, K + 1, K) = <<>>
            BY <1>1, SubSeqEmpty
        <3>3. << ps[K] >> \in Seq(Texts)
            BY <1>1, <2>1, ElementOfSeq, OnePart
        <3> QED BY <3>1, <3>2, <3>3, ConcatEmptySeq
    <2> QED BY <2>1, <2>2, <2>3
<1>5. ASSUME NEW k \in 0..(K - 1), k < K - 1, k \in G PROVE k + 1 \in G
    <2> DEFINE i == K - (k + 1)
    <2>1. i \in 1..(K - 1) /\ i \in 1..K /\ i + 1 \in 1..K /\ K - k = i + 1 /\ k + 1 \in 0..(K - 1) /\ K \in i..K
        BY <1>1, <1>5
    <2> HIDE DEF i
    <2>2. FirstAt(t, sep, h[i], h[i + 1] - m) /\ ps[i] = SubSeq(t, h[i], h[i + 1] - m - 1)
        BY <2>1 DEF Chain
    <2>3. f[h[i]] = << SubSeq(t, h[i], h[i + 1] - m - 1) >> \o f[(h[i + 1] - m) + m]
        BY <1>3, <2>1, <2>2 DEF CutsAt
    <2>4. (h[i + 1] - m) + m = h[i + 1]
        BY <1>0, <1>3, <2>1
    <2>5. f[h[i + 1]] = SubSeq(ps, i + 1, K)
        BY <1>5, <2>1
    <2>6. SubSeq(ps, i, K) = << ps[i] >> \o SubSeq(ps, i + 1, K)
        BY <1>1, <2>1, SubSeqRecursiveFirst
    <2>7. f[h[i]] = SubSeq(ps, i, K)
        BY <2>2, <2>3, <2>4, <2>5, <2>6
    <2> QED BY <2>1, <2>7 DEF i
<1>6. \A k \in 0..(K - 1) : k \in G
    <2>1. K - 1 \in Nat
        BY <1>1
    <2> HIDE DEF G
    <2> QED BY <2>1, <1>4, <1>5, CountUp
<1>7. K - 1 \in 0..(K - 1) /\ K - (K - 1) = 1
    BY <1>1
<1>8. SubSeq(ps, 1, K) = ps
    BY <1>1, SubSeqFull
<1> QED BY <1>2, <1>6, <1>7, <1>8

(* The parts of a text are the one chain that starts at its start.         *)
LEMMA SplitAtChain ==
    ASSUME NEW t, NEW sep, Splits(t, sep)
    PROVE  /\ \E h : Chain(t, sep, SplitAt(t, sep), h, 1)
           /\ \A ps, h : Chain(t, sep, ps, h, 1) => SplitAt(t, sep) = ps
<1>1. PICK f : CutsFrom(f, t, sep, 1) /\ SplitAt(t, sep) = f[1]
    BY SplitAtIs
<1>2. 1 \in 1..(Len(t) + 1)
    BY SplitType
<1> QED BY <1>1, <1>2, ChainExists, ChainOnly

-----------------------------------------------------------------------------
(* Parts that are left out. *)

LEMMA ModStep ==
    ASSUME NEW x \in Nat, NEW d \in Nat \ {0}, x % d = 0
    PROVE  (x + d) % d = 0
<1> DEFINE q == x \div d
           a == (x + d) \div d
           b == (x + d) % d
<1>1. q \in Int /\ x = d * q
    BY Euclid
<1>2. a \in Int /\ b \in 0..(d - 1) /\ x + d = d * a + b
    OBVIOUS
<1> HIDE DEF q, a, b
<1>3. d * a = a * d /\ (q + 1) * d = d * q + d
    BY <1>1, <1>2
<1>4. a * d + b = (q + 1) * d /\ a * d \in Int /\ (q + 1) * d \in Int
    BY <1>1, <1>2, <1>3
<1>5. ~(a + 1 <= q + 1)
    <2> SUFFICES ASSUME a + 1 <= q + 1 PROVE FALSE
        OBVIOUS
    <2>1. (a + 1) * d <= (q + 1) * d /\ ((a + 1) - 1) * d = (a + 1) * d - d /\ (a + 1) * d \in Int
        BY <1>1, <1>2, ProductsAscend
    <2>2. (a + 1) - 1 = a
        BY <1>2
    <2> QED BY <1>2, <1>4, <2>1, <2>2
<1>6. ~(q + 2 <= a)
    <2> SUFFICES ASSUME q + 2 <= a PROVE FALSE
        OBVIOUS
    <2>1. (q + 2) * d <= a * d /\ ((q + 2) - 1) * d = (q + 2) * d - d /\ (q + 2) * d \in Int
        BY <1>1, <1>2, ProductsAscend
    <2>2. (q + 2) - 1 = q + 1
        BY <1>1
    <2> QED BY <1>2, <1>4, <2>1, <2>2
<1>7. a = q + 1
    BY <1>1, <1>2, <1>5, <1>6
<1>8. b = 0
    BY <1>2, <1>4, <1>7
<1> QED BY <1>8 DEF b

(* q has parts of ps up to the k-th, none of them empty, and only its last *)
(* one may be the k-th.                                                    *)
Keeps(q, ps, k) ==
    /\ q \in Seq(Texts)
    /\ \A i \in 1..Len(q) : q[i] # <<>> /\ \E j \in 1..k : q[i] = ps[j] /\ (i < Len(q) => j < k)

LEMMA KeepsMore ==
    ASSUME NEW q, NEW ps \in Seq(Texts), NEW k \in Nat, k + 1 <= Len(ps), Keeps(q, ps, k)
    PROVE  Keeps(IF ps[k + 1] = <<>> THEN q ELSE Append(q, ps[k + 1]), ps, k + 1)
<1> DEFINE x == ps[k + 1]
           r == Append(q, x)
<1>0. x \in Texts
    <2>1. k + 1 \in 1..Len(ps)
        BY LenProperties
    <2> QED BY <2>1, ElementOfSeq
<1>1. q \in Seq(Texts) /\ Len(q) \in Nat
    BY LenProperties DEF Keeps
<1>2. CASE x = <<>>
    <2>1. ASSUME NEW i \in 1..Len(q)
          PROVE  q[i] # <<>> /\ \E j \in 1..(k + 1) : q[i] = ps[j] /\ (i < Len(q) => j < k + 1)
        <3>1. PICK j \in 1..k : q[i] # <<>> /\ q[i] = ps[j]
            BY DEF Keeps
        <3>2. j \in 1..(k + 1) /\ j < k + 1
            OBVIOUS
        <3> QED BY <3>1, <3>2
    <2> QED BY <1>1, <1>2, <2>1 DEF Keeps
<1>3. CASE x # <<>>
    <2>1. r \in Seq(Texts) /\ Len(r) = Len(q) + 1 /\ (\A i \in 1..Len(q) : r[i] = q[i]) /\ r[Len(q) + 1] = x
        <3> HIDE DEF x
        <3> QED BY <1>0, <1>1, AppendProperties
    <2> HIDE DEF r
    <2>2. ASSUME NEW i \in 1..Len(r)
          PROVE  r[i] # <<>> /\ \E j \in 1..(k + 1) : r[i] = ps[j] /\ (i < Len(r) => j < k + 1)
        <3>1. CASE i = Len(q) + 1
            <4>1. k + 1 \in 1..(k + 1) /\ ~(i < Len(r))
                BY <1>1, <2>1, <3>1
            <4> QED BY <1>3, <2>1, <3>1, <4>1
        <3>2. CASE i # Len(q) + 1
            <4>1. i \in 1..Len(q)
                BY <1>1, <2>1, <3>2
            <4>2. PICK j \in 1..k : q[i] # <<>> /\ q[i] = ps[j]
                BY <4>1 DEF Keeps
            <4>3. j \in 1..(k + 1) /\ j < k + 1 /\ r[i] = q[i]
                BY <2>1, <4>1
            <4> QED BY <4>2, <4>3
        <3> QED BY <3>1, <3>2
    <2>3. Keeps(r, ps, k + 1)
        BY <2>1, <2>2 DEF Keeps
    <2> QED BY <1>3, <2>3 DEF r
<1> QED BY <1>2, <1>3

LEMMA TotalAppend ==
    ASSUME NEW q \in Seq(Texts), NEW x \in Texts
    PROVE  Total(Append(q, x)) = Total(q) + Len(x)
<1> DEFINE r == Append(q, x)
           n == Len(q)
<1>1. r \in Seq(Texts) /\ Len(r) = n + 1 /\ (\A i \in 1..n : r[i] = q[i]) /\ r[n + 1] = x
    BY AppendProperties
<1>2. n \in Nat
    BY LenProperties
<1> HIDE DEF r
<1>3. PICK f \in [0..n -> Nat] : TotalTo(f, q) /\ Total(q) = f[n]
    BY TotalIs
<1>4. PICK g \in [0..Len(r) -> Nat] : TotalTo(g, r) /\ Total(r) = g[Len(r)]
    BY <1>1, TotalIs
<1> DEFINE G == { i \in 0..n : g[i] = f[i] }
<1>5. 0 \in G
    BY <1>2, <1>3, <1>4 DEF TotalTo
<1>6. ASSUME NEW i \in 0..n, i < n, i \in G PROVE i + 1 \in G
    <2>1. i + 1 \in 1..n /\ i + 1 \in 1..(n + 1) /\ (i + 1) - 1 = i /\ i + 1 \in 0..n
        BY <1>2, <1>6
    <2>2. f[i + 1] = f[i] + Len(q[i + 1])
        BY <1>3, <2>1 DEF TotalTo
    <2>3. g[i + 1] = g[i] + Len(r[i + 1])
        BY <1>1, <1>4, <2>1 DEF TotalTo
    <2>4. r[i + 1] = q[i + 1] /\ g[i] = f[i]
        BY <1>1, <1>6, <2>1
    <2> QED BY <2>1, <2>2, <2>3, <2>4
<1>7. \A i \in 0..n : i \in G
    <2> HIDE DEF G
    <2> QED BY <1>2, <1>5, <1>6, CountUp
<1>8. g[n] = f[n]
    BY <1>2, <1>7
<1>9. g[n + 1] = g[n] + Len(x)
    <2>1. n + 1 \in 1..(n + 1) /\ (n + 1) - 1 = n
        BY <1>2
    <2> QED BY <1>1, <1>4, <2>1 DEF TotalTo
<1> QED BY <1>1, <1>3, <1>4, <1>8, <1>9 DEF r

(* Empty parts add nothing, so leaving them out takes nothing away.        *)
LEMMA FilledKeeps ==
    ASSUME NEW ps \in Seq(Texts)
    PROVE  Keeps(Filled(ps), ps, Len(ps)) /\ Total(Filled(ps)) = Total(ps)
<1> DEFINE n == Len(ps)
<1>0. n \in Nat /\ \A i \in 1..n : ps[i] \in Texts
    BY LenProperties
<1>1. PICK f \in [0..n -> Seq(Texts)] : FilledTo(f, ps) /\ Filled(ps) = f[n]
    BY FilledIs
<1>2. PICK g \in [0..n -> Nat] : TotalTo(g, ps) /\ Total(ps) = g[n]
    BY TotalIs
<1> DEFINE G == { k \in 0..n : Keeps(f[k], ps, k) /\ Total(f[k]) = g[k] }
<1>3. 0 \in G
    <2>1. f[0] = <<>> /\ g[0] = 0
        BY <1>1, <1>2 DEF FilledTo, TotalTo
    <2>2. <<>> \in Seq(Texts) /\ Len(<<>>) = 0
        BY EmptySeq
    <2>3. Keeps(<<>>, ps, 0)
        BY <2>2 DEF Keeps
    <2>4. Total(<<>>) = 0
        <3> DEFINE e == <<>>
        <3>1. e \in Seq(Texts) /\ Len(e) = 0
            BY <2>2
        <3> HIDE DEF e
        <3>2. Total(e) = 0
            BY <3>1, TotalIs DEF TotalTo
        <3> QED BY <3>2 DEF e
    <2> QED BY <1>0, <2>1, <2>3, <2>4
<1>4. ASSUME NEW k \in 0..n, k < n, k \in G PROVE k + 1 \in G
    <2>1. k + 1 \in 1..n /\ (k + 1) - 1 = k /\ k + 1 \in 0..n /\ k \in Nat /\ k + 1 <= n
        BY <1>0, <1>4
    <2> DEFINE q == f[k]
               x == ps[k + 1]
    <2>2. f[k + 1] = (IF x = <<>> THEN q ELSE Append(q, x)) /\ g[k + 1] = g[k] + Len(x)
        BY <1>1, <1>2, <2>1 DEF FilledTo, TotalTo
    <2>3. Keeps(q, ps, k) /\ Total(q) = g[k] /\ q \in Seq(Texts) /\ x \in Texts /\ g[k] \in Nat
        BY <1>0, <1>1, <1>2, <1>4, <2>1
    <2>4. Keeps(f[k + 1], ps, k + 1)
        BY <2>1, <2>2, <2>3, KeepsMore
    <2>5. Total(f[k + 1]) = g[k + 1]
        <3> HIDE DEF q, x
        <3>1. CASE x = <<>>
            BY <2>2, <2>3, <3>1, EmptySeq
        <3>2. CASE x # <<>>
            BY <2>2, <2>3, <3>2, TotalAppend
        <3> QED BY <3>1, <3>2
    <2> QED BY <2>1, <2>4, <2>5
<1>5. \A k \in 0..n : k \in G
    <2> HIDE DEF G
    <2> QED BY <1>0, <1>3, <1>4, CountUp
<1>6. n \in G
    BY <1>0, <1>5
<1> QED BY <1>1, <1>2, <1>6

LEMMA FilledFull ==
    ASSUME NEW ps \in Seq(Texts), \A i \in 1..Len(ps) : ps[i] # <<>>
    PROVE  Filled(ps) = ps
<1> DEFINE n == Len(ps)
<1>0. n \in Nat /\ \A i \in 1..n : ps[i] \in Texts
    BY LenProperties
<1>1. PICK f \in [0..n -> Seq(Texts)] : FilledTo(f, ps) /\ Filled(ps) = f[n]
    BY FilledIs
<1> DEFINE G == { k \in 0..n : Len(f[k]) = k /\ \A i \in 1..k : f[k][i] = ps[i] }
<1>2. 0 \in G
    <2>1. f[0] = <<>>
        BY <1>1 DEF FilledTo
    <2> QED BY <1>0, <2>1, EmptySeq
<1>3. ASSUME NEW k \in 0..n, k < n, k \in G PROVE k + 1 \in G
    <2>1. k + 1 \in 1..n /\ (k + 1) - 1 = k /\ k + 1 \in 0..n /\ k \in Nat
        BY <1>0, <1>3
    <2> DEFINE q == f[k]
               x == ps[k + 1]
    <2>2. f[k + 1] = Append(q, x)
        BY <1>1, <2>1 DEF FilledTo
    <2>3. q \in Seq(Texts) /\ x \in Texts /\ Len(q) = k /\ \A i \in 1..k : q[i] = ps[i]
        BY <1>0, <1>1, <1>3, <2>1
    <2>4. x = ps[k + 1]
        OBVIOUS
    <2> HIDE DEF q, x
    <2>5. Len(Append(q, x)) = k + 1 /\ Append(q, x)[k + 1] = x /\ \A i \in 1..k : Append(q, x)[i] = q[i]
        BY <2>3, AppendProperties
    <2>6. \A i \in 1..(k + 1) : i = k + 1 \/ i \in 1..k
        BY <2>1
    <2>7. \A i \in 1..(k + 1) : f[k + 1][i] = ps[i]
        BY <2>2, <2>3, <2>4, <2>5, <2>6
    <2> QED BY <2>1, <2>2, <2>5, <2>7
<1>4. \A k \in 0..n : k \in G
    <2> HIDE DEF G
    <2> QED BY <1>0, <1>2, <1>3, CountUp
<1>5. n \in G /\ f[n] \in Seq(Texts)
    BY <1>0, <1>1, <1>4
<1> QED BY <1>1, <1>5, SeqEqual

-----------------------------------------------------------------------------
(* Texts within texts. *)

(* The text x is what t has from p on. *)
Window(t, p, x) ==
    /\ t \in Texts /\ x \in Texts /\ p \in Nat \ {0} /\ p - 1 + Len(x) <= Len(t)
    /\ \A l \in 1..Len(x) : t[p + l - 1] = x[l]

LEMMA TextType ==
    ASSUME NEW x \in Texts
    PROVE  Len(x) \in Nat /\ DOMAIN x = 1..Len(x) /\ x \in Seq(Alphabet)
BY LenProperties DEF Texts

LEMMA ConcatReads ==
    ASSUME NEW x \in Texts, NEW y \in Texts
    PROVE  /\ x \o y \in Texts /\ Len(x \o y) = Len(x) + Len(y)
           /\ \A l \in 1..Len(x) : (x \o y)[l] = x[l]
           /\ \A l \in 1..Len(y) : (x \o y)[Len(x) + l] = y[l]
<1>1. Len(x) \in Nat /\ Len(y) \in Nat
    BY TextType
<1>2. /\ x \o y \in Texts /\ Len(x \o y) = Len(x) + Len(y)
      /\ \A l \in 1..(Len(x) + Len(y)) : (x \o y)[l] = IF l <= Len(x) THEN x[l] ELSE y[l - Len(x)]
    BY TextType, ConcatProperties DEF Texts
<1>3. ASSUME NEW l \in 1..Len(x) PROVE (x \o y)[l] = x[l]
    <2>1. l \in 1..(Len(x) + Len(y)) /\ l <= Len(x)
        BY <1>1
    <2> QED BY <1>2, <2>1
<1>4. ASSUME NEW l \in 1..Len(y) PROVE (x \o y)[Len(x) + l] = y[l]
    <2>1. Len(x) + l \in 1..(Len(x) + Len(y)) /\ ~(Len(x) + l <= Len(x)) /\ (Len(x) + l) - Len(x) = l
        BY <1>1
    <2> QED BY <1>2, <2>1
<1> QED BY <1>2, <1>3, <1>4

LEMMA WindowSub ==
    ASSUME NEW t, NEW p, NEW x, Window(t, p, x)
    PROVE  x = SubSeq(t, p, p + Len(x) - 1)
<1> DEFINE n == Len(t)
           m == Len(x)
           w == SubSeq(t, p, p + m - 1)
<1>1. n \in Nat /\ m \in Nat /\ t \in Texts /\ x \in Seq(Alphabet) /\ p \in Nat \ {0} /\ p - 1 + m <= n
    BY TextType DEF Window
<1>2. p \in 1..(n + 1) /\ p + m - 1 \in 0..n /\ p <= (p + m - 1) + 1 /\ (p + m - 1) - p + 1 = m
    BY <1>1
<1>3. w \in Texts /\ Len(w) = m /\ \A k \in 1..m : w[k] = t[p + k - 1]
    BY <1>1, <1>2, PieceType
<1> HIDE DEF w
<1>4. w \in Seq(Alphabet) /\ \A k \in 1..m : w[k] = x[k]
    BY <1>3 DEF Window, Texts
<1>5. w = x
    BY <1>1, <1>3, <1>4, SeqEqual
<1> QED BY <1>5 DEF w

LEMMA SubWindow ==
    ASSUME NEW t \in Texts, NEW i \in 1..(Len(t) + 1), NEW j \in 0..Len(t), i <= j + 1
    PROVE  Window(t, i, SubSeq(t, i, j)) /\ Len(SubSeq(t, i, j)) = j - i + 1
<1> DEFINE w == SubSeq(t, i, j)
<1>1. w \in Texts /\ Len(w) = j - i + 1 /\ \A k \in 1..(j - i + 1) : w[k] = t[i + k - 1]
    BY PieceType
<1>2. Len(t) \in Nat
    BY TextType
<1> HIDE DEF w
<1>3. i \in Nat \ {0} /\ i - 1 + Len(w) <= Len(t)
    BY <1>1, <1>2
<1>4. Window(t, i, w)
    BY <1>1, <1>3 DEF Window
<1> QED BY <1>1, <1>4 DEF w

LEMMA WindowIn ==
    ASSUME NEW t, NEW p, NEW x, Window(t, p, x), NEW q, NEW y, Window(x, q, y)
    PROVE  Window(t, p + q - 1, y)
<1>1. /\ Len(t) \in Nat /\ Len(x) \in Nat /\ Len(y) \in Nat /\ p \in Nat \ {0} /\ q \in Nat \ {0}
      /\ t \in Texts /\ y \in Texts /\ p - 1 + Len(x) <= Len(t) /\ q - 1 + Len(y) <= Len(x)
    BY TextType DEF Window
<1>2. p + q - 1 \in Nat \ {0} /\ (p + q - 1) - 1 + Len(y) <= Len(t)
    BY <1>1
<1>3. ASSUME NEW l \in 1..Len(y) PROVE t[(p + q - 1) + l - 1] = y[l]
    <2>1. q + l - 1 \in 1..Len(x) /\ (p + q - 1) + l - 1 = p + (q + l - 1) - 1
        BY <1>1
    <2>2. x[q + l - 1] = y[l] /\ t[p + (q + l - 1) - 1] = x[q + l - 1]
        BY <2>1 DEF Window
    <2> QED BY <2>1, <2>2
<1> QED BY <1>1, <1>2, <1>3 DEF Window

LEMMA WindowStart ==
    ASSUME NEW t, NEW x, NEW y, Window(t, 1, x), Window(x, 1, y)
    PROVE  Window(t, 1, y)
<1>1. 1 + 1 - 1 = 1
    OBVIOUS
<1>2. Window(t, 1 + 1 - 1, y)
    BY WindowIn
<1> QED BY <1>1, <1>2

LEMMA ConcatWindows ==
    ASSUME NEW x \in Texts, NEW y \in Texts
    PROVE  Window(x \o y, 1, x) /\ Window(x \o y, Len(x) + 1, y)
<1> DEFINE z == x \o y
<1>1. Len(x) \in Nat /\ Len(y) \in Nat
    BY TextType
<1>2. /\ z \in Texts /\ Len(z) = Len(x) + Len(y)
      /\ \A l \in 1..Len(x) : z[l] = x[l]
      /\ \A l \in 1..Len(y) : z[Len(x) + l] = y[l]
    BY ConcatReads
<1> HIDE DEF z
<1>3. Window(z, 1, x)
    <2>1. \A l \in 1..Len(x) : 1 + l - 1 = l
        OBVIOUS
    <2>2. 1 - 1 + Len(x) <= Len(z) /\ 1 \in Nat \ {0}
        BY <1>1, <1>2
    <2> QED BY <1>2, <2>1, <2>2 DEF Window
<1>4. Window(z, Len(x) + 1, y)
    <2>1. \A l \in 1..Len(y) : (Len(x) + 1) + l - 1 = Len(x) + l
        BY <1>1
    <2>2. (Len(x) + 1) - 1 + Len(y) <= Len(z) /\ Len(x) + 1 \in Nat \ {0}
        BY <1>1, <1>2
    <2> QED BY <1>2, <2>1, <2>2 DEF Window
<1> QED BY <1>3, <1>4 DEF z

(* What ends x, and what follows it, follow one another.                   *)
LEMMA WindowsJoin ==
    ASSUME NEW t, NEW p, NEW x, NEW y, Window(t, p, x), Window(t, p + Len(x), y)
    PROVE  Window(t, p, x \o y)
<1> DEFINE z == x \o y
<1>1. /\ Len(t) \in Nat /\ Len(x) \in Nat /\ Len(y) \in Nat /\ p \in Nat \ {0}
      /\ t \in Texts /\ x \in Texts /\ y \in Texts /\ (p + Len(x)) - 1 + Len(y) <= Len(t)
    BY TextType DEF Window
<1>2. /\ z \in Texts /\ Len(z) = Len(x) + Len(y)
      /\ \A l \in 1..Len(x) : z[l] = x[l]
      /\ \A l \in 1..Len(y) : z[Len(x) + l] = y[l]
    BY <1>1, ConcatReads
<1> HIDE DEF z
<1>3. ASSUME NEW l \in 1..Len(z) PROVE t[p + l - 1] = z[l]
    <2>1. CASE l \in 1..Len(x)
        BY <1>2, <2>1 DEF Window
    <2>2. CASE l \notin 1..Len(x)
        <3> DEFINE k == l - Len(x)
        <3>1. k \in 1..Len(y) /\ l = Len(x) + k /\ p + l - 1 = (p + Len(x)) + k - 1
            BY <1>1, <1>2, <2>2
        <3> HIDE DEF k
        <3>2. t[(p + Len(x)) + k - 1] = y[k] /\ z[Len(x) + k] = y[k]
            BY <1>2, <3>1 DEF Window
        <3> QED BY <3>1, <3>2
    <2> QED BY <2>1, <2>2
<1>4. p - 1 + Len(z) <= Len(t)
    BY <1>1, <1>2
<1>5. Window(t, p, z)
    BY <1>1, <1>2, <1>3, <1>4 DEF Window
<1> QED BY <1>5 DEF z

LEMMA StandsIn ==
    ASSUME NEW sep \in Texts, sep # <<>>, NEW t, NEW p, NEW x, Window(t, p, x), NEW k, Stands(x, sep, k)
    PROVE  Stands(t, sep, p + k - 1)
<1> DEFINE m == Len(sep)
<1>1. /\ Len(t) \in Nat /\ Len(x) \in Nat /\ p \in Nat \ {0} /\ p - 1 + Len(x) <= Len(t) /\ m \in Nat \ {0}
    BY TextType, EmptySeq DEF Window, Texts
<1>2. k \in 1..(Len(x) - m + 1) /\ \A j \in 1..m : x[k + j - 1] = sep[j]
    BY DEF Stands
<1>3. p + k - 1 \in 1..(Len(t) - m + 1)
    BY <1>1, <1>2
<1>4. ASSUME NEW j \in 1..m PROVE t[(p + k - 1) + j - 1] = sep[j]
    <2>1. k + j - 1 \in 1..Len(x) /\ p + (k + j - 1) - 1 = (p + k - 1) + j - 1
        BY <1>1, <1>2
    <2>2. t[p + (k + j - 1) - 1] = x[k + j - 1]
        BY <2>1 DEF Window
    <2> QED BY <1>2, <2>1, <2>2
<1> QED BY <1>3, <1>4 DEF Stands

LEMMA StandsOut ==
    ASSUME NEW sep \in Texts, sep # <<>>, NEW t, NEW p, NEW x, Window(t, p, x),
           NEW j \in Int, p <= j, j + Len(sep) - 1 <= p - 1 + Len(x), Stands(t, sep, j)
    PROVE  Stands(x, sep, j - p + 1)
<1> DEFINE m == Len(sep)
<1>1. /\ Len(t) \in Nat /\ Len(x) \in Nat /\ p \in Nat \ {0} /\ p - 1 + Len(x) <= Len(t) /\ m \in Nat \ {0}
    BY TextType, EmptySeq DEF Window, Texts
<1>2. \A k \in 1..m : t[j + k - 1] = sep[k]
    BY DEF Stands
<1>3. j - p + 1 \in 1..(Len(x) - m + 1)
    BY <1>1
<1>4. ASSUME NEW k \in 1..m PROVE x[(j - p + 1) + k - 1] = sep[k]
    <2> DEFINE l == (j - p + 1) + k - 1
    <2>1. l \in 1..Len(x) /\ p + l - 1 = j + k - 1
        BY <1>1
    <2> HIDE DEF l
    <2>2. t[p + l - 1] = x[l]
        BY <2>1 DEF Window
    <2> QED BY <1>2, <2>1, <2>2 DEF l
<1> QED BY <1>3, <1>4 DEF Stands

-----------------------------------------------------------------------------
(* Parts joined again. *)

(* sep, put behind x, does not start to stand before that.                 *)
Clean(x, sep) == \A k \in 1..Len(x) : ~Stands(x \o sep, sep, k)

LEMMA CleanFirst ==
    ASSUME NEW sep \in Texts, sep # <<>>, NEW t, NEW p, NEW x \in Texts, Window(t, p, x \o sep), Clean(x, sep)
    PROVE  FirstAt(t, sep, p, p + Len(x))
<1> DEFINE m == Len(sep)
           y == x \o sep
           n == Len(x)
<1>1. n \in Nat /\ m \in Nat \ {0} /\ p \in Nat \ {0}
    BY TextType, EmptySeq DEF Window, Texts
<1>2. Len(y) = n + m /\ \A l \in 1..m : y[n + l] = sep[l]
    BY ConcatReads
<1> HIDE DEF y
<1>3. Stands(y, sep, n + 1)
    <2>1. n + 1 \in 1..(Len(y) - m + 1) /\ \A l \in 1..m : (n + 1) + l - 1 = n + l
        BY <1>1, <1>2
    <2> QED BY <1>2, <2>1 DEF Stands
<1>4. Stands(t, sep, p + n)
    <2>1. Stands(t, sep, p + (n + 1) - 1)
        BY <1>3, StandsIn DEF y
    <2>2. p + (n + 1) - 1 = p + n
        BY <1>1
    <2> QED BY <2>1, <2>2
<1>5. ASSUME NEW j \in p..((p + n) - 1), Stands(t, sep, j) PROVE FALSE
    <2>1. j \in Int /\ p <= j /\ j + m - 1 <= p - 1 + Len(y)
        BY <1>1, <1>2
    <2>2. Window(t, p, y)
        BY DEF y
    <2>3. Stands(y, sep, j - p + 1)
        BY <1>5, <2>1, <2>2, StandsOut
    <2>4. j - p + 1 \in 1..n
        BY <1>1
    <2> QED BY <2>3, <2>4 DEF Clean, y
<1>6. p + n >= p
    BY <1>1
<1>7. \A j \in p..((p + n) - 1) : ~Stands(t, sep, j)
    BY <1>5
<1> HIDE DEF n
<1>8. FirstAt(t, sep, p, p + n)
    BY <1>4, <1>6, <1>7 DEF FirstAt
<1> QED BY <1>8 DEF n

LEMMA FirstClean ==
    ASSUME NEW sep \in Texts, sep # <<>>, NEW t, NEW p, NEW x \in Texts, Window(t, p, x \o sep),
           FirstAt(t, sep, p, p + Len(x))
    PROVE  Clean(x, sep)
<1> SUFFICES ASSUME NEW k \in 1..Len(x), Stands(x \o sep, sep, k) PROVE FALSE
    BY DEF Clean
<1>1. Len(x) \in Nat /\ p \in Nat \ {0}
    BY TextType DEF Window
<1>2. Stands(t, sep, p + k - 1)
    BY StandsIn
<1>3. p + k - 1 \in p..((p + Len(x)) - 1)
    BY <1>1
<1> QED BY <1>2, <1>3 DEF FirstAt

(* A text that has sep behind it and nowhere before, has it nowhere.       *)
LEMMA CleanNowhere ==
    ASSUME NEW sep \in Texts, sep # <<>>, NEW x \in Texts, Clean(x, sep)
    PROVE  Nowhere(x, sep, 1)
<1> SUFFICES ASSUME NEW k \in 1..(Len(x) + 1), Stands(x, sep, k) PROVE FALSE
    BY DEF Nowhere
<1>1. Len(x) \in Nat /\ Len(sep) \in Nat \ {0}
    BY TextType, EmptySeq DEF Texts
<1>2. Window(x \o sep, 1, x)
    BY ConcatWindows
<1>3. Stands(x \o sep, sep, 1 + k - 1)
    BY <1>2, StandsIn
<1>4. k \in 1..Len(x) /\ 1 + k - 1 = k
    BY <1>1 DEF Stands
<1> QED BY <1>3, <1>4 DEF Clean

LEMMA NowhereEnd ==
    ASSUME NEW sep \in Texts, sep # <<>>, NEW t, NEW p, NEW x \in Texts, Window(t, p, x), p - 1 + Len(x) = Len(t)
    PROVE  Nowhere(t, sep, p) <=> Nowhere(x, sep, 1)
<1> DEFINE n == Len(x)
           m == Len(sep)
<1>1. Len(t) \in Nat /\ n \in Nat /\ p \in Nat \ {0} /\ m \in Nat \ {0}
    BY TextType, EmptySeq DEF Window, Texts
<1>2. ASSUME Nowhere(t, sep, p), NEW k \in 1..(n + 1), Stands(x, sep, k) PROVE FALSE
    <2>1. Stands(t, sep, p + k - 1)
        BY <1>2, StandsIn
    <2>2. p + k - 1 \in p..(Len(t) + 1)
        BY <1>1
    <2> QED BY <1>2, <2>1, <2>2 DEF Nowhere
<1>3. ASSUME Nowhere(x, sep, 1), NEW j \in p..(Len(t) + 1), Stands(t, sep, j) PROVE FALSE
    <2>1. j \in Int /\ p <= j /\ j + m - 1 <= p - 1 + n
        BY <1>1, <1>3 DEF Stands
    <2>2. Stands(x, sep, j - p + 1)
        BY <1>3, <2>1, StandsOut
    <2>3. j - p + 1 \in 1..(n + 1)
        BY <1>1
    <2> QED BY <1>3, <2>2, <2>3 DEF Nowhere
<1> QED BY <1>2, <1>3 DEF Nowhere

(* Parts that a text can be split into.                                    *)
Tidy(q, sep) ==
    /\ q \in Seq(Texts)
    /\ \A i \in 1..Len(q) : Nowhere(q[i], sep, 1) /\ (i < Len(q) => Clean(q[i], sep))

LEMMA ChainTidy ==
    ASSUME NEW t, NEW sep, Splits(t, sep), NEW ps, NEW h, Chain(t, sep, ps, h, 1)
    PROVE  Tidy(ps, sep)
<1> DEFINE n == Len(t)
           m == Len(sep)
           K == Len(ps)
<1>0. n \in Nat /\ m \in Nat \ {0} /\ t \in Texts /\ sep \in Texts /\ sep # <<>>
    BY SplitType DEF Splits
<1>1. ps \in Seq(Texts) /\ K \in Nat \ {0} /\ \A i \in 1..K : ps[i] \in Texts /\ h[i] \in 1..(n + 1)
    BY EmptySeq, LenProperties DEF Chain
<1>2. ASSUME NEW i \in 1..(K - 1) PROVE Clean(ps[i], sep)
    <2> DEFINE p == h[i]
               e == h[i + 1] - m
               x == ps[i]
    <2>1. i \in 1..K
        BY <1>1
    <2>2. FirstAt(t, sep, p, e) /\ x = SubSeq(t, p, e - 1) /\ p \in 1..(n + 1)
        BY <1>1, <2>1 DEF Chain
    <2>3. x \in Texts
        BY <1>1, <2>1
    <2> HIDE DEF p, e, x
    <2>4. e \in p..n /\ e + m \in (p + 1)..(n + 1)
        BY <2>2, FirstRoom
    <2>5. Window(t, p, x) /\ Len(x) = e - p
        <3>1. e - 1 \in 0..n /\ p <= (e - 1) + 1 /\ (e - 1) - p + 1 = e - p
            BY <1>0, <2>2, <2>4
        <3> QED BY <1>0, <2>2, <3>1, SubWindow
    <2>6. p + Len(x) = e
        BY <1>0, <2>2, <2>4, <2>5
    <2>7. Window(t, e, sep)
        <3>1. e \in 1..(n - m + 1) /\ \A j \in 1..m : t[e + j - 1] = sep[j]
            BY <2>2 DEF FirstAt, Stands
        <3>2. e \in Nat \ {0} /\ e - 1 + m <= n
            BY <1>0, <3>1
        <3> QED BY <1>0, <3>1, <3>2 DEF Window
    <2>8. Window(t, p, x \o sep)
        BY <2>5, <2>6, <2>7, WindowsJoin
    <2>9. Clean(x, sep)
        BY <1>0, <2>2, <2>3, <2>6, <2>8, FirstClean
    <2> QED BY <2>9 DEF x
<1>3. Nowhere(ps[K], sep, 1)
    <2> DEFINE p == h[K]
               x == ps[K]
    <2>1. K \in 1..K
        BY <1>1
    <2>2. Nowhere(t, sep, p) /\ x = SubSeq(t, p, n) /\ p \in 1..(n + 1) /\ x \in Texts
        BY <1>1, <2>1 DEF Chain
    <2> HIDE DEF p, x
    <2>3. Window(t, p, x) /\ Len(x) = n - p + 1
        <3>1. n \in 0..n /\ p <= n + 1
            BY <1>0, <2>2
        <3> QED BY <1>0, <2>2, <3>1, SubWindow
    <2>4. p - 1 + Len(x) = n
        BY <1>0, <2>2, <2>3
    <2>5. Nowhere(x, sep, 1)
        BY <1>0, <2>2, <2>3, <2>4, NowhereEnd
    <2> QED BY <2>5 DEF x
<1>4. ASSUME NEW i \in 1..K PROVE Nowhere(ps[i], sep, 1) /\ (i < K => Clean(ps[i], sep))
    <2>1. CASE i = K
        BY <1>1, <1>3, <2>1
    <2>2. CASE i # K
        <3>1. i \in 1..(K - 1) /\ i \in 1..K
            BY <1>1, <2>2
        <3>2. Clean(ps[i], sep)
            BY <1>2, <3>1
        <3>3. Nowhere(ps[i], sep, 1)
            BY <1>0, <1>1, <3>1, <3>2, CleanNowhere
        <3> QED BY <3>2, <3>3
    <2> QED BY <2>1, <2>2
<1> QED BY <1>1, <1>4 DEF Tidy

LEMMA FilledTidy ==
    ASSUME NEW ps, NEW sep, Tidy(ps, sep)
    PROVE  Tidy(Filled(ps), sep) /\ \A i \in 1..Len(Filled(ps)) : Filled(ps)[i] # <<>>
<1> DEFINE q == Filled(ps)
<1>1. ps \in Seq(Texts) /\ Keeps(q, ps, Len(ps))
    BY FilledKeeps DEF Tidy
<1> HIDE DEF q
<1>2. ASSUME NEW i \in 1..Len(q) PROVE Nowhere(q[i], sep, 1) /\ (i < Len(q) => Clean(q[i], sep))
    <2>1. PICK j \in 1..Len(ps) : q[i] = ps[j] /\ (i < Len(q) => j < Len(ps))
        BY <1>1 DEF Keeps
    <2>2. Nowhere(ps[j], sep, 1) /\ (j < Len(ps) => Clean(ps[j], sep))
        BY DEF Tidy
    <2> QED BY <2>1, <2>2
<1>3. Tidy(q, sep) /\ \A i \in 1..Len(q) : q[i] # <<>>
    BY <1>1, <1>2 DEF Tidy, Keeps
<1> QED BY <1>3 DEF q

LEMMA WindowSelf ==
    ASSUME NEW x \in Texts
    PROVE  Window(x, 1, x)
<1>1. Len(x) \in Nat /\ \A l \in 1..Len(x) : 1 + l - 1 = l
    BY TextType
<1> QED BY <1>1 DEF Window

(* Where the k-th part starts in what has been joined up to it.            *)
StartOf(f, q, k) == Len(f[k]) - Len(q[k]) + 1

LEMMA JoinSteps ==
    ASSUME NEW q \in Seq(Texts), NEW sep \in Texts, NEW f \in [0..Len(q) -> Texts], JoinedTo(f, q, sep),
           NEW k \in 1..(Len(q) - 1), Window(f[k], StartOf(f, q, k), q[k])
    PROVE  /\ Window(f[k + 1], 1, f[k])
           /\ Window(f[k + 1], StartOf(f, q, k), q[k] \o sep)
           /\ StartOf(f, q, k + 1) = Len(f[k]) + Len(sep) + 1
           /\ Window(f[k + 1], StartOf(f, q, k + 1), q[k + 1])
<1> DEFINE n == Len(q)
           m == Len(sep)
           a == f[k]
           x == q[k]
           y == q[k + 1]
           p == StartOf(f, q, k)
           b == a \o sep
<1>0. n \in Nat /\ \A i \in 1..n : q[i] \in Texts
    BY LenProperties
<1>1. k \in 1..n /\ k \in 0..n /\ k + 1 \in 1..n /\ k + 1 # 1 /\ (k + 1) - 1 = k
    BY <1>0
<1>2. a \in Texts /\ x \in Texts /\ y \in Texts
    BY <1>0, <1>1
<1>3. f[k + 1] = b \o y
    BY <1>1 DEF JoinedTo
<1>4. Window(a, p, x) /\ p = Len(a) - Len(x) + 1
    BY DEF StartOf
<1>5. StartOf(f, q, k + 1) = Len(f[k + 1]) - Len(y) + 1
    BY DEF StartOf
<1> HIDE DEF a, x, y, p, n
<1>6. Len(a) \in Nat /\ Len(x) \in Nat /\ Len(y) \in Nat /\ m \in Nat
    BY <1>2, TextType
<1>7. b \in Texts /\ Len(b) = Len(a) + m /\ Window(b, 1, a) /\ Window(b, Len(a) + 1, sep)
    BY <1>2, ConcatReads, ConcatWindows
<1> HIDE DEF b, m
<1>8. f[k + 1] \in Texts /\ Len(f[k + 1]) = Len(b) + Len(y) /\ Window(f[k + 1], 1, b) /\ Window(f[k + 1], Len(b) + 1, y)
    <2>1. b \o y \in Texts /\ Len(b \o y) = Len(b) + Len(y)
        BY <1>2, <1>7, ConcatReads
    <2>2. Window(b \o y, 1, b) /\ Window(b \o y, Len(b) + 1, y)
        BY <1>2, <1>7, ConcatWindows
    <2> QED BY <1>3, <2>1, <2>2
<1> DEFINE g == f[k + 1]
<1> HIDE DEF g
<1>9. /\ g \in Texts /\ Len(g) = Len(b) + Len(y) /\ Window(g, 1, b) /\ Window(g, Len(b) + 1, y)
      /\ StartOf(f, q, k + 1) = Len(g) - Len(y) + 1
    BY <1>5, <1>8 DEF g
<1>10. Window(g, 1, a)
    BY <1>7, <1>9, WindowStart
<1>11. StartOf(f, q, k + 1) = Len(a) + m + 1 /\ StartOf(f, q, k + 1) = Len(b) + 1
    BY <1>6, <1>7, <1>9
<1>12. p \in Nat \ {0} /\ 1 + p - 1 = p /\ p + Len(x) = Len(a) + 1 /\ 1 + (Len(a) + 1) - 1 = Len(a) + 1
    BY <1>4, <1>6 DEF Window
<1>13. Window(g, 1 + p - 1, x) /\ Window(g, 1 + (Len(a) + 1) - 1, sep)
    <2>1. Window(g, 1 + p - 1, x)
        BY <1>4, <1>10, WindowIn
    <2>2. Window(g, 1 + (Len(a) + 1) - 1, sep)
        BY <1>7, <1>9, WindowIn
    <2> QED BY <2>1, <2>2
<1>14. Window(g, p, x) /\ Window(g, p + Len(x), sep)
    BY <1>12, <1>13
<1>15. Window(g, p, x \o sep)
    BY <1>14, WindowsJoin
<1> QED BY <1>9, <1>10, <1>11, <1>15 DEF a, x, y, p, g, m

LEMMA JoinStarts ==
    ASSUME NEW q \in Seq(Texts), NEW sep \in Texts, NEW f \in [0..Len(q) -> Texts], JoinedTo(f, q, sep)
    PROVE  \A k \in 1..Len(q) : Window(f[k], StartOf(f, q, k), q[k])
<1> DEFINE n == Len(q)
           G == { k \in 0..n : k >= 1 => Window(f[k], StartOf(f, q, k), q[k]) }
<1>0. n \in Nat /\ \A i \in 1..n : q[i] \in Texts
    BY LenProperties
<1>1. 0 \in G
    BY <1>0
<1>2. ASSUME NEW k \in 0..n, k < n, k \in G PROVE k + 1 \in G
    <2>1. k + 1 \in 1..n /\ k + 1 \in 0..n
        BY <1>0, <1>2
    <2>2. CASE k = 0
        <3>1. 1 \in 1..n /\ 0 + 1 = 1
            BY <2>1, <2>2
        <3>2. f[1] = q[1] /\ q[1] \in Texts
            BY <1>0, <3>1 DEF JoinedTo
        <3>3. StartOf(f, q, 1) = 1
            BY <3>2, TextType DEF StartOf
        <3>4. Window(f[1], StartOf(f, q, 1), q[1])
            BY <3>2, <3>3, WindowSelf
        <3> QED BY <2>1, <2>2, <3>1, <3>4
    <2>3. CASE k # 0
        <3>1. k \in 1..(n - 1) /\ k >= 1
            BY <1>0, <1>2, <2>3
        <3>2. Window(f[k], StartOf(f, q, k), q[k])
            BY <1>2, <3>1
        <3>3. Window(f[k + 1], StartOf(f, q, k + 1), q[k + 1])
            BY <3>1, <3>2, JoinSteps
        <3> QED BY <2>1, <3>3
    <2> QED BY <2>2, <2>3
<1>3. \A k \in 0..n : k \in G
    <2> HIDE DEF G
    <2> QED BY <1>0, <1>1, <1>2, CountUp
<1>4. \A k \in 1..n : k \in 0..n /\ k >= 1
    BY <1>0
<1> QED BY <1>3, <1>4

LEMMA JoinGrows ==
    ASSUME NEW q \in Seq(Texts), NEW sep \in Texts, NEW f \in [0..Len(q) -> Texts], JoinedTo(f, q, sep),
           NEW i \in 1..Len(q)
    PROVE  Window(f[Len(q)], 1, f[i])
<1> DEFINE n == Len(q)
           G == { k \in 0..n : k >= i => Window(f[k], 1, f[i]) }
<1>0. n \in Nat /\ i \in Nat \ {0} /\ i <= n
    BY LenProperties
<1>1. 0 \in G
    BY <1>0
<1>2. ASSUME NEW k \in 0..n, k < n, k \in G PROVE k + 1 \in G
    <2>1. k + 1 \in 1..n /\ k + 1 \in 0..n
        BY <1>0, <1>2
    <2>2. CASE k + 1 < i
        BY <1>0, <2>1, <2>2
    <2>3. CASE k + 1 = i
        <3>1. f[i] \in Texts
            BY <2>1, <2>3
        <3>2. Window(f[k + 1], 1, f[i])
            BY <2>3, <3>1, WindowSelf
        <3> QED BY <2>1, <3>2
    <2>4. CASE k + 1 > i
        <3>1. k \in 1..(n - 1) /\ k \in 1..n /\ k >= i
            BY <1>0, <1>2, <2>4
        <3>2. Window(f[k], 1, f[i])
            BY <1>2, <3>1
        <3>3. Window(f[k + 1], 1, f[k])
            BY <3>1, JoinStarts, JoinSteps
        <3>4. Window(f[k + 1], 1, f[i])
            BY <3>2, <3>3, WindowStart
        <3> QED BY <2>1, <3>4
    <2>5. k + 1 < i \/ k + 1 = i \/ k + 1 > i
        BY <1>0
    <2> QED BY <2>2, <2>3, <2>4, <2>5
<1>3. \A k \in 0..n : k \in G
    <2> HIDE DEF G
    <2> QED BY <1>0, <1>1, <1>2, CountUp
<1>4. n \in 0..n /\ n >= i
    BY <1>0
<1> QED BY <1>3, <1>4

(* Parts with the separator between them are the parts of what they make.  *)
LEMMA JoinChain ==
    ASSUME NEW sep \in Texts, sep # <<>>, NEW q, Tidy(q, sep), q # <<>>
    PROVE  Join(q, sep) \in Texts /\ \E h : Chain(Join(q, sep), sep, q, h, 1)
<1> DEFINE n == Len(q)
           m == Len(sep)
<1>0. q \in Seq(Texts) /\ n \in Nat \ {0} /\ m \in Nat \ {0} /\ \A i \in 1..n : q[i] \in Texts
    BY EmptySeq, LenProperties DEF Tidy, Texts
<1>1. PICK f \in [0..n -> Texts] : JoinedTo(f, q, sep) /\ Join(q, sep) = f[n]
    BY <1>0, JoinedIs
<1> DEFINE t == f[n]
           h == [i \in 1..n |-> StartOf(f, q, i)]
<1>2. t \in Texts
    BY <1>0, <1>1
<1>3. ASSUME NEW i \in 1..n
      PROVE  /\ Window(f[i], StartOf(f, q, i), q[i]) /\ Window(f[n], 1, f[i]) /\ f[i] \in Texts
    BY <1>0, <1>1, JoinStarts, JoinGrows
<1>4. ASSUME NEW i \in 1..(n - 1)
      PROVE  /\ Window(f[i + 1], StartOf(f, q, i), q[i] \o sep)
             /\ StartOf(f, q, i + 1) = Len(f[i]) + m + 1
             /\ i \in 1..n /\ i + 1 \in 1..n
    <2>1. i \in 1..n /\ i + 1 \in 1..n
        BY <1>0
    <2>2. Window(f[i], StartOf(f, q, i), q[i])
        BY <1>3, <2>1
    <2> QED BY <1>0, <1>1, <2>1, <2>2, JoinSteps
<1>5. ASSUME NEW i \in 1..n
      PROVE  /\ StartOf(f, q, i) \in Nat \ {0} /\ StartOf(f, q, i) = Len(f[i]) - Len(q[i]) + 1
             /\ Len(f[i]) \in Nat /\ Len(q[i]) \in Nat /\ Len(f[i]) <= Len(t) /\ Len(t) \in Nat
             /\ Window(t, StartOf(f, q, i), q[i])
    <2> DEFINE p == StartOf(f, q, i)
    <2>1. Window(f[i], p, q[i]) /\ Window(t, 1, f[i])
        BY <1>3
    <2>2. Len(f[i]) \in Nat /\ Len(q[i]) \in Nat /\ Len(t) \in Nat
        BY <1>0, <1>2, <1>3, TextType
    <2> HIDE DEF t
    <2>3. p \in Nat \ {0} /\ p = Len(f[i]) - Len(q[i]) + 1 /\ Len(f[i]) <= Len(t)
        BY <2>1, <2>2 DEF Window, StartOf
    <2> HIDE DEF p
    <2>4. Window(t, 1 + p - 1, q[i])
        BY <2>1, WindowIn
    <2>5. 1 + p - 1 = p
        BY <2>3
    <2>6. Window(t, p, q[i])
        BY <2>4, <2>5
    <2> QED BY <2>2, <2>3, <2>6 DEF p
<1> HIDE DEF t
<1>6. h \in [1..n -> 1..(Len(t) + 1)] /\ h[1] = 1 /\ \A i \in 1..n : h[i] = StartOf(f, q, i)
    <2>1. ASSUME NEW i \in 1..n PROVE StartOf(f, q, i) \in 1..(Len(t) + 1)
        <3>1. StartOf(f, q, i) \in Nat \ {0} /\ StartOf(f, q, i) <= Len(t) + 1
            BY <1>5
        <3> QED BY <1>5, <3>1
    <2>2. 1 \in 1..n
        BY <1>0
    <2>3. StartOf(f, q, 1) = 1
        <3>1. f[1] = q[1]
            BY <1>1, <2>2 DEF JoinedTo
        <3>2. StartOf(f, q, 1) = Len(f[1]) - Len(q[1]) + 1 /\ Len(f[1]) \in Nat
            BY <1>5, <2>2
        <3> QED BY <3>1, <3>2
    <2> HIDE DEF n
    <2> QED BY <2>1, <2>2, <2>3
<1> HIDE DEF h
<1>7. ASSUME NEW i \in 1..(n - 1)
      PROVE  FirstAt(t, sep, h[i], h[i + 1] - m) /\ q[i] = SubSeq(t, h[i], h[i + 1] - m - 1)
    <2> DEFINE p == StartOf(f, q, i)
               x == q[i]
    <2>1. i \in 1..n /\ i + 1 \in 1..n /\ h[i] = p /\ h[i + 1] = Len(f[i]) + m + 1
        BY <1>4, <1>6
    <2>2. Window(t, p, x) /\ p + Len(x) = Len(f[i]) + 1 /\ p \in Nat \ {0} /\ Len(f[i]) \in Nat /\ Len(x) \in Nat
        <3>1. Window(t, p, x) /\ p \in Nat \ {0} /\ Len(f[i]) \in Nat /\ Len(x) \in Nat /\ p = Len(f[i]) - Len(x) + 1
            BY <1>5, <2>1
        <3> HIDE DEF p, x
        <3>2. p + Len(x) = Len(f[i]) + 1
            BY <3>1
        <3> QED BY <3>1, <3>2
    <2>3. x \in Texts /\ Clean(x, sep)
        <3>1. i < n
            BY <1>0
        <3> QED BY <1>0, <2>1, <3>1 DEF Tidy
    <2>4. Window(f[i + 1], p, x \o sep) /\ Window(t, 1, f[i + 1])
        BY <1>3, <1>4, <2>1 DEF t
    <2> HIDE DEF p, x
    <2>5. Window(t, 1 + p - 1, x \o sep)
        BY <2>4, WindowIn
    <2>6. 1 + p - 1 = p
        BY <2>2
    <2>7. Window(t, p, x \o sep)
        BY <2>5, <2>6
    <2>8. FirstAt(t, sep, p, p + Len(x))
        BY <1>0, <2>3, <2>7, CleanFirst
    <2>9. x = SubSeq(t, p, p + Len(x) - 1)
        BY <2>2, WindowSub
    <2>10. h[i + 1] - m = p + Len(x) /\ h[i + 1] - m - 1 = p + Len(x) - 1
        <3> DEFINE e == h[i + 1]
                   l == Len(f[i])
        <3>1. e = l + m + 1 /\ p + Len(x) = l + 1 /\ l \in Nat /\ m \in Nat /\ p \in Nat /\ Len(x) \in Nat
            BY <1>0, <2>1, <2>2
        <3> HIDE DEF e, l, m
        <3>2. e - m = p + Len(x) /\ e - m - 1 = p + Len(x) - 1
            BY <3>1
        <3> QED BY <3>2 DEF e
    <2>11. FirstAt(t, sep, h[i], h[i + 1] - m) /\ x = SubSeq(t, h[i], h[i + 1] - m - 1)
        BY <2>1, <2>8, <2>9, <2>10
    <2> QED BY <2>11 DEF x
<1>8. Nowhere(t, sep, h[n]) /\ q[n] = SubSeq(t, h[n], Len(t))
    <2> DEFINE p == StartOf(f, q, n)
               x == q[n]
    <2>1. n \in 1..n
        BY <1>0
    <2>2. h[n] = p /\ Window(t, p, x) /\ p \in Nat \ {0} /\ Len(x) \in Nat /\ Len(t) \in Nat /\ p = Len(t) - Len(x) + 1
        BY <1>5, <1>6, <2>1 DEF t
    <2>3. x \in Texts /\ Nowhere(x, sep, 1)
        BY <1>0, <2>1 DEF Tidy
    <2> HIDE DEF p, x
    <2>4. p - 1 + Len(x) = Len(t) /\ p + Len(x) - 1 = Len(t)
        BY <2>2
    <2>5. Nowhere(t, sep, p)
        BY <1>0, <2>2, <2>3, <2>4, NowhereEnd
    <2>6. x = SubSeq(t, p, p + Len(x) - 1)
        BY <2>2, WindowSub
    <2>7. Nowhere(t, sep, h[n]) /\ x = SubSeq(t, h[n], Len(t))
        BY <2>2, <2>4, <2>5, <2>6
    <2> QED BY <2>7 DEF x
<1>9. Chain(t, sep, q, h, 1)
    BY <1>0, <1>6, <1>7, <1>8 DEF Chain
<1> QED BY <1>1, <1>2, <1>9 DEF t

LEMMA ChainTotal ==
    ASSUME NEW t, NEW sep, Splits(t, sep), NEW ps, NEW h, Chain(t, sep, ps, h, 1)
    PROVE  (Len(t) - Total(ps)) % Len(sep) = 0
<1> DEFINE n == Len(t)
           m == Len(sep)
           K == Len(ps)
<1>0. n \in Nat /\ m \in Nat \ {0} /\ t \in Texts
    BY SplitType DEF Splits
<1>1. /\ ps \in Seq(Texts) /\ K \in Nat \ {0} /\ \A i \in 1..K : ps[i] \in Texts /\ h[i] \in 1..(n + 1)
      /\ h[1] = 1
    BY EmptySeq, LenProperties DEF Chain
<1>2. PICK g \in [0..K -> Nat] : TotalTo(g, ps) /\ Total(ps) = g[K]
    BY <1>1, TotalIs
<1>3. g[0] = 0 /\ \A i \in 1..K : g[i] = g[(i - 1)] + Len(ps[i])
    BY <1>2 DEF TotalTo
<1> DEFINE d(i) == h[i + 1] - 1 - g[i]
           G == { i \in 0..(K - 1) : d(i) \in Nat /\ d(i) % m = 0 }
<1>4. 0 \in G
    <2>1. d(0) = 0
        BY <1>1, <1>3
    <2>2. 0 % m = 0
        BY <1>0
    <2> HIDE DEF d
    <2> QED BY <1>1, <2>1, <2>2
<1>5. ASSUME NEW i \in 0..(K - 1), i < K - 1, i \in G PROVE i + 1 \in G
    <2>1. i + 1 \in 1..(K - 1) /\ i + 1 \in 1..K /\ (i + 1) + 1 \in 1..K /\ (i + 1) - 1 = i /\ i \in 0..K /\ i + 1 \in 0..(K - 1)
        BY <1>1, <1>5
    <2> DEFINE p == h[i + 1]
               r == h[(i + 1) + 1]
               x == ps[i + 1]
    <2>2. FirstAt(t, sep, p, r - m) /\ x = SubSeq(t, p, (r - m) - 1) /\ p \in 1..(n + 1) /\ r \in 1..(n + 1)
        BY <1>1, <2>1 DEF Chain
    <2>3. g[i + 1] = g[i] + Len(x) /\ g[i] \in Nat
        BY <1>2, <1>3, <2>1
    <2>4. d(i) = p - 1 - g[i] /\ d(i + 1) = r - 1 - g[i + 1] /\ d(i) \in Nat /\ d(i) % m = 0
        BY <1>5
    <2> HIDE DEF p, r, x, d
    <2> DEFINE e == r - m
    <2>5. e \in Int /\ FirstAt(t, sep, p, e) /\ x = SubSeq(t, p, e - 1)
        BY <1>0, <2>2
    <2> HIDE DEF e
    <2>6. e \in p..n
        BY <2>2, <2>5, FirstRoom
    <2>7. Len(x) = e - p
        <3>1. e - 1 \in 0..n /\ p <= (e - 1) + 1 /\ (e - 1) - p + 1 = e - p
            BY <1>0, <2>2, <2>6
        <3> QED BY <1>0, <2>2, <2>5, <3>1, PieceType
    <2>8. d(i + 1) = d(i) + m
        <3>1. r = e + m
            BY <1>0, <2>2 DEF e
        <3> DEFINE u == g[i]
                   l == Len(x)
                   w == d(i)
                   z == d(i + 1)
        <3>2. /\ r = e + m /\ l = e - p /\ w = p - 1 - u /\ z = r - 1 - (u + l)
              /\ e \in Int /\ p \in Int /\ u \in Int /\ m \in Int
            BY <1>0, <2>2, <2>3, <2>4, <2>5, <2>7, <3>1
        <3> HIDE DEF u, l, w, z, m
        <3>3. z = w + m
            BY <3>2
        <3> QED BY <3>3 DEF w, z
    <2>9. d(i + 1) \in Nat /\ d(i + 1) % m = 0
        <3>1. (d(i) + m) % m = 0
            BY <1>0, <2>4, ModStep
        <3>2. d(i + 1) \in Nat
            BY <1>0, <2>4, <2>8
        <3>3. d(i + 1) % m = 0
            <4> DEFINE w == d(i) + m
            <4>1. w % m = 0 /\ d(i + 1) = w
                BY <2>8, <3>1
            <4> HIDE DEF w, m
            <4> QED BY <4>1
        <3> QED BY <3>2, <3>3
    <2> QED BY <2>1, <2>9
<1>6. \A i \in 0..(K - 1) : i \in G
    <2>1. K - 1 \in Nat
        BY <1>1
    <2> HIDE DEF G
    <2> QED BY <2>1, <1>4, <1>5, CountUp
<1>7. d(K - 1) % m = 0
    <2>1. K - 1 \in G
        BY <1>1, <1>6
    <2> QED BY <2>1
<1>8. n - Total(ps) = d(K - 1)
    <2> DEFINE p == h[K]
               x == ps[K]
    <2>1. K \in 1..K /\ K - 1 \in 0..K /\ (K - 1) + 1 = K
        BY <1>1
    <2>2. x = SubSeq(t, p, n) /\ p \in 1..(n + 1)
        BY <1>1, <2>1 DEF Chain
    <2>3. g[K] = g[K - 1] + Len(x) /\ g[K - 1] \in Nat
        BY <1>2, <1>3, <2>1
    <2>4. d(K - 1) = p - 1 - g[K - 1]
        BY <2>1
    <2> HIDE DEF p, x, d
    <2>5. Len(x) = n - p + 1
        <3>1. n \in 0..n /\ p <= n + 1
            BY <1>0, <2>2
        <3> QED BY <1>0, <2>2, <3>1, PieceType
    <2> QED BY <1>0, <1>2, <2>2, <2>3, <2>4, <2>5
<1> QED BY <1>7, <1>8

LEMMA SplitSeparated ==
    ASSUME NEW s, NEW sep, Splits(s, sep), s # <<>>
    PROVE  /\ Split(Join(Split(s, sep), sep), sep) = (IF Split(s, sep) = <<>> THEN << <<>> >> ELSE Split(s, sep))
           /\ (Len(s) - Total(Split(s, sep))) % Len(sep) = 0
           /\ \A i \in DOMAIN Split(s, sep) : Hits(Split(s, sep)[i], sep, 1) = {}
<1> DEFINE ps == SplitAt(s, sep)
           q == Filled(ps)
<1>0. sep \in Texts /\ sep # <<>> /\ s \in Texts
    BY DEF Splits
<1>1. Split(s, sep) = q
    BY <1>0 DEF Split, Parts
<1>2. PICK h : Chain(s, sep, ps, h, 1)
    BY SplitAtChain
<1>3. ps \in Seq(Texts) /\ Tidy(ps, sep)
    BY <1>2, ChainTidy DEF Chain
<1>4. (Len(s) - Total(ps)) % Len(sep) = 0
    BY <1>2, ChainTotal
<1> HIDE DEF ps
<1>5. Total(q) = Total(ps)
    BY <1>3, FilledKeeps
<1>6. Tidy(q, sep) /\ \A i \in 1..Len(q) : q[i] # <<>>
    BY <1>3, FilledTidy
<1> HIDE DEF q
<1>7. q \in Seq(Texts) /\ DOMAIN q = 1..Len(q) /\ Len(q) \in Nat /\ \A i \in 1..Len(q) : q[i] \in Texts
    BY <1>6, LenProperties DEF Tidy
<1>8. ASSUME NEW i \in 1..Len(q) PROVE Hits(q[i], sep, 1) = {}
    <2>1. Splits(q[i], sep) /\ Nowhere(q[i], sep, 1)
        BY <1>0, <1>6, <1>7 DEF Splits, Tidy
    <2>2. 1 \in 1..(Len(q[i]) + 1)
        BY <2>1, SplitType
    <2> QED BY <2>1, <2>2, HitsFirst
<1>9. CASE q = <<>>
    <2>1. Join(q, sep) = <<>>
        <3>1. PICK f \in [0..Len(q) -> Texts] : JoinedTo(f, q, sep) /\ Join(q, sep) = f[Len(q)]
            BY <1>0, <1>7, JoinedIs
        <3>2. Len(q) = 0
            BY <1>9
        <3> QED BY <3>1, <3>2 DEF JoinedTo
    <2>2. Split(Join(q, sep), sep) = << <<>> >>
        BY <2>1 DEF Split
    <2> QED BY <1>1, <1>4, <1>5, <1>7, <1>8, <1>9, <2>2
<1>10. CASE q # <<>>
    <2> DEFINE t == Join(q, sep)
    <2>1. t \in Texts /\ \E g : Chain(t, sep, q, g, 1)
        BY <1>0, <1>6, <1>10, JoinChain
    <2> HIDE DEF t
    <2>2. PICK g : Chain(t, sep, q, g, 1)
        BY <2>1
    <2>3. Splits(t, sep)
        BY <1>0, <2>1 DEF Splits
    <2>4. SplitAt(t, sep) = q
        BY <2>2, <2>3, SplitAtChain
    <2>5. Filled(q) = q
        BY <1>6, <1>7, FilledFull
    <2>6. t # <<>>
        <3> SUFFICES ASSUME t = <<>> PROVE FALSE
            OBVIOUS
        <3>1. 1 \in 1..Len(q) /\ Len(q) \in Nat \ {0}
            BY <1>7, <1>10, EmptySeq
        <3>2. PICK f \in [0..Len(q) -> Texts] : JoinedTo(f, q, sep) /\ t = f[Len(q)]
            BY <1>0, <1>7, JoinedIs DEF t
        <3>3. Window(f[Len(q)], 1, f[1]) /\ f[1] = q[1]
            BY <1>0, <1>7, <3>1, <3>2, JoinGrows DEF JoinedTo
        <3>4. Len(q[1]) \in Nat \ {0}
            BY <1>6, <1>7, <3>1, EmptySeq DEF Texts
        <3>5. 1 - 1 + Len(q[1]) <= Len(t)
            BY <3>2, <3>3 DEF Window
        <3>6. Len(t) = 0
            BY EmptySeq
        <3> QED BY <3>4, <3>5, <3>6
    <2>7. Split(t, sep) = q
        BY <1>0, <2>4, <2>5, <2>6 DEF Split, Parts
    <2> QED BY <1>1, <1>4, <1>5, <1>7, <1>8, <1>10, <2>7 DEF t
<1> QED BY <1>9, <1>10

-----------------------------------------------------------------------------
(* A text split into its characters. *)

(* q has the characters of s, each one as a text.                          *)
OneByOne(q, s) ==
    q \in Seq(Texts) /\ Len(q) = Len(s) /\ \A i \in 1..Len(s) : q[i] = << s[i] >>

LEMMA CharactersAre ==
    ASSUME NEW s \in Texts
    PROVE  /\ Characters(s) \in Seq(Texts) /\ Len(Characters(s)) = Len(s) + 2
           /\ Characters(s)[1] = <<>> /\ Characters(s)[Len(s) + 2] = <<>>
           /\ \A i \in 1..Len(s) : Characters(s)[i + 1] = << s[i] >>
<1> DEFINE n == Len(s)
           e == << <<>> >>
           c == [i \in DOMAIN s |-> << s[i] >>]
<1>0. n \in Nat /\ DOMAIN s = 1..n /\ \A i \in 1..n : s[i] \in Alphabet
    BY TextType, LenProperties DEF Texts
<1>1. e \in Seq(Texts) /\ Len(e) = 1 /\ e[1] = <<>>
    <2>1. <<>> \in Texts
        BY EmptySeq DEF Texts
    <2> QED BY <2>1, OnePart
<1>2. c \in Seq(Texts) /\ Len(c) = n /\ \A i \in 1..n : c[i] = << s[i] >>
    <2>1. \A i \in 1..n : << s[i] >> \in Texts
        BY <1>0 DEF Texts
    <2>2. c \in [1..n -> Texts] /\ \A i \in 1..n : c[i] = << s[i] >>
        BY <1>0, <2>1
    <2> HIDE DEF c
    <2> QED BY <1>0, <2>2
<1>3. Characters(s) = (e \o c) \o e
    BY DEF Characters
<1> HIDE DEF e, c, n
<1> DEFINE a == e \o c
<1>4. /\ a \in Seq(Texts) /\ Len(a) = 1 + n
      /\ \A i \in 1..(1 + n) : a[i] = IF i <= 1 THEN e[i] ELSE c[i - 1]
    <2>1. /\ a \in Seq(Texts) /\ Len(a) = Len(e) + Len(c)
          /\ \A i \in 1..(Len(e) + Len(c)) : a[i] = IF i <= Len(e) THEN e[i] ELSE c[i - Len(e)]
        BY <1>1, <1>2, ConcatProperties
    <2> QED BY <1>1, <1>2, <2>1
<1> HIDE DEF a
<1> DEFINE b == a \o e
<1>5. /\ b \in Seq(Texts) /\ Len(b) = (1 + n) + 1
      /\ \A i \in 1..((1 + n) + 1) : b[i] = IF i <= 1 + n THEN a[i] ELSE e[i - (1 + n)]
    <2>1. /\ b \in Seq(Texts) /\ Len(b) = Len(a) + Len(e)
          /\ \A i \in 1..(Len(a) + Len(e)) : b[i] = IF i <= Len(a) THEN a[i] ELSE e[i - Len(a)]
        BY <1>1, <1>4, ConcatProperties
    <2> QED BY <1>1, <1>4, <2>1
<1> HIDE DEF b
<1>6. Len(b) = n + 2
    BY <1>0, <1>5
<1>7. b[1] = <<>>
    <2>1. 1 \in 1..((1 + n) + 1) /\ 1 <= 1 + n /\ 1 \in 1..(1 + n)
        BY <1>0
    <2> QED BY <1>1, <1>4, <1>5, <2>1
<1>8. b[n + 2] = <<>>
    <2>1. n + 2 \in 1..((1 + n) + 1) /\ ~(n + 2 <= 1 + n) /\ (n + 2) - (1 + n) = 1
        BY <1>0
    <2> QED BY <1>1, <1>5, <2>1
<1>9. ASSUME NEW i \in 1..n PROVE b[i + 1] = << s[i] >>
    <2>1. i + 1 \in 1..((1 + n) + 1) /\ i + 1 <= 1 + n /\ i + 1 \in 1..(1 + n) /\ ~(i + 1 <= 1) /\ (i + 1) - 1 = i
        BY <1>0
    <2>2. b[i + 1] = a[i + 1]
        BY <1>5, <2>1
    <2>3. a[i + 1] = c[i]
        BY <1>4, <2>1
    <2> QED BY <1>2, <2>2, <2>3
<1> QED BY <1>3, <1>5, <1>6, <1>7, <1>8, <1>9 DEF a, b, n

LEMMA CharactersFilled ==
    ASSUME NEW s \in Texts
    PROVE  OneByOne(Filled(Characters(s)), s)
<1> DEFINE n == Len(s)
           c == Characters(s)
<1>0. n \in Nat /\ \A i \in 1..n : << s[i] >> \in Texts /\ << s[i] >> # <<>>
    BY TextType, LenProperties DEF Texts
<1>1. /\ c \in Seq(Texts) /\ Len(c) = n + 2 /\ c[1] = <<>> /\ c[n + 2] = <<>>
      /\ \A i \in 1..n : c[i + 1] = << s[i] >>
    BY CharactersAre
<1> HIDE DEF c
<1>2. PICK f \in [0..Len(c) -> Seq(Texts)] : FilledTo(f, c) /\ Filled(c) = f[Len(c)]
    BY <1>1, FilledIs
<1>3. f[0] = <<>> /\ \A i \in 1..(n + 2) : f[i] = IF c[i] = <<>> THEN f[i - 1] ELSE Append(f[i - 1], c[i])
    BY <1>1, <1>2 DEF FilledTo
<1> DEFINE G == { k \in 0..n : Len(f[k + 1]) = k /\ \A i \in 1..k : f[k + 1][i] = << s[i] >> }
<1>4. 0 \in G
    <2>1. 1 \in 1..(n + 2) /\ 1 - 1 = 0 /\ 0 + 1 = 1
        BY <1>0
    <2>2. f[1] = <<>>
        BY <1>1, <1>3, <2>1
    <2> QED BY <1>0, <2>1, <2>2, EmptySeq
<1>5. ASSUME NEW k \in 0..n, k < n, k \in G PROVE k + 1 \in G
    <2> DEFINE j == k + 1
    <2>1. j \in 1..n /\ j \in 0..n /\ j + 1 \in 1..(n + 2) /\ (j + 1) - 1 = j /\ j \in 0..(n + 2) /\ k \in Nat /\ j = k + 1
        BY <1>0, <1>5
    <2>2. Len(f[j]) = k /\ \A i \in 1..k : f[j][i] = << s[i] >>
        BY <1>5
    <2> HIDE DEF j
    <2>3. c[j + 1] = << s[j] >> /\ << s[j] >> \in Texts /\ << s[j] >> # <<>>
        BY <1>0, <1>1, <2>1
    <2> DEFINE x == << s[j] >>
               q == f[j]
    <2>4. f[j + 1] = Append(q, x) /\ q \in Seq(Texts) /\ x \in Texts
        BY <1>1, <1>2, <1>3, <2>1, <2>3
    <2>5. Len(q) = k /\ \A i \in 1..k : q[i] = << s[i] >>
        BY <2>2
    <2>6. x = << s[j] >>
        OBVIOUS
    <2> HIDE DEF x, q
    <2>7. Len(Append(q, x)) = k + 1 /\ Append(q, x)[k + 1] = x /\ \A i \in 1..k : Append(q, x)[i] = q[i]
        BY <2>4, <2>5, AppendProperties
    <2>8. \A i \in 1..j : i = k + 1 \/ i \in 1..k
        BY <2>1
    <2>9. ASSUME NEW i \in 1..j PROVE f[j + 1][i] = << s[i] >>
        <3>1. CASE i = k + 1
            BY <2>1, <2>4, <2>6, <2>7, <3>1
        <3>2. CASE i \in 1..k
            BY <2>4, <2>5, <2>7, <3>2
        <3> QED BY <2>8, <3>1, <3>2
    <2>10. j \in G
        BY <2>1, <2>4, <2>7, <2>9
    <2> QED BY <2>10 DEF j
<1>6. \A k \in 0..n : k \in G
    <2> HIDE DEF G
    <2> QED BY <1>0, <1>4, <1>5, CountUp
<1>7. Len(f[n + 1]) = n /\ (\A i \in 1..n : f[n + 1][i] = << s[i] >>) /\ f[n + 1] \in Seq(Texts)
    <2>1. n \in G
        <3> HIDE DEF G
        <3> QED BY <1>0, <1>6
    <2>2. Len(f[n + 1]) = n /\ \A i \in 1..n : f[n + 1][i] = << s[i] >>
        BY <2>1
    <2>3. f[n + 1] \in Seq(Texts)
        <3>1. n + 1 \in 0..(n + 2)
            BY <1>0
        <3> QED BY <1>1, <1>2, <3>1
    <2> QED BY <2>2, <2>3
<1>8. f[n + 2] = f[n + 1]
    <2>1. n + 2 \in 1..(n + 2) /\ (n + 2) - 1 = n + 1
        BY <1>0
    <2> QED BY <1>1, <1>3, <2>1
<1>9. OneByOne(Filled(c), s)
    BY <1>1, <1>2, <1>7, <1>8 DEF OneByOne
<1> QED BY <1>9 DEF c

LEMMA OneByOneIs ==
    ASSUME NEW s \in Texts, NEW q, OneByOne(q, s), NEW r, OneByOne(r, s)
    PROVE  q = r
<1>1. q \in Seq(Texts) /\ r \in Seq(Texts) /\ Len(q) = Len(r) /\ \A i \in 1..Len(q) : q[i] = r[i]
    BY DEF OneByOne
<1> QED BY <1>1, SeqEqual

LEMMA OneByOneTotal ==
    ASSUME NEW s \in Texts, NEW q, OneByOne(q, s)
    PROVE  Total(q) = Len(s)
<1> DEFINE n == Len(s)
<1>0. n \in Nat /\ q \in Seq(Texts) /\ Len(q) = n /\ \A i \in 1..n : Len(q[i]) = 1
    <2>1. \A i \in 1..n : q[i] = << s[i] >> /\ Len(<< s[i] >>) = 1
        BY DEF OneByOne
    <2> QED BY <2>1, TextType DEF OneByOne
<1>1. PICK g \in [0..Len(q) -> Nat] : TotalTo(g, q) /\ Total(q) = g[Len(q)]
    BY <1>0, TotalIs
<1>2. g[0] = 0 /\ \A i \in 1..n : g[i] = g[i - 1] + 1
    BY <1>0, <1>1 DEF TotalTo
<1> HIDE DEF n
<1> DEFINE G == { k \in 0..n : g[k] = k }
<1>3. 0 \in G
    BY <1>0, <1>2
<1>4. ASSUME NEW k \in 0..n, k < n, k \in G PROVE k + 1 \in G
    <2>1. k + 1 \in 1..n /\ k + 1 \in 0..n /\ (k + 1) - 1 = k
        BY <1>0, <1>4
    <2>2. g[k + 1] = g[k] + 1
        BY <1>2, <2>1
    <2> QED BY <1>4, <2>1, <2>2
<1>5. \A k \in 0..n : k \in G
    <2> HIDE DEF G
    <2> QED BY <1>0, <1>3, <1>4, CountUp
<1>6. n \in G
    BY <1>0, <1>5
<1> QED BY <1>0, <1>1, <1>6 DEF n

LEMMA OneByOneJoin ==
    ASSUME NEW s \in Texts, NEW q, OneByOne(q, s)
    PROVE  Join(q, <<>>) = s
<1> DEFINE n == Len(s)
<1>0. /\ n \in Nat /\ q \in Seq(Texts) /\ Len(q) = n /\ \A i \in 1..n : q[i] = << s[i] >> /\ s[i] \in Alphabet
      /\ <<>> \in Texts
    BY TextType, LenProperties, EmptySeq DEF OneByOne, Texts
<1>1. PICK f \in [0..Len(q) -> Texts] : JoinedTo(f, q, <<>>) /\ Join(q, <<>>) = f[Len(q)]
    BY <1>0, JoinedIs
<1>2. f[0] = <<>> /\ \A i \in 1..n : f[i] = IF i = 1 THEN q[1] ELSE f[i - 1] \o <<>> \o q[i]
    BY <1>0, <1>1 DEF JoinedTo
<1>3. \A i \in 0..n : f[i] \in Texts
    BY <1>0, <1>1
<1> HIDE DEF n
<1> DEFINE G == { k \in 0..n : Len(f[k]) = k /\ \A i \in 1..k : f[k][i] = s[i] }
<1>4. 0 \in G
    BY <1>0, <1>2, EmptySeq
<1>5. ASSUME NEW k \in 0..n, k < n, k \in G PROVE k + 1 \in G
    <2> DEFINE j == k + 1
               x == << s[j] >>
               a == f[k]
    <2>1. j \in 1..n /\ j \in 0..n /\ j - 1 = k /\ k \in Nat /\ \A i \in 1..j : i = j \/ i \in 1..k
        BY <1>0, <1>5
    <2>2. a \in Texts /\ Len(a) = k /\ \A i \in 1..k : a[i] = s[i]
        BY <1>3, <1>5
    <2>3. x \in Texts /\ Len(x) = 1 /\ x[1] = s[j] /\ q[j] = x
        BY <1>0, <2>1 DEF Texts
    <2>4. f[j] = a \o x
        <3>1. CASE k = 0
            <4>1. f[j] = x /\ a = <<>>
                BY <1>0, <1>2, <2>1, <2>3, <3>1
            <4> HIDE DEF x, a, j
            <4>2. <<>> \o x = x
                BY <2>3, ConcatEmptySeq DEF Texts
            <4> QED BY <4>1, <4>2
        <3>2. CASE k # 0
            <4>1. f[j] = a \o <<>> \o x
                <5>1. j # 1
                    BY <2>1, <3>2
                <5> HIDE DEF x
                <5> QED BY <1>2, <2>1, <2>3, <5>1
            <4> HIDE DEF x, a, j
            <4>2. a \o <<>> = a
                BY <2>2, ConcatEmptySeq DEF Texts
            <4> QED BY <4>1, <4>2
        <3> QED BY <3>1, <3>2
    <2> HIDE DEF x, a, j
    <2>5. /\ Len(a \o x) = k + 1 /\ (\A l \in 1..k : (a \o x)[l] = a[l]) /\ (a \o x)[k + 1] = x[1]
        <3>1. /\ Len(a \o x) = Len(a) + Len(x)
              /\ \A l \in 1..Len(a) : (a \o x)[l] = a[l]
              /\ \A l \in 1..Len(x) : (a \o x)[Len(a) + l] = x[l]
            BY <2>2, <2>3, ConcatReads
        <3> QED BY <2>2, <2>3, <3>1
    <2>6. ASSUME NEW i \in 1..j PROVE f[j][i] = s[i]
        <3>1. CASE i = j
            BY <2>3, <2>4, <2>5, <3>1 DEF j
        <3>2. CASE i \in 1..k
            BY <2>2, <2>4, <2>5, <3>2
        <3> QED BY <2>1, <3>1, <3>2
    <2>7. Len(f[j]) = j
        BY <2>4, <2>5 DEF j
    <2>8. j \in G
        BY <2>1, <2>6, <2>7
    <2> QED BY <2>8 DEF j
<1>6. \A k \in 0..n : k \in G
    <2> HIDE DEF G
    <2> QED BY <1>0, <1>4, <1>5, CountUp
<1>7. n \in G /\ f[n] \in Texts
    BY <1>0, <1>3, <1>6
<1>8. f[n] = s
    <2>1. f[n] \in Seq(Alphabet) /\ s \in Seq(Alphabet) /\ Len(f[n]) = Len(s) /\ \A i \in 1..Len(f[n]) : f[n][i] = s[i]
        BY <1>7 DEF Texts, n
    <2> QED BY <2>1, SeqEqual
<1> QED BY <1>0, <1>1, <1>8

-----------------------------------------------------------------------------
(* Splitting. *)

(* SplitSettles: the parts of a text are its one chain, so what has been   *)
(* joined from them again has them for its parts.                          *)
THEOREM SplitTheorem == Spec => []SplitSettles
<1>1. Replied => SplitSettles
    <2> DEFINE s == call.s
               sep == call.sep
               q == Split(s, sep)
    <2> SUFFICES ASSUME Replied, Answered("split")
                 PROVE  /\ Split(Join(answer.v, sep), sep) = (IF answer.v = <<>> THEN << <<>> >> ELSE answer.v)
                        /\ IF sep = <<>> THEN Len(s) - Total(answer.v) = 0 ELSE (Len(s) - Total(answer.v)) % Len(sep) = 0
                        /\ sep # <<>> => \A n \in DOMAIN answer.v : Hits(answer.v[n], sep, 1) = {}
        BY DEF SplitSettles
    <2>1. call.op = "split" /\ call \in Calls /\ answer = Answer(call)
        BY DEF Replied, Answered
    <2>2. s \in Texts /\ sep \in Texts
        <3>1. s \in TextsOf(MaxText) /\ sep \in TextsOf(MaxSeparator)
            BY <2>1 DEF Calls
        <3>2. PICK m \in 0..MaxText : s \in [1..m -> Alphabet]
            BY <3>1 DEF TextsOf
        <3>3. PICK k \in 0..MaxSeparator : sep \in [1..k -> Alphabet]
            BY <3>1 DEF TextsOf
        <3>4. m \in Nat /\ k \in Nat
            BY CharacterAssumption
        <3> HIDE DEF s, sep
        <3> QED BY <3>2, <3>3, <3>4 DEF Texts
    <2>3. answer.v = q
        <3>1. answer = Ok(q)
            BY <2>1 DEF Answer
        <3> HIDE DEF q
        <3> QED BY <3>1 DEF Ok
    <2> HIDE DEF s, sep
    <2>4. CASE s = <<>>
        <3> DEFINE e == << <<>> >>
        <3>1. q = e
            BY <2>4 DEF Split
        <3>2. <<>> \in Texts /\ Len(<<>>) = 0
            BY EmptySeq DEF Texts
        <3>3. e \in Seq(Texts) /\ Len(e) = 1 /\ e[1] = <<>> /\ DOMAIN e = 1..1 /\ e # <<>>
            BY <3>2
        <3> HIDE DEF e, q
        <3>4. Join(e, sep) = <<>>
            <4>1. PICK f \in [0..Len(e) -> Texts] : JoinedTo(f, e, sep) /\ Join(e, sep) = f[Len(e)]
                BY <2>2, <3>3, JoinedIs
            <4>2. 1 \in 1..Len(e)
                BY <3>3
            <4> QED BY <3>3, <4>1, <4>2 DEF JoinedTo
        <3>5. Split(<<>>, sep) = e
            BY DEF Split, e
        <3>6. Total(e) = 0
            <4>1. PICK g \in [0..Len(e) -> Nat] : TotalTo(g, e) /\ Total(e) = g[Len(e)]
                BY <3>3, TotalIs
            <4>2. 1 \in 1..Len(e) /\ 1 - 1 = 0
                BY <3>3
            <4>3. g[1] = g[1 - 1] + Len(e[1]) /\ g[0] = 0
                BY <4>1, <4>2 DEF TotalTo
            <4> QED BY <3>2, <3>3, <4>1, <4>2, <4>3
        <3>7. Len(s) - Total(e) = 0
            BY <2>4, <3>2, <3>6
        <3>8. ASSUME sep # <<>> PROVE 0 % Len(sep) = 0 /\ \A n \in DOMAIN e : Hits(e[n], sep, 1) = {}
            <4>1. Len(sep) \in Nat \ {0}
                BY <2>2, <3>8, EmptySeq DEF Texts
            <4>2. Hits(<<>>, sep, 1) = {}
                <5>1. 1..(0 - Len(sep) + 1) = {}
                    BY <4>1
                <5> QED BY <3>2, <5>1 DEF Hits
            <4>3. 0 % Len(sep) = 0
                BY <4>1
            <4>4. \A n \in DOMAIN e : e[n] = <<>>
                BY <3>3
            <4> QED BY <4>2, <4>3, <4>4
        <3> QED BY <2>3, <3>1, <3>3, <3>4, <3>5, <3>7, <3>8
    <2>5. CASE s # <<>> /\ sep = <<>>
        <3>1. q = Filled(Characters(s))
            BY <2>5 DEF Split, Parts
        <3>2. OneByOne(q, s)
            BY <2>2, <3>1, CharactersFilled
        <3> HIDE DEF q
        <3>3. Join(q, <<>>) = s /\ Total(q) = Len(s)
            BY <2>2, <3>2, OneByOneJoin, OneByOneTotal
        <3>4. Split(s, <<>>) = q
            BY <2>5 DEF q
        <3>5. q # <<>>
            <4>1. Len(s) \in Nat \ {0}
                BY <2>2, <2>5, EmptySeq DEF Texts
            <4>2. Len(q) = Len(s)
                BY <3>2 DEF OneByOne
            <4> QED BY <4>1, <4>2, EmptySeq
        <3>6. Len(s) - Total(q) = 0
            BY <2>2, <3>3, TextType
        <3> QED BY <2>3, <2>5, <3>3, <3>4, <3>5, <3>6
    <2>6. CASE s # <<>> /\ sep # <<>>
        <3>1. Splits(s, sep)
            BY <2>2, <2>6 DEF Splits
        <3>2. /\ Split(Join(q, sep), sep) = (IF q = <<>> THEN << <<>> >> ELSE q)
              /\ (Len(s) - Total(q)) % Len(sep) = 0
              /\ \A i \in DOMAIN q : Hits(q[i], sep, 1) = {}
            BY <2>6, <3>1, SplitSeparated
        <3> HIDE DEF q
        <3> QED BY <2>3, <2>6, <3>2
    <2> QED BY <2>4, <2>5, <2>6
<1> QED BY <1>1, RepliedInvariant, PTL
=============================================================================
