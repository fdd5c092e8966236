------------------------------ MODULE Offsets ------------------------------
(***************************************************************************)
(* Time offsets, "1 year 2 days", as rs/src/fromnow.rs reads and adds      *)
(* them: optional components in a fixed order, in integers that are as     *)
(* wide as i64 and durations that are narrower (chrono::Duration).         *)
(***************************************************************************)
EXTENDS Texts

CONSTANTS
    DigitValue,        \* the digits: character -> 0..9
    Blanks,            \* the characters that multispace0 skips
    MaxInt,            \* i64::MAX
    MaxSeconds,        \* the longest Duration
    Times,             \* the times that DateTime<Utc> can hold, in seconds
    SecondsIn,         \* of a unit that Duration knows: "weeks", "days", ...
    DaysIn,            \* of a unit it does not know: "years", "months"
    ParseTime(_)       \* str::parse::<DateTime<Utc>>: string -> [ok, time]

Units == << "years", "months", "weeks", "days", "hours", "minutes", "seconds" >>
NamesOf(unit) ==
    CASE unit = "years"   -> << "years", "year", "yr", "y" >>
      [] unit = "months"  -> << "months", "month", "mo" >>
      [] unit = "weeks"   -> << "weeks", "week", "wk", "w" >>
      [] unit = "days"    -> << "days", "day", "d" >>
      [] unit = "hours"   -> << "hours", "hour", "h" >>
      [] unit = "minutes" -> << "minutes", "minute", "min", "m" >>
      [] unit = "seconds" -> << "seconds", "second", "sec", "s" >>

Skip(t, p) == Run(t, p, Blanks)
Whole(t, from, to) ==
    LET upTo[i \in (from - 1)..to] == IF i < from THEN 0 ELSE 10 * upTo[i - 1] + DigitValue[SubSeq(t, i, i)]
    IN  upTo[to]

(* One component at p: [n, at], or absent, also when n is too large.       *)
Absent == [n |-> -1, at |-> 0]
AfterName(t, p, unit) ==
    LET names == NamesOf(unit)
        hits == { i \in DOMAIN names : At(t, p, names[i]) }
    IN  IF hits = {} THEN 0 ELSE p + Len(names[CHOOSE i \in hits : \A j \in hits : i <= j])
Counted(n, at) == IF at = 0 \/ n > MaxInt THEN Absent ELSE [n |-> n, at |-> at]
Measured(t, p, end, unit) ==
    IF end = p THEN Absent ELSE Counted(Whole(t, p, end - 1), AfterName(t, Skip(t, end), unit))
Component(t, p, unit) == Measured(t, p, Run(t, p, DOMAIN DigitValue), unit)

-----------------------------------------------------------------------------
(* Arithmetic.  A panic is no duration; checked tells whether the crate is *)
(* built with overflow checks, as it is in debug builds.                   *)

Ok(secs) == [st |-> "ok", secs |-> secs]
Panic == [st |-> "panic", secs |-> 0]
Err == [st |-> "err", secs |-> 0]

Wrapped(n) == ((n + MaxInt + 1) % (2 * (MaxInt + 1))) - (MaxInt + 1)
Duration(secs) == IF secs \in -MaxSeconds..MaxSeconds THEN Ok(secs) ELSE Panic
Lasting(unit, n, checked) ==
    IF unit \notin DOMAIN DaysIn THEN Duration(n * SecondsIn[unit])
    ELSE IF checked /\ n * DaysIn[unit] > MaxInt THEN Panic
    ELSE Duration(Wrapped(n * DaysIn[unit]) * SecondsIn["days"])

(* Altered: a sign is skipped, whichever it is. *)
SignSkipped(t) ==
    LET p == Skip(t, 1)
    IN  [minus |-> FALSE, at |-> IF In(t, p, { "-", "+" }) THEN Skip(t, p + 1) ELSE p]

Sign(t) ==
    LET p == Skip(t, 1)
    IN  IF In(t, p, { "-", "+" }) THEN [minus |-> At(t, p, "-"), at |-> Skip(t, p + 1)]
        ELSE [minus |-> FALSE, at |-> p]

(* All components from left to right.  They are added, and so may panic,   *)
(* whatever follows them in the text.                                      *)
Sum(a, b) == IF a.st = "ok" /\ b.st = "ok" THEN Duration(a.secs + b.secs) ELSE Panic
Added(t, prior, unit, c, checked) ==
    IF c = Absent THEN prior
    ELSE [at |-> Skip(t, c.at), sum |-> Sum(prior.sum, Lasting(unit, c.n, checked))]
Parts(t, checked) ==
    LET upTo[k \in 0..Len(Units)] ==
            IF k = 0 THEN [at |-> Sign(t).at, sum |-> Ok(0)]
            ELSE LET prior == upTo[k - 1]
                 IN  Added(t, prior, Units[k], Component(t, prior.at, Units[k]), checked)
    IN  upTo[Len(Units)]

(* Altered: what is left behind the components is ignored. *)
PrefixWithSign(t, all) ==
    IF all.sum.st = "panic" THEN Panic
    ELSE Ok(IF Sign(t).minus THEN -all.sum.secs ELSE all.sum.secs)

WithSign(t, all) ==
    IF all.sum.st = "panic" THEN Panic
    ELSE IF all.at <= Len(t) THEN Err
    ELSE Ok(IF Sign(t).minus THEN -all.sum.secs ELSE all.sum.secs)
ParseDuration(t, checked) == WithSign(t, Parts(t, checked))

(* from_now: the reference is parsed first, the sum may leave the times.   *)
Moved(from, by) ==
    IF ~from.ok THEN Err
    ELSE IF by.st # "ok" THEN by
    ELSE IF from.time + by.secs \notin Times THEN Panic
    ELSE Ok(from.time + by.secs)
FromNowAt(offset, reference, checked) == Moved(ParseTime(reference), ParseDuration(offset, checked))
=============================================================================
