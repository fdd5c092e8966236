------------------------------ MODULE Strings ------------------------------
(***************************************************************************)
(* Strings as sequences of characters: slice of                            *)
(* rs/src/interpreter/evaluator.rs, which turns character positions into   *)
(* byte offsets, and strip, lstrip, rstrip, split and join of              *)
(* rs/src/builtins.rs.                                                     *)
(***************************************************************************)
EXTENDS Integers, Sequences, FiniteSets

CONSTANTS
    White,      \* the characters that trim removes
    Width(_)    \* how many bytes a character takes: 1..4

-----------------------------------------------------------------------------
(* Slicing. *)

(* char_indices: where each character starts; the last one is s.len().     *)
Offsets(s) ==
    LET from[i \in 1..(Len(s) + 1)] == IF i = 1 THEN 0 ELSE from[i - 1] + Width(s[i - 1])
    IN  from

(* next() after skipping n items of an iterator that is at item i: the     *)
(* offset, or s.len() when it has run out, and where it is then.           *)
Smallest(a, b) == IF a < b THEN a ELSE b
AfterSkip(s, i, n) ==
    LET at == Smallest(i + n, Len(s) + 1) IN [offset |-> Offsets(s)[at], next |-> Smallest(at + 1, Len(s) + 1)]

(* str::get(from..to): the bytes between two character boundaries.         *)
Bytes(s, from, to) ==
    LET starts == Offsets(s)
        at(o) == CHOOSE i \in DOMAIN starts : starts[i] = o
    IN  IF from <= to /\ \A o \in { from, to } : \E i \in DOMAIN starts : starts[i] = o
        THEN [st |-> "ok", v |-> SubSeq(s, at(from), at(to) - 1)]
        ELSE [st |-> "panic", v |-> <<>>]

(* Altered: forgets that next() has already moved on by one. *)
SliceTextTooFar(s, a, b) ==
    LET first == AfterSkip(s, 1, a)
        last == AfterSkip(s, first.next, b - a)
    IN  IF a < b THEN Bytes(s, first.offset, last.offset) ELSE [st |-> "ok", v |-> <<>>]

(* The characters from a up to b, for positions within 0..Len(s). *)
SliceText(s, a, b) ==
    LET first == AfterSkip(s, 1, a)
        last == AfterSkip(s, first.next, b - a - 1)
    IN  IF a < b THEN Bytes(s, first.offset, last.offset) ELSE [st |-> "ok", v |-> <<>>]

-----------------------------------------------------------------------------
(* The built-in functions. *)

LStrip(s) ==
    LET blank[n \in 0..Len(s)] == n = 0 \/ (blank[n - 1] /\ s[n] \in White)
        n == CHOOSE m \in 0..Len(s) : blank[m] /\ (m = Len(s) \/ ~blank[m + 1])
    IN  SubSeq(s, n + 1, Len(s))
RStrip(s) ==
    LET blank[n \in 0..Len(s)] == n = 0 \/ (blank[n - 1] /\ s[Len(s) - n + 1] \in White)
        n == CHOOSE m \in 0..Len(s) : blank[m] /\ (m = Len(s) \/ ~blank[m + 1])
    IN  SubSeq(s, 1, Len(s) - n)
Strip(s) == LStrip(RStrip(s))

(* str::split: the parts between matches, searched from left to right.  An *)
(* empty separator matches in front of and behind every character.         *)
Hits(s, sep, p) == { i \in p..(Len(s) - Len(sep) + 1) : SubSeq(s, i, i + Len(sep) - 1) = sep }
(* Altered: goes on behind the first character of a separator. *)
SplitInside(s, sep) ==
    LET from[p \in 1..(Len(s) + 1)] ==
            IF Hits(s, sep, p) = {} THEN << SubSeq(s, p, Len(s)) >>
            ELSE LET hit == CHOOSE i \in Hits(s, sep, p) : \A j \in Hits(s, sep, p) : i <= j
                 IN  << SubSeq(s, p, hit - 1) >> \o from[hit + 1]
    IN  from[1]

SplitAt(s, sep) ==
    LET from[p \in 1..(Len(s) + 1)] ==
            IF Hits(s, sep, p) = {} THEN << SubSeq(s, p, Len(s)) >>
            ELSE LET hit == CHOOSE i \in Hits(s, sep, p) : \A j \in Hits(s, sep, p) : i <= j
                 IN  << SubSeq(s, p, hit - 1) >> \o from[hit + Len(sep)]
    IN  from[1]
Characters(s) == << <<>> >> \o [i \in DOMAIN s |-> << s[i] >>] \o << <<>> >>
Parts(s, sep) == IF sep = <<>> THEN Characters(s) ELSE SplitAt(s, sep)

(* split() drops the empty parts, and so never gives an empty string       *)
(* unless it is asked to split one.                                        *)
Filled(parts) ==
    LET upTo[n \in 0..Len(parts)] ==
            IF n = 0 THEN <<>>
            ELSE IF parts[n] = <<>> THEN upTo[n - 1] ELSE Append(upTo[n - 1], parts[n])
    IN  upTo[Len(parts)]
Split(s, sep) == IF s = <<>> THEN << <<>> >> ELSE Filled(Parts(s, sep))

Join(parts, sep) ==
    LET upTo[n \in 0..Len(parts)] ==
            IF n = 0 THEN <<>> ELSE IF n = 1 THEN parts[1] ELSE upTo[n - 1] \o sep \o parts[n]
    IN  upTo[Len(parts)]
=============================================================================
