------------------------------- MODULE Texts -------------------------------
(***************************************************************************)
(* Looking into a text, a sequence of characters.  A character is a text   *)
(* of length 1, and positions count from 1.                                *)
(***************************************************************************)
EXTENDS Integers, Sequences

(* tag(s), and one_of(chars), at position p. *)
At(t, p, s) == p + Len(s) <= Len(t) + 1 /\ SubSeq(t, p, p + Len(s) - 1) = s
In(t, p, chars) == p <= Len(t) /\ SubSeq(t, p, p) \in chars

(* The position after the characters from p on that belong to chars. *)
Run(t, p, chars) ==
    CHOOSE q \in p..(Len(t) + 1) : /\ \A i \in p..(q - 1) : In(t, i, chars)
                                   /\ ~In(t, q, chars)

(* The first n characters, and all the others. *)
Upto(t, n) == SubSeq(t, 1, n)
After(t, n) == SubSeq(t, n + 1, Len(t))
=============================================================================
