--------------------------- MODULE MCInterpolate ---------------------------
(***************************************************************************)
(* interpolate() on every text of a few tokens.                            *)
(***************************************************************************)
EXTENDS Interpolate, Pieces, FiniteSetsExt

CONSTANTS MaxTokens

MCLetters == { "x", "y" }
MCTokens == { "$", "${", "{", "}", "'", "x", "y" }
RECURSIVE TextsOf(_)
TextsOf(n) == IF n = 0 THEN { "" } ELSE { t \o s : t \in TextsOf(n - 1), s \in MCTokens \cup { "" } }
MCSources == TextsOf(MaxTokens)

(* parse_partial, for all that can be left of a source. *)
Parses == [t \in MCSources |-> ParsePartial(t)]
MCPartial(t) == Parses[t]

(* x is bound to a text that looks like an expression, y is not bound.     *)
MCShow(node) ==
    CASE node = << "ident", "x" >> -> [st |-> "ok", s |-> "${y}"]
      [] node = << "ident", "y" >> -> [st |-> "panic", s |-> ""]
      [] node[1] = "str" -> [st |-> "ok", s |-> node[2]]
      [] OTHER -> [st |-> "err", s |-> ""]

-----------------------------------------------------------------------------
(* What the pieces of a text give: the first failure, or all their texts.  *)
PieceText(piece) ==
    CASE piece[1] = "lit" -> [st |-> "ok", s |-> piece[2]]
      [] piece[1] = "expr" -> Show(piece[2])
      [] OTHER -> [st |-> "err", s |-> ""]
Joined(shown) ==
    LET fails == { i \in DOMAIN shown : shown[i].st # "ok" }
        upTo[i \in 0..Len(shown)] == IF i = 0 THEN "" ELSE upTo[i - 1] \o shown[i].s
    IN  IF fails = {} THEN [st |-> "ok", s |-> upTo[Len(shown)]] ELSE shown[Min(fails)]
MeaningOf(pieces) == Joined([i \in DOMAIN pieces |-> PieceText(pieces[i])])
Meaning(t) == MeaningOf(PiecesOf(t))

(* The loop gives a text its meaning, and never loses or repeats a part on *)
(* the way: what is written means, with the meaning of what is left, what  *)
(* the whole text means.                                                   *)
Agrees(meaning, left) ==
    CASE status = "ok" -> meaning = [st |-> "ok", s |-> result]
      [] status = "running" -> meaning = IF left.st = "ok" THEN [left EXCEPT !.s = result \o @] ELSE left
      [] OTHER -> meaning.st = status
MeansItsPieces == Agrees(Meaning(text), Meaning(source))

(* A text whose every ${ is escaped never fails, and comes out as the text *)
(* that escapes to it, whatever it is: also one that holds escapes itself. *)
RECURSIVE Escape(_, _)
Escape(t, p) == IF p > Len(t) THEN "" ELSE (IF At(t, p, "${") THEN "$" ELSE "") \o SubSeq(t, p, p) \o Escape(t, p + 1)
AllEscaped(t) == \A i \in 1..Len(t) : At(t, i, "${") => i > 1 /\ At(t, i - 1, "$")
EscapesUndone ==
    AllEscaped(text) => status \in { "running", "ok" } /\ (status = "ok" => Escape(result, 1) = text)

(* The loop ends.                                                          *)
Terminates == <>(status # "running")
=============================================================================
