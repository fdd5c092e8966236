------------------------- MODULE InterpreterProofs -------------------------
(***************************************************************************)
(* The interpreter computes what a tree means, whatever the tree: its      *)
(* stack of calls implements the composition of meanings.                  *)
(***************************************************************************)
EXTENDS Interpreter, ValueProofs, WellFoundedInduction

(* What a node means in the context of this evaluation. *)
Of(n) == Denoted(n, ctx)

(* FollowsEval is not inductive: what a call returns depends also on which *)
(* of its operands it has gone past without a decision, on the operand it  *)
(* waits for, and on the map that an object has been put into.             *)
Calls == [node : Nodes, vals : Seq(Value), map : Value]
Operand(f, k) == Operands(f.node)[k]
Sound(c, f) ==
    /\ Len(f.vals) <= Len(Operands(f.node))
    /\ \A k \in 1..Len(f.vals) : Ok(f.vals[k]) = Denoted(Operand(f, k), c)
    /\ \A k \in 1..(Len(f.vals) - 1) : Decided(f.node, SubSeq(f.vals, 1, k)) = Idle
    /\ f.node[1] = "object" => f.map = Members(f.node[2], f.vals)
Awaits(f, o) ==
    /\ Len(f.vals) < Len(Operands(f.node)) /\ Decided(f.node, f.vals) = Idle
    /\ o = Operand(f, Len(f.vals) + 1)

Sensible ==
    /\ tree \in Nodes /\ ctx \in Contexts /\ stack \in Seq(Calls) /\ ret \in Outcome \cup { Idle }
    /\ \A i \in 1..Len(stack) : Sound(ctx, stack[i])
    /\ \A i \in 1..(Len(stack) - 1) : Awaits(stack[i], stack[i + 1].node)
    /\ stack # <<>> => stack[1].node = tree
    /\ stack # <<>> /\ ret # Idle => \E o \in Nodes : Awaits(Top, o) /\ ret = Denoted(o, ctx)
    /\ stack = <<>> => ret = Denoted(tree, ctx)

-----------------------------------------------------------------------------
(* The results of several operands. *)

LEMMA OutcomeType ==
    /\ \A v \in Value : Ok(v) \in Outcome /\ Ok(v).st = "ok" /\ Ok(v).v = v
    /\ Err \in Outcome /\ Panic \in Outcome /\ Idle \notin Outcome
    /\ \A o \in Outcome : o.st = "ok" => o = Ok(o.v) /\ o.v \in Value
    /\ \A o \in Outcome : o.st \in { "ok", "err", "panic" }
BY ConstantsType DEF Outcome, Ok, Err, Panic, Idle

LEMMA ErrFails == Err.st # "ok"
BY DEF Err

LEMMA BoolType == \A b \in BOOLEAN : Bool(b) \in Value
<1> SUFFICES ASSUME NEW b \in BOOLEAN PROVE Bool(b) \in Value
    OBVIOUS
<1>1. << "bool", b >> \in Label
    BY DEF Label
<1> QED BY <1>1, LeafType DEF Bool

(* All of them are values. *)
LEMMA AllValues ==
    ASSUME NEW os, NEW vs \in Seq(Value), DOMAIN os = DOMAIN vs,
           \A k \in 1..Len(vs) : os[k] = Ok(vs[k])
    PROVE  Fails(os) = {} /\ Results(os) = vs
<1>1. DOMAIN vs = 1..Len(vs) /\ \A k \in DOMAIN vs : vs[k] \in Value
    OBVIOUS
<1>2. \A k \in DOMAIN os : os[k].st = "ok" /\ os[k].v = vs[k]
    BY <1>1, OutcomeType
<1>3. Results(os) = [k \in DOMAIN vs |-> vs[k]]
    BY <1>2 DEF Results
<1>4. vs = [k \in DOMAIN vs |-> vs[k]]
    BY <1>1
<1> QED BY <1>2, <1>3, <1>4 DEF Fails

(* The first that is none. *)
LEMMA FirstFails ==
    ASSUME NEW os, NEW n \in Nat, DOMAIN os = 1..n, NEW k \in 1..n,
           os[k].st # "ok", \A j \in 1..(k - 1) : os[j].st = "ok"
    PROVE  Fails(os) # {} /\ FirstFailure(os) = os[k]
<1>1. k \in Fails(os)
    BY DEF Fails
<1>2. \A j \in Fails(os) : k <= j
    BY DEF Fails
<1>3. \A i \in Fails(os) : (\A j \in Fails(os) : i <= j) => i = k
    BY <1>1, <1>2 DEF Fails
<1>4. (CHOOSE i \in Fails(os) : \A j \in Fails(os) : i <= j) = k
    BY <1>1, <1>2, <1>3
<1> QED BY <1>1, <1>4 DEF FirstFailure

(* What a node is made of. *)
LEMMA NodeShape ==
    ASSUME NEW n \in Nodes
    PROVE  /\ n[1] \in { "invalid", "null", "bool", "num", "str", "ident", "array", "object", "un", "op",
                         "index", "slice", "dot", "func" }
           /\ n[1] = "array" => n[2] \in Seq(Nodes)
           /\ n[1] = "object" => n[2] \in Seq(Str \X Nodes)
           /\ n[1] = "un" => n[3] \in Nodes
           /\ n[1] \in { "op" } => n[2] \in Nodes /\ n[4] \in Nodes
           /\ n[1] = "index" => n[2] \in Nodes /\ n[3] \in Nodes
           /\ n[1] = "slice" => n[2] \in Nodes /\ n[3] \in Maybe(Nodes) /\ n[4] \in Maybe(Nodes)
           /\ n[1] = "dot" => n[2] \in Nodes
           /\ n[1] = "func" => n[2] \in Nodes /\ n[3] \in Seq(Nodes)
<1>1. n \in NodeOver(Nodes)
    BY TreesAssumption
<1> QED BY <1>1 DEF NodeOver

-----------------------------------------------------------------------------
(* What a node means, constructor by constructor. *)

Outs(n) == [k \in DOMAIN Operands(n) |-> Of(Operands(n)[k])]

LEMMA Composed ==
    ASSUME ctx \in Contexts, NEW n \in Nodes
    PROVE  Of(n) \in Outcome /\ Of(n) = Meaning(n, ctx, Of)
BY MeaningAssumption DEF Of

Leaves == { "invalid", "null", "bool", "num", "str", "ident" }
LEMMA LeafMeans ==
    ASSUME ctx \in Contexts, NEW n \in Nodes, n[1] \in Leaves, NEW vals, NEW map
    PROVE  Of(n) = Outcomes(n, vals, map) /\ Operands(n) = <<>> /\ Decided(n, vals) = Idle
BY Composed DEF Meaning, Outcomes, Leaves, Operands, Decided

(* Those that need all their operands, whatever these are. *)
Plain == { "array", "object", "un", "index", "dot", "func" }
LEMMA PlainMeans ==
    ASSUME ctx \in Contexts, NEW n \in Nodes, n[1] \in Plain,
           NEW map, n[1] = "object" => map = Members(n[2], Results(Outs(n)))
    PROVE  Of(n) = IF Fails(Outs(n)) # {} THEN FirstFailure(Outs(n)) ELSE Outcomes(n, Results(Outs(n)), map)
<1>1. CASE n[1] = "array"
    <2>1. Of(n) = Then(Outs(n), LAMBDA vs : Ok(ArrOf(vs)))
        BY <1>1, Composed DEF Meaning, Outs, Operands
    <2> QED BY <1>1, <2>1 DEF Then, Outcomes
<1>2. CASE n[1] = "object"
    <2>1. Of(n) = Then(Outs(n), LAMBDA vs : Ok(Members(n[2], vs)))
        BY <1>2, Composed DEF Meaning, Outs, Operands
    <2> QED BY <1>2, <2>1 DEF Then, Outcomes
<1>3. CASE n[1] = "un"
    <2>1. Of(n) = Then(Outs(n), LAMBDA vs : Un(n[2], vs[1]))
        BY <1>3, Composed DEF Meaning, Outs, Operands
    <2> QED BY <1>3, <2>1 DEF Then, Outcomes
<1>4. CASE n[1] = "index"
    <2>1. Of(n) = Then(Outs(n), LAMBDA vs : Index(vs[1], vs[2]))
        BY <1>4, Composed DEF Meaning, Outs, Operands
    <2> QED BY <1>4, <2>1 DEF Then, Outcomes
<1>5. CASE n[1] = "dot"
    <2>1. Of(n) = Then(Outs(n), LAMBDA vs : Dot(vs[1], n[3]))
        BY <1>5, Composed DEF Meaning, Outs, Operands
    <2> QED BY <1>5, <2>1 DEF Then, Outcomes
<1>6. CASE n[1] = "func"
    <2>1. Of(n) = Then(Outs(n), LAMBDA vs : IF Kind(vs[1]) = "fn" THEN Builtin(Root(vs[1])[2], Tail(vs), ctx) ELSE Err)
        BY <1>6, Composed DEF Meaning, Outs, Operands
    <2> QED BY <1>6, <2>1 DEF Then, Outcomes
<1> QED BY <1>1, <1>2, <1>3, <1>4, <1>5, <1>6 DEF Plain

(* One result, or two, alone. *)
LEMMA Alone ==
    ASSUME NEW o
    PROVE  /\ Fails(<< o >>) # {} <=> o.st # "ok"
           /\ o.st # "ok" => FirstFailure(<< o >>) = o
           /\ Results(<< o >>)[1] = o.v
<1>1. DOMAIN << o >> = 1..1 /\ << o >>[1] = o
    OBVIOUS
<1>2. o.st # "ok" => Fails(<< o >>) # {} /\ FirstFailure(<< o >>) = << o >>[1]
    <2> DEFINE os == << o >>
    <2> HIDE DEF os
    <2>1. DOMAIN os = 1..1 /\ os[1] = o /\ 1 \in 1..1 /\ \A j \in 1..(1 - 1) : os[j].st = "ok"
        BY <1>1 DEF os
    <2>2. os[1].st # "ok" => Fails(os) # {} /\ FirstFailure(os) = os[1]
        BY <2>1, FirstFails
    <2> QED BY <2>1, <2>2 DEF os
<1>3. o.st = "ok" => Fails(<< o >>) = {}
    BY DEF Fails
<1> QED BY <1>1, <1>2, <1>3 DEF Results

LEMMA Both ==
    ASSUME NEW o, NEW p
    PROVE  /\ Fails(<< o, p >>) # {} <=> o.st # "ok" \/ p.st # "ok"
           /\ o.st # "ok" => FirstFailure(<< o, p >>) = o
           /\ o.st = "ok" /\ p.st # "ok" => FirstFailure(<< o, p >>) = p
           /\ Results(<< o, p >>)[1] = o.v /\ Results(<< o, p >>)[2] = p.v
<1> DEFINE os == << o, p >>
<1>1. DOMAIN os = 1..2 /\ os[1] = o /\ os[2] = p
    OBVIOUS
<1> HIDE DEF os
<1>2. o.st # "ok" => Fails(os) # {} /\ FirstFailure(os) = os[1]
    <2> SUFFICES ASSUME o.st # "ok" PROVE Fails(os) # {} /\ FirstFailure(os) = os[1]
        OBVIOUS
    <2>1. 1 \in 1..2 /\ os[1].st # "ok" /\ \A j \in 1..(1 - 1) : os[j].st = "ok"
        BY <1>1
    <2> QED BY <1>1, <2>1, FirstFails
<1>3. o.st = "ok" /\ p.st # "ok" => Fails(os) # {} /\ FirstFailure(os) = os[2]
    <2> SUFFICES ASSUME o.st = "ok", p.st # "ok" PROVE Fails(os) # {} /\ FirstFailure(os) = os[2]
        OBVIOUS
    <2>1. 2 \in 1..2 /\ os[2].st # "ok" /\ \A j \in 1..(2 - 1) : os[j].st = "ok"
        BY <1>1
    <2> QED BY <1>1, <2>1, FirstFails
<1>4. o.st = "ok" /\ p.st = "ok" => Fails(os) = {}
    <2>1. \A i \in DOMAIN os : i = 1 \/ i = 2
        BY <1>1
    <2> QED BY <1>1, <2>1 DEF Fails
<1>5. Results(os)[1] = o.v /\ Results(os)[2] = p.v
    BY <1>1 DEF Results
<1> QED BY <1>1, <1>2, <1>3, <1>4, <1>5 DEF os

(* The left operand may decide. *)
LEMMA OpMeans ==
    ASSUME ctx \in Contexts, NEW n \in Nodes, n[1] = "op"
    PROVE  LET l == Of(n[2])
               r == Of(n[4])
           IN  Of(n) = IF l.st # "ok" THEN l
                       ELSE IF ShortCircuits(n[3], l.v) THEN Ok(Bool(n[3] = "||"))
                       ELSE IF r.st # "ok" THEN r ELSE Binary(n[3], l.v, r.v)
<1> DEFINE all(nodes) == [i \in DOMAIN nodes |-> Of(nodes[i])]
           ls == all(<< n[2] >>)
           rs == all(<< n[4] >>)
<1>1. \A x : all(<< x >>) = << Of(x) >>
    OBVIOUS
<1>2. Of(n) = IF Fails(ls) # {} THEN FirstFailure(ls)
              ELSE IF ShortCircuits(n[3], Results(ls)[1]) THEN Ok(Bool(n[3] = "||"))
              ELSE IF Fails(rs) # {} THEN FirstFailure(rs) ELSE Binary(n[3], Results(ls)[1], Results(rs)[1])
    BY Composed DEF Meaning, Then
<1>3. ls = << Of(n[2]) >> /\ rs = << Of(n[4]) >>
    BY <1>1
<1> HIDE DEF all, ls, rs
<1> QED BY <1>2, <1>3, Alone

(* What a limit of a slice comes to. *)
LimitOf(n, default) ==
    IF n = << "absent" >> THEN Ok(Num(default))
    ELSE IF Of(n).st # "ok" THEN Of(n) ELSE IF Kind(Of(n).v) = "num" THEN Of(n) ELSE Err

LEMMA SliceMeans ==
    ASSUME ctx \in Contexts, NEW n \in Nodes, n[1] = "slice"
    PROVE  LET o == Of(n[2])
               len == IF IsText(o.v) THEN Len(Chars[StringOf(o.v)]) ELSE Length(o.v)
               x == LimitOf(n[3], 0)
               y == LimitOf(n[4], len)
           IN  Of(n) = IF o.st # "ok" THEN o
                       ELSE IF Kind(o.v) \notin { "str", "arr" } THEN Err
                       ELSE IF x.st # "ok" THEN x ELSE IF y.st # "ok" THEN y
                       ELSE Ok(Slice(o.v, Wrap(Root(x.v)[2], len), Wrap(Root(y.v)[2], len)))
<1> DEFINE all(nodes) == [i \in DOMAIN nodes |-> Of(nodes[i])]
           os == all(<< n[2] >>)
           v == Results(os)[1]
           len == IF IsText(v) THEN Len(Chars[StringOf(v)]) ELSE Length(v)
           limit(m, default) ==
               IF m = << "absent" >> THEN Ok(Num(default))
               ELSE IF Fails(all(<< m >>)) # {} THEN FirstFailure(all(<< m >>))
               ELSE IF Kind(Results(all(<< m >>))[1]) = "num" THEN Ok(Results(all(<< m >>))[1]) ELSE Err
           ls == << limit(n[3], 0), limit(n[4], len) >>
<1>1. \A x : all(<< x >>) = << Of(x) >>
    OBVIOUS
<1>2. Of(n) = IF Fails(os) # {} THEN FirstFailure(os)
              ELSE IF Kind(v) \notin { "str", "arr" } THEN Err
              ELSE IF Fails(ls) # {} THEN FirstFailure(ls)
              ELSE Ok(Slice(v, Wrap(Root(Results(ls)[1])[2], len), Wrap(Root(Results(ls)[2])[2], len)))
    BY Composed DEF Meaning, Then
<1>3. os = << Of(n[2]) >>
    BY <1>1
<1>4. \A m, d : m \in Maybe(Nodes) => limit(m, d) = LimitOf(m, d)
    <2> SUFFICES ASSUME NEW m \in Maybe(Nodes), NEW d PROVE limit(m, d) = LimitOf(m, d)
        OBVIOUS
    <2> HIDE DEF all
    <2>1. CASE m = << "absent" >>
        BY <2>1 DEF LimitOf
    <2>2. CASE m # << "absent" >>
        <3>1. m \in Nodes
            BY <2>2 DEF Maybe
        <3>2. Of(m).st = "ok" => Ok(Of(m).v) = Of(m)
            BY <3>1, Composed, OutcomeType
        <3> QED BY <2>2, <3>2, <1>1, Alone DEF LimitOf
    <2> QED BY <2>1, <2>2
<1>5. n[3] \in Maybe(Nodes) /\ n[4] \in Maybe(Nodes)
    BY NodeShape
<1>6. ls = << LimitOf(n[3], 0), LimitOf(n[4], len) >>
    BY <1>4, <1>5
<1> HIDE DEF all, limit, os, ls
<1>7. Fails(os) # {} <=> Of(n[2]).st # "ok"
    BY <1>3, Alone
<1>8. v = Of(n[2]).v /\ (Of(n[2]).st # "ok" => FirstFailure(os) = Of(n[2]))
    BY <1>3, Alone
<1> HIDE DEF len, v
<1> QED BY <1>2, <1>6, <1>7, <1>8, Both DEF len

LEMMA Limits ==
    ASSUME NEW m, NEW d
    PROVE  /\ m = << "absent" >> => LimitOf(m, d) = Ok(Num(d)) /\ LimitOf(m, d).st = "ok"
           /\ m # << "absent" >> /\ Of(m).st # "ok" => LimitOf(m, d) = Of(m)
           /\ m # << "absent" >> /\ Of(m).st = "ok" /\ Kind(Of(m).v) = "num" => LimitOf(m, d) = Of(m)
           /\ m # << "absent" >> /\ Of(m).st = "ok" /\ Kind(Of(m).v) # "num" => LimitOf(m, d) = Err
BY DEF LimitOf, Ok

(* A limit that fails, or is no number, fails the slice. *)
LEMMA SliceFails ==
    ASSUME ctx \in Contexts, NEW n \in Nodes, n[1] = "slice",
           Of(n[2]).st = "ok", Kind(Of(n[2]).v) \in { "str", "arr" }
    PROVE  /\ LimitOf(n[3], 0).st # "ok" => Of(n) = LimitOf(n[3], 0)
           /\ \A e : LimitOf(n[3], 0).st = "ok" /\ (\A d : LimitOf(n[4], d) = e) /\ e.st # "ok" => Of(n) = e
BY SliceMeans

-----------------------------------------------------------------------------
(* The operands of a node, and what is known of a sound call of it. *)

LEMMA Tuples ==
    ASSUME NEW S, NEW a \in S, NEW b \in S, NEW c \in S
    PROVE  /\ << a >> \o <<>> \o <<>> = << a >>
           /\ << a >> \o <<>> \o << b >> = << a, b >> /\ << a >> \o << b >> \o <<>> = << a, b >>
           /\ << a >> \o << b >> \o << c >> = << a, b, c >>
<1>1. << a >> \in Seq(S) /\ << b >> \in Seq(S) /\ << a, b >> \in Seq(S)
    OBVIOUS
<1>2. << a >> \o <<>> = << a >> /\ << a, b >> \o <<>> = << a, b >>
    BY <1>1, ConcatEmptySeq
<1>3. \A s \in Seq(S), t \in Seq(S) : Len(s) = Len(t) /\ (\A i \in 1..Len(s) : s[i] = t[i]) => s = t
    BY SeqEqual
<1>4. << a >> \o << b >> = << a, b >>
    <2> DEFINE s == << a >> \o << b >>
    <2>1. s \in Seq(S) /\ Len(s) = 2 /\ s[1] = a /\ s[2] = b
        OBVIOUS
    <2> HIDE DEF s
    <2>2. \A i \in 1..Len(s) : s[i] = << a, b >>[i]
        BY <2>1
    <2> QED BY <1>1, <1>3, <2>1, <2>2 DEF s
<1>5. << a, b >> \o << c >> = << a, b, c >>
    <2> DEFINE s == << a, b >> \o << c >>
    <2>1. s \in Seq(S) /\ Len(s) = 3 /\ s[1] = a /\ s[2] = b /\ s[3] = c
        OBVIOUS
    <2> HIDE DEF s
    <2>2. << a, b, c >> \in Seq(S) /\ Len(<< a, b, c >>) = 3 /\ \A i \in 1..Len(s) : s[i] = << a, b, c >>[i]
        BY <2>1
    <2> QED BY <1>3, <2>1, <2>2 DEF s
<1> QED BY <1>2, <1>4, <1>5

LEMMA SliceOperands ==
    ASSUME NEW a \in Nodes, NEW b \in Maybe(Nodes), NEW c \in Maybe(Nodes)
    PROVE  << a >> \o Given(b) \o Given(c) =
               IF b = << "absent" >> THEN IF c = << "absent" >> THEN << a >> ELSE << a, c >>
               ELSE IF c = << "absent" >> THEN << a, b >> ELSE << a, b, c >>
<1>1. Given(b) = (IF b = << "absent" >> THEN <<>> ELSE << b >>) /\ Given(c) = IF c = << "absent" >> THEN <<>> ELSE << c >>
    BY DEF Given
<1>2. (b # << "absent" >> => b \in Nodes) /\ (c # << "absent" >> => c \in Nodes)
    BY DEF Maybe
<1>3. CASE b = << "absent" >> /\ c = << "absent" >>
    BY <1>1, <1>3, Tuples
<1>4. CASE b = << "absent" >> /\ c # << "absent" >>
    BY <1>1, <1>2, <1>4, Tuples
<1>5. CASE b # << "absent" >> /\ c = << "absent" >>
    BY <1>1, <1>2, <1>5, Tuples
<1>6. CASE b # << "absent" >> /\ c # << "absent" >>
    <2>1. << a >> \o << b >> \o << c >> = << a, b, c >>
        BY <1>2, <1>6, Tuples
    <2> QED BY <1>1, <1>6, <2>1, Zenon
<1> QED BY <1>3, <1>4, <1>5, <1>6

LEMMA OperandsType ==
    ASSUME NEW n \in Nodes
    PROVE  /\ Operands(n) \in Seq(Nodes)
           /\ n[1] = "op" => Operands(n) = << n[2], n[4] >>
           /\ n[1] = "slice" => Operands(n) =
                  IF n[3] = << "absent" >> THEN IF n[4] = << "absent" >> THEN << n[2] >> ELSE << n[2], n[4] >>
                  ELSE IF n[4] = << "absent" >> THEN << n[2], n[3] >> ELSE << n[2], n[3], n[4] >>
<1>1. CASE n[1] = "object"
    <2>1. n[2] \in Seq(Str \X Nodes) /\ Operands(n) = [i \in DOMAIN n[2] |-> n[2][i][2]]
        BY <1>1, NodeShape DEF Operands
    <2>2. \A i \in 1..Len(n[2]) : n[2][i][2] \in Nodes
        BY <2>1
    <2>3. DOMAIN n[2] = 1..Len(n[2]) /\ Len(n[2]) \in Nat
        BY <2>1
    <2>4. Operands(n) \in [1..Len(n[2]) -> Nodes]
        BY <2>1, <2>2, <2>3
    <2>5. Operands(n) \in Seq(Nodes)
        BY <2>3, <2>4
    <2> QED BY <1>1, <2>5
<1>2. CASE n[1] = "slice"
    <2>1. n[2] \in Nodes /\ n[3] \in Maybe(Nodes) /\ n[4] \in Maybe(Nodes)
        BY <1>2, NodeShape
    <2>2. Operands(n) = << n[2] >> \o Given(n[3]) \o Given(n[4])
        BY <1>2 DEF Operands
    <2>3. Operands(n) =
              IF n[3] = << "absent" >> THEN IF n[4] = << "absent" >> THEN << n[2] >> ELSE << n[2], n[4] >>
              ELSE IF n[4] = << "absent" >> THEN << n[2], n[3] >> ELSE << n[2], n[3], n[4] >>
        BY <2>1, <2>2, SliceOperands
    <2>4. (n[3] # << "absent" >> => n[3] \in Nodes) /\ (n[4] # << "absent" >> => n[4] \in Nodes)
        BY <2>1 DEF Maybe
    <2>5. \A a, b, c \in Nodes : << a >> \in Seq(Nodes) /\ << a, b >> \in Seq(Nodes) /\ << a, b, c >> \in Seq(Nodes)
        OBVIOUS
    <2>6. Operands(n) \in Seq(Nodes)
        BY <2>1, <2>3, <2>4, <2>5
    <2> QED BY <1>2, <2>3, <2>6
<1>3. CASE n[1] = "array"
    BY <1>3, NodeShape DEF Operands
<1>4. CASE n[1] = "func"
    <2>1. Operands(n) = << n[2] >> \o n[3] /\ n[2] \in Nodes /\ n[3] \in Seq(Nodes)
        BY <1>4, NodeShape DEF Operands
    <2> QED BY <1>4, <2>1
<1>5. CASE n[1] \in { "un", "op", "index", "dot" }
    <2>1. \A a, b \in Nodes : << a >> \in Seq(Nodes) /\ << a, b >> \in Seq(Nodes)
        OBVIOUS
    <2>2. n[1] = "un" => Operands(n) = << n[3] >> /\ n[3] \in Nodes
        BY NodeShape DEF Operands
    <2>3. n[1] = "op" => Operands(n) = << n[2], n[4] >> /\ n[2] \in Nodes /\ n[4] \in Nodes
        BY NodeShape DEF Operands
    <2>4. n[1] = "index" => Operands(n) = << n[2], n[3] >> /\ n[2] \in Nodes /\ n[3] \in Nodes
        BY NodeShape DEF Operands
    <2>5. n[1] = "dot" => Operands(n) = << n[2] >> /\ n[2] \in Nodes
        BY NodeShape DEF Operands
    <2> QED BY <1>5, <2>1, <2>2, <2>3, <2>4, <2>5
<1>6. CASE n[1] \in Leaves
    <2>1. Operands(n) = <<>>
        BY <1>6 DEF Leaves, Operands
    <2> QED BY <1>6, <2>1 DEF Leaves
<1> QED BY <1>1, <1>2, <1>3, <1>4, <1>5, <1>6, NodeShape DEF Leaves

LEMMA SlicePlaces ==
    ASSUME NEW n \in Nodes, n[1] = "slice"
    PROVE  /\ Operands(n)[1] = n[2] /\ Len(Operands(n)) \in 1..3
           /\ n[3] # << "absent" >> => Operands(n)[2] = n[3] /\ Len(Operands(n)) >= 2
           /\ n[4] # << "absent" >> => Operands(n)[Len(Operands(n))] = n[4] /\ Len(Operands(n)) >= 2
           /\ n[3] # << "absent" >> /\ n[4] # << "absent" >> <=> Len(Operands(n)) = 3
           /\ n[3] = << "absent" >> /\ n[4] = << "absent" >> <=> Len(Operands(n)) = 1
<1> DEFINE s == Operands(n)
<1>1. s = IF n[3] = << "absent" >> THEN IF n[4] = << "absent" >> THEN << n[2] >> ELSE << n[2], n[4] >>
          ELSE IF n[4] = << "absent" >> THEN << n[2], n[3] >> ELSE << n[2], n[3], n[4] >>
    BY OperandsType
<1> HIDE DEF s
<1>2. CASE n[3] = << "absent" >> /\ n[4] = << "absent" >>
    BY <1>1, <1>2 DEF s
<1>3. CASE n[3] = << "absent" >> /\ n[4] # << "absent" >>
    BY <1>1, <1>3 DEF s
<1>4. CASE n[3] # << "absent" >> /\ n[4] = << "absent" >>
    BY <1>1, <1>4 DEF s
<1>5. CASE n[3] # << "absent" >> /\ n[4] # << "absent" >>
    BY <1>1, <1>5 DEF s
<1> QED BY <1>2, <1>3, <1>4, <1>5

(* The values of a sound call are those of its operands. *)
LEMMA SoundOperand ==
    ASSUME NEW f \in Calls, Sound(ctx, f), NEW k \in 1..Len(f.vals)
    PROVE  /\ f.vals[k] \in Value /\ Operand(f, k) \in Nodes
           /\ Of(Operand(f, k)).st = "ok" /\ Of(Operand(f, k)).v = f.vals[k]
<1>1. f.node \in Nodes /\ f.vals \in Seq(Value)
    BY DEF Calls
<1>2. Operands(f.node) \in Seq(Nodes) /\ k \in 1..Len(Operands(f.node))
    BY <1>1, OperandsType DEF Sound, Of
<1>3. f.vals[k] \in Value /\ Operand(f, k) \in Nodes
    BY <1>1, <1>2 DEF Operand
<1>4. Ok(f.vals[k]) = Of(Operand(f, k))
    BY DEF Sound, Of
<1> QED BY <1>3, <1>4, OutcomeType

(* What was not decided with the first values of a slice. *)
LEMMA Undecided ==
    ASSUME NEW n, n[1] = "slice", NEW vals, Len(vals) \in Nat, Decided(n, vals) = Idle
    PROVE  /\ Len(vals) = 1 => Kind(vals[1]) \in { "str", "arr" }
           /\ Len(vals) > 1 => Kind(vals[Len(vals)]) = "num"
BY DEF Decided, Err, Idle

LEMMA FirstOnly ==
    ASSUME NEW n, n[1] = "slice", NEW vals \in Seq(Value), Len(vals) >= 1, Decided(n, SubSeq(vals, 1, 1)) = Idle
    PROVE  Kind(vals[1]) \in { "str", "arr" }
<1>1. Len(SubSeq(vals, 1, 1)) = 1 /\ SubSeq(vals, 1, 1)[1] = vals[1]
    OBVIOUS
<1> QED BY <1>1 DEF Decided, Err, Idle

LEMMA FirstTwo ==
    ASSUME NEW n, n[1] = "slice", NEW vals \in Seq(Value), Len(vals) >= 2, Decided(n, SubSeq(vals, 1, 2)) = Idle
    PROVE  Kind(vals[2]) = "num"
<1>1. Len(SubSeq(vals, 1, 2)) = 2 /\ SubSeq(vals, 1, 2)[2] = vals[2]
    OBVIOUS
<1> QED BY <1>1 DEF Decided, Err, Idle

(* What is decided early is what the node means. *)
LEMMA DecidedIsMeant ==
    ASSUME ctx \in Contexts, NEW f \in Calls, Sound(ctx, f), Decided(f.node, f.vals) # Idle
    PROVE  Of(f.node) = Decided(f.node, f.vals) /\ Decided(f.node, f.vals) \in Outcome
<1> DEFINE n == f.node
           vals == f.vals
<1>1. n \in Nodes /\ vals \in Seq(Value) /\ Len(vals) \in Nat
    BY DEF Calls
<1>2. CASE n[1] = "op" /\ Len(vals) = 1 /\ ShortCircuits(n[3], vals[1])
    <2>1. Operand(f, 1) = n[2] /\ 1 \in 1..Len(vals)
        BY <1>1, <1>2, OperandsType DEF Operand
    <2>2. Of(n[2]).st = "ok" /\ Of(n[2]).v = vals[1]
        BY <2>1, SoundOperand
    <2>3. Decided(n, vals) = Ok(Bool(n[3] = "||"))
        BY <1>2 DEF Decided
    <2>4. Of(n) = Ok(Bool(n[3] = "||"))
        BY <1>1, <1>2, <2>2, OpMeans
    <2> QED BY <1>1, <2>3, <2>4, Composed
<1>3. CASE n[1] = "slice" /\ Len(vals) = 1 /\ Kind(vals[1]) \notin { "str", "arr" }
    <2>1. Operand(f, 1) = n[2] /\ 1 \in 1..Len(vals)
        BY <1>1, <1>3, SlicePlaces DEF Operand
    <2>2. Of(n[2]).st = "ok" /\ Of(n[2]).v = vals[1]
        BY <2>1, SoundOperand
    <2>3. Decided(n, vals) = Err
        BY <1>3 DEF Decided
    <2>4. Of(n) = Err
        BY <1>1, <1>3, <2>2, SliceMeans
    <2> QED BY <1>1, <2>3, <2>4, Composed
<1>4. CASE n[1] = "slice" /\ Len(vals) > 1 /\ Kind(vals[Len(vals)]) # "num"
    <2>1. Decided(n, vals) = Err
        BY <1>1, <1>4 DEF Decided
    <2>2. Len(vals) <= Len(Operands(n)) /\ Len(Operands(n)) \in 1..3
        BY <1>1, <1>4, SlicePlaces DEF Sound, Of
    <2>3. Of(n[2]).st = "ok" /\ Of(n[2]).v = vals[1] /\ Kind(vals[1]) \in { "str", "arr" }
        <3>1. 1 \in 1..Len(vals) /\ Operand(f, 1) = n[2]
            BY <1>1, <1>4, SlicePlaces DEF Operand
        <3>2. Decided(n, SubSeq(vals, 1, 1)) = Idle
            BY <1>1, <1>4 DEF Sound, Of
        <3> QED BY <1>1, <1>4, <3>1, <3>2, SoundOperand, FirstOnly
    <2>4. ASSUME Len(vals) = 2, n[3] # << "absent" >> PROVE Of(n) = Err
        <3>1. Of(n[3]).st = "ok" /\ Of(n[3]).v = vals[2]
            BY <1>1, <1>4, <2>4, SlicePlaces, SoundOperand DEF Operand
        <3>2. LimitOf(n[3], 0) = Err
            BY <1>4, <2>4, <3>1, Limits
        <3> QED BY <1>1, <1>4, <2>1, <2>3, <3>2, SliceFails, ErrFails
    <2>5. ASSUME Len(vals) = 2, n[3] = << "absent" >> PROVE Of(n) = Err
        <3>1. n[4] # << "absent" >> /\ Len(Operands(n)) = 2 /\ Operand(f, 2) = n[4]
            BY <1>1, <1>4, <2>2, <2>5, SlicePlaces DEF Operand
        <3>2. Of(n[4]).st = "ok" /\ Of(n[4]).v = vals[2]
            BY <1>1, <2>5, <3>1, SoundOperand
        <3>3. (\A d : LimitOf(n[4], d) = Err) /\ LimitOf(n[3], 0).st = "ok"
            BY <1>4, <2>5, <3>1, <3>2, Limits
        <3> QED BY <1>1, <1>4, <2>1, <2>3, <3>3, SliceFails, ErrFails
    <2>6. ASSUME Len(vals) = 3 PROVE Of(n) = Err
        <3>1. /\ n[3] # << "absent" >> /\ n[4] # << "absent" >> /\ Len(Operands(n)) = 3
              /\ Operand(f, 2) = n[3] /\ Operand(f, 3) = n[4]
            <4>1. Len(Operands(n)) = 3
                <5>1. \A l \in 1..3 : 3 <= l => l = 3
                    OBVIOUS
                <5> QED BY <2>2, <2>6, <5>1
            <4> QED BY <1>1, <1>4, <4>1, SlicePlaces DEF Operand
        <3>2. Of(n[3]).st = "ok" /\ Of(n[3]).v = vals[2] /\ Of(n[4]).st = "ok" /\ Of(n[4]).v = vals[3]
            <4>1. 2 \in 1..Len(vals) /\ 3 \in 1..Len(vals)
                BY <2>6
            <4> QED BY <3>1, <4>1, SoundOperand
        <3>3. Kind(vals[2]) = "num"
            <4>1. Decided(n, SubSeq(vals, 1, 2)) = Idle
                BY <1>1, <2>6 DEF Sound, Of
            <4> QED BY <1>1, <1>4, <2>6, <4>1, FirstTwo
        <3>4. (\A d : LimitOf(n[4], d) = Err) /\ LimitOf(n[3], 0).st = "ok"
            BY <1>4, <2>6, <3>1, <3>2, <3>3, Limits
        <3> QED BY <1>1, <1>4, <2>1, <2>3, <3>4, SliceFails, ErrFails
    <2>7. Len(vals) = 2 \/ Len(vals) = 3
        <3>1. \A k \in Nat, l \in 1..3 : k > 1 /\ k <= l => k = 2 \/ k = 3
            OBVIOUS
        <3> QED BY <1>1, <1>4, <2>2, <3>1
    <2>8. Of(n) = Err
        BY <2>4, <2>5, <2>6, <2>7
    <2> QED BY <1>1, <2>1, <2>8, OutcomeType
<1> QED BY <1>1, <1>2, <1>3, <1>4 DEF Decided

(* A failure of the operand that is evaluated next is what the node means. *)
LEMMA FailureIsMeant ==
    ASSUME ctx \in Contexts, NEW f \in Calls, Sound(ctx, f), NEW o \in Nodes, Awaits(f, o), Of(o).st # "ok"
    PROVE  Of(f.node) = Of(o)
<1> DEFINE n == f.node
           vals == f.vals
           k == Len(vals) + 1
<1>1. /\ n \in Nodes /\ vals \in Seq(Value) /\ Len(vals) \in Nat /\ Operands(n) \in Seq(Nodes)
      /\ k \in 1..Len(Operands(n)) /\ o = Operands(n)[k]
    BY OperandsType DEF Calls, Awaits, Operand
<1>2. \A j \in 1..Len(vals) : Of(Operands(n)[j]).st = "ok" /\ Of(Operands(n)[j]).v = vals[j]
    BY SoundOperand DEF Operand
<1>3. Decided(n, vals) = Idle
    BY DEF Awaits
<1>4. CASE n[1] \in Leaves
    <2>1. Operands(n) = <<>>
        BY <1>1, <1>4, LeafMeans
    <2> QED BY <1>1, <2>1
<1>5. CASE n[1] \in Plain
    <2> DEFINE os == Outs(n)
    <2>1. DOMAIN os = 1..Len(Operands(n)) /\ Len(Operands(n)) \in Nat /\ \A j \in DOMAIN os : os[j] = Of(Operands(n)[j])
        BY <1>1 DEF Outs
    <2>2. os[k].st # "ok" /\ \A j \in 1..(k - 1) : os[j].st = "ok"
        <3>1. k - 1 = Len(vals) /\ \A j \in 1..Len(vals) : j \in DOMAIN os
            BY <1>1, <2>1
        <3>2. \A j \in 1..Len(vals) : os[j].st = "ok"
            BY <1>2, <2>1, <3>1
        <3>3. os[k] = Of(o)
            BY <1>1, <2>1
        <3> HIDE DEF os, k
        <3> QED BY <3>1, <3>2, <3>3
    <2> HIDE DEF os, k
    <2>3. Fails(os) # {} /\ FirstFailure(os) = os[k]
        BY <1>1, <2>1, <2>2, FirstFails
    <2>4. Of(n) = FirstFailure(os)
        BY <1>1, <1>5, <2>3, PlainMeans DEF os
    <2> QED BY <1>1, <2>1, <2>3, <2>4
<1>6. CASE n[1] = "op"
    <2>1. Operands(n) = << n[2], n[4] >>
        BY <1>1, <1>6, OperandsType
    <2>2. CASE Len(vals) = 0
        BY <1>1, <1>6, <2>1, <2>2, OpMeans
    <2>3. CASE Len(vals) = 1
        <3>1. Of(n[2]).st = "ok" /\ Of(n[2]).v = vals[1] /\ o = n[4]
            BY <1>1, <1>2, <2>1, <2>3
        <3>2. ~ShortCircuits(n[3], vals[1])
            BY <1>3, <1>6, <2>3, OutcomeType, BoolType DEF Decided
        <3> QED BY <1>1, <1>6, <3>1, <3>2, OpMeans
    <2>4. Len(vals) = 0 \/ Len(vals) = 1
        <3>1. \A j \in Nat : j + 1 \in 1..2 => j = 0 \/ j = 1
            OBVIOUS
        <3>2. Len(Operands(n)) = 2
            BY <2>1
        <3> QED BY <1>1, <3>1, <3>2
    <2> QED BY <2>2, <2>3, <2>4
<1>7. CASE n[1] = "slice"
    <2>1. CASE Len(vals) = 0
        <3>1. o = n[2]
            BY <1>1, <1>7, <2>1, SlicePlaces
        <3> QED BY <1>1, <1>7, <3>1, SliceMeans
    <2>2. ASSUME Len(vals) \in 1..2
          PROVE  Of(n[2]).st = "ok" /\ Of(n[2]).v = vals[1] /\ Kind(vals[1]) \in { "str", "arr" }
        <3>1. Of(n[2]).st = "ok" /\ Of(n[2]).v = vals[1]
            BY <1>1, <1>2, <1>7, <2>2, SlicePlaces
        <3>2. CASE Len(vals) = 1
            BY <1>1, <1>3, <1>7, <3>1, <3>2, Undecided
        <3>3. CASE Len(vals) = 2
            <4>1. Decided(n, SubSeq(vals, 1, 1)) = Idle
                <5>1. 1 \in 1..(Len(vals) - 1)
                    BY <3>3
                <5> QED BY <5>1 DEF Sound, Of
            <4> QED BY <1>1, <1>7, <3>1, <3>3, <4>1, FirstOnly
        <3> QED BY <2>2, <3>1, <3>2, <3>3
    <2>3. ASSUME Len(vals) = 1, n[3] # << "absent" >> PROVE Of(n) = Of(o)
        <3>1. o = n[3]
            BY <1>1, <1>7, <2>3, SlicePlaces
        <3>2. LimitOf(n[3], 0) = Of(o)
            BY <2>3, <3>1, Limits
        <3> QED BY <1>1, <1>7, <2>2, <2>3, <3>2, SliceFails
    <2>4. ASSUME Len(vals) = 1, n[3] = << "absent" >> PROVE Of(n) = Of(o)
        <3>1. o = n[4] /\ n[4] # << "absent" >>
            BY <1>1, <1>7, <2>4, SlicePlaces
        <3>2. (\A d : LimitOf(n[4], d) = Of(o)) /\ LimitOf(n[3], 0).st = "ok"
            BY <2>4, <3>1, Limits
        <3> QED BY <1>1, <1>7, <2>2, <2>4, <3>2, SliceFails
    <2>5. ASSUME Len(vals) = 2 PROVE Of(n) = Of(o)
        <3>1. n[3] # << "absent" >> /\ n[4] # << "absent" >> /\ Operands(n)[2] = n[3] /\ o = n[4]
            BY <1>1, <1>7, <2>5, SlicePlaces
        <3>2. Of(n[3]).st = "ok" /\ Of(n[3]).v = vals[2]
            BY <1>2, <2>5, <3>1
        <3>3. Kind(vals[2]) = "num"
            BY <1>1, <1>3, <1>7, <2>5, Undecided
        <3>4. (\A d : LimitOf(n[4], d) = Of(o)) /\ LimitOf(n[3], 0).st = "ok"
            BY <3>1, <3>2, <3>3, Limits
        <3> QED BY <1>1, <1>7, <2>2, <2>5, <3>4, SliceFails
    <2>6. Len(vals) = 0 \/ Len(vals) = 1 \/ Len(vals) = 2
        <3>1. \A j \in Nat, l \in 1..3 : j + 1 \in 1..l => j = 0 \/ j = 1 \/ j = 2
            OBVIOUS
        <3>2. Len(Operands(n)) \in 1..3
            BY <1>1, <1>7, SlicePlaces
        <3> QED BY <1>1, <3>1, <3>2
    <2> QED BY <2>1, <2>3, <2>4, <2>5, <2>6
<1> QED BY <1>1, <1>4, <1>5, <1>6, <1>7, NodeShape DEF Leaves, Plain

(* With all operands, and nothing decided, the result is what the node     *)
(* means.                                                                  *)
LEMMA WrapSame == \A len \in Nat : Wrap(0, len) = 0 /\ Wrap(len, len) = len
BY DEF Wrap, FromEnd

LEMMA NumRoot == \A i : Root(Num(i))[2] = i
<1> SUFFICES ASSUME NEW i PROVE Root(Num(i))[2] = i
    OBVIOUS
<1> DEFINE node == << <<>>, << "num", i >> >>
<1>1. Num(i) = { node } /\ node[1] = <<>> /\ node[2][2] = i
    BY DEF Num, Leaf
<1> HIDE DEF node
<1>2. (CHOOSE m \in Num(i) : m[1] = <<>>) = node
    BY <1>1
<1> QED BY <1>1, <1>2 DEF Root

LEMMA ResultIsMeant ==
    ASSUME ctx \in Contexts, NEW f \in Calls, Sound(ctx, f), Len(f.vals) = Len(Operands(f.node)),
           Decided(f.node, f.vals) = Idle
    PROVE  Of(f.node) = Outcomes(f.node, f.vals, f.map)
<1> DEFINE n == f.node
           vals == f.vals
           map == f.map
<1>1. /\ n \in Nodes /\ vals \in Seq(Value) /\ Len(vals) \in Nat /\ Operands(n) \in Seq(Nodes)
      /\ Len(vals) = Len(Operands(n))
    BY OperandsType DEF Calls
<1>2. \A j \in 1..Len(vals) : Ok(vals[j]) = Of(Operands(n)[j]) /\ Of(Operands(n)[j]).st = "ok" /\ Of(Operands(n)[j]).v = vals[j]
    BY SoundOperand DEF Operand, Sound, Of
<1>4. CASE n[1] \in Leaves
    BY <1>1, <1>4, LeafMeans
<1>5. CASE n[1] \in Plain
    <2> DEFINE os == Outs(n)
    <2>1. DOMAIN os = DOMAIN vals /\ \A j \in 1..Len(vals) : os[j] = Ok(vals[j])
        BY <1>1, <1>2 DEF Outs
    <2>2. Fails(os) = {} /\ Results(os) = vals
        <3> HIDE DEF os
        <3> QED BY <1>1, <2>1, AllValues
    <2>3. n[1] = "object" => map = Members(n[2], Results(os))
        BY <2>2 DEF Sound, Of
    <2>4. Of(n) = IF Fails(os) # {} THEN FirstFailure(os) ELSE Outcomes(n, Results(os), map)
        BY <1>1, <1>5, <2>3, PlainMeans
    <2> QED BY <2>2, <2>4
<1>6. CASE n[1] = "op"
    <2>1. Operands(n) = << n[2], n[4] >>
        BY <1>1, <1>6, OperandsType
    <2>2. Len(vals) = 2
        BY <1>1, <2>1
    <2>3. Of(n[2]).st = "ok" /\ Of(n[2]).v = vals[1] /\ Of(n[4]).st = "ok" /\ Of(n[4]).v = vals[2]
        BY <1>2, <2>1, <2>2
    <2>4. ~ShortCircuits(n[3], vals[1])
        <3>1. Decided(n, SubSeq(vals, 1, 1)) = Idle
            <4>1. 1 \in 1..(Len(vals) - 1)
                BY <2>2
            <4> QED BY <4>1 DEF Sound, Of
        <3>2. Len(SubSeq(vals, 1, 1)) = 1 /\ SubSeq(vals, 1, 1)[1] = vals[1]
            BY <1>1, <2>2
        <3> QED BY <1>6, <3>1, <3>2, OutcomeType, BoolType DEF Decided
    <2>5. Outcomes(n, vals, map) = Binary(n[3], vals[1], vals[2])
        BY <1>6 DEF Outcomes
    <2> QED BY <1>1, <1>6, <2>3, <2>4, <2>5, OpMeans
<1>7. CASE n[1] = "slice"
    <2>1. Len(vals) \in 1..3 /\ 1 \in 1..Len(vals) /\ Operands(n)[1] = n[2]
        BY <1>1, <1>7, SlicePlaces
    <2>2. Kind(vals[1]) \in { "str", "arr" }
        <3>1. CASE Len(vals) = 1
            BY <1>1, <1>7, <3>1, Undecided
        <3>2. CASE Len(vals) > 1
            <4>1. 1 \in 1..(Len(vals) - 1)
                BY <1>1, <3>2
            <4>2. Decided(n, SubSeq(vals, 1, 1)) = Idle
                BY <4>1 DEF Sound, Of
            <4> QED BY <1>1, <1>7, <3>2, <4>2, FirstOnly
        <3>3. \A j \in 1..3 : j = 1 \/ j > 1
            OBVIOUS
        <3> QED BY <2>1, <3>1, <3>2, <3>3
    <2>3. Len(vals) >= 2 => Kind(vals[Len(vals)]) = "num"
        BY <1>1, <1>7, Undecided
    <2>4. Len(vals) >= 2 => Kind(vals[2]) = "num"
        <3>1. CASE Len(vals) = 2
            BY <2>3, <3>1
        <3>2. CASE Len(vals) = 3
            <4>1. 2 \in 1..(Len(vals) - 1)
                BY <3>2
            <4>2. Decided(n, SubSeq(vals, 1, 2)) = Idle
                BY <4>1 DEF Sound, Of
            <4> QED BY <1>1, <1>7, <3>2, <4>2, FirstTwo
        <3> QED BY <2>1, <3>1, <3>2
    <2>5. PICK v : v = vals[1] /\ Of(n[2]).v = v /\ Of(n[2]).st = "ok" /\ Kind(v) \in { "str", "arr" } /\ v \in Value
        BY <1>1, <1>2, <2>1, <2>2
    <2> DEFINE len == IF IsText(v) THEN Len(Chars[StringOf(v)]) ELSE Length(v)
               x == LimitOf(n[3], 0)
               y == LimitOf(n[4], len)
    <2>6. len \in Nat
        BY <2>5, StringType, CharsAssumption, LengthType DEF IsText, StringOf
    <2>7. x.st = "ok" /\ Wrap(Root(x.v)[2], len) = IF n[3] = << "absent" >> THEN 0 ELSE Wrap(Root(vals[2])[2], len)
        <3> HIDE DEF len
        <3>1. CASE n[3] = << "absent" >>
            <4>1. x = Ok(Num(0)) /\ x.st = "ok"
                BY <3>1, Limits
            <4>2. Root(x.v)[2] = 0
                BY <4>1, NumRoot DEF Ok
            <4> QED BY <2>6, <3>1, <4>1, <4>2, WrapSame
        <3>2. CASE n[3] # << "absent" >>
            <4>1. Operands(n)[2] = n[3] /\ Len(vals) >= 2 /\ 2 \in 1..Len(vals)
                <5>1. Operands(n)[2] = n[3] /\ Len(Operands(n)) >= 2
                    BY <1>1, <1>7, <3>2, SlicePlaces
                <5> QED BY <1>1, <5>1
            <4>2. Of(n[3]).st = "ok" /\ Of(n[3]).v = vals[2]
                BY <1>2, <4>1
            <4>3. x = Of(n[3])
                BY <2>4, <3>2, <4>1, <4>2, Limits
            <4> HIDE DEF x
            <4> QED BY <3>2, <4>2, <4>3
        <3> QED BY <3>1, <3>2
    <2>8. y.st = "ok" /\ Wrap(Root(y.v)[2], len) = IF n[4] = << "absent" >> THEN len ELSE Wrap(Root(vals[Len(vals)])[2], len)
        <3> HIDE DEF len
        <3>1. CASE n[4] = << "absent" >>
            <4>1. y = Ok(Num(len)) /\ y.st = "ok"
                BY <3>1, Limits
            <4>2. Root(y.v)[2] = len
                BY <4>1, NumRoot DEF Ok
            <4> QED BY <2>6, <3>1, <4>1, <4>2, WrapSame
        <3>2. CASE n[4] # << "absent" >>
            <4>1. Operands(n)[Len(vals)] = n[4] /\ Len(vals) >= 2 /\ Len(vals) \in 1..Len(vals)
                <5>1. Operands(n)[Len(Operands(n))] = n[4] /\ Len(Operands(n)) >= 2
                    BY <1>1, <1>7, <3>2, SlicePlaces
                <5> QED BY <1>1, <5>1
            <4>2. Of(n[4]).st = "ok" /\ Of(n[4]).v = vals[Len(vals)]
                BY <1>2, <4>1
            <4>3. y = Of(n[4])
                BY <2>3, <3>2, <4>1, <4>2, Limits
            <4> HIDE DEF y
            <4> QED BY <3>2, <4>2, <4>3
        <3> QED BY <3>1, <3>2
    <2>9. Of(n) = Ok(Slice(v, Wrap(Root(x.v)[2], len), Wrap(Root(y.v)[2], len)))
        BY <1>1, <1>7, <2>5, <2>7, <2>8, SliceMeans
    <2> HIDE DEF x, y
    <2>10. Outcomes(n, vals, map) = Ok(Sliced(n, vals))
        BY <1>7 DEF Outcomes
    <2>11. Sliced(n, vals) = Slice(v, Wrap(Root(x.v)[2], len), Wrap(Root(y.v)[2], len))
        BY <2>5, <2>7, <2>8 DEF Sliced
    <2> QED BY <2>9, <2>10, <2>11
<1> QED BY <1>1, <1>4, <1>5, <1>6, <1>7, NodeShape DEF Leaves, Plain

-----------------------------------------------------------------------------
(* The map that an object's members are inserted into. *)

(* Every set of places of a sequence has a last one. *)
LEMMA LastPlace ==
    ASSUME NEW n \in Nat, NEW S \in SUBSET (1..n), S # {}
    PROVE  \E i \in S : \A j \in S : j <= i
<1> DEFINE T == { n - i : i \in S }
<1>1. T \subseteq Nat /\ T # {}
    <2>1. \A i \in S : n - i \in Nat
        OBVIOUS
    <2>2. \E i : i \in S
        OBVIOUS
    <2> QED BY <2>1, <2>2
<1>2. PICK x \in T : \A y \in T : << y, x >> \notin OpToRel(<, Nat)
    <2> HIDE DEF T
    <2> QED BY <1>1, WFMin, NatLessThanWellFounded
<1>3. PICK i \in S : x = n - i
    OBVIOUS
<1>4. ASSUME NEW j \in S PROVE j <= i
    <2>1. << n - j, n - i >> \notin OpToRel(<, Nat) /\ n - j \in Nat /\ n - i \in Nat
        BY <1>1, <1>2, <1>3
    <2>2. ~(n - j < n - i)
        BY <2>1 DEF OpToRel
    <2> QED BY <2>2
<1> QED BY <1>4

LEMMA OneMore ==
    ASSUME NEW f, NEW g, NEW key, DOMAIN g = DOMAIN f \cup { key }, \A k \in DOMAIN f \ { key } : g[k] = f[k]
    PROVE  UNION { g[k] : k \in DOMAIN g } = g[key] \cup UNION { f[k] : k \in DOMAIN f \ { key } }
<1>1. ASSUME NEW k \in DOMAIN g, k # key
      PROVE  k \in DOMAIN f \ { key } /\ g[k] = f[k]
    <2>1. k \in DOMAIN f \ { key }
        BY <1>1
    <2> QED BY <2>1
<1>2. key \in DOMAIN g /\ \A k \in DOMAIN f \ { key } : k \in DOMAIN g
    BY Zenon
<1>3. ASSUME NEW n \in UNION { g[k] : k \in DOMAIN g }
      PROVE  n \in g[key] \cup UNION { f[k] : k \in DOMAIN f \ { key } }
    BY <1>1
<1>4. ASSUME NEW n \in g[key] \cup UNION { f[k] : k \in DOMAIN f \ { key } }
      PROVE  n \in UNION { g[k] : k \in DOMAIN g }
    <2>1. PICK k \in DOMAIN g : n \in g[k]
        BY <1>2
    <2>2. g[k] \in { g[l] : l \in DOMAIN g }
        BY <2>1, Zenon
    <2> QED BY <2>1, <2>2
<1> QED BY <1>3, <1>4

(* Inserting one more value: it hides an earlier value of the same key.    *)
LEMMA MembersGrow ==
    ASSUME NEW items \in Seq(Str \X Nodes), NEW vals \in Seq(Value), NEW v \in Value, Len(vals) < Len(items)
    PROVE  Members(items, Append(vals, v)) = Insert(Members(items, vals), items[Len(vals) + 1][1], v)
<1> DEFINE m == Len(vals) + 1
           key == items[m][1]
           more == Append(vals, v)
           K(vs) == { items[i][1] : i \in DOMAIN vs }
           Givers(vs, k) == { i \in DOMAIN vs : items[i][1] = k }
           last(vs, k) == CHOOSE i \in Givers(vs, k) : \A j \in Givers(vs, k) : j <= i
           part(vs, k) == Graft(Key(k), vs[last(vs, k)])
<1>1. /\ DOMAIN vals = 1..Len(vals) /\ Len(vals) \in Nat /\ DOMAIN more = 1..m /\ m \in Nat
      /\ more[m] = v /\ \A i \in 1..Len(vals) : more[i] = vals[i] /\ vals[i] \in Value
    OBVIOUS
<1>2. \A i \in 1..m : items[i][1] \in Str
    <2>1. \A i \in 1..m : i \in 1..Len(items)
        BY <1>1
    <2> QED BY <2>1
<1>3. \A vs : Members(items, vs) = NoKeys \cup UNION { part(vs, k) : k \in K(vs) }
    BY DEF Members, ObjOf
<1>4. K(more) = K(vals) \cup { key } /\ K(vals) \subseteq Str /\ key \in Str
    BY <1>1, <1>2
<1>5. last(more, key) = m
    <2>1. m \in Givers(more, key) /\ \A j \in Givers(more, key) : j <= m
        BY <1>1
    <2>2. \A i \in Givers(more, key) : (\A j \in Givers(more, key) : j <= i) => i = m
        BY <1>1, <2>1
    <2> HIDE DEF Givers, m
    <2> QED BY <2>1, <2>2
<1>6. ASSUME NEW k \in K(vals) PROVE last(vals, k) \in 1..Len(vals)
    <2>1. Givers(vals, k) \in SUBSET (1..Len(vals)) /\ Givers(vals, k) # {}
        BY <1>1
    <2>2. \E i \in Givers(vals, k) : \A j \in Givers(vals, k) : j <= i
        <3> HIDE DEF Givers
        <3> QED BY <1>1, <2>1, LastPlace
    <2>3. last(vals, k) \in Givers(vals, k)
        <3> HIDE DEF Givers
        <3> QED BY <2>2
    <2> QED BY <2>1, <2>3
<1>7. ASSUME NEW k \in K(vals), k # key PROVE part(more, k) = part(vals, k)
    <2>1. Givers(more, k) = Givers(vals, k)
        BY <1>1, <1>7
    <2>2. last(more, k) = last(vals, k)
        BY <2>1
    <2> HIDE DEF last
    <2> QED BY <1>1, <1>6, <2>2
<1>8. part(more, key) = Graft(Key(key), v)
    BY <1>1, <1>5
<1>9. ASSUME NEW k \in K(vals), NEW n \in part(vals, k) PROVE n[1] # <<>> /\ Head(n[1]) = Key(k)
    <2> DEFINE w == vals[last(vals, k)]
    <2>1. w \in Value /\ k \in Str
        BY <1>1, <1>4, <1>6
    <2>2. n \in Graft(Key(k), w)
        OBVIOUS
    <2> HIDE DEF w, last, part, K, Givers
    <2>3. Key(k) \in Step
        BY <2>1, StepTypes
    <2> QED BY <2>1, <2>2, <2>3, GraftNodes
<1>10. \A k, l : Key(k) = Key(l) => k = l
    BY DEF Key
<1>11. NoKeys = { << <<>>, << "obj" >> >> }
    BY DEF NoKeys, Leaf
<1> HIDE DEF part, K, key, more
<1> DEFINE rest == UNION { part(vals, k) : k \in K(vals) \ { key } }
           f == [k \in K(vals) |-> part(vals, k)]
           g == [k \in K(more) |-> part(more, k)]
<1>12. Members(items, vals) \ Under(Members(items, vals), Key(key)) = NoKeys \cup rest
    <2> DEFINE M == Members(items, vals)
    <2>1. ASSUME NEW n \in M, n \notin Under(M, Key(key)) PROVE n \in NoKeys \cup rest
        BY <1>3, <1>9, <2>1 DEF Under
    <2>2. ASSUME NEW k \in K(vals) \ { key }, NEW n \in part(vals, k)
          PROVE  n \in M /\ n \notin Under(M, Key(key))
        BY <1>3, <1>9, <1>10 DEF Under
    <2>3. ASSUME NEW n \in NoKeys PROVE n \in M /\ n \notin Under(M, Key(key))
        BY <1>3, <1>11 DEF Under
    <2> QED BY <2>1, <2>2, <2>3
<1>13. Members(items, more) = NoKeys \cup UNION { g[k] : k \in DOMAIN g }
    BY <1>3
<1>14. rest = UNION { f[k] : k \in DOMAIN f \ { key } }
    OBVIOUS
<1>15. g[key] = Graft(Key(key), v)
    BY <1>4, <1>8
<1>16. DOMAIN g = DOMAIN f \cup { key } /\ \A k \in DOMAIN f \ { key } : g[k] = f[k]
    BY <1>4, <1>7
<1> HIDE DEF f, g, rest
<1>17. UNION { g[k] : k \in DOMAIN g } = rest \cup Graft(Key(key), v)
    BY <1>14, <1>15, <1>16, OneMore
<1>18. Members(items, more) = NoKeys \cup rest \cup Graft(Key(key), v)
    BY <1>13, <1>17
<1> QED BY <1>12, <1>18 DEF Insert, Put, more, key

-----------------------------------------------------------------------------
(* The invariant holds at the start, and every step keeps it. *)

LEMMA SoundFrame ==
    ASSUME NEW c, NEW n \in Nodes
    PROVE  Frame(n) \in Calls /\ Sound(c, Frame(n)) /\ Frame(n).node = n
<1>1. /\ Frame(n).node = n /\ Frame(n).vals = <<>> /\ Frame(n).map = NoKeys
      /\ Frame(n) = [node |-> n, vals |-> <<>>, map |-> NoKeys]
    BY DEF Frame
<1>2. Frame(n) \in Calls
    BY <1>1, ConstantsType DEF Calls
<1>3. Members(n[2], <<>>) = NoKeys
    BY DEF Members, ObjOf
<1>4. Len(Operands(n)) \in Nat
    BY OperandsType
<1> QED BY <1>1, <1>2, <1>3, <1>4 DEF Sound

LEMMA SensibleInit == Init => Sensible
<1> SUFFICES ASSUME Init PROVE Sensible
    OBVIOUS
<1>1. /\ tree \in Nodes /\ ctx \in Contexts /\ stack = << Frame(tree) >> /\ ret = Idle
    BY TreesAssumption DEF Init
<1>2. stack \in Seq(Calls) /\ Len(stack) = 1 /\ stack[1] = Frame(tree)
    BY <1>1, SoundFrame
<1> QED BY <1>1, <1>2, SoundFrame DEF Sensible

(* The top of the stack, and what lies below it. *)
LEMMA TopOf ==
    ASSUME Sensible, stack # <<>>
    PROVE  /\ Len(stack) \in Nat \ { 0 } /\ Top = stack[Len(stack)] /\ Top \in Calls /\ Sound(ctx, Top)
           /\ Top.node \in Nodes /\ Top.vals \in Seq(Value) /\ Top.map \in Value
           /\ Rest \in Seq(Calls) /\ Len(Rest) = Len(stack) - 1
           /\ \A i \in 1..(Len(stack) - 1) : Rest[i] = stack[i]
           /\ Rest = <<>> <=> Len(stack) = 1
<1>1. stack \in Seq(Calls) /\ Len(stack) \in Nat \ { 0 }
    BY DEF Sensible
<1>2. Top \in Calls /\ Top = stack[Len(stack)] /\ Sound(ctx, Top)
    BY <1>1 DEF Sensible, Top
<1>3. /\ Rest \in Seq(Calls) /\ Len(Rest) = Len(stack) - 1
      /\ \A i \in 1..(Len(stack) - 1) : Rest[i] = stack[i]
    BY <1>1, FrontOf DEF Rest
<1>4. Rest = <<>> <=> Len(stack) = 1
    BY <1>1, <1>3
<1> QED BY <1>1, <1>2, <1>3, <1>4 DEF Calls

(* A call that returns what its node means. *)
LEMMA ReturnKeeps ==
    ASSUME Sensible, stack # <<>>, NEW o \in Outcome, o = Of(Top.node), Return(o)
    PROVE  Sensible'
<1>1. stack' = Rest /\ ret' = o /\ tree' = tree /\ ctx' = ctx
    BY DEF Return
<1>2. \A i \in 1..Len(Rest) : Rest[i] = stack[i] /\ Sound(ctx, Rest[i])
    BY TopOf DEF Sensible
<1>3. \A i \in 1..(Len(Rest) - 1) : Awaits(Rest[i], Rest[i + 1].node)
    BY TopOf DEF Sensible
<1>4. Rest # <<>> => Rest[1].node = tree
    BY TopOf DEF Sensible
<1>5. ASSUME Rest # <<>> PROVE Awaits(Rest[Len(Rest)], Top.node)
    BY <1>5, TopOf DEF Sensible
<1>6. Rest = <<>> => o = Denoted(tree, ctx)
    BY TopOf DEF Sensible, Of
<1> QED BY <1>1, <1>2, <1>3, <1>4, <1>5, <1>6, TopOf DEF Sensible, Top, Of

(* A value comes back to the call that waits for it. *)
LEMMA ValueKeeps ==
    ASSUME NEW c \in Contexts, NEW f \in Calls, Sound(c, f), NEW o \in Nodes, Awaits(f, o),
           NEW v \in Value, Ok(v) = Denoted(o, c)
    PROVE  Kept(f, v) \in Calls /\ Sound(c, Kept(f, v)) /\ Kept(f, v).node = f.node
<1> DEFINE g == Kept(f, v)
           n == f.node
           vals == f.vals
           more == Append(vals, v)
           map == Inserted(n, Len(vals) + 1, f.map, v)
<1>1. /\ n \in Nodes /\ vals \in Seq(Value) /\ f.map \in Value /\ Len(vals) \in Nat
      /\ Operands(n) \in Seq(Nodes) /\ Len(Operands(n)) \in Nat /\ Len(vals) < Len(Operands(n))
    BY OperandsType DEF Calls, Awaits
<1>2. n[1] = "object" => n[2] \in Seq(Str \X Nodes) /\ Len(n[2]) = Len(Operands(n))
    BY <1>1, NodeShape DEF Operands
<1>3. map \in Value
    <2>1. CASE n[1] = "object"
        <3>1. Len(vals) + 1 \in 1..Len(n[2])
            BY <1>1, <1>2, <2>1
        <3>2. n[2][Len(vals) + 1][1] \in Str
            BY <1>2, <2>1, <3>1
        <3> QED BY <1>1, <2>1, <3>2, InsertType DEF Inserted
    <2> QED BY <1>1, <2>1 DEF Inserted
<1>4. g = [node |-> n, vals |-> more, map |-> map]
    <2>1. g = [f EXCEPT !.vals = more, !.map = map]
        BY DEF Kept
    <2> HIDE DEF g, more, map
    <2>2. f \in [node : Nodes, vals : Seq(Value), map : Value]
        BY DEF Calls
    <2> QED BY <2>1, <2>2
<1> HIDE DEF g
<1>5. g.node = n /\ g.vals = more /\ g.map = map /\ g \in Calls
    <2> HIDE DEF map
    <2>1. more \in Seq(Value)
        BY <1>1
    <2>2. \A a \in Nodes, b \in Seq(Value), d \in Value :
              LET h == [node |-> a, vals |-> b, map |-> d]
              IN  h \in Calls /\ h.node = a /\ h.vals = b /\ h.map = d
        BY DEF Calls
    <2> HIDE DEF more, n
    <2>3. n \in Nodes
        BY <1>1 DEF n
    <2>4. \A h : h = [node |-> n, vals |-> more, map |-> map] =>
              h.node = n /\ h.vals = more /\ h.map = map /\ h \in Calls
        BY ONLY <1>3, <2>1, <2>2, <2>3
    <2> QED BY <1>4, <2>4
<1>6. /\ Len(more) = Len(vals) + 1 /\ more[Len(vals) + 1] = v
      /\ \A k \in 1..Len(vals) : more[k] = vals[k]
    BY <1>1
<1>7. \A k \in 1..Len(more) : Ok(more[k]) = Denoted(Operand(g, k), c)
    BY <1>1, <1>5, <1>6 DEF Sound, Awaits, Operand
<1>8. ASSUME NEW k \in 1..(Len(more) - 1) PROVE Decided(n, SubSeq(more, 1, k)) = Idle
    <2>1. SubSeq(more, 1, k) = SubSeq(vals, 1, k)
        BY <1>1, <1>6
    <2>2. CASE k = Len(vals)
        <3>1. SubSeq(vals, 1, k) = vals
            BY <1>1, <2>2
        <3> QED BY <2>1, <3>1 DEF Awaits
    <2>3. CASE k # Len(vals)
        <3>1. k \in 1..(Len(vals) - 1)
            BY <1>1, <1>6, <2>3
        <3> QED BY <2>1, <3>1 DEF Sound
    <2> QED BY <2>2, <2>3
<1>9. n[1] = "object" => map = Members(n[2], more)
    BY <1>1, <1>2, MembersGrow DEF Sound, Inserted
<1> QED BY <1>1, <1>5, <1>6, <1>7, <1>8, <1>9 DEF Sound, g

LEMMA SensibleStep == Sensible /\ [Next]_vars => Sensible'
<1> SUFFICES ASSUME Sensible, [Next]_vars PROVE Sensible'
    OBVIOUS
<1> USE DEF Sensible
<1>1. CASE Call
    <2> DEFINE n == Len(stack)
               o == Operand(Top, Len(Top.vals) + 1)
    <2>1. /\ stack # <<>> /\ ret = Idle /\ stack' = Append(stack, Frame(o)) /\ UNCHANGED << tree, ctx, ret >>
          /\ Missing /\ Decided(Top.node, Top.vals) = Idle
        BY <1>1 DEF Call, Working, Operand
    <2>2. /\ n \in Nat \ { 0 } /\ Top = stack[n] /\ Operands(Top.node) \in Seq(Nodes)
          /\ Len(Top.vals) \in Nat /\ Len(Top.vals) < Len(Operands(Top.node))
        BY <2>1, TopOf, OperandsType DEF Missing
    <2>3. o \in Nodes /\ Awaits(Top, o)
        BY <2>1, <2>2 DEF Awaits, Operand
    <2>4. Frame(o) \in Calls /\ Sound(ctx, Frame(o)) /\ Frame(o).node = o
        BY <2>3, SoundFrame
    <2> DEFINE more == Append(stack, Frame(o))
    <2>5. /\ more \in Seq(Calls) /\ Len(more) = n + 1 /\ more[n + 1] = Frame(o)
          /\ \A i \in 1..n : more[i] = stack[i]
        BY <2>2, <2>4
    <2> HIDE DEF more, o, n
    <2>6. \A i \in 1..Len(more) : Sound(ctx, more[i])
        BY <2>2, <2>4, <2>5 DEF n
    <2>7. ASSUME NEW i \in 1..(Len(more) - 1) PROVE Awaits(more[i], more[i + 1].node)
        <3>1. CASE i = n
            BY <2>2, <2>3, <2>4, <2>5, <3>1
        <3>2. CASE i # n
            <4>1. i \in 1..(n - 1) /\ i \in 1..n /\ i + 1 \in 1..n
                BY <2>2, <2>5, <3>2
            <4> QED BY <2>5, <4>1 DEF n
        <3> QED BY <3>1, <3>2
    <2>8. more[1].node = tree /\ more # <<>>
        BY <2>1, <2>2, <2>5
    <2> QED BY <2>1, <2>5, <2>6, <2>7, <2>8 DEF more
<1>2. CASE Decide
    <2>1. stack # <<>> /\ Decided(Top.node, Top.vals) # Idle /\ Return(Decided(Top.node, Top.vals))
        BY <1>2 DEF Decide, Working
    <2>2. Of(Top.node) = Decided(Top.node, Top.vals) /\ Decided(Top.node, Top.vals) \in Outcome
        BY <2>1, TopOf, DecidedIsMeant
    <2> QED BY <2>1, <2>2, ReturnKeeps
<1>3. CASE Finish
    <2> DEFINE o == Outcomes(Top.node, Top.vals, Top.map)
    <2>1. stack # <<>> /\ Decided(Top.node, Top.vals) = Idle /\ ~Missing /\ Return(o)
        BY <1>3 DEF Finish, Working
    <2>2. Len(Top.vals) = Len(Operands(Top.node))
        <3>1. Len(Operands(Top.node)) \in Nat /\ Len(Top.vals) \in Nat
            BY <2>1, TopOf, OperandsType
        <3>2. Len(Top.vals) <= Len(Operands(Top.node))
            BY <2>1, TopOf DEF Sound
        <3> QED BY <2>1, <3>1, <3>2 DEF Missing
    <2>3. Of(Top.node) = o
        BY <2>1, <2>2, TopOf, ResultIsMeant
    <2>4. o \in Outcome
        BY <2>1, <2>3, TopOf, Composed
    <2> HIDE DEF o
    <2> QED BY <2>1, <2>3, <2>4, ReturnKeeps
<1>4. CASE Resume
    <2> DEFINE n == Len(stack)
               g == Kept(Top, ret.v)
               more == Append(Rest, g)
    <2>1. stack # <<>> /\ ret.st = "ok" /\ stack' = more /\ ret' = Idle /\ UNCHANGED << tree, ctx >>
        BY <1>4 DEF Resume
    <2>2. ret # Idle /\ ret \in Outcome /\ ret.v \in Value /\ ret = Ok(ret.v)
        BY <2>1, OutcomeType DEF Idle
    <2>3. PICK o \in Nodes : Awaits(Top, o) /\ ret = Denoted(o, ctx)
        BY <2>1, <2>2
    <2>4. g \in Calls /\ Sound(ctx, g) /\ g.node = Top.node
        <3>1. Top \in Calls /\ Sound(ctx, Top) /\ ctx \in Contexts /\ ret.v \in Value /\ Ok(ret.v) = Denoted(o, ctx)
            BY <2>1, <2>2, <2>3, TopOf
        <3> QED BY <2>3, <3>1, ValueKeeps
    <2> HIDE DEF g
    <2>5. n \in Nat \ { 0 } /\ Rest \in Seq(Calls) /\ Len(Rest) = n - 1 /\ \A i \in 1..(n - 1) : Rest[i] = stack[i]
        BY <2>1, TopOf
    <2>6. /\ more \in Seq(Calls) /\ Len(more) = n /\ more[n] = g /\ \A i \in 1..(n - 1) : more[i] = stack[i]
        BY <2>4, <2>5
    <2>7. \A i \in 1..n : i = n \/ i \in 1..(n - 1)
        BY <2>5
    <2>8. Top = stack[n]
        BY DEF Top
    <2> HIDE DEF more
    <2>9. \A i \in 1..n : more[i].node = stack[i].node /\ Sound(ctx, more[i])
        BY <2>4, <2>6, <2>7, <2>8
    <2>10. \A i \in 1..(n - 1) : Awaits(more[i], more[i + 1].node)
        BY <2>5, <2>6, <2>9
    <2>11. more[1].node = tree /\ more # <<>>
        BY <2>1, <2>5, <2>6, <2>9
    <2> HIDE DEF n
    <2> QED BY <2>1, <2>6, <2>9, <2>10, <2>11
<1>5. CASE Propagate
    <2>1. stack # <<>> /\ ret.st \in { "err", "panic" } /\ Return(ret)
        BY <1>5 DEF Propagate
    <2>2. ret # Idle /\ ret \in Outcome
        BY <2>1 DEF Idle
    <2>3. PICK o \in Nodes : Awaits(Top, o) /\ ret = Of(o)
        BY <2>1, <2>2 DEF Of
    <2>4. Of(Top.node) = ret
        BY <2>1, <2>3, TopOf, FailureIsMeant
    <2> QED BY <2>1, <2>2, <2>4, ReturnKeeps
<1>6. CASE UNCHANGED vars
    BY <1>6 DEF vars, Top
<1> QED BY <1>1, <1>2, <1>3, <1>4, <1>5, <1>6 DEF Next

-----------------------------------------------------------------------------
(* Whatever the tree, and whatever its operands evaluate to: the calls     *)
(* under way hold what their operands mean, and what the last one returns  *)
(* is what the tree means, a short circuit, the first of several failures  *)
(* and an object's duplicate keys included (evaluate in evaluator.rs).     *)
THEOREM FollowsMeaning == Spec => []FollowsEval
<1>1. Init => Sensible
    BY SensibleInit
<1>2. Sensible /\ [Next]_vars => Sensible'
    BY SensibleStep
<1>3. Sensible => FollowsEval
    <2> SUFFICES ASSUME Sensible PROVE FollowsEval
        OBVIOUS
    <2>1. ASSUME NEW i \in DOMAIN stack, NEW k \in DOMAIN stack[i].vals
          PROVE  Ok(stack[i].vals[k]) = Denoted(Operands(stack[i].node)[k], ctx)
        <3>1. stack[i] \in Calls /\ Sound(ctx, stack[i])
            BY DEF Sensible
        <3>2. k \in 1..Len(stack[i].vals)
            BY <3>1 DEF Calls
        <3> QED BY <3>1, <3>2 DEF Sound, Operand
    <2> QED BY <2>1 DEF FollowsEval, Sensible
<1> QED BY <1>1, <1>2, <1>3, PTL DEF Spec
=============================================================================
