----------------------------- MODULE Evaluator -----------------------------
(***************************************************************************)
(* The expression interpreter: evaluate and func of                        *)
(* rs/src/interpreter/evaluator.rs over the syntax tree of node.rs, and    *)
(* the built-in functions of rs/src/builtins.rs.  A node is a tuple that   *)
(* starts with its constructor.                                            *)
(***************************************************************************)
EXTENDS ExprOps

CONSTANTS
    Parse(_),       \* parse_all: string -> node, or <<"invalid">>
    NumText(_),     \* Display of a number
    ParseNumber(_), \* str::parse::<f64>: string -> Outcome
    FromNow(_, _),  \* offset, reference -> Outcome
    White,          \* the characters that trim removes
    Recase(_, _)    \* "lowercase" or "uppercase", string -> string

(* Context::get, over the scopes from the outermost to the innermost. *)
Bound(ctx, name) == { i \in DOMAIN ctx : Has(ctx[i], name) }
Get(ctx, name) == Field(ctx[CHOOSE i \in Bound(ctx, name) : \A j \in Bound(ctx, name) : j <= i], name)

(* collect::<Result<Vec<_>>>(): the first failure, or all the values.      *)
Fails(os) == { i \in DOMAIN os : os[i].st # "ok" }
FirstFailure(os) == os[CHOOSE i \in Fails(os) : \A j \in Fails(os) : i <= j]
Results(os) == [i \in DOMAIN os |-> os[i].v]
Then(os, Result(_)) == IF Fails(os) # {} THEN FirstFailure(os) ELSE Result(Results(os))

-----------------------------------------------------------------------------
(* The built-in functions. *)

Scalars == {"null", "str", "num", "nan", "bool"}
Stringify(v) ==
    CASE Kind(v) = "null" -> "null"
      [] Kind(v) = "str"  -> StringOf(v)
      [] Kind(v) = "bool" -> IF Root(v)[2] THEN "true" ELSE "false"
      [] Kind(v) = "nan"  -> "NaN"
      [] Kind(v) = "num"  -> NumText(Root(v)[2])

TypeName(v) ==
    CASE Kind(v) = "str" -> "string"  [] Numeric(v) -> "number"
      [] Kind(v) = "bool" -> "boolean" [] Kind(v) = "arr" -> "array"
      [] Kind(v) = "obj" -> "object"  [] Kind(v) = "null" -> "null"
      [] Kind(v) = "fn" -> "function"

(* min and max fold from the left; what a NaN leaves depends on its place. *)
Smaller(a, b) == IF LessThan(a, b) THEN a ELSE b
Larger(a, b)  == IF LessThan(a, b) THEN b ELSE a
Extreme(args, Pick(_, _)) ==
    LET best[i \in DOMAIN args] == IF i = 1 THEN args[1] ELSE Pick(args[i], best[i - 1])
    IN  IF args # <<>> /\ \A i \in DOMAIN args : Numeric(args[i]) THEN Ok(best[Len(args)]) ELSE Err

(* range: from start towards stop, stop excluded. *)
RangeOf(start, stop, step) ==
    LET size == IF step > 0 THEN (stop - start + step - 1) \div step
                ELSE (start - stop - step - 1) \div (-step)
    IN  ArrOf([i \in 1..(IF size > 0 THEN size ELSE 0) |-> Num(start + (i - 1) * step)])
RangeCall(args) ==
    IF Len(args) \notin {2, 3} \/ \E i \in DOMAIN args : Kind(args[i]) # "num" THEN Err
    ELSE LET step == IF Len(args) = 2 THEN 1 ELSE Root(args[3])[2]
         IN  IF step = 0 THEN Err ELSE Ok(RangeOf(Root(args[1])[2], Root(args[2])[2], step))

(* The functions of Strings, on the characters of a string. *)
Strs == INSTANCE Strings WITH Width <- LAMBDA c : 1
CharsOf(v) == Chars[Stringify(v)]
Trimmed(f, v) ==
    Text(Spell(CASE f = "strip" -> Strs!Strip(CharsOf(v))
                 [] f = "lstrip" -> Strs!LStrip(CharsOf(v))
                 [] f = "rstrip" -> Strs!RStrip(CharsOf(v))))

JoinCall(args) ==
    IF /\ Len(args) = 2 /\ Kind(args[2]) \in Scalars /\ Kind(args[1]) = "arr"
       /\ \A e \in Steps(args[1]) : Kind(Child(args[1], e)) \in Scalars
    THEN Ok(Text(Spell(Strs!Join([i \in 1..Length(args[1]) |-> CharsOf(Child(args[1], Elem(i - 1)))], CharsOf(args[2])))))
    ELSE Err
SplitCall(args) ==
    IF Len(args) = 2 /\ Kind(args[2]) \in Scalars /\ IsText(args[1])
    THEN LET parts == Strs!Split(CharsOf(args[1]), CharsOf(args[2]))
         IN  Ok(ArrOf([i \in DOMAIN parts |-> Text(Spell(parts[i]))]))
    ELSE Err

(* sqrt, like division, where the result is an integer. *)
SquareRoot(v) ==
    IF v = NaN \/ Root(v)[2] < 0 THEN NaN
    ELSE Num(CHOOSE r \in 0..Root(v)[2] : r * r = Root(v)[2])

FromNowCall(args, ctx) ==
    LET reference == IF Len(args) = 2 THEN args[2] ELSE Get(ctx, "now")
    IN  IF Len(args) \in {1, 2} /\ IsText(reference) /\ IsText(args[1])
        THEN FromNow(StringOf(args[1]), StringOf(reference)) ELSE Err

One(args, kinds, result) == IF Len(args) = 1 /\ Kind(args[1]) \in kinds THEN Ok(result) ELSE Err
Builtin(f, args, ctx) ==
    CASE f = "abs"  -> One(args, {"num", "nan"},
                           IF Kind(args[1]) = "num" /\ Root(args[1])[2] < 0 THEN Num(-Root(args[1])[2]) ELSE args[1])
      [] f \in {"ceil", "floor"} -> One(args, {"num", "nan"}, args[1])
      [] f = "sqrt" -> One(args, {"num", "nan"}, SquareRoot(args[1]))
      [] f = "str"  -> One(args, Scalars, Text(Stringify(args[1])))
      [] f = "len"  -> One(args, {"str", "arr"},
                           Num(IF IsText(args[1]) THEN Len(Chars[StringOf(args[1])]) ELSE Length(args[1])))
      [] f = "min"  -> Extreme(args, Smaller)
      [] f = "max"  -> Extreme(args, Larger)
      [] f = "number" -> IF Len(args) = 1 /\ IsText(args[1]) THEN ParseNumber(StringOf(args[1])) ELSE Err
      [] f = "range"  -> RangeCall(args)
      [] f = "join"   -> JoinCall(args)
      [] f = "split"  -> SplitCall(args)
      [] f \in {"strip", "lstrip", "rstrip"}  -> One(args, {"str"}, Trimmed(f, args[1]))
      [] f \in {"lowercase", "uppercase"} -> One(args, {"str"}, Text(Recase(f, StringOf(args[1]))))
      [] f = "fromNow" -> FromNowCall(args, ctx)
      [] f = "typeof"  -> One(args, Scalars \cup {"arr", "obj", "fn"}, Text(TypeName(args[1])))
      [] f = "defined" -> One(args, {"str"}, Bool(Bound(ctx, StringOf(args[1])) # {}))

-----------------------------------------------------------------------------
(* The object of as many members as there are values: of a key that is     *)
(* given more than once, the last value counts.                            *)
Members(items, vs) ==
    LET Givers(k) == { i \in DOMAIN vs : items[i][1] = k }
    IN  ObjOf([k \in { items[i][1] : i \in DOMAIN vs } |->
                  vs[CHOOSE i \in Givers(k) : \A j \in Givers(k) : j <= i]])

(* evaluate(), by the node's constructor, where Of(n) is what an operand n *)
(* evaluates to; operands from left to right.                              *)

Meaning(node, ctx, Of(_)) ==
    LET all(nodes) == [i \in DOMAIN nodes |-> Of(nodes[i])]
        limit(n, default) ==
            IF n = <<"absent">> THEN Ok(Num(default))
            ELSE Then(all(<<n>>), LAMBDA vs : IF Kind(vs[1]) = "num" THEN Ok(vs[1]) ELSE Err)
    IN
    CASE node[1] = "invalid" -> Err
      [] node[1] = "null"   -> Ok(Null)
      [] node[1] = "bool"   -> Ok(Bool(node[2]))
      [] node[1] = "num"    -> ParseNumber(node[2])
      [] node[1] = "str"    -> Ok(Text(node[2]))
      [] node[1] = "ident"  -> IF Bound(ctx, node[2]) = {} THEN Err ELSE Ok(Get(ctx, node[2]))
      [] node[1] = "array"  -> Then(all(node[2]), LAMBDA vs : Ok(ArrOf(vs)))
      [] node[1] = "object" -> Then(all([i \in DOMAIN node[2] |-> node[2][i][2]]), LAMBDA vs : Ok(Members(node[2], vs)))
      [] node[1] = "un"     -> Then(all(<<node[3]>>), LAMBDA vs : Un(node[2], vs[1]))
      [] node[1] = "op"     -> Then(all(<<node[2]>>), LAMBDA ls :
                                   IF ShortCircuits(node[3], ls[1]) THEN Ok(Bool(node[3] = "||"))
                                   ELSE Then(all(<<node[4]>>), LAMBDA rs : Binary(node[3], ls[1], rs[1])))
      [] node[1] = "index"  -> Then(all(<<node[2], node[3]>>), LAMBDA vs : Index(vs[1], vs[2]))
      [] node[1] = "slice"  -> Then(all(<<node[2]>>), LAMBDA vs :
                                   IF Kind(vs[1]) \notin {"str", "arr"} THEN Err
                                   ELSE LET len == IF IsText(vs[1]) THEN Len(Chars[StringOf(vs[1])]) ELSE Length(vs[1])
                                        IN  Then(<<limit(node[3], 0), limit(node[4], len)>>, LAMBDA is :
                                                Ok(Slice(vs[1], Wrap(Root(is[1])[2], len), Wrap(Root(is[2])[2], len)))))
      [] node[1] = "dot"    -> Then(all(<<node[2]>>), LAMBDA vs : Dot(vs[1], node[3]))
      [] node[1] = "func"   -> Then(all(<<node[2]>> \o node[3]), LAMBDA vs :
                                   IF Kind(vs[1]) = "fn" THEN Builtin(Root(vs[1])[2], Tail(vs), ctx) ELSE Err)
=============================================================================
