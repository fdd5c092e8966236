----------------------------- MODULE Semantics -----------------------------
(***************************************************************************)
(* What render() promises, as one function of the template, the context    *)
(* and one reading of the clock, and as a specification: a render ends,    *)
(* once, in the verdict that function gives.                               *)
(*                                                                         *)
(* It differs from the code on purpose.  An environment is flat: one       *)
(* object in which an inner name replaces an outer one, instead of a chain *)
(* of scopes.  Loops are comprehensions over all items.  n counts the      *)
(* frames the stack still has room for.                                    *)
(***************************************************************************)
EXTENDS Evaluation, ByRecursion, SequencesExt

CONSTANTS Interpolate(_, _), JsonText(_), Identifiers, SingleDollar, Unescape,
          EachVars, EachThreeVars, ByVar, BUILTINS, Times, Inputs, MaxDepth

C == INSTANCE Containers

VARIABLES template, context, verdict

Overflow == [st |-> "overflow", v |-> Null]

InOrder(S) == SetToSortSeq(S, Before)
Plus(env, bindings) == C!Merge(env, bindings)
Obj1(k, v) == ObjOf([j \in {k} |-> v])
MergeAll(vs) == FoldLeft(C!Merge, NoKeys, vs)
Present(vs) == SelectSeq(vs, LAMBDA v : v # Marker)
If(o, Result(_)) == IF o.st = "ok" THEN Result(o.v) ELSE o
OnlyIf(b, o) == IF b THEN o ELSE Err
EvalIn(e, env) == EvaluateText(e, <<env>>)

Allowed(op) ==
    CASE op = "$fromNow" -> {"from"}
      [] op = "$if"      -> {"then", "else"}
      [] op = "$let"     -> {"in"}
      [] op \in {"$map", "$find"} -> DOMAIN EachVars
      [] op = "$reduce"  -> {"initial"} \cup DOMAIN EachThreeVars
      [] op = "$sort"    -> DOMAIN ByVar
      [] op = "$switch"  -> Str
      [] OTHER           -> {}
Known == { "$eval", "$flatten", "$flattenDeep", "$fromNow", "$if", "$json", "$let", "$map",
           "$reduce", "$find", "$match", "$switch", "$merge", "$mergeDeep", "$reverse", "$sort" }

(* The names an each(..) loop binds for one item. *)
Names(values) == MergeAll([i \in DOMAIN values |-> Obj1(values[i][1], values[i][2])])
ItemNames(vars, e, item) ==
    IF Len(vars) = 1 THEN Names(<< <<vars[1], item>> >>)
    ELSE Names(<< <<vars[1], item>>, <<vars[2], Num(e[2])>> >>)
MemberNames(vars, e, item) ==
    IF Len(vars) = 1
    THEN Names(<< <<vars[1], ObjOf([k \in {"key", "val"} |-> IF k = "key" THEN Text(e[2]) ELSE item])>> >>)
    ELSE Names(<< <<vars[2], Text(e[2])>>, <<vars[1], item>> >>)
ReduceNames(vars, acc, e, item) ==
    Names(<< <<vars[1], acc>>, <<vars[2], item>> >> \o
          (IF Len(vars) = 2 THEN <<>> ELSE << <<vars[3], Num(e[2])>> >>))

(* Items, their keys, and the sorted array. *)
Sorted(v, keys) ==
    IF ~C!Sortable(keys) THEN Err
    ELSE IF C!SortPanics(keys) THEN Panic
    ELSE LET less(d, e) == \/ C!Less(C!KeyAt(keys, d), C!KeyAt(keys, e))
                           \/ C!KeyAt(keys, d) = C!KeyAt(keys, e) /\ Before(d, e)
             order == SetToSortSeq(Steps(v), less)
         IN  Ok(ArrOf([i \in DOMAIN order |-> Child(v, order[i])]))

(* $merge and the like need an array of objects. *)
AllObjects(v) == Kind(v) = "arr" /\ \A e \in Steps(v) : Kind(Child(v, e)) = "obj"

-----------------------------------------------------------------------------
RECURSIVE Denote(_, _, _), Reduce(_, _, _, _, _, _, _)

(* $reduce: the accumulator after the items that are still to come. *)
Reduce(n, tpl, vars, items, i, acc, env) ==
    IF i > Len(items) THEN Ok(acc)
    ELSE LET o == Denote(n, tpl, Plus(env, ReduceNames(vars, acc, Elem(i - 1), items[i])))
         IN  If(o, LAMBDA v : Reduce(n, tpl, vars, items, i + 1, IF v = Marker THEN acc ELSE v, env))

(* An object that is an operator, with the operator's key. *)
Operate(n, op, t, env) ==
    LET arg == Field(t, op)
        others == Keys(t) \ {op}
        each == CHOOSE p \in others : First(Key(p), { Key(q) : q \in others \ {"initial"} })
        tpl == Field(t, each)
        render(v) == Denote(n - 1, v, env)
        within(v, names) == Denote(n - 1, v, Plus(env, names))
        order == InOrder(Steps(arg))
        conds == [i \in DOMAIN order |->
                     IF op = "$switch" /\ order[i][2] = "$default" THEN Ok(Bool(FALSE))
                     ELSE EvalIn(order[i][2], env)]
        holds == { i \in DOMAIN order : conds[i].st = "ok" /\ Truthy(conds[i].v) }
        branch(i) == Child(arg, order[i])
        sequential(v, F(_, _)) == Then([i \in 1..Length(v) |-> F(Elem(i - 1), Child(v, Elem(i - 1)))],
                                       LAMBDA vs : Ok(ArrOf(Present(vs))))
    IN
    IF ~(others \subseteq Allowed(op)) THEN Err ELSE
    CASE op = "$eval" -> OnlyIf(Kind(arg) = "str", EvalIn(Root(arg)[2], env))
      [] op = "$if" -> OnlyIf(Kind(arg) = "str",
            If(EvalIn(Root(arg)[2], env), LAMBDA v :
                LET p == IF Truthy(v) THEN "then" ELSE "else"
                IN  IF p \in others THEN render(Field(t, p)) ELSE Ok(Marker)))
      [] op = "$json" -> If(render(arg), LAMBDA v :
                OnlyIf(Convertible(v), Ok(Text(JsonText(ToJson(v))))))
      [] op = "$let" -> OnlyIf(Kind(arg) = "obj",
            If(render(arg), LAMBDA v :
                OnlyIf(Kind(v) = "obj" /\ Keys(v) \subseteq Identifiers /\ "in" \in others,
                       within(Field(t, "in"), v))))
      [] op = "$fromNow" ->
            LET from == IF "from" \in others THEN render(Field(t, "from")) ELSE Ok(Field(env, "now"))
            IN  If(from, LAMBDA f : OnlyIf(Kind(f) = "str",
                    If(render(arg), LAMBDA v : OnlyIf(Kind(v) = "str", FromNow(Root(v)[2], Root(f)[2])))))
      [] op = "$flatten" -> If(render(arg), LAMBDA v : OnlyIf(Kind(v) = "arr",
            Ok(ArrOf(FlattenSeq([i \in 1..Length(v) |->
                LET w == Child(v, Elem(i - 1)) IN IF Kind(w) = "arr" THEN Items(w) ELSE <<w>>])))))
      [] op = "$flattenDeep" -> If(render(arg), LAMBDA v : OnlyIf(Kind(v) = "arr", Ok(ArrOf(FlatList[v]))))
      [] op = "$reverse" -> If(render(arg), LAMBDA v : OnlyIf(Kind(v) = "arr", Ok(ArrOf(Reverse(Items(v))))))
      [] op = "$merge" -> If(render(arg), LAMBDA v : OnlyIf(AllObjects(v), Ok(MergeAll(Items(v)))))
      [] op = "$mergeDeep" -> If(render(arg), LAMBDA v : OnlyIf(AllObjects(v),
            Ok(FoldLeft(LAMBDA a, b : DeepMerged[<< a, b >>], NoKeys, Items(v)))))
      [] op = "$sort" -> If(render(arg), LAMBDA v : OnlyIf(Kind(v) = "arr",
            IF v = NoElems THEN Ok(v)
            ELSE IF others = {} THEN Sorted(v, v)
            ELSE OnlyIf(Cardinality(others) = 1 /\ Kind(tpl) = "str",
                 Then([i \in 1..Length(v) |-> EvalIn(Root(tpl)[2], Plus(env, Obj1(ByVar[each], Child(v, Elem(i - 1)))))],
                      LAMBDA ks : Sorted(v, ArrOf(ks))))))
      [] op = "$map" -> OnlyIf(Cardinality(others) = 1,
            If(render(arg), LAMBDA v :
                IF Kind(v) = "arr"
                THEN sequential(v, LAMBDA e, item : within(tpl, ItemNames(EachVars[each], e, item)))
                ELSE OnlyIf(Kind(v) = "obj",
                    LET keys == InOrder(Steps(v))
                    IN  Then([i \in DOMAIN keys |->
                                If(within(tpl, MemberNames(EachVars[each], keys[i], Child(v, keys[i]))),
                                   LAMBDA r : OnlyIf(Kind(r) = "obj", Ok(r)))],
                             LAMBDA vs : Ok(MergeAll(vs))))))
      [] op = "$reduce" -> OnlyIf(Cardinality(others) = 2,
            If(render(arg), LAMBDA v :
                IF "initial" \notin others THEN Panic
                ELSE OnlyIf(Kind(v) = "arr",
                    Reduce(n - 1, tpl, EachThreeVars[each], Items(v), 1, Field(t, "initial"), env))))
      [] op = "$find" -> OnlyIf(Cardinality(others) = 1,
            If(render(arg), LAMBDA v : OnlyIf(Kind(v) = "arr",
                LET names(i) == ItemNames(EachVars[each], Elem(i - 1), Items(v)[i])
                    tests == [i \in 1..Length(v) |-> OnlyIf(Kind(tpl) = "str", EvalIn(Root(tpl)[2], Plus(env, names(i))))]
                    stops == { i \in DOMAIN tests : tests[i].st # "ok" \/ Truthy(tests[i].v) }
                    i == CHOOSE j \in stops : \A k \in stops : j <= k
                IN  IF stops = {} THEN Ok(Marker)
                    ELSE If(tests[i], LAMBDA b : within(Items(v)[i], names(i))))))
      [] op = "$match" -> OnlyIf(Kind(arg) = "obj",
            Then([i \in DOMAIN order |->
                    If(conds[i], LAMBDA b : IF Truthy(b)
                        THEN If(render(branch(i)), LAMBDA v : Ok(ArrOf(<<v>>))) ELSE Ok(NoElems))],
                 LAMBDA vs : Ok(ArrOf(FlattenSeq([i \in DOMAIN vs |-> Items(vs[i])])))))
      [] op = "$switch" -> OnlyIf(Kind(arg) = "obj",
            LET stops == Fails(conds) \cup { i \in holds : \E j \in holds : j < i }
                i == CHOOSE j \in stops : \A k \in stops : j <= k
            IN  IF stops # {} THEN (IF conds[i].st = "ok" THEN Err ELSE conds[i])
                ELSE IF holds # {} THEN render(branch(CHOOSE j \in holds : TRUE))
                ELSE IF Has(arg, "$default") THEN render(Field(arg, "$default"))
                ELSE Ok(Marker))

Denote(n, t, env) ==
    LET text(k) == Interpolate(k, <<env>>)
        keys == InOrder(Steps(t))
        hits == { i \in DOMAIN keys : text(keys[i][2]).st # "ok" \/ Root(text(keys[i][2]).v)[2] \in SingleDollar }
        hit == keys[CHOOSE i \in hits : \A j \in hits : i <= j][2]
        member(e) ==
            If(Denote(n - 1, Child(t, e), env), LAMBDA v :
                IF v = Marker THEN Ok(NoKeys)
                ELSE If(Interpolate(Unescape[e[2]], <<env>>), LAMBDA k : Ok(Obj1(Root(k)[2], v))))
    IN
    IF n = 0 THEN Overflow ELSE
    CASE Kind(t) \in {"num", "nan", "bool", "null"} -> Ok(t)
      [] Kind(t) \in {"del", "fn"} -> Panic
      [] Kind(t) = "str" -> Interpolate(Root(t)[2], <<env>>)
      [] Kind(t) = "arr" -> Then([i \in 1..Length(t) |-> Denote(n - 1, Child(t, Elem(i - 1)), env)],
                                 LAMBDA vs : Ok(ArrOf(Present(vs))))
      [] Kind(t) = "obj" ->
            IF hits = {} THEN Then([i \in DOMAIN keys |-> member(keys[i])], LAMBDA vs : Ok(MergeAll(vs)))
            ELSE If(text(hit), LAMBDA k : OnlyIf(hit \in Known, Operate(n, hit, t, env)))

-----------------------------------------------------------------------------
(* The verdict on one render, and the specification of a render. *)

Verdict(o) ==
    CASE o.st = "ok" /\ Convertible(o.v) -> [status |-> "done", v |-> ToJson(o.v)]
      [] o.st = "panic"    -> [status |-> "panicked", v |-> Null]
      [] o.st = "overflow" -> [status |-> "overflowed", v |-> Null]
      [] OTHER -> [status |-> "failed", v |-> Null]
Pending == [status |-> "pending", v |-> Null]

Judge(now) ==
    IF Kind(context) # "obj" \/ ~(Keys(context) \subseteq Identifiers) THEN Verdict(Err)
    ELSE Verdict(Denote(MaxDepth, template,
                        Plus(Plus(BUILTINS, context), Obj1("now", Text(now)))))

Init == (\E in \in Inputs : template = in[1] /\ context = in[2]) /\ verdict = Pending
Deliver ==
    /\ verdict = Pending /\ verdict' # Pending
    /\ UNCHANGED << template, context >>
    /\ \E now \in Times : verdict' = Judge(now)
Spec == Init /\ [][Deliver]_<< template, context, verdict >>
=============================================================================
