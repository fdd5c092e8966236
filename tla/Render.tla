------------------------------- MODULE Render -------------------------------
(***************************************************************************)
(* The renderer, rs/src/render.rs: render(), _render() and the sixteen     *)
(* operators, as a machine that takes one step per phase of a handler.     *)
(*                                                                         *)
(* The call stack is a state variable.  A frame is one activation of       *)
(* _render together with the operator it turned out to be; frame.pc says   *)
(* where the handler is:                                                   *)
(*    enter   nothing examined yet                                         *)
(*    elems, fields   in the loop over an array, over an object            *)
(*    start   an operator was recognised                                   *)
(*    from, value     the operator's `from`, its own value, is rendered    *)
(*    each    in the operator's loop                                       *)
(*    pass    the operator returns whatever the last call returns          *)
(* ret carries what a callee hands back, and how `?` treats it.            *)
(*                                                                         *)
(* The clock and the test flag of rs/src/fromnow.rs belong to the process  *)
(* and move while a render is under way.                                   *)
(***************************************************************************)
EXTENDS Containers

CONSTANTS
    Evaluate(_, _),     \* interpreter: expression, context -> Outcome
    Interpolate(_, _),  \* string, context -> Outcome holding a string
    FromNow(_, _),      \* offset, reference -> Outcome holding a string
    JsonText(_),        \* to_json() of a JSON value -> string
    Identifiers,        \* the strings is_identifier accepts
    SingleDollar,       \* those that start with `$` but not with `$$`
    Unescape,           \* string -> string: "$$x" becomes "$x"
    EachVars,           \* each(..) property -> the one or two names in it
    EachThreeVars,      \* the same for $reduce: two or three names
    ByVar,              \* by(..) property -> its name
    BUILTINS,           \* the outermost scope
    Stamp,              \* clock reading -> formatted time
    TestStamp,          \* the fixed time of use_test_now()
    Inputs,             \* the pairs of a template and a context
    MaxDepth,           \* frames the thread's stack has room for
    MaxClock            \* bound on the clock

VARIABLES
    template, context,  \* the arguments of render()
    status,             \* of the render
    stack, ret,         \* the call stack, and what the last callee returned
    clock, testing      \* the process: wall clock and USE_TEST_TIME

env  == << template, context, clock, testing >>
vars == << template, context, status, stack, ret, clock, testing >>

Operators == { "$eval", "$flatten", "$flattenDeep", "$fromNow", "$if", "$json",
               "$let", "$map", "$reduce", "$find", "$match", "$switch",
               "$merge", "$mergeDeep", "$reverse", "$sort" }
Words == Operators \cup { "then", "else", "from", "in", "initial", "$default",
                          "key", "val", "now" }

ASSUME RenderAssumption ==
    /\ Words \subseteq Str
    /\ Identifiers \subseteq Str /\ SingleDollar \subseteq Str
    /\ Unescape \in [Str -> Str]
    /\ DOMAIN EachVars \subseteq Str
    /\ \A p \in DOMAIN EachVars : EachVars[p] \in
           { <<i>> : i \in Identifiers } \cup (Identifiers \X Identifiers)
    /\ DOMAIN EachThreeVars \subseteq Str
    /\ \A p \in DOMAIN EachThreeVars : EachThreeVars[p] \in
           (Identifiers \X Identifiers) \cup (Identifiers \X Identifiers \X Identifiers)
    /\ DOMAIN ByVar \subseteq Str /\ \A p \in DOMAIN ByVar : ByVar[p] \in Identifiers
    /\ MaxDepth \in Nat \ {0} /\ MaxClock \in Nat
    /\ Stamp \in [0..MaxClock -> Str] /\ TestStamp \in Str

ASSUME InputAssumption ==
    /\ BUILTINS \in Value
    /\ \A in \in Inputs : in \in Value \X Value /\ IsJson(in[1]) /\ IsJson(in[2])

(* What the renderer may rely on: the interpreter answers every string in  *)
(* every list of scopes, and interpolation, from_now and to_json produce   *)
(* strings.  The runs assume it of the finite sets they use.               *)
Contract(Contexts, Values) ==
    /\ \A s \in Str, ctx \in Contexts :
           /\ Evaluate(s, ctx) \in Outcome
           /\ Interpolate(s, ctx) \in Outcome
           /\ Interpolate(s, ctx).st = "ok" => Kind(Interpolate(s, ctx).v) = "str"
    /\ \A s, t \in Str :
           /\ FromNow(s, t) \in Outcome
           /\ FromNow(s, t).st = "ok" => Kind(FromNow(s, t).v) = "str"
    /\ \A v \in Values : JsonText(v) \in Str

(* The labels but for the deletion marker; those whose strings are in S.   *)
Unmarked == { l \in Label : l # <<"del">> }
Vocabulary(S) == { l \in Label : l[1] = "str" => l[2] \in S }

(* What it takes for labels D to be all that a render in these scopes can  *)
(* come across: every string, name and value made from D is within D again. *)
Closed(D, Contexts, Values) ==
    LET Strings == { s \in Str : << "str", s >> \in D }
    IN  /\ Words \subseteq Strings /\ Within(BUILTINS, D)
        /\ \A s \in Strings :
               /\ Unescape[s] \in Strings
               /\ s \in DOMAIN EachVars => \A i \in DOMAIN EachVars[s] : EachVars[s][i] \in Strings
               /\ s \in DOMAIN EachThreeVars =>
                      \A i \in DOMAIN EachThreeVars[s] : EachThreeVars[s][i] \in Strings
               /\ s \in DOMAIN ByVar => ByVar[s] \in Strings
        /\ \A s \in Strings, ctx \in Contexts :
               (\A i \in DOMAIN ctx : Within(ctx[i], D)) =>
                   \A o \in { Evaluate(s, ctx), Interpolate(s, ctx) } : o.st = "ok" => Within(o.v, D)
        /\ \A s, t \in Strings : FromNow(s, t).st = "ok" => Within(FromNow(s, t).v, D)
        /\ \A v \in Values : Within(v, D) => JsonText(v) \in Strings

(* render() marks as "none" that no callee has returned anything yet. *)
Idle == [st |-> "none", v |-> Null]

Frame(tpl, ctx) ==
    [op |-> "render", pc |-> "enter", tpl |-> tpl, ctx |-> ctx,
     todo |-> {}, at |-> Elem(0), val |-> Null, acc |-> Null]

Top   == stack[Len(stack)]
Rest  == SubSeq(stack, 1, Len(stack) - 1)
Arg   == Field(Top.tpl, Top.op)             \* the operator's own value
Others == Keys(Top.tpl) \ {Top.op}          \* the properties beside it
StrOf(v) == Root(v)[2]

Running == status = "running" /\ stack # <<>>
Ready(op, pc)   == Running /\ ret.st = "none" /\ Top.op = op /\ Top.pc = pc
Resumed(op, pc) == Running /\ ret.st = "ok" /\ Top.op = op /\ Top.pc = pc

-----------------------------------------------------------------------------
(* What a handler can do with its frame. *)

Goto(f) ==
    /\ stack' = Append(Rest, f) /\ ret' = Idle
    /\ UNCHANGED << status, env >>
Call(f, tpl, ctx) ==        \* _render(tpl, ctx), with f to come back to
    \/ /\ Len(stack) < MaxDepth
       /\ stack' = Rest \o << f, Frame(tpl, ctx) >> /\ ret' = Idle
       /\ UNCHANGED << status, env >>
    \/ /\ Len(stack) = MaxDepth
       /\ status' = "overflowed"
       /\ UNCHANGED << stack, ret, env >>
Return(v) ==
    /\ stack' = Rest /\ ret' = Ok(v)
    /\ UNCHANGED << status, env >>
Raise ==
    /\ stack' = Rest /\ ret' = Err
    /\ UNCHANGED << status, env >>
Abort ==                    \* unwrap() on None, unreachable!(), overflow
    /\ status' = "panicked"
    /\ UNCHANGED << stack, ret, env >>
Failing(o) == (o.st = "err" /\ Raise) \/ (o.st = "panic" /\ Abort)

Inherit(pc) == [Top EXCEPT !.pc = pc]
Loop(val, acc) == [Top EXCEPT !.pc = "each", !.todo = Steps(val), !.val = val, !.acc = acc]

(* Altered: the iterator stays at the item it yields. *)
AdvanceStays(e) == [Top EXCEPT !.at = e]

Advance(e) == [Top EXCEPT !.todo = @ \ {e}, !.at = e]

(* Altered: a marker is kept like any other value. *)
KeptAlways(acc, v) == Push(acc, v)

(* Rendered elements and members that are deletion markers are left out. *)
Kept(acc, v) == IF v = Marker THEN acc ELSE Push(acc, v)

(* Altered: the bindings go into the innermost scope there is. *)
ExtendInPlace(ctx, scope) == [ctx EXCEPT ![Len(ctx)] = Merge(@, scope)]

(* Context::child() with the bindings of one scope. *)
Extend(ctx, scope) == Append(ctx, scope)
Bind(scope, name, v) == Insert(scope, name, v)

(* Context::get: the innermost scope that has the name. *)
Binding(ctx, name, i) ==
    /\ i \in DOMAIN ctx /\ Has(ctx[i], name)
    /\ \A j \in DOMAIN ctx : Has(ctx[j], name) => j <= i
-----------------------------------------------------------------------------
(* render(): the scopes are the built-ins, the caller's context, and one   *)
(* that holds `now`, read once for the whole render.                       *)
Now == IF testing THEN TestStamp ELSE Stamp[clock]
ValidContext == Kind(context) = "obj" /\ Keys(context) \subseteq Identifiers

Start ==
    /\ status = "ready"
    /\ IF ValidContext
       THEN /\ status' = "running"
            /\ stack' = << Frame(template, << BUILTINS, context, Bind(NoKeys, "now", Text(Now)) >>) >>
            /\ UNCHANGED ret
       ELSE /\ status' = "failed" /\ ret' = Err
            /\ UNCHANGED stack
    /\ UNCHANGED env

Finish ==
    /\ status = "running" /\ stack = <<>>
    /\ IF ret.st = "ok" /\ Convertible(ret.v)
       THEN status' = "done" /\ ret' = Ok(ToJson(ret.v))
       ELSE status' = "failed" /\ ret' = Err
    /\ UNCHANGED << stack, env >>

(* `?` after a failed call: the caller fails too, one frame at a time. *)
Propagate ==
    /\ Running /\ ret.st = "err"
    /\ stack' = Rest
    /\ UNCHANGED << status, ret, env >>

-----------------------------------------------------------------------------
(* _render() on a template that is not an operator. *)

Scalar ==
    /\ Ready("render", "enter") /\ Kind(Top.tpl) \in {"num", "nan", "bool", "null"}
    /\ Return(Top.tpl)

String ==
    /\ Ready("render", "enter") /\ Kind(Top.tpl) = "str"
    /\ LET o == Interpolate(StrOf(Top.tpl), Top.ctx)
       IN  (o.st = "ok" /\ Return(o.v)) \/ Failing(o)

(* The last arm of the match: unreachable!() *)
Unreachable ==
    /\ Ready("render", "enter") /\ Kind(Top.tpl) \in {"del", "fn"}
    /\ Abort

Array ==
    /\ Ready("render", "enter") /\ Kind(Top.tpl) = "arr"
    /\ Goto([Top EXCEPT !.pc = "elems", !.todo = Steps(Top.tpl), !.acc = NoElems])

ArrayElement ==
    /\ Ready("render", "elems")
    /\ \E e \in Steps(Top.tpl) : First(e, Top.todo) /\ Call(Advance(e), Child(Top.tpl, e), Top.ctx)

ArrayKeep ==
    /\ Resumed("render", "elems")
    /\ Goto([Top EXCEPT !.acc = Kept(@, ret.v)])

(* The first pass over an object's keys stops at the first one that cannot *)
(* be interpolated or that interpolates to something like "$name".         *)
KeyText(k) == Interpolate(k, Top.ctx)
Hits == { k \in Keys(Top.tpl) :
              LET o == KeyText(k) IN o.st # "ok" \/ StrOf(o.v) \in SingleDollar }
FirstHit(k) == First(Key(k), { Key(j) : j \in Hits })

Object ==
    /\ Ready("render", "enter") /\ Kind(Top.tpl) = "obj" /\ Hits = {}
    /\ Goto([Top EXCEPT !.pc = "fields", !.todo = Steps(Top.tpl), !.acc = NoKeys])

KeyFails ==
    /\ Ready("render", "enter") /\ Kind(Top.tpl) = "obj"
    /\ \E k \in Keys(Top.tpl) : FirstHit(k) /\ Failing(KeyText(k))

(* maybe_operator() goes by the key as written, not as interpolated. *)
Operator ==
    /\ Ready("render", "enter") /\ Kind(Top.tpl) = "obj"
    /\ \E k \in Keys(Top.tpl) \cap Operators :
           /\ FirstHit(k) /\ KeyText(k).st = "ok"
           /\ Goto([Top EXCEPT !.op = k, !.pc = "start"])

Reserved ==
    /\ Ready("render", "enter") /\ Kind(Top.tpl) = "obj"
    /\ \E k \in Keys(Top.tpl) \ Operators : FirstHit(k) /\ KeyText(k).st = "ok"
    /\ Raise

ObjectMember ==
    /\ Ready("render", "fields")
    /\ \E e \in Steps(Top.tpl) : First(e, Top.todo) /\ Call(Advance(e), Child(Top.tpl, e), Top.ctx)

ObjectInsert ==
    /\ Resumed("render", "fields")
    /\ \/ ret.v = Marker /\ Goto(Top)
       \/ /\ ret.v # Marker
          /\ \E k \in Keys(Top.tpl) :
             LET o == Interpolate(Unescape[k], Top.ctx)
             IN  /\ Top.at = Key(k)
                 /\ \/ o.st = "ok" /\ Goto([Top EXCEPT !.acc = Insert(@, StrOf(o.v), ret.v)])
                    \/ Failing(o)

(* The loops that only collect return what they collected. *)
LoopDone ==
    /\ \/ \E pc \in {"elems", "fields"} : Ready("render", pc)
       \/ \E op \in {"$flatten", "$map", "$reduce", "$match", "$merge", "$mergeDeep"} : Ready(op, "each")
    /\ Top.todo = {}
    /\ Return(Top.acc)
-----------------------------------------------------------------------------
(* What every operator does first: look for properties it does not have    *)
(* ($switch does not look), then at the shape of its own value.            *)

Allowed(op) ==
    CASE op = "$fromNow" -> {"from"}
      [] op = "$if"      -> {"then", "else"}
      [] op = "$let"     -> {"in"}
      [] op \in {"$map", "$find"} -> DOMAIN EachVars
      [] op = "$reduce"  -> {"initial"} \cup DOMAIN EachThreeVars
      [] op = "$sort"    -> DOMAIN ByVar
      [] op = "$switch"  -> Str
      [] OTHER           -> {}

WellShaped(op) ==
    CASE op \in {"$eval", "$if"} -> Kind(Arg) = "str"
      [] op \in {"$let", "$match", "$switch"} -> Kind(Arg) = "obj"
      [] op \in {"$map", "$find"} -> Cardinality(Others) = 1
      [] op = "$reduce" -> Cardinality(Others) = 2
      [] OTHER -> TRUE

Accepted(op) == Others \subseteq Allowed(op) /\ WellShaped(op)
Begun(op) == Ready(op, "start") /\ Accepted(op)

Reject ==
    /\ \E op \in Operators : Ready(op, "start") /\ ~Accepted(op)
    /\ Raise

(* Altered: renders the whole object instead of the operator's value. *)
RenderWholeObject ==
    /\ \E op \in {"$flatten", "$flattenDeep", "$json", "$let", "$map", "$reduce", "$find",
                  "$merge", "$mergeDeep", "$reverse", "$sort"} : Begun(op)
    /\ Call(Inherit("value"), Top.tpl, Top.ctx)

(* Operators that go on by rendering their value. *)
RenderArgument ==
    /\ \E op \in {"$flatten", "$flattenDeep", "$json", "$let", "$map", "$reduce", "$find",
                  "$merge", "$mergeDeep", "$reverse", "$sort"} : Begun(op)
    /\ Call(Inherit("value"), Arg, Top.ctx)

(* What the value must have become. *)
Expected(op) ==
    CASE op = "$map" -> {"arr", "obj"}
      [] op = "$let" -> {"obj"}
      [] op = "$fromNow" -> {"str"}
      [] OTHER -> {"arr"}

RejectArgument ==
    /\ \E op \in Operators \ {"$json", "$reduce"} :
           Resumed(op, "value") /\ Kind(ret.v) \notin Expected(op)
    /\ Raise

Argument(op) == Resumed(op, "value") /\ Kind(ret.v) \in Expected(op)

Pass ==
    /\ \E op \in Operators : Resumed(op, "pass")
    /\ Return(ret.v)

-----------------------------------------------------------------------------
(* $eval, $if, $json, $let, $fromNow *)

Eval ==
    /\ Begun("$eval")
    /\ LET o == Evaluate(StrOf(Arg), Top.ctx)
       IN  (o.st = "ok" /\ Return(o.v)) \/ Failing(o)

If ==
    /\ Begun("$if")
    /\ LET o == Evaluate(StrOf(Arg), Top.ctx)
           prop == IF Truthy(o.v) THEN "then" ELSE "else"
       IN  \/ o.st = "ok" /\ prop \in Others /\ Call(Inherit("pass"), Field(Top.tpl, prop), Top.ctx)
           \/ o.st = "ok" /\ prop \notin Others /\ Return(Marker)
           \/ Failing(o)

Json ==
    /\ Resumed("$json", "value")
    /\ \/ Convertible(ret.v) /\ Return(Text(JsonText(ToJson(ret.v))))
       \/ ~Convertible(ret.v) /\ Raise

LetBody ==
    /\ Argument("$let")
    /\ \/ /\ Keys(ret.v) \subseteq Identifiers /\ "in" \in Others
          /\ Call(Inherit("pass"), Field(Top.tpl, "in"), Extend(Top.ctx, ret.v))
       \/ ~(Keys(ret.v) \subseteq Identifiers /\ "in" \in Others) /\ Raise

FromNowFrom ==
    /\ Begun("$fromNow") /\ "from" \in Others
    /\ Call(Inherit("from"), Field(Top.tpl, "from"), Top.ctx)

(* Altered: without `from`, the clock as it is now. *)
FromNowReadsClock ==
    /\ Begun("$fromNow") /\ "from" \notin Others
    /\ Call([Inherit("value") EXCEPT !.val = Text(Now)], Arg, Top.ctx)

(* Without `from`, whatever the context now binds `now` to. *)
FromNowDefault ==
    /\ Begun("$fromNow") /\ "from" \notin Others
    /\ \E i \in DOMAIN Top.ctx :
           /\ Binding(Top.ctx, "now", i)
           /\ LET now == Field(Top.ctx[i], "now")
              IN  \/ Kind(now) = "str" /\ Call([Inherit("value") EXCEPT !.val = now], Arg, Top.ctx)
                  \/ Kind(now) # "str" /\ Raise

FromNowReference ==
    /\ Resumed("$fromNow", "from")
    /\ \/ Kind(ret.v) = "str" /\ Call([Inherit("value") EXCEPT !.val = ret.v], Arg, Top.ctx)
       \/ Kind(ret.v) # "str" /\ Raise

FromNowResult ==
    /\ Argument("$fromNow")
    /\ LET o == FromNow(StrOf(ret.v), StrOf(Top.val))
       IN  (o.st = "ok" /\ Return(o.v)) \/ Failing(o)

-----------------------------------------------------------------------------
(* $flatten, $merge, $mergeDeep fold over the rendered items. *)

FoldBegin ==
    \E op \in {"$flatten", "$merge", "$mergeDeep"} :
        /\ Argument(op)
        /\ Goto(Loop(ret.v, IF op = "$flatten" THEN NoElems ELSE NoKeys))

FlattenItem ==
    /\ Ready("$flatten", "each")
    /\ \E e \in Steps(Top.val) :
           /\ First(e, Top.todo)
           /\ Goto([Advance(e) EXCEPT !.acc = FlattenInto(@, Child(Top.val, e))])

MergeItem ==
    \E op \in {"$merge", "$mergeDeep"} :
        /\ Ready(op, "each")
        /\ \E e \in Steps(Top.val) :
               LET item == Child(Top.val, e)
               IN  /\ First(e, Top.todo)
                   /\ \/ /\ Kind(item) = "obj"
                         /\ Goto([Advance(e) EXCEPT !.acc =
                                    IF op = "$merge" THEN Merge(@, item) ELSE MergeDeep(@, item)])
                      \/ Kind(item) # "obj" /\ Raise

FlattenDeepResult == Argument("$flattenDeep") /\ Return(FlattenDeep(ret.v))
ReverseResult == Argument("$reverse") /\ Return(Reverse(ret.v))

-----------------------------------------------------------------------------
(* $sort: without by(..) the items are their own keys; with it, a loop     *)
(* evaluates the keys first, in one child scope that is overwritten.       *)

SortResult(v, keys) ==
    \/ ~Sortable(keys) /\ Raise
    \/ Sortable(keys) /\ SortPanics(keys) /\ Abort
    \/ Sortable(keys) /\ ~SortPanics(keys) /\ Return(Sort(v, keys))

SortPlain ==
    /\ Argument("$sort")
    /\ \/ ret.v = NoElems /\ Return(ret.v)
       \/ ret.v # NoElems /\ Others = {} /\ SortResult(ret.v, ret.v)

SortBy ==
    /\ Argument("$sort") /\ ret.v # NoElems /\ Others # {}
    /\ LET valid == Cardinality(Others) = 1 /\ \A p \in Others : Kind(Field(Top.tpl, p)) = "str"
       IN  (valid /\ Goto(Loop(ret.v, NoElems))) \/ (~valid /\ Raise)

SortKey ==
    /\ Ready("$sort", "each")
    /\ \E e \in Steps(Top.val), p \in Others \cap DOMAIN ByVar :
           LET scope == Bind(NoKeys, ByVar[p], Child(Top.val, e))
               o == Evaluate(StrOf(Field(Top.tpl, p)), Extend(Top.ctx, scope))
           IN  /\ First(e, Top.todo)
               /\ \/ o.st = "ok" /\ Goto([Advance(e) EXCEPT !.acc = Put(@, e, o.v)])
                  \/ Failing(o)

SortDone ==
    /\ Ready("$sort", "each") /\ Top.todo = {}
    /\ SortResult(Top.val, Top.acc)
-----------------------------------------------------------------------------
(* $map, $reduce, $find: a loop that binds each item in a fresh scope.     *)

EachProp(p) == p \in Others /\ First(Key(p), { Key(q) : q \in Others \ {"initial"} })
EachTemplate(p) == Field(Top.tpl, p)

(* The item, then its index: if both have one name the index is bound.     *)
ItemScope(names, i, item) ==
    LET scope == Bind(NoKeys, names[1], item)
    IN  IF Len(names) = 1 THEN scope ELSE Bind(scope, names[2], Num(i))

(* A member of an object: the key, then the value; one name gets both.     *)
MemberScope(names, k, item) ==
    IF Len(names) = 1
    THEN Bind(NoKeys, names[1], Insert(Insert(NoKeys, "key", Text(k)), "val", item))
    ELSE Bind(Bind(NoKeys, names[2], Text(k)), names[1], item)

AccScope(names, acc, i, item) ==
    LET scope == Bind(Bind(NoKeys, names[1], acc), names[2], item)
    IN  IF Len(names) = 2 THEN scope ELSE Bind(scope, names[3], Num(i))

LoopBegin ==
    \/ Argument("$map") /\ Goto(Loop(ret.v, IF Kind(ret.v) = "arr" THEN NoElems ELSE NoKeys))
    \/ Argument("$find") /\ Goto(Loop(ret.v, Null))

(* Altered: renders the item, as $find does. *)
MapItemRendered ==
    /\ Ready("$map", "each") /\ Kind(Top.val) = "arr"
    /\ \E i \in Indices(Top.val), p \in Others \cap DOMAIN EachVars :
           /\ First(Elem(i), Top.todo)
           /\ Call(Advance(Elem(i)), Child(Top.val, Elem(i)),
                   Extend(Top.ctx, ItemScope(EachVars[p], i, Child(Top.val, Elem(i)))))

(* Altered: the loop goes on in the scope it made for one item. *)
MapKeepsScope ==
    /\ Ready("$map", "each") /\ Kind(Top.val) = "arr"
    /\ \E i \in Indices(Top.val), p \in Others \cap DOMAIN EachVars :
           LET ctx == Extend(Top.ctx, ItemScope(EachVars[p], i, Child(Top.val, Elem(i))))
           IN  /\ First(Elem(i), Top.todo)
               /\ Call([Advance(Elem(i)) EXCEPT !.ctx = ctx], EachTemplate(p), ctx)

MapElement ==
    /\ Ready("$map", "each") /\ Kind(Top.val) = "arr"
    /\ \E i \in Indices(Top.val), p \in Others \cap DOMAIN EachVars :
           /\ First(Elem(i), Top.todo)
           /\ Call(Advance(Elem(i)), EachTemplate(p),
                   Extend(Top.ctx, ItemScope(EachVars[p], i, Child(Top.val, Elem(i)))))

MapMember ==
    /\ Ready("$map", "each") /\ Kind(Top.val) = "obj"
    /\ \E k \in Keys(Top.val), p \in Others \cap DOMAIN EachVars :
           /\ First(Key(k), Top.todo)
           /\ Call(Advance(Key(k)), EachTemplate(p),
                   Extend(Top.ctx, MemberScope(EachVars[p], k, Field(Top.val, k))))

MapKeep ==
    /\ Resumed("$map", "each")
    /\ \/ Kind(Top.val) = "arr" /\ Goto([Top EXCEPT !.acc = Kept(@, ret.v)])
       \/ Kind(Top.val) = "obj" /\ Kind(ret.v) = "obj" /\ Goto([Top EXCEPT !.acc = Merge(@, ret.v)])
       \/ Kind(Top.val) = "obj" /\ Kind(ret.v) # "obj" /\ Raise

(* Altered: a missing `initial` is not noticed. *)
ReduceWithoutInitial ==
    /\ Resumed("$reduce", "value")
    /\ \/ Kind(ret.v) # "arr" /\ Raise
       \/ Kind(ret.v) = "arr" /\ Goto(Loop(ret.v, Field(Top.tpl, "initial")))

(* `initial` is unwrapped before the value is looked at. *)
ReduceBegin ==
    /\ Resumed("$reduce", "value")
    /\ \/ "initial" \notin Others /\ Abort
       \/ "initial" \in Others /\ Kind(ret.v) # "arr" /\ Raise
       \/ /\ "initial" \in Others /\ Kind(ret.v) = "arr"
          /\ Goto(Loop(ret.v, Field(Top.tpl, "initial")))

ReduceItem ==
    /\ Ready("$reduce", "each")
    /\ \E i \in Indices(Top.val), p \in Others \cap DOMAIN EachThreeVars :
           /\ First(Elem(i), Top.todo) /\ EachProp(p)
           /\ Call(Advance(Elem(i)), EachTemplate(p),
                   Extend(Top.ctx, AccScope(EachThreeVars[p], Top.acc, i, Child(Top.val, Elem(i)))))

(* Altered: a marker becomes the accumulator. *)
ReduceKeepsMarker ==
    /\ Resumed("$reduce", "each")
    /\ Goto([Top EXCEPT !.acc = ret.v])

ReduceKeep ==
    /\ Resumed("$reduce", "each")
    /\ Goto(IF ret.v = Marker THEN Top ELSE [Top EXCEPT !.acc = ret.v])

(* The item that is found is rendered, not returned as it is. *)
FindItem ==
    /\ Ready("$find", "each")
    /\ \E i \in Indices(Top.val), p \in Others \cap DOMAIN EachVars :
           LET item == Child(Top.val, Elem(i))
               ctx == Extend(Top.ctx, ItemScope(EachVars[p], i, item))
               o == Evaluate(StrOf(EachTemplate(p)), ctx)
           IN  /\ First(Elem(i), Top.todo)
               /\ \/ Kind(EachTemplate(p)) # "str" /\ Raise
                  \/ /\ Kind(EachTemplate(p)) = "str"
                     /\ \/ o.st = "ok" /\ Truthy(o.v) /\ Call(Inherit("pass"), item, ctx)
                        \/ o.st = "ok" /\ ~Truthy(o.v) /\ Goto(Advance(Elem(i)))
                        \/ Failing(o)

FindNone == Ready("$find", "each") /\ Top.todo = {} /\ Return(Marker)

-----------------------------------------------------------------------------
(* $match renders every branch whose condition holds, $switch the only one. *)

MatchBegin == Begun("$match") /\ Goto(Loop(Arg, NoElems))

MatchCondition ==
    /\ Ready("$match", "each")
    /\ \E k \in Keys(Top.val) :
           LET o == Evaluate(k, Top.ctx)
           IN  /\ First(Key(k), Top.todo)
               /\ \/ o.st = "ok" /\ Truthy(o.v) /\ Call(Advance(Key(k)), Field(Top.val, k), Top.ctx)
                  \/ o.st = "ok" /\ ~Truthy(o.v) /\ Goto(Advance(Key(k)))
                  \/ Failing(o)

(* Altered: $match leaves markers out, as arrays do. *)
MatchDropsMarkers ==
    /\ Resumed("$match", "each")
    /\ Goto([Top EXCEPT !.acc = Kept(@, ret.v)])

(* Here a deletion marker is an element like any other. *)
MatchKeep ==
    /\ Resumed("$match", "each")
    /\ Goto([Top EXCEPT !.acc = Push(@, ret.v)])

(* acc holds the branch whose condition was true, once there is one. *)
SwitchBegin == Begun("$switch") /\ Goto(Loop(Arg, NoKeys))

SwitchCondition ==
    /\ Ready("$switch", "each")
    /\ \E k \in Keys(Top.val) \ {"$default"} :
           LET o == Evaluate(k, Top.ctx)
           IN  /\ First(Key(k), Top.todo)
               /\ \/ o.st = "ok" /\ ~Truthy(o.v) /\ Goto(Advance(Key(k)))
                  \/ o.st = "ok" /\ Truthy(o.v) /\ Top.acc # NoKeys /\ Raise
                  \/ /\ o.st = "ok" /\ Truthy(o.v) /\ Top.acc = NoKeys
                     /\ Goto([Advance(Key(k)) EXCEPT !.acc = Insert(@, k, Field(Top.val, k))])
                  \/ Failing(o)

(* Altered: `$default` is passed over but not consumed. *)
SwitchStaysAtDefault ==
    /\ Ready("$switch", "each") /\ First(Key("$default"), Top.todo)
    /\ Goto(Top)

SwitchDefault ==
    /\ Ready("$switch", "each") /\ First(Key("$default"), Top.todo)
    /\ Goto(Advance(Key("$default")))

SwitchDone ==
    /\ Ready("$switch", "each") /\ Top.todo = {}
    /\ \/ \E e \in Steps(Top.acc) : Call(Inherit("pass"), Child(Top.acc, e), Top.ctx)
       \/ Top.acc = NoKeys /\ Has(Top.val, "$default")
             /\ Call(Inherit("pass"), Field(Top.val, "$default"), Top.ctx)
       \/ Top.acc = NoKeys /\ ~Has(Top.val, "$default") /\ Return(Marker)

-----------------------------------------------------------------------------
(* The rest of the process. *)

Tick == clock < MaxClock /\ clock' = clock + 1
            /\ UNCHANGED << template, context, status, stack, ret, testing >>
UseTestNow == ~testing /\ testing' = TRUE
            /\ UNCHANGED << template, context, status, stack, ret, clock >>

Plain == \/ Scalar \/ String \/ Unreachable
         \/ Array \/ ArrayElement \/ ArrayKeep
         \/ Object \/ KeyFails \/ Operator \/ Reserved \/ ObjectMember \/ ObjectInsert
         \/ LoopDone
Simple == \/ Eval \/ If \/ Json \/ LetBody
          \/ FromNowFrom \/ FromNowDefault \/ FromNowReference \/ FromNowResult
Folds == \/ FoldBegin \/ FlattenItem \/ MergeItem \/ FlattenDeepResult \/ ReverseResult
           \/ SortPlain \/ SortBy \/ SortKey \/ SortDone
Loops == \/ LoopBegin \/ MapElement \/ MapMember \/ MapKeep \/ ReduceBegin \/ ReduceItem \/ ReduceKeep
         \/ FindItem \/ FindNone \/ MatchBegin \/ MatchCondition \/ MatchKeep
         \/ SwitchBegin \/ SwitchCondition \/ SwitchDefault \/ SwitchDone

Render == \/ Start \/ Finish \/ Propagate
          \/ Plain
          \/ Reject \/ RenderArgument \/ RejectArgument \/ Pass
          \/ Simple \/ Folds \/ Loops

Init ==
    /\ \E in \in Inputs : template = in[1] /\ context = in[2]
    /\ status = "ready" /\ stack = <<>> /\ ret = Idle
    /\ clock = 0 /\ testing \in BOOLEAN

(* The render has ended and its thread has nothing more to do. *)
Ended == status \in { "done", "failed", "panicked", "overflowed" } /\ UNCHANGED vars

Next == Render \/ Tick \/ UseTestNow \/ Ended

(* The thread that renders keeps running; nothing else is promised. *)
Spec == Init /\ [][Next]_vars /\ WF_vars(Render)

-----------------------------------------------------------------------------
(* Properties. *)

PCs == { "enter", "elems", "fields", "start", "from", "value", "each", "pass" }
FrameType == [op : Operators \cup {"render"}, pc : PCs, tpl : Value, ctx : Seq(Value),
              todo : SUBSET Step, at : Step, val : Value, acc : Value]

(* The variables have the types of the Rust program; a marker or a         *)
(* function is a value too, so this bounds the shapes and nothing more.    *)
TypeOK ==
    /\ template \in Value /\ context \in Value
    /\ status \in { "ready", "running", "done", "failed", "panicked", "overflowed" }
    /\ stack \in Seq(FrameType)
    /\ ret \in [st : {"none", "ok", "err"}, v : Value]
    /\ clock \in 0..MaxClock /\ testing \in BOOLEAN

(* The template uses the operator somewhere.  Uses("$find") matters to     *)
(* several properties: $find renders data, so what the template mentions   *)
(* does not bound what is rendered.                                        *)
Uses(op) == \E n \in template : \E i \in DOMAIN n[1] : n[1][i] = Key(op)

(* Without $find only JSON is ever rendered: the `unreachable!()` of       *)
(* _render stays unreachable although evaluation produces functions and    *)
(* deletion markers all the time.                                          *)
OnlyJsonRendered == ~Uses("$find") => \A i \in DOMAIN stack : IsJson(stack[i].tpl)

(* Without $find the call stack is never deeper than the template: its     *)
(* depth bounds the native stack that a render needs, whatever the data.   *)
StackBounded ==
    ~Uses("$find") => \A i \in DOMAIN stack : \E n \in template : i <= Len(n[1]) + 1

(* Deletion markers are dropped by every container on the way up: without  *)
(* $match, whose array keeps them, none is inside a result, an item, an    *)
(* accumulator or a variable of the context.                               *)
NoMarker(v) == \A n \in v : n[2] # <<"del">>
MarkersDropped ==
    ~Uses("$find") /\ ~Uses("$match") =>
        /\ MarkerFree(ret.v)
        /\ \A i \in DOMAIN stack :
               /\ NoMarker(stack[i].val) /\ NoMarker(stack[i].acc)
               /\ \A j \in DOMAIN stack[i].ctx : NoMarker(stack[i].ctx[j])

(* A callee sees its caller's scopes and at most one more; the outermost   *)
(* frame sees the three that render() made.                                *)
ScopesNest ==
    \A i \in DOMAIN stack :
        IF i = 1 THEN Len(stack[i].ctx) = 3
        ELSE \/ stack[i].ctx = stack[i - 1].ctx
             \/ Len(stack[i].ctx) = Len(stack[i - 1].ctx) + 1
                  /\ SubSeq(stack[i].ctx, 1, Len(stack[i - 1].ctx)) = stack[i - 1].ctx

(* What a live activation renders, and the scopes it does so in, are       *)
(* settled when it is called: no later call leaks a binding into it.       *)
ActivationsFixed ==
    [][\A i \in DOMAIN stack \cap DOMAIN stack' :
           stack'[i].tpl = stack[i].tpl /\ stack'[i].ctx = stack[i].ctx]_vars

(* An activation never goes back: between two calls, or a call and its     *)
(* return, its handler gets to a later phase, or visits one thing less; or *)
(* it takes, without a call, what the last call returned.  Whatever it     *)
(* renders, it takes finitely many steps and makes finitely many calls.    *)
Phase(pc) ==
    CASE pc = "enter" -> 0
      [] pc \in { "elems", "fields", "start" } -> 1
      [] pc = "from" -> 2
      [] pc = "value" -> 3
      [] pc = "each" -> 4
      [] pc = "pass" -> 5
GoesOn(f, g) ==
    \/ Phase(f.pc) < Phase(g.pc)
    \/ f.pc = g.pc /\ f.op = g.op /\ g.todo \subseteq f.todo /\ g.todo # f.todo
ActivationsAdvance ==
    [][stack # <<>> /\ Len(stack) <= Len(stack') /\ status' = status =>
           \/ GoesOn(Top, stack'[Len(stack)])
           \/ /\ Len(stack') = Len(stack) /\ ret.st = "ok" /\ ret' = Idle
              /\ stack'[Len(stack)] = [Top EXCEPT !.acc = stack'[Len(stack)].acc]]_<< stack, ret, status >>

(* One render, one reading of the clock: of what renders read off the      *)
(* clock at different moments at most one is in the values of a render,    *)
(* whether it is content or a key, however the clock and the test flag     *)
(* move.  What the caller passes in and an offset can name other times.    *)
Readings == { Stamp[n] : n \in DOMAIN Stamp } \cup { TestStamp }
TimesIn(v) ==
    { s \in Readings : \E n \in v : n[2] = << "str", s >> \/ \E i \in DOMAIN n[1] : n[1][i] = Key(s) }
OneClockReading ==
    TimesIn(template) \cup TimesIn(context) = {} =>
        Cardinality(UNION { TimesIn(v) : v \in { ret.v } \cup { stack[i].acc : i \in DOMAIN stack } }) <= 1

(* What it takes: Speech[t] are the strings that can come up in a render   *)
(* that reads t off the clock, and no other reading is among them.  No     *)
(* expression of the template, and no offset, makes one time of another.   *)
Separate(Speech, Contexts, Values) ==
    /\ \A t \in Readings :
           Speech[t] \cap Readings = {t} /\ Closed(Vocabulary(Speech[t]), Contexts, Values)
    /\ \A in \in Inputs, t \in Readings :
           TimesIn(in[1]) \cup TimesIn(in[2]) = {} =>
               Within(in[1], Vocabulary(Speech[t])) /\ Within(in[2], Vocabulary(Speech[t]))

(* A render ends. *)
Terminates == <>(status \in { "done", "failed", "panicked", "overflowed" })
=============================================================================
