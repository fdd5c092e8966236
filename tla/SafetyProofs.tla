---------------------------- MODULE SafetyProofs ----------------------------
(***************************************************************************)
(* What the frames of the call stack render, how deep they nest, and which *)
(* scopes they see, for every interpreter that keeps its Contract.         *)
(***************************************************************************)
EXTENDS RenderProofs

(* Neither OnlyJsonRendered nor StackBounded is inductive.  The frame at   *)
(* depth d + 1 must render a part of the template that is at least d steps *)
(* below its root: JSON, without $find, with keys and indices that occur   *)
(* in the template, and with d + Len(path) covered by one of its paths.    *)
Occurs(t, e) == \E m \in t : \E i \in DOMAIN m[1] : m[1][i] = e
Part(t, v, d) ==
    \A n \in v :
        /\ n[2] \notin { <<"del">>, <<"nan">> } /\ n[2][1] # "fn"
        /\ \A i \in DOMAIN n[1] : n[1][i] # Key("$find") /\ Occurs(t, n[1][i])
        /\ \E m \in t : Len(n[1]) + d <= Len(m[1])

(* The loops of $match and $switch keep templates in val and acc.          *)
FramePart(t, f, i) ==
    /\ Part(t, f.tpl, i - 1)
    /\ f.pc = "each" /\ f.op \in {"$match", "$switch"} => Part(t, f.val, i)
    /\ f.pc = "each" /\ f.op = "$switch" => Part(t, f.acc, i)

Parts ==
    /\ IsJson(template)
    /\ ~Uses("$find") => \A i \in DOMAIN stack : FramePart(template, stack[i], i)

-----------------------------------------------------------------------------
(* Parts of parts. *)

LEMMA TemplatePart ==
    ASSUME template \in Value, IsJson(template), ~Uses("$find")
    PROVE  Part(template, template, 0)
<1> SUFFICES ASSUME NEW n \in template
             PROVE  /\ \A i \in DOMAIN n[1] : n[1][i] # Key("$find") /\ Occurs(template, n[1][i])
                    /\ Len(n[1]) + 0 <= Len(n[1])
    BY DEF Part, IsJson
<1>1. Len(n[1]) \in Nat
    BY NodeType DEF Path
<1> QED BY <1>1 DEF Uses, Occurs

LEMMA ChildPart ==
    ASSUME NEW t \in Value, NEW v \in Value, NEW e, NEW d \in Nat, Part(t, v, d)
    PROVE  Part(t, Child(v, e), d + 1)
<1> SUFFICES ASSUME NEW m \in Child(v, e)
             PROVE  /\ m[2] \notin { <<"del">>, <<"nan">> } /\ m[2][1] # "fn"
                    /\ \A i \in DOMAIN m[1] : m[1][i] # Key("$find") /\ Occurs(t, m[1][i])
                    /\ \E q \in t : Len(m[1]) + (d + 1) <= Len(q[1])
    BY DEF Part
<1>1. PICK n \in v : /\ n[1] # <<>> /\ m = << Tail(n[1]), n[2] >> /\ Len(n[1]) = Len(m[1]) + 1
                     /\ \A i \in DOMAIN m[1] : m[1][i] = n[1][i + 1] /\ i + 1 \in DOMAIN n[1]
    BY ChildNode
<1>2. n[1] \in Seq(Step)
    BY NodeType DEF Path
<1>3. Len(m[1]) \in Nat
    BY <1>1, <1>2
<1>4. PICK q \in t : Len(n[1]) + d <= Len(q[1])
    BY DEF Part
<1>5. Len(m[1]) + (d + 1) = Len(n[1]) + d
    BY <1>1, <1>3
<1> QED BY <1>1, <1>4, <1>5 DEF Part

LEMMA PartWeaker ==
    ASSUME NEW t \in Value, NEW v \in Value, NEW d \in Nat, Part(t, v, d + 1)
    PROVE  Part(t, v, d)
<1> SUFFICES ASSUME NEW n \in v PROVE \E m \in t : Len(n[1]) + d <= Len(m[1])
    BY DEF Part
<1>1. PICK m \in t : Len(n[1]) + (d + 1) <= Len(m[1])
    BY DEF Part
<1>2. Len(n[1]) \in Int /\ Len(m[1]) \in Int /\ d \in Int
    BY NodeType DEF Path
<1>3. \A a, b, c \in Int : a + (c + 1) <= b => a + c <= b
    OBVIOUS
<1>4. Len(n[1]) + d <= Len(m[1])
    BY <1>1, <1>2, <1>3
<1> QED BY <1>4

(* The branch $switch puts aside holds nothing that its object does not.   *)
LEMMA BranchPart ==
    ASSUME NEW t \in Value, NEW v \in Value, NEW k, NEW d \in Nat, Part(t, v, d)
    PROVE  Part(t, Insert(NoKeys, k, Field(v, k)), d)
<1>1. \A n \in Insert(NoKeys, k, Field(v, k)) : n \in NoKeys \/ n \in v
    <2> SUFFICES ASSUME NEW m \in Child(v, Key(k)) PROVE << << Key(k) >> \o m[1], m[2] >> \in v
        BY DEF Insert, Put, Graft, Field
    <2>1. PICK n \in v : n[1] # <<>> /\ Head(n[1]) = Key(k) /\ m = << Tail(n[1]), n[2] >>
        BY ChildNode
    <2>2. n[1] \in Seq(Step) /\ n = << n[1], n[2] >>
        BY NodeType DEF Path
    <2>3. << Head(n[1]) >> \o Tail(n[1]) = n[1]
        BY <2>1, <2>2
    <2> QED BY <2>1, <2>2, <2>3
<1>2. \A n \in NoKeys : n[1] = <<>> /\ n[2] = <<"obj">>
    BY DEF NoKeys, Leaf
<1>3. \E m \in t : Len(<<>>) + d <= Len(m[1])
    <2>1. PICK n \in v : n[1] = <<>>
        BY DEF Value
    <2> QED BY <2>1 DEF Part
<1> QED BY <1>1, <1>2, <1>3 DEF Part

(* A frame that runs $find has $find in its template. *)
LEMMA PartNotFind ==
    ASSUME NEW f \in Good, NEW t, NEW d, Part(t, f.tpl, d)
    PROVE  f.op # "$find"
<1> SUFFICES ASSUME f.op = "$find" PROVE FALSE
    OBVIOUS
<1>1. "$find" \in Keys(f.tpl) /\ f.tpl \in Value
    BY DEF Good, FrameType
<1>2. Key("$find") \in Steps(f.tpl)
    BY <1>1, KeyStep
<1>3. PICK n \in f.tpl : Len(n[1]) = 1 /\ n[1][1] = Key("$find")
    BY <1>2 DEF Steps
<1>4. 1 \in DOMAIN n[1]
    BY <1>1, <1>3, NodeType DEF Path
<1> QED BY <1>3, <1>4 DEF Part

-----------------------------------------------------------------------------
(* The shape of a step.  A handler goes on in its own activation, and what *)
(* it calls is part of what it renders, in its scopes or in one more.      *)

SameActivation(f) == f.tpl = Top.tpl /\ f.ctx = Top.ctx
Resumes(f) ==
    /\ SameActivation(f)
    /\ FramePart(template, Top, Len(stack)) => FramePart(template, f, Len(stack))
Calls(tpl, ctx) ==
    /\ ctx = Top.ctx \/ \E scope : ctx = Append(Top.ctx, scope)
    /\ FramePart(template, Top, Len(stack)) => Part(template, tpl, Len(stack))
Shape ==
    /\ template' = template /\ status' \in { status, "panicked", "overflowed" }
    /\ \/ stack' = stack \/ stack' = Rest
       \/ \E f : Resumes(f) /\ stack' = Append(Rest, f)
       \/ \E f, tpl, ctx :
              Resumes(f) /\ Calls(tpl, ctx) /\ stack' = Rest \o << f, Frame(tpl, ctx) >>

LEMMA GotoShape ==
    ASSUME NEW f, Resumes(f), Goto(f)
    PROVE  Shape
BY DEF Goto, Shape, env

LEMMA CallShape ==
    ASSUME NEW f, NEW tpl, NEW ctx, Resumes(f), Calls(tpl, ctx), Call(f, tpl, ctx)
    PROVE  Shape
BY DEF Call, Shape, env

LEMMA ReturnShape ==
    ASSUME NEW v, Return(v)
    PROVE  Shape
BY DEF Return, Shape, env

LEMMA RaiseShape ==
    ASSUME Raise \/ Abort
    PROVE  Shape
BY DEF Raise, Abort, Shape, env

LEMMA FailingShape ==
    ASSUME NEW o, Failing(o)
    PROVE  Shape
BY RaiseShape DEF Failing

(* Frames a handler goes on with.  Only in the loops of $match and $switch *)
(* is there more to keep than the template.                                *)
LEMMA OtherResumes ==
    ASSUME NEW f, SameActivation(f), f.pc # "each" \/ f.op \notin {"$match", "$switch"}
    PROVE  Resumes(f)
BY DEF Resumes, FramePart, SameActivation

LEMMA AdvanceResumes ==
    ASSUME Typed, Running, NEW e
    PROVE  Resumes(Advance(e))
BY TopGood DEF Advance, Resumes, FramePart, SameActivation, Good, FrameType

LEMMA InheritResumes ==
    ASSUME Typed, Running, NEW pc, pc # "each"
    PROVE  Resumes(Inherit(pc))
<1>1. SameActivation(Inherit(pc)) /\ Inherit(pc).pc # "each"
    BY TopGood DEF Inherit, SameActivation, Good, FrameType
<1> QED BY <1>1, OtherResumes

LEMMA AccResumes ==
    ASSUME Typed, Running, NEW acc, Top.op # "$switch"
    PROVE  Resumes([Top EXCEPT !.acc = acc])
BY TopGood DEF Resumes, FramePart, SameActivation, Good, FrameType

LEMMA AdvanceAccResumes ==
    ASSUME Typed, Running, NEW e, NEW acc, Top.op # "$switch"
    PROVE  Resumes([Advance(e) EXCEPT !.acc = acc])
BY TopGood DEF Advance, Resumes, FramePart, SameActivation, Good, FrameType

LEMMA LoopResumes ==
    ASSUME Typed, Running, NEW val, NEW acc, Top.op \notin {"$match", "$switch"}
    PROVE  Resumes(Loop(val, acc))
<1>1. SameActivation(Loop(val, acc)) /\ Loop(val, acc).op = Top.op
    BY TopGood DEF Loop, SameActivation, Good, FrameType
<1> QED BY <1>1, OtherResumes

-----------------------------------------------------------------------------
(* What it calls. *)

LEMMA StackLength ==
    ASSUME Typed, Running
    PROVE  Len(stack) \in Nat /\ Len(stack) - 1 \in Nat
BY DEF Typed, Running

LEMMA ChildCalls ==
    ASSUME Typed, Running, NEW e, NEW ctx,
           ctx = Top.ctx \/ \E scope : ctx = Append(Top.ctx, scope)
    PROVE  Calls(Child(Top.tpl, e), ctx)
<1> SUFFICES ASSUME Part(template, Top.tpl, Len(stack) - 1)
             PROVE  Part(template, Child(Top.tpl, e), Len(stack))
    BY DEF Calls, FramePart
<1>1. template \in Value /\ Top.tpl \in Value
    BY TopFields DEF Typed
<1>2. Part(template, Child(Top.tpl, e), (Len(stack) - 1) + 1)
    BY <1>1, StackLength, ChildPart
<1>3. (Len(stack) - 1) + 1 = Len(stack)
    BY StackLength
<1> QED BY <1>2, <1>3

LEMMA FieldCalls ==
    ASSUME Typed, Running, NEW k, NEW ctx,
           ctx = Top.ctx \/ \E scope : ctx = Extend(Top.ctx, scope)
    PROVE  Calls(Field(Top.tpl, k), ctx) /\ (k = Top.op => Calls(Arg, ctx))
BY ChildCalls DEF Field, Extend, Arg

(* A child of something that is a part at the depth below.                 *)
LEMMA BranchCalls ==
    ASSUME Typed, Running, NEW v \in Value, NEW e \in Steps(v),
           FramePart(template, Top, Len(stack)) => Part(template, v, Len(stack))
    PROVE  Calls(Child(v, e), Top.ctx)
<1> SUFFICES ASSUME Part(template, v, Len(stack))
             PROVE  Part(template, Child(v, e), Len(stack))
    BY DEF Calls
<1>1. template \in Value /\ Child(v, e) \in Value
    BY ChildType DEF Typed
<1>2. Part(template, Child(v, e), Len(stack) + 1)
    BY <1>1, StackLength, ChildPart
<1> QED BY <1>1, <1>2, StackLength, PartWeaker

-----------------------------------------------------------------------------
(* Every step of a running render has that shape. *)

LEMMA PropagateShape == Propagate => Shape
BY DEF Propagate, Shape, env

LEMMA LeavesShape ==
    ASSUME Scalar \/ String \/ Unreachable \/ KeyFails \/ Reserved \/ LoopDone \/ Reject
           \/ RejectArgument \/ Pass \/ Eval \/ Json \/ FromNowResult \/ FindNone
    PROVE  Shape
BY ReturnShape, RaiseShape, FailingShape
   DEF Scalar, String, Unreachable, KeyFails, Reserved, LoopDone, Reject, RejectArgument,
       Pass, Eval, Json, FromNowResult, FindNone

LEMMA ResultsShape ==
    ASSUME FlattenDeepResult \/ ReverseResult \/ SortPlain \/ SortDone
    PROVE  Shape
BY ReturnShape, RaiseShape
   DEF FlattenDeepResult, ReverseResult, SortPlain, SortDone, SortResult

LEMMA ContainerShape ==
    ASSUME Typed, Array \/ Object
    PROVE  Shape
<1>1. Running /\ Top.op = "render"
    BY DEF Array, Object, Ready
<1>2. /\ Resumes([Top EXCEPT !.pc = "elems", !.todo = Steps(Top.tpl), !.acc = NoElems])
      /\ Resumes([Top EXCEPT !.pc = "fields", !.todo = Steps(Top.tpl), !.acc = NoKeys])
    BY <1>1, TopGood, OtherResumes DEF SameActivation, Good, FrameType
<1> QED BY <1>2, GotoShape DEF Array, Object

LEMMA ElementShape ==
    ASSUME Typed, ArrayElement \/ ObjectMember
    PROVE  Shape
<1>1. Running
    BY DEF ArrayElement, ObjectMember, Ready
<1>2. PICK e : Call(Advance(e), Child(Top.tpl, e), Top.ctx)
    BY DEF ArrayElement, ObjectMember
<1> QED BY <1>1, <1>2, AdvanceResumes, ChildCalls, CallShape

LEMMA KeepShape ==
    ASSUME Typed, ArrayKeep \/ MapKeep \/ ReduceKeep \/ MatchKeep
    PROVE  Shape
<1>1. Running /\ Top.op # "$switch"
    BY DEF ArrayKeep, MapKeep, ReduceKeep, MatchKeep, Resumed
<1>2. \/ \E acc : Goto([Top EXCEPT !.acc = acc])
      \/ Goto(Top) \/ Raise
    BY DEF ArrayKeep, MapKeep, ReduceKeep, MatchKeep
<1>3. Resumes(Top)
    BY DEF Resumes, SameActivation
<1> QED BY <1>1, <1>2, <1>3, AccResumes, GotoShape, RaiseShape

LEMMA OperatorShape ==
    ASSUME Typed, Operator
    PROVE  Shape
<1>1. Running
    BY DEF Operator, Ready
<1>2. PICK k : Goto([Top EXCEPT !.op = k, !.pc = "start"])
    BY DEF Operator
<1>3. Resumes([Top EXCEPT !.op = k, !.pc = "start"])
    BY <1>1, TopGood, OtherResumes DEF SameActivation, Good, FrameType
<1> QED BY <1>2, <1>3, GotoShape

LEMMA ObjectInsertShape ==
    ASSUME Typed, ObjectInsert
    PROVE  Shape
<1>1. Running /\ Top.op = "render"
    BY DEF ObjectInsert, Resumed
<1>2. \/ \E acc : Goto([Top EXCEPT !.acc = acc])
      \/ Goto(Top) \/ \E o : Failing(o)
    BY DEF ObjectInsert
<1>3. Resumes(Top)
    BY DEF Resumes, SameActivation
<1> QED BY <1>1, <1>2, <1>3, AccResumes, GotoShape, FailingShape

LEMMA ArgumentShape ==
    ASSUME Typed, RenderArgument \/ FromNowFrom
    PROVE  Shape
<1>1. Running
    BY DEF RenderArgument, FromNowFrom, Begun, Ready
<1>2. \/ Call(Inherit("value"), Arg, Top.ctx)
      \/ Call(Inherit("from"), Field(Top.tpl, "from"), Top.ctx)
    BY DEF RenderArgument, FromNowFrom
<1> QED BY <1>1, <1>2, InheritResumes, FieldCalls, CallShape

LEMMA ReferenceShape ==
    ASSUME Typed, FromNowDefault \/ FromNowReference
    PROVE  Shape
<1>1. Running
    BY DEF FromNowDefault, FromNowReference, Begun, Ready, Resumed
<1>2. (\E v : Call([Inherit("value") EXCEPT !.val = v], Arg, Top.ctx)) \/ Raise
    BY DEF FromNowDefault, FromNowReference
<1>3. \A v : Resumes([Inherit("value") EXCEPT !.val = v])
    BY <1>1, TopGood, OtherResumes DEF Inherit, SameActivation, Good, FrameType
<1> QED BY <1>1, <1>2, <1>3, FieldCalls, CallShape, RaiseShape

LEMMA BodyShape ==
    ASSUME Typed, If \/ LetBody
    PROVE  Shape
<1>1. Running
    BY DEF If, LetBody, Begun, Ready, Argument, Resumed
<1>2. \/ \E prop : Call(Inherit("pass"), Field(Top.tpl, prop), Top.ctx)
      \/ Call(Inherit("pass"), Field(Top.tpl, "in"), Extend(Top.ctx, ret.v))
      \/ (\E o : Failing(o)) \/ Raise \/ Return(Marker)
    BY DEF If, LetBody
<1> QED BY <1>1, <1>2, InheritResumes, FieldCalls, CallShape, FailingShape, RaiseShape, ReturnShape

LEMMA LoopBeginShape ==
    ASSUME Typed, FoldBegin \/ SortBy \/ LoopBegin \/ ReduceBegin
    PROVE  Shape
<1>1. Running /\ Top.op \notin {"$match", "$switch"}
    BY DEF FoldBegin, SortBy, LoopBegin, ReduceBegin, Argument, Resumed
<1>2. (\E val, acc : Goto(Loop(val, acc))) \/ Raise \/ Abort
    BY DEF FoldBegin, SortBy, LoopBegin, ReduceBegin
<1> QED BY <1>1, <1>2, LoopResumes, GotoShape, RaiseShape

LEMMA LoopItemShape ==
    ASSUME Typed, FlattenItem \/ MergeItem \/ SortKey
    PROVE  Shape
<1>1. Running /\ Top.op # "$switch"
    BY DEF FlattenItem, MergeItem, SortKey, Ready
<1>2. (\E e, acc : Goto([Advance(e) EXCEPT !.acc = acc])) \/ Raise \/ \E o : Failing(o)
    BY DEF FlattenItem, MergeItem, SortKey
<1> QED BY <1>1, <1>2, AdvanceAccResumes, GotoShape, RaiseShape, FailingShape

LEMMA EachShape ==
    ASSUME Typed, MapElement \/ MapMember \/ ReduceItem
    PROVE  Shape
<1>1. Running
    BY DEF MapElement, MapMember, ReduceItem, Ready
<1>2. PICK e, p, scope : Call(Advance(e), Field(Top.tpl, p), Extend(Top.ctx, scope))
    BY DEF MapElement, MapMember, ReduceItem, EachTemplate
<1> QED BY <1>1, <1>2, AdvanceResumes, FieldCalls, CallShape

(* $find renders data, which no part of the template bounds: here the      *)
(* frame itself cannot be part of a template without $find.                *)
LEMMA FindItemShape ==
    ASSUME Typed, FindItem
    PROVE  Shape
<1>1. Running /\ Top.op = "$find"
    BY DEF FindItem, Ready
<1>2. \/ \E item, scope : Call(Inherit("pass"), item, Extend(Top.ctx, scope))
      \/ Raise \/ (\E e : Goto(Advance(e))) \/ \E o : Failing(o)
    BY DEF FindItem
<1>3. ~FramePart(template, Top, Len(stack))
    BY <1>1, TopGood, PartNotFind DEF FramePart
<1>4. \A item, scope : Calls(item, Extend(Top.ctx, scope))
    BY <1>3 DEF Calls, Extend
<1> QED BY <1>1, <1>2, <1>4, InheritResumes, AdvanceResumes, CallShape, GotoShape, RaiseShape,
           FailingShape

-----------------------------------------------------------------------------
(* $match and $switch, whose loops run over a part of the template. *)

LEMMA BranchesBeginShape ==
    ASSUME Typed, MatchBegin \/ SwitchBegin
    PROVE  Shape
<1>1. Running /\ Kind(Arg) = "obj" /\ Top.op # "render"
    BY DEF MatchBegin, SwitchBegin, Begun, Ready, Accepted, WellShaped
<1>2. MatchBegin \/ Top.op = "$switch"
    BY DEF SwitchBegin, Begun, Ready
<1>3. FramePart(template, Top, Len(stack)) => Part(template, Arg, Len(stack))
    BY <1>1, FieldCalls DEF Calls
<1>4. FramePart(template, Top, Len(stack)) => Part(template, NoKeys, Len(stack))
    <2> SUFFICES ASSUME Part(template, Arg, Len(stack)) PROVE Part(template, NoKeys, Len(stack))
        BY <1>3
    <2>1. \A n \in NoKeys : n[1] = <<>> /\ n[2] = <<"obj">>
        BY DEF NoKeys, Leaf
    <2>2. PICK n \in Arg : n[1] = <<>>
        BY <1>1, TopFields DEF Value
    <2> QED BY <2>1, <2>2 DEF Part
<1>5. SameActivation(Loop(Arg, NoElems)) /\ Loop(Arg, NoElems).val = Arg
      /\ SameActivation(Loop(Arg, NoKeys)) /\ Loop(Arg, NoKeys).val = Arg
      /\ Loop(Arg, NoKeys).acc = NoKeys /\ Loop(Arg, NoElems).op = Top.op
    BY <1>1, TopGood DEF Loop, SameActivation, Good, FrameType
<1>6. Resumes(Loop(Arg, NoKeys)) /\ (Top.op # "$switch" => Resumes(Loop(Arg, NoElems)))
    BY <1>3, <1>4, <1>5 DEF Resumes, FramePart, SameActivation
<1>7. \/ Top.op # "$switch" /\ Goto(Loop(Arg, NoElems))
      \/ Goto(Loop(Arg, NoKeys))
    BY DEF MatchBegin, SwitchBegin, Begun, Ready
<1> QED BY <1>6, <1>7, GotoShape

(* What the loop knows of its object. *)
LEMMA LoopPart ==
    ASSUME Typed, Running, Top.pc = "each", Top.op \in {"$match", "$switch"}
    PROVE  /\ \A k \in Keys(Top.val) : Calls(Field(Top.val, k), Top.ctx)
           /\ FramePart(template, Top, Len(stack)) => Part(template, Top.val, Len(stack))
BY TopFields, KeyStep, BranchCalls DEF FramePart, Field

LEMMA MatchConditionShape ==
    ASSUME Typed, MatchCondition
    PROVE  Shape
<1>1. Running /\ Top.op = "$match" /\ Top.pc = "each"
    BY DEF MatchCondition, Ready
<1>2. PICK k \in Keys(Top.val) :
          \/ Call(Advance(Key(k)), Field(Top.val, k), Top.ctx)
          \/ Goto(Advance(Key(k))) \/ \E o : Failing(o)
    BY DEF MatchCondition
<1> QED BY <1>1, <1>2, AdvanceResumes, LoopPart, CallShape, GotoShape, FailingShape

LEMMA SwitchConditionShape ==
    ASSUME Typed, SwitchCondition
    PROVE  Shape
<1>1. Running /\ Top.op = "$switch" /\ Top.pc = "each"
    BY DEF SwitchCondition, Ready
<1>2. PICK k \in Keys(Top.val) :
          \/ Goto(Advance(Key(k))) \/ Raise \/ \E o : Failing(o)
          \/ /\ Top.acc = NoKeys
             /\ Goto([Advance(Key(k)) EXCEPT !.acc = Insert(@, k, Field(Top.val, k))])
    BY DEF SwitchCondition
<1> DEFINE branch == Insert(NoKeys, k, Field(Top.val, k))
           f == [Advance(Key(k)) EXCEPT !.acc = branch]
<1>3. FramePart(template, Top, Len(stack)) => Part(template, branch, Len(stack))
    BY <1>1, TopFields, LoopPart, StackLength, BranchPart DEF Typed
<1>4. Top.acc = NoKeys =>
          [Advance(Key(k)) EXCEPT !.acc = Insert(@, k, Field(Top.val, k))] = f
    BY <1>1, TopGood DEF Advance, Good, FrameType
<1> HIDE DEF branch
<1>5. SameActivation(f) /\ f.val = Top.val /\ f.acc = branch /\ f.op = Top.op
    BY <1>1, TopGood DEF Advance, SameActivation, Good, FrameType
<1>6. Resumes(f)
    BY <1>1, <1>3, <1>5, LoopPart DEF Resumes, FramePart, SameActivation
<1> QED BY <1>1, <1>2, <1>4, <1>6, AdvanceResumes, GotoShape, RaiseShape, FailingShape

LEMMA SwitchDoneShape ==
    ASSUME Typed, SwitchDefault \/ SwitchDone
    PROVE  Shape
<1>1. Running /\ Top.op = "$switch" /\ Top.pc = "each"
    BY DEF SwitchDefault, SwitchDone, Ready
<1>2. \/ Goto(Advance(Key("$default"))) \/ Return(Marker)
      \/ \E e \in Steps(Top.acc) : Call(Inherit("pass"), Child(Top.acc, e), Top.ctx)
      \/ /\ Key("$default") \in Steps(Top.val)
         /\ Call(Inherit("pass"), Child(Top.val, Key("$default")), Top.ctx)
    BY DEF SwitchDefault, SwitchDone, Has, Field
<1>3. /\ FramePart(template, Top, Len(stack)) => Part(template, Top.val, Len(stack))
      /\ FramePart(template, Top, Len(stack)) => Part(template, Top.acc, Len(stack))
    BY <1>1 DEF FramePart
<1>4. /\ \A e \in Steps(Top.acc) : Calls(Child(Top.acc, e), Top.ctx)
      /\ \A e \in Steps(Top.val) : Calls(Child(Top.val, e), Top.ctx)
    BY <1>1, <1>3, TopFields, BranchCalls
<1> QED BY <1>1, <1>2, <1>4, InheritResumes, AdvanceResumes, CallShape, GotoShape, ReturnShape

(* Every action but Start and those of the process is a step of a running  *)
(* render.                                                                 *)
LEMMA ActionRuns ==
    ASSUME Propagate \/ Plain \/ Reject \/ RenderArgument \/ RejectArgument \/ Pass
           \/ Simple \/ Folds \/ Loops
    PROVE  Running
<1>1. CASE Plain
    BY <1>1 DEF Plain, Scalar, String, Unreachable, Array, ArrayElement, ArrayKeep, Object,
       KeyFails, Operator, Reserved, ObjectMember, ObjectInsert, LoopDone, Ready, Resumed
<1>2. CASE Simple
    BY <1>2 DEF Simple, Eval, If, Json, LetBody, FromNowFrom, FromNowDefault,
       FromNowReference, FromNowResult, Argument, Begun, Ready, Resumed
<1>3. CASE Folds
    BY <1>3 DEF Folds, FoldBegin, FlattenItem, MergeItem, FlattenDeepResult, ReverseResult,
       SortPlain, SortBy, SortKey, SortDone, Argument, Ready, Resumed
<1>4. CASE Loops
    BY <1>4 DEF Loops, LoopBegin, MapElement, MapMember, MapKeep, ReduceBegin, ReduceItem,
       ReduceKeep, FindItem, FindNone, MatchBegin, MatchCondition, MatchKeep, SwitchBegin,
       SwitchCondition, SwitchDefault, SwitchDone, Argument, Begun, Ready, Resumed
<1>5. CASE Propagate \/ Reject \/ RenderArgument \/ RejectArgument \/ Pass
    BY <1>5 DEF Propagate, Reject, RenderArgument, RejectArgument, Pass, Begun, Ready, Resumed
<1> QED BY <1>1, <1>2, <1>3, <1>4, <1>5

LEMMA StepShape ==
    ASSUME Typed, [Next]_vars
    PROVE  \/ Start
           \/ stack' = stack /\ template' = template /\ status' \in { status, "done", "failed" }
           \/ Running /\ Shape
<1>1. CASE Finish \/ Tick \/ UseTestNow \/ Ended \/ UNCHANGED vars
    BY <1>1 DEF Finish, Tick, UseTestNow, Ended, vars, env
<1>2. CASE Plain
    BY <1>2, ActionRuns, LeavesShape, ContainerShape, ElementShape, KeepShape, OperatorShape,
       ObjectInsertShape DEF Plain
<1>3. CASE Propagate \/ Reject \/ RenderArgument \/ RejectArgument \/ Pass
    BY <1>3, ActionRuns, PropagateShape, LeavesShape, ArgumentShape
<1>4. CASE Simple
    BY <1>4, ActionRuns, LeavesShape, ArgumentShape, ReferenceShape, BodyShape DEF Simple
<1>5. CASE Folds
    BY <1>5, ActionRuns, ResultsShape, LoopBeginShape, LoopItemShape DEF Folds
<1>6. CASE Loops
    BY <1>6, ActionRuns, LeavesShape, KeepShape, LoopBeginShape, EachShape, FindItemShape,
       BranchesBeginShape, MatchConditionShape, SwitchConditionShape, SwitchDoneShape DEF Loops
<1> QED BY <1>1, <1>2, <1>3, <1>4, <1>5, <1>6 DEF Next, Render

-----------------------------------------------------------------------------
(* What such a step does to the frames. *)

LEMMA StackChanges ==
    ASSUME Typed, Running, NEW f, NEW g
    PROVE  /\ stack' = Rest =>
                 DOMAIN stack' = 1..(Len(stack) - 1) /\ \A i \in DOMAIN stack' : stack'[i] = stack[i]
           /\ stack' = Append(Rest, f) =>
                 /\ DOMAIN stack' = 1..Len(stack)
                 /\ \A i \in 1..(Len(stack) - 1) : stack'[i] = stack[i]
                 /\ stack'[Len(stack)] = f
           /\ stack' = Rest \o << f, g >> =>
                 /\ DOMAIN stack' = 1..(Len(stack) + 1)
                 /\ \A i \in 1..(Len(stack) - 1) : stack'[i] = stack[i]
                 /\ stack'[Len(stack)] = f /\ stack'[Len(stack) + 1] = g
<1>1. stack \in Seq(Good) /\ stack # <<>>
    BY DEF Typed, Running
<1>2. /\ Rest \in Seq(Good) /\ Len(stack) \in Nat /\ Len(Rest) = Len(stack) - 1
      /\ \A i \in 1..(Len(stack) - 1) : Rest[i] = stack[i]
    BY <1>1, FrontOf DEF Rest
<1>3. DOMAIN Rest = 1..(Len(stack) - 1)
    BY <1>2
<1>4. CASE stack' = Rest
    BY <1>2, <1>3, <1>4
<1>5. CASE stack' = Append(Rest, f)
    BY <1>2, <1>5, Extended
<1>6. CASE stack' = Rest \o << f, g >>
    BY <1>2, <1>6, Extended
<1> QED BY <1>4, <1>5, <1>6

(* Top is the last frame, and has its place in the stack. *)
LEMMA TopPlace ==
    ASSUME Typed, Running
    PROVE  /\ Len(stack) \in DOMAIN stack /\ Top = stack[Len(stack)]
           /\ DOMAIN stack = 1..Len(stack) /\ Len(stack) \in Nat
BY DEF Typed, Running, Top

-----------------------------------------------------------------------------
(* Only JSON is rendered, and no deeper than the template. *)

LEMMA PartsInit == Init => Parts
BY InputAssumption DEF Init, Parts

LEMMA StartParts ==
    ASSUME Typed, Parts, Start
    PROVE  Parts'
<1>1. template' = template
    BY DEF Start, env
<1>2. CASE stack' = stack
    <2>1. stack = <<>>' \/ stack' = stack
        BY <1>2
    <2> QED BY <1>1, <1>2 DEF Parts, Uses
<1>3. CASE \E ctx : stack' = << Frame(template, ctx) >>
    <2> SUFFICES ASSUME ~Uses("$find")
                 PROVE  \A i \in DOMAIN stack' : FramePart(template, stack'[i], i)
        BY <1>1 DEF Parts, Uses
    <2>1. PICK ctx : stack' = << Frame(template, ctx) >>
        BY <1>3
    <2>2. Part(template, template, 0)
        BY TemplatePart DEF Parts, Typed
    <2>3. FramePart(template, Frame(template, ctx), 1)
        BY <2>2 DEF FramePart, Frame
    <2>4. DOMAIN stack' = {1} /\ stack'[1] = Frame(template, ctx)
        <3> HIDE DEF Frame
        <3> QED BY <2>1
    <2> QED BY <2>3, <2>4
<1> QED BY <1>2, <1>3 DEF Start

LEMMA ShapeParts ==
    ASSUME Typed, Parts, Running, Shape
    PROVE  Parts'
<1>1. template' = template
    BY DEF Shape
<1> SUFFICES ASSUME ~Uses("$find")
             PROVE  \A i \in DOMAIN stack' : FramePart(template, stack'[i], i)
    BY <1>1 DEF Parts, Uses
<1> DEFINE n == Len(stack)
<1>2. \A i \in DOMAIN stack : FramePart(template, stack[i], i)
    BY DEF Parts
<1>3. DOMAIN stack = 1..n /\ n \in Nat /\ FramePart(template, Top, n)
    BY <1>2, TopPlace
<1>4. CASE stack' = stack
    BY <1>2, <1>4
<1>5. CASE stack' = Rest
    <2>1. DOMAIN stack' = 1..(n - 1) /\ \A i \in DOMAIN stack' : stack'[i] = stack[i]
        BY <1>5, StackChanges
    <2> QED BY <1>2, <1>3, <2>1
<1>6. CASE \E f : Resumes(f) /\ stack' = Append(Rest, f)
    <2>1. PICK f : Resumes(f) /\ stack' = Append(Rest, f)
        BY <1>6
    <2>2. FramePart(template, f, n)
        BY <1>3, <2>1 DEF Resumes
    <2>3. /\ DOMAIN stack' = 1..n /\ stack'[n] = f
          /\ \A i \in 1..(n - 1) : stack'[i] = stack[i]
        BY <2>1, StackChanges
    <2>4. \A i \in 1..n : i = n \/ (i \in 1..(n - 1) /\ FramePart(template, stack[i], i))
        BY <1>2, <1>3, LastOrBefore
    <2> HIDE DEF n
    <2> QED BY <2>2, <2>3, <2>4
<1>7. CASE \E f, tpl, ctx :
              Resumes(f) /\ Calls(tpl, ctx) /\ stack' = Rest \o << f, Frame(tpl, ctx) >>
    <2>1. PICK f, tpl, ctx :
              Resumes(f) /\ Calls(tpl, ctx) /\ stack' = Rest \o << f, Frame(tpl, ctx) >>
        BY <1>7
    <2>2. FramePart(template, f, n)
        BY <1>3, <2>1 DEF Resumes
    <2>3. FramePart(template, Frame(tpl, ctx), n + 1)
        <3>1. Part(template, tpl, n) /\ (n + 1) - 1 = n
            BY <1>3, <2>1 DEF Calls
        <3> QED BY <3>1 DEF FramePart, Frame
    <2>4. /\ DOMAIN stack' = 1..(n + 1) /\ stack'[n] = f /\ stack'[n + 1] = Frame(tpl, ctx)
          /\ \A i \in 1..(n - 1) : stack'[i] = stack[i]
        BY <2>1, StackChanges
    <2>5. \A i \in 1..(n + 1) :
              i = n + 1 \/ i = n \/ (i \in 1..(n - 1) /\ FramePart(template, stack[i], i))
        BY <1>2, <1>3, LastOrBefore
    <2> HIDE DEF n
    <2> QED BY <2>2, <2>3, <2>4, <2>5
<1> QED BY <1>4, <1>5, <1>6, <1>7 DEF Shape

LEMMA PartsStep ==
    ASSUME Typed, Parts, [Next]_vars
    PROVE  Parts'
<1>1. CASE stack' = stack /\ template' = template
    BY <1>1 DEF Parts, Uses
<1> QED BY <1>1, StepShape, StartParts, ShapeParts

LEMMA PartsJson == Typed /\ Parts => OnlyJsonRendered
BY DEF Parts, FramePart, Part, OnlyJsonRendered, IsJson

LEMMA PartsDepth == Typed /\ Parts => StackBounded
<1> SUFFICES ASSUME Typed, Parts, ~Uses("$find"), NEW i \in DOMAIN stack
             PROVE  \E n \in template : i <= Len(n[1]) + 1
    BY DEF StackBounded
<1>1. stack \in Seq(Good) /\ stack[i] \in Good /\ i \in Nat
    BY DEF Typed
<1>2. stack[i].tpl \in Value
    BY <1>1 DEF Good, FrameType
<1>3. PICK n \in stack[i].tpl : n[1] = <<>>
    BY <1>2 DEF Value
<1>4. PICK m \in template : Len(<<>>) + (i - 1) <= Len(m[1])
    BY <1>3 DEF Parts, FramePart, Part
<1>5. Len(m[1]) \in Nat /\ Len(<<>>) = 0
    BY NodeType DEF Typed, Path
<1>6. i <= Len(m[1]) + 1
    BY <1>1, <1>4, <1>5
<1> QED BY <1>6

(* Without $find the match in _render never meets a marker or a function,  *)
(* whatever evaluation, the context and the data produce: unreachable!()   *)
(* is unreachable.                                                         *)
THEOREM JsonOnly ==
    ASSUME Contract(Seq(Value), Value)
    PROVE  Spec => []OnlyJsonRendered
<1>1. Init => Typed /\ Parts
    BY InitTyped, PartsInit
<1>2. Typed /\ Parts /\ [Next]_vars => Typed' /\ Parts'
    BY StepTyped, PartsStep
<1>3. Typed /\ Parts => OnlyJsonRendered
    BY PartsJson
<1> QED BY <1>1, <1>2, <1>3, PTL DEF Spec

(* Without $find the recursion of _render is no deeper than the template,  *)
(* so a template that fits the thread's stack once fits it with any data.  *)
THEOREM DepthBounded ==
    ASSUME Contract(Seq(Value), Value)
    PROVE  Spec => []StackBounded
<1>1. Init => Typed /\ Parts
    BY InitTyped, PartsInit
<1>2. Typed /\ Parts /\ [Next]_vars => Typed' /\ Parts'
    BY StepTyped, PartsStep
<1>3. Typed /\ Parts => StackBounded
    BY PartsDepth
<1> QED BY <1>1, <1>2, <1>3, PTL DEF Spec

-----------------------------------------------------------------------------
(* How scopes nest, and what stays fixed while an activation is alive. *)

(* A render that has not started has no frames. *)
Unstarted == status = "ready" => stack = <<>>

LEMMA UnstartedStep ==
    ASSUME Typed, Unstarted, [Next]_vars
    PROVE  Unstarted'
<1>1. CASE Start
    BY <1>1 DEF Start, Unstarted
<1>2. CASE Running /\ Shape
    BY <1>2 DEF Running, Shape, Unstarted
<1>3. CASE stack' = stack /\ status' \in { status, "done", "failed" }
    BY <1>3 DEF Unstarted
<1> QED BY <1>1, <1>2, <1>3, StepShape

LEMMA AppendScope ==
    ASSUME NEW d \in Seq(Value), NEW scope
    PROVE  /\ Len(Append(d, scope)) = Len(d) + 1
           /\ SubSeq(Append(d, scope), 1, Len(d)) = d
<1> DEFINE S == Value \cup {scope}
<1>1. d \in Seq(S)
    BY SeqMonotonic
<1>2. Append(d, scope) = d \o << scope >> /\ << scope >> \in Seq(S)
    BY <1>1, AppendIsConcat
<1>3. SubSeq(d, 1, Len(d)) = d
    BY <1>1, SubSeqFull
<1>4. SubSeq(Append(d, scope), 1, Len(d)) \in Seq(S)
      /\ Len(SubSeq(Append(d, scope), 1, Len(d))) = Len(d)
      /\ \A i \in 1..Len(d) : SubSeq(Append(d, scope), 1, Len(d))[i] = d[i]
    BY <1>1
<1> HIDE DEF S
<1>5. SubSeq(Append(d, scope), 1, Len(d)) = d
    BY <1>1, <1>4, SeqEqual
<1> QED BY <1>1, <1>5

LEMMA StartScopes ==
    ASSUME Typed, ScopesNest, Start
    PROVE  ScopesNest'
<1>1. CASE stack' = stack
    BY <1>1 DEF ScopesNest
<1>2. CASE \E a, b, c : stack' = << Frame(template, << a, b, c >>) >>
    <2>1. PICK a, b, c : stack' = << Frame(template, << a, b, c >>) >>
        BY <1>2
    <2>2. Len(Frame(template, << a, b, c >>).ctx) = 3
        BY DEF Frame
    <2>3. DOMAIN stack' = {1} /\ stack'[1] = Frame(template, << a, b, c >>)
        <3> HIDE DEF Frame
        <3> QED BY <2>1
    <2> QED BY <2>2, <2>3 DEF ScopesNest
<1> QED BY <1>1, <1>2 DEF Start

LEMMA ShapeScopes ==
    ASSUME Typed, ScopesNest, Running, Shape
    PROVE  ScopesNest'
<1> DEFINE n == Len(stack)
           Nests(s, i) ==
               IF i = 1 THEN Len(s[i].ctx) = 3
               ELSE \/ s[i].ctx = s[i - 1].ctx
                    \/ /\ Len(s[i].ctx) = Len(s[i - 1].ctx) + 1
                       /\ SubSeq(s[i].ctx, 1, Len(s[i - 1].ctx)) = s[i - 1].ctx
<1>1. \A i \in 1..n : Nests(stack, i)
    BY TopPlace DEF ScopesNest
<1>2. DOMAIN stack = 1..n /\ n \in Nat /\ n >= 1 /\ Top = stack[n]
    BY TopPlace
<1> SUFFICES \A i \in DOMAIN stack' : Nests(stack', i)
    BY DEF ScopesNest
<1> HIDE DEF n
<1>3. \A i \in 1..(n - 1) : i \in 1..n /\ (i # 1 => i - 1 \in 1..(n - 1))
    BY <1>2
<1>4. ASSUME \A i \in 1..(n - 1) : stack'[i] = stack[i]
      PROVE  \A i \in 1..(n - 1) : Nests(stack', i)
    BY <1>1, <1>3, <1>4
<1>5. ASSUME \A i \in 1..(n - 1) : stack'[i] = stack[i], stack'[n].ctx = Top.ctx
      PROVE  Nests(stack', n)
    <2>1. n # 1 => n - 1 \in 1..(n - 1)
        BY <1>2
    <2>2. Nests(stack, n)
        BY <1>1, <1>2
    <2> QED BY <1>2, <1>5, <2>1, <2>2
<1>6. CASE stack' = stack
    BY <1>1, <1>2, <1>6
<1>7. CASE stack' = Rest
    <2>1. DOMAIN stack' = 1..(n - 1) /\ \A i \in DOMAIN stack' : stack'[i] = stack[i]
        BY <1>7, StackChanges DEF n
    <2> QED BY <1>4, <2>1
<1>8. CASE \E f : Resumes(f) /\ stack' = Append(Rest, f)
    <2>1. PICK f : Resumes(f) /\ stack' = Append(Rest, f)
        BY <1>8
    <2>2. /\ DOMAIN stack' = 1..n /\ stack'[n] = f
          /\ \A i \in 1..(n - 1) : stack'[i] = stack[i]
        BY <2>1, StackChanges DEF n
    <2>3. Nests(stack', n)
        BY <1>5, <2>1, <2>2 DEF Resumes, SameActivation
    <2> QED BY <1>2, <1>4, <2>2, <2>3, LastOrBefore
<1>9. CASE \E f, tpl, ctx :
              Resumes(f) /\ Calls(tpl, ctx) /\ stack' = Rest \o << f, Frame(tpl, ctx) >>
    <2>1. PICK f, tpl, ctx :
              Resumes(f) /\ Calls(tpl, ctx) /\ stack' = Rest \o << f, Frame(tpl, ctx) >>
        BY <1>9
    <2>2. /\ DOMAIN stack' = 1..(n + 1) /\ stack'[n] = f /\ stack'[n + 1] = Frame(tpl, ctx)
          /\ \A i \in 1..(n - 1) : stack'[i] = stack[i]
        BY <2>1, StackChanges DEF n
    <2>3. stack'[n].ctx = Top.ctx /\ stack'[n + 1].ctx = ctx
        <3>1. Frame(tpl, ctx).ctx = ctx
            BY DEF Frame
        <3>2. f.ctx = Top.ctx
            BY <2>1 DEF Resumes, SameActivation
        <3> QED BY <2>2, <3>1, <3>2
    <2>4. Nests(stack', n)
        BY <1>5, <2>2, <2>3
    <2>5. n + 1 # 1 /\ (n + 1) - 1 = n
        BY <1>2
    <2>6. \/ ctx = Top.ctx
          \/ Len(ctx) = Len(Top.ctx) + 1 /\ SubSeq(ctx, 1, Len(Top.ctx)) = Top.ctx
        BY <2>1, TopFields, AppendScope DEF Calls
    <2>7. Nests(stack', n + 1)
        BY <2>3, <2>5, <2>6
    <2> QED BY <1>2, <1>4, <2>2, <2>4, <2>7, LastOrBefore
<1> QED BY <1>6, <1>7, <1>8, <1>9 DEF Shape

LEMMA ScopesStep ==
    ASSUME Typed, ScopesNest, [Next]_vars
    PROVE  ScopesNest'
<1>1. CASE stack' = stack
    BY <1>1 DEF ScopesNest
<1> QED BY <1>1, StepShape, StartScopes, ShapeScopes

(* No live activation changes its template or its scopes in a step. *)
Fixed == \A i \in DOMAIN stack \cap DOMAIN stack' :
             stack'[i].tpl = stack[i].tpl /\ stack'[i].ctx = stack[i].ctx

LEMMA ShapeFixed ==
    ASSUME Typed, Running, Shape
    PROVE  Fixed
<1> DEFINE n == Len(stack)
<1>1. DOMAIN stack = 1..n /\ n \in Nat /\ Top = stack[n]
    BY TopPlace
<1>2. CASE stack' \in { stack, Rest }
    <2>1. stack' = Rest => \A i \in DOMAIN stack' : stack'[i] = stack[i]
        BY StackChanges
    <2> QED BY <1>2, <2>1 DEF Fixed
<1>3. CASE \E f : SameActivation(f) /\ stack'[n] = f /\ \A i \in 1..(n - 1) : stack'[i] = stack[i]
    <2> HIDE DEF n
    <2> QED BY <1>1, <1>3, LastOrBefore DEF Fixed, SameActivation
<1> QED BY <1>2, <1>3, StackChanges DEF Shape, Resumes

LEMMA FixedStep ==
    ASSUME Typed, Unstarted, [Next]_vars
    PROVE  Fixed
<1>1. CASE Start
    BY <1>1 DEF Start, Unstarted, Fixed
<1>2. CASE stack' = stack
    BY <1>2 DEF Fixed
<1> QED BY <1>1, <1>2, StepShape, ShapeFixed

(* A callee sees its caller's scopes and at most one more: no handler      *)
(* drops, reorders or rewrites a scope on the way down.                    *)
THEOREM ScopesNested ==
    ASSUME Contract(Seq(Value), Value)
    PROVE  Spec => []ScopesNest
<1>1. Init => Typed /\ ScopesNest
    <2>1. Init => ScopesNest
        BY DEF Init, ScopesNest
    <2> QED BY <2>1, InitTyped
<1>2. Typed /\ ScopesNest /\ [Next]_vars => Typed' /\ ScopesNest'
    BY StepTyped, ScopesStep
<1> QED BY <1>1, <1>2, PTL DEF Spec

(* What an activation renders and in which scopes never changes while it   *)
(* is alive, so no binding made for a callee is seen by its caller.        *)
THEOREM ActivationsStay ==
    ASSUME Contract(Seq(Value), Value)
    PROVE  Spec => ActivationsFixed
<1>1. Init => Typed /\ Unstarted
    <2>1. Init => Unstarted
        BY DEF Init, Unstarted
    <2> QED BY <2>1, InitTyped
<1>2. Typed /\ Unstarted /\ [Next]_vars => Typed' /\ Unstarted'
    BY StepTyped, UnstartedStep
<1>3. Typed /\ Unstarted /\ [Next]_vars => [Fixed]_vars
    BY FixedStep
<1> QED BY <1>1, <1>2, <1>3, PTL DEF Spec, ActivationsFixed, Fixed

-----------------------------------------------------------------------------
(* A handler never goes back.  The steps again, by how they leave the      *)
(* frame of the handler that takes them.                                   *)

(* It takes what its callee returned. *)
Takes(f) == ret.st = "ok" /\ \E acc : f = [Top EXCEPT !.acc = acc]
Advances ==
    \/ status' # status
    \/ stack' = Rest
    \/ \E f : (GoesOn(Top, f) \/ Takes(f)) /\ stack' = Append(Rest, f) /\ ret' = Idle
    \/ \E f, g : GoesOn(Top, f) /\ stack' = Rest \o << f, g >>

LEMMA GotoAdvances ==
    ASSUME NEW f, GoesOn(Top, f) \/ Takes(f), Goto(f)
    PROVE  Advances
BY DEF Goto, Advances

LEMMA CallAdvances ==
    ASSUME Running, NEW f, NEW tpl, NEW ctx, GoesOn(Top, f), Call(f, tpl, ctx)
    PROVE  Advances
BY DEF Call, Advances, Running

LEMMA LeaveAdvances ==
    /\ \A v : Return(v) => Advances
    /\ Raise => Advances
    /\ Running /\ Abort => Advances
    /\ \A o : Running /\ Failing(o) => Advances
BY DEF Return, Raise, Abort, Failing, Advances, Running

LEMMA PhaseGoesOn ==
    ASSUME NEW f, NEW pc \in PCs, f.pc = pc, Phase(Top.pc) < Phase(pc)
    PROVE  GoesOn(Top, f)
BY DEF GoesOn

LEMMA InheritGoesOn ==
    ASSUME Typed, Running, NEW pc \in PCs, Phase(Top.pc) < Phase(pc)
    PROVE  GoesOn(Top, Inherit(pc)) /\ \A v : GoesOn(Top, [Inherit(pc) EXCEPT !.val = v])
<1>1. Inherit(pc).pc = pc /\ \A v : [Inherit(pc) EXCEPT !.val = v].pc = pc
    BY TopGood DEF Inherit, Good, FrameType
<1> QED BY <1>1, PhaseGoesOn

LEMMA LoopGoesOn ==
    ASSUME Typed, Running, NEW val, NEW acc, Top.pc \in { "start", "value" }
    PROVE  GoesOn(Top, Loop(val, acc))
<1>1. Loop(val, acc).pc = "each" /\ "each" \in PCs
    BY TopGood DEF Loop, Good, FrameType, PCs
<1>2. Phase(Top.pc) < Phase("each")
    BY DEF Phase
<1> QED BY <1>1, <1>2, PhaseGoesOn

LEMMA AdvanceGoesOn ==
    ASSUME Typed, Running, NEW e, First(e, Top.todo)
    PROVE  GoesOn(Top, Advance(e)) /\ \A acc : GoesOn(Top, [Advance(e) EXCEPT !.acc = acc])
<1>1. e \in Top.todo
    BY DEF First
<1>2. \A f : f.pc = Top.pc /\ f.op = Top.op /\ f.todo = Top.todo \ {e} => GoesOn(Top, f)
    BY <1>1 DEF GoesOn
<1>3. /\ Advance(e).pc = Top.pc /\ Advance(e).op = Top.op /\ Advance(e).todo = Top.todo \ {e}
      /\ \A acc : LET f == [Advance(e) EXCEPT !.acc = acc]
                 IN  f.pc = Top.pc /\ f.op = Top.op /\ f.todo = Top.todo \ {e}
    BY TopGood DEF Advance, Good, FrameType
<1> QED BY <1>2, <1>3

LEMMA TakesAll ==
    ASSUME Typed, Running, ret.st = "ok"
    PROVE  Takes(Top) /\ \A acc : Takes([Top EXCEPT !.acc = acc])
<1>1. Top = [Top EXCEPT !.acc = Top.acc]
    BY TopGood DEF Good, FrameType
<1> QED BY <1>1 DEF Takes

LEMMA LeavesAdvance ==
    ASSUME Propagate \/ Scalar \/ String \/ Unreachable \/ KeyFails \/ Reserved \/ LoopDone \/ Reject
           \/ RejectArgument \/ Pass \/ Eval \/ Json \/ FromNowResult \/ FindNone
           \/ FlattenDeepResult \/ ReverseResult \/ SortPlain \/ SortDone
    PROVE  Advances
<1>1. Running
    BY ActionRuns DEF Plain, Simple, Folds, Loops
<1>2. CASE Propagate
    BY <1>2 DEF Propagate, Advances
<1>3. \/ \E v : Return(v)
      \/ Raise \/ Abort \/ (\E o : Failing(o)) \/ Propagate
    BY DEF Scalar, String, Unreachable, KeyFails, Reserved, LoopDone, Reject, RejectArgument,
           Pass, Eval, Json, FromNowResult, FindNone, FlattenDeepResult, ReverseResult,
           SortPlain, SortDone, SortResult
<1> QED BY <1>1, <1>2, <1>3, LeaveAdvances

LEMMA ContainerAdvances ==
    ASSUME Typed, Array \/ Object
    PROVE  Advances
<1>1. Running /\ Top.pc = "enter"
    BY DEF Array, Object, Ready
<1> DEFINE a == [Top EXCEPT !.pc = "elems", !.todo = Steps(Top.tpl), !.acc = NoElems]
           b == [Top EXCEPT !.pc = "fields", !.todo = Steps(Top.tpl), !.acc = NoKeys]
<1>2. a.pc = "elems" /\ b.pc = "fields"
    BY <1>1, TopGood DEF Good, FrameType
<1>3. Goto(a) \/ Goto(b)
    BY DEF Array, Object
<1> HIDE DEF a, b
<1>4. GoesOn(Top, a) /\ GoesOn(Top, b)
    BY <1>1, <1>2 DEF GoesOn, Phase
<1> QED BY <1>3, <1>4, GotoAdvances

LEMMA OperatorAdvances ==
    ASSUME Typed, Operator
    PROVE  Advances
<1>1. Running /\ Top.pc = "enter"
    BY DEF Operator, Ready
<1>2. PICK k : Goto([Top EXCEPT !.op = k, !.pc = "start"])
    BY DEF Operator
<1>3. [Top EXCEPT !.op = k, !.pc = "start"].pc = "start"
    BY <1>1, TopGood DEF Good, FrameType
<1>4. GoesOn(Top, [Top EXCEPT !.op = k, !.pc = "start"])
    BY <1>1, <1>3 DEF GoesOn, Phase
<1> QED BY <1>2, <1>4, GotoAdvances

LEMMA ElementAdvances ==
    ASSUME Typed, ArrayElement \/ ObjectMember \/ MapElement \/ MapMember \/ ReduceItem
    PROVE  Advances
<1>1. Running
    BY DEF ArrayElement, ObjectMember, MapElement, MapMember, ReduceItem, Ready
<1>2. PICK e, tpl, ctx : First(e, Top.todo) /\ Call(Advance(e), tpl, ctx)
    BY DEF ArrayElement, ObjectMember, MapElement, MapMember, ReduceItem
<1> QED BY <1>1, <1>2, AdvanceGoesOn, CallAdvances

LEMMA KeepAdvances ==
    ASSUME Typed, ArrayKeep \/ ObjectInsert \/ MapKeep \/ ReduceKeep \/ MatchKeep
    PROVE  Advances
<1>1. Running /\ ret.st = "ok"
    BY DEF ArrayKeep, ObjectInsert, MapKeep, ReduceKeep, MatchKeep, Resumed
<1>2. \/ \E acc : Goto([Top EXCEPT !.acc = acc])
      \/ Goto(Top) \/ Raise \/ \E o : Failing(o)
    BY DEF ArrayKeep, ObjectInsert, MapKeep, ReduceKeep, MatchKeep
<1> QED BY <1>1, <1>2, TakesAll, GotoAdvances, LeaveAdvances

LEMMA ArgumentAdvances ==
    ASSUME Typed, RenderArgument \/ FromNowFrom \/ FromNowDefault \/ FromNowReference
    PROVE  Advances
<1>1. Running /\ Top.pc \in { "start", "from" }
    BY DEF RenderArgument, FromNowFrom, FromNowDefault, FromNowReference, Begun, Ready, Resumed
<1>2. \/ Call(Inherit("value"), Arg, Top.ctx)
      \/ Top.pc = "start" /\ Call(Inherit("from"), Field(Top.tpl, "from"), Top.ctx)
      \/ \E v : Call([Inherit("value") EXCEPT !.val = v], Arg, Top.ctx)
      \/ Raise
    BY DEF RenderArgument, FromNowFrom, FromNowDefault, FromNowReference, Begun, Ready
<1>3. /\ Phase(Top.pc) < Phase("value") /\ (Top.pc = "start" => Phase(Top.pc) < Phase("from"))
      /\ "value" \in PCs /\ "from" \in PCs
    BY <1>1 DEF Phase, PCs
<1> QED BY <1>1, <1>2, <1>3, InheritGoesOn, CallAdvances, LeaveAdvances

LEMMA BodyAdvances ==
    ASSUME Typed, If \/ LetBody
    PROVE  Advances
<1>1. Running /\ Top.pc \in { "start", "value" }
    BY DEF If, LetBody, Begun, Ready, Argument, Resumed
<1>2. \/ \E tpl, ctx : Call(Inherit("pass"), tpl, ctx)
      \/ (\E o : Failing(o)) \/ Raise \/ Return(Marker)
    BY DEF If, LetBody
<1>3. Phase(Top.pc) < Phase("pass") /\ "pass" \in PCs
    BY <1>1 DEF Phase, PCs
<1> QED BY <1>1, <1>2, <1>3, InheritGoesOn, CallAdvances, LeaveAdvances

LEMMA LoopBeginAdvances ==
    ASSUME Typed, FoldBegin \/ SortBy \/ LoopBegin \/ ReduceBegin \/ MatchBegin \/ SwitchBegin
    PROVE  Advances
<1>1. Running /\ Top.pc \in { "start", "value" }
    BY DEF FoldBegin, SortBy, LoopBegin, ReduceBegin, MatchBegin, SwitchBegin, Begun, Ready,
           Argument, Resumed
<1>2. (\E val, acc : Goto(Loop(val, acc))) \/ Raise \/ Abort
    BY DEF FoldBegin, SortBy, LoopBegin, ReduceBegin, MatchBegin, SwitchBegin
<1> QED BY <1>1, <1>2, LoopGoesOn, GotoAdvances, LeaveAdvances

LEMMA LoopItemAdvances ==
    ASSUME Typed, FlattenItem \/ MergeItem \/ SortKey \/ FindItem \/ MatchCondition
                  \/ SwitchCondition \/ SwitchDefault
    PROVE  Advances
<1>1. Running /\ Top.pc = "each"
    BY DEF FlattenItem, MergeItem, SortKey, FindItem, MatchCondition, SwitchCondition,
           SwitchDefault, Ready
<1>2. PICK e :
          /\ First(e, Top.todo)
          /\ \/ Goto(Advance(e)) \/ \E acc : Goto([Advance(e) EXCEPT !.acc = acc])
             \/ \E tpl, ctx : Call(Advance(e), tpl, ctx) \/ Call(Inherit("pass"), tpl, ctx)
             \/ Raise \/ \E o : Failing(o)
    BY DEF FlattenItem, MergeItem, SortKey, FindItem, MatchCondition, SwitchCondition,
           SwitchDefault
<1>3. Phase(Top.pc) < Phase("pass") /\ "pass" \in PCs
    BY <1>1 DEF Phase, PCs
<1> QED BY <1>1, <1>2, <1>3, AdvanceGoesOn, InheritGoesOn, GotoAdvances, CallAdvances, LeaveAdvances

LEMMA SwitchDoneAdvances ==
    ASSUME Typed, SwitchDone
    PROVE  Advances
<1>1. Running /\ Top.pc = "each"
    BY DEF SwitchDone, Ready
<1>2. (\E tpl, ctx : Call(Inherit("pass"), tpl, ctx)) \/ Return(Marker)
    BY DEF SwitchDone
<1>3. Phase(Top.pc) < Phase("pass") /\ "pass" \in PCs
    BY <1>1 DEF Phase, PCs
<1> QED BY <1>1, <1>2, <1>3, InheritGoesOn, CallAdvances, LeaveAdvances

LEMMA StepAdvances ==
    ASSUME Typed, [Next]_vars
    PROVE  \/ Start
           \/ UNCHANGED << stack, ret, status >> \/ status' # status
           \/ Running /\ Advances
<1>1. CASE Finish \/ Tick \/ UseTestNow \/ Ended \/ UNCHANGED vars
    BY <1>1 DEF Finish, Tick, UseTestNow, Ended, vars
<1>2. CASE Plain
    BY <1>2, ActionRuns, LeavesAdvance, ContainerAdvances, OperatorAdvances,
       ElementAdvances, KeepAdvances DEF Plain
<1>3. CASE Propagate \/ Reject \/ RenderArgument \/ RejectArgument \/ Pass
    BY <1>3, ActionRuns, LeavesAdvance, ArgumentAdvances
<1>4. CASE Simple
    BY <1>4, ActionRuns, LeavesAdvance, ArgumentAdvances, BodyAdvances DEF Simple
<1>5. CASE Folds
    BY <1>5, ActionRuns, LeavesAdvance, LoopBeginAdvances, LoopItemAdvances DEF Folds
<1>6. CASE Loops
    BY <1>6, ActionRuns, LeavesAdvance, ElementAdvances, KeepAdvances, LoopBeginAdvances,
       LoopItemAdvances, SwitchDoneAdvances DEF Loops
<1> QED BY <1>1, <1>2, <1>3, <1>4, <1>5, <1>6 DEF Next, Render

(* What ActivationsAdvance says of a step. *)
Onward ==
    stack # <<>> /\ Len(stack) <= Len(stack') /\ status' = status =>
        \/ GoesOn(Top, stack'[Len(stack)])
        \/ /\ Len(stack') = Len(stack) /\ ret.st = "ok" /\ ret' = Idle
           /\ stack'[Len(stack)] = [Top EXCEPT !.acc = stack'[Len(stack)].acc]

LEMMA RunOnward ==
    ASSUME Typed, Typed', Running, Advances
    PROVE  Onward
<1> DEFINE n == Len(stack)
<1>1. n \in Nat /\ stack' \in Seq(Good) /\ Len(stack') \in Nat /\ DOMAIN stack' = 1..Len(stack')
    BY TopPlace DEF Typed
<1>2. CASE status' # status
    BY <1>2 DEF Onward
<1>3. CASE stack' = Rest
    <2>1. Len(Rest) = n - 1
        BY FrontOf DEF Typed, Running, Rest
    <2> QED BY <1>1, <1>3, <2>1 DEF Onward
<1>4. CASE \E f : (GoesOn(Top, f) \/ Takes(f)) /\ stack' = Append(Rest, f) /\ ret' = Idle
    <2>1. PICK f : (GoesOn(Top, f) \/ Takes(f)) /\ stack' = Append(Rest, f) /\ ret' = Idle
        BY <1>4
    <2>2. 1..Len(stack') = 1..n /\ stack'[n] = f
        BY <1>1, <2>1, StackChanges
    <2>3. Len(stack') = n
        <3> DEFINE m == Len(stack')
        <3>1. m \in Nat /\ n \in Nat /\ 1..m = 1..n
            BY <1>1, <2>2
        <3> HIDE DEF m, n
        <3>2. m = n
            BY <3>1
        <3> QED BY <3>2 DEF m
    <2>4. Takes(f) => ret.st = "ok" /\ f = [Top EXCEPT !.acc = f.acc]
        <3> SUFFICES ASSUME NEW acc, f = [Top EXCEPT !.acc = acc] PROVE f.acc = acc
            BY DEF Takes
        <3> QED BY TopGood DEF Good, FrameType
    <2> QED BY <2>1, <2>2, <2>3, <2>4 DEF Onward
<1>5. CASE \E f, g : GoesOn(Top, f) /\ stack' = Rest \o << f, g >>
    <2>1. PICK f, g : GoesOn(Top, f) /\ stack' = Rest \o << f, g >>
        BY <1>5
    <2>2. stack'[n] = f
        BY <2>1, StackChanges
    <2> QED BY <2>1, <2>2 DEF Onward
<1> QED BY <1>2, <1>3, <1>4, <1>5 DEF Advances

(* No activation of _render goes back: each loop visits less and less, and *)
(* each operator goes through its phases once.  With DepthBounded, a       *)
(* render without $find makes finitely many calls.                         *)
THEOREM ActivationsEnd ==
    ASSUME Contract(Seq(Value), Value)
    PROVE  Spec => ActivationsAdvance
<1>1. Init => Typed /\ Unstarted
    <2>1. Init => Unstarted
        BY DEF Init, Unstarted
    <2> QED BY <2>1, InitTyped
<1>2. Typed /\ Unstarted /\ [Next]_vars => Typed' /\ Unstarted'
    BY StepTyped, UnstartedStep
<1>3. Typed /\ Unstarted /\ [Next]_vars => [Onward]_<< stack, ret, status >>
    <2> SUFFICES ASSUME Typed, Unstarted, [Next]_vars
                 PROVE  Onward \/ UNCHANGED << stack, ret, status >>
        OBVIOUS
    <2>1. CASE Start
        BY <2>1 DEF Start, Unstarted, Onward
    <2>2. CASE status' # status
        BY <2>2 DEF Onward
    <2> QED BY <2>1, <2>2, <1>2, StepAdvances, RunOnward
<1> QED BY <1>1, <1>2, <1>3, PTL DEF Spec, ActivationsAdvance, Onward
=============================================================================
