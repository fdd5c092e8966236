---------------------------- MODULE RenderProofs ----------------------------
(***************************************************************************)
(* Type correctness of Render for every set of strings, every interpreter  *)
(* that keeps its Contract, every template, context and stack size.        *)
(***************************************************************************)
EXTENDS Render, ValueProofs

(* TypeOK is not inductive: a handler relies on what it checked before it  *)
(* made a call.  A frame is good if the operator it runs is a property of  *)
(* its template, $sort has checked that its key expression is a string,    *)
(* and $fromNow has checked its reference.                                 *)
Good ==
    { f \in FrameType :
          /\ f.op # "render" => f.op \in Keys(f.tpl)
          /\ f.op = "$sort" /\ f.pc = "each" =>
                 \A p \in Keys(f.tpl) \ {f.op} : Kind(Field(f.tpl, p)) = "str"
          /\ f.op = "$fromNow" /\ f.pc = "value" => Kind(f.val) = "str" }

Typed ==
    /\ template \in Value /\ context \in Value
    /\ status \in { "ready", "running", "done", "failed", "panicked", "overflowed" }
    /\ stack \in Seq(Good)
    /\ ret \in [st : {"none", "ok", "err"}, v : Value]
    /\ clock \in 0..MaxClock /\ testing \in BOOLEAN

-----------------------------------------------------------------------------
(* The stack, and what handlers do with their frame. *)

LEMMA TypedImplies == Typed => TypeOK
<1>1. Good \subseteq FrameType
    BY DEF Good
<1>2. Seq(Good) \subseteq Seq(FrameType)
    BY <1>1, SeqMonotonic
<1> QED BY <1>2 DEF Typed, TypeOK

LEMMA TopGood ==
    ASSUME Typed, Running
    PROVE  Top \in Good /\ Rest \in Seq(Good)
<1>1. stack \in Seq(Good) /\ stack # <<>>
    BY DEF Typed, Running
<1>2. Len(stack) \in Nat /\ Len(stack) >= 1
    BY <1>1
<1> QED BY <1>1, <1>2 DEF Top, Rest

LEMMA TopFields ==
    ASSUME Typed, Running
    PROVE  /\ Top.op \in Operators \cup {"render"} /\ Top.pc \in PCs
           /\ Top.tpl \in Value /\ Top.ctx \in Seq(Value)
           /\ Top.todo \subseteq Step /\ Top.at \in Step
           /\ Top.val \in Value /\ Top.acc \in Value
           /\ Top.op # "render" => Top.op \in Keys(Top.tpl) /\ Arg \in Value
           /\ \A p \in Others : Field(Top.tpl, p) \in Value /\ p \in Str
<1>1. Top \in FrameType /\ (Top.op # "render" => Top.op \in Keys(Top.tpl))
    BY TopGood DEF Good
<1>2. Top.tpl \in Value
    BY <1>1 DEF FrameType
<1>3. \A k \in Keys(Top.tpl) : Field(Top.tpl, k) \in Value /\ k \in Str
    BY <1>2, FieldType, KeyStep
<1> QED BY <1>1, <1>3 DEF FrameType, Arg, Others

LEMMA FrameGood ==
    ASSUME NEW tpl \in Value, NEW ctx \in Seq(Value)
    PROVE  Frame(tpl, ctx) \in Good
BY StepTypes, ConstantsType DEF Frame, Good, FrameType, PCs

LEMMA GotoTyped ==
    ASSUME Typed, Running, NEW f \in Good, Goto(f)
    PROVE  Typed'
<1>1. Append(Rest, f) \in Seq(Good)
    BY TopGood
<1> QED BY <1>1, ConstantsType DEF Goto, Typed, Idle, env

LEMMA CallTyped ==
    ASSUME Typed, Running, NEW f \in Good, NEW tpl \in Value, NEW ctx \in Seq(Value),
           Call(f, tpl, ctx)
    PROVE  Typed'
<1>1. << f, Frame(tpl, ctx) >> \in Seq(Good)
    BY FrameGood
<1>2. Rest \o << f, Frame(tpl, ctx) >> \in Seq(Good)
    BY <1>1, TopGood, ConcatProperties
<1>3. CASE Len(stack) < MaxDepth
    <2>1. stack' = Rest \o << f, Frame(tpl, ctx) >> /\ ret' = Idle /\ UNCHANGED << status, env >>
        BY <1>3, RenderAssumption DEF Call
    <2> QED BY <1>2, <2>1, ConstantsType DEF Typed, Idle, env
<1>4. CASE ~(Len(stack) < MaxDepth)
    <2>1. status' = "overflowed" /\ UNCHANGED << stack, ret, env >>
        BY <1>4 DEF Call
    <2> QED BY <2>1 DEF Typed, env
<1> QED BY <1>3, <1>4

LEMMA ReturnTyped ==
    ASSUME Typed, Running, NEW v \in Value, Return(v)
    PROVE  Typed'
BY TopGood DEF Return, Typed, Ok, env

LEMMA RaiseTyped ==
    ASSUME Typed, Running, Raise
    PROVE  Typed'
BY TopGood, ConstantsType DEF Raise, Typed, Err, env

LEMMA AbortTyped ==
    ASSUME Typed, Running, Abort
    PROVE  Typed'
BY DEF Abort, Typed, env

LEMMA FailingTyped ==
    ASSUME Typed, Running, NEW o, Failing(o)
    PROVE  Typed'
BY RaiseTyped, AbortTyped DEF Failing

(* Moving a frame on without changing what the handler has checked. *)
LEMMA AdvanceGood ==
    ASSUME Typed, Running, NEW e \in Step
    PROVE  Advance(e) \in Good
BY TopGood DEF Advance, Good, FrameType

LEMMA AccGood ==
    ASSUME NEW f \in Good, NEW acc \in Value
    PROVE  [f EXCEPT !.acc = acc] \in Good
BY DEF Good, FrameType

LEMMA AdvanceAccGood ==
    ASSUME Typed, Running, NEW e \in Step, NEW acc \in Value
    PROVE  [Advance(e) EXCEPT !.acc = acc] \in Good
BY AdvanceGood, AccGood

LEMMA InheritGood ==
    ASSUME Typed, Running, NEW pc \in {"from", "value", "pass"},
           Top.op = "$fromNow" => pc # "value"
    PROVE  Inherit(pc) \in Good
BY TopGood DEF Inherit, Good, FrameType, PCs

LEMMA LoopGood ==
    ASSUME Typed, Running, NEW val \in Value, NEW acc \in Value,
           Top.op = "$sort" => \A p \in Others : Kind(Field(Top.tpl, p)) = "str"
    PROVE  Loop(val, acc) \in Good
BY TopGood, StepsType DEF Loop, Good, FrameType, PCs, Others

LEMMA ExtendType ==
    ASSUME NEW ctx \in Seq(Value), NEW scope \in Value
    PROVE  Extend(ctx, scope) \in Seq(Value)
BY DEF Extend

LEMMA KeptType ==
    ASSUME NEW acc \in Value, NEW v \in Value
    PROVE  Kept(acc, v) \in Value
BY PushType DEF Kept

-----------------------------------------------------------------------------
(* Beginning and end of a render. *)

LEMMA InitTyped == Init => Typed
<1> SUFFICES ASSUME Init PROVE Typed
    OBVIOUS
<1>1. template \in Value /\ context \in Value
    BY InputAssumption DEF Init
<1>2. stack \in Seq(Good)
    BY EmptySeq DEF Init
<1>3. 0 \in 0..MaxClock
    BY RenderAssumption
<1> QED BY <1>1, <1>2, <1>3, ConstantsType DEF Init, Typed, Idle

LEMMA StartTyped ==
    ASSUME Typed, Start
    PROVE  Typed'
<1>1. Now \in Str
    BY RenderAssumption DEF Now, Typed
<1>2. "now" \in Str
    BY RenderAssumption DEF Words
<1>3. Bind(NoKeys, "now", Text(Now)) \in Value
    BY <1>1, <1>2, InsertType, ConstantsType DEF Bind
<1>4. << BUILTINS, context, Bind(NoKeys, "now", Text(Now)) >> \in Seq(Value)
    BY <1>3, InputAssumption DEF Typed
<1> DEFINE first == Frame(template, << BUILTINS, context, Bind(NoKeys, "now", Text(Now)) >>)
<1>5. << first >> \in Seq(Good)
    <2>1. first \in Good
        BY <1>4, FrameGood DEF Typed
    <2> HIDE DEF first
    <2> QED BY <2>1
<1>6. CASE ValidContext
    BY <1>5, <1>6 DEF Start, Typed, env
<1>7. CASE ~ValidContext
    BY <1>7, ConstantsType DEF Start, Typed, env, Err
<1> QED BY <1>6, <1>7

LEMMA FinishTyped ==
    ASSUME Typed, Finish
    PROVE  Typed'
<1>1. ToJson(ret.v) \in Value
    BY ToJsonType DEF Typed
<1> QED BY <1>1, ConstantsType DEF Finish, Typed, env, Ok, Err

LEMMA PropagateTyped ==
    ASSUME Typed, Propagate
    PROVE  Typed'
BY TopGood DEF Propagate, Typed, env

-----------------------------------------------------------------------------
(* Templates that are not operators. *)

LEMMA ScalarTyped == Typed /\ Scalar => Typed'
BY TopFields, ReturnTyped DEF Scalar, Ready

LEMMA StringTyped ==
    ASSUME Contract(Seq(Value), Value), Typed, String
    PROVE  Typed'
<1>1. Running /\ Kind(Top.tpl) = "str"
    BY DEF String, Ready
<1>2. StrOf(Top.tpl) \in Str
    BY <1>1, TopFields, StringType DEF StrOf
<1> DEFINE o == Interpolate(StrOf(Top.tpl), Top.ctx)
<1>3. o \in Outcome
    BY <1>1, <1>2, TopFields DEF Contract
<1>4. (o.st = "ok" /\ Return(o.v)) \/ Failing(o)
    BY DEF String
<1> HIDE DEF o
<1> QED BY <1>1, <1>3, <1>4, ReturnTyped, FailingTyped DEF Outcome

LEMMA UnreachableTyped == Typed /\ Unreachable => Typed'
BY AbortTyped DEF Unreachable, Ready

LEMMA ArrayTyped == Typed /\ Array => Typed'
<1> SUFFICES ASSUME Typed, Array PROVE Typed'
    OBVIOUS
<1>1. Running /\ Top.op = "render"
    BY DEF Array, Ready
<1>2. [Top EXCEPT !.pc = "elems", !.todo = Steps(Top.tpl), !.acc = NoElems] \in Good
    BY <1>1, TopGood, TopFields, StepsType, ConstantsType DEF Good, FrameType, PCs
<1> QED BY <1>1, <1>2, GotoTyped DEF Array

LEMMA ElementTyped == Typed /\ (ArrayElement \/ ObjectMember) => Typed'
<1> SUFFICES ASSUME Typed, ArrayElement \/ ObjectMember PROVE Typed'
    OBVIOUS
<1>1. Running
    BY DEF ArrayElement, ObjectMember, Ready
<1>2. PICK e \in Steps(Top.tpl) : Call(Advance(e), Child(Top.tpl, e), Top.ctx)
    BY DEF ArrayElement, ObjectMember
<1>3. e \in Step /\ Child(Top.tpl, e) \in Value
    BY <1>1, TopFields, StepsType, ChildType
<1> QED BY <1>1, <1>2, <1>3, AdvanceGood, TopFields, CallTyped

LEMMA ArrayKeepTyped == Typed /\ ArrayKeep => Typed'
<1> SUFFICES ASSUME Typed, ArrayKeep PROVE Typed'
    OBVIOUS
<1>1. Running /\ ret.v \in Value
    BY DEF ArrayKeep, Resumed, Typed
<1>2. Kept(Top.acc, ret.v) \in Value
    BY <1>1, TopFields, KeptType
<1>3. [Top EXCEPT !.acc = Kept(@, ret.v)] \in Good
    BY <1>1, <1>2, TopGood, AccGood
<1> QED BY <1>1, <1>3, GotoTyped DEF ArrayKeep

LEMMA ObjectTyped == Typed /\ Object => Typed'
<1> SUFFICES ASSUME Typed, Object PROVE Typed'
    OBVIOUS
<1>1. Running /\ Top.op = "render"
    BY DEF Object, Ready
<1>2. [Top EXCEPT !.pc = "fields", !.todo = Steps(Top.tpl), !.acc = NoKeys] \in Good
    BY <1>1, TopGood, TopFields, StepsType, ConstantsType DEF Good, FrameType, PCs
<1> QED BY <1>1, <1>2, GotoTyped DEF Object

LEMMA KeyFailsTyped == Typed /\ KeyFails => Typed'
BY FailingTyped DEF KeyFails, Ready

LEMMA OperatorTyped == Typed /\ Operator => Typed'
<1> SUFFICES ASSUME Typed, Operator PROVE Typed'
    OBVIOUS
<1>1. Running
    BY DEF Operator, Ready
<1>2. PICK k \in Keys(Top.tpl) \cap Operators : Goto([Top EXCEPT !.op = k, !.pc = "start"])
    BY DEF Operator
<1>3. [Top EXCEPT !.op = k, !.pc = "start"] \in Good
    BY <1>1, TopGood DEF Good, FrameType, PCs
<1> QED BY <1>1, <1>2, <1>3, GotoTyped

LEMMA ReservedTyped == Typed /\ Reserved => Typed'
BY RaiseTyped DEF Reserved, Ready

LEMMA ObjectInsertTyped ==
    ASSUME Contract(Seq(Value), Value), Typed, ObjectInsert
    PROVE  Typed'
<1>1. Running /\ ret.v \in Value
    BY DEF ObjectInsert, Resumed, Typed
<1>2. CASE ret.v = Marker /\ Goto(Top)
    BY <1>1, <1>2, TopGood, GotoTyped
<1>3. CASE \E k \in Keys(Top.tpl) :
             LET o == Interpolate(Unescape[k], Top.ctx)
             IN  (o.st = "ok" /\ Goto([Top EXCEPT !.acc = Insert(@, StrOf(o.v), ret.v)])) \/ Failing(o)
    <2>1. PICK k \in Keys(Top.tpl) :
             LET o == Interpolate(Unescape[k], Top.ctx)
             IN  (o.st = "ok" /\ Goto([Top EXCEPT !.acc = Insert(@, StrOf(o.v), ret.v)])) \/ Failing(o)
        BY <1>3
    <2>2. Unescape[k] \in Str
        BY <1>1, TopFields, KeyStep, RenderAssumption
    <2> DEFINE o == Interpolate(Unescape[k], Top.ctx)
    <2>3. o \in Outcome /\ (o.st = "ok" => Kind(o.v) = "str")
        BY <1>1, <2>2, TopFields DEF Contract
    <2>4. CASE o.st = "ok" /\ Goto([Top EXCEPT !.acc = Insert(@, StrOf(o.v), ret.v)])
        <3>1. StrOf(o.v) \in Str
            BY <2>3, <2>4, StringType DEF Outcome, StrOf
        <3>2. Insert(Top.acc, StrOf(o.v), ret.v) \in Value
            BY <3>1, <1>1, TopFields, InsertType
        <3>3. [Top EXCEPT !.acc = Insert(@, StrOf(o.v), ret.v)] \in Good
            BY <1>1, <3>2, TopGood, AccGood
        <3> QED BY <1>1, <2>4, <3>3, GotoTyped
    <2>5. CASE Failing(o)
        BY <1>1, <2>5, FailingTyped
    <2> QED BY <2>1, <2>4, <2>5
<1> QED BY <1>2, <1>3 DEF ObjectInsert

LEMMA LoopDoneTyped == Typed /\ LoopDone => Typed'
BY TopFields, ReturnTyped DEF LoopDone, Ready

-----------------------------------------------------------------------------
(* What every operator does first. *)

LEMMA RejectTyped == Typed /\ (Reject \/ RejectArgument) => Typed'
BY RaiseTyped DEF Reject, RejectArgument, Ready, Resumed

LEMMA RenderArgumentTyped == Typed /\ RenderArgument => Typed'
<1> SUFFICES ASSUME Typed, RenderArgument PROVE Typed'
    OBVIOUS
<1>1. Running /\ Top.op # "render" /\ Top.op # "$fromNow" /\ Call(Inherit("value"), Arg, Top.ctx)
    BY DEF RenderArgument, Begun, Ready
<1> QED BY <1>1, TopFields, InheritGood, CallTyped

LEMMA PassTyped == Typed /\ Pass => Typed'
BY ReturnTyped DEF Pass, Resumed, Typed

(* An operator whose argument must be a string has one. *)
LEMMA StringArgument ==
    ASSUME Typed, Running, Top.op \in {"$eval", "$if"}, Accepted(Top.op)
    PROVE  StrOf(Arg) \in Str
BY TopFields, StringType DEF Accepted, WellShaped, StrOf

LEMMA EvalTyped ==
    ASSUME Contract(Seq(Value), Value), Typed, Eval
    PROVE  Typed'
<1> DEFINE o == Evaluate(StrOf(Arg), Top.ctx)
<1>1. Running /\ Top.op = "$eval" /\ Accepted(Top.op)
    BY DEF Eval, Begun, Ready
<1>2. o \in Outcome
    BY <1>1, StringArgument, TopFields DEF Contract
<1>3. (o.st = "ok" /\ Return(o.v)) \/ Failing(o)
    BY DEF Eval
<1> HIDE DEF o
<1> QED BY <1>1, <1>2, <1>3, ReturnTyped, FailingTyped DEF Outcome

LEMMA IfTyped == Typed /\ If => Typed'
<1> SUFFICES ASSUME Typed, If PROVE Typed'
    OBVIOUS
<1>1. Running /\ Top.op = "$if"
    BY DEF If, Begun, Ready
<1>2. \/ \E prop \in Others : Call(Inherit("pass"), Field(Top.tpl, prop), Top.ctx)
      \/ Return(Marker)
      \/ \E o : Failing(o)
    BY DEF If
<1>3. Inherit("pass") \in Good
    BY <1>1, InheritGood
<1> QED BY <1>1, <1>2, <1>3, TopFields, CallTyped, ReturnTyped, FailingTyped, ConstantsType

LEMMA JsonTyped ==
    ASSUME Contract(Seq(Value), Value), Typed, Json
    PROVE  Typed'
<1>1. Running /\ ret.v \in Value
    BY DEF Json, Resumed, Typed
<1>2. JsonText(ToJson(ret.v)) \in Str
    BY <1>1, ToJsonType DEF Contract
<1>3. Return(Text(JsonText(ToJson(ret.v)))) \/ Raise
    BY DEF Json
<1> QED BY <1>1, <1>2, <1>3, ConstantsType, ReturnTyped, RaiseTyped

LEMMA LetBodyTyped == Typed /\ LetBody => Typed'
<1> SUFFICES ASSUME Typed, LetBody PROVE Typed'
    OBVIOUS
<1>1. Running /\ ret.v \in Value /\ Top.op = "$let"
    BY DEF LetBody, Argument, Resumed, Typed
<1>2. \/ "in" \in Others /\ Call(Inherit("pass"), Field(Top.tpl, "in"), Extend(Top.ctx, ret.v))
      \/ Raise
    BY DEF LetBody
<1>3. Inherit("pass") \in Good
    BY <1>1, InheritGood
<1>4. Extend(Top.ctx, ret.v) \in Seq(Value)
    BY <1>1, TopFields, ExtendType
<1> QED BY <1>1, <1>2, <1>3, <1>4, TopFields, CallTyped, RaiseTyped

LEMMA FromNowFromTyped == Typed /\ FromNowFrom => Typed'
<1> SUFFICES ASSUME Typed, FromNowFrom PROVE Typed'
    OBVIOUS
<1>1. Running /\ "from" \in Others /\ Call(Inherit("from"), Field(Top.tpl, "from"), Top.ctx)
    BY DEF FromNowFrom, Begun, Ready
<1> QED BY <1>1, InheritGood, TopFields, CallTyped

(* With its reference, a string, $fromNow goes on to its value. *)
LEMMA ReferenceTyped ==
    ASSUME Typed, Running, Top.op = "$fromNow", NEW v \in Value, Kind(v) = "str",
           Call([Inherit("value") EXCEPT !.val = v], Arg, Top.ctx)
    PROVE  Typed'
<1>1. [Inherit("value") EXCEPT !.val = v] \in Good
    BY TopGood DEF Inherit, Good, FrameType, PCs
<1> QED BY <1>1, TopFields, CallTyped

LEMMA FromNowDefaultTyped == Typed /\ FromNowDefault => Typed'
<1> SUFFICES ASSUME Typed, FromNowDefault PROVE Typed'
    OBVIOUS
<1>1. Running /\ Top.op = "$fromNow"
    BY DEF FromNowDefault, Begun, Ready
<1>2. PICK i \in DOMAIN Top.ctx :
          /\ Has(Top.ctx[i], "now")
          /\ \/ /\ Kind(Field(Top.ctx[i], "now")) = "str"
                /\ Call([Inherit("value") EXCEPT !.val = Field(Top.ctx[i], "now")], Arg, Top.ctx)
             \/ Raise
    BY DEF FromNowDefault, Binding
<1>3. Top.ctx[i] \in Value
    BY <1>1, TopFields
<1>4. Field(Top.ctx[i], "now") \in Value
    BY <1>2, <1>3, ChildType DEF Has, Field
<1> QED BY <1>1, <1>2, <1>4, ReferenceTyped, RaiseTyped

LEMMA FromNowReferenceTyped == Typed /\ FromNowReference => Typed'
<1> SUFFICES ASSUME Typed, FromNowReference PROVE Typed'
    OBVIOUS
<1>1. Running /\ Top.op = "$fromNow" /\ ret.v \in Value
    BY DEF FromNowReference, Resumed, Typed
<1> QED BY <1>1, ReferenceTyped, RaiseTyped DEF FromNowReference

LEMMA FromNowResultTyped ==
    ASSUME Contract(Seq(Value), Value), Typed, FromNowResult
    PROVE  Typed'
<1> DEFINE o == FromNow(StrOf(ret.v), StrOf(Top.val))
<1>1. /\ Running /\ Top.op = "$fromNow" /\ Top.pc = "value"
      /\ ret.v \in Value /\ Kind(ret.v) = "str"
    BY DEF FromNowResult, Argument, Resumed, Expected, Typed
<1>2. Kind(Top.val) = "str"
    BY <1>1, TopGood DEF Good
<1>3. StrOf(ret.v) \in Str /\ StrOf(Top.val) \in Str
    BY <1>1, <1>2, TopFields, StringType DEF StrOf
<1>4. o \in Outcome
    BY <1>3 DEF Contract
<1>5. (o.st = "ok" /\ Return(o.v)) \/ Failing(o)
    BY DEF FromNowResult
<1> HIDE DEF o
<1> QED BY <1>1, <1>4, <1>5, ReturnTyped, FailingTyped DEF Outcome

-----------------------------------------------------------------------------
(* Folds and $sort. *)

LEMMA FoldBeginTyped == Typed /\ FoldBegin => Typed'
<1> SUFFICES ASSUME Typed, FoldBegin PROVE Typed'
    OBVIOUS
<1>1. PICK op \in {"$flatten", "$merge", "$mergeDeep"} :
          /\ Running /\ Top.op = op /\ ret.v \in Value
          /\ Goto(Loop(ret.v, IF op = "$flatten" THEN NoElems ELSE NoKeys))
    BY DEF FoldBegin, Argument, Resumed, Typed
<1>2. Loop(ret.v, NoElems) \in Good /\ Loop(ret.v, NoKeys) \in Good
    BY <1>1, ConstantsType, LoopGood
<1> QED BY <1>1, <1>2, GotoTyped

(* The item at a step of the loop's value. *)
LEMMA ItemType ==
    ASSUME Typed, Running, NEW e \in Steps(Top.val)
    PROVE  e \in Step /\ Child(Top.val, e) \in Value
BY TopFields, StepsType, ChildType

LEMMA FlattenItemTyped == Typed /\ FlattenItem => Typed'
<1> SUFFICES ASSUME Typed, FlattenItem PROVE Typed'
    OBVIOUS
<1>1. Running
    BY DEF FlattenItem, Ready
<1>2. PICK e \in Steps(Top.val) :
          Goto([Advance(e) EXCEPT !.acc = FlattenInto(@, Child(Top.val, e))])
    BY DEF FlattenItem
<1>3. Advance(e).acc = Top.acc
    BY <1>1, TopGood DEF Advance, Good, FrameType
<1>4. FlattenInto(Advance(e).acc, Child(Top.val, e)) \in Value
    BY <1>1, <1>3, ItemType, TopFields, FlattenIntoType
<1>5. [Advance(e) EXCEPT !.acc = FlattenInto(@, Child(Top.val, e))] \in Good
    BY <1>1, <1>4, ItemType, AdvanceAccGood
<1> QED BY <1>1, <1>2, <1>5, GotoTyped

LEMMA MergeItemTyped == Typed /\ MergeItem => Typed'
<1> SUFFICES ASSUME Typed, MergeItem PROVE Typed'
    OBVIOUS
<1>1. PICK op \in {"$merge", "$mergeDeep"} : \E d \in Steps(Top.val) :
          /\ Running
          /\ \/ Goto([Advance(d) EXCEPT !.acc =
                        IF op = "$merge" THEN Merge(@, Child(Top.val, d))
                                         ELSE MergeDeep(@, Child(Top.val, d))])
             \/ Raise
    BY DEF MergeItem, Ready
<1>2. PICK e \in Steps(Top.val) :
          \/ Goto([Advance(e) EXCEPT !.acc =
                        IF op = "$merge" THEN Merge(@, Child(Top.val, e))
                                         ELSE MergeDeep(@, Child(Top.val, e))])
          \/ Raise
    BY <1>1
<1>3. Advance(e).acc = Top.acc
    BY <1>1, TopGood DEF Advance, Good, FrameType
<1>4. /\ Merge(Advance(e).acc, Child(Top.val, e)) \in Value
      /\ MergeDeep(Advance(e).acc, Child(Top.val, e)) \in Value
    BY <1>1, <1>3, ItemType, TopFields, MergeType, MergeDeepType
<1>5. [Advance(e) EXCEPT !.acc =
          IF op = "$merge" THEN Merge(@, Child(Top.val, e))
                           ELSE MergeDeep(@, Child(Top.val, e))] \in Good
    BY <1>1, <1>4, ItemType, AdvanceAccGood
<1> QED BY <1>1, <1>2, <1>5, GotoTyped, RaiseTyped

LEMMA RearrangedTyped == Typed /\ (FlattenDeepResult \/ ReverseResult) => Typed'
<1> SUFFICES ASSUME Typed, FlattenDeepResult \/ ReverseResult PROVE Typed'
    OBVIOUS
<1>1. Running /\ ret.v \in Value
    BY DEF FlattenDeepResult, ReverseResult, Argument, Resumed, Typed
<1> QED BY <1>1, FlattenDeepType, ReverseType, ReturnTyped DEF FlattenDeepResult, ReverseResult

LEMMA SortResultTyped ==
    ASSUME Typed, Running, NEW v \in Value, NEW keys, SortResult(v, keys)
    PROVE  Typed'
BY SortType, ReturnTyped, RaiseTyped, AbortTyped DEF SortResult

LEMMA SortPlainTyped == Typed /\ SortPlain => Typed'
<1> SUFFICES ASSUME Typed, SortPlain PROVE Typed'
    OBVIOUS
<1>1. Running /\ ret.v \in Value
    BY DEF SortPlain, Argument, Resumed, Typed
<1> QED BY <1>1, SortResultTyped, ReturnTyped DEF SortPlain

LEMMA SortByTyped == Typed /\ SortBy => Typed'
<1> SUFFICES ASSUME Typed, SortBy PROVE Typed'
    OBVIOUS
<1>1. Running /\ ret.v \in Value
    BY DEF SortBy, Argument, Resumed, Typed
<1>2. \/ (\A p \in Others : Kind(Field(Top.tpl, p)) = "str") /\ Goto(Loop(ret.v, NoElems))
      \/ Raise
    BY DEF SortBy
<1> QED BY <1>1, <1>2, ConstantsType, LoopGood, GotoTyped, RaiseTyped

LEMMA SortKeyTyped ==
    ASSUME Contract(Seq(Value), Value), Typed, SortKey
    PROVE  Typed'
<1>1. Running /\ Top.op = "$sort" /\ Top.pc = "each"
    BY DEF SortKey, Ready
<1>2. PICK e \in Steps(Top.val), p \in Others \cap DOMAIN ByVar :
          LET scope == Bind(NoKeys, ByVar[p], Child(Top.val, e))
              o == Evaluate(StrOf(Field(Top.tpl, p)), Extend(Top.ctx, scope))
          IN  (o.st = "ok" /\ Goto([Advance(e) EXCEPT !.acc = Put(@, e, o.v)])) \/ Failing(o)
    BY DEF SortKey
<1> DEFINE scope == Bind(NoKeys, ByVar[p], Child(Top.val, e))
           o == Evaluate(StrOf(Field(Top.tpl, p)), Extend(Top.ctx, scope))
<1>3. StrOf(Field(Top.tpl, p)) \in Str
    <2>1. Kind(Field(Top.tpl, p)) = "str"
        BY <1>1, TopGood DEF Good, Others
    <2> QED BY <1>1, <2>1, TopFields, StringType DEF StrOf
<1>4. ByVar[p] \in Str
    BY RenderAssumption
<1>5. scope \in Value
    BY <1>1, <1>4, ItemType, ConstantsType, InsertType DEF Bind
<1>6. Extend(Top.ctx, scope) \in Seq(Value)
    BY <1>1, <1>5, TopFields, ExtendType
<1>7. o \in Outcome
    BY <1>3, <1>6 DEF Contract
<1>8. CASE o.st = "ok" /\ Goto([Advance(e) EXCEPT !.acc = Put(@, e, o.v)])
    <2>1. Advance(e).acc = Top.acc
        BY <1>1, TopGood DEF Advance, Good, FrameType
    <2>2. Put(Advance(e).acc, e, o.v) \in Value
        BY <1>1, <1>7, <2>1, ItemType, TopFields, PutType DEF Outcome
    <2>3. [Advance(e) EXCEPT !.acc = Put(@, e, o.v)] \in Good
        BY <1>1, <2>2, ItemType, AdvanceAccGood
    <2> QED BY <1>1, <1>8, <2>3, GotoTyped
<1>9. CASE Failing(o)
    BY <1>1, <1>9, FailingTyped
<1> QED BY <1>2, <1>8, <1>9

LEMMA SortDoneTyped == Typed /\ SortDone => Typed'
BY TopFields, SortResultTyped DEF SortDone, Ready

-----------------------------------------------------------------------------
(* $map, $reduce, $find. *)

LEMMA NamesType ==
    /\ \A p \in DOMAIN EachVars :
           /\ EachVars[p][1] \in Str
           /\ Len(EachVars[p]) # 1 => EachVars[p][2] \in Str
    /\ \A p \in DOMAIN EachThreeVars :
           /\ EachThreeVars[p][1] \in Str /\ EachThreeVars[p][2] \in Str
           /\ Len(EachThreeVars[p]) # 2 => EachThreeVars[p][3] \in Str
    /\ "key" \in Str /\ "val" \in Str
BY RenderAssumption DEF Words

LEMMA ItemScopeType ==
    ASSUME NEW p \in DOMAIN EachVars, NEW i \in Nat, NEW item \in Value
    PROVE  ItemScope(EachVars[p], i, item) \in Value
<1> DEFINE scope == Bind(NoKeys, EachVars[p][1], item)
<1>1. scope \in Value
    BY NamesType, ConstantsType, InsertType DEF Bind
<1>a. Num(i) \in Value
    <2>1. i \in Int
        OBVIOUS
    <2> QED BY <2>1, ConstantsType
<1> HIDE DEF scope
<1>2. Len(EachVars[p]) # 1 => Bind(scope, EachVars[p][2], Num(i)) \in Value
    BY <1>1, <1>a, NamesType, InsertType DEF Bind
<1> QED BY <1>1, <1>2 DEF ItemScope, scope

LEMMA MemberScopeType ==
    ASSUME NEW p \in DOMAIN EachVars, NEW k \in Str, NEW item \in Value
    PROVE  MemberScope(EachVars[p], k, item) \in Value
BY NamesType, ConstantsType, InsertType DEF MemberScope, Bind

LEMMA AccScopeType ==
    ASSUME NEW p \in DOMAIN EachThreeVars, NEW acc \in Value, NEW i \in Nat, NEW item \in Value
    PROVE  AccScope(EachThreeVars[p], acc, i, item) \in Value
<1> DEFINE scope == Bind(Bind(NoKeys, EachThreeVars[p][1], acc), EachThreeVars[p][2], item)
<1>1. Bind(NoKeys, EachThreeVars[p][1], acc) \in Value
    BY NamesType, ConstantsType, InsertType DEF Bind
<1>2. scope \in Value
    BY <1>1, NamesType, InsertType DEF Bind
<1>a. Num(i) \in Value
    <2>1. i \in Int
        OBVIOUS
    <2> QED BY <2>1, ConstantsType
<1> HIDE DEF scope
<1>3. Len(EachThreeVars[p]) # 2 => Bind(scope, EachThreeVars[p][3], Num(i)) \in Value
    BY <1>2, <1>a, NamesType, InsertType DEF Bind
<1> QED BY <1>2, <1>3 DEF AccScope, scope

LEMMA LoopBeginTyped == Typed /\ LoopBegin => Typed'
<1> SUFFICES ASSUME Typed, LoopBegin PROVE Typed'
    OBVIOUS
<1>1. Running /\ ret.v \in Value /\ Top.op # "$sort"
    BY DEF LoopBegin, Argument, Resumed, Typed
<1>2. \A acc \in Value : Loop(ret.v, acc) \in Good
    BY <1>1, LoopGood
<1> QED BY <1>1, <1>2, ConstantsType, GotoTyped DEF LoopBegin

LEMMA MapElementTyped == Typed /\ MapElement => Typed'
<1> SUFFICES ASSUME Typed, MapElement PROVE Typed'
    OBVIOUS
<1>1. Running
    BY DEF MapElement, Ready
<1>2. PICK i \in Indices(Top.val), p \in Others \cap DOMAIN EachVars :
          Call(Advance(Elem(i)), EachTemplate(p),
               Extend(Top.ctx, ItemScope(EachVars[p], i, Child(Top.val, Elem(i)))))
    BY DEF MapElement
<1>3. i \in Nat /\ Elem(i) \in Step /\ Child(Top.val, Elem(i)) \in Value
    BY <1>1, TopFields, IndexStep, ItemType
<1>4. Extend(Top.ctx, ItemScope(EachVars[p], i, Child(Top.val, Elem(i)))) \in Seq(Value)
    BY <1>1, <1>3, TopFields, ItemScopeType, ExtendType
<1> QED BY <1>1, <1>2, <1>3, <1>4, TopFields, AdvanceGood, CallTyped DEF EachTemplate

LEMMA MapMemberTyped == Typed /\ MapMember => Typed'
<1> SUFFICES ASSUME Typed, MapMember PROVE Typed'
    OBVIOUS
<1>1. Running
    BY DEF MapMember, Ready
<1>2. PICK k \in Keys(Top.val), p \in Others \cap DOMAIN EachVars :
          Call(Advance(Key(k)), EachTemplate(p),
               Extend(Top.ctx, MemberScope(EachVars[p], k, Field(Top.val, k))))
    BY DEF MapMember
<1>3. k \in Str /\ Key(k) \in Step /\ Field(Top.val, k) \in Value
    BY <1>1, TopFields, KeyStep, ItemType, FieldType
<1>4. Extend(Top.ctx, MemberScope(EachVars[p], k, Field(Top.val, k))) \in Seq(Value)
    BY <1>1, <1>3, TopFields, MemberScopeType, ExtendType
<1> QED BY <1>1, <1>2, <1>3, <1>4, TopFields, AdvanceGood, CallTyped DEF EachTemplate

LEMMA MapKeepTyped == Typed /\ MapKeep => Typed'
<1> SUFFICES ASSUME Typed, MapKeep PROVE Typed'
    OBVIOUS
<1>1. Running /\ ret.v \in Value
    BY DEF MapKeep, Resumed, Typed
<1>2. \/ Goto([Top EXCEPT !.acc = Kept(@, ret.v)])
      \/ Goto([Top EXCEPT !.acc = Merge(@, ret.v)])
      \/ Raise
    BY DEF MapKeep
<1>3. Kept(Top.acc, ret.v) \in Value /\ Merge(Top.acc, ret.v) \in Value
    BY <1>1, TopFields, KeptType, MergeType
<1>4. /\ [Top EXCEPT !.acc = Kept(@, ret.v)] \in Good
      /\ [Top EXCEPT !.acc = Merge(@, ret.v)] \in Good
    BY <1>1, <1>3, TopGood, AccGood
<1> QED BY <1>1, <1>2, <1>4, GotoTyped, RaiseTyped

LEMMA ReduceBeginTyped == Typed /\ ReduceBegin => Typed'
<1> SUFFICES ASSUME Typed, ReduceBegin PROVE Typed'
    OBVIOUS
<1>1. Running /\ ret.v \in Value /\ Top.op = "$reduce"
    BY DEF ReduceBegin, Resumed, Typed
<1>2. \/ Abort \/ Raise
      \/ "initial" \in Others /\ Goto(Loop(ret.v, Field(Top.tpl, "initial")))
    BY DEF ReduceBegin
<1> QED BY <1>1, <1>2, TopFields, LoopGood, GotoTyped, RaiseTyped, AbortTyped

LEMMA ReduceItemTyped == Typed /\ ReduceItem => Typed'
<1> SUFFICES ASSUME Typed, ReduceItem PROVE Typed'
    OBVIOUS
<1>1. Running
    BY DEF ReduceItem, Ready
<1>2. PICK i \in Indices(Top.val), p \in Others \cap DOMAIN EachThreeVars :
          Call(Advance(Elem(i)), EachTemplate(p),
               Extend(Top.ctx, AccScope(EachThreeVars[p], Top.acc, i, Child(Top.val, Elem(i)))))
    BY DEF ReduceItem
<1>3. i \in Nat /\ Elem(i) \in Step /\ Child(Top.val, Elem(i)) \in Value
    BY <1>1, TopFields, IndexStep, ItemType
<1>4. Extend(Top.ctx, AccScope(EachThreeVars[p], Top.acc, i, Child(Top.val, Elem(i)))) \in Seq(Value)
    BY <1>1, <1>3, TopFields, AccScopeType, ExtendType
<1> QED BY <1>1, <1>2, <1>3, <1>4, TopFields, AdvanceGood, CallTyped DEF EachTemplate

LEMMA ReduceKeepTyped == Typed /\ ReduceKeep => Typed'
<1> SUFFICES ASSUME Typed, ReduceKeep PROVE Typed'
    OBVIOUS
<1>1. Running /\ ret.v \in Value
    BY DEF ReduceKeep, Resumed, Typed
<1>2. Top \in Good /\ [Top EXCEPT !.acc = ret.v] \in Good
    BY <1>1, TopGood, AccGood
<1> QED BY <1>1, <1>2, GotoTyped DEF ReduceKeep

LEMMA FindItemTyped == Typed /\ FindItem => Typed'
<1> SUFFICES ASSUME Typed, FindItem PROVE Typed'
    OBVIOUS
<1>1. Running /\ Top.op = "$find"
    BY DEF FindItem, Ready
<1>2. PICK i \in Indices(Top.val), p \in Others \cap DOMAIN EachVars :
          \/ Raise
          \/ Call(Inherit("pass"), Child(Top.val, Elem(i)),
                  Extend(Top.ctx, ItemScope(EachVars[p], i, Child(Top.val, Elem(i)))))
          \/ Goto(Advance(Elem(i)))
          \/ \E o : Failing(o)
    BY DEF FindItem
<1>3. i \in Nat /\ Elem(i) \in Step /\ Child(Top.val, Elem(i)) \in Value
    BY <1>1, TopFields, IndexStep, ItemType
<1>4. Extend(Top.ctx, ItemScope(EachVars[p], i, Child(Top.val, Elem(i)))) \in Seq(Value)
    BY <1>1, <1>3, TopFields, ItemScopeType, ExtendType
<1>5. Inherit("pass") \in Good /\ Advance(Elem(i)) \in Good
    BY <1>1, <1>3, InheritGood, AdvanceGood
<1> QED BY <1>1, <1>2, <1>3, <1>4, <1>5, CallTyped, GotoTyped, RaiseTyped, FailingTyped

LEMMA FindNoneTyped == Typed /\ FindNone => Typed'
BY ConstantsType, ReturnTyped DEF FindNone, Ready

-----------------------------------------------------------------------------
(* $match and $switch. *)

LEMMA BranchesBeginTyped == Typed /\ (MatchBegin \/ SwitchBegin) => Typed'
<1> SUFFICES ASSUME Typed, MatchBegin \/ SwitchBegin PROVE Typed'
    OBVIOUS
<1>1. Running /\ Top.op \in {"$match", "$switch"}
    BY DEF MatchBegin, SwitchBegin, Begun, Ready
<1>2. Goto(Loop(Arg, NoElems)) \/ Goto(Loop(Arg, NoKeys))
    BY DEF MatchBegin, SwitchBegin
<1>3. Loop(Arg, NoElems) \in Good /\ Loop(Arg, NoKeys) \in Good
    BY <1>1, TopFields, ConstantsType, LoopGood
<1> QED BY <1>1, <1>2, <1>3, GotoTyped

LEMMA MatchConditionTyped == Typed /\ MatchCondition => Typed'
<1> SUFFICES ASSUME Typed, MatchCondition PROVE Typed'
    OBVIOUS
<1>1. Running
    BY DEF MatchCondition, Ready
<1>2. PICK k \in Keys(Top.val) :
          \/ Call(Advance(Key(k)), Field(Top.val, k), Top.ctx)
          \/ Goto(Advance(Key(k)))
          \/ \E o : Failing(o)
    BY DEF MatchCondition
<1>3. Key(k) \in Step /\ Field(Top.val, k) \in Value
    BY <1>1, TopFields, KeyStep, ItemType, FieldType
<1> QED BY <1>1, <1>2, <1>3, TopFields, AdvanceGood, CallTyped, GotoTyped, FailingTyped

LEMMA MatchKeepTyped == Typed /\ MatchKeep => Typed'
<1> SUFFICES ASSUME Typed, MatchKeep PROVE Typed'
    OBVIOUS
<1>1. Running /\ ret.v \in Value
    BY DEF MatchKeep, Resumed, Typed
<1>2. Push(Top.acc, ret.v) \in Value
    BY <1>1, TopFields, PushType
<1>3. [Top EXCEPT !.acc = Push(@, ret.v)] \in Good
    BY <1>1, <1>2, TopGood, AccGood
<1> QED BY <1>1, <1>3, GotoTyped DEF MatchKeep

LEMMA SwitchConditionTyped == Typed /\ SwitchCondition => Typed'
<1> SUFFICES ASSUME Typed, SwitchCondition PROVE Typed'
    OBVIOUS
<1>1. Running
    BY DEF SwitchCondition, Ready
<1>2. PICK k \in Keys(Top.val) :
          \/ Goto(Advance(Key(k)))
          \/ Goto([Advance(Key(k)) EXCEPT !.acc = Insert(@, k, Field(Top.val, k))])
          \/ Raise
          \/ \E o : Failing(o)
    BY DEF SwitchCondition
<1>3. k \in Str /\ Key(k) \in Step /\ Field(Top.val, k) \in Value
    BY <1>1, TopFields, KeyStep, ItemType, FieldType
<1>4. Advance(Key(k)).acc = Top.acc
    BY <1>1, TopGood DEF Advance, Good, FrameType
<1>5. Insert(Advance(Key(k)).acc, k, Field(Top.val, k)) \in Value
    BY <1>1, <1>3, <1>4, TopFields, InsertType
<1>6. /\ Advance(Key(k)) \in Good
      /\ [Advance(Key(k)) EXCEPT !.acc = Insert(@, k, Field(Top.val, k))] \in Good
    BY <1>1, <1>3, <1>5, AdvanceGood, AdvanceAccGood
<1> QED BY <1>1, <1>2, <1>6, GotoTyped, RaiseTyped, FailingTyped

LEMMA SwitchDefaultTyped == Typed /\ SwitchDefault => Typed'
<1> SUFFICES ASSUME Typed, SwitchDefault PROVE Typed'
    OBVIOUS
<1>1. Running /\ Goto(Advance(Key("$default")))
    BY DEF SwitchDefault, Ready
<1>2. Key("$default") \in Step
    BY RenderAssumption, StepTypes DEF Words
<1> QED BY <1>1, <1>2, AdvanceGood, GotoTyped

LEMMA SwitchDoneTyped == Typed /\ SwitchDone => Typed'
<1> SUFFICES ASSUME Typed, SwitchDone PROVE Typed'
    OBVIOUS
<1>1. Running /\ Top.op = "$switch"
    BY DEF SwitchDone, Ready
<1>2. \/ \E e \in Steps(Top.acc) : Call(Inherit("pass"), Child(Top.acc, e), Top.ctx)
      \/ Has(Top.val, "$default") /\ Call(Inherit("pass"), Field(Top.val, "$default"), Top.ctx)
      \/ Return(Marker)
    BY DEF SwitchDone
<1>3. \A e \in Steps(Top.acc) : Child(Top.acc, e) \in Value
    BY <1>1, TopFields, ChildType
<1>4. Has(Top.val, "$default") => Field(Top.val, "$default") \in Value
    BY <1>1, TopFields, ChildType DEF Has, Field
<1>5. Inherit("pass") \in Good
    BY <1>1, InheritGood
<1> QED BY <1>1, <1>2, <1>3, <1>4, <1>5, TopFields, CallTyped, ReturnTyped, ConstantsType

-----------------------------------------------------------------------------
(* The process around the render, and the theorem. *)

LEMMA ProcessTyped == Typed /\ (Tick \/ UseTestNow \/ Ended \/ UNCHANGED vars) => Typed'
BY RenderAssumption DEF Tick, UseTestNow, Ended, Typed, vars

LEMMA StepTyped ==
    ASSUME Contract(Seq(Value), Value), Typed, [Next]_vars
    PROVE  Typed'
<1>1. CASE Start \/ Finish \/ Propagate
    BY <1>1, StartTyped, FinishTyped, PropagateTyped
<1>2. CASE Plain
    BY <1>2, ScalarTyped, StringTyped, UnreachableTyped, ArrayTyped, ElementTyped, ArrayKeepTyped,
       ObjectTyped, KeyFailsTyped, OperatorTyped, ReservedTyped, ObjectInsertTyped, LoopDoneTyped
       DEF Plain
<1>3. CASE Reject \/ RenderArgument \/ RejectArgument \/ Pass
    BY <1>3, RejectTyped, RenderArgumentTyped, PassTyped
<1>4. CASE Simple
    BY <1>4, EvalTyped, IfTyped, JsonTyped, LetBodyTyped, FromNowFromTyped, FromNowDefaultTyped,
       FromNowReferenceTyped, FromNowResultTyped DEF Simple
<1>5. CASE Folds
    BY <1>5, FoldBeginTyped, FlattenItemTyped, MergeItemTyped, RearrangedTyped, SortPlainTyped,
       SortByTyped, SortKeyTyped, SortDoneTyped DEF Folds
<1>6. CASE Loops
    BY <1>6, LoopBeginTyped, MapElementTyped, MapMemberTyped, MapKeepTyped, ReduceBeginTyped,
       ReduceItemTyped, ReduceKeepTyped, FindItemTyped, FindNoneTyped, BranchesBeginTyped,
       MatchConditionTyped, MatchKeepTyped, SwitchConditionTyped, SwitchDefaultTyped,
       SwitchDoneTyped DEF Loops
<1>7. CASE Tick \/ UseTestNow \/ Ended \/ UNCHANGED vars
    BY <1>7, ProcessTyped
<1> QED BY <1>1, <1>2, <1>3, <1>4, <1>5, <1>6, <1>7 DEF Next, Render

(* Whatever the interpreter answers within its contract, every frame,      *)
(* context and result of a render stays a finite well-formed value, and a  *)
(* callee never finds a frame it cannot resume.                            *)
THEOREM TypeCorrect ==
    ASSUME Contract(Seq(Value), Value)
    PROVE  Spec => []TypeOK
<1>1. Init => Typed
    BY InitTyped
<1>2. Typed /\ [Next]_vars => Typed'
    BY StepTyped
<1>3. Typed => TypeOK
    BY TypedImplies
<1> QED BY <1>1, <1>2, <1>3, PTL DEF Spec
=============================================================================
