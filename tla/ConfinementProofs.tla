-------------------------- MODULE ConfinementProofs --------------------------
(***************************************************************************)
(* What the values of a render are made of.  Whatever is in a frame, a     *)
(* scope or a result is put together from the labels of the template, the  *)
(* context and the built-ins and from what the interpreter makes of them:  *)
(* the renderer adds nothing but deletion markers, which its containers    *)
(* drop, and one reading of the clock.                                     *)
(***************************************************************************)
EXTENDS SafetyProofs

(* The constructors the renderer itself uses, and the indices it binds. *)
Basic(D) ==
    /\ <<"null">> \in D /\ <<"arr">> \in D /\ <<"obj">> \in D
    /\ \A i \in Nat : <<"num", i>> \in D

-----------------------------------------------------------------------------
(* Reading and building values within the labels D. *)

LEMMA StepSaid ==
    ASSUME NEW D
    PROVE  /\ \A i \in Nat : Elem(i) \in Said(D)
           /\ \A k \in Str : << "str", k >> \in D => Key(k) \in Said(D)
<1>1. \A i \in Nat : Elem(i) \in Step /\ Elem(i)[1] # "k"
    BY StepTypes DEF Elem
<1>2. \A k \in Str : Key(k) \in Step /\ Key(k)[2] = k
    BY StepTypes DEF Key
<1> QED BY <1>1, <1>2 DEF Said

LEMMA LeafWithin ==
    ASSUME NEW D, NEW l \in D
    PROVE  Within(Leaf(l), D)
<1>1. <<>> \in Seq(Said(D))
    BY EmptySeq
<1>2. \A n \in Leaf(l) : n[1] = <<>> /\ n[2] = l
    BY DEF Leaf
<1> QED BY <1>1, <1>2 DEF Within

LEMMA ConstantsWithin ==
    ASSUME NEW D, Basic(D)
    PROVE  /\ Within(Null, D) /\ Within(NoElems, D) /\ Within(NoKeys, D)
           /\ \A i \in Nat : Within(Num(i), D)
           /\ \A s : << "str", s >> \in D => Within(Text(s), D)
<1>1. \A l \in D : Within(Leaf(l), D)
    BY LeafWithin
<1> QED BY <1>1 DEF Basic, Null, NoElems, NoKeys, Num, Text

LEMMA RootWithin ==
    ASSUME NEW D, NEW v \in Value, Within(v, D)
    PROVE  Root(v) \in D /\ (Kind(v) = "str" => << "str", Root(v)[2] >> \in D)
<1>1. Root(v) \in D
    BY RootType DEF Within
<1>2. ASSUME Kind(v) = "str" PROVE Root(v) = << "str", Root(v)[2] >>
    <2>1. Root(v) \in Label /\ Root(v)[1] = "str"
        BY <1>2, RootType DEF Kind
    <2>2. Root(v) \in {"str"} \X Str
        BY <2>1 DEF Label
    <2> QED BY <2>2
<1> QED BY <1>1, <1>2

LEMMA StepsWithin ==
    ASSUME NEW D, NEW v \in Value, Within(v, D)
    PROVE  Steps(v) \subseteq Said(D) /\ \A k \in Keys(v) : << "str", k >> \in D
<1>1. Steps(v) \subseteq Said(D)
    <2> SUFFICES ASSUME NEW n \in v, Len(n[1]) = 1 PROVE n[1][1] \in Said(D)
        BY DEF Steps
    <2>1. n[1] \in Seq(Said(D))
        BY DEF Within
    <2> QED BY <2>1
<1>2. \A k \in Keys(v) : Key(k) \in Said(D) /\ Key(k)[1] = "k" /\ Key(k)[2] = k
    BY <1>1, KeyStep DEF Key
<1>3. \A k \in Keys(v) : << "str", k >> \in D
    BY <1>2 DEF Said
<1> QED BY <1>1, <1>3

LEMMA ChildWithin ==
    ASSUME NEW D, NEW v, Within(v, D), NEW e
    PROVE  Within(Child(v, e), D)
<1>1. ASSUME NEW n \in v, n[1] # <<>>
      PROVE  Tail(n[1]) \in Seq(Said(D)) /\ n[2] \in D
    BY <1>1, HeadTailProperties DEF Within
<1>2. ASSUME NEW m \in Child(v, e)
      PROVE  m[1] \in Seq(Said(D)) /\ m[2] \in D
    <2>1. PICK n \in v : n[1] # <<>> /\ m = << Tail(n[1]), n[2] >>
        BY DEF Child, Under
    <2>2. m[1] = Tail(n[1]) /\ m[2] = n[2]
        BY <2>1
    <2> QED BY <1>1, <2>1, <2>2
<1> QED BY <1>2 DEF Within

LEMMA FieldWithin ==
    ASSUME NEW D, NEW v, Within(v, D), NEW k
    PROVE  Within(Field(v, k), D)
BY ChildWithin DEF Field

LEMMA GraftWithin ==
    ASSUME NEW D, NEW w, Within(w, D), NEW e \in Said(D)
    PROVE  Within(Graft(e, w), D)
<1>1. ASSUME NEW n \in w PROVE << e >> \o n[1] \in Seq(Said(D)) /\ n[2] \in D
    <2>1. << e >> \in Seq(Said(D)) /\ n[1] \in Seq(Said(D)) /\ n[2] \in D
        BY DEF Within
    <2> QED BY <2>1, ConcatProperties
<1>2. ASSUME NEW m \in Graft(e, w) PROVE m[1] \in Seq(Said(D)) /\ m[2] \in D
    <2>1. PICK n \in w : m = << << e >> \o n[1], n[2] >>
        BY DEF Graft
    <2>2. m[1] = << e >> \o n[1] /\ m[2] = n[2]
        BY <2>1
    <2> QED BY <1>1, <2>2
<1> QED BY <1>2 DEF Within

LEMMA PutWithin ==
    ASSUME NEW D, NEW v, NEW w, Within(v, D), Within(w, D), NEW e \in Said(D)
    PROVE  Within(Put(v, e, w), D)
<1>1. Within(Graft(e, w), D)
    BY GraftWithin
<1> QED BY <1>1 DEF Within, Put

LEMMA PushWithin ==
    ASSUME NEW D, NEW v \in Value, NEW w, Within(v, D), Within(w, D)
    PROVE  Within(Push(v, w), D)
BY LengthType, StepSaid, PutWithin DEF Push

LEMMA InsertWithin ==
    ASSUME NEW D, NEW v, NEW w, Within(v, D), Within(w, D), NEW k \in Str, << "str", k >> \in D
    PROVE  Within(Insert(v, k, w), D)
BY StepSaid, PutWithin DEF Insert

(* A marker becomes null, anything else stays what it was. *)
LEMMA ToJsonWithin ==
    ASSUME NEW D, Basic(D), NEW v, v = Marker \/ Within(v, D)
    PROVE  Within(ToJson(v), D)
<1>1. <<>> \in Seq(Said(D))
    BY EmptySeq
<1>2. ASSUME NEW n \in v
      PROVE  n[1] \in Seq(Said(D)) /\ (n[2] # <<"del">> => n[2] \in D)
    <2>1. CASE v = Marker
        <3>1. n[1] = <<>> /\ n[2] = <<"del">>
            BY <2>1 DEF Marker, Leaf
        <3> QED BY <1>1, <3>1
    <2>2. CASE Within(v, D)
        BY <2>2 DEF Within
    <2> QED BY <2>1, <2>2
<1>3. \A m \in ToJson(v) : m[1] \in Seq(Said(D)) /\ m[2] \in D
    BY <1>2 DEF ToJson, Basic
<1> QED BY <1>3 DEF Within

-----------------------------------------------------------------------------
(* The operators of Containers stay within the labels. *)

LEMMA ArrangeWithin ==
    ASSUME NEW D, NEW v \in Value, Within(v, D), NEW before
    PROVE  Within(Arrange(v, before), D)
<1>1. \A e : Position(Steps(v), before, e) \in Nat
    <2> TAKE e
    <2>1. IsFiniteSet({ d \in Steps(v) : << d, e >> \in before })
        BY StepsType, FS_Subset
    <2> QED BY <2>1, FS_CardinalityType DEF Position
<1>2. ASSUME NEW n \in v, n[1] # <<>>
      PROVE  /\ << Elem(Position(Steps(v), before, Head(n[1]))) >> \o Tail(n[1]) \in Seq(Said(D))
             /\ n[2] \in D
    <2>1. n[1] \in Seq(Said(D)) /\ n[2] \in D
        BY DEF Within
    <2>2. << Elem(Position(Steps(v), before, Head(n[1]))) >> \in Seq(Said(D))
        BY <1>1, StepSaid
    <2>3. Tail(n[1]) \in Seq(Said(D))
        BY <1>2, <2>1, HeadTailProperties
    <2> QED BY <2>1, <2>2, <2>3, ConcatProperties
<1>3. ASSUME NEW m \in Arrange(v, before)
      PROVE  m[1] \in Seq(Said(D)) /\ m[2] \in D
    <2>1. CASE m \in v
        BY <2>1 DEF Within
    <2>2. CASE m \notin v
        <3>1. PICK n \in v :
                  /\ n[1] # <<>>
                  /\ m = << << Elem(Position(Steps(v), before, Head(n[1]))) >> \o Tail(n[1]), n[2] >>
            BY <2>2 DEF Arrange
        <3>2. /\ m[1] = << Elem(Position(Steps(v), before, Head(n[1]))) >> \o Tail(n[1])
              /\ m[2] = n[2]
            BY <3>1
        <3> QED BY <1>2, <3>1, <3>2
    <2> QED BY <2>1, <2>2
<1> QED BY <1>3 DEF Within

LEMMA ConcatWithin ==
    ASSUME NEW D, NEW v \in Value, NEW w \in Value, Within(v, D), Within(w, D)
    PROVE  Within(Concat(v, w), D)
<1>1. ASSUME NEW n \in w, n[1] # <<>>, Head(n[1])[1] = "i"
      PROVE  /\ << Elem(Head(n[1])[2] + Length(v)) >> \o Tail(n[1]) \in Seq(Said(D))
             /\ n[2] \in D
    <2>1. n[1] \in Seq(Said(D)) /\ n[2] \in D
        BY DEF Within
    <2>2. Head(n[1]) \in Step
        BY <1>1, NodeType DEF Path
    <2>3. Head(n[1])[2] \in Nat
        BY <1>1, <2>2 DEF Step
    <2>4. Elem(Head(n[1])[2] + Length(v)) \in Said(D)
        BY <2>3, LengthType, StepSaid
    <2>5. << Elem(Head(n[1])[2] + Length(v)) >> \in Seq(Said(D))
        BY <2>4
    <2>6. Tail(n[1]) \in Seq(Said(D))
        BY <1>1, <2>1, HeadTailProperties
    <2> QED BY <2>1, <2>5, <2>6, ConcatProperties
<1>2. ASSUME NEW m \in Shifted(w, Length(v))
      PROVE  m[1] \in Seq(Said(D)) /\ m[2] \in D
    <2>1. PICK n \in w : /\ n[1] # <<>> /\ Head(n[1])[1] = "i"
                         /\ m = << << Elem(Head(n[1])[2] + Length(v)) >> \o Tail(n[1]), n[2] >>
        BY DEF Shifted
    <2>2. m[1] = << Elem(Head(n[1])[2] + Length(v)) >> \o Tail(n[1]) /\ m[2] = n[2]
        BY <2>1
    <2> QED BY <1>1, <2>1, <2>2
<1> QED BY <1>2 DEF Within, Concat

LEMMA FlattenIntoWithin ==
    ASSUME NEW D, NEW v \in Value, NEW w \in Value, Within(v, D), Within(w, D)
    PROVE  Within(FlattenInto(v, w), D)
BY ConcatWithin, PushWithin DEF FlattenInto

LEMMA MergeWithin ==
    ASSUME NEW D, NEW v, NEW w, Within(v, D), Within(w, D)
    PROVE  Within(Merge(v, w), D)
BY DEF Within, Merge

LEMMA AtWithin ==
    ASSUME NEW D, NEW v, Within(v, D), NEW p \in Path
    PROVE  Within(At(v, p), D)
<1> SUFFICES ASSUME NEW n \in v, Len(n[1]) >= Len(p)
             PROVE  From(n[1], p) \in Seq(Said(D)) /\ n[2] \in D
    BY DEF Within, At, Below
<1>1. n[1] \in Seq(Said(D)) /\ n[2] \in D
    BY DEF Within
<1>2. Len(p) \in Nat
    BY DEF Path
<1>3. SubSeq(n[1], Len(p) + 1, Len(n[1])) \in Seq(Said(D))
    BY <1>1, <1>2
<1> QED BY <1>1, <1>3 DEF From

LEMMA LiftWithin ==
    ASSUME NEW D, NEW p \in Seq(Said(D)), NEW v, Within(v, D)
    PROVE  Within(Lift(p, v), D)
<1>1. ASSUME NEW n \in v PROVE p \o n[1] \in Seq(Said(D)) /\ n[2] \in D
    <2>1. n[1] \in Seq(Said(D)) /\ n[2] \in D
        BY DEF Within
    <2> QED BY <2>1, ConcatProperties
<1>2. ASSUME NEW m \in Lift(p, v)
      PROVE  m[1] \in Seq(Said(D)) /\ m[2] \in D
    <2>1. PICK n \in v : m = << p \o n[1], n[2] >>
        BY DEF Lift
    <2>2. m[1] = p \o n[1] /\ m[2] = n[2]
        BY <2>1
    <2> QED BY <1>1, <2>2
<1> QED BY <1>2 DEF Within

LEMMA FlattenDeepWithin ==
    ASSUME NEW D, Basic(D), NEW v \in Value, Within(v, D)
    PROVE  Within(FlattenDeep(v), D)
<1> DEFINE rank(p) == Cardinality({ q \in Flat(v) : Precedes(q, p) })
           part(p) == Graft(Elem(rank(p)), At(v, p))
<1>1. Flat(v) \subseteq Paths(v)
    BY DEF Flat, Paths
<1>2. IsFiniteSet(Flat(v)) /\ Flat(v) \subseteq Path
    BY <1>1, PathsFinite, FS_Subset
<1>3. ASSUME NEW p \in Flat(v) PROVE Within(part(p), D)
    <2>1. rank(p) \in Nat
        BY <1>2, FS_Subset, FS_CardinalityType
    <2> HIDE DEF rank
    <2> QED BY <1>2, <2>1, StepSaid, AtWithin, GraftWithin
<1>4. FlattenDeep(v) = NoElems \cup UNION { part(p) : p \in Flat(v) }
    BY DEF FlattenDeep
<1>5. Within(NoElems, D)
    BY ConstantsWithin
<1> HIDE DEF part
<1> QED BY <1>3, <1>4, <1>5 DEF Within

LEMMA MergeDeepWithin ==
    ASSUME NEW D, Basic(D), NEW a \in Value, NEW b \in Value, Within(a, D), Within(b, D)
    PROVE  Within(MergeDeep(a, b), D)
<1> DEFINE part(p) == Lift(p, Met(a, b, p))
<1>1. Joined(a, b) \subseteq Paths(a) /\ Meeting(a, b) \subseteq Paths(a) \cup Paths(b)
    BY DEF Joined, Meeting, Objects, Paths
<1>2. \A p \in Paths(a) \cup Paths(b) : p \in Seq(Said(D)) /\ p \in Path
    BY PathsFinite DEF Paths, Within
<1>3. ASSUME NEW p \in Meeting(a, b) PROVE Within(part(p), D)
    <2>1. p \in Seq(Said(D)) /\ p \in Path
        BY <1>1, <1>2
    <2>2. Within(At(a, p), D) /\ Within(At(b, p), D)
        BY <2>1, AtWithin
    <2>3. CASE p \in Arrays(a) /\ p \in Arrays(b)
        <3>1. p \in Paths(a) /\ p \in Paths(b)
            BY <2>3 DEF Arrays, Paths
        <3>2. Within(Concat(At(a, p), At(b, p)), D)
            BY <2>2, <3>1, AtType, ConcatWithin
        <3> QED BY <2>1, <2>3, <3>2, LiftWithin DEF Met
    <2>4. CASE ~(p \in Arrays(a) /\ p \in Arrays(b))
        <3>1. Within(Met(a, b, p), D)
            BY <2>2, <2>4 DEF Met
        <3> QED BY <2>1, <3>1, LiftWithin
    <2> QED BY <2>3, <2>4
<1>4. Within({ << p, <<"obj">> >> : p \in Joined(a, b) }, D)
    BY <1>1, <1>2 DEF Within, Basic
<1>5. Within(NoKeys, D)
    BY ConstantsWithin
<1>6. MergeDeep(a, b) =
          NoKeys \cup { << p, <<"obj">> >> : p \in Joined(a, b) }
                 \cup UNION { part(p) : p \in Meeting(a, b) }
    BY DEF MergeDeep
<1> HIDE DEF part
<1> QED BY <1>3, <1>4, <1>5, <1>6 DEF Within

-----------------------------------------------------------------------------
(* What the interpreter and the properties' names add, which Closed bounds. *)

ScopesWithin(ctx, D) == \A i \in DOMAIN ctx : Within(ctx[i], D)

LEMMA WordsSaid ==
    ASSUME NEW D, Closed(D, Seq(Value), Value)
    PROVE  \A s \in Words : << "str", s >> \in D
BY DEF Closed

LEMMA StringsSaid ==
    ASSUME NEW D, Closed(D, Seq(Value), Value), NEW s \in Str, << "str", s >> \in D
    PROVE  /\ << "str", Unescape[s] >> \in D
           /\ s \in DOMAIN ByVar => << "str", ByVar[s] >> \in D
BY DEF Closed

LEMMA EvaluateWithin ==
    ASSUME NEW D, Closed(D, Seq(Value), Value), NEW s \in Str, << "str", s >> \in D,
           NEW ctx \in Seq(Value), ScopesWithin(ctx, D)
    PROVE  /\ Evaluate(s, ctx).st = "ok" => Within(Evaluate(s, ctx).v, D)
           /\ Interpolate(s, ctx).st = "ok" => Within(Interpolate(s, ctx).v, D)
BY DEF Closed, ScopesWithin

LEMMA FromNowWithin ==
    ASSUME NEW D, Closed(D, Seq(Value), Value), NEW s \in Str, NEW t \in Str,
           << "str", s >> \in D, << "str", t >> \in D, FromNow(s, t).st = "ok"
    PROVE  Within(FromNow(s, t).v, D)
BY DEF Closed

LEMMA JsonWithin ==
    ASSUME NEW D, Closed(D, Seq(Value), Value), NEW v \in Value, Within(v, D)
    PROVE  << "str", JsonText(v) >> \in D
BY DEF Closed

(* The names a loop binds are said where its property is. *)
LEMMA NamesSaid ==
    ASSUME NEW D, Closed(D, Seq(Value), Value), NEW p \in Str, << "str", p >> \in D
    PROVE  /\ p \in DOMAIN EachVars =>
                 /\ << "str", EachVars[p][1] >> \in D
                 /\ Len(EachVars[p]) # 1 => << "str", EachVars[p][2] >> \in D
           /\ p \in DOMAIN EachThreeVars =>
                 /\ << "str", EachThreeVars[p][1] >> \in D
                 /\ << "str", EachThreeVars[p][2] >> \in D
                 /\ Len(EachThreeVars[p]) # 2 => << "str", EachThreeVars[p][3] >> \in D
<1>1. /\ p \in DOMAIN EachVars =>
             \A i \in DOMAIN EachVars[p] : << "str", EachVars[p][i] >> \in D
      /\ p \in DOMAIN EachThreeVars =>
             \A i \in DOMAIN EachThreeVars[p] : << "str", EachThreeVars[p][i] >> \in D
    BY DEF Closed
<1>2. p \in DOMAIN EachVars =>
          1 \in DOMAIN EachVars[p] /\ (Len(EachVars[p]) # 1 => 2 \in DOMAIN EachVars[p])
    BY RenderAssumption
<1>3. p \in DOMAIN EachThreeVars =>
          /\ 1 \in DOMAIN EachThreeVars[p] /\ 2 \in DOMAIN EachThreeVars[p]
          /\ Len(EachThreeVars[p]) # 2 => 3 \in DOMAIN EachThreeVars[p]
    BY RenderAssumption
<1> QED BY <1>1, <1>2, <1>3

LEMMA ExtendWithin ==
    ASSUME NEW D, NEW ctx \in Seq(Value), ScopesWithin(ctx, D), NEW scope, Within(scope, D)
    PROVE  ScopesWithin(Extend(ctx, scope), D)
<1>1. /\ DOMAIN Append(ctx, scope) = 1..(Len(ctx) + 1) /\ DOMAIN ctx = 1..Len(ctx)
      /\ \A i \in 1..Len(ctx) : Append(ctx, scope)[i] = ctx[i]
      /\ Append(ctx, scope)[Len(ctx) + 1] = scope
    OBVIOUS
<1>2. \A i \in 1..(Len(ctx) + 1) : i = Len(ctx) + 1 \/ i \in 1..Len(ctx)
    OBVIOUS
<1> QED BY <1>1, <1>2 DEF ScopesWithin, Extend

LEMMA ItemScopeWithin ==
    ASSUME NEW D, Basic(D), Closed(D, Seq(Value), Value), NEW p \in DOMAIN EachVars,
           << "str", p >> \in D, NEW i \in Nat, NEW item, Within(item, D)
    PROVE  Within(ItemScope(EachVars[p], i, item), D)
<1> DEFINE scope == Bind(NoKeys, EachVars[p][1], item)
<1>1. p \in Str
    BY RenderAssumption
<1>2. Within(scope, D)
    BY <1>1, NamesSaid, NamesType, ConstantsWithin, InsertWithin DEF Bind
<1> HIDE DEF scope
<1>3. Len(EachVars[p]) # 1 => Within(Bind(scope, EachVars[p][2], Num(i)), D)
    BY <1>1, <1>2, NamesSaid, NamesType, ConstantsWithin, InsertWithin DEF Bind
<1> QED BY <1>2, <1>3 DEF ItemScope, scope

LEMMA MemberScopeWithin ==
    ASSUME NEW D, Basic(D), Closed(D, Seq(Value), Value), NEW p \in DOMAIN EachVars,
           << "str", p >> \in D, NEW k \in Str, << "str", k >> \in D, NEW item, Within(item, D)
    PROVE  Within(MemberScope(EachVars[p], k, item), D)
<1>1. p \in Str
    BY RenderAssumption
<1>2. Within(Text(k), D) /\ Within(NoKeys, D)
    BY ConstantsWithin
<1>3. << "str", "key" >> \in D /\ << "str", "val" >> \in D
    BY WordsSaid DEF Words
<1>4. Within(Insert(Insert(NoKeys, "key", Text(k)), "val", item), D)
    BY <1>2, <1>3, NamesType, InsertWithin
<1>5. Within(Bind(NoKeys, EachVars[p][1], Insert(Insert(NoKeys, "key", Text(k)), "val", item)), D)
    BY <1>1, <1>2, <1>4, NamesSaid, NamesType, InsertWithin DEF Bind
<1>6. ASSUME Len(EachVars[p]) # 1
      PROVE  Within(Bind(Bind(NoKeys, EachVars[p][2], Text(k)), EachVars[p][1], item), D)
    <2>1. Within(Bind(NoKeys, EachVars[p][2], Text(k)), D)
        BY <1>1, <1>2, <1>6, NamesSaid, NamesType, InsertWithin DEF Bind
    <2> QED BY <1>1, <2>1, NamesSaid, NamesType, InsertWithin DEF Bind
<1> QED BY <1>5, <1>6 DEF MemberScope

LEMMA AccScopeWithin ==
    ASSUME NEW D, Basic(D), Closed(D, Seq(Value), Value), NEW p \in DOMAIN EachThreeVars,
           << "str", p >> \in D, NEW acc, Within(acc, D), NEW i \in Nat, NEW item, Within(item, D)
    PROVE  Within(AccScope(EachThreeVars[p], acc, i, item), D)
<1> DEFINE scope == Bind(Bind(NoKeys, EachThreeVars[p][1], acc), EachThreeVars[p][2], item)
<1>1. p \in Str
    BY RenderAssumption
<1>2. Within(Bind(NoKeys, EachThreeVars[p][1], acc), D)
    BY <1>1, NamesSaid, NamesType, ConstantsWithin, InsertWithin DEF Bind
<1>3. Within(scope, D)
    BY <1>1, <1>2, NamesSaid, NamesType, InsertWithin DEF Bind
<1> HIDE DEF scope
<1>4. Len(EachThreeVars[p]) # 2 => Within(Bind(scope, EachThreeVars[p][3], Num(i)), D)
    BY <1>1, <1>3, NamesSaid, NamesType, ConstantsWithin, InsertWithin DEF Bind
<1> QED BY <1>3, <1>4 DEF AccScope, scope

-----------------------------------------------------------------------------
(* The invariant.  A result may be a deletion marker in passing. *)

FrameWithin(f, D) ==
    /\ Within(f.tpl, D) /\ Within(f.val, D) /\ Within(f.acc, D)
    /\ ScopesWithin(f.ctx, D)
Confined(D) ==
    /\ ret.v = Marker \/ Within(ret.v, D)
    /\ \A i \in DOMAIN stack : FrameWithin(stack[i], D)
Speaks(D) == Within(template, D) /\ Within(context, D)

LEMMA TopWithin ==
    ASSUME NEW D, Typed, Confined(D), Running
    PROVE  /\ FrameWithin(Top, D)
           /\ \A k : Within(Field(Top.tpl, k), D)
           /\ \A k \in Keys(Top.tpl) : k \in Str /\ << "str", k >> \in D
           /\ \A e : Within(Child(Top.val, e), D)
           /\ \A k \in Keys(Top.val) : k \in Str /\ << "str", k >> \in D
           /\ Within(Arg, D)
<1>1. FrameWithin(Top, D)
    BY TopPlace DEF Confined
<1>2. Top.tpl \in Value /\ Top.val \in Value
    BY TopFields
<1>3. Within(Top.tpl, D) /\ Within(Top.val, D)
    BY <1>1 DEF FrameWithin
<1>4. \A k : Within(Field(Top.tpl, k), D)
    BY <1>3, FieldWithin
<1>5. \A e : Within(Child(Top.val, e), D)
    BY <1>3, ChildWithin
<1>6. /\ \A k \in Keys(Top.tpl) : k \in Str /\ << "str", k >> \in D
      /\ \A k \in Keys(Top.val) : k \in Str /\ << "str", k >> \in D
    BY <1>2, <1>3, StepsWithin, KeyStep
<1> QED BY <1>1, <1>4, <1>5, <1>6 DEF Arg

(* What is not a deletion marker is within the labels. *)
LEMMA ResultWithin ==
    ASSUME NEW D, Confined(D), ret.v # Marker \/ Kind(ret.v) # "del"
    PROVE  Within(ret.v, D)
<1>1. << <<>>, Root(Marker) >> \in Marker
    BY ConstantsType, RootType
<1>2. Root(Marker) = <<"del">>
    BY <1>1 DEF Marker, Leaf
<1>3. Kind(Marker) = "del"
    BY <1>2 DEF Kind
<1> QED BY <1>3 DEF Confined

-----------------------------------------------------------------------------
(* What handlers do with their frame. *)

LEMMA StackWithin ==
    ASSUME NEW D, Typed, Confined(D), Running, NEW f, NEW g, FrameWithin(f, D), FrameWithin(g, D),
           stack' \in { stack, Rest, Append(Rest, f), Rest \o << f, g >> }
    PROVE  \A i \in DOMAIN stack' : FrameWithin(stack'[i], D)
<1> DEFINE n == Len(stack)
<1>1. DOMAIN stack = 1..n /\ n \in Nat /\ \A i \in 1..n : FrameWithin(stack[i], D)
    BY TopPlace DEF Confined
<1>2. CASE stack' = stack
    BY <1>1, <1>2
<1>3. CASE stack' = Rest
    <2>1. DOMAIN stack' = 1..(n - 1) /\ \A i \in DOMAIN stack' : stack'[i] = stack[i]
        BY <1>3, StackChanges
    <2> HIDE DEF n
    <2> QED BY <1>1, <2>1, LastOrBefore
<1>4. CASE stack' = Append(Rest, f)
    <2>1. /\ DOMAIN stack' = 1..n /\ stack'[n] = f
          /\ \A i \in 1..(n - 1) : stack'[i] = stack[i]
        BY <1>4, StackChanges
    <2> HIDE DEF n
    <2> QED BY <1>1, <2>1, LastOrBefore
<1>5. CASE stack' = Rest \o << f, g >>
    <2>1. /\ DOMAIN stack' = 1..(n + 1) /\ stack'[n] = f /\ stack'[n + 1] = g
          /\ \A i \in 1..(n - 1) : stack'[i] = stack[i]
        BY <1>5, StackChanges
    <2> HIDE DEF n
    <2> QED BY <1>1, <2>1, LastOrBefore
<1> QED BY <1>2, <1>3, <1>4, <1>5

LEMMA FrameConfined ==
    ASSUME NEW D, Basic(D), NEW tpl, NEW ctx, Within(tpl, D), ScopesWithin(ctx, D)
    PROVE  FrameWithin(Frame(tpl, ctx), D)
BY ConstantsWithin DEF FrameWithin, Frame

LEMMA GotoConfined ==
    ASSUME NEW D, Basic(D), Typed, Confined(D), Running, NEW f, FrameWithin(f, D), Goto(f)
    PROVE  Confined(D)'
<1>1. \A i \in DOMAIN stack' : FrameWithin(stack'[i], D)
    BY StackWithin DEF Goto
<1>2. Within(ret'.v, D)
    BY ConstantsWithin DEF Goto, Idle
<1> QED BY <1>1, <1>2 DEF Confined

LEMMA CallConfined ==
    ASSUME NEW D, Basic(D), Typed, Confined(D), Running, NEW f, FrameWithin(f, D),
           NEW tpl, NEW ctx, Within(tpl, D), ScopesWithin(ctx, D), Call(f, tpl, ctx)
    PROVE  Confined(D)'
<1>1. CASE stack' = Rest \o << f, Frame(tpl, ctx) >> /\ ret' = Idle
    <2>1. FrameWithin(Frame(tpl, ctx), D)
        BY FrameConfined
    <2>2. \A i \in DOMAIN stack' : FrameWithin(stack'[i], D)
        BY <1>1, <2>1, StackWithin
    <2>3. Within(ret'.v, D)
        BY <1>1, ConstantsWithin DEF Idle
    <2> QED BY <2>2, <2>3 DEF Confined
<1>2. CASE UNCHANGED << stack, ret >>
    BY <1>2 DEF Confined
<1> QED BY <1>1, <1>2 DEF Call

LEMMA ReturnConfined ==
    ASSUME NEW D, Typed, Confined(D), Running, NEW v, v = Marker \/ Within(v, D), Return(v)
    PROVE  Confined(D)'
<1>1. FrameWithin(Top, D)
    BY TopWithin
<1>2. \A i \in DOMAIN stack' : FrameWithin(stack'[i], D)
    BY <1>1, StackWithin DEF Return
<1>3. ret'.v = v
    BY DEF Return, Ok
<1> QED BY <1>2, <1>3 DEF Confined

LEMMA RaiseConfined ==
    ASSUME NEW D, Basic(D), Typed, Confined(D), Running, Raise \/ Abort \/ \E o : Failing(o)
    PROVE  Confined(D)'
<1>1. CASE Raise
    <2>1. FrameWithin(Top, D)
        BY TopWithin
    <2>2. \A i \in DOMAIN stack' : FrameWithin(stack'[i], D)
        BY <1>1, <2>1, StackWithin DEF Raise
    <2>3. Within(ret'.v, D)
        BY <1>1, ConstantsWithin DEF Raise, Err
    <2> QED BY <2>2, <2>3 DEF Confined
<1>2. CASE Abort
    BY <1>2 DEF Abort, Confined
<1> QED BY <1>1, <1>2 DEF Failing

(* The frames that handlers go on with. *)
LEMMA FramesConfined ==
    ASSUME NEW D, Basic(D), Typed, Confined(D), Running
    PROVE  /\ \A e : FrameWithin(Advance(e), D)
           /\ \A pc : FrameWithin(Inherit(pc), D)
           /\ \A acc : Within(acc, D) =>
                 /\ FrameWithin([Top EXCEPT !.acc = acc], D)
                 /\ \A e : FrameWithin([Advance(e) EXCEPT !.acc = acc], D)
           /\ \A val : Within(val, D) => \A pc : FrameWithin([Inherit(pc) EXCEPT !.val = val], D)
           /\ \A val, acc : Within(val, D) /\ Within(acc, D) => FrameWithin(Loop(val, acc), D)
<1>1. Top \in FrameType /\ FrameWithin(Top, D)
    BY TopGood, TopWithin DEF Good
<1>2. \A e : Advance(e).tpl = Top.tpl /\ Advance(e).val = Top.val
             /\ Advance(e).acc = Top.acc /\ Advance(e).ctx = Top.ctx
    BY <1>1 DEF Advance, FrameType
<1>3. \A e, acc : LET f == [Advance(e) EXCEPT !.acc = acc]
                  IN  f.tpl = Top.tpl /\ f.val = Top.val /\ f.acc = acc /\ f.ctx = Top.ctx
    BY <1>1 DEF Advance, FrameType
<1>4. \A acc : LET f == [Top EXCEPT !.acc = acc]
               IN  f.tpl = Top.tpl /\ f.val = Top.val /\ f.acc = acc /\ f.ctx = Top.ctx
    BY <1>1 DEF FrameType
<1>5. \A pc : Inherit(pc).tpl = Top.tpl /\ Inherit(pc).val = Top.val
              /\ Inherit(pc).acc = Top.acc /\ Inherit(pc).ctx = Top.ctx
    BY <1>1 DEF Inherit, FrameType
<1>6. \A pc, val : LET f == [Inherit(pc) EXCEPT !.val = val]
                   IN  f.tpl = Top.tpl /\ f.val = val /\ f.acc = Top.acc /\ f.ctx = Top.ctx
    BY <1>1 DEF Inherit, FrameType
<1>7. \A val, acc : Loop(val, acc).tpl = Top.tpl /\ Loop(val, acc).val = val
                    /\ Loop(val, acc).acc = acc /\ Loop(val, acc).ctx = Top.ctx
    BY <1>1 DEF Loop, FrameType
<1> QED BY <1>1, <1>2, <1>3, <1>4, <1>5, <1>6, <1>7 DEF FrameWithin

-----------------------------------------------------------------------------
(* Every handler keeps what it puts into its frame, passes to a callee or   *)
(* returns within the labels.  Those that return, raise or abort first.    *)

LEMMA PropagateConfined ==
    ASSUME NEW D, Typed, Confined(D), Propagate
    PROVE  Confined(D)'
<1>1. Running
    BY DEF Propagate
<1>2. FrameWithin(Top, D)
    BY <1>1, TopWithin
<1>3. \A i \in DOMAIN stack' : FrameWithin(stack'[i], D)
    BY <1>1, <1>2, StackWithin DEF Propagate
<1> QED BY <1>3 DEF Propagate, Confined

LEMMA FinishConfined ==
    ASSUME NEW D, Basic(D), Confined(D), Finish
    PROVE  Confined(D)'
<1>1. Within(ToJson(ret.v), D)
    BY ToJsonWithin DEF Confined
<1>2. Within(ret'.v, D)
    BY <1>1, ConstantsWithin DEF Finish, Ok, Err
<1> QED BY <1>2 DEF Finish, Confined

LEMMA LeavesConfined ==
    ASSUME NEW D, Basic(D), Typed, Confined(D),
           \/ Scalar \/ Unreachable \/ KeyFails \/ Reserved \/ LoopDone
           \/ Reject \/ RejectArgument \/ Pass \/ FindNone
    PROVE  Confined(D)'
<1>1. Running
    BY DEF Scalar, Unreachable, KeyFails, Reserved, LoopDone, Reject, RejectArgument, Pass,
           FindNone, Ready, Resumed
<1>2. \/ \E v \in { Top.tpl, Top.acc, ret.v, Marker } : Return(v)
      \/ Raise \/ Abort \/ \E o : Failing(o)
    BY DEF Scalar, Unreachable, KeyFails, Reserved, LoopDone, Reject, RejectArgument, Pass, FindNone
<1>3. \A v \in { Top.tpl, Top.acc, ret.v, Marker } : v = Marker \/ Within(v, D)
    BY <1>1, TopWithin DEF FrameWithin, Confined
<1> QED BY <1>1, <1>2, <1>3, ReturnConfined, RaiseConfined

LEMMA StringConfined ==
    ASSUME NEW D, Basic(D), Closed(D, Seq(Value), Value), Typed, Confined(D), String
    PROVE  Confined(D)'
<1>1. Running /\ Kind(Top.tpl) = "str"
    BY DEF String, Ready
<1>2. Top.tpl \in Value /\ Within(Top.tpl, D)
    BY <1>1, TopFields, TopWithin DEF FrameWithin
<1>3. StrOf(Top.tpl) \in Str /\ << "str", StrOf(Top.tpl) >> \in D
    BY <1>1, <1>2, StringType, RootWithin DEF StrOf
<1> DEFINE o == Interpolate(StrOf(Top.tpl), Top.ctx)
<1>4. o.st = "ok" => Within(o.v, D)
    BY <1>1, <1>3, TopFields, TopWithin, EvaluateWithin DEF FrameWithin
<1>5. (o.st = "ok" /\ Return(o.v)) \/ Failing(o)
    BY DEF String
<1> HIDE DEF o
<1> QED BY <1>1, <1>4, <1>5, ReturnConfined, RaiseConfined

LEMMA EvalConfined ==
    ASSUME NEW D, Basic(D), Closed(D, Seq(Value), Value), Typed, Confined(D), Eval
    PROVE  Confined(D)'
<1>1. Running /\ Top.op = "$eval" /\ Kind(Arg) = "str"
    BY DEF Eval, Begun, Ready, Accepted, WellShaped
<1>2. Arg \in Value /\ Within(Arg, D)
    BY <1>1, TopFields, TopWithin
<1>3. StrOf(Arg) \in Str /\ << "str", StrOf(Arg) >> \in D
    BY <1>1, <1>2, StringType, RootWithin DEF StrOf
<1> DEFINE o == Evaluate(StrOf(Arg), Top.ctx)
<1>4. o.st = "ok" => Within(o.v, D)
    BY <1>1, <1>3, TopFields, TopWithin, EvaluateWithin DEF FrameWithin
<1>5. (o.st = "ok" /\ Return(o.v)) \/ Failing(o)
    BY DEF Eval
<1> HIDE DEF o
<1> QED BY <1>1, <1>4, <1>5, ReturnConfined, RaiseConfined

LEMMA JsonConfined ==
    ASSUME NEW D, Basic(D), Closed(D, Seq(Value), Value), Typed, Confined(D), Json
    PROVE  Confined(D)'
<1>1. Running /\ ret.v \in Value
    BY DEF Json, Resumed, Typed
<1>2. ToJson(ret.v) \in Value /\ Within(ToJson(ret.v), D)
    BY <1>1, ToJsonType, ToJsonWithin DEF Confined
<1>3. Within(Text(JsonText(ToJson(ret.v))), D)
    BY <1>2, JsonWithin, ConstantsWithin
<1>4. Return(Text(JsonText(ToJson(ret.v)))) \/ Raise
    BY DEF Json
<1> QED BY <1>1, <1>3, <1>4, ReturnConfined, RaiseConfined

LEMMA FromNowResultConfined ==
    ASSUME NEW D, Basic(D), Closed(D, Seq(Value), Value), Typed, Confined(D), FromNowResult
    PROVE  Confined(D)'
<1>1. /\ Running /\ Top.op = "$fromNow" /\ Top.pc = "value"
      /\ ret.v \in Value /\ Kind(ret.v) = "str"
    BY DEF FromNowResult, Argument, Resumed, Expected, Typed
<1>2. Kind(Top.val) = "str" /\ Top.val \in Value
    BY <1>1, TopGood, TopFields DEF Good
<1>3. Within(ret.v, D) /\ Within(Top.val, D)
    BY <1>1, ResultWithin, TopWithin DEF FrameWithin
<1>4. /\ StrOf(ret.v) \in Str /\ << "str", StrOf(ret.v) >> \in D
      /\ StrOf(Top.val) \in Str /\ << "str", StrOf(Top.val) >> \in D
    BY <1>1, <1>2, <1>3, StringType, RootWithin DEF StrOf
<1> DEFINE o == FromNow(StrOf(ret.v), StrOf(Top.val))
<1>5. o.st = "ok" => Within(o.v, D)
    BY <1>4, FromNowWithin
<1>6. (o.st = "ok" /\ Return(o.v)) \/ Failing(o)
    BY DEF FromNowResult
<1> HIDE DEF o
<1> QED BY <1>1, <1>5, <1>6, ReturnConfined, RaiseConfined

LEMMA ResultsConfined ==
    ASSUME NEW D, Basic(D), Typed, Confined(D), FlattenDeepResult \/ ReverseResult \/ SortPlain
    PROVE  Confined(D)'
<1>1. Running /\ ret.v \in Value /\ Kind(ret.v) = "arr"
    BY DEF FlattenDeepResult, ReverseResult, SortPlain, Argument, Resumed, Expected, Typed
<1>2. Within(ret.v, D)
    BY <1>1, ResultWithin
<1>3. \/ Return(FlattenDeep(ret.v)) \/ Return(Reverse(ret.v)) \/ Return(ret.v)
      \/ Return(Sort(ret.v, ret.v)) \/ Raise \/ Abort
    BY DEF FlattenDeepResult, ReverseResult, SortPlain, SortResult
<1>4. Within(FlattenDeep(ret.v), D) /\ Within(Reverse(ret.v), D) /\ Within(Sort(ret.v, ret.v), D)
    BY <1>1, <1>2, FlattenDeepWithin, ArrangeWithin DEF Reverse, Sort
<1> QED BY <1>1, <1>2, <1>3, <1>4, ReturnConfined, RaiseConfined

LEMMA SortDoneConfined ==
    ASSUME NEW D, Basic(D), Typed, Confined(D), SortDone
    PROVE  Confined(D)'
<1>1. Running
    BY DEF SortDone, Ready
<1>2. Return(Sort(Top.val, Top.acc)) \/ Raise \/ Abort
    BY DEF SortDone, SortResult
<1>3. Within(Sort(Top.val, Top.acc), D)
    BY <1>1, TopFields, TopWithin, ArrangeWithin DEF Sort, FrameWithin
<1> QED BY <1>1, <1>2, <1>3, ReturnConfined, RaiseConfined

-----------------------------------------------------------------------------
(* Those that go on in their frame. *)

LEMMA BeginConfined ==
    ASSUME NEW D, Basic(D), Typed, Confined(D), Array \/ Object \/ Operator
    PROVE  Confined(D)'
<1>1. Running /\ Top \in FrameType /\ FrameWithin(Top, D)
    BY TopGood, TopWithin DEF Array, Object, Operator, Ready, Good
<1>2. \/ Goto([Top EXCEPT !.pc = "elems", !.todo = Steps(Top.tpl), !.acc = NoElems])
      \/ Goto([Top EXCEPT !.pc = "fields", !.todo = Steps(Top.tpl), !.acc = NoKeys])
      \/ \E k : Goto([Top EXCEPT !.op = k, !.pc = "start"])
    BY DEF Array, Object, Operator
<1>3. /\ FrameWithin([Top EXCEPT !.pc = "elems", !.todo = Steps(Top.tpl), !.acc = NoElems], D)
      /\ FrameWithin([Top EXCEPT !.pc = "fields", !.todo = Steps(Top.tpl), !.acc = NoKeys], D)
      /\ \A k : FrameWithin([Top EXCEPT !.op = k, !.pc = "start"], D)
    BY <1>1, ConstantsWithin DEF FrameWithin, FrameType
<1> QED BY <1>1, <1>2, <1>3, GotoConfined

(* Nothing but $match pushes a deletion marker. *)
LEMMA KeepConfined ==
    ASSUME NEW D, Basic(D), Typed, Confined(D), ArrayKeep \/ MapKeep \/ ReduceKeep \/ MatchKeep,
           <<"del">> \in D \/ Top.op # "$match"
    PROVE  Confined(D)'
<1>1. Running
    BY DEF ArrayKeep, MapKeep, ReduceKeep, MatchKeep, Resumed
<1>2. Top.acc \in Value /\ Within(Top.acc, D)
    BY <1>1, TopFields, TopWithin DEF FrameWithin
<1>3. ret.v # Marker => Within(Push(Top.acc, ret.v), D)
    BY <1>2, ResultWithin, PushWithin
<1>4. Within(Kept(Top.acc, ret.v), D)
    BY <1>2, <1>3 DEF Kept
<1>5. ASSUME MatchKeep PROVE Within(Push(Top.acc, ret.v), D)
    <2>1. <<"del">> \in D
        BY <1>5 DEF MatchKeep, Resumed
    <2>2. Within(Marker, D)
        BY <2>1, LeafWithin DEF Marker
    <2> QED BY <1>2, <1>3, <2>2, PushWithin
<1>6. Kind(ret.v) = "obj" => Within(Merge(Top.acc, ret.v), D)
    BY <1>2, ResultWithin, MergeWithin
<1>7. \/ Goto(Top) \/ Raise
      \/ \E acc : Within(acc, D) /\ Goto([Top EXCEPT !.acc = acc])
    BY <1>4, <1>5, <1>6, ResultWithin DEF ArrayKeep, MapKeep, ReduceKeep, MatchKeep
<1> QED BY <1>1, <1>7, TopWithin, FramesConfined, GotoConfined, RaiseConfined

LEMMA ObjectInsertConfined ==
    ASSUME NEW D, Basic(D), Contract(Seq(Value), Value), Closed(D, Seq(Value), Value),
           Typed, Confined(D), ObjectInsert
    PROVE  Confined(D)'
<1>1. Running
    BY DEF ObjectInsert, Resumed
<1>2. CASE Goto(Top)
    BY <1>1, <1>2, TopWithin, GotoConfined
<1>3. CASE ret.v # Marker /\ \E k \in Keys(Top.tpl) :
             LET o == Interpolate(Unescape[k], Top.ctx)
             IN  (o.st = "ok" /\ Goto([Top EXCEPT !.acc = Insert(@, StrOf(o.v), ret.v)])) \/ Failing(o)
    <2>1. PICK k \in Keys(Top.tpl) :
             LET o == Interpolate(Unescape[k], Top.ctx)
             IN  (o.st = "ok" /\ Goto([Top EXCEPT !.acc = Insert(@, StrOf(o.v), ret.v)])) \/ Failing(o)
        BY <1>3
    <2>2. k \in Str /\ << "str", k >> \in D
        BY <1>1, TopWithin
    <2>3. Unescape[k] \in Str /\ << "str", Unescape[k] >> \in D
        BY <2>2, StringsSaid, RenderAssumption
    <2> DEFINE o == Interpolate(Unescape[k], Top.ctx)
    <2>4. o \in Outcome /\ (o.st = "ok" => Kind(o.v) = "str")
        BY <1>1, <2>3, TopFields DEF Contract
    <2>5. o.st = "ok" => Within(o.v, D)
        BY <1>1, <2>3, TopFields, TopWithin, EvaluateWithin DEF FrameWithin
    <2>6. CASE o.st = "ok" /\ Goto([Top EXCEPT !.acc = Insert(@, StrOf(o.v), ret.v)])
        <3>1. StrOf(o.v) \in Str /\ << "str", StrOf(o.v) >> \in D
            BY <2>4, <2>5, <2>6, StringType, RootWithin DEF Outcome, StrOf
        <3>2. Within(Insert(Top.acc, StrOf(o.v), ret.v), D)
            BY <1>1, <1>3, <3>1, TopWithin, ResultWithin, InsertWithin DEF FrameWithin
        <3> HIDE DEF o
        <3> QED BY <1>1, <2>6, <3>2, FramesConfined, GotoConfined
    <2>7. CASE Failing(o)
        BY <1>1, <2>7, RaiseConfined
    <2> QED BY <2>1, <2>6, <2>7
<1> QED BY <1>2, <1>3 DEF ObjectInsert

LEMMA LoopBeginConfined ==
    ASSUME NEW D, Basic(D), Typed, Confined(D), FoldBegin \/ SortBy \/ LoopBegin
    PROVE  Confined(D)'
<1>1. Running /\ (Kind(ret.v) \in {"arr", "obj"})
    BY DEF FoldBegin, SortBy, LoopBegin, Argument, Resumed, Expected
<1>2. Raise \/ \E acc \in { NoElems, NoKeys, Null } : Goto(Loop(ret.v, acc))
    BY DEF FoldBegin, SortBy, LoopBegin
<1>3. Within(ret.v, D)
    BY <1>1, ResultWithin
<1>4. \A acc \in { NoElems, NoKeys, Null } : Within(acc, D)
    BY ConstantsWithin
<1> QED BY <1>1, <1>2, <1>3, <1>4, FramesConfined, GotoConfined, RaiseConfined

LEMMA ReduceBeginConfined ==
    ASSUME NEW D, Basic(D), Typed, Confined(D), ReduceBegin
    PROVE  Confined(D)'
<1>1. Running
    BY DEF ReduceBegin, Resumed
<1>2. \/ Abort \/ Raise
      \/ Kind(ret.v) = "arr" /\ Goto(Loop(ret.v, Field(Top.tpl, "initial")))
    BY DEF ReduceBegin
<1>3. Kind(ret.v) = "arr" => Within(ret.v, D)
    BY ResultWithin
<1> QED BY <1>1, <1>2, <1>3, TopWithin, FramesConfined, GotoConfined, RaiseConfined

LEMMA BranchesBeginConfined ==
    ASSUME NEW D, Basic(D), Typed, Confined(D), MatchBegin \/ SwitchBegin
    PROVE  Confined(D)'
<1>1. Running
    BY DEF MatchBegin, SwitchBegin, Begun, Ready
<1>2. Goto(Loop(Arg, NoElems)) \/ Goto(Loop(Arg, NoKeys))
    BY DEF MatchBegin, SwitchBegin
<1>3. Within(Arg, D) /\ Within(NoElems, D) /\ Within(NoKeys, D)
    BY <1>1, TopWithin, ConstantsWithin
<1> QED BY <1>1, <1>2, <1>3, FramesConfined, GotoConfined

LEMMA FoldItemConfined ==
    ASSUME NEW D, Basic(D), Typed, Confined(D), FlattenItem \/ MergeItem
    PROVE  Confined(D)'
<1>1. Running
    BY DEF FlattenItem, MergeItem, Ready
<1>2. PICK e \in Steps(Top.val) :
          \/ \E acc \in { FlattenInto(Advance(e).acc, Child(Top.val, e)),
                          Merge(Advance(e).acc, Child(Top.val, e)),
                          MergeDeep(Advance(e).acc, Child(Top.val, e)) } :
                 Goto([Advance(e) EXCEPT !.acc = acc])
          \/ Raise
    BY DEF FlattenItem, MergeItem
<1>3. Advance(e).acc = Top.acc
    BY <1>1, TopGood DEF Advance, Good, FrameType
<1>4. /\ Top.acc \in Value /\ Within(Top.acc, D)
      /\ Child(Top.val, e) \in Value /\ Within(Child(Top.val, e), D)
    BY <1>1, TopFields, ItemType, TopWithin DEF FrameWithin
<1>5. /\ Within(FlattenInto(Top.acc, Child(Top.val, e)), D)
      /\ Within(Merge(Top.acc, Child(Top.val, e)), D)
      /\ Within(MergeDeep(Top.acc, Child(Top.val, e)), D)
    BY <1>4, FlattenIntoWithin, MergeWithin, MergeDeepWithin
<1> QED BY <1>1, <1>2, <1>3, <1>5, FramesConfined, GotoConfined, RaiseConfined

LEMMA SortKeyConfined ==
    ASSUME NEW D, Basic(D), Closed(D, Seq(Value), Value), Typed, Confined(D), SortKey
    PROVE  Confined(D)'
<1>1. Running /\ Top.op = "$sort" /\ Top.pc = "each"
    BY DEF SortKey, Ready
<1>2. PICK e \in Steps(Top.val), p \in Others \cap DOMAIN ByVar :
          LET scope == Bind(NoKeys, ByVar[p], Child(Top.val, e))
              o == Evaluate(StrOf(Field(Top.tpl, p)), Extend(Top.ctx, scope))
          IN  (o.st = "ok" /\ Goto([Advance(e) EXCEPT !.acc = Put(@, e, o.v)])) \/ Failing(o)
    BY DEF SortKey
<1> DEFINE scope == Bind(NoKeys, ByVar[p], Child(Top.val, e))
           o == Evaluate(StrOf(Field(Top.tpl, p)), Extend(Top.ctx, scope))
<1>3. StrOf(Field(Top.tpl, p)) \in Str /\ << "str", StrOf(Field(Top.tpl, p)) >> \in D
    <2>1. Kind(Field(Top.tpl, p)) = "str"
        BY <1>1, TopGood DEF Good, Others
    <2> QED BY <1>1, <2>1, TopFields, TopWithin, StringType, RootWithin DEF StrOf
<1>4. ByVar[p] \in Str /\ << "str", ByVar[p] >> \in D
    BY <1>1, TopWithin, StringsSaid, RenderAssumption DEF Others
<1>5. scope \in Value /\ Within(scope, D)
    BY <1>1, <1>4, ItemType, ConstantsType, InsertType, TopWithin, ConstantsWithin, InsertWithin
       DEF Bind
<1>6. Extend(Top.ctx, scope) \in Seq(Value) /\ ScopesWithin(Extend(Top.ctx, scope), D)
    <2> HIDE DEF scope
    <2> QED BY <1>1, <1>5, TopFields, TopWithin, ExtendType, ExtendWithin DEF FrameWithin
<1>7. o.st = "ok" => Within(o.v, D)
    BY <1>3, <1>6, EvaluateWithin
<1>8. CASE o.st = "ok" /\ Goto([Advance(e) EXCEPT !.acc = Put(@, e, o.v)])
    <2>1. Advance(e).acc = Top.acc
        BY <1>1, TopGood DEF Advance, Good, FrameType
    <2>2. e \in Said(D)
        BY <1>1, TopFields, TopWithin, StepsWithin DEF FrameWithin
    <2>3. Within(Put(Top.acc, e, o.v), D)
        BY <1>1, <1>7, <1>8, <2>2, TopWithin, PutWithin DEF FrameWithin
    <2> HIDE DEF o
    <2> QED BY <1>1, <1>8, <2>1, <2>3, FramesConfined, GotoConfined
<1>9. CASE Failing(o)
    BY <1>1, <1>9, RaiseConfined
<1> QED BY <1>2, <1>8, <1>9

LEMMA SwitchConditionConfined ==
    ASSUME NEW D, Basic(D), Typed, Confined(D), SwitchCondition \/ SwitchDefault
    PROVE  Confined(D)'
<1>1. Running
    BY DEF SwitchCondition, SwitchDefault, Ready
<1>2. \/ (\E e : Goto(Advance(e))) \/ Raise \/ (\E o : Failing(o))
      \/ \E k \in Keys(Top.val) :
             Goto([Advance(Key(k)) EXCEPT !.acc = Insert(@, k, Field(Top.val, k))])
    BY DEF SwitchCondition, SwitchDefault
<1>3. \A e : Advance(e).acc = Top.acc
    BY <1>1, TopGood DEF Advance, Good, FrameType
<1>4. \A k \in Keys(Top.val) : Within(Insert(Top.acc, k, Field(Top.val, k)), D)
    BY <1>1, TopWithin, InsertWithin DEF FrameWithin, Field
<1> QED BY <1>1, <1>2, <1>3, <1>4, FramesConfined, GotoConfined, RaiseConfined

-----------------------------------------------------------------------------
(* Those that call _render. *)

LEMMA ElementConfined ==
    ASSUME NEW D, Basic(D), Typed, Confined(D), ArrayElement \/ ObjectMember
    PROVE  Confined(D)'
<1>1. Running
    BY DEF ArrayElement, ObjectMember, Ready
<1>2. PICK e : Call(Advance(e), Child(Top.tpl, e), Top.ctx)
    BY DEF ArrayElement, ObjectMember
<1>3. Within(Child(Top.tpl, e), D) /\ ScopesWithin(Top.ctx, D)
    BY <1>1, TopWithin, ChildWithin DEF FrameWithin
<1> QED BY <1>1, <1>2, <1>3, FramesConfined, CallConfined

LEMMA ArgumentConfined ==
    ASSUME NEW D, Basic(D), Typed, Confined(D), RenderArgument \/ FromNowFrom \/ If
    PROVE  Confined(D)'
<1>1. Running
    BY DEF RenderArgument, FromNowFrom, If, Begun, Ready
<1>2. \/ \E pc : Call(Inherit(pc), Arg, Top.ctx)
      \/ \E pc, k : Call(Inherit(pc), Field(Top.tpl, k), Top.ctx)
      \/ Return(Marker) \/ \E o : Failing(o)
    BY DEF RenderArgument, FromNowFrom, If
<1>3. ScopesWithin(Top.ctx, D)
    BY <1>1, TopWithin DEF FrameWithin
<1> QED BY <1>1, <1>2, <1>3, TopWithin, FramesConfined, CallConfined, ReturnConfined, RaiseConfined

LEMMA LetBodyConfined ==
    ASSUME NEW D, Basic(D), Typed, Confined(D), LetBody
    PROVE  Confined(D)'
<1>1. Running /\ Kind(ret.v) = "obj"
    BY DEF LetBody, Argument, Resumed, Expected
<1>2. Call(Inherit("pass"), Field(Top.tpl, "in"), Extend(Top.ctx, ret.v)) \/ Raise
    BY DEF LetBody
<1>3. ScopesWithin(Extend(Top.ctx, ret.v), D)
    BY <1>1, TopFields, TopWithin, ResultWithin, ExtendWithin DEF FrameWithin
<1> QED BY <1>1, <1>2, <1>3, TopWithin, FramesConfined, CallConfined, RaiseConfined

LEMMA ReferenceConfined ==
    ASSUME NEW D, Basic(D), Typed, Confined(D), FromNowDefault \/ FromNowReference
    PROVE  Confined(D)'
<1>1. Running
    BY DEF FromNowDefault, FromNowReference, Begun, Ready, Resumed
<1>2. ScopesWithin(Top.ctx, D)
    BY <1>1, TopWithin DEF FrameWithin
<1>3. Raise \/ \E v : Within(v, D) /\ Call([Inherit("value") EXCEPT !.val = v], Arg, Top.ctx)
    <2>1. CASE FromNowReference
        BY <2>1, ResultWithin DEF FromNowReference
    <2>2. CASE FromNowDefault
        <3>1. PICK i \in DOMAIN Top.ctx :
                  \/ Raise
                  \/ Call([Inherit("value") EXCEPT !.val = Field(Top.ctx[i], "now")], Arg, Top.ctx)
            BY <2>2 DEF FromNowDefault
        <3>2. Within(Field(Top.ctx[i], "now"), D)
            BY <1>2, FieldWithin DEF ScopesWithin
        <3> QED BY <3>1, <3>2
    <2> QED BY <2>1, <2>2
<1> QED BY <1>1, <1>2, <1>3, TopWithin, FramesConfined, CallConfined, RaiseConfined

LEMMA MapElementConfined ==
    ASSUME NEW D, Basic(D), Closed(D, Seq(Value), Value), Typed, Confined(D), MapElement
    PROVE  Confined(D)'
<1>1. Running
    BY DEF MapElement, Ready
<1>2. PICK i \in Indices(Top.val), p \in Others \cap DOMAIN EachVars :
          Call(Advance(Elem(i)), Field(Top.tpl, p),
               Extend(Top.ctx, ItemScope(EachVars[p], i, Child(Top.val, Elem(i)))))
    BY DEF MapElement, EachTemplate
<1>3. i \in Nat /\ << "str", p >> \in D
    BY <1>1, TopFields, TopWithin, IndexStep DEF Others
<1>4. Within(ItemScope(EachVars[p], i, Child(Top.val, Elem(i))), D)
    BY <1>1, <1>3, TopWithin, ItemScopeWithin
<1>5. ScopesWithin(Extend(Top.ctx, ItemScope(EachVars[p], i, Child(Top.val, Elem(i)))), D)
    BY <1>1, <1>4, TopFields, TopWithin, ExtendWithin DEF FrameWithin
<1> QED BY <1>1, <1>2, <1>5, TopWithin, FramesConfined, CallConfined

LEMMA MapMemberConfined ==
    ASSUME NEW D, Basic(D), Closed(D, Seq(Value), Value), Typed, Confined(D), MapMember
    PROVE  Confined(D)'
<1>1. Running
    BY DEF MapMember, Ready
<1>2. PICK k \in Keys(Top.val), p \in Others \cap DOMAIN EachVars :
          Call(Advance(Key(k)), Field(Top.tpl, p),
               Extend(Top.ctx, MemberScope(EachVars[p], k, Child(Top.val, Key(k)))))
    BY DEF MapMember, EachTemplate, Field
<1>3. k \in Str /\ << "str", k >> \in D /\ << "str", p >> \in D
    BY <1>1, TopWithin DEF Others
<1>4. Within(MemberScope(EachVars[p], k, Child(Top.val, Key(k))), D)
    BY <1>1, <1>3, TopWithin, MemberScopeWithin
<1>5. ScopesWithin(Extend(Top.ctx, MemberScope(EachVars[p], k, Child(Top.val, Key(k)))), D)
    BY <1>1, <1>4, TopFields, TopWithin, ExtendWithin DEF FrameWithin
<1> QED BY <1>1, <1>2, <1>5, TopWithin, FramesConfined, CallConfined

LEMMA ReduceItemConfined ==
    ASSUME NEW D, Basic(D), Closed(D, Seq(Value), Value), Typed, Confined(D), ReduceItem
    PROVE  Confined(D)'
<1>1. Running
    BY DEF ReduceItem, Ready
<1>2. PICK i \in Indices(Top.val), p \in Others \cap DOMAIN EachThreeVars :
          Call(Advance(Elem(i)), Field(Top.tpl, p),
               Extend(Top.ctx, AccScope(EachThreeVars[p], Top.acc, i, Child(Top.val, Elem(i)))))
    BY DEF ReduceItem, EachTemplate
<1>3. i \in Nat /\ << "str", p >> \in D
    BY <1>1, TopFields, TopWithin, IndexStep DEF Others
<1>4. Within(AccScope(EachThreeVars[p], Top.acc, i, Child(Top.val, Elem(i))), D)
    BY <1>1, <1>3, TopWithin, AccScopeWithin DEF FrameWithin
<1>5. ScopesWithin(Extend(Top.ctx, AccScope(EachThreeVars[p], Top.acc, i, Child(Top.val, Elem(i)))), D)
    BY <1>1, <1>4, TopFields, TopWithin, ExtendWithin DEF FrameWithin
<1> QED BY <1>1, <1>2, <1>5, TopWithin, FramesConfined, CallConfined

LEMMA FindItemConfined ==
    ASSUME NEW D, Basic(D), Closed(D, Seq(Value), Value), Typed, Confined(D), FindItem
    PROVE  Confined(D)'
<1>1. Running
    BY DEF FindItem, Ready
<1>2. PICK i \in Indices(Top.val), p \in Others \cap DOMAIN EachVars :
          \/ Raise
          \/ Call(Inherit("pass"), Child(Top.val, Elem(i)),
                  Extend(Top.ctx, ItemScope(EachVars[p], i, Child(Top.val, Elem(i)))))
          \/ Goto(Advance(Elem(i)))
          \/ \E o : Failing(o)
    BY DEF FindItem
<1>3. i \in Nat /\ << "str", p >> \in D
    BY <1>1, TopFields, TopWithin, IndexStep DEF Others
<1>4. Within(ItemScope(EachVars[p], i, Child(Top.val, Elem(i))), D)
    BY <1>1, <1>3, TopWithin, ItemScopeWithin
<1>5. ScopesWithin(Extend(Top.ctx, ItemScope(EachVars[p], i, Child(Top.val, Elem(i)))), D)
    BY <1>1, <1>4, TopFields, TopWithin, ExtendWithin DEF FrameWithin
<1> QED BY <1>1, <1>2, <1>5, TopWithin, FramesConfined, CallConfined, GotoConfined, RaiseConfined

LEMMA MatchConditionConfined ==
    ASSUME NEW D, Basic(D), Typed, Confined(D), MatchCondition
    PROVE  Confined(D)'
<1>1. Running
    BY DEF MatchCondition, Ready
<1>2. \/ \E e : Call(Advance(e), Child(Top.val, e), Top.ctx) \/ Goto(Advance(e))
      \/ \E o : Failing(o)
    BY DEF MatchCondition, Field
<1>3. ScopesWithin(Top.ctx, D)
    BY <1>1, TopWithin DEF FrameWithin
<1> QED BY <1>1, <1>2, <1>3, TopWithin, FramesConfined, CallConfined, GotoConfined, RaiseConfined

LEMMA SwitchDoneConfined ==
    ASSUME NEW D, Basic(D), Typed, Confined(D), SwitchDone
    PROVE  Confined(D)'
<1>1. Running
    BY DEF SwitchDone, Ready
<1>2. \/ \E e : Call(Inherit("pass"), Child(Top.acc, e), Top.ctx)
      \/ \E e : Call(Inherit("pass"), Child(Top.val, e), Top.ctx)
      \/ Return(Marker)
    BY DEF SwitchDone, Field
<1>3. ScopesWithin(Top.ctx, D) /\ \A e : Within(Child(Top.acc, e), D)
    BY <1>1, TopWithin, ChildWithin DEF FrameWithin
<1> QED BY <1>1, <1>2, <1>3, TopWithin, FramesConfined, CallConfined, ReturnConfined

-----------------------------------------------------------------------------
(* A render starts within the labels of its arguments and of one reading   *)
(* of the clock, and stays there.                                          *)

LEMMA StartConfined ==
    ASSUME NEW D, Basic(D), Closed(D, Seq(Value), Value), Typed, Confined(D), Speaks(D),
           << "str", Now >> \in D, Start
    PROVE  Confined(D)'
<1>1. Within(BUILTINS, D) /\ Within(context, D) /\ Within(template, D)
    BY DEF Closed, Speaks
<1>2. << "str", "now" >> \in D /\ "now" \in Str
    BY WordsSaid, RenderAssumption DEF Words
<1>3. Within(Bind(NoKeys, "now", Text(Now)), D)
    BY <1>2, ConstantsWithin, InsertWithin DEF Bind
<1> DEFINE now == Bind(NoKeys, "now", Text(Now))
           scopes == << BUILTINS, context, now >>
<1>4. ScopesWithin(scopes, D)
    <2> HIDE DEF now
    <2>1. \A i \in DOMAIN scopes : scopes[i] \in { BUILTINS, context, now }
        OBVIOUS
    <2> QED BY <1>1, <1>3, <2>1 DEF ScopesWithin, now
<1> HIDE DEF scopes
<1>5. FrameWithin(Frame(template, scopes), D)
    BY <1>1, <1>4, FrameConfined
<1>6. CASE ValidContext
    <2>1. stack' = << Frame(template, scopes) >> /\ ret' = ret
        BY <1>6 DEF Start, scopes
    <2>2. \A i \in DOMAIN stack' : FrameWithin(stack'[i], D)
        <3> HIDE DEF Frame
        <3> QED BY <1>5, <2>1
    <2> QED BY <2>1, <2>2 DEF Confined
<1>7. CASE ~ValidContext
    <2>1. stack' = stack /\ ret' = Err
        BY <1>7 DEF Start
    <2>2. Within(ret'.v, D)
        BY <2>1, ConstantsWithin DEF Err
    <2> QED BY <2>1, <2>2 DEF Confined
<1> QED BY <1>6, <1>7

LEMMA StepConfined ==
    ASSUME NEW D, Basic(D), Contract(Seq(Value), Value), Closed(D, Seq(Value), Value),
           Typed, Confined(D), [Next]_vars, ~Start,
           <<"del">> \in D \/ (Running => Top.op # "$match")
    PROVE  Confined(D)'
<1>1. CASE Finish \/ Propagate
    BY <1>1, FinishConfined, PropagateConfined
<1>2. CASE Plain
    BY <1>2, ActionRuns, LeavesConfined, StringConfined, BeginConfined, ElementConfined, KeepConfined,
       ObjectInsertConfined DEF Plain
<1>3. CASE Reject \/ RenderArgument \/ RejectArgument \/ Pass
    BY <1>3, LeavesConfined, ArgumentConfined
<1>4. CASE Simple
    BY <1>4, EvalConfined, ArgumentConfined, JsonConfined, LetBodyConfined, ReferenceConfined,
       FromNowResultConfined DEF Simple
<1>5. CASE Folds
    BY <1>5, LoopBeginConfined, FoldItemConfined, ResultsConfined, SortKeyConfined, SortDoneConfined
       DEF Folds
<1>6. CASE Loops
    BY <1>6, ActionRuns, LoopBeginConfined, MapElementConfined, MapMemberConfined, KeepConfined,
       ReduceBeginConfined, ReduceItemConfined, FindItemConfined, LeavesConfined,
       BranchesBeginConfined, MatchConditionConfined, SwitchConditionConfined, SwitchDoneConfined
       DEF Loops
<1>7. CASE Tick \/ UseTestNow \/ Ended \/ UNCHANGED vars
    <2>1. UNCHANGED << stack, ret >>
        BY <1>7 DEF Tick, UseTestNow, Ended, vars
    <2> QED BY <2>1 DEF Confined
<1> QED BY <1>1, <1>2, <1>3, <1>4, <1>5, <1>6, <1>7 DEF Next, Render

(* The arguments of a render stay what they are. *)
LEMMA ArgumentsStay ==
    ASSUME [Next]_vars
    PROVE  template' = template /\ context' = context
<1> USE DEF env, Goto, Call, Return, Raise, Abort, Failing
<1>1. CASE Start \/ Finish \/ Propagate \/ Tick \/ UseTestNow \/ Ended \/ UNCHANGED vars
    BY <1>1 DEF Start, Finish, Propagate, Tick, UseTestNow, Ended, vars
<1>2. CASE Plain
    BY <1>2 DEF Plain, Scalar, String, Unreachable, Array, ArrayElement, ArrayKeep, Object,
       KeyFails, Operator, Reserved, ObjectMember, ObjectInsert, LoopDone
<1>3. CASE Reject \/ RenderArgument \/ RejectArgument \/ Pass
    BY <1>3 DEF Reject, RenderArgument, RejectArgument, Pass
<1>4. CASE Simple
    BY <1>4 DEF Simple, Eval, If, Json, LetBody, FromNowFrom, FromNowDefault, FromNowReference,
       FromNowResult
<1>5. CASE Folds
    BY <1>5 DEF Folds, FoldBegin, FlattenItem, MergeItem, FlattenDeepResult, ReverseResult,
       SortPlain, SortBy, SortKey, SortDone, SortResult
<1>6. CASE Loops
    BY <1>6 DEF Loops, LoopBegin, MapElement, MapMember, MapKeep, ReduceBegin, ReduceItem,
       ReduceKeep, FindItem, FindNone, MatchBegin, MatchCondition, MatchKeep, SwitchBegin,
       SwitchCondition, SwitchDefault, SwitchDone
<1> QED BY <1>1, <1>2, <1>3, <1>4, <1>5, <1>6 DEF Next, Render

-----------------------------------------------------------------------------
(* Deletion markers. *)

LEMMA UnmarkedBasic == Basic(Unmarked)
BY DEF Basic, Unmarked, Label

LEMMA UnmarkedSpeaks ==
    ASSUME NEW v \in Value, IsJson(v)
    PROVE  Within(v, Unmarked)
<1>1. Step \subseteq Said(Unmarked)
    <2> SUFFICES ASSUME NEW e \in Step, e[1] = "k" PROVE << "str", e[2] >> \in Unmarked
        BY DEF Said
    <2>1. e[2] \in Str
        BY DEF Step
    <2> QED BY <2>1 DEF Unmarked, Label
<1>2. Seq(Step) \subseteq Seq(Said(Unmarked))
    BY <1>1, SeqMonotonic
<1>3. ASSUME NEW n \in v
      PROVE  n[1] \in Seq(Said(Unmarked)) /\ n[2] \in Unmarked
    <2>1. n[1] \in Seq(Step) /\ n[2] \in Label /\ n[2] # <<"del">>
        BY NodeType DEF IsJson, Path
    <2> QED BY <1>2, <2>1 DEF Unmarked
<1> QED BY <1>3 DEF Within

(* Without $find and $match no frame runs $match: it would have to be in   *)
(* the part of the template that the frame renders.                        *)
LEMMA NoMatch ==
    ASSUME Typed, Parts, Running, ~Uses("$find"), ~Uses("$match")
    PROVE  Top.op # "$match"
<1> SUFFICES ASSUME Top.op = "$match" PROVE FALSE
    OBVIOUS
<1>1. Top.tpl \in Value /\ "$match" \in Keys(Top.tpl)
    BY TopFields
<1>2. Key("$match") \in Steps(Top.tpl)
    BY <1>1, KeyStep
<1>3. PICK n \in Top.tpl : Len(n[1]) = 1 /\ n[1][1] = Key("$match")
    BY <1>2 DEF Steps
<1>4. 1 \in DOMAIN n[1]
    BY <1>1, <1>3, NodeType DEF Path
<1>5. Part(template, Top.tpl, Len(stack) - 1)
    BY TopPlace DEF Parts, FramePart
<1> QED BY <1>3, <1>4, <1>5 DEF Part, Occurs, Uses

(* Markers are in no frame and only ever a whole result. *)
MarkersOut ==
    /\ Speaks(Unmarked)
    /\ ~Uses("$find") /\ ~Uses("$match") => Confined(Unmarked)

LEMMA MarkersOutInit == Init => MarkersOut
<1> SUFFICES ASSUME Init PROVE MarkersOut
    OBVIOUS
<1>1. Speaks(Unmarked)
    BY InputAssumption, UnmarkedSpeaks DEF Init, Speaks
<1>2. stack = <<>> /\ Within(ret.v, Unmarked)
    BY UnmarkedBasic, ConstantsWithin DEF Init, Idle
<1> QED BY <1>1, <1>2 DEF MarkersOut, Confined

LEMMA MarkersOutStep ==
    ASSUME Contract(Seq(Value), Value), Closed(Unmarked, Seq(Value), Value),
           Typed, Parts, MarkersOut, [Next]_vars
    PROVE  MarkersOut'
<1>1. template' = template /\ context' = context
    BY ArgumentsStay
<1>2. Speaks(Unmarked)'
    BY <1>1 DEF MarkersOut, Speaks
<1>3. ASSUME ~Uses("$find"), ~Uses("$match") PROVE Confined(Unmarked)'
    <2>1. Confined(Unmarked) /\ Speaks(Unmarked)
        BY <1>3 DEF MarkersOut
    <2>2. CASE Start
        <3>1. Now \in Str
            BY RenderAssumption DEF Now, Typed
        <3>2. << "str", Now >> \in Unmarked
            BY <3>1 DEF Unmarked, Label
        <3> QED BY <2>1, <2>2, <3>2, UnmarkedBasic, StartConfined
    <2>3. CASE ~Start
        BY <1>3, <2>1, <2>3, NoMatch, UnmarkedBasic, StepConfined
    <2> QED BY <2>2, <2>3
<1> QED BY <1>1, <1>2, <1>3 DEF MarkersOut, Uses

LEMMA MarkersOutImplies ==
    ASSUME MarkersOut
    PROVE  MarkersDropped
<1> SUFFICES ASSUME Confined(Unmarked)
             PROVE  /\ MarkerFree(ret.v)
                    /\ \A i \in DOMAIN stack :
                           /\ NoMarker(stack[i].val) /\ NoMarker(stack[i].acc)
                           /\ \A j \in DOMAIN stack[i].ctx : NoMarker(stack[i].ctx[j])
    BY DEF MarkersOut, MarkersDropped
<1>1. \A v : Within(v, Unmarked) => NoMarker(v)
    BY DEF Within, Unmarked, NoMarker
<1>2. MarkerFree(ret.v)
    <2>1. CASE ret.v = Marker
        <3>1. \A n \in Marker : n[1] = <<>>
            BY DEF Marker, Leaf
        <3> QED BY <2>1, <3>1 DEF MarkerFree
    <2>2. CASE Within(ret.v, Unmarked)
        BY <1>1, <2>2 DEF NoMarker, MarkerFree
    <2> QED BY <2>1, <2>2 DEF Confined
<1> QED BY <1>1, <1>2 DEF Confined, FrameWithin, ScopesWithin

(* Without $match and $find no container, accumulator, item or variable    *)
(* ever holds a deletion marker, for every interpreter that makes none:    *)
(* each of the sixteen operators drops the markers its callees return.     *)
THEOREM MarkersEnd ==
    ASSUME Contract(Seq(Value), Value), Closed(Unmarked, Seq(Value), Value)
    PROVE  Spec => []MarkersDropped
<1>1. Init => Typed /\ Parts /\ MarkersOut
    BY InitTyped, PartsInit, MarkersOutInit
<1>2. Typed /\ Parts /\ MarkersOut /\ [Next]_vars => Typed' /\ Parts' /\ MarkersOut'
    BY StepTyped, PartsStep, MarkersOutStep
<1>3. MarkersOut => MarkersDropped
    BY MarkersOutImplies
<1> QED BY <1>1, <1>2, <1>3, PTL DEF Spec

-----------------------------------------------------------------------------
(* The clock. *)

(* Before a render starts there is neither a frame nor a result. *)
Fresh == status = "ready" => stack = <<>> /\ ret = Idle

LEMMA FreshStep ==
    ASSUME Typed, Fresh, [Next]_vars
    PROVE  Fresh'
<1>1. CASE Start \/ Finish
    BY <1>1 DEF Start, Finish, Fresh
<1>2. CASE Tick \/ UseTestNow \/ Ended \/ UNCHANGED vars
    BY <1>2 DEF Tick, UseTestNow, Ended, vars, Fresh
<1>3. CASE Running /\ ~Start
    <2>1. status = "running" /\ status' \in { status, "panicked", "overflowed", "done", "failed" }
        BY <1>3, StepShape DEF Running, Shape
    <2> QED BY <2>1 DEF Fresh
<1> QED BY <1>1, <1>2, <1>3, ActionRuns DEF Next, Render

LEMMA VocabularyBasic ==
    ASSUME NEW S
    PROVE  Basic(Vocabulary(S)) /\ <<"del">> \in Vocabulary(S)
<1>1. /\ \A l \in { <<"null">>, <<"arr">>, <<"obj">>, <<"del">> } : l \in Label /\ l[1] # "str"
      /\ \A i \in Nat : << "num", i >> \in Label /\ << "num", i >>[1] # "str"
    BY DEF Label
<1> QED BY <1>1 DEF Basic, Vocabulary

(* What is put together from the strings S names no other reading. *)
LEMMA TimesWithin ==
    ASSUME NEW S, NEW v \in Value, v = Marker \/ Within(v, Vocabulary(S))
    PROVE  TimesIn(v) \subseteq S \cap Readings
<1> SUFFICES ASSUME NEW s \in TimesIn(v) PROVE s \in S
    BY DEF TimesIn
<1>1. PICK n \in v : n[2] = << "str", s >> \/ \E i \in DOMAIN n[1] : n[1][i] = Key(s)
    BY DEF TimesIn
<1>2. v # Marker
    <2>1. \A m \in Marker : m[1] = <<>> /\ m[2] = <<"del">>
        BY DEF Marker, Leaf
    <2>2. <<"del">> # << "str", s >> /\ DOMAIN <<>> = {}
        OBVIOUS
    <2> QED BY <1>1, <2>1, <2>2
<1>3. n[1] \in Seq(Said(Vocabulary(S))) /\ n[2] \in Vocabulary(S)
    BY <1>2 DEF Within
<1>4. CASE n[2] = << "str", s >>
    BY <1>3, <1>4 DEF Vocabulary
<1>5. CASE \E i \in DOMAIN n[1] : n[1][i] = Key(s)
    <2>1. Key(s) \in Said(Vocabulary(S))
        BY <1>3, <1>5
    <2>2. << "str", s >> \in Vocabulary(S)
        BY <2>1 DEF Said, Key
    <2> QED BY <2>2 DEF Vocabulary
<1> QED BY <1>1, <1>4, <1>5

(* Whichever reading it was that the render started with, its strings are  *)
(* all that ever comes up.                                                 *)
Untimed == TimesIn(template) \cup TimesIn(context) = {}
OneNow(Speech) ==
    Untimed =>
        /\ \A t \in Readings : Speaks(Vocabulary(Speech[t]))
        /\ \E t \in Readings : Confined(Vocabulary(Speech[t]))

LEMMA NowReading == Typed => Now \in Readings
BY RenderAssumption DEF Typed, Now, Readings

LEMMA OneNowInit ==
    ASSUME NEW Speech, Separate(Speech, Seq(Value), Value), Init
    PROVE  OneNow(Speech)
<1> SUFFICES ASSUME Untimed
             PROVE  /\ \A t \in Readings : Speaks(Vocabulary(Speech[t]))
                    /\ \E t \in Readings : Confined(Vocabulary(Speech[t]))
    BY DEF OneNow
<1>1. \A t \in Readings : Speaks(Vocabulary(Speech[t]))
    BY DEF Init, Speaks, Separate, Untimed
<1>2. TestStamp \in Readings
    BY DEF Readings
<1>3. stack = <<>> /\ Within(ret.v, Vocabulary(Speech[TestStamp]))
    BY VocabularyBasic, ConstantsWithin DEF Init, Idle
<1> QED BY <1>1, <1>2, <1>3 DEF Confined

LEMMA OneNowStep ==
    ASSUME NEW Speech, Contract(Seq(Value), Value), Separate(Speech, Seq(Value), Value),
           Typed, Fresh, OneNow(Speech), [Next]_vars
    PROVE  OneNow(Speech)'
<1>1. template' = template /\ context' = context
    BY ArgumentsStay
<1>2. Untimed' <=> Untimed
    BY <1>1 DEF Untimed
<1> SUFFICES ASSUME Untimed
             PROVE  /\ \A t \in Readings : Speaks(Vocabulary(Speech[t]))'
                    /\ \E t \in Readings : Confined(Vocabulary(Speech[t]))'
    BY <1>2 DEF OneNow
<1>3. \A t \in Readings : Speaks(Vocabulary(Speech[t]))
    BY DEF OneNow
<1>4. \A t \in Readings : Speaks(Vocabulary(Speech[t]))'
    BY <1>1, <1>3 DEF Speaks
<1>5. CASE Start
    <2>1. stack = <<>> /\ ret = Idle
        BY <1>5 DEF Start, Fresh
    <2>2. PICK t \in Readings : t = Now
        BY NowReading
    <2> DEFINE D == Vocabulary(Speech[t])
    <2>3. << "str", Now >> \in D
        <3>1. Now \in Str
            BY RenderAssumption DEF Typed, Now
        <3>2. Now \in Speech[t]
            BY <2>2 DEF Separate
        <3> QED BY <3>1, <3>2 DEF Vocabulary, Label
    <2>4. Basic(D) /\ Closed(D, Seq(Value), Value) /\ Speaks(D)
        BY <1>3, VocabularyBasic DEF Separate
    <2>5. Confined(D)
        BY <2>1, <2>4, ConstantsWithin DEF Confined, Idle
    <2> HIDE DEF D
    <2>6. Confined(D)'
        BY <1>5, <2>3, <2>4, <2>5, StartConfined
    <2> QED BY <1>4, <2>6 DEF D
<1>6. CASE ~Start
    <2>1. PICK t \in Readings : Confined(Vocabulary(Speech[t]))
        BY DEF OneNow
    <2>2. Closed(Vocabulary(Speech[t]), Seq(Value), Value)
        BY DEF Separate
    <2>3. Confined(Vocabulary(Speech[t]))'
        BY <1>6, <2>1, <2>2, VocabularyBasic, StepConfined
    <2> QED BY <1>4, <2>3
<1> QED BY <1>5, <1>6

LEMMA OneNowImplies ==
    ASSUME NEW Speech, Separate(Speech, Seq(Value), Value), Typed, OneNow(Speech)
    PROVE  OneClockReading
<1> DEFINE times == UNION { TimesIn(v) : v \in { ret.v } \cup { stack[i].acc : i \in DOMAIN stack } }
<1> SUFFICES ASSUME Untimed PROVE Cardinality(times) <= 1
    BY DEF OneClockReading, Untimed
<1>1. PICK t \in Readings : Confined(Vocabulary(Speech[t]))
    BY DEF OneNow
<1>2. TimesIn(ret.v) \subseteq {t}
    <2>1. ret.v \in Value
        BY DEF Typed
    <2>2. TimesIn(ret.v) \subseteq Speech[t] \cap Readings
        BY <1>1, <2>1, TimesWithin DEF Confined
    <2> QED BY <2>2 DEF Separate
<1>3. ASSUME NEW i \in DOMAIN stack PROVE TimesIn(stack[i].acc) \subseteq {t}
    <2>1. stack[i].acc \in Value
        BY DEF Typed, Good, FrameType
    <2>2. TimesIn(stack[i].acc) \subseteq Speech[t] \cap Readings
        BY <1>1, <2>1, TimesWithin DEF Confined, FrameWithin
    <2> QED BY <2>2 DEF Separate
<1>4. times \subseteq {t}
    BY <1>2, <1>3
<1> HIDE DEF times
<1>5. IsFiniteSet({t}) /\ Cardinality({t}) = 1
    BY FS_Singleton
<1>6. Cardinality(times) \in Nat /\ Cardinality(times) <= Cardinality({t})
    BY <1>4, <1>5, FS_Subset, FS_CardinalityType
<1> QED BY <1>5, <1>6

(* Every time that a render's values hold, as content or as a key, is the  *)
(* one reading of the clock it started with, however the clock and the     *)
(* test flag move while it is under way.                                   *)
THEOREM OneReading ==
    ASSUME Contract(Seq(Value), Value), NEW Speech, Separate(Speech, Seq(Value), Value)
    PROVE  Spec => []OneClockReading
<1>1. Init => Typed /\ Fresh /\ OneNow(Speech)
    <2>1. Init => Fresh
        BY DEF Init, Fresh
    <2> QED BY <2>1, InitTyped, OneNowInit
<1>2. Typed /\ Fresh /\ OneNow(Speech) /\ [Next]_vars => Typed' /\ Fresh' /\ OneNow(Speech)'
    BY StepTyped, FreshStep, OneNowStep
<1>3. Typed /\ OneNow(Speech) => OneClockReading
    BY OneNowImplies
<1> QED BY <1>1, <1>2, <1>3, PTL DEF Spec
=============================================================================
