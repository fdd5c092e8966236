----------------------------- MODULE ValueProofs -----------------------------
(***************************************************************************)
(* Typing of the operators of Values and Containers: given values, they    *)
(* return values, that is, finite sets of well-formed nodes with a root.   *)
(***************************************************************************)
EXTENDS Containers, FiniteSetTheorems, SequenceTheorems, TLAPS

(* The image of a finite set is finite. *)
LEMMA ImageFinite ==
    ASSUME NEW f, IsFiniteSet(DOMAIN f)
    PROVE  IsFiniteSet({ f[x] : x \in DOMAIN f })
<1> DEFINE g == [x \in DOMAIN f |-> f[x]]
<1>1. g \in Surjection(DOMAIN f, { f[x] : x \in DOMAIN f })
    BY DEF Surjection
<1> QED BY <1>1, FS_Surjection

(* What makes a set of nodes a value. *)
LEMMA ValueIntro ==
    ASSUME NEW v, IsFiniteSet(v), v \subseteq Path \X Label, NEW l, << <<>>, l >> \in v
    PROVE  v \in Value
BY DEF Value

(* A node of a value is a path and a label. *)
LEMMA NodeType ==
    ASSUME NEW v \in Value, NEW n \in v
    PROVE  n = << n[1], n[2] >> /\ n[1] \in Path /\ n[2] \in Label
BY DEF Value

LEMMA ValueFinite ==
    ASSUME NEW v \in Value
    PROVE  IsFiniteSet(v) /\ v \subseteq Path \X Label
BY DEF Value

(* The root exists, so that CHOOSE finds a node of the value. *)
LEMMA RootType ==
    ASSUME NEW v \in Value
    PROVE  << <<>>, Root(v) >> \in v /\ Root(v) \in Label
<1>1. PICK n \in v : n[1] = <<>>
    BY DEF Value
<1>2. (CHOOSE m \in v : m[1] = <<>>) \in v /\ (CHOOSE m \in v : m[1] = <<>>)[1] = <<>>
    BY <1>1
<1> QED BY <1>2, NodeType DEF Root

(* A value that is a string holds a member of Str. *)
LEMMA StringType ==
    ASSUME NEW v \in Value, Kind(v) = "str"
    PROVE  Root(v)[2] \in Str
<1>1. Root(v) \in Label /\ Root(v)[1] = "str"
    BY RootType DEF Kind
<1> QED BY <1>1 DEF Label

-----------------------------------------------------------------------------
(* Leaves. *)

LEMMA LeafType ==
    ASSUME NEW l \in Label
    PROVE  Leaf(l) \in Value
<1>1. IsFiniteSet(Leaf(l))
    BY FS_Singleton DEF Leaf
<1>2. << <<>>, l >> \in Path \X Label
    BY EmptySeq DEF Path
<1> QED BY <1>1, <1>2, ValueIntro DEF Leaf

LEMMA ConstantsType ==
    /\ Null \in Value /\ Marker \in Value /\ NoElems \in Value /\ NoKeys \in Value
    /\ \A i \in Int : Num(i) \in Value
    /\ \A s \in Str : Text(s) \in Value
<1>1. <<"null">> \in Label /\ <<"del">> \in Label /\ <<"arr">> \in Label /\ <<"obj">> \in Label
    BY DEF Label
<1>2. \A i \in Int : <<"num", i>> \in Label
    BY DEF Label
<1>3. \A s \in Str : <<"str", s>> \in Label
    BY DEF Label
<1> QED BY <1>1, <1>2, <1>3, LeafType DEF Null, Marker, NoElems, NoKeys, Num, Text

-----------------------------------------------------------------------------
(* Children. *)

LEMMA StepsType ==
    ASSUME NEW v \in Value
    PROVE  Steps(v) \subseteq Step /\ IsFiniteSet(Steps(v))
<1> DEFINE S == { m \in v : Len(m[1]) = 1 }
           f == [n \in S |-> n[1][1]]
<1>1. Steps(v) \subseteq Step
    <2> SUFFICES ASSUME NEW n \in v, Len(n[1]) = 1 PROVE n[1][1] \in Step
        BY DEF Steps
    <2> QED BY NodeType DEF Path
<1>2. IsFiniteSet(S)
    BY FS_Subset, ValueFinite
<1>3. DOMAIN f = S /\ { f[n] : n \in S } = Steps(v)
    BY DEF Steps
<1>4. IsFiniteSet(Steps(v))
    <2> HIDE DEF f, S
    <2> QED BY <1>2, <1>3, ImageFinite
<1> QED BY <1>1, <1>4

LEMMA LengthType ==
    ASSUME NEW v \in Value
    PROVE  Length(v) \in Nat
BY StepsType, FS_CardinalityType DEF Length

LEMMA KeyStep ==
    ASSUME NEW v \in Value, NEW k \in Keys(v)
    PROVE  k \in Str /\ Key(k) \in Steps(v)
<1>1. PICK e \in Steps(v) : e[1] = "k" /\ e[2] = k
    BY DEF Keys
<1>2. e \in Step
    BY StepsType
<1>3. e = <<"k", k>> /\ k \in Str
    BY <1>1, <1>2 DEF Step
<1> QED BY <1>1, <1>3 DEF Key

LEMMA IndexStep ==
    ASSUME NEW v \in Value, NEW i \in Indices(v)
    PROVE  i \in Nat /\ Elem(i) \in Steps(v)
<1>1. PICK e \in Steps(v) : e[1] = "i" /\ e[2] = i
    BY DEF Indices
<1>2. e \in Step
    BY StepsType
<1>3. e = <<"i", i>> /\ i \in Nat
    BY <1>1, <1>2 DEF Step
<1> QED BY <1>1, <1>3 DEF Elem

LEMMA StepTypes ==
    /\ \A i \in Nat : Elem(i) \in Step
    /\ \A k \in Str : Key(k) \in Step
BY DEF Elem, Key, Step

(* The nodes of a child are those of its parent with one step taken off.   *)
LEMMA ChildNode ==
    ASSUME NEW v \in Value, NEW e, NEW m \in Child(v, e)
    PROVE  \E n \in v : /\ n[1] # <<>> /\ Head(n[1]) = e
                        /\ m = << Tail(n[1]), n[2] >> /\ Len(n[1]) = Len(m[1]) + 1
                        /\ \A i \in DOMAIN m[1] : m[1][i] = n[1][i + 1] /\ i + 1 \in DOMAIN n[1]
<1>1. PICK n \in Under(v, e) : m = << Tail(n[1]), n[2] >>
    BY DEF Child
<1>2. n \in v /\ n[1] # <<>> /\ Head(n[1]) = e
    BY <1>1 DEF Under
<1>3. n[1] \in Seq(Step)
    BY <1>2, NodeType DEF Path
<1>4. Len(n[1]) = Len(Tail(n[1])) + 1
    BY <1>2, <1>3
<1>5. \A i \in DOMAIN Tail(n[1]) : Tail(n[1])[i] = n[1][i + 1] /\ i + 1 \in DOMAIN n[1]
    BY <1>2, <1>3
<1> QED BY <1>1, <1>2, <1>4, <1>5

LEMMA ChildType ==
    ASSUME NEW v \in Value, NEW e \in Steps(v)
    PROVE  Child(v, e) \in Value
<1> DEFINE S == Under(v, e)
           f == [n \in S |-> << Tail(n[1]), n[2] >>]
<1>1. IsFiniteSet(S)
    BY FS_Subset, ValueFinite DEF Under
<1>2. DOMAIN f = S /\ { f[n] : n \in S } = Child(v, e)
    BY DEF Child
<1>3. IsFiniteSet(Child(v, e))
    <2> HIDE DEF f, S
    <2> QED BY <1>1, <1>2, ImageFinite
<1>4. Child(v, e) \subseteq Path \X Label
    <2> SUFFICES ASSUME NEW n \in v, n[1] # <<>> PROVE << Tail(n[1]), n[2] >> \in Path \X Label
        BY DEF Child, Under
    <2> QED BY NodeType, HeadTailProperties DEF Path
<1>5. PICK n \in v : Len(n[1]) = 1 /\ n[1][1] = e
    BY DEF Steps
<1>6. n[1] # <<>> /\ Head(n[1]) = e /\ Tail(n[1]) = <<>>
    BY <1>5, NodeType DEF Path
<1>7. << <<>>, n[2] >> \in Child(v, e)
    BY <1>6 DEF Child, Under
<1> QED BY <1>3, <1>4, <1>7, ValueIntro

LEMMA FieldType ==
    ASSUME NEW v \in Value, NEW k \in Keys(v)
    PROVE  Field(v, k) \in Value
BY KeyStep, ChildType DEF Field

-----------------------------------------------------------------------------
(* Insertion. *)

LEMMA GraftType ==
    ASSUME NEW w \in Value, NEW e \in Step
    PROVE  Graft(e, w) \subseteq Path \X Label /\ IsFiniteSet(Graft(e, w))
<1> DEFINE f == [n \in w |-> << <<e>> \o n[1], n[2] >>]
<1>1. DOMAIN f = w /\ { f[n] : n \in w } = Graft(e, w)
    BY DEF Graft
<1>2. IsFiniteSet(Graft(e, w))
    <2> HIDE DEF f
    <2> QED BY <1>1, ImageFinite, ValueFinite
<1>3. \A n \in w : <<e>> \o n[1] \in Path
    BY NodeType, ConcatProperties DEF Path
<1>4. \A n \in w : << <<e>> \o n[1], n[2] >> \in Path \X Label
    BY <1>3, NodeType
<1>5. Graft(e, w) \subseteq Path \X Label
    BY <1>4 DEF Graft
<1> QED BY <1>2, <1>5

(* The nodes of a graft hang below its step. *)
LEMMA GraftNodes ==
    ASSUME NEW w \in Value, NEW e \in Step, NEW n \in Graft(e, w)
    PROVE  /\ n[1] \in Seq(Step) /\ n[1] # <<>> /\ Len(n[1]) \in Nat /\ Len(n[1]) > 0
           /\ Head(n[1]) = e /\ n[1][1] = e
           /\ << Tail(n[1]), n[2] >> \in w
<1>1. PICK m \in w : n = << <<e>> \o m[1], m[2] >>
    BY DEF Graft
<1>2. n[1] = <<e>> \o m[1] /\ n[2] = m[2] /\ m[1] \in Seq(Step) /\ m = << m[1], m[2] >>
    BY <1>1, NodeType DEF Path
<1>3. Tail(n[1]) = m[1]
    BY <1>2
<1> QED BY <1>2, <1>3

LEMMA PutType ==
    ASSUME NEW v \in Value, NEW w \in Value, NEW e \in Step
    PROVE  Put(v, e, w) \in Value
<1>1. IsFiniteSet(v \ Under(v, e))
    BY FS_Subset, ValueFinite
<1>2. IsFiniteSet(Put(v, e, w))
    BY <1>1, GraftType, FS_Union DEF Put
<1>3. Put(v, e, w) \subseteq Path \X Label
    BY GraftType, ValueFinite DEF Put
<1>4. << <<>>, Root(v) >> \in Put(v, e, w)
    BY RootType DEF Put, Under
<1> QED BY <1>2, <1>3, <1>4, ValueIntro

LEMMA PushType ==
    ASSUME NEW v \in Value, NEW w \in Value
    PROVE  Push(v, w) \in Value
BY LengthType, StepTypes, PutType DEF Push

LEMMA InsertType ==
    ASSUME NEW v \in Value, NEW w \in Value, NEW k \in Str
    PROVE  Insert(v, k, w) \in Value
BY StepTypes, PutType DEF Insert

LEMMA ToJsonType ==
    ASSUME NEW v \in Value
    PROVE  ToJson(v) \in Value
<1> DEFINE f == [n \in v |-> << n[1], IF n[2] = <<"del">> THEN <<"null">> ELSE n[2] >>]
<1>1. DOMAIN f = v /\ { f[n] : n \in v } = ToJson(v)
    BY DEF ToJson
<1>2. IsFiniteSet(ToJson(v))
    <2> HIDE DEF f
    <2> QED BY <1>1, ImageFinite, ValueFinite
<1>3. <<"null">> \in Label
    BY DEF Label
<1>4. ToJson(v) \subseteq Path \X Label
    BY <1>3, NodeType DEF ToJson
<1>5. PICK n \in v : n[1] = <<>>
    BY DEF Value
<1>6. << n[1], IF n[2] = <<"del">> THEN <<"null">> ELSE n[2] >> \in ToJson(v)
    BY DEF ToJson
<1> QED BY <1>2, <1>4, <1>5, <1>6, ValueIntro

-----------------------------------------------------------------------------
(* The operators of Containers. *)

(* Counting positions gives indices again. *)
LEMMA ArrangeType ==
    ASSUME NEW v \in Value, NEW before
    PROVE  Arrange(v, before) \in Value
<1> DEFINE place(n) == << << Elem(Position(Steps(v), before, Head(n[1]))) >> \o Tail(n[1]), n[2] >>
           S == { m \in v : m[1] # <<>> }
           T == { n \in v : n[1] = <<>> }
           f == [n \in S |-> place(n)]
<1>1. IsFiniteSet(S) /\ IsFiniteSet(T)
    BY FS_Subset, ValueFinite
<1>2. DOMAIN f = S /\ { f[n] : n \in S } = { place(n) : n \in S }
    OBVIOUS
<1>3. IsFiniteSet({ place(n) : n \in S })
    <2> HIDE DEF f, S, place
    <2> QED BY <1>1, <1>2, ImageFinite
<1>4. \A e : Position(Steps(v), before, e) \in Nat
    <2> TAKE e
    <2>1. IsFiniteSet({ d \in Steps(v) : << d, e >> \in before })
        BY StepsType, FS_Subset
    <2> QED BY <2>1, FS_CardinalityType DEF Position
<1>5. \A n \in S : place(n) \in Path \X Label
    <2> SUFFICES ASSUME NEW n \in S PROVE place(n) \in Path \X Label
        OBVIOUS
    <2>1. n[1] \in Seq(Step) /\ n[1] # <<>> /\ n[2] \in Label
        BY NodeType DEF Path
    <2>2. << Elem(Position(Steps(v), before, Head(n[1]))) >> \in Seq(Step)
        BY <1>4, StepTypes
    <2>3. Tail(n[1]) \in Seq(Step)
        BY <2>1, HeadTailProperties
    <2> QED BY <2>1, <2>2, <2>3, ConcatProperties DEF Path
<1>6. Arrange(v, before) = T \cup { place(n) : n \in S }
    BY DEF Arrange
<1>7. IsFiniteSet(Arrange(v, before))
    <2> HIDE DEF S, T, place
    <2> QED BY <1>1, <1>3, <1>6, FS_Union
<1>8. Arrange(v, before) \subseteq Path \X Label
    <2>1. T \subseteq Path \X Label
        BY ValueFinite
    <2>2. { place(n) : n \in S } \subseteq Path \X Label
        BY <1>5
    <2> HIDE DEF T, S, place
    <2> QED BY <2>1, <2>2, <1>6
<1>9. << <<>>, Root(v) >> \in Arrange(v, before)
    BY RootType DEF Arrange
<1> QED BY <1>7, <1>8, <1>9, ValueIntro

LEMMA ReverseType ==
    ASSUME NEW v \in Value
    PROVE  Reverse(v) \in Value
BY ArrangeType DEF Reverse

LEMMA SortType ==
    ASSUME NEW v \in Value, NEW keys
    PROVE  Sort(v, keys) \in Value
BY ArrangeType DEF Sort

LEMMA ConcatType ==
    ASSUME NEW v \in Value, NEW w \in Value
    PROVE  Concat(v, w) \in Value
<1> DEFINE S == { m \in w : m[1] # <<>> /\ Head(m[1])[1] = "i" }
           move(n) == << << Elem(Head(n[1])[2] + Length(v)) >> \o Tail(n[1]), n[2] >>
           f == [n \in S |-> move(n)]
<1>1. IsFiniteSet(S)
    BY FS_Subset, ValueFinite
<1>2. DOMAIN f = S /\ { f[n] : n \in S } = Shifted(w, Length(v))
    BY DEF Shifted
<1>3. IsFiniteSet(Shifted(w, Length(v)))
    <2> HIDE DEF f, S
    <2> QED BY <1>1, <1>2, ImageFinite
<1>4. \A n \in S : move(n) \in Path \X Label
    <2> SUFFICES ASSUME NEW n \in S PROVE move(n) \in Path \X Label
        OBVIOUS
    <2>1. n[1] \in Seq(Step) /\ n[1] # <<>> /\ n[2] \in Label
        BY NodeType DEF Path
    <2>2. Head(n[1]) \in Step /\ Head(n[1])[1] = "i"
        BY <2>1
    <2>3. Head(n[1])[2] \in Nat
        BY <2>2 DEF Step
    <2>4. Elem(Head(n[1])[2] + Length(v)) \in Step
        BY <2>3, LengthType, StepTypes
    <2>5. Tail(n[1]) \in Seq(Step)
        BY <2>1, HeadTailProperties
    <2>6. << Elem(Head(n[1])[2] + Length(v)) >> \in Seq(Step)
        BY <2>4
    <2> QED BY <2>1, <2>5, <2>6, ConcatProperties DEF Path
<1>5. Shifted(w, Length(v)) \subseteq Path \X Label
    BY <1>4 DEF Shifted
<1>6. Concat(v, w) \subseteq Path \X Label /\ IsFiniteSet(Concat(v, w))
    BY <1>3, <1>5, ValueFinite, FS_Union DEF Concat
<1> QED BY <1>6, RootType, ValueIntro DEF Concat

LEMMA FlattenIntoType ==
    ASSUME NEW v \in Value, NEW w \in Value
    PROVE  FlattenInto(v, w) \in Value
BY ConcatType, PushType DEF FlattenInto

LEMMA MergeType ==
    ASSUME NEW v \in Value, NEW w \in Value
    PROVE  Merge(v, w) \in Value
<1> DEFINE S == { n \in v : n[1] = <<>> \/ Head(n[1]) \notin Steps(w) }
           T == { n \in w : n[1] # <<>> }
<1>1. IsFiniteSet(S) /\ IsFiniteSet(T)
    BY FS_Subset, ValueFinite
<1>2. IsFiniteSet(Merge(v, w))
    BY <1>1, FS_Union DEF Merge
<1>3. Merge(v, w) \subseteq Path \X Label
    BY ValueFinite DEF Merge
<1>4. << <<>>, Root(v) >> \in Merge(v, w)
    BY RootType DEF Merge
<1> QED BY <1>2, <1>3, <1>4, ValueIntro

(* The value at a path that occurs in v. *)
LEMMA AtType ==
    ASSUME NEW v \in Value, NEW p \in Paths(v)
    PROVE  At(v, p) \in Value /\ p \in Path
<1> DEFINE S == Below(v, p)
           f == [n \in S |-> << From(n[1], p), n[2] >>]
<1>0. p \in Path
    BY NodeType DEF Paths
<1>1. IsFiniteSet(S)
    BY FS_Subset, ValueFinite DEF Below
<1>2. DOMAIN f = S /\ { f[n] : n \in S } = At(v, p)
    BY DEF At
<1>3. IsFiniteSet(At(v, p))
    <2> HIDE DEF f, S
    <2> QED BY <1>1, <1>2, ImageFinite
<1>4. At(v, p) \subseteq Path \X Label
    <2> SUFFICES ASSUME NEW n \in v, Len(n[1]) >= Len(p)
                 PROVE  << From(n[1], p), n[2] >> \in Path \X Label
        BY DEF At, Below
    <2>1. n[1] \in Seq(Step) /\ Len(p) + 1 \in 1..(Len(n[1]) + 1)
        BY <1>0, NodeType DEF Path
    <2>2. SubSeq(n[1], Len(p) + 1, Len(n[1])) \in Seq(Step)
        BY <2>1
    <2> QED BY <2>2, NodeType DEF From, Path
<1>5. PICK n \in v : n[1] = p
    BY DEF Paths
<1>6. n \in Below(v, p) /\ From(n[1], p) = <<>>
    BY <1>0, <1>5 DEF Below, From, Path
<1>7. << <<>>, n[2] >> \in At(v, p)
    BY <1>6 DEF At
<1> QED BY <1>0, <1>3, <1>4, <1>7, ValueIntro

LEMMA LiftType ==
    ASSUME NEW p \in Path, NEW v \in Value
    PROVE  Lift(p, v) \subseteq Path \X Label /\ IsFiniteSet(Lift(p, v))
<1> DEFINE f == [n \in v |-> << p \o n[1], n[2] >>]
<1>1. DOMAIN f = v /\ { f[n] : n \in v } = Lift(p, v)
    BY DEF Lift
<1>2. IsFiniteSet(Lift(p, v))
    <2> HIDE DEF f
    <2> QED BY <1>1, ImageFinite, ValueFinite
<1>3. \A n \in v : << p \o n[1], n[2] >> \in Path \X Label
    BY NodeType, ConcatProperties DEF Path
<1>4. Lift(p, v) \subseteq Path \X Label
    BY <1>3 DEF Lift
<1> QED BY <1>2, <1>4

LEMMA PathsFinite ==
    ASSUME NEW v \in Value
    PROVE  IsFiniteSet(Paths(v)) /\ Paths(v) \subseteq Path
<1> DEFINE f == [n \in v |-> n[1]]
<1>1. DOMAIN f = v /\ { f[n] : n \in v } = Paths(v)
    BY DEF Paths
<1>2. IsFiniteSet(Paths(v))
    <2> HIDE DEF f
    <2> QED BY <1>1, ImageFinite, ValueFinite
<1> QED BY <1>2, NodeType DEF Paths

LEMMA FlattenDeepType ==
    ASSUME NEW v \in Value
    PROVE  FlattenDeep(v) \in Value
<1> DEFINE rank(p) == Cardinality({ q \in Flat(v) : Precedes(q, p) })
           part(p) == Graft(Elem(rank(p)), At(v, p))
           f == [p \in Flat(v) |-> part(p)]
<1>1. Flat(v) \subseteq Paths(v)
    BY DEF Flat, Paths
<1>2. IsFiniteSet(Flat(v))
    BY <1>1, PathsFinite, FS_Subset
<1>3. \A p \in Flat(v) : part(p) \subseteq Path \X Label /\ IsFiniteSet(part(p))
    <2> SUFFICES ASSUME NEW p \in Flat(v)
                 PROVE  part(p) \subseteq Path \X Label /\ IsFiniteSet(part(p))
        OBVIOUS
    <2>1. rank(p) \in Nat
        BY <1>2, FS_Subset, FS_CardinalityType
    <2>2. At(v, p) \in Value
        BY <1>1, AtType
    <2> QED BY <2>1, <2>2, StepTypes, GraftType
<1>4. DOMAIN f = Flat(v) /\ { f[p] : p \in Flat(v) } = { part(p) : p \in Flat(v) }
    OBVIOUS
<1>5. IsFiniteSet({ part(p) : p \in Flat(v) })
    <2> HIDE DEF f, part
    <2> QED BY <1>2, <1>4, ImageFinite
<1>6. IsFiniteSet(UNION { part(p) : p \in Flat(v) })
    BY <1>3, <1>5, FS_UNION
<1>7. UNION { part(p) : p \in Flat(v) } \subseteq Path \X Label
    BY <1>3
<1>8. NoElems \in Value /\ << <<>>, <<"arr">> >> \in NoElems
    BY ConstantsType DEF NoElems, Leaf
<1>9. FlattenDeep(v) = NoElems \cup UNION { part(p) : p \in Flat(v) }
    BY DEF FlattenDeep
<1> HIDE DEF part
<1> QED BY <1>6, <1>7, <1>8, <1>9, ValueFinite, FS_Union, ValueIntro

LEMMA MergeDeepType ==
    ASSUME NEW a \in Value, NEW b \in Value
    PROVE  MergeDeep(a, b) \in Value
<1> DEFINE J == Joined(a, b)
           M == Meeting(a, b)
           part(p) == Lift(p, Met(a, b, p))
           f == [p \in M |-> part(p)]
           g == [p \in J |-> << p, <<"obj">> >>]
<1>1. J \subseteq Paths(a) /\ M \subseteq Paths(a) \cup Paths(b)
    BY DEF Joined, Meeting, Objects, Paths
<1>2. IsFiniteSet(J) /\ IsFiniteSet(M)
    BY <1>1, PathsFinite, FS_Subset, FS_Union
<1>3. DOMAIN g = J /\ { g[p] : p \in J } = { << p, <<"obj">> >> : p \in J }
    OBVIOUS
<1>4. IsFiniteSet({ << p, <<"obj">> >> : p \in J })
    <2> HIDE DEF g, J
    <2> QED BY <1>2, <1>3, ImageFinite
<1>5. { << p, <<"obj">> >> : p \in J } \subseteq Path \X Label
    <2>1. <<"obj">> \in Label
        BY DEF Label
    <2> HIDE DEF J
    <2> QED BY <2>1, <1>1, PathsFinite
<1>6. \A p \in M : part(p) \subseteq Path \X Label /\ IsFiniteSet(part(p))
    <2> SUFFICES ASSUME NEW p \in M
                 PROVE  part(p) \subseteq Path \X Label /\ IsFiniteSet(part(p))
        OBVIOUS
    <2>1. p \in Path
        BY <1>1, PathsFinite
    <2>2. Met(a, b, p) \in Value
        <3>1. CASE p \in Arrays(a) /\ p \in Arrays(b)
            <4>1. p \in Paths(a) /\ p \in Paths(b)
                BY <3>1 DEF Arrays, Paths
            <4> QED BY <3>1, <4>1, AtType, ConcatType DEF Met
        <3>2. CASE ~(p \in Arrays(a) /\ p \in Arrays(b))
            BY <3>2, <1>1, AtType DEF Met
        <3> QED BY <3>1, <3>2
    <2> QED BY <2>1, <2>2, LiftType
<1>7. DOMAIN f = M /\ { f[p] : p \in M } = { part(p) : p \in M }
    OBVIOUS
<1>8. IsFiniteSet({ part(p) : p \in M })
    <2> HIDE DEF f, part, M
    <2> QED BY <1>2, <1>7, ImageFinite
<1>9. IsFiniteSet(UNION { part(p) : p \in M })
    BY <1>6, <1>8, FS_UNION
<1>10. UNION { part(p) : p \in M } \subseteq Path \X Label
    BY <1>6
<1>11. NoKeys \in Value /\ << <<>>, <<"obj">> >> \in NoKeys
    BY ConstantsType DEF NoKeys, Leaf
<1>12. MergeDeep(a, b) =
           NoKeys \cup { << p, <<"obj">> >> : p \in J } \cup UNION { part(p) : p \in M }
    BY DEF MergeDeep
<1> HIDE DEF part, J, M
<1>13. IsFiniteSet(MergeDeep(a, b))
    BY <1>4, <1>9, <1>11, <1>12, ValueFinite, FS_Union
<1>14. MergeDeep(a, b) \subseteq Path \X Label
    BY <1>5, <1>10, <1>11, <1>12, ValueFinite
<1> QED BY <1>11, <1>12, <1>13, <1>14, ValueIntro

-----------------------------------------------------------------------------
(* Sequences, as call stacks use them: all but the last, one or two added. *)

LEMMA FrontOf ==
    ASSUME NEW S, NEW s \in Seq(S), s # <<>>
    PROVE  LET r == SubSeq(s, 1, Len(s) - 1)
           IN  /\ r \in Seq(S) /\ Len(s) \in Nat /\ Len(r) = Len(s) - 1
               /\ \A i \in 1..(Len(s) - 1) : r[i] = s[i]
<1>1. Len(s) \in Nat /\ Len(s) >= 1
    OBVIOUS
<1> DEFINE n == Len(s) - 1
           r == SubSeq(s, 1, n)
<1>2. 1 \in 1..(Len(s) + 1) /\ n \in (1 - 1)..Len(s) /\ n \in Nat
    BY <1>1
<1>3. /\ r \in Seq(S) /\ Len(r) = IF 1 <= n THEN n - 1 + 1 ELSE 0
      /\ \A i \in 1..(n - 1 + 1) : r[i] = s[1 + i - 1]
    BY <1>2, SubSeqProperties
<1> HIDE DEF r
<1>4. Len(r) = n /\ \A i \in 1..n : r[i] = s[i]
    <2> HIDE DEF n
    <2>1. n - 1 + 1 = n /\ \A i \in 1..n : 1 + i - 1 = i
        BY <1>2
    <2>2. ~(1 <= n) => n = 0
        BY <1>2
    <2> QED BY <1>2, <1>3, <2>1, <2>2
<1> QED BY <1>1, <1>3, <1>4 DEF r

LEMMA Extended ==
    ASSUME NEW S, NEW r \in Seq(S), NEW f, NEW g, NEW n \in Nat, Len(r) = n - 1
    PROVE  /\ DOMAIN Append(r, f) = 1..n
           /\ \A i \in 1..(n - 1) : Append(r, f)[i] = r[i]
           /\ Append(r, f)[n] = f
           /\ DOMAIN (r \o << f, g >>) = 1..(n + 1)
           /\ \A i \in 1..(n - 1) : (r \o << f, g >>)[i] = r[i]
           /\ (r \o << f, g >>)[n] = f /\ (r \o << f, g >>)[n + 1] = g
OBVIOUS

LEMMA LastOrBefore ==
    /\ \A n \in Nat : \A i \in 1..n : i = n \/ i \in 1..(n - 1)
    /\ \A n \in Nat : \A i \in 1..(n + 1) : i = n + 1 \/ i = n \/ i \in 1..(n - 1)
    /\ \A n \in Nat : \A i \in 1..(n - 1) : i \in 1..n
OBVIOUS
=============================================================================
