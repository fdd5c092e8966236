----------------------------- MODULE DeepProofs -----------------------------
(***************************************************************************)
(* $mergeDeep and $flattenDeep.  Containers says what they compute by      *)
(* paths, ByRecursion has merge_deep and flatten_deep of rs/src/render.rs  *)
(* call by call, and here the two are shown to be the same: what is said   *)
(* by paths satisfies the equations of the recursion, a child has fewer    *)
(* nodes than its parent, and so the equations have no other solution.     *)
(***************************************************************************)
EXTENDS ContainerProofs, WellFoundedInduction

-----------------------------------------------------------------------------
(* Paths, and what is at the end of them.                                  *)

LEMMA OneStep ==
    ASSUME NEW e \in Step, NEW q \in Seq(Step)
    PROVE  /\ <<e>> \o q \in Seq(Step) /\ <<e>> \o q # <<>> /\ Len(<<e>> \o q) = Len(q) + 1
           /\ Head(<<e>> \o q) = e /\ Tail(<<e>> \o q) = q /\ (<<e>> \o q)[1] = e
           /\ \A i \in 1..Len(q) : (<<e>> \o q)[i + 1] = q[i]
OBVIOUS

LEMMA FirstStep ==
    ASSUME NEW p \in Seq(Step), p # <<>>
    PROVE  Head(p) \in Step /\ Tail(p) \in Seq(Step) /\ p = << Head(p) >> \o Tail(p)
<1>1. Head(p) \in Step /\ Tail(p) \in Seq(Step)
    BY HeadTailProperties
<1>2. p = << Head(p) >> \o Tail(p)
    OBVIOUS
<1> QED BY <1>1, <1>2

LEMMA CancelStep ==
    ASSUME NEW d \in Step, NEW e \in Step, NEW p \in Seq(Step), NEW q \in Seq(Step),
           <<d>> \o p = <<e>> \o q
    PROVE  d = e /\ p = q
BY OneStep

LEMMA StepSubSeq ==
    ASSUME NEW e \in Step, NEW q \in Seq(Step), NEW i \in 0..Len(q)
    PROVE  SubSeq(<<e>> \o q, 1, i + 1) = <<e>> \o SubSeq(q, 1, i) /\ SubSeq(q, 1, i) \in Seq(Step)
<1> DEFINE s == SubSeq(<<e>> \o q, 1, i + 1)
           t == SubSeq(q, 1, i)
<1>1. Len(q) \in Nat /\ i \in Nat /\ i <= Len(q)
    OBVIOUS
<1>2. /\ <<e>> \o q \in Seq(Step) /\ Len(<<e>> \o q) = Len(q) + 1 /\ (<<e>> \o q)[1] = e
      /\ \A j \in 1..Len(q) : (<<e>> \o q)[j + 1] = q[j]
    BY OneStep
<1>3. t \in Seq(Step) /\ Len(t) = i /\ \A j \in 1..i : t[j] = q[j]
    BY <1>1, SubSeqProperties
<1>4. s \in Seq(Step) /\ Len(s) = i + 1 /\ \A j \in 1..(i + 1) : s[j] = (<<e>> \o q)[j]
    BY <1>1, <1>2, SubSeqProperties
<1>5. /\ <<e>> \o t \in Seq(Step) /\ Len(<<e>> \o t) = i + 1 /\ (<<e>> \o t)[1] = e
      /\ \A j \in 1..i : (<<e>> \o t)[j + 1] = t[j]
    BY <1>3, OneStep
<1>6. ASSUME NEW j \in 1..(i + 1) PROVE s[j] = (<<e>> \o t)[j]
    <2>1. CASE j = 1
        BY <1>1, <1>2, <1>4, <1>5, <2>1
    <2>2. CASE j # 1
        <3> DEFINE m == j - 1
        <3>1. m \in 1..i /\ m \in 1..Len(q) /\ j = m + 1
            BY <1>1, <2>2
        <3> HIDE DEF m, s, t
        <3> QED BY <1>2, <1>3, <1>4, <1>5, <3>1
    <2> QED BY <2>1, <2>2
<1> HIDE DEF s, t
<1>7. s = <<e>> \o t
    BY <1>1, <1>4, <1>5, <1>6, SeqEqual
<1> QED BY <1>3, <1>7 DEF s, t

LEMMA StepPrefixes ==
    ASSUME NEW e \in Step, NEW q \in Seq(Step)
    PROVE  /\ Prefixes(q) \subseteq Seq(Step)
           /\ Prefixes(<<e>> \o q) = { <<>> } \cup { <<e>> \o r : r \in Prefixes(q) }
<1> DEFINE p == <<e>> \o q
<1>1. Len(q) \in Nat /\ Len(p) = Len(q) + 1 /\ p \in Seq(Step)
    BY OneStep
<1>2. SubSeq(p, 1, 0) = <<>>
    BY <1>1, SubSeqProperties
<1>3. \A i \in 0..Len(q) : SubSeq(p, 1, i + 1) = <<e>> \o SubSeq(q, 1, i) /\ SubSeq(q, 1, i) \in Seq(Step)
    BY StepSubSeq
<1>4. Prefixes(p) = { SubSeq(p, 1, i) : i \in 0..Len(q) } /\ Prefixes(q) = { SubSeq(q, 1, i) : i \in 0..(Len(q) - 1) }
    BY <1>1 DEF Prefixes
<1> HIDE DEF p
<1>5. ASSUME NEW i \in 0..Len(q)
      PROVE  SubSeq(p, 1, i) \in { <<>> } \cup { <<e>> \o r : r \in Prefixes(q) }
    <2>1. CASE i = 0
        BY <1>2, <2>1
    <2>2. CASE i # 0
        <3> DEFINE j == i - 1
        <3>1. j \in 0..(Len(q) - 1) /\ j \in 0..Len(q) /\ i = j + 1
            BY <1>1, <2>2
        <3> HIDE DEF j
        <3> QED BY <1>3, <1>4, <3>1
    <2> QED BY <2>1, <2>2
<1>6. <<>> \in Prefixes(p)
    BY <1>1, <1>2, <1>4
<1>7. ASSUME NEW i \in 0..(Len(q) - 1) PROVE <<e>> \o SubSeq(q, 1, i) \in Prefixes(p)
    <2>1. i \in 0..Len(q) /\ i + 1 \in 0..Len(q)
        BY <1>1
    <2> QED BY <1>3, <1>4, <2>1
<1>8. Prefixes(q) \subseteq Seq(Step)
    <2> SUFFICES ASSUME NEW i \in 0..(Len(q) - 1) PROVE SubSeq(q, 1, i) \in Seq(Step)
        BY <1>4
    <2>1. i \in 0..Len(q)
        BY <1>1
    <2> QED BY <1>3, <2>1
<1>9. { <<e>> \o r : r \in Prefixes(q) } = { <<e>> \o SubSeq(q, 1, i) : i \in 0..(Len(q) - 1) }
    BY <1>4
<1>10. Prefixes(p) = { <<>> } \cup { <<e>> \o r : r \in Prefixes(q) }
    <2>1. Prefixes(p) \subseteq { <<>> } \cup { <<e>> \o r : r \in Prefixes(q) }
        BY <1>4, <1>5
    <2>2. { <<e>> \o r : r \in Prefixes(q) } \subseteq Prefixes(p)
        BY <1>7, <1>9
    <2> QED BY <1>6, <2>1, <2>2
<1> QED BY <1>8, <1>10 DEF p

LEMMA ChildNodes ==
    ASSUME NEW v \in Value, NEW e \in Step, NEW q \in Seq(Step), NEW l
    PROVE  << q, l >> \in Child(v, e) <=> << <<e>> \o q, l >> \in v
<1>1. ASSUME << q, l >> \in Child(v, e) PROVE << <<e>> \o q, l >> \in v
    <2>1. PICK n \in v : n[1] # <<>> /\ Head(n[1]) = e /\ << q, l >> = << Tail(n[1]), n[2] >>
        BY <1>1 DEF Child, Under
    <2>2. n[1] \in Seq(Step) /\ n = << n[1], n[2] >> /\ Tail(n[1]) = q /\ n[2] = l
        BY <2>1, NodeType DEF Path
    <2>3. n[1] = <<e>> \o q
        BY <2>1, <2>2, FirstStep
    <2> QED BY <2>2, <2>3
<1>2. ASSUME << <<e>> \o q, l >> \in v PROVE << q, l >> \in Child(v, e)
    <2> DEFINE n == << <<e>> \o q, l >>
    <2>1. n \in v /\ n[1] # <<>> /\ Head(n[1]) = e /\ Tail(n[1]) = q /\ n[2] = l
        BY <1>2, OneStep
    <2> HIDE DEF n
    <2> QED BY <2>1 DEF Child, Under
<1> QED BY <1>1, <1>2

LEMMA ChildPaths ==
    ASSUME NEW v, NEW e, v \in Value, NEW m \in Child(v, e)
    PROVE  m[1] \in Seq(Step) /\ m = << m[1], m[2] >>
<1>1. PICK n \in v : n[1] # <<>> /\ Head(n[1]) = e /\ m = << Tail(n[1]), n[2] >>
    BY DEF Child, Under
<1> QED BY <1>1, NodeType, HeadTailProperties DEF Path

LEMMA AtNodes ==
    ASSUME NEW v \in Value, NEW p \in Seq(Step), NEW r \in Seq(Step), NEW l
    PROVE  << r, l >> \in At(v, p) <=> << p \o r, l >> \in v
<1>0. Len(p) \in Nat /\ Len(r) \in Nat
    OBVIOUS
<1>1. ASSUME << r, l >> \in At(v, p) PROVE << p \o r, l >> \in v
    <2>1. PICK n \in v : Len(n[1]) >= Len(p) /\ SubSeq(n[1], 1, Len(p)) = p /\ << r, l >> = << From(n[1], p), n[2] >>
        BY <1>1 DEF At, Below
    <2>2. n[1] \in Seq(Step) /\ n = << n[1], n[2] >> /\ n[2] = l /\ r = SubSeq(n[1], Len(p) + 1, Len(n[1]))
        BY <2>1, NodeType DEF Path, From
    <2>3. Len(n[1]) \in Nat /\ SubSeq(n[1], 1, Len(n[1])) = n[1]
        BY <2>2
    <2>4. SubSeq(n[1], 1, Len(p)) \o SubSeq(n[1], Len(p) + 1, Len(n[1])) = SubSeq(n[1], 1, Len(n[1]))
        <3>1. 1 \in 1..Len(n[1]) + 1 /\ Len(p) \in 1 - 1..Len(n[1]) /\ Len(n[1]) \in Len(p)..Len(n[1])
            BY <1>0, <2>1, <2>3
        <3> QED BY <2>2, <3>1, ConcatAdjacentSubSeq
    <2> QED BY <2>1, <2>2, <2>3, <2>4
<1>2. ASSUME << p \o r, l >> \in v PROVE << r, l >> \in At(v, p)
    <2> DEFINE n == << p \o r, l >>
               s == p \o r
    <2>1. s \in Seq(Step) /\ Len(s) = Len(p) + Len(r)
        BY ConcatProperties
    <2>2. SubSeq(s, 1, Len(p)) = p
        <3> DEFINE t == SubSeq(s, 1, Len(p))
        <3>1. t \in Seq(Step) /\ Len(t) = Len(p) /\ \A i \in 1..Len(p) : t[i] = s[i]
            BY <1>0, <2>1, SubSeqProperties
        <3>2. \A i \in 1..Len(p) : s[i] = p[i]
            BY <1>0, ConcatProperties
        <3> HIDE DEF t, s
        <3>3. t = p
            BY <1>0, <3>1, <3>2, SeqEqual
        <3> QED BY <3>3 DEF t
    <2>3. SubSeq(s, Len(p) + 1, Len(s)) = r
        <3> DEFINE t == SubSeq(s, Len(p) + 1, Len(s))
        <3>1. t \in Seq(Step) /\ Len(t) = Len(r) /\ \A i \in 1..Len(r) : t[i] = s[Len(p) + i]
            BY <1>0, <2>1, SubSeqProperties
        <3>2. \A i \in 1..Len(r) : s[Len(p) + i] = r[i]
            BY <1>0, ConcatProperties
        <3> HIDE DEF t, s
        <3>3. t = r
            BY <1>0, <3>1, <3>2, SeqEqual
        <3> QED BY <3>3 DEF t
    <2>4. n \in v /\ n[1] = s /\ n[2] = l /\ Len(s) >= Len(p)
        BY <1>0, <1>2, <2>1
    <2> HIDE DEF n, s
    <2> QED BY <2>2, <2>3, <2>4 DEF At, Below, From
<1> QED BY <1>1, <1>2

LEMMA AtPaths ==
    ASSUME NEW v \in Value, NEW p \in Seq(Step), NEW m \in At(v, p)
    PROVE  m[1] \in Seq(Step) /\ m = << m[1], m[2] >>
<1>1. PICK n \in v : Len(n[1]) >= Len(p) /\ m = << From(n[1], p), n[2] >>
    BY DEF At, Below
<1>2. n[1] \in Seq(Step) /\ Len(n[1]) \in Nat /\ Len(p) \in Nat
    BY NodeType DEF Path
<1>3. SubSeq(n[1], Len(p) + 1, Len(n[1])) \in Seq(Step)
    BY <1>1, <1>2, SubSeqProperties
<1> QED BY <1>1, <1>3 DEF From

(* What is at a path below e is in the child at e. *)
LEMMA AtChild ==
    ASSUME NEW v \in Value, NEW e \in Steps(v), NEW q \in Seq(Step)
    PROVE  At(v, <<e>> \o q) = At(Child(v, e), q)
<1> DEFINE p == <<e>> \o q
           c == Child(v, e)
<1>0. e \in Step /\ c \in Value /\ p \in Seq(Step)
    BY StepsType, ChildType, OneStep
<1>1. ASSUME NEW r \in Seq(Step), NEW l PROVE << r, l >> \in At(v, p) <=> << r, l >> \in At(c, q)
    <2>1. p \o r = <<e>> \o (q \o r) /\ q \o r \in Seq(Step)
        <3>1. <<e>> \in Seq(Step)
            BY <1>0
        <3> QED BY <3>1, ConcatAssociative, ConcatProperties
    <2>2. << r, l >> \in At(v, p) <=> << p \o r, l >> \in v
        BY <1>0, AtNodes
    <2>3. << r, l >> \in At(c, q) <=> << q \o r, l >> \in c
        BY <1>0, AtNodes
    <2>4. << q \o r, l >> \in c <=> << <<e>> \o (q \o r), l >> \in v
        BY <1>0, <2>1, ChildNodes
    <2> QED BY <2>1, <2>2, <2>3, <2>4
<1>2. \A m \in At(v, p) \cup At(c, q) : m[1] \in Seq(Step) /\ m = << m[1], m[2] >>
    BY <1>0, AtPaths
<1> HIDE DEF p, c
<1>3. \A m : m \in At(v, p) <=> m \in At(c, q)
    BY <1>1, <1>2
<1> QED BY <1>3 DEF p, c

(* The sets of paths of Containers, one level down. *)
LEMMA PathSets ==
    ASSUME NEW v \in Value, NEW p
    PROVE  /\ p \in Objects(v) <=> << p, <<"obj">> >> \in v
           /\ p \in Arrays(v) <=> << p, <<"arr">> >> \in v
           /\ p \in Paths(v) <=> \E l : << p, l >> \in v
<1>1. \A n \in v : n = << n[1], n[2] >>
    BY NodeType
<1>2. p \in Objects(v) <=> \E n \in v : n[2] = <<"obj">> /\ p = n[1]
    BY DEF Objects
<1>3. p \in Arrays(v) <=> \E n \in v : n[2] = <<"arr">> /\ p = n[1]
    BY DEF Arrays
<1>4. p \in Paths(v) <=> \E n \in v : p = n[1]
    BY DEF Paths
<1> QED BY <1>1, <1>2, <1>3, <1>4

LEMMA PathsDown ==
    ASSUME NEW v \in Value, NEW e \in Steps(v), NEW q \in Seq(Step)
    PROVE  /\ <<e>> \o q \in Objects(v) <=> q \in Objects(Child(v, e))
           /\ <<e>> \o q \in Arrays(v) <=> q \in Arrays(Child(v, e))
           /\ <<e>> \o q \in Paths(v) <=> q \in Paths(Child(v, e))
<1>1. e \in Step /\ Child(v, e) \in Value
    BY StepsType, ChildType
<1>2. \A l : << q, l >> \in Child(v, e) <=> << <<e>> \o q, l >> \in v
    BY <1>1, ChildNodes
<1> QED BY <1>1, <1>2, PathSets

(* A tree has one label at its root, and its children have their kinds.    *)
LEMMA TreeRoot ==
    ASSUME NEW v \in Value, Tree(v)
    PROVE  \A l : << <<>>, l >> \in v <=> l = Root(v)
<1>1. PICK n \in v : n[1] = <<>> /\ Root(v) = n[2]
    BY DEF Value, Root
<1>2. n = << <<>>, Root(v) >>
    BY <1>1, NodeType
<1>3. ASSUME NEW l, << <<>>, l >> \in v PROVE l = Root(v)
    <2> DEFINE m == << <<>>, l >>
    <2>1. m \in v /\ m[1] = n[1] /\ m[2] = l
        BY <1>1, <1>3
    <2> HIDE DEF m
    <2>2. m = n
        BY <2>1 DEF Tree
    <2> QED BY <1>1, <2>1, <2>2
<1> QED BY <1>2, <1>3

LEMMA KindLabels ==
    ASSUME NEW l \in Label
    PROVE  (l[1] = "obj" <=> l = <<"obj">>) /\ (l[1] = "arr" <=> l = <<"arr">>)
BY DEF Label

LEMMA ChildTree ==
    ASSUME NEW v \in Value, Tree(v), NEW e \in Steps(v)
    PROVE  Tree(Child(v, e))
<1> DEFINE c == Child(v, e)
<1>0. e \in Step /\ c \in Value
    BY StepsType, ChildType
<1>1. \A m \in c : m[1] \in Seq(Step) /\ m = << m[1], m[2] >> /\ << <<e>> \o m[1], m[2] >> \in v
    BY <1>0, ChildPaths, ChildNodes
<1>2. ASSUME NEW m \in c, NEW n \in c, m[1] = n[1] PROVE m = n
    <2> DEFINE x == << <<e>> \o m[1], m[2] >>
               y == << <<e>> \o n[1], n[2] >>
    <2>1. x \in v /\ y \in v /\ x[1] = y[1] /\ x[2] = m[2] /\ y[2] = n[2]
        BY <1>1, <1>2
    <2> HIDE DEF x, y
    <2>2. x = y
        BY <2>1 DEF Tree
    <2> QED BY <1>1, <1>2, <2>1, <2>2
<1>3. ASSUME NEW n \in c, NEW i \in 1..Len(n[1])
      PROVE  /\ << SubSeq(n[1], 1, i - 1), IF n[1][i][1] = "i" THEN <<"arr">> ELSE <<"obj">> >> \in c
             /\ n[1][i][1] = "i" =>
                    \A j \in 0..(n[1][i][2] - 1) : \E m \in c : m[1] = Append(SubSeq(n[1], 1, i - 1), << "i", j >>)
    <2> DEFINE q == n[1]
               x == << <<e>> \o q, n[2] >>
               inner == SubSeq(q, 1, i - 1)
               l == IF q[i][1] = "i" THEN <<"arr">> ELSE <<"obj">>
    <2>1. q \in Seq(Step) /\ x \in v /\ x[1] = <<e>> \o q
        BY <1>1
    <2>2. /\ i + 1 \in 1..Len(<<e>> \o q) /\ (<<e>> \o q)[i + 1] = q[i] /\ i - 1 \in 0..Len(q)
          /\ (i - 1) + 1 = (i + 1) - 1
        BY <1>0, <2>1, OneStep
    <2>3. SubSeq(<<e>> \o q, 1, (i + 1) - 1) = <<e>> \o inner /\ inner \in Seq(Step)
        BY <1>0, <2>1, <2>2, StepSubSeq
    <2> HIDE DEF x, q, inner
    <2>4. /\ << SubSeq(x[1], 1, (i + 1) - 1), IF x[1][i + 1][1] = "i" THEN <<"arr">> ELSE <<"obj">> >> \in v
          /\ x[1][i + 1][1] = "i" =>
                 \A j \in 0..(x[1][i + 1][2] - 1) :
                     \E m \in v : m[1] = Append(SubSeq(x[1], 1, (i + 1) - 1), << "i", j >>)
        BY <2>1, <2>2 DEF Tree
    <2>5. << inner, l >> \in c
        BY <1>0, <2>1, <2>2, <2>3, <2>4, ChildNodes
    <2>6. ASSUME q[i][1] = "i", NEW j \in 0..(q[i][2] - 1)
          PROVE  \E m \in c : m[1] = Append(inner, << "i", j >>)
        <3>1. PICK y \in v : y[1] = Append(<<e>> \o inner, << "i", j >>)
            BY <2>1, <2>2, <2>3, <2>4, <2>6
        <3>2. q[i] \in Step
            BY <2>1 DEF q
        <3>3. q[i][2] \in Nat
            BY <3>2, <2>6 DEF Step
        <3>4. << "i", j >> \in Step
            BY <3>3 DEF Step
        <3>5. Append(inner, << "i", j >>) \in Seq(Step)
            BY <2>3, <3>4
        <3>6. Append(<<e>> \o inner, << "i", j >>) = <<e>> \o Append(inner, << "i", j >>)
            BY <1>0, <2>3, <3>4
        <3>7. << <<e>> \o Append(inner, << "i", j >>), y[2] >> \in v
            BY <3>1, <3>6, NodeType
        <3>8. << Append(inner, << "i", j >>), y[2] >> \in c
            BY <1>0, <3>5, <3>7, ChildNodes
        <3> QED BY <3>8
    <2> QED BY <2>5, <2>6 DEF q, inner
<1> HIDE DEF c
<1> QED BY <1>2, <1>3 DEF Tree, c

-----------------------------------------------------------------------------
(* merge_deep.                                                             *)

BothObjects(a, b) == <<>> \in Objects(a) /\ <<>> \in Objects(b)

LEMMA JoinedDown ==
    ASSUME NEW a \in Value, NEW b \in Value, BothObjects(a, b),
           NEW e \in Steps(a) \cap Steps(b), NEW q \in Seq(Step)
    PROVE  <<e>> \o q \in Joined(a, b) <=> q \in Joined(Child(a, e), Child(b, e))
<1> DEFINE both == Objects(a) \cap Objects(b)
           low == Objects(Child(a, e)) \cap Objects(Child(b, e))
<1>1. e \in Step
    BY StepsType
<1>2. \A r \in Seq(Step) : <<e>> \o r \in both <=> r \in low
    BY PathsDown
<1>3. <<>> \in both
    BY DEF BothObjects
<1>4. Prefixes(q) \subseteq Seq(Step) /\ Prefixes(<<e>> \o q) = { <<>> } \cup { <<e>> \o r : r \in Prefixes(q) }
    BY <1>1, StepPrefixes
<1>5. Joined(a, b) = { p \in both : Prefixes(p) \subseteq both }
    BY DEF Joined
<1>6. Joined(Child(a, e), Child(b, e)) = { p \in low : Prefixes(p) \subseteq low }
    BY DEF Joined
<1> HIDE DEF both, low
<1>7. Prefixes(<<e>> \o q) \subseteq both <=> Prefixes(q) \subseteq low
    BY <1>2, <1>3, <1>4
<1> QED BY <1>2, <1>5, <1>6, <1>7

LEMMA JoinedRoot ==
    ASSUME NEW a, NEW b, BothObjects(a, b)
    PROVE  <<>> \in Joined(a, b)
<1>1. Prefixes(<<>>) = {}
    BY EmptySeq DEF Prefixes
<1> QED BY <1>1 DEF Joined, BothObjects

LEMMA NoneJoined ==
    ASSUME NEW a, NEW b, ~BothObjects(a, b), NEW q \in Seq(Step)
    PROVE  q \notin Joined(a, b)
<1>1. CASE q = <<>>
    BY <1>1 DEF Joined, BothObjects
<1>2. CASE q # <<>>
    <2>1. Head(q) \in Step /\ Tail(q) \in Seq(Step) /\ q = << Head(q) >> \o Tail(q)
        BY <1>2, FirstStep
    <2>2. <<>> \in Prefixes(q)
        BY <2>1, StepPrefixes
    <2> QED BY <2>2 DEF Joined, BothObjects
<1> QED BY <1>1, <1>2

LEMMA JoinedHead ==
    ASSUME NEW a \in Value, NEW b \in Value, Attached(a), Attached(b), NEW p \in Joined(a, b), p # <<>>
    PROVE  Head(p) \in Steps(a) \cap Steps(b)
<1>1. p \in Objects(a) /\ p \in Objects(b)
    BY DEF Joined
<1>2. PICK m \in a : m[1] = p
    BY <1>1 DEF Objects
<1>3. PICK n \in b : n[1] = p
    BY <1>1 DEF Objects
<1> QED BY <1>2, <1>3 DEF Attached

LEMMA JoinedPaths ==
    ASSUME NEW a \in Value, NEW b \in Value
    PROVE  Joined(a, b) \subseteq Seq(Step) /\ Meeting(a, b) \subseteq Seq(Step)
<1>1. Objects(a) \subseteq Seq(Step)
    BY NodeType DEF Objects, Path
<1>2. Paths(a) \cup Paths(b) \subseteq Seq(Step)
    BY PathsFinite DEF Path
<1> QED BY <1>1, <1>2 DEF Joined, Meeting

(* One step down, the sides meet where they meet in the children ...       *)
LEMMA MeetingDown ==
    ASSUME NEW a \in Value, NEW b \in Value, BothObjects(a, b),
           NEW e \in Steps(a) \cap Steps(b), NEW q \in Seq(Step), q # <<>>
    PROVE  <<e>> \o q \in Meeting(a, b) <=> q \in Meeting(Child(a, e), Child(b, e))
<1> DEFINE p == <<e>> \o q
           c == Child(a, e)
           d == Child(b, e)
<1>1. e \in Step /\ p # <<>> /\ Len(p) - 1 = Len(q)
    BY StepsType, OneStep
<1>2. p \in Paths(a) \cup Paths(b) <=> q \in Paths(c) \cup Paths(d)
    BY PathsDown
<1>3. p \in Joined(a, b) <=> q \in Joined(c, d)
    BY JoinedDown
<1>4. SubSeq(p, 1, Len(p) - 1) \in Joined(a, b) <=> SubSeq(q, 1, Len(q) - 1) \in Joined(c, d)
    <2> DEFINE i == Len(q) - 1
    <2>1. i \in 0..Len(q) /\ i + 1 = Len(q)
        BY EmptySeq
    <2>2. SubSeq(p, 1, i + 1) = <<e>> \o SubSeq(q, 1, i) /\ SubSeq(q, 1, i) \in Seq(Step)
        <3> HIDE DEF i
        <3> QED BY <1>1, <2>1, StepSubSeq
    <2> QED BY <1>1, <2>1, <2>2, JoinedDown
<1> HIDE DEF p, c, d
<1> QED BY <1>1, <1>2, <1>3, <1>4 DEF Meeting, p, c, d

(* ... or right there, if they are not both objects there.                 *)
LEMMA MeetingHere ==
    ASSUME NEW a \in Value, NEW b \in Value, BothObjects(a, b), NEW e \in Steps(a) \cup Steps(b)
    PROVE  <<e>> \in Meeting(a, b) <=> <<e>> \notin Joined(a, b)
<1>1. e \in Step
    BY StepsType
<1>2. PICK n \in a \cup b : Len(n[1]) = 1 /\ n[1][1] = e
    BY DEF Steps
<1>3. n[1] = <<e>>
    BY <1>2, NodeType DEF Path
<1>4. <<e>> \in Paths(a) \cup Paths(b)
    BY <1>3 DEF Paths
<1>5. SubSeq(<<e>>, 1, Len(<<e>>) - 1) = <<>> /\ <<e>> # <<>>
    BY <1>1
<1> QED BY <1>4, <1>5, JoinedRoot DEF Meeting

LEMMA NotMeetingBelow ==
    ASSUME NEW a \in Value, NEW b \in Value, BothObjects(a, b), Attached(a), Attached(b),
           NEW e \in Step, <<e>> \notin Joined(a, b), NEW q \in Seq(Step)
    PROVE  /\ <<e>> \o q \notin Joined(a, b)
           /\ q # <<>> => <<e>> \o q \notin Meeting(a, b)
<1>1. ASSUME NEW r \in Seq(Step) PROVE <<e>> \o r \notin Joined(a, b)
    <2>1. CASE e \in Steps(a) \cap Steps(b)
        <3> DEFINE c == Child(a, e)
                   d == Child(b, e)
        <3>1. <<e>> \o <<>> = <<e>> /\ <<>> \in Seq(Step)
            BY EmptySeq
        <3>2. <<>> \notin Joined(c, d)
            BY <2>1, <3>1, JoinedDown
        <3>3. ~BothObjects(c, d)
            BY <3>2, JoinedRoot
        <3>4. r \notin Joined(c, d)
            BY <3>3, NoneJoined
        <3> QED BY <2>1, <3>4, JoinedDown
    <2>2. CASE e \notin Steps(a) \cap Steps(b)
        <3> DEFINE s == <<e>> \o r
        <3>1. s # <<>> /\ Head(s) = e
            BY OneStep
        <3> HIDE DEF s
        <3>2. s \notin Joined(a, b)
            BY <2>2, <3>1, JoinedHead
        <3> QED BY <3>2 DEF s
    <2> QED BY <2>1, <2>2
<1>2. ASSUME q # <<>> PROVE <<e>> \o q \notin Meeting(a, b)
    <2> DEFINE p == <<e>> \o q
               i == Len(q) - 1
    <2>1. i \in 0..Len(q) /\ i + 1 = Len(q) /\ Len(p) - 1 = i + 1
        BY <1>2, EmptySeq, OneStep
    <2>2. SubSeq(p, 1, i + 1) = <<e>> \o SubSeq(q, 1, i) /\ SubSeq(q, 1, i) \in Seq(Step)
        <3> HIDE DEF i
        <3> QED BY <2>1, StepSubSeq
    <2>3. SubSeq(p, 1, Len(p) - 1) \notin Joined(a, b)
        BY <1>1, <2>1, <2>2
    <2> QED BY <2>3 DEF Meeting
<1> QED BY <1>1, <1>2

LEMMA AtRoot ==
    ASSUME NEW v \in Value
    PROVE  At(v, <<>>) = v
<1>1. \A r \in Seq(Step) : <<>> \o r = r
    BY ConcatEmptySeq
<1>2. <<>> \in Seq(Step)
    BY EmptySeq
<1>3. \A r \in Seq(Step) : \A l : << r, l >> \in At(v, <<>>) <=> << r, l >> \in v
    BY <1>1, <1>2, AtNodes
<1>4. \A m \in At(v, <<>>) \cup v : m[1] \in Seq(Step) /\ m = << m[1], m[2] >>
    BY <1>2, AtPaths, NodeType DEF Path
<1>5. \A m : m \in At(v, <<>>) <=> m \in v
    BY <1>3, <1>4
<1> QED BY <1>5

LEMMA MetDown ==
    ASSUME NEW a \in Value, NEW b \in Value, NEW e \in Steps(a) \cap Steps(b), NEW q \in Seq(Step)
    PROVE  Met(a, b, <<e>> \o q) = Met(Child(a, e), Child(b, e), q)
BY PathsDown, AtChild DEF Met

LEMMA MetType ==
    ASSUME NEW a \in Value, NEW b \in Value, NEW p \in Meeting(a, b)
    PROVE  Met(a, b, p) \in Value
<1>1. p \in Paths(a) \cup Paths(b)
    BY DEF Meeting
<1>2. Arrays(a) \subseteq Paths(a) /\ Arrays(b) \subseteq Paths(b)
    BY DEF Arrays, Paths
<1> QED BY <1>1, <1>2, AtType, ConcatType DEF Met

(* The nodes of a merged object: joined ones, and those of what has met.   *)
LEMMA MergeNodes ==
    ASSUME NEW a \in Value, NEW b \in Value, BothObjects(a, b), NEW p \in Seq(Step), NEW l
    PROVE  << p, l >> \in MergeDeep(a, b) <=>
               \/ p \in Joined(a, b) /\ l = <<"obj">>
               \/ \E m \in Meeting(a, b) : \E r \in Seq(Step) : p = m \o r /\ << r, l >> \in Met(a, b, m)
<1> DEFINE x == << p, l >>
           J == { << j, <<"obj">> >> : j \in Joined(a, b) }
           M == UNION { Lift(m, Met(a, b, m)) : m \in Meeting(a, b) }
<1>1. MergeDeep(a, b) = NoKeys \cup J \cup M
    BY DEF MergeDeep
<1>2. x \in NoKeys => x \in J
    BY JoinedRoot DEF NoKeys, Leaf
<1>3. x \in J <=> p \in Joined(a, b) /\ l = <<"obj">>
    OBVIOUS
<1>4. x \in M <=> \E m \in Meeting(a, b) : x \in Lift(m, Met(a, b, m))
    OBVIOUS
<1>5. ASSUME NEW m \in Meeting(a, b)
      PROVE  x \in Lift(m, Met(a, b, m)) <=> \E r \in Seq(Step) : p = m \o r /\ << r, l >> \in Met(a, b, m)
    <2> DEFINE w == Met(a, b, m)
    <2>1. w \in Value
        BY MetType
    <2>2. \A n \in w : n = << n[1], n[2] >> /\ n[1] \in Seq(Step)
        BY <2>1, NodeType DEF Path
    <2>3. x \in Lift(m, w) <=> \E n \in w : p = m \o n[1] /\ l = n[2]
        BY DEF Lift
    <2> HIDE DEF w
    <2>4. ASSUME NEW n \in w, p = m \o n[1], l = n[2]
          PROVE  \E r \in Seq(Step) : p = m \o r /\ << r, l >> \in w
        BY <2>2, <2>4
    <2>5. ASSUME NEW r \in Seq(Step), p = m \o r, << r, l >> \in w
          PROVE  \E n \in w : p = m \o n[1] /\ l = n[2]
        <3> DEFINE n == << r, l >>
        <3>1. n \in w /\ n[1] = r /\ n[2] = l
            BY <2>5
        <3> HIDE DEF n
        <3> QED BY <2>5, <3>1
    <2>6. (\E n \in w : p = m \o n[1] /\ l = n[2]) <=> (\E r \in Seq(Step) : p = m \o r /\ << r, l >> \in w)
        BY <2>4, <2>5
    <2> QED BY <2>3, <2>6 DEF w
<1> HIDE DEF x, J, M
<1>6. x \in MergeDeep(a, b) <=> x \in J \/ x \in M
    BY <1>1, <1>2
<1>7. x \in MergeDeep(a, b) <=>
          \/ p \in Joined(a, b) /\ l = <<"obj">>
          \/ \E m \in Meeting(a, b) : \E r \in Seq(Step) : p = m \o r /\ << r, l >> \in Met(a, b, m)
    BY <1>3, <1>4, <1>5, <1>6
<1> QED BY <1>7 DEF x

(* What merge_deep makes of two values, and of two fields that may miss.   *)
Merged(a, b) ==
    IF Kind(a) = "arr" /\ Kind(b) = "arr" THEN Concat(a, b)
    ELSE IF Kind(a) = "obj" /\ Kind(b) = "obj" THEN MergeDeep(a, b)
    ELSE b
MergedAt(a, b, e) ==
    IF e \notin Steps(b) THEN Child(a, e)
    ELSE IF e \notin Steps(a) THEN Child(b, e)
    ELSE Merged(Child(a, e), Child(b, e))

LEMMA KindPaths ==
    ASSUME NEW v \in Value, Tree(v)
    PROVE  /\ <<>> \in Objects(v) <=> Kind(v) = "obj"
           /\ <<>> \in Arrays(v) <=> Kind(v) = "arr"
<1>1. Root(v) \in Label
    BY RootType
<1>2. /\ << <<>>, <<"obj">> >> \in v <=> Root(v) = <<"obj">>
      /\ << <<>>, <<"arr">> >> \in v <=> Root(v) = <<"arr">>
    BY TreeRoot
<1> QED BY <1>1, <1>2, KindLabels, PathSets DEF Kind

LEMMA MetHere ==
    ASSUME NEW a \in Value, NEW b \in Value, Tree(a), Tree(b), BothObjects(a, b),
           NEW e \in Steps(a) \cup Steps(b), <<e>> \notin Joined(a, b)
    PROVE  Met(a, b, <<e>>) = MergedAt(a, b, e)
<1> DEFINE c == Child(a, e)
           d == Child(b, e)
<1>0. e \in Step /\ <<e>> \o <<>> = <<e>> /\ <<>> \in Seq(Step)
    BY StepsType, EmptySeq
<1>1. e \in Steps(a) => c \in Value /\ Tree(c) /\ At(a, <<e>>) = c
    BY <1>0, AtChild, AtRoot, ChildType, ChildTree
<1>2. e \in Steps(b) => d \in Value /\ Tree(d) /\ At(b, <<e>>) = d
    BY <1>0, AtChild, AtRoot, ChildType, ChildTree
<1>3. \A v \in {a, b} : <<e>> \in Paths(v) => e \in Steps(v)
    <2> SUFFICES ASSUME NEW v \in {a, b}, <<e>> \in Paths(v) PROVE e \in Steps(v)
        OBVIOUS
    <2>1. PICK n \in v : n[1] = <<e>>
        BY DEF Paths
    <2>2. Len(n[1]) = 1 /\ n[1][1] = e
        BY <2>1
    <2> QED BY <2>2 DEF Steps
<1>4. \A v \in {a, b} : e \in Steps(v) => <<e>> \in Paths(v)
    <2> SUFFICES ASSUME NEW v \in {a, b}, e \in Steps(v) PROVE <<e>> \in Paths(v)
        OBVIOUS
    <2>1. PICK n \in v : Len(n[1]) = 1 /\ n[1][1] = e
        BY DEF Steps
    <2>2. n[1] = <<e>>
        BY <2>1, NodeType DEF Path
    <2> QED BY <2>2 DEF Paths
<1>5. Arrays(a) \subseteq Paths(a) /\ Arrays(b) \subseteq Paths(b)
    BY DEF Arrays, Paths
<1>6. CASE e \notin Steps(b)
    <2>1. Met(a, b, <<e>>) = At(a, <<e>>)
        BY <1>3, <1>5, <1>6 DEF Met
    <2> QED BY <1>1, <1>6, <2>1 DEF MergedAt
<1>7. CASE e \in Steps(b) /\ e \notin Steps(a)
    <2>1. Met(a, b, <<e>>) = At(b, <<e>>)
        BY <1>3, <1>4, <1>5, <1>7 DEF Met
    <2> QED BY <1>2, <1>7, <2>1 DEF MergedAt
<1>8. CASE e \in Steps(a) /\ e \in Steps(b)
    <2>0. /\ <<e>> \o <<>> \in Arrays(a) <=> <<>> \in Arrays(c)
          /\ <<e>> \o <<>> \in Arrays(b) <=> <<>> \in Arrays(d)
        BY <1>0, <1>8, PathsDown
    <2>1. <<e>> \in Arrays(a) <=> Kind(c) = "arr"
        BY <1>0, <1>1, <1>8, <2>0, KindPaths
    <2>2. <<e>> \in Arrays(b) <=> Kind(d) = "arr"
        BY <1>0, <1>2, <1>8, <2>0, KindPaths
    <2>3. ~(Kind(c) = "obj" /\ Kind(d) = "obj")
        <3>1. <<>> \notin Joined(c, d)
            BY <1>0, <1>8, JoinedDown
        <3>2. ~BothObjects(c, d)
            BY <3>1, JoinedRoot
        <3> QED BY <1>1, <1>2, <1>8, <3>2, KindPaths DEF BothObjects
    <2>4. <<e>> \in Paths(b)
        BY <1>4, <1>8
    <2> HIDE DEF c, d
    <2>5. Met(a, b, <<e>>) = IF Kind(c) = "arr" /\ Kind(d) = "arr" THEN Concat(c, d) ELSE d
        BY <1>1, <1>2, <1>8, <2>1, <2>2, <2>4 DEF Met
    <2>6. MergedAt(a, b, e) = Merged(c, d)
        BY <1>8 DEF MergedAt, c, d
    <2> QED BY <2>3, <2>5, <2>6 DEF Merged
<1> QED BY <1>6, <1>7, <1>8

LEMMA MergeUnder ==
    ASSUME NEW a \in Value, NEW b \in Value, Tree(a), Tree(b), BothObjects(a, b),
           NEW e \in Steps(a) \cup Steps(b), NEW q \in Seq(Step), NEW l
    PROVE  << <<e>> \o q, l >> \in MergeDeep(a, b) <=> << q, l >> \in MergedAt(a, b, e)
<1> DEFINE p == <<e>> \o q
           c == Child(a, e)
           d == Child(b, e)
<1>0. e \in Step /\ p \in Seq(Step) /\ p # <<>> /\ Attached(a) /\ Attached(b)
    BY StepsType, OneStep, TreeAttached
<1>1. << p, l >> \in MergeDeep(a, b) <=>
          \/ p \in Joined(a, b) /\ l = <<"obj">>
          \/ \E m \in Meeting(a, b) : \E r \in Seq(Step) : p = m \o r /\ << r, l >> \in Met(a, b, m)
    BY <1>0, MergeNodes
<1>2. ASSUME NEW m \in Meeting(a, b), NEW r \in Seq(Step), p = m \o r
      PROVE  \E n \in Seq(Step) : m = <<e>> \o n /\ q = n \o r
    <2>1. m \in Seq(Step) /\ m # <<>>
        BY JoinedPaths DEF Meeting
    <2> DEFINE h == Head(m)
               n == Tail(m)
    <2>2. h \in Step /\ n \in Seq(Step) /\ m = <<h>> \o n
        BY <2>1, FirstStep
    <2> HIDE DEF h, n
    <2>3. <<h>> \in Seq(Step)
        BY <2>2
    <2>4. n \o r \in Seq(Step)
        BY <2>2, ConcatProperties
    <2>5. (<<h>> \o n) \o r = <<h>> \o (n \o r)
        BY <2>2, <2>3, ConcatAssociative
    <2>6. <<h>> \o (n \o r) = <<e>> \o q
        BY <1>2, <2>2, <2>5
    <2>7. h = e /\ n \o r = q
        <3> DEFINE s == n \o r
        <3>1. s \in Seq(Step) /\ <<h>> \o s = <<e>> \o q /\ h \in Step /\ e \in Step
            BY <1>0, <2>2, <2>4, <2>6
        <3> HIDE DEF s
        <3>2. h = e /\ s = q
            BY <3>1, CancelStep
        <3> QED BY <3>2 DEF s
    <2> QED BY <2>2, <2>7
<1>3. CASE <<e>> \in Joined(a, b)
    <2>1. e \in Steps(a) \cap Steps(b)
        <3>1. <<e>> # <<>> /\ Head(<<e>>) = e
            OBVIOUS
        <3> QED BY <1>0, <1>3, <3>1, JoinedHead
    <2>2. c \in Value /\ d \in Value /\ Tree(c) /\ Tree(d)
        BY <2>1, ChildType, ChildTree
    <2>3. BothObjects(c, d)
        <3>1. <<e>> \o <<>> = <<e>> /\ <<>> \in Seq(Step)
            BY <1>0, EmptySeq
        <3>2. <<>> \in Joined(c, d)
            BY <1>3, <2>1, <3>1, JoinedDown
        <3> QED BY <3>2 DEF Joined, BothObjects
    <2>4. MergedAt(a, b, e) = MergeDeep(c, d)
        <3>1. Kind(c) = "obj" /\ Kind(d) = "obj"
            BY <2>2, <2>3, KindPaths DEF BothObjects
        <3> QED BY <2>1, <3>1 DEF MergedAt, Merged
    <2>5. << q, l >> \in MergeDeep(c, d) <=>
              \/ q \in Joined(c, d) /\ l = <<"obj">>
              \/ \E n \in Meeting(c, d) : \E r \in Seq(Step) : q = n \o r /\ << r, l >> \in Met(c, d, n)
        BY <2>2, <2>3, MergeNodes
    <2>6. p \in Joined(a, b) <=> q \in Joined(c, d)
        BY <2>1, JoinedDown
    <2>7. ASSUME NEW n \in Seq(Step)
          PROVE  /\ <<e>> \o n \in Meeting(a, b) <=> n \in Meeting(c, d)
                 /\ Met(a, b, <<e>> \o n) = Met(c, d, n)
        <3>1. CASE n = <<>>
            <4>1. <<e>> \o <<>> = <<e>>
                BY <1>0
            <4>2. <<e>> \notin Meeting(a, b) /\ <<>> \notin Meeting(c, d)
                BY <1>3 DEF Meeting
            <4> QED BY <2>1, <3>1, <4>1, <4>2, MetDown
        <3>2. CASE n # <<>>
            BY <2>1, <3>2, MeetingDown, MetDown
        <3> QED BY <3>1, <3>2
    <2>8. ASSUME NEW m \in Meeting(a, b), NEW r \in Seq(Step), p = m \o r, << r, l >> \in Met(a, b, m)
          PROVE  \E n \in Meeting(c, d) : \E s \in Seq(Step) : q = n \o s /\ << s, l >> \in Met(c, d, n)
        <3>1. PICK n \in Seq(Step) : m = <<e>> \o n /\ q = n \o r
            BY <1>2, <2>8
        <3>2. n \in Meeting(c, d) /\ << r, l >> \in Met(c, d, n)
            BY <2>7, <2>8, <3>1
        <3> QED BY <3>1, <3>2
    <2>9. ASSUME NEW n \in Meeting(c, d), NEW r \in Seq(Step), q = n \o r, << r, l >> \in Met(c, d, n)
          PROVE  \E m \in Meeting(a, b) : \E s \in Seq(Step) : p = m \o s /\ << s, l >> \in Met(a, b, m)
        <3> DEFINE m == <<e>> \o n
        <3>1. n \in Seq(Step)
            BY <2>2, JoinedPaths
        <3>2. m \in Meeting(a, b) /\ << r, l >> \in Met(a, b, m)
            BY <2>7, <2>9, <3>1
        <3>3. <<e>> \in Seq(Step)
            BY <1>0
        <3>4. p = m \o r
            BY <2>9, <3>1, <3>3, ConcatAssociative
        <3> HIDE DEF m, p
        <3> QED BY <3>2, <3>4
    <2> HIDE DEF p, c, d
    <2>10. << p, l >> \in MergeDeep(a, b) <=> << q, l >> \in MergeDeep(c, d)
        BY <1>1, <2>5, <2>6, <2>8, <2>9
    <2> QED BY <2>4, <2>10 DEF p
<1>4. CASE <<e>> \notin Joined(a, b)
    <2>1. <<e>> \in Meeting(a, b)
        BY <1>4, MeetingHere
    <2>2. Met(a, b, <<e>>) = MergedAt(a, b, e)
        BY <1>4, MetHere
    <2>3. p \notin Joined(a, b)
        BY <1>0, <1>4, NotMeetingBelow
    <2>4. ASSUME NEW m \in Meeting(a, b), NEW r \in Seq(Step), p = m \o r, << r, l >> \in Met(a, b, m)
          PROVE  << q, l >> \in Met(a, b, <<e>>)
        <3>1. PICK n \in Seq(Step) : m = <<e>> \o n /\ q = n \o r
            BY <1>2, <2>4
        <3>2. n = <<>>
            BY <1>0, <1>4, <2>4, <3>1, NotMeetingBelow
        <3>3. <<e>> \o <<>> = <<e>> /\ <<>> \o r = r
            BY <1>0, ConcatEmptySeq
        <3> QED BY <2>4, <3>1, <3>2, <3>3
    <2>5. << q, l >> \in Met(a, b, <<e>>) =>
              \E m \in Meeting(a, b) : \E r \in Seq(Step) : p = m \o r /\ << r, l >> \in Met(a, b, m)
        BY <2>1
    <2> HIDE DEF p
    <2>6. << p, l >> \in MergeDeep(a, b) <=> << q, l >> \in Met(a, b, <<e>>)
        BY <1>1, <2>3, <2>4, <2>5
    <2> QED BY <2>2, <2>6 DEF p
<1> QED BY <1>3, <1>4

(* x is the root of the object of f, or a node of one of its fields.       *)
InObject(f, K, x) ==
    \/ x = << <<>>, <<"obj">> >>
    \/ \E k \in K : \E n \in f[k] : x = << << Key(k) >> \o n[1], n[2] >>

LEMMA ObjectNodes ==
    ASSUME NEW K, K \subseteq Str, NEW f \in [K -> Value], NEW x
    PROVE  x \in ObjOf(f) <=> InObject(f, K, x)
<1>1. DOMAIN f = K
    OBVIOUS
<1>2. x \in NoKeys <=> x = << <<>>, <<"obj">> >>
    BY DEF NoKeys, Leaf
<1>3. \A k \in K : x \in Graft(Key(k), f[k]) <=> \E n \in f[k] : x = << << Key(k) >> \o n[1], n[2] >>
    BY DEF Graft
<1>4. x \in UNION { Graft(Key(k), f[k]) : k \in K } <=> \E k \in K : x \in Graft(Key(k), f[k])
    OBVIOUS
<1> QED BY <1>1, <1>2, <1>3, <1>4 DEF ObjOf, InObject

(* What a node of the object of a map is. *)
LEMMA ObjectReads ==
    ASSUME NEW K, NEW f, K \subseteq Str, f \in [K -> Value], NEW x, x \in ObjOf(f)
    PROVE  x = << <<>>, <<"obj">> >> \/ \E k \in K : \E n \in f[k] : x = << << Key(k) >> \o n[1], n[2] >>
<1>1. DOMAIN f = K
    OBVIOUS
<1>2. x \in NoKeys \/ \E k \in K : x \in Graft(Key(k), f[k])
    BY <1>1 DEF ObjOf
<1>3. x \in NoKeys => x = << <<>>, <<"obj">> >>
    BY DEF NoKeys, Leaf
<1>4. ASSUME NEW k \in K, x \in Graft(Key(k), f[k])
      PROVE  \E n \in f[k] : x = << << Key(k) >> \o n[1], n[2] >>
    BY <1>4 DEF Graft
<1> QED BY <1>2, <1>3, <1>4

(* The steps of an object are its keys. *)
LEMMA ObjectSteps ==
    ASSUME NEW v \in Value, Tree(v), Kind(v) = "obj", NEW e \in Steps(v)
    PROVE  \E k \in Keys(v) : e = Key(k)
<1>1. PICK n \in v : Len(n[1]) = 1 /\ n[1][1] = e
    BY DEF Steps
<1>2. e \in Step /\ n[1] \in Seq(Step)
    BY StepsType, NodeType DEF Path
<1>3. 1 \in 1..Len(n[1]) /\ SubSeq(n[1], 1, 1 - 1) = <<>>
    BY <1>1, <1>2
<1>4. << <<>>, IF e[1] = "i" THEN <<"arr">> ELSE <<"obj">> >> \in v
    <2>1. << SubSeq(n[1], 1, 1 - 1), IF n[1][1][1] = "i" THEN <<"arr">> ELSE <<"obj">> >> \in v
        BY <1>3 DEF Tree
    <2> QED BY <1>1, <1>3, <2>1
<1>5. e[1] # "i"
    <2>1. (IF e[1] = "i" THEN <<"arr">> ELSE <<"obj">>) = Root(v)
        BY <1>4, TreeRoot
    <2> QED BY <2>1 DEF Kind
<1>6. e[1] = "k" /\ e = << "k", e[2] >>
    BY <1>2, <1>5 DEF Step
<1> QED BY <1>6 DEF Keys, Key

(* merge_deep of two objects (rs/src/render.rs): the keys of both; under a *)
(* key of one side its value, and under a key of both what merge_deep      *)
(* makes of the two values.                                                *)
THEOREM MergeDeepUnfolds ==
    ASSUME NEW a \in Value, NEW b \in Value, Tree(a), Tree(b), Kind(a) = "obj", Kind(b) = "obj"
    PROVE  MergeDeep(a, b) =
               ObjOf([k \in Keys(a) \cup Keys(b) |->
                         IF ~Has(b, k) THEN Field(a, k)
                         ELSE IF ~Has(a, k) THEN Field(b, k)
                         ELSE Merged(Field(a, k), Field(b, k))])
<1> DEFINE K == Keys(a) \cup Keys(b)
           f == [k \in K |-> IF ~Has(b, k) THEN Field(a, k)
                              ELSE IF ~Has(a, k) THEN Field(b, k)
                              ELSE Merged(Field(a, k), Field(b, k))]
           M == MergeDeep(a, b)
<1>1. BothObjects(a, b) /\ Attached(a) /\ Attached(b)
    BY KindPaths, TreeAttached DEF BothObjects
<1>2. K \subseteq Str /\ \A k \in K : Key(k) \in Steps(a) \cup Steps(b) /\ Key(k) \in Step
    BY KeyStep, StepTypes
<1>3. \A k \in K : f[k] = MergedAt(a, b, Key(k))
    BY DEF MergedAt, Has, Field
<1>4. f \in [K -> Value]
    <2> SUFFICES ASSUME NEW k \in K PROVE MergedAt(a, b, Key(k)) \in Value
        BY <1>3
    <2> QED BY <1>2, ChildType, ConcatType, MergeDeepType DEF MergedAt, Merged
<1>5. M \in Value
    BY MergeDeepType
<1>6. ASSUME NEW x \in M PROVE x \in ObjOf(f)
    <2>1. x[1] \in Seq(Step) /\ x = << x[1], x[2] >>
        BY <1>5, NodeType DEF Path
    <2>2. \/ x[1] \in Joined(a, b) /\ x[2] = <<"obj">>
          \/ \E m \in Meeting(a, b) : \E r \in Seq(Step) : x[1] = m \o r /\ << r, x[2] >> \in Met(a, b, m)
        <3>1. << x[1], x[2] >> \in MergeDeep(a, b)
            BY <2>1
        <3> QED BY <1>1, <2>1, <3>1, MergeNodes
    <2>3. CASE x[1] = <<>>
        <3>1. ASSUME NEW m \in Meeting(a, b), NEW r \in Seq(Step), x[1] = m \o r PROVE FALSE
            <4>1. m \in Seq(Step) /\ m # <<>>
                BY JoinedPaths DEF Meeting
            <4> QED BY <2>3, <3>1, <4>1, ConcatSimplifications!concIsEmpty
        <3>2. x = << <<>>, <<"obj">> >>
            BY <2>1, <2>2, <2>3, <3>1
        <3> HIDE DEF K, f
        <3>3. InObject(f, K, x)
            BY <3>2 DEF InObject
        <3> QED BY <1>2, <1>4, <3>3, ObjectNodes
    <2>4. CASE x[1] # <<>>
        <3> DEFINE h == Head(x[1])
                   t == Tail(x[1])
        <3>1. h \in Step /\ t \in Seq(Step) /\ x[1] = <<h>> \o t
            BY <2>1, <2>4, FirstStep
        <3>2. h \in Steps(a) \cup Steps(b)
            <4>1. CASE x[1] \in Joined(a, b)
                BY <1>1, <2>4, <4>1, JoinedHead
            <4>2. ASSUME NEW m \in Meeting(a, b), NEW r \in Seq(Step), x[1] = m \o r
                  PROVE  h \in Steps(a) \cup Steps(b)
                <5>1. m \in Seq(Step) /\ m # <<>> /\ m \in Paths(a) \cup Paths(b)
                    BY JoinedPaths DEF Meeting
                <5>2. Head(m) \in Steps(a) \cup Steps(b)
                    <6>1. PICK n \in a \cup b : n[1] = m
                        BY <5>1 DEF Paths
                    <6> QED BY <1>1, <5>1, <6>1 DEF Attached
                <5>3. h = Head(m)
                    BY <4>2, <5>1
                <5> QED BY <5>2, <5>3
            <4> QED BY <2>2, <4>1, <4>2
        <3>3. PICK k \in K : h = Key(k)
            BY <3>2, ObjectSteps
        <3> HIDE DEF h, t, f, M
        <3>4. << t, x[2] >> \in f[k]
            BY <1>1, <1>3, <2>1, <3>1, <3>2, <3>3, MergeUnder DEF M
        <3>5. << t, x[2] >>[1] = t /\ << t, x[2] >>[2] = x[2]
            OBVIOUS
        <3>6. \E n \in f[k] : x = << << Key(k) >> \o n[1], n[2] >>
            BY <2>1, <3>1, <3>3, <3>4, <3>5
        <3> HIDE DEF K
        <3>7. InObject(f, K, x)
            BY <3>6 DEF InObject
        <3> QED BY <1>2, <1>4, <3>7, ObjectNodes
    <2> QED BY <2>3, <2>4
<1>7. ASSUME NEW x \in ObjOf(f) PROVE x \in M
    <2>1. CASE x = << <<>>, <<"obj">> >>
        BY <2>1 DEF MergeDeep, NoKeys, Leaf
    <2>2. ASSUME NEW k \in K, NEW n \in f[k], x = << << Key(k) >> \o n[1], n[2] >>
          PROVE  x \in M
        <3>1. f[k] \in Value /\ f[k] = MergedAt(a, b, Key(k))
            BY <1>3, <1>4
        <3>2. n[1] \in Seq(Step) /\ n = << n[1], n[2] >>
            BY <3>1, NodeType DEF Path
        <3>3. << n[1], n[2] >> \in MergedAt(a, b, Key(k))
            BY <2>2, <3>1, <3>2
        <3>4. << << Key(k) >> \o n[1], n[2] >> \in M
            BY <1>1, <1>2, <3>2, <3>3, MergeUnder
        <3> QED BY <2>2, <3>4
    <2> HIDE DEF f, M, K
    <2>3. K \subseteq Str /\ f \in [K -> Value] /\ x \in ObjOf(f)
        BY <1>2, <1>4, <1>7
    <2> HIDE DEF K
    <2>4. x = << <<>>, <<"obj">> >> \/ \E k \in K : \E n \in f[k] : x = << << Key(k) >> \o n[1], n[2] >>
        <3> HIDE DEF f
        <3> QED BY <2>3, ObjectReads
    <2> QED BY <2>1, <2>2, <2>4
<1> HIDE DEF f, M
<1>8. M = ObjOf(f)
    BY <1>6, <1>7
<1> QED BY <1>8 DEF f, M

-----------------------------------------------------------------------------
(* Trees, taken apart and put together again.                              *)

(* A tree with the label l at its root and the child c[e] at each e of E.  *)
Joint(l, E, c) == Leaf(l) \cup UNION { Graft(e, c[e]) : e \in E }

(* Two sets of nodes that agree on the root and below each step are one.   *)
Noded(v) == \A x \in v : x[1] \in Seq(Step) /\ x = << x[1], x[2] >>

LEMMA SameNodes ==
    ASSUME NEW v, NEW w, Noded(v), Noded(w),
           \A l : << <<>>, l >> \in v <=> << <<>>, l >> \in w,
           \A e \in Step, q \in Seq(Step) : \A l : << <<e>> \o q, l >> \in v <=> << <<e>> \o q, l >> \in w
    PROVE  v = w
<1>1. ASSUME NEW x, x[1] \in Seq(Step), x = << x[1], x[2] >> PROVE x \in v <=> x \in w
    <2>1. CASE x[1] = <<>>
        BY <1>1, <2>1
    <2>2. CASE x[1] # <<>>
        <3>1. Head(x[1]) \in Step /\ Tail(x[1]) \in Seq(Step) /\ x[1] = << Head(x[1]) >> \o Tail(x[1])
            BY <1>1, <2>2, FirstStep
        <3> QED BY <1>1, <3>1
    <2> QED BY <2>1, <2>2
<1> QED BY <1>1 DEF Noded

LEMMA ValueNoded ==
    ASSUME NEW v \in Value
    PROVE  Noded(v)
BY NodeType DEF Noded, Path

LEMMA GraftNoded ==
    ASSUME NEW w \in Value, NEW e \in Step
    PROVE  /\ Noded(Graft(e, w))
           /\ \A l : << <<>>, l >> \notin Graft(e, w)
           /\ \A d \in Step, q \in Seq(Step) : \A l :
                  << <<d>> \o q, l >> \in Graft(e, w) <=> d = e /\ << q, l >> \in w
<1>1. \A n \in w : n[1] \in Seq(Step) /\ n = << n[1], n[2] >>
    BY NodeType DEF Path
<1>2. \A x \in Graft(e, w) : \E n \in w : x = << <<e>> \o n[1], n[2] >>
    BY DEF Graft
<1>3. Noded(Graft(e, w))
    <2> SUFFICES ASSUME NEW x \in Graft(e, w) PROVE x[1] \in Seq(Step) /\ x = << x[1], x[2] >>
        BY DEF Noded
    <2>1. PICK n \in w : x = << <<e>> \o n[1], n[2] >>
        BY <1>2
    <2>2. x[1] = <<e>> \o n[1] /\ x[2] = n[2]
        BY <2>1
    <2>3. <<e>> \o n[1] \in Seq(Step)
        BY <1>1, OneStep
    <2> QED BY <2>1, <2>2, <2>3
<1>4. ASSUME NEW l PROVE << <<>>, l >> \notin Graft(e, w)
    <2> SUFFICES ASSUME << <<>>, l >> \in Graft(e, w) PROVE FALSE
        OBVIOUS
    <2>1. PICK n \in w : << <<>>, l >> = << <<e>> \o n[1], n[2] >>
        BY <1>2
    <2>2. <<e>> \o n[1] = <<>>
        BY <2>1
    <2> QED BY <1>1, <2>2, OneStep
<1>5. ASSUME NEW d \in Step, NEW q \in Seq(Step), NEW l
      PROVE  << <<d>> \o q, l >> \in Graft(e, w) <=> d = e /\ << q, l >> \in w
    <2>1. ASSUME << <<d>> \o q, l >> \in Graft(e, w) PROVE d = e /\ << q, l >> \in w
        <3>1. PICK n \in w : << <<d>> \o q, l >> = << <<e>> \o n[1], n[2] >>
            BY <1>2, <2>1
        <3>2. <<d>> \o q = <<e>> \o n[1] /\ l = n[2] /\ n[1] \in Seq(Step) /\ n = << n[1], n[2] >>
            BY <1>1, <3>1
        <3>3. d = e /\ q = n[1]
            BY <3>2, CancelStep
        <3> QED BY <3>2, <3>3
    <2>2. ASSUME d = e, << q, l >> \in w PROVE << <<d>> \o q, l >> \in Graft(e, w)
        <3> DEFINE n == << q, l >>
        <3>1. n \in w /\ n[1] = q /\ n[2] = l
            BY <2>2
        <3> HIDE DEF n
        <3> QED BY <2>2, <3>1 DEF Graft
    <2> QED BY <2>1, <2>2
<1> QED BY <1>3, <1>4, <1>5

LEMMA JointNodes ==
    ASSUME NEW l, NEW E, E \subseteq Step, NEW c \in [E -> Value]
    PROVE  /\ Noded(Joint(l, E, c))
           /\ \A m : << <<>>, m >> \in Joint(l, E, c) <=> m = l
           /\ \A e \in Step, q \in Seq(Step) : \A m :
                  << <<e>> \o q, m >> \in Joint(l, E, c) <=> e \in E /\ << q, m >> \in c[e]
<1> DEFINE J == Joint(l, E, c)
<1>1. \A x : x \in J <=> x = << <<>>, l >> \/ \E e \in E : x \in Graft(e, c[e])
    BY DEF Joint, Leaf
<1>2. \A e \in E : e \in Step /\ c[e] \in Value
    OBVIOUS
<1>3. \A e \in E : /\ Noded(Graft(e, c[e]))
                   /\ \A m : << <<>>, m >> \notin Graft(e, c[e])
                   /\ \A d \in Step, q \in Seq(Step) : \A m :
                          << <<d>> \o q, m >> \in Graft(e, c[e]) <=> d = e /\ << q, m >> \in c[e]
    BY <1>2, GraftNoded
<1> HIDE DEF J
<1>4. Noded(J)
    <2> SUFFICES ASSUME NEW x \in J PROVE x[1] \in Seq(Step) /\ x = << x[1], x[2] >>
        BY DEF Noded
    <2>1. CASE x = << <<>>, l >>
        <3>1. x[1] = <<>> /\ x[2] = l
            BY <2>1
        <3> QED BY <2>1, <3>1, EmptySeq
    <2>2. ASSUME NEW e \in E, x \in Graft(e, c[e]) PROVE x[1] \in Seq(Step) /\ x = << x[1], x[2] >>
        BY <1>3, <2>2 DEF Noded
    <2> QED BY <1>1, <2>1, <2>2
<1>5. ASSUME NEW m PROVE << <<>>, m >> \in J <=> m = l
    <2>1. << <<>>, m >> = << <<>>, l >> <=> m = l
        OBVIOUS
    <2>2. \A e \in E : << <<>>, m >> \notin Graft(e, c[e])
        BY <1>3
    <2> QED BY <1>1, <2>1, <2>2
<1>6. ASSUME NEW e \in Step, NEW q \in Seq(Step), NEW m
      PROVE  << <<e>> \o q, m >> \in J <=> e \in E /\ << q, m >> \in c[e]
    <2>1. << <<e>> \o q, m >> # << <<>>, l >>
        BY OneStep
    <2> QED BY <1>1, <1>3, <2>1
<1> QED BY <1>4, <1>5, <1>6 DEF J

(* What E, c and l have to keep for the joint to be a tree.                *)
Fitting(l, E, c) ==
    /\ l \in Label /\ E \subseteq Step /\ IsFiniteSet(E) /\ c \in [E -> Trees]
    /\ \A e \in E : /\ l = IF e[1] = "i" THEN <<"arr">> ELSE <<"obj">>
                    /\ e[1] = "i" => \A j \in 0..(e[2] - 1) : << "i", j >> \in E

LEMMA JointValue ==
    ASSUME NEW l, NEW E, NEW c, Fitting(l, E, c)
    PROVE  /\ Joint(l, E, c) \in Value /\ c \in [E -> Value]
           /\ \A e \in E : Tree(c[e])
<1> DEFINE f == [e \in E |-> Graft(e, c[e])]
           S == { f[e] : e \in DOMAIN f }
<1>1. \A e \in E : e \in Step /\ c[e] \in Value /\ Tree(c[e])
    BY DEF Fitting, Trees
<1>2. c \in [E -> Value]
    BY <1>1 DEF Fitting
<1>3. DOMAIN f = E /\ \A e \in E : f[e] = Graft(e, c[e])
    OBVIOUS
<1>4. IsFiniteSet(S)
    <2>1. IsFiniteSet(DOMAIN f)
        BY <1>3 DEF Fitting
    <2> HIDE DEF f
    <2> QED BY <2>1, ImageFinite
<1>5. \A T \in S : IsFiniteSet(T) /\ T \subseteq Path \X Label
    <2> HIDE DEF f
    <2> QED BY <1>1, <1>3, GraftType
<1>6. IsFiniteSet(UNION S) /\ UNION S \subseteq Path \X Label
    <2> HIDE DEF S
    <2> QED BY <1>4, <1>5, FS_UNION
<1>7. Joint(l, E, c) = Leaf(l) \cup UNION S
    <2> HIDE DEF f
    <2>1. S = { Graft(e, c[e]) : e \in E }
        BY <1>3
    <2> QED BY <2>1 DEF Joint
<1>8. Leaf(l) \in Value
    BY LeafType DEF Fitting
<1>9. IsFiniteSet(Leaf(l)) /\ Leaf(l) \subseteq Path \X Label
    BY <1>8, ValueFinite
<1>10. << <<>>, l >> \in Joint(l, E, c)
    BY DEF Joint, Leaf
<1> HIDE DEF S
<1>11. IsFiniteSet(Joint(l, E, c)) /\ Joint(l, E, c) \subseteq Path \X Label
    BY <1>6, <1>7, <1>9, FS_Union
<1> QED BY <1>1, <1>2, <1>10, <1>11, ValueIntro

LEMMA JointTree ==
    ASSUME NEW l, NEW E, NEW c, Fitting(l, E, c)
    PROVE  Tree(Joint(l, E, c))
<1> DEFINE J == Joint(l, E, c)
<1>0. E \subseteq Step /\ J \in Value /\ \A e \in E : c[e] \in Value /\ Tree(c[e])
    BY JointValue DEF Fitting, Trees
<1>1. /\ \A m : << <<>>, m >> \in J <=> m = l
      /\ \A e \in Step, q \in Seq(Step) : \A m : << <<e>> \o q, m >> \in J <=> e \in E /\ << q, m >> \in c[e]
    BY <1>0, JointValue, JointNodes
<1>2. \A x \in J : x[1] \in Seq(Step) /\ x = << x[1], x[2] >>
    BY <1>0, ValueNoded DEF Noded
<1> HIDE DEF J
<1>3. ASSUME NEW m \in J, NEW n \in J, m[1] = n[1] PROVE m = n
    <2>0. << m[1], m[2] >> \in J /\ << m[1], n[2] >> \in J /\ m = << m[1], m[2] >> /\ n = << m[1], n[2] >>
        <3>1. n = << n[1], n[2] >> /\ m = << m[1], m[2] >>
            BY <1>2
        <3>2. << m[1], n[2] >> = << n[1], n[2] >>
            BY <1>3
        <3> QED BY <3>1, <3>2
    <2>1. CASE m[1] = <<>>
        <3>1. << <<>>, m[2] >> \in J /\ << <<>>, n[2] >> \in J
            BY <2>0, <2>1
        <3>2. m[2] = l /\ n[2] = l
            BY <1>1, <3>1
        <3>3. << m[1], m[2] >> = << m[1], n[2] >>
            BY <3>2
        <3> QED BY <2>0, <3>3
    <2>2. CASE m[1] # <<>>
        <3>1. PICK e \in Step, q \in Seq(Step) : m[1] = <<e>> \o q
            BY <1>2, <2>2, FirstStep
        <3>5. << <<e>> \o q, m[2] >> \in J /\ << <<e>> \o q, n[2] >> \in J
            BY <2>0, <3>1
        <3>2. e \in E /\ << q, m[2] >> \in c[e] /\ << q, n[2] >> \in c[e]
            BY <1>1, <3>1, <3>5
        <3> DEFINE x == << q, m[2] >>
                   y == << q, n[2] >>
        <3>3. x \in c[e] /\ y \in c[e] /\ x[1] = y[1] /\ x[2] = m[2] /\ y[2] = n[2]
            BY <3>2
        <3> HIDE DEF x, y
        <3>4. x = y
            BY <1>0, <3>2, <3>3 DEF Tree
        <3>6. << m[1], m[2] >> = << m[1], n[2] >>
            BY <3>3, <3>4
        <3> QED BY <2>0, <3>6
    <2> QED BY <2>1, <2>2
<1>4. ASSUME NEW n \in J, NEW i \in 1..Len(n[1])
      PROVE  /\ << SubSeq(n[1], 1, i - 1), IF n[1][i][1] = "i" THEN <<"arr">> ELSE <<"obj">> >> \in J
             /\ n[1][i][1] = "i" =>
                    \A j \in 0..(n[1][i][2] - 1) : \E m \in J : m[1] = Append(SubSeq(n[1], 1, i - 1), << "i", j >>)
    <2>1. n[1] \in Seq(Step) /\ n[1] # <<>> /\ Len(n[1]) \in Nat
        BY <1>2, <1>4
    <2>2. PICK e \in Step, q \in Seq(Step) : n[1] = <<e>> \o q
        BY <2>1, FirstStep
    <2>3. e \in E /\ << q, n[2] >> \in c[e]
        BY <1>1, <1>2, <2>2
    <2>4. Len(q) \in Nat /\ i \in 1..(Len(q) + 1)
        BY <2>2, OneStep
    <2>5. CASE i = 1
        <3>1. SubSeq(n[1], 1, i - 1) = <<>> /\ n[1][i] = e
            BY <2>1, <2>2, <2>5, OneStep
        <3>2. l = IF e[1] = "i" THEN <<"arr">> ELSE <<"obj">>
            BY <2>3 DEF Fitting
        <3>3. ASSUME e[1] = "i", NEW j \in 0..(e[2] - 1) PROVE \E m \in J : m[1] = Append(<<>>, << "i", j >>)
            <4> DEFINE d == << "i", j >>
            <4>1. d \in E
                BY <2>3, <3>3 DEF Fitting
            <4> HIDE DEF d
            <4>2. d \in Step /\ << <<>>, Root(c[d]) >> \in c[d]
                BY <1>0, <4>1, RootType
            <4>3. << <<d>> \o <<>>, Root(c[d]) >> \in J
                BY <1>1, <4>1, <4>2, EmptySeq
            <4>4. <<d>> \o <<>> = Append(<<>>, d)
                BY <4>2
            <4> QED BY <4>3, <4>4 DEF d
        <3> QED BY <1>1, <3>1, <3>2, <3>3
    <2>6. CASE i > 1
        <3> DEFINE k == i - 1
                   inner == SubSeq(q, 1, k - 1)
                   x == << q, n[2] >>
        <3>1. k \in 1..Len(q) /\ k - 1 \in 0..Len(q) /\ (k - 1) + 1 = i - 1 /\ k + 1 = i
            BY <2>4, <2>6
        <3>2. n[1][i] = q[k]
            BY <2>2, <3>1, OneStep
        <3>3. SubSeq(n[1], 1, i - 1) = <<e>> \o inner /\ inner \in Seq(Step)
            BY <2>2, <3>1, StepSubSeq
        <3>4. x \in c[e] /\ x[1] = q /\ Tree(c[e])
            BY <1>0, <2>3
        <3> HIDE DEF x, k
        <3>8. k \in 1..Len(x[1])
            BY <3>1, <3>4
        <3>9. /\ << SubSeq(x[1], 1, k - 1), IF x[1][k][1] = "i" THEN <<"arr">> ELSE <<"obj">> >> \in c[e]
              /\ x[1][k][1] = "i" =>
                     \A j \in 0..(x[1][k][2] - 1) : \E m \in c[e] : m[1] = Append(SubSeq(x[1], 1, k - 1), << "i", j >>)
            BY <3>4, <3>8 DEF Tree
        <3>5. /\ << inner, IF q[k][1] = "i" THEN <<"arr">> ELSE <<"obj">> >> \in c[e]
              /\ q[k][1] = "i" => \A j \in 0..(q[k][2] - 1) : \E m \in c[e] : m[1] = Append(inner, << "i", j >>)
            BY <3>4, <3>9
        <3> HIDE DEF inner
        <3>6. << <<e>> \o inner, IF q[k][1] = "i" THEN <<"arr">> ELSE <<"obj">> >> \in J
            BY <1>1, <2>3, <3>3, <3>5
        <3>7. ASSUME q[k][1] = "i", NEW j \in 0..(q[k][2] - 1)
              PROVE  \E m \in J : m[1] = Append(<<e>> \o inner, << "i", j >>)
            <4>1. PICK m \in c[e] : m[1] = Append(inner, << "i", j >>)
                BY <3>5, <3>7
            <4>2. m = << m[1], m[2] >> /\ m[1] \in Seq(Step)
                BY <1>0, <2>3, NodeType DEF Path
            <4>3. << <<e>> \o m[1], m[2] >> \in J
                BY <1>1, <2>3, <4>2
            <4>4. q[k] \in Step
                BY <3>1
            <4>5. << "i", j >> \in Step
                <5>1. q[k][2] \in Nat
                    BY <3>7, <4>4 DEF Step
                <5> QED BY <5>1 DEF Step
            <4>6. <<e>> \o Append(inner, << "i", j >>) = Append(<<e>> \o inner, << "i", j >>)
                BY <3>3, <4>5
            <4>7. << <<e>> \o m[1], m[2] >>[1] = <<e>> \o m[1]
                OBVIOUS
            <4> QED BY <4>1, <4>3, <4>6, <4>7
        <3> DEFINE s == SubSeq(n[1], 1, i - 1)
                   t == n[1][i]
        <3>10. s = <<e>> \o inner /\ t = q[k]
            BY <3>2, <3>3
        <3> HIDE DEF s, t
        <3>11. << s, IF t[1] = "i" THEN <<"arr">> ELSE <<"obj">> >> \in J
            BY <3>6, <3>10
        <3>12. t[1] = "i" => \A j \in 0..(t[2] - 1) : \E m \in J : m[1] = Append(s, << "i", j >>)
            BY <3>7, <3>10
        <3>13. /\ << s, IF t[1] = "i" THEN <<"arr">> ELSE <<"obj">> >> \in J
               /\ t[1] = "i" => \A j \in 0..(t[2] - 1) : \E m \in J : m[1] = Append(s, << "i", j >>)
            BY <3>11, <3>12
        <3> QED BY <3>13, Zenon DEF s, t
    <2>7. i = 1 \/ i > 1
        BY <2>4
    <2> QED BY <2>5, <2>6, <2>7, Zenon
<1>5. Tree(J)
    BY <1>3, <1>4 DEF Tree
<1> QED BY <1>5 DEF J

LEMMA JointReads ==
    ASSUME NEW l, NEW E, NEW c, Fitting(l, E, c)
    PROVE  /\ Joint(l, E, c) \in Value /\ Tree(Joint(l, E, c))
           /\ Root(Joint(l, E, c)) = l /\ Steps(Joint(l, E, c)) = E
           /\ \A e \in E : Child(Joint(l, E, c), e) = c[e]
<1> DEFINE J == Joint(l, E, c)
<1>0. E \subseteq Step /\ J \in Value /\ Tree(J) /\ \A e \in E : c[e] \in Value
    BY JointValue, JointTree DEF Fitting
<1>1. /\ \A m : << <<>>, m >> \in J <=> m = l
      /\ \A e \in Step, q \in Seq(Step) : \A m : << <<e>> \o q, m >> \in J <=> e \in E /\ << q, m >> \in c[e]
    BY <1>0, JointValue, JointNodes
<1> HIDE DEF J
<1>2. Root(J) = l
    BY <1>0, <1>1, TreeRoot
<1>3. ASSUME NEW e \in Steps(J) PROVE e \in E
    <2>1. PICK n \in J : Len(n[1]) = 1 /\ n[1][1] = e
        BY DEF Steps
    <2>2. n = << n[1], n[2] >> /\ n[1] \in Seq(Step)
        BY <1>0, NodeType DEF Path
    <2>3. n[1] = <<e>> \o <<>> /\ e \in Step
        BY <2>1, <2>2
    <2>4. << <<e>> \o <<>>, n[2] >> \in J
        BY <2>2, <2>3
    <2> QED BY <1>1, <2>3, <2>4, EmptySeq
<1>4. ASSUME NEW e \in E PROVE e \in Steps(J)
    <2>1. << <<>>, Root(c[e]) >> \in c[e]
        BY <1>0, RootType
    <2> DEFINE n == << <<e>> \o <<>>, Root(c[e]) >>
    <2>2. n \in J
        BY <1>0, <1>1, <2>1, EmptySeq
    <2>3. Len(n[1]) = 1 /\ n[1][1] = e
        BY <1>0
    <2> HIDE DEF n
    <2> QED BY <2>2, <2>3 DEF Steps
<1>5. ASSUME NEW e \in E PROVE Child(J, e) = c[e]
    <2>1. Noded(Child(J, e)) /\ Noded(c[e])
        BY <1>0, <1>4, ChildType, ValueNoded
    <2>2. \A q \in Seq(Step) : \A m : << q, m >> \in Child(J, e) <=> << q, m >> \in c[e]
        BY <1>0, <1>1, ChildNodes
    <2>3. \A l1 : << <<>>, l1 >> \in Child(J, e) <=> << <<>>, l1 >> \in c[e]
        BY <2>2, EmptySeq
    <2>4. \A d \in Step, q \in Seq(Step) : \A m : << <<d>> \o q, m >> \in Child(J, e) <=> << <<d>> \o q, m >> \in c[e]
        BY <2>2, OneStep
    <2> QED BY <2>1, <2>3, <2>4, SameNodes
<1>6. Steps(J) = E
    BY <1>3, <1>4
<1> QED BY <1>0, <1>2, <1>5, <1>6 DEF J

LEMMA SameParts ==
    ASSUME NEW v \in Value, NEW w \in Value, Attached(v), Attached(w),
           \A l : << <<>>, l >> \in v <=> << <<>>, l >> \in w,
           Steps(v) = Steps(w), \A e \in Steps(v) : Child(v, e) = Child(w, e)
    PROVE  v = w
<1>1. ASSUME NEW u \in Value, Attached(u), NEW e \in Step, NEW q \in Seq(Step), NEW l
      PROVE  << <<e>> \o q, l >> \in u <=> e \in Steps(u) /\ << q, l >> \in Child(u, e)
    <2> DEFINE x == << <<e>> \o q, l >>
    <2>1. << q, l >> \in Child(u, e) <=> x \in u
        BY ChildNodes
    <2>2. x[1] # <<>> /\ Head(x[1]) = e
        BY OneStep
    <2> HIDE DEF x
    <2>3. x \in u => e \in Steps(u)
        BY <1>1, <2>2 DEF Attached
    <2>4. x \in u <=> e \in Steps(u) /\ << q, l >> \in Child(u, e)
        BY <2>1, <2>3
    <2> QED BY <2>4 DEF x
<1>2. ASSUME NEW e \in Step, NEW q \in Seq(Step), NEW l
      PROVE  << <<e>> \o q, l >> \in v <=> << <<e>> \o q, l >> \in w
    BY <1>1
<1> QED BY <1>2, ValueNoded, SameNodes

LEMMA ElemsJoint ==
    ASSUME NEW s \in Seq(Trees)
    PROVE  /\ ArrOf(s) \in Trees /\ Root(ArrOf(s)) = <<"arr">>
           /\ Lists(ArrOf(s), s)
<1> DEFINE E == { Elem(i - 1) : i \in DOMAIN s }
           c == [e \in E |-> s[e[2] + 1]]
           l == <<"arr">>
<1>0. Len(s) \in Nat /\ DOMAIN s = 1..Len(s) /\ \A i \in 1..Len(s) : s[i] \in Trees
    OBVIOUS
<1>1. \A i \in DOMAIN s : Elem(i - 1) \in E /\ Elem(i - 1)[2] + 1 = i /\ Elem(i - 1)[1] = "i" /\ i - 1 \in Nat
    BY <1>0 DEF Elem
<1>2. \A i \in DOMAIN s : c[Elem(i - 1)] = s[i]
    BY <1>1
<1>3. ArrOf(s) = Joint(l, E, c)
    <2>1. \A x : x \in ArrOf(s) <=> x \in Leaf(l) \/ \E i \in DOMAIN s : x \in Graft(Elem(i - 1), s[i])
        BY DEF ArrOf, NoElems
    <2>2. \A x : x \in Joint(l, E, c) <=> x \in Leaf(l) \/ \E e \in E : x \in Graft(e, c[e])
        BY DEF Joint
    <2>3. \A x : (\E e \in E : x \in Graft(e, c[e])) <=> \E i \in DOMAIN s : x \in Graft(Elem(i - 1), c[Elem(i - 1)])
        OBVIOUS
    <2> HIDE DEF E, c, l
    <2>4. \A x : (\E i \in DOMAIN s : x \in Graft(Elem(i - 1), c[Elem(i - 1)])) <=> \E i \in DOMAIN s : x \in Graft(Elem(i - 1), s[i])
        BY <1>2
    <2>5. \A x : x \in ArrOf(s) <=> x \in Joint(l, E, c)
        BY <2>1, <2>2, <2>3, <2>4
    <2> QED BY <2>5
<1>4. Fitting(l, E, c)
    <2>1. l \in Label
        BY DEF Label
    <2>2. E \subseteq Step
        BY <1>1, StepTypes
    <2>3. IsFiniteSet(E)
        <3> DEFINE f == [i \in DOMAIN s |-> Elem(i - 1)]
        <3>1. IsFiniteSet(DOMAIN f)
            BY <1>0, FS_Interval
        <3>2. E = { f[i] : i \in DOMAIN f }
            OBVIOUS
        <3> HIDE DEF E, f
        <3> QED BY <3>1, <3>2, ImageFinite
    <2>4. c \in [E -> Trees]
        <3> SUFFICES ASSUME NEW i \in DOMAIN s PROVE s[Elem(i - 1)[2] + 1] \in Trees
            OBVIOUS
        <3> QED BY <1>0, <1>1
    <2>5. ASSUME NEW i \in DOMAIN s
          PROVE  /\ l = IF Elem(i - 1)[1] = "i" THEN <<"arr">> ELSE <<"obj">>
                 /\ Elem(i - 1)[1] = "i" => \A j \in 0..(Elem(i - 1)[2] - 1) : << "i", j >> \in E
        <3>1. ASSUME NEW j \in 0..(Elem(i - 1)[2] - 1) PROVE << "i", j >> \in E
            <4>1. j + 1 \in DOMAIN s /\ << "i", j >> = Elem((j + 1) - 1)
                BY <1>0, <1>1 DEF Elem
            <4> QED BY <4>1
        <3> QED BY <1>1, <3>1
    <2>6. \A e \in E : /\ l = IF e[1] = "i" THEN <<"arr">> ELSE <<"obj">>
                       /\ e[1] = "i" => \A j \in 0..(e[2] - 1) : << "i", j >> \in E
        BY <2>5
    <2> HIDE DEF E, c, l
    <2> QED BY <2>1, <2>2, <2>3, <2>4, <2>6 DEF Fitting
<1> HIDE DEF c
<1>5. /\ ArrOf(s) \in Value /\ Tree(ArrOf(s)) /\ Root(ArrOf(s)) = l
      /\ Steps(ArrOf(s)) = E /\ \A e \in E : Child(ArrOf(s), e) = c[e]
    <2> HIDE DEF E, l
    <2> QED BY <1>3, <1>4, JointReads
<1>6. Attached(ArrOf(s))
    BY <1>5, TreeAttached
<1> QED BY <1>1, <1>2, <1>5, <1>6 DEF Lists, Trees

LEMMA MembersJoint ==
    ASSUME NEW K, K \subseteq Str, IsFiniteSet(K), NEW f \in [K -> Trees]
    PROVE  ObjOf(f) \in Trees /\ Root(ObjOf(f)) = <<"obj">>
<1> DEFINE E == { Key(k) : k \in K }
           c == [e \in E |-> f[e[2]]]
           l == <<"obj">>
<1>1. \A k \in K : Key(k) \in E /\ Key(k)[2] = k /\ Key(k)[1] = "k"
    BY DEF Key
<1>2. \A k \in K : c[Key(k)] = f[k]
    BY <1>1
<1>3. ObjOf(f) = Joint(l, E, c)
    <2>0. DOMAIN f = K
        OBVIOUS
    <2>1. \A x : x \in ObjOf(f) <=> x \in Leaf(l) \/ \E k \in K : x \in Graft(Key(k), f[k])
        BY <2>0 DEF ObjOf, NoKeys
    <2>2. \A x : x \in Joint(l, E, c) <=> x \in Leaf(l) \/ \E e \in E : x \in Graft(e, c[e])
        BY DEF Joint
    <2>3. \A x : (\E e \in E : x \in Graft(e, c[e])) <=> \E k \in K : x \in Graft(Key(k), c[Key(k)])
        OBVIOUS
    <2> HIDE DEF E, c, l
    <2>4. \A x : (\E k \in K : x \in Graft(Key(k), c[Key(k)])) <=> \E k \in K : x \in Graft(Key(k), f[k])
        BY <1>2
    <2>5. \A x : x \in ObjOf(f) <=> x \in Joint(l, E, c)
        BY <2>1, <2>2, <2>3, <2>4
    <2> QED BY <2>5
<1>4. Fitting(l, E, c)
    <2>1. l \in Label
        BY DEF Label
    <2>2. E \subseteq Step
        BY <1>1, StepTypes
    <2>3. IsFiniteSet(E)
        <3> DEFINE g == [k \in K |-> Key(k)]
        <3>1. IsFiniteSet(DOMAIN g)
            OBVIOUS
        <3>2. E = { g[k] : k \in DOMAIN g }
            OBVIOUS
        <3> HIDE DEF E, g
        <3> QED BY <3>1, <3>2, ImageFinite
    <2>4. c \in [E -> Trees]
        <3> SUFFICES ASSUME NEW k \in K PROVE f[Key(k)[2]] \in Trees
            OBVIOUS
        <3> QED BY <1>1
    <2>5. \A e \in E : e[1] # "i"
        BY <1>1
    <2>6. \A e \in E : /\ l = IF e[1] = "i" THEN <<"arr">> ELSE <<"obj">>
                       /\ e[1] = "i" => \A j \in 0..(e[2] - 1) : << "i", j >> \in E
        BY <2>5
    <2> HIDE DEF E, c, l
    <2> QED BY <2>1, <2>2, <2>3, <2>4, <2>6 DEF Fitting
<1> HIDE DEF c, E, l
<1>5. ObjOf(f) \in Value /\ Tree(ObjOf(f)) /\ Root(ObjOf(f)) = l
    BY <1>3, <1>4, JointReads
<1> QED BY <1>5 DEF Trees, l

-----------------------------------------------------------------------------
(* Arrays, as the lists of their items.                                    *)

LEMMA LeastNatural ==
    ASSUME NEW S \in SUBSET Nat, S # {}
    PROVE  \E n \in S : \A m \in S : n <= m
<1>1. PICK n \in S : \A m \in S : << m, n >> \notin OpToRel(<, Nat)
    BY WFMin, NatLessThanWellFounded
<1>2. \A m \in S : ~(m < n)
    BY <1>1 DEF OpToRel
<1> QED BY <1>2

LEMMA ArraySteps ==
    ASSUME NEW v \in Trees, Kind(v) = "arr"
    PROVE  Steps(v) = { Elem(i) : i \in 0..(Length(v) - 1) }
<1> DEFINE I == { e[2] : e \in Steps(v) }
<1>0. v \in Value /\ Tree(v) /\ Steps(v) \subseteq Step /\ IsFiniteSet(Steps(v))
    BY StepsType DEF Trees
<1>1. ASSUME NEW e \in Steps(v)
      PROVE  e[2] \in Nat /\ e = Elem(e[2]) /\ \A j \in 0..(e[2] - 1) : Elem(j) \in Steps(v)
    <2>1. PICK n \in v : Len(n[1]) = 1 /\ n[1][1] = e
        BY DEF Steps
    <2>2. e \in Step /\ n[1] \in Seq(Step)
        BY <1>0, NodeType DEF Path
    <2>3. 1 \in 1..Len(n[1]) /\ SubSeq(n[1], 1, 1 - 1) = <<>>
        BY <2>1, <2>2
    <2>4. /\ << SubSeq(n[1], 1, 1 - 1), IF n[1][1][1] = "i" THEN <<"arr">> ELSE <<"obj">> >> \in v
          /\ n[1][1][1] = "i" =>
                 \A j \in 0..(n[1][1][2] - 1) : \E m \in v : m[1] = Append(SubSeq(n[1], 1, 1 - 1), << "i", j >>)
        BY <1>0, <2>3 DEF Tree
    <2>5. << <<>>, IF e[1] = "i" THEN <<"arr">> ELSE <<"obj">> >> \in v
        BY <2>1, <2>3, <2>4
    <2>6. (IF e[1] = "i" THEN <<"arr">> ELSE <<"obj">>) = Root(v)
        BY <1>0, <2>5, TreeRoot
    <2>7. e[1] = "i"
        BY <2>6 DEF Kind
    <2>8. e[2] \in Nat /\ e = Elem(e[2])
        BY <2>2, <2>7 DEF Step, Elem
    <2>9. ASSUME NEW j \in 0..(e[2] - 1) PROVE Elem(j) \in Steps(v)
        <3>1. PICK m \in v : m[1] = Append(<<>>, << "i", j >>)
            BY <2>1, <2>3, <2>4, <2>7
        <3>2. Len(m[1]) = 1 /\ m[1][1] = Elem(j)
            BY <3>1 DEF Elem
        <3> QED BY <3>2 DEF Steps
    <2> QED BY <2>8, <2>9
<1>2. I \subseteq Nat /\ \A i \in Nat : i \in I <=> Elem(i) \in Steps(v)
    <2>1. \A i \in Nat : Elem(i)[2] = i
        BY DEF Elem
    <2> QED BY <1>1, <2>1
<1>3. IsFiniteSet(I)
    <2> DEFINE f == [e \in Steps(v) |-> e[2]]
    <2>1. IsFiniteSet(DOMAIN f)
        BY <1>0
    <2>2. I = { f[e] : e \in DOMAIN f }
        OBVIOUS
    <2> HIDE DEF I, f
    <2> QED BY <2>1, <2>2, ImageFinite
<1> HIDE DEF I
<1>4. Nat \ I # {}
    <2> SUFFICES ASSUME Nat \subseteq I PROVE FALSE
        OBVIOUS
    <2> DEFINE c == Cardinality(I)
    <2>1. c \in Nat
        BY <1>3, FS_CardinalityType
    <2>2. Cardinality(0..c) = c + 1
        BY <2>1, FS_Interval
    <2>3. (0..c) \in SUBSET I
        BY <2>1
    <2>4. Cardinality(0..c) <= c
        BY <1>3, <2>3, FS_Subset
    <2> HIDE DEF c
    <2> QED BY <2>1, <2>2, <2>4
<1>5. PICK n \in Nat \ I : \A m \in Nat \ I : n <= m
    BY <1>4, LeastNatural
<1>6. \A i \in Nat : i \in I <=> i < n
    <2> SUFFICES ASSUME NEW i \in Nat PROVE i \in I <=> i < n
        OBVIOUS
    <2>1. i < n => i \in I
        BY <1>5
    <2>2. i > n => i \notin I
        <3> SUFFICES ASSUME i > n, i \in I PROVE FALSE
            OBVIOUS
        <3>1. Elem(i) \in Steps(v) /\ Elem(i)[2] = i
            BY <1>2 DEF Elem
        <3>2. n \in 0..(i - 1)
            BY <1>5
        <3>3. Elem(n) \in Steps(v)
            BY <1>1, <3>1, <3>2
        <3> QED BY <1>2, <1>5, <3>3
    <2>3. i = n => i \notin I
        BY <1>5
    <2> QED BY <1>5, <2>1, <2>2, <2>3
<1>7. Steps(v) = { Elem(i) : i \in 0..(n - 1) }
    <2>1. ASSUME NEW e \in Steps(v) PROVE e \in { Elem(i) : i \in 0..(n - 1) }
        <3>1. e[2] \in Nat /\ e = Elem(e[2])
            BY <1>1
        <3>2. e[2] \in 0..(n - 1)
            BY <1>2, <1>5, <1>6, <3>1
        <3> QED BY <3>1, <3>2
    <2>2. ASSUME NEW i \in 0..(n - 1) PROVE Elem(i) \in Steps(v)
        BY <1>2, <1>5, <1>6
    <2> QED BY <2>1, <2>2
<1>8. Length(v) = n
    BY <1>5, <1>7, LengthOfSteps
<1> QED BY <1>7, <1>8

LEMMA ArrayLists ==
    ASSUME NEW v \in Trees, Kind(v) = "arr"
    PROVE  Items(v) \in Seq(Trees) /\ Len(Items(v)) = Length(v) /\ Lists(v, Items(v))
<1>0. v \in Value /\ Tree(v) /\ Attached(v) /\ Length(v) \in Nat
    BY TreeAttached, LengthType DEF Trees
<1>1. \A i \in 1..Length(v) : Elem(i - 1) \in Steps(v)
    BY <1>0, ArraySteps
<1>2. \A i \in 1..Length(v) : Child(v, Elem(i - 1)) \in Trees
    BY <1>0, <1>1, ChildType, ChildTree DEF Trees
<1>3. /\ Items(v) \in Seq(Trees) /\ Len(Items(v)) = Length(v) /\ DOMAIN Items(v) = 1..Length(v)
      /\ \A i \in 1..Length(v) : Items(v)[i] = Child(v, Elem(i - 1))
    BY <1>0, <1>2 DEF Items
<1>4. Steps(v) = { Elem(i - 1) : i \in DOMAIN Items(v) }
    <2>1. ASSUME NEW i \in 0..(Length(v) - 1) PROVE \E j \in 1..Length(v) : Elem(i) = Elem(j - 1)
        <3>1. i + 1 \in 1..Length(v) /\ (i + 1) - 1 = i
            BY <1>0
        <3> QED BY <3>1
    <2> QED BY <1>1, <1>3, <2>1, ArraySteps
<1> QED BY <1>0, <1>3, <1>4 DEF Lists

(* What lists the trees of s, and has the root of an array only, is their array. *)
LEMMA ListsArray ==
    ASSUME NEW v, NEW s \in Seq(Trees), Lists(v, s), \A l : << <<>>, l >> \in v <=> l = <<"arr">>
    PROVE  v = ArrOf(s)
<1>1. ArrOf(s) \in Value /\ Tree(ArrOf(s)) /\ Root(ArrOf(s)) = <<"arr">> /\ Lists(ArrOf(s), s)
    BY ElemsJoint DEF Trees
<1>2. \A l : << <<>>, l >> \in ArrOf(s) <=> l = <<"arr">>
    BY <1>1, TreeRoot
<1>3. Steps(v) = Steps(ArrOf(s)) /\ v \in Value /\ Attached(v) /\ Attached(ArrOf(s))
    BY <1>1 DEF Lists
<1>4. \A e \in Steps(v) : Child(v, e) = Child(ArrOf(s), e)
    BY <1>1 DEF Lists
<1> QED BY <1>1, <1>2, <1>3, <1>4, SameParts

LEMMA ArrayIs ==
    ASSUME NEW v \in Trees, Kind(v) = "arr"
    PROVE  v = ArrOf(Items(v)) /\ \A l : << <<>>, l >> \in v <=> l = <<"arr">>
<1>1. Root(v) = <<"arr">>
    BY RootType, KindLabels DEF Kind, Trees
<1>2. \A l : << <<>>, l >> \in v <=> l = <<"arr">>
    BY <1>1, TreeRoot DEF Trees
<1> QED BY <1>2, ArrayLists, ListsArray

LEMMA ListsOne ==
    ASSUME NEW v, NEW s \in Seq(Trees), NEW t \in Seq(Trees), Lists(v, s), Lists(v, t)
    PROVE  s = t
<1>1. s \in Seq(Value) /\ t \in Seq(Value)
    BY DEF Trees
<1>2. Length(v) = Len(s) /\ Length(v) = Len(t)
    BY <1>1, ListsLength
<1>3. Len(s) = Len(t) /\ \A i \in 1..Len(s) : s[i] = t[i]
    <2>1. DOMAIN s = 1..Len(s) /\ DOMAIN t = 1..Len(t) /\ Len(s) = Len(t)
        <3>1. DOMAIN s = 1..Len(s) /\ DOMAIN t = 1..Len(t)
            BY LenProperties
        <3> QED BY <1>2, <3>1
    <2>2. ASSUME NEW i \in 1..Len(s) PROVE s[i] = t[i]
        <3>1. Child(v, Elem(i - 1)) = s[i] /\ Child(v, Elem(i - 1)) = t[i]
            BY <2>1 DEF Lists
        <3> QED BY <3>1
    <2> QED BY <2>1, <2>2
<1> QED BY <1>3, SeqEqual

LEMMA ItemsOf ==
    ASSUME NEW s \in Seq(Trees)
    PROVE  Items(ArrOf(s)) = s /\ Length(ArrOf(s)) = Len(s) /\ Kind(ArrOf(s)) = "arr"
<1>1. ArrOf(s) \in Trees /\ Kind(ArrOf(s)) = "arr" /\ Lists(ArrOf(s), s)
    BY ElemsJoint DEF Kind
<1>2. Items(ArrOf(s)) \in Seq(Trees) /\ Lists(ArrOf(s), Items(ArrOf(s))) /\ Len(Items(ArrOf(s))) = Length(ArrOf(s))
    BY <1>1, ArrayLists
<1>3. Items(ArrOf(s)) = s
    BY <1>1, <1>2, ListsOne
<1> QED BY <1>1, <1>2, <1>3

(* Vec::push and Vec::append, on trees. *)
LEMMA PushedTree ==
    ASSUME NEW v \in Trees, Kind(v) = "arr", NEW w \in Trees
    PROVE  Push(v, w) = ArrOf(Append(Items(v), w))
<1>0. Trees \subseteq Value
    BY DEF Trees
<1>1. Lists(v, Items(v)) /\ Items(v) \in Seq(Trees) /\ w \in Value /\ v \in Value /\ Length(v) \in Nat
    BY <1>0, ArrayLists, LengthType
<1>4. Items(v) \in Seq(Value)
    BY <1>0, <1>1, SeqMonotonic
<1>2. Lists(Push(v, w), Append(Items(v), w)) /\ Append(Items(v), w) \in Seq(Trees)
    BY <1>1, <1>4, PushLists
<1>3. ASSUME NEW l PROVE << <<>>, l >> \in Push(v, w) <=> l = <<"arr">>
    <2>1. << <<>>, l >> \in Graft(Elem(Length(v)), w) <=> FALSE
        BY <1>1, StepTypes, GraftNoded
    <2>2. << <<>>, l >> \notin Under(v, Elem(Length(v)))
        BY DEF Under
    <2> QED BY <2>1, <2>2, ArrayIs DEF Push, Put
<1> QED BY <1>2, <1>3, ListsArray

LEMMA NodesUnder ==
    ASSUME NEW u \in Value, Attached(u), NEW e \in Step, NEW q \in Seq(Step), NEW l
    PROVE  << <<e>> \o q, l >> \in u <=> e \in Steps(u) /\ << q, l >> \in Child(u, e)
<1> DEFINE x == << <<e>> \o q, l >>
<1>1. << q, l >> \in Child(u, e) <=> x \in u
    BY ChildNodes
<1>2. x[1] # <<>> /\ Head(x[1]) = e
    BY OneStep
<1> HIDE DEF x
<1>3. x \in u => e \in Steps(u)
    BY <1>2 DEF Attached
<1>4. x \in u <=> e \in Steps(u) /\ << q, l >> \in Child(u, e)
    BY <1>1, <1>3
<1> QED BY <1>4 DEF x

(* The nodes of u below its root are those of the values of s. *)
Holds(u, s) ==
    \A e \in Step, q \in Seq(Step) : \A l :
        << <<e>> \o q, l >> \in u <=> \E i \in 1..Len(s) : e = Elem(i - 1) /\ << q, l >> \in s[i]

LEMMA ListNodes ==
    ASSUME NEW u, NEW s \in Seq(Trees), Lists(u, s)
    PROVE  Holds(u, s)
<1> SUFFICES ASSUME NEW e \in Step, NEW q \in Seq(Step), NEW l
             PROVE  << <<e>> \o q, l >> \in u <=> \E i \in 1..Len(s) : e = Elem(i - 1) /\ << q, l >> \in s[i]
    BY DEF Holds
<1>1. DOMAIN s = 1..Len(s)
    BY LenProperties
<1>2. << <<e>> \o q, l >> \in u <=> e \in Steps(u) /\ << q, l >> \in Child(u, e)
    BY NodesUnder DEF Lists
<1>3. /\ e \in Steps(u) <=> \E i \in 1..Len(s) : e = Elem(i - 1)
      /\ \A i \in 1..Len(s) : Child(u, Elem(i - 1)) = s[i]
    BY <1>1 DEF Lists
<1> QED BY <1>2, <1>3

(* What is at e in the array w moved up by so many elements.               *)
MovedUp(w, by, e, q, l) == \E j \in Nat : e = Elem(j + by) /\ << << Elem(j) >> \o q, l >> \in w

LEMMA ShiftedNodes ==
    ASSUME NEW w \in Value, NEW by \in Nat, NEW e \in Step, NEW q \in Seq(Step), NEW l
    PROVE  << <<e>> \o q, l >> \in Shifted(w, by) <=> MovedUp(w, by, e, q, l)
<1>1. ASSUME << <<e>> \o q, l >> \in Shifted(w, by)
      PROVE  \E j \in Nat : e = Elem(j + by) /\ << << Elem(j) >> \o q, l >> \in w
    <2>1. PICK n \in w : /\ n[1] # <<>> /\ Head(n[1])[1] = "i"
                         /\ << <<e>> \o q, l >> = << << Elem(Head(n[1])[2] + by) >> \o Tail(n[1]), n[2] >>
        BY <1>1 DEF Shifted
    <2>2. n[1] \in Seq(Step) /\ n = << n[1], n[2] >>
        BY NodeType DEF Path
    <2> DEFINE d == Head(n[1])
               r == Tail(n[1])
    <2>3. d \in Step /\ r \in Seq(Step) /\ n[1] = <<d>> \o r
        BY <2>1, <2>2, FirstStep
    <2>4. d[2] \in Nat /\ d = Elem(d[2])
        <3> HIDE DEF r
        <3>1. d \in Step /\ d[1] = "i"
            BY <2>1, <2>3
        <3> HIDE DEF d
        <3> QED BY <3>1 DEF Step, Elem
    <2>5. <<e>> \o q = << Elem(d[2] + by) >> \o r /\ l = n[2]
        BY <2>1
    <2> HIDE DEF d, r
    <2>6. Elem(d[2] + by) \in Step
        BY <2>4, StepTypes
    <2>7. e = Elem(d[2] + by) /\ q = r
        BY <2>3, <2>5, <2>6, CancelStep
    <2>8. << << Elem(d[2]) >> \o q, l >> \in w
        <3>1. << Elem(d[2]) >> \o q = n[1]
            BY <2>3, <2>4, <2>7
        <3> QED BY <2>2, <2>5, <3>1
    <2> QED BY <2>4, <2>7, <2>8
<1>2. ASSUME NEW j \in Nat, e = Elem(j + by), << << Elem(j) >> \o q, l >> \in w
      PROVE  << <<e>> \o q, l >> \in Shifted(w, by)
    <2> DEFINE n == << << Elem(j) >> \o q, l >>
    <2>1. Elem(j) \in Step /\ Elem(j)[1] = "i" /\ Elem(j)[2] = j
        BY StepTypes DEF Elem
    <2>2. n \in w /\ n[1] # <<>> /\ Head(n[1]) = Elem(j) /\ Tail(n[1]) = q /\ n[2] = l
        BY <1>2, <2>1, OneStep
    <2> HIDE DEF n
    <2>3. << << Elem(Head(n[1])[2] + by) >> \o Tail(n[1]), n[2] >> \in Shifted(w, by)
        BY <2>1, <2>2 DEF Shifted
    <2> QED BY <1>2, <2>1, <2>2, <2>3
<1> QED BY <1>1, <1>2 DEF MovedUp

LEMMA JoinedItems ==
    ASSUME NEW s \in Seq(Trees), NEW t \in Seq(Trees)
    PROVE  /\ s \o t \in Seq(Trees) /\ Len(s \o t) = Len(s) + Len(t)
           /\ Len(s) \in Nat /\ Len(t) \in Nat
           /\ \A i \in 1..Len(s) : (s \o t)[i] = s[i]
           /\ \A i \in 1..Len(t) : (s \o t)[i + Len(s)] = t[i]
<1>1. Len(s) \in Nat /\ Len(t) \in Nat
    BY LenProperties
<1>2. /\ s \o t \in Seq(Trees) /\ Len(s \o t) = Len(s) + Len(t)
      /\ \A i \in 1..(Len(s) + Len(t)) : (s \o t)[i] = IF i <= Len(s) THEN s[i] ELSE t[i - Len(s)]
    BY ConcatProperties
<1>3. ASSUME NEW i \in 1..Len(t) PROVE (s \o t)[i + Len(s)] = t[i]
    <2>1. i + Len(s) \in 1..(Len(s) + Len(t)) /\ ~(i + Len(s) <= Len(s)) /\ (i + Len(s)) - Len(s) = i
        BY <1>1
    <2> QED BY <1>2, <2>1
<1>4. ASSUME NEW i \in 1..Len(s) PROVE (s \o t)[i] = s[i]
    <2>1. i \in 1..(Len(s) + Len(t)) /\ i <= Len(s)
        BY <1>1
    <2> QED BY <1>2, <2>1
<1> QED BY <1>1, <1>2, <1>3, <1>4

LEMMA ConcatTrees ==
    ASSUME NEW v \in Trees, Kind(v) = "arr", NEW w \in Trees, Kind(w) = "arr"
    PROVE  Concat(v, w) = ArrOf(Items(v) \o Items(w))
<1> DEFINE s == Items(v)
           t == Items(w)
           A == ArrOf(s \o t)
           C == Concat(v, w)
<1>0. v \in Value /\ w \in Value
    BY DEF Trees
<1>1. s \in Seq(Trees) /\ t \in Seq(Trees) /\ Lists(v, s) /\ Lists(w, t) /\ Len(s) = Length(v)
    BY ArrayLists
<1> HIDE DEF s, t
<1>2. /\ s \o t \in Seq(Trees) /\ Len(s \o t) = Len(s) + Len(t)
      /\ Len(s) \in Nat /\ Len(t) \in Nat
      /\ \A i \in 1..Len(s) : (s \o t)[i] = s[i]
      /\ \A i \in 1..Len(t) : (s \o t)[i + Len(s)] = t[i]
    BY <1>1, JoinedItems
<1>3. A \in Trees /\ A \in Value /\ Tree(A) /\ Root(A) = <<"arr">> /\ Lists(A, s \o t)
    BY <1>2, ElemsJoint DEF Trees
<1>4. C \in Value
    BY <1>0, ConcatType
<1>9. Holds(v, s) /\ Holds(w, t)
    BY <1>1, ListNodes
<1>10. Holds(A, s \o t)
    <2> HIDE DEF A
    <2> DEFINE u == s \o t
    <2>1. u \in Seq(Trees) /\ Lists(A, u)
        BY <1>2, <1>3
    <2> HIDE DEF u
    <2>2. Holds(A, u)
        BY <2>1, ListNodes
    <2> QED BY <2>2 DEF u
<1>5. ASSUME NEW l PROVE << <<>>, l >> \in C <=> << <<>>, l >> \in A
    <2>1. << <<>>, l >> \notin Shifted(w, Length(v))
        <3> SUFFICES ASSUME << <<>>, l >> \in Shifted(w, Length(v)) PROVE FALSE
            OBVIOUS
        <3>1. PICK n \in w : /\ n[1] # <<>> /\ Head(n[1])[1] = "i"
                             /\ << <<>>, l >> = << << Elem(Head(n[1])[2] + Length(v)) >> \o Tail(n[1]), n[2] >>
            BY DEF Shifted
        <3>2. n[1] \in Seq(Step)
            BY <1>0, NodeType DEF Path
        <3> DEFINE d == Head(n[1])
                   r == Tail(n[1])
        <3>3. d \in Step /\ r \in Seq(Step)
            BY <3>1, <3>2, FirstStep
        <3>4. << Elem(d[2] + Length(v)) >> \o r = <<>>
            BY <3>1
        <3>5. d[1] = "i"
            BY <3>1
        <3> HIDE DEF d, r
        <3>6. d[2] \in Nat
            BY <3>3, <3>5 DEF Step
        <3>7. Elem(d[2] + Length(v)) \in Step
            BY <1>1, <1>2, <3>6, StepTypes
        <3> QED BY <3>3, <3>4, <3>7, OneStep
    <2>2. << <<>>, l >> \in C <=> l = <<"arr">>
        BY <2>1, ArrayIs DEF Concat
    <2>3. << <<>>, l >> \in A <=> l = <<"arr">>
        BY <1>3, TreeRoot
    <2> QED BY <2>2, <2>3
<1>6. ASSUME NEW e \in Step, NEW q \in Seq(Step), NEW l
      PROVE  << <<e>> \o q, l >> \in C <=> << <<e>> \o q, l >> \in A
    <2>1. << <<e>> \o q, l >> \in v <=> \E i \in 1..Len(s) : e = Elem(i - 1) /\ << q, l >> \in s[i]
        BY <1>9 DEF Holds
    <2>2. << <<e>> \o q, l >> \in A <=> \E i \in 1..(Len(s) + Len(t)) : e = Elem(i - 1) /\ << q, l >> \in (s \o t)[i]
        <3> HIDE DEF A
        <3>1. << <<e>> \o q, l >> \in A <=> \E i \in 1..Len(s \o t) : e = Elem(i - 1) /\ << q, l >> \in (s \o t)[i]
            BY <1>10 DEF Holds
        <3> QED BY <1>2, <3>1
    <2>3. << <<e>> \o q, l >> \in Shifted(w, Len(s)) <=>
              \E i \in 1..Len(t) : e = Elem(i + Len(s) - 1) /\ << q, l >> \in t[i]
        <3>1. << <<e>> \o q, l >> \in Shifted(w, Len(s)) <=>
                  \E j \in Nat : e = Elem(j + Len(s)) /\ << << Elem(j) >> \o q, l >> \in w
            <4>1. << <<e>> \o q, l >> \in Shifted(w, Len(s)) <=> MovedUp(w, Len(s), e, q, l)
                BY <1>0, <1>2, ShiftedNodes
            <4> QED BY <4>1 DEF MovedUp
        <3>2. ASSUME NEW j \in Nat
              PROVE  << << Elem(j) >> \o q, l >> \in w <=> j + 1 \in 1..Len(t) /\ << q, l >> \in t[j + 1]
            <4>1. << << Elem(j) >> \o q, l >> \in w <=> \E i \in 1..Len(t) : Elem(j) = Elem(i - 1) /\ << q, l >> \in t[i]
                BY <1>9, StepTypes DEF Holds
            <4>2. \A i \in 1..Len(t) : Elem(j) = Elem(i - 1) <=> i = j + 1
                BY <1>2 DEF Elem
            <4> QED BY <4>1, <4>2
        <3>3. ASSUME NEW j \in Nat, e = Elem(j + Len(s)), << << Elem(j) >> \o q, l >> \in w
              PROVE  \E i \in 1..Len(t) : e = Elem(i + Len(s) - 1) /\ << q, l >> \in t[i]
            <4> DEFINE i == j + 1
            <4>1. i \in 1..Len(t) /\ << q, l >> \in t[i]
                BY <3>2, <3>3
            <4>2. i + Len(s) - 1 = j + Len(s)
                BY <1>2
            <4>3. e = Elem(i + Len(s) - 1)
                BY <3>3, <4>2
            <4> HIDE DEF i
            <4> QED BY <4>1, <4>3
        <3>4. ASSUME NEW i \in 1..Len(t), e = Elem(i + Len(s) - 1), << q, l >> \in t[i]
              PROVE  \E j \in Nat : e = Elem(j + Len(s)) /\ << << Elem(j) >> \o q, l >> \in w
            <4> DEFINE j == i - 1
            <4>1. j \in Nat /\ j + 1 = i /\ j + Len(s) = i + Len(s) - 1
                BY <1>2
            <4> HIDE DEF j
            <4>2. << << Elem(j) >> \o q, l >> \in w
                BY <3>2, <3>4, <4>1
            <4>3. e = Elem(j + Len(s))
                BY <3>4, <4>1
            <4> QED BY <4>1, <4>2, <4>3
        <3> QED BY <3>1, <3>3, <3>4
    <2>4. (\E i \in 1..(Len(s) + Len(t)) : e = Elem(i - 1) /\ << q, l >> \in (s \o t)[i]) <=>
              \/ \E i \in 1..Len(s) : e = Elem(i - 1) /\ << q, l >> \in s[i]
              \/ \E i \in 1..Len(t) : e = Elem(i + Len(s) - 1) /\ << q, l >> \in t[i]
        <3>1. ASSUME NEW i \in 1..(Len(s) + Len(t)), e = Elem(i - 1), << q, l >> \in (s \o t)[i]
              PROVE  \/ \E j \in 1..Len(s) : e = Elem(j - 1) /\ << q, l >> \in s[j]
                     \/ \E j \in 1..Len(t) : e = Elem(j + Len(s) - 1) /\ << q, l >> \in t[j]
            <4>1. CASE i <= Len(s)
                <5>1. i \in 1..Len(s)
                    BY <1>2, <4>1
                <5> QED BY <1>2, <3>1, <5>1
            <4>2. CASE i > Len(s)
                <5> DEFINE j == i - Len(s)
                <5>1. j \in 1..Len(t) /\ j + Len(s) = i
                    BY <1>2, <4>2
                <5>2. (s \o t)[j + Len(s)] = t[j]
                    BY <1>2, <5>1
                <5>3. (j + Len(s)) - 1 = i - 1
                    BY <5>1
                <5>4. << q, l >> \in t[j] /\ e = Elem(j + Len(s) - 1)
                    BY <3>1, <5>1, <5>2, <5>3
                <5> HIDE DEF j
                <5> QED BY <5>1, <5>4
            <4>3. i <= Len(s) \/ i > Len(s)
                BY <1>2
            <4> QED BY <4>1, <4>2, <4>3
        <3>2. ASSUME NEW i \in 1..Len(s), e = Elem(i - 1), << q, l >> \in s[i]
              PROVE  \E j \in 1..(Len(s) + Len(t)) : e = Elem(j - 1) /\ << q, l >> \in (s \o t)[j]
            <4>1. i \in 1..(Len(s) + Len(t)) /\ (s \o t)[i] = s[i]
                BY <1>2
            <4> QED BY <3>2, <4>1
        <3>3. ASSUME NEW i \in 1..Len(t), e = Elem(i + Len(s) - 1), << q, l >> \in t[i]
              PROVE  \E j \in 1..(Len(s) + Len(t)) : e = Elem(j - 1) /\ << q, l >> \in (s \o t)[j]
            <4>1. i + Len(s) \in 1..(Len(s) + Len(t)) /\ (s \o t)[i + Len(s)] = t[i]
                BY <1>2
            <4> QED BY <3>3, <4>1
        <3> QED BY <3>1, <3>2, <3>3
    <2>5. << <<e>> \o q, l >> \in C <=> << <<e>> \o q, l >> \in v \/ << <<e>> \o q, l >> \in Shifted(w, Len(s))
        BY <1>1 DEF Concat
    <2> HIDE DEF A, C
    <2> QED BY <2>1, <2>2, <2>3, <2>4, <2>5
<1>7. Noded(C) /\ Noded(A)
    BY <1>3, <1>4, ValueNoded
<1> HIDE DEF A, C
<1>8. C = A
    BY <1>5, <1>6, <1>7, SameNodes
<1> QED BY <1>8 DEF A, C, s, t

-----------------------------------------------------------------------------
(* Induction over trees: a child has fewer nodes than its parent, so a set *)
(* that has every tree whose children it has, has all of them.             *)

(* A child has fewer nodes than its parent.                                *)
LEMMA ChildSmaller ==
    ASSUME NEW v \in Value, NEW e \in Steps(v)
    PROVE  Cardinality(Child(v, e)) \in Nat /\ Cardinality(v) \in Nat /\ Cardinality(Child(v, e)) < Cardinality(v)
<1> DEFINE U == Under(v, e)
           r == << <<>>, Root(v) >>
           f == [n \in U |-> << Tail(n[1]), n[2] >>]
           c == Child(v, e)
<1>1. r \in v /\ IsFiniteSet(v) /\ U \subseteq v
    BY RootType, ValueFinite DEF Under
<1>2. r \notin U
    <2>1. r[1] = <<>>
        OBVIOUS
    <2> HIDE DEF r
    <2> QED BY <2>1 DEF Under
<1>3. c = { f[n] : n \in U }
    BY DEF Child
<1> HIDE DEF r, U
<1>4. f \in Surjection(U, c)
    <2>1. f \in [U -> c] /\ \A y \in c : \E n \in U : f[n] = y
        <3> HIDE DEF c
        <3>1. DOMAIN f = U
            OBVIOUS
        <3>2. f = [n \in U |-> f[n]]
            OBVIOUS
        <3> HIDE DEF f
        <3> QED BY <1>3, <3>2
    <2> HIDE DEF f, c
    <2> QED BY <2>1 DEF Surjection
<1>5. IsFiniteSet(U)
    BY <1>1, FS_Subset
<1>6. Cardinality(c) <= Cardinality(U)
    <2> HIDE DEF f, c
    <2> QED BY <1>4, <1>5, FS_Surjection
<1>7. U \subseteq v \ {r}
    BY <1>1, <1>2
<1>8. IsFiniteSet(v \ {r}) /\ Cardinality(v \ {r}) = Cardinality(v) - 1
    BY <1>1, FS_RemoveElement
<1>9. Cardinality(U) <= Cardinality(v \ {r})
    BY <1>7, <1>8, FS_Subset
<1>10. Cardinality(c) \in Nat /\ Cardinality(U) \in Nat /\ Cardinality(v) \in Nat
    BY <1>1, <1>5, ChildType, ValueFinite, FS_CardinalityType
<1> QED BY <1>6, <1>8, <1>9, <1>10

(* What holds of a tree whenever it holds of its children holds of every   *)
(* tree: one with the fewest nodes among the others would have none.       *)
LEMMA TreeInduction ==
    ASSUME NEW G, \A v \in Trees : (\A e \in Steps(v) : Child(v, e) \in G) => v \in G
    PROVE  Trees \subseteq G
<1> SUFFICES ASSUME NEW b \in Trees, b \notin G PROVE FALSE
    OBVIOUS
<1> DEFINE S == { n \in Nat : \E v \in Trees : v \notin G /\ n = Cardinality(v) }
<1>1. \A v \in Trees : v \in Value /\ Tree(v) /\ Cardinality(v) \in Nat
    BY ValueFinite, FS_CardinalityType DEF Trees
<1>2. Cardinality(b) \in S
    BY <1>1
<1>3. PICK n \in S : \A m \in S : n <= m
    <2> S \in SUBSET Nat /\ S # {}
        BY <1>2
    <2> HIDE DEF S
    <2> QED BY LeastNatural
<1>4. PICK v \in Trees : v \notin G /\ n = Cardinality(v)
    OBVIOUS
<1>5. ASSUME NEW e \in Steps(v), Child(v, e) \notin G PROVE FALSE
    <2>1. Child(v, e) \in Trees
        BY <1>1, ChildType, ChildTree DEF Trees
    <2>2. Cardinality(Child(v, e)) \in S
        BY <1>1, <1>5, <2>1
    <2>3. n <= Cardinality(Child(v, e))
        BY <1>3, <2>2
    <2>4. Cardinality(Child(v, e)) < Cardinality(v) /\ Cardinality(Child(v, e)) \in Nat
        BY <1>1, ChildSmaller
    <2> QED BY <1>1, <1>4, <2>3, <2>4
<1> QED BY <1>4, <1>5

LEMMA FieldTree ==
    ASSUME NEW v \in Trees, NEW k \in Keys(v)
    PROVE  Field(v, k) \in Trees /\ Key(k) \in Steps(v) /\ Field(v, k) = Child(v, Key(k))
BY KeyStep, ChildType, ChildTree DEF Field, Trees

LEMMA KeysFinite ==
    ASSUME NEW v \in Trees
    PROVE  IsFiniteSet(Keys(v)) /\ Keys(v) \subseteq Str
<1> DEFINE D == { d \in Steps(v) : d[1] = "k" }
           f == [e \in D |-> e[2]]
<1>1. v \in Value
    BY DEF Trees
<1>2. IsFiniteSet(D)
    BY <1>1, StepsType, FS_Subset
<1>3. IsFiniteSet({ f[e] : e \in DOMAIN f })
    <2>1. IsFiniteSet(DOMAIN f)
        BY <1>2
    <2> HIDE DEF f
    <2> QED BY <2>1, ImageFinite
<1>4. Keys(v) = { f[e] : e \in DOMAIN f }
    BY DEF Keys
<1> HIDE DEF f
<1> QED BY <1>1, <1>3, <1>4, KeyStep

(* merge_deep of two values is a value. *)
LEMMA MergedTree ==
    ASSUME NEW a \in Trees, NEW b \in Trees
    PROVE  Merged(a, b) \in Trees
<1> DEFINE G == { v \in Trees : \A w \in Trees : Merged(v, w) \in Trees }
<1>1. ASSUME NEW v \in Trees, \A e \in Steps(v) : Child(v, e) \in G PROVE v \in G
    <2> SUFFICES ASSUME NEW w \in Trees PROVE Merged(v, w) \in Trees
        OBVIOUS
    <2>1. CASE Kind(v) = "arr" /\ Kind(w) = "arr"
        <3>1. Items(v) \in Seq(Trees) /\ Items(w) \in Seq(Trees)
            BY <2>1, ArrayLists
        <3> DEFINE s == Items(v) \o Items(w)
        <3>2. s \in Seq(Trees)
            BY <3>1, ConcatProperties
        <3>3. Merged(v, w) = ArrOf(s)
            BY <2>1, ConcatTrees DEF Merged
        <3> HIDE DEF s
        <3> QED BY <3>2, <3>3, ElemsJoint
    <2>2. CASE Kind(v) = "obj" /\ Kind(w) = "obj"
        <3> DEFINE K == Keys(v) \cup Keys(w)
                   f == [k \in K |-> IF ~Has(w, k) THEN Field(v, k)
                                      ELSE IF ~Has(v, k) THEN Field(w, k)
                                      ELSE Merged(Field(v, k), Field(w, k))]
        <3>1. K \subseteq Str /\ IsFiniteSet(K)
            BY KeysFinite, FS_Union
        <3>2. \A k \in K : (Has(v, k) <=> k \in Keys(v)) /\ (Has(w, k) <=> k \in Keys(w))
            BY HasKey DEF Trees
        <3>3. f \in [K -> Trees]
            <4> SUFFICES ASSUME NEW k \in K PROVE f[k] \in Trees
                OBVIOUS
            <4>1. CASE ~Has(w, k)
                BY <3>2, <4>1, FieldTree
            <4>2. CASE Has(w, k) /\ ~Has(v, k)
                BY <3>2, <4>2, FieldTree
            <4>3. CASE Has(w, k) /\ Has(v, k)
                <5>1. Field(w, k) \in Trees /\ Field(v, k) \in G
                    BY <1>1, <3>2, <4>3, FieldTree
                <5>2. Merged(Field(v, k), Field(w, k)) \in Trees
                    BY <5>1
                <5> QED BY <4>3, <5>2
            <4> QED BY <4>1, <4>2, <4>3
        <3>4. Merged(v, w) = ObjOf(f)
            BY <2>2, MergeDeepUnfolds DEF Merged, Trees
        <3> HIDE DEF f, K
        <3> QED BY <3>1, <3>3, <3>4, MembersJoint
    <2>3. CASE ~(Kind(v) = "arr" /\ Kind(w) = "arr") /\ ~(Kind(v) = "obj" /\ Kind(w) = "obj")
        BY <2>3 DEF Merged
    <2> QED BY <2>1, <2>2, <2>3
<1>2. Trees \subseteq G
    <2> HIDE DEF G
    <2> QED BY <1>1, TreeInduction
<1> QED BY <1>2

-----------------------------------------------------------------------------
(* merge_deep by recursion.                                                *)

(* The equation of DeepMerged, of a function g. *)
MergesBy(g, a, b) ==
    IF Kind(a) = "arr" /\ Kind(b) = "arr" THEN ArrOf(Items(a) \o Items(b))
    ELSE IF Kind(a) = "obj" /\ Kind(b) = "obj"
    THEN ObjOf([k \in Keys(a) \cup Keys(b) |->
                   IF ~Has(b, k) THEN Field(a, k) ELSE IF ~Has(a, k) THEN Field(b, k)
                   ELSE g[<< Field(a, k), Field(b, k) >>]])
    ELSE b

LEMMA CommonField ==
    ASSUME NEW a \in Trees, NEW b \in Trees, NEW k \in Keys(a) \cup Keys(b), Has(a, k), Has(b, k)
    PROVE  Key(k) \in Steps(a) /\ Field(a, k) = Child(a, Key(k)) /\ << Field(a, k), Field(b, k) >> \in Trees \X Trees
<1>1. k \in Keys(a) /\ k \in Keys(b)
    BY HasKey DEF Trees
<1> QED BY <1>1, FieldTree

LEMMA MergedSolves ==
    ASSUME NEW g, g = [p \in Trees \X Trees |-> Merged(p[1], p[2])], NEW a \in Trees, NEW b \in Trees
    PROVE  MergesBy(g, a, b) = Merged(a, b)
<1>1. CASE Kind(a) = "arr" /\ Kind(b) = "arr"
    BY <1>1, ConcatTrees DEF MergesBy, Merged
<1>2. CASE Kind(a) = "obj" /\ Kind(b) = "obj"
    <2> DEFINE K == Keys(a) \cup Keys(b)
               f == [k \in K |-> IF ~Has(b, k) THEN Field(a, k)
                                  ELSE IF ~Has(a, k) THEN Field(b, k)
                                  ELSE Merged(Field(a, k), Field(b, k))]
               h == [k \in K |-> IF ~Has(b, k) THEN Field(a, k) ELSE IF ~Has(a, k) THEN Field(b, k)
                                  ELSE g[<< Field(a, k), Field(b, k) >>]]
    <2>1. ASSUME NEW k \in K, Has(a, k), Has(b, k)
          PROVE  g[<< Field(a, k), Field(b, k) >>] = Merged(Field(a, k), Field(b, k))
        <3> DEFINE p == << Field(a, k), Field(b, k) >>
        <3>1. p \in Trees \X Trees /\ p[1] = Field(a, k) /\ p[2] = Field(b, k)
            BY <2>1, CommonField
        <3> HIDE DEF p
        <3>2. g[p] = Merged(p[1], p[2])
            BY <3>1
        <3>3. g[p] = Merged(Field(a, k), Field(b, k))
            BY <3>1, <3>2
        <3> QED BY <3>3 DEF p
    <2>2. h = f
        <3> HIDE DEF K
        <3> QED BY <2>1
    <2>3. MergeDeep(a, b) = ObjOf(f)
        BY <1>2, MergeDeepUnfolds DEF Trees
    <2>4. MergesBy(g, a, b) = ObjOf(h)
        BY <1>2 DEF MergesBy
    <2>5. Merged(a, b) = MergeDeep(a, b)
        BY <1>2 DEF Merged
    <2> HIDE DEF f, h
    <2> QED BY <2>2, <2>3, <2>4, <2>5
<1>3. CASE ~(Kind(a) = "arr" /\ Kind(b) = "arr") /\ ~(Kind(a) = "obj" /\ Kind(b) = "obj")
    BY <1>3 DEF MergesBy, Merged
<1> QED BY <1>1, <1>2, <1>3

LEMMA DeepMergedSolves ==
    DeepMerged = [p \in Trees \X Trees |-> MergesBy(DeepMerged, p[1], p[2])]
<1> DEFINE g == [p \in Trees \X Trees |-> Merged(p[1], p[2])]
<1>1. \A p \in Trees \X Trees : MergesBy(g, p[1], p[2]) = Merged(p[1], p[2])
    <2> SUFFICES ASSUME NEW p \in Trees \X Trees PROVE MergesBy(g, p[1], p[2]) = Merged(p[1], p[2])
        OBVIOUS
    <2>1. p[1] \in Trees /\ p[2] \in Trees
        OBVIOUS
    <2> QED BY <2>1, MergedSolves
<1>2. g = [p \in Trees \X Trees |-> MergesBy(g, p[1], p[2])]
    BY <1>1
<1> HIDE DEF g
<1>3. \E h : h = [p \in Trees \X Trees |-> MergesBy(h, p[1], p[2])]
    BY <1>2
<1> QED BY <1>3 DEF DeepMerged, MergesBy

(* merge_deep: the recursion has one result, the one that joining along    *)
(* paths gives.                                                            *)
THEOREM DeepMergedIs ==
    ASSUME NEW a \in Trees, NEW b \in Trees
    PROVE  DeepMerged[<< a, b >>] = Merged(a, b)
<1> DEFINE G == { v \in Trees : \A w \in Trees : DeepMerged[<< v, w >>] = Merged(v, w) }
           g == [p \in Trees \X Trees |-> Merged(p[1], p[2])]
<1>1. ASSUME NEW v \in Trees, \A e \in Steps(v) : Child(v, e) \in G PROVE v \in G
    <2> SUFFICES ASSUME NEW w \in Trees PROVE DeepMerged[<< v, w >>] = Merged(v, w)
        OBVIOUS
    <2>1. DeepMerged[<< v, w >>] = MergesBy(DeepMerged, v, w)
        <3> DEFINE p == << v, w >>
        <3>1. p \in Trees \X Trees /\ p[1] = v /\ p[2] = w
            OBVIOUS
        <3> HIDE DEF p
        <3>2. DeepMerged[p] = MergesBy(DeepMerged, p[1], p[2])
            BY <3>1, DeepMergedSolves
        <3>3. DeepMerged[p] = MergesBy(DeepMerged, v, w)
            BY <3>1, <3>2
        <3> QED BY <3>3 DEF p
    <2>2. MergesBy(DeepMerged, v, w) = MergesBy(g, v, w)
        <3> DEFINE K == Keys(v) \cup Keys(w)
                   h == [k \in K |-> IF ~Has(w, k) THEN Field(v, k) ELSE IF ~Has(v, k) THEN Field(w, k)
                                      ELSE DeepMerged[<< Field(v, k), Field(w, k) >>]]
                   f == [k \in K |-> IF ~Has(w, k) THEN Field(v, k) ELSE IF ~Has(v, k) THEN Field(w, k)
                                      ELSE g[<< Field(v, k), Field(w, k) >>]]
        <3>1. ASSUME NEW k \in K, Has(v, k), Has(w, k)
              PROVE  DeepMerged[<< Field(v, k), Field(w, k) >>] = g[<< Field(v, k), Field(w, k) >>]
            <4>1. Field(v, k) \in G /\ << Field(v, k), Field(w, k) >> \in Trees \X Trees
                BY <1>1, <3>1, CommonField
            <4>2. Field(w, k) \in Trees
                BY <4>1
            <4> DEFINE p == << Field(v, k), Field(w, k) >>
            <4>3. DeepMerged[p] = Merged(Field(v, k), Field(w, k))
                BY <4>1, <4>2
            <4>4. p \in Trees \X Trees /\ p[1] = Field(v, k) /\ p[2] = Field(w, k)
                BY <4>1
            <4> HIDE DEF p
            <4>5. g[p] = Merged(p[1], p[2])
                BY <4>4
            <4> HIDE DEF g
            <4>6. g[p] = DeepMerged[p]
                BY <4>3, <4>4, <4>5
            <4> QED BY <4>6 DEF p
        <3>2. h = f
            <4> HIDE DEF K, g, G
            <4> QED BY <3>1
        <3> HIDE DEF g
        <3>3. Kind(v) = "obj" /\ Kind(w) = "obj" => MergesBy(DeepMerged, v, w) = ObjOf(h) /\ MergesBy(g, v, w) = ObjOf(f)
            BY DEF MergesBy
        <3>4. ~(Kind(v) = "obj" /\ Kind(w) = "obj") => MergesBy(DeepMerged, v, w) = MergesBy(g, v, w)
            BY DEF MergesBy
        <3> HIDE DEF h, f
        <3> QED BY <3>2, <3>3, <3>4
    <2>3. MergesBy(g, v, w) = Merged(v, w)
        BY MergedSolves
    <2> HIDE DEF g
    <2> QED BY <2>1, <2>2, <2>3
<1>2. Trees \subseteq G
    <2> HIDE DEF G
    <2> QED BY <1>1, TreeInduction
<1> QED BY <1>2

-----------------------------------------------------------------------------
(* $mergeDeep, item by item.                                               *)

(* A list folded from the left has one result. *)
FoldsTo(f, D, z, s, n) == f = [i \in 0..n |-> IF i = 0 THEN z ELSE D[<< f[i - 1], s[i] >>]]

LEMMA FoldOne ==
    ASSUME NEW n \in Nat, NEW z, NEW D, NEW s, NEW f, NEW h, FoldsTo(f, D, z, s, n), FoldsTo(h, D, z, s, n)
    PROVE  f = h
<1> DEFINE S == { i \in 0..n : f[i] # h[i] }
<1>1. f[0] = z /\ h[0] = z
    BY DEF FoldsTo
<1>2. \A i \in 1..n : f[i] = D[<< f[i - 1], s[i] >>] /\ h[i] = D[<< h[i - 1], s[i] >>]
    BY DEF FoldsTo
<1>3. DOMAIN f = 0..n /\ DOMAIN h = 0..n /\ f = [i \in 0..n |-> f[i]] /\ h = [i \in 0..n |-> h[i]]
    BY DEF FoldsTo
<1>4. S = {}
    <2> SUFFICES ASSUME S # {} PROVE FALSE
        OBVIOUS
    <2>1. S \in SUBSET Nat
        OBVIOUS
    <2>2. PICK i \in S : \A j \in S : i <= j
        <3> HIDE DEF S
        <3> QED BY <2>1, LeastNatural
    <2>3. i \in 1..n /\ i - 1 \in 0..n
        <3>1. i \in 0..n /\ i # 0
            BY <1>1
        <3> QED BY <3>1
    <2>4. f[i - 1] = h[i - 1]
        <3>1. i - 1 \notin S
            BY <2>2, <2>3
        <3> QED BY <2>3, <3>1
    <2>5. f[i] = D[<< f[i - 1], s[i] >>] /\ h[i] = D[<< h[i - 1], s[i] >>]
        BY <1>2, <2>3
    <2>6. f[i] = h[i]
        BY <2>4, <2>5
    <2> QED BY <2>2, <2>6
<1>5. \A i \in 0..n : f[i] = h[i]
    BY <1>4
<1> QED BY <1>3, <1>5

(* The values through which $mergeDeep goes, item by item.                 *)
Passes(f, s) ==
    /\ f \in [0..Len(s) -> Trees]
    /\ f[0] = NoKeys
    /\ \A i \in 1..Len(s) : f[i] = DeepMerged[<< f[i - 1], s[i] >>]

Merging ==
    /\ op \in {"merge", "mergeDeep", "flatten", "sort"}
    /\ items \in Seq(Trees)
    /\ op = "mergeDeep" =>
           /\ acc \in Trees /\ Kind(acc) = "obj"
           /\ \E f : Passes(f, items) /\ acc = f[Len(items)]

LEMMA NoKeysTree == NoKeys \in Trees /\ Kind(NoKeys) = "obj"
<1> DEFINE f == [k \in {} |-> NoKeys]
<1>1. f \in [{} -> Trees] /\ IsFiniteSet({}) /\ {} \subseteq Str
    BY FS_EmptySet
<1>2. ObjOf(f) = NoKeys
    BY DEF ObjOf
<1> HIDE DEF f
<1>3. ObjOf(f) \in Trees /\ Root(ObjOf(f)) = <<"obj">>
    BY <1>1, MembersJoint
<1> QED BY <1>2, <1>3 DEF Kind

LEMMA PoolTrees ==
    /\ \A v \in ObjectPool : v \in Trees /\ Kind(v) = "obj"
    /\ \A v \in ListPool \cup ItemPool \cup KeyPool : v \in Trees
BY PoolAssumption DEF Trees

LEMMA MergingInit == Init => Merging
<1> SUFFICES ASSUME Init PROVE Merging
    OBVIOUS
<1>1. items = <<>> /\ Len(items) = 0 /\ items \in Seq(Trees)
    BY DEF Init
<1>2. ASSUME op = "mergeDeep"
      PROVE  /\ acc \in Trees /\ Kind(acc) = "obj"
             /\ \E f : Passes(f, items) /\ acc = f[Len(items)]
    <2>1. acc = NoKeys
        BY <1>2 DEF Init
    <2> DEFINE f == [i \in 0..0 |-> NoKeys]
    <2>2. f \in [0..0 -> Trees] /\ f[0] = NoKeys
        BY NoKeysTree
    <2> HIDE DEF f
    <2>3. Passes(f, items)
        BY <1>1, <2>2 DEF Passes
    <2> QED BY <1>1, <2>1, <2>2, <2>3, NoKeysTree
<1> QED BY <1>1, <1>2 DEF Merging, Init

LEMMA MergeDeepTree ==
    ASSUME NEW a \in Trees, NEW b \in Trees, Kind(a) = "obj", Kind(b) = "obj"
    PROVE  /\ MergeDeep(a, b) \in Trees /\ Kind(MergeDeep(a, b)) = "obj"
           /\ MergeDeep(a, b) = DeepMerged[<< a, b >>]
<1>1. Merged(a, b) = MergeDeep(a, b)
    BY DEF Merged
<1>2. MergeDeep(a, b) \in Trees /\ MergeDeep(a, b) = DeepMerged[<< a, b >>]
    BY <1>1, MergedTree, DeepMergedIs
<1>3. << <<>>, <<"obj">> >> \in MergeDeep(a, b)
    BY DEF MergeDeep, NoKeys, Leaf
<1>4. Root(MergeDeep(a, b)) = <<"obj">>
    <2> DEFINE m == MergeDeep(a, b)
    <2>1. m \in Value /\ Tree(m) /\ << <<>>, <<"obj">> >> \in m
        BY <1>2, <1>3 DEF Trees
    <2> HIDE DEF m
    <2>2. Root(m) = <<"obj">>
        BY <2>1, TreeRoot
    <2> QED BY <2>2 DEF m
<1> QED BY <1>2, <1>4 DEF Kind

LEMMA MergingStep ==
    ASSUME Merging, NEW w \in ObjectPool, Consume("mergeDeep", w, MergeDeep(acc, w))
    PROVE  Merging'
<1>1. /\ op = "mergeDeep" /\ op' = "mergeDeep" /\ acc' = MergeDeep(acc, w) /\ items' = Append(items, w)
      /\ w \in Trees /\ Kind(w) = "obj" /\ items \in Seq(Trees)
    BY PoolTrees DEF Consume, Merging
<1>2. acc \in Trees /\ Kind(acc) = "obj"
    BY <1>1 DEF Merging
<1>3. PICK f : Passes(f, items) /\ acc = f[Len(items)]
    BY <1>1 DEF Merging
<1>4. acc' \in Trees /\ Kind(acc') = "obj" /\ acc' = DeepMerged[<< acc, w >>]
    BY <1>1, <1>2, MergeDeepTree
<1> DEFINE n == Len(items)
           g == [i \in 0..(n + 1) |-> IF i = n + 1 THEN acc' ELSE f[i]]
<1>5. /\ n \in Nat /\ items' \in Seq(Trees) /\ Len(items') = n + 1 /\ items'[n + 1] = w
      /\ \A i \in 1..n : items'[i] = items[i]
    BY <1>1
<1>6. f \in [0..n -> Trees] /\ f[0] = NoKeys /\ \A i \in 1..n : f[i] = DeepMerged[<< f[i - 1], items[i] >>]
    BY <1>3 DEF Passes
<1> HIDE DEF n
<1>7. g \in [0..(n + 1) -> Trees] /\ g[n + 1] = acc' /\ \A i \in 0..n : g[i] = f[i]
    <2>1. ASSUME NEW i \in 0..(n + 1) PROVE g[i] \in Trees
        <3>1. i = n + 1 \/ i \in 0..n
            BY <1>5
        <3> QED BY <1>4, <1>6, <3>1
    <2>2. \A i \in 0..n : i \in 0..(n + 1) /\ i # n + 1
        BY <1>5
    <2> QED BY <1>5, <2>1, <2>2
<1> HIDE DEF g
<1>8. g[0] = NoKeys
    BY <1>5, <1>6, <1>7
<1>9. ASSUME NEW i \in 1..(n + 1) PROVE g[i] = DeepMerged[<< g[i - 1], items'[i] >>]
    <2>1. CASE i = n + 1
        <3>1. i - 1 = n /\ n \in 0..n
            BY <1>5, <2>1
        <3>2. g[i - 1] = acc
            BY <1>3, <1>7, <3>1 DEF n
        <3> QED BY <1>4, <1>5, <1>7, <2>1, <3>2
    <2>2. CASE i # n + 1
        <3>1. i \in 1..n /\ i \in 0..n /\ i - 1 \in 0..n
            BY <1>5, <2>2
        <3>2. g[i] = f[i] /\ g[i - 1] = f[i - 1] /\ items'[i] = items[i]
            BY <1>5, <1>7, <3>1
        <3> QED BY <1>6, <3>1, <3>2
    <2> QED BY <2>1, <2>2
<1>10. Passes(g, items')
    BY <1>5, <1>7, <1>8, <1>9 DEF Passes
<1> QED BY <1>1, <1>4, <1>5, <1>7, <1>10 DEF Merging

LEMMA MergingNext == Merging /\ [Next]_vars => Merging'
<1> SUFFICES ASSUME Merging, [Next]_vars PROVE Merging'
    OBVIOUS
<1>1. CASE MergeDeepNext
    BY <1>1, MergingStep DEF MergeDeepNext
<1>2. CASE MergeNext \/ FlattenNext \/ SortNext
    <2>1. PICK w \in Trees : op' = op /\ op # "mergeDeep" /\ items' = Append(items, w)
        BY <1>2, PoolTrees DEF MergeNext, FlattenNext, SortNext, Consume
    <2>2. items' \in Seq(Trees)
        BY <2>1 DEF Merging
    <2> QED BY <2>1, <2>2 DEF Merging
<1>3. CASE UNCHANGED vars
    BY <1>3 DEF vars, Merging
<1> QED BY <1>1, <1>2, <1>3 DEF Next

LEMMA MergingInvariant == Spec => []Merging
BY MergingInit, MergingNext, PTL DEF Spec

(* $mergeDeep: for every list of objects, joining along paths gives what   *)
(* the recursion of merge_deep gives item after item.                      *)
THEOREM MergeDeepIsTheCode == Spec => []MergeDeepFollowsCode
<1>1. ASSUME Merging PROVE MergeDeepFollowsCode
    <2> SUFFICES ASSUME op = "mergeDeep" PROVE MergeDeepFollowsCode
        BY DEF MergeDeepFollowsCode
    <2> DEFINE n == Len(items)
               m == CHOOSE merged :
                        merged = [i \in 0..Len(items) |-> IF i = 0 THEN NoKeys
                                                           ELSE DeepMerged[<< merged[i - 1], items[i] >>]]
    <2>1. n \in Nat
        BY <1>1 DEF Merging
    <2>2. PICK f : Passes(f, items) /\ acc = f[n]
        BY <1>1 DEF Merging
    <2>3. f = [i \in 0..n |-> IF i = 0 THEN NoKeys ELSE DeepMerged[<< f[i - 1], items[i] >>]]
        <3>1. f = [i \in 0..n |-> f[i]]
            BY <2>2 DEF Passes
        <3>2. \A i \in 0..n : f[i] = IF i = 0 THEN NoKeys ELSE DeepMerged[<< f[i - 1], items[i] >>]
            BY <2>1, <2>2 DEF Passes
        <3> HIDE DEF n
        <3> QED BY <3>1, <3>2
    <2>4. m = [i \in 0..n |-> IF i = 0 THEN NoKeys ELSE DeepMerged[<< m[i - 1], items[i] >>]]
        BY <2>3
    <2>5. MergeDeepFollowsCode <=> acc = m[n]
        BY DEF MergeDeepFollowsCode
    <2> HIDE DEF m, n
    <2>6. m = f
        <3>1. FoldsTo(f, DeepMerged, NoKeys, items, n) /\ FoldsTo(m, DeepMerged, NoKeys, items, n)
            BY <2>3, <2>4 DEF FoldsTo
        <3> QED BY <2>1, <3>1, FoldOne
    <2> QED BY <2>2, <2>5, <2>6
<1> QED BY <1>1, MergingInvariant, PTL

-----------------------------------------------------------------------------
(* flatten_deep: the order of paths.                                       *)

LEMMA PrecedesDown ==
    ASSUME NEW e \in Step, e[2] \in Nat, NEW p \in Seq(Step), NEW q \in Seq(Step)
    PROVE  Precedes(<<e>> \o p, <<e>> \o q) <=> Precedes(p, q)
<1> DEFINE r == <<e>> \o p
           s == <<e>> \o q
<1>1. /\ Len(p) \in Nat /\ Len(q) \in Nat /\ Len(r) = Len(p) + 1 /\ Len(s) = Len(q) + 1
      /\ r[1] = e /\ s[1] = e
      /\ \A i \in 1..Len(p) : r[i + 1] = p[i]
      /\ \A i \in 1..Len(q) : s[i + 1] = q[i]
    BY OneStep
<1>2. /\ \A i \in 0..Len(p) : SubSeq(r, 1, i + 1) = <<e>> \o SubSeq(p, 1, i) /\ SubSeq(p, 1, i) \in Seq(Step)
      /\ \A i \in 0..Len(q) : SubSeq(s, 1, i + 1) = <<e>> \o SubSeq(q, 1, i) /\ SubSeq(q, 1, i) \in Seq(Step)
    BY StepSubSeq
<1> HIDE DEF r, s
<1>3. ASSUME NEW i \in 1..Len(p), i <= Len(q)
      PROVE  SubSeq(r, 1, i) = SubSeq(s, 1, i) <=> SubSeq(p, 1, i - 1) = SubSeq(q, 1, i - 1)
    <2> DEFINE k == i - 1
               a == SubSeq(p, 1, k)
               b == SubSeq(q, 1, k)
    <2>1. k \in 0..Len(p) /\ k \in 0..Len(q) /\ k + 1 = i
        BY <1>1, <1>3
    <2>2. SubSeq(r, 1, i) = <<e>> \o a /\ SubSeq(s, 1, i) = <<e>> \o b /\ a \in Seq(Step) /\ b \in Seq(Step)
        <3> HIDE DEF k
        <3> QED BY <1>2, <2>1
    <2> HIDE DEF a, b
    <2>3. SubSeq(r, 1, i) = SubSeq(s, 1, i) <=> a = b
        BY <2>2, CancelStep
    <2> QED BY <2>3 DEF a, b
<1>4. ASSUME Precedes(p, q) PROVE Precedes(r, s)
    <2>1. PICK i \in 1..Len(p) : i <= Len(q) /\ SubSeq(p, 1, i - 1) = SubSeq(q, 1, i - 1) /\ p[i][2] < q[i][2]
        BY <1>4 DEF Precedes
    <2> DEFINE j == i + 1
    <2>2. j \in 1..Len(r) /\ j <= Len(s) /\ j - 1 = i /\ i \in 1..Len(q)
        BY <1>1, <2>1
    <2>3. SubSeq(r, 1, j - 1) = SubSeq(s, 1, j - 1)
        BY <1>3, <2>1, <2>2
    <2>4. r[j][2] < s[j][2]
        BY <1>1, <2>1, <2>2
    <2> HIDE DEF j
    <2> QED BY <2>2, <2>3, <2>4 DEF Precedes
<1>5. ASSUME Precedes(r, s) PROVE Precedes(p, q)
    <2>1. PICK j \in 1..Len(r) : j <= Len(s) /\ SubSeq(r, 1, j - 1) = SubSeq(s, 1, j - 1) /\ r[j][2] < s[j][2]
        BY <1>5 DEF Precedes
    <2>2. j # 1
        <3> SUFFICES ASSUME j = 1 PROVE FALSE
            OBVIOUS
        <3>1. e[2] < e[2]
            BY <1>1, <2>1
        <3> QED BY <3>1
    <2> DEFINE i == j - 1
    <2>3. i \in 1..Len(p) /\ i \in 1..Len(q) /\ i <= Len(q) /\ i + 1 = j
        BY <1>1, <2>1, <2>2
    <2>4. SubSeq(p, 1, i - 1) = SubSeq(q, 1, i - 1)
        BY <1>3, <2>1, <2>3
    <2>5. p[i][2] < q[i][2]
        <3> HIDE DEF i
        <3> QED BY <1>1, <2>1, <2>3
    <2> HIDE DEF i
    <2> QED BY <2>3, <2>4, <2>5 DEF Precedes
<1> QED BY <1>4, <1>5 DEF r, s

LEMMA PrecedesByIndex ==
    ASSUME NEW d \in Nat, NEW e \in Nat, d < e, NEW p \in Seq(Step), NEW q \in Seq(Step)
    PROVE  /\ Precedes(<< Elem(d) >> \o p, << Elem(e) >> \o q)
           /\ ~Precedes(<< Elem(e) >> \o q, << Elem(d) >> \o p)
<1> DEFINE r == << Elem(d) >> \o p
           s == << Elem(e) >> \o q
<1>1. Elem(d) \in Step /\ Elem(e) \in Step /\ Elem(d)[2] = d /\ Elem(e)[2] = e /\ Elem(d) # Elem(e)
    BY StepTypes DEF Elem
<1>2. /\ Len(p) \in Nat /\ Len(q) \in Nat /\ Len(r) = Len(p) + 1 /\ Len(s) = Len(q) + 1
      /\ r[1] = Elem(d) /\ s[1] = Elem(e) /\ r \in Seq(Step) /\ s \in Seq(Step)
    BY <1>1, OneStep
<1> HIDE DEF r, s
<1>3. SubSeq(r, 1, 0) = <<>> /\ SubSeq(s, 1, 0) = <<>>
    BY <1>2, SubSeqProperties
<1>4. Precedes(r, s)
    <2>1. 1 \in 1..Len(r) /\ 1 <= Len(s) /\ 1 - 1 = 0 /\ r[1][2] < s[1][2]
        BY <1>1, <1>2
    <2> QED BY <1>3, <2>1 DEF Precedes
<1>5. ASSUME Precedes(s, r) PROVE FALSE
    <2>1. PICK i \in 1..Len(s) : i <= Len(r) /\ SubSeq(s, 1, i - 1) = SubSeq(r, 1, i - 1) /\ s[i][2] < r[i][2]
        BY <1>5 DEF Precedes
    <2>2. CASE i = 1
        <3>1. e < d
            BY <1>1, <1>2, <2>1, <2>2
        <3> QED BY <3>1
    <2>3. CASE i # 1
        <3> DEFINE k == i - 1
        <3>1. k \in 1..Len(s) /\ k \in 1..Len(r) /\ 1 \in 1..k
            BY <1>2, <2>1, <2>3
        <3>2. SubSeq(s, 1, k) = SubSeq(r, 1, k)
            BY <2>1
        <3> HIDE DEF k
        <3>3. SubSeq(s, 1, k)[1] = s[1] /\ SubSeq(r, 1, k)[1] = r[1]
            BY <1>2, <3>1, SubSeqProperties
        <3> QED BY <1>1, <1>2, <3>2, <3>3
    <2> QED BY <2>2, <2>3
<1> QED BY <1>4, <1>5 DEF r, s

(* s is the set S of paths in their order. *)
InOrder(s, S) ==
    /\ s \in Seq(Seq(Step))
    /\ S = { s[i] : i \in 1..Len(s) }
    /\ \A i, j \in 1..Len(s) : Precedes(s[i], s[j]) <=> i < j

(* The path at the index i has i - 1 paths before it. *)
LEMMA OrderRank ==
    ASSUME NEW S, NEW s, InOrder(s, S), NEW i \in 1..Len(s)
    PROVE  Cardinality({ q \in S : Precedes(q, s[i]) }) = i - 1
<1> DEFINE B == { q \in S : Precedes(q, s[i]) }
           f == [j \in 1..(i - 1) |-> s[j]]
<1>0. Len(s) \in Nat /\ i - 1 \in Nat /\ \A j \in 1..(i - 1) : j \in 1..Len(s) /\ j < i
    <2>1. Len(s) \in Nat
        BY LenProperties DEF InOrder
    <2> QED BY <2>1
<1>1. /\ S = { s[j] : j \in 1..Len(s) }
      /\ \A j, k \in 1..Len(s) : Precedes(s[j], s[k]) <=> j < k
    BY DEF InOrder
<1>2. \A j \in 1..(i - 1) : s[j] \in B
    BY <1>0, <1>1
<1>3. ASSUME NEW q \in B PROVE \E j \in 1..(i - 1) : s[j] = q
    <2>1. PICK j \in 1..Len(s) : q = s[j]
        BY <1>1
    <2>2. j < i
        BY <1>1, <2>1
    <2>3. j \in 1..(i - 1)
        BY <1>0, <2>2
    <2> QED BY <2>1, <2>3
<1>4. ASSUME NEW j \in 1..(i - 1), NEW k \in 1..(i - 1), s[j] = s[k] PROVE j = k
    <2>1. j \in 1..Len(s) /\ k \in 1..Len(s) /\ ~(j < j) /\ ~(k < k)
        BY <1>0
    <2>2. ~(j < k) /\ ~(k < j)
        BY <1>1, <1>4, <2>1
    <2> QED BY <2>2
<1> HIDE DEF B
<1>5. f \in [1..(i - 1) -> B] /\ \A j \in 1..(i - 1) : f[j] = s[j]
    BY <1>2
<1> HIDE DEF f
<1>6. f \in Bijection(1..(i - 1), B)
    <2>1. f \in Injection(1..(i - 1), B)
        BY <1>4, <1>5 DEF Injection, IsInjective
    <2>2. f \in Surjection(1..(i - 1), B)
        BY <1>3, <1>5 DEF Surjection
    <2> QED BY <2>1, <2>2 DEF Bijection
<1>7. ExistsBijection(1..(i - 1), B)
    BY <1>6 DEF ExistsBijection
<1>8. Cardinality(B) = i - 1
    BY <1>0, <1>7, FS_CountingElements
<1> QED BY <1>8 DEF B

LEMMA OrderNone == InOrder(<<>>, {})
<1>1. <<>> \in Seq(Seq(Step)) /\ Len(<<>>) = 0
    BY EmptySeq
<1> QED BY <1>1 DEF InOrder

LEMMA OrderOne == InOrder(<< <<>> >>, { <<>> })
<1> DEFINE s == << <<>> >>
<1>1. s \in Seq(Seq(Step)) /\ Len(s) = 1 /\ s[1] = <<>> /\ \A i \in 1..Len(s) : i = 1
    BY EmptySeq
<1>2. ~Precedes(<<>>, <<>>)
    BY DEF Precedes
<1>3. { <<>> } = { s[i] : i \in 1..Len(s) }
    BY <1>1
<1>4. \A i, j \in 1..Len(s) : Precedes(s[i], s[j]) <=> i < j
    <2> HIDE DEF s
    <2> QED BY <1>1, <1>2
<1> QED BY <1>1, <1>3, <1>4 DEF InOrder

LEMMA OrderPrefixed ==
    ASSUME NEW S, NEW s, InOrder(s, S), NEW e \in Step, e[2] \in Nat
    PROVE  InOrder([i \in 1..Len(s) |-> <<e>> \o s[i]], { <<e>> \o q : q \in S })
<1> DEFINE t == [i \in 1..Len(s) |-> <<e>> \o s[i]]
<1>1. Len(s) \in Nat /\ \A i \in 1..Len(s) : s[i] \in Seq(Step)
    BY LenProperties DEF InOrder
<1>2. \A i \in 1..Len(s) : <<e>> \o s[i] \in Seq(Step)
    BY <1>1, OneStep
<1>3. t \in Seq(Seq(Step)) /\ Len(t) = Len(s) /\ \A i \in 1..Len(s) : t[i] = <<e>> \o s[i]
    <2>1. t \in [1..Len(s) -> Seq(Step)]
        BY <1>2
    <2> QED BY <1>1, <2>1
<1> HIDE DEF t
<1>4. S = { s[i] : i \in 1..Len(s) }
    BY DEF InOrder
<1>5. { <<e>> \o q : q \in S } = { t[i] : i \in 1..Len(t) }
    BY <1>3, <1>4
<1>6. ASSUME NEW i \in 1..Len(s), NEW j \in 1..Len(s) PROVE Precedes(t[i], t[j]) <=> i < j
    <2>1. Precedes(t[i], t[j]) <=> Precedes(s[i], s[j])
        <3> DEFINE p == s[i]
                   q == s[j]
        <3>1. p \in Seq(Step) /\ q \in Seq(Step) /\ t[i] = <<e>> \o p /\ t[j] = <<e>> \o q
            BY <1>1, <1>3
        <3> HIDE DEF p, q
        <3>2. Precedes(<<e>> \o p, <<e>> \o q) <=> Precedes(p, q)
            BY <3>1, PrecedesDown
        <3>3. Precedes(t[i], t[j]) <=> Precedes(p, q)
            BY <3>1, <3>2
        <3> QED BY <3>3 DEF p, q
    <2> QED BY <2>1 DEF InOrder
<1>7. InOrder(t, { <<e>> \o q : q \in S })
    BY <1>3, <1>5, <1>6 DEF InOrder
<1> QED BY <1>7 DEF t

LEMMA OrderAppended ==
    ASSUME NEW A, NEW B, NEW s, NEW t, InOrder(s, A), InOrder(t, B),
           \A a \in A, b \in B : Precedes(a, b) /\ ~Precedes(b, a)
    PROVE  InOrder(s \o t, A \cup B)
<1> DEFINE u == s \o t
<1>1. /\ s \in Seq(Seq(Step)) /\ t \in Seq(Seq(Step)) /\ Len(s) \in Nat /\ Len(t) \in Nat
      /\ A = { s[i] : i \in 1..Len(s) } /\ B = { t[i] : i \in 1..Len(t) }
    BY LenProperties DEF InOrder
<1>2. /\ u \in Seq(Seq(Step)) /\ Len(u) = Len(s) + Len(t)
      /\ \A i \in 1..(Len(s) + Len(t)) : u[i] = IF i <= Len(s) THEN s[i] ELSE t[i - Len(s)]
    BY <1>1, ConcatProperties
<1> HIDE DEF u
<1>3. ASSUME NEW i \in 1..Len(u)
      PROVE  \/ i <= Len(s) /\ i \in 1..Len(s) /\ u[i] = s[i] /\ u[i] \in A
             \/ i > Len(s) /\ i - Len(s) \in 1..Len(t) /\ u[i] = t[i - Len(s)] /\ u[i] \in B
    <2>1. CASE i <= Len(s)
        <3>1. i \in 1..Len(s) /\ u[i] = s[i]
            BY <1>1, <1>2, <2>1
        <3> QED BY <1>1, <2>1, <3>1
    <2>2. CASE ~(i <= Len(s))
        <3>1. i > Len(s) /\ i - Len(s) \in 1..Len(t) /\ u[i] = t[i - Len(s)]
            BY <1>1, <1>2, <2>2
        <3> QED BY <1>1, <3>1
    <2> QED BY <2>1, <2>2
<1>4. A \cup B = { u[i] : i \in 1..Len(u) }
    <2>1. ASSUME NEW i \in 1..Len(s) PROVE i \in 1..Len(u) /\ u[i] = s[i]
        BY <1>1, <1>2
    <2>2. ASSUME NEW i \in 1..Len(t) PROVE i + Len(s) \in 1..Len(u) /\ u[i + Len(s)] = t[i]
        <3>1. i + Len(s) \in 1..(Len(s) + Len(t)) /\ ~(i + Len(s) <= Len(s)) /\ (i + Len(s)) - Len(s) = i
            BY <1>1
        <3> QED BY <1>2, <3>1
    <2>3. \A x \in A : \E i \in 1..Len(u) : x = u[i]
        BY <1>1, <2>1
    <2>4. \A x \in B : \E i \in 1..Len(u) : x = u[i]
        BY <1>1, <2>2
    <2>5. \A i \in 1..Len(u) : u[i] \in A \cup B
        BY <1>3
    <2> QED BY <2>3, <2>4, <2>5
<1>5. ASSUME NEW i \in 1..Len(u), NEW j \in 1..Len(u) PROVE Precedes(u[i], u[j]) <=> i < j
    <2>0. /\ \A k, m \in 1..Len(s) : Precedes(s[k], s[m]) <=> k < m
          /\ \A k, m \in 1..Len(t) : Precedes(t[k], t[m]) <=> k < m
        BY DEF InOrder
    <2>6. /\ i <= Len(s) => i \in 1..Len(s) /\ u[i] = s[i] /\ u[i] \in A
          /\ i > Len(s) => i - Len(s) \in 1..Len(t) /\ u[i] = t[i - Len(s)] /\ u[i] \in B
        BY <1>1, <1>2, <1>3
    <2>7. /\ j <= Len(s) => j \in 1..Len(s) /\ u[j] = s[j] /\ u[j] \in A
          /\ j > Len(s) => j - Len(s) \in 1..Len(t) /\ u[j] = t[j - Len(s)] /\ u[j] \in B
        BY <1>1, <1>2, <1>3
    <2>1. CASE i <= Len(s) /\ j <= Len(s)
        <3>1. i \in 1..Len(s) /\ u[i] = s[i] /\ j \in 1..Len(s) /\ u[j] = s[j]
            BY <2>1, <2>6, <2>7
        <3> QED BY <2>0, <3>1
    <2>2. CASE i <= Len(s) /\ j > Len(s)
        <3>1. u[i] \in A /\ u[j] \in B
            BY <2>2, <2>6, <2>7
        <3>2. i < j
            BY <1>1, <2>2
        <3> QED BY <3>1, <3>2
    <2>3. CASE i > Len(s) /\ j <= Len(s)
        <3>1. u[i] \in B /\ u[j] \in A
            BY <2>3, <2>6, <2>7
        <3>2. ~(i < j)
            BY <1>1, <2>3
        <3> QED BY <3>1, <3>2
    <2>4. CASE i > Len(s) /\ j > Len(s)
        <3> DEFINE k == i - Len(s)
                   m == j - Len(s)
        <3>1. k \in 1..Len(t) /\ m \in 1..Len(t) /\ u[i] = t[k] /\ u[j] = t[m]
            BY <2>4, <2>6, <2>7
        <3>2. k < m <=> i < j
            BY <1>1
        <3> HIDE DEF k, m
        <3> QED BY <2>0, <3>1, <3>2
    <2>5. Len(u) \in Nat /\ (i <= Len(s) \/ i > Len(s)) /\ (j <= Len(s) \/ j > Len(s))
        BY <1>1, <1>2
    <2> QED BY <2>1, <2>2, <2>3, <2>4, <2>5
<1>6. InOrder(u, A \cup B)
    BY <1>2, <1>4, <1>5 DEF InOrder
<1> QED BY <1>6 DEF u

LEMMA FlatPaths ==
    ASSUME NEW v \in Value, NEW p
    PROVE  p \in Flat(v) <=> \E l : << p, l >> \in v /\ l # <<"arr">> /\ Prefixes(p) \subseteq Arrays(v)
<1>1. \A n \in v : n = << n[1], n[2] >>
    BY NodeType
<1>2. p \in Flat(v) <=> \E n \in v : n[2] # <<"arr">> /\ Prefixes(n[1]) \subseteq Arrays(v) /\ p = n[1]
    BY DEF Flat
<1>3. ASSUME NEW l, << p, l >> \in v, l # <<"arr">>, Prefixes(p) \subseteq Arrays(v) PROVE p \in Flat(v)
    <2> DEFINE n == << p, l >>
    <2>1. n \in v /\ n[1] = p /\ n[2] = l
        BY <1>3
    <2> HIDE DEF n
    <2> QED BY <1>2, <1>3, <2>1
<1>4. ASSUME NEW n \in v, n[2] # <<"arr">>, Prefixes(n[1]) \subseteq Arrays(v), p = n[1]
      PROVE  << p, n[2] >> \in v /\ n[2] # <<"arr">> /\ Prefixes(p) \subseteq Arrays(v)
    BY <1>1, <1>4
<1> QED BY <1>2, <1>3, <1>4

(* What is not an array is its own only leaf. *)
LEMMA FlatLeaf ==
    ASSUME NEW v \in Trees, Kind(v) # "arr"
    PROVE  Flat(v) = { <<>> }
<1>0. v \in Value /\ Tree(v)
    BY DEF Trees
<1>1. <<>> \notin Arrays(v)
    BY <1>0, KindPaths
<1>2. ASSUME NEW p \in Flat(v) PROVE p = <<>>
    <2>1. PICK l : << p, l >> \in v /\ Prefixes(p) \subseteq Arrays(v)
        BY <1>0, FlatPaths
    <2>2. p \in Seq(Step)
        <3> DEFINE n == << p, l >>
        <3>1. n \in v /\ n[1] = p
            BY <2>1
        <3> HIDE DEF n
        <3> QED BY <1>0, <3>1, NodeType DEF Path
    <2>3. ASSUME p # <<>> PROVE FALSE
        <3>1. Head(p) \in Step /\ Tail(p) \in Seq(Step) /\ p = << Head(p) >> \o Tail(p)
            BY <2>2, <2>3, FirstStep
        <3>2. <<>> \in Prefixes(p)
            <4> DEFINE h == Head(p)
                       t == Tail(p)
            <4>1. h \in Step /\ t \in Seq(Step) /\ p = <<h>> \o t
                BY <3>1
            <4> HIDE DEF h, t
            <4>2. <<>> \in Prefixes(<<h>> \o t)
                BY <4>1, StepPrefixes
            <4> QED BY <4>1, <4>2
        <3> QED BY <1>1, <2>1, <3>2
    <2> QED BY <2>3
<1>3. <<>> \in Flat(v)
    <2>1. << <<>>, Root(v) >> \in v /\ Root(v) # <<"arr">>
        BY <1>0, RootType DEF Kind
    <2>2. Prefixes(<<>>) = {}
        BY DEF Prefixes
    <2> QED BY <1>0, <2>1, <2>2, FlatPaths
<1> QED BY <1>2, <1>3

(* The leaves of an array are those of its elements, a step further down.  *)
(* p leads through an element of v, and to what that one contributes. *)
InElement(v, p) == \E e \in Steps(v) : \E q \in Flat(Child(v, e)) : p = <<e>> \o q

LEMMA FlatArray ==
    ASSUME NEW v \in Trees, Kind(v) = "arr", NEW p
    PROVE  p \in Flat(v) <=> InElement(v, p)
<1>0. v \in Value /\ Tree(v) /\ Attached(v) /\ <<>> \in Arrays(v) /\ Steps(v) \subseteq Step
    BY TreeAttached, KindPaths, StepsType DEF Trees
<1>1. \A e \in Steps(v) : Child(v, e) \in Value
    BY <1>0, ChildType
<1>2. ASSUME NEW e \in Steps(v), NEW q \in Seq(Step)
      PROVE  Prefixes(<<e>> \o q) \subseteq Arrays(v) <=> Prefixes(q) \subseteq Arrays(Child(v, e))
    <2>1. Prefixes(q) \subseteq Seq(Step) /\ Prefixes(<<e>> \o q) = { <<>> } \cup { <<e>> \o r : r \in Prefixes(q) }
        BY <1>0, StepPrefixes
    <2>2. \A r \in Seq(Step) : <<e>> \o r \in Arrays(v) <=> r \in Arrays(Child(v, e))
        BY <1>0, PathsDown
    <2> QED BY <1>0, <2>1, <2>2
<1>3. ASSUME p \in Flat(v) PROVE \E e \in Steps(v) : \E q \in Flat(Child(v, e)) : p = <<e>> \o q
    <2>1. PICK l : << p, l >> \in v /\ l # <<"arr">> /\ Prefixes(p) \subseteq Arrays(v)
        BY <1>0, <1>3, FlatPaths
    <2>2. p \in Seq(Step)
        <3> DEFINE n == << p, l >>
        <3>1. n \in v /\ n[1] = p
            BY <2>1
        <3> HIDE DEF n
        <3> QED BY <1>0, <3>1, NodeType DEF Path
    <2>3. p # <<>>
        BY <2>1, ArrayIs
    <2> DEFINE e == Head(p)
               q == Tail(p)
    <2>4. e \in Step /\ q \in Seq(Step) /\ p = <<e>> \o q
        BY <2>2, <2>3, FirstStep
    <2> HIDE DEF e, q
    <2>5. e \in Steps(v) /\ << q, l >> \in Child(v, e)
        BY <1>0, <2>1, <2>4, NodesUnder
    <2>6. q \in Flat(Child(v, e))
        BY <1>1, <1>2, <2>1, <2>4, <2>5, FlatPaths
    <2> QED BY <2>4, <2>5, <2>6
<1>4. ASSUME NEW e \in Steps(v), NEW q \in Flat(Child(v, e)), p = <<e>> \o q PROVE p \in Flat(v)
    <2>1. PICK l : << q, l >> \in Child(v, e) /\ l # <<"arr">> /\ Prefixes(q) \subseteq Arrays(Child(v, e))
        BY <1>1, FlatPaths
    <2>2. q \in Seq(Step)
        <3> DEFINE n == << q, l >>
        <3>1. n \in Child(v, e) /\ n[1] = q
            BY <2>1
        <3> HIDE DEF n
        <3> QED BY <1>1, <3>1, NodeType DEF Path
    <2>3. << <<e>> \o q, l >> \in v
        BY <1>0, <2>1, <2>2, NodesUnder
    <2>4. Prefixes(<<e>> \o q) \subseteq Arrays(v)
        BY <1>2, <2>1, <2>2
    <2> QED BY <1>0, <1>4, <2>1, <2>3, <2>4, FlatPaths
<1> QED BY <1>3, <1>4 DEF InElement

LEMMA FlatTrees ==
    ASSUME NEW v \in Trees, NEW p \in Flat(v)
    PROVE  p \in Seq(Step) /\ At(v, p) \in Trees
<1> DEFINE G == { u \in Trees : \A q \in Flat(u) : q \in Seq(Step) /\ At(u, q) \in Trees }
<1>1. ASSUME NEW u \in Trees, \A e \in Steps(u) : Child(u, e) \in G PROVE u \in G
    <2>0. u \in Value /\ Steps(u) \subseteq Step
        BY StepsType DEF Trees
    <2> SUFFICES ASSUME NEW q \in Flat(u) PROVE q \in Seq(Step) /\ At(u, q) \in Trees
        OBVIOUS
    <2>1. CASE Kind(u) # "arr"
        <3>1. q = <<>>
            BY <2>1, FlatLeaf
        <3> QED BY <2>0, <3>1, AtRoot, EmptySeq
    <2>2. CASE Kind(u) = "arr"
        <3>0. PICK e \in Steps(u) : \E r \in Flat(Child(u, e)) : q = <<e>> \o r
            <4>1. InElement(u, q)
                BY <2>2, FlatArray
            <4> QED BY <4>1 DEF InElement
        <3>1. PICK r \in Flat(Child(u, e)) : q = <<e>> \o r
            BY <3>0
        <3>2. r \in Seq(Step) /\ At(Child(u, e), r) \in Trees
            BY <1>1
        <3>3. At(u, q) = At(Child(u, e), r)
            BY <2>0, <3>1, <3>2, AtChild
        <3>4. q \in Seq(Step)
            BY <2>0, <3>1, <3>2, OneStep
        <3> QED BY <3>2, <3>3, <3>4
    <2> QED BY <2>1, <2>2
<1>2. Trees \subseteq G
    <2> HIDE DEF G
    <2> QED BY <1>1, TreeInduction
<1> QED BY <1>2

-----------------------------------------------------------------------------
(* l holds what v has at the paths of S, in their order. *)
Listed(v, S, l) == \E s : InOrder(s, S) /\ l = [i \in 1..Len(s) |-> At(v, s[i])]

LEMMA ListedAll ==
    ASSUME NEW v \in Trees, NEW l, Listed(v, Flat(v), l)
    PROVE  l \in Seq(Trees) /\ FlattenDeep(v) = ArrOf(l) /\ Items(FlattenDeep(v)) = l
<1>1. PICK s : InOrder(s, Flat(v)) /\ l = [i \in 1..Len(s) |-> At(v, s[i])]
    BY DEF Listed
<1>2. Len(s) \in Nat /\ Flat(v) = { s[i] : i \in 1..Len(s) }
    BY <1>1, LenProperties DEF InOrder
<1>3. \A i \in 1..Len(s) : l[i] = At(v, s[i]) /\ l[i] \in Trees
    BY <1>1, <1>2, FlatTrees
<1>4. l \in Seq(Trees) /\ DOMAIN l = 1..Len(s)
    <2>1. l \in [1..Len(s) -> Trees]
        BY <1>1, <1>3
    <2> QED BY <1>2, <2>1
<1>5. \A i \in 1..Len(s) : Cardinality({ q \in Flat(v) : Precedes(q, s[i]) }) = i - 1
    BY <1>1, OrderRank
<1> DEFINE R(p) == Elem(Cardinality({ q \in Flat(v) : Precedes(q, p) }))
<1>6. \A i \in 1..Len(s) : R(s[i]) = Elem(i - 1)
    BY <1>5
<1>7. \A x : x \in FlattenDeep(v) <=> x \in NoElems \/ \E p \in Flat(v) : x \in Graft(R(p), At(v, p))
    BY DEF FlattenDeep
<1>8. \A x : x \in ArrOf(l) <=> x \in NoElems \/ \E i \in 1..Len(s) : x \in Graft(Elem(i - 1), l[i])
    BY <1>4 DEF ArrOf
<1> HIDE DEF R
<1>9. \A x : (\E p \in Flat(v) : x \in Graft(R(p), At(v, p))) <=> \E i \in 1..Len(s) : x \in Graft(R(s[i]), At(v, s[i]))
    BY <1>2
<1>10. \A x : (\E i \in 1..Len(s) : x \in Graft(R(s[i]), At(v, s[i]))) <=> \E i \in 1..Len(s) : x \in Graft(Elem(i - 1), l[i])
    BY <1>3, <1>6
<1>11. \A x : x \in FlattenDeep(v) <=> x \in ArrOf(l)
    BY <1>7, <1>8, <1>9, <1>10
<1>12. FlattenDeep(v) = ArrOf(l)
    BY <1>11
<1> QED BY <1>4, <1>12, ItemsOf

-----------------------------------------------------------------------------
(* Lists of leaves, one behind the other.                                  *)

LEMMA SeqFromFunction ==
    ASSUME NEW S, NEW n \in Nat, NEW f \in [1..n -> S]
    PROVE  f \in Seq(S) /\ Len(f) = n
OBVIOUS

LEMMA CountUp ==
    ASSUME NEW n \in Nat, NEW G, 0 \in G, \A i \in 0..n : i < n /\ i \in G => i + 1 \in G
    PROVE  \A i \in 0..n : i \in G
<1> DEFINE S == { i \in 0..n : i \notin G }
<1> SUFFICES ASSUME S # {} PROVE FALSE
    OBVIOUS
<1>1. PICK i \in S : \A j \in S : i <= j
    <2>1. S \in SUBSET Nat
        OBVIOUS
    <2> HIDE DEF S
    <2> QED BY <2>1, LeastNatural
<1>2. i \in 1..n /\ i - 1 \in 0..n /\ i - 1 < n /\ (i - 1) + 1 = i
    <2>1. i # 0 /\ i \in 0..n
        OBVIOUS
    <2> QED BY <2>1
<1>3. i - 1 \in G
    <2>1. i - 1 \notin S
        BY <1>1, <1>2
    <2> QED BY <1>2, <2>1
<1> QED BY <1>2, <1>3

(* f[i] is the first i lists of g, one behind the other. *)
Chains(f, g, n) ==
    /\ f = [i \in 0..n |-> f[i]]
    /\ f[0] = <<>>
    /\ \A i \in 1..n : f[i] = f[i - 1] \o g[i]

LEMMA ChainsIs ==
    ASSUME NEW n \in Nat, NEW g, NEW f
    PROVE  Chains(f, g, n) <=> f = [i \in 0..n |-> IF i = 0 THEN <<>> ELSE f[i - 1] \o g[i]]
<1>1. ASSUME f = [i \in 0..n |-> IF i = 0 THEN <<>> ELSE f[i - 1] \o g[i]]
      PROVE  Chains(f, g, n)
    <2>1. DOMAIN f = 0..n /\ f[0] = <<>> /\ \A i \in 1..n : f[i] = f[i - 1] \o g[i]
        BY <1>1
    <2>2. f = [i \in 0..n |-> f[i]]
        BY <1>1
    <2> QED BY <2>1, <2>2 DEF Chains
<1>2. ASSUME Chains(f, g, n)
      PROVE  f = [i \in 0..n |-> IF i = 0 THEN <<>> ELSE f[i - 1] \o g[i]]
    <2>1. f = [i \in 0..n |-> f[i]]
        BY <1>2 DEF Chains
    <2>2. \A i \in 0..n : f[i] = IF i = 0 THEN <<>> ELSE f[i - 1] \o g[i]
        <3> SUFFICES ASSUME NEW i \in 0..n PROVE f[i] = IF i = 0 THEN <<>> ELSE f[i - 1] \o g[i]
            OBVIOUS
        <3>1. i = 0 \/ i \in 1..n
            OBVIOUS
        <3> QED BY <1>2, <3>1 DEF Chains
    <2> QED BY <2>1, <2>2, Zenon
<1> QED BY <1>1, <1>2

LEMMA ChainExists ==
    ASSUME NEW S, NEW n \in Nat, NEW g, \A i \in 1..n : g[i] \in Seq(S)
    PROVE  \E f \in [0..n -> Seq(S)] : Chains(f, g, n)
<1> DEFINE G == { k \in 0..n : \E f \in [0..k -> Seq(S)] : Chains(f, g, k) }
<1>1. 0 \in G
    <2> DEFINE f == [i \in 0..0 |-> <<>>]
    <2>1. f \in [0..0 -> Seq(S)] /\ f[0] = <<>>
        BY EmptySeq
    <2> HIDE DEF f
    <2>2. Chains(f, g, 0)
        BY <2>1 DEF Chains
    <2> QED BY <2>1, <2>2
<1>2. ASSUME NEW k \in 0..n, k < n, k \in G PROVE k + 1 \in G
    <2>1. PICK f \in [0..k -> Seq(S)] : Chains(f, g, k)
        BY <1>2
    <2>2. f[0] = <<>> /\ \A i \in 1..k : f[i] = f[i - 1] \o g[i]
        BY <2>1 DEF Chains
    <2> DEFINE x == f[k] \o g[k + 1]
               h == [i \in 0..(k + 1) |-> IF i = k + 1 THEN x ELSE f[i]]
    <2>3. x \in Seq(S)
        <3>1. k + 1 \in 1..n /\ k \in 0..k
            BY <1>2
        <3> QED BY <2>1, <3>1, ConcatProperties
    <2> HIDE DEF x
    <2>4. h \in [0..(k + 1) -> Seq(S)] /\ h[k + 1] = x /\ \A i \in 0..k : h[i] = f[i]
        <3>1. ASSUME NEW i \in 0..(k + 1) PROVE h[i] \in Seq(S)
            <4>1. i = k + 1 \/ i \in 0..k
                BY <1>2
            <4> QED BY <2>1, <2>3, <4>1
        <3>2. \A i \in 0..k : i \in 0..(k + 1) /\ i # k + 1
            BY <1>2
        <3> QED BY <1>2, <3>1, <3>2
    <2> HIDE DEF h
    <2>5. ASSUME NEW i \in 1..(k + 1) PROVE h[i] = h[i - 1] \o g[i]
        <3>1. CASE i = k + 1
            <4>1. i - 1 = k /\ k \in 0..k
                BY <1>2, <3>1
            <4>2. h[i - 1] = f[k]
                BY <2>4, <4>1
            <4> QED BY <2>4, <3>1, <4>2 DEF x
        <3>2. CASE i # k + 1
            <4>1. i \in 1..k /\ i \in 0..k /\ i - 1 \in 0..k
                BY <1>2, <3>2
            <4> QED BY <2>2, <2>4, <4>1
        <3> QED BY <3>1, <3>2
    <2>6. h[0] = <<>>
        <3>1. 0 \in 0..k
            BY <1>2
        <3> QED BY <2>2, <2>4, <3>1
    <2>7. k + 1 \in Nat /\ k + 1 \in 0..n
        BY <1>2
    <2>8. Chains(h, g, k + 1)
        BY <2>4, <2>5, <2>6 DEF Chains
    <2> QED BY <2>4, <2>7, <2>8
<1>3. \A k \in 0..n : k \in G
    <2> HIDE DEF G
    <2> QED BY <1>1, <1>2, CountUp
<1>4. n \in 0..n
    OBVIOUS
<1> QED BY <1>3, <1>4

LEMMA ChainType ==
    ASSUME NEW S, NEW n \in Nat, NEW g, \A i \in 1..n : g[i] \in Seq(S), NEW f, Chains(f, g, n)
    PROVE  \A i \in 0..n : f[i] \in Seq(S)
<1> DEFINE G == { i \in 0..n : f[i] \in Seq(S) }
<1>0. f[0] = <<>> /\ \A i \in 1..n : f[i] = f[i - 1] \o g[i]
    BY DEF Chains
<1>1. 0 \in G
    <2>1. 0 \in 0..n /\ <<>> \in Seq(S)
        BY EmptySeq
    <2> QED BY <1>0, <2>1
<1>2. ASSUME NEW i \in 0..n, i < n, i \in G PROVE i + 1 \in G
    <2>1. i + 1 \in 1..n /\ (i + 1) - 1 = i /\ i + 1 \in 0..n
        BY <1>2
    <2>2. f[i + 1] = f[i] \o g[i + 1] /\ f[i] \in Seq(S) /\ g[i + 1] \in Seq(S)
        BY <1>0, <1>2, <2>1
    <2> DEFINE x == f[i]
               y == g[i + 1]
    <2>3. x \in Seq(S) /\ y \in Seq(S)
        BY <2>2
    <2> HIDE DEF x, y
    <2>4. x \o y \in Seq(S)
        BY <2>3, ConcatProperties
    <2>5. f[i + 1] \in Seq(S)
        BY <2>2, <2>4 DEF x, y
    <2> QED BY <2>1, <2>5
<1>3. \A i \in 0..n : i \in G
    <2> HIDE DEF G
    <2> QED BY <1>1, <1>2, CountUp
<1> QED BY <1>3

LEMMA ChainsAgree ==
    ASSUME NEW n \in Nat, NEW m \in Nat, n <= m, NEW g, NEW h, NEW a, NEW b, Chains(a, g, n), Chains(b, h, m),
           \A i \in 1..n : g[i] = h[i]
    PROVE  \A i \in 0..n : a[i] = b[i]
<1> DEFINE G == { i \in 0..n : a[i] = b[i] }
<1>0. /\ a[0] = <<>> /\ \A i \in 1..n : a[i] = a[i - 1] \o g[i]
      /\ b[0] = <<>> /\ \A i \in 1..m : b[i] = b[i - 1] \o h[i]
    BY DEF Chains
<1>1. 0 \in G
    BY <1>0
<1>2. ASSUME NEW i \in 0..n, i < n, i \in G PROVE i + 1 \in G
    <2>1. i + 1 \in 1..n /\ i + 1 \in 1..m /\ (i + 1) - 1 = i /\ i + 1 \in 0..n
        BY <1>2
    <2>2. a[i + 1] = a[i] \o g[i + 1] /\ b[i + 1] = b[i] \o h[i + 1]
        BY <1>0, <2>1
    <2>3. a[i + 1] = b[i + 1]
        BY <1>2, <2>1, <2>2
    <2> QED BY <2>1, <2>3
<1>3. \A i \in 0..n : i \in G
    <2> HIDE DEF G
    <2> QED BY <1>1, <1>2, CountUp
<1> QED BY <1>3

-----------------------------------------------------------------------------
(* The leaves of the first i elements of an array. *)
FlatTo(v, i) == UNION { { << Elem(j) >> \o q : q \in Flat(Child(v, Elem(j))) } : j \in 0..(i - 1) }

InElems(v, i, p) == \E j \in 0..(i - 1) : \E q \in Flat(Child(v, Elem(j))) : p = << Elem(j) >> \o q

LEMMA FlatToIs ==
    ASSUME NEW v, NEW i, NEW p
    PROVE  p \in FlatTo(v, i) <=> InElems(v, i, p)
<1> DEFINE F(j) == { << Elem(j) >> \o q : q \in Flat(Child(v, Elem(j))) }
<1>1. FlatTo(v, i) = UNION { F(j) : j \in 0..(i - 1) }
    BY DEF FlatTo
<1>2. \A j : p \in F(j) <=> \E q \in Flat(Child(v, Elem(j))) : p = << Elem(j) >> \o q
    OBVIOUS
<1>3. InElems(v, i, p) <=> \E j \in 0..(i - 1) : p \in F(j)
    BY <1>2 DEF InElems
<1> HIDE DEF F
<1> QED BY <1>1, <1>3

LEMMA ListedMore ==
    ASSUME NEW v \in Trees, Kind(v) = "arr", NEW i \in Nat, i < Length(v), NEW l, NEW m,
           Listed(v, FlatTo(v, i), l), Listed(Child(v, Elem(i)), Flat(Child(v, Elem(i))), m)
    PROVE  Listed(v, FlatTo(v, i + 1), l \o m)
<1> DEFINE e == Elem(i)
           c == Child(v, e)
<1>0. v \in Value /\ Length(v) \in Nat /\ e \in Steps(v) /\ e \in Step /\ e[2] = i /\ c \in Trees
    <2>1. v \in Value /\ Tree(v) /\ Length(v) \in Nat
        BY LengthType DEF Trees
    <2>2. i \in 0..(Length(v) - 1)
        BY <2>1
    <2>3. e \in Steps(v)
        BY <2>2, ArraySteps
    <2> QED BY <2>1, <2>3, StepTypes, ChildType, ChildTree DEF Elem, Trees
<1>1. PICK s : InOrder(s, FlatTo(v, i)) /\ l = [k \in 1..Len(s) |-> At(v, s[k])]
    BY DEF Listed
<1>2. PICK t : InOrder(t, Flat(c)) /\ m = [k \in 1..Len(t) |-> At(c, t[k])]
    BY DEF Listed
<1> HIDE DEF c
<1> DEFINE u == [k \in 1..Len(t) |-> <<e>> \o t[k]]
           U == { <<e>> \o q : q \in Flat(c) }
           x == s \o u
<1>3. InOrder(u, U)
    BY <1>0, <1>2, OrderPrefixed
<1>4. \A j \in 0..(i - 1) : Child(v, Elem(j)) \in Trees
    <2> SUFFICES ASSUME NEW j \in 0..(i - 1) PROVE Child(v, Elem(j)) \in Trees
        OBVIOUS
    <2>1. j \in 0..(Length(v) - 1)
        BY <1>0
    <2>2. Elem(j) \in Steps(v)
        BY <2>1, ArraySteps
    <2> QED BY <2>2, ChildType, ChildTree DEF Trees
<1>5. ASSUME NEW a \in FlatTo(v, i), NEW b \in U PROVE Precedes(a, b) /\ ~Precedes(b, a)
    <2>1. PICK j \in 0..(i - 1) : \E q \in Flat(Child(v, Elem(j))) : a = << Elem(j) >> \o q
        <3>1. InElems(v, i, a)
            BY FlatToIs
        <3> QED BY <3>1, Zenon DEF InElems
    <2>2. PICK q \in Flat(Child(v, Elem(j))) : a = << Elem(j) >> \o q
        BY <2>1
    <2>3. PICK r \in Flat(c) : b = << Elem(i) >> \o r
        OBVIOUS
    <2>4. q \in Seq(Step) /\ r \in Seq(Step)
        BY <1>0, <1>4, FlatTrees
    <2>5. j \in Nat /\ j < i
        OBVIOUS
    <2> QED BY <2>2, <2>3, <2>4, <2>5, PrecedesByIndex
<1>6. InOrder(x, FlatTo(v, i) \cup U)
    <2> HIDE DEF u, U
    <2> QED BY <1>1, <1>3, <1>5, OrderAppended
<1>7. FlatTo(v, i + 1) = FlatTo(v, i) \cup U
    <2>1. ASSUME NEW p \in FlatTo(v, i + 1) PROVE p \in FlatTo(v, i) \cup U
        <3>0. \E j \in 0..((i + 1) - 1) : \E q \in Flat(Child(v, Elem(j))) : p = << Elem(j) >> \o q
            <4>1. InElems(v, i + 1, p)
                BY FlatToIs
            <4> QED BY <4>1, Zenon DEF InElems
        <3>1. PICK j \in 0..((i + 1) - 1) : \E q \in Flat(Child(v, Elem(j))) : p = << Elem(j) >> \o q
            BY <3>0, Zenon
        <3>2. CASE j = i
            BY <3>1, <3>2 DEF c
        <3>3. CASE j # i
            <4>1. j \in 0..(i - 1)
                BY <3>3
            <4>2. InElems(v, i, p)
                BY <3>1, <4>1 DEF InElems
            <4> HIDE DEF U
            <4> QED BY <4>2, FlatToIs
        <3> QED BY <3>2, <3>3
    <2>2. ASSUME NEW p \in FlatTo(v, i) PROVE p \in FlatTo(v, i + 1)
        <3>0. InElems(v, i, p)
            BY FlatToIs
        <3>1. PICK j \in 0..(i - 1) : \E q \in Flat(Child(v, Elem(j))) : p = << Elem(j) >> \o q
            BY <3>0 DEF InElems
        <3>2. j \in 0..((i + 1) - 1)
            OBVIOUS
        <3>3. InElems(v, i + 1, p)
            BY <3>1, <3>2 DEF InElems
        <3> QED BY <3>3, FlatToIs
    <2>3. ASSUME NEW p \in U PROVE p \in FlatTo(v, i + 1)
        <3>1. \E q \in Flat(Child(v, Elem(i))) : p = << Elem(i) >> \o q
            BY DEF c
        <3>2. i \in 0..((i + 1) - 1)
            OBVIOUS
        <3>3. InElems(v, i + 1, p)
            BY <3>1, <3>2 DEF InElems
        <3> HIDE DEF U
        <3> QED BY <3>3, FlatToIs
    <2> QED BY <2>1, <2>2, <2>3
<1>8. l \o m = [k \in 1..Len(x) |-> At(v, x[k])]
    <2>1. /\ s \in Seq(Seq(Step)) /\ t \in Seq(Seq(Step)) /\ u \in Seq(Seq(Step))
          /\ Len(s) \in Nat /\ Len(t) \in Nat
        BY <1>1, <1>2, <1>3, LenProperties DEF InOrder
    <2>2. Len(u) = Len(t) /\ \A k \in 1..Len(t) : u[k] = <<e>> \o t[k] /\ t[k] \in Seq(Step)
        BY <2>1
    <2>3. \A k \in 1..Len(t) : At(v, u[k]) = At(c, t[k])
        BY <1>0, <2>2, AtChild DEF c
    <2> HIDE DEF u, U
    <2>4. /\ Len(x) = Len(s) + Len(t)
          /\ \A k \in 1..(Len(s) + Len(t)) : x[k] = IF k <= Len(s) THEN s[k] ELSE u[k - Len(s)]
        <3>1. /\ Len(x) = Len(s) + Len(u)
              /\ \A k \in 1..(Len(s) + Len(u)) : x[k] = IF k <= Len(s) THEN s[k] ELSE u[k - Len(s)]
            BY <2>1, ConcatProperties
        <3> HIDE DEF x
        <3>2. Len(u) = Len(t)
            BY <2>2
        <3> QED BY <3>1, <3>2
    <2> DEFINE T == { At(v, s[k]) : k \in 1..Len(s) } \cup { At(c, t[k]) : k \in 1..Len(t) }
    <2>5. l \in Seq(T) /\ Len(l) = Len(s) /\ m \in Seq(T) /\ Len(m) = Len(t)
        <3>0. (\A k \in 1..Len(s) : At(v, s[k]) \in T) /\ \A k \in 1..Len(t) : At(c, t[k]) \in T
            OBVIOUS
        <3> HIDE DEF T
        <3>1. l \in [1..Len(s) -> T] /\ m \in [1..Len(t) -> T]
            BY <1>1, <1>2, <3>0
        <3>2. l \in Seq(T) /\ Len(l) = Len(s)
            BY <2>1, <3>1, SeqFromFunction
        <3>3. m \in Seq(T) /\ Len(m) = Len(t)
            BY <2>1, <3>1, SeqFromFunction
        <3> QED BY <3>2, <3>3
    <2> HIDE DEF T
    <2>6. /\ l \o m \in Seq(T) /\ Len(l \o m) = Len(s) + Len(t)
          /\ \A k \in 1..(Len(s) + Len(t)) : (l \o m)[k] = IF k <= Len(s) THEN l[k] ELSE m[k - Len(s)]
        <3>1. /\ l \o m \in Seq(T) /\ Len(l \o m) = Len(l) + Len(m)
              /\ \A k \in 1..(Len(l) + Len(m)) : (l \o m)[k] = IF k <= Len(l) THEN l[k] ELSE m[k - Len(l)]
            BY <2>5, ConcatProperties
        <3> QED BY <2>5, <3>1
    <2> HIDE DEF x
    <2>7. ASSUME NEW k \in 1..(Len(s) + Len(t)) PROVE (l \o m)[k] = At(v, x[k])
        <3>1. CASE k <= Len(s)
            <4>1. k \in 1..Len(s)
                BY <2>1, <3>1
            <4>2. l[k] = At(v, s[k])
                BY <1>1, <4>1
            <4> QED BY <2>4, <2>6, <3>1, <4>2
        <3>2. CASE ~(k <= Len(s))
            <4> DEFINE j == k - Len(s)
            <4>1. j \in 1..Len(t)
                BY <2>1, <3>2
            <4>2. (l \o m)[k] = m[j] /\ x[k] = u[j]
                BY <2>4, <2>6, <3>2
            <4> HIDE DEF j
            <4>3. m[j] = At(c, t[j])
                BY <1>2, <4>1
            <4> QED BY <2>3, <4>1, <4>2, <4>3
        <3> QED BY <3>1, <3>2
    <2> DEFINE y == l \o m
    <2>8. y = [k \in 1..(Len(s) + Len(t)) |-> y[k]]
        <3> HIDE DEF y
        <3>1. DOMAIN y = 1..(Len(s) + Len(t)) /\ y \in Seq(T)
            BY <2>6, LenProperties DEF y
        <3> QED BY <3>1
    <2> HIDE DEF y
    <2>9. \A k \in 1..(Len(s) + Len(t)) : y[k] = At(v, x[k])
        BY <2>7 DEF y
    <2>10. y = [k \in 1..Len(x) |-> At(v, x[k])]
        BY <2>4, <2>8, <2>9
    <2> QED BY <2>10 DEF y
<1> HIDE DEF x, U
<1> QED BY <1>6, <1>7, <1>8 DEF Listed

-----------------------------------------------------------------------------
(* flatten_deep by recursion.                                              *)

(* What the children of v contribute, in order; what the loop over them    *)
(* pushes; and the whole of one call of flatten_deep, with F for the calls *)
(* it makes.                                                               *)
FlatsOf(F, v) == [i \in 1..Length(v) |-> F[Child(v, Elem(i - 1))]]
Pushed(F, v) == CHOOSE pushed :
    pushed = [i \in 0..Length(v) |-> IF i = 0 THEN <<>> ELSE pushed[i - 1] \o F[Child(v, Elem(i - 1))]]
FlatsBy(F, v) == IF Kind(v) # "arr" THEN <<v>> ELSE Pushed(F, v)[Length(v)]

LEMMA ElementTree ==
    ASSUME NEW v \in Trees, Kind(v) = "arr", NEW i \in 1..Length(v)
    PROVE  Elem(i - 1) \in Steps(v) /\ Child(v, Elem(i - 1)) \in Trees
<1>1. Length(v) \in Nat /\ v \in Value /\ Tree(v)
    BY LengthType DEF Trees
<1>2. i - 1 \in 0..(Length(v) - 1)
    BY <1>1
<1>3. Elem(i - 1) \in Steps(v)
    BY <1>2, ArraySteps
<1> QED BY <1>1, <1>3, ChildType, ChildTree DEF Trees

LEMMA PushedChains ==
    ASSUME NEW v \in Trees, Kind(v) = "arr", NEW F, \A e \in Steps(v) : F[Child(v, e)] \in Seq(Trees)
    PROVE  /\ Chains(Pushed(F, v), FlatsOf(F, v), Length(v))
           /\ \A i \in 1..Length(v) : FlatsOf(F, v)[i] \in Seq(Trees)
<1> DEFINE n == Length(v)
           g == FlatsOf(F, v)
           m == Pushed(F, v)
<1>1. n \in Nat
    BY LengthType DEF Trees
<1>2. \A i \in 1..n : g[i] = F[Child(v, Elem(i - 1))]
    BY DEF FlatsOf
<1>3. \A i \in 1..n : g[i] \in Seq(Trees)
    BY <1>2, ElementTree
<1> HIDE DEF g
<1>4. PICK f \in [0..n -> Seq(Trees)] : Chains(f, g, n)
    <2> HIDE DEF n
    <2> QED BY <1>1, <1>3, ChainExists
<1>5. f = [i \in 0..n |-> IF i = 0 THEN <<>> ELSE f[i - 1] \o F[Child(v, Elem(i - 1))]]
    <2>1. f = [i \in 0..n |-> f[i]] /\ f[0] = <<>> /\ \A i \in 1..n : f[i] = f[i - 1] \o g[i]
        BY <1>4 DEF Chains
    <2>2. ASSUME NEW i \in 0..n PROVE f[i] = IF i = 0 THEN <<>> ELSE f[i - 1] \o F[Child(v, Elem(i - 1))]
        <3>1. CASE i = 0
            BY <2>1, <3>1
        <3>2. CASE i # 0
            <4>1. i \in 1..n
                BY <1>1, <3>2
            <4>2. f[i] = f[i - 1] \o g[i] /\ g[i] = F[Child(v, Elem(i - 1))]
                BY <1>2, <2>1, <4>1
            <4> QED BY <3>2, <4>2
        <3> QED BY <3>1, <3>2
    <2> HIDE DEF n
    <2> QED BY <2>1, <2>2, Zenon
<1>6. m = [i \in 0..n |-> IF i = 0 THEN <<>> ELSE m[i - 1] \o F[Child(v, Elem(i - 1))]]
    BY <1>5 DEF Pushed
<1> HIDE DEF m
<1>7. Chains(m, g, n)
    <2>1. DOMAIN m = 0..n /\ m = [i \in 0..n |-> m[i]]
        BY <1>6
    <2>2. \A i \in 0..n : m[i] = IF i = 0 THEN <<>> ELSE m[i - 1] \o F[Child(v, Elem(i - 1))]
        BY <1>6
    <2>3. m[0] = <<>>
        BY <1>1, <2>2
    <2>4. ASSUME NEW i \in 1..n PROVE m[i] = m[i - 1] \o g[i]
        <3>1. i \in 0..n /\ i # 0
            BY <1>1
        <3>2. m[i] = m[i - 1] \o F[Child(v, Elem(i - 1))]
            BY <2>2, <3>1
        <3> QED BY <1>2, <3>2
    <2> QED BY <2>1, <2>3, <2>4 DEF Chains
<1> QED BY <1>3, <1>7 DEF m, g

LEMMA ListedNone ==
    ASSUME NEW v
    PROVE  Listed(v, FlatTo(v, 0), <<>>)
<1>1. FlatTo(v, 0) = {}
    <2>1. \A p : ~InElems(v, 0, p)
        BY DEF InElems
    <2> QED BY <2>1, FlatToIs
<1>2. <<>> = [i \in 1..Len(<<>>) |-> At(v, <<>>[i])]
    OBVIOUS
<1> QED BY <1>1, <1>2, OrderNone DEF Listed

LEMMA ListedLeaf ==
    ASSUME NEW v \in Trees, Kind(v) # "arr"
    PROVE  Listed(v, Flat(v), <<v>>)
<1> DEFINE s == << <<>> >>
<1>1. InOrder(s, Flat(v)) /\ Len(s) = 1 /\ s[1] = <<>>
    BY FlatLeaf, OrderOne
<1>2. At(v, <<>>) = v
    BY AtRoot DEF Trees
<1>3. <<v>> = [i \in 1..Len(s) |-> At(v, s[i])]
    <2>1. \A i \in 1..1 : At(v, s[i]) = v
        BY <1>1, <1>2
    <2>2. <<v>> = [i \in 1..1 |-> v]
        OBVIOUS
    <2> HIDE DEF s
    <2> QED BY <1>1, <2>1, <2>2
<1> QED BY <1>1, <1>3 DEF Listed

LEMMA FlatWhole ==
    ASSUME NEW v \in Trees, Kind(v) = "arr"
    PROVE  FlatTo(v, Length(v)) = Flat(v)
<1> SUFFICES ASSUME NEW p PROVE p \in FlatTo(v, Length(v)) <=> p \in Flat(v)
    OBVIOUS
<1>1. p \in Flat(v) <=> InElement(v, p)
    BY FlatArray
<1>2. Steps(v) = { Elem(i) : i \in 0..(Length(v) - 1) }
    BY ArraySteps
<1>3. InElems(v, Length(v), p) <=> \E e \in Steps(v) : \E q \in Flat(Child(v, e)) : p = <<e>> \o q
    BY <1>2 DEF InElems
<1> QED BY <1>1, <1>3, FlatToIs DEF InElement

LEMMA ListedChain ==
    ASSUME NEW v \in Trees, Kind(v) = "arr", NEW f, NEW g, Chains(f, g, Length(v)),
           \A i \in 1..Length(v) : Listed(Child(v, Elem(i - 1)), Flat(Child(v, Elem(i - 1))), g[i])
    PROVE  Listed(v, Flat(v), f[Length(v)])
<1> DEFINE n == Length(v)
           G == { i \in 0..n : Listed(v, FlatTo(v, i), f[i]) }
<1>0. f[0] = <<>> /\ \A i \in 1..n : f[i] = f[i - 1] \o g[i]
    BY DEF Chains
<1>1. n \in Nat
    BY LengthType DEF Trees
<1>2. 0 \in G
    <2>1. 0 \in 0..n
        BY <1>1
    <2> QED BY <1>0, <2>1, ListedNone
<1>3. ASSUME NEW i \in 0..n, i < n, i \in G PROVE i + 1 \in G
    <2>1. i \in Nat /\ i + 1 \in 1..n /\ (i + 1) - 1 = i /\ i + 1 \in 0..n /\ i < Length(v)
        BY <1>1, <1>3
    <2>2. f[i + 1] = f[i] \o g[i + 1]
        BY <1>0, <2>1
    <2>3. Listed(Child(v, Elem(i)), Flat(Child(v, Elem(i))), g[i + 1])
        BY <2>1
    <2>4. Listed(v, FlatTo(v, i), f[i])
        BY <1>3
    <2>5. Listed(v, FlatTo(v, i + 1), f[i] \o g[i + 1])
        BY <2>1, <2>3, <2>4, ListedMore
    <2>6. Listed(v, FlatTo(v, i + 1), f[i + 1])
        BY <2>2, <2>5
    <2> QED BY <2>1, <2>6
<1>4. \A i \in 0..n : i \in G
    <2> HIDE DEF G, n
    <2> QED BY <1>1, <1>2, <1>3, CountUp
<1>5. n \in 0..n
    BY <1>1
<1>6. Listed(v, FlatTo(v, n), f[n])
    BY <1>4, <1>5
<1> QED BY <1>6, FlatWhole

LEMMA ListedBy ==
    ASSUME NEW v \in Trees, NEW F, \A e \in Steps(v) : Listed(Child(v, e), Flat(Child(v, e)), F[Child(v, e)])
    PROVE  Listed(v, Flat(v), FlatsBy(F, v))
<1>1. CASE Kind(v) # "arr"
    BY <1>1, ListedLeaf DEF FlatsBy
<1>2. CASE Kind(v) = "arr"
    <2>1. ASSUME NEW e \in Steps(v) PROVE F[Child(v, e)] \in Seq(Trees)
        <3>1. Child(v, e) \in Trees
            BY ChildType, ChildTree DEF Trees
        <3> QED BY <3>1, ListedAll
    <2>2. Chains(Pushed(F, v), FlatsOf(F, v), Length(v))
        BY <1>2, <2>1, PushedChains
    <2>3. ASSUME NEW i \in 1..Length(v)
          PROVE  Listed(Child(v, Elem(i - 1)), Flat(Child(v, Elem(i - 1))), FlatsOf(F, v)[i])
        <3>1. Elem(i - 1) \in Steps(v)
            BY <1>2, ElementTree
        <3>2. FlatsOf(F, v)[i] = F[Child(v, Elem(i - 1))]
            BY DEF FlatsOf
        <3> QED BY <3>1, <3>2
    <2>4. Listed(v, Flat(v), Pushed(F, v)[Length(v)])
        BY <1>2, <2>2, <2>3, ListedChain
    <2> QED BY <1>2, <2>4 DEF FlatsBy
<1> QED BY <1>1, <1>2

(* The recursion has a solution, so FlatList is one.                       *)
LEMMA FlatListSolves ==
    FlatList = [v \in Trees |-> FlatsBy(FlatList, v)]
<1> DEFINE F == [v \in Trees |-> CHOOSE l : Listed(v, Flat(v), l)]
           G == { v \in Trees : Listed(v, Flat(v), F[v]) }
<1>1. ASSUME NEW v \in Trees, \A e \in Steps(v) : Child(v, e) \in G PROVE v \in G
    <2>1. \A e \in Steps(v) : Listed(Child(v, e), Flat(Child(v, e)), F[Child(v, e)])
        BY <1>1
    <2>2. \E l : Listed(v, Flat(v), l)
        <3> HIDE DEF F
        <3> QED BY <2>1, ListedBy
    <2>3. Listed(v, Flat(v), F[v])
        BY <2>2
    <2> QED BY <2>3
<1>2. Trees \subseteq G
    <2> HIDE DEF G
    <2> QED BY <1>1, TreeInduction
<1>3. ASSUME NEW v \in Trees PROVE F[v] = FlatsBy(F, v)
    <2>1. Listed(v, Flat(v), F[v]) /\ \A e \in Steps(v) : Child(v, e) \in Trees
        BY <1>2, ChildType, ChildTree DEF Trees
    <2>2. \A e \in Steps(v) : Listed(Child(v, e), Flat(Child(v, e)), F[Child(v, e)])
        BY <1>2, <2>1
    <2> HIDE DEF F
    <2>3. Listed(v, Flat(v), FlatsBy(F, v))
        BY <2>2, ListedBy
    <2>4. Items(FlattenDeep(v)) = F[v]
        BY <2>1, ListedAll
    <2>5. Items(FlattenDeep(v)) = FlatsBy(F, v)
        BY <2>3, ListedAll
    <2> QED BY <2>4, <2>5
<1>4. F = [v \in Trees |-> FlatsBy(F, v)]
    <2>1. F = [v \in Trees |-> F[v]]
        OBVIOUS
    <2> HIDE DEF F
    <2> QED BY <1>3, <2>1
<1> HIDE DEF F
<1>5. \E h : h = [v \in Trees |-> FlatsBy(h, v)]
    BY <1>4
<1> QED BY <1>5 DEF FlatList, FlatsBy, Pushed

LEMMA FlatListIs ==
    ASSUME NEW v \in Trees
    PROVE  FlatList[v] = FlatsBy(FlatList, v)
BY FlatListSolves

LEMMA FlatListListed ==
    ASSUME NEW v \in Trees
    PROVE  Listed(v, Flat(v), FlatList[v])
<1> DEFINE G == { u \in Trees : Listed(u, Flat(u), FlatList[u]) }
<1>1. ASSUME NEW u \in Trees, \A e \in Steps(u) : Child(u, e) \in G PROVE u \in G
    <2>1. \A e \in Steps(u) : Listed(Child(u, e), Flat(Child(u, e)), FlatList[Child(u, e)])
        BY <1>1
    <2>2. Listed(u, Flat(u), FlatsBy(FlatList, u))
        BY <2>1, ListedBy
    <2> QED BY <2>2, FlatListIs
<1>2. Trees \subseteq G
    <2> HIDE DEF G
    <2> QED BY <1>1, TreeInduction
<1> QED BY <1>2

(* flatten_deep: ranking the leaves of a value by their paths gives the    *)
(* array of what the recursion pushes, in that order.                      *)
THEOREM FlattenDeepIs ==
    ASSUME NEW v \in Trees
    PROVE  FlattenDeep(v) = ArrOf(FlatList[v])
BY FlatListListed, ListedAll

-----------------------------------------------------------------------------
(* $flatten and $flattenDeep, item by item.                                *)

(* What the items of s contribute, in order. *)
FlatSeq(s) == [i \in 1..Len(s) |-> FlatList[s[i]]]

LEMMA FlatListType ==
    ASSUME NEW v \in Trees
    PROVE  FlatList[v] \in Seq(Trees)
BY FlatListListed, ListedAll

LEMMA FlatSequence ==
    ASSUME NEW s \in Seq(Trees)
    PROVE  \E f : Chains(f, FlatSeq(s), Len(s)) /\ FlatList[ArrOf(s)] = f[Len(s)]
<1> DEFINE v == ArrOf(s)
           f == Pushed(FlatList, v)
<1>1. v \in Trees /\ Kind(v) = "arr" /\ Length(v) = Len(s) /\ Items(v) = s
    BY ElemsJoint, ItemsOf
<1>2. \A e \in Steps(v) : FlatList[Child(v, e)] \in Seq(Trees)
    BY <1>1, ChildType, ChildTree, FlatListType DEF Trees
<1> HIDE DEF v
<1>3. Chains(Pushed(FlatList, v), FlatsOf(FlatList, v), Length(v))
    BY <1>1, <1>2, PushedChains
<1>4. FlatsOf(FlatList, v) = FlatSeq(s)
    <2>1. \A i \in 1..Length(v) : Child(v, Elem(i - 1)) = s[i]
        BY <1>1 DEF Items
    <2> QED BY <1>1, <2>1 DEF FlatsOf, FlatSeq
<1>5. FlatList[v] = f[Length(v)]
    BY <1>1, FlatListIs DEF FlatsBy
<1> QED BY <1>1, <1>3, <1>4, <1>5 DEF v

(* Concatenation is associative. *)
Regroups(x, y, z) == (x \o y) \o z = x \o (y \o z)
LEMMA TreesConcat ==
    ASSUME NEW x \in Seq(Trees), NEW y \in Seq(Trees), NEW z \in Seq(Trees)
    PROVE  Regroups(x, y, z)
BY ConcatAssociative DEF Regroups

LEMMA FlatAppend ==
    ASSUME NEW s \in Seq(Trees), NEW w \in Trees
    PROVE  FlatList[ArrOf(Append(s, w))] = FlatList[ArrOf(s)] \o FlatList[w]
<1> DEFINE n == Len(s)
           r == Append(s, w)
<1>1. /\ n \in Nat /\ r \in Seq(Trees) /\ Len(r) = n + 1 /\ r[n + 1] = w /\ \A i \in 1..n : r[i] = s[i]
    BY LenProperties, AppendProperties
<1> HIDE DEF r
<1>2. PICK a : Chains(a, FlatSeq(s), n) /\ FlatList[ArrOf(s)] = a[n]
    BY FlatSequence
<1>3. PICK b : Chains(b, FlatSeq(r), n + 1) /\ FlatList[ArrOf(r)] = b[n + 1]
    BY <1>1, FlatSequence
<1>4. /\ \A i \in 1..n : FlatSeq(s)[i] = FlatSeq(r)[i]
      /\ FlatSeq(r)[n + 1] = FlatList[w]
    <2>1. \A i \in 1..n : i \in 1..(n + 1)
        BY <1>1
    <2>2. n + 1 \in 1..(n + 1)
        BY <1>1
    <2> QED BY <1>1, <2>1, <2>2 DEF FlatSeq
<1> HIDE DEF n
<1>5. \A i \in 0..n : a[i] = b[i]
    <2> DEFINE m == n + 1
               g == FlatSeq(s)
               h == FlatSeq(r)
    <2>1. /\ Chains(a, g, n) /\ Chains(b, h, m) /\ \A i \in 1..n : g[i] = h[i]
          /\ n \in Nat /\ m \in Nat /\ n <= m
        BY <1>1, <1>2, <1>3, <1>4
    <2> HIDE DEF m, g, h
    <2> QED BY <2>1, ChainsAgree
<1>6. a[n] = b[n]
    BY <1>1, <1>5
<1>7. b[n + 1] = b[n] \o FlatSeq(r)[n + 1]
    <2>1. n + 1 \in 1..(n + 1) /\ (n + 1) - 1 = n
        BY <1>1
    <2>2. b[n + 1] = b[(n + 1) - 1] \o FlatSeq(r)[n + 1]
        BY <1>3, <2>1 DEF Chains
    <2> QED BY <2>1, <2>2
<1> QED BY <1>2, <1>3, <1>4, <1>6, <1>7 DEF r

LEMMA FlatJoin ==
    ASSUME NEW s \in Seq(Trees), NEW t \in Seq(Trees)
    PROVE  FlatList[ArrOf(s \o t)] = FlatList[ArrOf(s)] \o FlatList[ArrOf(t)]
<1> DEFINE n == Len(s)
           m == Len(t)
           r == s \o t
<1>1. /\ n \in Nat /\ m \in Nat /\ r \in Seq(Trees) /\ Len(r) = n + m
      /\ \A i \in 1..n : r[i] = s[i]
      /\ \A i \in 1..m : r[i + n] = t[i]
    BY JoinedItems
<1> HIDE DEF r
<1>2. PICK a : Chains(a, FlatSeq(s), n) /\ FlatList[ArrOf(s)] = a[n]
    BY FlatSequence
<1>3. PICK b : Chains(b, FlatSeq(t), m) /\ FlatList[ArrOf(t)] = b[m]
    BY FlatSequence
<1>4. PICK c : Chains(c, FlatSeq(r), n + m) /\ FlatList[ArrOf(r)] = c[n + m]
    BY <1>1, FlatSequence
<1>5. /\ \A i \in 1..n : FlatSeq(s)[i] = FlatSeq(r)[i]
      /\ \A i \in 1..m : FlatSeq(r)[i + n] = FlatSeq(t)[i] /\ FlatSeq(t)[i] \in Seq(Trees)
    <2>1. \A i \in 1..n : i \in 1..(n + m)
        BY <1>1
    <2>2. \A i \in 1..m : i + n \in 1..(n + m)
        BY <1>1
    <2>3. \A i \in 1..m : t[i] \in Trees
        OBVIOUS
    <2> QED BY <1>1, <2>1, <2>2, <2>3, FlatListType DEF FlatSeq
<1>6. ASSUME NEW i \in 0..m PROVE b[i] \in Seq(Trees)
    <2>1. \A j \in 1..m : FlatSeq(t)[j] \in Seq(Trees)
        BY <1>5
    <2> HIDE DEF m
    <2> QED BY <1>1, <1>3, <2>1, ChainType
<1>7. a[n] \in Seq(Trees)
    <2>1. ArrOf(s) \in Trees
        BY ElemsJoint
    <2> QED BY <1>2, <2>1, FlatListType
<1> HIDE DEF n, m
<1>8. a[n] = c[n]
    <2>1. n + m \in Nat /\ n <= n + m /\ n \in 0..n
        BY <1>1
    <2> DEFINE k == n + m
               g == FlatSeq(s)
               h == FlatSeq(r)
    <2>2. /\ Chains(a, g, n) /\ Chains(c, h, k) /\ \A i \in 1..n : g[i] = h[i]
          /\ n \in Nat /\ k \in Nat /\ n <= k
        BY <1>1, <1>2, <1>4, <1>5, <2>1
    <2> HIDE DEF k, g, h
    <2>3. \A i \in 0..n : a[i] = c[i]
        BY <2>2, ChainsAgree
    <2> QED BY <2>1, <2>3
<1> DEFINE G == { i \in 0..m : c[n + i] = a[n] \o b[i] }
<1>9. 0 \in G
    <2>1. b[0] = <<>> /\ a[n] \o <<>> = a[n]
        BY <1>3, <1>7, ConcatEmptySeq DEF Chains
    <2>2. n + 0 = n /\ 0 \in 0..m
        BY <1>1
    <2> QED BY <1>8, <2>1, <2>2
<1>10. ASSUME NEW i \in 0..m, i < m, i \in G PROVE i + 1 \in G
    <2>1. /\ i + 1 \in 1..m /\ i + 1 \in 0..m /\ (i + 1) - 1 = i /\ (i + 1) + n = n + (i + 1)
          /\ n + (i + 1) \in 1..(n + m) /\ (n + (i + 1)) - 1 = n + i
        BY <1>1, <1>10
    <2>2. b[i + 1] = b[i] \o FlatSeq(t)[i + 1]
        BY <1>3, <2>1 DEF Chains
    <2>3. c[n + (i + 1)] = c[n + i] \o FlatSeq(r)[n + (i + 1)]
        <3>1. \A k \in 1..(n + m) : c[k] = c[k - 1] \o FlatSeq(r)[k]
            BY <1>4 DEF Chains
        <3> QED BY <2>1, <3>1
    <2>4. FlatSeq(r)[n + (i + 1)] = FlatSeq(t)[i + 1] /\ FlatSeq(t)[i + 1] \in Seq(Trees)
        BY <1>5, <2>1
    <2>5. c[n + (i + 1)] = (a[n] \o b[i]) \o FlatSeq(t)[i + 1]
        BY <1>10, <2>3, <2>4
    <2>6. (a[n] \o b[i]) \o FlatSeq(t)[i + 1] = a[n] \o (b[i] \o FlatSeq(t)[i + 1])
        <3>1. b[i] \in Seq(Trees)
            BY <1>6
        <3> DEFINE x == a[n]
                   y == b[i]
                   z == FlatSeq(t)[i + 1]
        <3>2. x \in Seq(Trees) /\ y \in Seq(Trees) /\ z \in Seq(Trees)
            BY <1>7, <2>4, <3>1
        <3> HIDE DEF x, y, z
        <3>3. Regroups(x, y, z)
            BY <3>2, TreesConcat
        <3> QED BY <3>3 DEF Regroups, x, y, z
    <2>7. c[n + (i + 1)] = a[n] \o b[i + 1]
        BY <2>2, <2>5, <2>6
    <2> QED BY <2>1, <2>7
<1>11. \A i \in 0..m : i \in G
    <2> HIDE DEF G
    <2> QED BY <1>1, <1>9, <1>10, CountUp
<1>12. c[n + m] = a[n] \o b[m]
    <2>1. m \in 0..m
        BY <1>1
    <2> QED BY <1>11, <2>1
<1> QED BY <1>2, <1>3, <1>4, <1>12 DEF r

LEMMA FlattenIntoTree ==
    ASSUME NEW v \in Trees, Kind(v) = "arr", NEW w \in Trees
    PROVE  /\ FlattenInto(v, w) \in Trees /\ Kind(FlattenInto(v, w)) = "arr"
           /\ FlatList[FlattenInto(v, w)] = FlatList[v] \o FlatList[w]
<1>1. Items(v) \in Seq(Trees) /\ v = ArrOf(Items(v))
    BY ArrayLists, ArrayIs
<1>2. CASE Kind(w) = "arr"
    <2>1. Items(w) \in Seq(Trees) /\ w = ArrOf(Items(w))
        BY <1>2, ArrayLists, ArrayIs
    <2>2. FlattenInto(v, w) = ArrOf(Items(v) \o Items(w))
        BY <1>2, ConcatTrees DEF FlattenInto
    <2>3. Items(v) \o Items(w) \in Seq(Trees)
        BY <1>1, <2>1, JoinedItems
    <2>4. FlatList[ArrOf(Items(v) \o Items(w))] = FlatList[ArrOf(Items(v))] \o FlatList[ArrOf(Items(w))]
        BY <1>1, <2>1, FlatJoin
    <2> QED BY <1>1, <2>1, <2>2, <2>3, <2>4, ElemsJoint, ItemsOf
<1>3. CASE Kind(w) # "arr"
    <2>1. FlattenInto(v, w) = ArrOf(Append(Items(v), w))
        BY <1>3, PushedTree DEF FlattenInto
    <2>2. Append(Items(v), w) \in Seq(Trees)
        BY <1>1
    <2>3. FlatList[ArrOf(Append(Items(v), w))] = FlatList[ArrOf(Items(v))] \o FlatList[w]
        BY <1>1, FlatAppend
    <2> QED BY <1>1, <2>1, <2>2, <2>3, ElemsJoint, ItemsOf
<1> QED BY <1>2, <1>3

(* What $flatten has spread so far flattens to what the items flatten to.  *)
Flattening ==
    /\ items \in Seq(Trees)
    /\ op = "flatten" => acc \in Trees /\ Kind(acc) = "arr" /\ FlatList[acc] = FlatList[ArrOf(items)]

LEMMA FlatteningInit == Init => Flattening
<1> SUFFICES ASSUME Init PROVE Flattening
    OBVIOUS
<1>1. items = <<>> /\ items \in Seq(Trees)
    BY DEF Init
<1>2. ASSUME op = "flatten" PROVE acc = ArrOf(items)
    <2>1. ArrOf(<<>>) = NoElems
        BY DEF ArrOf
    <2> QED BY <1>1, <1>2, <2>1 DEF Init
<1> QED BY <1>1, <1>2, ElemsJoint, ItemsOf DEF Flattening

LEMMA FlatteningStep ==
    ASSUME Flattening, NEW w \in ListPool, Consume("flatten", w, FlattenInto(acc, w))
    PROVE  Flattening'
<1>1. /\ op = "flatten" /\ op' = "flatten" /\ acc' = FlattenInto(acc, w) /\ items' = Append(items, w)
      /\ w \in Trees /\ items \in Seq(Trees)
    BY PoolTrees DEF Consume, Flattening
<1>2. acc \in Trees /\ Kind(acc) = "arr" /\ FlatList[acc] = FlatList[ArrOf(items)]
    BY <1>1 DEF Flattening
<1>3. /\ acc' \in Trees /\ Kind(acc') = "arr" /\ FlatList[acc'] = FlatList[acc] \o FlatList[w]
    BY <1>1, <1>2, FlattenIntoTree
<1>4. FlatList[ArrOf(items')] = FlatList[ArrOf(items)] \o FlatList[w]
    BY <1>1, FlatAppend
<1>5. items' \in Seq(Trees)
    BY <1>1
<1> QED BY <1>1, <1>2, <1>3, <1>4, <1>5 DEF Flattening

LEMMA FlatteningNext == Flattening /\ [Next]_vars => Flattening'
<1> SUFFICES ASSUME Flattening, [Next]_vars PROVE Flattening'
    OBVIOUS
<1>1. CASE FlattenNext
    BY <1>1, FlatteningStep DEF FlattenNext
<1>2. CASE MergeNext \/ MergeDeepNext \/ SortNext
    <2>1. PICK w \in Trees : op' = op /\ op # "flatten" /\ items' = Append(items, w)
        BY <1>2, PoolTrees DEF MergeNext, MergeDeepNext, SortNext, Consume
    <2>2. items' \in Seq(Trees)
        BY <2>1 DEF Flattening
    <2> QED BY <2>1, <2>2 DEF Flattening
<1>3. CASE UNCHANGED vars
    BY <1>3 DEF vars, Flattening
<1> QED BY <1>1, <1>2, <1>3 DEF Next

(* $flattenDeep: for every list, the flattened array is the one that       *)
(* flatten_deep pushes together, and it is the same whether $flatten has   *)
(* spread the items of the list before or not.                             *)
THEOREM FlattenDeepIsTheCode == Spec => []FlattenDeepFollowsCode
<1>1. ASSUME Flattening PROVE FlattenDeepFollowsCode
    <2> SUFFICES ASSUME op = "flatten"
                 PROVE  /\ FlattenDeep(acc) = ArrOf(FlatList[acc])
                        /\ FlattenDeep(acc) = FlattenDeep(ArrOf(items))
        BY DEF FlattenDeepFollowsCode
    <2>1. acc \in Trees /\ FlatList[acc] = FlatList[ArrOf(items)] /\ ArrOf(items) \in Trees
        BY <1>1, ElemsJoint DEF Flattening
    <2> QED BY <2>1, FlattenDeepIs
<1>2. Spec => []Flattening
    BY FlatteningInit, FlatteningNext, PTL DEF Spec
<1> QED BY <1>1, <1>2, PTL
=============================================================================
