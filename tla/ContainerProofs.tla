--------------------------- MODULE ContainerProofs ---------------------------
(***************************************************************************)
(* What the loops of $merge and $sort promise, for every list of items.    *)
(***************************************************************************)
EXTENDS Collecting, ValueProofs

(* Every node but the root hangs below a child of the root. *)
Attached(v) == \A n \in v : n[1] # <<>> => Head(n[1]) \in Steps(v)

(* v is an array of the values of s. *)
Lists(v, s) ==
    /\ v \in Value /\ Attached(v)
    /\ Steps(v) = { Elem(i - 1) : i \in DOMAIN s }
    /\ \A i \in DOMAIN s : Child(v, Elem(i - 1)) = s[i]

-----------------------------------------------------------------------------
(* Reading what was put. *)

LEMMA TreeAttached ==
    ASSUME NEW v \in Value, Tree(v)
    PROVE  Attached(v)
<1> SUFFICES ASSUME NEW n \in v, n[1] # <<>> PROVE Head(n[1]) \in Steps(v)
    BY DEF Attached
<1>1. n[1] \in Seq(Step) /\ Len(n[1]) \in Nat /\ Len(n[1]) > 0 /\ Head(n[1]) = n[1][1]
    BY NodeType, EmptySeq DEF Path
<1>2. CASE Len(n[1]) = 1
    BY <1>1, <1>2 DEF Steps
<1>3. CASE Len(n[1]) > 1
    <2>1. 2 \in 1..Len(n[1]) /\ 2 - 1 = 1
        BY <1>1, <1>3
    <2>2. PICK l : << SubSeq(n[1], 1, 2 - 1), l >> \in v
        BY <2>1 DEF Tree
    <2>3. Len(SubSeq(n[1], 1, 1)) = 1 /\ SubSeq(n[1], 1, 1)[1] = n[1][1]
        BY <1>1, <1>3, SubSeqProperties
    <2> QED BY <1>1, <2>1, <2>2, <2>3 DEF Steps
<1>4. Len(n[1]) = 1 \/ Len(n[1]) > 1
    <2> DEFINE l == Len(n[1])
    <2>1. l \in Nat /\ l > 0
        BY <1>1
    <2> HIDE DEF l
    <2>2. l = 1 \/ l > 1
        BY <2>1
    <2> QED BY <2>2 DEF l
<1> QED BY <1>2, <1>3, <1>4

LEMMA PutReads ==
    ASSUME NEW v \in Value, NEW e \in Step, NEW w \in Value, Attached(v)
    PROVE  /\ Attached(Put(v, e, w))
           /\ Steps(Put(v, e, w)) = Steps(v) \cup {e}
           /\ Child(Put(v, e, w), e) = w
           /\ \A d \in Step : d # e => Child(Put(v, e, w), d) = Child(v, d)
<1> DEFINE p == Put(v, e, w)
<1>0. \A n \in v : n[1] \in Seq(Step) /\ n[2] \in Label /\ n = << n[1], n[2] >>
    BY NodeType DEF Path
<1>1. \A n \in Graft(e, w) :
          n[1] \in Seq(Step) /\ n[1] # <<>> /\ Len(n[1]) > 0 /\ Head(n[1]) = e /\ n[1][1] = e /\ << Tail(n[1]), n[2] >> \in w
    BY GraftNodes
<1>2. PICK r \in w : r[1] = <<>>
    BY DEF Value
<1>3. << <<e>>, r[2] >> \in Graft(e, w)
    <2>1. <<e>> \o <<>> = <<e>>
        BY EmptySeq, ConcatProperties
    <2> QED BY <1>2, <2>1 DEF Graft
<1>4. e \in Steps(p)
    <2>1. << <<e>>, r[2] >> \in p
        BY <1>3 DEF Put
    <2>2. Len(<<e>>) = 1 /\ <<e>>[1] = e
        OBVIOUS
    <2> QED BY <2>1, <2>2 DEF Steps
<1>5. \A n \in p : (n \in v /\ n \notin Under(v, e)) \/ n \in Graft(e, w)
    BY DEF Put
<1>6. Steps(p) = Steps(v) \cup {e}
    <2>1. ASSUME NEW d \in Steps(p) PROVE d \in Steps(v) \cup {e}
        <3>1. PICK n \in p : Len(n[1]) = 1 /\ d = n[1][1]
            BY DEF Steps
        <3> QED BY <3>1, <1>1, <1>5 DEF Steps
    <2>2. ASSUME NEW d \in Steps(v), d # e PROVE d \in Steps(p)
        <3>1. PICK n \in v : Len(n[1]) = 1 /\ d = n[1][1]
            BY DEF Steps
        <3>2. n \notin Under(v, e)
            BY <3>1, <2>2, <1>0 DEF Under
        <3>3. n \in p
            BY <3>1, <3>2 DEF Put
        <3> QED BY <3>1, <3>3 DEF Steps
    <2> QED BY <2>1, <2>2, <1>4
<1>7. Attached(p)
    <2> SUFFICES ASSUME NEW n \in p, n[1] # <<>> PROVE Head(n[1]) \in Steps(p)
        BY DEF Attached
    <2> HIDE DEF p
    <2> QED BY <1>1, <1>5, <1>6 DEF Attached
<1>8. Child(p, e) = w
    <2>1. ASSUME NEW m \in Child(p, e) PROVE m \in w
        <3>1. PICK n \in p : n[1] # <<>> /\ Head(n[1]) = e /\ m = << Tail(n[1]), n[2] >>
            BY DEF Child, Under
        <3>2. n \in Graft(e, w)
            BY <3>1, <1>5 DEF Under
        <3> QED BY <3>1, <3>2, <1>1
    <2>2. ASSUME NEW m \in w PROVE m \in Child(p, e)
        <3>1. m[1] \in Seq(Step) /\ m = << m[1], m[2] >>
            BY NodeType DEF Path
        <3>2. << <<e>> \o m[1], m[2] >> \in p
            BY DEF Put, Graft
        <3>3. Head(<<e>> \o m[1]) = e /\ Tail(<<e>> \o m[1]) = m[1] /\ <<e>> \o m[1] # <<>>
            BY <3>1
        <3>4. << <<e>> \o m[1], m[2] >> \in Under(p, e)
            BY <3>2, <3>3 DEF Under
        <3>5. << Tail(<<e>> \o m[1]), m[2] >> \in Child(p, e)
            <4> DEFINE x == << <<e>> \o m[1], m[2] >>
            <4>1. x \in Under(p, e) /\ x[1] = <<e>> \o m[1] /\ x[2] = m[2]
                BY <3>4
            <4> HIDE DEF x, p
            <4> QED BY <4>1 DEF Child
        <3> QED BY <3>1, <3>3, <3>5
    <2> QED BY <2>1, <2>2
<1>9. ASSUME NEW d \in Step, d # e PROVE Child(p, d) = Child(v, d)
    <2>1. Under(p, d) = Under(v, d)
        <3>1. ASSUME NEW n \in Under(p, d) PROVE n \in Under(v, d)
            <4>1. n \in p /\ n[1] # <<>> /\ Head(n[1]) = d
                BY DEF Under
            <4> HIDE DEF p
            <4> QED BY <4>1, <1>1, <1>5, <1>9 DEF Under
        <3>2. ASSUME NEW n \in Under(v, d) PROVE n \in Under(p, d)
            BY <1>9 DEF Under, Put
        <3> QED BY <3>1, <3>2
    <2> QED BY <2>1 DEF Child
<1> QED BY <1>6, <1>7, <1>8, <1>9

LEMMA ListsLength ==
    ASSUME NEW v, NEW s \in Seq(Value), Lists(v, s)
    PROVE  Length(v) = Len(s)
<1> DEFINE f == [i \in 1..Len(s) |-> Elem(i - 1)]
<1>1. DOMAIN s = 1..Len(s) /\ Len(s) \in Nat
    OBVIOUS
<1>2. \A i, j \in 1..Len(s) : Elem(i - 1) = Elem(j - 1) => i = j
    BY DEF Elem
<1>3. f \in Bijection(1..Len(s), Steps(v))
    <2>1. Steps(v) = { Elem(i - 1) : i \in 1..Len(s) }
        BY <1>1 DEF Lists
    <2> QED BY <1>2, <2>1 DEF Bijection, Injection, Surjection, IsInjective
<1>4. IsFiniteSet(1..Len(s)) /\ Cardinality(1..Len(s)) = Len(s)
    BY <1>1, FS_Interval
<1>5. ExistsBijection(1..Len(s), Steps(v))
    BY <1>3 DEF ExistsBijection
<1> QED BY <1>4, <1>5, FS_Bijection DEF Length

LEMMA PushLists ==
    ASSUME NEW v, NEW s \in Seq(Value), NEW w \in Value, Lists(v, s)
    PROVE  Lists(Push(v, w), Append(s, w))
<1> DEFINE t == Append(s, w)
           p == Push(v, w)
<1>1. Len(s) \in Nat /\ DOMAIN s = 1..Len(s) /\ DOMAIN t = 1..(Len(s) + 1)
    OBVIOUS
<1>2. /\ \A i \in 1..Len(s) : t[i] = s[i] /\ Elem(i - 1) # Elem(Len(s)) /\ Elem(i - 1) \in Step
      /\ t[Len(s) + 1] = w /\ Elem(Len(s)) \in Step
    BY <1>1, StepTypes DEF Elem
<1>3. p = Put(v, Elem(Len(s)), w)
    BY ListsLength DEF Push
<1>4. v \in Value /\ Attached(v)
    BY DEF Lists
<1>5. p \in Value /\ Attached(p) /\ Steps(p) = Steps(v) \cup { Elem(Len(s)) } /\ Child(p, Elem(Len(s))) = w
    <2> HIDE DEF p
    <2> QED BY <1>2, <1>3, <1>4, PutReads, PutType
<1>6. \A i \in 1..Len(s) : Child(p, Elem(i - 1)) = s[i]
    BY <1>1, <1>2, <1>3, <1>4, PutReads DEF Lists
<1>7. Steps(p) = { Elem(i - 1) : i \in 1..(Len(s) + 1) }
    <2>1. Steps(v) = { Elem(i - 1) : i \in 1..Len(s) }
        BY <1>1 DEF Lists
    <2>2. Len(s) = (Len(s) + 1) - 1
        BY <1>1
    <2> HIDE DEF p
    <2> QED BY <1>1, <1>5, <2>1, <2>2
<1>8. \A i \in 1..(Len(s) + 1) : Child(p, Elem(i - 1)) = t[i]
    <2> SUFFICES ASSUME NEW i \in 1..(Len(s) + 1) PROVE Child(p, Elem(i - 1)) = t[i]
        OBVIOUS
    <2>1. CASE i = Len(s) + 1
        <3>1. i - 1 = Len(s)
            BY <1>1, <2>1
        <3> QED BY <1>2, <1>5, <2>1, <3>1
    <2>2. CASE i \in 1..Len(s)
        BY <1>2, <1>6, <2>2
    <2> QED BY <1>1, <2>1, <2>2
<1> QED BY <1>1, <1>5, <1>7, <1>8 DEF Lists
-----------------------------------------------------------------------------
(* Positions in a strict total order are ranks.                            *)

Orders(R, S) ==
    /\ \A d \in S : << d, d >> \notin R
    /\ \A d, e \in S : d # e => << d, e >> \in R \/ << e, d >> \in R
    /\ \A c, d, e \in S : << c, d >> \in R /\ << d, e >> \in R => << c, e >> \in R

LEMMA RankType ==
    ASSUME NEW S, IsFiniteSet(S), NEW R, Orders(R, S), NEW e \in S
    PROVE  Position(S, R, e) \in 0..(Cardinality(S) - 1)
<1> DEFINE P == { d \in S : << d, e >> \in R }
<1>1. P \subseteq S \ {e}
    BY DEF Orders
<1>2. IsFiniteSet(S \ {e}) /\ Cardinality(S \ {e}) = Cardinality(S) - 1
    BY FS_RemoveElement
<1>3. IsFiniteSet(P) /\ Cardinality(P) <= Cardinality(S) - 1
    <2> HIDE DEF P
    <2> QED BY <1>1, <1>2, FS_Subset
<1>4. Cardinality(P) \in Nat /\ Cardinality(S) \in Nat
    BY <1>3, FS_CardinalityType
<1>5. Position(S, R, e) = Cardinality(P)
    BY DEF Position
<1> HIDE DEF P
<1> QED BY <1>3, <1>4, <1>5

LEMMA RankAscends ==
    ASSUME NEW S, IsFiniteSet(S), NEW R, Orders(R, S), NEW d \in S, NEW e \in S, << d, e >> \in R
    PROVE  Position(S, R, d) < Position(S, R, e)
<1> DEFINE P == { c \in S : << c, d >> \in R }
           Q == { c \in S : << c, e >> \in R }
<1>1. P \subseteq Q /\ d \in Q /\ d \notin P
    BY DEF Orders
<1>2. IsFiniteSet(P) /\ IsFiniteSet(Q)
    BY FS_Subset
<1>3. Position(S, R, d) = Cardinality(P) /\ Position(S, R, e) = Cardinality(Q)
    BY DEF Position
<1> HIDE DEF P, Q
<1>4. Cardinality(P) <= Cardinality(Q) /\ Cardinality(P) # Cardinality(Q)
    BY <1>1, <1>2, FS_Subset
<1>5. Cardinality(P) \in Nat /\ Cardinality(Q) \in Nat
    BY <1>2, FS_CardinalityType
<1> QED BY <1>3, <1>4, <1>5

(* Each element has a position of its own, and each position an element.   *)
LEMMA Ranks ==
    ASSUME NEW S, IsFiniteSet(S), NEW R, Orders(R, S)
    PROVE  /\ \A d, e \in S : Position(S, R, d) = Position(S, R, e) => d = e
           /\ \A i \in 0..(Cardinality(S) - 1) : \E e \in S : Position(S, R, e) = i
<1> DEFINE n == Cardinality(S)
           f == [e \in S |-> Position(S, R, e)]
<1>1. ASSUME NEW d \in S, NEW e \in S, Position(S, R, d) = Position(S, R, e) PROVE d = e
    <2>1. Position(S, R, d) \in 0..(n - 1) /\ Position(S, R, e) \in 0..(n - 1)
        BY RankType
    <2>2. << d, e >> \notin R /\ << e, d >> \notin R
        BY <1>1, <2>1, RankAscends
    <2> QED BY <2>2 DEF Orders
<1>2. n \in Nat
    BY FS_CardinalityType
<1>3. IsFiniteSet(0..(n - 1)) /\ Cardinality(0..(n - 1)) = n
    BY <1>2, FS_Interval
<1>4. \A e \in S : Position(S, R, e) \in 0..(n - 1)
    BY RankType
<1>5. f \in Injection(S, 0..(n - 1))
    <2> HIDE DEF n
    <2> QED BY <1>1, <1>4 DEF Injection, IsInjective
<1>6. f \in Surjection(S, 0..(n - 1))
    <2> HIDE DEF f
    <2> QED BY <1>3, <1>5, FS_Injection
<1>7. \A i \in 0..(n - 1) : \E e \in S : f[e] = i
    <2> HIDE DEF f
    <2> QED BY <1>6 DEF Surjection
<1> QED BY <1>1, <1>7

(* The elements of a rearranged array, each at its rank. *)
LEMMA Arranged ==
    ASSUME NEW v \in Value, Attached(v), NEW R, Orders(R, Steps(v))
    PROVE  /\ Steps(Arrange(v, R)) = { Elem(i) : i \in 0..(Length(v) - 1) }
           /\ \A e \in Steps(v) : Child(Arrange(v, R), Elem(Position(Steps(v), R, e))) = Child(v, e)
<1> DEFINE S == Steps(v)
           rank(e) == Position(S, R, e)
           a == Arrange(v, R)
           moved(n) == << << Elem(rank(Head(n[1]))) >> \o Tail(n[1]), n[2] >>
<1>0. IsFiniteSet(S) /\ S \subseteq Step
    BY StepsType
<1>1. ASSUME NEW n \in v, n[1] # <<>>
      PROVE  /\ Head(n[1]) \in S /\ Head(n[1]) = n[1][1] /\ rank(Head(n[1])) \in 0..(Cardinality(S) - 1)
             /\ moved(n) \in a
             /\ moved(n)[1] # <<>> /\ Head(moved(n)[1]) = Elem(rank(Head(n[1])))
             /\ moved(n)[1][1] = Elem(rank(Head(n[1])))
             /\ Tail(moved(n)[1]) = Tail(n[1]) /\ moved(n)[2] = n[2]
             /\ Len(moved(n)[1]) = Len(n[1])
    <2>1. n[1] \in Seq(Step) /\ n = << n[1], n[2] >> /\ Tail(n[1]) \in Seq(Step) /\ Len(n[1]) = Len(Tail(n[1])) + 1
        BY <1>1, NodeType, HeadTailProperties DEF Path
    <2>2. Head(n[1]) \in S /\ Head(n[1]) = n[1][1]
        BY <1>1, <2>1 DEF Attached
    <2>3. rank(Head(n[1])) \in 0..(Cardinality(S) - 1)
        BY <1>0, <2>2, RankType
    <2>4. moved(n) \in a
        BY <1>1 DEF Arrange
    <2>5. moved(n)[1] = << Elem(rank(Head(n[1]))) >> \o Tail(n[1]) /\ moved(n)[2] = n[2]
        OBVIOUS
    <2> HIDE DEF moved, a, rank, S
    <2> QED BY <2>1, <2>2, <2>3, <2>4, <2>5
<1>2. \A m \in a : m[1] # <<>> => \E n \in v : n[1] # <<>> /\ m = moved(n)
    BY DEF Arrange
<1>3. Cardinality(S) = Length(v) /\ Length(v) \in Nat
    BY LengthType DEF Length
<1>4. ASSUME NEW d \in Steps(a) PROVE d \in { Elem(i) : i \in 0..(Length(v) - 1) }
    <2>1. PICK m \in a : Len(m[1]) = 1 /\ d = m[1][1]
        BY DEF Steps
    <2>2. m[1] # <<>>
        BY <2>1
    <2>3. PICK n \in v : n[1] # <<>> /\ m = moved(n)
        BY <1>2, <2>2
    <2> HIDE DEF moved, a, rank, S
    <2> QED BY <1>1, <1>3, <2>1, <2>3
<1>5. ASSUME NEW i \in 0..(Length(v) - 1) PROVE Elem(i) \in Steps(a)
    <2>1. PICK e \in S : rank(e) = i
        BY <1>0, <1>3, <1>5, Ranks
    <2>2. PICK n \in v : Len(n[1]) = 1 /\ e = n[1][1]
        BY <2>1 DEF Steps
    <2>3. n[1] # <<>>
        BY <2>2
    <2> HIDE DEF moved, a, rank, S
    <2> QED BY <1>1, <2>1, <2>2, <2>3 DEF Steps
<1>6. ASSUME NEW e \in S PROVE Child(a, Elem(rank(e))) = Child(v, e)
    <2>1. ASSUME NEW c \in Child(a, Elem(rank(e))) PROVE c \in Child(v, e)
        <3>1. PICK m \in a : m[1] # <<>> /\ Head(m[1]) = Elem(rank(e)) /\ c = << Tail(m[1]), m[2] >>
            BY DEF Child, Under
        <3>2. PICK n \in v : n[1] # <<>> /\ m = moved(n)
            BY <1>2, <3>1
        <3>3. Elem(rank(Head(n[1]))) = Elem(rank(e)) /\ c = << Tail(n[1]), n[2] >>
            <4> HIDE DEF moved, a, rank, S
            <4> QED BY <1>1, <3>1, <3>2
        <3>4. Head(n[1]) = e
            BY <1>0, <1>1, <3>2, <3>3, Ranks DEF Elem
        <3> QED BY <3>2, <3>3, <3>4 DEF Child, Under
    <2>2. ASSUME NEW c \in Child(v, e) PROVE c \in Child(a, Elem(rank(e)))
        <3>1. PICK n \in v : n[1] # <<>> /\ Head(n[1]) = e /\ c = << Tail(n[1]), n[2] >>
            BY DEF Child, Under
        <3>2. moved(n) \in Under(a, Elem(rank(e)))
            <4> HIDE DEF moved, a, rank, S
            <4> QED BY <1>1, <3>1 DEF Under
        <3>3. Tail(moved(n)[1]) = Tail(n[1]) /\ moved(n)[2] = n[2]
            BY <1>1, <3>1
        <3> HIDE DEF moved, a, rank, S
        <3> QED BY <3>1, <3>2, <3>3 DEF Child
    <2> QED BY <2>1, <2>2
<1> QED BY <1>4, <1>5, <1>6

-----------------------------------------------------------------------------
(* $sort. *)

(* The array that holds a value at each of n places, and only there.       *)
LEMMA LengthOfSteps ==
    ASSUME NEW v, NEW n \in Nat, Steps(v) = { Elem(i) : i \in 0..(n - 1) }
    PROVE  Length(v) = n
<1> DEFINE f == [i \in 0..(n - 1) |-> Elem(i)]
<1>1. f \in Bijection(0..(n - 1), Steps(v))
    BY DEF Elem, Bijection, Injection, Surjection, IsInjective
<1>2. IsFiniteSet(0..(n - 1)) /\ Cardinality(0..(n - 1)) = n
    BY FS_Interval
<1>3. ExistsBijection(0..(n - 1), Steps(v))
    BY <1>1 DEF ExistsBijection
<1> QED BY <1>2, <1>3, FS_Bijection DEF Length

(* Less orders strings, and numbers other than NaN. *)
LEMMA LessOrders ==
    ASSUME NEW T, T \subseteq {"str"} \X Str \/ T \subseteq {"num"} \X Int
    PROVE  /\ \A a \in T : ~Less(a, a)
           /\ \A a, b \in T : a # b => Less(a, b) \/ Less(b, a)
           /\ \A a, b \in T : Less(a, b) => ~Less(b, a)
           /\ \A a, b, c \in T : Less(a, b) /\ Less(b, c) => Less(a, c)
<1>1. CASE T \subseteq {"str"} \X Str
    <2>1. \A a \in T : a[1] = "str" /\ KeyRank[a[2]] \in Nat
        BY <1>1, StringAssumption
    <2>2. \A a, b \in T : KeyRank[a[2]] = KeyRank[b[2]] => a = b
        BY <1>1, StringAssumption
    <2> QED BY <2>1, <2>2 DEF Less
<1>2. CASE T \subseteq {"num"} \X Int
    <2>1. \A a \in T : a[1] # "str" /\ a[2] \in Int
        BY <1>2
    <2>2. \A a, b \in T : a[2] = b[2] => a = b
        BY <1>2
    <2> QED BY <2>1, <2>2 DEF Less
<1> QED BY <1>1, <1>2

(* Keys that can be compared are that, unless there is only one of them.   *)
LEMMA KeysCompare ==
    ASSUME NEW k \in Value, NEW s \in Seq(Value), Lists(k, s),
           Sortable(k), ~SortPanics(k), Len(s) > 1
    PROVE  LET T == { KeyAt(k, e) : e \in Steps(k) }
           IN  T \subseteq {"str"} \X Str \/ T \subseteq {"num"} \X Int
<1>1. ASSUME NEW e \in Steps(k)
      PROVE  KeyAt(k, e) \in Label /\ KeyAt(k, e) # <<"nan">>
    <2>1. PICK i \in DOMAIN s : e = Elem(i - 1) /\ Child(k, e) = s[i]
        BY DEF Lists
    <2>2. Child(k, e) \in Value
        BY <2>1
    <2>3. KeyAt(k, e) # <<"nan">>
        BY ListsLength DEF SortPanics
    <2> QED BY <2>2, <2>3, RootType DEF KeyAt
<1>2. CASE AllOf(k, {"str"})
    BY <1>1, <1>2 DEF AllOf, Label
<1>3. CASE AllOf(k, {"num", "nan"})
    BY <1>1, <1>3 DEF AllOf, Label
<1> QED BY <1>2, <1>3 DEF Sortable

(* What Sort arranges by: keys, and where they are equal the old order.    *)
SortBefore(v, k) ==
    { p \in Steps(v) \X Steps(v) :
          \/ Less(KeyAt(k, p[1]), KeyAt(k, p[2]))
          \/ KeyAt(k, p[1]) = KeyAt(k, p[2]) /\ Before(p[1], p[2]) }

LEMMA SortOrders ==
    ASSUME NEW v, NEW k, NEW s \in Seq(Value), NEW t \in Seq(Value), Len(s) = Len(t),
           Lists(v, s), Lists(k, t), Sortable(k), ~SortPanics(k)
    PROVE  Orders(SortBefore(v, k), Steps(v))
<1> DEFINE S == Steps(v)
<1>1. DOMAIN s = 1..Len(s) /\ DOMAIN t = 1..Len(s) /\ Len(s) \in Nat
    OBVIOUS
<1>2. S = { Elem(i - 1) : i \in 1..Len(s) } /\ Steps(k) = S
    BY <1>1 DEF Lists
<1>3. \A d, e \in S : /\ d[2] \in Int /\ e[2] \in Int /\ (Before(d, e) <=> d[2] < e[2])
                        /\ (d[2] = e[2] => d = e)
    BY <1>1, <1>2 DEF Elem, Before
<1>4. \A d, e \in S : << d, e >> \in SortBefore(v, k) <=>
          \/ Less(KeyAt(k, d), KeyAt(k, e))
          \/ KeyAt(k, d) = KeyAt(k, e) /\ d[2] < e[2]
    BY <1>3 DEF SortBefore
<1>5. CASE Len(s) > 1
    <2> DEFINE T == { KeyAt(k, e) : e \in Steps(k) }
    <2>1. T \subseteq {"str"} \X Str \/ T \subseteq {"num"} \X Int
        BY <1>5, KeysCompare DEF Lists
    <2>2. \A e \in S : KeyAt(k, e) \in T
        BY <1>2
    <2>3. /\ \A a \in T : ~Less(a, a)
          /\ \A a, b \in T : a # b => Less(a, b) \/ Less(b, a)
          /\ \A a, b \in T : Less(a, b) => ~Less(b, a)
          /\ \A a, b, c \in T : Less(a, b) /\ Less(b, c) => Less(a, c)
        <3> HIDE DEF T
        <3> QED BY <2>1, LessOrders
    <2> HIDE DEF T, S
    <2>4. \A d \in S : << d, d >> \notin SortBefore(v, k)
        BY <1>3, <1>4, <2>2, <2>3
    <2>5. ASSUME NEW d \in S, NEW e \in S, d # e
          PROVE  << d, e >> \in SortBefore(v, k) \/ << e, d >> \in SortBefore(v, k)
        <3>1. KeyAt(k, d) \in T /\ KeyAt(k, e) \in T
            BY <2>2
        <3>2. d[2] < e[2] \/ e[2] < d[2]
            BY <1>3, <2>5
        <3> QED BY <1>4, <2>3, <3>1, <3>2
    <2>6. ASSUME NEW c \in S, NEW d \in S, NEW e \in S,
                 << c, d >> \in SortBefore(v, k), << d, e >> \in SortBefore(v, k)
          PROVE  << c, e >> \in SortBefore(v, k)
        <3>1. KeyAt(k, c) \in T /\ KeyAt(k, d) \in T /\ KeyAt(k, e) \in T
            BY <2>2
        <3>2. c[2] < d[2] /\ d[2] < e[2] => c[2] < e[2]
            BY <1>3
        <3> QED BY <1>4, <2>3, <2>6, <3>1, <3>2
    <2> QED BY <2>4, <2>5, <2>6 DEF Orders, S
<1>6. CASE ~(Len(s) > 1)
    <2>1. \A d, e \in S : d = e
        BY <1>1, <1>2, <1>6
    <2>2. \A d \in S : << d, d >> \notin SortBefore(v, k)
        BY <1>3, <1>4 DEF Less
    <2> HIDE DEF S
    <2> QED BY <2>1, <2>2 DEF Orders, S
<1> QED BY <1>5, <1>6

(* SortIsStable, of an array v of the values s with keys k. *)
Stable(v, k, s) ==
    \E order \in [DOMAIN s -> DOMAIN s] :
        /\ \A i, j \in DOMAIN s :
               i < j => \/ Less(KeyAt(k, Elem(order[i] - 1)), KeyAt(k, Elem(order[j] - 1)))
                        \/ KeyAt(k, Elem(order[i] - 1)) = KeyAt(k, Elem(order[j] - 1)) /\ order[i] < order[j]
        /\ Items(Sort(v, k)) = [i \in DOMAIN s |-> s[order[i]]]

LEMMA Sorted ==
    ASSUME NEW v, NEW k, NEW s \in Seq(Value), NEW t \in Seq(Value), Len(s) = Len(t),
           Lists(v, s), Lists(k, t), Sortable(k), ~SortPanics(k)
    PROVE  Stable(v, k, s)
<1> DEFINE S == Steps(v)
           R == SortBefore(v, k)
           n == Len(s)
           rank(e) == Position(S, R, e)
           order == [i \in 1..n |-> CHOOSE j \in 1..n : rank(Elem(j - 1)) = i - 1]
<1>1. DOMAIN s = 1..n /\ n \in Nat /\ Length(v) = n /\ Cardinality(S) = n /\ IsFiniteSet(S)
    <2>1. Length(v) = n
        BY ListsLength
    <2>2. IsFiniteSet(S)
        BY StepsType DEF Lists
    <2> QED BY <2>1, <2>2 DEF Length
<1>2. S = { Elem(i - 1) : i \in 1..n } /\ v \in Value /\ Attached(v)
    BY <1>1 DEF Lists
<1>3. Orders(R, S)
    BY SortOrders
<1>4. Sort(v, k) = Arrange(v, R)
    BY DEF Sort, SortBefore
<1>5. \A i \in 1..n : order[i] \in 1..n /\ rank(Elem(order[i] - 1)) = i - 1
    <2> TAKE i \in 1..n
    <2>1. i - 1 \in 0..(Cardinality(S) - 1)
        BY <1>1
    <2>2. PICK e \in S : rank(e) = i - 1
        BY <1>1, <1>3, <2>1, Ranks
    <2>3. PICK j \in 1..n : e = Elem(j - 1)
        BY <1>2
    <2>4. order[i] = CHOOSE m \in 1..n : rank(Elem(m - 1)) = i - 1
        OBVIOUS
    <2> HIDE DEF order, rank, S, R
    <2> QED BY <2>2, <2>3, <2>4
<1>6. order \in [DOMAIN s -> DOMAIN s]
    <2> HIDE DEF rank
    <2> QED BY <1>1, <1>5
<1>7. ASSUME NEW i \in 1..n, NEW j \in 1..n, i < j
      PROVE  \/ Less(KeyAt(k, Elem(order[i] - 1)), KeyAt(k, Elem(order[j] - 1)))
             \/ /\ KeyAt(k, Elem(order[i] - 1)) = KeyAt(k, Elem(order[j] - 1))
                /\ order[i] < order[j]
    <2> DEFINE d == Elem(order[i] - 1)
               e == Elem(order[j] - 1)
    <2>1. order[i] \in 1..n /\ order[j] \in 1..n /\ rank(d) = i - 1 /\ rank(e) = j - 1
        BY <1>5
    <2>2. d \in S /\ e \in S
        BY <1>2, <2>1
    <2>3. d # e /\ ~(rank(e) < rank(d))
        <3> HIDE DEF rank, order
        <3> QED BY <1>1, <1>7, <2>1
    <2>4. << e, d >> \notin R
        <3> HIDE DEF R, S, d, e
        <3> QED BY <1>1, <1>3, <2>2, <2>3, RankAscends
    <2>5. << d, e >> \in R
        BY <1>3, <2>2, <2>3, <2>4 DEF Orders
    <2>6. Less(KeyAt(k, d), KeyAt(k, e)) \/ (KeyAt(k, d) = KeyAt(k, e) /\ Before(d, e))
        BY <2>5 DEF SortBefore
    <2>7. Before(d, e) => order[i] < order[j]
        <3> HIDE DEF order
        <3> QED BY <1>1, <2>1 DEF Before, Elem
    <2> QED BY <2>6, <2>7
<1>8. Items(Sort(v, k)) = [i \in DOMAIN s |-> s[order[i]]]
    <2>1. Length(Arrange(v, R)) = n
        BY <1>1, <1>2, <1>3, Arranged, LengthOfSteps
    <2>2. ASSUME NEW i \in 1..n PROVE Child(Arrange(v, R), Elem(i - 1)) = s[order[i]]
        <3>1. order[i] \in 1..n /\ rank(Elem(order[i] - 1)) = i - 1
            BY <1>5
        <3>2. Elem(order[i] - 1) \in S
            BY <1>2, <3>1
        <3>3. Child(Arrange(v, R), Elem(rank(Elem(order[i] - 1)))) = Child(v, Elem(order[i] - 1))
            BY <1>2, <1>3, <3>2, Arranged
        <3>4. Child(v, Elem(order[i] - 1)) = s[order[i]]
            BY <1>1, <3>1 DEF Lists
        <3> HIDE DEF rank, order, R, S
        <3> QED BY <3>1, <3>3, <3>4
    <2> HIDE DEF rank, order, R, S
    <2> QED BY <1>1, <1>4, <2>1, <2>2 DEF Items
<1> HIDE DEF order
<1> QED BY <1>1, <1>6, <1>7, <1>8 DEF Stable

-----------------------------------------------------------------------------
(* $merge. *)

LEMMA MergeReads ==
    ASSUME NEW v \in Value, NEW w \in Value, Attached(v), Attached(w)
    PROVE  /\ Attached(Merge(v, w))
           /\ Steps(Merge(v, w)) = Steps(v) \cup Steps(w)
           /\ \A e \in Steps(w) : Child(Merge(v, w), e) = Child(w, e)
           /\ \A e : e \notin Steps(w) => Child(Merge(v, w), e) = Child(v, e)
<1> DEFINE m == Merge(v, w)
<1>0. \A n \in v \cup w : n[1] \in Seq(Step)
    BY NodeType DEF Path
<1>1. \A n \in v : Len(n[1]) = 1 => n[1] # <<>> /\ Head(n[1]) = n[1][1]
    BY <1>0
<1>2. \A n \in w : Len(n[1]) = 1 => n[1] # <<>> /\ Head(n[1]) = n[1][1]
    BY <1>0
<1>3. \A n : n \in m <=> \/ n \in v /\ (n[1] = <<>> \/ Head(n[1]) \notin Steps(w))
                         \/ n \in w /\ n[1] # <<>>
    <2> DEFINE S == { n \in v : n[1] = <<>> \/ Head(n[1]) \notin Steps(w) }
               T == { n \in w : n[1] # <<>> }
    <2>1. m = S \cup T
        BY DEF Merge
    <2>2. \A n : n \in S <=> n \in v /\ (n[1] = <<>> \/ Head(n[1]) \notin Steps(w))
        OBVIOUS
    <2>3. \A n : n \in T <=> n \in w /\ n[1] # <<>>
        OBVIOUS
    <2> HIDE DEF m, S, T
    <2>4. \A n : n \in m <=> n \in S \/ n \in T
        BY <2>1
    <2> QED BY <2>2, <2>3, <2>4
<1> HIDE DEF m
<1>4. Steps(m) = Steps(v) \cup Steps(w)
    <2>1. ASSUME NEW e \in Steps(v), e \notin Steps(w) PROVE e \in Steps(m)
        <3>1. PICK n \in v : Len(n[1]) = 1 /\ e = n[1][1]
            BY DEF Steps
        <3> QED BY <1>1, <1>3, <2>1, <3>1 DEF Steps
    <2>2. ASSUME NEW e \in Steps(w) PROVE e \in Steps(m)
        <3>1. PICK n \in w : Len(n[1]) = 1 /\ e = n[1][1]
            BY DEF Steps
        <3> QED BY <1>2, <1>3, <3>1 DEF Steps
    <2>3. ASSUME NEW e \in Steps(m) PROVE e \in Steps(v) \cup Steps(w)
        <3>1. PICK n \in m : Len(n[1]) = 1 /\ e = n[1][1]
            BY DEF Steps
        <3> QED BY <1>3, <3>1 DEF Steps
    <2> QED BY <2>1, <2>2, <2>3
<1>5. Attached(m)
    BY <1>3, <1>4 DEF Attached
<1>6. ASSUME NEW e \in Steps(w) PROVE Under(m, e) = Under(w, e)
    BY <1>3 DEF Under
<1>7. ASSUME NEW e, e \notin Steps(w) PROVE Under(m, e) = Under(v, e)
    <2>1. \A n \in w : n[1] # <<>> => Head(n[1]) # e
        BY <1>7 DEF Attached
    <2> QED BY <1>3, <1>7, <2>1 DEF Under
<1> QED BY <1>4, <1>5, <1>6, <1>7 DEF Child, m

LEMMA HasKey ==
    ASSUME NEW v \in Value, NEW k
    PROVE  k \in Keys(v) <=> Has(v, k)
<1>1. Has(v, k) => k \in Keys(v)
    BY DEF Has, Keys, Key
<1> QED BY <1>1, KeyStep DEF Has

LEMMA MergeKeys ==
    ASSUME NEW v \in Value, NEW w \in Value, Attached(v), Attached(w)
    PROVE  Keys(Merge(v, w)) = Keys(v) \cup Keys(w)
<1>1. Steps(Merge(v, w)) = Steps(v) \cup Steps(w)
    BY MergeReads
<1> QED BY <1>1 DEF Keys

(* Field by field: one more item replaces what it has and keeps the rest.  *)
LEMMA MergeFields ==
    ASSUME NEW v \in Value, NEW w \in Value, Attached(v), Attached(w), NEW k
    PROVE  /\ Has(w, k) => Field(Merge(v, w), k) = Field(w, k)
           /\ ~Has(w, k) => Field(Merge(v, w), k) = Field(v, k)
BY MergeReads DEF Has, Field

-----------------------------------------------------------------------------
(* The inductive invariant: what has been accumulated holds the items.     *)
Collected ==
    /\ op \in {"merge", "mergeDeep", "flatten", "sort"}
    /\ items \in Seq(Value)
    /\ op = "sort" => /\ Lists(acc, items)
                      /\ \E t \in Seq(Value) : Len(t) = Len(items) /\ Lists(keys, t)
    /\ op = "merge" => /\ acc \in Value /\ Attached(acc)
                       /\ \A i \in DOMAIN items : Attached(items[i])
    /\ LaterItemsWin

LEMMA EmptyLists == Lists(NoElems, <<>>)
<1>1. NoElems \in Value
    BY ConstantsType
<1>2. \A n \in NoElems : n[1] = <<>>
    BY DEF NoElems, Leaf
<1>3. Attached(NoElems) /\ Steps(NoElems) = {}
    BY <1>2, EmptySeq DEF Attached, Steps
<1> QED BY <1>1, <1>3 DEF Lists

LEMMA CollectedInit == Init => Collected
<1> SUFFICES ASSUME Init PROVE Collected
    OBVIOUS
<1>1. \A n \in NoKeys : n[1] = <<>>
    BY DEF NoKeys, Leaf
<1>2. NoKeys \in Value /\ Attached(NoKeys) /\ Steps(NoKeys) = {}
    BY <1>1, ConstantsType, EmptySeq DEF Attached, Steps
<1>3. <<>> \in Seq(Value) /\ Len(<<>>) = 0 /\ DOMAIN <<>> = {}
    BY EmptySeq
<1>4. Keys(NoKeys) = {}
    BY <1>2 DEF Keys
<1>5. LaterItemsWin
    BY <1>3, <1>4 DEF LaterItemsWin, Init
<1> QED BY <1>2, <1>3, <1>5, EmptyLists DEF Collected, Init

LEMMA MergeCollected ==
    ASSUME Collected, MergeNext
    PROVE  Collected'
<1>1. PICK w \in ObjectPool :
          /\ op = "merge" /\ op' = "merge" /\ acc' = Merge(acc, w) /\ items' = Append(items, w)
    BY DEF MergeNext, Consume
<1>2. w \in Value /\ Attached(w) /\ acc \in Value /\ Attached(acc) /\ items \in Seq(Value)
    BY <1>1, PoolAssumption, TreeAttached DEF Collected
<1>3. items' \in Seq(Value) /\ acc' \in Value /\ Attached(acc')
    BY <1>1, <1>2, MergeType, MergeReads
<1>4. /\ Len(items) \in Nat /\ DOMAIN items = 1..Len(items) /\ DOMAIN items' = 1..(Len(items) + 1)
      /\ items'[Len(items) + 1] = w /\ \A i \in 1..Len(items) : items'[i] = items[i]
    BY <1>1, <1>2
<1>5. \A i \in DOMAIN items' : Attached(items'[i])
    <2> SUFFICES ASSUME NEW i \in 1..(Len(items) + 1) PROVE Attached(items'[i])
        BY <1>4
    <2>1. i = Len(items) + 1 \/ i \in 1..Len(items)
        BY <1>4
    <2> QED BY <1>1, <1>2, <1>4, <2>1 DEF Collected
<1>6. Keys(acc') = UNION { Keys(items'[i]) : i \in DOMAIN items' }
    <2>1. Keys(acc') = Keys(acc) \cup Keys(w)
        BY <1>1, <1>2, MergeKeys
    <2>2. Keys(acc) = UNION { Keys(items[i]) : i \in 1..Len(items) }
        BY <1>1, <1>4 DEF Collected, LaterItemsWin
    <2>3. 1..(Len(items) + 1) = 1..Len(items) \cup { Len(items) + 1 }
        BY <1>4
    <2> QED BY <1>4, <2>1, <2>2, <2>3
<1>7. ASSUME NEW i \in DOMAIN items', NEW k \in Keys(items'[i]),
             \A j \in DOMAIN items' : Has(items'[j], k) => j <= i
      PROVE  Field(acc', k) = Field(items'[i], k)
    <2>1. CASE i = Len(items) + 1
        <3>1. Has(w, k)
            BY <1>2, <1>4, <2>1, HasKey
        <3> QED BY <1>1, <1>2, <1>4, <2>1, <3>1, MergeFields
    <2>2. CASE i \in 1..Len(items)
        <3>1. ~Has(w, k)
            <4>1. Len(items) + 1 \in DOMAIN items' /\ ~(Len(items) + 1 <= i)
                BY <1>4, <2>2
            <4> QED BY <1>4, <1>7, <4>1
        <3>2. \A j \in DOMAIN items : Has(items[j], k) => j <= i
            <4> TAKE j \in DOMAIN items
            <4>1. j \in DOMAIN items' /\ items'[j] = items[j]
                BY <1>4
            <4> QED BY <1>7, <4>1
        <3>3. i \in DOMAIN items /\ k \in Keys(items[i]) /\ items'[i] = items[i]
            BY <1>4, <1>7, <2>2
        <3>4. Field(acc, k) = Field(items[i], k)
            BY <1>1, <3>2, <3>3 DEF Collected, LaterItemsWin
        <3> QED BY <1>1, <1>2, <3>1, <3>3, <3>4, MergeFields
    <2> QED BY <1>4, <2>1, <2>2
<1>8. LaterItemsWin'
    BY <1>6, <1>7 DEF LaterItemsWin
<1> QED BY <1>1, <1>3, <1>5, <1>8 DEF Collected

LEMMA SortCollected ==
    ASSUME Collected, SortNext
    PROVE  Collected'
<1>1. PICK w \in ItemPool, k \in KeyPool :
          /\ op = "sort" /\ op' = "sort" /\ acc' = Push(acc, w) /\ items' = Append(items, w)
          /\ keys' = Push(keys, k)
    BY DEF SortNext, Consume
<1>2. w \in Value /\ k \in Value
    BY PoolAssumption
<1>3. items \in Seq(Value) /\ items' \in Seq(Value) /\ Len(items') = Len(items) + 1
    BY <1>1, <1>2 DEF Collected
<1>4. Lists(acc', items')
    BY <1>1, <1>2, PushLists DEF Collected
<1>5. PICK t \in Seq(Value) : Len(t) = Len(items) /\ Lists(keys, t)
    BY <1>1 DEF Collected
<1>6. Append(t, k) \in Seq(Value) /\ Len(Append(t, k)) = Len(items') /\ Lists(keys', Append(t, k))
    BY <1>1, <1>2, <1>3, <1>5, PushLists
<1>7. LaterItemsWin'
    BY <1>1 DEF LaterItemsWin
<1> QED BY <1>1, <1>3, <1>4, <1>6, <1>7 DEF Collected

LEMMA CollectedNext == Collected /\ [Next]_vars => Collected'
<1> SUFFICES ASSUME Collected, [Next]_vars PROVE Collected'
    OBVIOUS
<1>1. CASE MergeDeepNext \/ FlattenNext
    <2>1. PICK w \in Value : op' = op /\ op \in {"mergeDeep", "flatten"} /\ items' = Append(items, w)
        BY <1>1, PoolAssumption DEF MergeDeepNext, FlattenNext, Consume
    <2>2. items' \in Seq(Value)
        BY <2>1 DEF Collected
    <2> QED BY <2>1, <2>2 DEF Collected, LaterItemsWin
<1>2. CASE UNCHANGED vars
    BY <1>2 DEF vars, Collected, LaterItemsWin
<1> QED BY <1>1, <1>2, MergeCollected, SortCollected DEF Next

LEMMA CollectedInvariant == Spec => []Collected
BY CollectedInit, CollectedNext, PTL DEF Spec

(* In $merge each key has, whole, the value it has in the last item that   *)
(* has the key (merge_operator), for every list of objects.                *)
THEOREM LaterItems == Spec => []LaterItemsWin
<1>1. Collected => LaterItemsWin
    BY DEF Collected
<1> QED BY <1>1, CollectedInvariant, PTL

(* $sort puts the items in the one order in which the keys ascend and      *)
(* equal keys keep their items in order (sort_operator), for every list of *)
(* values and every list of keys that can be compared.                     *)
THEOREM StableSort == Spec => []SortIsStable
<1>1. ASSUME Collected PROVE SortIsStable
    <2> SUFFICES ASSUME op = "sort", Sortable(keys), ~SortPanics(keys)
                 PROVE  SortIsStable
        BY DEF SortIsStable
    <2>1. Lists(acc, items) /\ items \in Seq(Value)
        BY <1>1 DEF Collected
    <2>2. PICK t \in Seq(Value) : Len(items) = Len(t) /\ Lists(keys, t)
        BY <1>1 DEF Collected
    <2>3. Stable(acc, keys, items)
        BY <2>1, <2>2, Sorted
    <2> QED BY <2>3 DEF Stable, SortIsStable, KeyOf
<1> QED BY <1>1, CollectedInvariant, PTL
=============================================================================
