----------------------------- MODULE Containers -----------------------------
(***************************************************************************)
(* What the array and object operators of rs/src/render.rs compute once    *)
(* their argument is rendered.  Positions in a rearranged array are        *)
(* counted (how many elements come before), so nothing here recurses.      *)
(***************************************************************************)
EXTENDS Values

(* The array of the elements of v, each at the number of elements that the *)
(* relation puts before it.                                                *)
Position(S, before, e) == Cardinality({ d \in S : << d, e >> \in before })
Arrange(v, before) ==
    { n \in v : n[1] = <<>> } \cup
    { << << Elem(Position(Steps(v), before, Head(n[1]))) >> \o Tail(n[1]), n[2] >> :
          n \in { m \in v : m[1] # <<>> } }

(* $reverse: into_iter().rev() *)
Reverse(v) == Arrange(v, { p \in Steps(v) \X Steps(v) : Before(p[2], p[1]) })

(* Vec::append: the elements of w, moved behind those of v. *)
Shifted(w, by) ==
    { << << Elem(Head(n[1])[2] + by) >> \o Tail(n[1]), n[2] >> :
          n \in { m \in w : m[1] # <<>> /\ Head(m[1])[1] = "i" } }
Concat(v, w) == v \cup Shifted(w, Length(v))

(* One round of the $flatten loop: an array is spread, anything else kept. *)
FlattenInto(v, w) == IF Kind(w) = "arr" THEN Concat(v, w) ELSE Push(v, w)

-----------------------------------------------------------------------------
(* $flattenDeep: the nodes that are reached through arrays only and are    *)
(* not arrays themselves, in depth-first order.                            *)

Prefixes(p) == { SubSeq(p, 1, i) : i \in 0..(Len(p) - 1) }
Arrays(v) == { n[1] : n \in { m \in v : m[2] = <<"arr">> } }
Flat(v) == { n[1] : n \in { m \in v : m[2] # <<"arr">> /\ Prefixes(m[1]) \subseteq Arrays(v) } }

(* Altered: any index that is smaller counts, not the first that differs. *)
PrecedesAnywhere(p, q) == \E i \in 1..Len(p) : i <= Len(q) /\ p[i][2] < q[i][2]

(* p is visited before q: at their first difference, by index. *)
Precedes(p, q) ==
    \E i \in 1..Len(p) :
        /\ i <= Len(q)
        /\ SubSeq(p, 1, i - 1) = SubSeq(q, 1, i - 1)
        /\ p[i][2] < q[i][2]
Below(v, p) == { n \in v : Len(n[1]) >= Len(p) /\ SubSeq(n[1], 1, Len(p)) = p }
From(p, n) == SubSeq(p, Len(n) + 1, Len(p))     \* p without its prefix n

(* The value at the path p, and a value put back at p. *)
At(v, p) == { << From(n[1], p), n[2] >> : n \in Below(v, p) }
Lift(p, v) == { << p \o n[1], n[2] >> : n \in v }

FlattenDeep(v) ==
    NoElems \cup
    UNION { Graft(Elem(Cardinality({ q \in Flat(v) : Precedes(q, p) })), At(v, p)) : p \in Flat(v) }

-----------------------------------------------------------------------------
(* Altered: the earlier value of a key wins. *)
MergeEarlierWins(v, w) == v \cup { n \in w : n[1] # <<>> /\ Head(n[1]) \notin Steps(v) }

(* $merge: BTreeMap::append, where the later value of a key wins. *)
Merge(v, w) == { n \in v : n[1] = <<>> \/ Head(n[1]) \notin Steps(w) }
                 \cup { n \in w : n[1] # <<>> }

(* $mergeDeep: merge_deep(a, b).  Where both sides are objects down to a   *)
(* path they are joined there; one step below that region the two sides    *)
(* meet: arrays are appended, otherwise b's value wins if b has one.       *)
Objects(v) == { n[1] : n \in { m \in v : m[2] = <<"obj">> } }
Paths(v) == { n[1] : n \in v }
Joined(a, b) ==
    LET both == Objects(a) \cap Objects(b)
    IN  { p \in both : Prefixes(p) \subseteq both }
Meeting(a, b) ==
    { p \in Paths(a) \cup Paths(b) :
          p # <<>> /\ p \notin Joined(a, b) /\ SubSeq(p, 1, Len(p) - 1) \in Joined(a, b) }
(* Altered: the later array replaces the earlier one. *)
MetReplacing(a, b, p) == IF p \in Paths(b) THEN At(b, p) ELSE At(a, p)

Met(a, b, p) ==
    IF p \in Arrays(a) /\ p \in Arrays(b) THEN Concat(At(a, p), At(b, p))
    ELSE IF p \in Paths(b) THEN At(b, p)
    ELSE At(a, p)
MergeDeep(a, b) ==
    NoKeys \cup { << p, <<"obj">> >> : p \in Joined(a, b) } \cup
    UNION { Lift(p, Met(a, b, p)) : p \in Meeting(a, b) }

-----------------------------------------------------------------------------
(* $sort.  The keys must be all strings or all numbers; sort_by is stable. *)
(* keys holds at each step of v the key of that element.                   *)

KeyAt(keys, e) == Root(Child(keys, e))
AllOf(keys, tags) == \A e \in Steps(keys) : KeyAt(keys, e)[1] \in tags
Less(a, b) == a # b /\ IF a[1] = "str" THEN KeyRank[a[2]] < KeyRank[b[2]] ELSE a[2] < b[2]
(* Altered: equal keys in reverse, as an unstable sort may leave them. *)
SortUnstable(v, keys) ==
    Arrange(v, { p \in Steps(v) \X Steps(v) :
                     \/ Less(KeyAt(keys, p[1]), KeyAt(keys, p[2]))
                     \/ KeyAt(keys, p[1]) = KeyAt(keys, p[2]) /\ Before(p[2], p[1]) })

Sort(v, keys) ==
    Arrange(v, { p \in Steps(v) \X Steps(v) :
                     \/ Less(KeyAt(keys, p[1]), KeyAt(keys, p[2]))
                     \/ KeyAt(keys, p[1]) = KeyAt(keys, p[2]) /\ Before(p[1], p[2]) })

Sortable(keys) == AllOf(keys, {"str"}) \/ AllOf(keys, {"num", "nan"})

(* partial_cmp is None when a NaN is compared.  Every element of an array   *)
(* of two or more is compared at least once, so its unwrap() panics.       *)
SortPanics(keys) == Length(keys) > 1 /\ \E e \in Steps(keys) : KeyAt(keys, e) = <<"nan">>
=============================================================================
