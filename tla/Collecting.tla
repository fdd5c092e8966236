----------------------------- MODULE Collecting -----------------------------
(***************************************************************************)
(* The loops of $merge, $mergeDeep, $flatten and $sort                     *)
(* (rs/src/render.rs) on their own: a list of at most Rounds items, one    *)
(* item per step, and what the operator has accumulated of it.             *)
(***************************************************************************)
EXTENDS Containers, ByRecursion

CONSTANTS
    Rounds,        \* bound on the items of a list
    ObjectPool,    \* items of $merge and $mergeDeep
    ListPool,      \* items of $flatten
    ItemPool,      \* items of $sort,
    KeyPool        \* and what its expression says of them

ASSUME PoolAssumption ==
    /\ \A v \in ObjectPool : v \in Value /\ Tree(v) /\ Kind(v) = "obj"
    /\ \A v \in ListPool \cup ItemPool \cup KeyPool : v \in Value /\ Tree(v)

VARIABLES op,       \* the operator whose loop runs
          acc,      \* what it has accumulated
          items,    \* the items it has consumed, in order
          keys      \* of $sort: their keys, an array

vars == << op, acc, items, keys >>

Init == /\ op \in {"merge", "mergeDeep", "flatten", "sort"}
        /\ acc = (IF op \in {"merge", "mergeDeep"} THEN NoKeys ELSE NoElems)
        /\ items = <<>> /\ keys = NoElems

Consume(o, v, result) ==
    /\ op = o /\ Len(items) < Rounds
    /\ acc' = result /\ items' = Append(items, v) /\ UNCHANGED op

MergeNext     == \E v \in ObjectPool : Consume("merge", v, Merge(acc, v)) /\ UNCHANGED keys
MergeDeepNext == \E v \in ObjectPool : Consume("mergeDeep", v, MergeDeep(acc, v)) /\ UNCHANGED keys
FlattenNext   == \E v \in ListPool : Consume("flatten", v, FlattenInto(acc, v)) /\ UNCHANGED keys
SortNext      == \E v \in ItemPool, k \in KeyPool : Consume("sort", v, Push(acc, v)) /\ keys' = Push(keys, k)

Next == MergeNext \/ MergeDeepNext \/ FlattenNext \/ SortNext
Spec == Init /\ [][Next]_vars

-----------------------------------------------------------------------------
(* $merge: each key has its value from the last item that has the key, and *)
(* that value whole, even where both are objects.                          *)
LaterItemsWin ==
    op = "merge" =>
        /\ Keys(acc) = UNION { Keys(items[i]) : i \in DOMAIN items }
        /\ \A i \in DOMAIN items : \A k \in Keys(items[i]) :
               (\A j \in DOMAIN items : Has(items[j], k) => j <= i) => Field(acc, k) = Field(items[i], k)

(* $mergeDeep: joining along paths is what the recursion of merge_deep     *)
(* computes, item after item: objects joined at every depth, arrays        *)
(* appended, and elsewhere the later value.                                *)
MergeDeepFollowsCode ==
    op = "mergeDeep" =>
        LET merged[i \in 0..Len(items)] == IF i = 0 THEN NoKeys ELSE DeepMerged[<< merged[i - 1], items[i] >>]
        IN  acc = merged[Len(items)]

(* $flattenDeep: ranking the leaves by their paths is the order in which   *)
(* flatten_deep pushes them, and flattening once before changes nothing.   *)
FlattenDeepFollowsCode ==
    op = "flatten" =>
        /\ FlattenDeep(acc) = ArrOf(FlatList[acc])
        /\ FlattenDeep(acc) = FlattenDeep(ArrOf(items))

(* $sort: when the keys can be compared, the result is the items in the    *)
(* one order in which the keys ascend and items with equal keys stay as    *)
(* they were; so none is lost or doubled.                                  *)
KeyOf(i) == KeyAt(keys, Elem(i - 1))
SortIsStable ==
    op = "sort" /\ Sortable(keys) /\ ~SortPanics(keys) =>
        \E order \in [DOMAIN items -> DOMAIN items] :
            /\ \A i, j \in DOMAIN items :
                   i < j => \/ Less(KeyOf(order[i]), KeyOf(order[j]))
                            \/ KeyOf(order[i]) = KeyOf(order[j]) /\ order[i] < order[j]
            /\ Items(Sort(acc, keys)) = [i \in DOMAIN items |-> items[order[i]]]
=============================================================================
