---------------------------- MODULE ByRecursion ----------------------------
(***************************************************************************)
(* The recursive helpers of rs/src/render.rs, call by call: flatten_deep   *)
(* and merge_deep.  Containers says without recursion what they compute.   *)
(***************************************************************************)
EXTENDS Values

Trees == { v \in Value : Tree(v) }

(* flatten_deep: what it pushes, in order. *)
FlatList[v \in Trees] ==
    IF Kind(v) # "arr" THEN <<v>>
    ELSE LET pushed[i \in 0..Length(v)] ==
                 IF i = 0 THEN <<>> ELSE pushed[i - 1] \o FlatList[Child(v, Elem(i - 1))]
         IN  pushed[Length(v)]

DeepMerged[p \in Trees \X Trees] ==
    LET a == p[1]
        b == p[2]
    IN  IF Kind(a) = "arr" /\ Kind(b) = "arr" THEN ArrOf(Items(a) \o Items(b))
        ELSE IF Kind(a) = "obj" /\ Kind(b) = "obj"
        THEN ObjOf([k \in Keys(a) \cup Keys(b) |->
                       IF ~Has(b, k) THEN Field(a, k) ELSE IF ~Has(a, k) THEN Field(b, k)
                       ELSE DeepMerged[<< Field(a, k), Field(b, k) >>]])
        ELSE b
=============================================================================
