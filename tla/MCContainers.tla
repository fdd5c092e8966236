---------------------------- MODULE MCContainers ----------------------------
(***************************************************************************)
(* The loops of Collecting over every list of items from small pools, and  *)
(* what Containers computes by positions and paths against the recursion   *)
(* of the code.                                                            *)
(***************************************************************************)
EXTENDS Collecting, TLC

MCRank == "" :> 0 @@ "a" :> 1 @@ "b" :> 2

O(k, v) == ObjOf(k :> v)
A(s) == ArrOf(s)

(* Objects that disagree about what a key holds: a scalar, arrays, objects. *)
Fields == { Num(1), A(<<Num(1)>>), A(<<Text("a"), O("a", Null)>>), O("a", A(<<Null>>)), O("a", O("b", Num(2))) }
MCObjects == { O(k, v) : k \in {"a", "b"}, v \in Fields }
                \cup { ObjOf("a" :> v @@ "b" :> w) : v, w \in Fields }

MCLists == { Num(1), NoElems, O("a", A(<<Num(1)>>)), A(<<Num(1), Text("b")>>),
             A(<<A(<<Num(2)>>), NoElems, Null>>), A(<<A(<<A(<<Text("a")>>), O("b", Null)>>)>>) }

(* Three items tell equal keys apart; keys that can and cannot be compared. *)
MCItems == { Null, A(<<Null, Num(1)>>), O("a", Num(2)) }
MCKeys == { Text("a"), Text("b"), Text(""), Num(0), Num(1), NaN, Null }
=============================================================================
