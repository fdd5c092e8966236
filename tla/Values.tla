------------------------------- MODULE Values -------------------------------
(***************************************************************************)
(* The values JSON-e computes with (enum Value of rs/src/value.rs): JSON    *)
(* values, plus a deletion marker and built-in functions.                  *)
(*                                                                         *)
(* A value is the set of its nodes.  A node pairs the path that leads to   *)
(* it from the root with its label: the constructor and, for a leaf, the   *)
(* content.  Three examples:                                               *)
(*                                                                         *)
(*    null       { << <<>>, <<"null">> >> }                                *)
(*    [true]     { << <<>>, <<"arr">> >>,                                  *)
(*                 << << <<"i", 0>> >>, <<"bool", TRUE>> >> }              *)
(*    {"a": 1}   { << <<>>, <<"obj">> >>,                                  *)
(*                 << << <<"k", "a">> >>, <<"num", 1>> >> }                *)
(*                                                                         *)
(* Subtrees, insertion, merging and comparison are then set operations and *)
(* need no recursion.  Strings are opaque members of Str; what the code    *)
(* looks at inside them is given by the constants of the modules that use  *)
(* it.  Numbers are integers, plus the one f64 that is not ordered.        *)
(***************************************************************************)
EXTENDS Integers, Sequences, FiniteSets

CONSTANTS
    Str,      \* the strings
    KeyRank,  \* their byte order: the iteration order of a BTreeMap
    Empty,    \* the empty string
    FnName    \* the names of the built-in functions

ASSUME StringAssumption ==
    /\ KeyRank \in [Str -> Nat]
    /\ \A s, t \in Str : KeyRank[s] = KeyRank[t] => s = t
    /\ Empty \in Str

Step == ({"i"} \X Nat) \cup ({"k"} \X Str)
Path == Seq(Step)
Label == { <<"null">>, <<"del">>, <<"arr">>, <<"obj">>, <<"nan">> }
            \cup ({"bool"} \X BOOLEAN)
            \cup ({"num"} \X Int)
            \cup ({"str"} \X Str)
            \cup ({"fn"} \X FnName)

(* A value is finite and has a root. *)
Value == { v \in SUBSET (Path \X Label) :
              IsFiniteSet(v) /\ \E n \in v : n[1] = <<>> }

(* What the enum allows: no place has two labels, each step leads out of   *)
(* an array or an object, and the elements of an array have no gap.        *)
Tree(v) ==
    /\ \A m, n \in v : m[1] = n[1] => m = n
    /\ \A n \in v : \A i \in 1..Len(n[1]) :
           LET inner == SubSeq(n[1], 1, i - 1)
               step == n[1][i]
           IN  /\ << inner, IF step[1] = "i" THEN <<"arr">> ELSE <<"obj">> >> \in v
               /\ step[1] = "i" =>
                      \A j \in 0..(step[2] - 1) : \E m \in v : m[1] = Append(inner, << "i", j >>)

-----------------------------------------------------------------------------
(* Reading a value. *)

Root(v) == (CHOOSE n \in v : n[1] = <<>>)[2]
Kind(v) == Root(v)[1]

(* The steps from the root to its children, and the child a step leads to. *)
Steps(v) == { n[1][1] : n \in { m \in v : Len(m[1]) = 1 } }
Under(v, e) == { n \in v : n[1] # <<>> /\ Head(n[1]) = e }
Child(v, e) == { << Tail(n[1]), n[2] >> : n \in Under(v, e) }

Elem(i) == << "i", i >>
Key(k)  == << "k", k >>
Keys(v) == { e[2] : e \in { d \in Steps(v) : d[1] = "k" } }
Indices(v) == { e[2] : e \in { d \in Steps(v) : d[1] = "i" } }
Has(v, k) == Key(k) \in Steps(v)
Field(v, k) == Child(v, Key(k))
Length(v) == Cardinality(Steps(v))

(* The items an array holds, as a sequence. *)
Items(v) == [i \in 1..Length(v) |-> Child(v, Elem(i - 1))]

(* Iteration order: elements by index, members by key.  First picks the    *)
(* step an iterator yields next when S is what it has not yielded yet.     *)
Before(d, e) ==
    IF d[1] = "i" THEN d[2] < e[2] ELSE KeyRank[d[2]] < KeyRank[e[2]]
First(e, S) == e \in S /\ \A d \in S \ {e} : Before(e, d)

-----------------------------------------------------------------------------
(* Building a value. *)

Leaf(l) == { << <<>>, l >> }
Null    == Leaf(<<"null">>)
Marker  == Leaf(<<"del">>)   \* Value::DeletionMarker
NoElems == Leaf(<<"arr">>)
NoKeys  == Leaf(<<"obj">>)
NaN     == Leaf(<<"nan">>)
Bool(b) == Leaf(<<"bool", b>>)
Num(n)  == Leaf(<<"num", n>>)
Text(s) == Leaf(<<"str", s>>)
Fn(f)   == Leaf(<<"fn", f>>)

Graft(e, w)  == { << <<e>> \o n[1], n[2] >> : n \in w }
Put(v, e, w) == (v \ Under(v, e)) \cup Graft(e, w)
Push(v, w)   == Put(v, Elem(Length(v)), w)      \* Vec::push
Insert(v, k, w) == Put(v, Key(k), w)            \* BTreeMap::insert

(* The array of the values of a sequence, the object of a function.        *)
ArrOf(s) == NoElems \cup UNION { Graft(Elem(i - 1), s[i]) : i \in DOMAIN s }
ObjOf(f) == NoKeys \cup UNION { Graft(Key(k), f[k]) : k \in DOMAIN f }

-----------------------------------------------------------------------------
(* From<Value> for bool.  NaN differs from 0, so it is true. *)
Falsy == { Null, Marker, NoElems, NoKeys, Bool(FALSE), Num(0), Text(Empty) }
Truthy(v) == v \notin Falsy

(* TryFrom<&Value> for serde_json::Value: a marker anywhere becomes null,  *)
(* and a function or a number that is not finite has no JSON form.         *)
Convertible(v) == \A n \in v : n[2] # <<"nan">> /\ n[2][1] # "fn"
ToJson(v) == { << n[1], IF n[2] = <<"del">> THEN <<"null">> ELSE n[2] >> : n \in v }

(* What can come out of serde_json, and so be a template or a context. *)
IsJson(v) == \A n \in v : n[2] \notin { <<"del">>, <<"nan">> } /\ n[2][1] # "fn"

(* The steps whose keys, taken as strings, are among the labels D, and the *)
(* values that are made of D alone: content, keys and constructors.        *)
Said(D) == { e \in Step : e[1] = "k" => << "str", e[2] >> \in D }
Within(v, D) == \A n \in v : n[1] \in Seq(Said(D)) /\ n[2] \in D

(* No array or object inside v holds a deletion marker; v may be one. *)
MarkerFree(v) == \A n \in v : n[1] # <<>> => n[2] # <<"del">>

(* The result of a fallible call: Result<Value>, or the thread's panic. *)
Outcome == [st : {"ok", "err", "panic"}, v : Value]
Ok(v)   == [st |-> "ok", v |-> v]
Err     == [st |-> "err", v |-> Null]
Panic   == [st |-> "panic", v |-> Null]
=============================================================================
