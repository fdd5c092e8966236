----------------------------- MODULE MCFindings -----------------------------
(***************************************************************************)
(* What a comment or a page of the documentation says of a render, each    *)
(* with an input on which the code does something else.  Every property    *)
(* below is violated by its own run.                                       *)
(***************************************************************************)
EXTENDS MCRender

Ctx(v) == O("x", v)

(* render.rs:87: "`template` has been converted from JSON and cannot       *)
(* contain DeletionMarker or Function".                                    *)
FunctionInputs == { << O2("$find", A(<<Ev("len")>>), "each(x)", Text("x")), Ctx(Null) >> }
TemplatesAreJson == \A i \in DOMAIN stack : Kind(stack[i].tpl) \notin { "del", "fn" }

(* render.rs:479: "Unwraps here are safe because the presence of the       *)
(* `each(..)` is checked above", said of a handler that unwraps `initial`. *)
ReduceInputs == { << O3("$reduce", A(<<Num(1)>>), "each(acc,x)", Ev("x"), "each(x,i)", Num(1)), Ctx(Null) >> }
ReduceUnwrapsAreSafe == status = "panicked" => Top.op # "$reduce"

(* render.rs:788: "unwrap is ok because we do not deal with NaN".          *)
SortInputs == { << O("$sort", A(<<Ev("0/0"), Num(1)>>)), Ctx(Null) >> }
SortUnwrapsAreSafe == status = "panicked" => Top.op # "$sort"

(* docs/src/introduction.md: templates "finish in finite time".            *)
Itself == O2("$find", Ev("[x,y]"), "each(x)", Text("true"))
EndlessInputs == { << Itself, O2("x", Itself, "y", Null) >> }
StackSuffices == status # "overflowed"
=============================================================================
