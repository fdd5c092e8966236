---------------------------- MODULE Interpreter ----------------------------
(***************************************************************************)
(* evaluate() of rs/src/interpreter/evaluator.rs as it runs: a stack of    *)
(* calls, one per node, each evaluating its operands from left to right    *)
(* until it can return.                                                    *)
(***************************************************************************)
EXTENDS Evaluator

CONSTANTS
    Trees, Contexts,    \* the nodes and the contexts to evaluate them in
    Nodes,              \* the trees and the trees within them
    Denoted(_, _)       \* what a node means in a context

(* Nodes with operands from S: the enum of node.rs, with one Bool for True *)
(* and False, and "invalid" for the numbers that do not parse.             *)
BinaryOps == { "||", "&&", "in", "==", "!=", "<", "<=", ">", ">=", "+", "-", "*", "/", "**" }
Maybe(S) == S \cup { << "absent" >> }
NodeOver(S) ==
    { << "invalid" >>, << "null" >> } \cup ({ "bool" } \X BOOLEAN) \cup ({ "num", "str", "ident" } \X Str)
    \cup ({ "array" } \X Seq(S)) \cup ({ "object" } \X Seq(Str \X S))
    \cup ({ "un" } \X { "!", "-", "+" } \X S) \cup ({ "op" } \X S \X BinaryOps \X S) \cup ({ "index" } \X S \X S)
    \cup ({ "slice" } \X S \X Maybe(S) \X Maybe(S)) \cup ({ "dot" } \X S \X Str)
    \cup ({ "func" } \X S \X Seq(S))

(* Trees are made of nodes, and the meaning of a node is composed of those *)
(* of its operands in the way that Evaluator says.                         *)
ASSUME TreesAssumption ==
    /\ Trees \subseteq Nodes /\ Nodes \subseteq NodeOver(Nodes) /\ << "absent" >> \notin Nodes
ASSUME MeaningAssumption ==
    \A n \in Nodes, c \in Contexts :
        Denoted(n, c) \in Outcome /\ Denoted(n, c) = Meaning(n, c, LAMBDA m : Denoted(m, c))

VARIABLES
    tree, ctx,  \* the call of the outside
    stack,      \* the calls under way: a node, and its operands' values so far
    ret         \* what the call that just ended returned, or Idle
vars == << tree, ctx, stack, ret >>

Idle == [st |-> "idle", v |-> Null]
Frame(node) == [node |-> node, vals |-> <<>>, map |-> NoKeys]
Top == stack[Len(stack)]
Rest == SubSeq(stack, 1, Len(stack) - 1)

(* The operands, in the order in which they are evaluated. *)
Given(limit) == IF limit = << "absent" >> THEN <<>> ELSE << limit >>
Operands(node) ==
    CASE node[1] = "array"  -> node[2]
      [] node[1] = "object" -> [i \in DOMAIN node[2] |-> node[2][i][2]]
      [] node[1] = "un"     -> << node[3] >>
      [] node[1] = "op"     -> << node[2], node[4] >>
      [] node[1] = "index"  -> << node[2], node[3] >>
      [] node[1] = "slice"  -> << node[2] >> \o Given(node[3]) \o Given(node[4])
      [] node[1] = "dot"    -> << node[2] >>
      [] node[1] = "func"   -> << node[2] >> \o node[3]
      [] OTHER -> <<>>

(* Altered: both operands of || and && are evaluated. *)
DecidedForSlices(node, vals) ==
    LET n == Len(vals)
    IN  CASE node[1] = "slice" /\ n = 1 /\ Kind(vals[1]) \notin { "str", "arr" } -> Err
          [] node[1] = "slice" /\ n > 1 /\ Kind(vals[n]) # "num" -> Err
          [] OTHER -> Idle

(* What the operands so far decide, whatever those to come would be.       *)
Decided(node, vals) ==
    LET n == Len(vals)
    IN  CASE node[1] = "op" /\ n = 1 /\ ShortCircuits(node[3], vals[1]) -> Ok(Bool(node[3] = "||"))
          [] node[1] = "slice" /\ n = 1 /\ Kind(vals[1]) \notin { "str", "arr" } -> Err
          [] node[1] = "slice" /\ n > 1 /\ Kind(vals[n]) # "num" -> Err
          [] OTHER -> Idle

Sliced(node, vals) ==
    LET len == IF IsText(vals[1]) THEN Len(Chars[StringOf(vals[1])]) ELSE Length(vals[1])
        from == IF node[3] = << "absent" >> THEN 0 ELSE Wrap(Root(vals[2])[2], len)
        to == IF node[4] = << "absent" >> THEN len ELSE Wrap(Root(vals[Len(vals)])[2], len)
    IN  Slice(vals[1], from, to)

(* What a call returns once it has all operands. *)
Outcomes(node, vals, map) ==
    CASE node[1] = "invalid" -> Err
      [] node[1] = "null"   -> Ok(Null)
      [] node[1] = "bool"   -> Ok(Bool(node[2]))
      [] node[1] = "num"    -> ParseNumber(node[2])
      [] node[1] = "str"    -> Ok(Text(node[2]))
      [] node[1] = "ident"  -> IF Bound(ctx, node[2]) = {} THEN Err ELSE Ok(Get(ctx, node[2]))
      [] node[1] = "array"  -> Ok(ArrOf(vals))
      [] node[1] = "object" -> Ok(map)
      [] node[1] = "un"     -> Un(node[2], vals[1])
      [] node[1] = "op"     -> Binary(node[3], vals[1], vals[2])
      [] node[1] = "index"  -> Index(vals[1], vals[2])
      [] node[1] = "slice"  -> Ok(Sliced(node, vals))
      [] node[1] = "dot"    -> Dot(vals[1], node[3])
      [] node[1] = "func"   -> IF Kind(vals[1]) = "fn" THEN Builtin(Root(vals[1])[2], Tail(vals), ctx) ELSE Err

-----------------------------------------------------------------------------
Init ==
    /\ tree \in Trees /\ ctx \in Contexts
    /\ stack = << Frame(tree) >> /\ ret = Idle

Working == stack # <<>> /\ ret = Idle
Missing == Len(Top.vals) < Len(Operands(Top.node))

(* evaluate(operand, context) *)
Call ==
    /\ Working /\ Missing /\ Decided(Top.node, Top.vals) = Idle
    /\ stack' = Append(stack, Frame(Operands(Top.node)[Len(Top.vals) + 1]))
    /\ UNCHANGED << tree, ctx, ret >>

Return(o) == stack' = Rest /\ ret' = o /\ UNCHANGED << tree, ctx >>
Decide == Working /\ Decided(Top.node, Top.vals) # Idle /\ Return(Decided(Top.node, Top.vals))
Finish == Working /\ ~Missing /\ Decided(Top.node, Top.vals) = Idle /\ Return(Outcomes(Top.node, Top.vals, Top.map))

(* Altered: the caller does not keep the value. *)
ResumeForgetting ==
    /\ stack # <<>> /\ ret.st = "ok"
    /\ ret' = Idle /\ UNCHANGED << tree, ctx, stack >>

(* Back in the caller: the value of one more operand, of an object's       *)
(* member inserted into its map, or `?`.                                   *)
Inserted(node, i, map, v) == IF node[1] = "object" THEN Insert(map, node[2][i][1], v) ELSE map
Kept(f, v) ==
    [f EXCEPT !.vals = Append(@, v), !.map = Inserted(f.node, Len(f.vals) + 1, @, v)]
Resume ==
    /\ stack # <<>> /\ ret.st = "ok"
    /\ stack' = Append(Rest, Kept(Top, ret.v))
    /\ ret' = Idle /\ UNCHANGED << tree, ctx >>
Propagate == stack # <<>> /\ ret.st \in { "err", "panic" } /\ Return(ret)

Next == Call \/ Decide \/ Finish \/ Resume \/ Propagate
Spec == Init /\ [][Next]_vars /\ WF_vars(Next)

-----------------------------------------------------------------------------
(* At every moment the calls under way have what their operands mean, and  *)
(* what the last call returns is what the tree means: which operands are   *)
(* never looked at, and which of several errors and panics comes out,      *)
(* included.                                                               *)
FollowsEval ==
    /\ \A i \in DOMAIN stack : \A k \in DOMAIN stack[i].vals :
          Ok(stack[i].vals[k]) = Denoted(Operands(stack[i].node)[k], ctx)
    /\ stack = <<>> => ret = Denoted(tree, ctx)

(* Evaluation ends. *)
Ends == <>(stack = <<>>)
=============================================================================
