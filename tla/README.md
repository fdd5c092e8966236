# A formal model of json-e (the Rust crate)

JSON-e renders a template (a JSON value) in a context (a JSON object): strings are interpolated,
objects with a `$` key are operators, expressions inside are evaluated. The repository has four
implementations of the language; this project models the Rust crate, `src/rs`. It contains TLA+
models of the renderer and what it computes with, TLC configurations that check them on small
instances, and proofs, for instances of every size, that TLAPS checks.

1. [Inventory](#1-inventory) · 2. [Modules](#2-modules-and-how-they-correspond-to-the-code) ·
3. [Runs](#3-what-the-runs-check) · 4. [Proofs](#4-what-is-proved) ·
5. [Findings](#5-where-code-and-documentation-disagree) · 6. [Not modelled](#6-what-is-not-modelled) ·
7. [Plan](#7-plan)

## 1. Inventory

The crate keeps nothing between renders except one flag. What makes it hard is not concurrency but
recursion over three kinds of value (JSON, functions, deletion markers) that share one Rust enum,
scopes that open and close around it, and sixteen operators that each treat failures, markers and
order in their own way.

| component | state | operations | interacts with |
|---|---|---|---|
| Renderer, `render.rs` 1-626, 853-866 and the shape checks of every operator | the native call stack of `_render`: template, context, loop position and accumulator of each activation | `render`, `_render`, `interpolate`, `maybe_operator`, `is_identifier`, one handler per operator | calls the interpreter, creates child contexts, reads the clock once, converts in and out of `serde_json` |
| Array and object operators, `render.rs` 246-295, 630-850 | an accumulator | `$flatten`, `$flattenDeep`, `$merge`, `$mergeDeep`, `$reverse`, `$sort` | get their argument from the renderer |
| Values, `value.rs` | none | truthiness, stringification, conversion from and to `serde_json::Value`, equality | all others |
| Contexts, `interpreter/context.rs` | a chain of scopes, each a map | `new`, `child`, `insert`, `get`, `from_value` | made by the renderer, read by the interpreter and by `fromNow` |
| Expression interpreter, `interpreter/evaluator.rs`, `node.rs` | none | `evaluate`, `un`, `op`, `index`, `slice`, `dot`, `func` | reads the context, calls built-ins |
| Built-in functions, `builtins.rs` | the static table `BUILTINS` | 20 functions | `fromNow` reads the context's `now` |
| Time, `fromnow.rs` | the wall clock; `USE_TEST_TIME`, a flag of the whole process | `now`, `use_test_now`, `from_now`, parsing of offsets | read by `render()`, called by `$fromNow` and `fromNow()` |
| Operator properties, `op_props.rs` | none | `parse_each`, `parse_each_three`, `parse_by` | renderer |
| Expression parser, `interpreter/parser.rs`, `whitespace.rs` | none | `parse_all`, `parse_partial` and the nom grammar under them | gives the interpreter its trees; tells `interpolate` where an expression ends |
| Errors, plumbing: `errors.rs`, `lib.rs`, `interpreter/mod.rs`, `build.rs` | none | error constructors, re-exports, the test generator | |
| JavaScript, Python and Go implementations | none shared with the crate | the same language | |
| `specification.yml`, `docs/`, release scripts | none | | the statement of what all implementations promise |

What makes each of them correct:

* **Renderer.** A render delivers what the language says for the template, the context and one time:
  the right result, or the right failure, the *first* in evaluation order. Only JSON is rendered as a
  template. Its stack stays as shallow as the template. A binding is seen by what it was made for and
  by nothing else. Deletion markers end at the container they fall into. It ends.
* **Array and object operators.** Later items win in `$merge`; `$mergeDeep` joins objects at every
  depth and appends arrays; the order of leaves in `$flattenDeep` is depth-first; `$sort` is a stable
  sorting of a permutation of its items, or an error, but never a panic.
* **Contexts.** An inner scope shadows an outer one; a child never changes its parent.
* **Values.** What leaves the crate is JSON. A conversion that fails is an error of the render.
* **Interpreter, built-ins.** Short circuits; errors in order of evaluation; slices and indices read
  what was asked for, whatever the casts between `f64`, `i64` and `usize` do; characters, not bytes.
* **Time.** One time per render, whatever the clock and the flag do meanwhile. An offset is what its
  components add up to, each once and in order.
* **Parser.** One grammar: precedence, associativity, blanks; the prefix that `parse_partial` accepts is
  an expression to `parse_all`; backtracking stays affordable. What `each(..)` binds can be named.
* **Interpolation.** A string gives the texts of its pieces, in order; escapes can express any text.

The behaviours that are hard to test are listed, each at its line, under `hazards` in `PROJECT.json`.
They are of these kinds. *Order*: which of several failures is met first, what was never evaluated,
which of two bindings of one name is seen. *Stale state*: `now` looked up long after it was read, a
binding that outlives its item. *Other threads*: the test flag set during a render. *Resources*: the
native stack, the backtracking of the parser. *Sequences of calls*: what a handler passes to `_render`
and what may end up there; how parsers hand positions and blanks to each other. *Numeric edges*: NaN, the
limits of `i64`, `f64`, `usize`, of durations and of times, positions at the ends of a string.

## 2. Modules and how they correspond to the code

```
   Values ── Containers ─┬─ Render ── MCRender ── MCFindings
     │                   └─ Collecting ── MCContainers
     ├── ExprOps ── Evaluator ─┬─ Interpreter ── MCInterpreter
     │                         └─ Evaluation ── Semantics
     └── ByRecursion (in Semantics and Collecting)
   Positions ── Numbers, Strings ── MCPrimitives
   Texts ─┬─ Offsets ── MCOffsets
          ├─ Syntax ── OpProps ── MCSyntax
          └─ Interpolate (with Pieces) ── MCInterpolate

   ValueProofs ─┬─ RenderProofs ── SafetyProofs ── ConfinementProofs      (about Render)
                ├─ ContainerProofs ── DeepProofs                           (about Collecting)
                └─ InterpreterProofs                                       (about Interpreter)
   PrimitiveProofs                                                         (about MCPrimitives)
```

A line is EXTENDS, from left to right. `MCRender` instantiates `Evaluation`, `Syntax`, `Pieces`, `OpProps`
and `Offsets` for the constants of `Render`, and `Semantics` as what `Render` implements; `MCInterpreter`
extends `Evaluation` too.

| module | models | lines of |
|---|---|---|
| `Values` | the enum `Value`, its constructors, truthiness, conversion, order of iteration | `value.rs` |
| `Containers` | the operators that only rearrange their argument | `render.rs` |
| `ByRecursion` | `flatten_deep` and `merge_deep` call by call, as recursive functions on trees | `render.rs` |
| `Collecting` | the loops of `$merge`, `$mergeDeep`, `$flatten` and `$sort` on their own, one item per step | `render.rs` |
| `ExprOps`, `Evaluator` | `un`, `op`, `index`, `slice`, `dot`, `func`, built-ins, `Context::get`; what a node means, given what its operands mean | `evaluator.rs`, `node.rs`, `builtins.rs`, `context.rs` |
| `Evaluation` | that as the recursion of `evaluate`; the evaluation of a string and of its pieces | `evaluator.rs`, `render.rs` |
| `Interpreter` | `evaluate` as a machine of calls and returns | `evaluator.rs` |
| `Positions`, `Numbers` | negative indices, `wrap`; `f64` at a small width where it meets `i64`, `usize` and JSON numbers | `evaluator.rs`, `builtins.rs`, `value.rs` |
| `Strings` | slices by character through byte offsets; strip, split (and the filter behind it), join | `evaluator.rs`, `builtins.rs` |
| `Texts`, `Syntax` | the grammar of expressions, with backtracking and its cost | `parser.rs`, `whitespace.rs` |
| `OpProps` | `each(..)`, `by(..)`, `is_identifier` | `op_props.rs`, `render.rs` |
| `Interpolate` | the loop of `interpolate()`, branch by branch | `render.rs` 93-151 |
| `Pieces` | what that loop promises: the pieces of a string | (abstract) |
| `Offsets` | parsing and adding time offsets, in the widths of `i64`, `Duration`, `DateTime` | `fromnow.rs` |
| `Render` | `render`, `_render`, all operators, as a machine with a call stack | `render.rs`, `context.rs`, `fromnow.rs` |
| `Semantics` | what a render promises: one recursive function, and the specification "a render ends once, in this verdict" | (abstract) |
| `MC...` | finite instances: strings, texts, trees, numbers, templates, contexts; inputs on which a documented claim fails | |
| `ValueProofs`, `RenderProofs`, `SafetyProofs`, `ConfinementProofs`, `ContainerProofs`, `DeepProofs`, `PrimitiveProofs`, `InterpreterProofs` | lemmas about values; type correctness; safety; where markers and times go; loops over lists; deep merging and flattening; numbers, substrings and splitting; evaluation | |

`PROJECT.json` maps every definition to the lines it stands for.

### Values

A value is the *set of its nodes*, each a path from the root and a label: `{"a": 1}` is
`{ <<<<>>, <<"obj">>>>, <<<<<<"k","a">>>>, <<"num",1>>>> }`. Children, insertion, merging and
comparison are then set operations, so `Render` needs no recursion and can be proved about.
Strings are opaque members of `Str`; `KeyRank` is their byte order, which is the iteration order of
`BTreeMap`. Numbers are integers and NaN. `Marker` is `Value::DeletionMarker`, `Fn(f)` a
`Value::Function`. An `Outcome` is a `Result<Value>` or a panic.

### Render

Recursion becomes a stack; nothing else about the control flow of the code is changed.

| variable | code |
|---|---|
| `template`, `context` | the arguments of `render()` |
| `stack` | the live activations of `_render` with the handler each is in |
| `ret` | what the last callee returned: nothing yet (`none`), `Ok` or `Err` |
| `status` | of the render: ready, running; done, failed (`Err`), panicked, overflowed (native stack) |
| `clock`, `testing` | the process: wall clock, `USE_TEST_TIME` |

A frame holds the operator `op` (or `"render"` before one is recognised), the template, the context,
what the loop still has to visit (`todo`), where it is (`at`), the value it loops over (`val`), the
accumulator (`acc`), and `pc`:

| `pc` | the handler is |
|---|---|
| `enter` | at the start of `_render` |
| `elems`, `fields` | in the loop over an array, over an object |
| `start` | at the start of an operator's function: properties and shape are checked |
| `from`, `value` | waiting for its `from`, its own value |
| `each` | in its loop |
| `pass` | about to return whatever the callee returns |

One action is one phase of a handler: from its start, or from the return of a call, to the next call,
the next round of its loop or its end. Within a phase everything happens in the order of the code.
`Call`, `Return`, `Raise` (`Err`) and `Abort` (a panic) are all a phase can do besides `Goto` (the next
round). `?` is the action `Propagate`: an error removes one frame after another. A panic and an overflow
stop the thread where it is. `Failing(o)` passes on an interpreter call's error or panic. A call with
`MaxDepth` frames on the stack overflows.

Details that are easy to get wrong and that the model keeps: an object's keys are interpolated twice,
once to look for an operator (stopping at the first hit *or the first error*) and once to build the
result; `maybe_operator` matches the key as written, not the interpolated one; `$reduce` unwraps
`initial` before it looks at the value; `$reduce`'s `initial` is used unrendered; `$find` renders the
item it has found; `$match` keeps markers (they leave the crate as `null`), all other containers drop
them; `$switch` checks all conditions before it renders a branch; `$sort` by an expression evaluates all
keys first; `each(x,x)` binds in a fixed order; `$let` takes the rendered object's keys, checked to be
identifiers; `$fromNow` without `from` uses whatever the context now binds `now` to.

The interpreter enters `Render` as the constants `Evaluate` and `Interpolate`, time arithmetic as
`FromNow`, the names inside `each(..)` as tables, and so on. `MCRender` gives them values by instantiating
`Syntax`, `Pieces`, `OpProps`, `Offsets` and `Evaluation`, so its runs parse each string by the crate's
grammar; most proofs assume of them only `Contract`: they answer every string in every list of scopes, and
what should be a string is one.

Next to some definitions stands a variant with a comment that begins "Altered:". It is the definition
as a plausible bug would have it; exchanging the two makes a property fail, which is how each property
is known to depend on the code it is about (`mutants` in `PROJECT.json`).

### Semantics

`Denote(n, t, env)` gives the outcome of rendering `t` in `env` with room for `n` frames. It is written
to differ from the code: an environment is one flat object, in which an inner name replaces an outer
one, where the code has a chain of scopes; loops are comprehensions over all items, of which the first
failure counts, where the code has early exits; `$mergeDeep` and `$flattenDeep` are recursive where
`Containers` works on paths; `$sort` orders steps with `SetToSortSeq`. `Semantics!Spec` says that
a pending render delivers once, and what it delivers is `Denote` for *some single* reading of the clock
among `Times`. It shares `Evaluation` with the runs of `Render`, so the interpreter itself is not checked
against anything by the refinement, and the table of allowed properties is restated, not derived.

### The interpreter as a machine

`Evaluator!Meaning` composes what a node means of what its operands mean, by comprehension over all of
them; `Evaluation!Eval` is the recursion through it. `Interpreter` says how the code gets there: `stack` holds
one call of `evaluate` per node, with the operands evaluated so far (`vals`) and, for an object, the map
they were inserted into (`map`); `ret` is what the last call returned. `Call` evaluates the next operand,
`Resume` takes its value (`Kept`), `Propagate` is `?`, `Finish` computes the result, `Decide` is a result that
needs no further operand (`||`, `&&`, a slice of what cannot be sliced or with a limit that is no number). The
module has no recursive definition: `Nodes` is a set of trees closed under operands, and the constant
`Denoted` any solution of the equation `Denoted(n, c) = Meaning(n, c, Denoted)`; the run gives it `Eval`.

### Numbers, strings, offsets

`Numbers` counts a number in halves, so that there are fractions; a finite number is a mantissa of at most
`MaxMantissa` times a power of two (`Ulps`), and `Nearest` rounds to even, as `i64 as f64` does. `AsInt`
saturates, `AsSize` wraps. The constants keep the proportions of 53, 64 and 32 bits: a mantissa is narrower than an
integer, so large integers are rounded; the least integer is a number and the largest is not.
`Strings!SliceText` keeps the iterator of the code, which `next()` has already advanced by one when the
second `skip` counts. `Offsets` keeps `i64` arithmetic apart from `Duration`'s: a number of years is
multiplied in `i64` (wrapping, or panicking in a checked build), and then each constructor and each
addition of durations and times has narrower limits and panics outside them.

### Parser and interpolation

A parser of `Syntax` is an operator from a text and a position to a result; `Then` is sequence, `Else` ordered
choice, `Repeat` nom's `fold_many0`, and each result carries how often `value()` was entered for it, on alternatives given up as
well. The order of alternatives is the code's: `exp_expr` tries `operand ** exp` and then parses `operand`
again, `[..]` is an index first and a slice if that fails. `Interpolate` has one action per branch of the loop:
`Expand` (`${`), `Unescape` (`$${`), `CarryOn` (another `$`), `CopyRest`, `Finish`.

## 3. What the runs check

| run | inputs and bounds | properties |
|---|---|---|
| `single` | every operator with every argument of `Lists`, the conditionals, loops, scopes; two contexts; two contexts that `from_value` refuses; `MaxDepth` 6, `MaxClock` 1 | `TypeOK`, `OneClockReading`, `ImplementsSemantics` |
| `nested` | three levels: 16 wrappers around 8 wrappers around 6 cores; the loops and conditionals; `MaxDepth` 6 | `OnlyJsonRendered`, `StackBounded`, `MarkersDropped`, `ScopesNest`, `ActivationsFixed`, `ActivationsAdvance`, `ImplementsSemantics`, `Terminates` |
| `containers` | all lists of at most 3 items (`Rounds`) from small pools | `MergeDeepFollowsCode`, `LaterItemsWin`, `FlattenDeepFollowsCode`, `SortIsStable` |
| `syntax` | trees of 2 constructors (`MaxConstructors`) around an atom; texts of 5 tokens (`MaxTokens`) | `TreesSurvive`, `EmbedsUnchanged`, `WorkBounded`, `NamesAgree` |
| `interpolate` | all texts of at most 5 tokens (`MaxTokens`) of seven | `MeansItsPieces`, `EscapesUndone`, `Terminates` |
| `interpreter` | every operator and function over 13 atoms, among them NaN, a function, an unbound name, a panic; ten trees that fail, panic or decide early, inside each other | `FollowsEval`, `Ends` |
| `primitives` | mantissas of 3 bits, integers of 5, numbers up to 40; lengths up to 3; strings of 5 of four characters that take 1, 2 and 4 bytes; separators of 2 | `IndexIsExact`, `SliceIsExact`, `RangeIsDocumented`, `JsonKeepsNumbers`, `SlicesByCharacter`, `SplitSettles` |
| `offsets` | 3 components (`MaxComponents`), in every order, with 3 signs, with and without blanks and overflow checks; integers of 8 bits | `OnceAndInOrder`, `OffsetIsExact` |

* **single** is about one operator at a time: valid and invalid shapes, missing and extra properties,
  branches that fail before and after others, panics, markers, names bound twice, `now` rebound by a
  `$let` to a time and to a number, NaN among keys to sort. The clock may advance once and the flag may
  be set at any step, so a render with two readings would be seen: two readings are enough to disagree.
* **nested** makes operators meet: a wrapper that binds, chooses or collects, around another, around a
  core that fails, is a marker, a function, or reads what was bound. Six frames are enough for most of
  these templates and too few for the deepest, so the verdict `overflowed` and its place among
  other failures is compared with `Denote`, which counts frames in its argument. `Terminates` needs fairness:
  `WF_vars(Render)`, the thread that renders is scheduled and the code never waits for anything, so an
  enabled phase is taken. No fairness is assumed of the clock or of other threads.
* **containers** is the machine of `Collecting`, one item per step. Its pools hold scalars, arrays and objects under the
  same key, nested arrays, and sort keys of both types, NaN and a `null`, so lists that cannot be sorted and lists that panic
  occur. Three items are the least that tell a
  left fold from a right one and show stability between two equal keys and a third.
* **syntax** prints trees with the fewest parentheses, with and without blanks, and parses them; two
  constructors put every operator on each side of every other, which is what precedence and associativity
  are about. The texts are typed blindly, most are nonsense, and five tokens are enough for two
  brackets inside each other with something in them, which is where backtracking multiplies.
* **interpolate**: five tokens hold an expression between two escapes or with `$`s around it, strings with braces
  in them, and expressions that fail or panic after others succeeded. A value's text contains `${y}`, so a
  loop that looked at what it has written would be seen. `WF_vars(Next)`: a loop that runs is run on.
* **interpreter**: two levels of nodes. `WF_vars(Next)` for the same reason.
* **primitives** chooses a call and answers it. The widths are as small as they can be while integers
  exist that are rounded up, rounded down, beyond the largest, and as long as every position of a string or an array
  of three has numbers on both sides of it. JSON's integers go from `i64::MIN` to `u64::MAX`.
* **offsets**: three components are enough for a repetition, a wrong order, a gap, and for sums that overflow
  on the way only. Every documented spelling of a unit is tried alone (`Documented`), ten of them, with `hr`, in
  all combinations (`Combined`). Units are scaled so that they remain distinguishable in 8 bits.

`single` and `nested` check for deadlock (a render that has ended may stutter, `Ended`, so a deadlock would be
a handler with no next phase). The other machines end when their input is used up.

What is checked:

* `ImplementsSemantics`. Every render delivers what `Semantics` promises, and does not revise it. This is
  the property that the scopes, the laziness, the order of errors and the fate of markers come down to.
* `OneClockReading`. Of the times that renders read off the clock at different moments, at most one is in the
  results and accumulators of a render, in contents and keys, if the template and the context name none.
* `OnlyJsonRendered`. Without `$find`, no frame has a template that holds a function, NaN or a marker, so
  the `unreachable!()` in `_render` is that.
* `StackBounded`. Without `$find`, the stack is never deeper than the longest path of the template.
* `MarkersDropped`. Without `$find` and `$match`, no marker is inside a result, an accumulator or a scope.
* `ScopesNest`, `ActivationsFixed`. Between caller and callee at most one scope is added; a live
  activation's template and scopes never change.
* `ActivationsAdvance`. A handler never goes back: between two calls it gets to a later phase or visits one
  thing less, so it makes finitely many. (A handler that does nothing at all is what only `Terminates` excludes.)
* `TreesSurvive`. What is printed is parsed to the same tree. `EmbedsUnchanged`: where `parse_partial`
  stops is the end of an expression that means the same by itself, and a whole expression is found whole in
  front of a `}`. `WorkBounded`: the work is at most linear in the text times four per bracket, and at least two
  per bracket, so nesting is exponential and nothing else is. `NamesAgree`: the three grammars of identifiers
  in the crate bind nothing that another cannot name.
* `MeansItsPieces`. At each turn of the loop, what is written, and what the rest means, is what the text means.
  `EscapesUndone`: a text whose every `${` is escaped never fails and comes out as the text that escapes to it.
* `MergeDeepFollowsCode`, `FlattenDeepFollowsCode`. Merging and flattening along paths is what the recursion
  of the code computes. `LaterItemsWin`: each key has, whole, its value from the last item that has it.
  `SortIsStable`: what is sorted is the items in the one order in which keys ascend and equal keys keep theirs.
* `FollowsEval`. Every operand evaluated so far, and the result, is what the tree means (`Denoted`): which operands
  are never looked at, and which of several errors and panics comes out, included. The meaning and the machine
  share the operators on values, not the order in which operands are evaluated.
* `IndexIsExact`, `SliceIsExact`, `RangeIsDocumented`. Casts and rounding never change which position is
  read or which numbers are listed; exceptions are stated. `JsonKeepsNumbers`: a number is written
  as itself, an integer with too many digits as a neighbour. `SlicesByCharacter`: the byte offsets are those of
  the characters, so `expect()` never panics. `SplitSettles`: only separators and empty parts are lost.
* `OnceAndInOrder`, `OffsetIsExact`. Exactly the offsets with each component once and in order are
  accepted, but for those with hours written `hr`, which are refused; the time that comes out is the exact one.
* `Terminates`, `Ends`. A render, a loop over a string, an evaluation ends.

Four further runs check a claim that a comment or a page of the documentation makes and that the code
does not keep; they are the table of section 5, each on one input.

## 4. What is proved

Twenty-two theorems. Eight are about the renderer, for **every** set of strings, every template and context (of
any size), every interpreter within its contract, every stack size and clock; seven about the array and
object operators, for every list and every value; one about the interpreter, for every tree and context;
four about numbers, for every width of mantissas and integers, every set of numbers and every length; two
about texts, for every alphabet, every number of bytes per character and every text:

| theorem | establishes |
|---|---|
| `RenderProofs!TypeCorrect` | `Spec => []TypeOK` |
| `SafetyProofs!JsonOnly` | `Spec => []OnlyJsonRendered` |
| `SafetyProofs!DepthBounded` | `Spec => []StackBounded` |
| `SafetyProofs!ScopesNested` | `Spec => []ScopesNest` |
| `SafetyProofs!ActivationsStay` | `Spec => ActivationsFixed` |
| `SafetyProofs!ActivationsEnd` | `Spec => ActivationsAdvance` |
| `ConfinementProofs!MarkersEnd` | `Spec => []MarkersDropped` |
| `ConfinementProofs!OneReading` | `Spec => []OneClockReading` |
| `ContainerProofs!LaterItems` | `Spec => []LaterItemsWin` |
| `ContainerProofs!StableSort` | `Spec => []SortIsStable` |
| `DeepProofs!MergeDeepUnfolds` | `MergeDeep(a, b)` satisfies the equation by which `merge_deep` recurses |
| `DeepProofs!DeepMergedIs` | the recursion of `merge_deep` has one result, `MergeDeep(a, b)` |
| `DeepProofs!MergeDeepIsTheCode` | `Spec => []MergeDeepFollowsCode` |
| `DeepProofs!FlattenDeepIs` | `FlattenDeep(v)` is the array of what the recursion of `flatten_deep` pushes |
| `DeepProofs!FlattenDeepIsTheCode` | `Spec => []FlattenDeepFollowsCode` |
| `InterpreterProofs!FollowsMeaning` | `Spec => []FollowsEval` |
| `PrimitiveProofs!IndexTheorem` | `Spec => []IndexIsExact` |
| `PrimitiveProofs!SliceTheorem` | `Spec => []SliceIsExact` |
| `PrimitiveProofs!RangeTheorem` | `Spec => []RangeIsDocumented` |
| `PrimitiveProofs!JsonTheorem` | `Spec => []JsonKeepsNumbers` |
| `PrimitiveProofs!SubstringTheorem` | `Spec => []SlicesByCharacter` |
| `PrimitiveProofs!SplitTheorem` | `Spec => []SplitSettles` |

**Assumptions.** TLC evaluates each of these on the runs.

* `StringAssumption`: strings have a total order of bytes. `CharsAssumption`: a string has a finite number
  of characters. `PoolAssumption`: the items of lists are trees, that is, every node hangs below another.
* `RenderAssumption`: the tables that stand for `op_props.rs` yield identifiers, the operators' names are
  strings, the stack holds one frame. `InputAssumption`: a template and a context are JSON.
* `TreesAssumption`: a syntax tree is a node of `node.rs` over syntax trees. `MeaningAssumption`: `Denoted`
  composes the meaning of each node of those of its operands. Nothing says that trees are finite, and nothing
  needs it: an evaluation that returns, returns what the tree means.
* `WidthsAssumption`: mantissas are odd at most, like 2^53 - 1, and the distances of neighbouring numbers double
  from a half upwards; numbers reach past the integers, the least integer is a number, `usize` is as wide as `i64`.
  `LengthAssumption`: a length fits an `i64`. `CharacterAssumption`: a character takes at least one byte.

Each theorem about the renderer has the hypothesis `Contract(Seq(Value), Value)`: the interpreter answers
every string in every list of scopes, and what should be a string is one. Two need more of it.
`MarkersEnd` needs `Closed(Unmarked, ...)`: what the interpreter computes of values without a deletion
marker has none; no expression denotes one, so the crate's does so. `OneReading` needs `Separate(Speech,
...)`: for each reading of the clock there is a set of strings, closed under everything an expression of
the template can compute, that contains the template's and the context's strings and no *other* reading. The crate
keeps it for templates that compute no time of another, with an offset or letter by letter. `MCContract` and
`MCClosed` check these hypotheses for the strings and the contexts of the runs.

**Type correctness.** `TypeOK` is not inductive: a handler that resumes after a call relies on what it
checked before. `Typed` adds to each frame (`Good`) that its operator is a key of its template, that
`$sort` in its loop has a string for a key expression, and that `$fromNow` waiting for its value has a
string for a reference. With these, every `Field` that the code unwraps exists and every `StrOf` is a string. There is one lemma per
action (`MapElementTyped`, ...), on top of lemmas for what an action can do with its frame
(`GotoTyped`, `CallTyped`, ...); `ValueProofs` shows for each operator on values, among them
`MergeDeep`, `FlattenDeep` and `Sort`, that its result is a finite value.

**What is rendered and how deep.** Neither `OnlyJsonRendered` nor `StackBounded` is inductive. The
strengthening `Parts` says that, without `$find` in the template, the frame at depth *d* + 1 renders a
`Part` of it: all its nodes are JSON, none of its paths mentions `$find`, and each path is at least *d*
steps shorter than some path of the template. It also has to speak of `$match` and `$switch`, whose
loops keep templates in `val` and `acc`. A child of a part is a part one level deeper
(`ChildPart`), which is all that most handlers need. `$reduce` and `$map` render properties of their
template, whatever the data, and that is why data cannot be rendered; `$find` renders an item and has to
be excluded. Both theorems follow from the same invariant.

**Scopes.** Every step has a `Shape`: it leaves the stack, pops it, replaces the top by a frame of the
same activation, or adds a frame that sees the caller's context or one scope more. `StepShape` proves it
action by action, `ShapeScopes` and `ShapeFixed` draw the conclusions for all actions at once.

**Progress.** `Advances` sorts the steps in the same way by what they leave of the handler's frame:
`StepAdvances` proves that a call needs a later phase (`PhaseGoesOn`) or one item less in `todo` (`AdvanceGoesOn`),
and that a step that has neither takes what a callee returned. `ActivationsEnd` and `DepthBounded` together
are the safety half of `Terminates`: without `$find`, a render is a tree of calls with finitely many branches at
each activation and no path longer than the template is deep.

**Markers and times.** Both theorems follow from one invariant, `Confined(D)`: every label of every value in a
frame, a scope or the result is in the set of labels `D`. A step keeps it (`StepConfined`, action by
action) for every `D` with the constructors the renderer uses that is `Closed` under the interpreter. The only label
the renderer adds is the marker; it is put in a result, and the containers that receive the result drop it (`Kept`),
but for `$match`. With `D` all labels but the marker this is `MarkersEnd`, by an invariant `MarkersOut` that
lets the marker itself be the result. For `OneReading`, `D` depends on the time read: `Fresh` says that no frame exists
before `Start` has read the clock, and `OneNow` that from then on there is *some* reading `t` for which everything is
confined to `Speech[t]`, whatever the clock does later.

**Lists.** `Collected` says that the accumulator of `$sort` and the array of its keys are the lists of what was
consumed, and that in `$merge` later items have won. That `Sort` is stable is then a fact about a
strict total order of positions, by key and then by position: the rank of an item, the number of those before it, is a
bijection from positions to positions, and its inverse is the order that `SortIsStable` asks for.

**Deep merging.** `MergeDeep` says which nodes the result has, by the paths on which both sides are objects
(`Joined`) and those where they first differ (`Meeting`). `merge_deep` recurses key by key. `MergeDeepUnfolds`
proves the latter equation of the former, by following each node from its first step. It has no other solution,
by induction over trees: a child has fewer nodes than its parent (`ChildSmaller`), so of the trees for which a claim
fails one has the fewest nodes, and the claim holds of its children (`TreeInduction`). The recursion has a
solution, since `MergeDeep` is one, and this is how `DeepMergedIs` may speak of the recursive function at all.
`Merging` carries it along the loop.

**Deep flattening.** `FlattenDeep` ranks the paths of the leaves; `flatten_deep` pushes what the calls for the
elements push. `InOrder(s, S)` says that the list `s` is the set of paths `S` in order. Lists are determined by that,
grow by what comes behind (`OrderAppended`), and keep their order below a common step (`OrderPrefixed`). `Listed` is
the same for the values at the paths. So if each call has pushed the leaves of its element in their order, the lists put
one behind the other (`Chains`) have those of the array (`ListedChain`), and `TreeInduction` does the rest. What
`$flatten` has spread before does not matter because concatenation is associative (`Flattening`).

**The interpreter.** `FollowsEval` is not inductive: a result also depends on which operands have been passed
without a decision, on the one that is awaited, and on the map that an object has been put into.
`Sensible` adds these for each call on the stack, and that the call above it evaluates the awaited operand.
Then there are three ways to return: an operand decides (`DecidedIsMeant`), an operand fails
(`FailureIsMeant`), all have values (`ResultIsMeant`); each is what `Meaning` says of that node, although `Meaning`
looks at all operands at once and takes the first failure that counts. An object whose map is filled as members
come (`MembersGrow`) holds, for a key written twice, the later value.

**Numbers.** The inductive invariant, `Replied`, is short: an answer is the answer to the call. The rest is
arithmetic. `number_to_i64` compares a number with its own cast, and that does not look enough to reject a
fraction, since the cast may be rounded on its way back. `NearestWhole` is why it is: an integer is rounded
to an integer, because the distance between neighbours (`Spacing`) is either a half, and then nothing is
rounded, or a whole number. So what is accepted is whole (`IntegersAreWhole`), and what is whole and within
`i64` is accepted and cast exactly (`WholeAreIntegers`). Beyond `i64` the cast saturates, and `x as usize`
wraps a negative position: `SizeOfIndex` and `WrapLimits` show that the position then lies outside every
array. `range` ends where it should because of `Euclid` and `StepsWithin`: no step before the limit
leaves `i64`. For JSON, `JsonTheorem` needs that rounding passes no
number: an integer between two numbers becomes one of them, so what is read back is a neighbour, and itself if
it is a number.

**Substrings.** `str::get` is given byte offsets. Since every character takes room, the offsets rise strictly
(`OffsetsRise`), so the bytes between two of them are those of the characters between (`BytesBetween`), whole;
the first offset that the advanced iterator finds, and the limit where it ends, are those of the positions asked for.

**Splitting.** `SplitSettles` is about splitting what was joined of what was split, with the empty parts gone.
`CutsExist` and `CutsUnique` make the recursion of `str::split` a function: a text has one chain of parts, each from
the end of a separator to the *first* place where the next one stands (`Chain`, `SplitAtChain`). Hence a part
followed by the separator is `Clean`: the separator does not stand in the two together before the end of the part. A
part without the separator in it is not enough: `aa` stands at the second character of `ba` and `aa` together. Parts
that have no separator in them, and of which all but the last are clean (`Tidy`), form, joined,
again a chain (`JoinChain`), which by uniqueness is the chain of what they make. `ChainTotal` counts what is dropped: one
separator between two parts. A text split by `""` is its characters one by one (`CharactersFilled`), and
joined with `""` it is itself.

**Only model-checked.**

* `ImplementsSemantics`: `Denote` and `Evaluation` are RECURSIVE operators, of which the provers know nothing.
* `TreesSurvive`, `EmbedsUnchanged`, `WorkBounded`, `NamesAgree`: `Syntax` is a grammar of RECURSIVE operators.
* `MeansItsPieces`, `EscapesUndone`, `OnceAndInOrder`, `OffsetIsExact`: their texts are strings of TLA+, read
  character by character. TLC takes a string for a sequence; the provers take it for a value without parts.
* `Terminates`, `Ends`: liveness under fairness. Of `Terminates`, `DepthBounded` and `ActivationsEnd` are the
  part that is safety.

## 5. Where code and documentation disagree

Four disagreements have a run, which finds the behaviour that refutes the claim:

| run | claim | code |
|---|---|---|
| `find_function` | `render.rs:87`: a template "cannot contain DeletionMarker or Function" | `$find` renders an item of data, which may be a function: `unreachable!()` is reached |
| `reduce_initial` | `render.rs:479`: "Unwraps here are safe" | two `each(..)` properties pass the check, and `initial` is then unwrapped on `None` |
| `sort_nan` | `render.rs:843`: "we do not deal with NaN" | `0/0` is NaN, `is_number()` accepts it, `partial_cmp` gives `None`, `unwrap()` panics |
| `find_endless` | `introduction.md:18`: any render "will finish in finite time" | an item of `$find` may be the same `$find` again; the native stack overflows |

In these runs `FindItem`, `ReduceBegin` and `SortResult` are the actions at fault. The
runs that pass model the same behaviour: `Semantics` gives a panic where the code panics, and
`OnlyJsonRendered` and `StackBounded` exclude `$find` explicitly.

The others are part of properties that hold, because those state what the code does:

* `language.md:27`: the context is "used as the next scope, an thus can override built-in" variables. `now` is
  inserted in a scope *inside* the caller's context and cannot be overridden (`Render!Start`; `Semantics` binds
  `now` last).
* `operators.md:275`: `$find` is "returning the first value for which the expression evaluates to `true`". The
  item is rendered once more, so `$${x}` in data loses its escape (`FindItem`, and `Denote` for `$find`).
* `operators.md:479`: "You can use `$$` to escape such properties". The test for an operator looks at
  the interpolated key; `$${x}` has become `${x}` and is rejected (`Reserved`).
* `simple.md:3-4`: "a template without any directives is rendered unchanged". Integers with more digits than a
  double holds come out as a neighbour (last conjunct of `JsonKeepsNumbers`).
* `built-ins.md:175-176` describes `range` for all limits. Counting down to `i64::MAX`, or past it, panics, or wraps without
  overflow checks (`PastTheEnd` in `RangeIsDocumented`).
* `expressions.md:164-165`: "a Python-like indexing scheme". A string's index past the front gives the first
  character, where an array's is an error (`Reached` in `IndexIsExact`).
* `operators.md:142`: `hr` is one of "the available units". `fromnow.rs:109` takes the `h` of `1 hr`, leaves the `r`
  and refuses the offset, which the other implementations accept (`js/src/from-now.js:9`, `py/jsone/shared.py:42`,
  `internal/jsone.go:113`): `Abbreviated`, the exception in `OnceAndInOrder`.
* `fromnow.rs:64`: "fromNow assumes 365 days". Without overflow checks the product wraps, and a year number that is
  large enough gives a small offset (exception in `OffsetIsExact`).
* `README.md:34`: "Any discrepancy in behavior between the implementations that is not documented" is a bug.
  `split` drops empty parts, which `js/src/builtins.js:143` (`input.split(delimiter)`) and
  `py/jsone/builtins.py:150` keep (`SplitSettles`). A unary operator takes a value, so that `!!x` is an error, where
  `py/jsone/parser.py:118` and `js/src/parser.js:86` say `unit : unaryOp unit | ...` (second conjunct of
  `TreesSurvive`). `$switch` ignores further properties of its template, alone among the operators (`render.rs:587`
  to 626 has no `check_operator_properties`), where `js/src/index.js:318` and `py/jsone/render.py:398` refuse them
  (`Allowed` in `Semantics`).

## 6. What is not modelled

* **Wording.** The text of numbers, arrays and objects that `to_json()` writes, the text of a time, and
  which letters `lowercase` and `uppercase` exchange: constants or short tables, since no property is about them.
* **Fractions and infinities in whole expressions.** `Evaluator` works on unbounded integers and NaN, and `/` and
  `sqrt` are inputs only where the result is one. `Numbers` has fractions, infinities and widths, for the places
  where they decide what happens (indices, slices, `range`, JSON); products and powers of doubles are not there.
* **Other widths of `usize`.** It is taken to be as wide as `i64`.
* **Native stack.** Frames of `_render` are counted, not measured; the stacks of `merge_deep`, `flatten_deep`, the
  parser, the evaluator and of conversions are not counted, so their recursion always fits.
* **Panics.** A panic ends the thread. What an application that catches it sees is outside the crate.
* **`errors.rs`, `lib.rs`, `interpreter/mod.rs`, `build.rs`.** Constructors of messages, re-exports, and a generator
  of test functions that runs at build time: nothing in them changes state or decides anything.
* **The other implementations, the documentation site, the release scripts.** The former are separate
  programs, quoted above where they state what all of them promise; the latter have no behaviour to check.

## 7. Plan

Modules in order of importance; all are written.

1. `Values`, `Containers`, `Collecting`, with `ByRecursion` as a reference, and `MCContainers`.
2. `ExprOps`, `Evaluator`, `Evaluation`.
3. `Render`, the core. Abstract specification: `Semantics`; refinement checked by `single` and `nested`.
4. `MCFindings`.
5. `ValueProofs`, `RenderProofs`, `SafetyProofs`, `ConfinementProofs`, `ContainerProofs`, `DeepProofs`.
6. `Interpolate` and its abstraction `Pieces`, which the renderer's runs use.
7. `Numbers`, `Strings`, `Positions`, and `PrimitiveProofs`.
8. `Offsets`.
9. `Texts`, `Syntax`, `OpProps`.
10. `Interpreter`, a machine for `Meaning`, and `InterpreterProofs`.

All of it is written, and every safety property of 1, 3, 7 and 10 is proved but for the refinement. To prove that,
`Denote` and `Eval` would have to become functions on trees, as `FlatList` and `DeepMerged` are, and
the induction would follow the stack: what a frame is still to return is what `Denote` says of its template.
