# A verification project for `yaspar-macros`

`#[stack_safe]` rewrites a group of mutually recursive Rust functions into one loop over an
explicit stack of frames, so that deep recursion uses the heap. This directory holds TLA+
models of the rewriting and of the code it emits, the TLC configurations that check them on
small instances, and TLAPS proofs of the facts that carry the most weight.

Paths below are relative to the repository: `src/stack_safe/*.rs` is the macro, `defs/src/lib.rs`
the run-time support crate, and "README 234" is line 234 of the repository's own `README.md`.

## 1. The system

The macro is sequential. Two things in it are state machines in the usual sense: the *machine*
it emits (`driver.rs`: frames, the context slots, the pinned stores, the value in flight), and
the *expansion* (worklists, in-place closures, a body with holes). Both meet hard cases through
long sequences of individually legal steps rather than through concurrency: nothing runs in
parallel, nothing is persisted, no message can be lost.

| Component | State | Operations | Who calls it |
|---|---|---|---|
| `Pin` (`defs/src/lib.rs` 121-205) | chunks of fixed capacity, a length | `push`, `take_at`, `take_last`, `truncate`, drop | emitted code, at calls and loops that lend |
| driver loop (`driver.rs`, `defs` `push`/`push_grow`) | frames, capacity, current entry or value | enter, call, tail call, loop iteration, resume, shared and per-frame `?`, return | emitted code |
| lending and context slots (`cps.rs` 403-657, 1004-1198; `leaf.rs`; `walk.rs` 155-276) | the two stores, slots, marks in frames | lend, park, swap, abandon an argument list, resume, leave a loop, panic | emitted code |
| context parameters (`context.rs`, `emit.rs` 36-359, `analyze.rs` 380-470) | slot table of a group, then the slots | promote, split, classify, swap, restore | `emit.rs` and emitted code |
| lowering (`cps.rs`, `leaf.rs`) | the continuations of what is being rewritten | `cps_expr`, `cps_stmts`, `cps_place`, `cps_seq`, `lower_loop`, the exits of `LeafRewrite` | `emit.rs`, per body |
| payload solver (`loop_state.rs`) | solved, needed, derived sets per point | one round over the points, until nothing changes | `emit.rs` |
| call graph and expansion order (`scope.rs`, `scan.rs`) | definitions, edges, closure, bodies with holes | collect, resolve, close, reject, take, expand, put back, emit, report | `group.rs`, entry point |
| validation (`analyze.rs`) | none (visitors) | rejections | `emit.rs` |
| options and attributes (`stack_safe.rs`) | the options in force at each definition | parse, merge, take the markers off an item, compare | `scope.rs`, `scan.rs` |
| scopes and groups (`group.rs`) | none | list and rebuild the functions of a `mod` or `impl` | entry point |
| trait delegation (`delegate_trait.rs`) | the invocations of a helper macro still to be expanded, the items emitted | record a trait, check an impl block, subtract what it wrote, fill in defaults, forward | its own two attributes; then the compiler, one arm at a time |
| names (`names.rs`) | a counter | fresh identifiers | all of the macro |

How they interact. `expand_roots` finds the cycles of a scope, takes the members of each out of
the bodies they are declared in and hands them to `expand_group`. That splits the parameters into
context slots and payload, lowers each body in continuation-passing style, and gets back a list of
resume points and loop heads; the payload solver decides what each of them carries; `driver.rs`
supplies the loop. At run time the frames, the stores and the slots are three structures that
have to move together: a frame carries the marks of the stores and the displaced pointers of the
slots at the time it was parked.

What is hard: the rewriting moves code across a suspension, so order and operand values are at
stake (`Lowering`); a `?`, `return`, `break` or panic may leave half an argument list behind
(`Lending`); a tail call or a hoisted `?` check drops a frame that something may still need
(`Driver`); a value that is lent is found again by address or by an index (`Pin`, `Lending`); a
slot is shared by all the activations of a group (`Contexts`); a nested function is addressed by
ordinals while its surroundings are taken apart, and has the options of the innermost marker around
it (`CallGraph`); a helper macro that cannot compute subtracts one list of names from another and
substitutes generic arguments by matching (`Delegate`).

## 2. Modules

| Module | Models | Extends / refines |
|---|---|---|
| `PinStack` | what `Pin` promises: a stack of addressed values | |
| `Pin` | the chunked store, destructors run between the iterations of its loops | implements `PinStack` |
| `Driver` | the emitted frame machine | |
| `Lending` | what emitted code does with stores and slots | uses a store by its `PinStack` behaviour |
| `Options` | markers: what they may hold, how several are merged | |
| `CallGraph` | the expansion of a scope | extends `Options` |
| `Payloads` | the payload fixpoint | |
| `Programs` | bodies, as the sequences of their expressions | |
| `Evaluation` | Rust's evaluation of such a body (external) | extends `Programs` |
| `Lowering` | the rewriting of the body, run in lockstep with `Evaluation` | extends `Evaluation` |
| `Contexts` | the analysis of a group's context parameters, and its slots at run time | |
| `Delegate` | both delegation attributes and the helper macro | |
| `PinProofs`, `DriverProofs`, `LendingProofs`, `CallGraphProofs`, `PayloadsProofs`, `LoweringProofs`, `DelegateProofs`, `ContextsProofs` | theorems | each extends its component |
| `MC...` | instances for TLC | |

**Pin.** `chunks`, `len` are the fields; `op` is what is left of a running `truncate`, `take_at` or
`take_last`, because a destructor of the user's runs in each iteration. A chunk is a buffer (an
allocator block) and its values, so that "never moves" is a fact about addresses
`<<buffer, index>>`. Actions are the methods' steps; the refinement maps a running operation to
the abstract store before its effect.

**Driver.** A program is abstract: `moves[a][got]` is what activation `a` does next when its calls
so far answered `got` (call, call under `?`, go round a loop, finish), and `native` solves the
equations of native recursion for the same program. The state is the frame vector with its
capacity, the entry or value being handled, and the variant of the return-type union the value is
in. `ChecksShared`, `IsTail`, `Union` are the macro's decisions about the group. The drive loop of
the `defs` crate (`drive`) is the case of one member without `?`.

**Lending.** One context slot, the shared store and one store of an alias-typed position. A step is
one piece of emitted code between two pieces of user code, and user code is arbitrary: it may call
with any argument list of `Sites`, leave it half way (by `?` or `return`, `LeaveArgs`, or by `break` or
`continue`, after which the same body goes on, `BreakArgs`), enter and leave loops over a borrowed
collection, finish or panic. The record `call` in a frame holds the marks, the parked locals with
their indices and the saved pointer, as the emitted frame does. A frame is resumed in steps, as its arm
runs: `Resume` takes the call out of it, each `TakeBack` one parked local (last first), `Resumed`
cuts the stores, restores the slot and goes on with the body or with the frame below. `Lapses` names two ways of leaving
that a program may or may not use; see the findings.

**CallGraph.** A scope is what `collect` and `mentioned` read off the source: definitions addressed
by owner and path, and the way each call is written. `Check` is the sequence of rejections,
`Close` one round of the closure done in place, `Take` and `Expand` the loop of `expand_roots`,
and `held[i]` the slots of the body of `i`: a function, the placeholder of `take`, or a driver.
`Rejected` are the errors of a cycle, and `HoistedFrom` the items of one member that enclose the bodies of
all: those that stand in its body and not in a block of it, which must not be named like another member's.
`InForce` is what `collect` makes of the markers while it goes from a body to what it declares; a
module or impl block in or beside the bodies is the same code at work on another scope, so how it
comes out (`rewritten`, `unchanged`, `error`) is an input; `PassedOn` is what it is expanded with. `Emit` puts the container together and
decides between success and the no-effect error; `Copied` and `Renamed` are the copies kept as
written and the calls in them.

**Options.** A marker is the list of its options, a definition the list of its markers. `With` reads
one option, `TakeFrom` the markers of an item, `Merge` joins two. `Asked` says the same without
going through the lists, and is what `InnermostWins` compares with.

**Delegate.** A case is a trait (parameters with their defaults, methods with receiver, signature and
`#[cfg]`) and an impl block (arguments, written methods). Code is a sequence of words, each a
name in a place (type, expression, lifetime, binding...) or a metavariable; `Rewrite` is what the
macro puts into the helper and `Transcribe` what `macro_rules` makes of it. An action is one arm of
the helper applied to one pending invocation: `Open` fans out over the recorded methods,
`SkipWritten`, `Pop` and `Forward` walk the skip list, `FillIn` adds omitted defaults, `Unmatched` is
the arity guard. `Meaning` and `Complement` say independently what rustc makes of generic arguments, and `Due` what has to
fail. `Supported` says that the defaults a block leaves out mention only parameters it passes, and
`CompiledOutForwardable` that a missing method whose `#[cfg]` is off could be forwarded: what the helper
makes of other cases is the subject of section 4.

**Payloads.** A point has its scope, forced names, derived names (the index of a range loop), what
its code reads and the points its code enters. The passes of `solve_payloads` update the sets in
place in point order, and `again` is its `changed` flag. `r#name` and `name` are one identifier
here, as `canonical` makes them.

**Lowering.** A body is the sequence of its expressions, each after its operands; an expression is known
by its number, and the last is the whole. A leaf stands for any code without recursion and may come
to a value, `return`, `break` or `continue`. The rewriter is written with closures
(`k(quote! {..})`); they are defunctionalised: `conts` is the stack of continuations, a piece of
code is the sequence of what it runs, and it runs where the rewriter emits a statement for it. A leaf
carries the loop it was spliced in (`Env`, the `lp` of the code), because its `break` and `continue`
are rewritten for that loop even where the code is run behind it, as the value of a `break` is.
Every event of the rewritten body (`said`) is matched by the next event of the original one
(`Original`), on the same operands and with the same outcome. `Hands` and `Late` say, by the form of
a body alone, where an operand is left that still has code to run when a later one recurses;
`KeepsOrder` is that there is none, and `InOrder` that this holds of every body.

**Contexts.** A group is members with reference parameters in some order, the names each body binds
again, and its calls. `Analyse` is `invariant_shared_contexts`, `split_params`, the comparison of
the slots and `scan_context_args`; then any member is called from outside and activations call,
tail-call and return, each with the references native recursion would have given it. A place is lent by
naming a part of a parameter: `Parts` do not overlap, so a call may lend two of one parameter, each of the
type its position asks for, which need not be the parameter's own. `Straight` says
that a group's calls keep every `&mut` parameter in its slot.

## 3. Runs

States are distinct states on the configuration given.

| Run | Properties | States | What it shows |
|---|---|---|---|
| `pin` (`MCPin`) | `TypeOK`, `LenIsCount`, `NeverMoves`, `OperationsEnd`, `Implements` | 20 542 | the store is the promised stack through any order of operations; no value moves |
| `driver` (`MCDriver`) | `TypeOK`, `AnswersNative`, `RightMember`, `FrameMemory`, `Terminates` | 11 314 | the machine answers as native recursion, `unreachable!` is, and frames are bounded by the nesting |
| `lending` (`MCLending`) | `TypeOK`, `PointersLive`, `TakesBackOwn`, `SlotOwn`, `DroppedUnlessLapsed` | 715 417 | no dangling reference, parked locals come back, slots are restored, stores are cut back |
| `call_graph` (`MCCallGraph`) | `TypeOK`, `ReachesRight`, `InnerFirst`, `NeverPanics`, `OutputComplete`, `NoCycleLost`, `MembersFollowed`, `InnermostWins`, `CopiesApart`, `EffectReported` | 132 588 | closure, order of expansion, agreement of resolution with rewriting, the options in force, the copies, and the no-effect error (two exceptions, section 4) |
| `payloads` (`MCPayloads`) | `TypeOK`, `Available`, `NothingMore`, `Settles` | 114 304 | the least sufficient payloads, and the rounds end |
| `lowering` (`MCLowering`) | `TypeOK`, `SameOrder`, `SameOperands`, `CutCarriesValues` | 554 803 | the rewritten body does what the written one does |
| `contexts` (`MCContexts`) | `TypeOK`, `NoAliasing`, `ParametersKept` | 16 109 | the slots are every activation's own whenever it looks |
| `delegate` (`MCDelegate`) | `TypeOK`, `Complete`, `TrueSignatures`, `FailsRightly` | 18 928 | the helper supplies the missing methods and no others, with the right signatures, and fails for what it should (two exceptions, section 4) |
| `alias_before_place` | `TakesBackOwn` | violation | finding 1 |
| `call_meaning` | `CallsKeepTheirMeaning` | violation | finding 2 |
| `late_operand` | `SameOrder` | violation | finding 3 |
| `crossed_slots` | `ParametersKept` | violation | finding 4 |

Bounds, and why they are enough.

* `pin`: chunks of two (64 in the code), three buffers, at most five values. Every transition of a
  chunk (empty, partial, full) and of the chunk vector (none, one, several) occurs, and the
  proofs cover every capacity.
* `driver`: four activations, two members, up to two calls each; `FIRST_FRAMES` 1, so that the
  vector grows twice. Sharing a check, a tail call, a union and a loop iteration all meet in one
  run. Proved for every program.
* `lending`: two frames, four values stored in a run, one borrowing loop in a body, argument
  lists of up to two lends, left at any argument by either kind of exit. Two frames give a callee's callee that swaps, lends and parks again
  over an ancestor that still needs its own. Proved for every bound and every set of sites.
* `call_graph`: four definitions in four shapes of nesting, where the two outer bodies make up to
  two calls and the others one; three and two definitions of two names with every way a call can
  be written. Markers: none, an empty one, either flag, a suffix, and two on one item, at three levels
  of nesting, under a marked and an unmarked container, and each one-option marker that is refused.
  Containers in a body, in a nested body and beside the bodies, with each outcome, with and without
  a recursion, and under marked functions. Two members that declare items of one name, in their bodies or
  in blocks of them. Paths of three calls, cycles inside cycles, siblings, homonyms and shadowing all occur. Proved for
  every set of scopes, `InnermostWins` for markers of any length.
* `payloads`: three points and four names: the arm of a range loop, a point inside and one behind
  it. Enough for a need to travel against the order of the rounds. Proved for every instance.
* `lowering`: all bodies two levels deep, and those of three levels that hold one recursive
  subtree of that kind; loops left by a `break` whose value has code still to run, alone and as an
  operand; two loop turns (`MaxTurns`), so that an item is advanced at least once.
  Proved for every set of bodies in order, of any size, and any number of turns.
* `contexts`: one and two members, two `&mut` and one shared parameter in seven arrangements, one with
  slots of two types; two parts in a value, lent alone, crosswise or both in one call; four
  nested activations (`MaxDepth`), so that a slot is displaced, displaced again and restored. Proved
  for every depth and all groups that are straight or refused.
* `delegate`: three methods in one trait (required or not, each receiver, gated or not) and the
  blocks that write any of them in any order; up to two parameters of each kind with and without
  defaults, a default that mentions the parameter before it, which a block must pass or may leave out too, up to
  three arguments, signatures with a word in every kind of place. Proved for every trait and block
  (`TrueSignatures`: every one that is `Supported`).
* `MaxLen`, `MaxFrames`, `MaxBorn`, `MaxLoops`, `MaxTurns` and `MaxDepth` cut runs; `MaxCalls` and the
  finite sets of programs, scopes, problems and groups bound the inputs. Machine integers are far
  from their limits: `len` and the frame capacity count values in memory.

Deadlock is checked for `pin`, `call_graph`, `payloads`, `lowering` and `delegate`, whose terminal states
stutter explicitly (for `delegate`: no invocation of the helper is ever left without a matching arm). The other systems stop when the outermost call has returned (or the group is
refused), and their configurations say so.

**Fairness.** `Driver`, `Pin` and `Payloads` state weak fairness: of `Next` for the machine and the
payload passes, which are single loops with no outside to wait for, and of the steps inside an
operation for `Pin`, whose destructors are assumed to end but whose user need never call again.
`Terminates`, `OperationsEnd` and `Settles` rest on it. A program of `Driver` has a native result by
assumption, so `Terminates` says that the machine ends whenever native recursion does. The other
modules state no fairness and only safety is asked of them.

**Mutants.** Each property of a passing run has a mutant listed in `PROJECT.json`: an operator named
`...Mutant`, defined next to the one it replaces, with a slip one could make there (a swapped row
and column, a missing reset, a dropped check). With it in place the property fails.

## 4. Findings

1. *Alias-typed lend before a parked place* (`cps.rs` 438). The index of a parked local counts the
   pushes into both stores but is added to the mark of one, so the resume arm takes back nothing
   and panics at `expect("parked by this frame")`.
2. *A bare call in a group of methods* (`walk.rs` 565). The rewriting matches it by name, while the
   call graph and the language resolve it to a free function.
3. *An operand that recurses is not bound* (`cps.rs` 1399). In `g(f(n - 1)) + f(n - 2)` the call of `g`
   moves behind `f(n - 2)`, against README 234. The exceptions listed in README 277-281 are receivers read late and
   coercions of arguments; this one is neither.
4. *Crossed context arguments* (`context.rs` 74). The name of any context parameter is taken for
   "the slot itself", so `f(n - 1, b, a)` for `f(n, a, b)` runs as `f(n - 1, a, b)`, and members that
   declare `&mut` parameters of one type in another order are crossed the same way.
   `f(n - 1, &mut b.part, a)` under `use_nonlinear_mut` gives both slots a path into `b`.

The passing runs leave exactly these programs out (`MCSites`, `KeepsOrder`, `Straight`),
and the violating runs consist of them; `MembersFollowed` is about calls the graph follows.

Noticed while reading and described here without a run of their own. Where a property of a passing run has an
exception for one of these (named below), the case is among the inputs of that run, and the property fails there
without the exception.

* *Two exits keep a lent value in its store* (`cps.rs` 738, `leaf.rs` 69). `return rec(..)`, or the
  error of `rec(..)?`, inside a loop over a borrowed collection does not run `Env::teardown`; and
  an argument left with `?` after one that lent a value leaves that value behind, because the
  call's own marks are only cut by its resume arm. Nothing dangles (`PointersLive` holds with these
  exits, `Lapses`), but values live until an ancestor's truncation, against README 212-213 ("drops it
  exactly when the callee's subtree ends") and the
  comments at `walk.rs` 609 and `cps.rs` 1169. `DroppedUnlessLapsed` is about programs without them.
* *A path call* (`T::g(..)`) is let through when its caller also reaches its callee by calls that are
  followed (`scan.rs` 411), and then recurses natively; README 246 lists "a call through `T::f(..)`" among
  what is refused. `NoCycleLost` says that the two share a driver, not that this call goes through it.
* *A container in the body of a marked function* is expanded under the scope's options, not the
  function's (`scan.rs` 447, before `collect` reads the markers), where `src/lib.rs` 71 says "Options can go on a
  container or on individual functions inside it; the innermost wins". `InnermostWins` says so of every function, and
  of every container but those without a marker of their own under a marked function.
* *A container in a body counts as an effect* whether or not anything in it was rewritten: the visitor answers
  whether it found one (`scan.rs` 385), which `expand_reporting` passes on as "whether anything was rewritten"
  (`scan.rs` 147). An annotated scope without any recursion, one of whose bodies holds an `impl` block, is
  accepted, where `scan.rs` 132 says "an error if nothing was rewritten", README 251 rejects "an attribute that does
  nothing" and `src/lib.rs` 76 "an attribute on something that does not recurse". `EffectReported` excepts this
  (`UnchangedInBody`) and nothing else. For the same reason a marker on such a container itself, in a body or
  beside the bodies (`scan.rs` 344-353, `group.rs` 132-138), is dropped without an error if nothing in it recurses.
* *A default that mentions an omitted default.* For `trait P<A = u8, B = Vec<A>>` with both left out the arm that
  fills in `B` passes on a metavariable nothing has bound (`delegate_trait.rs` 438-446), although README 451-452 lists
  "a default that mentions an earlier parameter, as in `trait Pair<A, B = Vec<A>>`" among what is supported. The
  arguments are then taken for a wrong list. `FailsRightly` and `TrueSignatures` say of other cases
  (`Supported`) what has to come out.
* *The error for a method without a receiver* is emitted without the method's `#[cfg]` (`delegate_trait.rs`
  599-602), so a block fails to compile for a method this build does not have; `delegate_trait.rs` 24 and 113-114 and
  README 455-456 ("a configured-out method is not delegated") say the attribute travels. `FailsRightly` asks for
  the exact errors only where no such method is missing (`CompiledOutForwardable`).
* `rename_calls` (`analyze.rs` 217) renames `x.g(..)` in the copies of a free function `g`, and bare
  calls in the copies of methods, where neither can name `g`; `CopiesApart` is about calls that
  resolve to a definition of the scope.
* Two required methods of one name under opposite `#[cfg]`s both meet the first arm of the helper
  (`delegate_trait.rs` 208-212): the macro sees them before they are stripped. `CasesAssumption` leaves such
  traits out.

## 5. Proofs

The theorems hold for all values of the constants that satisfy the modules' named `ASSUME`s.

* **PinProofs** (`ChunkAssumption`, `MaxLenAssumption`, `NoneAssumption`). Inductive invariant
  `TypeOK /\ LenIsCount`: `len` is the number of values held and every chunk but the last is full.
  `TypeOK` alone is not inductive: `len - chunk_len` stays natural only because `len` counts. One
  lemma per operation; `NeverMoves` follows from the shape of `WithTop`, `Below` and the cut chunk.
  `PinImplements` is the refinement of `PinStack`. What the caller sees, `Items`, is the first `Kept`
  of the values laid out flat (`Flat`); `Division` says where the `i`-th lies. As no step moves a
  value, what is in `Flat` before and after a step is the same there (`FlatKept`), so a step simulates
  what it does to `Kept`. `RefInv` (the value `take_at` is to answer has not been dropped yet) is what
  makes the promised answer, `Flat[op.to]`, stay put while the chunks above it go.
* **DriverProofs** (`ConstantsAssumption`, `ProgramsAssumption`). `IInv` adds to the types that the
  native answer of the whole program is the one the remaining frames compute from the value in
  flight (`AnswersNative` in the middle of a run), that each frame waits for the member its top
  neighbour will answer as, and that depth left plus frames is within the nesting bound. From it
  `DriverTypeOK`, `DriverAnswersNative`, `DriverRightMember`, `DriverFrameMemory`.
  `ProgramsAssumption` is where the native equations come in: a program has a result for every
  activation it reaches, and `depth` bounds its nesting.
* **LendingProofs** (the assumptions on sites, places and bounds, and `NoAliasFirst` for one theorem).
  `SlotInv` says that every frame gets its own place back in the slot when the frames above it leave
  theirs, by the pointer its call saved or because the call did not swap (`Linked`): `LendingSlotOwn`.
  `PointersLive` is not inductive, since a truncation must be known to spare what deeper frames refer
  to. `LendInv` says that what a waiting activation refers to lies below the marks its call took
  (`Level`), and that marks never come down on the way from the deepest frame to the top, those of
  the loops included (`Above`). `ParkInv` adds that a parked local is still at its
  index over the mark until it is taken back. It needs `NoAliasFirst`, that no argument list lends to
  an alias-typed position before it parks; finding 1 is what happens otherwise.
  `LendingDroppedUnlessLapsed` is an action property, and needs to know not what is safe but what is
  there: `DroppedInv` says that, in a program without lapses, below a frame's marks lies exactly what
  the frames below it lent and the collections their loops hold, and below a loop's mark exactly that
  and the loops around it (`Laid`, for the stack and for the running body, in the middle of an argument
  list and of a resume arm). `Balanced` follows: while a body runs, nothing is stored that is not accounted for.
* **CallGraphProofs** (`ScopesAssumption`: definitions come shallow first and are addressed
  uniquely, as `collect` yields them). `ClosingInv` says that after `k`
  rounds a row contains the calls of its definition, lies within every closed set that does, and
  contains the rows of those among the first `k` definitions it contains: facts that survive a
  round which updates all rows in place. It gives `ReachesRight`. `ExpandInv` says which bodies are whole, taken or written
  back while cycles are processed from the last host to the first; with the fact that a cycle lies
  under its host (`Dominates`, `HostOfCycle`, `OneHost`) it gives `InnerFirst` and `NeverPanics`.
  Induction on rounds is by the least counterexample (`LeastNat`). Then, of what comes out:
  - `OutInv`, with `WrittenInv`, says what has been written back: no cycle that is done was rejected, its driver
    stands where its host was declared and its container counts as changed, and a body was taken with the
    drivers of the cycles below it and nothing else missing (`HeldAsIs`). `EffectReported` follows: what counts as
    changed holds a cycle, a rewritten item or a container in a body, and one that holds the last is rewritten or the exception.
  - `NoCycleLost` rests on `CyclesAreFollowed`: on a way back from a call that closes a cycle, each blocked
    call shares a driver already (`Unresolvable` sees to it), so the whole way can be gone by calls that are followed.
  - `MembersFollowed`: no group passed `Rejected` with two members of one name, so a call that names one names only it.
  - `CopiesApart`: a container touched by a cycle has its root rewritten (`RootHolds`, `TouchedIsRewritten`),
    although the cycle may lie in its nested functions only.
  - `OutputComplete`: a recursive function or a root has exactly one text (`OneText`); a text has a hole for each recursive function
    below it, with the driver where the cycle's host was (`TextSlots`); any other definition lies in the text
    of the innermost function around it that has one, and in no other (`LiesInOneText`).
  - `InnermostWins`: the options `collect` hands down (`Down`) are those of the nearest marker
    around (`Wanted`), by the least definition for which they would not be (`InForceIsWanted`); `ReadInv` says that
    every marker was readable. Of the containers, an item of the module gets what is asked for outside, one
    with a marker what that asks for, and one under no marked function the options of the scope (`PassedOn`).
  - `TakenAsAsked` (`OptionsAssumption`): what reading and merging the markers of an item one by one comes to is
    what `Asked` says of all of them at once, if none is in error, for any number of markers of any length. `Means` and
    `Merged` say what has been read after `k` options and `k` markers; `Rising` carries them from one to the next.
* **PayloadsProofs** (`ProblemsAssumption`). `PassInv` relates what is needed now to what has been
  settled earlier in the round; `LeastInv` says that what is solved is below every sufficient
  solution. They give `Available` when the passes end and `NothingMore`.
* **LoweringProofs** (`BodiesAssumption`: bodies are well formed; `MaxTurnsAssumption`; and `InOrder`, of all four theorems).
  `LoweringSameOrder` and `LoweringSameOperands` are a simulation of one evaluation by another, and
  neither property is inductive: they speak of the moment when an event is out, and the rewriter
  makes many steps without one. `IInv` says where the two stand in between.
  - *What waits.* Native evaluation keeps a frame for every expression it is in, the rewriter a continuation only for some:
    none for the value of a block or the branch of an `if` (`Clear`), one for most (`OneCont`), two for a loop
    (`LoopConts`). `Standing` deals the continuations out to the frames, and says that the last loop continuation is
    that of the loop `break` and `continue` mean there (`InLoop`): it is what a leaf's exits are rewritten for.
  - *Where they are.* `Star` is a number of native moves that show nothing. For each thing the rewriter may be about to do
    there is a native state that evaluation is on its way to: `AtCps`, `AtSeq`, `AtStmts`, `AtEnter`, `AtApply`,
    `AtEmit`, `AtValue`, `AtDone`.
  - *What is yet to run.* Code is handed on before it is run, so the rewriter is ahead of native evaluation.
    `Follows` says of a piece of code, the values on hand and a native state that whatever
    the code comes to, item by item and for every outcome of the user's code, native evaluation comes to as well,
    and where that leads (`ToOperand`, `ToValue`, `ToCont`). It is the greatest such relation
    (`RunUnion`), so it is used without induction on the code (`FollowsJoin`, `FollowsLift`, `FollowsBack`).
  - *Where `InOrder` is used.* What an operand that recurses leaves in a continuation must be silent, or its effects
    would come after the cut. Operands may have code left (`BusySeq`) only from the point where none of
    the rest recurses (`Settled`), and an expression may hand such code on (`BusyApply`) only if `Hands` puts it in the set `H`;
    `Late` rules out that a member of `H` is an operand before one that recurses. Without it the invariant fails exactly as in finding 3 (run `late_operand`).
  - `Sound` (no continuation holds code to run, a loop waits once) gives `LoweringTypeOK` and `LoweringCutCarriesValues`;
    an expression comes after its operands, so the numbers of what waits decrease and a loop cannot be entered twice.
  - `LoweringCallsInOrder` says what `InOrder` leaves in: among others, every body in which an operand that recurses, before another
    that does, is a call of a member, a `?` or another form whose value is bound anyway (`f(n - 1)? + f(n - 2)?`).

  There is a lemma for each kind of step (`StepCps`, `StepSeq`, `StepStmts`, `StepEnter`, `StepApply`, `StepRun`, `StepCont`,
  `StepEvent`, `StepDone`); `OriginalHolds` is the native side.
* **DelegateProofs** (`CasesAssumption`: methods have distinct names and a block writes methods of
  its trait, as the compiler sees to). `IInv` says that nothing is emitted before the helper is opened
  (`Quiet`); that a pending `@maybe` has its own method's name in its skip list exactly if the block
  wrote that method (`Subtracting`: a pop only drops another name); that what is emitted was missing,
  is no longer pending, and is there once (`Settled`); and that every missing method is pending or
  emitted unless there is an error (`Covered`). From it `DelegateTypeOK` and `DelegateComplete`,
  for lists of any length in any order. `DelegateTrueSignatures` is about cases all of which are `Supported`;
  `DelegateFailsRightly` is about all cases, with the two exceptions of the property itself: whatever has to fail does in all
  of them, and where neither exception applies the errors are exactly those due. Defaults are
  trailing (`Trailing`), so at most one arm of the helper takes a
  given number of arguments and it exists exactly if the compiler accepts that number (`ArmsAgree`);
  substituting in a rewritten text is what the text means (`Substitutes`); and the arguments that
  the arm fills in are those the compiler does (`ComplementWhole`). `ArgsInv`, `ItemsInv` and
  `ErrorsInv` carry that through the expansion.
* **ContextsProofs** (`GroupsAssumption`: a group has members, and its calls are typed and lend no place twice;
  `PartsAssumption`: a part is not another form of argument).
  `ContextsTypeOK` holds for every group. `ContextsNoAliasing` and `ContextsParametersKept` are about
  groups that are straight or refused; finding 4 is what happens to others. Neither is inductive:
  what a waiting activation will find is not in the slots while its callees run. `ViewInv` gives each
  frame a view, the slots as it will find them when it runs again: the top one's are the slots, and
  each other's is the view above it with the saved pointers put back (`Back`). No two slots of a view reach one
  place (`Apart`: they lie in different places, or in different parts of one), and a view holds what native recursion gives the parameters of its frame
  (`Faithful`). A call extends one view (`CallApart`, `CallFaithful`) and a return drops one; a tail call keeps
  the views it finds, because it swaps nothing.

Only model-checked: liveness (`OperationsEnd`, `Terminates`, `Settles`), since the prover handles
neither fairness nor `ENABLED`. Every safety property and every action property of a passing run is a
theorem. What remains a hypothesis of a theorem is a form of program: `NoAliasFirst`, `InOrder`, `Straight` and
(for `TrueSignatures`) `Supported` leave out the programs of findings 1, 3 and 4 and the unbound default of section 4, and are
decided on the program as written; `DroppedUnlessLapsed`, `InnermostWins`, `EffectReported` and `FailsRightly` carry
their exceptions in the statement. That what the rewriter is given is a `WellFormed` body is assumed.

## 6. Not modelled

* `validate` and the other checks of single expressions, token layout and spans, `names.rs`, and
  the entry points: pure functions of the syntax without state.
* Of `stack_safe.rs` the wording of errors, the suggestion of the nearest option and the check that
  the macro is not run on its own output (`already_expanded`); of `group.rs` the re-exports of an
  annotated module and where a group's hoisted enum goes. A copy's body is the root's as written
  with calls renamed: that it also duplicates the items declared in it is rustc's business.
* In `Delegate`: the helper's own name and path, `async`, `unsafe` and attributes other than `#[cfg]`;
  associated types and constants, which it does not delegate. `K::Id` for a
  parameter `K`, and macros in a signature, are left as they are and `TrueSignatures` does not speak
  of them. What is put in for a metavariable is not captured by a method's own generic of that name, as it
  would be in Rust, whose types have no hygiene.
* In `Lowering`: forms the rewriter refuses, the two copies of a `#[cfg]`-gated statement or field,
  compound assignment on overloaded types, and the place of an index expression read late
  (documented in README 277-281). Values are two, since only branches depend on them.
* In `Contexts`: how types are spelled and compared (`slot_key`) is equality of a type; a body that
  assigns to a `mut` binding of a `&mut` parameter is refused and left out; a local under the name
  of a parameter is not followed after a call, where rustc would reject carrying it; a body is taken to use
  all its parameters, so that members with other names for their slots do not compile (`Unresolved`); and
  a shared reference into a `&mut` parameter is any other value.
* In `Lending`: one slot and one alias-typed store stand for any number of them.
* The items one member declares, hoisted around the bodies of all of them, may capture a name in
  another member (`emit.rs` 1103). `CallGraph` has functions only, of which `CallsKeepTheirMeaning` speaks
  (`Becomes`), and the rejection of two of one name from different members; the scopes of the run `call_meaning` are methods without nested
  functions, where it fails for finding 2.
* The differences README 258-296 documents (drop timing, source locations, addresses).

## 7. Plan

Done, in this order: `PinStack`, `Pin`, `Driver`, `Lending`, `CallGraph`, `Payloads`, `Lowering`,
`Contexts`, `Options` (composed with `CallGraph`), `Delegate`; the proofs of every safety property of
`Pin` (with its refinement), `Driver`, `Lending`, `CallGraph`, `Payloads`, `Lowering`, `Delegate` and `Contexts`,
and of the reading of markers in `Options`.

1. Composition: `Driver` with the stores of `Lending` in its frames, so that `FrameMemory` and
   `DroppedUnlessLapsed` are stated of one machine; `Lending` on the chunked `Pin`, which
   `PinImplements` reduces to `PinStack`.
2. The rejections of `validate` as guards on the bodies that `Lowering` is given.
3. Once finding 3 is fixed (`SeqRecurse` binds an operand that is followed by a recursing one), `InOrder` can go from
   the theorems about `Lowering`.
