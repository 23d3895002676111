# OpenVAF in TLA+

OpenVAF compiles Verilog-A to shared libraries for circuit simulators (the OSDI
interface). This directory holds TLA+ models of the parts of the compiler where
state is shared, order matters and tests hardly reach, TLC runs over small
instances of them, and TLAPS proofs for every instance. Paths are relative to
the repository; `openvaf/...` stands for `src/openvaf/...`.

1. [The system](#1-the-system)
2. [Modules and code](#2-modules-and-code)
3. [Runs](#3-runs)
4. [Bounds, environment and fairness](#4-bounds-environment-and-fairness)
5. [Proofs](#5-proofs)
6. [What the code does otherwise than it says](#6-what-the-code-does-otherwise-than-it-says)
7. [What is not modelled](#7-what-is-not-modelled)
8. [Plan](#8-plan)

## 1. The system

A compilation is a pipeline; the driver starts one per process, and processes
share only the file system.

| part | keeps | operations | hands on to |
|---|---|---|---|
| `openvaf-driver`, `openvaf` | the request; the cache directory of batch mode | `compile`: look up, analyse, generate, link, clean up | everything below |
| `vfs`, `basedb` | files, spans, query results (memoised by salsa) | set, read, diagnostics | front end |
| `lexer`, `preprocessor`, `parser`, `syntax` | source stack, macro table, parser events | tokens, expansion, tree | HIR |
| `hir_def`, `hir_ty`, `hir` | nothing but query results | names, types, validation | `hir_lower` |
| `hir_lower` | the interner of parameters, places and callbacks; current block | statements to blocks, jumps, values | `mir_build` |
| `mir_build` | positions, seals, variable definitions, waiting phis | `def_var`, `use_var`, `seal_block`, `finalize` | `mir` |
| `mir` | layout (lists of blocks and instructions), data flow graph (values, arguments, use lists), flow graph, dominators | the edits every pass is made of | passes |
| `mir_opt` | work lists, lattices, classes | dead code, constant propagation, simplification, value numbering | `sim_back` |
| `mir_autodiff` | interned derivatives, live and reachable rows, subgraphs, the table of derivatives | derivatives of the contributions | `sim_back` |
| `sim_back` | topology, DAE system, cache slots of the init function, collapsed nodes | splits a module into init and eval functions | `osdi` |
| `osdi`, `mir_llvm` | one task per object file | LLVM IR, object files | `linker` |
| `linker` | import library, child process | `link` | the library |
| `lib/*` | containers | sets, maps, pools, queues | all |

The pipeline is single-threaded but for the code generation tasks. What is hard
in it is therefore of two kinds. **Long sequences of legal calls**: the lists of
the layout and of the uses are intrusive and doubly linked, edited by every
pass, and read backwards only by some; SSA construction hands out values before
it knows what they are; blocks must be filled and sealed in an order that
nested statements produce together. **Processes**: batch mode is meant to be
run in parallel by simulators over one cache directory, may be killed, and
names its files after a digest.

What makes each part correct: a layout is a sequence of sequences, whichever
way it is read; the uses of a value are the operands that read it; a pass keeps
what an output needs and removes what nothing needs, and ends; the value that
stands for a variable holds what the variable would hold, on every path; the
client of the builder keeps the assertions that release builds do not check;
what `compile` reports as compiled is there, whole, and made from the request.

## 2. Modules and code

| module | models | extends |
|---|---|---|
| `LinkedList` | doubly linked lists stored in tables: the list predicate, walks, the sequence a list reads as | |
| `LinkedListTheorems` | lemmas about them (insert, remove, join, cut, reverse, walk), as links and as sequences | `LinkedList` |
| `Layout` | `openvaf/mir/src/layout.rs` | `LinkedList` |
| `AbstractLayout` | the layout as a sequence of blocks with sequences of instructions | |
| `LayoutRefinement` | `Layout` implements `AbstractLayout` | `Layout` |
| `LayoutProofs` | theorems of `Layout` | `Layout`, `LinkedListTheorems` |
| `UseLists` | `openvaf/mir/src/dfg/{uses,instructions,phis}.rs`, `dfg.rs` | `LinkedList` |
| `MCUseLists` | the instance that is checked | `UseLists` |
| `UseListProofs` | theorems of `UseLists` | `UseLists`, `LinkedListTheorems` |
| `DeadCode` | `openvaf/mir_opt/src/dead_code.rs` with `lib/workqueue` | |
| `ContainerProofs` | theorems of `DeadCode` and of `ListPool` with its refinement | `DeadCode`, `ListPoolRefinement` |
| `Dominators` | `openvaf/mir/src/dominators.rs` | |
| `MCDominators` | all flow graphs of a size | `Dominators` |
| `DominatorsProofs` | theorems of `Dominators` | `Dominators` |
| `SSABuilder` | `openvaf/mir_build/src/ssa.rs` | |
| `FunctionBuilder` | `openvaf/mir_build/src/lib.rs`, any client, and a run of the finished function | `SSABuilder` |
| `MCFunctionBuilder` | symmetry of two variables | `FunctionBuilder` |
| `FunctionBuilderProofs` | theorems of `FunctionBuilder` and `SSABuilder` | `FunctionBuilder` |
| `Lowering` | the client: `openvaf/hir_lower/src/{stmt,ctx,expr,lib}.rs` | `FunctionBuilder` |
| `Mir` | functions as passes edit them, `openvaf/mir/src/flowgraph.rs`, and their runs | |
| `SimplifyCfg` | `openvaf/mir_opt/src/simplify_cfg.rs` | `Mir` |
| `ConstProp` | `openvaf/mir_opt/src/const_prop.rs` | `SimplifyCfg` |
| `AggressiveDeadCode` | `openvaf/mir_opt/src/dead_code_aggressive.rs` with post-dominance frontiers | `ConstProp` |
| `Optimize` | the passes in the orders of `openvaf/sim_back/src/context.rs` | `AggressiveDeadCode` |
| `MCOptimize` | the functions that are optimised | `Optimize` |
| `ConstPropProofs` | theorems of constant propagation in `Optimize` | `Optimize` |
| `InitSplit` | `openvaf/mir_opt/src/split_tainted.rs`, `openvaf/sim_back/src/init.rs` | `Optimize` |
| `MCInitSplit` | the functions that are split | `InitSplit`, `MCOptimize` |
| `Expressions` | functions over real and integer operations, `openvaf/mir_opt/src/const_eval.rs`, and their runs | |
| `Simplify` | `openvaf/mir_opt/src/simplify.rs` | `Expressions` |
| `ValueNumbering` | `openvaf/mir_opt/src/{inst_combine,global_value_numbering}.rs` | `Simplify` |
| `MCValueNumbering` | the functions that are numbered | `ValueNumbering` |
| `Taylor` | what derivatives are: runs with truncated Taylor series | `Expressions` |
| `AutoDiff` | `openvaf/mir_autodiff/src/*.rs`, followed by value numbering | `ValueNumbering`, `Taylor` |
| `MCAutoDiff` | the functions that are differentiated | `AutoDiff`, `MCValueNumbering` |
| `ListPool` | `lib/list_pool/src/lib.rs` | |
| `AbstractLists` | lists as sequences, one per owner | |
| `ListPoolRefinement` | `ListPool` implements `AbstractLists` | `ListPool` |
| `OsdiModule` | what the code generators are given: a compiled module and what its functions compute | |
| `OsdiData` | `openvaf/osdi/src/{bitfield,inst_data,model_data}.rs` | `OsdiModule` |
| `OsdiLibrary` | `openvaf/osdi/src/{access,setup,eval,load}.rs`, the descriptor of `metadata.rs`, `openvaf/sim_back/src/node_collapse.rs` | `OsdiData` |
| `AbstractDevice` | the device the library promises to a simulator | `OsdiModule` |
| `MCOsdi` | two compiled modules; `OsdiLibrary` implements `AbstractDevice` | `OsdiLibrary` |
| `BatchCompile` | `compile` of `openvaf/openvaf/src/lib.rs` with `cache.rs`, the object files of `openvaf/osdi/src/lib.rs`, `openvaf/linker/src/lib.rs` | |
| `MCBatchCompile` | paths, extensions, symmetry | `BatchCompile` |
| `LibraryProofs` | theorems of `BatchCompile` and of `OsdiLibrary` | `BatchCompile`, `OsdiLibrary` |

**Layout.** Each field of the Rust struct is a variable; blocks and instructions
are model values; each public operation is an action whose guard is the
operation's assertions. `remove_empty_block` unwraps a value that is `None` when
the layout's only block goes: that sets `panicked`, and nothing follows. The
refinement maps the tables to the sequences a walk meets. `AbstractLayout` says
what the operations are for: append, insert before or after, remove, clear,
concatenate without the jump, cut in two.

**UseLists.** A use is in some value's list, but which is not stored: it is read
off the argument the use stands for. The loops over an instruction's operands
take a step per operand, and a change of one operand takes two, so the
properties hold between the steps too. Uses are created by `make_inst`, and
`update_inst` may reuse, extend or truncate them. Removing a phi edge leaves the
value `GRAVESTONE` in its slot, which `insert_phi_edge` may reuse.

**DeadCode.** A function is drawn at the start: arguments, what must be kept,
what is in the layout, whose uses are attached. The scan goes from the last
instruction to the first, and each call of `process` is one step per argument.

**Dominators.** A flow graph and a direction are drawn at the start. The
traversals are taken block by block with their explicit stack (the forward one
marks a block when it is entered, the backward one when it is pushed), then
reverse postorder numbers, then `compute_idom_`: the first predecessor that has
a dominator (`First`), the others (`Another`), and the climb of
`common_dominator` one parent at a time (`Climb`). Queries and frontiers are
operators over the result.

**SSABuilder.** The explicit call stack of `run_state_machine` is kept: one
action per round. Values are numbered in order of allocation; a value is
`invalid` (nothing defines it), an instruction's result, an alias or a phi.
Sealing looks up the waiting variables one after the other. The shortcut for a
single predecessor is translated as it stands; section 6 says why it is never
taken.

**FunctionBuilder.** The operations come without their assertions, which are
predicates of their own (`MaySwitch`, `MayJump`, `MaySeal`, `MayFinalize`): they
are `debug_assert`s. The client of this module respects them and is otherwise
free: any graph, blocks filled in any order and sealed at any time after the
last jump to them. After `finalize` the function is *run*: `mem` holds what the
variables hold, `ssa` what the values hold, and a jump evaluates the phis of its
destination together, as the generated code does. A variable is initialised in
the entry block when it is first mentioned (`LoweringCtx::dec_place`).

**Lowering.** The recursion of `lower_stmt` and `lower_expr` is a list of what is
left to do. A program is drawn while it is lowered. Expressions are reduced to
the variables they read, selects and inlined functions. Here the operations are
*not* guarded by the assertions: that lowering keeps them is what is checked.

**Mir and the passes.** Under the optimiser a function is one record: blocks in
layout order, phis as functions from predecessors to values, other instructions,
terminators with their destinations, their condition and the value whose use
list the condition's use is in. That last field is what tells an assignment past
the interface from a proper edit: `replace_uses` follows the list, as
`DataFlowGraph::replace_uses` does, and sets `panicked` where it would index the
arguments of a jump. Data is Boolean, with negation, writes and optimisation
barriers; the flow graph is kept beside the function and patched as the passes
patch it. `Run` is the meaning of a function: what it writes for given
parameters, with values that were not computed as poison.

`SimplifyCfg` takes one step per visited block: everything `simplify_bb` does
there. `ConstProp` takes one step per work list entry, in any order within a
list, then the rewriting. `AggressiveDeadCode` marks in any order, then sweeps.
`Optimize` runs them in the orders of `Context::optimize`. Its `SolverSpec` runs
constant propagation only, on functions of which it says what the solver relies on:
`Formed` (the parts are where they belong, each value is the result of one
instruction) and `Strict` (what is read has been computed on every way to the
reader; `Available` computes what that is, from the graph). `InitSplit` adds
taint propagation, the copy of the independent instructions, the cache, and the
clean up of both functions with the same control dependences.

**Expressions, Simplify, ValueNumbering.** These passes are right or wrong by
identities of arithmetic, which Booleans do not have. Here a function computes in
two finite domains: the field of seven elements stands for floating point
numbers, integers of two bits that wrap for those of 32. The field keeps every
identity of rational functions and loses rounding, signs and order; `exp` and
`ln` are a pair of inverse permutations, a called function is any function of
its arguments, and a division by zero has no value: an optimised function may
compute anything where the original computed nothing. `Simplify` is the rules as
operators over an instruction and the values its operands are seen through, with
the recursion, its depth and its order as in the code. It is used twice:
`inst_combine` scans the function (`Scan`) and then empties its work list of
users (`Again`); value numbering processes touched instructions in the order of
the depth first search of the dominator tree (`Number`) until none is touched,
then removes, class by class, the members that the member it keeps dominates
(`RemoveFromClass`).

**Taylor, AutoDiff.** The derivatives that are wanted are found by a fixed point
over the users of each instruction (`PopLive`), which interns derivatives of
higher order as it meets ddx calls and marks where they may differ from zero
(`populate_reachable`); `explore_subgraph` looks for instructions that depend on
several unknowns through one value; then one walk over the function (`BuildInst`)
puts the derivatives of every instruction behind it, with what they share, splits
the block of a power, and copies the phis of loops, whose arguments are filled in
at the end (`FinishPhis`). The derivatives that were asked for become outputs,
and `inst_combine` and value numbering run over the result as in
`Context::optimize`. The reference does not differentiate code: `Taylor` runs the
function with a jet (a value and its partial derivatives) in place of each number,
by the rule of Leibniz and the equations that define the functions. Sine, cosine
and their hyperbolic kin are pairs of points on the curve that relates them;
the rules of the code use only what these functions are to each
other. With the instances of `openvaf/mir_autodiff/src/builder/tests.rs` the model
produces the code that these tests expect, instruction by instruction.

**ListPool.** Words of the pool are model values, lengths or links. Every
operation of `EntityList` is an action: size classes of 4 and 8 words, one free
list per size threaded through the freed blocks, growth by copying, shrinking by
moving to a smaller block. The refinement reads each owner's list as a sequence.

**Osdi.** `OsdiModule` describes compiled modules as records. `OsdiData` says
where the emitted code keeps things: model and instance are structs of numbered
fields, given flags are bits of words, an output of the evaluation has a slot
that it shares with every output of the same value, or none when the value is
stored elsewhere. `OsdiLibrary` has the emitted functions: `access`,
`setup_model`, `setup_instance` (with `$fatal` half way), `eval` under any set of
flags are actions; the loads only read the device and are operators.
`AbstractDevice` knows neither fields nor slots: parameters by name, outputs by
name holding what an evaluation computed. The simulator is an environment that
keeps the order the interface prescribes, and may change parameters and set up
again at any time. A branch current vanishes with the hint in the branch's own
direction and only without one with the reverse hint, as `NodeCollapse::new` looks
pairs up: `Vanishes` has this as part of the promise.

**BatchCompile.** A process is at one of the points of `compile` between which
another process can see the file system. A file is absent, partial or whole and
knows whose code it holds. Object files are opened and closed by parallel tasks.
`OpenObject` draws each task's order; the digest of the cache is collision-free.

## 3. Runs

Passing runs:

| run | instance | shows |
|---|---|---|
| `layout` | 3 blocks, 4 instructions | lists well formed in both directions, membership queries agree with walks, refinement of the sequences |
| `use_lists` | 2 instructions, 4 uses, 2 values | each list is exactly the attached readers; operands and phi edges stay matched; nothing is attached twice |
| `dead_code` | every graph of 3 instructions with up to 2 arguments | no double removal, no reader left without what it reads, nothing dead left, nothing removed that is needed, termination |
| `dominators` | every flow graph of 5 blocks, both directions | no `expect` fails, trees, queries and frontiers are those of the definition, termination |
| `function_builder` | 3 blocks, 2 variables also assigned to each other, 3 operations | lookups end and balance, aliases end, phis match predecessors, reads see the variable |
| `lowering` | 8 blocks, 5 operations, 6 nodes | nested statements keep every assertion of the builders, and reads see the variable |
| `optimize` | functions of twelve flow graphs, all values of two parameters | the passes preserve what is written; init and eval together write it too; init does not read the operating point; flow graph, phis and uses stay consistent; what constant propagation takes for constant or dead is so, if every phi knows its operands; the passes end |
| `value_numbering` | 7,115 functions (every pair of real operations, chosen triples, integers, calls, diamonds and loops) and 892 that are differentiated first | derivatives have the value of the derivative itself, whichever order, path or subgraph they come by; `inst_combine` and then value numbering keep the outputs; the congruence classes are a partition and settled; the work lists run dry |
| `list_pool` | 2 owners, lists of up to 4, 16 words | lists do not share words, every operation is the sequence operation, no word is lost |
| `osdi` | 2 modules, words of 2 bits, 2 flag sets, 2 solutions | the emitted library is the device of the descriptor; its five ways to load a system agree |
| `batch_compile` | 2 processes, 3 runs, 2 targets | in an orderly directory what is reported is there and whole, no object file is left, no process touches another's files, a cached library never changes; with processes that share a library and are killed anywhere, a whole cached library still belongs to its name |

One run refutes what the repository says: `angle` (section 6).
More violations are found by hand, by a change of a configuration: `InitSplit.cfg`
of `MCInitSplit` with `MCExitJobs` or `MCLoopJobs` in the place of `MCSplitJobs`
and `SplitSound` the only property; `ValueNumbering.cfg` of `MCAutoDiff` with
`MCDistribute` in the place of `MCJobs` (`OutputsKept`); and `Angle.cfg` with
`MCDifference` or `MCNested` in the place of `MCAngle` (`DerivativesRight`).
What they find is known, and their
functions are left out of the passing runs on purpose. So is `MCBottomJobs`: it is
checked with `MCOptimize` by a configuration of `SPECIFICATION SolverSpec`, `Jobs <-
MCBottomJobs`, `Params = {2, 3}` (given by a definition), `Fuel = 24`, no check for
deadlock, and the invariant `SolverSound`, which is `ConstantsRight` without its
condition on the operands. With `MCSolverJobs` the same configuration passes for
`ConstantsRight`: 528 functions of if, while, `$fatal` and an if in a loop satisfy
`Formed` and `Strict`, the hypotheses of the theorems, and reach 5,850 states.

Every property of a passing run has a mutant: an operator beside the definition
it mutates (`<name>_<what is wrong>`), which makes TLC find the property
violated. The mutants are part of no specification.

## 4. Bounds, environment and fairness

* `layout`: three blocks give a first, a middle and a last one; four
  instructions allow a list of two to be spliced to a list of two. There is no
  bound on the number of operations.
* `use_lists`: a value with up to four readers has a head, a tail and inner
  uses; two values are enough to move uses; `MaxArgs` bounds arguments of one
  instruction.
* `dead_code`: three instructions give chains, diamonds with one tip missing,
  duplicate arguments and cycles through phis.
* `dominators`: five blocks give nested and irreducible loops, for which the
  iteration needs more than one pass, and joins of three predecessors.
* `function_builder`: `NumBlocks = 3` contains self-loops, loops with two
  entries (irreducible) and unreachable blocks; `MaxOps` bounds reads and
  writes. Two destinations bound the jumps, as in MIR.
* `lowering`: `NumBlocks = 8` holds two nested three-block statements next to
  entry and exit; `MaxNodes` bounds the statements and expressions of the
  program. `DefaultFlow` and `ConditionCase` switch on the two programs that are
  lowered wrongly (section 6), so that the passing run covers the rest.
* `optimize`: the flow graphs are those of if, while, case, `$fatal`, two ifs in
  a row, an if in an if and an if in a loop; in each, blocks may keep, assign,
  negate or write one variable, and branches test a parameter or the variable.
  `Fuel` bounds the blocks of a run: 24 is more than any of these loops takes to
  repeat a state, so that a run cut off there is endless.
* `value_numbering`: two operations reach the rules that look through one
  operand, three those that regroup; a diamond and a loop with two phis that may
  be equal are where classes split and where what is kept must dominate. Seven
  samples of the parameters are tried. Left out are the functions on which a rule
  holds for some numbers only (section 6): products of a sum with a quotient,
  roots of squares, quotients of integers. The differentiated functions have two
  operations behind each other, so that every rule meets a derivative that is
  zero, one, its own value or something else; second derivatives through ddx
  calls; diamonds, loops of two rounds and powers in them; and chains of four
  operations behind an entry of three unknowns, the shortest for which a subgraph
  is worth its products. Two orders are the most the run asks for. The functions
  of section 6 that are differentiated wrongly are left out.
* `list_pool`: four elements cross the boundary between the two smallest sizes
  in both directions; sixteen words hold two blocks of each.
* `osdi`: words of two bits (32 in the code) make parameters share words and
  cross them; `MaxGiven` bounds how many parameters are marked at a time; one
  module has shared slots, limiting and entries without reactive part, the other
  hints, collapsible currents and a `$fatal`. Numbers stand for the identity of
  what is read.
* `batch_compile`: two processes are two that can interfere; the third run
  meets the files of the first two. Processes that write one file at the same
  time are taken to produce one of the contents or a partial file. What is only
  promised in an orderly directory (no two processes build one library at a
  time, no kill) is stated for behaviours that are orderly so far.

Deadlock is not checked where the system may stop: the layout may panic, a
finished function stops at its exit, processes end.

Fairness is assumed of loops of one thread that nothing blocks.
`DeadCode!FairSpec` and `Dominators!FairSpec` have weak fairness of the next
step. `InitSplit!Spec`, `ValueNumbering!Spec` and `AutoDiff!DiffSpec` say the same without ENABLED,
which is slow on whole functions: the passes never rest before the end (`Runs`); as deadlock is
checked, a step is possible until then, and the two forms are one. `Terminates`
says the loops end. Simulators, processes and clients of the builders owe no
progress, and nothing is claimed of them.

## 5. Proofs

All proofs are for arbitrary sets of blocks, instructions, uses and values, or
arbitrary numbers of them. Where the sets have to be finite, it is said.

**Lists.** `LinkedListTheorems` has the facts used by both list structures. A
table is a list over a set when every link is answered by the opposite link, only
the ends lack a neighbour, and a part of the set that holds an end and is closed
under the links from it is the whole set. From that: inserting into a gap,
removing, joining two lists and cutting one keep it; a walk meets every element;
the reverse is a list.

**Layout** (`LayoutInvariant`). The invariant `TypeOK /\ BlockList /\ InstLists`
is inductive: `BlockList` says the inserted blocks form a list, `InstLists` that
for each inserted block the instructions with that `inst_block` do, and that
others are unlinked. Membership in the list, not only link symmetry, is part of
it because an operation that inserts beside a block has to know the block is in
the list. From it follow `TypeOK`, `BlocksReachable` and `InstsReachable`.

**What the lists read as** (`LayoutBackwardReading`, `LayoutRefines`). For finitely
many keys a walk meets the elements as a sequence (`Listing`), which is a
recursive function of the number of steps. `LeastNat` says that a set of numbers
with an element has a least one; it stands in for induction, so that
`ElementsDef` can say what the function computes. `ListingReads` and
`ReadsListing` then say that a listing starts at the head, follows the links and
meets each element once, and that nothing else does. With that each change of
the links becomes a change of the sequence: `ListingInsert`, `ListingRemove`,
`ListingJoin`, `ListingCut`. The refinement has three layers over it: what an
operation does to the links (the gap it fills, what it takes out), what that
does to the order of blocks and to their bodies (`BlockPlaced`, `InstDropped`,
...), and which abstract step that is (`PlaceBlockStep`, `MergeStep`, ...).
Assumed is that the sets of keys are finite (`KeysAssumption`; keys are 32-bit
numbers).

**UseLists** (`UseListInvariant`). `TypeOK`, `ValueUses` (each value's list is
its attached readers), `OperandsOwned`, `AttachesDetached`, `PhiEdges` and
`Loops`, which says what the step a running operation is at relies on: its
instruction exists, there is an argument left to extend, the operand to reattach
exists. `ValueUses` alone is not inductive: `OperandsOwned` tells it that an
argument is only overwritten under a detached use, `AttachesDetached` that a use
about to be pushed is in no list.

**DeadCode** (`DeadCodeInvariant`). `TypeOK`, `NeverRemovedTwice`, `Queue` (what a
bit of the queue's set means: behind the scan, that the instruction is queued;
the bit of a removed instruction stays set, which is why it is never queued
again), `DeadQueued` (an instruction that died behind the scan is queued or an
argument still to be looked at), `Removed` and `OnlyDeadRemoved`. Its
consequences are that the pass never panics, that it keeps what is read, that it
ends with nothing dead, and that it removes only the smallest set closed under
"all readers are removed".

**ListPool** (`PoolIsSound`, `PoolIsLists`). For any number of owners, any
bound on the length of lists and on the words. The invariant `PoolInv` is
`Sound(pool, index)`. It says that blocks exist that divide the words, each of
some size class, at any place (`Tiling`); that a free list passes through some of
them, each once, in the order in which they were freed backwards (`FreeLists`); and
that every block is either free or owned by one handle, whose list it holds
(`Listed`). Neither blocks nor free lists are in the state, so the invariant says
that they exist, and each step of the proof gives the new ones from the old.
The partition alone is not inductive: `alloc` hands out what `free[c]` links to, and
only the order of the list says that the block is not in use and what is linked
behind it.

The steps are few: `alloc` (`ReuseTiled` takes the head of a free list,
`GrowTiled` adds a block behind the last word), `free` (`FreeGood`), and a write
that stays in a block in use (`WriteGood`). A block is only too small by what a
size class says, so that `ClassOfLength` and `BlockSize` are what is needed of the
powers of two. From the steps `Turns(p, O, idx, s, r, t)` follows for each
operation: the call with result `r` makes the list `t` out of `s`, its block is its own
or one that nobody had, and the words of all others are the same. The lemmas for
operations of more than one step (`insert` after `push`, `remove` before the last
element goes) go through the blocks of the state between them (`TurnsThrough`).
`CallMakes` and `CallSound` then say the same of all handles together. What the
operations make of a sequence is stated in the terms of `AbstractLists`
(`PushMade`, `SwapMade`, ...), which gives the refinement: no call on one handle is
seen through another. `FreeBlocks` follows links, by recursion on their number;
that this finds the blocks of the free list is `FollowsFree`, for which a lemma on
recursive functions (`Recursion`) says that the function the definition names
exists. Assumed is `ListPoolAssumption`: elements are not numbers, and the
reserved word is neither.

**Dominators** (`TypeCorrect`, `NoPanicCorrect`, `ClimbsDownCorrect`). The
invariant is a conjunction along the phases: `Traversal` (what is on the stack
and in the postorder, each block once, and whoever was entered was entered from
a block below it), `Parents` (every block but the root has a neighbour that
comes later in the postorder), `Numbers` (numbers follow the postorder
backwards), `Trees` (a dominator has a smaller number than its block), `Fold`
(the candidate of the running computation is numbered and smaller than the block
it is for) and `NoPanic`. `Parents` is what makes the first `expect` safe, and
it holds for the two traversals for different reasons; `Trees` is what makes the
second one safe: a climb goes to smaller numbers, and the root has the smallest.

That the result is right (`TheDominatorTree`, `DominatesCorrect`,
`DominanceCorrect`) rests on a second invariant. `Explored`: the traversal meets
what the root reaches and nothing else. `DomsUp`: in every pass the tables err on
one side only, what dominates a block dominates the immediate dominator it has at
the moment. `Meet`: the candidate of a running computation is below what
dominates the block and above every predecessor met so far. `Settled`: in a pass
that has changed nothing, the immediate dominators behind `pos` are above all
predecessors. `DomsUp` makes dominators ancestors in the tree at any time;
`Settled`, at the end, makes ancestors dominators, because a path that avoids an
ancestor would have to enter its descendants somewhere. Neither argument looks at
the order of the traversal, so the backward one, which is not a depth-first
order, needs no proof of its own. Reachability and the way up a tree are
recursive functions of the number of steps; `LeastNat`, that a set of numbers
with an element has a least one, stands in for induction, and that `N` steps are
enough is counted (`ReachClosed`, `UpFinds`). The frontiers need a hypothesis the
code leaves to its callers, `PlainRoot`: exactly one block that leads to the root
is not possible. `compute_dom_frontiers` passes over blocks with one predecessor,
and a root with one back edge is in its own frontier. Entry blocks that `mir_build`
makes have no predecessor, exits no successor.

**Osdi** (`SetBitExact`, `MemoryLayout`, `GivenFlags`, `StructLayout`,
`LibraryIsDevice`). The invariant `DeviceInv` is
`module \in Modules /\ Slots /\ Memory /\ Structs`: model and instance have the
fields and words of their layout and keep their sizes, and every output that is
stored has a slot of its value behind the constant fields. The given flags are
arithmetic: the word and bit of a position are its quotient and remainder, so that
two positions meet in one bit only if they are equal. The slots are counting: the
outputs are finite in number, so that numbering their values leaves none out and
none twice. From both, `FieldsApart` and `ModelFieldsApart`: no two parameters,
cache slots or values share a field, nor one with a flag, the node mapping or the
collapsed pairs. So what a call stores is all that changes, and flags change in
`access` only, one at a time and never back.

`LibraryIsDevice` is the refinement of `AbstractDevice`: the initial memory is a
device on which nothing is given, and each call is the device's call of that name
(`AccessOnInstance`, `AccessOnModel`, `OpvarOnDevice`, `SetupModelOnDevice`,
`SetupInstanceOnDevice`, `BindOnDevice`, `EvalOnDevice`). The steps that need
thought: what a flag's bit says by id is what it says by name (`ParamIds`,
`DeviceGiven`); a load after any call but `eval` reads what it read before, or a value
that needs no solution (`CatchUp`, which decides for every output whether a load goes to
a slot, a parameter or the cache, and that a slot that is read exists); `eval`
computes from model and instance what the device would (`EnvIsMemory`), and an
output that was not asked for but shares its slot is of the same evaluation; the
positions that `hint` marks are those of the pairs it collapses, the branch
currents included, in whichever direction the branch was declared (`HintedPairs`).
Assumed are `WordBits \in Nat \ {0}` and `ModulesAssumption`: the lists of a module
are sequences, its parameters are keys of the model or of the instance, outputs
have values of its own MIR, and a hint names a node. Defaults may depend on each
other in any way: both sides compute them by the same definition. The loads that
add up rows (`LoadsAgree`) stay with TLC, they are sums.

**BatchCompile** (`BatchInvariant`). For any number of processes and of runs, and
kills anywhere: `TypeOK`, `Turns` (what a process holds at each point of
`compile`), `Files` (which files a process at that point has written, and that
object files of nobody's run are gone), `CacheWhole`, `NamesMatch` and
`NoInterference`. The last is not inductive: that no process touches what
another one is at rests on the names, and `Files` is what ties a file to the
process it is named for. The naming is assumed (`BatchCompileAssumption`): the
extensions of object files differ from each other and from `osdi`, and no output
is a source or has an object's extension. Section 6 tells of a run that breaks
the second half. Consequences: `NobodyInterferes`, `CacheMatchesKeys`,
`ReportsAreUsable`, `NoObjectsLeft`, and as action property `CacheIsStable`.

**FunctionBuilder** (`FunctionsAreWellFormed`, `TheLookupsNest`,
`TheReadsSeeTheirVariables`). For any number of
blocks, variables and instructions, and any client that keeps the assertions. The
invariant `IInv` says of the graph that `preds` and `succs` are the same edges from
both sides and sorted, that a phi has an argument for each predecessor of its
sealed block, and who runs the machine when. Three parts carry the argument.
(1) A value without a definition must not survive: `Awaited` says that each is the
sentinel of an entry of `undef_phis`, of the rest of the list that
`seal_one_block` works through, or of a scheduled `FinishPredecessorsLookup`;
`Apart` and `Frames`, that no two of these wait for the same one, so that a
definition is never overwritten; `Waiting`, that blocks that are waited for are
not sealed. `finalize` asserts that all touched blocks are, so nothing is left to
wait for. (2) `AliasOrder` numbers the aliases so that an alias of an alias has
the smaller number: `finish_predecessors_lookup` only makes an alias of a value
that is no alias then, so a chain goes from older aliases to younger ones and
ends (`ResolveEnds`); `NoReentry` alone does not give this, since a lookup that
ended may have left an alias that a later one meets again. (3) `Levels`: counted
from the bottom of the call stack, how many results there are when the calls above
are done. A lookup takes as many as its block has predecessors, and each of them
leaves one; what lies below is not its sentinel, which is what keeps the shared
stack free of aliases. Assumed is `NumBlocks >= 2`: `FunctionBuilder::new` makes two
blocks. The proof also shows that `FinishSealedOnePredecessor` is never scheduled
(section 6): the calls of `Frames` have no such form.

That a read sees its variable is proved on top of `IInv`, from a second
invariant, `Seen`. While the function is built, `rep` maps each value to the end of
its aliases, and every variable has a line of values in every block, one before
each instruction (`Track`). Only what a line starts with depends on other blocks:
either somebody still waits for it (`Asked`), or the predecessors have been
looked up, and it is what they all agree on or a phi with an argument for each of
them (`Answered`). The state holds neither `rep` nor the lines, so the invariant says
that they exist and each step of the proof gives the new ones from the old. The
difficult steps are those of a lookup. Its results lie on the stack it shares with
the lookups above and below, so `Scheduled` says for each lookup and each of its
predecessors that the result is at its place, or which call puts it there
(`Plan`, over the `Levels` of `IInv`). And when `finish_predecessors_lookup` makes
a sentinel an alias, two values that stood for different variables become one, in
every block at once: `rep` gets coarser, and `Coarser` is what keeps the rest.
`Finish` turns this into a statement without aliases (`Finished`): along every edge a
line continues, or goes through a phi. The run then keeps `Stands`: the value
that stands for a variable has been computed in a block the run came through,
and holds what the variable holds. Jumping back into a block (a loop) is safe
only because the line at its start is a phi or a value not computed in that block
(`Visited`): otherwise the read after the jump would see the value of the round
before. That phis are computed at once, from the values before the jump, is
part of the step. Undefined variables are exempt, as in the property.

**Constant propagation** (`SolverIsSound`, `ConstantsAreRight`). For every function
that is `Formed` and `Strict`, all parameters, and every order of taking entries from
a list. The invariant `IInv` holds `Sound(Solver, {})` while the solver works.
`Typed`: feasible edges are edges of the function and lead to executable blocks,
constants stand for themselves, parameters are overdefined. `Negated`: what is known
of a negation follows from what is known of its argument; it is what says that
`mark_const`, which keeps a constant that is there, does not keep a wrong one. `Good`:
each instruction of a block that has been evaluated is settled (evaluating it would
change nothing) or waits in a list. `Good` takes a set of entries that have been taken
from a list and are being evaluated: an evaluation is a fold over phis or
instructions, and between its steps the rest of them is neither settled nor waiting.
The steps say what an evaluation does to the rest (`Evaluated`): values only rise, and
whoever reads a value that rose is in a list (`UsersRead`: the use lists name every
reader). `MarkEdge` evaluates the phis of a block that runs already; that is what keeps
them settled when a predecessor comes to them.

With the lists empty, everything in an executable block is settled. With the operands
of its phis known as well this is a `Solution`, and a run never leaves its track
(`OnTrack`): what it has computed is what the solver takes it for, or the solver
takes it for nothing, and it came over a feasible edge (`PhisRight`, `ExecRight`,
`TargetRight`, `RunBlockRight`). The second condition is needed: `PhiSettled` says
nothing of a phi with an unknown operand, because the code's evaluation does nothing
then, and `MCBottomJobs` shows what comes of it. In every state of `optimize` that
has the lists empty the condition holds, so that the run checks the rest in full. The
folds of the community modules choose a
recursive function; `IterExists` shows there is one, and `IterSteps` what it builds up.
Assumed is `OptimizeAssumption`: parameters are not constants.

**Only model-checked.** Termination (`Terminates`) is a liveness property, out of the
provers' reach, as is `ENABLED`. A theorem with an operator as parameter cannot
be instantiated by the provers, so there is no induction over data; over numbers
`LeastNat` replaces it, which is enough for functions that count steps and not for
sums (`LoadsAgree`) or terms. Modules that reach a `RECURSIVE` operator
cannot hold theorems: `Simplify`, value numbering and automatic differentiation, so
that `OutputsKept`, `ClassesSound` and `DerivativesRight` stay with TLC. What the passes
over `Mir` keep (`PassesPreserve`, `SplitSound`, `Optimize`'s `WellFormed`) compares runs
of two functions block by block; no invariant short of a simulation for every
rewriting rule would do, and none is attempted. `SolverSound`, which has no
condition on the operands of phis, is not provable: it holds for the functions of
`optimize` and fails for that of `MCBottomJobs`.
`LoweredRight` needs a relation between the program and the recursion of its client
that the state does not hold.

## 6. What the code does otherwise than it says

Shown by a run, with the lines that say otherwise quoted in `PROJECT.json`:

* `angle`: the derivative of `atan2` is built by the rule of `pow`, from the
  cached values for another formula
  (`openvaf/mir_autodiff/src/builder.rs:603` and `909`): the result is
  (x'y + y'x)(x² + y²), where the comment has (x'y - y'x)/(x² + y²).

Shown by a changed configuration (section 3):

* `MCExitJobs`: `simplify_bb` takes the empty last block, where every run ends,
  for an early exit and makes a branch to it a jump to the other side
  (`openvaf/mir_opt/src/simplify_cfg.rs:654`): init then writes what the
  function did not write.
* `MCLoopJobs`: the map of a loop's blocks holds its header only
  (`openvaf/mir_opt/src/split_tainted.rs:9`), so that a loop whose body depends
  on the operating point may stay in init.
* `MCBottomJobs`: `eval_phi` replaces the constant of one operand by the `Bottom` of the
  next (`openvaf/mir_opt/src/const_prop.rs:224`), where the lattice has bottom below
  every value (line 73). A phi at the head of a loop then stays `Bottom` for ever if
  its back edge is found feasible before the value it starts from is known, as it
  is when a branch is taken from a work list before its block was evaluated. A phi
  behind the loop is taken for its other operand and replaced by a constant that the
  run does not compute. With the lists as stacks the code takes this order.
* `MCDistribute`: `expand_add_over_mul` multiplies the simplified products that
  its comment (`openvaf/mir_opt/src/simplify.rs:406`) adds (line 417):
  (1/x + 1) * x becomes x.
* `MCDifference`: what a ddx call is asked for is computed after
  `replace_uses` has emptied its list of users
  (`openvaf/mir_autodiff/src/builder.rs:204`). With one unknown nothing is lost,
  as the result is the argument's derivative; with a sum or a difference of several
  its derivatives are those of nothing, and zero.
* `MCNested`: second derivatives through a subgraph. The map from old to new
  derivatives has one entry for each old one
  (`openvaf/mir_autodiff/src/subgraph.rs:205`), so that an entry for a first
  derivative is overwritten, and the product rule for the inner one is missing.

Met while modelling, in the compiler:

* The derivative of `hypot` is (x' + y')/(2 hypot)
  (`openvaf/mir_autodiff/src/builder.rs:913`), without the factors x and y; the
  comment in `inst_cache` agrees with the code.

* Constant propagation assigns to a branch condition without touching its use
  (`openvaf/mir_opt/src/const_prop.rs:66`), which is then in the list of a value
  it does not read. `simplify_cfg`, which follows, rewrites the branch.
* A default arm with control flow leaves a block unsealed
  (`openvaf/hir_lower/src/stmt.rs:109`), and a case statement in a function that
  a loop condition calls seals the loop's head before the back edge exists
  (`stmt.rs:82`; `openvaf/mir_build/src/ssa.rs:165` asserts otherwise).
  `Lowering` has both behind constants.
* `Layout::remove_empty_block` panics on the layout's only block
  (`openvaf/mir/src/layout.rs:212`). No pass removes the last block.
* An endless loop without instructions is merged with itself by
  `simplify_unconditional_jmp_term`, against the assertion of
  `openvaf/mir/src/flowgraph.rs:262`.
* `can_optimize_var_lookup` tests and follows `block` where its loop advances
  `current` (`openvaf/mir_build/src/ssa.rs:344`), so the shortcut for sealed
  blocks with one predecessor is never taken and every such lookup allocates a
  sentinel and an alias.
* Some rules of `openvaf/mir_opt/src/simplify.rs` hold for some numbers only:
  the root of a square is the number (line 107), arcsine undoes sine (142), an
  integer over its negation is -1 (508), zero to any power is zero (546, also for
  the exponent zero, which the line before it does not see in a variable). One is
  never found: the rule for (x * y) / y compares y with the product (522). The
  last of the associative rules returns the left operand for the right one (607).
* The equality of calls in value numbering compares a call with itself
  (`openvaf/mir_opt/src/global_value_numbering.rs:241`): two calls whose hash tags
  collide would be taken for equal.
* `live_derivative_fixpoint` overwrites the row of a destination
  (`openvaf/mir_autodiff/src/live_derivatives.rs`), into which
  `insert_extra_derivative` may already have put a derivative.
* Evaluating an integer division of constants panics when the divisor is zero
  (`openvaf/mir_opt/src/const_eval.rs:13`).
* The comment at `lib/list_pool/src/lib.rs:146`
  says a fresh block is filled with reserved values; one from a free list is not.
  No reader looks behind a list's length.
* The interpreter evaluates the phis of a block one after the other
  (`openvaf/mir_interpret/src/lib.rs:86`), the generated code together.

In the emitted library:

* `setup_instance` only ever sets collapsed flags: hints that no longer hold
  after a parameter changed stay collapsed, unless the simulator clears them.
* `num_resistive_jacobian_entries` and its reactive twin are counted when the
  DAE system is built (`openvaf/sim_back/src/dae/builder.rs:204`), before
  `sparsify` drops entries.
* An output that is the temperature is loaded with the type of a number where
  that of the struct is due (`openvaf/osdi/src/inst_data.rs:1182` and `1265`).
* `ensure_optbarriers` treats `react_small_signal` twice and
  `resist_small_signal` never (`openvaf/sim_back/src/dae/builder.rs:739`).
* Of two hints for one node pair, (a, b) and (b, a), only the first gets the
  pairs of the branch currents (`openvaf/sim_back/src/node_collapse.rs`).

In the driver:

* The digest of batch mode covers the source only
  (`openvaf/openvaf/src/cache.rs:11`): the library of another target or
  optimisation level is returned.
* Batch mode reports a file that a killed or a running process has half written
  (`openvaf/openvaf/src/lib.rs:178`).
* `--output model.o` gives library and main object file one path, and the clean
  up deletes the library (`openvaf/openvaf/src/lib.rs:276`).
* `__openvaf__import.lib` is one file for all runs in a directory
  (`openvaf/linker/src/lib.rs:32`).
* An error of `wrapped_main` is printed, and the exit code is that of success
  (`openvaf/openvaf-driver/src/main.rs:37`).

## 7. What is not modelled

`PROJECT.json` lists every part with its reason. In short: floating point
numbers have no finite instance, so identities are checked in a finite field, and
rounding and order are not; text (lexing, parsing, printing) and the queries of the
HIR are functions of immutable data; LLVM IR generation emits instructions
without state of its own; `bforest` and `bitset` are vendored containers, used as
maps and sets; salsa and LLVM are not part of the repository. Debug assertions
are not executed in release builds, and the models do not rely on them except
where a property states one.

Inside the modelled parts: value tags, instruction results and source locations;
`FunctionBuilder::edit` and its clients, whose aliases stay behind because
nothing calls `finalize`; the complete-graph instance of the SSA builder (the one
that rebuilds SSA form in finished functions); value numbering and the
algebraic rules between the passes of `optimize`, whose data is Boolean; the rules
that cancel a trigonometric function against its inverse; derivatives by more
unknowns than a sparse row holds (eight), of a logarithm to base ten, and by
limited unknowns; phis with more than 64
predecessors; limit functions, state indices, connected ports and noise tables of
the emitted library; command lines of the linker; the Windows registry lookup.

## 8. Plan

In the order in which it is worth doing.

1. The rest of `Layout`: cursors and `validation.rs` over the tables.
2. The DAE builder and the topology, which produce what `OsdiModule` assumes.
3. `FunctionBuilder::edit` and its clients, with the aliases they leave.
4. The preprocessor: its source stack and macro table are the front end's only
   state that order matters for.
