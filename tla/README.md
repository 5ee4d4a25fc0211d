# A verification development of the Diamond compiler

The repository is a compiler and an interpreter for *Diamond*, a small strict
functional language: 63-bit numbers and booleans, `let`, `if`, primitive
operations, printing, and mutually recursive top-level functions with proper
tail calls. `src/src/` is the Rust library and program, `src/runtime/stub.rs` the
program the generated assembly is linked with, `src/tests/` its end-to-end tests.
Paths below are the repository's own (`src/compile.rs` is the file that
`PROJECT.json` calls `src/src/compile.rs`).

## 1. The system

| component | state it keeps | operations | who uses it |
|---|---|---|---|
| parser (`parser.lalrpop`, generated `parser.rs`) | offset in the text, token in hand, stack of states, stack of symbols | text to `SurfProg`: shift, reduce, accept, refuse | runner |
| `check_prog` (`compile.rs:238-433`) | environments passed down | accept, or the first error | runner, compiler |
| interpreter (`interp.rs`) | the machine: control, stack of frames, environments; the output | one turn of the loop of `machine()` | runner |
| lowering passes (`compile.rs:435-900`, `syntax.rs:334-447`) | a tag counter, renaming environments, live sets | tag, `seq_prog`, `uniquify_names`, `liveness_p` | `compile_to_string` |
| conflict graphs (`compile.rs:902-989`) | a `Graph`, equivalence classes | `conflicts` | `compile_fun`, `compile_main` |
| `Graph<V>` (`graph.rs`) | a two-sided adjacency map | insert, remove, query | conflicts, allocator |
| register allocator (`compile.rs:992-1106`) | working graphs, a stack, partial colourings, spill slots | `allocate_registers` | `compile_fun`, `compile_main` |
| code generation (`compile.rs:1143-1696`) | `used_regs` along a path | `compile_with_env`, frames, calls, tail calls | `compile_to_string` |
| assembly printing (`asm.rs`) | none | `Display` | `compile_to_string` |
| runtime stub (`runtime/stub.rs`) | the process of the compiled program: its stack, registers and output | print a value, exit on an error | generated code |
| runner (`runner.rs`), `main.rs` | files in a directory, a child process and its two pipes | usage, emit, interpret; compile, `nasm`, `ar`, `rustc`, run and forward | command line, tests |
| lexer positions (`lexer.rs`) | offsets of newlines | byte offset to line and column | runner, for errors |

Up to the runner everything is sequential; what makes it hard is not threads but

* **random and unordered choices**: the allocator picks vertices with `rand`, and
  ties and traversals depend on the iteration order of hash maps, so a test sees
  one of many executions;
* **work that is thrown away**: a colouring round that fails restarts with some
  of its state kept and some reset;
* **an explicit control stack**: the interpreter rebuilds frames, environments
  and argument vectors (held reversed) at every return;
* **places reused**: a live set that lacks one variable, or one pair of variables
  wrongly taken for equal, overwrites a value only for some programs and some
  allocations;
* **failure in the middle**: a print that fails, an error after output;
* **numbers with two bounds**: 63-bit values computed in 64-bit arithmetic;
* **contracts between parts**: what `check_prog` refuses is what the interpreter
  and the back end panic on; the generated code owes the runtime an aligned stack
  and its registers; the spans of the parser must have a line in `lexer.rs`;
* **tables nobody reads**: the parser is an expansion of macros into 81
  productions and 100 states, where a tree of the wrong shape is still a program.

The runner adds processes: several commands can share its directory, `ar` decides
by file times, the child writes to two pipes while the runner reads one, and each
write, spawn or read may fail.

The full list, by line, is `hazards` in `PROJECT.json`.

What makes each part correct, in a sentence: the graph is a set of vertices and a
set of edges; the allocator answers once with an allocation of the graph it was
given; `check_prog` accepts exactly the well-formed programs; the interpreter
does what the direct-style interpreter would, without panicking and in bounded
stack for tail calls; every pass of the compiler keeps the meaning of a program,
and so does every allocation; the instructions do what the reference interpreter
does, on an aligned stack and leaving the runtime as it was; the parser gives a
text the one tree the grammar gives it, with spans that `lexer.rs` can place; a
command runs its own program, reports what it did, and ends.

## 2. The modules

`A <- B` reads "B extends or instantiates A".

```
Graph                     <- GraphStore (refines AbstractGraph) <- GraphProofs
Graph                     <- Places <- RegAlloc (refines AllocSpec) <- RegAllocProofs

Snake                     <- Interp <- TailCalls, BigStep
TailCalls, DirectStyle    <- InterpRun (refines RunSpec) <- MCInterp
TailCalls, BigStep, Lemmas                   <- InterpProofs

Snake                     <- CheckRules <- Check
Snake, Places             <- Analysis <- Passes
Check, Passes             <- Lowering <- Codegen
DirectStyle, Analysis     <- Placement
Lowering, Placement       <- Compiler <- MCCompiler
Compiler, Codegen         <- Machine (refines RunSpec) <- MCMachine
BigStep, Analysis         <- PlacedRules
CheckRules, PlacedRules, InterpProofs        <- CompilerProofs
CompilerProofs, Passes    <- LoweringProofs

Snake                     <- Grammar <- Parser <- Derivations
Grammar                   <- Tables
Derivations, Syntax, Printing, Positions     <- ParserRun
ParserRun, Tables         <- MCParser
Derivations, Positions, Lemmas               <- ParserProofs

Runner                    <- RunnerProofs, MCRunner
```

`Samples` has programs for the MC modules, and `Lemmas` what several modules of proofs
need.

Where the code recurses over a tree, the model has two modules. One stops at the
parts of a node, as rules or as operators that are handed what is known of the
parts (`CheckRules`, `Passes`, `Analysis`, `PlacedRules`, `BigStep`, `Derivations`), and is what
the proofs speak of; the other (`Check`, `Lowering`, `Placement`, `DirectStyle`,
`Syntax`) recurses, and is what the runs compute.

**Values, names and trees.** `Snake` gives the syntax as records, and values and
primitive operations as in `interp.rs:6-183`: every operation yields a value or
an error, and arithmetic is done at `i64` width (`Wrap`) and then bounded to 63
bits, both relative to the constant `MaxInt` (2^62 - 1 in the code, 3 in the
runs). A name is a tuple of the parts that `format!("{}_{}", ..)` joins, so that
the identifier `x_2` and the name made from `x` and tag 2 are one name, as they
are in the code. Spans are left out and tags are not stored: a pass computes the
tag of a node from its position in post-order, which is what `map_ann` numbers.
Wording of messages is left out everywhere.

**`Graph`, `GraphStore`, `AbstractGraph`.** The map of `graph.rs` as a function from
vertices to sets, one operator a method; `GraphStore` drives it with any sequence
of mutations and is shown to refine `AbstractGraph`. These two and `RegAlloc` are
run as they are, with the constants given in the `.cfg`.

**`Places`, `AllocSpec`, `RegAlloc`.** `Places` is `VarLocation` and says when a choice
of places is an allocation of a graph. `RegAlloc` is `allocate_registers`, one
action for each straight piece of its loops: `Simplify` (the `while`),
`PushMaxDegree`, `StartSelect`, `Color`, `SpillAndRestart` (which includes the
fresh stack and graph of the next round), `Return`. Registers are their ranks in
the derived `Ord` of `Reg`, since the code takes the minimum. `rand` and hash order
are nondeterministic choices. `AllocSpec` is what the caller relies on.

**`CheckRules`, `Check`.** `check_prog`, environments threaded top down, first error
kept; and `WellFormed`, a bottom-up reading of the same rules through free
occurrences of names. `CheckRules` has one node of each, `Check` the recursion.

**`Interp`, `InterpRun`, `DirectStyle`, `RunSpec`.** `Interp` has one action for each arm
of `machine()`; a print may fail. Two constants: the programs, and `Accepted`, the
judgements (expression, scope, functions) that `check_exp` answers Ok to, about
which the module assumes only the shape that each arm of `check_exp` enforces.
`DirectStyle` is the recursive interpreter that the comment at `interp.rs:263` says
was defunctionalised; `RunSpec` says what running a program with a given meaning
may do, step by step.

**`TailCalls`, `BigStep`.** What proofs about `Interp` need beside it. `TailCalls` says
which programs have no call but in tail position, and how many frames the machine
can need for an expression that makes none (`Depth`, a constant that the run
computes). `BigStep` has the direct-style interpreter as rules: which evaluations
there are when those of the parts are known, printing and errors included, and
evaluations cut short, so that a program that does not end has an evaluation for
everything it prints. What a program means is in every relation that keeps the
rules, that is, in the least one.

**`Passes`, `Analysis`, `Lowering`, `Placement`, `PlacedRules`, `Compiler`.** `Lowering` has
the passes as recursive operators. `Passes` has what `sequentialize` and `uniquify_names` do
at one node (`StepArm`, `LastArm`, `UniquifyArm`), and `Analysis` what `liveness`, `get_child_ann` and
`conflicts_helper` do (`LivenessArm`, `ChildAnnArm`, `ConflictsArm`); both are handed what is
done with the parts: `Lowering` hands them itself, and a proof a table of answers
(`LoweredBy`, `RenamedBy`, `Surveyed`). `Analysis` also has the frames of functions, and when what was found out
about a program is enough to share places (`Analysed`). `Compiler` runs `check_prog` and then the passes in the order of
`compile_to_string`, one pass a step, then one step for each function: its conflict graph, an arbitrary
allocation of it, and the panics of `conflicts_helper` and `compile_with_env`.
`Placement` evaluates the lowered program with its variables in those places, as
`compile_imm` and the arm of `Let` read and write them; `PlacedRules` says the same as
rules.

**`Codegen`, `Machine`.** `Codegen` is `compile_fun`, `compile_with_env`,
`compile_to_instrs` and the frame of `compile_to_string` as operators that return
sequences of instructions: tag and overflow checks, frames, saved registers,
calls, tail calls that reuse the frame, error exits. `Machine` continues a run of
`Compiler`: it links (the assembler refuses a label defined twice), starts
`start_here` and takes one instruction a step on registers, flags and a stack of
words. Offsets are counted in words of eight bytes. The functions of
`stub.rs` are steps that may overwrite every volatile register, may fail to
print, and may crash on a stack that is not aligned. Its specification is again
`RunSpec`: compiled programs and the interpreter keep the same promise.

**`Grammar`, `Tables`, `Parser`.** `Grammar` has the productions as LALRPOP expanded
them, one definition for each group of `__reduceN`, with what the `__actionN` they
call do to the values. `Tables` has the automaton. A state is the set of items it
stands for instead of a number: the 3,300 entries of `__ACTION`, those of
`__EOF_ACTION` and the cases of `__goto` are then two functions. This is
faithful for this grammar, which is SLR(1): reading the tables back from
`parser.rs` gives the same 100 states with the same shifts, gotos and reductions,
entry by entry. `Parser` has the tables as constants, of which it assumes no more
than that each state was made from items, and is the state machine: the lexer (`SkipBlank`, `NextToken`,
`InvalidToken`, `EndOfText`), `Shift`, `Reduce` with pops, value, span and goto,
`LiteralPanics` (`i64::from_str(s).unwrap()`), `Accept`, `Unrecognized`. A text
is a sequence of pieces, each a blank or the text of a token, read one at a time.
The regular expressions and the rule that the longest match wins, ties going to
the later expression, are in what `Kind` makes of a piece and in which pieces may
touch. One consequence is worth knowing: `1 -2` and `1-2` lex as two numerals and
are refused, since a sign belongs to the numeral.

**`Derivations`, `Syntax`, `Printing`, `Positions`, `ParserRun`.** Three references for
the parser, written independently of its tables: `Derivations` says which symbol,
with which value and span, stands for which pieces of a text; `Syntax` gives the trees of a sequence of
tokens by looking for places to cut it, rule by rule as `parser.lalrpop` has them;
`Printing` writes a program with only the parentheses that precedence and
associativity ask for. `Positions` is `lexer.rs`, with lines and columns counted by
hand as reference. `ParserRun` composes them as `parse_file` does.

**`Runner`.** Any number of commands, each with the stages of its mode: `--run` creates,
writes, assembles, archives, links, spawns, forwards lines, waits and reads the
errors; and its child, which prints lines, may complain, exits, or panics when
nobody listens. The content of a file is the command whose program it was made
from, so that mixing programs up is visible. File times are seconds, so that `ar
u` can find the object no newer than its archive.

## 3. What is checked

Most runs finish in seconds, the longest in a few minutes.

| run | question | bounds, and why they are enough |
|---|---|---|
| `graph` | does the adjacency map act as sets of vertices and edges? | 4 names: all 113 loop-free graphs, each way to reach them |
| `alloc` | is the allocator right at every step, for every random choice, and does it return, once, with an allocation? | every graph over up to 5 variables, 2 registers: rounds are abandoned up to three times, and graphs that need spilling and graphs that do not both occur |
| `interp` | does the machine implement the direct-style interpreter, without panics, overflow or stack growth? | 556 checked programs, two levels of constructs in main, functions that loop, recurse, print, swap arguments and diverge; `MaxInt` 3, so wrap-around and bounds are near; `Fuel` 12 calls, more than any ending program makes |
| `compiler` | does `check_prog` accept exactly the well-formed programs, and does each pass, and every allocation, keep the meaning of those? | 2,688 programs: well-formed ones with shadowing, copies of copies, printing operands and recursion; and mostly wrong ones, with every construct over unbound, shadowed, duplicated and function names and literals at the edge, and pairs of declarations. Two registers and two spill slots, so that more variables are live than there are registers; `Fuel` 6 |
| `compiler_colliding` | expected violation, see 6 | four programs |
| `machine` | can an accepted program be assembled, and do its instructions do what the reference interpreter does, on an aligned stack, in constant stack for tail calls? | main bodies with each operation over numbers and booleans at the edge, calls with zero to three arguments in tail and other positions, argument swaps, loops, recursion with spilled variables; every allocation with Rbx (callee-saved) and Rsi (caller-saved) and two spill slots; a stack of 71 words, enough for the deepest recursion; `Fuel` 8 |
| `machine_tail_parity`, `machine_error_value` | expected violations, see 6 | tail calls to functions with one parameter fewer; operations on operands of the wrong type |
| `parser` | does the parser answer every text, accept with the one tree and spans of the grammar, refuse at the end only what has none, and read back what was written? Has each span its lines and columns? | every text of up to 5 of 22 words, one of each kind; programs with every operator, every form nested twice in every other, with minimal parentheses, up to two functions with zero to two parameters, trailing commas or none, each cut off anywhere; four short programs and a text that is none with spaces, newlines and three-byte blanks, two anywhere and one after every word |
| `parser_literal` | expected violation, see 6 | one token |
| `runner` | does each command run its program, report how it ended, leave no child and end? | a program that succeeds, whose write may be cut short, and one that fails, at once, with pipes of one line so that writers wait and every failure of a tool; then an interpreted one, one whose assembly is shown and one with wrong arguments, at once |
| `runner_archive` | expected violation, see 6 | two commands in one directory, one after the other |

Bounds are named in the modules: `MaxInt`, `Fuel`, `MaxSlots`, `Programs`, `Var`,
`Registers`, `StackWords`, `MaxTokens`, `MaxBlanks`, `PipeSize`. Every action of every
specification is taken in some run.

**Fairness.** `RegAlloc` and `Interp` assume weak fairness of their whole next-state
relation and nothing finer: both are sequential functions that no lock, wait or
other party can hold up, so that while a step is possible one is taken. Which
vertex `rand` picks, or whether a print fails, is left to the demon. `Machine`
assumes the same of the one thread of the compiled program, and `Parser` of the
parser, whose text is finite. `Runner` assumes weak fairness of each command and
of each child: they are processes the system schedules. A command that waits at a
pipe is not enabled, so nothing is assumed of it until the other end moves; and
`CommandsEnd` asks nothing of a program that is not among `Ending`.
`Compiler` and `GraphStore` state safety only.

**The properties, by the hazard they are aimed at.** Abandoned rounds:
`Accounted`, `GraphsAgree`, `SpillSlotsDense`, `RoundsEnd`, `Termination`. Random order:
`ProperColouring`, `NoSpillIfDegenerate`, `SpillVictimHighDegree`,
`ImplementsAllocSpec`. Frames and reversed vectors: `ImplementsRunSpec`, `NoPanic`,
`TailCallsKeepStack`. Two bounds on numbers: `ValuesFit`. Reused places:
`SoundAnalyses`, `PlacesPreserveMeaning`, `OnlyPrintStackPanics`. Order of
effects: `MeaningPreserved`. Frames, saved registers and overwritten arguments:
`AlignedCalls`, `RuntimeUndisturbed`, `TailCallsReuseFrame` and `ImplementsRunSpec`
again. Labels: `LabelsMeetOnlyReserved`. Tables: `ParsesByGrammar`, `ReadsBack`, `Deterministic`, `StacksAgree`, `Answers`.
Spans and lines: `PlacesRight`. Processes, files and pipes: `PrivateRunsOwn`,
`OutcomeReported`, `LeavesNoChild`, `CommandsEnd`. Each has a mutant in `PROJECT.json`: a change to one
definition, of the kind a bug would be, that the run then catches. The mutated
definitions stand before the originals in the modules.

## 4. What is proved

For every value of the constants, with TLAPS. The assumptions that modules state
about their constants are evaluated in the runs; those that code justifies are
named below.

**The allocator** (`RegAllocProofs`: any finite set of variables, any finite set of
registers, none included). The invariant `IInv` is the conjunction of `TypeOK`,
`GraphsAgree`, `Accounted`, `ProperColouring` and `SpillSlotsDense`. None of them is
inductive alone: that the colours are right when a vertex gets one needs that its
coloured neighbours are its neighbours in `conflicts` (`GraphsAgree`), that the answer
covers the input needs that each vertex is in one place of the algorithm
(`Accounted`), and so on. From it follow `TypeCorrect`, `GraphsAlwaysAgree`,
`NoVariableLost`, `ColouringIsProper`, `SlotsAreDense`, `VictimHasHighDegree`, and
`Refinement`, the safety part of "implements `AllocSpec`".
`DegenerateNeverSpills` has a second invariant: in a graph that can be taken apart,
every vertex on the stack had fewer than k neighbours among those still below it
when it was taken, so a colour is left for it when it comes off.
`RoundsAlwaysEnd` is the argument for termination as an action property: every step
makes the pair (vertices of the graph to colour, steps left in this round) smaller
in the lexicographic order. What `Termination` adds to it is that a step is always
possible and taken, which is fairness and `ENABLED`, and stays with the run.

**The interpreter** (`InterpProofs`: any `MaxInt`, any set of programs and any
`Accepted` with the assumed shape). `IInv` says that whatever is still to be
evaluated, in the control and in each frame, was accepted in the scope that its
environment has, and that a call under preparation will have as many arguments as
the function has parameters. `CheckedProgramsDoNotPanic` and `ValuesAlwaysFit` follow.
`AcceptedAssumption` and `ProgramsAssumption` are evaluated by the run `interp`, where
`Accepted` is computed with `CheckExp`: they are the link between the two components.
`TailCallsAlwaysKeepStack`: a program whose calls are all tail calls needs no more
frames than its text asks for, however long it loops. Its invariant `TailIInv` says
of each frame that it waits for a part that is not in tail position, at a height
that leaves room for what that part needs. `TailCallsAssumption`, that an
expression needs one frame more than the parts it waits for, is evaluated on the
depths that the run computes.

**The interpreter does what direct style does** (`InterpProofs`, same constants).
`MachineEvaluates`: whatever a program has printed, the rules of `BigStep` have an
evaluation of it that printed this much, and if it has ended, one that comes to the
same result. The invariant `BigStepIInv` reads the stack of frames as a
continuation: each frame has a set of results that serve it, those of the frame
below follow from them, and the control owes one to the top. This is the safety of
`ImplementsRunSpec` with rules in place of the recursive `DirectStyle`; that the two
agree, and that a program that ends does so, is left to the run. A rule is about
one expression and its parts, so the theorem needs no induction over
trees, and programs that do not end are no exception to it.

**The parser** (`ParserProofs`: any words with any widths, any text, any tables made
from items). `StacksAlwaysAgree`, by the `IInv` of `Parser`: the states on the stack
are what the transitions make of the symbols, so that a reduction pops the symbols of
its rule and never more than there are. `AcceptsOnlyDerivations`: what is
accepted is derived by the grammar for the whole text, with that value and that
span in every node. `TablesAssumption` and `StartAssumption`, about the tables, are
evaluated on those of `Tables` by the run `parser`. This is one direction: that it
refuses only what has no derivation, and that there is but one, depends on the tables being
free of conflicts and complete, and stays with the run.
`PiecesHavePlaces`: for any text and any two of its pieces, `lexer.rs` finds the lines
and columns where the first begins and the last ends, and does not panic;
`SpansAlwaysHaveLines`: no span that the parser makes is one on which it would. That the
recursive functions of `Positions` exist at all (`CHOOSE` gives what is meant) is
proved there too, by induction over the set of lengths for which they do.

**The static checks** (`CompilerProofs`: any program). `CheckProgAcceptsWellFormed`: the
checks that run top down, with scopes, and stop at the first error accept exactly
what the bottom-up reading of free occurrences calls well formed. The proof is by induction over the rank of an
expression; the heart is that to bind a name in what is left over (`Unbind`) and to
add it to the scope are the same. Since the prover does not unfold recursive
operators, the theorem speaks of any functions that keep the equations of `CheckExp`,
`Occurrences` and `WellFormedParts` on the parts of the program (`Examined`); the run
`compiler` evaluates (`ProgramsExamined`) that the recursive operators are such
functions for each of its programs.

**Shared places** (`CompilerProofs`: any program `check_prog` accepts, any registers,
any answer of the allocator). `PlacesAreSound`: if the analyses found out enough
(`Analysed`) and the places are an allocation of the graphs, then whatever the program
comes to with its variables in those places, it comes to without them. Evaluation
in places is the least relation that keeps the rules of `PlacedRules`; the proof gives
a relation that keeps them, the set of the evaluations that are right, in which
every live variable is found in its place before and after. The second hypothesis
is what `RegAlloc` is proved to give; `Analysed` of what the passes found out is
`SoundAnalyses` of the run `compiler`, and the next theorem. Not in the theorem:
that code saves registers around calls and that a tail call reuses its frame, which
`machine` checks.

**The analyses** (`CompilerProofs`: any program `check_prog` accepts, as `liveness_p`
left it). `AnalysesAreSound`: what `liveness` and `conflicts` find out is `Analysed`. The
proof goes down from the bodies, by induction over the rank of an expression, with an
invariant for each of the two analyses: what is live where liveness goes can be read
there and is no parameter (`InScope`), and the classes where conflicts goes (`KnownEqual`) are
disjoint, of variables already bound, and name no variable still to be bound. From it
`AllocationIsSound`: any allocation of the graphs that
`conflicts` makes keeps the meaning; and `AssertionsHold`: the assertion of
`conflicts_helper`, that a variable is in at most one class, never fails, and the
vertices of a graph are the variables that the body binds, so that each has a place.
As for `check_prog`, the recursive functions are whatever keeps their equations on the
parts of a program (`AnnotatedBy`), and the run evaluates that `Liveness`,
`GetChildAnn` and `ConflictsHelper` do so on each of its accepted programs
(`ProgramsSurveyed`). One hypothesis is about names: `NothingShadowed`, that no let binds a
parameter or a variable in scope. It is needed, not a convenience; that
`uniquify_names` brings it about is the next theorem but one.

**The passes** (`LoweringProofs`: any program that `check_prog` accepts, if it accepts
what each pass makes of it too). `SequentializingIsSound`, `RenamingIsSound`: whatever
a program evaluates to after `seq_prog`, and after `uniquify_names` and `liveness_p`, it
evaluated to before, with the same output. `NamesAreUnique`: no two lets of a body that
`uniquify_names` made bind the same name, and none a parameter's. From it
`SharingIsSound`: what `AllocationIsSound` asks about names, these passes bring about.
Together they are `CompilationIsSound`: whatever a program does with its variables in
any places that `allocate_registers` may answer with, its source does. The functions
are again whatever keeps the equations of `Passes` (`LoweredBy`, `RenamedBy`), and the run
`compiler` evaluates that `Sequentialize` and `UniquifyExp` do, and that `check_prog`
accepts what they make (`ProgramsLowered`).

A program means what is in every relation that keeps the rules of `BigStep`, so that a
pass is right if the source's rules follow the steps of what it made. The proofs say so
with a simulation: a set of triples, each an expression with an environment and a set that
has everything it may come to, such that what a rule asks of a triple's parts is a
triple again (`SimRule`). The evaluations that such a set admits keep the rules
(`AsSimulated`), and the least relation is inside.

* Renaming and annotating make programs that are alike up to names (`LikePrograms`):
  the same constructs over environments that give equal values to names that
  correspond. What needs proof is that a new name hides no other. The tags of the lets in a part lie in the
  range of positions that `map_ann` gives to that part, and ranges of different parts
  are disjoint: an induction over the rank of an expression, and `NamesAreUnique` at once.
* Sequentializing takes a construct apart. What it makes of one is a chain of lets, and
  halfway through it the source is at an operand, not at an expression: the results
  that then remain (`Awaits`, `Waits`) are those of the construct when its first operands
  have come to the values that the temporaries hold. Operands that stay are passed over, and are read
  later than the source reads them, which is sound since an immediate prints nothing and its variable cannot
  change. A temporary hides no variable of the source (`SourceIn`), as no identifier
  that was read (`Written`) is called like one.

One hypothesis on names is left, in `RenamedBy`: no parameter is called like a variable
of its function with a tag (`Untagged`). `compiler_colliding` (section 6) has programs
that break it, and on them the theorem's conclusion fails.

**The runner** (`RunnerProofs`: any commands, directories, programs and size of the
pipes). The invariant has a part for each command, `Staged` (what its control says of
its mode and child), `Piped` (what is in the pipes, and that a child that ended had
said everything) and `Ended`; commands disturb each other only through files, so
each part is kept by the steps of the others for free. `TypeCorrect`,
`ChildrenAreReaped` and `OutcomesAreReported` follow. `PrivateCommandsRunTheirOwn`
needs a second invariant: the files of a directory that only one command uses are
that command's, or what its short write left of it (`Owned`).

**The graph** (`GraphProofs`: any set of vertices). `StaysUndirected` and `Refinement`,
the whole of "`GraphStore` implements `AbstractGraph`". The invariant says that neighbours
are vertices, that the map is symmetric and that nothing is its own neighbour.

`Lemmas` has what the proofs need of sequences used as stacks, and the least element of
a set of natural numbers, from which inductions over numbers are made: the induction
theorems of the library take an operator, which the prover does not instantiate.

**Only model-checked.**

* Liveness: `Termination`, `CommandsEnd`, `Answers`, and the liveness of
  `ImplementsRunSpec`. The prover has neither fairness nor `ENABLED`.
* `ImplementsRunSpec` for `InterpRun`: it compares with the recursive `DirectStyle`,
  which takes an induction over trees and operators the prover does not unfold; that the
  machine keeps the rules is proved (`MachineEvaluates`).
* The properties of `Compiler` speak of recursive operators of `Check`, `Lowering` and
  `Placement`. What is proved of each is for functions that keep the same equations:
  `AcceptsExactlyWellFormed` is `CheckProgAcceptsWellFormed`; `MeaningPreserved` is
  `SequentializingIsSound` and `RenamingIsSound`; `PlacesPreserveMeaning` is
  `CompilationIsSound`; `UniqueNames` is `NamesAreUnique`; `SoundAnalyses` and
  `OnlyPrintStackPanics` are `AnalysesAreSound` and `AssertionsHold`.
* The theorems on meaning have one direction: nothing that a compiled program does is
  foreign to its source. That whatever the source does has a compiled evaluation, and in
  particular that a program that ends still does, is checked by the run, where
  `MeaningPreserved` and `PlacesPreserveMeaning` ask for equality.
* `AlignedCalls`, `RuntimeUndisturbed`, `TailCallsReuseFrame`, `LabelsMeetOnlyReserved`
  and `ImplementsRunSpec` of `Machine`: the instructions come from the recursive
  operators of `Codegen`.
* `ParsesByGrammar`, `ReadsBack` and `PlacesRight` compare with recursive operators of
  `Syntax` and `Printing` (soundness and places proved, as said above);
  `Deterministic` is a fact about the 100 states, which the run computes.

## 5. What is not modelled

* `ExpParser`, a second parser in `parser.rs` (lines 14-2597) that nothing calls, and
  the wording of parse errors;
* the text of instructions (`Display` in `asm.rs`), which keeps no state; `Machine`
  starts from the instructions and only asks whether their labels are distinct;
* in the stub, `dbg` and `print_snake_stack`, which no compiled code calls: programs
  that use `printStack` do not get past the `todo!()` of `compile_with_env`;
* functions named like a symbol of the assembly or a keyword of the assembler: their
  labels meet, `nasm` refuses the text (`Machine` has the state `unlinkable`, and
  `LabelsMeetOnlyReserved` says it has no other cause), and no program of the run is
  one of them, since such a program never runs as `ImplementsRunSpec` asks;
* `nasm`, `ar`, `rustc` and the file system beyond what the runner sees of them;
* `Display` of errors and spans, and the wording of messages.

## 6. Findings

* `compiler_colliding`: `uniquify_names` renames locals but not parameters, and a
  renamed local can be called like a parameter. In `def f(x_2): let x = -1 in
  x + x_2` the let has tag 2, so its variable becomes `x_2` and captures the
  parameter. The interpreter, "the reference interpreter" (`interp.rs:479`), and
  the compiled program disagree. The passing run `compiler` therefore has no
  identifiers that end in an underscore and a number.
* `machine_tail_parity`: a tail call to a function with one parameter fewer jumps
  into a frame whose parity is the caller's. What it calls of the runtime is then
  called on a stack that is not 16-byte aligned, which the convention that `asm.rs:30`
  follows forbids. `tests/examples.rs:112` says "No need to test tail call with
  different arity". The passing run `machine` has no such program.
* `machine_error_value`: `arith_error` and the other exits (`compile.rs:1674-1693`) set
  `rdi` and not `rsi`; the message "arithmetic expected a number, got {}"
  (`stub.rs:68`) shows whatever `rsi` holds.
* `runner_archive`: the comment `runner.rs:199` says `ar r`, the code calls `ar rus`, and
  with `u` an object that is not newer than the one in the archive is not replaced.
  Two runs within a second can therefore run the first program twice.
* `parser_literal`: a literal outside `i64` panics in the parser (`parser.lalrpop:113`),
  and one outside 63 bits gets the error of `compile.rs:108`.

Two limits of the runner are not findings, as nothing in the repository says
otherwise; the properties name them. `--run` always works in the directory `runtime`
(`runner.rs:90`), so `PrivateRunsOwn` speaks of commands with a directory of their
own, as the tests have. And `write` (`runner.rs:176`) may write a part: what is
assembled is then `Garbled`, which the property allows where `ShortWrites` does.

The order of the register list, of which `asm.rs:34` says "This order puts the
caller-save registers first", has no effect: the allocator takes the minimum of the
derived order of `Reg`, where the callee-saved `Rbx` comes first. Nothing computes a
wrong result.

## 7. Plan

1. *(done)* `Graph`, `RegAlloc` with `AllocSpec`, `Check`, `Interp` with `RunSpec`,
   `Lowering` and `Compiler`; proofs for `RegAlloc` and `Interp`.
2. *(done)* `Codegen` and `Machine` against `RunSpec`; `Grammar`, `Tables`, `Parser` and
   `Positions` against `Syntax` and `Printing`; `Runner`; proofs for `Runner` and
   `GraphStore`.
3. *(done)* Proofs beyond the invariants of single machines: tail calls, direct style
   as rules, derivations, places, the analyses, `check_prog`, positions, the rounds of the
   allocator, the passes, and all of these together from the source to its places.
4. Proofs still worth having: that `check_prog` accepts what a pass makes of a program it
   accepts, which the theorems on passes now assume and the run evaluates; and code generation against
   `PlacedRules`, starting with the pieces of `Codegen` that are not recursive (alignment
   arithmetic of frames and saved registers), which asks for a module of their own.
