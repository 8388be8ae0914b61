# A specification of the TDS25 compiler (`ctds`)

TLA+ models of the compiler in `src/`, model-checked with TLC on small programs
and, where it says so, proved with TLAPS for programs of any size. The compiler
is sequential. Its difficulty is not concurrency but long sequences of legal
steps: global flags that pair openings with closings, one result cell shared by
all declarations, names that are rewritten in place, a frame sized by one pass
and filled by another, files that outlive the command. So the models let the *program being compiled* be the
environment: which token, node or statement comes next is a free choice.

## The system

| Part | Source | State | Interaction |
|---|---|---|---|
| driver | `main.c`, `link.sh` | flags `optimizations`, `debug`, the stage; the files `.codinter`, `.s`, `.o` and the executable | runs the stages in order, each through global variables |
| lexical stage | `lex.l` | line counter | called by the parser for each token |
| syntactic stage | `parser.y` | `current_args_list`, `suppress_next_block_push`, `last_block_pushed` | mid-rule actions open and close scopes, declare and look up symbols, build the AST |
| symbol table | `symbol_table/` | `stack_level`, `global_level` | called by the parser; AST leaves keep pointers into it, also into scopes already popped |
| AST | `tree/` | `head_ast`, `end_ast` | built by the parser, changed by the semantic stage with `-opt`, read by the later stages |
| semantic stage | `semantic_analyzer/` | `returned_global`, one `ret` for all declarations, `method_return_type` | checks types and returns, folds constants and dead branches with `-opt` |
| intermediate code | `intermediate_code/intermediate_code.c` | `code[]`, counters, list of temporaries | post-order walk that emits three-address code |
| reuse of temporaries | `intermediate_code/optimization.c` | the counts, locks and name buffers of the temporaries | rewrites names in `code[]` with `-opt` |
| object code | `object_code/` | `var_map`, `current_stack_offset`, `param_count`, `stack_params` | one pass over `code[]` that prints x86-64 |
| error reports, printing, utilities, run-time library | `error_handling/`, `print_utilities/`, `utils/`, `libraries/` | none that matters here | a report ends the compilation, or not |

What makes each part correct, and what is hard to test in it:

* **Parser and symbol table.** One scope per open block, at every moment; a name
  means the innermost declaration around it; a popped scope never changes; each
  method gets its own arguments. Two global flags, not a stack, decide whether a
  `}` pops.
* **Return analysis.** A method with a value is accepted only if it returns, and
  rejected only if it does not. The verdict depends on a flag set and reset in
  six places and on a cell that is never initialized.
* **Intermediate code.** Temporaries are written once and read in the same basic
  block; jumps land in their own method, also when `-opt` cuts a block at a
  `return`.
* **Reuse of temporaries.** Renaming changes no value; counts stay exact.
* **Object code.** A slot holds its variable in every activation, across calls,
  recursion and stack arguments; calls restore the stack; arguments arrive in
  order.
* **Types and constants.** Wrong operands are reported, and only those; what the
  compiler folds in 32 bits, or turns into a shift, is what the program would
  have computed in 64; a folded condition keeps the blocks its value asks for.
* **Driver.** The files a command leaves are those of its source and its flags,
  whatever earlier commands, interrupted or failed, left under the same name.

`PROJECT.json` lists the hazards line by line, with the properties that watch
each of them.

## Modules

| Module | Models | Uses |
|---|---|---|
| `SymbolTable` | `symbol_table.c` as operators on a table | |
| `ParserScopes` | grammar actions of `parser.y` that drive the table | `SymbolTable` |
| `LexicalScopes` | abstract: block-structured visibility | |
| `ParserScopes_proofs` | theorems | `ParserScopes`, `LexicalScopes` |
| `ReturnAnalysis` | `eval_method_decl`, `eval_block`, `eval_if`, `eval_while`, `returned_global`, `ret` | |
| `ReturnAnalysis_proofs` | theorems | `ReturnAnalysis` |
| `MachineArithmetic` | what the operators compute, on integers of any width | |
| `ExpressionAnalysis` | types and folding: `eval_common`, `eval_leaf`, `eval_method_call`, the conditions of `eval_if` and `eval_while`; division as a shift | `MachineArithmetic` |
| `ExpressionMeaning` | abstract: typing and run-time values of expressions | `MachineArithmetic` |
| `ExpressionAnalysis_proofs` | theorems, those of `MachineArithmetic` first | `ExpressionAnalysis` |
| `IntermediateCode` | `gen_code*`, `emit`, the list of temporaries | |
| `IntermediateCode_proofs` | theorems | `IntermediateCode` |
| `Optimization` | `optimize_memory` and its helpers | `IntermediateCode` |
| `Optimization_proofs` | theorems | `Optimization`, `IntermediateCode_proofs` |
| `ThreeAddressCode` | abstract: what intermediate code means | `MachineArithmetic` |
| `ObjectCode` | `generate_object_code`, one action per `case` | `ThreeAddressCode` |
| `ObjectCode_proofs` | theorems about the code | `ObjectCodeRun` |
| `ObjectCodeRun_proofs` | theorems about its execution | `ObjectCode_proofs` |
| `ObjectCodeRun` | what the emitted code does on the processor, next to `ThreeAddressCode` | `ObjectCode` |
| `Driver` | `main.c`, `link.sh`: arguments, stages, files, faults | |
| `Driver_proofs` | theorems | `Driver` |
| `MC*` | constants and program families for TLC | |

Definitions named "mutant of ..." are plausible bugs. They are used by nothing
in the models; `PROJECT.json` says which property each of them breaks, so that
every property is known to be able to fail.

### `SymbolTable`, `ParserScopes`, `LexicalScopes`

The state is the chain of scopes, the two flags, the argument list, the list of
method symbols and the parser's own stack (open blocks, the name of the method
being read). `headers` is a history variable: the parameters of every method header
so far, as the source has them. Each mid-rule or reduction action of the grammar is one action:
`var_decl`, `UseId`, `method_args`, `arg_list`, `block_open`, `block_close`,
`method_decl`, `program`, and the failing alternatives that end the compilation
(`Exit`). `LexicalScopes` is what a reader of the language expects: nested blocks
own declarations, an identifier means the nearest one. `LexicalVisibility` is the
refinement `ParserScopes => LexicalScopes`.

### `ReturnAnalysis`

`frames` is the C stack of pending `eval_block` calls with the cell each of them
fills; `ret` and `returned_global` are the globals. An action per kind of
statement, per way an `if`, a `while` or a block ends, and per verdict. `returns`
is a history variable: where the method's returns were. An uninitialized cell is
a free choice. Whether an expression is well typed is a free choice too. With
`-opt`, an `if` or `while` on a leaf is folded as the code folds it.

### `MachineArithmetic`, `ExpressionAnalysis`, `ExpressionMeaning`

The tree is walked in post-order; `tree` is the node that is evaluated, the input of
both modules; `results` holds the evaluated nodes whose parent is not evaluated yet,
each with its type, with what its `LEAF_UNION` holds if it
is a leaf, and with the value the compiled program will give it. There is an
action for a literal, an identifier, a method's name in the place of one
(`EvalMethodName`), an operation that stays (`Operate`), one that
is folded (`Fold`), unary operations, calls, each way a statement ends and each
kind of report. `int_value`, `bool_value` and `id_leaf` are one cell, as in the
union: an identifier read as an int or a bool is a piece of an address. The
compiler computes in ints (`HalfInt`), the program in words (`HalfWord`); both wrap,
which for the compiler is what gcc makes of it without optimization. An operation that
stays is the instruction `generate_object_code` chooses for it (`Instruction`), and a
division by a leaf that is a power of two is a shift with a bias (`Shifted`). The
value `Unknown` is that of a word nothing has written: a variable not assigned, the
`%rax` of a void method.

`ExpressionMeaning` knows no folding, no shift and no instruction. It answers the
construct that stands next in the source: of which types its operands must be, what it
yields at run time (a value, or the end of the program), that an operation on
constants may be done in ints, whose overflow it leaves open, and when it is
reported. `KeepsMeaning` is the refinement. Both read the same `tree`, so every step
is compared with the operator, call or statement it compiles and with no other: a
sum cannot pass for a difference, nor a value for that of a call. Two things are
left open. A method's name in the place of a variable may be rejected or be of either
type. And a division by an identifier that the code takes for a power of two
(`Misread`) may yield anything, because it does.

### `Driver`

One process after another on the same disk. `phase` is where `main` is; an argument
is one action, and a stage one or two: `OpenObject` truncates the file that
`WriteObject` fills. A file is identified by what it contains: nothing, a truncated
text, no code at all, or the code of a source under `-opt` or not. The environment
chooses the arguments, whether the source is accepted, whether a file opens,
whether `gcc` fails, and may interrupt at any moment; `faults` records which of
these happened. A name is a model value: names with a slash, which may share an
executable, are left out.

### `IntermediateCode`, `Optimization`

`gen_code` is a post-order walk, so a program is a sequence of emissions:
`operands` holds the `INFO`s that pending callers have received, `open` the
blocks and statements not finished. All names of the program are one name: what
matters is which operands are temporaries and labels. All occurrences of a
temporary point to one buffer, so `Optimization` leaves `code` alone and changes
`buffer`, as `strcpy` does; `Scan` is one operand of the pass.

### `ThreeAddressCode`, `ObjectCode`, `ObjectCodeRun`

`ObjectCode` turns a program in intermediate code into `asm`, a sequence of
instructions over registers, immediate values and slots. `ObjectCodeRun` then
executes `asm` on a small x86-64 machine (external) and, whenever the processor
begins the code of an instruction, lets `ThreeAddressCode` execute that
instruction. The properties compare the two: the path, every variable of every
activation with its slot, the arguments at each call, the stack pointer.
`ThreeAddressCode` knows variables as symbols (name and scope), the code knows
them by name. `ObjectCode` has the properties that concern the assembly file and
the map of slots, whatever is executed; `slots` is a history variable that keeps
the map of each method, which the code forgets at the next `I_ENTER`.

Programs have the shape that `intermediate_code.c` gives them (`ProgramsAssumption`): each
method in its own `ENTER` and `LEAVE`, returns inside a method
(`generateMethod`); no two methods have one name, and no two parameters
of one method (the parser ends the compilation otherwise); a call directly behind as many
`PARAM`s as its method has parameters (`gen_code_method_call` evaluates all arguments first;
the semantic stage has counted them); labels that differ and jumps that stay in their
method (the `JumpsResolve` of `IntermediateCode`); operands that are values where they are
read and places where they are written. There is a `main`.

The label of an epilogue has the name of its method, the jump of a return what a buffer
of 64 characters holds of it (`object_code.c:163`). `FirstCharacters` is that cut, and
`current_func_name` applies it. When all is generated, `link.sh` finds the labels of
all returns (`Resolved`) and the program starts, or it does not and there is no program
(`Unresolved`). `CutNamesAssumption` excludes only that a cut name is the name of another
method: the return would then leave through that method's epilogue, which has
the same three instructions.

The abstract machine takes
no step where the program means nothing: a variable read before it is assigned, an `AND` of
something else than booleans, a division by zero (`Meaningful`); the processor
takes none where it would trap or leave the stack (`Fits`).

## What the runs check

| Run | Question | Result |
|---|---|---|
| `MCParserScopes` | 2 identifiers, 4 scopes: scope discipline, one symbol per method, every method with all the arguments of its own header, popped scopes, refinement of `LexicalScopes` | holds |
| `MCReturnAnalysis` | with and without folded ifs, nesting 3, any length: the flag, the verdicts, returns in loops | holds |
| `RejectedOnlyWithoutReturn` | is a method that returns on every path accepted? | not after a void method or a plain declaration |
| `MCControl` | types and jumps, nesting 3, 14 instructions, `-opt` | holds |
| `MCExpressionAnalysis` | 3-bit ints, 6-bit words, every operator: each construct's type, reports and value (folded, emitted or shifted) against those of the same construct in `ExpressionMeaning`; folded conditions | holds |
| `OnlyDeadCodeEliminated` | is eliminated code dead? (`README.md:19`) | not the `then` of `if (b) ... else ...` |
| `MCOptimization` | every program of 6 instructions and expressions of 8: temporaries, the counts during the pass, meaning preserved, as few names as possible, termination | holds |
| `MCObjectCode` | up to 7 arguments, recursion, loops, every operator, a name too long for the buffer: the code (slots, frames, calls, returns) and its execution (path, variables, arguments, stack, alignment, termination) | holds |
| `MCDriver` | 2 commands, 7 arguments, 2 sources, faults and interrupts: whose files are left behind | holds |
| `ArgumentsInPlace` | 8 arguments | the 7th and 8th are exchanged |
| `SlotsHoldParameters` | unused parameters | slots below the frame are overwritten by calls |
| `GlobalsAreShared` | a global variable used by two methods | each method has its own |

Runs with a "no" or a "not", and the last three, are findings: a statement of the
documentation, a comment or a test, and a behaviour of the code that contradicts
it. The models also have these behaviours, which no run is spent on:

* a method with a parameter or a variable of its own name is rejected as redeclared
  (`symbol_table.c:102`, against `Documentacion.tex:134`);
* after a nested block, `method_decl.scope` is the global scope and not the
  method's (`parser.y:104`, against `Documentacion.tex:115`); nothing reads it;
* the name of a method is accepted where a variable is expected: `find` returns the
  method's symbol, and its `num_args` is read as a type (`semantic_analyzer.c:349`,
  `symbol.h:135`). A method without parameters is an integer, one with one parameter a
  boolean, others are reported (`EvalMethodName`); the name gets a slot that nothing writes;
* a method with a name of more than 63 characters and a `return` cannot be linked: its
  label has the whole name (`object_code.c:149`), the jump the first 63 characters
  (`object_code.c:163`). In the model it is `Unresolved`;
* an extern method with a value is rejected as missing a return if the cell `ret`
  happens to hold `NULL_TYPE` (`semantic_analyzer.c:512`), which
  `tests/correct_tests/test_recursive.ctds:3` cannot rule out;
* with `-opt` a folded `if` sets `returned_global` without any return
  (`semantic_analyzer.c:388`): `FlagMeansReturn` speaks of a return or a folded `if`;
* an initializer that calls a void method is accepted (`semantic_analyzer.c:34`,
  against `Documentacion.tex:188`), and so is `==` on two void calls;
* with `-opt` a constant division by zero kills the compiler
  (`semantic_analyzer.c:121`), and the branch of a folded `if` that is not kept is
  not checked at all (`semantic_analyzer.c:381`);
* `-debug` with `-target scan` or `parse` replaces the `.s` of the same name by an
  empty one (`main.c:181`); a file for the intermediate code that cannot be opened
  is a crash (`intermediate_code.c:496`);
* when `gcc` fails the command ends with status 0, and an older executable may be
  there (`main.c:197`, `link.sh`);
* `-target executable` is in the help (`main.c:55`) and is rejected (`main.c:101`);
* an inner variable shares the slot of the outer one of its name
  (`object_code.c:19`, against `Documentacion.tex:133` and the 42 that
  `tests/test.sh:118` expects of `test_scopes_shadowing`);
* a call with seven arguments is made with `%rsp` 8 bytes off the alignment of the
  ABI (`object_code.c:304`, against `Documentacion.tex:207`), and so is every call
  made by the method that is called: `CallsAligned` excepts them.

One statement of the documentation is out of date: `Documentacion.tex:221` lists, as a known
problem of the stage before the last, that the values of parameters are lost when calls
stand among the arguments. This code evaluates all arguments before the first `PARAM`,
and `test_expresion_calls` expects the right result; `ArgumentsInPlace`, which holds of
`MCObjectCode` with such calls, confirms it.

Two tables have a size that is never checked, `code[]` (1000 instructions) and
`var_map` (200 names); in the models they are unbounded.

### Bounds

* `Name`, `MaxScopes`: two names are enough to shadow and to confuse; four scopes
  are the global one, a method's and two nested ones, or three methods. Identifier
  symmetry is used where no temporal property is checked against a name.
* `MaxDepth` in `ReturnAnalysis`: three pending blocks put every statement under
  every pair of enclosing ones. The length of programs is not bounded there: the
  analysis keeps no memory of closed blocks but the flag and the cells.
* `MaxCode`, `MaxArgs`, `MaxPending`, `MaxDepth` in the intermediate code: six
  instructions (`AllCode`) hold a call with two computed arguments; eight hold an
  expression in which a freed temporary is taken over while another is still live;
  fourteen hold a loop around a conditional with a return. `MCControl`, and
  `MCOptimization` beyond six instructions, use a part of `gen_code` to get that far.
* `HalfInt = 4`, `HalfWord = 32`: a word holds the product of two ints, as 64 bits
  hold that of two of 32. All ints come up as literals and folded operands; `Inputs`
  are run-time values beyond int, on both sides. Two pending results are the operands of
  one operation, one of which may be any value that earlier operations have left; the
  proofs do without bounds. `Addresses` are ints of every kind that the code tells
  apart: a negative one, zero, a power of two.
* `MaxArgs = 7`, `MaxRuns = 2` in `Driver`: seven arguments hold every flag with its
  value, the source, and one more; two commands are one that leaves files and one
  that finds them.
* `Programs`, `MaxStack`: the families in `MCObjectCode` vary the number of
  parameters (1 to 7: below, at and above the six registers), the place of calls
  among arguments and in bodies, and the operators; sixty words of stack are never
  used up by the programs of the passing run. `long` stands for a name that the buffer
  of `I_RET` cuts; its method returns in one program and just ends in another.

### Fairness and termination

Nothing here waits for anybody, so weak fairness of the next step is what a
process that is scheduled gives, and what the two liveness properties assume: `WF(optimize_memory)` for `PassEnds` and
`WF(Next)` for `Terminates`. `Terminates` says that the compiled program returns from `main`,
or that it could not be linked and a return whose label was cut is the reason. `ParserScopes`, `ReturnAnalysis`, `ExpressionAnalysis` and `Driver` state no fairness:
their environment, the text of a program or a user, may stop. Deadlock checking is
off because compilations, and compiled programs, end.

## What is proved

`ParserScopes_proofs` (for every set of names and every bound on scopes):

* `TypeCorrect`: `Spec => []TypeOK`.
* `ScopeDiscipline`: `Spec => []ScopeInv`: the chain is a chain that starts at the
  global scope, there is exactly one scope per open block (plus the method's), and
  the two flags agree with the blocks that are open. `ScopeInv` is not
  inductive without the types, so the invariant proved is their conjunction
  (`Inductive`), one step per grammar action.

Four more build on that invariant:

* `NamesAreDistinct`: `Spec => []DistinctNames`. The scope that `add_method` writes to
  is one of those it asks, because the chain always starts at the global one.
* `ClosedStaysClosed`: `Spec => ClosedScopesStayClosed`.
* `VisibilityIsLexical`: `Spec => LexicalVisibility`, the refinement. `FramesOf` is the
  mapping; one lemma per operation of the table says what it does to the frames
  (`FramesPush`, `FramesPop`, `FramesAddId`, `FramesDeclareMethod`, `FindIsInnermost`),
  and one per action that the abstract step follows.
* `ArgumentsAreOfTheirMethod`: `Spec => []ArgsOfTheirMethod`: the arguments of every
  declared method are those of its own header, all of them and in their order, whatever
  blocks its body has. The property itself follows the list from `(` to the end of the
  body; the strengthening (`ArgsInv`) adds that every method has left its name in the
  global scope, so that the search by name in `add_current_list` cannot stop early.

`ReturnAnalysis_proofs` (with and without `-opt`, for every `MaxDepth`, that is, for
every nesting and length):

* `FlagIsHonest`: `Spec => []FlagMeansReturn`.
* `LoopsDoNotReturn`: `Spec => ReturnsOutsideLoops`.
* `BodyReturnsAreFound`: `Spec => []BodyReturnIsFound`, by `BodyInv`: the outermost
  pending block knows of a return of the body and has its type, and no block inside it
  touches that cell when it is entered or left.
* `ReturnTypesCorrect`: `Spec => []TypeOK`.

The first two are not inductive. The strengthening says what each pending frame knows: a
frame's history fields under-approximate `returns`, and a flag that is set is
accounted for by the frame that would consume it, by a return or by an `if` that was
folded. `LoopInvariant` does this for the frames below a loop, whose end resets the
flag.

`ExpressionAnalysis_proofs` (for every width of int and of word with the one not
larger than the other, every bound on pending results and arguments, with and
without `-opt`):

* `TypesAndConstants`: `Spec => []TypeOK`; the type of `results` says that a folded
  constant is an int and has the value the program would give it.
* `ConditionsDecide`: `Spec => []FoldedConditionDecides`.
* `MeaningIsKept`: `Spec => KeepsMeaning`, the refinement of `ExpressionMeaning`.

The invariant is `TypeOK` with `FoldedConditionDecides`, and every action is shown to
keep it and to be a step of the meaning (`StepOK`), which is that of the same construct.
What the proof turns on is arithmetic: `BiasedQuotient` (an arithmetic shift with
the bias of `object_code.c:228` is division that truncates), `SameInBothWidths` (a
result that is an int is the same in words), `WrapInRange`, `WrapIdentity`; and, for
the instructions, `InstructionIsMeant`, `ShiftIsMeant` and `UnaryIsMeant`.
Nothing is assumed of where symbols lie but that their addresses are read as ints. The
theorem therefore says nothing of the quotient when the divisor is an identifier whose
address reads as a power of two: the hazard at `intermediate_code.c:209`.

`IntermediateCode_proofs` (with and without `-opt`, for programs of any size, any nesting,
any number of arguments):

* `TypesOfTheGenerator`: `Spec => []TypeOK`.
* `TemporariesOfTheGenerator`: `Spec => []TempsStayInTheirBlock`.
* `JumpsOfTheGenerator`: `Spec => []JumpsResolve`.

None of them is inductive. The invariant (`GeneratorInv`) has four parts. `GenTypes`: what is
pending is a name or a temporary. `TempInv`: every temporary is written by one
instruction and used by at most one more (`WrittenAt`), no two pending results are one
temporary, and temporaries are written in the order of their numbers (`InOrder`, which
only the pass needs). `LabelInv`: a label that a block on `open` still awaits is
not placed, the start of a loop that is open is placed in the current method, and every jump
goes to a label that is placed in its method or awaited in it (`LabelsFit`, `BlocksFit`).
`ListInv`: entry t of the list counts the occurrences of temporary t. An action that makes no
control structure is a `PlainStep`, and one lemma (`EmitKeepsTemps`) covers all that emit;
the actions of `if`, `while`, blocks and methods have a lemma each. `JumpsResolve` follows
between two declarations because no block is open then: nothing is awaited.

`Optimization_proofs` builds on it (`OptSpec`, every program the generator can leave):

* `CountsOfThePass`: `OptSpec => []CountsExact`.
* `ValuesOfThePass`: `OptSpec => []SameValues`.
* `NamesOfThePass`: `OptSpec => []AsFewNamesAsLive`.
* `TypesOfThePass`, `TemporariesOfThePass`: `[]OptTypeOK` and `[]TempsStayInTheirBlock`.

The invariant (`OptInv`) adds `PassFits` to that of the generator: the counts are exact;
an entry that is not locked has a name that only its own temporary bears, which the pass has
not come to, or that nobody bears; a temporary the pass has not come to has its own name
and is not locked; of two temporaries with one name, one is over before the other begins
(`SharedFit`, from which `SameValues` follows); and every name given so far is at most the
number of temporaries in use at some place (`LowFit`). The last one needs `InOrder`: when
a temporary is met for the first time the entries before it are those of temporaries met
earlier, so each of the names that `get_free` skips has a temporary that is in use, and these
and the new one are counted with an injection (`LiveCount`).

`Driver_proofs` (for every set of sources and names, any number of arguments and of
commands): the five properties of `MCDriver`, `DriverTypes`, `RejectionIsHarmless`,
`FilesAreFresh`, `ExecutableIsFresh` and `OtherFilesAreSafe`. The invariant says what
each place in `main` implies about the options, the tree and `code[]` (`Place`), and
what of each file is written by then (`Written`); with `OnlyProductsChange` it is
inductive, whatever files earlier commands left.

`ObjectCode_proofs` (for every program of the shape of `ProgramsAssumption`, of any
length, with any number of methods, names and arguments):

* `TypesOfTheObjectCode`: `Spec => []ObjTypeOK`.
* `SlotsOfNamesDiffer`: `Spec => []SlotsDistinct`.
* `SlotsFitTheFrame`: `Spec => []SlotsInFrame`.
* `ArgumentsAreRemoved`: `Spec => []StackArgumentsRemoved`.
* `ReturnsStayInTheirMethod`: `Spec => []ReturnsToTheirMethod`.

`Spec` is that of `ObjectCodeRun`: execution leaves all of it alone
(`GeneratedStays`), so the invariant `GeneratedInv` is kept by the steps of
the generator. There are eighteen, and `GeneratorSteps` sorts them into six forms, which
differ in what they append; the lemmas about `Appends` and `Extends` do not look at
single instructions. `SlotInv`: names have distinct slots,
given out one by one (`MapTight`), and those of the open method are its parameters or
operands met since its `ENTER`. All are among the names of the prescan
if the parameters are, so at `LEAVE` there are at most as many slots as words in the frame
(`OpenFits`). `CountInv`: `stack_params` is the number of
pushes since the last call. `MarkInv`: the last `entry` in `asm` is that of the open method,
and a return emitted so far (`HomeInv`) names the first characters of the method it stands in
and has that method's epilogue behind it, or the method is still
open (`LeftInv`); when all is generated no method is open (`NotNested`). The cut is any
operator `FirstCharacters`, of which nothing is assumed: `ReturnsToTheirMethod` says that
the jump names that epilogue if the cut leaves the method's name as it is.
`SlotsInFrame` claims nothing of methods with a parameter that does not occur: for those
it is false, which is the finding of `SlotsHoldParameters`.

The second half of the module says where the code of each instruction is and what it
consists of (`Layout`): `B[k]` is the place in `asm` at which the code of instruction k begins,
the lines from there to `B[k + 1]` are its text (`IsText`) over the slots the method has at
its end, and a landmark (`entry`, `leave`, `label`) is the first line of its own
instruction. One lemma per form of instruction gives its text (`TurnText`, `PassingText`,
`EntryText`); slots are never taken back (`Grown`), so the text that was emitted with the map
of the moment is the text over the map at the end of the method (`TextGrows`).

`ObjectCodeRun_proofs` (for every such program, any depth of calls and recursion, any size of the
stack, whatever path the program takes):

* `TypesOfTheRun`: `Spec => []TypeOK`: the processor never leaves the code, nor the two pointers
  the stack.
* `TheStackBalances`: `Spec => []StackBalanced`.
* `CallsStayAligned`: `Spec => []CallsAligned`.

The invariant (`RunInv`) is about the whole stack. There is a list of activations
(`Standing`): each was made by a `CALL` of the one before (`Chain`), its frame lies below the
frame and the stack arguments of that one, and the memory holds its return address and, but
for the one that is being entered, the frame pointer it saved (`Links`). In the last one,
stack pointer and frame pointer are where the line that comes next needs them
(`StageAt`), which for an ordinary instruction is as many words below the frame as there are
stack arguments of `PARAM`s directly before it. The activations of the abstract machine
are those of the list (`Mirror`). A program that runs is `Resolved`, so no return in
it has a cut name (`ResolvedNames`, from `CutNamesAssumption`). A line that writes only registers and slots is
`Quiet` and changes none of this (`QuietGoes`); the others, jumps, `PARAM`, `CALL`,
`ENTER` and `LEAVE`, have a lemma each. What makes the induction close is that no line of the last
activation writes above its own frame pointer, so the links of all others survive
(`Reached`), and that a jump of a method has its goal in the same method
(`Goals`, `LandmarkIndex`).

The assumptions are those on the constants, stated in the modules. The proofs use
no induction over data, which is out of the prover's reach, and no liveness.

## What is only model-checked

What the values are when the compiled program runs: `SameControl`, `SlotsHoldVariables` and
`ArgumentsInPlace` of `ObjectCodeRun`. They are claims about the programs in `MCObjectCode`,
which have enough stack and declare no name twice; for other programs two of them
are false, as the findings show. That abstract machine and processor take the same path is
one of them: where they did not, `Run` would have no step, and what is proved of the stack is
proved of all steps that `Run` has.

Both liveness properties (`PassEnds`, `Terminates`), which are beyond the prover.

## What is not modelled, and the plan

Not modelled: the scanner (generated, no state of interest), printing, string
utilities, the texts of errors; operators of the symbol table and functions that
nothing calls (`add_global_id`, `add_arg`, `free_mem`, `cleanup_code`). Registers and
memory have no width in `ObjectCodeRun`; widths are the subject of
`ExpressionAnalysis`. The path buffers of `main.c:165` cut names longer than some
hundred characters. In `Driver` a file that opens can be written to its end (a full disk
is not among the faults), and an interrupt ends the command wherever it is. While `gcc` or
`link.sh` runs, `system` ignores the interrupt and only that process ends, with status 0
of the command: in the model this is a `gcc` that fails.

In order:

1. Proofs about the values (`SlotsHoldVariables`) for programs without global variables and
   without names declared twice, on top of `ObjectCodeRun_proofs`.
2. The contents of branches in `ExpressionAnalysis`, to compare what is reported
   with `-opt` and without.
3. Composition of `IntermediateCode`, `Optimization` and `ObjectCodeRun`: the
   optimized program against the one that is not.
