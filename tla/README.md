# A TLA+ development of the C- compiler

`cmc` (this repository) compiles C-, the small language of Louden's textbook
with a few extensions, to LLVM IR, objects and executables. This directory
holds TLA+ modules of the compiler's own logic, TLC configurations that check
them on small instances, and proofs that TLAPS checks for every instance.

Everything in the compiler runs on one thread. What is hard about it is not
concurrency but long sequences of legal steps: a recursive walk that suspends
in the middle of a block it is filling, a recovery that must always move on, a
scope that is open or closed, an exit from the middle of a pipeline. The models
make that control explicit. An action is one handler from one call to the next.

Paths below are relative to the repository.

## 1. The system

| Component | Code | State it keeps | Operations | Modules |
|---|---|---|---|---|
| Driver | `src/main.cpp` | options, stage reached, files written, exit status | option loop, one block of `main` per stage, `buildExecutable`, `finish` | `Driver`, `Link` |
| Lexer | `src/Lexer.cpp`, `Token.*` | position, line and column; state of the automaton | `next` (one state per case), `tokenize` | `Lexer`, `LexicalRules` |
| Diagnostics | `src/Diagnostic.cpp` | the reports, counters, where lines start | `error`, `warning`, `render`, `lineText` | `Diagnostic`; printed or not: `Driver` |
| Parser | `src/Parser.cpp` | tokens, position, call stack | one function per grammar rule, two recoveries | `Parser`, `Grammar` |
| Tree printer | `src/AST.cpp` | depth | one case per node class | `ASTPrinter` |
| Symbol table | `src/Symbol.cpp` | open scopes, storage | `pushScope`, `popScope`, `declare`, `lookup` | `SymbolTable` |
| Semantic analyzer | `src/SemanticAnalyzer.cpp` | symbol table, current function, reports, annotations in the tree | one function per node class, `checkMain` | `SemanticAnalyzer` |
| IR generator | `src/IRGen.cpp` | blocks, insertion point, addresses, call stack | one emit function per node class | `IRGen`, `IRExecution` |
| MLIR generators | `src/MLIRGen.cpp` | operations, blocks, cursor, slots | the same emit functions, in two flavours (`std`, `cminus`) | `MLIRGen`, `MLIROps` |
| CMinus dialect | `src/CMinusToCF.cpp`, `include/cminus/CMinusOps.td` | the function being rewritten | one pattern per operation, erasure of dead blocks | `CMinusToCF` |
| MLIR lowering | `src/MLIRLower.cpp` | - | a fixed pass pipeline | `CMinusToCF` (control flow), `Driver!Lower` (outcome) |
| Target, emission | `src/Emit.cpp` | the target machine | `Target::create`, `writeObjectFile`, `writeIR` | in `Driver` |
| Linking | `src/Link.cpp` | the words of a command | `splitCommand`, `findRuntime`, `linkExecutable` | `Link`; outcome in `Driver` |
| Runtime | `runtime/cminus_rt.c` | - | `input`, `output`, `__cminus_index_error` | events in `Execution` |

They interact by calls in one direction: the driver reads the file, runs lexer,
parser and analyzer in turn (each reports into one `DiagnosticEngine`, and the
driver stops after the first that reports an error), creates the target, runs
one of three generators on the annotated tree, and writes or links. The tree is
the interface between the stages: the parser builds it, the analyzer writes
types and `Symbol` pointers into it, and the generators follow those pointers
without checking them. `SemanticAnalyzer!ReadyForCodeGeneration` and
`CMinusSyntax!SyntaxAssumption` are the two sides of that contract.

What is hard, per component:

* **IR generator.** Blocks are created before they are filled, expressions move
  the insertion point (`checkIndex`), statements after a `return` are dead but
  the block after the enclosing `if` is not. Correct when each block is filled
  once and ends in one terminator, and the code does what the source says in
  the source's order.
* **MLIR generators and the conversion.** A second generator keeps the same
  promise with other means: the std flavour drops the block behind an `if` whose
  arms both return and so decides about dead code differently from `IRGen`; the
  cminus flavour nests regions, and patterns, applied in an order MLIR chooses,
  splice them into one list of blocks. Correct when everything handed on passes
  the verifier, both flavours end in the same blocks, nothing is stranded, and
  the result does what the source says.
* **Lexer and diagnostics.** An automaton with no lookahead beyond one
  character, comments that may not end, numerals of any length; lines counted
  once by the lexer and again by the engine. Correct when tokens, places and
  errors are those of the lexical rules and carets stand under the right
  characters.
* **Parser.** Recovery at three levels can meet on one token; an assignment is
  recognized only after its left side. Correct when it accepts exactly the
  grammar, builds its tree, reports in order and always ends.
* **Symbol table and analyzer.** Names resolve through a stack of scopes while
  wrong declarations are refused. Correct when bindings are lexical, and errors
  are exactly where a rule of the language is broken.
* **Driver.** A dozen ways out. Correct when the status is honest, dumps stop
  the pipeline in the right place and every exit of its own removes the temporary
  file.
* **Linking.** A command line in a string, defaults from the environment, and
  rules for cross compilation that live in two files. Correct when words survive
  the splitting, no tool of the host gets into a cross link, and the driver is
  run only when all it needs is there, and its failure is not taken for success.

## 2. The modules

### IR generation

* `CMinusSyntax` - the annotated trees (`include/cminus/AST.h`) as records. The
  sets of expressions, statements and functions are constants; the named
  assumption `SyntaxAssumption` says they are closed under taking children. A
  literal is `num`, or `big` when cutting it to 32 bits makes it negative: that
  is all the generators ask of its value. A binary operation on two constants
  is left out: an IRBuilder folds it.
* `IRGen` - the generator. `stack` is the C++ call stack: an activation names
  the emit function and the point where it resumes (`if.cond`: `emitIf` has
  called `emitExpr` for its condition), with the blocks it holds in local
  variables. `code` is the sequence of blocks in order of creation, `cursor`
  the IRBuilder's insertion block, `attached` the blocks inserted in the
  function (`if.end` is created detached). `implicit` is a history variable:
  the block that got the return at the end of `emitFunction`. Expressions are
  lists of *parts* (`Parts`): recursive calls, the index check, instructions.
* `CMinusSemantics` - the abstract specification: what a call of the function
  does, one observable step at a time, unfolded from the tree. It knows nothing
  of blocks. `event` is the last load, store, operation, call, test, branch or
  return.
* `Execution` - runs a generated function from its entry block and carries along
  what the source would still have to do (`rest`, a history variable). It does
  not know which generator made the blocks.
* `IRExecution` - `IRGen` composed with `Execution`. It implements
  `CMinusSemantics` (`RefinesSource`), by a refinement that maps the work left
  over to `rest` and generation to stuttering.

### MLIR

* `MLIROps` - a function as blocks of operations with regions, and what
  `mlir::verify` demands of it: terminators at the ends and only where their
  traits allow them (`CMinusOps.td`), branches within their region, every block
  in one place, globals that exist, returns with a value where the function has
  a result.
* `MLIRGen` - the generator, for both values of `structured_`. The C++ functions
  append to one generator object; each is an operator from the generator before
  the call to the generator after it. So a whole function is one value, and the
  steps modelled one by one are those of the lowering.
* `CMinusToCF` - the lowering. What was generated is verified first, as `run()`
  does (`src/MLIRGen.cpp:117`; phase `rejected` if it fails). Then an action applies
  one pattern to one operation of the cminus dialect, by splitting and inlining
  blocks as the C++ does; dead blocks are erased (`Kept` is what
  `eraseUnreachableBlocks` leaves, in order), and `convert-func-to-llvm` replaces
  the returns of reachable blocks and fails on any other. The functions it may be
  given are the constant `Modules`, and `ModulesAssumption` says what every
  generator makes of them. MLIR collects operations in preorder, so the
  first operation of the function is always next. `AnyOrder` allows more than MLIR
  does, any operation whose parents are gone, and the properties hold all the
  same; an order that takes a child before its parent is not covered.
* `MLIRFlavors` - generators and lowering composed, and the comparison of the
  flavours. `MLIRExecution` - the lowering composed with `Execution`; it
  implements `CMinusSemantics`, too.

### Scoping and types

* `SymbolTable` - scopes as a sequence, symbols in storage, a pointer as an
  index into storage, 0 as null.
* `SemanticAnalyzer` - the walk. The program arrives one piece at a time
  (declaration, heading, parameter, brace, statement), chosen by the step, so a
  run covers every program up to `MaxSize` pieces. `annotations` are the symbols
  written into each piece's nodes, `errors` and `warnings` what was said of
  which piece. `Height` ranks the expressions, which are finite trees; the
  proofs need it, the model does not. The lower half states the rules of `docs/spec/c-minus.md`, section 3, on the text
  alone: which declaration a name denotes is decided from the positions of the
  braces (`Denotes`), with no table. The properties compare the two.

### Scanning and diagnostics

* `Lexer` - an action is one turn of the loop in `next()`, named for the state
  it is in. `Operator` stands for the four states behind `<`, `>`, `=` and `!`.
  The text is chosen by `Init`; the engine is a record of `Diagnostic`.
* `Diagnostic` - the reports, and what is printed below one: the line cut out of
  the source and the padding of the caret.
* `LexicalRules` - the reference, from `docs/spec/c-minus.md`, section 1: a text
  is cut from the left into blanks, comments (up to the first closing pair) and
  longest lexemes. It has no states.

### Parsing

* `Parser` - expressions, headings and declarations are recursive functions of
  the position (nothing catches a failure inside them); blocks, statements and
  the program, which catch failures and recover, are activations on a stack.
  One token stands for each of relop, addop and mulop.
* `Grammar` - the reference: the set of trees that the rules of
  `docs/spec/c-minus.md`, section 2, derive from a stretch of tokens, with no
  lookahead and no choice of production.
* `ASTPrinter` - `--dump-ast` as a list of lines, each a depth and what it says;
  and a reader that rebuilds the tree from the lines.

### The driver

* `Driver` - the command line one word at a time, then one action for each block
  of `main`. Whether a stage finds errors, a file can be opened, can be written in
  full, or a program can be run is nondeterministic. `DiesWriting` is LLVM's exit from
  a write that did not get through. It models a build with MLIR.
* `Link` - what happens inside the driver's `Link` action, from
  `checkCrossLinkInputs` to the run of the C driver: `splitCommand` reads one
  character a step, the archive is looked for, each check may fail, and so may the
  run of the driver, whose end is kept in `ended`. Options,
  environment variables, the programs on `PATH` and the archives are chosen by
  `Init`. A command line is given as its author meant it, in `Part`s: a blank, a
  bare character, or a stretch in quotes. `Text` is how it is spelled, which is all
  that `splitCommand` sees; `Words` is what it means, which only `WordsSurvive`
  and `HostToolsStayHome` look at.

`MCSyntax`, `MCIRGen`, `MCIRExecution`, `MCMLIRFlavors`, `MCMLIRExecution`,
`MCScopes`, `MCTypes`, `MCLexer`, `MCParser`, `MCLink` and `MCDriver` give the constants their values for TLC. An operator commented "As
it would be ..." is a plausible fault of the operator after it, kept to show
that a property notices it; no specification uses one.

## 3. The runs

| Run | Module, cfg | Question | Bound, and why it is enough |
|---|---|---|---|
| irgen | `MCIRGen`, `IRGen.cfg` | Are the blocks right, for every nesting? `TypeOK`, `OnlyPendingOpen`, `Verified`, `WarningExact`, `ClosedStays`, `Finishes` | Statements nested three deep with up to two per block: each control statement around each other, on either arm, open or returning. Each kind of expression in each place. Functions returning int, void, and `main`; index checks on and off. |
| irexecution | `MCIRExecution`, `IRExecution.cfg` | Does the code do what the source says? `RefinesSource` | The same functions, with every outcome of every condition and index test, loops unbounded. |
| mlirflavors | `MCMLIRFlavors`, `MLIRFlavors.cfg` | Do the MLIR flavours agree, and lower? `TypeOK`, `NeverRejected`, `Verified`, `NoneStranded`, `SameAsStd`, `Lowers` | The same functions, index checks on and off, both flavours, patterns in any order with parents first. |
| mlirexecution | `MCMLIRExecution`, `MLIRExecution.cfg` | Does the lowered code do what the source says? `RefinesSource` | The same, patterns in the order of MLIR (the other run shows that the order of operations not inside each other changes nothing). |
| scopes | `MCScopes`, `Scopes.cfg` | Are names bound lexically? `TypeOK`, `BindingsExact`, `WarningsExact`, `ReportsComplete` | Five declarations, blocks and statements over two names, one of them that of a predefined function: enough for a block in a block behind a closed one, shadowing at three levels, and two functions. |
| types | `MCTypes`, `Types.cfg` | Are errors and warnings exactly where they belong? `ErrorsExact`, `WarningsExact`, `ReadyForCodeGeneration` | Three declarations and statements over all kinds of both, since a rule relates a use to at most a declaration and the enclosing function; arrays of no, one and two elements. |
| lexer | `MCLexer`, `Lexer.cfg` | Are tokens, places, errors and carets right? `TypeOK`, `TokensExact`, `ErrorsExact`, `CaretsExact`, `Finishes` | Every text of three characters over one or more of each class, of six that make comments, of five that make numbers, tabs and lines (`MaxNumber`, the greatest `long long` in the code, is 99: two digits fit, three overflow); a keyword and a text with all of it. The lexer remembers no more than its state and a position. |
| parser | `MCParser`, `Parser.cfg` | Does it accept the grammar, and recover? Can its tree be read from the dump? `TypeOK`, `ReportedInOrder`, `ParsesGrammar`, `DumpReadable`, `Finishes` | Eleven programs that use every rule; each with any one token missing, added or replaced, or cut off anywhere; any three tokens as a body or behind a function. |
| link | `MCLink`, `Link.cfg` | Are the right words run, or none? `TypeOK`, `WordsSurvive`, `HostToolsStayHome`, `RunsComplete` | Commands of up to two words in every kind of quoting, blank commands, with and without `CMINUS_CC`, `CMINUS_RUNTIME`, `--runtime`, `--use-ld`; every set of archives; four sets of programs on `PATH`. |
| driver | `MCDriver`, `Driver.cfg` | Do command lines end well? `TypeOK`, `DumpsStop`, `HonestStatus`, `TemporaryRemoved` | Four words: an option with its argument, an input and one more option, or three options and an input, in any order. Every stage may fail. |
| dash | `MCDriver`, `Dash.cfg` | Is `-` standard output? (violated) | Three words. |
| triple | `MCDriver`, `Triple.cfg` | Is the triple normalized? (violated) | Three words. |

Deadlock is not checked where the program ends by itself (generation, lowering,
scanning, parsing, analysis, linking, the driver). The two execution modules
stutter when the function has returned, so their runs check that no instruction
is ever missing.

**Fairness.** `IRGen!FairSpec`, `Parser!FairSpec`, `CMinusToCF!FairSpec` and
`Lexer!Spec` assume weak fairness of `Next`: one thread that never blocks, so a
step that can be taken is taken; MLIR's conversion driver goes on while an
operation is illegal. Nothing else is assumed, and the safety properties need
none.

**What the properties say.**

* `OnlyPendingOpen`: an open block is the cursor's, or is empty and claimed by
  exactly one active statement. `Verified`: what `llvm::verifyModule` demands
  of control flow. `ClosedStays`: a block with its terminator is never written
  again. `WarningExact`: `alwaysReturns` in the analyzer and the return added
  in the generator, two walks of the tree, agree.
* `RefinesSource` (both): the code does what the tree says, loads, stores,
  operations, calls, index tests, branches and the kind of return, in the order
  of the source; a `big` index is tested.
* `mlirflavors`: `NeverRejected`: what the generators make passes `mlir::verify`,
  so `run()` never gives up. `Verified`: so does what the conversion leaves, and no
  cminus operation is left in it. `NoneStranded`: in the cminus flavour
  `convert-func-to-llvm` meets no `func.return` in a dead block, which the comment
  at `src/CMinusToCF.cpp:222` fears. `SameAsStd`: what is left of the cminus flavour
  is, block for block, what the std flavour emits. `Lowers`: the conversion ends,
  in success, for both flavours: the std flavour strands no return either, since it
  drops the block nothing branches to (`src/MLIRGen.cpp:388`).
* `TokensExact`, `ErrorsExact`: tokens with their places, and one report for
  each thing wrong, as the lexical rules say. `CaretsExact`: the line printed
  under a report of any token holds the lexeme above the caret, with a tab in
  the padding for each tab before it.
* `BindingsExact`: each use is bound to what the braces say. `ErrorsExact`: no
  illegal piece without an error, no error at a legal piece, whatever went
  wrong before. `WarningsExact`: a warning at each constant index past the end of
  the array that the name denotes there, each division by a literal zero and
  each array of no elements, and nowhere else. `ReadyForCodeGeneration`: an accepted program has all that the
  generators assume. `ReportsComplete`: `--dump-symbols` shows each scope and
  symbol once, in order.
* `ParsesGrammar`: success exactly on the texts of the grammar, and the tree is
  the one derivation. `ReportedInOrder`: recovery never goes back, and a token
  is complained about at most twice. `DumpReadable`: the dump of a tree, read by
  depth and labels alone, gives that tree.
* `WordsSurvive`: the words run are those the author of the command meant.
  `HostToolsStayHome`: in a cross link, the caller's words and archive and no
  linker that was not asked for; this needs `main.cpp` and `Link.cpp` to agree
  on when something was named. `RunsComplete`: the link succeeds exactly when the
  driver was run and succeeded (`ended`); it is run only if it and the archive were
  there; what was named is preferred.
* `HonestStatus`: zero means no errors, warnings printed and the output there,
  of the kind asked for last; else something was said. `DumpsStop`: the
  earliest dump wins in any order of flags. `TemporaryRemoved`: whenever the driver
  itself exits the temporary object is gone; only LLVM's own exit in the middle of
  writing it leaves a part of it, said to be fatal, and a part is never linked.

## 4. Findings

* **`-o -` with an executable.** The usage text (`src/main.cpp:93`) says `'-'
  means standard output`. That holds for objects, IR and MLIR, which LLVM's
  stream opens; for the default output the path goes to the C driver unchanged
  (`src/Link.cpp:177`), which creates a file named `-`. Run `dash`.
* **The triple without `--target`.** `include/cminus/Emit.h:45` calls
  `Target::triple()` "the normalized triple". `src/Emit.cpp:102` normalizes only
  a triple that was asked for. `hostTriple()` is always normalized, so where
  LLVM's default is not in normal form the comparison in `src/main.cpp:415`
  takes a native build for cross compilation. Run `triple`.

## 5. What is proved

| Theorem | Module | Says |
|---|---|---|
| `TypeCorrect` | `IRGenProofs` | `Spec => []TypeOK` |
| `PendingCorrect` | `IRGenProofs` | `Spec => []OnlyPendingOpen` |
| `VerifiedCorrect` | `IRGenProofs` | `Spec => []Verified` |
| `ClosedCorrect` | `IRGenProofs` | `Spec => ClosedStays` |
| `WarningCorrect` | `IRGenProofs` | `Spec => []WarningExact` |
| `TypeCorrect` | `DriverProofs` | `Spec => []TypeOK` |
| `DumpsCorrect` | `DriverProofs` | `Spec => []DumpsStop` |
| `StatusCorrect` | `DriverProofs` | `Spec => []HonestStatus` |
| `TemporaryCorrect` | `DriverProofs` | `Spec => []TemporaryRemoved` |
| `TypeCorrect` | `LinkProofs` | `Spec => []TypeOK` |
| `WordsCorrect` | `LinkProofs` | `Spec => []WordsSurvive` |
| `HostToolsCorrect` | `LinkProofs` | `Spec => []HostToolsStayHome` |
| `RunsCorrect` | `LinkProofs` | `Spec => []RunsComplete` |
| `TypeCorrect` | `SemanticProofs` | `Spec => []TypeOK` |
| `BindingsCorrect` | `SemanticProofs` | `Spec => []BindingsExact` |
| `ReportsCorrect` | `SemanticProofs` | `Spec => []ReportsComplete` |
| `ErrorsCorrect` | `SemanticProofs` | `Spec => []ErrorsExact` |
| `WarningsCorrect` | `SemanticProofs` | `Spec => []WarningsExact` |
| `ReadyCorrect` | `SemanticProofs` | `Spec => []ReadyForCodeGeneration` |
| `TypeCorrect` | `ParserProofs` | `Spec => []TypeOK` |
| `ErrorsInOrder` | `ParserProofs` | `Spec => []ReportedInOrder` |
| `TypeCorrect` | `LexerProofs` | `Spec => []TypeOK` |
| `TokensAreExact` | `LexerProofs` | `Spec => []TokensExact` |
| `ErrorsAreExact` | `LexerProofs` | `Spec => []ErrorsExact` |
| `CaretsAreExact` | `LexerProofs` | `Spec => []CaretsExact` |
| `TypeCorrect` | `LoweringProofs` | `Spec => []TypeOK` |
| `VerifiedCorrect` | `LoweringProofs` | `Spec => []Verified` |
| `NoneStrandedCorrect` | `LoweringProofs` | `Spec => []NoneStranded` |

With these, every safety property of the runs irgen, scopes, types, lexer, driver
and link holds for all values of the constants; of the run parser all but
`ParsesGrammar` and `DumpReadable`, and of mlirflavors all but `NeverRejected` and
`SameAsStd`. TLC evaluates every assumption below on the run of its module. What
the proofs assume:

* the IR generator: `SyntaxAssumption`, the shape of the tree that the parser
  and the analyzer build, less the binary operations on two constants (`0 - 1`),
  which section 2 leaves out. An IRBuilder folds one to a constant, so it takes no
  instruction and no block and its control flow is that of a literal. Depth of
  nesting, number of statements, arguments and functions are free.
* the driver: `DriverAssumption` (`None` is no word and no status, and no object
  file has the name of an option) and `TemporaryAssumption` (the temporary name
  is not among the names on the command line, which is what LLVM's
  `createTemporaryFile` sees to). The number of words and the names are free.
* linking: `LinkAssumption` (a letter is neither a quote nor a separator, `None`
  is no quote, error or outcome of a run, a
  command line is made of `Part`s, an option may be absent). The length of the
  command lines, the characters in them, `PATH` and the archives are free.
* the analyzer: `ProgramAssumption` (declarations, headings and expressions have
  the shape that the parser builds, and expressions are finite: each has a
  `Height` in the natural numbers, above those of its parts) and `NoneAssumption`
  (the null pointer is no symbol). The declarations, the names, the expressions
  and the number of pieces are free. `MaxSize` is any number, so the bound that
  it puts on the text for TLC limits no theorem.
* the parser: `InputAssumption`, that an input is a sequence of tokens. Any
  sequence may be one, of any length.
* the lexer: `CharacterAssumption` (letters, digits, blanks and symbols are
  different characters, and a digit has a value from 0 to 9) and `TextAssumption` (a
  text is a sequence, and the zero that `peek` returns behind it is no letter and
  no digit). The texts, the characters and `MaxNumber`, the greatest value of a
  token (`long long` in the code), are free.
* the conversion: `ModulesAssumption`. A function has an entry block and lists no
  block twice, an `if` has one or two regions and a `while` two, and an operation
  with regions is in a block in place and was made before the blocks of its
  regions, and only the cminus flavour makes operations of the dialect. The
  functions are free, and so is the order of the patterns as long as an operation's
  parents are gone first (`AnyOrder`).

### The IR generator

*Types.* `TypeOK` is not inductive: it does not say that the node of an
activation fits its label, nor that the blocks an activation holds exist.
`TypeInv` does, and splits the behaviour in `Fresh` (before `emitFunction`) and
`Working`. The lemma `PartsType` gives the shape of what `emitExpr` does; then
there is one lemma per action (`EmitIfType`, ...), over lemmas about stacks
(`StackLemmas`) and about appending blocks (`ExtendFacts`, `EmitFacts`).

*Flow.* `Verified` speaks of the finished function only. `FlowInv` adds to
`TypeInv` what holds on the way: `PendingOK` (open blocks are claimed once and
empty), `AttachedOK` (a block not yet inserted is some `emitIf`'s end block),
`CodeOK` (terminators only at ends, branches only to blocks), and a protocol
between caller and callee, `CallsOK` with `CursorOK`: an activation that called
`emitStmt` must expect the cursor's block to be closed on return, and only
`emitIf`, `emitWhile`, `emitCompound` and `emitFunction` do; one that called
`emitExpr` may go on writing. That protocol is why `EmitWhileBody` may branch
without looking and `EmitElse` may not. `PendingStep` proves once that the block
discipline survives a step that replaces the top activation, and each action
instantiates it.

*The warning.* `WarningExact` relates two walks over the same tree in two files:
`alwaysReturns` of the analyzer, which sees statements, and the generator, which
leaves blocks. `WarningInv` adds `Walk` to `FlowInv`, which says how far the
generator has got in terms of the analyzer's answer. An activation is `Alive` if
no statement it has finished always returns; it was `Entered` alive if all those
below it are. `Walk` has three parts: the cursor is in an open, reachable block
exactly if the activations are alive (`Live`); an activation survives a call
exactly if the callee did not stop (`CallsLive`); and a block that an activation
made and branched to is reachable exactly if the activation was entered alive,
one it has not branched to never is (`BranchesLive`). The last part carries the
argument of `emitIf` without `else` and of `emitWhile`, whose end blocks stay
reachable although their bodies always return. Reachability has two forms:
`Reachable` in `IRGen` grows a set from the entry block, a step for each block;
`Reach` in the proof is the least set that contains the entry block and follows
the branches. `ReachLeast` and `ReachGrows` say what a new branch does to the
second, and `WithinReach` shows that the two are the same: a set that grows in
each of as many steps as there are blocks contains them all. `alwaysReturns` is
a recursive function; `AlwaysReturnsExists` builds it as a least fixed point, so
that its equation may be used.

### The driver

`HonestStatus` and `DumpsStop` speak of the exit. The invariant adds what the
driver owes on the way: `StopsAtDump` (the stage the option loop chose is that of
the earliest dump, in whatever order the flags came, and is still ahead),
`Quiet` (nothing was printed or complained about before the exit, and the input is
known), `Untouched` (no file before an output step), `Route` (the output agrees
with the step), `Kept` (with `-save-temps` there is no temporary file) and
`DumpLeft`. `EndKeeps`, with its instances `FailKeeps` (the code's own failures) and
`DiesKeeps` (LLVM's exit from a write), `FinishKeeps`, `ProceedKeeps` and
`WriteKeeps` prove once what the ways to end a step keep; the actions cite them.
`EarliestIsLast` ties the property's choice of the earliest dump to the
comparison in the code.

### Linking

`Chosen`, `Checked` and `Done` carry what each check established to the step that
relies on it, so that `HostToolsStayHome` follows from two tests in two files:
`checkCrossLinkInputs` in `main.cpp` and the choice of the driver in `Link.cpp`.
`WordsSurvive` needs `Progress`: between two parts of the command line
(`Between`), what was read are their words, the last perhaps unfinished; within a
quoted part (`Within`), the characters read have joined the word begun before
it, and the quote that is open does not occur in the part. `SpelledFacts` and
`MeantFacts` unfold the two recursive functions that define the text and the words
of a command line.

### The analyzer

The properties compare a table with a text, so the invariant says what the table
means. `Nesting`: as many scopes are open as braces, and the depth never falls
below zero. `Table`: for each open scope and each name, the scope has an `Entry`
exactly if the text has a declaration of that name there that is still in scope,
and it `Holds` the symbol of the first, which is the one that was not refused.
`LookupRight` follows: `lookup` `Answers` what `Meaning` reads off the positions
of the braces; and so does `ExistingRight`: a declaration is refused exactly if it
`Redeclares`. The work is in the growth of the text. A step adds a piece, and what
was said of the pieces before must not change: `RedeclaresGrows`, `DenotesSame`,
`MeaningSame` and their likes say so, and `InScopeGrows` what is in scope at the
new end. A close is the hard case, since it takes declarations out of scope and
may uncover others; there, as for every piece, the `Entry` of each scope that stays
is shown to survive (`TableKept`, `EntrySame`, `DeclaresSame`).

*Reports.* `Numbered` says that each number below `nextOrder` belongs to exactly
one scope, open or reported, and that the open ones are in order. `Recording`
adds that each scope the text opened is where its number says, at its depth
(`AllPlaced`), that every symbol is filed in the scope of the brace around its
declaration (`AllFiled`), and that each scope lists its symbols in the order of
the text (`AllRising`). At the end `SortedFacts` shows that sorting by number
puts report k in place k.

*Errors and warnings.* `analyzeExpr` works bottom up on a table; the rules are
stated on the set of all parts of an expression, with the types read off the text.
`ExprJudged` relates the two by induction on `Height`: the analysis of an
expression finds no error exactly if all its parts are legal, gives it its
`StaticType`, and warns of what is `Suspicious`. The type is the same in a faulty
expression too, which is why errors do not spread. `Judging` carries this to the
program. It must also say that `currentFunction` is the function `Begun` last,
since a `return` is judged by the first in the code and by the second (`Around`)
in the rules.

*Readiness.* Without errors every piece is `Legal`; what remains is to relate the
symbols written into the tree to the text. `Annotated` says of each piece that the
uses noted in it are those that stand in its expressions (`Listed`), and of a
declaration that its symbol is null exactly if it redeclares. `Global` says that
every function ever stored is still in the global scope under its name, from which
no two functions of one name can be; when the scopes are gone, `OneByName`
remains. `CallReady` then derives that an argument is a whole array exactly where
the parameter is one.

### The parser

`PInv` says where the parser is: within the tokens (`Ends`: the last one is the end
of the file, which no rule goes past), and with a stack that fits it: `StackOK`
says which activation may stand below which. The rules that nothing interrupts
are recursive functions of the position. `Sound` says of the result of one that it
does not lie before its start, and that a failed one complains of a token it has
seen; `Consumes`, that a success has read something. `RuleStep` shows this for each
rule from the same for the rules it calls, `Rank` (the tokens left, then the level
of the rule) says that those are below it, and `ParseExists` and `ParseGood` draw
the conclusion.

`ReportedInOrder` is about what recovery does to that: `synchronize` moves on from
the token the rule *stopped* at, which may lie behind the one complained of, and
an outer recovery may start where an inner one ended. `Log` is the inductive form:
the errors are in order, none is beyond the position, and an error at the position
itself is allowed only where the next one moves on (`Fresh`, `Once`).

### The lexer

The reference cuts the text from the left, knowing all of it; the automaton sees
one character and its state. `Scans` relates the two: `Located` (line and column are
those of the position), `Where` (what each state says of the characters between the
start of the piece and the position: a word so far, inside a comment whose end is
not behind, ...) and `Emitted` (tokens and reports are exactly those of the pieces
before the place `SeenTo`). The reference defines the list of pieces by recursion
from the left end; `Rest` solves it from the right, so that a step that finishes
a piece takes one piece off it (`RestNext`), whatever is behind. `WordPiece`,
`NumberPiece`, `CommentPiece` and their likes say what the longest lexeme at a place
is in terms of the next character that does not belong to it, which is when the
automaton knows; `EmittedWord` and its likes put the two together, and there is
one lemma per state for the step.

`CaretsExact` involves the second count of lines, that of the engine. `Starts` is
its table of where lines start, as a recursive function; `StartsLast` and
`StartsGrow` show that line *n* of the table is the *n*-th that the lexer counted,
and `CaretRight` that the characters before the caret are then as wide as those
before the lexeme.

### The conversion

`Verified` is one predicate on the finished function; the proof takes it apart.
`Typed`: operands and regions name blocks. `Nested`: every region lies in a block in
place and its own block ranks above that one, so nesting has no cycle. `Single`: a
block is in one place. `Ordered`: each block ends in the one terminator that its place asks for, and
branches only within its region. `AcceptedIs` shows that these are what
`mlir::verify` demands.

A pattern moves blocks between lists, changes whose region they are in, and
moves the operations behind the one it replaces into a new block. The index
check, the `if` and the `while` have one shape, which `Opens` describes: the block
is cut at the operation, blocks that were in its regions join the list behind it
with their yields turned into branches, and only new jumps appear. The four parts
of the invariant are shown for that shape once (`OpensTyped`, `OpensNested`,
`OpensSingle`, `OpensOrdered`); `IndexCheckOpens`, `IfOpens` and `WhileOpens` show
that the three patterns have it. The `return` is different, since it drops what is
behind it (`ReturnKeeps`).

`NoneStranded` needs more than a verified function. When nothing of the dialect is
left, the lowest block with a region would be in the function's own list, where
there is none, so no region is left (`NoRegions`) and every block is in that list.
`ReachableFacts` shows that the blocks reached in as many steps as there are
blocks are closed under branching, by counting (`GrowthEnds`), and `KeptFacts` that
erasing the others keeps the order. What remains is still ordered and all of it
is reachable (`ErasedFacts`), so `convert-func-to-llvm` replaces every return.

### Recursion

The induction theorems of the library cannot be instantiated by the installed
provers, so induction over numbers is done through sets: `SetInduction` says that a set
with zero and every successor holds every number, and `IterationExists` that a
step can be iterated; both follow from the least-element principle. Recursive
*functions* over numbers are within reach that way (the words of a command
line, the blocks reached after so many steps, the pieces of a text, the value of
a numeral, the rules of the parser). So is recursion over trees, given
a rank: `TreeInduction` says that a set holds all trees if it holds every tree
whose smaller trees it holds, and `RecursionExists` that a function whose value at
a tree is decided by the values at smaller trees can be defined. With it the
equations of `analyzeExpr` and `PartsOf`, recursive functions of the model, are
established (`AnalyzeExprFacts`, `PartsOfFacts`) rather than assumed.

### What is left to TLC

* Liveness (`Finishes` of `IRGen`, `Lexer` and `Parser`, and `Lowers`), which
  rests on fairness and ENABLED.
* What involves a RECURSIVE operator, of which the prover accepts none:
  `RefinesSource` (`CMinusSemantics`), `NeverRejected` and `SameAsStd` of the run
  mlirflavors (`MLIRGen`), `ParsesGrammar` (`Grammar`) and `DumpReadable`
  (`ASTPrinter`). That `MLIRGen` makes functions of the kind `ModulesAssumption`
  describes is checked for the same reason, not proved.
* That the constants given to TLC are those the code would pass on: the contract
  between analyzer and generators is stated and proved on the analyzer's side
  (`ReadyForCodeGeneration`) and assumed on the generator's (`SyntaxAssumption`).

## 6. What is not modelled

* Data that no property tells apart: the values of variables, the wording of
  messages, colours, names of blocks, types of LLVM and MLIR, SSA values and the
  operations that only convert a value. A condition or a tested index takes
  either outcome each time.
* The printing of tokens and symbols, the summary line of the diagnostics, and
  reports without a place in the source.
* LLVM, MLIR, the C driver and the operating system: only the outcome of a call.
  Of the MLIR passes behind `lower-cminus-to-cf` only what `convert-func-to-llvm`
  does to returns; the attributes that `lowerMLIRToLLVM` sets (triple, data
  layout, width of an index) have no control flow.
* The options that only tune a stage (`-O`, CPU, features, ABI, `-v`, colour).
* A driver that is killed. It would leave its temporary object; the code has no
  means against it. The same remains behind when a file was opened but cannot be
  written in full (a full disk): `writeObjectFile`, `writeIR` and the writing of
  MLIR do not ask for the stream's error, so the destructor of LLVM's stream ends
  the process (`report_fatal_error`, status 1). That is modelled (`DiesWriting`).
* Failed writes to `std::cout` and `std::cerr` (dumps, diagnostics), which the code
  does not look at.
* The unterminated quote in a command line: `splitCommand` takes the rest as one
  word, and no document says what it should do.
* Tests, continuous integration and the Yocto layer hold no program logic.

## 7. Plan

What would come next is a compiler module that composes parser, analyzer and
generator on one tree, so that `SyntaxAssumption` is discharged by
`ReadyForCodeGeneration`; and a form of `MLIRGen` and `CMinusSemantics` without
RECURSIVE operators, which would bring `NeverRejected` and `RefinesSource` within
reach of the prover.

## 8. Running

    tlc -config IRGen.cfg MCIRGen.tla
    tlc -config MLIRFlavors.cfg MCMLIRFlavors.tla
    tlapm IRGenProofs.tla
    tlapm SemanticProofs.tla
    tlapm LoweringProofs.tla
