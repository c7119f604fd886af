---------------------------- MODULE DriverProofs ----------------------------
(***************************************************************************)
(* The driver tells the truth, for command lines of any length and every   *)
(* set of file names: the properties of module Driver, proved.             *)
(***************************************************************************)
EXTENDS Driver, TLAPS

Stages == {"Scan", "Parse", "Analyze"}
Before == {"arguments"} \union Stages                     \* no target yet
Writing == {"target", "cross", "generate", "mlir", "lower", "write"}

Options ==
  [inputPath : Values \union {None}, outputPath : Word \union {None},
   targetTriple : Word \union {None}, driver : Word \union {None},
   runtimePath : Word \union {None}, stopAfter : Stages \union {"Emit"},
   output : {"Executable", "Object", "LLVMIR", "MLIR"},
   dumps : SUBSET Stages, useMLIR : BOOLEAN, saveTemps : BOOLEAN]

Typed ==
  /\ opts \in Options
  /\ wanting \in Valued \union {None}
  /\ diags \in [errors : BOOLEAN, warnings : BOOLEAN]

(* The driver stops after the first stage whose dump was asked for, and it *)
(* is still in front of it.                                                *)
Last(dumps) ==
  IF "Scan" \in dumps THEN "Scan"
  ELSE IF "Parse" \in dumps THEN "Parse"
  ELSE IF "Analyze" \in dumps THEN "Analyze" ELSE "Emit"

StopsAtDump ==
  /\ opts.stopAfter = Last(opts.dumps)
  /\ doing = "Parse" => "Scan" \notin opts.dumps
  /\ doing = "Analyze" => opts.dumps \subseteq {"Analyze"}
  /\ doing \notin Before \union {"exit"} => opts.dumps = {}

(* Until it exits the driver has printed and said nothing, has found no    *)
(* error and no warning before the analysis, and knows its input.          *)
Quiet ==
  ~ Exited =>
    /\ printed = <<>> /\ said = {}
    /\ ~ diags.errors
    /\ doing \in Before => ~ diags.warnings
    /\ doing # "arguments" => opts.inputPath # None

(* No target before the stages are over, no file before it is written.     *)
Untouched ==
  /\ doing \in Before => target = None
  /\ doing \in Before \union Writing => files = <<>>
  /\ opts.dumps # {} => files = <<>> /\ target = None

(* The way to each output.                                                 *)
Route ==
  /\ doing = "mlir" => opts.output = "MLIR"
  /\ doing \in {"object", "link"} => opts.output = "Executable"

(* With -save-temps the temporary file is never made.                      *)
Kept == doing \in {"object", "link"} /\ opts.saveTemps => Temporary \notin DOMAIN files

(* What a dump leaves when the driver exits.                               *)
DumpLeft ==
  opts.dumps # {} /\ Exited /\ status # 2 /\ printed # <<"usage">> =>
    \/ printed = <<Last(opts.dumps)>>
    \/ printed = <<>> /\ diags.errors /\ status = 1

(* The inductive invariant.                                                *)
Inv ==
  /\ Typed /\ TypeOK
  /\ StopsAtDump /\ Quiet /\ Untouched /\ Route /\ Kept
  /\ DumpLeft /\ HonestStatus /\ TemporaryRemoved

-----------------------------------------------------------------------------
(* The names of the output and of an object that is kept are not the       *)
(* temporary file's.                                                       *)
LEMMA OtherNames ==
  ASSUME Typed, opts.inputPath # None
  PROVE  /\ Output # Temporary /\ Stream(Output) # Temporary
         /\ opts.saveTemps => Stream(ObjectPath) # Temporary
<1>1. opts.inputPath \in Values
  BY DEF Typed, Options
<1>2. Object(opts.inputPath) # Temporary
  BY <1>1, TemporaryAssumption
<1>3. opts.outputPath # None => opts.outputPath # Temporary
  BY TemporaryAssumption DEF Typed, Options, Word, Switches, Valued, Temporary
<1>4. Output # Temporary
  BY <1>2, <1>3 DEF Output, Temporary
<1> QED
  BY <1>2, <1>4 DEF Stream, ObjectPath, Temporary

(* Holding writes one file.                                                *)
LEMMA HoldingFacts ==
  ASSUME NEW path, NEW what
  PROVE  /\ DOMAIN Holding(path, what) = DOMAIN files \union {path}
         /\ Holding(path, what)[path] = what
  BY DEF Holding

(* Removed leaves no temporary file and touches no other.                  *)
LEMMA RemovedFacts ==
  ASSUME NEW contents, ~ opts.saveTemps
  PROVE  /\ DOMAIN Removed(contents) = DOMAIN contents \ {Temporary}
         /\ \A f \in DOMAIN Removed(contents) : Removed(contents)[f] = contents[f]
  BY DEF Removed

(* Each switch sets options to options.                                    *)
LEMMA SwitchOptions ==
  ASSUME opts \in Options, NEW word \in Switches \ {"--help", "unknown"}
  PROVE  WithSwitch(word) \in Options
<1>1. CASE word \in {"--dump-tokens", "--dump-ast", "--dump-symbols"}
  <2>1. DumpOf(word) \in Stages
    BY <1>1 DEF DumpOf, Stages
  <2>2. StopAfterDump(word) \in Stages \union {"Emit"}
    BY <1>1 DEF StopAfterDump, Options, Stages
  <2>3. WithSwitch(word) =
          [opts EXCEPT !.dumps = @ \union {DumpOf(word)}, !.stopAfter = StopAfterDump(word)]
    BY <1>1 DEF WithSwitch
  <2>4. opts.dumps \union {DumpOf(word)} \in SUBSET Stages
    BY <2>1 DEF Options
  <2> QED
    BY <2>2, <2>3, <2>4 DEF Options
<1>2. CASE word \notin {"--dump-tokens", "--dump-ast", "--dump-symbols"}
  BY <1>2 DEF WithSwitch, Switches, Options
<1> QED
  BY <1>1, <1>2

-----------------------------------------------------------------------------
(* What the steps have in common: reading on, failing, finishing.          *)

LEMMA ReadKeeps ==
  ASSUME Inv, doing = "arguments", doing' = doing,
         UNCHANGED <<target, diags, printed, said, files, status>>,
         opts' \in Options, wanting' \in Valued \union {None},
         opts'.stopAfter = Last(opts'.dumps),
         opts'.output = "MLIR" => opts'.useMLIR
  PROVE  Inv'
<1>1. ~ Exited /\ ~ Exited'
  BY DEF Inv, TypeOK, Exited
<1>2. Typed'
  BY DEF Inv, Typed
<1>3. TypeOK'
  BY DEF Inv, TypeOK, Exited
<1>4. StopsAtDump' /\ Route' /\ Kept'
  BY DEF StopsAtDump, Route, Kept, Before
<1>5. Quiet'
  BY <1>1 DEF Inv, Quiet
<1>6. Untouched'
  BY DEF Inv, Untouched, Before
<1>7. DumpLeft'
  BY <1>1 DEF DumpLeft
<1>8. HonestStatus' /\ TemporaryRemoved'
  BY <1>1, DriverAssumption DEF HonestStatus, TemporaryRemoved, Exited
<1> QED
  BY <1>2, <1>3, <1>4, <1>5, <1>6, <1>7, <1>8 DEF Inv

(* Exits that say what is wrong.                                           *)
LEMMA EndKeeps ==
  ASSUME Inv, ~ Exited, NEW code \in {1, 2}, Exit(code),
         said' \subseteq {"error", "errors", "warnings", "fatal"},
         said' \intersect {"error", "fatal"} # {},
         UNCHANGED <<opts, wanting, target, diags, printed>>,
         Temporary \in DOMAIN files' => "fatal" \in said' /\ files'[Temporary] = "partial",
         code = 2 => files' = <<>>,
         opts.dumps # {} => code = 2 /\ target = None
  PROVE  Inv'
<1>1. doing' = "exit" /\ status' = code /\ Exited'
  BY DriverAssumption DEF Exit, Exited
<1>2. Typed'
  BY DEF Inv, Typed
<1>3. TypeOK'
  BY <1>1 DEF Inv, TypeOK
<1>4. StopsAtDump' /\ Route' /\ Kept'
  BY <1>1 DEF Inv, StopsAtDump, Route, Kept, Before, Stages
<1>5. Quiet'
  BY <1>1 DEF Quiet
<1>6. Untouched'
  BY <1>1 DEF Untouched, Before, Writing, Stages
<1>7. DumpLeft'
  BY <1>1 DEF DumpLeft
<1>8. HonestStatus' /\ TemporaryRemoved'
  BY <1>1 DEF HonestStatus, TemporaryRemoved
<1> QED
  BY <1>2, <1>3, <1>4, <1>5, <1>6, <1>7, <1>8 DEF Inv

LEMMA FailKeeps ==
  ASSUME Inv, ~ Exited, NEW code \in {1, 2}, Fail(code),
         UNCHANGED <<opts, wanting, target, diags, printed>>,
         Temporary \notin DOMAIN files',
         code = 2 => files' = <<>>,
         opts.dumps # {} => code = 2 /\ target = None
  PROVE  Inv'
<1>1. said' = {"error"} /\ Exit(code)
  BY DEF Fail, Inv, Quiet
<1> QED
  BY <1>1, EndKeeps

(* LLVM ends the process in the middle of writing a file.                  *)
LEMMA DiesKeeps ==
  ASSUME Inv, ~ Exited, doing \notin Before, opts.dumps = {},
         NEW path, DiesWriting(path, said) \/ DiesWriting(path, SaidWith(diags)),
         Stream(path) = Temporary \/ Temporary \notin DOMAIN files,
         UNCHANGED <<opts, wanting, target, diags, printed>>
  PROVE  Inv'
<1>1. /\ files' = Holding(Stream(path), "partial") /\ Exit(1)
      /\ said' = said \union {"fatal"} \/ said' = SaidWith(diags) \union {"fatal"}
  BY DEF DiesWriting
<1>2. said = {} /\ SaidWith(diags) \subseteq {"errors", "warnings"}
  BY DEF SaidWith, Inv, Quiet
<1>3. /\ DOMAIN files' = DOMAIN files \union {Stream(path)}
      /\ files'[Stream(path)] = "partial"
  BY <1>1, HoldingFacts
<1>4. /\ said' \subseteq {"error", "errors", "warnings", "fatal"} /\ "fatal" \in said'
      /\ said' \intersect {"error", "fatal"} # {}
  BY <1>1, <1>2
<1>5. Temporary \in DOMAIN files' => "fatal" \in said' /\ files'[Temporary] = "partial"
  BY <1>3, <1>4
<1> QED
  BY <1>1, <1>4, <1>5, EndKeeps

LEMMA FinishKeeps ==
  ASSUME Inv, ~ Exited,
         NEW found \in [errors : BOOLEAN, warnings : BOOLEAN], diags' = found, finish(found),
         UNCHANGED <<opts, wanting, target>>,
         Temporary \notin DOMAIN files',
         opts.dumps # {} =>
           /\ files' = <<>> /\ target = None
           /\ printed' = <<Last(opts.dumps)>> \/ (printed' = <<>> /\ found.errors),
         ~ found.errors =>
           \/ printed' # <<>>
           \/ \E f \in {Output, Stream(Output)} \intersect DOMAIN files' : files'[f] = opts.output
  PROVE  Inv'
<1>1. /\ doing' = "exit" /\ Exited'
      /\ status' = IF found.errors THEN 1 ELSE 0
      /\ said' = (IF found.errors THEN {"errors"} ELSE {})
                   \union (IF found.warnings THEN {"warnings"} ELSE {})
  BY DriverAssumption DEF finish, SaidWith, Exit, Exited, Inv, Quiet
<1>2. Typed'
  BY DEF Inv, Typed
<1>3. TypeOK'
  BY <1>1 DEF Inv, TypeOK
<1>4. StopsAtDump' /\ Route' /\ Kept'
  BY <1>1 DEF Inv, StopsAtDump, Route, Kept, Before, Stages
<1>5. Quiet'
  BY <1>1 DEF Quiet
<1>6. Untouched'
  BY <1>1 DEF Untouched, Before, Writing, Stages
<1>7. DumpLeft'
  BY <1>1 DEF DumpLeft
<1>8. HonestStatus'
  <2>1. Output' = Output /\ Stream(Output)' = Stream(Output)
    BY DEF Output, Stream
  <2>2. CASE found.errors
    BY <1>1, <2>2 DEF HonestStatus
  <2>3. CASE ~ found.errors
    BY <1>1, <2>1, <2>3 DEF HonestStatus
  <2> QED
    BY <2>2, <2>3
<1>9. TemporaryRemoved'
  BY <1>1 DEF TemporaryRemoved
<1> QED
  BY <1>2, <1>3, <1>4, <1>5, <1>6, <1>7, <1>8, <1>9 DEF Inv

(* Going on to a later step, nothing else changed but the warnings found,  *)
(* the target and a temporary file.                                        *)
LEMMA ProceedKeeps ==
  ASSUME Inv, ~ Exited, UNCHANGED <<opts, wanting, printed, said, status>>,
         diags' \in [errors : BOOLEAN, warnings : BOOLEAN], ~ diags'.errors,
         doing' \in Before => ~ diags'.warnings,
         opts.inputPath # None,
         doing' \in {"Scan", "Parse", "Analyze"} \union Writing \union {"object", "link"},
         doing' \in Stages => UNCHANGED <<target, files>> /\ doing \in Before,
         doing' \in Writing => UNCHANGED files /\ doing \in Before \union Writing,
         StopsAtDump', Route', Kept',
         doing' \in {"mlir", "lower"} => opts.useMLIR,
         opts.output = "MLIR" => doing' \notin {"lower", "write", "object", "link"},
         doing' = "link" => files'[Stream(ObjectPath)] = "Object"
  PROVE  Inv'
<1>1. ~ Exited'
  BY DEF Exited
<1>2. Typed'
  BY DEF Inv, Typed
<1>3. TypeOK'
  BY <1>1 DEF Inv, TypeOK, Exited, Writing
<1>4. Quiet'
  BY DEF Inv, Quiet
<1>5. Untouched'
  BY DEF Inv, Untouched, StopsAtDump, Before, Writing, Stages
<1>6. DumpLeft'
  BY <1>1 DEF DumpLeft
<1>7. HonestStatus'
  BY <1>1, DriverAssumption DEF Exited, HonestStatus
<1>8. TemporaryRemoved'
  <2>1. Stream(ObjectPath)' = Stream(ObjectPath)
    BY DEF Stream, ObjectPath
  <2> QED
    BY <1>1, <2>1 DEF TemporaryRemoved
<1> QED
  BY <1>2, <1>3, <1>4, <1>5, <1>6, <1>7, <1>8 DEF Inv

(* Before it exits the driver has written no file but its temporary one,   *)
(* and knows where it is.                                                  *)
LEMMA Underway ==
  ASSUME Inv, doing # "exit"
  PROVE  /\ ~ Exited /\ printed = <<>> /\ ~ diags.errors /\ said = {}
         /\ doing # "arguments" => opts.inputPath # None
         /\ diags \in [errors : BOOLEAN, warnings : BOOLEAN]
         /\ doing \in Before => target = None /\ ~ diags.warnings
         /\ doing \in Before \union Writing => files = <<>> /\ DOMAIN files = {}
         /\ doing \notin Before => opts.dumps = {}
  BY DEF Inv, Typed, TypeOK, Quiet, Untouched, StopsAtDump

(* A Write is over for good or ill.                                        *)
LEMMA WriteKeeps ==
  ASSUME Inv, doing \in Writing, NEW what, what = opts.output, Write(what),
         UNCHANGED <<opts, wanting, target, diags, printed>>
  PROVE  Inv'
<1>1. /\ ~ Exited /\ opts.inputPath # None /\ opts.dumps = {}
      /\ DOMAIN files = {} /\ ~ diags.errors
  BY Underway DEF Writing, Before, Stages
<1>2. CASE Fail(1) /\ UNCHANGED files
  BY <1>1, <1>2, FailKeeps
<1>3. CASE files' = Holding(Stream(Output), what) /\ finish(diags)
  <2>0. /\ DOMAIN Holding(Stream(Output), what) = DOMAIN files \union {Stream(Output)}
        /\ Holding(Stream(Output), what)[Stream(Output)] = what
    BY HoldingFacts
  <2>1. /\ DOMAIN files' = {Stream(Output)}
        /\ files'[Stream(Output)] = opts.output
    BY <1>1, <1>3, <2>0
  <2>2. Temporary \notin DOMAIN files'
    BY <1>1, <2>1, OtherNames DEF Inv
  <2>3. diags \in [errors : BOOLEAN, warnings : BOOLEAN]
    BY Underway DEF Writing
  <2> QED
    BY <1>1, <1>3, <2>1, <2>2, <2>3, FinishKeeps
<1> QED
  BY <1>2, <1>3 DEF Write

-----------------------------------------------------------------------------
(* The command line.                                                       *)

LEMMA ReadSwitchStep ==
  ASSUME Inv, ReadSwitch
  PROVE  Inv'
<1>1. PICK word \in Switches \ {"--help", "unknown"} :
        Reading(word) /\ wanting = None /\ opts' = WithSwitch(word)
          /\ UNCHANGED <<wanting, doing, printed, said, status>>
  BY DEF ReadSwitch
<1>2. opts \in Options /\ opts.stopAfter = Last(opts.dumps)
      /\ (opts.output = "MLIR" => opts.useMLIR)
  BY DEF Inv, Typed, TypeOK, StopsAtDump
<1>3. opts' \in Options
  BY <1>1, <1>2, SwitchOptions
<1>4. opts'.stopAfter = Last(opts'.dumps)
  BY <1>1, <1>2 DEF WithSwitch, StopAfterDump, DumpOf, Last, Options, Stages, Switches
<1>5. opts'.output = "MLIR" => opts'.useMLIR
  BY <1>1, <1>2 DEF WithSwitch, Options, Switches
<1> QED
  BY <1>1, <1>3, <1>4, <1>5, ReadKeeps DEF Inv, Typed, Reading

LEMMA ReadValuedStep ==
  ASSUME Inv, ReadValued
  PROVE  Inv'
<1>1. opts \in Options /\ opts.stopAfter = Last(opts.dumps)
      /\ (opts.output = "MLIR" => opts.useMLIR)
  BY DEF Inv, Typed, TypeOK, StopsAtDump
<1> QED
  BY <1>1, ReadKeeps DEF ReadValued, Reading

LEMMA ReadValueStep ==
  ASSUME Inv, ReadValue
  PROVE  Inv'
<1>1. PICK word \in Word :
        Reading(word) /\ wanting # None /\ opts' = WithValue(wanting, word)
          /\ wanting' = None /\ UNCHANGED <<doing, printed, said, status>>
  BY DEF ReadValue
<1>2. opts \in Options /\ opts.stopAfter = Last(opts.dumps) /\ wanting \in Valued
      /\ (opts.output = "MLIR" => opts.useMLIR)
  BY <1>1 DEF Inv, Typed, TypeOK, StopsAtDump
<1>3. opts' \in Options
  BY <1>1, <1>2 DEF WithValue, Options, Valued
<1>4. opts'.stopAfter = opts.stopAfter /\ opts'.dumps = opts.dumps
      /\ opts'.output = opts.output /\ opts'.useMLIR = opts.useMLIR
  BY <1>1, <1>2 DEF WithValue, Options, Valued
<1> QED
  BY <1>1, <1>2, <1>3, <1>4, ReadKeeps DEF Reading

LEMMA ReadInputStep ==
  ASSUME Inv, ReadInput
  PROVE  Inv'
<1>1. PICK word \in Values :
        Reading(word) /\ opts' = [opts EXCEPT !.inputPath = word]
          /\ UNCHANGED <<wanting, doing, printed, said, status>>
  BY DEF ReadInput
<1>2. opts \in Options /\ opts.stopAfter = Last(opts.dumps)
      /\ (opts.output = "MLIR" => opts.useMLIR)
  BY DEF Inv, Typed, TypeOK, StopsAtDump
<1>3. opts' \in Options
  BY <1>1, <1>2 DEF Options
<1>4. opts'.stopAfter = opts.stopAfter /\ opts'.dumps = opts.dumps
      /\ opts'.output = opts.output /\ opts'.useMLIR = opts.useMLIR
  BY <1>1, <1>2 DEF Options
<1> QED
  BY <1>1, <1>2, <1>3, <1>4, ReadKeeps DEF Reading, Inv, Typed

(* The usage text is the one thing printed without a dump.                 *)
LEMMA HelpStep ==
  ASSUME Inv, Help
  PROVE  Inv'
<1>1. /\ ~ Exited /\ doing = "arguments" /\ printed' = <<"usage">>
      /\ doing' = "exit" /\ status' = 0
      /\ UNCHANGED <<opts, wanting, target, diags, said, files>>
  BY DEF Help, Reading, Exit, Inv, TypeOK
<1>2. Exited' /\ ~ diags.errors /\ said = {} /\ files = <<>> /\ target = None
  BY <1>1, Underway, DriverAssumption DEF Exited, Before
<1>3. ~ diags.warnings
  BY <1>1, Underway DEF Before
<1>4. Typed'
  BY <1>1 DEF Inv, Typed
<1>5. TypeOK'
  BY <1>1, <1>2 DEF Inv, TypeOK
<1>6. StopsAtDump' /\ Quiet' /\ Untouched' /\ Route' /\ Kept' /\ DumpLeft'
  BY <1>1, <1>2 DEF Inv, StopsAtDump, Quiet, Untouched, Route, Kept, DumpLeft, Before, Writing, Stages
<1>7. HonestStatus'
  BY <1>1, <1>2, <1>3 DEF HonestStatus
<1>8. TemporaryRemoved'
  BY <1>1, <1>2 DEF TemporaryRemoved
<1> QED
  BY <1>4, <1>5, <1>6, <1>7, <1>8 DEF Inv

LEMMA RefuseStep ==
  ASSUME Inv, Refuse
  PROVE  Inv'
<1>1. /\ doing = "arguments" /\ Fail(2)
      /\ UNCHANGED <<opts, wanting, target, diags, printed, files>>
  BY DEF Refuse, Reading
<1>2. ~ Exited /\ files = <<>> /\ DOMAIN files = {} /\ target = None
  BY <1>1, Underway DEF Before
<1> QED
  BY <1>1, <1>2, FailKeeps

LEMMA EndArgumentsStep ==
  ASSUME Inv, EndArguments
  PROVE  Inv'
<1>1. /\ doing = "arguments"
      /\ UNCHANGED <<opts, wanting, target, diags, printed, files>>
  BY DEF EndArguments
<1>2. ~ Exited /\ files = <<>> /\ DOMAIN files = {} /\ target = None
  BY <1>1, Underway DEF Before
<1>3. CASE Fail(2)
  BY <1>1, <1>2, <1>3, FailKeeps
<1>4. CASE opts.inputPath # None /\ doing' = "Scan" /\ UNCHANGED <<said, status>>
  <2>1. StopsAtDump' /\ Route' /\ Kept'
    BY <1>1, <1>4 DEF Inv, StopsAtDump, Route, Kept, Before, Stages
  <2>2. diags \in [errors : BOOLEAN, warnings : BOOLEAN] /\ ~ diags.errors /\ ~ diags.warnings
    BY <1>1, Underway DEF Before
  <2> QED
    BY <1>1, <1>2, <1>4, <2>1, <2>2, ProceedKeeps DEF Before, Writing, Stages
<1> QED
  BY <1>3, <1>4 DEF EndArguments

-----------------------------------------------------------------------------
(* The stages.                                                             *)

LEMMA FrontStep ==
  ASSUME Inv, NEW stage \in Stages, FrontStage(stage)
  PROVE  Inv'
<1>1. /\ doing = stage
      /\ printed' = IF stage \in opts.dumps THEN Append(printed, stage) ELSE printed
      /\ UNCHANGED <<opts, wanting, target, files>>
  BY DEF FrontStage
<1>2. PICK found \in [errors : BOOLEAN, warnings : BOOLEAN] :
        /\ found.warnings => stage = "Analyze"
        /\ diags' = found
        /\ IF opts.stopAfter = stage \/ found.errors
           THEN finish(found)
           ELSE doing' = After(stage) /\ UNCHANGED <<said, status>>
  BY DEF FrontStage
<1>3. /\ ~ Exited /\ printed = <<>> /\ ~ diags.errors /\ said = {}
      /\ opts.inputPath # None /\ target = None /\ files = <<>> /\ DOMAIN files = {}
  BY <1>1, Underway DEF Before, Stages
<1>4. /\ opts.dumps \subseteq Stages
      /\ opts.stopAfter = Last(opts.dumps)
      /\ stage = "Parse" => "Scan" \notin opts.dumps
      /\ stage = "Analyze" => opts.dumps \subseteq {"Analyze"}
  BY <1>1 DEF Inv, Typed, Options, StopsAtDump
<1>5. stage \in opts.dumps <=> opts.stopAfter = stage
  BY <1>4 DEF Last, Stages
<1>6. printed' = IF stage \in opts.dumps THEN <<stage>> ELSE <<>>
  BY <1>1, <1>3
<1>7. CASE opts.stopAfter = stage \/ found.errors
  <2>1. stage \in opts.dumps => stage = Last(opts.dumps) /\ printed' = <<stage>> /\ printed' # <<>>
    BY <1>4, <1>5, <1>6
  <2>2. stage \notin opts.dumps => printed' = <<>> /\ found.errors
    BY <1>5, <1>6, <1>7
  <2>3. diags' = found /\ finish(found)
    BY <1>2, <1>7
  <2>4. files' = <<>> /\ Temporary \notin DOMAIN files'
    BY <1>1, <1>3
  <2>5. printed' = <<Last(opts.dumps)>> \/ (printed' = <<>> /\ found.errors)
    BY <2>1, <2>2
  <2>6. ~ found.errors => printed' # <<>>
    BY <2>1, <2>2
  <2> QED
    BY <1>1, <1>3, <2>3, <2>4, <2>5, <2>6, FinishKeeps
<1>8. CASE ~ (opts.stopAfter = stage \/ found.errors)
  <2>1. /\ stage \notin opts.dumps /\ printed' = printed /\ doing' = After(stage)
        /\ diags' = found /\ ~ found.errors /\ UNCHANGED <<said, status>>
    BY <1>1, <1>2, <1>3, <1>5, <1>6, <1>8
  <2>2. StopsAtDump' /\ Route' /\ Kept'
    BY <1>1, <1>4, <2>1 DEF StopsAtDump, Route, Kept, After, Before, Stages, Last
  <2>3. /\ doing' \in {"Parse", "Analyze", "target"}
        /\ doing' \in Before => stage # "Analyze"
    BY <2>1 DEF After, Stages, Before
  <2>4. doing' \in Before => ~ diags'.warnings
    BY <1>2, <2>1, <2>3
  <2> QED
    BY <1>1, <1>3, <2>1, <2>2, <2>3, <2>4, ProceedKeeps DEF Before, Writing, Stages
<1> QED
  BY <1>7, <1>8

-----------------------------------------------------------------------------
(* Target and generation.                                                  *)

LEMMA TargetSteps ==
  ASSUME Inv, CreateTarget \/ CheckCross \/ Generate \/ Lower
  PROVE  Inv'
<1>1. /\ doing \in {"target", "cross", "generate", "lower"}
      /\ UNCHANGED <<opts, wanting, printed, files>>
  BY DEF CreateTarget, CheckCross, Generate, Lower
<1>2. /\ ~ Exited /\ printed = <<>> /\ ~ diags.errors /\ opts.inputPath # None
      /\ diags \in [errors : BOOLEAN, warnings : BOOLEAN]
      /\ files = <<>> /\ DOMAIN files = {} /\ opts.dumps = {}
  BY <1>1, Underway DEF Before, Stages, Writing
<1>3. CASE Fail(1) /\ UNCHANGED <<target, diags>>
  BY <1>1, <1>2, <1>3, FailKeeps
<1>4. CASE UNCHANGED <<diags, said, status>> /\ doing' \in Writing \ {"target"}
             /\ (doing' \in {"mlir", "lower"} => opts.useMLIR)
             /\ (opts.output = "MLIR" => doing' \notin {"lower", "write"})
             /\ (doing' = "mlir" => opts.output = "MLIR")
  <2>1. StopsAtDump' /\ Route' /\ Kept'
    BY <1>1, <1>2, <1>4 DEF Inv, StopsAtDump, Route, Kept, Before, Stages, Writing
  <2> QED
    BY <1>1, <1>2, <1>4, <2>1, ProceedKeeps DEF Before, Stages, Writing
<1>5. CASE diags' = [diags EXCEPT !.errors = TRUE] /\ finish(diags') /\ UNCHANGED target
  <2>1. diags' \in [errors : BOOLEAN, warnings : BOOLEAN] /\ diags'.errors
    BY <1>2, <1>5
  <2>2. PICK found \in [errors : BOOLEAN, warnings : BOOLEAN] : found = diags' /\ found.errors
    BY <2>1
  <2>3. finish(found)
    BY <1>5, <2>2
  <2> QED
    BY <1>1, <1>2, <1>5, <2>2, <2>3, FinishKeeps
<1>6. CASE CreateTarget
  BY <1>3, <1>4, <1>6 DEF CreateTarget, Writing
<1>7. CASE CheckCross
  BY <1>3, <1>4, <1>7 DEF CheckCross, Writing
<1>8. CASE Generate
  BY <1>4, <1>5, <1>8 DEF Generate, Writing, Inv, TypeOK
<1>9. CASE Lower
  BY <1>3, <1>4, <1>9 DEF Lower, Writing, Inv, TypeOK
<1> QED
  BY <1>6, <1>7, <1>8, <1>9

-----------------------------------------------------------------------------
(* Output.                                                                 *)

LEMMA WriteSteps ==
  ASSUME Inv, WriteMLIR \/ WriteIR \/ WriteObject
  PROVE  Inv'
<1>1. doing \in Writing /\ UNCHANGED <<opts, wanting, target, diags, printed>>
  BY DEF WriteMLIR, WriteIR, WriteObject, Writing
<1>0. /\ ~ Exited /\ opts.inputPath # None /\ opts.dumps = {} /\ DOMAIN files = {}
      /\ doing \notin Before
  BY <1>1, Underway DEF Writing, Before, Stages
<1>5. DiesWriting(Output, said) \/ DiesWriting(Output, SaidWith(diags)) => Inv'
  BY <1>0, <1>1, DiesKeeps
<1>2. CASE WriteMLIR
  BY <1>1, <1>2, <1>5, WriteKeeps DEF WriteMLIR, Inv, Route
<1>3. CASE WriteIR
  BY <1>1, <1>3, <1>5, WriteKeeps DEF WriteIR
<1>4. CASE WriteObject
  <2>1. CASE Write("Object")
    BY <1>1, <1>4, <2>1, WriteKeeps DEF WriteObject
  <2>2. CASE files' = Holding(Stream(Output), "nothing") /\ Fail(1)
    <3>1. ~ Exited /\ opts.inputPath # None /\ opts.dumps = {} /\ DOMAIN files = {}
      BY <1>1, Underway DEF Writing, Before, Stages
    <3>2. Stream(Output) # Temporary
      BY <3>1, OtherNames DEF Inv
    <3>3. DOMAIN Holding(Stream(Output), "nothing") = DOMAIN files \union {Stream(Output)}
      BY HoldingFacts
    <3>4. Temporary \notin DOMAIN files'
      BY <2>2, <3>1, <3>2, <3>3
    <3> QED
      BY <1>1, <2>2, <3>1, <3>4, FailKeeps
  <2>3. CASE DiesWriting(Output, said)
    BY <1>5, <2>3
  <2> QED
    BY <1>4, <2>1, <2>2, <2>3 DEF WriteObject
<1> QED
  BY <1>2, <1>3, <1>4

LEMMA NameObjectStep ==
  ASSUME Inv, NameObject
  PROVE  Inv'
<1>1. /\ doing = "write" /\ opts.output = "Executable"
      /\ UNCHANGED <<opts, wanting, target, diags, printed>>
  BY DEF NameObject
<1>2. /\ ~ Exited /\ opts.inputPath # None /\ opts.dumps = {} /\ DOMAIN files = {}
      /\ diags \in [errors : BOOLEAN, warnings : BOOLEAN] /\ ~ diags.errors
  BY <1>1, Underway DEF Writing, Before, Stages
<1>3. CASE doing' = "object" /\ UNCHANGED <<said, status>>
  <2>1. StopsAtDump' /\ Route'
    BY <1>1, <1>2, <1>3 DEF Inv, StopsAtDump, Route, Before, Stages
  <2>2. Kept'
    BY <1>1, <1>2, <1>3 DEF NameObject, Kept
  <2> QED
    BY <1>1, <1>2, <1>3, <2>1, <2>2, ProceedKeeps DEF Before, Stages, Writing
<1>4. CASE Fail(1) /\ UNCHANGED files
  BY <1>1, <1>2, <1>4, FailKeeps
<1> QED
  BY <1>3, <1>4 DEF NameObject

(* Whatever was written, the temporary file goes, and no other.            *)
LEMMA NoTemporaryLeft ==
  ASSUME Inv, doing \in {"object", "link"}, NEW contents,
         \A f \in DOMAIN contents : f = Temporary => ~ opts.saveTemps
  PROVE  /\ Temporary \notin DOMAIN Removed(contents)
         /\ \A f \in DOMAIN contents \ {Temporary} :
              f \in DOMAIN Removed(contents) /\ Removed(contents)[f] = contents[f]
<1>1. CASE ~ opts.saveTemps
  BY <1>1 DEF Removed
<1>2. CASE opts.saveTemps
  BY <1>2 DEF Removed
<1> QED
  BY <1>1, <1>2

LEMMA BuildObjectStep ==
  ASSUME Inv, BuildObject
  PROVE  Inv'
<1>1. doing = "object" /\ UNCHANGED <<opts, wanting, target, diags, printed>>
  BY DEF BuildObject
<1>2. /\ ~ Exited /\ opts.inputPath # None /\ opts.dumps = {}
      /\ diags \in [errors : BOOLEAN, warnings : BOOLEAN] /\ ~ diags.errors
  BY <1>1, Underway DEF Before, Stages
<1>3. /\ opts.saveTemps => Temporary \notin DOMAIN files
      /\ opts.saveTemps => Stream(ObjectPath) # Temporary
  BY <1>1, <1>2, OtherNames DEF Inv, Kept
<1>4. CASE files' = Removed(files) /\ Fail(1)
  <2>1. Temporary \notin DOMAIN files'
    BY <1>1, <1>3, <1>4, NoTemporaryLeft
  <2> QED
    BY <1>1, <1>2, <1>4, <2>1, FailKeeps
<1>5. CASE files' = Removed(Holding(Stream(ObjectPath), "nothing")) /\ Fail(1)
  <2>1. DOMAIN Holding(Stream(ObjectPath), "nothing") = DOMAIN files \union {Stream(ObjectPath)}
    BY HoldingFacts
  <2>2. Temporary \notin DOMAIN files'
    BY <1>1, <1>3, <1>5, <2>1, NoTemporaryLeft
  <2> QED
    BY <1>1, <1>2, <1>5, <2>2, FailKeeps
<1>6. CASE files' = Holding(Stream(ObjectPath), "Object")
             /\ doing' = "link" /\ UNCHANGED <<said, status>>
  <2>1. /\ files'[Stream(ObjectPath)] = "Object"
        /\ DOMAIN files' = DOMAIN files \union {Stream(ObjectPath)}
    BY <1>6, HoldingFacts
  <2>2. StopsAtDump' /\ Route'
    BY <1>1, <1>2, <1>6 DEF Inv, StopsAtDump, Route, Before, Stages
  <2>3. Kept'
    BY <1>1, <1>3, <2>1 DEF Kept
  <2>4. opts.output # "MLIR"
    BY <1>1 DEF Inv, Route
  <2> QED
    BY <1>1, <1>2, <1>6, <2>1, <2>2, <2>3, <2>4, ProceedKeeps DEF Before, Stages, Writing
<1>7. CASE DiesWriting(ObjectPath, said)
  <2>1. Stream(ObjectPath) = Temporary \/ Temporary \notin DOMAIN files
    BY <1>3 DEF ObjectPath, Stream, Temporary
  <2> QED
    BY <1>1, <1>2, <1>7, <2>1, DiesKeeps DEF Before, Stages
<1> QED
  BY <1>4, <1>5, <1>6, <1>7 DEF BuildObject

LEMMA LinkStep ==
  ASSUME Inv, Link
  PROVE  Inv'
<1>1. doing = "link" /\ UNCHANGED <<opts, wanting, target, diags, printed>>
  BY DEF Link
<1>2. /\ ~ Exited /\ opts.inputPath # None /\ opts.dumps = {}
      /\ diags \in [errors : BOOLEAN, warnings : BOOLEAN] /\ ~ diags.errors
  BY <1>1, Underway DEF Before, Stages
<1>3. /\ opts.saveTemps => Temporary \notin DOMAIN files
      /\ Output # Temporary /\ opts.output = "Executable"
  BY <1>1, <1>2, OtherNames DEF Inv, Kept, Route
<1>4. CASE files' = Removed(files) /\ Fail(1)
  <2>1. Temporary \notin DOMAIN files'
    BY <1>1, <1>3, <1>4, NoTemporaryLeft
  <2> QED
    BY <1>1, <1>2, <1>4, <2>1, FailKeeps
<1>5. CASE files' = Removed(Holding(Output, "Executable")) /\ finish(diags)
  <2>1. /\ DOMAIN Holding(Output, "Executable") = DOMAIN files \union {Output}
        /\ Holding(Output, "Executable")[Output] = "Executable"
    BY HoldingFacts
  <2>2. /\ Temporary \notin DOMAIN files'
        /\ Output \in DOMAIN files' /\ files'[Output] = opts.output
    BY <1>1, <1>3, <1>5, <2>1, NoTemporaryLeft
  <2> QED
    BY <1>1, <1>2, <1>5, <2>2, FinishKeeps
<1> QED
  BY <1>4, <1>5 DEF Link

-----------------------------------------------------------------------------
LEMMA InvInit ==
  ASSUME Init
  PROVE  Inv
<1>1. Typed
  BY DriverAssumption DEF Init, DefaultOptions, Typed, Options, Stages
<1>2. TypeOK
  BY DriverAssumption DEF Init, DefaultOptions, TypeOK, Exited
<1>3. StopsAtDump /\ Quiet /\ Untouched /\ Route /\ Kept /\ DumpLeft
  BY DEF Init, DefaultOptions, StopsAtDump, Last, Quiet, Untouched, Route, Kept, DumpLeft,
         Exited, Before, Writing, Stages
<1>4. HonestStatus /\ TemporaryRemoved
  BY DriverAssumption DEF Init, HonestStatus, TemporaryRemoved, Exited
<1> QED
  BY <1>1, <1>2, <1>3, <1>4 DEF Inv

LEMMA InvStep ==
  ASSUME Inv, [Next]_vars
  PROVE  Inv'
<1>1. CASE ReadSwitch
  BY <1>1, ReadSwitchStep
<1>2. CASE ReadValued
  BY <1>2, ReadValuedStep
<1>3. CASE ReadValue
  BY <1>3, ReadValueStep
<1>4. CASE ReadInput
  BY <1>4, ReadInputStep
<1>5. CASE Help
  BY <1>5, HelpStep
<1>6. CASE Refuse
  BY <1>6, RefuseStep
<1>7. CASE EndArguments
  BY <1>7, EndArgumentsStep
<1>8. CASE Scan \/ Parse \/ Analyze
  BY <1>8, FrontStep DEF Scan, Parse, Analyze, Stages
<1>9. CASE CreateTarget \/ CheckCross \/ Generate \/ Lower
  BY <1>9, TargetSteps
<1>10. CASE WriteMLIR \/ WriteIR \/ WriteObject
  BY <1>10, WriteSteps
<1>11. CASE NameObject
  BY <1>11, NameObjectStep
<1>12. CASE BuildObject
  BY <1>12, BuildObjectStep
<1>13. CASE Link
  BY <1>13, LinkStep
<1>14. CASE UNCHANGED vars
  <2> USE <1>14 DEF vars
  <2>1. Typed' /\ TypeOK'
    BY DEF Inv, Typed, TypeOK, Exited
  <2>2. StopsAtDump' /\ Quiet' /\ Untouched' /\ Route' /\ Kept' /\ DumpLeft'
    BY DEF Inv, StopsAtDump, Quiet, Untouched, Route, Kept, DumpLeft, Exited
  <2>3. HonestStatus' /\ TemporaryRemoved'
    BY DEF Inv, HonestStatus, TemporaryRemoved, Exited, Output, Stream, ObjectPath
  <2> QED
    BY <2>1, <2>2, <2>3 DEF Inv
<1> QED
  BY <1>1, <1>2, <1>3, <1>4, <1>5, <1>6, <1>7, <1>8, <1>9, <1>10, <1>11, <1>12, <1>13, <1>14
     DEF Next

LEMMA InvAlways == Spec => []Inv
  BY InvInit, InvStep, PTL DEF Spec

-----------------------------------------------------------------------------
(* The driver is at one of its steps, exits exactly when it has a status,  *)
(* and takes the way of MLIR only when it was asked to.                    *)
THEOREM TypeCorrect == Spec => []TypeOK
<1>1. Inv => TypeOK
  BY DEF Inv
<1> QED
  BY <1>1, InvAlways, PTL

(* Earliest, which the property chooses, is what the flags compute.        *)
LEMMA EarliestIsLast ==
  ASSUME NEW dumps \in SUBSET Stages, dumps # {}
  PROVE  Earliest(dumps) = Last(dumps)
<1> DEFINE First(i) == Order[i] \in dumps /\ \A j \in 1..i - 1 : Order[j] \notin dumps
<1>1. Order[1] = "Scan" /\ Order[2] = "Parse" /\ Order[3] = "Analyze"
  BY DEF Order
<1>2. \E i \in 1..3 : First(i)
  <2>1. First(1) <=> "Scan" \in dumps
    <3>1. 1..(1 - 1) = {}
      OBVIOUS
    <3> QED
      BY <1>1, <3>1
  <2>2. First(2) <=> "Parse" \in dumps /\ "Scan" \notin dumps
    <3>1. 1..(2 - 1) = {1}
      OBVIOUS
    <3> QED
      BY <1>1, <3>1
  <2>3. First(3) <=> "Analyze" \in dumps /\ "Parse" \notin dumps /\ "Scan" \notin dumps
    <3>1. 1..(3 - 1) = {1, 2}
      OBVIOUS
    <3> QED
      BY <1>1, <3>1
  <2>4. First(1) \/ First(2) \/ First(3)
    BY <2>1, <2>2, <2>3 DEF Stages
  <2> HIDE DEF First
  <2> QED
    BY <2>4
<1>3. PICK i \in 1..3 : First(i) /\ Earliest(dumps) = Order[i]
  BY <1>2 DEF Earliest
<1>4. i = 1 \/ i = 2 \/ i = 3
  OBVIOUS
<1> QED
  BY <1>1, <1>3, <1>4 DEF Last

(* A dump flag stops the driver at the earliest dump asked for, which is   *)
(* printed if no earlier stage failed, and nothing is written.             *)
THEOREM DumpsCorrect == Spec => []DumpsStop
<1>1. ASSUME Inv PROVE DumpsStop
  <2>1. SUFFICES ASSUME opts.dumps # {}
                 PROVE  /\ opts.stopAfter = Earliest(opts.dumps)
                        /\ files = <<>> /\ target = None
                        /\ Exited /\ status # 2 /\ printed # <<"usage">> =>
                             \/ printed = <<Earliest(opts.dumps)>>
                             \/ printed = <<>> /\ diags.errors /\ status = 1
    BY DEF DumpsStop
  <2>2. opts.dumps \in SUBSET Stages
    BY <1>1 DEF Inv, Typed, Options
  <2>3. Earliest(opts.dumps) = Last(opts.dumps)
    BY <2>1, <2>2, EarliestIsLast
  <2> QED
    BY <1>1, <2>1, <2>3 DEF Inv, StopsAtDump, Untouched, DumpLeft
<1> QED
  BY <1>1, InvAlways, PTL

(* The exit status is zero only if no error was found, the warnings were   *)
(* printed and the output is there; any other status was explained.        *)
THEOREM StatusCorrect == Spec => []HonestStatus
<1>1. Inv => HonestStatus
  BY DEF Inv
<1> QED
  BY <1>1, InvAlways, PTL

(* The temporary object is gone whenever the driver itself exits: one is   *)
(* left only by LLVM's exit while it is being written, and it is whole     *)
(* when it is linked.                                                      *)
THEOREM TemporaryCorrect == Spec => []TemporaryRemoved
<1>1. Inv => TemporaryRemoved
  BY DEF Inv
<1> QED
  BY <1>1, InvAlways, PTL
=============================================================================
