------------------------------- MODULE Driver -------------------------------
(***************************************************************************)
(* The compiler driver (src/main.cpp) with the parts of src/Emit.cpp and   *)
(* src/Link.cpp it calls: it reads the command line, runs the stages, and  *)
(* leaves one output and an exit status.                                   *)
(*                                                                         *)
(* What a stage finds in the source, and whether a file can be opened or a *)
(* program run, is up to the environment.  The command line comes one word *)
(* at a time; options that only change what a stage does are left out.     *)
(***************************************************************************)
EXTENDS Naturals, Sequences

CONSTANTS
  Values,    \* the words that are not options: file names and commands
  Object(_), \* the name of an input with its extension replaced by .o
  MaxWords,  \* bound on the words of the command line
  None       \* nothing: an empty string, no exit status yet

VARIABLES
  opts,      \* Options
  words,     \* the words of the command line read so far
  wanting,   \* the option whose argument is next, or None
  doing,     \* what the driver does next
  target,    \* Target: its triple
  diags,     \* the diagnostics collected: [errors, warnings]
  printed,   \* what the driver printed on standard output: usage, dumps of stages
  said,      \* what went to standard error: "error", "errors", "warnings", and
             \* "fatal", LLVM's own last words
  files,     \* what the files written so far hold; "stdout" is one of them
  status,    \* exit status
  environment \* CMINUS_CC and CMINUS_RUNTIME are set; the default triple of the
              \* LLVM in use (external) is in normal form

vars ==
  <<opts, words, wanting, doing, target, diags, printed, said, files, status, environment>>


Switches == {"--help", "--dump-tokens", "--dump-ast", "--dump-symbols", "--emit-llvm", "-c",
             "--use-mlir", "--emit-mlir", "-save-temps", "unknown"}
Valued == {"-o", "--cc", "--runtime", "--target"}
Word == Switches \union Valued \union Values

ASSUME DriverAssumption ==
  /\ MaxWords \in Nat
  /\ None \notin Word /\ None \notin {0, 1, 2}
  /\ \A v \in Values : Object(v) \notin Switches \union Valued

DefaultOptions ==
  [inputPath |-> None, outputPath |-> None, targetTriple |-> None, driver |-> None,
   runtimePath |-> None, stopAfter |-> "Emit", output |-> "Executable",
   dumps |-> {}, useMLIR |-> FALSE, saveTemps |-> FALSE]

-----------------------------------------------------------------------------
(* Target triples: a machine, and whether the name is in normal form.      *)
Triple(machine, normal) == [machine |-> machine, normal |-> normal]
normalize(triple) == [triple EXCEPT !.normal = TRUE]

getDefaultTargetTriple == Triple("host", environment.normal)
hostTriple == normalize(getDefaultTargetTriple)
TripleOf(value) == Triple(IF value = "other" THEN "other" ELSE "host", FALSE)

-----------------------------------------------------------------------------
(* Ways to end.  Early exits say what is wrong; finish also prints the     *)
(* diagnostics collected so far.                                           *)

(* As it would be if the driver went on behind an error.                   *)
ExitLater(code) == status' = code /\ UNCHANGED doing

Exit(code) == status' = code /\ doing' = "exit"
Fail(code) == said' = said \union {"error"} /\ Exit(code)

SaidWith(found) ==
  said \union (IF found.errors THEN {"errors"} ELSE {})
       \union (IF found.warnings THEN {"warnings"} ELSE {})

(* As it would be with success reported whatever was found.                *)
finishWell(found) == said' = SaidWith(found) /\ Exit(0)

finish(found) == said' = SaidWith(found) /\ Exit(IF found.errors THEN 1 ELSE 0)

-----------------------------------------------------------------------------
(* The command line.                                                       *)

DumpOf(word) ==
  CASE word = "--dump-tokens" -> "Scan"
    [] word = "--dump-ast" -> "Parse"
    [] word = "--dump-symbols" -> "Analyze"

(* As it would be if the last flag decided.                                *)
StopAfterLast(word) == DumpOf(word)

(* Each dump flag lowers the last stage, whatever the order of the flags.  *)
StopAfterDump(word) ==
  CASE word = "--dump-tokens" -> "Scan"
    [] word = "--dump-ast" -> IF opts.stopAfter # "Scan" THEN "Parse" ELSE "Scan"
    [] word = "--dump-symbols" -> IF opts.stopAfter = "Emit" THEN "Analyze" ELSE opts.stopAfter

WithSwitch(word) ==
  CASE word \in {"--dump-tokens", "--dump-ast", "--dump-symbols"} ->
         [opts EXCEPT !.dumps = @ \union {DumpOf(word)}, !.stopAfter = StopAfterDump(word)]
    [] word = "--emit-llvm" -> [opts EXCEPT !.output = "LLVMIR"]
    [] word = "-c" -> [opts EXCEPT !.output = "Object"]
    [] word = "--use-mlir" -> [opts EXCEPT !.useMLIR = TRUE]
    [] word = "--emit-mlir" -> [opts EXCEPT !.useMLIR = TRUE, !.output = "MLIR"]
    [] word = "-save-temps" -> [opts EXCEPT !.saveTemps = TRUE]

(* The argument of an option is the next word, whatever it looks like.     *)
WithValue(option, word) ==
  CASE option = "-o" -> [opts EXCEPT !.outputPath = word]
    [] option = "--cc" -> [opts EXCEPT !.driver = word]
    [] option = "--runtime" -> [opts EXCEPT !.runtimePath = word]
    [] option = "--target" -> [opts EXCEPT !.targetTriple = word]

Reading(word) ==
  /\ doing = "arguments"
  /\ words < MaxWords
  /\ words' = words + 1
  /\ UNCHANGED <<environment, target, diags, files>>

ReadSwitch ==
  \E word \in Switches \ {"--help", "unknown"} :
    /\ Reading(word)
    /\ wanting = None
    /\ opts' = WithSwitch(word)
    /\ UNCHANGED <<wanting, doing, printed, said, status>>

ReadValued ==
  \E word \in Valued :
    /\ Reading(word)
    /\ wanting = None
    /\ wanting' = word
    /\ UNCHANGED <<opts, doing, printed, said, status>>

ReadValue ==
  \E word \in Word :
    /\ Reading(word)
    /\ wanting # None
    /\ opts' = WithValue(wanting, word)
    /\ wanting' = None
    /\ UNCHANGED <<doing, printed, said, status>>

ReadInput ==
  \E word \in Values :
    /\ Reading(word)
    /\ wanting = None
    /\ opts.inputPath = None
    /\ opts' = [opts EXCEPT !.inputPath = word]
    /\ UNCHANGED <<wanting, doing, printed, said, status>>

Help ==
  /\ Reading("--help")
  /\ wanting = None
  /\ printed' = <<"usage">>
  /\ Exit(0)
  /\ UNCHANGED <<opts, wanting, said>>

(* An unknown option, or a second input.                                   *)
Refuse ==
  \E word \in {"unknown"} \union Values :
    /\ Reading(word)
    /\ wanting = None
    /\ word \in Values => opts.inputPath # None
    /\ Fail(2)
    /\ UNCHANGED <<opts, wanting, printed>>

(* The end of the line, with an argument missing or no input, or an input  *)
(* that cannot be opened.                                                  *)
EndArguments ==
  /\ doing = "arguments"
  /\ IF wanting # None \/ opts.inputPath = None
     THEN Fail(2)
     ELSE \/ Fail(2)
          \/ doing' = "Scan" /\ UNCHANGED <<said, status>>
  /\ UNCHANGED <<environment, opts, words, wanting, target, diags, printed, files>>

-----------------------------------------------------------------------------
(* The stages up to analysis.  A stage that printed its dump stops there   *)
(* only if it is the last one; an error stops after any.                   *)

After(stage) ==
  CASE stage = "Scan" -> "Parse" [] stage = "Parse" -> "Analyze" [] stage = "Analyze" -> "target"

FrontStage(stage) ==
  /\ doing = stage
  /\ printed' = IF stage \in opts.dumps THEN Append(printed, stage) ELSE printed
  /\ \E found \in [errors : BOOLEAN, warnings : BOOLEAN] :
       /\ found.warnings => stage = "Analyze"
       /\ diags' = found
       /\ IF opts.stopAfter = stage \/ found.errors
          THEN finish(found)
          ELSE doing' = After(stage) /\ UNCHANGED <<said, status>>
  /\ UNCHANGED <<environment, opts, words, wanting, target, files>>

Scan == FrontStage("Scan")
Parse == FrontStage("Parse")
Analyze == FrontStage("Analyze")

-----------------------------------------------------------------------------
(* Target, generation.                                                     *)

CreateTarget ==
  /\ doing = "target"
  /\ \/ Fail(1) /\ UNCHANGED target
     \/ /\ target' = IF opts.targetTriple = None
                     THEN getDefaultTargetTriple
                     ELSE normalize(TripleOf(opts.targetTriple))
        /\ doing' = "cross"
        /\ UNCHANGED <<said, status>>
  /\ UNCHANGED <<environment, opts, words, wanting, diags, printed, files>>

crossing == target # hostTriple

checkCrossLinkInputs ==
  /\ opts.driver # None \/ environment.cc
  /\ opts.runtimePath # None \/ environment.runtime

CheckCross ==
  /\ doing = "cross"
  /\ IF opts.output = "Executable" /\ crossing /\ ~checkCrossLinkInputs
     THEN Fail(1)
     ELSE doing' = "generate" /\ UNCHANGED <<said, status>>
  /\ UNCHANGED <<environment, opts, words, wanting, target, diags, printed, files>>

(* A generator that fails its verifier reports an error.                   *)
Generate ==
  /\ doing = "generate"
  /\ \/ /\ diags' = [diags EXCEPT !.errors = TRUE]
        /\ finish(diags')
     \/ /\ doing' = IF ~opts.useMLIR THEN "write"
                    ELSE IF opts.output = "MLIR" THEN "mlir" ELSE "lower"
        /\ UNCHANGED <<diags, said, status>>
  /\ UNCHANGED <<environment, opts, words, wanting, target, printed, files>>

Lower ==
  /\ doing = "lower"
  /\ \/ Fail(1)
     \/ doing' = "write" /\ UNCHANGED <<said, status>>
  /\ UNCHANGED <<environment, opts, words, wanting, target, diags, printed, files>>

-----------------------------------------------------------------------------
(* Output.                                                                 *)

Output ==
  CASE opts.outputPath # None -> opts.outputPath
    [] opts.outputPath = None /\ opts.output = "Executable" -> "a.out"
    [] opts.outputPath = None /\ opts.output = "Object" -> Object(opts.inputPath)
    [] OTHER -> "-"

(* Opening a raw_fd_ostream on "-" gives standard output.                  *)
Stream(path) == IF path = "-" THEN "stdout" ELSE path

Holding(path, what) == [f \in DOMAIN files \union {path} |-> IF f = path THEN what ELSE files[f]]

Write(what) ==
  \/ Fail(1) /\ UNCHANGED files
  \/ files' = Holding(Stream(Output), what) /\ finish(diags)

(* What was written did not all get through (a full disk).  Nobody asks    *)
(* the stream, so its destructor, ~raw_fd_ostream, ends the process there  *)
(* and then by report_fatal_error, and the caller never returns.           *)
DiesWriting(path, spoken) ==
  /\ files' = Holding(Stream(path), "partial")
  /\ said' = spoken \union {"fatal"}
  /\ Exit(1)

(* The stream is destroyed behind finish.                                  *)
WriteMLIR ==
  /\ doing = "mlir"
  /\ Write("MLIR") \/ DiesWriting(Output, SaidWith(diags))
  /\ UNCHANGED <<environment, opts, words, wanting, target, diags, printed>>

(* writeIR has a stream of its own for a file; llvm::outs() lasts as long  *)
(* as the process.                                                         *)
WriteIR ==
  /\ doing = "write"
  /\ opts.output = "LLVMIR"
  /\ Write("LLVMIR") \/ DiesWriting(Output, IF Output = "-" THEN SaidWith(diags) ELSE said)
  /\ UNCHANGED <<environment, opts, words, wanting, target, diags, printed>>

(* A back end without object emission has already created the file.        *)
WriteObject ==
  /\ doing = "write"
  /\ opts.output = "Object"
  /\ \/ Write("Object")
     \/ files' = Holding(Stream(Output), "nothing") /\ Fail(1)
     \/ DiesWriting(Output, said)
  /\ UNCHANGED <<environment, opts, words, wanting, target, diags, printed>>

(* createTemporaryFile makes a new file: no file of the command line has   *)
(* its name.                                                               *)
Temporary == "/tmp/cmc.o"

ASSUME TemporaryAssumption ==
  \A v \in Values : v # Temporary /\ Object(v) # Temporary

ObjectPath == IF opts.saveTemps THEN Object(opts.inputPath) ELSE Temporary

(* As it would be if the removal were forgotten.                           *)
NotRemoved(contents) == contents

(* buildExecutable.  A temporary file exists from when it is named, and is *)
(* removed when writeObjectFile returns false and when the link is over,   *)
(* whatever came of it; not when writeObjectFile does not return.          *)
Removed(contents) ==
  IF opts.saveTemps THEN contents ELSE [f \in DOMAIN contents \ {Temporary} |-> contents[f]]

NameObject ==
  /\ doing = "write"
  /\ opts.output = "Executable"
  /\ \/ doing' = "object" /\ UNCHANGED <<said, status>>
        /\ files' = IF opts.saveTemps THEN files ELSE Holding(Temporary, "nothing")
     \/ ~opts.saveTemps /\ Fail(1) /\ UNCHANGED files
  /\ UNCHANGED <<environment, opts, words, wanting, target, diags, printed>>

BuildObject ==
  /\ doing = "object"
  /\ \/ files' = Removed(files) /\ Fail(1)
     \/ files' = Removed(Holding(Stream(ObjectPath), "nothing")) /\ Fail(1)
     \/ DiesWriting(ObjectPath, said)
     \/ files' = Holding(Stream(ObjectPath), "Object")
        /\ doing' = "link" /\ UNCHANGED <<said, status>>
  /\ UNCHANGED <<environment, opts, words, wanting, target, diags, printed>>

(* The C driver gets the output path as it is.                             *)
Link ==
  /\ doing = "link"
  /\ \/ files' = Removed(files) /\ Fail(1)
     \/ files' = Removed(Holding(Output, "Executable")) /\ finish(diags)
  /\ UNCHANGED <<environment, opts, words, wanting, target, diags, printed>>

-----------------------------------------------------------------------------
Init ==
  /\ opts = DefaultOptions
  /\ words = 0
  /\ wanting = None
  /\ doing = "arguments"
  /\ target = None
  /\ diags = [errors |-> FALSE, warnings |-> FALSE]
  /\ printed = <<>>
  /\ said = {}
  /\ files = <<>>
  /\ status = None
  /\ environment \in [cc : BOOLEAN, runtime : BOOLEAN, normal : BOOLEAN]

Next ==
  \/ ReadSwitch \/ ReadValued \/ ReadValue \/ ReadInput \/ Help \/ Refuse \/ EndArguments
  \/ Scan \/ Parse \/ Analyze
  \/ CreateTarget \/ CheckCross \/ Generate \/ Lower
  \/ WriteMLIR \/ WriteIR \/ WriteObject
  \/ NameObject \/ BuildObject \/ Link

Spec == Init /\ [][Next]_vars

-----------------------------------------------------------------------------
Exited == status # None

TypeOK ==
  /\ doing \in {"arguments", "Scan", "Parse", "Analyze", "target", "cross", "generate",
                "mlir", "lower", "write", "object", "link", "exit"}
  /\ doing = "exit" <=> Exited
  /\ status \in {None, 0, 1, 2}
  /\ said \subseteq {"error", "errors", "warnings", "fatal"}
  /\ doing \in {"mlir", "lower"} => opts.useMLIR
  /\ opts.output = "MLIR" => opts.useMLIR /\ doing \notin {"lower", "write", "object", "link"}

(* The stage that --dump-* flags stop after is the earliest of those they  *)
(* name, in whatever order they were given.  A run with such a flag prints *)
(* that dump, even of a source the stage finds wrong, unless an earlier    *)
(* stage failed; it writes no file and does not look at the target.        *)
Order == <<"Scan", "Parse", "Analyze">>
Earliest(stages) ==
  Order[CHOOSE i \in 1..3 : Order[i] \in stages /\ \A j \in 1..i - 1 : Order[j] \notin stages]

DumpsStop ==
  opts.dumps # {} =>
    /\ opts.stopAfter = Earliest(opts.dumps)
    /\ files = <<>> /\ target = None
    /\ Exited /\ status # 2 /\ printed # <<"usage">> =>
         \/ printed = <<Earliest(opts.dumps)>>
         \/ printed = <<>> /\ diags.errors /\ status = 1

(* The exit status tells the truth.  Zero: no error was found, all warnings*)
(* were printed, and what was asked for is there, of the kind asked for    *)
(* last, in the file asked for last.  Otherwise something was said, and a  *)
(* wrong command line leaves nothing behind.                               *)
HonestStatus ==
  /\ status = 0 =>
       /\ ~diags.errors /\ said \subseteq {"warnings"}
       /\ diags.warnings => "warnings" \in said
       /\ \/ printed # <<>>
          \/ \E f \in {Output, Stream(Output)} \intersect DOMAIN files : files[f] = opts.output
  /\ status \in {1, 2} => said \intersect {"error", "errors", "fatal"} # {}
  /\ status = 2 => files = <<>>

(* The temporary object file is gone whenever the driver itself exits; all *)
(* that leaves one behind is LLVM ending the process in the middle of      *)
(* writing it (buildExecutable, writeObjectFile).  A part of an object is  *)
(* never linked.                                                           *)
TemporaryRemoved ==
  /\ Exited /\ Temporary \in DOMAIN files => "fatal" \in said /\ files[Temporary] = "partial"
  /\ doing = "link" => files[Stream(ObjectPath)] = "Object"

(* "'-' means standard output" (usage of -o, src/main.cpp:93).             *)
DashIsStandardOutput ==
  status = 0 /\ opts.outputPath = "-" => "-" \notin DOMAIN files

(* Target::triple() is "the normalized triple" (include/cminus/Emit.h:45). *)
TripleNormalized == target # None => target.normal
=============================================================================
