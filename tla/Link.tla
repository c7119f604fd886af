-------------------------------- MODULE Link --------------------------------
(***************************************************************************)
(* Linking (src/Link.cpp, and what main.cpp does around it): which C       *)
(* driver is run, with which words before its arguments, and with which    *)
(* runtime archive.  Module Driver has the same step as one action that    *)
(* succeeds or fails; here is what happens inside.                         *)
(*                                                                         *)
(* Words are sequences of characters.  A command line is given as its      *)
(* author meant it, in parts: blanks, bare characters, and stretches in    *)
(* quotes.  The programs on PATH and the files are the environment's.      *)
(***************************************************************************)
EXTENDS Naturals, SequencesExt

CONSTANTS
  Letters,     \* the characters that mean nothing to splitCommand
  Commands,    \* command lines for --cc
  CCs,         \* command lines that CMINUS_CC may hold
  Paths,       \* what may be found on PATH: sets of words
  None         \* nothing

Empty == <<>>   \* an option that was not given, an unset variable

Quotes == {"\"", "'"}
Separators == {" ", "\t", "\n", "\r"}
Char == Letters \union Quotes \union Separators

(* A part of a command line: how it is spelled, and the characters it      *)
(* means.                                                                  *)
Part ==
  {part \in [kind : {"blank", "bare", "quoted"}, text : Seq(Char), means : Seq(Char)] :
     \/ part.kind = "blank" /\ \E c \in Separators : part.text = <<c>>
     \/ part.kind = "bare" /\ \E c \in Letters : part.text = <<c>> /\ part.means = <<c>>
     \/ /\ part.kind = "quoted"
        /\ \E q \in Quotes : part.text = <<q>> \o part.means \o <<q>> /\ ~ Contains(part.means, q)}

(* What can go wrong.                                                      *)
Errors == {"nothing for the target", "no driver on PATH", "empty command", "no such driver",
           "no archive found", "no such archive", "could not run", "exit status"}

(* How the run of the C driver can end.                                    *)
Ends == {"not started", "failed", "succeeded"}

ASSUME LinkAssumption ==
  /\ Commands \subseteq Seq(Part) /\ CCs \subseteq Seq(Part)
  /\ Empty \in Commands /\ Empty \in CCs
  /\ Letters \intersect (Quotes \union Separators) = {}
  /\ None \notin Quotes \union Errors \union Ends

(* The text of the last n parts of a command line.                         *)
Spelled(command) ==
  LET text[n \in 0..Len(command)] ==
        IF n = 0 THEN <<>> ELSE command[Len(command) - n + 1].text \o text[n - 1]
  IN text

(* The words in its first n parts: what is not a blank begins a word, or   *)
(* goes on with one.                                                       *)
Further(command, n, words) ==
  IF command[n].kind = "blank" THEN words
  ELSE IF n = 1 \/ command[n - 1].kind = "blank" THEN Append(words, command[n].means)
  ELSE Append(Front(words), Last(words) \o command[n].means)

Meant(command) ==
  LET words[n \in 0..Len(command)] ==
        IF n = 0 THEN <<>> ELSE Further(command, n, words[n - 1])
  IN words

Text(command) == Spelled(command)[Len(command)]
Words(command) == Meant(command)[Len(command)]

VARIABLES
  options,     \* --cc, --runtime, --use-ld, and whether the target is not the host
  environment, \* CMINUS_CC, CMINUS_RUNTIME, PATH, and which archives are files
  doing,       \* what comes next
  runtimePath, \* LinkOptions::runtimePath
  namedByCaller,
  rest,        \* what splitCommand has still to read
  quote, inWord, current, \* its local variables
  driverWords, \* its result, or the default driver
  args,        \* the command that was run
  ended,       \* how it ended: "not started", "failed" or "succeeded"
  error        \* what went wrong

splitting == <<rest, quote, inWord, current>>
ran == <<args, ended>>
vars == <<options, environment, doing, runtimePath, namedByCaller, splitting, driverWords,
          ran, error>>

Archives == {"option", "variable", "beside", "lib"}
Lld == <<"l", "l", "d">>
cc == <<"c", "c">>
clang == <<"c", "l", "a", "n", "g">>
gcc == <<"g", "c", "c">>

Fail(what) == error' = what /\ doing' = "done"
Goto(next) == doing' = next /\ UNCHANGED error

-----------------------------------------------------------------------------
(* Before the link.                                                        *)

checkCrossLinkInputs ==
  /\ options.driver # Empty \/ environment.CC # Empty
  /\ options.runtime # None \/ environment.RUNTIME # None

CheckCross ==
  /\ doing = "cross"
  /\ IF options.crossing /\ ~checkCrossLinkInputs
     THEN Fail("nothing for the target") ELSE Goto("runtime")
  /\ UNCHANGED <<options, environment, runtimePath, namedByCaller, splitting, driverWords, ran>>

(* The variable is taken at its word; the other places must hold a file.   *)
findRuntime ==
  IF environment.RUNTIME # None THEN environment.RUNTIME
  ELSE IF "beside" \in environment.files THEN "beside"
  ELSE IF "lib" \in environment.files THEN "lib" ELSE None

FindRuntime ==
  /\ doing = "runtime"
  /\ runtimePath' = IF options.runtime = None THEN findRuntime ELSE options.runtime
  /\ Goto("driver")
  /\ UNCHANGED <<options, environment, namedByCaller, splitting, driverWords, ran>>

-----------------------------------------------------------------------------
(* linkExecutable chooses the driver: the option, the variable, or what    *)
(* there is.                                                               *)

Defaults == <<cc, clang, gcc>>

(* The first default driver that is there.                                 *)
Found(k) ==
  Defaults[k] \in environment.path /\ \A j \in 1..(k - 1) : Defaults[j] \notin environment.path

ChooseNamed ==
  /\ doing = "driver"
  /\ options.driver # Empty \/ environment.CC # Empty
  /\ namedByCaller' = TRUE
  /\ rest' = IF options.driver # Empty THEN Text(options.driver) ELSE Text(environment.CC)
  /\ Goto("split")
  /\ UNCHANGED <<options, environment, runtimePath, quote, inWord, current, driverWords, ran>>

ChooseDefault ==
  /\ doing = "driver"
  /\ options.driver = Empty /\ environment.CC = Empty
  /\ \/ \E k \in 1..Len(Defaults) :
          Found(k) /\ driverWords' = <<Defaults[k]>> /\ Goto("resolve")
     \/ /\ \A k \in 1..Len(Defaults) : ~ Found(k)
        /\ Fail("no driver on PATH") /\ UNCHANGED driverWords
  /\ UNCHANGED <<options, environment, runtimePath, namedByCaller, splitting, ran>>

-----------------------------------------------------------------------------
(* splitCommand, a character at a time.                                    *)

Reading ==
  /\ doing = "split"
  /\ rest # <<>>
  /\ rest' = Tail(rest)
  /\ UNCHANGED <<options, environment, doing, runtimePath, namedByCaller, ran, error>>

(* As it would be if either quote ended what the other began.              *)
QuotedByEither ==
  /\ Reading
  /\ quote # None
  /\ IF Head(rest) \in Quotes
     THEN quote' = None /\ UNCHANGED current
     ELSE current' = Append(current, Head(rest)) /\ UNCHANGED quote
  /\ UNCHANGED <<inWord, driverWords>>

Quoted ==
  /\ Reading
  /\ quote # None
  /\ IF Head(rest) = quote
     THEN quote' = None /\ UNCHANGED current
     ELSE current' = Append(current, Head(rest)) /\ UNCHANGED quote
  /\ UNCHANGED <<inWord, driverWords>>

(* As it would be if a quote had to be followed by something to begin a    *)
(* word.                                                                   *)
OpenQuoteOnly ==
  /\ Reading
  /\ quote = None /\ Head(rest) \in Quotes
  /\ quote' = Head(rest)
  /\ UNCHANGED <<inWord, current, driverWords>>

OpenQuote ==
  /\ Reading
  /\ quote = None /\ Head(rest) \in Quotes
  /\ quote' = Head(rest) /\ inWord' = TRUE
  /\ UNCHANGED <<current, driverWords>>

(* Separators in a row make no empty words.                                *)
Separator ==
  /\ Reading
  /\ quote = None /\ Head(rest) \in Separators
  /\ IF inWord
     THEN driverWords' = Append(driverWords, current) /\ current' = <<>> /\ inWord' = FALSE
     ELSE UNCHANGED <<driverWords, current, inWord>>
  /\ UNCHANGED quote

Character ==
  /\ Reading
  /\ quote = None /\ Head(rest) \notin Quotes \union Separators
  /\ current' = Append(current, Head(rest)) /\ inWord' = TRUE
  /\ UNCHANGED <<quote, driverWords>>

EndSplit ==
  /\ doing = "split"
  /\ rest = <<>>
  /\ driverWords' = IF inWord THEN Append(driverWords, current) ELSE driverWords
  /\ IF driverWords' = <<>> THEN Fail("empty command") ELSE Goto("resolve")
  /\ UNCHANGED <<options, environment, runtimePath, namedByCaller, splitting, ran>>

-----------------------------------------------------------------------------
(* The link itself.                                                        *)

(* llvm::sys::findProgramByName leaves a path alone.                       *)
findProgramByName(name) == Contains(name, "/") \/ name \in environment.path

Resolve ==
  /\ doing = "resolve"
  /\ IF findProgramByName(Head(driverWords)) THEN Goto("archive") ELSE Fail("no such driver")
  /\ UNCHANGED <<options, environment, runtimePath, namedByCaller, splitting, driverWords, ran>>

CheckArchive ==
  /\ doing = "archive"
  /\ CASE runtimePath = None -> Fail("no archive found")
       [] runtimePath # None /\ runtimePath \notin environment.files -> Fail("no such archive")
       [] OTHER -> Goto("run")
  /\ UNCHANGED <<options, environment, runtimePath, namedByCaller, splitting, driverWords, ran>>

(* As it would be if lld were preferred whoever named the driver.          *)
useLinkerFlagAlways ==
  CASE options.useLinker = <<>> -> <<>>
    [] options.useLinker \notin {None, <<>>} -> << <<"-fuse-ld=">> \o options.useLinker >>
    [] OTHER -> IF <<"l", "d", ".">> \o Lld \in environment.path
                THEN << <<"-fuse-ld=">> \o Lld >> ELSE <<>>

(* An empty --use-ld= keeps the driver's own linker.  lld is preferred     *)
(* only in a driver that was found, not in one that was named.             *)
useLinkerFlag ==
  CASE options.useLinker = <<>> -> <<>>
    [] options.useLinker \notin {None, <<>>} -> << <<"-fuse-ld=">> \o options.useLinker >>
    [] OTHER -> IF ~namedByCaller /\ <<"l", "d", ".">> \o Lld \in environment.path
                THEN << <<"-fuse-ld=">> \o Lld >> ELSE <<>>

Arguments == << <<"object">>, <<runtimePath>>, <<"-o">>, <<"output">> >>

(* As it would be with only a driver that could not be started noticed.    *)
OutcomeUnread(how) == IF how = "not started" THEN Fail("could not run") ELSE Goto("done")

Outcome(how) ==
  CASE how = "not started" -> Fail("could not run")
    [] how = "failed" -> Fail("exit status")
    [] how = "succeeded" -> Goto("done")

ExecuteAndWait ==
  /\ doing = "run"
  /\ args' = driverWords \o useLinkerFlag \o Arguments
  /\ ended' \in Ends
  /\ Outcome(ended')
  /\ UNCHANGED <<options, environment, runtimePath, namedByCaller, splitting, driverWords>>

-----------------------------------------------------------------------------
Init ==
  /\ options \in [driver : Commands, runtime : {None, "option"},
                  useLinker : {None, <<>>, <<"b", "f", "d">>}, crossing : BOOLEAN]
  /\ environment \in [CC : CCs, RUNTIME : {None, "variable"}, path : Paths,
                      files : SUBSET Archives]
  /\ doing = "cross"
  /\ runtimePath = None
  /\ namedByCaller = FALSE
  /\ rest = <<>> /\ quote = None /\ inWord = FALSE /\ current = <<>>
  /\ driverWords = <<>>
  /\ args = <<>> /\ ended = None /\ error = None

Next ==
  \/ CheckCross \/ FindRuntime
  \/ ChooseNamed \/ ChooseDefault
  \/ Quoted \/ OpenQuote \/ Separator \/ Character \/ EndSplit
  \/ Resolve \/ CheckArchive \/ ExecuteAndWait

Spec == Init /\ [][Next]_vars

-----------------------------------------------------------------------------
(* Every variable has its type; a word has begun when a quote is open or   *)
(* something of it was read.                                               *)
TypeOK ==
  /\ options.driver \in Commands /\ environment.CC \in CCs
  /\ doing \in {"cross", "runtime", "driver", "split", "resolve", "archive", "run", "done"}
  /\ runtimePath \in Archives \union {None}
  /\ namedByCaller \in BOOLEAN /\ inWord \in BOOLEAN
  /\ quote \in Quotes \union {None}
  /\ quote # None \/ current # <<>> => inWord
  /\ doing \in {"resolve", "archive", "run"} => driverWords # <<>>
  /\ ended \in Ends \union {None}
  /\ error \in Errors \union {None}
  /\ error # None => doing = "done"

(* What the caller said, the option before the variable.                   *)
Caller == IF options.driver # Empty THEN options.driver ELSE environment.CC
WasRun == args # <<>>

(* A command line means to splitCommand what its author had in mind: words *)
(* with blanks or quotes in them, empty words, and words quoted in part    *)
(* survive, and nothing is read twice or lost (Link.cpp, the comment of    *)
(* splitCommand).                                                          *)
WordsSurvive ==
  namedByCaller /\ doing \notin {"driver", "split"} => driverWords = Words(Caller)

(* A program for another machine is never linked with tools of the host:   *)
(* whatever is installed, the words run are those the caller gave for that *)
(* machine, with no linker slipped in that was not asked for, and the      *)
(* archive is one the caller named (main.cpp, checkCrossLinkInputs, and    *)
(* Link.cpp must agree on when something was named).                       *)
HostToolsStayHome ==
  options.crossing /\ WasRun =>
    /\ IsPrefix(Words(Caller), args)
    /\ Len(args) > Len(Words(Caller)) + Len(Arguments) => options.useLinker \notin {None, <<>>}
    /\ runtimePath \in {"option", "variable"}

(* The link is a success exactly when the driver was run and succeeded,    *)
(* and every failure on the way is explained (linkExecutable).  The driver *)
(* is run only when it and the archive are there, the object in front of   *)
(* the archive that resolves its calls.  What the caller names is          *)
(* preferred to what is found.                                             *)
RunsComplete ==
  /\ doing = "done" => (error = None <=> ended = "succeeded")
  /\ WasRun <=> ended # None
  /\ WasRun =>
       /\ doing = "done"
       /\ findProgramByName(Head(args))
       /\ runtimePath \in environment.files
       /\ IsSuffix(Arguments, args)
       /\ options.runtime # None => runtimePath = options.runtime
       /\ options.runtime = None /\ environment.RUNTIME # None => runtimePath = environment.RUNTIME
=============================================================================
