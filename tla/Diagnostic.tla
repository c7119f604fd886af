----------------------------- MODULE Diagnostic -----------------------------
(***************************************************************************)
(* The diagnostic engine (src/Diagnostic.cpp): it collects what the phases *)
(* report and prints each report with the line it is about and a caret     *)
(* under the place.  It finds lines in the text by itself, so a caret is   *)
(* right only if it counts lines and columns as the lexer does.            *)
(*                                                                         *)
(* A text is a sequence of characters, places are counted from 1.          *)
(***************************************************************************)
EXTENDS Naturals, Sequences

Levels == {"Error", "Warning", "Note"}

(* An engine that has collected nothing.                                   *)
NewEngine == [diags |-> <<>>, errorCount |-> 0, warningCount |-> 0]

add(engine, level, loc) ==
  [diags |-> Append(engine.diags, [level |-> level, loc |-> loc]),
   errorCount |-> engine.errorCount + IF level = "Error" THEN 1 ELSE 0,
   warningCount |-> engine.warningCount + IF level = "Warning" THEN 1 ELSE 0]

-----------------------------------------------------------------------------
(* As it would be if a line began at the newline before it.                *)
lineStartsAtNewlines(source) ==
  LET starts[i \in 0..Len(source)] ==
        IF i = 0 THEN <<1>>
        ELSE IF source[i] = "\n" THEN Append(starts[i - 1], i) ELSE starts[i - 1]
  IN starts[Len(source)]

(* The places where the lines begin, in order.                             *)
lineStarts(source) ==
  LET starts[i \in 0..Len(source)] ==
        IF i = 0 THEN <<1>>
        ELSE IF source[i] = "\n" THEN Append(starts[i - 1], i + 1) ELSE starts[i - 1]
  IN starts[Len(source)]

(* A line without its newline and without a carriage return before it.     *)
lineText(source, line) ==
  LET begin == lineStarts(source)[line]
      end == CHOOSE p \in begin..(Len(source) + 1) :
               /\ p <= Len(source) => source[p] = "\n"
               /\ \A q \in begin..(p - 1) : source[q] # "\n"
      cut == IF end > begin /\ source[end - 1] = "\r" THEN end - 1 ELSE end
  IN IF line > Len(lineStarts(source)) THEN <<>> ELSE SubSeq(source, begin, cut - 1)

(* What stands before the caret: the tabs of the line, and blanks.         *)
padding(text, column) ==
  [i \in 1..(column - 1) |-> IF i <= Len(text) /\ text[i] = "\t" THEN "\t" ELSE " "]

(* The excerpt and the padding of the caret; nothing for the first column  *)
(* of an empty line.                                                       *)
render(source, loc) ==
  LET text == lineText(source, loc.line)
  IN IF text = <<>> /\ loc.column <= 1 THEN <<>>
     ELSE <<text, padding(text, loc.column)>>
=============================================================================
