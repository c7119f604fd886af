------------------------------- MODULE Lexer --------------------------------
(***************************************************************************)
(* The scanner (src/Lexer.cpp): an automaton that reads the source         *)
(* character by character, counts lines and columns as it goes, and makes  *)
(* a token whenever it is sure of one.  An error is reported and the scan  *)
(* goes on.  tokenize() calls next() until the end of the file; one action *)
(* is one turn of next()'s loop, named for the state it is in.             *)
(*                                                                         *)
(* The kind of a keyword or of a symbol is its lexeme.                     *)
(***************************************************************************)
EXTENDS Diagnostic, LexicalRules

CONSTANT Texts  \* the sources under consideration

(* A character is of length one, so none is what peek gives for the end.   *)
ASSUME TextAssumption ==
  /\ Texts \subseteq Seq(STRING)
  /\ "\\0" \notin Letters \union DOMAIN Digits

VARIABLES
  source,          \* the text
  pos,             \* the place of the next character
  line, column,    \* its line and column, as the lexer counts them
  state,           \* of the automaton; "Stopped" when tokenize() has returned
  start,           \* where the token begins
  text,            \* the letters or digits of the token
  tokens,          \* what tokenize() has collected
  engine           \* the diagnostic engine

position == <<pos, line, column>>
vars == <<source, position, state, start, text, tokens, engine>>

atEnd == pos > Len(source)
peek == IF atEnd THEN "\\0" ELSE source[pos]
here == [line |-> line, column |-> column]

(* As it would be if the column went on counting behind a newline.         *)
advanceWithoutReset ==
  IF atEnd THEN UNCHANGED position
  ELSE /\ pos' = pos + 1
       /\ line' = IF peek = "\n" THEN line + 1 ELSE line
       /\ column' = column + 1

advance ==
  IF atEnd THEN UNCHANGED position
  ELSE /\ pos' = pos + 1
       /\ line' = IF peek = "\n" THEN line + 1 ELSE line
       /\ column' = IF peek = "\n" THEN 1 ELSE column + 1

make(kind, loc, lexeme, value) ==
  [kind |-> kind, loc |-> loc, lexeme |-> lexeme, value |-> value]

(* next() returns a token: tokenize() keeps it and asks for the next one   *)
(* unless it is the last.                                                  *)
return(token) ==
  /\ tokens' = Append(tokens, token)
  /\ state' = IF token.kind = <<"EOF">> THEN "Stopped" ELSE "Start"
  /\ UNCHANGED <<source, start, text>>

Return(kind, lexeme) == return(make(kind, start, lexeme, 0))
Goto(next) == state' = next /\ UNCHANGED <<source, start, text, tokens>>

Keep == UNCHANGED engine
Report(loc) == engine' = add(engine, "Error", loc)

-----------------------------------------------------------------------------
(* A new token: letters, digits, blanks, then the symbols.                 *)
Pending == [c \in {"/", "<", ">", "=", "!"} |->
  CASE c = "/" -> "AfterSlash" [] c = "<" -> "AfterLess" [] c = ">" -> "AfterGreater"
    [] c = "=" -> "AfterAssign" [] c = "!" -> "AfterBang"]
Singles == {"+", "-", "*", ";", ",", "(", ")", "[", "]", "{", "}"}

Begin(next) ==
  /\ state' = next
  /\ start' = here
  /\ text' = <<peek>>
  /\ UNCHANGED <<source, tokens>>

ScanEnd ==
  /\ state = "Start" /\ atEnd
  /\ return(make(<<"EOF">>, here, <<>>, 0))
  /\ Keep /\ UNCHANGED position

ScanWord == state = "Start" /\ ~atEnd /\ peek \in Letters
            /\ Begin("InIdentifier") /\ Keep /\ advance
ScanNumber == state = "Start" /\ ~atEnd /\ peek \in DOMAIN Digits
              /\ Begin("InNumber") /\ Keep /\ advance
ScanBlank == state = "Start" /\ ~atEnd /\ peek \in Blanks
             /\ Goto("Start") /\ Keep /\ advance

ScanPending ==
  /\ state = "Start" /\ ~atEnd /\ peek \in DOMAIN Pending
  /\ state' = Pending[peek]
  /\ start' = here
  /\ UNCHANGED <<source, text, tokens>>
  /\ Keep /\ advance

ScanSingle ==
  /\ state = "Start" /\ ~atEnd /\ peek \in Singles
  /\ return(make(<<peek>>, here, <<peek>>, 0))
  /\ Keep /\ advance

ScanInvalid ==
  /\ state = "Start" /\ ~atEnd
  /\ peek \notin Letters \union DOMAIN Digits \union Blanks \union DOMAIN Pending \union Singles
  /\ return(make(<<"Error">>, here, <<peek>>, 0))
  /\ Report(here) /\ advance

-----------------------------------------------------------------------------
keywordOrIdentifier(word) ==
  IF word \in { <<"e", "l", "s", "e">>, <<"i", "f">>, <<"i", "n", "t">>,
                <<"r", "e", "t", "u", "r", "n">>, <<"v", "o", "i", "d">>,
                <<"w", "h", "i", "l", "e">> }
  THEN word
  ELSE <<"ID">>

InIdentifier ==
  /\ state = "InIdentifier" /\ Keep
  /\ \/ /\ peek \in Letters
        /\ text' = Append(text, peek)
        /\ advance /\ UNCHANGED <<source, state, start, tokens>>
     \/ /\ peek \notin Letters
        /\ Return(keywordOrIdentifier(text), text)
        /\ UNCHANGED position

(* As it would be if std::from_chars' error were ignored by a conversion   *)
(* that does not stop at the greatest long long.                           *)
fromCharsUnchecked(numeral) == [ok |-> TRUE, value |-> Value(numeral)]

(* std::from_chars into Token::value, a long long; the value is zero when  *)
(* the numeral does not fit.  Whether it fits an int is not asked here.    *)
fromChars(numeral) ==
  LET value == Value(numeral)
  IN IF value > MaxNumber THEN [ok |-> FALSE, value |-> 0] ELSE [ok |-> TRUE, value |-> value]

InNumber ==
  /\ state = "InNumber"
  /\ \/ /\ peek \in DOMAIN Digits
        /\ text' = Append(text, peek)
        /\ Keep /\ advance /\ UNCHANGED <<source, state, start, tokens>>
     \/ /\ peek \notin DOMAIN Digits
        /\ return(make(<<"NUM">>, start, text, fromChars(text).value))
        /\ IF fromChars(text).ok THEN Keep ELSE Report(start)
        /\ UNCHANGED position

-----------------------------------------------------------------------------
AfterSlash ==
  /\ state = "AfterSlash" /\ Keep
  /\ \/ peek = "*" /\ Goto("InComment") /\ advance
     \/ peek # "*" /\ Return(<<"/">>, <<"/">>) /\ UNCHANGED position

(* The file ends inside a comment.                                         *)
OpenComment ==
  /\ return(make(<<"EOF">>, here, <<>>, 0))
  /\ Report(start) /\ UNCHANGED position

(* As it would be if a comment looked for its end without the end of file. *)
InCommentForever ==
  /\ state = "InComment" /\ Keep
  /\ Goto(IF peek = "*" THEN "InCommentStar" ELSE "InComment")
  /\ advance

InComment ==
  /\ state = "InComment"
  /\ \/ atEnd /\ OpenComment
     \/ /\ ~atEnd /\ Keep
        /\ Goto(IF peek = "*" THEN "InCommentStar" ELSE "InComment")
        /\ advance

(* As it would be if a second star were an ordinary character.             *)
InCommentStarOnce ==
  /\ state = "InCommentStar"
  /\ \/ atEnd /\ OpenComment
     \/ /\ ~atEnd /\ Keep
        /\ Goto(IF peek = "/" THEN "Start" ELSE "InComment")
        /\ advance

InCommentStar ==
  /\ state = "InCommentStar"
  /\ \/ atEnd /\ OpenComment
     \/ /\ ~atEnd /\ Keep
        /\ Goto(CASE peek = "/" -> "Start" [] peek = "*" -> "InCommentStar"
                  [] OTHER -> "InComment")
        /\ advance

-----------------------------------------------------------------------------
(* A symbol that may be followed by "=".                                   *)
Operator(symbol) ==
  \/ peek = "=" /\ Return(<<symbol, "=">>, <<symbol, "=">>) /\ Keep /\ advance
  \/ /\ peek # "=" /\ symbol # "!"
     /\ Return(<<symbol>>, <<symbol>>) /\ Keep /\ UNCHANGED position

AfterLess == state = "AfterLess" /\ Operator("<")
AfterGreater == state = "AfterGreater" /\ Operator(">")
AfterAssign == state = "AfterAssign" /\ Operator("=")

AfterBang ==
  /\ state = "AfterBang"
  /\ \/ Operator("!")
     \/ /\ peek # "="
        /\ Return(<<"Error">>, <<"!">>) /\ Report(start) /\ UNCHANGED position

-----------------------------------------------------------------------------
Init ==
  /\ source \in Texts
  /\ pos = 1 /\ line = 1 /\ column = 1
  /\ state = "Start" /\ start = here /\ text = <<>>
  /\ tokens = <<>> /\ engine = NewEngine

Next ==
  \/ ScanEnd \/ ScanWord \/ ScanNumber \/ ScanBlank \/ ScanPending \/ ScanSingle \/ ScanInvalid
  \/ InIdentifier \/ InNumber
  \/ AfterSlash \/ InComment \/ InCommentStar
  \/ AfterLess \/ AfterGreater \/ AfterAssign \/ AfterBang

Spec == Init /\ [][Next]_vars /\ WF_vars(Next)

-----------------------------------------------------------------------------
States == {"Start", "InIdentifier", "InNumber", "AfterSlash", "InComment", "InCommentStar",
           "AfterLess", "AfterGreater", "AfterAssign", "AfterBang", "Stopped"}

(* Every variable has its type; the value of a token is one that its long  *)
(* long can hold, however long the numeral (Lexer::next, InNumber).        *)
TypeOK ==
  /\ source \in Texts
  /\ pos \in 1..(Len(source) + 1)
  /\ line \in 1..(Len(source) + 1) /\ column \in 1..(Len(source) + 1)
  /\ state \in States
  /\ start.line \in 1..line /\ start.column \in 1..(Len(source) + 1)
  /\ text \in Seq(Letters) \union Seq(DOMAIN Digits)
  /\ \A i \in DOMAIN tokens : tokens[i].value \in 0..MaxNumber
  /\ engine.errorCount = Len(engine.diags) /\ engine.warningCount = 0

(* The token that a piece of the text stands for.                          *)
TokenOf(piece) ==
  make(piece.kind, Location(source, piece.at), piece.lexeme,
       IF piece.kind = <<"NUM">> /\ Value(piece.lexeme) <= MaxNumber
       THEN Value(piece.lexeme) ELSE 0)

(* The automaton, which never looks further than one character, cuts the   *)
(* text into the longest lexemes and the comments of the language, and     *)
(* each token says the line and the column of its first character          *)
(* (Lexer::next, Lexer::advance).                                          *)
TokensExact ==
  LET expected == TokenPieces(source)
  IN /\ Len(tokens) <= Len(expected)
     /\ \A i \in DOMAIN tokens : tokens[i] = TokenOf(expected[i])
     /\ state = "Stopped" => Len(tokens) = Len(expected)

(* One scan reports every error in the file, each once, in the order of    *)
(* the text and at its place: an open comment where it begins (Lexer.h,    *)
(* the class comment).                                                     *)
ErrorsExact ==
  state = "Stopped" =>
    LET wrong == WrongPieces(source)
    IN engine.diags = [i \in DOMAIN wrong |->
                         [level |-> "Error", loc |-> Location(source, wrong[i].at)]]

(* A caret printed for a token stands under its first character: the       *)
(* excerpt holds the lexeme there, and what is before the caret is as wide *)
(* as what is before the lexeme, tab for tab, although lexer and engine    *)
(* count lines apart (DiagnosticEngine::render, lineText).                 *)
CaretsExact ==
  state = "Stopped" =>
    \A i \in DOMAIN tokens :
      LET loc == tokens[i].loc
          shown == render(source, loc)
          before == loc.column - 1
          from == TokenPieces(source)[i].at
      IN IF shown = <<>> THEN tokens[i].kind = <<"EOF">> /\ before = 0
         ELSE /\ SubSeq(shown[1], loc.column, before + Len(tokens[i].lexeme)) = tokens[i].lexeme
              /\ Len(shown[2]) = before
              /\ \A n \in 1..before :
                   (source[from - n] = "\t") <=> (shown[2][before + 1 - n] = "\t")

(* tokenize() returns, whatever the text: no state waits for a character   *)
(* that does not come (Lexer::next, the ends inside comments).             *)
Finishes == <>(state = "Stopped")
=============================================================================
