---------------------------- MODULE LexicalRules ----------------------------
(***************************************************************************)
(* The lexical conventions of C- (docs/spec/c-minus.md, section 1) as a    *)
(* definition: a text is cut, from the left, into blanks, comments and the *)
(* longest lexemes.  The lexer (module Lexer) is compared with it.         *)
(*                                                                         *)
(* A text is a sequence of characters, each a string of length one; places *)
(* in it are counted from 1.                                               *)
(***************************************************************************)
EXTENDS Naturals, Sequences, FiniteSetsExt

CONSTANTS
  Letters,   \* letter, of section 1.3: what isLetter accepts
  Digits,    \* digit, each with its value: what isDigit accepts
  Blanks,    \* blanks, newlines and tabs, of section 1.4: what isSpace accepts
  MaxNumber  \* the greatest value of a token, which is a long long

Keywords ==
  { <<"e", "l", "s", "e">>, <<"i", "f">>, <<"i", "n", "t">>, <<"v", "o", "i", "d">>,
    <<"r", "e", "t", "u", "r", "n">>, <<"w", "h", "i", "l", "e">> }
Simple == {"+", "-", "*", "/", "<", ">", "=", ";", ",", "(", ")", "[", "]", "{", "}"}
Comparing == {"<", ">", "=", "!"}
Symbols == {<<c>> : c \in Simple} \union {<<c, "=">> : c \in Comparing}

(* A character is of one class at most.                                    *)
ASSUME CharacterAssumption ==
  /\ Letters \cap DOMAIN Digits = {}
  /\ Blanks \cap (Letters \union DOMAIN Digits) = {}
  /\ "\n" \in Blanks /\ "\r" \in Blanks
  /\ (Simple \union Comparing) \cap (Letters \union DOMAIN Digits \union Blanks) = {}
  /\ \A d \in DOMAIN Digits : Digits[d] \in 0..9
  /\ MaxNumber \in Nat

IsWord(s) == s # <<>> /\ s \in Seq(Letters)
IsNumber(s) == s # <<>> /\ s \in Seq(DOMAIN Digits)
IsLexeme(s) == IsWord(s) \/ IsNumber(s) \/ s \in Symbols

(* A keyword and a symbol are kinds of their own.                          *)
Kind(s) ==
  CASE IsNumber(s) -> <<"NUM">>
    [] IsWord(s) /\ s \notin Keywords -> <<"ID">>
    [] OTHER -> s

Value(s) ==
  LET value[n \in 0..Len(s)] == IF n = 0 THEN 0 ELSE 10 * value[n - 1] + Digits[s[n]]
  IN value[Len(s)]

-----------------------------------------------------------------------------
(* The longest lexeme at a place, empty if there is none.                  *)
Longest(text, at) ==
  LET lengths == {n \in 1..(Len(text) + 1 - at) : IsLexeme(SubSeq(text, at, at + n - 1))}
  IN IF lengths = {} THEN <<>> ELSE SubSeq(text, at, at + Max(lengths) - 1)

(* Where a comment that begins at a place may close: a pair behind it.     *)
Opens(text, at) == at < Len(text) /\ text[at] = "/" /\ text[at + 1] = "*"
Closings(text, at) ==
  {p \in (at + 2)..(Len(text) - 1) : text[p] = "*" /\ text[p + 1] = "/"}

Piece(kind, at, lexeme) == [kind |-> kind, at |-> at, lexeme |-> lexeme]

(* What the text begins with at a place.  An open comment takes the rest   *)
(* of the text, and a character that begins nothing is a piece of its own. *)
PieceAt(text, at) ==
  LET lexeme == Longest(text, at)
      closings == Closings(text, at)
  IN CASE at > Len(text) -> Piece(<<"EOF">>, at, <<>>)
       [] at <= Len(text) /\ text[at] \in Blanks -> Piece(<<"Blank">>, at, <<text[at]>>)
       [] Opens(text, at) /\ closings = {} ->
            Piece(<<"OpenComment">>, at, SubSeq(text, at, Len(text)))
       [] Opens(text, at) /\ closings # {} ->
            Piece(<<"Comment">>, at, SubSeq(text, at, Min(closings) + 1))
       [] OTHER ->
            IF lexeme = <<>> THEN Piece(<<"Error">>, at, <<text[at]>>)
            ELSE Piece(Kind(lexeme), at, lexeme)

(* The pieces of a text, from the left; of them, those at some places.     *)
PiecesAt(text, places) ==
  LET from[at \in 1..(Len(text) + 1)] ==
        LET piece == PieceAt(text, at)
        IN (IF at \in places THEN <<piece>> ELSE <<>>)
             \o (IF at > Len(text) THEN <<>> ELSE from[at + Len(piece.lexeme)])
  IN from[1]

(* The tokens of a text, and what is wrong in it: a character that begins  *)
(* nothing, a number beyond the greatest, a comment that is never closed.  *)
IsToken(piece) == piece.kind \notin {<<"Blank">>, <<"Comment">>, <<"OpenComment">>}
IsWrong(piece) ==
  \/ piece.kind \in {<<"Error">>, <<"OpenComment">>}
  \/ piece.kind = <<"NUM">> /\ Value(piece.lexeme) > MaxNumber

TokenPieces(text) ==
  PiecesAt(text, {at \in 1..(Len(text) + 1) : IsToken(PieceAt(text, at))})
WrongPieces(text) ==
  PiecesAt(text, {at \in 1..(Len(text) + 1) : IsWrong(PieceAt(text, at))})

(* Line and column of a place, both counted from 1.                        *)
Location(text, at) ==
  LET newlines == {p \in 1..(at - 1) : text[p] = "\n"}
  IN [line |-> 1 + Cardinality(newlines), column |-> at - Max({0} \union newlines)]
=============================================================================
