------------------------------ MODULE MCLexer -------------------------------
(***************************************************************************)
(* The lexer on all short texts: up to three of one character of every     *)
(* class, up to six of what makes comments, and up to five of what makes   *)
(* numbers and lines.                                                      *)
(***************************************************************************)
EXTENDS Lexer
LOCAL INSTANCE SequencesExt

MCLetters == {"i", "f"}
MCDigits == [d \in {"0", "9"} |-> IF d = "9" THEN 9 ELSE 0]
MCBlanks == {" ", "\t", "\n", "\r"}

Characters == MCLetters \union DOMAIN MCDigits \union MCBlanks
                \union {"/", "*", "<", ">", "=", "!", ";", "#"}

MCTexts ==
  BoundedSeq(Characters, 3)
    \union BoundedSeq({"/", "*", "\n", "i"}, 6)
    \union BoundedSeq({"9", "0", "\n", "\t", "#"}, 5)
    \union {<<"w", "h", "i", "l", "e">>, <<"\n", "\t", "/", "*", "\r", "\n", "*", "*", "/", "!">>}
=============================================================================
