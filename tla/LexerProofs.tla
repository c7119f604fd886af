----------------------------- MODULE LexerProofs -----------------------------
(***************************************************************************)
(* What holds of the lexer for every text: the automaton, which never sees *)
(* more than the next character, cuts the text as the definition of the    *)
(* language does, at the places it says, and reports what is wrong in it.  *)
(***************************************************************************)
EXTENDS Lexer, StackLemmas, FiniteSetTheorems

-----------------------------------------------------------------------------
(* Characters and lexemes.                                                 *)

SymbolCharacters == Simple \union Comparing

LEMMA Classes ==
  /\ \A c \in Letters : c \notin DOMAIN Digits \union Blanks \union SymbolCharacters
  /\ \A c \in DOMAIN Digits : c \notin Letters \union Blanks \union SymbolCharacters
  /\ \A c \in Blanks : c \notin Letters \union DOMAIN Digits \union SymbolCharacters
  /\ \A c \in SymbolCharacters : c \notin Letters \union DOMAIN Digits \union Blanks
  BY CharacterAssumption DEF SymbolCharacters

LEMMA SymbolForms ==
  ASSUME NEW s \in Symbols
  PROVE  \/ Len(s) = 1 /\ s = <<s[1]>> /\ s[1] \in Simple
         \/ Len(s) = 2 /\ s = <<s[1], "=">> /\ s[1] \in Comparing /\ s[2] = "="
<1>1. CASE s \in {<<c>> : c \in Simple}
  <2>1. PICK c \in Simple : s = <<c>>
    BY <1>1
  <2>2. Len(s) = 1 /\ s[1] = c
    BY <2>1
  <2> QED
    BY <2>1, <2>2
<1>2. CASE s \in {<<c, "=">> : c \in Comparing}
  <2>1. PICK c \in Comparing : s = <<c, "=">>
    BY <1>2
  <2>2. Len(s) = 2 /\ s[1] = c /\ s[2] = "="
    BY <2>1
  <2> QED
    BY <2>1, <2>2
<1> QED
  BY <1>1, <1>2 DEF Symbols

(* The first character of a lexeme says what the rest must be.             *)
LEMMA LexemeForms ==
  ASSUME NEW s, IsLexeme(s)
  PROVE  \/ s[1] \in Letters /\ IsWord(s)
         \/ s[1] \in DOMAIN Digits /\ IsNumber(s)
         \/ s[1] \in SymbolCharacters /\ s \in Symbols
<1>1. CASE IsWord(s)
  <2>1. s \in Seq(Letters) /\ s # <<>>
    BY <1>1 DEF IsWord
  <2>2. s[1] \in Letters
    BY <2>1, EmptySeq
  <2> QED
    BY <1>1, <2>2
<1>2. CASE IsNumber(s)
  <2>1. s \in Seq(DOMAIN Digits) /\ s # <<>>
    BY <1>2 DEF IsNumber
  <2>2. s[1] \in DOMAIN Digits
    BY <2>1, EmptySeq
  <2> QED
    BY <1>2, <2>2
<1>3. CASE s \in Symbols
  BY <1>3, SymbolForms DEF SymbolCharacters
<1> QED
  BY <1>1, <1>2, <1>3 DEF IsLexeme

-----------------------------------------------------------------------------
(* Parts of a text.                                                        *)

LEMMA PartFacts ==
  ASSUME NEW t \in Seq(STRING), NEW a \in 1..Len(t), NEW e \in a..Len(t)
  PROVE  LET s == SubSeq(t, a, e)
         IN /\ s \in Seq(STRING) /\ Len(s) = e - a + 1 /\ s # <<>> /\ s[1] = t[a]
            /\ \A i \in a..e : i - a + 1 \in 1..Len(s) /\ s[i - a + 1] = t[i]
            /\ \A i \in 1..Len(s) : a + i - 1 \in a..e /\ s[i] = t[a + i - 1]
<1> DEFINE s == SubSeq(t, a, e)
<1>1. Len(t) \in Nat /\ a \in Nat /\ e \in Nat /\ a <= e /\ 1 <= a /\ e <= Len(t)
  BY LenProperties
<1>2. \A i \in a..e : t[i] \in STRING
  BY <1>1, ElementOfSeq
<1>3. /\ s \in Seq(STRING)
      /\ Len(s) = IF a <= e THEN e - a + 1 ELSE 0
      /\ \A i \in 1..(e - a + 1) : s[i] = t[a + i - 1]
  <2>1. a \in Int /\ e \in Int
    BY <1>1
  <2> QED
    BY <1>2, <2>1, SubSeqProperties
<1> HIDE DEF s
<1>4. Len(s) = e - a + 1
  BY <1>1, <1>3
<1>5. s # <<>> /\ s[1] = t[a]
  <2>1. 1 \in 1..(e - a + 1) /\ a + 1 - 1 = a
    BY <1>1
  <2>2. s # <<>>
    BY <1>1, <1>4, EmptySeq
  <2> QED
    BY <1>3, <2>1, <2>2
<1>6. \A i \in a..e : i - a + 1 \in 1..Len(s) /\ s[i - a + 1] = t[i]
  <2> SUFFICES ASSUME NEW i \in a..e PROVE i - a + 1 \in 1..Len(s) /\ s[i - a + 1] = t[i]
    OBVIOUS
  <2>1. PICK j : j = i - a + 1
    OBVIOUS
  <2>2. j \in 1..(e - a + 1) /\ a + j - 1 = i
    BY <1>1, <2>1
  <2> QED
    BY <1>3, <1>4, <2>1, <2>2
<1>7. \A i \in 1..Len(s) : a + i - 1 \in a..e /\ s[i] = t[a + i - 1]
  BY <1>1, <1>3, <1>4
<1> QED
  BY <1>3, <1>4, <1>5, <1>6, <1>7 DEF s

(* A part all of whose characters are of one class.                        *)
LEMMA PartOfClass ==
  ASSUME NEW t \in Seq(STRING), NEW a \in 1..Len(t), NEW e \in a..Len(t), NEW C
  PROVE  SubSeq(t, a, e) \in Seq(C) <=> \A i \in a..e : t[i] \in C
<1>1. CASE \A i \in a..e : t[i] \in C
  BY <1>1, SubSeqProperties
<1>2. ASSUME SubSeq(t, a, e) \in Seq(C), NEW i \in a..e
      PROVE  t[i] \in C
  <2>1. PICK s, j : s = SubSeq(t, a, e) /\ j = i - a + 1
    OBVIOUS
  <2>2. j \in 1..Len(s) /\ s[j] = t[i]
    BY <2>1, PartFacts
  <2> QED
    BY <1>2, <2>1, <2>2, ElementOfSeq
<1> QED
  BY <1>1, <1>2

-----------------------------------------------------------------------------
(* The longest lexeme.                                                     *)

LEMMA MaxIs ==
  ASSUME NEW S, NEW n \in S, S \subseteq Nat, \A m \in S : m <= n
  PROVE  Max(S) = n
<1>1. n \in S /\ \A m \in S : n >= m
  OBVIOUS
<1>2. PICK x : x = Max(S)
  OBVIOUS
<1>3. x \in S /\ \A m \in S : x >= m
  BY <1>1, <1>2 DEF Max
<1>4. x \in Nat /\ n \in Nat /\ x >= n /\ x <= n
  BY <1>3
<1>5. x = n
  BY ONLY <1>4
<1> QED
  BY <1>2, <1>5

LEMMA MinIs ==
  ASSUME NEW S, NEW n \in S, S \subseteq Nat, \A m \in S : n <= m
  PROVE  Min(S) = n
<1>1. n \in S /\ \A m \in S : n =< m
  OBVIOUS
<1>2. PICK x : x = Min(S)
  OBVIOUS
<1>3. x \in S /\ \A m \in S : x =< m
  BY <1>1, <1>2 DEF Min
<1>4. x \in Nat /\ n \in Nat /\ x <= n /\ n <= x
  BY <1>3
<1>5. x = n
  BY ONLY <1>4
<1> QED
  BY <1>2, <1>5

LEMMA LongestIs ==
  ASSUME NEW t \in Seq(STRING), NEW a \in 1..Len(t), NEW e \in a..Len(t),
         IsLexeme(SubSeq(t, a, e)),
         \A d \in (e + 1)..Len(t) : ~IsLexeme(SubSeq(t, a, d))
  PROVE  Longest(t, a) = SubSeq(t, a, e)
<1> DEFINE S == {n \in 1..(Len(t) + 1 - a) : IsLexeme(SubSeq(t, a, a + n - 1))}
<1>1. PICK n : n = e - a + 1
  OBVIOUS
<1>2. Len(t) \in Nat /\ n \in 1..(Len(t) + 1 - a) /\ a + n - 1 = e
  BY <1>1, LenProperties
<1>3. n \in S /\ S \subseteq Nat
  BY <1>2
<1>4. ASSUME NEW m \in S
      PROVE  m <= n
  <2>1. PICK d : d = a + m - 1
    OBVIOUS
  <2>2. IsLexeme(SubSeq(t, a, d)) /\ m \in 1..(Len(t) + 1 - a)
    BY <2>1
  <2> HIDE DEF S
  <2>3. d \in Nat /\ d <= Len(t) /\ (~(m <= n) => d >= e + 1)
    BY <1>2, <2>1, <2>2
  <2> QED
    BY <1>2, <2>2, <2>3
<1>5. Longest(t, a) = IF S = {} THEN <<>> ELSE SubSeq(t, a, a + Max(S) - 1)
  BY DEF Longest
<1> HIDE DEF S
<1>6. Max(S) = n
  BY <1>3, <1>4, MaxIs
<1> QED
  BY <1>2, <1>3, <1>5, <1>6

LEMMA LongestNone ==
  ASSUME NEW t \in Seq(STRING), NEW a \in 1..Len(t),
         \A d \in a..Len(t) : ~IsLexeme(SubSeq(t, a, d))
  PROVE  Longest(t, a) = <<>>
<1>1. \A n \in 1..(Len(t) + 1 - a) : ~IsLexeme(SubSeq(t, a, a + n - 1))
  <2> SUFFICES ASSUME NEW n \in 1..(Len(t) + 1 - a) PROVE ~IsLexeme(SubSeq(t, a, a + n - 1))
    OBVIOUS
  <2>1. PICK d : d = a + n - 1
    OBVIOUS
  <2>2. d \in a..Len(t)
    BY <2>1, LenProperties
  <2> QED
    BY <2>1, <2>2
<1> QED
  BY <1>1 DEF Longest


-----------------------------------------------------------------------------
(* What the text begins with at a place, one case at a time.               *)

LEMMA EndPiece ==
  ASSUME NEW t, NEW a, a > Len(t), Len(t) \in Nat, a \in Nat
  PROVE  PieceAt(t, a) = Piece(<<"EOF">>, a, <<>>)
<1>1. ~(a <= Len(t)) /\ ~Opens(t, a)
  BY DEF Opens
<1> QED
  BY <1>1, Zenon DEF PieceAt

LEMMA InnerPiece ==
  ASSUME NEW t \in Seq(STRING), NEW a \in 1..Len(t)
  PROVE  /\ t[a] \in Blanks => PieceAt(t, a) = Piece(<<"Blank">>, a, <<t[a]>>)
         /\ Opens(t, a) /\ Closings(t, a) = {} =>
              PieceAt(t, a) = Piece(<<"OpenComment">>, a, SubSeq(t, a, Len(t)))
         /\ Opens(t, a) /\ Closings(t, a) # {} =>
              PieceAt(t, a) = Piece(<<"Comment">>, a, SubSeq(t, a, Min(Closings(t, a)) + 1))
         /\ t[a] \notin Blanks /\ ~Opens(t, a) /\ Longest(t, a) = <<>> =>
              PieceAt(t, a) = Piece(<<"Error">>, a, <<t[a]>>)
         /\ t[a] \notin Blanks /\ ~Opens(t, a) /\ Longest(t, a) # <<>> =>
              PieceAt(t, a) = Piece(Kind(Longest(t, a)), a, Longest(t, a))
<1>1. ~(a > Len(t)) /\ a <= Len(t)
  BY LenProperties
<1>2. Opens(t, a) => t[a] \notin Blanks
  <2>1. "/" \in Simple
    BY Zenon DEF Simple
  <2> QED
    BY <2>1, Classes DEF Opens, SymbolCharacters
<1> DEFINE P(r) == PieceAt(t, a) = r
<1>3. t[a] \in Blanks => PieceAt(t, a) = Piece(<<"Blank">>, a, <<t[a]>>)
  BY <1>1, <1>2, Zenon DEF PieceAt
<1>4. Opens(t, a) /\ Closings(t, a) = {} =>
        PieceAt(t, a) = Piece(<<"OpenComment">>, a, SubSeq(t, a, Len(t)))
  BY <1>1, <1>2, Zenon DEF PieceAt
<1>5. Opens(t, a) /\ Closings(t, a) # {} =>
        PieceAt(t, a) = Piece(<<"Comment">>, a, SubSeq(t, a, Min(Closings(t, a)) + 1))
  BY <1>1, <1>2, Zenon DEF PieceAt
<1>6. t[a] \notin Blanks /\ ~Opens(t, a) /\ Longest(t, a) = <<>> =>
        PieceAt(t, a) = Piece(<<"Error">>, a, <<t[a]>>)
  BY <1>1, Zenon DEF PieceAt
<1>7. t[a] \notin Blanks /\ ~Opens(t, a) /\ Longest(t, a) # <<>> =>
        PieceAt(t, a) = Piece(Kind(Longest(t, a)), a, Longest(t, a))
  BY <1>1, Zenon DEF PieceAt
<1> QED
  BY <1>3, <1>4, <1>5, <1>6, <1>7

LEMMA NotOpens ==
  ASSUME NEW t, NEW a, t[a] \in Letters \union DOMAIN Digits
  PROVE  t[a] \notin Blanks /\ ~Opens(t, a)
<1>1. "/" \in SymbolCharacters
  BY Zenon DEF SymbolCharacters, Simple
<1> QED
  BY <1>1, Classes DEF Opens

(* A word, up to the first character that is not a letter.                 *)
LEMMA WordPiece ==
  ASSUME NEW t \in Seq(STRING), NEW a \in 1..Len(t), NEW e \in a..Len(t),
         \A i \in a..e : t[i] \in Letters,
         e = Len(t) \/ t[e + 1] \notin Letters
  PROVE  LET w == SubSeq(t, a, e)
         IN /\ IsWord(w) /\ w \in Seq(Letters)
            /\ PieceAt(t, a) = Piece(Kind(w), a, w)
<1>1. Len(t) \in Nat /\ a \in Nat /\ e \in Nat /\ a <= e /\ e <= Len(t)
  BY LenProperties
<1>2. t[a] \in Letters
  BY <1>1
<1>3. SubSeq(t, a, e) \in Seq(Letters) /\ SubSeq(t, a, e) # <<>>
  BY PartOfClass, PartFacts
<1>4. IsWord(SubSeq(t, a, e)) /\ IsLexeme(SubSeq(t, a, e))
  BY <1>3 DEF IsWord, IsLexeme
<1>5. ASSUME NEW d \in (e + 1)..Len(t), IsLexeme(SubSeq(t, a, d))
      PROVE  FALSE
  <2>1. d \in a..Len(t) /\ e + 1 \in a..d
    BY <1>1
  <2>2. PICK s : s = SubSeq(t, a, d)
    OBVIOUS
  <2>3. s[1] = t[a]
    BY <2>1, <2>2, PartFacts
  <2>4. IsWord(s)
    BY <1>2, <1>5, <2>2, <2>3, LexemeForms, Classes
  <2>5. \A i \in a..d : t[i] \in Letters
    BY <2>1, <2>2, <2>4, PartOfClass DEF IsWord
  <2> QED
    BY <1>1, <2>1, <2>5
<1>6. Longest(t, a) = SubSeq(t, a, e)
  BY <1>4, <1>5, LongestIs
<1>7. PieceAt(t, a) = Piece(Kind(Longest(t, a)), a, Longest(t, a))
  BY <1>2, <1>3, <1>6, NotOpens, InnerPiece
<1> QED
  BY <1>3, <1>4, <1>6, <1>7

(* A number, up to the first character that is not a digit.                *)
LEMMA NumberPiece ==
  ASSUME NEW t \in Seq(STRING), NEW a \in 1..Len(t), NEW e \in a..Len(t),
         \A i \in a..e : t[i] \in DOMAIN Digits,
         e = Len(t) \/ t[e + 1] \notin DOMAIN Digits
  PROVE  LET w == SubSeq(t, a, e)
         IN /\ IsNumber(w) /\ w \in Seq(DOMAIN Digits)
            /\ PieceAt(t, a) = Piece(<<"NUM">>, a, w)
<1>1. Len(t) \in Nat /\ a \in Nat /\ e \in Nat /\ a <= e /\ e <= Len(t)
  BY LenProperties
<1>2. t[a] \in DOMAIN Digits
  BY <1>1
<1>3. SubSeq(t, a, e) \in Seq(DOMAIN Digits) /\ SubSeq(t, a, e) # <<>>
  BY PartOfClass, PartFacts
<1>4. IsNumber(SubSeq(t, a, e)) /\ IsLexeme(SubSeq(t, a, e))
  BY <1>3 DEF IsNumber, IsLexeme
<1>5. ASSUME NEW d \in (e + 1)..Len(t), IsLexeme(SubSeq(t, a, d))
      PROVE  FALSE
  <2>1. d \in a..Len(t) /\ e + 1 \in a..d
    BY <1>1
  <2>2. PICK s : s = SubSeq(t, a, d)
    OBVIOUS
  <2>3. s[1] = t[a]
    BY <2>1, <2>2, PartFacts
  <2>4. IsNumber(s)
    BY <1>2, <1>5, <2>2, <2>3, LexemeForms, Classes
  <2>5. \A i \in a..d : t[i] \in DOMAIN Digits
    BY <2>1, <2>2, <2>4, PartOfClass DEF IsNumber
  <2> QED
    BY <1>1, <2>1, <2>5
<1>6. Longest(t, a) = SubSeq(t, a, e)
  BY <1>4, <1>5, LongestIs
<1>7. PieceAt(t, a) = Piece(Kind(Longest(t, a)), a, Longest(t, a))
  BY <1>2, <1>3, <1>6, NotOpens, InnerPiece
<1>8. Kind(SubSeq(t, a, e)) = <<"NUM">>
  <2>1. PICK w : w = SubSeq(t, a, e)
    OBVIOUS
  <2>2. IsNumber(w) /\ ~IsWord(w)
    <3>1. w[1] \in DOMAIN Digits
      BY <1>2, <2>1, PartFacts
    <3>2. IsWord(w) => w[1] \in Letters
      BY EmptySeq DEF IsWord
    <3> QED
      BY <1>4, <2>1, <3>1, <3>2, Classes
  <2>3. Kind(w) = <<"NUM">>
    BY <2>2, Zenon DEF Kind
  <2> QED
    BY <2>1, <2>3
<1> QED
  BY <1>3, <1>4, <1>6, <1>7, <1>8


LEMMA OneCharacter ==
  ASSUME NEW t \in Seq(STRING), NEW a \in 1..Len(t)
  PROVE  SubSeq(t, a, a) = <<t[a]>> /\ t[a] \in STRING
<1>1. a \in a..Len(t) /\ Len(t) \in Nat
  BY LenProperties
<1>2. PICK s : s = SubSeq(t, a, a)
  OBVIOUS
<1>3. s \in Seq(STRING) /\ Len(s) = a - a + 1 /\ s[1] = t[a]
  BY <1>1, <1>2, PartFacts
<1>4. Len(s) = 1
  BY <1>3
<1>5. s = <<s[1]>>
  <2>1. PICK u : u = <<s[1]>>
    OBVIOUS
  <2>2. u \in Seq(STRING) /\ Len(u) = 1 /\ u[1] = s[1]
    BY <1>3, <1>4, <2>1, ElementOfSeq
  <2>3. s = u
    BY <1>3, <1>4, <2>2, SeqEqual
  <2> QED
    BY <2>1, <2>3
<1> QED
  BY <1>2, <1>3, <1>5, ElementOfSeq

LEMMA TwoCharacters ==
  ASSUME NEW t \in Seq(STRING), NEW a \in 1..Len(t), a < Len(t)
  PROVE  SubSeq(t, a, a + 1) = <<t[a], t[a + 1]>>
<1>1. a + 1 \in a..Len(t) /\ a + 1 - a + 1 = 2 /\ a + 2 - 1 = a + 1 /\ a + 1 - 1 = a
  BY LenProperties
<1>2. PICK s : s = SubSeq(t, a, a + 1)
  OBVIOUS
<1>3. s \in Seq(STRING) /\ Len(s) = 2 /\ \A i \in 1..Len(s) : s[i] = t[a + i - 1]
  BY <1>1, <1>2, PartFacts
<1>4. s[1] = t[a] /\ s[2] = t[a + 1]
  BY <1>1, <1>3
<1>5. s = <<s[1], s[2]>>
  BY <1>3
<1> QED
  BY <1>2, <1>4, <1>5

(* A lexeme that begins with the character of a symbol.                    *)
LEMMA SymbolAt ==
  ASSUME NEW t \in Seq(STRING), NEW a \in 1..Len(t), t[a] \in SymbolCharacters,
         NEW d \in a..Len(t), IsLexeme(SubSeq(t, a, d))
  PROVE  \/ d = a /\ t[a] \in Simple
         \/ d = a + 1 /\ t[a] \in Comparing /\ t[a + 1] = "="
<1>1. PICK s : s = SubSeq(t, a, d)
  OBVIOUS
<1>2. /\ Len(t) \in Nat /\ Len(s) = d - a + 1 /\ s[1] = t[a]
      /\ \A i \in 1..Len(s) : s[i] = t[a + i - 1]
  BY <1>1, PartFacts, LenProperties
<1>3. s \in Symbols
  BY <1>1, <1>2, LexemeForms, Classes
<1>4. CASE Len(s) = 1 /\ s[1] \in Simple
  <2>1. d - a + 1 = 1 /\ t[a] \in Simple
    BY <1>2, <1>4
  <2>2. d = a
    BY <1>2, <2>1
  <2> QED
    BY <2>1, <2>2
<1>5. CASE Len(s) = 2 /\ s[1] \in Comparing /\ s[2] = "="
  <2>1. d = a + 1 /\ 2 \in 1..Len(s) /\ a + 2 - 1 = a + 1
    <3>1. Len(s) = 2
      BY <1>5
    <3>2. d - a + 1 = 2
      BY <1>2, <3>1
    <3>3. d = a + 1 /\ a + 2 - 1 = a + 1
      BY <1>2, <3>2
    <3>4. 2 \in 1..Len(s)
      BY <3>1
    <3> QED
      BY <3>3, <3>4
  <2>2. s[2] = t[a + 1]
    BY <1>2, <2>1
  <2> QED
    BY <1>2, <1>5, <2>1, <2>2
<1> QED
  BY <1>3, <1>4, <1>5, SymbolForms

LEMMA SymbolKind ==
  ASSUME NEW s, s[1] \in SymbolCharacters
  PROVE  Kind(s) = s
<1>1. ~IsNumber(s) /\ ~IsWord(s)
  <2>1. IsWord(s) => s[1] \in Letters
    BY EmptySeq DEF IsWord
  <2>2. IsNumber(s) => s[1] \in DOMAIN Digits
    BY EmptySeq DEF IsNumber
  <2> QED
    BY <2>1, <2>2, Classes
<1> QED
  BY <1>1, Zenon DEF Kind

(* A symbol of one character, and one that "=" completes.                  *)
LEMMA SimplePiece ==
  ASSUME NEW t \in Seq(STRING), NEW a \in 1..Len(t), t[a] \in Simple, ~Opens(t, a),
         t[a] \in Comparing => a = Len(t) \/ t[a + 1] # "="
  PROVE  PieceAt(t, a) = Piece(<<t[a]>>, a, <<t[a]>>)
<1>1. t[a] \in SymbolCharacters /\ a \in a..Len(t) /\ Len(t) \in Nat
  BY LenProperties DEF SymbolCharacters
<1>2. PICK s : s = <<t[a]>>
  OBVIOUS
<1>3. SubSeq(t, a, a) = s /\ s[1] = t[a] /\ s # <<>>
  BY <1>2, OneCharacter
<1>4. IsLexeme(s)
  BY <1>2 DEF IsLexeme, Symbols
<1>5. ASSUME NEW d \in (a + 1)..Len(t), IsLexeme(SubSeq(t, a, d))
      PROVE  FALSE
  <2>1. d \in a..Len(t) /\ d # a /\ (d = a + 1 => a # Len(t))
    BY <1>1
  <2> QED
    BY <1>1, <1>5, <2>1, SymbolAt
<1>6. Longest(t, a) = s
  BY <1>1, <1>3, <1>4, <1>5, LongestIs
<1>7. Kind(s) = s
  BY <1>1, <1>3, SymbolKind
<1>8. PieceAt(t, a) = Piece(Kind(s), a, s)
  BY <1>1, <1>3, <1>6, InnerPiece, Classes
<1> QED
  BY <1>2, <1>7, <1>8

LEMMA CompletedPiece ==
  ASSUME NEW t \in Seq(STRING), NEW a \in 1..Len(t), t[a] \in Comparing,
         a < Len(t), t[a + 1] = "="
  PROVE  PieceAt(t, a) = Piece(<<t[a], "=">>, a, <<t[a], "=">>)
<1>1. t[a] \in SymbolCharacters /\ a + 1 \in a..Len(t) /\ Len(t) \in Nat
  BY LenProperties DEF SymbolCharacters
<1>2. PICK s : s = <<t[a], "=">>
  OBVIOUS
<1>3. SubSeq(t, a, a + 1) = s /\ s[1] = t[a] /\ s # <<>>
  BY <1>2, TwoCharacters
<1>4. IsLexeme(s)
  BY <1>2 DEF IsLexeme, Symbols
<1>5. ASSUME NEW d \in (a + 1 + 1)..Len(t), IsLexeme(SubSeq(t, a, d))
      PROVE  FALSE
  <2>1. d \in a..Len(t) /\ d # a /\ d # a + 1
    BY <1>1
  <2> QED
    BY <1>1, <1>5, <2>1, SymbolAt
<1>6. Longest(t, a) = s
  BY <1>1, <1>3, <1>4, <1>5, LongestIs
<1>7. Kind(s) = s
  BY <1>1, <1>3, SymbolKind
<1>8. ~Opens(t, a)
  BY DEF Opens
<1>9. PieceAt(t, a) = Piece(Kind(s), a, s)
  BY <1>1, <1>3, <1>6, <1>8, InnerPiece, Classes
<1> QED
  BY <1>2, <1>7, <1>9

(* Characters that begin nothing.                                          *)
LEMMA ErrorPiece ==
  ASSUME NEW t \in Seq(STRING), NEW a \in 1..Len(t),
         \/ t[a] \notin Letters \union DOMAIN Digits \union Blanks \union SymbolCharacters
         \/ t[a] = "!" /\ (a = Len(t) \/ t[a + 1] # "=")
  PROVE  PieceAt(t, a) = Piece(<<"Error">>, a, <<t[a]>>)
<1>1. "!" \in Comparing /\ "!" \notin Simple /\ "/" \in Simple
  BY Zenon DEF Comparing, Simple
<1>2. ~Opens(t, a)
  BY <1>1 DEF Opens, SymbolCharacters
<1>3. t[a] \notin Blanks
  BY <1>1, Classes DEF SymbolCharacters
<1>4. ASSUME NEW d \in a..Len(t), IsLexeme(SubSeq(t, a, d))
      PROVE  FALSE
  <2>1. CASE t[a] = "!" /\ (a = Len(t) \/ t[a + 1] # "=")
    <3>1. t[a] \in SymbolCharacters /\ t[a] \notin Simple
      BY <1>1, <2>1 DEF SymbolCharacters
    <3>2. d = a + 1 /\ t[a + 1] = "="
      BY <1>4, <3>1, SymbolAt
    <3> QED
      BY <2>1, <3>2, LenProperties
  <2>2. CASE t[a] \notin Letters \union DOMAIN Digits \union Blanks \union SymbolCharacters
    <3>1. PICK s : s = SubSeq(t, a, d)
      OBVIOUS
    <3>2. s[1] = t[a] /\ IsLexeme(s)
      BY <1>4, <3>1, PartFacts
    <3> QED
      BY <2>2, <3>2, LexemeForms
  <2> QED
    BY <2>1, <2>2
<1>5. Longest(t, a) = <<>>
  BY <1>4, LongestNone
<1> QED
  BY <1>2, <1>3, <1>5, InnerPiece

(* A comment, up to the first place where it may close, or an open one.    *)
LEMMA CommentPiece ==
  ASSUME NEW t \in Seq(STRING), NEW a \in 1..Len(t), Opens(t, a),
         NEW c \in Closings(t, a), \A p \in Closings(t, a) : c <= p
  PROVE  PieceAt(t, a) = Piece(<<"Comment">>, a, SubSeq(t, a, c + 1))
<1>1. Closings(t, a) \subseteq Nat
  BY LenProperties DEF Closings
<1>2. Min(Closings(t, a)) = c
  BY <1>1, MinIs
<1> QED
  BY <1>2, InnerPiece

LEMMA GreatestNumber ==
  ASSUME NEW n \in Nat, NEW S, S \subseteq 0..n, S # {}
  PROVE  \E m \in S : \A k \in S : k <= m
<1> DEFINE T == {n - k : k \in S}
<1>1. T \subseteq Nat /\ T # {}
  <2>1. \A k \in S : n - k \in Nat
    OBVIOUS
  <2> QED
    BY <2>1
<1>2. PICK x \in T : \A y \in T : x <= y
  <2> HIDE DEF T
  <2> QED
    BY <1>1, LeastNumber
<1>3. PICK m \in S : x = n - m
  OBVIOUS
<1>4. \A k \in S : n - m <= n - k
  BY <1>2, <1>3
<1> QED
  BY <1>4

LEMMA LongestPlace ==
  ASSUME NEW t \in Seq(STRING), NEW a \in 1..Len(t), Longest(t, a) # <<>>
  PROVE  \E e \in a..Len(t) : Longest(t, a) = SubSeq(t, a, e) /\ IsLexeme(SubSeq(t, a, e))
<1> DEFINE S == {n \in 1..(Len(t) + 1 - a) : IsLexeme(SubSeq(t, a, a + n - 1))}
<1>1. Len(t) \in Nat /\ a \in Nat /\ Len(t) + 1 - a \in Nat
  BY LenProperties
<1>2. Longest(t, a) = IF S = {} THEN <<>> ELSE SubSeq(t, a, a + Max(S) - 1)
  BY DEF Longest
<1>3. S \subseteq 1..(Len(t) + 1 - a) /\ \A n \in S : IsLexeme(SubSeq(t, a, a + n - 1))
  OBVIOUS
<1> HIDE DEF S
<1>4. S # {} /\ S \subseteq 0..(Len(t) + 1 - a) /\ S \subseteq Nat
  BY <1>2, <1>3
<1>5. PICK m \in S : \A k \in S : k <= m
  BY <1>1, <1>4, GreatestNumber
<1>6. Max(S) = m
  BY <1>4, <1>5, MaxIs
<1>7. a + m - 1 \in a..Len(t) /\ IsLexeme(SubSeq(t, a, a + m - 1))
  BY <1>1, <1>3
<1> QED
  BY <1>2, <1>4, <1>6, <1>7

(* Every piece is of at least one character, and within the text.          *)
LEMMA PieceMoves ==
  ASSUME NEW t \in Seq(STRING), NEW a \in 1..Len(t)
  PROVE  /\ PieceAt(t, a).at = a
         /\ Len(PieceAt(t, a).lexeme) \in 1..(Len(t) + 1 - a)
<1>1. Len(t) \in Nat /\ a \in Nat /\ Len(t) \in a..Len(t)
  BY LenProperties
<1>2. \A e \in a..Len(t) : Len(SubSeq(t, a, e)) \in 1..(Len(t) + 1 - a)
  <2> SUFFICES ASSUME NEW e \in a..Len(t)
               PROVE  Len(SubSeq(t, a, e)) \in 1..(Len(t) + 1 - a)
    OBVIOUS
  <2>1. Len(SubSeq(t, a, e)) = e - a + 1
    BY PartFacts
  <2> QED
    BY <1>1, <2>1
<1>3. Len(<<t[a]>>) \in 1..(Len(t) + 1 - a)
  BY <1>1
<1>4. Closings(t, a) # {} => Min(Closings(t, a)) + 1 \in a..Len(t)
  <2> SUFFICES ASSUME Closings(t, a) # {}
               PROVE  Min(Closings(t, a)) + 1 \in a..Len(t)
    OBVIOUS
  <2>1. Closings(t, a) \subseteq (a + 2)..(Len(t) - 1) /\ Closings(t, a) \subseteq Nat
    BY <1>1 DEF Closings
  <2>2. PICK c \in Closings(t, a) : \A p \in Closings(t, a) : c <= p
    BY <2>1, LeastNumber
  <2>3. Min(Closings(t, a)) = c
    BY <2>1, <2>2, MinIs
  <2> QED
    BY <1>1, <2>1, <2>3
<1>5. \E kind, s : PieceAt(t, a) = Piece(kind, a, s) /\ Len(s) \in 1..(Len(t) + 1 - a)
  <2>1. CASE t[a] \in Blanks
    BY <1>3, <2>1, InnerPiece
  <2>2. CASE Opens(t, a) /\ Closings(t, a) = {}
    BY <1>1, <1>2, <2>2, InnerPiece
  <2>3. CASE Opens(t, a) /\ Closings(t, a) # {}
    BY <1>2, <1>4, <2>3, InnerPiece
  <2>4. CASE t[a] \notin Blanks /\ ~Opens(t, a) /\ Longest(t, a) = <<>>
    BY <1>3, <2>4, InnerPiece
  <2>5. CASE t[a] \notin Blanks /\ ~Opens(t, a) /\ Longest(t, a) # <<>>
    <3>1. PICK e \in a..Len(t) : Longest(t, a) = SubSeq(t, a, e)
      BY <2>5, LongestPlace
    <3>2. Len(Longest(t, a)) \in 1..(Len(t) + 1 - a)
      BY <1>2, <3>1
    <3> QED
      BY <2>5, <3>2, InnerPiece
  <2> QED
    BY <2>1, <2>2, <2>3, <2>4, <2>5
<1> QED
  BY <1>5 DEF Piece


-----------------------------------------------------------------------------
(* Lines and columns.                                                      *)

Newlines(t, a) == {p \in 1..(a - 1) : t[p] = "\n"}

LEMMA LocationIs ==
  ASSUME NEW t, NEW a \in Nat \ {0}
  PROVE  \E m \in {0} \union Newlines(t, a) :
           /\ \A k \in {0} \union Newlines(t, a) : k <= m
           /\ m \in 0..(a - 1) /\ Cardinality(Newlines(t, a)) \in 0..(a - 1)
           /\ IsFiniteSet(Newlines(t, a))
           /\ Location(t, a) = [line |-> 1 + Cardinality(Newlines(t, a)), column |-> a - m]
<1>1. a - 1 \in Nat /\ 1 \in Int /\ a - 1 \in Int
  OBVIOUS
<1>2. Newlines(t, a) \subseteq 1..(a - 1)
  BY DEF Newlines
<1>3. {0} \union Newlines(t, a) \subseteq 0..(a - 1) /\ {0} \union Newlines(t, a) # {}
  BY <1>1, <1>2
<1>4. PICK m \in {0} \union Newlines(t, a) : \A k \in {0} \union Newlines(t, a) : k <= m
  BY <1>1, <1>3, GreatestNumber
<1>5. Max({0} \union Newlines(t, a)) = m
  BY <1>3, <1>4, MaxIs
<1>6. IsFiniteSet(1..(a - 1)) /\ Cardinality(1..(a - 1)) = a - 1
  <2>1. Cardinality(1..(a - 1)) = IF 1 > a - 1 THEN 0 ELSE a - 1 - 1 + 1
    BY <1>1, FS_Interval
  <2>2. (IF 1 > a - 1 THEN 0 ELSE a - 1 - 1 + 1) = a - 1
    BY <1>1
  <2> QED
    BY <1>1, <2>1, <2>2, FS_Interval
<1>7. IsFiniteSet(Newlines(t, a)) /\ Cardinality(Newlines(t, a)) <= a - 1
  BY <1>2, <1>6, FS_Subset
<1>8. Cardinality(Newlines(t, a)) \in 0..(a - 1)
  BY <1>1, <1>7, FS_CardinalityType
<1>9. Location(t, a) =
        [line |-> 1 + Cardinality(Newlines(t, a)), column |-> a - Max({0} \union Newlines(t, a))]
  BY Zenon DEF Location, Newlines
<1> QED
  BY <1>3, <1>4, <1>5, <1>7, <1>8, <1>9

LEMMA LocationFirst ==
  ASSUME NEW t
  PROVE  Location(t, 1) = [line |-> 1, column |-> 1]
<1>1. Newlines(t, 1) = {}
  BY DEF Newlines
<1>2. PICK m \in {0} \union Newlines(t, 1) :
        Location(t, 1) = [line |-> 1 + Cardinality(Newlines(t, 1)), column |-> 1 - m]
  BY LocationIs
<1>3. m = 0 /\ Cardinality(Newlines(t, 1)) = 0
  BY <1>1, FS_EmptySet
<1> QED
  BY <1>2, <1>3

LEMMA LocationNext ==
  ASSUME NEW t, NEW a \in Nat \ {0}
  PROVE  LET here_ == Location(t, a)
         IN /\ here_.line \in 1..a /\ here_.column \in 1..a
            /\ here_ = [line |-> here_.line, column |-> here_.column]
            /\ Location(t, a + 1) =
                 IF t[a] = "\n" THEN [line |-> here_.line + 1, column |-> 1]
                 ELSE [line |-> here_.line, column |-> here_.column + 1]
<1>1. PICK m \in {0} \union Newlines(t, a) :
        /\ \A k \in {0} \union Newlines(t, a) : k <= m
        /\ m \in 0..(a - 1) /\ Cardinality(Newlines(t, a)) \in 0..(a - 1)
        /\ IsFiniteSet(Newlines(t, a))
        /\ Location(t, a) = [line |-> 1 + Cardinality(Newlines(t, a)), column |-> a - m]
  BY LocationIs
<1>2. PICK l : l = Location(t, a)
  OBVIOUS
<1>3. l.line = 1 + Cardinality(Newlines(t, a)) /\ l.column = a - m /\ l = [line |-> l.line, column |-> l.column]
  BY <1>1, <1>2
<1>4. l.line \in 1..a /\ l.column \in 1..a
  BY <1>1, <1>3
<1>5. PICK n \in {0} \union Newlines(t, a + 1) :
        /\ \A k \in {0} \union Newlines(t, a + 1) : k <= n
        /\ n \in 0..a
        /\ Location(t, a + 1) =
             [line |-> 1 + Cardinality(Newlines(t, a + 1)), column |-> a + 1 - n]
  <2>1. a + 1 \in Nat \ {0} /\ a + 1 - 1 = a
    OBVIOUS
  <2> QED
    BY <2>1, LocationIs
<1>6. Newlines(t, a) \subseteq 0..(a - 1) /\ a \notin Newlines(t, a)
  BY DEF Newlines
<1>7. CASE t[a] = "\n"
  <2>1. Newlines(t, a + 1) = Newlines(t, a) \union {a}
    BY <1>7 DEF Newlines
  <2>2. Cardinality(Newlines(t, a + 1)) = Cardinality(Newlines(t, a)) + 1
    BY <1>1, <1>6, <2>1, FS_AddElement
  <2>3. n = a
    BY <1>5, <1>6, <2>1
  <2>4. 1 + Cardinality(Newlines(t, a + 1)) = l.line + 1 /\ a + 1 - n = 1
    BY <1>1, <1>3, <2>2, <2>3
  <2>5. Location(t, a + 1) = [line |-> l.line + 1, column |-> 1]
    BY <1>5, <2>4
  <2> QED
    BY <1>2, <1>3, <1>4, <1>7, <2>5
<1>8. CASE t[a] # "\n"
  <2>1. Newlines(t, a + 1) = Newlines(t, a)
    BY <1>8 DEF Newlines
  <2>2. n = m
    BY <1>1, <1>5, <1>6, <2>1
  <2>3. a + 1 - n = l.column + 1
    BY <1>1, <1>3, <2>2
  <2>4. Location(t, a + 1) = [line |-> l.line, column |-> l.column + 1]
    BY <1>3, <1>5, <2>1, <2>3
  <2> QED
    BY <1>2, <1>3, <1>4, <1>8, <2>4
<1> QED
  BY <1>7, <1>8

-----------------------------------------------------------------------------
(* The pieces of a text from one place on.                                 *)

FromStep(t, places, f, a) ==
  (IF a \in places THEN <<PieceAt(t, a)>> ELSE <<>>)
    \o (IF a > Len(t) THEN <<>> ELSE f[a + Len(PieceAt(t, a).lexeme)])

Text(t) == 1..(Len(t) + 1)
FromEquation(t, places, f) == f = [a \in Text(t) |-> FromStep(t, places, f, a)]
From(t, places) == CHOOSE f : FromEquation(t, places, f)

(* It is computed from the end.                                            *)
SolvesFrom(t, places, f, n) ==
  /\ f = [a \in Text(t) |-> f[a]]
  /\ \A a \in Text(t) : Len(t) + 1 - a < n => f[a] = FromStep(t, places, f, a)

LEMMA SolvesFromNext ==
  ASSUME NEW t \in Seq(STRING), NEW places, NEW n \in Nat, NEW f, SolvesFrom(t, places, f, n)
  PROVE  \E g : SolvesFrom(t, places, g, n + 1)
<1> DEFINE g == [a \in Text(t) |-> FromStep(t, places, f, a)]
<1>1. g = [a \in Text(t) |-> g[a]] /\ \A a \in Text(t) : g[a] = FromStep(t, places, f, a)
  OBVIOUS
<1> HIDE DEF g
<1>2. Len(t) \in Nat
  BY LenProperties
<1>3. ASSUME NEW a \in Text(t), Len(t) + 1 - a < n + 1
      PROVE  g[a] = FromStep(t, places, g, a)
  <2>1. CASE a > Len(t)
    BY <1>1, <2>1 DEF FromStep
  <2>2. CASE ~(a > Len(t))
    <3>1. PICK b : b = a + Len(PieceAt(t, a).lexeme)
      OBVIOUS
    <3>2. a \in 1..Len(t)
      BY <1>2, <2>2 DEF Text
    <3>3. b \in Text(t) /\ a < b
      BY <1>2, <3>1, <3>2, PieceMoves DEF Text
    <3>4. Len(t) + 1 - b < n
      BY <1>2, <1>3, <3>2, <3>3 DEF Text
    <3>5. g[b] = f[b]
      BY <1>1, <3>3, <3>4 DEF SolvesFrom
    <3> QED
      BY <1>1, <3>1, <3>5 DEF FromStep
  <2> QED
    BY <2>1, <2>2
<1> QED
  BY <1>1, <1>3 DEF SolvesFrom

LEMMA FromIs ==
  ASSUME NEW t \in Seq(STRING), NEW places
  PROVE  FromEquation(t, places, From(t, places))
<1> DEFINE D == {n \in Nat : \E f : SolvesFrom(t, places, f, n)}
<1>1. 0 \in D
  <2> DEFINE f == [a \in Text(t) |-> <<>>]
  <2>1. f = [a \in Text(t) |-> f[a]]
    OBVIOUS
  <2> HIDE DEF f
  <2>2. \A a \in Text(t) : ~(Len(t) + 1 - a < 0)
    BY LenProperties DEF Text
  <2>3. SolvesFrom(t, places, f, 0)
    BY <2>1, <2>2 DEF SolvesFrom
  <2> QED
    BY <2>3
<1>2. ASSUME NEW n \in Nat, n \in D
      PROVE  n + 1 \in D
  BY <1>2, SolvesFromNext
<1> HIDE DEF D
<1>3. Len(t) + 1 \in D
  BY <1>1, <1>2, SetInduction, LenProperties
<1>4. PICK f : SolvesFrom(t, places, f, Len(t) + 1)
  BY <1>3 DEF D
<1>5. \A a \in Text(t) : Len(t) + 1 - a < Len(t) + 1
  BY LenProperties DEF Text
<1>6. f = [a \in Text(t) |-> f[a]] /\ \A a \in Text(t) : f[a] = FromStep(t, places, f, a)
  BY <1>4, <1>5 DEF SolvesFrom
<1>7. FromEquation(t, places, f)
  BY <1>6 DEF FromEquation
<1> QED
  BY <1>7, Zenon DEF From

LEMMA PiecesAtIs ==
  ASSUME NEW t, NEW places
  PROVE  PiecesAt(t, places) = From(t, places)[1]
  BY Zenon DEF PiecesAt, From, FromEquation, FromStep, Text

Pieces(t) == {PieceAt(t, a) : a \in Text(t)}

(* The place behind a piece; the end of the text is a piece, too.          *)
Behind(t, a) == IF a > Len(t) THEN Len(t) + 2 ELSE a + Len(PieceAt(t, a).lexeme)
Rest(t, places, a) == IF a > Len(t) + 1 THEN <<>> ELSE From(t, places)[a]

LEMMA BehindMoves ==
  ASSUME NEW t \in Seq(STRING), NEW a \in Text(t)
  PROVE  Behind(t, a) \in (a + 1)..(Len(t) + 2) /\ (a <= Len(t) => Behind(t, a) \in Text(t))
<1>1. Len(t) \in Nat /\ a \in Nat /\ a <= Len(t) + 1 /\ 1 <= a
  BY LenProperties DEF Text
<1>2. CASE a > Len(t)
  BY <1>1, <1>2 DEF Behind
<1>3. CASE ~(a > Len(t))
  <2>1. PICK l : l = Len(PieceAt(t, a).lexeme)
    OBVIOUS
  <2>2. l \in 1..(Len(t) + 1 - a)
    BY <1>1, <1>3, <2>1, PieceMoves
  <2> QED
    BY <1>1, <1>3, <2>1, <2>2 DEF Behind, Text
<1> QED
  BY <1>2, <1>3

LEMMA RestNext ==
  ASSUME NEW t \in Seq(STRING), NEW places, NEW a \in Text(t)
  PROVE  Rest(t, places, a) =
           (IF a \in places THEN <<PieceAt(t, a)>> ELSE <<>>) \o Rest(t, places, Behind(t, a))
<1>1. Len(t) \in Nat /\ a \in Nat /\ ~(a > Len(t) + 1)
  BY LenProperties DEF Text
<1>2. From(t, places)[a] = FromStep(t, places, From(t, places), a)
  <2>1. PICK f : f = From(t, places)
    OBVIOUS
  <2>2. f = [x \in Text(t) |-> FromStep(t, places, f, x)]
    BY <2>1, FromIs DEF FromEquation
  <2>3. f[a] = FromStep(t, places, f, a)
    BY <2>2
  <2> QED
    BY <2>1, <2>3
<1>3. Rest(t, places, a) = FromStep(t, places, From(t, places), a)
  BY <1>1, <1>2 DEF Rest
<1>4. CASE a > Len(t)
  <2>1. Rest(t, places, Behind(t, a)) = <<>>
    BY <1>1, <1>4 DEF Rest, Behind
  <2> QED
    BY <1>3, <1>4, <2>1 DEF FromStep
<1>5. CASE ~(a > Len(t))
  <2>1. Behind(t, a) = a + Len(PieceAt(t, a).lexeme) /\ ~(Behind(t, a) > Len(t) + 1)
    <3>1. PICK d : d = Behind(t, a)
      OBVIOUS
    <3>2. d \in Text(t)
      BY <1>1, <1>5, <3>1, BehindMoves
    <3>3. ~(d > Len(t) + 1)
      BY <1>1, <3>2 DEF Text
    <3> QED
      BY <1>5, <3>1, <3>3 DEF Behind
  <2>2. Rest(t, places, Behind(t, a)) = From(t, places)[a + Len(PieceAt(t, a).lexeme)]
    BY <2>1 DEF Rest
  <2> QED
    BY <1>3, <1>5, <2>2 DEF FromStep
<1> QED
  BY <1>4, <1>5

(* The pieces at some places.                                              *)
Chosen(t, places) == {PieceAt(t, a) : a \in Text(t) \cap places}

LEMMA RestChosen ==
  ASSUME NEW t \in Seq(STRING), NEW places
  PROVE  \A a \in 1..(Len(t) + 2) : Rest(t, places, a) \in Seq(Chosen(t, places))
<1> DEFINE E == 1..(Len(t) + 2)
           rank == [a \in E |-> Len(t) + 2 - a]
           S == {a \in E : Rest(t, places, a) \in Seq(Chosen(t, places))}
<1>1. Len(t) \in Nat
  BY LenProperties
<1>2. rank \in [E -> Nat]
  BY <1>1
<1>3. ASSUME NEW a \in E, \A b \in E : rank[b] < rank[a] => b \in S
      PROVE  a \in S
  <2>1. CASE a > Len(t) + 1
    BY <2>1 DEF Rest
  <2>2. CASE ~(a > Len(t) + 1)
    <3>1. a \in Text(t)
      BY <1>1, <2>2 DEF Text
    <3>2. PICK b : b = Behind(t, a)
      OBVIOUS
    <3>3. b \in E /\ rank[b] < rank[a]
      BY <1>1, <3>1, <3>2, BehindMoves DEF Text
    <3>4. b \in S
      BY <1>3, <3>3
    <3>5. /\ Rest(t, places, b) \in Seq(Chosen(t, places))
          /\ a \in places => PieceAt(t, a) \in Chosen(t, places)
      BY <3>1, <3>4 DEF Chosen
    <3>6. PICK s : s = IF a \in places THEN <<PieceAt(t, a)>> ELSE <<>>
      OBVIOUS
    <3>7. s \in Seq(Chosen(t, places))
      BY <3>5, <3>6
    <3>8. s \o Rest(t, places, b) \in Seq(Chosen(t, places))
      BY <3>5, <3>7, ConcatProperties
    <3>9. Rest(t, places, a) = s \o Rest(t, places, b)
      BY <3>1, <3>2, <3>6, RestNext
    <3> QED
      BY <3>8, <3>9
  <2> QED
    BY <2>1, <2>2
<1> HIDE DEF rank, S, E
<1>4. E \subseteq S
  BY <1>2, <1>3, TreeInduction
<1> QED
  BY <1>4 DEF S, E

LEMMA RestType ==
  ASSUME NEW t \in Seq(STRING), NEW places
  PROVE  \A a \in 1..(Len(t) + 2) : Rest(t, places, a) \in Seq(Pieces(t))
<1>1. Chosen(t, places) \subseteq Pieces(t)
  BY DEF Chosen, Pieces
<1> QED
  BY <1>1, RestChosen

-----------------------------------------------------------------------------
(* What has been made of the pieces before a place: one thing each.        *)

Emits(t, places, m, out, a) ==
  /\ out \in Seq({m[p] : p \in Pieces(t)})
  /\ \E P \in Seq(Pieces(t)) :
       /\ PiecesAt(t, places) = P \o Rest(t, places, a)
       /\ Len(out) = Len(P)
       /\ \A i \in 1..Len(P) : out[i] = m[P[i]]

LEMMA EmitsNothing ==
  ASSUME NEW t \in Seq(STRING), NEW places, NEW m
  PROVE  Emits(t, places, m, <<>>, 1)
<1>1. PiecesAt(t, places) = Rest(t, places, 1)
  <2>1. ~(1 > Len(t) + 1)
    BY LenProperties
  <2> QED
    BY <2>1, PiecesAtIs DEF Rest
<1>2. Rest(t, places, 1) \in Seq(Pieces(t))
  <2>1. 1 \in 1..(Len(t) + 2)
    BY LenProperties
  <2> QED
    BY <2>1, RestType
<1>3. PiecesAt(t, places) = <<>> \o Rest(t, places, 1)
  BY <1>1, <1>2, ConcatEmptySeq
<1>4. <<>> \in Seq(Pieces(t)) /\ <<>> \in Seq({m[p] : p \in Pieces(t)}) /\ Len(<<>>) = 0
  OBVIOUS
<1>5. \A i \in 1..Len(<<>>) : <<>>[i] = m[<<>>[i]]
  BY <1>4
<1> QED
  BY <1>3, <1>4, <1>5, Zenon DEF Emits

LEMMA EmitsPassing ==
  ASSUME NEW t \in Seq(STRING), NEW places, NEW m, NEW out, NEW a \in Text(t),
         Emits(t, places, m, out, a), a \notin places
  PROVE  Emits(t, places, m, out, Behind(t, a))
<1>1. Behind(t, a) \in 1..(Len(t) + 2)
  BY BehindMoves, LenProperties DEF Text
<1>2. Rest(t, places, Behind(t, a)) \in Seq(Pieces(t))
  BY <1>1, RestType
<1>3. Rest(t, places, a) = <<>> \o Rest(t, places, Behind(t, a))
  BY RestNext
<1>4. Rest(t, places, a) = Rest(t, places, Behind(t, a))
  BY <1>2, <1>3, ConcatEmptySeq
<1> QED
  BY <1>4, Zenon DEF Emits

LEMMA EmitsOne ==
  ASSUME NEW t \in Seq(STRING), NEW places, NEW m, NEW out, NEW a \in Text(t),
         Emits(t, places, m, out, a), a \in places
  PROVE  Emits(t, places, m, Append(out, m[PieceAt(t, a)]), Behind(t, a))
<1>1. PICK M : M = {m[p] : p \in Pieces(t)}
  OBVIOUS
<1>2. PICK P \in Seq(Pieces(t)) :
        /\ PiecesAt(t, places) = P \o Rest(t, places, a)
        /\ Len(out) = Len(P)
        /\ \A i \in 1..Len(P) : out[i] = m[P[i]]
  BY DEF Emits
<1>3. PICK piece : piece = PieceAt(t, a)
  OBVIOUS
<1>4. piece \in Pieces(t) /\ m[piece] \in M /\ out \in Seq(M)
  BY <1>1, <1>3 DEF Pieces, Emits
<1>5. PICK rest : rest = Rest(t, places, Behind(t, a))
  OBVIOUS
<1>6. rest \in Seq(Pieces(t))
  <2>1. Behind(t, a) \in 1..(Len(t) + 2)
    BY BehindMoves, LenProperties DEF Text
  <2> QED
    BY <1>5, <2>1, RestType
<1>7. PiecesAt(t, places) = P \o (<<piece>> \o rest)
  BY <1>2, <1>3, <1>5, RestNext
<1>8. PiecesAt(t, places) = Append(P, piece) \o rest
  <2>1. <<piece>> \in Seq(Pieces(t))
    BY <1>4
  <2>2. P \o (<<piece>> \o rest) = (P \o <<piece>>) \o rest
    BY <1>6, <2>1, ConcatAssociative
  <2>3. P \o <<piece>> = Append(P, piece)
    BY <1>4, AppendIsConcat
  <2> QED
    BY <1>7, <2>2, <2>3
<1>9. PICK Q, o : Q = Append(P, piece) /\ o = Append(out, m[piece])
  OBVIOUS
<1>10. /\ Q \in Seq(Pieces(t)) /\ Len(Q) = Len(P) + 1 /\ Q[Len(P) + 1] = piece
       /\ \A i \in 1..Len(P) : Q[i] = P[i]
  BY <1>4, <1>9, AppendProperties
<1>11. /\ o \in Seq(M) /\ Len(o) = Len(P) + 1 /\ o[Len(P) + 1] = m[piece]
       /\ \A i \in 1..Len(P) : o[i] = out[i]
  BY <1>2, <1>4, <1>9, AppendProperties
<1>12. \A i \in 1..Len(Q) : o[i] = m[Q[i]]
  <2> SUFFICES ASSUME NEW i \in 1..Len(Q) PROVE o[i] = m[Q[i]]
    OBVIOUS
  <2>1. Len(P) \in Nat /\ (i \in 1..Len(P) \/ i = Len(P) + 1)
    BY <1>10, LenProperties
  <2>2. CASE i \in 1..Len(P)
    BY <1>2, <1>10, <1>11, <2>2
  <2>3. CASE i = Len(P) + 1
    BY <1>10, <1>11, <2>3
  <2> QED
    BY <2>1, <2>2, <2>3
<1>13. o \in Seq({m[p] : p \in Pieces(t)}) /\ PiecesAt(t, places) = Q \o rest /\ Len(o) = Len(Q)
  BY <1>1, <1>8, <1>9, <1>10, <1>11
<1>14. Emits(t, places, m, o, Behind(t, a))
  BY <1>5, <1>10, <1>12, <1>13, Zenon DEF Emits
<1> QED
  BY <1>3, <1>9, <1>14

(* What has been made is a beginning, and when the end has been passed it  *)
(* is all there is.                                                        *)
LEMMA EmitsFacts ==
  ASSUME NEW t \in Seq(STRING), NEW places, NEW m, NEW a \in 1..(Len(t) + 2),
         NEW out, Emits(t, places, m, out, a)
  PROVE  /\ PiecesAt(t, places) \in Seq(Pieces(t))
         /\ Len(out) <= Len(PiecesAt(t, places))
         /\ \A i \in 1..Len(out) : out[i] = m[PiecesAt(t, places)[i]]
         /\ a = Len(t) + 2 => Len(out) = Len(PiecesAt(t, places))
<1>1. PICK P \in Seq(Pieces(t)) :
        /\ PiecesAt(t, places) = P \o Rest(t, places, a)
        /\ Len(out) = Len(P)
        /\ \A i \in 1..Len(P) : out[i] = m[P[i]]
  BY DEF Emits
<1>2. PICK rest, whole : rest = Rest(t, places, a) /\ whole = PiecesAt(t, places)
  OBVIOUS
<1>3. rest \in Seq(Pieces(t)) /\ (a = Len(t) + 2 => rest = <<>>)
  <2>1. a = Len(t) + 2 => a > Len(t) + 1
    BY LenProperties
  <2> QED
    BY <1>2, <2>1, RestType DEF Rest
<1>4. /\ whole \in Seq(Pieces(t)) /\ Len(whole) = Len(P) + Len(rest)
      /\ \A k \in 1..Len(P) : whole[k] = P[k]
  BY <1>1, <1>2, <1>3, JoinFacts
<1>5. Len(rest) \in Nat /\ Len(P) \in Nat /\ (rest = <<>> => Len(rest) = 0)
  BY <1>3, LenProperties, EmptySeq
<1>6. Len(out) <= Len(whole) /\ (a = Len(t) + 2 => Len(out) = Len(whole))
  BY <1>1, <1>3, <1>4, <1>5
<1>7. \A i \in 1..Len(out) : out[i] = m[whole[i]]
  BY <1>1, <1>4
<1> QED
  BY <1>2, <1>4, <1>6, <1>7 DEF Emits

-----------------------------------------------------------------------------
(* The value of a numeral.                                                 *)

ValueEquation(s, f) ==
  f = [n \in 0..Len(s) |-> IF n = 0 THEN 0 ELSE 10 * f[n - 1] + Digits[s[n]]]
Values(s) == CHOOSE f : ValueEquation(s, f)

LEMMA ValueType ==
  ASSUME NEW s \in Seq(DOMAIN Digits)
  PROVE  Value(s) \in Nat
<1> DEFINE F == [x \in Nat \X Nat |->
                   IF x[1] < Len(s) THEN 10 * x[2] + Digits[s[x[1] + 1]] ELSE x[2]]
<1>1. Len(s) \in Nat
  BY LenProperties
<1>2. \A n \in 1..Len(s) : Digits[s[n]] \in Nat
  BY CharacterAssumption, ElementOfSeq
<1>3. F \in [Nat \X Nat -> Nat]
  <2> SUFFICES ASSUME NEW n \in Nat, NEW v \in Nat
               PROVE  (IF n < Len(s) THEN 10 * v + Digits[s[n + 1]] ELSE v) \in Nat
    OBVIOUS
  <2>1. CASE n < Len(s)
    <3>1. n + 1 \in 1..Len(s)
      BY <1>1, <2>1
    <3>2. PICK d \in Nat : d = Digits[s[n + 1]]
      BY <1>2, <3>1
    <3>3. 10 * v + d \in Nat
      OBVIOUS
    <3> QED
      BY <2>1, <3>2, <3>3
  <2>2. CASE ~(n < Len(s))
    BY <2>2
  <2> QED
    BY <2>1, <2>2
<1>4. PICK g \in [Nat -> Nat] : g[0] = 0 /\ \A n \in Nat : g[n + 1] = F[<<n, g[n]>>]
  <2> HIDE DEF F
  <2>1. 0 \in Nat
    OBVIOUS
  <2>2. \E g \in [Nat -> Nat] : Iterates(g, 0, F)
    BY <1>3, <2>1, IterationExists, Zenon
  <2> QED
    BY <2>2 DEF Iterates
<1>5. ASSUME NEW n \in Nat, n < Len(s)
      PROVE  g[n + 1] = 10 * g[n] + Digits[s[n + 1]]
  <2>1. g[n + 1] = F[<<n, g[n]>>] /\ <<n, g[n]>> \in Nat \X Nat
    BY <1>4
  <2> QED
    BY <1>5, <2>1
<1> HIDE DEF F
<1> DEFINE f == [n \in 0..Len(s) |-> g[n]]
<1>6. ValueEquation(s, f)
  <2> SUFFICES ASSUME NEW n \in 0..Len(s)
               PROVE  g[n] = IF n = 0 THEN 0 ELSE 10 * f[n - 1] + Digits[s[n]]
    BY DEF ValueEquation
  <2>1. CASE n = 0
    BY <1>4, <2>1
  <2>2. CASE n # 0
    <3>1. PICK k : k = n - 1
      OBVIOUS
    <3>2. k \in Nat /\ k + 1 = n /\ k < Len(s) /\ k \in 0..Len(s)
      BY <1>1, <2>2, <3>1
    <3>3. g[k + 1] = 10 * g[k] + Digits[s[k + 1]] /\ f[k] = g[k]
      BY <1>5, <3>2
    <3> QED
      BY <2>2, <3>1, <3>2, <3>3
  <2> QED
    BY <2>1, <2>2
<1> HIDE DEF f
<1>7. ValueEquation(s, Values(s))
  BY <1>6, Zenon DEF Values
<1>8. Value(s) = Values(s)[Len(s)]
  BY Zenon DEF Value, Values, ValueEquation
<1>9. PICK h : h = Values(s)
  OBVIOUS
<1>10. \A n \in 0..Len(s) : h[n] = IF n = 0 THEN 0 ELSE 10 * h[n - 1] + Digits[s[n]]
  BY <1>7, <1>9 DEF ValueEquation
<1> DEFINE S == {n \in Nat : n <= Len(s) => h[n] \in Nat}
<1>11. 0 \in S
  BY <1>1, <1>10
<1>12. ASSUME NEW n \in Nat, n \in S
       PROVE  n + 1 \in S
  <2> SUFFICES ASSUME n + 1 <= Len(s)
               PROVE  h[n + 1] \in Nat
    OBVIOUS
  <2>1. n + 1 \in 0..Len(s) /\ n + 1 # 0 /\ n + 1 - 1 = n /\ n <= Len(s) /\ n + 1 \in 1..Len(s)
    BY <1>1
  <2>2. h[n + 1] = 10 * h[n] + Digits[s[n + 1]]
    BY <1>10, <2>1
  <2>3. PICK v \in Nat, d \in Nat : v = h[n] /\ d = Digits[s[n + 1]]
    BY <1>2, <1>12, <2>1
  <2>4. 10 * v + d \in Nat
    OBVIOUS
  <2> QED
    BY <2>2, <2>3, <2>4
<1> HIDE DEF S
<1>13. Nat \subseteq S
  BY <1>11, <1>12, SetInduction
<1>14. Values(s)[Len(s)] \in Nat
  BY <1>1, <1>9, <1>13 DEF S
<1> QED
  BY <1>8, <1>14

-----------------------------------------------------------------------------
(* The tokens and the errors of the pieces, of a text.                     *)

TokenIn(t, piece) ==
  make(piece.kind, Location(t, piece.at), piece.lexeme,
       IF piece.kind = <<"NUM">> /\ Value(piece.lexeme) <= MaxNumber
       THEN Value(piece.lexeme) ELSE 0)
WrongIn(t, piece) == [level |-> "Error", loc |-> Location(t, piece.at)]

TokenPlaces(t) == {a \in Text(t) : IsToken(PieceAt(t, a))}
WrongPlaces(t) == {a \in Text(t) : IsWrong(PieceAt(t, a))}
TokenMap(t) == [p \in Pieces(t) |-> TokenIn(t, p)]
WrongMap(t) == [p \in Pieces(t) |-> WrongIn(t, p)]

(* All the pieces before a place have been seen to.                        *)
Emitted(t, toks, errs, a) ==
  /\ Emits(t, TokenPlaces(t), TokenMap(t), toks, a)
  /\ Emits(t, WrongPlaces(t), WrongMap(t), errs, a)

LEMMA EmittedNothing ==
  ASSUME NEW t \in Seq(STRING)
  PROVE  Emitted(t, <<>>, <<>>, 1)
  BY EmitsNothing DEF Emitted

LEMMA EmittedPiece ==
  ASSUME NEW t \in Seq(STRING), NEW a \in Text(t), NEW toks, NEW errs, Emitted(t, toks, errs, a)
  PROVE  Emitted(t,
                 IF IsToken(PieceAt(t, a)) THEN Append(toks, TokenIn(t, PieceAt(t, a))) ELSE toks,
                 IF IsWrong(PieceAt(t, a)) THEN Append(errs, WrongIn(t, PieceAt(t, a))) ELSE errs,
                 Behind(t, a))
<1>1. PICK piece, b : piece = PieceAt(t, a) /\ b = Behind(t, a)
  OBVIOUS
<1>2. /\ a \in TokenPlaces(t) <=> IsToken(piece)
      /\ a \in WrongPlaces(t) <=> IsWrong(piece)
  BY <1>1 DEF TokenPlaces, WrongPlaces
<1>3. TokenMap(t)[piece] = TokenIn(t, piece) /\ WrongMap(t)[piece] = WrongIn(t, piece)
  <2>1. piece \in Pieces(t)
    BY <1>1 DEF Pieces
  <2> QED
    BY <2>1 DEF TokenMap, WrongMap
<1>4. IsToken(piece) => Emits(t, TokenPlaces(t), TokenMap(t), Append(toks, TokenIn(t, piece)), b)
  BY <1>1, <1>2, <1>3, EmitsOne DEF Emitted
<1>5. ~IsToken(piece) => Emits(t, TokenPlaces(t), TokenMap(t), toks, b)
  BY <1>1, <1>2, EmitsPassing DEF Emitted
<1>6. IsWrong(piece) => Emits(t, WrongPlaces(t), WrongMap(t), Append(errs, WrongIn(t, piece)), b)
  BY <1>1, <1>2, <1>3, EmitsOne DEF Emitted
<1>7. ~IsWrong(piece) => Emits(t, WrongPlaces(t), WrongMap(t), errs, b)
  BY <1>1, <1>2, EmitsPassing DEF Emitted
<1> QED
  BY <1>1, <1>4, <1>5, <1>6, <1>7, Zenon DEF Emitted

(* The kinds that are treated in a way of their own.                       *)
Special == {<<"Blank">>, <<"Comment">>, <<"OpenComment">>, <<"Error">>, <<"NUM">>}

LEMMA KindsApart ==
  /\ <<"Blank">> \notin {<<"Comment">>, <<"OpenComment">>, <<"Error">>, <<"NUM">>, <<"EOF">>}
  /\ <<"Comment">> \notin {<<"OpenComment">>, <<"Error">>, <<"NUM">>, <<"EOF">>}
  /\ <<"OpenComment">> \notin {<<"Error">>, <<"NUM">>, <<"EOF">>}
  /\ <<"Error">> \notin {<<"NUM">>, <<"EOF">>}
  /\ <<"NUM">> # <<"EOF">>
<1>1. PICK blank, comment, open, error, num, eof :
        /\ blank = <<"Blank">> /\ comment = <<"Comment">> /\ open = <<"OpenComment">>
        /\ error = <<"Error">> /\ num = <<"NUM">> /\ eof = <<"EOF">>
  OBVIOUS
<1>2. /\ blank[1] = "Blank" /\ comment[1] = "Comment" /\ open[1] = "OpenComment"
      /\ error[1] = "Error" /\ num[1] = "NUM" /\ eof[1] = "EOF"
  BY <1>1
<1>3. /\ blank \notin {comment, open, error, num, eof} /\ comment \notin {open, error, num, eof}
      /\ open \notin {error, num, eof} /\ error \notin {num, eof} /\ num # eof
  BY <1>2
<1> QED
  BY <1>1, <1>3

LEMMA PlainKinds ==
  /\ \A c : c \notin {"Blank", "Comment", "OpenComment", "Error", "NUM"} => <<c>> \notin Special
  /\ \A c, d : <<c, d>> \notin Special
  /\ \A s : Len(s) > 1 => s \notin Special
<1>1. ASSUME NEW c, c \notin {"Blank", "Comment", "OpenComment", "Error", "NUM"}
      PROVE  <<c>> \notin Special
  <2>1. PICK k : k = <<c>>
    OBVIOUS
  <2>2. k[1] = c
    BY <2>1
  <2>3. \A x : k = <<x>> => k[1] = x
    OBVIOUS
  <2>4. \A x \in {"Blank", "Comment", "OpenComment", "Error", "NUM"} : k # <<x>>
    BY <1>1, <2>2, <2>3
  <2> QED
    BY <2>1, <2>4, Zenon DEF Special
<1>2. \A s : Len(s) > 1 => s \notin Special
  <2>1. \A s \in Special : Len(s) = 1
    BY DEF Special
  <2>2. ASSUME NEW s \in Special, Len(s) > 1
        PROVE  FALSE
    <3>1. Len(s) = 1
      BY <2>1
    <3>2. 1 > 1
      BY <2>2, <3>1
    <3> QED
      BY <3>2
  <2> QED
    BY <2>2
<1>3. \A c, d : <<c, d>> \notin Special
  BY <1>2
<1> QED
  BY <1>1, <1>2, <1>3

(* What each piece is turned into.                                         *)
LEMMA EmittedKind ==
  ASSUME NEW t \in Seq(STRING), NEW a \in 1..Len(t), NEW toks, NEW errs,
         Emitted(t, toks, errs, a),
         NEW kind, NEW s, PieceAt(t, a) = Piece(kind, a, s)
  PROVE  LET token(value) == Append(toks, make(kind, Location(t, a), s, value))
             error == Append(errs, [level |-> "Error", loc |-> Location(t, a)])
             next == a + Len(s)
         IN /\ kind \in {<<"Blank">>, <<"Comment">>} => Emitted(t, toks, errs, next)
            /\ kind = <<"OpenComment">> => Emitted(t, toks, error, next)
            /\ kind = <<"Error">> => Emitted(t, token(0), error, next)
            /\ kind = <<"NUM">> /\ Value(s) \in Nat /\ Value(s) > MaxNumber =>
                 Emitted(t, token(0), error, next)
            /\ kind = <<"NUM">> /\ Value(s) \in 0..MaxNumber =>
                 Emitted(t, token(Value(s)), errs, next)
            /\ kind \notin Special => Emitted(t, token(0), errs, next)
<1>1. PICK piece : piece = PieceAt(t, a)
  OBVIOUS
<1>2. piece.kind = kind /\ piece.at = a /\ piece.lexeme = s
  BY <1>1 DEF Piece
<1>3. a \in Text(t) /\ Behind(t, a) = a + Len(s)
  BY <1>1, <1>2, LenProperties DEF Text, Behind
<1>4. PICK next : next = a + Len(s)
  OBVIOUS
<1>5. Emitted(t,
              IF IsToken(piece) THEN Append(toks, TokenIn(t, piece)) ELSE toks,
              IF IsWrong(piece) THEN Append(errs, WrongIn(t, piece)) ELSE errs,
              next)
  BY <1>1, <1>3, <1>4, EmittedPiece
<1>6. TokenIn(t, piece) =
        make(kind, Location(t, a), s,
             IF kind = <<"NUM">> /\ Value(s) <= MaxNumber THEN Value(s) ELSE 0)
  BY <1>2 DEF TokenIn
<1>7. WrongIn(t, piece) = [level |-> "Error", loc |-> Location(t, a)]
  BY <1>2 DEF WrongIn
<1>8. ASSUME kind \in {<<"Blank">>, <<"Comment">>}
      PROVE  Emitted(t, toks, errs, next)
  <2>1. ~IsToken(piece) /\ ~IsWrong(piece)
    BY <1>2, <1>8, KindsApart, Zenon DEF IsToken, IsWrong
  <2> QED
    BY <1>5, <2>1
<1>9. ASSUME kind = <<"OpenComment">>
      PROVE  Emitted(t, toks, Append(errs, [level |-> "Error", loc |-> Location(t, a)]), next)
  <2>1. ~IsToken(piece) /\ IsWrong(piece)
    BY <1>2, <1>9, KindsApart, Zenon DEF IsToken, IsWrong
  <2> QED
    BY <1>5, <1>7, <2>1
<1>10. ASSUME kind = <<"Error">>
       PROVE  Emitted(t, Append(toks, make(kind, Location(t, a), s, 0)),
                      Append(errs, [level |-> "Error", loc |-> Location(t, a)]), next)
  <2>1. IsToken(piece) /\ IsWrong(piece) /\ kind # <<"NUM">>
    BY <1>2, <1>10, KindsApart, Zenon DEF IsToken, IsWrong
  <2> QED
    BY <1>5, <1>6, <1>7, <2>1
<1>11. ASSUME kind = <<"NUM">>, Value(s) \in Nat, Value(s) > MaxNumber
       PROVE  Emitted(t, Append(toks, make(kind, Location(t, a), s, 0)),
                      Append(errs, [level |-> "Error", loc |-> Location(t, a)]), next)
  <2>1. IsToken(piece)
    BY <1>2, <1>11, KindsApart, Zenon DEF IsToken
  <2>2. IsWrong(piece)
    BY <1>2, <1>11, Zenon DEF IsWrong
  <2>3. ~(Value(s) <= MaxNumber)
    BY <1>11, CharacterAssumption
  <2> QED
    BY <1>5, <1>6, <1>7, <2>1, <2>2, <2>3
<1>12. ASSUME kind = <<"NUM">>, Value(s) \in 0..MaxNumber
       PROVE  Emitted(t, Append(toks, make(kind, Location(t, a), s, Value(s))), errs, next)
  <2>1. IsToken(piece)
    BY <1>2, <1>12, KindsApart, Zenon DEF IsToken
  <2>2. Value(s) <= MaxNumber /\ ~(Value(s) > MaxNumber)
    BY <1>12, CharacterAssumption
  <2>3. ~IsWrong(piece)
    BY <1>2, <1>12, <2>2, KindsApart, Zenon DEF IsWrong
  <2> QED
    BY <1>5, <1>6, <1>12, <2>1, <2>2, <2>3
<1>13. ASSUME kind \notin Special
       PROVE  Emitted(t, Append(toks, make(kind, Location(t, a), s, 0)), errs, next)
  <2>1. IsToken(piece) /\ ~IsWrong(piece) /\ kind # <<"NUM">>
    BY <1>2, <1>13, Zenon DEF IsToken, IsWrong, Special
  <2> QED
    BY <1>5, <1>6, <2>1
<1> QED
  BY <1>4, <1>8, <1>9, <1>10, <1>11, <1>12, <1>13

(* The end of the text.                                                    *)
LEMMA EmittedEnd ==
  ASSUME NEW t \in Seq(STRING), NEW toks, NEW errs, Emitted(t, toks, errs, Len(t) + 1)
  PROVE  Emitted(t, Append(toks, make(<<"EOF">>, Location(t, Len(t) + 1), <<>>, 0)), errs,
                 Len(t) + 2)
<1>1. PICK a : a = Len(t) + 1
  OBVIOUS
<1>2. a \in Text(t) /\ a > Len(t) /\ Len(t) \in Nat /\ a \in Nat
  BY <1>1, LenProperties DEF Text
<1>3. PieceAt(t, a) = Piece(<<"EOF">>, a, <<>>)
  BY <1>2, EndPiece
<1>4. PICK piece : piece = PieceAt(t, a)
  OBVIOUS
<1>5. piece.kind = <<"EOF">> /\ piece.at = a /\ piece.lexeme = <<>>
  BY <1>3, <1>4 DEF Piece
<1>6. IsToken(piece) /\ ~IsWrong(piece) /\ piece.kind # <<"NUM">>
  BY <1>5, KindsApart, Zenon DEF IsToken, IsWrong
<1>7. TokenIn(t, piece) = make(<<"EOF">>, Location(t, a), <<>>, 0)
  BY <1>5, <1>6 DEF TokenIn
<1>8. Behind(t, a) = Len(t) + 2
  BY <1>2 DEF Behind
<1> QED
  BY <1>1, <1>2, <1>4, <1>6, <1>7, <1>8, EmittedPiece

-----------------------------------------------------------------------------
(* What the automaton makes of a piece, when it has seen enough of it.     *)

WithToken(toks, t, a, kind, s, value) == Append(toks, make(kind, Location(t, a), s, value))
WithError(errs, t, a) == Append(errs, [level |-> "Error", loc |-> Location(t, a)])

LEMMA EmittedWord ==
  ASSUME NEW t \in Seq(STRING), NEW a \in 1..Len(t), NEW e \in a..Len(t),
         \A i \in a..e : t[i] \in Letters,
         e = Len(t) \/ t[e + 1] \notin Letters,
         NEW toks, NEW errs, Emitted(t, toks, errs, a), NEW w, w = SubSeq(t, a, e)
  PROVE  Emitted(t, WithToken(toks, t, a, keywordOrIdentifier(w), w, 0), errs, e + 1)
<1>1. IsWord(w) /\ PieceAt(t, a) = Piece(Kind(w), a, w)
  BY WordPiece
<1>2. Len(w) = e - a + 1 /\ w[1] = t[a] /\ t[a] \in Letters /\ a + Len(w) = e + 1
  <2>1. Len(w) = e - a + 1 /\ w[1] = t[a]
    BY PartFacts
  <2>2. a \in a..e /\ a + (e - a + 1) = e + 1
    BY LenProperties
  <2> QED
    BY <2>1, <2>2
<1>3. ~IsNumber(w)
  <2>1. IsNumber(w) => w[1] \in DOMAIN Digits
    BY EmptySeq DEF IsNumber
  <2> QED
    BY <1>2, <2>1, Classes
<1>4. Kind(w) = IF w \in Keywords THEN w ELSE <<"ID">>
  BY <1>1, <1>3, Zenon DEF Kind
<1>5. keywordOrIdentifier(w) = Kind(w)
  BY <1>4, Zenon DEF keywordOrIdentifier, Keywords
<1>6. Kind(w) \notin Special
  <2>1. CASE w \in Keywords
    <3>1. Len(w) > 1
      <4>1. \A c, d : Len(<<c, d>>) = 2
        OBVIOUS
      <4>2. \A c, d, f : Len(<<c, d, f>>) = 3
        OBVIOUS
      <4>3. \A c, d, f, g : Len(<<c, d, f, g>>) = 4
        OBVIOUS
      <4>4. \A c, d, f, g, h : Len(<<c, d, f, g, h>>) = 5
        OBVIOUS
      <4>5. \A c, d, f, g, h, i : Len(<<c, d, f, g, h, i>>) = 6
        OBVIOUS
      <4>6. Len(w) \in {2, 3, 4, 5, 6}
        BY <2>1, <4>1, <4>2, <4>3, <4>4, <4>5, Zenon DEF Keywords
      <4> QED
        BY <4>6
    <3> QED
      BY <1>4, <2>1, <3>1, PlainKinds
  <2>2. CASE w \notin Keywords
    <3>1. "ID" \notin {"Blank", "Comment", "OpenComment", "Error", "NUM"}
      OBVIOUS
    <3>2. <<"ID">> \notin Special
      BY <3>1, PlainKinds, Zenon
    <3> QED
      BY <1>4, <2>2, <3>2
  <2> QED
    BY <2>1, <2>2
<1> QED
  BY <1>1, <1>2, <1>5, <1>6, EmittedKind DEF WithToken

LEMMA EmittedNumber ==
  ASSUME NEW t \in Seq(STRING), NEW a \in 1..Len(t), NEW e \in a..Len(t),
         \A i \in a..e : t[i] \in DOMAIN Digits,
         e = Len(t) \/ t[e + 1] \notin DOMAIN Digits,
         NEW toks, NEW errs, Emitted(t, toks, errs, a), NEW w, w = SubSeq(t, a, e)
  PROVE  Emitted(t, WithToken(toks, t, a, <<"NUM">>, w, fromChars(w).value),
                 IF fromChars(w).ok THEN errs ELSE WithError(errs, t, a), e + 1)
<1>1. w \in Seq(DOMAIN Digits) /\ PieceAt(t, a) = Piece(<<"NUM">>, a, w)
  BY NumberPiece
<1>2. a + Len(w) = e + 1
  <2>1. Len(w) = e - a + 1
    BY PartFacts
  <2>2. a + (e - a + 1) = e + 1
    BY LenProperties
  <2> QED
    BY <2>1, <2>2
<1>3. Value(w) \in Nat
  BY <1>1, ValueType
<1>4. CASE Value(w) > MaxNumber
  <2>1. fromChars(w).value = 0 /\ ~fromChars(w).ok
    BY <1>4 DEF fromChars
  <2>2. Emitted(t, WithToken(toks, t, a, <<"NUM">>, w, 0), WithError(errs, t, a), e + 1)
    BY <1>1, <1>2, <1>3, <1>4, EmittedKind DEF WithToken, WithError
  <2> QED
    BY <2>1, <2>2
<1>5. CASE ~(Value(w) > MaxNumber)
  <2>1. fromChars(w).value = Value(w) /\ fromChars(w).ok
    BY <1>5 DEF fromChars
  <2>2. Value(w) \in 0..MaxNumber
    BY <1>3, <1>5, CharacterAssumption
  <2>3. Emitted(t, WithToken(toks, t, a, <<"NUM">>, w, Value(w)), errs, e + 1)
    BY <1>1, <1>2, <2>2, EmittedKind DEF WithToken
  <2> QED
    BY <2>1, <2>3
<1> QED
  BY <1>4, <1>5

LEMMA EmittedBlank ==
  ASSUME NEW t \in Seq(STRING), NEW a \in 1..Len(t), t[a] \in Blanks,
         NEW toks, NEW errs, Emitted(t, toks, errs, a)
  PROVE  Emitted(t, toks, errs, a + 1)
<1>1. PICK s : s = <<t[a]>>
  OBVIOUS
<1>2. Len(s) = 1 /\ PieceAt(t, a) = Piece(<<"Blank">>, a, s)
  BY <1>1, InnerPiece
<1> QED
  BY <1>2, EmittedKind

LEMMA EmittedError ==
  ASSUME NEW t \in Seq(STRING), NEW a \in 1..Len(t),
         \/ t[a] \notin Letters \union DOMAIN Digits \union Blanks \union SymbolCharacters
         \/ t[a] = "!" /\ (a = Len(t) \/ t[a + 1] # "="),
         NEW toks, NEW errs, Emitted(t, toks, errs, a)
  PROVE  Emitted(t, WithToken(toks, t, a, <<"Error">>, <<t[a]>>, 0), WithError(errs, t, a), a + 1)
<1>1. PICK s : s = <<t[a]>>
  OBVIOUS
<1>2. Len(s) = 1 /\ PieceAt(t, a) = Piece(<<"Error">>, a, s)
  BY <1>1, ErrorPiece
<1>3. Emitted(t, WithToken(toks, t, a, <<"Error">>, s, 0), WithError(errs, t, a), a + 1)
  BY <1>2, EmittedKind DEF WithToken, WithError
<1> QED
  BY <1>1, <1>3

LEMMA EmittedSimple ==
  ASSUME NEW t \in Seq(STRING), NEW a \in 1..Len(t), t[a] \in Simple, ~Opens(t, a),
         t[a] \in Comparing => a = Len(t) \/ t[a + 1] # "=",
         NEW toks, NEW errs, Emitted(t, toks, errs, a)
  PROVE  Emitted(t, WithToken(toks, t, a, <<t[a]>>, <<t[a]>>, 0), errs, a + 1)
<1>1. PICK s : s = <<t[a]>>
  OBVIOUS
<1>2. Len(s) = 1 /\ PieceAt(t, a) = Piece(s, a, s)
  BY <1>1, SimplePiece
<1>3. t[a] \notin {"Blank", "Comment", "OpenComment", "Error", "NUM"}
  BY DEF Simple
<1>4. s \notin Special
  BY <1>1, <1>3, PlainKinds, Zenon
<1>5. Emitted(t, WithToken(toks, t, a, s, s, 0), errs, a + 1)
  BY <1>2, <1>4, EmittedKind DEF WithToken
<1> QED
  BY <1>1, <1>5

LEMMA EmittedCompleted ==
  ASSUME NEW t \in Seq(STRING), NEW a \in 1..Len(t), t[a] \in Comparing,
         a < Len(t), t[a + 1] = "=",
         NEW toks, NEW errs, Emitted(t, toks, errs, a)
  PROVE  Emitted(t, WithToken(toks, t, a, <<t[a], "=">>, <<t[a], "=">>, 0), errs, a + 2)
<1>1. PICK s : s = <<t[a], "=">>
  OBVIOUS
<1>2. Len(s) = 2 /\ PieceAt(t, a) = Piece(s, a, s)
  BY <1>1, CompletedPiece
<1>3. s \notin Special
  BY <1>1, PlainKinds
<1>4. Emitted(t, WithToken(toks, t, a, s, s, 0), errs, a + 2)
  BY <1>2, <1>3, EmittedKind DEF WithToken
<1> QED
  BY <1>1, <1>4

LEMMA EmittedComment ==
  ASSUME NEW t \in Seq(STRING), NEW a \in 1..Len(t), Opens(t, a),
         NEW c \in Closings(t, a), \A p \in Closings(t, a) : c <= p,
         NEW toks, NEW errs, Emitted(t, toks, errs, a)
  PROVE  Emitted(t, toks, errs, c + 2)
<1>1. PICK s, d : s = SubSeq(t, a, d) /\ d = c + 1
  OBVIOUS
<1>2. d \in a..Len(t) /\ d + 1 = c + 2 /\ Len(t) \in Nat
  BY <1>1, LenProperties DEF Closings
<1>3. Len(s) = d - a + 1
  BY <1>1, <1>2, PartFacts
<1>4. a + Len(s) = c + 2
  <2>1. a + (d - a + 1) = d + 1
    BY <1>2
  <2> QED
    BY <1>2, <1>3, <2>1
<1>5. PieceAt(t, a) = Piece(<<"Comment">>, a, s)
  BY <1>1, CommentPiece
<1> QED
  BY <1>4, <1>5, EmittedKind

LEMMA EmittedOpenComment ==
  ASSUME NEW t \in Seq(STRING), NEW a \in 1..Len(t), Opens(t, a), Closings(t, a) = {},
         NEW toks, NEW errs, Emitted(t, toks, errs, a)
  PROVE  Emitted(t, WithToken(toks, t, Len(t) + 1, <<"EOF">>, <<>>, 0), WithError(errs, t, a),
                 Len(t) + 2)
<1>1. PICK s : s = SubSeq(t, a, Len(t))
  OBVIOUS
<1>2. Len(t) \in a..Len(t) /\ a + (Len(t) - a + 1) = Len(t) + 1
  BY LenProperties
<1>3. Len(s) = Len(t) - a + 1
  BY <1>1, <1>2, PartFacts
<1>4. a + Len(s) = Len(t) + 1
  BY <1>2, <1>3
<1>5. PieceAt(t, a) = Piece(<<"OpenComment">>, a, s)
  BY <1>1, InnerPiece
<1>6. Emitted(t, toks, WithError(errs, t, a), Len(t) + 1)
  BY <1>4, <1>5, EmittedKind DEF WithError
<1> QED
  BY <1>6, EmittedEnd DEF WithToken

-----------------------------------------------------------------------------
(* The inductive invariant.  A token or a comment that is being read began *)
(* at a place b, up to which all has been seen to; the lexer is where it   *)
(* says it is.                                                             *)

Located(t, p, l, c) == p \in Text(t) /\ Location(t, p) = [line |-> l, column |-> c]

Reads(t, p, x, b, class) == b < p /\ x = SubSeq(t, b, p - 1) /\ \A i \in b..(p - 1) : t[i] \in class
Follows(t, p, b, c) == p = b + 1 /\ t[b] = c
Inside(t, p, b) == Opens(t, b) /\ b + 2 <= p /\ \A q \in Closings(t, b) : p <= q
InsideStar(t, p, b) ==
  Opens(t, b) /\ b + 2 <= p - 1 /\ t[p - 1] = "*" /\ \A q \in Closings(t, b) : p - 1 <= q

Where(t, p, st, x, b) ==
  /\ st = "InIdentifier" => Reads(t, p, x, b, Letters)
  /\ st = "InNumber" => Reads(t, p, x, b, DOMAIN Digits)
  /\ st = "AfterSlash" => Follows(t, p, b, "/")
  /\ st = "AfterLess" => Follows(t, p, b, "<")
  /\ st = "AfterGreater" => Follows(t, p, b, ">")
  /\ st = "AfterAssign" => Follows(t, p, b, "=")
  /\ st = "AfterBang" => Follows(t, p, b, "!")
  /\ st = "InComment" => Inside(t, p, b)
  /\ st = "InCommentStar" => InsideStar(t, p, b)

SeenTo(t, p, st, b) ==
  IF st = "Start" THEN p ELSE IF st = "Stopped" THEN Len(t) + 2 ELSE b

Engine(e) == e = [diags |-> e.diags, errorCount |-> Len(e.diags), warningCount |-> 0]

Scans(t, p, l, c, st, s, x, toks, e) ==
  /\ t \in Texts /\ Located(t, p, l, c)
  /\ st \in States /\ x \in Seq(Letters) \union Seq(DOMAIN Digits)
  /\ Engine(e)
  /\ \E b \in 1..p :
       /\ s = Location(t, b) /\ Where(t, p, st, x, b)
       /\ Emitted(t, toks, e.diags, SeenTo(t, p, st, b))

LInv == Scans(source, pos, line, column, state, start, text, tokens, engine)

LEMMA TextIs ==
  ASSUME NEW t \in Texts, NEW p \in Text(t)
  PROVE  /\ t \in Seq(STRING) /\ Len(t) \in Nat
         /\ p \in Nat /\ 1 <= p /\ p <= Len(t) + 1
         /\ p <= Len(t) => p \in 1..Len(t) /\ p + 1 \in Text(t)
<1>1. t \in Seq(STRING)
  BY TextAssumption
<1> QED
  BY <1>1, LenProperties DEF Text

(* The position after the next character.                                  *)
LEMMA AdvanceFacts ==
  ASSUME LInv
  PROVE  /\ source \in Texts /\ pos \in Text(source) /\ here = Location(source, pos)
         /\ atEnd => pos = Len(source) + 1 /\ peek = "\\0"
         /\ ~atEnd => pos \in 1..Len(source) /\ peek = source[pos]
         /\ advance /\ ~atEnd => pos' = pos + 1 /\ Located(source, pos', line', column')
         /\ UNCHANGED position => pos' = pos /\ Located(source, pos', line', column')
<1>1. source \in Texts /\ Located(source, pos, line, column)
  BY DEF LInv, Scans
<1>2. pos \in Text(source) /\ here = Location(source, pos)
  BY <1>1 DEF Located, here
<1>3. /\ source \in Seq(STRING) /\ Len(source) \in Nat
      /\ pos \in Nat /\ 1 <= pos /\ pos <= Len(source) + 1
      /\ pos <= Len(source) => pos \in 1..Len(source) /\ pos + 1 \in Text(source)
  BY <1>1, <1>2, TextIs
<1>4. atEnd => pos = Len(source) + 1 /\ peek = "\\0"
  BY <1>3 DEF atEnd, peek
<1>5. ~atEnd => pos \in 1..Len(source) /\ peek = source[pos] /\ pos + 1 \in Text(source)
  BY <1>3 DEF atEnd, peek
<1>6. ASSUME advance, ~atEnd
      PROVE  pos' = pos + 1 /\ Located(source, pos', line', column')
  <2>1. /\ pos' = pos + 1
        /\ line' = IF source[pos] = "\n" THEN line + 1 ELSE line
        /\ column' = IF source[pos] = "\n" THEN 1 ELSE column + 1
    BY <1>5, <1>6 DEF advance
  <2>2. pos \in Nat \ {0}
    BY <1>3
  <2>3. Location(source, pos + 1) =
          IF source[pos] = "\n" THEN [line |-> line + 1, column |-> 1]
          ELSE [line |-> line, column |-> column + 1]
    <3>1. PICK h : h = Location(source, pos)
      OBVIOUS
    <3>2. h = [line |-> line, column |-> column]
      BY <1>1, <3>1 DEF Located
    <3>3. h.line = line /\ h.column = column
      BY <3>2
    <3>4. Location(source, pos + 1) =
            IF source[pos] = "\n" THEN [line |-> h.line + 1, column |-> 1]
            ELSE [line |-> h.line, column |-> h.column + 1]
      BY <2>2, <3>1, LocationNext
    <3> QED
      BY <3>3, <3>4
  <2>4. Location(source, pos') = [line |-> line', column |-> column']
    BY <2>1, <2>3
  <2> QED
    BY <1>5, <1>6, <2>1, <2>4 DEF Located
<1>7. ASSUME UNCHANGED position
      PROVE  pos' = pos /\ Located(source, pos', line', column')
  BY <1>1, <1>7 DEF position
<1> QED
  BY <1>1, <1>2, <1>4, <1>5, <1>6, <1>7

(* What has been reported.                                                 *)
LEMMA ReportFacts ==
  ASSUME NEW t \in Seq(STRING), NEW a, NEW toks, NEW e, NEW b, Engine(e), Emitted(t, toks, e.diags, a),
         NEW f, f = add(e, "Error", Location(t, b))
  PROVE  Engine(f) /\ f.diags = WithError(e.diags, t, b)
<1>1. PICK d : d = e.diags
  OBVIOUS
<1>2. d \in Seq({WrongMap(t)[p] : p \in Pieces(t)})
  BY <1>1 DEF Emitted, Emits
<1>3. PICK x : x = [level |-> "Error", loc |-> Location(t, b)]
  OBVIOUS
<1>4. Len(d) \in Nat /\ Len(Append(d, x)) = Len(d) + 1
  BY <1>2
<1>5. e.errorCount = Len(d) /\ e.warningCount = 0
  BY <1>1 DEF Engine
<1>6. f = [diags |-> Append(d, x), errorCount |-> Len(d) + 1, warningCount |-> 0 + 0]
  BY <1>1, <1>3, <1>5 DEF add
<1>7. f = [diags |-> Append(d, x), errorCount |-> Len(Append(d, x)), warningCount |-> 0]
  BY <1>4, <1>6
<1>8. f.diags = Append(d, x)
  BY <1>7
<1> QED
  BY <1>1, <1>3, <1>7, <1>8 DEF Engine, WithError

(* The characters the automaton knows.                                     *)
LEMMA Known ==
  /\ DOMAIN Pending \union Singles = SymbolCharacters
  /\ \A c \in Singles : c \in Simple /\ c \notin Comparing /\ c # "/"
  /\ {"/", "<", ">", "="} \subseteq Simple
  /\ Comparing = {"<", ">", "=", "!"} /\ "/" \notin Comparing
  /\ Pending["/"] = "AfterSlash" /\ Pending["<"] = "AfterLess" /\ Pending[">"] = "AfterGreater"
  /\ Pending["="] = "AfterAssign" /\ Pending["!"] = "AfterBang"
<1>1. DOMAIN Pending = {"/", "<", ">", "=", "!"}
  BY Zenon DEF Pending
<1>2. DOMAIN Pending \union Singles = SymbolCharacters
  BY <1>1, Zenon DEF Singles, SymbolCharacters, Simple, Comparing
<1>3. \A c \in Singles : c \in Simple
  BY Zenon DEF Singles, Simple
<1>4. \A c \in Singles : c \notin Comparing /\ c # "/"
  BY Zenon DEF Singles, Comparing
<1>5. {"/", "<", ">", "="} \subseteq Simple /\ Comparing = {"<", ">", "=", "!"}
      /\ "/" \notin Comparing
  BY Zenon DEF Simple, Comparing
<1>6. Pending["/"] = "AfterSlash" /\ Pending["<"] = "AfterLess" /\ Pending[">"] = "AfterGreater"
      /\ Pending["="] = "AfterAssign" /\ Pending["!"] = "AfterBang"
  BY DEF Pending
<1> QED
  BY <1>2, <1>3, <1>4, <1>5, <1>6

-----------------------------------------------------------------------------
(* The invariant, put together.                                            *)

LEMMA ScansAt ==
  ASSUME NEW t \in Texts, NEW p, NEW l, NEW c, Located(t, p, l, c),
         NEW st \in States, NEW x \in Seq(Letters) \union Seq(DOMAIN Digits),
         NEW toks, NEW e, Engine(e),
         NEW b \in 1..p, NEW s, s = Location(t, b), Where(t, p, st, x, b),
         Emitted(t, toks, e.diags, SeenTo(t, p, st, b))
  PROVE  Scans(t, p, l, c, st, s, x, toks, e)
  BY DEF Scans

LEMMA ScansStart ==
  ASSUME NEW t \in Texts, NEW p, NEW l, NEW c, Located(t, p, l, c),
         NEW x \in Seq(Letters) \union Seq(DOMAIN Digits),
         NEW toks, NEW e, Engine(e), NEW b \in 1..p, NEW s, s = Location(t, b),
         Emitted(t, toks, e.diags, p)
  PROVE  Scans(t, p, l, c, "Start", s, x, toks, e)
<1>1. "Start" \in States /\ SeenTo(t, p, "Start", b) = p
  BY Zenon DEF States, SeenTo
<1>2. Where(t, p, "Start", x, b)
  BY DEF Where
<1> QED
  BY <1>1, <1>2, ScansAt

LEMMA ScansStopped ==
  ASSUME NEW t \in Texts, NEW p, NEW l, NEW c, Located(t, p, l, c),
         NEW x \in Seq(Letters) \union Seq(DOMAIN Digits),
         NEW toks, NEW e, Engine(e), NEW b \in 1..p, NEW s, s = Location(t, b),
         Emitted(t, toks, e.diags, Len(t) + 2)
  PROVE  Scans(t, p, l, c, "Stopped", s, x, toks, e)
<1>1. "Stopped" \in States /\ SeenTo(t, p, "Stopped", b) = Len(t) + 2
  BY DEF States, SeenTo
<1>2. Where(t, p, "Stopped", x, b)
  BY DEF Where
<1> QED
  BY <1>1, <1>2, ScansAt

(* What it says of the state the lexer is in.                              *)
LEMMA ScansFacts ==
  ASSUME LInv
  PROVE  /\ source \in Texts /\ source \in Seq(STRING) /\ Engine(engine)
         /\ text \in Seq(Letters) \union Seq(DOMAIN Digits)
         /\ \E b \in 1..pos :
              /\ start = Location(source, b) /\ Where(source, pos, state, text, b)
              /\ Emitted(source, tokens, engine.diags, SeenTo(source, pos, state, b))
  BY TextAssumption DEF LInv, Scans

-----------------------------------------------------------------------------
(* Each action keeps the invariant.                                        *)

LEMMA InitScans ==
  ASSUME Init
  PROVE  LInv
<1>1. source \in Texts /\ pos = 1 /\ line = 1 /\ column = 1 /\ state = "Start" /\ text = <<>>
      /\ tokens = <<>> /\ engine = NewEngine /\ start = [line |-> 1, column |-> 1]
  BY DEF Init, here
<1>2. source \in Seq(STRING) /\ pos \in Text(source)
  BY <1>1, TextAssumption, LenProperties DEF Text
<1>3. Located(source, pos, line, column) /\ start = Location(source, 1)
  BY <1>1, <1>2, LocationFirst DEF Located
<1>4. engine.diags = <<>> /\ Engine(engine)
  BY <1>1 DEF NewEngine, Engine
<1>5. Emitted(source, tokens, engine.diags, pos)
  BY <1>1, <1>2, <1>4, EmittedNothing
<1>6. text \in Seq(Letters) \union Seq(DOMAIN Digits) /\ 1 \in 1..pos
  BY <1>1
<1>7. Scans(source, pos, line, column, "Start", start, text, tokens, engine)
  BY <1>1, <1>3, <1>4, <1>5, <1>6, ScansStart
<1> QED
  BY <1>1, <1>7 DEF LInv

LEMMA StartFacts ==
  ASSUME LInv, state = "Start"
  PROVE  /\ Emitted(source, tokens, engine.diags, pos)
         /\ \E b \in 1..pos : start = Location(source, b)
  BY ScansFacts DEF SeenTo

(* A token of letters or digits, or a symbol, begins.                      *)
LEMMA BeginScans ==
  ASSUME LInv, state = "Start", ~atEnd, advance, Keep, UNCHANGED <<source, tokens>>,
         start' = here,
         text' \in Seq(Letters) \union Seq(DOMAIN Digits),
         state' \in States \ {"Start", "Stopped"},
         Where(source, pos', state', text', pos)
  PROVE  LInv'
<1>1. pos \in 1..Len(source) /\ pos' = pos + 1 /\ Located(source, pos', line', column')
  BY AdvanceFacts
<1>2. source' = source /\ tokens' = tokens /\ engine' = engine
  BY DEF Keep
<1>3. start' = Location(source, pos) /\ pos \in 1..pos'
  BY <1>1, AdvanceFacts
<1>4. Emitted(source, tokens', engine'.diags, SeenTo(source, pos', state', pos))
  BY <1>2, StartFacts DEF SeenTo
<1>5. source \in Texts /\ Engine(engine')
  BY <1>2, ScansFacts
<1>6. Scans(source, pos', line', column', state', start', text', tokens', engine')
  BY <1>1, <1>3, <1>4, <1>5, ScansAt
<1> QED
  BY <1>2, <1>6 DEF LInv

LEMMA ScanWordScans ==
  ASSUME LInv, ScanWord
  PROVE  LInv'
<1>1. pos \in 1..Len(source) /\ peek = source[pos] /\ pos' = pos + 1 /\ source \in Seq(STRING)
  BY AdvanceFacts, ScansFacts DEF ScanWord
<1>2. text' = <<source[pos]>> /\ source[pos] \in Letters /\ state' = "InIdentifier"
  BY <1>1 DEF ScanWord, Begin
<1>3. SubSeq(source, pos, pos) = <<source[pos]>> /\ pos' - 1 = pos /\ pos < pos'
  BY <1>1, OneCharacter
<1>4. Reads(source, pos', text', pos, Letters)
  BY <1>1, <1>2, <1>3 DEF Reads
<1>5. Where(source, pos', state', text', pos) /\ state' \in States \ {"Start", "Stopped"}
  BY <1>2, <1>4 DEF Where, States
<1>6. text' \in Seq(Letters)
  BY <1>2, PairFacts
<1> QED
  BY <1>5, <1>6, BeginScans DEF ScanWord, Begin

LEMMA ScanNumberScans ==
  ASSUME LInv, ScanNumber
  PROVE  LInv'
<1>1. pos \in 1..Len(source) /\ peek = source[pos] /\ pos' = pos + 1 /\ source \in Seq(STRING)
  BY AdvanceFacts, ScansFacts DEF ScanNumber
<1>2. text' = <<source[pos]>> /\ source[pos] \in DOMAIN Digits /\ state' = "InNumber"
  BY <1>1 DEF ScanNumber, Begin
<1>3. SubSeq(source, pos, pos) = <<source[pos]>> /\ pos' - 1 = pos /\ pos < pos'
  BY <1>1, OneCharacter
<1>4. Reads(source, pos', text', pos, DOMAIN Digits)
  BY <1>1, <1>2, <1>3 DEF Reads
<1>5. Where(source, pos', state', text', pos) /\ state' \in States \ {"Start", "Stopped"}
  BY <1>2, <1>4 DEF Where, States
<1>6. text' \in Seq(DOMAIN Digits)
  BY <1>2, PairFacts
<1> QED
  BY <1>5, <1>6, BeginScans DEF ScanNumber, Begin

LEMMA ScanPendingScans ==
  ASSUME LInv, ScanPending
  PROVE  LInv'
<1>1. pos \in 1..Len(source) /\ peek = source[pos] /\ pos' = pos + 1
  BY AdvanceFacts DEF ScanPending
<1>2. source[pos] \in DOMAIN Pending /\ state' = Pending[source[pos]] /\ text' = text
  BY <1>1 DEF ScanPending
<1>3. PICK c : c = source[pos]
  OBVIOUS
<1>4. Follows(source, pos', pos, c)
  BY <1>1, <1>3 DEF Follows
<1>5. c \in {"/", "<", ">", "=", "!"}
  BY <1>2, <1>3, Zenon DEF Pending
<1>6. Where(source, pos', state', text', pos) /\ state' \in States \ {"Start", "Stopped"}
  <2>1. CASE c = "/"
    <3>1. state' = "AfterSlash"
      BY <1>2, <1>3, <2>1, Known
    <3> QED
      BY <1>4, <2>1, <3>1 DEF Where, States
  <2>2. CASE c = "<"
    <3>1. state' = "AfterLess"
      BY <1>2, <1>3, <2>2, Known
    <3> QED
      BY <1>4, <2>2, <3>1 DEF Where, States
  <2>3. CASE c = ">"
    <3>1. state' = "AfterGreater"
      BY <1>2, <1>3, <2>3, Known
    <3> QED
      BY <1>4, <2>3, <3>1 DEF Where, States
  <2>4. CASE c = "="
    <3>1. state' = "AfterAssign"
      BY <1>2, <1>3, <2>4, Known
    <3> QED
      BY <1>4, <2>4, <3>1 DEF Where, States
  <2>5. CASE c = "!"
    <3>1. state' = "AfterBang"
      BY <1>2, <1>3, <2>5, Known
    <3> QED
      BY <1>4, <2>5, <3>1 DEF Where, States
  <2> QED
    BY <1>5, <2>1, <2>2, <2>3, <2>4, <2>5
<1>7. text' \in Seq(Letters) \union Seq(DOMAIN Digits)
  BY <1>2, ScansFacts
<1> QED
  BY <1>6, <1>7, BeginScans DEF ScanPending

(* A token is returned, and the next one will be asked for.                *)
LEMMA ReturnScans ==
  ASSUME LInv, NEW tok, return(tok), tok.kind # <<"EOF">>,
         Located(source, pos', line', column'), pos' \in Nat, pos' >= pos,
         Engine(engine'), Emitted(source, Append(tokens, tok), engine'.diags, pos')
  PROVE  LInv'
<1>1. /\ tokens' = Append(tokens, tok) /\ state' = "Start"
      /\ source' = source /\ start' = start /\ text' = text
  BY DEF return
<1>2. PICK b \in 1..pos : start = Location(source, b)
  BY ScansFacts
<1>3. b \in 1..pos'
  BY AdvanceFacts, ScansFacts, TextIs
<1>4. source \in Texts /\ text' \in Seq(Letters) \union Seq(DOMAIN Digits)
  BY <1>1, ScansFacts
<1>5. Scans(source, pos', line', column', "Start", start', text', tokens', engine')
  BY <1>1, <1>2, <1>3, <1>4, ScansStart
<1> QED
  BY <1>1, <1>5 DEF LInv

(* The last token is returned.                                             *)
LEMMA StopScans ==
  ASSUME LInv, NEW tok, return(tok), tok.kind = <<"EOF">>, UNCHANGED position,
         Engine(engine'), Emitted(source, Append(tokens, tok), engine'.diags, Len(source) + 2)
  PROVE  LInv'
<1>1. /\ tokens' = Append(tokens, tok) /\ state' = "Stopped"
      /\ source' = source /\ start' = start /\ text' = text
  BY DEF return
<1>2. PICK b \in 1..pos : start = Location(source, b)
  BY ScansFacts
<1>3. pos' = pos /\ Located(source, pos', line', column')
  BY AdvanceFacts
<1>4. source \in Texts /\ text' \in Seq(Letters) \union Seq(DOMAIN Digits)
  BY <1>1, ScansFacts
<1>5. Scans(source, pos', line', column', "Stopped", start', text', tokens', engine')
  BY <1>1, <1>2, <1>3, <1>4, ScansStopped
<1> QED
  BY <1>1, <1>5 DEF LInv

LEMMA MadeKind ==
  ASSUME NEW kind, NEW loc, NEW lexeme, NEW value
  PROVE  make(kind, loc, lexeme, value).kind = kind
  BY DEF make

LEMMA NotTheEnd ==
  /\ \A c : c # "EOF" => <<c>> # <<"EOF">>
  /\ \A s : s[1] # "EOF" => s # <<"EOF">>
<1>1. PICK eof : eof = <<"EOF">>
  OBVIOUS
<1>2. eof[1] = "EOF"
  BY <1>1
<1>3. \A s : s[1] # "EOF" => s # eof
  BY <1>2
<1>4. \A c : <<c>>[1] = c
  OBVIOUS
<1> QED
  BY <1>1, <1>3, <1>4

LEMMA ScanEndScans ==
  ASSUME LInv, ScanEnd
  PROVE  LInv'
<1>1. pos = Len(source) + 1 /\ here = Location(source, pos)
  BY AdvanceFacts DEF ScanEnd
<1>2. PICK tok : tok = make(<<"EOF">>, here, <<>>, 0)
  OBVIOUS
<1>3. Emitted(source, tokens, engine.diags, Len(source) + 1)
  BY <1>1, StartFacts DEF ScanEnd
<1>4. Emitted(source, Append(tokens, tok), engine.diags, Len(source) + 2)
  BY <1>1, <1>2, <1>3, EmittedEnd, ScansFacts
<1>5. return(tok) /\ tok.kind = <<"EOF">> /\ UNCHANGED position /\ engine' = engine
  BY <1>2, MadeKind DEF ScanEnd, Keep
<1> QED
  BY <1>4, <1>5, StopScans, ScansFacts

LEMMA ScanBlankScans ==
  ASSUME LInv, ScanBlank
  PROVE  LInv'
<1>1. /\ pos \in 1..Len(source) /\ source[pos] \in Blanks
      /\ pos' = pos + 1 /\ Located(source, pos', line', column')
  BY AdvanceFacts DEF ScanBlank
<1>2. /\ state' = "Start" /\ source' = source /\ start' = start /\ text' = text
      /\ tokens' = tokens /\ engine' = engine
  BY DEF ScanBlank, Goto, Keep
<1>3. Emitted(source, tokens', engine'.diags, pos')
  BY <1>1, <1>2, StartFacts, EmittedBlank, ScansFacts DEF ScanBlank
<1>4. PICK b \in 1..pos : start' = Location(source, b)
  BY <1>2, ScansFacts
<1>5. b \in 1..pos'
  BY <1>1
<1>6. source \in Texts /\ text' \in Seq(Letters) \union Seq(DOMAIN Digits) /\ Engine(engine')
  BY <1>2, ScansFacts
<1>7. Scans(source, pos', line', column', "Start", start', text', tokens', engine')
  BY <1>1, <1>3, <1>4, <1>5, <1>6, ScansStart
<1> QED
  BY <1>2, <1>7 DEF LInv

LEMMA ScanSingleScans ==
  ASSUME LInv, ScanSingle
  PROVE  LInv'
<1>1. /\ pos \in 1..Len(source) /\ peek = source[pos] /\ here = Location(source, pos)
      /\ pos' = pos + 1 /\ Located(source, pos', line', column')
  BY AdvanceFacts DEF ScanSingle
<1>2. source[pos] \in Singles
  BY <1>1 DEF ScanSingle
<1>3. /\ source[pos] \in Simple /\ source[pos] \notin Comparing /\ ~Opens(source, pos)
  BY <1>2, Known DEF Opens
<1>4. PICK tok : tok = make(<<source[pos]>>, Location(source, pos), <<source[pos]>>, 0)
  OBVIOUS
<1>5. return(tok) /\ engine' = engine
  BY <1>1, <1>4 DEF ScanSingle, Keep
<1>6. Emitted(source, WithToken(tokens, source, pos, <<source[pos]>>, <<source[pos]>>, 0),
              engine.diags, pos + 1)
  BY <1>1, <1>3, EmittedSimple, StartFacts, ScansFacts DEF ScanSingle
<1>7. Emitted(source, Append(tokens, tok), engine'.diags, pos')
  BY <1>1, <1>4, <1>5, <1>6 DEF WithToken
<1>8. tok.kind # <<"EOF">>
  <2>1. source[pos] # "EOF"
    BY <1>2, Zenon DEF Singles
  <2> QED
    BY <1>4, <2>1, MadeKind, NotTheEnd
<1>9. pos' \in Nat /\ pos' >= pos /\ Engine(engine')
  BY <1>1, <1>5, ScansFacts
<1> QED
  BY <1>1, <1>5, <1>7, <1>8, <1>9, ReturnScans

LEMMA ScanInvalidScans ==
  ASSUME LInv, ScanInvalid
  PROVE  LInv'
<1>1. /\ pos \in 1..Len(source) /\ peek = source[pos] /\ here = Location(source, pos)
      /\ pos' = pos + 1 /\ Located(source, pos', line', column')
  BY AdvanceFacts DEF ScanInvalid
<1>2. source[pos] \notin Letters \union DOMAIN Digits \union Blanks \union SymbolCharacters
  BY <1>1, Known DEF ScanInvalid
<1>3. PICK tok : tok = make(<<"Error">>, Location(source, pos), <<source[pos]>>, 0)
  OBVIOUS
<1>4. return(tok) /\ engine' = add(engine, "Error", Location(source, pos))
  BY <1>1, <1>3 DEF ScanInvalid, Report
<1>5. Emitted(source, tokens, engine.diags, pos) /\ source \in Seq(STRING) /\ Engine(engine)
  BY StartFacts, ScansFacts DEF ScanInvalid
<1>6. Emitted(source, WithToken(tokens, source, pos, <<"Error">>, <<source[pos]>>, 0),
              WithError(engine.diags, source, pos), pos + 1)
  BY <1>1, <1>2, <1>5, EmittedError
<1>7. Engine(engine') /\ engine'.diags = WithError(engine.diags, source, pos)
  BY <1>4, <1>5, ReportFacts
<1>8. Emitted(source, Append(tokens, tok), engine'.diags, pos')
  BY <1>1, <1>3, <1>6, <1>7 DEF WithToken
<1>9. tok.kind # <<"EOF">> /\ pos' \in Nat /\ pos' >= pos
  BY <1>1, <1>3, MadeKind, KindsApart
<1> QED
  BY <1>1, <1>4, <1>7, <1>8, <1>9, ReturnScans

LEMMA PartGrows ==
  ASSUME NEW t \in Seq(STRING), NEW b \in Nat \ {0}, NEW p \in 1..Len(t), b < p
  PROVE  SubSeq(t, b, p) = Append(SubSeq(t, b, p - 1), t[p])
<1>1. b \in 1..Len(t) /\ p \in b..Len(t) /\ p - 1 \in b..Len(t)
  BY LenProperties
<1>2. SubSeq(t, b, p) = SubSeq(t, b, p - 1) \o <<t[p]>>
  BY <1>1, SubSeqRecursiveSecond
<1>3. SubSeq(t, b, p - 1) \in Seq(STRING) /\ t[p] \in STRING
  BY <1>1, PartFacts, ElementOfSeq
<1> QED
  BY <1>2, <1>3, AppendIsConcat

(* A letter or a digit more.                                               *)
LEMMA ReadsMore ==
  ASSUME NEW t \in Texts, NEW p \in 1..Len(t), NEW class, NEW x, NEW b \in 1..p,
         Reads(t, p, x, b, class), t[p] \in class
  PROVE  Reads(t, p + 1, Append(x, t[p]), b, class)
<1>1. b \in Nat \ {0} /\ p \in Nat /\ b < p + 1 /\ p + 1 - 1 = p /\ t \in Seq(STRING)
  BY TextAssumption
<1>2. b < p /\ x = SubSeq(t, b, p - 1) /\ \A i \in b..(p - 1) : t[i] \in class
  BY DEF Reads
<1>3. SubSeq(t, b, p) = Append(x, t[p])
  BY <1>1, <1>2, PartGrows
<1>4. \A i \in b..p : t[i] \in class
  <2> SUFFICES ASSUME NEW i \in b..p PROVE t[i] \in class
    OBVIOUS
  <2>1. i = p \/ i \in b..(p - 1)
    BY <1>1
  <2> QED
    BY <1>2, <2>1
<1> QED
  BY <1>1, <1>3, <1>4 DEF Reads

(* The end of what it reads.                                               *)
LEMMA ReadsUpTo ==
  ASSUME NEW t \in Texts, NEW p \in Text(t), NEW class, NEW x, NEW b \in 1..p,
         Reads(t, p, x, b, class), p = Len(t) + 1 \/ t[p] \notin class
  PROVE  /\ b \in 1..Len(t) /\ p - 1 \in b..Len(t) /\ p - 1 + 1 = p
         /\ \A i \in b..(p - 1) : t[i] \in class
         /\ p - 1 = Len(t) \/ t[p - 1 + 1] \notin class
         /\ x = SubSeq(t, b, p - 1)
<1>1. Len(t) \in Nat /\ p \in Nat /\ p <= Len(t) + 1 /\ b < p
  BY TextIs DEF Reads
<1>2. b \in 1..Len(t) /\ p - 1 \in b..Len(t) /\ p - 1 + 1 = p
  BY <1>1
<1>3. p = Len(t) + 1 => p - 1 = Len(t)
  BY <1>1
<1> QED
  BY <1>2, <1>3 DEF Reads

(* The token that is read goes on.                                         *)
LEMMA MoreScans ==
  ASSUME LInv, ~atEnd, advance, Keep, UNCHANGED <<source, start, tokens>>,
         state \notin {"Start", "Stopped"}, state' \in States \ {"Start", "Stopped"},
         text' \in Seq(Letters) \union Seq(DOMAIN Digits),
         NEW b \in 1..pos, start = Location(source, b),
         Emitted(source, tokens, engine.diags, SeenTo(source, pos, state, b)),
         Where(source, pos', state', text', b)
  PROVE  LInv'
<1>1. pos \in 1..Len(source) /\ pos' = pos + 1 /\ Located(source, pos', line', column')
  BY AdvanceFacts
<1>2. source' = source /\ start' = start /\ tokens' = tokens /\ engine' = engine
  BY DEF Keep
<1>3. Emitted(source, tokens', engine'.diags, SeenTo(source, pos', state', b))
  BY <1>2 DEF SeenTo
<1>4. b \in 1..pos' /\ start' = Location(source, b)
  BY <1>1, <1>2
<1>5. source \in Texts /\ Engine(engine')
  BY <1>2, ScansFacts
<1>6. Scans(source, pos', line', column', state', start', text', tokens', engine')
  BY <1>1, <1>3, <1>4, <1>5, ScansAt
<1> QED
  BY <1>2, <1>6 DEF LInv

LEMMA InIdentifierScans ==
  ASSUME LInv, InIdentifier
  PROVE  LInv'
<1>1. state = "InIdentifier" /\ engine' = engine
  BY DEF InIdentifier, Keep
<1>2. PICK b \in 1..pos :
        /\ start = Location(source, b) /\ Where(source, pos, state, text, b)
        /\ Emitted(source, tokens, engine.diags, SeenTo(source, pos, state, b))
  BY ScansFacts
<1>3. Reads(source, pos, text, b, Letters) /\ Emitted(source, tokens, engine.diags, b)
  BY <1>1, <1>2 DEF Where, SeenTo
<1>4. source \in Texts /\ source \in Seq(STRING) /\ pos \in Text(source)
  BY ScansFacts, AdvanceFacts
<1>5. CASE peek \in Letters /\ text' = Append(text, peek) /\ advance
           /\ UNCHANGED <<source, state, start, tokens>>
  <2>1. ~atEnd
    BY <1>5, AdvanceFacts, TextAssumption
  <2>2. pos \in 1..Len(source) /\ peek = source[pos] /\ pos' = pos + 1
    BY <1>5, <2>1, AdvanceFacts
  <2>3. Reads(source, pos', text', b, Letters)
    BY <1>3, <1>4, <1>5, <2>2, ReadsMore
  <2>4. state' = "InIdentifier"
    BY <1>1, <1>5
  <2>5. Where(source, pos', state', text', b) /\ state' \in States \ {"Start", "Stopped"}
    BY <2>3, <2>4 DEF Where, States
  <2>6. text' \in Seq(Letters)
    <3>1. text' = SubSeq(source, b, pos' - 1) /\ \A i \in b..(pos' - 1) : source[i] \in Letters
      BY <2>3 DEF Reads
    <3>2. pos' - 1 = pos /\ b \in 1..Len(source) /\ pos \in b..Len(source)
      BY <1>4, <2>2, LenProperties
    <3> QED
      BY <1>4, <3>1, <3>2, PartOfClass
  <2> QED
    BY <1>1, <1>2, <1>5, <2>1, <2>5, <2>6, MoreScans DEF InIdentifier
<1>6. CASE peek \notin Letters /\ Return(keywordOrIdentifier(text), text) /\ UNCHANGED position
  <2>1. pos = Len(source) + 1 \/ source[pos] \notin Letters
    BY <1>6, AdvanceFacts
  <2>2. /\ b \in 1..Len(source) /\ pos - 1 \in b..Len(source) /\ pos - 1 + 1 = pos
        /\ \A i \in b..(pos - 1) : source[i] \in Letters
        /\ pos - 1 = Len(source) \/ source[pos - 1 + 1] \notin Letters
        /\ text = SubSeq(source, b, pos - 1)
    BY <1>3, <1>4, <2>1, ReadsUpTo
  <2>3. PICK tok : tok = make(keywordOrIdentifier(text), Location(source, b), text, 0)
    OBVIOUS
  <2>4. return(tok)
    BY <1>2, <1>6, <2>3 DEF Return
  <2>5. Emitted(source, WithToken(tokens, source, b, keywordOrIdentifier(text), text, 0),
                engine.diags, pos)
    BY <1>3, <1>4, <2>2, EmittedWord
  <2>6. Emitted(source, Append(tokens, tok), engine'.diags, pos)
    BY <1>1, <2>3, <2>5 DEF WithToken
  <2>7. tok.kind # <<"EOF">>
    <3>1. tok.kind = keywordOrIdentifier(text)
      BY <2>3, MadeKind
    <3>2. \A c, d : <<c, d>> # <<"EOF">>
      OBVIOUS
    <3>3. /\ <<"e", "l", "s", "e">> # <<"EOF">> /\ <<"i", "f">> # <<"EOF">>
          /\ <<"i", "n", "t">> # <<"EOF">> /\ <<"r", "e", "t", "u", "r", "n">> # <<"EOF">>
          /\ <<"v", "o", "i", "d">> # <<"EOF">> /\ <<"w", "h", "i", "l", "e">> # <<"EOF">>
          /\ <<"ID">> # <<"EOF">>
      OBVIOUS
    <3> QED
      BY <3>1, <3>3, Zenon DEF keywordOrIdentifier
  <2>8. pos' = pos /\ Located(source, pos', line', column') /\ pos' \in Nat /\ pos' >= pos
    BY <1>4, <1>6, AdvanceFacts, TextIs
  <2> QED
    BY <1>1, <2>4, <2>6, <2>7, <2>8, ReturnScans, ScansFacts
<1> QED
  BY <1>5, <1>6 DEF InIdentifier

LEMMA InNumberScans ==
  ASSUME LInv, InNumber
  PROVE  LInv'
<1>1. state = "InNumber"
  BY DEF InNumber
<1>2. PICK b \in 1..pos :
        /\ start = Location(source, b) /\ Where(source, pos, state, text, b)
        /\ Emitted(source, tokens, engine.diags, SeenTo(source, pos, state, b))
  BY ScansFacts
<1>3. Reads(source, pos, text, b, DOMAIN Digits) /\ Emitted(source, tokens, engine.diags, b)
  BY <1>1, <1>2 DEF Where, SeenTo
<1>4. source \in Texts /\ source \in Seq(STRING) /\ pos \in Text(source) /\ Engine(engine)
  BY ScansFacts, AdvanceFacts
<1>5. CASE peek \in DOMAIN Digits /\ text' = Append(text, peek) /\ Keep /\ advance
           /\ UNCHANGED <<source, state, start, tokens>>
  <2>1. ~atEnd
    BY <1>5, AdvanceFacts, TextAssumption
  <2>2. pos \in 1..Len(source) /\ peek = source[pos] /\ pos' = pos + 1
    BY <1>5, <2>1, AdvanceFacts
  <2>3. Reads(source, pos', text', b, DOMAIN Digits)
    BY <1>3, <1>4, <1>5, <2>2, ReadsMore
  <2>4. state' = "InNumber"
    BY <1>1, <1>5
  <2>5. Where(source, pos', state', text', b) /\ state' \in States \ {"Start", "Stopped"}
    BY <2>3, <2>4 DEF Where, States
  <2>6. text' \in Seq(DOMAIN Digits)
    <3>1. /\ text' = SubSeq(source, b, pos' - 1)
          /\ \A i \in b..(pos' - 1) : source[i] \in DOMAIN Digits
      BY <2>3 DEF Reads
    <3>2. pos' - 1 = pos /\ b \in 1..Len(source) /\ pos \in b..Len(source)
      BY <1>4, <2>2, LenProperties
    <3> QED
      BY <1>4, <3>1, <3>2, PartOfClass
  <2> QED
    BY <1>1, <1>2, <1>5, <2>1, <2>5, <2>6, MoreScans
<1>6. CASE /\ peek \notin DOMAIN Digits
           /\ return(make(<<"NUM">>, start, text, fromChars(text).value))
           /\ IF fromChars(text).ok THEN Keep ELSE Report(start)
           /\ UNCHANGED position
  <2>1. pos = Len(source) + 1 \/ source[pos] \notin DOMAIN Digits
    BY <1>6, AdvanceFacts
  <2>2. /\ b \in 1..Len(source) /\ pos - 1 \in b..Len(source) /\ pos - 1 + 1 = pos
        /\ \A i \in b..(pos - 1) : source[i] \in DOMAIN Digits
        /\ pos - 1 = Len(source) \/ source[pos - 1 + 1] \notin DOMAIN Digits
        /\ text = SubSeq(source, b, pos - 1)
    BY <1>3, <1>4, <2>1, ReadsUpTo
  <2>3. PICK tok : tok = make(<<"NUM">>, Location(source, b), text, fromChars(text).value)
    OBVIOUS
  <2>4. return(tok)
    BY <1>2, <1>6, <2>3
  <2>5. Emitted(source, WithToken(tokens, source, b, <<"NUM">>, text, fromChars(text).value),
                IF fromChars(text).ok THEN engine.diags ELSE WithError(engine.diags, source, b),
                pos)
    BY <1>3, <1>4, <2>2, EmittedNumber
  <2>6. /\ Engine(engine')
        /\ engine'.diags = IF fromChars(text).ok THEN engine.diags
                           ELSE WithError(engine.diags, source, b)
    <3>1. CASE fromChars(text).ok
      BY <1>4, <1>6, <3>1 DEF Keep
    <3>2. CASE ~fromChars(text).ok
      <4>1. engine' = add(engine, "Error", Location(source, b))
        BY <1>2, <1>6, <3>2 DEF Report
      <4> QED
        BY <1>3, <1>4, <3>2, <4>1, ReportFacts
    <3> QED
      BY <3>1, <3>2
  <2>7. Emitted(source, Append(tokens, tok), engine'.diags, pos)
    BY <2>3, <2>5, <2>6 DEF WithToken
  <2>8. tok.kind # <<"EOF">>
    BY <2>3, MadeKind, KindsApart
  <2>9. pos' = pos /\ Located(source, pos', line', column') /\ pos' \in Nat /\ pos' >= pos
    BY <1>4, <1>6, AdvanceFacts, TextIs
  <2> QED
    BY <2>4, <2>6, <2>7, <2>8, <2>9, ReturnScans
<1> QED
  BY <1>5, <1>6 DEF InNumber

LEMMA AfterSlashScans ==
  ASSUME LInv, AfterSlash
  PROVE  LInv'
<1>1. state = "AfterSlash" /\ engine' = engine
  BY DEF AfterSlash, Keep
<1>2. PICK b \in 1..pos :
        /\ start = Location(source, b) /\ Where(source, pos, state, text, b)
        /\ Emitted(source, tokens, engine.diags, SeenTo(source, pos, state, b))
  BY ScansFacts
<1>3. pos = b + 1 /\ source[b] = "/" /\ Emitted(source, tokens, engine.diags, b)
  BY <1>1, <1>2 DEF Where, SeenTo, Follows
<1>4. source \in Texts /\ source \in Seq(STRING) /\ pos \in Text(source) /\ Engine(engine)
  BY ScansFacts, AdvanceFacts
<1>5. b \in 1..Len(source) /\ Len(source) \in Nat /\ pos <= Len(source) + 1
  BY <1>3, <1>4, TextIs
<1>6. CASE peek = "*" /\ Goto("InComment") /\ advance
  <2>1. ~atEnd
    BY <1>6, AdvanceFacts
  <2>2. pos \in 1..Len(source) /\ source[pos] = "*" /\ pos' = pos + 1
    BY <1>6, <2>1, AdvanceFacts
  <2>3. Opens(source, b)
    BY <1>3, <1>5, <2>2 DEF Opens
  <2>4. \A q \in Closings(source, b) : pos' <= q
    BY <1>3, <1>5, <2>2 DEF Closings
  <2>5. Inside(source, pos', b)
    BY <1>3, <1>5, <2>2, <2>3, <2>4 DEF Inside
  <2>6. state' = "InComment" /\ text' = text /\ UNCHANGED <<source, start, tokens>>
    BY <1>6 DEF Goto
  <2>7. Where(source, pos', state', text', b) /\ state' \in States \ {"Start", "Stopped"}
    BY <2>5, <2>6 DEF Where, States
  <2>8. text' \in Seq(Letters) \union Seq(DOMAIN Digits)
    BY <2>6, ScansFacts
  <2> QED
    BY <1>1, <1>2, <1>6, <2>1, <2>6, <2>7, <2>8, MoreScans DEF AfterSlash
<1>7. CASE peek # "*" /\ Return(<<"/">>, <<"/">>) /\ UNCHANGED position
  <2>1. b < Len(source) => pos \in 1..Len(source) /\ source[b + 1] # "*"
    <3>1. b < Len(source) => ~atEnd
      BY <1>3, <1>5, AdvanceFacts
    <3> QED
      BY <1>3, <1>7, <3>1, AdvanceFacts
  <2>2. ~Opens(source, b) /\ source[b] \in Simple /\ source[b] \notin Comparing
    BY <1>3, <2>1, Known DEF Opens
  <2>3. PICK tok : tok = make(<<source[b]>>, Location(source, b), <<source[b]>>, 0)
    OBVIOUS
  <2>4. return(tok)
    BY <1>2, <1>3, <1>7, <2>3 DEF Return
  <2>5. Emitted(source, WithToken(tokens, source, b, <<source[b]>>, <<source[b]>>, 0),
                engine.diags, b + 1)
    BY <1>3, <1>4, <1>5, <2>2, EmittedSimple
  <2>6. Emitted(source, Append(tokens, tok), engine'.diags, pos)
    BY <1>1, <1>3, <2>3, <2>5 DEF WithToken
  <2>7. tok.kind # <<"EOF">>
    BY <1>3, <2>3, MadeKind, NotTheEnd
  <2>8. pos' = pos /\ Located(source, pos', line', column') /\ pos' \in Nat /\ pos' >= pos
    BY <1>4, <1>7, AdvanceFacts, TextIs
  <2> QED
    BY <1>1, <1>4, <2>4, <2>6, <2>7, <2>8, ReturnScans
<1> QED
  BY <1>6, <1>7 DEF AfterSlash

(* The file ends, and no place in it closes the comment.                   *)
LEMMA OpenCommentScans ==
  ASSUME LInv, atEnd, OpenComment, NEW b \in 1..pos, start = Location(source, b),
         Emitted(source, tokens, engine.diags, b), Opens(source, b),
         \A q \in Closings(source, b) : pos - 1 <= q
  PROVE  LInv'
<1>1. source \in Texts /\ source \in Seq(STRING) /\ pos \in Text(source) /\ Engine(engine)
  BY ScansFacts, AdvanceFacts
<1>2. pos = Len(source) + 1 /\ here = Location(source, pos) /\ Len(source) \in Nat
  BY <1>1, AdvanceFacts, LenProperties
<1>3. b \in 1..Len(source)
  BY <1>2 DEF Opens
<1>4. ASSUME NEW q \in Closings(source, b)
      PROVE  FALSE
  <2>1. pos - 1 <= q /\ q \in (b + 2)..(Len(source) - 1)
    BY DEF Closings
  <2> QED
    BY <1>2, <2>1
<1>5. Closings(source, b) = {}
  BY <1>4
<1>6. PICK tok : tok = make(<<"EOF">>, Location(source, Len(source) + 1), <<>>, 0)
  OBVIOUS
<1>7. return(tok) /\ engine' = add(engine, "Error", Location(source, b)) /\ UNCHANGED position
  BY <1>2, <1>6 DEF OpenComment, Report
<1>8. Engine(engine') /\ engine'.diags = WithError(engine.diags, source, b)
  <2>1. Emitted(source, tokens, engine.diags, b)
    OBVIOUS
  <2> QED
    BY ONLY <1>1, <1>7, <2>1, ReportFacts
<1>9. Emitted(source, WithToken(tokens, source, Len(source) + 1, <<"EOF">>, <<>>, 0),
              WithError(engine.diags, source, b), Len(source) + 2)
  BY <1>1, <1>3, <1>5, EmittedOpenComment
<1>10. Emitted(source, Append(tokens, tok), engine'.diags, Len(source) + 2)
  BY <1>6, <1>8, <1>9 DEF WithToken
<1>11. tok.kind = <<"EOF">>
  BY <1>6, MadeKind
<1> QED
  BY <1>7, <1>8, <1>10, <1>11, StopScans

LEMMA InCommentScans ==
  ASSUME LInv, InComment
  PROVE  LInv'
<1>1. state = "InComment"
  BY DEF InComment
<1>2. PICK b \in 1..pos :
        /\ start = Location(source, b) /\ Where(source, pos, state, text, b)
        /\ Emitted(source, tokens, engine.diags, SeenTo(source, pos, state, b))
  BY ScansFacts
<1>3. Inside(source, pos, b) /\ Emitted(source, tokens, engine.diags, b)
  BY <1>1, <1>2 DEF Where, SeenTo
<1>4. source \in Texts /\ pos \in Text(source) /\ Len(source) \in Nat /\ pos \in Nat
  BY ScansFacts, AdvanceFacts, TextIs
<1>5. \A q \in Closings(source, b) : q \in Nat /\ source[q] = "*" /\ pos <= q
  BY <1>3, <1>4 DEF Inside, Closings
<1>6. CASE atEnd /\ OpenComment
  <2>1. \A q \in Closings(source, b) : pos - 1 <= q
    BY <1>4, <1>5
  <2> QED
    BY <1>2, <1>3, <1>6, <2>1, OpenCommentScans DEF Inside
<1>7. CASE /\ ~atEnd /\ Keep
           /\ Goto(IF peek = "*" THEN "InCommentStar" ELSE "InComment")
           /\ advance
  <2>1. pos \in 1..Len(source) /\ peek = source[pos] /\ pos' = pos + 1
    BY <1>7, AdvanceFacts
  <2>2. text' = text /\ UNCHANGED <<source, start, tokens>>
    BY <1>7 DEF Goto
  <2>3. CASE source[pos] = "*"
    <3>1. state' = "InCommentStar"
      BY <1>7, <2>1, <2>3 DEF Goto
    <3>2. InsideStar(source, pos', b)
      BY <1>3, <1>4, <2>1, <2>3 DEF Inside, InsideStar
    <3>3. Where(source, pos', state', text', b) /\ state' \in States \ {"Start", "Stopped"}
      BY <3>1, <3>2 DEF Where, States
    <3> QED
      BY <1>1, <1>2, <1>7, <2>2, <3>3, MoreScans, ScansFacts
  <2>4. CASE source[pos] # "*"
    <3>1. state' = "InComment"
      BY <1>7, <2>1, <2>4 DEF Goto
    <3>2. \A q \in Closings(source, b) : pos + 1 <= q
      BY <1>4, <1>5, <2>4
    <3>3. Inside(source, pos', b)
      BY <1>3, <1>4, <2>1, <3>2 DEF Inside
    <3>4. Where(source, pos', state', text', b) /\ state' \in States \ {"Start", "Stopped"}
      BY <3>1, <3>3 DEF Where, States
    <3> QED
      BY <1>1, <1>2, <1>7, <2>2, <3>4, MoreScans, ScansFacts
  <2> QED
    BY <2>3, <2>4
<1> QED
  BY <1>6, <1>7 DEF InComment

LEMMA InCommentStarScans ==
  ASSUME LInv, InCommentStar
  PROVE  LInv'
<1>1. state = "InCommentStar"
  BY DEF InCommentStar
<1>2. PICK b \in 1..pos :
        /\ start = Location(source, b) /\ Where(source, pos, state, text, b)
        /\ Emitted(source, tokens, engine.diags, SeenTo(source, pos, state, b))
  BY ScansFacts
<1>3. InsideStar(source, pos, b) /\ Emitted(source, tokens, engine.diags, b)
  BY <1>1, <1>2 DEF Where, SeenTo
<1>4. /\ source \in Texts /\ source \in Seq(STRING)
      /\ pos \in Text(source) /\ Len(source) \in Nat /\ pos \in Nat
  BY ScansFacts, AdvanceFacts, TextIs
<1>5. /\ b + 2 <= pos - 1 /\ source[pos - 1] = "*" /\ Opens(source, b)
      /\ \A q \in Closings(source, b) :
           q \in Nat /\ source[q] = "*" /\ source[q + 1] = "/" /\ pos - 1 <= q
  BY <1>3, <1>4 DEF InsideStar, Closings
<1>6. CASE atEnd /\ OpenComment
  BY <1>2, <1>3, <1>5, <1>6, OpenCommentScans
<1>7. CASE /\ ~atEnd /\ Keep
           /\ Goto(CASE peek = "/" -> "Start" [] peek = "*" -> "InCommentStar"
                     [] OTHER -> "InComment")
           /\ advance
  <2>1. pos \in 1..Len(source) /\ peek = source[pos] /\ pos' = pos + 1
    BY <1>7, AdvanceFacts
  <2>2. text' = text /\ UNCHANGED <<source, start, tokens>>
    BY <1>7 DEF Goto
  <2>3. CASE source[pos] = "/"
    <3>1. state' = "Start" /\ engine' = engine
      BY <1>7, <2>1, <2>3 DEF Goto, Keep
    <3>2. PICK c : c = pos - 1
      OBVIOUS
    <3>3. c + 1 = pos /\ c + 2 = pos' /\ source[c] = "*" /\ source[c + 1] = "/"
      BY <1>4, <1>5, <2>1, <2>3, <3>2
    <3>4. c \in (b + 2)..(Len(source) - 1)
      BY <1>4, <1>5, <2>1, <3>2
    <3>5. c \in Closings(source, b) /\ \A q \in Closings(source, b) : c <= q
      BY <1>5, <3>2, <3>3, <3>4 DEF Closings
    <3>6. b \in 1..Len(source)
      BY <2>1
    <3>7. Emitted(source, tokens, engine.diags, c + 2)
      BY <1>3, <1>4, <1>5, <3>5, <3>6, EmittedComment
    <3>8. Emitted(source, tokens', engine'.diags, pos')
      BY <2>2, <3>1, <3>3, <3>7
    <3>9. b \in 1..pos' /\ Located(source, pos', line', column')
      BY <1>7, <2>1, AdvanceFacts
    <3>10. /\ text' \in Seq(Letters) \union Seq(DOMAIN Digits) /\ Engine(engine')
           /\ start' = Location(source, b)
      BY <1>2, <2>2, <3>1, ScansFacts
    <3>11. Scans(source, pos', line', column', "Start", start', text', tokens', engine')
      BY <1>4, <3>8, <3>9, <3>10, ScansStart
    <3> QED
      BY <2>2, <3>1, <3>11 DEF LInv
  <2>4. CASE source[pos] = "*"
    <3>1. state' = "InCommentStar"
      BY <1>7, <2>1, <2>4 DEF Goto
    <3>2. \A q \in Closings(source, b) : pos <= q
      <4> SUFFICES ASSUME NEW q \in Closings(source, b) PROVE pos <= q
        OBVIOUS
      <4>1. q + 1 # pos
        BY <1>5, <2>4
      <4> QED
        BY <1>4, <1>5, <4>1
    <3>3. InsideStar(source, pos', b)
      BY <1>4, <1>5, <2>1, <2>4, <3>2 DEF InsideStar
    <3>4. Where(source, pos', state', text', b) /\ state' \in States \ {"Start", "Stopped"}
      BY <3>1, <3>3 DEF Where, States
    <3> QED
      BY <1>1, <1>2, <1>7, <2>2, <3>4, MoreScans, ScansFacts
  <2>5. CASE source[pos] # "/" /\ source[pos] # "*"
    <3>1. state' = "InComment"
      BY <1>7, <2>1, <2>5 DEF Goto
    <3>2. \A q \in Closings(source, b) : pos + 1 <= q
      <4> SUFFICES ASSUME NEW q \in Closings(source, b) PROVE pos + 1 <= q
        OBVIOUS
      <4>1. q + 1 # pos /\ q # pos
        BY <1>5, <2>5
      <4> QED
        BY <1>4, <1>5, <4>1
    <3>3. Inside(source, pos', b)
      BY <1>4, <1>5, <2>1, <3>2 DEF Inside
    <3>4. Where(source, pos', state', text', b) /\ state' \in States \ {"Start", "Stopped"}
      BY <3>1, <3>3 DEF Where, States
    <3> QED
      BY <1>1, <1>2, <1>7, <2>2, <3>4, MoreScans, ScansFacts
  <2> QED
    BY <2>3, <2>4, <2>5
<1> QED
  BY <1>6, <1>7 DEF InCommentStar

LEMMA OperatorScans ==
  ASSUME LInv, NEW symbol \in Comparing, Operator(symbol), NEW b \in 1..pos,
         start = Location(source, b), Follows(source, pos, b, symbol),
         Emitted(source, tokens, engine.diags, b)
  PROVE  LInv'
<1>1. pos = b + 1 /\ source[b] = symbol
  BY DEF Follows
<1>2. source \in Texts /\ source \in Seq(STRING) /\ pos \in Text(source) /\ Engine(engine)
  BY ScansFacts, AdvanceFacts
<1>3. b \in 1..Len(source) /\ Len(source) \in Nat /\ pos <= Len(source) + 1
  BY <1>1, <1>2, TextIs
<1>4. CASE peek = "=" /\ Return(<<symbol, "=">>, <<symbol, "=">>) /\ Keep /\ advance
  <2>1. ~atEnd
    BY <1>4, AdvanceFacts
  <2>2. /\ pos \in 1..Len(source) /\ source[pos] = "=" /\ pos' = pos + 1
        /\ Located(source, pos', line', column')
    BY <1>4, <2>1, AdvanceFacts
  <2>3. b < Len(source) /\ source[b + 1] = "=" /\ b + 2 = pos'
    BY <1>1, <1>3, <2>2
  <2>4. PICK tok : tok = make(<<symbol, "=">>, Location(source, b), <<symbol, "=">>, 0)
    OBVIOUS
  <2>5. return(tok) /\ engine' = engine
    BY <1>4, <2>4 DEF Return, Keep
  <2>6. Emitted(source, WithToken(tokens, source, b, <<symbol, "=">>, <<symbol, "=">>, 0),
                engine.diags, b + 2)
    BY <1>1, <1>2, <1>3, <2>3, EmittedCompleted
  <2>7. Emitted(source, Append(tokens, tok), engine'.diags, pos')
    BY <2>3, <2>4, <2>5, <2>6 DEF WithToken
  <2>8. tok.kind # <<"EOF">>
    <3>1. \A c, d : <<c, d>> # <<"EOF">>
      OBVIOUS
    <3> QED
      BY <2>4, <3>1, MadeKind
  <2>9. pos' \in Nat /\ pos' >= pos
    BY <2>2
  <2> QED
    BY <1>2, <2>2, <2>5, <2>7, <2>8, <2>9, ReturnScans
<1>5. CASE /\ peek # "=" /\ symbol # "!"
           /\ Return(<<symbol>>, <<symbol>>) /\ Keep /\ UNCHANGED position
  <2>1. b = Len(source) \/ source[b + 1] # "="
    <3>1. b # Len(source) => ~atEnd
      BY <1>1, <1>3, AdvanceFacts
    <3> QED
      BY <1>1, <1>5, <3>1, AdvanceFacts
  <2>2. symbol \in Simple /\ ~Opens(source, b)
    BY <1>1, <1>5, Known DEF Opens
  <2>3. PICK tok : tok = make(<<symbol>>, Location(source, b), <<symbol>>, 0)
    OBVIOUS
  <2>4. return(tok) /\ engine' = engine
    BY <1>5, <2>3 DEF Return, Keep
  <2>5. Emitted(source, WithToken(tokens, source, b, <<symbol>>, <<symbol>>, 0),
                engine.diags, b + 1)
    BY <1>1, <1>2, <1>3, <2>1, <2>2, EmittedSimple
  <2>6. Emitted(source, Append(tokens, tok), engine'.diags, pos)
    BY <1>1, <2>3, <2>4, <2>5 DEF WithToken
  <2>7. tok.kind # <<"EOF">>
    <3>1. symbol # "EOF"
      BY Known
    <3> QED
      BY <2>3, <3>1, MadeKind, NotTheEnd
  <2>8. pos' = pos /\ Located(source, pos', line', column') /\ pos' \in Nat /\ pos' >= pos
    BY <1>2, <1>5, AdvanceFacts, TextIs
  <2> QED
    BY <1>2, <2>4, <2>6, <2>7, <2>8, ReturnScans
<1> QED
  BY <1>4, <1>5 DEF Operator

LEMMA AfterComparingScans ==
  ASSUME LInv, AfterLess \/ AfterGreater \/ AfterAssign
  PROVE  LInv'
<1>1. PICK b \in 1..pos :
        /\ start = Location(source, b) /\ Where(source, pos, state, text, b)
        /\ Emitted(source, tokens, engine.diags, SeenTo(source, pos, state, b))
  BY ScansFacts
<1>2. "<" \in Comparing /\ ">" \in Comparing /\ "=" \in Comparing
  BY Known
<1>3. CASE AfterLess
  <2>1. state = "AfterLess" /\ Operator("<")
    BY <1>3 DEF AfterLess
  <2>2. Follows(source, pos, b, "<") /\ Emitted(source, tokens, engine.diags, b)
    BY <1>1, <2>1 DEF Where, SeenTo
  <2> QED
    BY <1>1, <1>2, <2>1, <2>2, OperatorScans
<1>4. CASE AfterGreater
  <2>1. state = "AfterGreater" /\ Operator(">")
    BY <1>4 DEF AfterGreater
  <2>2. Follows(source, pos, b, ">") /\ Emitted(source, tokens, engine.diags, b)
    BY <1>1, <2>1 DEF Where, SeenTo
  <2> QED
    BY <1>1, <1>2, <2>1, <2>2, OperatorScans
<1>5. CASE AfterAssign
  <2>1. state = "AfterAssign" /\ Operator("=")
    BY <1>5 DEF AfterAssign
  <2>2. Follows(source, pos, b, "=") /\ Emitted(source, tokens, engine.diags, b)
    BY <1>1, <2>1 DEF Where, SeenTo
  <2> QED
    BY <1>1, <1>2, <2>1, <2>2, OperatorScans
<1> QED
  BY <1>3, <1>4, <1>5

LEMMA AfterBangScans ==
  ASSUME LInv, AfterBang
  PROVE  LInv'
<1>1. state = "AfterBang"
  BY DEF AfterBang
<1>2. PICK b \in 1..pos :
        /\ start = Location(source, b) /\ Where(source, pos, state, text, b)
        /\ Emitted(source, tokens, engine.diags, SeenTo(source, pos, state, b))
  BY ScansFacts
<1>3. Follows(source, pos, b, "!") /\ Emitted(source, tokens, engine.diags, b)
  BY <1>1, <1>2 DEF Where, SeenTo
<1>4. CASE Operator("!")
  <2>1. "!" \in Comparing
    BY Known
  <2> QED
    BY <1>2, <1>3, <1>4, <2>1, OperatorScans
<1>5. CASE /\ peek # "="
           /\ Return(<<"Error">>, <<"!">>) /\ Report(start) /\ UNCHANGED position
  <2>1. source \in Texts /\ source \in Seq(STRING) /\ pos \in Text(source) /\ Engine(engine)
    BY ScansFacts, AdvanceFacts
  <2>2. pos = b + 1 /\ source[b] = "!"
    BY <1>3 DEF Follows
  <2>3. b \in 1..Len(source) /\ Len(source) \in Nat /\ pos <= Len(source) + 1
    BY <2>1, <2>2, TextIs
  <2>4. b = Len(source) \/ source[b + 1] # "="
    <3>1. b # Len(source) => ~atEnd
      BY <2>2, <2>3, AdvanceFacts
    <3> QED
      BY <1>5, <2>2, <3>1, AdvanceFacts
  <2>5. PICK tok : tok = make(<<"Error">>, Location(source, b), <<source[b]>>, 0)
    OBVIOUS
  <2>6. return(tok) /\ engine' = add(engine, "Error", Location(source, b))
    BY <1>2, <1>5, <2>2, <2>5 DEF Return, Report
  <2>7. Engine(engine') /\ engine'.diags = WithError(engine.diags, source, b)
    BY <1>3, <2>1, <2>6, ReportFacts
  <2>8. Emitted(source, WithToken(tokens, source, b, <<"Error">>, <<source[b]>>, 0),
                WithError(engine.diags, source, b), b + 1)
    BY <1>3, <2>1, <2>2, <2>3, <2>4, EmittedError
  <2>9. Emitted(source, Append(tokens, tok), engine'.diags, pos)
    BY <2>2, <2>5, <2>7, <2>8 DEF WithToken
  <2>10. tok.kind # <<"EOF">>
    BY <2>5, MadeKind, KindsApart
  <2>11. pos' = pos /\ Located(source, pos', line', column') /\ pos' \in Nat /\ pos' >= pos
    BY <1>5, <2>1, AdvanceFacts, TextIs
  <2> QED
    BY <2>6, <2>7, <2>9, <2>10, <2>11, ReturnScans
<1> QED
  BY <1>4, <1>5 DEF AfterBang

LEMMA NextScans ==
  ASSUME LInv, [Next]_vars
  PROVE  LInv'
<1>1. CASE UNCHANGED vars
  <2>1. UNCHANGED <<source, pos, line, column, state, start, text, tokens, engine>>
    BY <1>1 DEF vars, position
  <2> QED
    BY <2>1 DEF LInv
<1>2. CASE Next
  BY <1>2, ScanEndScans, ScanWordScans, ScanNumberScans, ScanBlankScans, ScanPendingScans,
     ScanSingleScans, ScanInvalidScans, InIdentifierScans, InNumberScans, AfterSlashScans,
     InCommentScans, InCommentStarScans, AfterComparingScans, AfterBangScans, Zenon DEF Next
<1> QED
  BY <1>1, <1>2

LEMMA AlwaysScans ==
  Spec => []LInv
  BY InitScans, NextScans, PTL DEF Spec

-----------------------------------------------------------------------------
(* What follows from the invariant.                                        *)

LEMMA LaterLines ==
  ASSUME NEW t, NEW a \in Nat \ {0}, NEW b \in 1..a
  PROVE  Location(t, b).line <= Location(t, a).line
<1>1. b \in Nat \ {0} /\ Newlines(t, b) \subseteq Newlines(t, a)
  BY DEF Newlines
<1>2. PICK m \in {0} \union Newlines(t, a) :
        /\ m \in 0..(a - 1) /\ Cardinality(Newlines(t, a)) \in 0..(a - 1)
        /\ IsFiniteSet(Newlines(t, a))
        /\ Location(t, a) = [line |-> 1 + Cardinality(Newlines(t, a)), column |-> a - m]
  BY LocationIs
<1>3. PICK n \in {0} \union Newlines(t, b) :
        /\ Cardinality(Newlines(t, b)) \in 0..(b - 1)
        /\ Location(t, b) = [line |-> 1 + Cardinality(Newlines(t, b)), column |-> b - n]
  BY <1>1, LocationIs
<1>4. Cardinality(Newlines(t, b)) <= Cardinality(Newlines(t, a))
  BY <1>1, <1>2, FS_Subset
<1>5. /\ Location(t, a).line = 1 + Cardinality(Newlines(t, a))
      /\ Location(t, b).line = 1 + Cardinality(Newlines(t, b))
  BY <1>2, <1>3
<1> QED
  BY <1>2, <1>3, <1>4, <1>5

(* The pieces that are numbers.                                            *)
LEMMA NumeralPieces ==
  ASSUME NEW t \in Seq(STRING), NEW a \in Text(t), PieceAt(t, a).kind = <<"NUM">>
  PROVE  PieceAt(t, a).lexeme \in Seq(DOMAIN Digits)
<1>1. \A k, at, s : Piece(k, at, s).kind = k /\ Piece(k, at, s).lexeme = s
  BY DEF Piece
<1>2. a \in 1..Len(t)
  <2>1. Len(t) \in Nat /\ a \in Nat /\ 1 <= a
    BY LenProperties DEF Text
  <2>2. a > Len(t) => PieceAt(t, a).kind = <<"EOF">>
    BY <1>1, <2>1, EndPiece
  <2> QED
    BY <2>1, <2>2, KindsApart
<1>3. PICK piece : piece = PieceAt(t, a)
  OBVIOUS
<1>4. piece.kind = <<"NUM">>
  BY <1>3
<1>5. t[a] \notin Blanks
  <2> SUFFICES ASSUME t[a] \in Blanks PROVE FALSE
    OBVIOUS
  <2>1. PICK x : piece = Piece(<<"Blank">>, a, x)
    BY <1>2, <1>3, InnerPiece
  <2> QED
    BY <1>1, <1>4, <2>1, KindsApart
<1>6. ~Opens(t, a)
  <2>1. ASSUME Opens(t, a), Closings(t, a) = {}
        PROVE  FALSE
    <3>1. PICK x : piece = Piece(<<"OpenComment">>, a, x)
      BY <1>2, <1>3, <2>1, InnerPiece
    <3> QED
      BY <1>1, <1>4, <3>1, KindsApart
  <2>2. ASSUME Opens(t, a), Closings(t, a) # {}
        PROVE  FALSE
    <3>1. PICK x : piece = Piece(<<"Comment">>, a, x)
      BY <1>2, <1>3, <2>2, InnerPiece
    <3> QED
      BY <1>1, <1>4, <3>1, KindsApart
  <2> QED
    BY <2>1, <2>2
<1>7. Longest(t, a) # <<>>
  <2> SUFFICES ASSUME Longest(t, a) = <<>> PROVE FALSE
    OBVIOUS
  <2>1. PICK x : piece = Piece(<<"Error">>, a, x)
    BY <1>2, <1>3, <1>5, <1>6, InnerPiece
  <2> QED
    BY <1>1, <1>4, <2>1, KindsApart
<1>8. PICK s : s = Longest(t, a)
  OBVIOUS
<1>9. Kind(s) = <<"NUM">> /\ PieceAt(t, a).lexeme = s
  <2>1. piece = Piece(Kind(s), a, s)
    BY <1>2, <1>3, <1>5, <1>6, <1>7, <1>8, InnerPiece
  <2>2. piece.kind = Kind(s) /\ piece.lexeme = s
    BY <2>1 DEF Piece
  <2> QED
    BY <1>3, <1>4, <2>2
<1>10. IsLexeme(s)
  BY <1>2, <1>7, <1>8, LongestPlace
<1>11. CASE IsNumber(s)
  BY <1>9, <1>11 DEF IsNumber
<1>12. CASE ~IsNumber(s) /\ s[1] \in SymbolCharacters
  <2>1. s = <<"NUM">>
    BY <1>9, <1>12, SymbolKind
  <2>2. s[1] = "NUM"
    BY <2>1
  <2>3. "NUM" \notin SymbolCharacters
    BY Zenon DEF SymbolCharacters, Simple, Comparing
  <2> QED
    BY <1>12, <2>2, <2>3
<1>13. CASE ~IsNumber(s) /\ IsWord(s)
  <2>1. s \notin Keywords => Kind(s) = <<"ID">>
    BY <1>13, Zenon DEF Kind
  <2>2. s \in Keywords => Kind(s) = s
    BY <1>13, Zenon DEF Kind
  <2>3. <<"ID">> # <<"NUM">>
    OBVIOUS
  <2>4. /\ <<"e", "l", "s", "e">> # <<"NUM">> /\ <<"i", "f">> # <<"NUM">>
        /\ <<"i", "n", "t">> # <<"NUM">> /\ <<"r", "e", "t", "u", "r", "n">> # <<"NUM">>
        /\ <<"v", "o", "i", "d">> # <<"NUM">> /\ <<"w", "h", "i", "l", "e">> # <<"NUM">>
    OBVIOUS
  <2>5. <<"NUM">> \notin Keywords
    BY <2>4, Zenon DEF Keywords
  <2> QED
    BY <1>9, <2>1, <2>2, <2>3, <2>5
<1> QED
  BY <1>10, <1>11, <1>12, <1>13, LexemeForms

LEMMA TokenValues ==
  ASSUME NEW t \in Seq(STRING), NEW tok \in {TokenMap(t)[p] : p \in Pieces(t)}
  PROVE  tok.value \in 0..MaxNumber
<1>1. PICK a \in Text(t) : tok = TokenIn(t, PieceAt(t, a))
  BY DEF TokenMap, Pieces
<1>2. PICK piece : piece = PieceAt(t, a)
  OBVIOUS
<1>3. tok.value = IF piece.kind = <<"NUM">> /\ Value(piece.lexeme) <= MaxNumber
                  THEN Value(piece.lexeme) ELSE 0
  BY <1>1, <1>2 DEF TokenIn, make
<1>4. piece.kind = <<"NUM">> => Value(piece.lexeme) \in Nat
  BY <1>2, NumeralPieces, ValueType
<1> QED
  BY <1>3, <1>4, CharacterAssumption

LEMMA SeenFacts ==
  ASSUME LInv
  PROVE  \E a \in 1..(Len(source) + 2) :
           /\ Emitted(source, tokens, engine.diags, a)
           /\ state = "Stopped" => a = Len(source) + 2
<1>1. PICK b \in 1..pos : Emitted(source, tokens, engine.diags, SeenTo(source, pos, state, b))
  BY ScansFacts
<1>2. pos \in Nat /\ 1 <= pos /\ pos <= Len(source) + 1 /\ Len(source) \in Nat
  BY ScansFacts, AdvanceFacts, TextIs
<1>3. SeenTo(source, pos, state, b) \in 1..(Len(source) + 2)
  BY <1>2 DEF SeenTo
<1>4. state = "Stopped" => SeenTo(source, pos, state, b) = Len(source) + 2
  BY DEF SeenTo
<1> QED
  BY <1>1, <1>3, <1>4

LEMMA ScansTyped ==
  ASSUME LInv
  PROVE  TypeOK
<1>1. PICK b \in 1..pos : start = Location(source, b)
  BY ScansFacts
<1>2. /\ source \in Texts /\ source \in Seq(STRING) /\ pos \in Text(source)
      /\ here = Location(source, pos) /\ state \in States /\ Engine(engine)
      /\ text \in Seq(Letters) \union Seq(DOMAIN Digits)
  BY ScansFacts, AdvanceFacts DEF LInv, Scans
<1>3. Len(source) \in Nat /\ pos \in Nat \ {0} /\ pos <= Len(source) + 1 /\ b \in Nat \ {0}
  BY <1>2, TextIs
<1>4. line = Location(source, pos).line /\ column = Location(source, pos).column
  BY <1>2 DEF here
<1>5. Location(source, pos).line \in 1..pos /\ Location(source, pos).column \in 1..pos
  BY <1>3, LocationNext
<1>6. start.line \in 1..b /\ start.column \in 1..b
  BY <1>1, <1>3, LocationNext
<1>7. start.line <= line
  BY <1>1, <1>3, <1>4, LaterLines
<1>8. line \in 1..(Len(source) + 1) /\ column \in 1..(Len(source) + 1)
  BY <1>3, <1>4, <1>5
<1>9. start.line \in 1..line /\ start.column \in 1..(Len(source) + 1)
  BY <1>3, <1>6, <1>7, <1>8
<1>10. \A i \in DOMAIN tokens : tokens[i].value \in 0..MaxNumber
  <2>1. tokens \in Seq({TokenMap(source)[p] : p \in Pieces(source)})
    BY SeenFacts DEF Emitted, Emits
  <2>2. PICK M : M = {TokenMap(source)[p] : p \in Pieces(source)}
    OBVIOUS
  <2>3. \A i \in DOMAIN tokens : tokens[i] \in M
    BY <2>1, <2>2
  <2> QED
    BY <1>2, <2>2, <2>3, TokenValues
<1>11. engine.errorCount = Len(engine.diags) /\ engine.warningCount = 0
  BY <1>2 DEF Engine
<1>12. pos \in 1..(Len(source) + 1)
  BY <1>2 DEF Text
<1> QED
  BY <1>2, <1>8, <1>9, <1>10, <1>11, <1>12 DEF TypeOK

LEMMA ScansExact ==
  ASSUME LInv
  PROVE  TokensExact /\ ErrorsExact
<1>1. PICK a \in 1..(Len(source) + 2) :
        /\ Emitted(source, tokens, engine.diags, a)
        /\ state = "Stopped" => a = Len(source) + 2
  BY SeenFacts
<1>2. source \in Seq(STRING)
  BY ScansFacts
<1>3. PICK whole, wrong : whole = TokenPieces(source) /\ wrong = WrongPieces(source)
  OBVIOUS
<1>4. /\ whole = PiecesAt(source, TokenPlaces(source))
      /\ wrong = PiecesAt(source, WrongPlaces(source))
  BY <1>3, Zenon DEF TokenPieces, WrongPieces, TokenPlaces, WrongPlaces, Text
<1>5. PICK diags, tm, wm : diags = engine.diags /\ tm = TokenMap(source) /\ wm = WrongMap(source)
  OBVIOUS
<1>6. /\ \E M : tokens \in Seq(M)
      /\ whole \in Seq(Pieces(source)) /\ Len(tokens) <= Len(whole)
      /\ \A i \in 1..Len(tokens) : tokens[i] = tm[whole[i]]
      /\ a = Len(source) + 2 => Len(tokens) = Len(whole)
  <2>1. PICK places : places = TokenPlaces(source)
    OBVIOUS
  <2>2. Emits(source, places, tm, tokens, a) /\ whole = PiecesAt(source, places)
    BY <1>1, <1>4, <1>5, <2>1 DEF Emitted
  <2>3. PICK M : tokens \in Seq(M)
    BY <2>2 DEF Emits
  <2>4. /\ PiecesAt(source, places) \in Seq(Pieces(source))
        /\ Len(tokens) <= Len(PiecesAt(source, places))
        /\ \A i \in 1..Len(tokens) : tokens[i] = tm[PiecesAt(source, places)[i]]
        /\ a = Len(source) + 2 => Len(tokens) = Len(PiecesAt(source, places))
    BY <1>1, <1>2, <2>2, EmitsFacts
  <2> QED
    BY <2>2, <2>3, <2>4
<1>7. /\ \E M : diags \in Seq(M)
      /\ wrong \in Seq(Pieces(source))
      /\ \A i \in 1..Len(diags) : diags[i] = wm[wrong[i]]
      /\ a = Len(source) + 2 => Len(diags) = Len(wrong)
  <2>1. PICK places : places = WrongPlaces(source)
    OBVIOUS
  <2>2. Emits(source, places, wm, diags, a) /\ wrong = PiecesAt(source, places)
    BY <1>1, <1>4, <1>5, <2>1 DEF Emitted
  <2>3. PICK M : diags \in Seq(M)
    BY <2>2 DEF Emits
  <2>4. /\ PiecesAt(source, places) \in Seq(Pieces(source))
        /\ Len(diags) <= Len(PiecesAt(source, places))
        /\ \A i \in 1..Len(diags) : diags[i] = wm[PiecesAt(source, places)[i]]
        /\ a = Len(source) + 2 => Len(diags) = Len(PiecesAt(source, places))
    BY <1>1, <1>2, <2>2, EmitsFacts
  <2> QED
    BY <2>2, <2>3, <2>4
<1>8. \A i \in DOMAIN tokens : tokens[i] = TokenOf(whole[i])
  <2> SUFFICES ASSUME NEW i \in DOMAIN tokens PROVE tokens[i] = TokenOf(whole[i])
    OBVIOUS
  <2>1. i \in 1..Len(tokens) /\ i \in 1..Len(whole)
    BY <1>6
  <2>2. whole[i] \in Pieces(source)
    BY <1>6, <2>1, ElementOfSeq
  <2>3. tm[whole[i]] = TokenIn(source, whole[i])
    BY <1>5, <2>2 DEF TokenMap
  <2>4. TokenIn(source, whole[i]) = TokenOf(whole[i])
    BY DEF TokenIn, TokenOf
  <2> QED
    BY <1>6, <2>1, <2>3, <2>4
<1>9. TokensExact
  BY <1>1, <1>3, <1>6, <1>8 DEF TokensExact
<1>10. ASSUME state = "Stopped"
       PROVE  diags = [i \in DOMAIN wrong |->
                         [level |-> "Error", loc |-> Location(source, wrong[i].at)]]
  <2>1. Len(diags) = Len(wrong)
    BY <1>1, <1>7, <1>10
  <2>2. DOMAIN wrong = 1..Len(wrong) /\ diags = [i \in 1..Len(diags) |-> diags[i]]
    BY <1>7
  <2>3. \A i \in 1..Len(wrong) :
          diags[i] = [level |-> "Error", loc |-> Location(source, wrong[i].at)]
    <3> SUFFICES ASSUME NEW i \in 1..Len(wrong)
                 PROVE  diags[i] = [level |-> "Error", loc |-> Location(source, wrong[i].at)]
      OBVIOUS
    <3>1. wrong[i] \in Pieces(source)
      BY <1>7, ElementOfSeq
    <3>2. wm[wrong[i]] = WrongIn(source, wrong[i])
      BY <1>5, <3>1 DEF WrongMap
    <3> QED
      BY <1>7, <2>1, <3>2 DEF WrongIn
  <2>4. diags = [i \in 1..Len(wrong) |-> diags[i]]
    BY <2>1, <2>2
  <2> QED
    BY <2>2, <2>3, <2>4
<1>11. ErrorsExact
  BY <1>3, <1>5, <1>10 DEF ErrorsExact
<1> QED
  BY <1>9, <1>11

-----------------------------------------------------------------------------
(* Carets.  The engine finds the lines of the text by itself.              *)

StartsEquation(t, f) ==
  f = [i \in 0..Len(t) |->
         IF i = 0 THEN <<1>>
         ELSE IF t[i] = "\n" THEN Append(f[i - 1], i + 1) ELSE f[i - 1]]
Starts(t) == CHOOSE f : StartsEquation(t, f)

LEMMA StartsFacts ==
  ASSUME NEW t \in Seq(STRING)
  PROVE  /\ Starts(t)[0] = <<1>> /\ lineStarts(t) = Starts(t)[Len(t)]
         /\ \A i \in 1..Len(t) :
              Starts(t)[i] = IF t[i] = "\n" THEN Append(Starts(t)[i - 1], i + 1)
                             ELSE Starts(t)[i - 1]
         /\ \A i \in 0..Len(t) : Starts(t)[i] \in Seq(Nat)
<1> DEFINE F == [x \in Nat \X Seq(Nat) |->
                   IF t[x[1] + 1] = "\n" THEN Append(x[2], x[1] + 2) ELSE x[2]]
<1>1. Len(t) \in Nat
  BY LenProperties
<1>2. F \in [Nat \X Seq(Nat) -> Seq(Nat)]
  <2> SUFFICES ASSUME NEW n \in Nat, NEW s \in Seq(Nat)
               PROVE  (IF t[n + 1] = "\n" THEN Append(s, n + 2) ELSE s) \in Seq(Nat)
    OBVIOUS
  <2>1. Append(s, n + 2) \in Seq(Nat)
    BY AppendProperties
  <2> QED
    BY <2>1
<1>3. <<1>> \in Seq(Nat)
  OBVIOUS
<1>4. PICK g \in [Nat -> Seq(Nat)] : g[0] = <<1>> /\ \A n \in Nat : g[n + 1] = F[<<n, g[n]>>]
  <2> HIDE DEF F
  <2>1. \E g \in [Nat -> Seq(Nat)] : Iterates(g, <<1>>, F)
    BY <1>2, <1>3, IterationExists, Zenon
  <2> QED
    BY <2>1 DEF Iterates
<1>5. ASSUME NEW n \in Nat
      PROVE  g[n + 1] = IF t[n + 1] = "\n" THEN Append(g[n], n + 2) ELSE g[n]
  <2>1. g[n + 1] = F[<<n, g[n]>>] /\ <<n, g[n]>> \in Nat \X Seq(Nat)
    BY <1>4
  <2> QED
    BY <2>1
<1> HIDE DEF F
<1> DEFINE f == [i \in 0..Len(t) |-> g[i]]
<1>6. StartsEquation(t, f)
  <2> SUFFICES ASSUME NEW i \in 0..Len(t)
               PROVE  g[i] = IF i = 0 THEN <<1>>
                             ELSE IF t[i] = "\n" THEN Append(f[i - 1], i + 1) ELSE f[i - 1]
    BY DEF StartsEquation
  <2>1. CASE i = 0
    BY <1>4, <2>1
  <2>2. CASE i # 0
    <3>1. PICK k : k = i - 1
      OBVIOUS
    <3>2. k \in Nat /\ k + 1 = i /\ k + 2 = i + 1 /\ k \in 0..Len(t)
      BY <1>1, <2>2, <3>1
    <3>3. g[k + 1] = IF t[k + 1] = "\n" THEN Append(g[k], k + 2) ELSE g[k]
      BY <1>5, <3>2
    <3>4. f[k] = g[k]
      BY <3>2
    <3> QED
      BY <2>2, <3>1, <3>2, <3>3, <3>4
  <2> QED
    BY <2>1, <2>2
<1> HIDE DEF f
<1>7. StartsEquation(t, Starts(t))
  BY <1>6, Zenon DEF Starts
<1>8. lineStarts(t) = Starts(t)[Len(t)]
  BY Zenon DEF lineStarts, Starts, StartsEquation
<1>9. PICK h : h = Starts(t)
  OBVIOUS
<1>10. \A i \in 0..Len(t) :
         h[i] = IF i = 0 THEN <<1>>
                ELSE IF t[i] = "\n" THEN Append(h[i - 1], i + 1) ELSE h[i - 1]
  BY <1>7, <1>9 DEF StartsEquation
<1>11. h[0] = <<1>>
  <2>1. 0 \in 0..Len(t)
    BY <1>1
  <2> QED
    BY <1>10, <2>1, Zenon
<1>12. \A i \in 1..Len(t) : h[i] = IF t[i] = "\n" THEN Append(h[i - 1], i + 1) ELSE h[i - 1]
  <2> SUFFICES ASSUME NEW i \in 1..Len(t)
               PROVE  h[i] = IF t[i] = "\n" THEN Append(h[i - 1], i + 1) ELSE h[i - 1]
    OBVIOUS
  <2>1. i \in 0..Len(t) /\ i # 0
    BY ONLY <1>1, i \in 1..Len(t)
  <2> QED
    BY <1>10, <2>1, Zenon
<1> DEFINE S == {n \in Nat : n <= Len(t) => h[n] \in Seq(Nat)}
<1>13. 0 \in S
  BY <1>3, <1>11
<1>14. ASSUME NEW n \in Nat, n \in S
       PROVE  n + 1 \in S
  <2> SUFFICES ASSUME n + 1 <= Len(t)
               PROVE  h[n + 1] \in Seq(Nat)
    OBVIOUS
  <2>1. n + 1 \in 1..Len(t) /\ n + 1 - 1 = n /\ n + 1 + 1 \in Nat /\ h[n] \in Seq(Nat)
    BY <1>1, <1>14
  <2>2. Append(h[n], n + 1 + 1) \in Seq(Nat)
    BY <2>1, AppendProperties
  <2>3. h[n + 1] = IF t[n + 1] = "\n" THEN Append(h[n], n + 1 + 1) ELSE h[n]
    BY <1>12, <2>1
  <2> QED
    BY <2>1, <2>2, <2>3
<1> HIDE DEF S
<1>15. Nat \subseteq S
  BY <1>13, <1>14, SetInduction
<1>16. \A i \in 0..Len(t) : h[i] \in Seq(Nat)
  BY <1>1, <1>15 DEF S
<1> QED
  BY <1>8, <1>9, <1>11, <1>12, <1>16

(* The line of a place is the last that began, where its column says.      *)
LEMMA StartsLast ==
  ASSUME NEW t \in Seq(STRING), NEW n \in 0..Len(t)
  PROVE  LET loc == Location(t, n + 1)
         IN Len(Starts(t)[n]) = loc.line /\ Starts(t)[n][loc.line] = n + 2 - loc.column
<1> DEFINE S == {k \in Nat : k <= Len(t) =>
                   /\ Len(Starts(t)[k]) = Location(t, k + 1).line
                   /\ Starts(t)[k][Location(t, k + 1).line] = k + 2 - Location(t, k + 1).column}
<1>1. Len(t) \in Nat
  BY LenProperties
<1>2. 0 \in S
  <2>1. PICK s : s = <<1>>
    OBVIOUS
  <2>2. Len(s) = 1 /\ s[1] = 1
    BY <2>1
  <2>3. Starts(t)[0] = s
    BY <2>1, StartsFacts
  <2>4. PICK loc : loc = Location(t, 0 + 1)
    OBVIOUS
  <2>5. loc.line = 1 /\ loc.column = 1
    <3>1. 0 + 1 = 1
      OBVIOUS
    <3>2. loc = [line |-> 1, column |-> 1]
      BY <2>4, <3>1, LocationFirst
    <3> QED
      BY <3>2
  <2>6. Len(s) = loc.line /\ s[loc.line] = 0 + 2 - loc.column
    BY <2>2, <2>5
  <2> QED
    BY <2>3, <2>4, <2>6
<1>3. ASSUME NEW k \in Nat, k \in S
      PROVE  k + 1 \in S
  <2> SUFFICES ASSUME k + 1 <= Len(t)
               PROVE  /\ Len(Starts(t)[k + 1]) = Location(t, k + 1 + 1).line
                      /\ Starts(t)[k + 1][Location(t, k + 1 + 1).line]
                           = k + 1 + 2 - Location(t, k + 1 + 1).column
    OBVIOUS
  <2>1. k \in 0..Len(t) /\ k + 1 \in 1..Len(t) /\ k + 1 - 1 = k /\ k + 1 \in Nat \ {0}
    BY <1>1
  <2>2. PICK s, loc, next, r :
          /\ s = Starts(t)[k] /\ loc = Location(t, k + 1)
          /\ next = Location(t, k + 1 + 1) /\ r = Starts(t)[k + 1]
    OBVIOUS
  <2>3. s \in Seq(Nat) /\ Len(s) = loc.line /\ s[loc.line] = k + 2 - loc.column
    BY <1>1, <1>3, <2>1, <2>2, StartsFacts
  <2>4. /\ loc.line \in 1..(k + 1) /\ loc.column \in 1..(k + 1)
        /\ next = IF t[k + 1] = "\n" THEN [line |-> loc.line + 1, column |-> 1]
                  ELSE [line |-> loc.line, column |-> loc.column + 1]
    BY <2>1, <2>2, LocationNext
  <2>5. r = IF t[k + 1] = "\n" THEN Append(s, k + 1 + 1) ELSE s
    BY <2>1, <2>2, StartsFacts
  <2>6. CASE t[k + 1] = "\n"
    <3>1. next.line = loc.line + 1 /\ next.column = 1
      BY <2>4, <2>6
    <3>2. k + 1 + 1 \in Nat /\ k + 1 + 1 = k + 1 + 2 - 1
      OBVIOUS
    <3>3. Len(r) = loc.line + 1 /\ r[loc.line + 1] = k + 1 + 1
      <4>1. PICK x : x = k + 1 + 1
        OBVIOUS
      <4>2. s \in Seq(Nat) /\ x \in Nat /\ r = Append(s, x) /\ Len(s) = loc.line
        BY <2>3, <2>5, <2>6, <3>2, <4>1
      <4>3. Len(Append(s, x)) = Len(s) + 1 /\ Append(s, x)[Len(s) + 1] = x
        BY ONLY <4>2, AppendProperties
      <4> QED
        BY ONLY <4>1, <4>2, <4>3
    <3> QED
      BY <2>2, <3>1, <3>2, <3>3
  <2>7. CASE t[k + 1] # "\n"
    <3>1. next.line = loc.line /\ next.column = loc.column + 1 /\ r = s
      BY <2>4, <2>5, <2>7
    <3>2. k + 2 - loc.column = k + 1 + 2 - (loc.column + 1)
      <4>1. k \in Nat /\ loc.column \in Nat
        BY <2>4
      <4> QED
        BY ONLY <4>1
    <3> QED
      BY <2>2, <2>3, <3>1, <3>2
  <2> QED
    BY <2>6, <2>7
<1> HIDE DEF S
<1>4. Nat \subseteq S
  BY <1>2, <1>3, SetInduction
<1> QED
  BY <1>1, <1>4 DEF S

(* Lines that began stay.                                                  *)
LEMMA StartsGrow ==
  ASSUME NEW t \in Seq(STRING), NEW n \in 0..Len(t), NEW l \in 1..Len(Starts(t)[n])
  PROVE  l <= Len(lineStarts(t)) /\ lineStarts(t)[l] = Starts(t)[n][l]
<1> DEFINE S == {k \in Nat : n + k <= Len(t) =>
                   l \in 1..Len(Starts(t)[n + k]) /\ Starts(t)[n + k][l] = Starts(t)[n][l]}
<1>1. Len(t) \in Nat
  BY LenProperties
<1>2. 0 \in S
  BY <1>1
<1>3. ASSUME NEW k \in Nat, k \in S
      PROVE  k + 1 \in S
  <2> SUFFICES ASSUME n + (k + 1) <= Len(t)
               PROVE  /\ l \in 1..Len(Starts(t)[n + (k + 1)])
                      /\ Starts(t)[n + (k + 1)][l] = Starts(t)[n][l]
    OBVIOUS
  <2>1. PICK m : m = n + (k + 1)
    OBVIOUS
  <2>2. m \in 1..Len(t) /\ m - 1 = n + k /\ m - 1 \in 0..Len(t) /\ n + k <= Len(t) /\ m + 1 \in Nat
    BY <1>1, <2>1
  <2>3. PICK s, r : s = Starts(t)[m - 1] /\ r = Starts(t)[m]
    OBVIOUS
  <2>4. s \in Seq(Nat) /\ l \in 1..Len(s) /\ s[l] = Starts(t)[n][l]
    BY <1>3, <2>2, <2>3, StartsFacts
  <2>5. r = IF t[m] = "\n" THEN Append(s, m + 1) ELSE s
    BY <2>2, <2>3, StartsFacts
  <2>6. l \in 1..Len(r) /\ r[l] = s[l]
    <3>1. CASE t[m] = "\n"
      <4>1. Len(r) = Len(s) + 1 /\ r[l] = s[l] /\ Len(s) \in Nat
        BY <2>2, <2>4, <2>5, <3>1, AppendProperties, LenProperties
      <4> QED
        BY <2>4, <4>1
    <3>2. CASE t[m] # "\n"
      BY <2>4, <2>5, <3>2
    <3> QED
      BY <3>1, <3>2
  <2> QED
    BY <2>1, <2>3, <2>4, <2>6
<1> HIDE DEF S
<1>4. Nat \subseteq S
  BY <1>2, <1>3, SetInduction
<1>5. PICK k \in Nat : n + k = Len(t)
  <2>1. Len(t) - n \in Nat /\ n + (Len(t) - n) = Len(t)
    BY <1>1
  <2> QED
    BY <2>1
<1>6. l \in 1..Len(Starts(t)[Len(t)]) /\ Starts(t)[Len(t)][l] = Starts(t)[n][l]
  BY <1>1, <1>4, <1>5 DEF S
<1> QED
  BY <1>6, StartsFacts

(* The line, from where it begins to the next newline.                     *)
LineEnd(t, begin) ==
  CHOOSE p \in begin..(Len(t) + 1) :
    /\ p <= Len(t) => t[p] = "\n"
    /\ \A q \in begin..(p - 1) : t[q] # "\n"
Cut(t, begin, end) == IF end > begin /\ t[end - 1] = "\r" THEN end - 1 ELSE end

LEMMA LineEndIs ==
  ASSUME NEW t \in Seq(STRING), NEW begin \in Text(t)
  PROVE  /\ LineEnd(t, begin) \in begin..(Len(t) + 1)
         /\ LineEnd(t, begin) <= Len(t) => t[LineEnd(t, begin)] = "\n"
         /\ \A q \in begin..(LineEnd(t, begin) - 1) : t[q] # "\n"
<1> DEFINE T == {p \in begin..(Len(t) + 1) : p <= Len(t) => t[p] = "\n"}
<1>1. Len(t) \in Nat /\ begin \in Nat /\ begin <= Len(t) + 1
  BY LenProperties DEF Text
<1>2. Len(t) + 1 \in T /\ T \subseteq Nat
  BY <1>1
<1>3. PICK e \in T : \A p \in T : e <= p
  <2> HIDE DEF T
  <2> QED
    BY <1>2, LeastNumber
<1>4. ASSUME NEW q \in begin..(e - 1), t[q] = "\n"
      PROVE  FALSE
  <2>1. q \in T /\ ~(e <= q)
    BY <1>1, <1>4
  <2> QED
    BY <1>3, <2>1
<1>5. /\ e \in begin..(Len(t) + 1) /\ (e <= Len(t) => t[e] = "\n")
      /\ \A q \in begin..(e - 1) : t[q] # "\n"
  BY <1>4
<1> QED
  BY <1>5, Zenon DEF LineEnd

LEMMA LineTextIs ==
  ASSUME NEW t \in Seq(STRING), NEW a \in Text(t), NEW loc, loc = Location(t, a)
  PROVE  \E begin \in 1..a, end \in a..(Len(t) + 1) :
           /\ begin = a - loc.column + 1
           /\ \A q \in begin..(end - 1) : t[q] # "\n"
           /\ end <= Len(t) => t[end] = "\n"
           /\ lineText(t, loc.line) = SubSeq(t, begin, Cut(t, begin, end) - 1)
<1>1. Len(t) \in Nat /\ a \in Nat \ {0} /\ a <= Len(t) + 1
  BY LenProperties DEF Text
<1>2. PICK m \in {0} \union Newlines(t, a) :
        /\ \A k \in {0} \union Newlines(t, a) : k <= m
        /\ m \in 0..(a - 1)
        /\ Location(t, a) = [line |-> 1 + Cardinality(Newlines(t, a)), column |-> a - m]
  BY <1>1, LocationIs
<1>3. loc.column = a - m
  BY <1>2
<1>4. PICK begin : begin = m + 1
  OBVIOUS
<1>5. begin \in 1..a /\ begin = a - loc.column + 1 /\ begin \in Text(t)
  BY <1>1, <1>2, <1>3, <1>4 DEF Text
<1>6. \A q \in begin..(a - 1) : t[q] # "\n"
  <2> SUFFICES ASSUME NEW q \in begin..(a - 1), t[q] = "\n" PROVE FALSE
    OBVIOUS
  <2>1. q \in Newlines(t, a) /\ ~(q <= m)
    BY <1>1, <1>2, <1>4 DEF Newlines
  <2> QED
    BY <1>2, <2>1
<1>7. PICK end : end = LineEnd(t, begin)
  OBVIOUS
<1>8. /\ end \in begin..(Len(t) + 1) /\ (end <= Len(t) => t[end] = "\n")
      /\ \A q \in begin..(end - 1) : t[q] # "\n"
  BY <1>5, <1>7, LineEndIs
<1>9. end \in a..(Len(t) + 1)
  <2>1. ~(end < a)
    <3> SUFFICES ASSUME end < a PROVE FALSE
      OBVIOUS
    <3>1. end \in begin..(a - 1) /\ end <= Len(t)
      BY <1>1, <1>5, <1>8
    <3> QED
      BY <1>6, <1>8, <3>1
  <2> QED
    BY <1>1, <1>5, <1>8, <2>1
<1>10. loc.line <= Len(lineStarts(t)) /\ lineStarts(t)[loc.line] = begin
  <2>1. PICK n : n = a - 1
    OBVIOUS
  <2>2. n \in 0..Len(t) /\ n + 1 = a /\ n + 2 - loc.column = begin
    BY <1>1, <1>3, <1>4, <2>1
  <2>3. Len(Starts(t)[n]) = loc.line /\ Starts(t)[n][loc.line] = begin
    BY <2>2, StartsLast
  <2>4. loc.line \in 1..a
    BY <1>1, LocationNext
  <2>5. loc.line \in 1..Len(Starts(t)[n])
    BY <2>3, <2>4
  <2> QED
    BY <2>2, <2>3, <2>5, StartsGrow
<1>11. ~(loc.line > Len(lineStarts(t)))
  <2>1. Len(lineStarts(t)) \in Nat
    <3>1. lineStarts(t) \in Seq(Nat)
      BY <1>1, StartsFacts
    <3> QED
      BY <3>1, LenProperties
  <2>2. loc.line \in Nat
    <3>1. loc.line \in 1..a
      BY <1>1, LocationNext
    <3> QED
      BY <1>1, <3>1
  <2> QED
    BY <1>10, <2>1, <2>2
<1>12. lineText(t, loc.line) = SubSeq(t, begin, Cut(t, begin, end) - 1)
  <2>1. PICK l : l = loc.line
    OBVIOUS
  <2>2. lineText(t, l) =
          IF l > Len(lineStarts(t)) THEN <<>>
          ELSE SubSeq(t, lineStarts(t)[l],
                      Cut(t, lineStarts(t)[l], LineEnd(t, lineStarts(t)[l])) - 1)
    BY Zenon DEF lineText, LineEnd, Cut
  <2>3. lineStarts(t)[l] = begin /\ ~(l > Len(lineStarts(t)))
    BY <1>10, <1>11, <2>1
  <2>4. lineText(t, l) = SubSeq(t, begin, Cut(t, begin, end) - 1)
    BY ONLY <1>7, <2>2, <2>3
  <2> QED
    BY <2>1, <2>4
<1> QED
  BY <1>5, <1>8, <1>9, <1>12

(* What a token says is what stands there: none of it is blank.            *)
LEMMA TokenText ==
  ASSUME NEW t \in Seq(STRING), NEW a \in Text(t), IsToken(PieceAt(t, a)),
         NEW s, s = PieceAt(t, a).lexeme
  PROVE  \/ a = Len(t) + 1 /\ s = <<>> /\ PieceAt(t, a).kind = <<"EOF">>
         \/ \E e \in a..Len(t) :
              a \in 1..Len(t) /\ s = SubSeq(t, a, e) /\ \A q \in a..e : t[q] \notin Blanks
<1>1. Len(t) \in Nat /\ a \in Nat /\ 1 <= a /\ a <= Len(t) + 1
  BY LenProperties DEF Text
<1>2. PICK piece : piece = PieceAt(t, a)
  OBVIOUS
<1>3. piece.kind \notin {<<"Blank">>, <<"Comment">>, <<"OpenComment">>} /\ piece.lexeme = s
  BY <1>2, Zenon DEF IsToken
<1>4. \A k, at, x : Piece(k, at, x).kind = k /\ Piece(k, at, x).lexeme = x
  BY DEF Piece
<1>5. CASE a > Len(t)
  <2>1. piece = Piece(<<"EOF">>, a, <<>>)
    BY <1>1, <1>2, <1>5, EndPiece
  <2>2. piece.kind = <<"EOF">> /\ piece.lexeme = <<>> /\ a = Len(t) + 1
    BY <1>1, <1>5, <2>1 DEF Piece
  <2> QED
    BY <1>2, <1>3, <2>2
<1>6. CASE ~(a > Len(t))
  <2>1. a \in 1..Len(t) /\ a \in a..Len(t)
    BY <1>1, <1>6
  <2>2. t[a] \notin Blanks
    <3> SUFFICES ASSUME t[a] \in Blanks PROVE FALSE
      OBVIOUS
    <3>1. PICK x : piece = Piece(<<"Blank">>, a, x)
      BY <1>2, <2>1, InnerPiece
    <3> QED
      BY <1>3, <1>4, <3>1
  <2>3. ~Opens(t, a)
    <3>1. ASSUME Opens(t, a), Closings(t, a) = {}
          PROVE  FALSE
      <4>1. PICK x : piece = Piece(<<"OpenComment">>, a, x)
        BY <1>2, <2>1, <3>1, InnerPiece
      <4> QED
        BY <1>3, <1>4, <4>1
    <3>2. ASSUME Opens(t, a), Closings(t, a) # {}
          PROVE  FALSE
      <4>1. PICK x : piece = Piece(<<"Comment">>, a, x)
        BY <1>2, <2>1, <3>2, InnerPiece
      <4> QED
        BY <1>3, <1>4, <4>1
    <3> QED
      BY <3>1, <3>2
  <2>4. CASE Longest(t, a) = <<>>
    <3>1. PICK x : x = <<t[a]>>
      OBVIOUS
    <3>2. piece = Piece(<<"Error">>, a, x)
      BY <1>2, <2>1, <2>2, <2>3, <2>4, <3>1, InnerPiece
    <3>3. piece.lexeme = x
      BY <3>2 DEF Piece
    <3>4. s = SubSeq(t, a, a)
      BY <1>3, <2>1, <3>1, <3>3, OneCharacter
    <3>5. \A q \in a..a : t[q] \notin Blanks
      BY <1>1, <2>2
    <3> QED
      BY <2>1, <3>4, <3>5
  <2>5. CASE Longest(t, a) # <<>>
    <3>1. PICK e \in a..Len(t) : Longest(t, a) = SubSeq(t, a, e) /\ IsLexeme(SubSeq(t, a, e))
      BY <2>1, <2>5, LongestPlace
    <3>2. PICK x, k : x = SubSeq(t, a, e) /\ k = Kind(x)
      OBVIOUS
    <3>3. piece = Piece(k, a, x)
      BY <1>2, <2>1, <2>2, <2>3, <2>5, <3>1, <3>2, InnerPiece
    <3>4. s = x
      BY <1>3, <3>3 DEF Piece
    <3>5. ASSUME NEW q \in a..e
          PROVE  t[q] \notin Blanks
      <4>1. x[1] = t[a] /\ Len(x) = e - a + 1 /\ q - a + 1 \in 1..Len(x) /\ x[q - a + 1] = t[q]
        BY <2>1, <3>2, PartFacts
      <4>2. CASE IsWord(x)
        <5>1. t[q] \in Letters
          BY <2>1, <3>2, <4>2, PartOfClass DEF IsWord
        <5> QED
          BY <5>1, Classes
      <4>3. CASE IsNumber(x)
        <5>1. t[q] \in DOMAIN Digits
          BY <2>1, <3>2, <4>3, PartOfClass DEF IsNumber
        <5> QED
          BY <5>1, Classes
      <4>4. CASE x \in Symbols
        <5>1. "=" \in SymbolCharacters
          BY Zenon DEF SymbolCharacters, Simple
        <5>2. \A i \in 1..Len(x) : x[i] \in SymbolCharacters
          BY <4>4, <5>1, SymbolForms DEF SymbolCharacters
        <5>3. t[q] \in SymbolCharacters
          BY <4>1, <5>2
        <5> QED
          BY <5>3, Classes
      <4> QED
        BY <3>1, <3>2, <4>2, <4>3, <4>4 DEF IsLexeme
    <3> QED
      BY <2>1, <3>2, <3>4, <3>5
  <2> QED
    BY <2>4, <2>5
<1> QED
  BY <1>5, <1>6

LEMMA PaddingIs ==
  ASSUME NEW s, NEW k \in Nat \ {0}
  PROVE  /\ Len(padding(s, k)) = k - 1
         /\ \A i \in 1..(k - 1) :
              (padding(s, k)[i] = "\t") <=> (i <= Len(s) /\ s[i] = "\t")
<1>1. PICK n \in Nat : n = k - 1
  OBVIOUS
<1>2. PICK f : f = [i \in 1..n |-> IF i <= Len(s) /\ s[i] = "\t" THEN "\t" ELSE " "]
  OBVIOUS
<1>3. \A i \in 1..n : (f[i] = "\t") <=> (i <= Len(s) /\ s[i] = "\t")
  BY <1>2
<1>4. PICK T : T = {"\t", " "}
  OBVIOUS
<1>7. f \in [1..n -> T]
  BY <1>2, <1>4, Zenon
<1>5. Len(f) = n
  BY ONLY n \in Nat, <1>7
<1>6. padding(s, k) = f
  BY <1>1, <1>2 DEF padding
<1> QED
  BY <1>1, <1>3, <1>5, <1>6

CaretFits(t, a, s, loc, shown, before) ==
  IF shown = <<>> THEN PieceAt(t, a).kind = <<"EOF">> /\ before = 0
  ELSE /\ SubSeq(shown[1], loc.column, before + Len(s)) = s
       /\ Len(shown[2]) = before
       /\ \A n \in 1..before : (t[a - n] = "\t") <=> (shown[2][before + 1 - n] = "\t")

(* The caret of a token stands under its first character.                  *)
LEMMA CaretRight ==
  ASSUME NEW t \in Seq(STRING), NEW a \in Text(t), IsToken(PieceAt(t, a)),
         NEW s, s = PieceAt(t, a).lexeme, NEW loc, loc = Location(t, a),
         NEW shown, shown = render(t, loc), NEW before, before = loc.column - 1
  PROVE  CaretFits(t, a, s, loc, shown, before)
<1>1. PICK begin \in 1..a, end \in a..(Len(t) + 1) :
        /\ begin = a - loc.column + 1
        /\ \A q \in begin..(end - 1) : t[q] # "\n"
        /\ end <= Len(t) => t[end] = "\n"
        /\ lineText(t, loc.line) = SubSeq(t, begin, Cut(t, begin, end) - 1)
  BY LineTextIs
<1>2. Len(t) \in Nat /\ a \in Nat \ {0} /\ a <= Len(t) + 1
  BY LenProperties DEF Text
<1>3. loc.column \in 1..a
  BY <1>2, LocationNext
<1>4. PICK col, cut, row : col = loc.column /\ cut = Cut(t, begin, end)
                              /\ row = SubSeq(t, begin, cut - 1)
  OBVIOUS
<1>5. /\ col \in 1..a /\ before = col - 1 /\ before \in Nat /\ begin + before = a
      /\ begin \in Nat /\ 1 <= begin /\ begin <= a /\ end \in Nat /\ a <= end /\ end <= Len(t) + 1
  BY <1>1, <1>2, <1>3, <1>4
<1>13. /\ col \in Nat /\ 1 <= col /\ before = col - 1 /\ before \in Nat /\ begin + before = a
       /\ a \in Nat /\ begin \in Nat /\ end \in Nat /\ Len(t) \in Nat
       /\ 1 <= begin /\ begin <= a /\ a <= end /\ end <= Len(t) + 1
  BY <1>2, <1>5
<1>6. /\ cut \in begin..end
      /\ cut = end \/ (cut = end - 1 /\ t[end - 1] = "\r")
  BY <1>4, <1>5 DEF Cut
<1>7. /\ row \in Seq(STRING) /\ Len(row) = cut - begin
      /\ \A i \in 1..(cut - begin) : row[i] = t[begin + i - 1]
  <2>1. \A i \in begin..(cut - 1) : t[i] \in STRING
    BY <1>2, <1>5, <1>6, ElementOfSeq
  <2>2. cut - 1 \in Int /\ begin \in Int
    BY <1>5, <1>6
  <2>3. /\ row \in Seq(STRING)
        /\ Len(row) = IF begin <= cut - 1 THEN cut - 1 - begin + 1 ELSE 0
        /\ \A i \in 1..(cut - 1 - begin + 1) : row[i] = t[begin + i - 1]
    BY <1>4, <2>1, <2>2, SubSeqProperties
  <2>4. cut - 1 - begin + 1 = cut - begin /\ (~(begin <= cut - 1) => cut - begin = 0)
    BY <1>5, <1>6
  <2> QED
    BY <2>3, <2>4
<1>14. cut \in Int /\ begin <= cut /\ cut <= end /\ Len(row) = cut - begin
  BY <1>13, <1>6, <1>7
<1>8. shown = IF row = <<>> /\ col <= 1 THEN <<>> ELSE <<row, padding(row, col)>>
  <2>1. lineText(t, loc.line) = row
    BY <1>1, <1>4
  <2>2. shown = IF lineText(t, loc.line) = <<>> /\ loc.column <= 1 THEN <<>>
                ELSE <<lineText(t, loc.line), padding(lineText(t, loc.line), loc.column)>>
    BY Zenon DEF render
  <2> QED
    BY ONLY <1>4, <2>1, <2>2
<1>9. PICK pad : pad = padding(row, col)
  OBVIOUS
<1>10. /\ Len(pad) = before
       /\ \A i \in 1..before : (pad[i] = "\t") <=> (i <= Len(row) /\ row[i] = "\t")
  BY <1>2, <1>5, <1>9, PaddingIs
<1>11. CASE a = Len(t) + 1 /\ s = <<>> /\ PieceAt(t, a).kind = <<"EOF">>
  <2>1. end = a
    BY <1>5, <1>11
  <2>2. row = <<>> /\ col <= 1 => before = 0
    BY ONLY <1>13
  <2>3. SubSeq(row, col, before + Len(s)) = s
    <3>1. Len(s) = 0 /\ before + Len(s) = col - 1 /\ col \in Int /\ col - 1 \in Int
      BY <1>5, <1>11
    <3>2. \A i \in col..(col - 1) : row[i] \in STRING
      BY <1>5
    <3>3. /\ SubSeq(row, col, col - 1) \in Seq(STRING)
          /\ Len(SubSeq(row, col, col - 1)) = 0
      <4>1. ~(col <= col - 1)
        BY <1>5
      <4> QED
        BY <3>1, <3>2, <4>1, SubSeqProperties
    <3>4. SubSeq(row, col, col - 1) = <<>>
      BY <3>3, EmptySeq
    <3> QED
      BY <1>11, <3>1, <3>4
  <2>4. \A n \in 1..before : (t[a - n] = "\t") <=> (pad[before + 1 - n] = "\t")
    <3> SUFFICES ASSUME NEW n \in 1..before
                 PROVE  (t[a - n] = "\t") <=> (pad[before + 1 - n] = "\t")
      OBVIOUS
    <3>1. PICK i : i = before + 1 - n
      OBVIOUS
    <3>2. i \in 1..before /\ begin + i - 1 = a - n
      BY ONLY <1>13, <3>1
    <3>3. CASE i <= Len(row)
      <4>1. row[i] = t[a - n]
        BY <1>7, <3>2, <3>3
      <4> QED
        BY <1>10, <3>1, <3>2, <3>3, <4>1
    <3>4. CASE ~(i <= Len(row))
      <4>1. cut = end - 1 /\ t[end - 1] = "\r" /\ a - n = end - 1
        BY <1>5, <1>6, <1>7, <2>1, <3>2, <3>4
      <4>2. t[a - n] # "\t"
        BY <4>1
      <4>3. pad[i] # "\t"
        BY <1>10, <3>2, <3>4
      <4> QED
        BY <3>1, <4>2, <4>3
    <3> QED
      BY <3>3, <3>4
  <2>5. CASE row = <<>> /\ col <= 1
    BY <1>8, <1>11, <2>2, <2>5 DEF CaretFits
  <2>6. CASE ~(row = <<>> /\ col <= 1)
    <3>1. shown = <<row, pad>>
      BY <1>8, <1>9, <2>6
    <3>2. shown[1] = row /\ shown[2] = pad /\ shown # <<>>
      BY <3>1
    <3> QED
      BY <1>4, <1>10, <2>3, <2>4, <3>2 DEF CaretFits
  <2> QED
    BY <2>5, <2>6
<1>12. ASSUME NEW e \in a..Len(t), a \in 1..Len(t), s = SubSeq(t, a, e),
              \A q \in a..e : t[q] \notin Blanks
       PROVE  /\ shown # <<>>
              /\ SubSeq(shown[1], loc.column, before + Len(s)) = s
              /\ Len(shown[2]) = before
              /\ \A n \in 1..before :
                   (t[a - n] = "\t") <=> (shown[2][before + 1 - n] = "\t")
  <2>1. "\n" \in Blanks /\ "\r" \in Blanks
    BY CharacterAssumption
  <2>2. e \in Nat /\ a <= e /\ e <= Len(t)
    BY <1>2
  <2>3. e + 1 <= end
    <3> SUFFICES ASSUME end <= e PROVE FALSE
      BY <1>5, <2>2
    <3>1. end \in a..e /\ end <= Len(t)
      BY <1>5, <2>2
    <3> QED
      BY <1>1, <1>12, <2>1, <3>1
  <2>4. e + 1 <= cut
    <3>1. CASE cut = end
      BY <2>3, <3>1
    <3>2. CASE cut = end - 1 /\ t[end - 1] = "\r"
      <4>1. end - 1 # e
        BY <1>12, <2>1, <2>2, <3>2
      <4> QED
        BY <1>5, <2>2, <2>3, <3>2, <4>1
    <3> QED
      BY <1>6, <3>1, <3>2
  <2>5. PICK h : h = before + (e - a + 1)
    OBVIOUS
  <2>6. /\ Len(row) = cut - begin /\ col \in 1..Len(row) /\ h \in col..Len(row)
        /\ h - col + 1 = e - a + 1 /\ 1 <= Len(row)
    BY ONLY <1>13, <1>14, <2>2, <2>4, <2>5
  <2>7. row # <<>>
    BY <1>7, <2>6, EmptySeq
  <2>8. shown = <<row, pad>>
    BY <1>8, <1>9, <2>7
  <2>9. shown[1] = row /\ shown[2] = pad /\ shown # <<>>
    BY <2>8
  <2>10. PICK x : x = SubSeq(row, col, h)
    OBVIOUS
  <2>11. /\ x \in Seq(STRING) /\ Len(x) = e - a + 1
         /\ \A i \in 1..Len(x) : col + i - 1 \in col..h /\ x[i] = row[col + i - 1]
    BY <1>7, <2>6, <2>10, PartFacts
  <2>12. /\ s \in Seq(STRING) /\ Len(s) = e - a + 1
         /\ \A i \in 1..Len(s) : s[i] = t[a + i - 1]
    BY <1>12, PartFacts
  <2>13. \A i \in 1..(e - a + 1) : x[i] = s[i]
    <3> SUFFICES ASSUME NEW i \in 1..(e - a + 1) PROVE x[i] = s[i]
      OBVIOUS
    <3>1. PICK j : j = col + i - 1
      OBVIOUS
    <3>2. j \in 1..(cut - begin) /\ begin + j - 1 = a + i - 1
      BY ONLY <1>13, <1>14, <2>2, <2>4, <3>1
    <3>3. x[i] = row[j] /\ s[i] = t[a + i - 1]
      BY <2>11, <2>12, <3>1
    <3> QED
      BY <1>7, <3>2, <3>3
  <2>14. x = s
    BY <2>11, <2>12, <2>13, SeqEqual
  <2>15. SubSeq(shown[1], loc.column, before + Len(s)) = s
    BY <1>4, <2>5, <2>9, <2>10, <2>12, <2>14
  <2>16. \A n \in 1..before : (t[a - n] = "\t") <=> (pad[before + 1 - n] = "\t")
    <3> SUFFICES ASSUME NEW n \in 1..before
                 PROVE  (t[a - n] = "\t") <=> (pad[before + 1 - n] = "\t")
      OBVIOUS
    <3>1. PICK i : i = before + 1 - n
      OBVIOUS
    <3>2. i \in 1..before /\ begin + i - 1 = a - n /\ i <= Len(row) /\ i \in 1..(cut - begin)
      BY ONLY <1>13, <1>14, <2>2, <2>4, <3>1
    <3>3. row[i] = t[a - n]
      BY <1>7, <3>2
    <3> QED
      BY <1>10, <3>1, <3>2, <3>3
  <2> QED
    BY <1>10, <2>9, <2>15, <2>16
<1> QED
  BY <1>11, <1>12, TokenText DEF CaretFits

LEMMA ScansCarets ==
  ASSUME LInv
  PROVE  CaretsExact
<1> SUFFICES ASSUME state = "Stopped", NEW i \in DOMAIN tokens
             PROVE  LET loc == tokens[i].loc
                        shown == render(source, loc)
                        before == loc.column - 1
                        from == TokenPieces(source)[i].at
                    IN IF shown = <<>> THEN tokens[i].kind = <<"EOF">> /\ before = 0
                       ELSE /\ SubSeq(shown[1], loc.column, before + Len(tokens[i].lexeme))
                                 = tokens[i].lexeme
                            /\ Len(shown[2]) = before
                            /\ \A n \in 1..before :
                                 (source[from - n] = "\t") <=> (shown[2][before + 1 - n] = "\t")
  BY Zenon DEF CaretsExact
<1>1. source \in Seq(STRING)
  BY ScansFacts
<1>2. tokens[i] = TokenOf(TokenPieces(source)[i])
  BY ScansExact DEF TokensExact
<1>3. PICK a \in Text(source) :
        TokenPieces(source)[i] = PieceAt(source, a) /\ IsToken(PieceAt(source, a))
  <2>1. PICK whole : whole = TokenPieces(source)
    OBVIOUS
  <2>2. whole = Rest(source, TokenPlaces(source), 1)
    <3>1. ~(1 > Len(source) + 1)
      BY <1>1, LenProperties
    <3>2. whole = PiecesAt(source, TokenPlaces(source))
      BY <2>1, Zenon DEF TokenPieces, TokenPlaces, Text
    <3> QED
      BY <3>1, <3>2, PiecesAtIs DEF Rest
  <2>3. 1 \in 1..(Len(source) + 2)
    BY <1>1, LenProperties
  <2>4. whole \in Seq(Chosen(source, TokenPlaces(source)))
    BY <1>1, <2>2, <2>3, RestChosen
  <2>5. i \in 1..Len(whole)
    <3>1. PICK M : tokens \in Seq(M)
      BY SeenFacts DEF Emitted, Emits
    <3>2. Len(tokens) <= Len(whole)
      BY <2>1, ScansExact DEF TokensExact
    <3>3. i \in 1..Len(tokens) /\ Len(whole) \in Nat
      BY <2>4, <3>1, LenProperties
    <3> QED
      BY <3>2, <3>3
  <2>6. whole[i] \in Chosen(source, TokenPlaces(source))
    BY <2>4, <2>5, ElementOfSeq
  <2>7. PICK b \in Text(source) \cap TokenPlaces(source) : whole[i] = PieceAt(source, b)
    BY <2>6 DEF Chosen
  <2>8. IsToken(PieceAt(source, b))
    BY <2>7 DEF TokenPlaces
  <2> QED
    BY <2>1, <2>7, <2>8
<1>4. PICK piece : piece = PieceAt(source, a)
  OBVIOUS
<1>5. piece.at = a
  <2>1. Len(source) \in Nat /\ a \in Nat
    BY <1>1, LenProperties DEF Text
  <2>2. CASE a > Len(source)
    <3>1. piece = Piece(<<"EOF">>, a, <<>>)
      BY <1>4, <2>1, <2>2, EndPiece
    <3> QED
      BY <3>1 DEF Piece
  <2>3. CASE ~(a > Len(source))
    <3>1. a \in 1..Len(source)
      BY <2>1, <2>3 DEF Text
    <3> QED
      BY <1>1, <1>4, <3>1, PieceMoves
  <2> QED
    BY <2>2, <2>3
<1>6. PICK tok : tok = tokens[i]
  OBVIOUS
<1>7. tok.kind = piece.kind /\ tok.loc = Location(source, a) /\ tok.lexeme = piece.lexeme
  BY <1>2, <1>3, <1>4, <1>5, <1>6 DEF TokenOf, make
<1>8. TokenPieces(source)[i].at = a
  BY <1>3, <1>4, <1>5
<1>9. PICK loc, shown, before :
        loc = tok.loc /\ shown = render(source, loc) /\ before = loc.column - 1
  OBVIOUS
<1>11. PICK s : s = piece.lexeme
  OBVIOUS
<1>12. loc = Location(source, a) /\ s = PieceAt(source, a).lexeme
  BY <1>4, <1>7, <1>9, <1>11
<1>13. CaretFits(source, a, s, loc, shown, before)
  BY <1>1, <1>3, <1>9, <1>12, CaretRight
<1>10. IF shown = <<>> THEN tok.kind = <<"EOF">> /\ before = 0
       ELSE /\ SubSeq(shown[1], loc.column, before + Len(tok.lexeme)) = tok.lexeme
            /\ Len(shown[2]) = before
            /\ \A n \in 1..before :
                 (source[a - n] = "\t") <=> (shown[2][before + 1 - n] = "\t")
  BY ONLY <1>4, <1>7, <1>11, <1>13, Zenon DEF CaretFits
<1> QED
  BY <1>6, <1>8, <1>9, <1>10, Zenon

-----------------------------------------------------------------------------
(* Whatever the text, the lexer stays within it, counts lines and columns  *)
(* that are in it, and gives no token a value beyond what its long long    *)
(* can hold, however long the numeral (Lexer::next, Lexer::advance).       *)
THEOREM TypeCorrect ==
  Spec => []TypeOK
  BY AlwaysScans, ScansTyped, PTL

(* Whatever the text, the automaton cuts it as the definition of the       *)
(* language does, although it never sees more than one character ahead:    *)
(* every token it has made is the next one of the longest-lexeme rule,     *)
(* with the kind, the value and the place of its first character, and when *)
(* it stops it has made them all (Lexer::next, tokenize).                  *)
THEOREM TokensAreExact ==
  Spec => []TokensExact
  BY AlwaysScans, ScansExact, PTL

(* Whatever the text, when the scan is over it has reported exactly what   *)
(* is wrong in it, each error once, in the order of the text and at its    *)
(* place: characters that begin nothing, numbers that do not fit, and a    *)
(* comment that never closes where it begins (Lexer::next, Lexer.h).       *)
THEOREM ErrorsAreExact ==
  Spec => []ErrorsExact
  BY AlwaysScans, ScansExact, PTL

(* Whatever the text, when the scan is over the caret that the engine      *)
(* would print for a token stands under its first character: the line it   *)
(* finds by itself, between two newlines and without a carriage return,    *)
(* holds the lexeme from the caret's column on, and the padding has a tab  *)
(* where the line has one.  Nothing is shown only for the end of a file    *)
(* that ends with an empty line (DiagnosticEngine::render, lineText;       *)
(* Lexer::advance).                                                        *)
THEOREM CaretsAreExact ==
  Spec => []CaretsExact
  BY AlwaysScans, ScansCarets, PTL
=============================================================================
