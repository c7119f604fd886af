------------------------------- MODULE MCLink -------------------------------
(***************************************************************************)
(* Linking with every spelling of a few lists of words.                    *)
(***************************************************************************)
EXTENDS Link

(* A word is spelled in parts, each bare or in quotes of either kind.      *)
Bare(s) == [i \in 1..Len(s) |-> [kind |-> "bare", text |-> <<s[i]>>, means |-> <<s[i]>>]]
InQuotes(s, q) == << [kind |-> "quoted", text |-> <<q>> \o s \o <<q>>, means |-> s] >>
Blanks(s) == [i \in 1..Len(s) |-> [kind |-> "blank", text |-> <<s[i]>>, means |-> <<>>]]

MCLetters == {"a", "c", "l", "n", "g", "/", "x", "-"}

Program == {Bare(cc), InQuotes(cc, "'"), Bare(<<"c">>) \o InQuotes(<<"c">>, "\""),
            Bare(<<"/", "x">>), InQuotes(<<>>, "'")}
Argument == {InQuotes(<<>>, "\""), InQuotes(<<"a", " ", "'">>, "\""), InQuotes(<<"\"">>, "'"),
             Bare(<<"-">>) \o InQuotes(<<" ">>, "'")}

With(p, separator, a) == p \o Blanks(separator) \o a
MCCommands ==
  {Empty, Blanks(<<" ", "\t">>)}
    \union Program
    \union {With(Bare(cc), <<"\t", " ">>, a) : a \in Argument}
    \union {With(InQuotes(gcc, "\""), <<" ">>, a) : a \in Argument}

MCCCs == {Empty, With(Bare(gcc), <<"\n">>, InQuotes(<<"'">>, "\""))}
MCPaths == {{}, {cc, gcc, <<"l", "d", ".">> \o Lld}, {clang, gcc}, {gcc, <<"l", "d", ".">> \o Lld}}

(* What the parts are meant for.                                           *)
ASSUME SpellingAssumption ==
  /\ {Words(p) : p \in Program} = {<<cc>>, << <<"/", "x">> >>, << <<>> >>}
  /\ Words(Blanks(<<" ", "\t">>)) = <<>>
  /\ Words(With(Bare(<<"c">>) \o InQuotes(<<"c">>, "\""), <<" ">>, InQuotes(<<>>, "'"))) = <<cc, <<>> >>
  /\ Text(With(Bare(cc), <<"\t", " ">>, InQuotes(<<"a", " ", "'">>, "\""))) =
       <<"c", "c", "\t", " ", "\"", "a", " ", "'", "\"">>
=============================================================================
