------------------------------ MODULE MCParser ------------------------------
(***************************************************************************)
(* The texts: correct programs that use every rule; every text that        *)
(* differs from one of them by a token that is missing, added or replaced, *)
(* or that stops early; and a function with any three tokens as its body   *)
(* and any three tokens behind it.                                         *)
(***************************************************************************)
EXTENDS Grammar, ASTPrinter

Function(body) == <<"void", "id", "(", "void", ")", "{">> \o body \o <<"}">>

Short ==
  { <<"int", "id", ";", "void", "id", "[", "num", "]", ";">>,
    <<"int", "id", "(", "int", "id", ",", "void", "id", "[", "]", ")", "{", "}", "int", "id", ";">>,
    Function(<<"int", "id", ";", "id", "=", "num", ";", "return", ";">>),
    Function(<<"id", "[", "id", "]", "=", "id", "=", "num", "<", "id", ";">>),
    Function(<<"return", "id", "+", "id", "*", "num", "+", "id", ";">>),
    Function(<<"id", "(", "id", "(", ")", ",", "num", ")", ";">>),
    Function(<<"id", "*", "(", "id", "+", "num", ")", "<", "(", "(", "num", ")", ")", ";">>),
    Function(<<"if", "(", "id", ")", "if", "(", "id", ")", ";", "else", "{", "}">>),
    Function(<<"while", "(", "num", ")", "if", "(", "id", ")", ";", "else", ";">>),
    Function(<<"if", "(", "id", ")", "while", "(", "id", ")", ";", "else", ";">>),
    Function(<<"{", "int", "id", ";", "{", ";", "}", "}", "return", "id", ";">>) }

Cut(t, k) == SubSeq(t, 1, k)
From(t, k) == SubSeq(t, k, Len(t))

Missing(t) == {Cut(t, k - 1) \o From(t, k + 1) : k \in 1..Len(t)}
Added(t) == {Cut(t, k - 1) \o <<x>> \o From(t, k) : k \in 1..Len(t) + 1, x \in Token}
Replaced(t) == {Cut(t, k - 1) \o <<x>> \o From(t, k + 1) : k \in 1..Len(t), x \in Token}
Stopped(t) == {Cut(t, k) : k \in 0..Len(t)}

Three == UNION {[1..n -> Token] : n \in 0..3}

MCInputs ==
  UNION {Missing(t) \union Added(t) \union Replaced(t) \union Stopped(t) : t \in Short}
    \union {Function(t) : t \in Three}
    \union {Function(<<>>) \o t : t \in Three}
=============================================================================
