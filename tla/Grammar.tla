------------------------------ MODULE Grammar -------------------------------
(***************************************************************************)
(* The grammar of C- (docs/spec/c-minus.md, section 2) as a definition of  *)
(* what the parser must compute: Trees(rule, i, j) is the set of the       *)
(* syntax trees that the rule derives from tokens[i..j-1], with no choice  *)
(* of a production and no lookahead.  Numbers are those of the rules.      *)
(***************************************************************************)
EXTENDS Parser

(* An `if' without else at the end of a statement would take an else that  *)
(* follows; the statement before an else must not end so.                  *)
RECURSIVE TakesElse(_)
TakesElse(s) ==
  \/ s.kind = "if" /\ (s.else = None \/ TakesElse(s.else))
  \/ s.kind = "while" /\ TakesElse(s.body)

Leaves(i, j, kinds) == j - i = Len(kinds) /\ \A k \in 1..Len(kinds) : tokens[i + k - 1] = kinds[k]
At(k, kind) == tokens[k] = kind
Splits(i, j, kind) == {k \in i..j - 1 : At(k, kind)}

(* Statements end with one of two tokens, which is where to look for the   *)
(* end of the first of several.                                            *)
Ends(i, j) == {k \in i + 1..j : tokens[k - 1] \in {";", "}"}}

RECURSIVE Trees(_, _, _)

(* lhs op rhs over [i, j), with lhs derived by `left' and rhs by `right'.  *)
RECURSIVE Operations(_, _, _, _, _)
Operations(op, left, right, i, j) ==
  UNION {UNION {{Binary(op, l, r) : r \in Trees(right, k + 1, j)} : l \in Trees(left, i, k)} :
           k \in Splits(i, j, op)}

(* One or more of `rule' with commas between.                              *)
RECURSIVE Listed(_, _, _)
Listed(rule, i, j) ==
  {<<t>> : t \in Trees(rule, i, j)}
    \union UNION {UNION {{<<t>> \o rest : rest \in Listed(rule, k + 1, j)} :
                           t \in Trees(rule, i, k)} : k \in Splits(i, j, ",")}

RECURSIVE Statements(_, _)
Statements(i, j) ==
  IF i = j THEN {<<>>}
  ELSE UNION {UNION {{<<s>> \o rest : rest \in Statements(k, j)} : s \in Trees("statement", i, k)} :
                k \in Ends(i, j)}

RECURSIVE Locals(_, _)
Locals(i, j) ==
  IF i = j THEN {<<>>}
  ELSE UNION {UNION {{<<d>> \o rest : rest \in Locals(k, j)} : d \in Trees("var-declaration", i, k)} :
                k \in Ends(i, j)}

RECURSIVE Declarations(_, _)
Declarations(i, j) ==
  UNION {UNION {{<<d>> \o rest : rest \in IF k = j THEN {<<>>} ELSE Declarations(k, j)} :
                  d \in Trees("declaration", i, k)} : k \in Ends(i, j)}

Trees(rule, i, j) ==
  CASE rule = "declaration" ->                                        \* 3
         Trees("var-declaration", i, j) \union Trees("fun-declaration", i, j)
    [] rule = "var-declaration" ->                                    \* 4
         {VarDecl(t, FALSE) : t \in {t \in TypeSpecifier : Leaves(i, j, <<t, "id", ";">>)}}
           \union
         {VarDecl(t, TRUE) :
            t \in {t \in TypeSpecifier : Leaves(i, j, <<t, "id", "[", "num", "]", ";">>)}}
    [] rule = "fun-declaration" ->                                    \* 6
         IF j - i < 6 \/ At(i, "id") \/ ~At(i + 1, "id") \/ ~At(i + 2, "(")
         THEN {}
         ELSE UNION {UNION {{FunDecl(tokens[i], ps, b) : b \in Trees("compound-stmt", k + 1, j)} :
                              ps \in Trees("params", i + 3, k)} :
                       k \in {k \in Splits(i + 3, j, ")") : tokens[i] \in TypeSpecifier}}
    [] rule = "params" ->                                             \* 7, 8
         Listed("param", i, j) \union (IF Leaves(i, j, <<"void">>) THEN {<<>>} ELSE {})
    [] rule = "param" ->                                              \* 9
         {Param(t, FALSE) : t \in {t \in TypeSpecifier : Leaves(i, j, <<t, "id">>)}}
           \union
         {Param(t, TRUE) : t \in {t \in TypeSpecifier : Leaves(i, j, <<t, "id", "[", "]">>)}}
    [] rule = "compound-stmt" ->                                      \* 10, 11, 12
         IF j - i < 2 \/ ~At(i, "{") \/ ~At(j - 1, "}")
         THEN {}
         ELSE UNION {UNION {{CompoundStmt(ds, ss) : ss \in Statements(k, j - 1)} :
                              ds \in Locals(i + 1, k)} :
                       k \in {i + 1} \union Ends(i + 1, j - 1)}
    [] rule = "statement" ->                                          \* 13
         CASE i = j -> {}
           [] i # j /\ At(i, "{") -> Trees("compound-stmt", i, j)
           [] i # j /\ At(i, "if") -> Trees("selection-stmt", i, j)
           [] i # j /\ At(i, "while") -> Trees("iteration-stmt", i, j)
           [] i # j /\ At(i, "return") ->                             \* 17
                {ReturnStmt(e) : e \in Trees("optional-expression", i + 1, j)}
           [] OTHER -> {ExprStmt(e) : e \in Trees("optional-expression", i, j)}  \* 14
    [] rule = "optional-expression" ->
         CASE i = j -> {}
           [] i # j /\ ~At(j - 1, ";") -> {}
           [] i # j /\ At(j - 1, ";") /\ i = j - 1 -> {None}
           [] OTHER -> Trees("expression", i, j - 1)
    [] rule = "selection-stmt" ->                                     \* 15
         IF j - i < 5 \/ ~At(i + 1, "(")
         THEN {}
         ELSE UNION {UNION {
                {IfStmt(c, s, None) : s \in Trees("statement", k + 1, j)}
                  \union
                UNION {UNION {{IfStmt(c, s, e) : e \in Trees("statement", m + 1, j)} :
                                s \in {s \in Trees("statement", k + 1, m) : ~TakesElse(s)}} :
                         m \in Splits(k + 2, j, "else")}
                : c \in Trees("expression", i + 2, k)} : k \in Splits(i + 3, j, ")")}
    [] rule = "iteration-stmt" ->                                     \* 16
         IF j - i < 5 \/ ~At(i + 1, "(")
         THEN {}
         ELSE UNION {UNION {{WhileStmt(c, s) : s \in Trees("statement", k + 1, j)} :
                              c \in Trees("expression", i + 2, k)} : k \in Splits(i + 3, j, ")")}
    [] rule = "expression" ->                                         \* 18
         Trees("simple-expression", i, j)
           \union UNION {UNION {{Assign(v, e) : e \in Trees("expression", k + 1, j)} :
                                  v \in Trees("var", i, k)} : k \in Splits(i, j, "=")}
    [] rule = "var" ->                                                \* 19
         CASE Leaves(i, j, <<"id">>) -> {Var(None)}
           [] j - i >= 4 /\ At(i, "id") /\ At(i + 1, "[") /\ At(j - 1, "]") ->
                {Var(e) : e \in Trees("expression", i + 2, j - 1)}
           [] OTHER -> {}
    [] rule = "simple-expression" ->                                  \* 20
         Operations("<", "additive-expression", "additive-expression", i, j)
           \union Trees("additive-expression", i, j)
    [] rule = "additive-expression" ->                                \* 22
         Operations("+", "additive-expression", "term", i, j) \union Trees("term", i, j)
    [] rule = "term" ->                                               \* 24
         Operations("*", "term", "factor", i, j) \union Trees("factor", i, j)
    [] rule = "factor" ->                                             \* 26
         Trees("var", i, j) \union Trees("call", i, j)
           \union (IF Leaves(i, j, <<"num">>) THEN {Num} ELSE {})
           \union (IF j - i >= 3 /\ At(i, "(") /\ At(j - 1, ")")
                   THEN {[e EXCEPT !.parenthesized = TRUE] : e \in Trees("expression", i + 1, j - 1)}
                   ELSE {})
    [] rule = "call" ->                                               \* 27, 28, 29
         IF j - i >= 3 /\ At(i, "id") /\ At(i + 1, "(") /\ At(j - 1, ")")
         THEN {Call(a) : a \in IF j - i = 3 THEN {<<>>} ELSE Listed("expression", i + 2, j - 1)}
         ELSE {}

(* The whole text, without its end of file.                                *)
Programs == IF Len(tokens) = 1 THEN {} ELSE Declarations(1, Len(tokens))

(* Parsing succeeds on exactly the texts that the grammar derives, and the *)
(* tree it gives is then the one derivation there is: precedence,          *)
(* associativity, targets of assignments and the pairing of else are those *)
(* of the rules, though the parser never backtracks.                       *)
ParsesGrammar ==
  Done => IF errors = <<>> THEN Programs = {decls} ELSE Programs = {}
=============================================================================
